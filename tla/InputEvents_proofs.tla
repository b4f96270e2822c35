-------------------------- MODULE InputEvents_proofs --------------------------
(***************************************************************************)
(* Proofs about InputEvents: type correctness, that no event is forgotten  *)
(* in the buffer, and that the ring implements the queue of InputQueue,    *)
(* for any size of the buffer and any events.                              *)
(***************************************************************************)
EXTENDS InputEvents, TLAPS

-----------------------------------------------------------------------------
(* Type correctness *)

\* The successor of a slot, without the remainder it is computed by
LEMMA Advance ==
  ASSUME NEW s \in Slots
  PROVE  /\ iebAdvance(s) \in Slots
         /\ iebAdvance(s) = IF s = IEB_SIZE - 1 THEN 0 ELSE s + 1
BY InputEventsAssumption DEF InputEventsAssumption, Slots, iebAdvance

LEMMA InitTypeOK == Init => TypeOK
<1> SUFFICES ASSUME Init PROVE TypeOK
  OBVIOUS
<1>1. (CHOOSE e \in Events : TRUE) \in Events
  BY InputEventsAssumption DEF InputEventsAssumption
<1>2. 0 \in Slots
  BY InputEventsAssumption DEF InputEventsAssumption, Slots
<1>3. inputEventBuffer \in [Slots -> Events]
  BY <1>1 DEF Init
<1>4. /\ iebIn = 0 /\ iebOut = 0 /\ requests = 0 /\ signals = 0
      /\ checking = FALSE /\ sensor = "waiting"
  BY DEF Init
<1>5. requests \in Nat /\ signals \in Nat /\ requests + signals <= MaxSignals
  BY <1>4, InputEventsAssumption DEF InputEventsAssumption
<1>6. QED
  BY <1>2, <1>3, <1>4, <1>5 DEF TypeOK

LEMMA AllocateTypeOK ==
  ASSUME TypeOK, NEW e \in Events, AllocateInputEvent(e)
  PROVE  inputEventBuffer' \in [Slots -> Events] /\ iebIn' \in Slots /\ iebOut' \in Slots
<1>1. iebAdvance(iebIn) \in Slots /\ iebAdvance(iebOut) \in Slots
  BY Advance DEF TypeOK
<1>2. QED
  BY <1>1 DEF TypeOK, AllocateInputEvent

LEMMA InductiveTypeOK == TypeOK /\ [Next]_vars => TypeOK'
<1> SUFFICES ASSUME TypeOK, [Next]_vars PROVE TypeOK'
  OBVIOUS
<1>1. ASSUME NEW e \in Events, RecordEvent(e) PROVE TypeOK'
  <2>1. /\ requests' \in Nat /\ UNCHANGED <<signals, checking, sensor>>
        /\ requests' + signals' <= MaxSignals
    BY <1>1, InputEventsAssumption DEF InputEventsAssumption, TypeOK, RecordEvent
  <2>2. QED
    BY <1>1, <2>1, AllocateTypeOK DEF TypeOK, RecordEvent
<1>2. CASE StartCheck
  BY <1>2 DEF TypeOK, StartCheck, ring
<1>3. CASE EndCheck
  <2>1. /\ signals' = signals + requests /\ requests' = 0 /\ checking' = FALSE
        /\ UNCHANGED <<inputEventBuffer, iebIn, iebOut, sensor>>
    BY <1>3 DEF EndCheck, ring
  <2>2. signals' \in Nat /\ requests' \in Nat /\ requests' + signals' <= MaxSignals
    BY <2>1, InputEventsAssumption DEF InputEventsAssumption, TypeOK
  <2>3. QED
    BY <2>1, <2>2 DEF TypeOK
<1>4. CASE SensorWait
  BY <1>4, InputEventsAssumption DEF InputEventsAssumption, TypeOK, SensorWait, ring
<1>5. CASE PollForEvents
  BY <1>5 DEF TypeOK, PollForEvents, ring
<1>6. CASE GetNextEvent
  <2>1. iebOut' \in Slots /\ sensor' \in {"waiting", "fetching"}
    BY <1>6, Advance DEF TypeOK, GetNextEvent
  <2>2. QED
    BY <1>6, <2>1 DEF TypeOK, GetNextEvent
<1>7. CASE UNCHANGED vars
  BY <1>7 DEF TypeOK, vars, ring
<1>8. QED
  BY <1>1, <1>2, <1>3, <1>4, <1>5, <1>6, <1>7 DEF Next

\* Every variable of the input events keeps its type, and indices stay within the ring.
THEOREM InputTypeCorrect == Spec => []TypeOK
<1>1. QED
  BY InitTypeOK, InductiveTypeOK, PTL DEF Spec

-----------------------------------------------------------------------------
(* Announced events *)

\* Each step that fills the buffer asks for a signal, and each that takes a signal or a request
\* away makes the image fetch or hands the request on.
LEMMA InductiveNoEventForgotten ==
  TypeOK /\ NoEventForgotten /\ [Next]_vars => NoEventForgotten'
<1> SUFFICES ASSUME TypeOK, NoEventForgotten, [Next]_vars PROVE NoEventForgotten'
  OBVIOUS
<1>1. ASSUME NEW e \in Events, RecordEvent(e) PROVE NoEventForgotten'
  <2>1. requests' > 0
    BY <1>1 DEF TypeOK, RecordEvent
  <2>2. QED
    BY <2>1 DEF NoEventForgotten
<1>2. CASE StartCheck \/ PollForEvents
  BY <1>2 DEF NoEventForgotten, iebEmptyP, StartCheck, PollForEvents, ring
<1>3. CASE EndCheck
  BY <1>3 DEF TypeOK, NoEventForgotten, iebEmptyP, EndCheck, ring
<1>4. CASE SensorWait
  BY <1>4 DEF NoEventForgotten, SensorWait
<1>5. CASE GetNextEvent
  BY <1>5 DEF NoEventForgotten, iebEmptyP, GetNextEvent
<1>6. CASE UNCHANGED vars
  BY <1>6 DEF NoEventForgotten, iebEmptyP, vars, ring
<1>7. QED
  BY <1>1, <1>2, <1>3, <1>4, <1>5, <1>6 DEF Next

\* While an event is in the buffer the image fetches, or will be made to, whenever it arrived.
THEOREM NoEventIsForgotten == Spec => []NoEventForgotten
<1>1. Init => NoEventForgotten
  BY DEF Init, NoEventForgotten, iebEmptyP
<1>2. QED
  BY <1>1, InitTypeOK, InductiveTypeOK, InductiveNoEventForgotten, PTL DEF Spec

-----------------------------------------------------------------------------
(* The ring is a queue *)

\* The slot of the k-th event, the number of events and the events in order, of a ring with
\* buffer b, next slot to write i and next slot to read o
Slot(o, k) == (o + k - 1) % IEB_SIZE
Count(i, o) == IF i >= o THEN i - o ELSE i + IEB_SIZE - o
InOrder(b, i, o) == [k \in 1 .. Count(i, o) |-> b[Slot(o, k)]]

LEMMA ContentsInOrder ==
  /\ contents = InOrder(inputEventBuffer, iebIn, iebOut)
  /\ contents' = InOrder(inputEventBuffer', iebIn', iebOut')
BY DEF contents, pending, InOrder, Count, Slot

LEMMA SlotValue ==
  ASSUME NEW o \in Slots, NEW k \in 1 .. IEB_SIZE
  PROVE  /\ Slot(o, k) \in Slots
         /\ Slot(o, k) = IF o + k - 1 < IEB_SIZE THEN o + k - 1 ELSE o + k - 1 - IEB_SIZE
BY InputEventsAssumption DEF InputEventsAssumption, Slots, Slot

LEMMA InOrderType ==
  ASSUME NEW b \in [Slots -> Events], NEW i \in Slots, NEW o \in Slots
  PROVE  /\ Count(i, o) \in 0 .. IEB_SIZE - 1
         /\ InOrder(b, i, o) \in [1 .. Count(i, o) -> Events]
         /\ \A k \in 1 .. Count(i, o) : InOrder(b, i, o)[k] = b[Slot(o, k)]
<1>1. Count(i, o) \in 0 .. IEB_SIZE - 1
  BY InputEventsAssumption DEF InputEventsAssumption, Slots, Count
<1>2. \A k \in 1 .. Count(i, o) : k \in 1 .. IEB_SIZE
  BY <1>1, InputEventsAssumption DEF InputEventsAssumption
<1>3. \A k \in 1 .. Count(i, o) : Slot(o, k) \in Slots
  BY <1>2, SlotValue
<1>4. QED
  BY <1>1, <1>3 DEF InOrder

\* Three facts about sequences
LEMMA AppendIs ==
  ASSUME NEW S, NEW n \in Nat, NEW f \in [1 .. n -> S], NEW e \in S,
         NEW g \in [1 .. n + 1 -> S], \A k \in 1 .. n : g[k] = f[k], g[n + 1] = e
  PROVE  g = Append(f, e) /\ Len(f) = n
OBVIOUS

LEMMA AppendToTailIs ==
  ASSUME NEW S, NEW n \in Nat, n > 0, NEW f \in [1 .. n -> S], NEW e \in S,
         NEW g \in [1 .. n -> S], \A k \in 1 .. n - 1 : g[k] = f[k + 1], g[n] = e
  PROVE  g = Append(Tail(f), e) /\ Len(f) = n
OBVIOUS

LEMMA TailIs ==
  ASSUME NEW S, NEW n \in Nat, n > 0, NEW f \in [1 .. n -> S],
         NEW g \in [1 .. n - 1 -> S], \A k \in 1 .. n - 1 : g[k] = f[k + 1]
  PROVE  g = Tail(f) /\ f # <<>>
OBVIOUS

\* There is room: the event enters at the end.
LEMMA RoomFor ==
  ASSUME NEW b \in [Slots -> Events], NEW i \in Slots, NEW o \in Slots, NEW e \in Events,
         iebAdvance(i) # o
  PROVE  LET q == InOrder(b, i, o)
         IN  /\ Len(q) # IEB_SIZE - 1
             /\ InOrder([b EXCEPT ![i] = e], iebAdvance(i), o) = Append(q, e)
<1> DEFINE n == Count(i, o)
           c == [b EXCEPT ![i] = e]
           f == InOrder(b, i, o)
           g == InOrder(c, iebAdvance(i), o)
<1>1. /\ iebAdvance(i) \in Slots
      /\ iebAdvance(i) = IF i = IEB_SIZE - 1 THEN 0 ELSE i + 1
  BY Advance
<1>2. Count(iebAdvance(i), o) = n + 1 /\ n \in 0 .. IEB_SIZE - 2
  BY <1>1, InputEventsAssumption DEF InputEventsAssumption, Slots, Count
<1>3. /\ f \in [1 .. n -> Events] /\ \A k \in 1 .. n : f[k] = b[Slot(o, k)]
      /\ g \in [1 .. n + 1 -> Events] /\ \A k \in 1 .. n + 1 : g[k] = c[Slot(o, k)]
  <2>1. c \in [Slots -> Events]
    OBVIOUS
  <2>2. f \in [1 .. n -> Events] /\ \A k \in 1 .. n : f[k] = b[Slot(o, k)]
    BY InOrderType
  <2>3. Count(iebAdvance(i), o) = n + 1
    BY <1>2
  <2> HIDE DEF c
  <2>4. /\ g \in [1 .. Count(iebAdvance(i), o) -> Events]
        /\ \A k \in 1 .. Count(iebAdvance(i), o) : g[k] = c[Slot(o, k)]
    BY <1>1, <2>1, InOrderType
  <2>5. QED
    BY <2>2, <2>3, <2>4
<1>4. ASSUME NEW k \in 1 .. n PROVE g[k] = f[k]
  <2>1. k \in 1 .. n + 1 /\ k \in 1 .. IEB_SIZE
    BY <1>2, InputEventsAssumption DEF InputEventsAssumption
  <2>2. /\ Slot(o, k) \in Slots
        /\ Slot(o, k) = IF o + k - 1 < IEB_SIZE THEN o + k - 1 ELSE o + k - 1 - IEB_SIZE
    BY <2>1, SlotValue
  <2>3. Slot(o, k) # i
    BY <2>1, <2>2, InputEventsAssumption DEF InputEventsAssumption, Slots, Count
  <2>4. QED
    BY <1>3, <2>1, <2>2, <2>3
<1>5. g[n + 1] = e
  <2>1. n + 1 \in 1 .. n + 1 /\ n + 1 \in 1 .. IEB_SIZE
    BY <1>2, InputEventsAssumption DEF InputEventsAssumption
  <2>2. Slot(o, n + 1) = IF o + (n + 1) - 1 < IEB_SIZE THEN o + (n + 1) - 1
                                                     ELSE o + (n + 1) - 1 - IEB_SIZE
    BY <2>1, SlotValue
  <2>3. Slot(o, n + 1) = i
    BY <1>2, <2>2, InputEventsAssumption DEF InputEventsAssumption, Slots, Count
  <2>4. QED
    BY <1>3, <2>1, <2>3
<1>6. n \in Nat
  BY <1>2, InputEventsAssumption DEF InputEventsAssumption
<1>7. n # IEB_SIZE - 1
  BY <1>2, InputEventsAssumption DEF InputEventsAssumption
<1> HIDE DEF n, f, g
<1>8. g = Append(f, e) /\ Len(f) = n
  BY <1>3, <1>4, <1>5, <1>6, AppendIs
<1>9. QED
  BY <1>7, <1>8 DEF f, g

\* There is none: the oldest event leaves.
LEMMA NoRoomFor ==
  ASSUME NEW b \in [Slots -> Events], NEW i \in Slots, NEW o \in Slots, NEW e \in Events,
         iebAdvance(i) = o
  PROVE  LET q == InOrder(b, i, o)
         IN  /\ Len(q) = IEB_SIZE - 1
             /\ InOrder([b EXCEPT ![i] = e], iebAdvance(i), iebAdvance(o)) = Append(Tail(q), e)
<1> DEFINE n == Count(i, o)
           c == [b EXCEPT ![i] = e]
           p == iebAdvance(o)
           f == InOrder(b, i, o)
           g == InOrder(c, iebAdvance(i), p)
<1>1. /\ o = IF i = IEB_SIZE - 1 THEN 0 ELSE i + 1
      /\ p \in Slots /\ p = IF o = IEB_SIZE - 1 THEN 0 ELSE o + 1
  BY Advance
<1>2. n = IEB_SIZE - 1 /\ Count(o, p) = n
  BY <1>1, InputEventsAssumption DEF InputEventsAssumption, Slots, Count
<1>3. /\ f \in [1 .. n -> Events] /\ \A k \in 1 .. n : f[k] = b[Slot(o, k)]
      /\ g \in [1 .. n -> Events] /\ \A k \in 1 .. n : g[k] = c[Slot(p, k)]
  <2>1. c \in [Slots -> Events]
    OBVIOUS
  <2>2. f \in [1 .. n -> Events] /\ \A k \in 1 .. n : f[k] = b[Slot(o, k)]
    BY InOrderType
  <2>3. Count(iebAdvance(i), p) = n
    BY <1>2
  <2> HIDE DEF c
  <2>4. /\ g \in [1 .. Count(iebAdvance(i), p) -> Events]
        /\ \A k \in 1 .. Count(iebAdvance(i), p) : g[k] = c[Slot(p, k)]
    BY <1>1, <2>1, InOrderType
  <2>5. QED
    BY <2>2, <2>3, <2>4
<1>4. ASSUME NEW k \in 1 .. n - 1 PROVE g[k] = f[k + 1]
  <2>1. k \in 1 .. n /\ k + 1 \in 1 .. n /\ k \in 1 .. IEB_SIZE /\ k + 1 \in 1 .. IEB_SIZE
    BY <1>2, InputEventsAssumption DEF InputEventsAssumption
  <2>2. /\ Slot(p, k) \in Slots
        /\ Slot(p, k) = IF p + k - 1 < IEB_SIZE THEN p + k - 1 ELSE p + k - 1 - IEB_SIZE
        /\ Slot(o, k + 1) = IF o + (k + 1) - 1 < IEB_SIZE THEN o + (k + 1) - 1
                                                        ELSE o + (k + 1) - 1 - IEB_SIZE
    BY <1>1, <2>1, SlotValue
  <2>3. Slot(p, k) = Slot(o, k + 1) /\ Slot(p, k) # i
    BY <1>1, <1>2, <2>1, <2>2, InputEventsAssumption DEF InputEventsAssumption, Slots
  <2>4. QED
    BY <1>3, <2>1, <2>2, <2>3
<1>5. g[n] = e
  <2>1. n \in 1 .. n /\ n \in 1 .. IEB_SIZE
    BY <1>2, InputEventsAssumption DEF InputEventsAssumption
  <2>2. Slot(p, n) = IF p + n - 1 < IEB_SIZE THEN p + n - 1 ELSE p + n - 1 - IEB_SIZE
    BY <1>1, <2>1, SlotValue
  <2>3. Slot(p, n) = i
    BY <1>1, <1>2, <2>2, InputEventsAssumption DEF InputEventsAssumption, Slots
  <2>4. QED
    BY <1>3, <2>1, <2>3
<1>6. n \in Nat /\ n > 0
  BY <1>2, InputEventsAssumption DEF InputEventsAssumption
<1> HIDE DEF n, f, g
<1>7. g = Append(Tail(f), e) /\ Len(f) = n
  BY <1>3, <1>4, <1>5, <1>6, AppendToTailIs
<1>8. QED
  BY <1>2, <1>7 DEF f, g, n

\* What is read is the oldest event.
LEMMA WithoutOldest ==
  ASSUME NEW b \in [Slots -> Events], NEW i \in Slots, NEW o \in Slots, i # o
  PROVE  LET q == InOrder(b, i, o)
         IN  q # <<>> /\ InOrder(b, i, iebAdvance(o)) = Tail(q)
<1> DEFINE n == Count(i, o)
           p == iebAdvance(o)
           f == InOrder(b, i, o)
           g == InOrder(b, i, p)
<1>1. p \in Slots /\ p = IF o = IEB_SIZE - 1 THEN 0 ELSE o + 1
  BY Advance
<1>2. n \in 1 .. IEB_SIZE - 1 /\ Count(i, p) = n - 1
  BY <1>1, InputEventsAssumption DEF InputEventsAssumption, Slots, Count
<1>3. /\ f \in [1 .. n -> Events] /\ \A k \in 1 .. n : f[k] = b[Slot(o, k)]
      /\ g \in [1 .. n - 1 -> Events] /\ \A k \in 1 .. n - 1 : g[k] = b[Slot(p, k)]
  BY <1>1, <1>2, InOrderType
<1>4. ASSUME NEW k \in 1 .. n - 1 PROVE g[k] = f[k + 1]
  <2>1. k + 1 \in 1 .. n /\ k \in 1 .. IEB_SIZE /\ k + 1 \in 1 .. IEB_SIZE
    BY <1>2, InputEventsAssumption DEF InputEventsAssumption
  <2>2. /\ Slot(p, k) = IF p + k - 1 < IEB_SIZE THEN p + k - 1 ELSE p + k - 1 - IEB_SIZE
        /\ Slot(o, k + 1) = IF o + (k + 1) - 1 < IEB_SIZE THEN o + (k + 1) - 1
                                                        ELSE o + (k + 1) - 1 - IEB_SIZE
    BY <1>1, <2>1, SlotValue
  <2>3. Slot(p, k) = Slot(o, k + 1)
    BY <1>1, <2>1, <2>2, InputEventsAssumption DEF InputEventsAssumption, Slots
  <2>4. QED
    BY <1>3, <2>1, <2>3
<1>5. n \in Nat /\ n > 0
  BY <1>2, InputEventsAssumption DEF InputEventsAssumption
<1> HIDE DEF n, f, g
<1>6. g = Tail(f) /\ f # <<>>
  BY <1>3, <1>4, <1>5, TailIs
<1>7. QED
  BY <1>6 DEF f, g

LEMMA InitContents == Init => contents = <<>>
<1> SUFFICES ASSUME Init PROVE contents = <<>>
  OBVIOUS
<1>1. pending = 0
  BY DEF Init, pending
<1>2. contents \in [1 .. 0 -> Events]
  BY <1>1 DEF contents
<1>3. QED
  BY <1>2

\* Allocating a slot for an event is what recording means to the queue.
LEMMA AllocateRecords ==
  ASSUME TypeOK, NEW e \in Events, AllocateInputEvent(e)
  PROVE  Queue!Record(e)
<1>1. CASE iebAdvance(iebIn) # iebOut
  <2>1. /\ Len(contents) # IEB_SIZE - 1
        /\ contents' = Append(contents, e)
    BY <1>1, RoomFor, ContentsInOrder DEF TypeOK, AllocateInputEvent
  <2>2. QED
    BY <2>1 DEF Queue!Record
<1>2. CASE iebAdvance(iebIn) = iebOut
  <2>1. /\ iebIn' = iebAdvance(iebIn) /\ iebOut' = iebAdvance(iebOut)
        /\ inputEventBuffer' = [inputEventBuffer EXCEPT ![iebIn] = e]
        /\ inputEventBuffer \in [Slots -> Events] /\ iebIn \in Slots /\ iebOut \in Slots
    BY <1>2 DEF AllocateInputEvent, TypeOK
  <2>2. /\ Len(contents) = IEB_SIZE - 1
        /\ contents' = Append(Tail(contents), e)
    BY <1>2, <2>1, NoRoomFor, ContentsInOrder
  <2>3. QED
    BY <2>2 DEF Queue!Record
<1>3. QED
  BY <1>1, <1>2

\* A step of the ring is a step of the queue, or leaves it alone.
LEMMA StepIsQueueStep == TypeOK /\ [Next]_vars => [Queue!Next]_contents
<1> SUFFICES ASSUME TypeOK, [Next]_vars PROVE [Queue!Next]_contents
  OBVIOUS
<1>1. ASSUME NEW e \in Events, RecordEvent(e) PROVE Queue!Next
  BY <1>1, AllocateRecords DEF RecordEvent, Queue!Next
<1>2. CASE GetNextEvent /\ ~iebEmptyP
  <2>1. contents # <<>> /\ contents' = Tail(contents)
    BY <1>2, WithoutOldest, ContentsInOrder DEF TypeOK, GetNextEvent, iebEmptyP
  <2>2. QED
    BY <2>1 DEF Queue!Next, Queue!Get
<1>3. CASE UNCHANGED ring
  BY <1>3 DEF ring, contents, pending
<1>4. QED
  BY <1>1, <1>2, <1>3
  DEF Next, StartCheck, EndCheck, SensorWait, PollForEvents, GetNextEvent, vars, ring

\* The ring of any size implements the bounded queue that forgets its oldest event, and every
\* event that is recorded enters it.
THEOREM RingImplementsQueue == Spec => RingIsQueue
<1>1. Init => Queue!Init
  BY InitContents DEF Queue!Init
<1>2. TypeOK => [\A e \in Events : RecordEvent(e) => Queue!Record(e)]_vars
  BY AllocateRecords DEF RecordEvent
<1>3. QED
  BY <1>1, <1>2, InitTypeOK, InductiveTypeOK, StepIsQueueStep, PTL DEF Spec, RingIsQueue, Queue!Spec
=============================================================================

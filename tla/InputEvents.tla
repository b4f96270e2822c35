------------------------------ MODULE InputEvents ------------------------------
(***************************************************************************)
(* The input events of platforms/unix/vm/sqUnixEvent.c: a ring buffer that  *)
(* ioProcessEvents fills and ioGetNextEvent empties, and the semaphore that *)
(* tells the image of each event.  All of it runs in the VM thread, in      *)
(* event checks (see EventCheck) and in the primitive ioGetNextEvent.       *)
(***************************************************************************)
EXTENDS Integers, Sequences

CONSTANTS
  Events,
  IEB_SIZE,            \* size of the ring buffer, a power of two
  MaxSignals           \* bound: no event arrives while so many signals are outstanding

ASSUME InputEventsAssumption ==
  /\ Events # {}
  /\ IEB_SIZE \in Nat /\ IEB_SIZE > 1
  /\ MaxSignals \in Nat

VARIABLES
  inputEventBuffer,
  iebIn,               \* next slot to write
  iebOut,              \* next slot to read
  requests,            \* signals requested of inputEventSemaIndex, not yet given
  signals,             \* excess signals of the image's input semaphore
  checking,            \* an event check calls ioProcessEvents, or has yet to answer requests
  sensor               \* the image's process: "waiting" for the semaphore, "fetching", or "getting"
                       \* (inside ioGetNextEvent, which calls ioProcessEvents)

ring == <<inputEventBuffer, iebIn, iebOut>>
vars == <<ring, requests, signals, checking, sensor>>

Slots == 0 .. IEB_SIZE - 1

TypeOK ==
  /\ inputEventBuffer \in [Slots -> Events]
  /\ iebIn \in Slots /\ iebOut \in Slots
  /\ requests \in Nat /\ signals \in Nat /\ requests + signals <= MaxSignals
  /\ checking \in BOOLEAN
  /\ sensor \in {"waiting", "fetching", "getting"}

Init ==
  /\ inputEventBuffer = [s \in Slots |-> CHOOSE e \in Events : TRUE]
  /\ iebIn = 0 /\ iebOut = 0
  /\ requests = 0 /\ signals = 0
  /\ checking = FALSE /\ sensor = "waiting"

iebEmptyP == iebIn = iebOut
BugNoWrap(p) == p + 1
iebAdvance(p) == (p + 1) % IEB_SIZE

\* The newest event is discarded instead of the oldest.
BugDiscardNewest(e) ==
  /\ inputEventBuffer' = [inputEventBuffer EXCEPT ![iebIn] = e]
  /\ iebIn' = IF iebAdvance(iebIn) = iebOut THEN iebIn ELSE iebAdvance(iebIn)
  /\ UNCHANGED iebOut

\* allocateInputEvent, and the fields its caller fills in
AllocateInputEvent(e) ==
  /\ inputEventBuffer' = [inputEventBuffer EXCEPT ![iebIn] = e]
  /\ iebIn' = iebAdvance(iebIn)
  /\ iebOut' = IF iebAdvance(iebIn) = iebOut THEN iebAdvance(iebOut) ELSE iebOut

\* ioProcessEvents is being called.
Processing == checking \/ sensor = "getting"

\* One of the record functions forgets to signal.
BugForgetSignal(e) ==
  /\ Processing
  /\ requests + signals < MaxSignals
  /\ AllocateInputEvent(e)
  /\ requests' \in {requests, requests + 1}
  /\ UNCHANGED <<signals, checking, sensor>>

\* record...Event: the event enters the buffer and signalInputEvent requests a signal.
RecordEvent(e) ==
  /\ Processing
  /\ requests + signals < MaxSignals
  /\ AllocateInputEvent(e)
  /\ requests' = requests + 1
  /\ UNCHANGED <<signals, checking, sensor>>

\* An event check comes between two primitives of the image, and answers each request by a
\* signal at its end.
StartCheck ==
  /\ ~checking /\ sensor # "getting"
  /\ checking' = TRUE
  /\ UNCHANGED <<ring, requests, signals, sensor>>

\* One request too few is answered.
BugOneSignal ==
  /\ checking
  /\ checking' = FALSE
  /\ signals' = IF requests > 1 THEN signals + requests - 1 ELSE signals
  /\ requests' = 0
  /\ UNCHANGED <<ring, sensor>>

EndCheck ==
  /\ checking
  /\ checking' = FALSE
  /\ signals' = signals + requests
  /\ requests' = 0
  /\ UNCHANGED <<ring, sensor>>

\* The image's process waits for the semaphore, then fetches events until there are none.
SensorWait ==
  /\ ~checking
  /\ sensor = "waiting" /\ signals > 0
  /\ signals' = signals - 1
  /\ sensor' = "fetching"
  /\ UNCHANGED <<ring, requests, checking>>

\* ioGetNextEvent of an empty buffer processes the events of the window system first, ...
PollForEvents ==
  /\ ~checking
  /\ sensor = "fetching" /\ iebEmptyP
  /\ sensor' = "getting"
  /\ UNCHANGED <<ring, requests, signals, checking>>

\* ... and answers the oldest event, or none.
GetNextEvent ==
  /\ ~checking
  /\ sensor = "getting" \/ (sensor = "fetching" /\ ~iebEmptyP)
  /\ IF iebEmptyP
     THEN sensor' = "waiting" /\ UNCHANGED iebOut
     ELSE sensor' = "fetching" /\ iebOut' = iebAdvance(iebOut)
  /\ UNCHANGED <<inputEventBuffer, iebIn, requests, signals, checking>>

Next ==
  \/ \E e \in Events : RecordEvent(e)
  \/ StartCheck
  \/ EndCheck
  \/ SensorWait
  \/ PollForEvents
  \/ GetNextEvent

Spec == Init /\ [][Next]_vars

\* A request forces a check (ExternalSemaphores, EventCheck); ioProcessEvents returns; the
\* image's process has a high priority.
FairSpec ==
  /\ Spec
  /\ WF_vars(requests > 0 /\ StartCheck)
  /\ WF_vars(EndCheck)
  /\ SF_vars(SensorWait) /\ SF_vars(PollForEvents) /\ SF_vars(GetNextEvent)

-----------------------------------------------------------------------------
(* Properties                                                               *)

\* While an event is in the buffer the image is fetching, or a signal that makes it fetch is
\* given or on its way: no event is forgotten in the buffer, whenever it arrives.
NoEventForgotten ==
  ~iebEmptyP => sensor # "waiting" \/ requests > 0 \/ signals > 0

\* The ring is a queue that every event enters, and that loses its oldest event only, and only
\* when it is full.
pending == IF iebIn >= iebOut THEN iebIn - iebOut ELSE iebIn + IEB_SIZE - iebOut
contents == [k \in 1 .. pending |-> inputEventBuffer[(iebOut + k - 1) % IEB_SIZE]]
Queue == INSTANCE InputQueue WITH Capacity <- IEB_SIZE - 1, queue <- contents
RingIsQueue ==
  Queue!Spec /\ [][\A e \in Events : RecordEvent(e) => Queue!Record(e)]_vars

\* The oldest event of the buffer is fetched, or discarded for a newer one.
EventsMoveOn == \A s \in Slots : (~iebEmptyP /\ iebOut = s) ~> (iebEmptyP \/ iebOut # s)
=============================================================================

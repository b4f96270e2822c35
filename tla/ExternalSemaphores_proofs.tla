--------------------- MODULE ExternalSemaphores_proofs ---------------------
(***************************************************************************)
(* Proofs about ExternalSemaphores: type correctness; that no forced event *)
(* check is lost; that every signal answers a request; and that no request *)
(* is lost when all requestors are interrupt handlers.                     *)
(***************************************************************************)
EXTENDS ExternalSemaphores, TLAPS

USE DEF table, tides, locals, requestors, vmThread, counts

-----------------------------------------------------------------------------
(* Type correctness *)

\* One more request or response stays within the width of the counter.
LEMMA IncrementType ==
  ASSUME NEW n \in 0 .. CounterModulus - 1
  PROVE  Increment(n) \in 0 .. CounterModulus - 1
BY ConstantsAssumption DEF ConstantsAssumption, Increment

\* The ranges of the indices and of the marks, as the steps below need them.
LEMMA Ranges ==
  /\ 0 \in Indices
  /\ \A n \in Indices : n \in MinTide .. MaxTide /\ n \in 0 .. MaxTide
                        /\ n \in MinTide .. MaxTableSize - 1 /\ n + 1 \in 0 .. MaxTide
  /\ 0 \in 0 .. MaxTide /\ MaxTide \in 0 .. MaxTide
  /\ 0 \in MinTide .. MaxTide
  /\ MinTide \in MinTide .. MaxTableSize - 1
  /\ \A n \in 0 .. MaxTide : n \in MinTide .. MaxTide
  /\ \A n \in MinTide .. MaxTableSize - 1 : n \in MinTide .. MaxTide
  /\ \A n \in MinTide .. MaxTableSize - 1 :
       n >= ExtTableSize => ExtTableSize - 1 \in MinTide .. MaxTableSize - 1
  /\ \A n \in 0 .. MaxTide, h \in MinTide .. MaxTableSize - 1 : n <= h => n \in Indices
BY ConstantsAssumption DEF ConstantsAssumption, Indices, MinTide, MaxTide

\* There are two pairs of marks, each the other of the other.
LEMMA OtherTideType ==
  ASSUME NEW t \in Tides
  PROVE  OtherTide(t) \in Tides /\ OtherTide(t) # t /\ OtherTide(OtherTide(t)) = t
BY DEF Tides, OtherTide

\* The initial state is well typed.
LEMMA InitTypeOK == Init => TypeOK
<1> SUFFICES ASSUME Init PROVE TypeOK
  OBVIOUS
<1>1. /\ numSignalRequests \in 0 .. MaxTableSize
      /\ requests \in [Indices -> 0 .. CounterModulus - 1]
      /\ responses \in [Indices -> 0 .. CounterModulus - 1]
  BY ConstantsAssumption DEF ConstantsAssumption, Init
<1>2. useTide \in Tides /\ checkSignalRequests \in BOOLEAN /\ interruptForced \in BOOLEAN
  BY DEF Init, Tides
<1>3. lowTide \in [Tides -> 0 .. MaxTide] /\ highTide \in [Tides -> MinTide .. MaxTableSize - 1]
  BY Ranges DEF Init
<1>4. /\ pc \in [Requestors -> RequestorPCs]
      /\ i \in [Requestors -> Indices]
      /\ v \in [Requestors -> MinTide .. MaxTide]
      /\ tide \in [Requestors -> Tides]
  BY Ranges DEF Init, RequestorPCs, Tides
<1>5. vm \in VMPCs /\ low \in 0 .. MaxTide /\ high \in MinTide .. MaxTableSize - 1
  BY Ranges DEF Init, VMPCs
<1>6. called \in [Indices -> Nat] /\ signalled \in [Indices -> Nat] /\ skipped \in BOOLEAN
  BY DEF Init
<1>7. QED
  BY <1>1, <1>2, <1>3, <1>4, <1>5, <1>6 DEF TypeOK

\* Every state reachable in one step from a well typed state is well typed.
LEMMA InductiveTypeOK == TypeOK /\ [Next]_vars => TypeOK'
<1> SUFFICES ASSUME TypeOK, [Next]_vars PROVE TypeOK'
  OBVIOUS
<1> USE Ranges
<1>1. ASSUME NEW n \in 1 .. MaxTableSize, SetMaxExtSemTableSize(n) PROVE TypeOK'
  BY <1>1, ConstantsAssumption DEF ConstantsAssumption, TypeOK, SetMaxExtSemTableSize
<1>2. CASE StartInterpreter
  BY <1>2 DEF TypeOK, StartInterpreter, VMPCs
<1>3. ASSUME NEW r \in Requestors, NEW index \in 0 .. MaxTableSize,
             SignalSemaphoreWithIndex(r, index)
      PROVE  TypeOK'
  <2>1. index - 1 \in Indices
    BY <1>3, ConstantsAssumption
       DEF ConstantsAssumption, TypeOK, SignalSemaphoreWithIndex, Indices
  <2>2. QED
    BY <1>3, <2>1 DEF TypeOK, SignalSemaphoreWithIndex, RequestorPCs
<1>4. ASSUME NEW r \in Requestors, RequestorStep(r) PROVE TypeOK'
  <2>1. CASE AddRequest(r)
    <3>1. Increment(requests[i[r]]) \in 0 .. CounterModulus - 1
      BY IncrementType DEF TypeOK
    <3>2. QED
      BY <2>1, <3>1 DEF TypeOK, AddRequest, RequestorPCs
  <2>2. CASE ChooseTide(r)
    BY <2>2 DEF TypeOK, ChooseTide, RequestorPCs
  <2>3. CASE ReadLowTide(r)
    BY <2>3 DEF TypeOK, ReadLowTide, RequestorPCs
  <2>4. CASE LowerLowTide(r)
    BY <2>4 DEF TypeOK, LowerLowTide, RequestorPCs
  <2>5. CASE ReadHighTide(r)
    BY <2>5 DEF TypeOK, ReadHighTide, RequestorPCs
  <2>6. CASE RaiseHighTide(r)
    BY <2>6 DEF TypeOK, RaiseHighTide, RequestorPCs
  <2>7. CASE SetCheck(r)
    BY <2>7 DEF TypeOK, SetCheck, RequestorPCs
  <2>8. CASE ForceInterruptCheck(r)
    BY <2>8 DEF TypeOK, ForceInterruptCheck, RequestorPCs, Tides
  <2>9. QED
    BY <1>4, <2>1, <2>2, <2>3, <2>4, <2>5, <2>6, <2>7, <2>8 DEF RequestorStep
<1>5. CASE CheckForEvents \/ CheckForEventsWithoutSwitch
  BY <1>5 DEF TypeOK, CheckForEvents, CheckForEventsWithoutSwitch, VMPCs
<1>6. CASE DoSignalExternalSemaphores
  <2> USE DEF Goto, VMPCs
  <2>1. CASE TestCheck
    BY <2>1 DEF TypeOK, TestCheck
  <2>2. CASE ClearCheck
    BY <2>2 DEF TypeOK, ClearCheck
  <2>3. CASE ResetLowTide
    BY <2>3, OtherTideType DEF TypeOK, ResetLowTide
  <2>4. CASE ResetHighTide
    BY <2>4, OtherTideType DEF TypeOK, ResetHighTide
  <2>5. CASE FlipTide
    BY <2>5, OtherTideType DEF TypeOK, FlipTide
  <2>6. CASE ReadLow
    BY <2>6, OtherTideType DEF TypeOK, ReadLow
  <2>7. CASE ReadHigh
    BY <2>7, OtherTideType DEF TypeOK, ReadHigh
  <2>8. CASE Respond
    <3>1. low \in Indices /\ Increment(responses[low]) \in 0 .. CounterModulus - 1
      BY <2>8, IncrementType DEF TypeOK, Respond
    <3>2. QED
      BY <2>8, <3>1 DEF TypeOK, Respond
  <2>9. CASE NextIndex
    BY <2>9 DEF TypeOK, NextIndex
  <2>10. CASE EndScan
    BY <2>10 DEF TypeOK, EndScan
  <2>11. CASE Recheck
    BY <2>11 DEF TypeOK, Recheck
  <2>12. QED
    BY <1>6, <2>1, <2>2, <2>3, <2>4, <2>5, <2>6, <2>7, <2>8, <2>9, <2>10, <2>11
       DEF DoSignalExternalSemaphores
<1>7. CASE Heartbeat
  BY <1>7 DEF TypeOK, Heartbeat
<1>8. CASE UNCHANGED vars
  BY <1>8 DEF TypeOK, vars
<1>9. QED
  BY <1>1, <1>2, <1>3, <1>4, <1>5, <1>6, <1>7, <1>8 DEF Next

\* Counters, marks, locals and control states stay within their types, whatever
\* requestors there are (signalSemaphoreWithIndex, doSignalExternalSemaphores).
THEOREM TypeCorrect == Spec => []TypeOK
BY InitTypeOK, InductiveTypeOK, PTL DEF Spec

-----------------------------------------------------------------------------
(* No raised checkSignalRequests is left for nobody to look at. *)

\* NoLostInterrupt is inductive among well typed states.
LEMMA InductiveNoLostInterrupt ==
  TypeOK /\ NoLostInterrupt /\ [Next]_vars => NoLostInterrupt'
<1> SUFFICES ASSUME TypeOK, NoLostInterrupt, [Next]_vars PROVE NoLostInterrupt'
  OBVIOUS
<1> USE DEF NoLostInterrupt, VMPCs
<1>1. ASSUME NEW n \in 1 .. MaxTableSize, SetMaxExtSemTableSize(n) PROVE NoLostInterrupt'
  BY <1>1 DEF SetMaxExtSemTableSize
<1>2. CASE StartInterpreter
  BY <1>2 DEF StartInterpreter
<1>3. ASSUME NEW r \in Requestors, NEW index \in 0 .. MaxTableSize,
             SignalSemaphoreWithIndex(r, index)
      PROVE  NoLostInterrupt'
  BY <1>3 DEF SignalSemaphoreWithIndex, TypeOK
<1>4. ASSUME NEW r \in Requestors, RequestorStep(r) PROVE NoLostInterrupt'
  BY <1>4 DEF RequestorStep, AddRequest, ChooseTide, ReadLowTide, LowerLowTide, ReadHighTide,
              RaiseHighTide, SetCheck, ForceInterruptCheck, TypeOK
<1>5. CASE CheckForEvents \/ CheckForEventsWithoutSwitch
  BY <1>5 DEF CheckForEvents, CheckForEventsWithoutSwitch
<1>6. CASE DoSignalExternalSemaphores
  BY <1>6 DEF DoSignalExternalSemaphores, TestCheck, ClearCheck, ResetLowTide, ResetHighTide,
              FlipTide, ReadLow, ReadHigh, Respond, NextIndex, EndScan, Recheck, Goto
<1>7. CASE Heartbeat
  BY <1>7 DEF Heartbeat
<1>8. CASE UNCHANGED vars
  BY <1>8 DEF vars
<1>9. QED
  BY <1>1, <1>2, <1>3, <1>4, <1>5, <1>6, <1>7, <1>8 DEF Next

\* Whatever requestors there are, a request that raised checkSignalRequests is
\* looked at without waiting for the heartbeat: checkForEventsMayContextSwitch
\* restores the stack limit before doSignalExternalSemaphores tests the flag.
THEOREM InterruptsNotLost == Spec => []NoLostInterrupt
<1>1. Init => NoLostInterrupt
  BY DEF Init, NoLostInterrupt
<1>2. QED
  BY <1>1, InitTypeOK, InductiveTypeOK, InductiveNoLostInterrupt, PTL DEF Spec

-----------------------------------------------------------------------------
(* No request of an interrupt handler is lost. *)

\* What a requestor knows of the marks, when the VM thread cannot move them
\* under it: it moves the marks in use, only ever outwards, and they cover its
\* index when it is done with them.
MarksMoveOutwards ==
  \A r \in Requestors :
    /\ pc[r] # "idle" => vm # "startup"
    /\ pc[r] \in {"low", "lowCAS", "high", "highCAS", "flag"} => tide[r] = useTide
    /\ pc[r] = "lowCAS" => v[r] > i[r]
    /\ pc[r] \in {"high", "highCAS", "flag"} => lowTide[useTide] <= i[r]
    /\ pc[r] = "highCAS" => v[r] < i[r]
    /\ pc[r] = "flag" => i[r] <= highTide[useTide]

\* The VM clears the flag only after it has seen it raised.
FlagSeen == vm = "clear" => checkSignalRequests

\* The inductive invariant.
HandlersInv == TypeOK /\ MarksMoveOutwards /\ FlagSeen /\ NoSignalLost

\* A step of a requestor preserves what all requestors know of the marks.
LEMMA RequestorMarks ==
  ASSUME HandlersInv, NEW r \in Requestors, RequestorStep(r)
  PROVE  MarksMoveOutwards'
<1> SUFFICES ASSUME NEW q \in Requestors
             PROVE  /\ pc'[q] # "idle" => vm' # "startup"
                    /\ pc'[q] \in {"low", "lowCAS", "high", "highCAS", "flag"} => tide'[q] = useTide'
                    /\ pc'[q] = "lowCAS" => v'[q] > i'[q]
                    /\ pc'[q] \in {"high", "highCAS", "flag"} => lowTide'[useTide'] <= i'[q]
                    /\ pc'[q] = "highCAS" => v'[q] < i'[q]
                    /\ pc'[q] = "flag" => i'[q] <= highTide'[useTide']
  BY DEF MarksMoveOutwards
<1>0. /\ i[q] \in Int /\ i[r] \in Int /\ v[q] \in Int /\ v[r] \in Int
      /\ lowTide[useTide] \in Int /\ highTide[useTide] \in Int
  BY ConstantsAssumption
     DEF ConstantsAssumption, HandlersInv, TypeOK, Indices, MinTide, MaxTide
<1> USE <1>0 DEF HandlersInv, TypeOK, MarksMoveOutwards
<1>1. CASE AddRequest(r)
  BY <1>1 DEF AddRequest
<1>2. CASE ChooseTide(r)
  BY <1>2 DEF ChooseTide
<1>3. CASE ReadLowTide(r)
  BY <1>3 DEF ReadLowTide
<1>4. CASE LowerLowTide(r)
  BY <1>4 DEF LowerLowTide
<1>5. CASE ReadHighTide(r)
  BY <1>5 DEF ReadHighTide
<1>6. CASE RaiseHighTide(r)
  BY <1>6 DEF RaiseHighTide
<1>7. CASE SetCheck(r)
  BY <1>7 DEF SetCheck
<1>8. CASE ForceInterruptCheck(r)
  BY <1>8 DEF ForceInterruptCheck
<1>9. QED
  BY <1>1, <1>2, <1>3, <1>4, <1>5, <1>6, <1>7, <1>8 DEF RequestorStep

\* A step of a requestor widens the interval of marks, never narrows it.
LEMMA RequestorWidens ==
  ASSUME HandlersInv, NEW r \in Requestors, RequestorStep(r),
         NEW t \in Tides, NEW n \in Indices, Covers(t, n)
  PROVE  Covers(t, n)'
<1>0. /\ i[r] \in Int /\ v[r] \in Int /\ n \in Int
      /\ lowTide[t] \in Int /\ highTide[t] \in Int
  BY ConstantsAssumption
     DEF ConstantsAssumption, HandlersInv, TypeOK, Indices, MinTide, MaxTide
<1> USE <1>0 DEF Covers, HandlersInv, TypeOK
<1>1. CASE LowerLowTide(r)
  BY <1>1 DEF LowerLowTide, MarksMoveOutwards
<1>2. CASE RaiseHighTide(r)
  BY <1>2 DEF RaiseHighTide, MarksMoveOutwards
<1>3. CASE UNCHANGED tides
  BY <1>3
<1>4. QED
  BY <1>1, <1>2, <1>3 DEF RequestorStep, AddRequest, ChooseTide, ReadLowTide, ReadHighTide,
                          SetCheck, ForceInterruptCheck

\* A step of a requestor loses no request.
LEMMA RequestorLosesNothing ==
  ASSUME HandlersInv, NEW r \in Requestors, RequestorStep(r)
  PROVE  NoSignalLost'
<1> SUFFICES ASSUME NEW n \in Deliverable, requests'[n] # responses'[n]
             PROVE  InFlight(n)' \/ Announced(n)' \/ InScan(n)'
  BY DEF NoSignalLost, Deliverable
<1>0. n \in Indices /\ useTide \in Tides /\ OtherTide(useTide) \in Tides
  BY OtherTideType DEF Deliverable, HandlersInv, TypeOK
<1>1. UNCHANGED <<useTide, vm, low, high, responses>>
  BY DEF RequestorStep, AddRequest, ChooseTide, ReadLowTide, LowerLowTide, ReadHighTide,
         RaiseHighTide, SetCheck, ForceInterruptCheck
<1>2. CASE requests'[n] # requests[n]
  <2>1. AddRequest(r) /\ i[r] = n
    BY <1>0, <1>2 DEF RequestorStep, AddRequest, ChooseTide, ReadLowTide, LowerLowTide,
       ReadHighTide, RaiseHighTide, SetCheck, ForceInterruptCheck, HandlersInv, TypeOK
  <2>2. pc'[r] = "tide" /\ i'[r] = n
    BY <2>1 DEF AddRequest, HandlersInv, TypeOK
  <2>3. QED
    BY <2>2 DEF InFlight, RequestorPCs
<1>3. CASE requests'[n] = requests[n]
  <2>1. InFlight(n) \/ Announced(n) \/ InScan(n)
    BY <1>1, <1>3 DEF HandlersInv, NoSignalLost
  <2>2. CASE InFlight(n)
    <3>1. PICK q \in Requestors : i[q] = n /\ pc[q] \in RequestorPCs \ {"idle", "add", "force"}
      BY <2>2 DEF InFlight
    <3>2. CASE SetCheck(r) /\ q = r
      <4>1. Covers(useTide, n)
        BY <3>1, <3>2 DEF SetCheck, Covers, HandlersInv, MarksMoveOutwards
      <4>2. Covers(useTide, n)' /\ checkSignalRequests'
        BY <3>2, <4>1, <1>0, <1>1, RequestorWidens DEF SetCheck, Covers
      <4>3. QED
        BY <4>2 DEF Announced
    <3>3. CASE ~(SetCheck(r) /\ q = r)
      <4>1. i'[q] = n /\ pc'[q] \in RequestorPCs \ {"idle", "add", "force"}
        BY <3>1, <3>3 DEF RequestorStep, AddRequest, ChooseTide, ReadLowTide, LowerLowTide,
           ReadHighTide, RaiseHighTide, SetCheck, ForceInterruptCheck, HandlersInv, TypeOK,
           RequestorPCs
      <4>2. QED
        BY <4>1 DEF InFlight
    <3>4. QED
      BY <3>2, <3>3
  <2>3. CASE Announced(n)
    <3>1. checkSignalRequests => checkSignalRequests'
      BY DEF RequestorStep, AddRequest, ChooseTide, ReadLowTide, LowerLowTide, ReadHighTide,
             RaiseHighTide, SetCheck, ForceInterruptCheck
    <3>2. Covers(useTide, n)'
      BY <2>3, <1>0, <1>1, RequestorWidens DEF Announced, Covers
    <3>3. QED
      BY <2>3, <3>1, <3>2, <1>1 DEF Announced
  <2>4. CASE InScan(n)
    <3>1. vm = "readLow" => Covers(OtherTide(useTide), n)'
      BY <2>4, <1>0, <1>1, RequestorWidens DEF InScan, Covers, OtherTide
    <3>2. highTide[OtherTide(useTide)] <= highTide'[OtherTide(useTide)]
      <4>1. CASE RaiseHighTide(r)
        BY <4>1, <1>0, OtherTideType
           DEF RaiseHighTide, HandlersInv, MarksMoveOutwards, TypeOK, MinTide
      <4>2. CASE highTide' = highTide
        BY <4>2, <1>0 DEF HandlersInv, TypeOK, MinTide
      <4>3. QED
        BY <4>1, <4>2 DEF RequestorStep, AddRequest, ChooseTide, ReadLowTide, LowerLowTide,
           ReadHighTide, SetCheck, ForceInterruptCheck
    <3>3. /\ n \in Int /\ highTide[OtherTide(useTide)] \in Int
          /\ highTide'[OtherTide(useTide)] \in Int
      <4>1. TypeOK'
        BY InductiveTypeOK DEF HandlersInv, Next
      <4>2. QED
        BY <4>1, <1>0, ConstantsAssumption
           DEF ConstantsAssumption, HandlersInv, TypeOK, Indices, MinTide
    <3>4. QED
      BY <2>4, <3>1, <3>2, <3>3, <1>1 DEF InScan, OtherTide
  <2>5. QED
    BY <2>1, <2>2, <2>3, <2>4
<1>4. QED
  BY <1>2, <1>3

\* A step of the VM thread, which finds all requestors idle, loses no request.
LEMMA VMLosesNothing ==
  ASSUME InterruptRequestors = Requestors, HandlersInv,
         CheckForEvents \/ CheckForEventsWithoutSwitch \/ DoSignalExternalSemaphores
  PROVE  MarksMoveOutwards' /\ FlagSeen' /\ NoSignalLost'
<1>1. /\ \A r \in Requestors : pc[r] = "idle"
      /\ UNCHANGED <<pc, i, v, tide, requests>>
  BY DEF CheckForEvents, CheckForEventsWithoutSwitch, DoSignalExternalSemaphores, TestCheck,
     ClearCheck, ResetLowTide, ResetHighTide, FlipTide, ReadLow, ReadHigh, Respond, NextIndex,
     EndScan, Recheck, Goto, VMMayRun
<1>2. MarksMoveOutwards'
  BY <1>1 DEF MarksMoveOutwards
<1>3. FlagSeen'
  BY DEF FlagSeen, HandlersInv, CheckForEvents, CheckForEventsWithoutSwitch,
     DoSignalExternalSemaphores, TestCheck, ClearCheck, ResetLowTide, ResetHighTide, FlipTide,
     ReadLow, ReadHigh, Respond, NextIndex, EndScan, Recheck, Goto
<1>4. ASSUME NEW n \in Deliverable, requests'[n] # responses'[n]
      PROVE  Announced(n)' \/ InScan(n)'
  <2>1. ~InFlight(n)
    BY <1>1 DEF InFlight
  <2>2. /\ n \in Int /\ n \in Indices /\ n < ExtTableSize /\ ExtTableSize \in Int
        /\ low \in Int /\ high \in Int /\ useTide \in Tides
        /\ lowTide[OtherTide(useTide)] \in Int /\ highTide[OtherTide(useTide)] \in Int
    BY OtherTideType, ConstantsAssumption
       DEF ConstantsAssumption, HandlersInv, TypeOK, Deliverable, Indices, MinTide, MaxTide
  <2>3. CASE responses' = responses
    <3>1. Announced(n) \/ InScan(n)
      BY <2>1, <2>3, <1>1, <1>4 DEF HandlersInv, NoSignalLost
    <3> USE <2>2, <3>1, OtherTideType DEF Announced, InScan, Covers, Goto
    <3>2. CASE CheckForEvents \/ CheckForEventsWithoutSwitch
      BY <3>2 DEF CheckForEvents, CheckForEventsWithoutSwitch
    <3>3. CASE TestCheck
      BY <3>3 DEF TestCheck
    <3>4. CASE ClearCheck
      BY <3>4 DEF ClearCheck
    <3>5. CASE ResetLowTide
      BY <3>5 DEF ResetLowTide, HandlersInv, TypeOK
    <3>6. CASE ResetHighTide
      BY <3>6 DEF ResetHighTide, HandlersInv, TypeOK
    <3>7. CASE FlipTide
      BY <3>7 DEF FlipTide
    <3>8. CASE ReadLow
      BY <3>8 DEF ReadLow
    <3>9. CASE ReadHigh
      BY <3>9 DEF ReadHigh
    <3>10. CASE NextIndex
      BY <3>10, <1>1, <1>4 DEF NextIndex
    <3>11. CASE EndScan
      BY <3>11 DEF EndScan
    <3>12. CASE Recheck
      BY <3>12 DEF Recheck
    <3>13. CASE Respond
      BY <3>13, <2>3 DEF Respond
    <3>14. QED
      BY <3>2, <3>3, <3>4, <3>5, <3>6, <3>7, <3>8, <3>9, <3>10, <3>11, <3>12, <3>13
         DEF DoSignalExternalSemaphores
  <2>4. CASE responses' # responses
    <3>1. Respond
      BY <2>4 DEF CheckForEvents, CheckForEventsWithoutSwitch, DoSignalExternalSemaphores,
         TestCheck, ClearCheck, ResetLowTide, ResetHighTide, FlipTide, ReadLow, ReadHigh,
         NextIndex, EndScan, Recheck
    <3>2. requests[n] # responses[n]
      BY <3>1, <1>4, <1>1, <2>2 DEF Respond, HandlersInv, TypeOK
    <3>3. Announced(n) \/ InScan(n)
      BY <3>2, <2>1 DEF HandlersInv, NoSignalLost
    <3>4. QED
      BY <3>1, <3>3 DEF Respond, Goto, Announced, InScan, Covers
  <2>5. QED
    BY <2>3, <2>4
<1>5. QED
  BY <1>2, <1>3, <1>4 DEF NoSignalLost, Deliverable

\* HandlersInv is inductive when every requestor is an interrupt handler.
LEMMA InductiveHandlersInv ==
  ASSUME InterruptRequestors = Requestors
  PROVE  HandlersInv /\ [Next]_vars => HandlersInv'
<1> SUFFICES ASSUME HandlersInv, [Next]_vars PROVE HandlersInv'
  OBVIOUS
<1>1. TypeOK'
  BY InductiveTypeOK DEF HandlersInv
<1>2. MarksMoveOutwards' /\ FlagSeen' /\ NoSignalLost'
  <2>1. ASSUME NEW n \in 1 .. MaxTableSize, SetMaxExtSemTableSize(n)
        PROVE  MarksMoveOutwards' /\ FlagSeen' /\ NoSignalLost'
    <3>1. UNCHANGED <<pc, i, v, tide, vm, low, high, checkSignalRequests, useTide, lowTide, highTide>>
      BY <2>1 DEF SetMaxExtSemTableSize
    <3>2. ASSUME NEW k \in Deliverable, requests'[k] # responses'[k]
          PROVE  requests[k] # responses[k]
      BY <2>1, <3>2 DEF SetMaxExtSemTableSize, Deliverable
    <3>3. QED
      BY <3>1, <3>2 DEF HandlersInv, MarksMoveOutwards, FlagSeen, NoSignalLost, Deliverable,
                        InFlight, Announced, InScan, Covers
  <2>2. CASE StartInterpreter
    BY <2>2 DEF StartInterpreter, HandlersInv, MarksMoveOutwards, FlagSeen, NoSignalLost,
                Deliverable, InFlight, Announced, InScan, Covers
  <2>3. ASSUME NEW r \in Requestors, NEW index \in 0 .. MaxTableSize,
               SignalSemaphoreWithIndex(r, index)
        PROVE  MarksMoveOutwards' /\ FlagSeen' /\ NoSignalLost'
    <3>1. \A q \in Requestors : q # r => pc'[q] = pc[q] /\ i'[q] = i[q]
      BY <2>3 DEF SignalSemaphoreWithIndex, HandlersInv, TypeOK
    <3>2. pc[r] = "idle" /\ pc'[r] = "add" /\ vm # "startup"
      BY <2>3 DEF SignalSemaphoreWithIndex, HandlersInv, TypeOK
    <3>3. UNCHANGED <<v, tide, vm, low, high, checkSignalRequests, useTide, lowTide, highTide,
                      requests, responses>>
      BY <2>3 DEF SignalSemaphoreWithIndex
    <3>4. MarksMoveOutwards'
      BY <3>1, <3>2, <3>3 DEF HandlersInv, MarksMoveOutwards
    <3>5. ASSUME NEW n, InFlight(n) PROVE InFlight(n)'
      BY <3>1, <3>2, <3>5 DEF InFlight
    <3>6. NoSignalLost'
      BY <3>3, <3>5 DEF HandlersInv, NoSignalLost, Deliverable, Announced, InScan, Covers
    <3>7. QED
      BY <3>3, <3>4, <3>6 DEF FlagSeen, HandlersInv
  <2>4. ASSUME NEW r \in Requestors, RequestorStep(r)
        PROVE  MarksMoveOutwards' /\ FlagSeen' /\ NoSignalLost'
    <3>1. FlagSeen'
      BY <2>4 DEF FlagSeen, HandlersInv, RequestorStep, AddRequest, ChooseTide, ReadLowTide,
         LowerLowTide, ReadHighTide, RaiseHighTide, SetCheck, ForceInterruptCheck
    <3>2. QED
      BY <2>4, <3>1, RequestorMarks, RequestorLosesNothing
  <2>5. CASE CheckForEvents \/ CheckForEventsWithoutSwitch \/ DoSignalExternalSemaphores
    BY <2>5, VMLosesNothing
  <2>6. CASE Heartbeat
    BY <2>6 DEF Heartbeat, HandlersInv, MarksMoveOutwards, FlagSeen, NoSignalLost, Deliverable,
                InFlight, Announced, InScan, Covers
  <2>7. CASE UNCHANGED vars
    BY <2>7 DEF vars, HandlersInv, MarksMoveOutwards, FlagSeen, NoSignalLost, Deliverable,
                InFlight, Announced, InScan, Covers
  <2>8. QED
    BY <2>1, <2>2, <2>3, <2>4, <2>5, <2>6, <2>7 DEF Next
<1>3. QED
  BY <1>1, <1>2 DEF HandlersInv

\* When requestors are interrupt handlers, as the file's opening comment describes
\* for the signal-driven heartbeat, every unanswered request is on its way to being
\* answered.
THEOREM HandlersSignalsNotLost ==
  ASSUME InterruptRequestors = Requestors
  PROVE  Spec => []NoSignalLost
<1>1. Init => HandlersInv
  BY InitTypeOK DEF Init, HandlersInv, MarksMoveOutwards, FlagSeen, NoSignalLost, Deliverable
<1>2. HandlersInv => NoSignalLost
  BY DEF HandlersInv
<1>3. QED
  BY <1>1, <1>2, InductiveHandlersInv, PTL DEF Spec

\* ... so that the file's own test, allRequestsAreAnswered, holds of them.
THEOREM HandlersRequestsAnswered ==
  ASSUME InterruptRequestors = Requestors
  PROVE  Spec => []AllRequestsAreAnswered
<1>1. NoSignalLost => AllRequestsAreAnswered
  BY DEF NoSignalLost, AllRequestsAreAnswered, InFlight, Announced, InScan
<1>2. QED
  BY <1>1, HandlersSignalsNotLost, PTL

-----------------------------------------------------------------------------
(* Every signal answers one request: the safety part of the abstract       *)
(* specification, for requestors of either kind.                           *)

\* Turns of a counter: the multiples of its modulus.
Turns == {k * CounterModulus : k \in Nat}

\* One more turn of a counter, and no fewer than none.
LEMMA TurnsFacts ==
  0 \in Turns /\ \A t \in Turns : t \in Nat /\ t + CounterModulus \in Turns
<1>1. CounterModulus \in Nat
  BY ConstantsAssumption DEF ConstantsAssumption
<1>2. 0 = 0 * CounterModulus
  BY <1>1
<1>3. ASSUME NEW k \in Nat
      PROVE  k * CounterModulus \in Nat /\ k * CounterModulus + CounterModulus = (k + 1) * CounterModulus
  BY <1>1
<1>4. QED
  BY <1>2, <1>3 DEF Turns

\* How far requests is ahead of responses, as the two counters show it.
Ahead(n) == IF requests[n] >= responses[n]
              THEN requests[n] - responses[n]
              ELSE requests[n] - responses[n] + CounterModulus

\* The counters show what is outstanding, but for whole turns (a turn of requests
\* that no event check saw is a turn's worth of signals lost, never a signal made up).
Accounting ==
  \A n \in Indices : \E t \in Turns : called[n] = signalled[n] + Ahead(n) + t

\* Nothing is requested before the interpreter starts.
StartUpQuiet ==
  vm = "startup" =>
    /\ \A n \in Indices : requests[n] = 0 /\ responses[n] = 0
    /\ \A r \in Requestors : pc[r] = "idle"

\* The table is quiet until the interpreter starts, whatever happens to its size.
LEMMA InductiveStartUpQuiet == TypeOK /\ StartUpQuiet /\ [Next]_vars => StartUpQuiet'
<1> SUFFICES ASSUME TypeOK, StartUpQuiet, [Next]_vars PROVE StartUpQuiet'
  OBVIOUS
<1>1. ASSUME NEW n \in 1 .. MaxTableSize, SetMaxExtSemTableSize(n) PROVE StartUpQuiet'
  BY <1>1 DEF StartUpQuiet, SetMaxExtSemTableSize
<1>2. CASE vm' # "startup"
  BY <1>2 DEF StartUpQuiet
<1>3. ASSUME vm = "startup", NEW r \in Requestors PROVE ~RequestorStep(r)
  BY <1>3 DEF StartUpQuiet, RequestorStep, AddRequest, ChooseTide, ReadLowTide, LowerLowTide,
     ReadHighTide, RaiseHighTide, SetCheck, ForceInterruptCheck
<1>4. CASE vm' = "startup" /\ UNCHANGED <<vm, requests, responses, pc>>
  BY <1>4 DEF StartUpQuiet
<1>5. CASE StartInterpreter
  BY <1>5, <1>2 DEF StartInterpreter
<1>6. ASSUME NEW r \in Requestors, NEW index \in 0 .. MaxTableSize,
             SignalSemaphoreWithIndex(r, index)
      PROVE  StartUpQuiet'
  BY <1>6, <1>2 DEF SignalSemaphoreWithIndex, vmThread
<1>7. ASSUME NEW r \in Requestors, RequestorStep(r) PROVE StartUpQuiet'
  <2>1. vm' = vm
    BY <1>7 DEF RequestorStep, AddRequest, ChooseTide, ReadLowTide, LowerLowTide, ReadHighTide,
       RaiseHighTide, SetCheck, ForceInterruptCheck, vmThread
  <2>2. QED
    BY <1>2, <1>3, <1>7, <2>1
<1>8. CASE CheckForEvents \/ CheckForEventsWithoutSwitch
  BY <1>8, <1>2 DEF CheckForEvents, CheckForEventsWithoutSwitch
<1>9. CASE DoSignalExternalSemaphores
  <2>1. vm' # "startup"
    BY <1>9 DEF DoSignalExternalSemaphores, TestCheck, ClearCheck, ResetLowTide, ResetHighTide,
       FlipTide, ReadLow, ReadHigh, Respond, NextIndex, EndScan, Recheck, Goto
  <2>2. QED
    BY <1>2, <2>1
<1>10. CASE Heartbeat \/ UNCHANGED vars
  BY <1>10, <1>4, <1>2 DEF Heartbeat, vars, table, requestors, vmThread
<1>11. QED
  BY <1>1, <1>5, <1>6, <1>7, <1>8, <1>9, <1>10 DEF Next

\* The two counters and the two counts, of one index, in a step.
LEMMA InductiveAccounting ==
  TypeOK /\ StartUpQuiet /\ Accounting /\ [Next]_vars => Accounting'
<1> SUFFICES ASSUME TypeOK, StartUpQuiet, Accounting, [Next]_vars, NEW n \in Indices
             PROVE  \E t \in Turns : called'[n] = signalled'[n] + Ahead(n)' + t
  BY DEF Accounting
<1>1. PICK t \in Turns : called[n] = signalled[n] + Ahead(n) + t
  BY DEF Accounting
<1>2. /\ CounterModulus \in Nat /\ CounterModulus > 1 /\ t \in Nat
      /\ requests[n] \in 0 .. CounterModulus - 1 /\ responses[n] \in 0 .. CounterModulus - 1
      /\ called[n] \in Nat /\ signalled[n] \in Nat
  BY ConstantsAssumption, TurnsFacts DEF ConstantsAssumption, TypeOK
<1>3. CASE UNCHANGED <<requests, responses, called, signalled>>
  BY <1>1, <1>3 DEF Ahead
<1>4. ASSUME NEW r \in Requestors, AddRequest(r)
      PROVE  \E u \in Turns : called'[n] = signalled'[n] + Ahead(n)' + u
  <2>1. CASE i[r] = n
    <3>1. /\ requests'[n] = Increment(requests[n]) /\ called'[n] = called[n] + 1
          /\ UNCHANGED <<responses, signalled>>
      BY <1>4, <2>1 DEF AddRequest, TypeOK
    <3>2. CASE Increment(requests[n]) = responses[n]
      <4>1. Ahead(n) = CounterModulus - 1 /\ Ahead(n)' = 0
        BY <1>2, <3>1, <3>2 DEF Ahead, Increment
      <4>2. called'[n] = signalled'[n] + Ahead(n)' + (t + CounterModulus)
        BY <1>1, <1>2, <3>1, <4>1
      <4>3. QED
        BY <4>2, TurnsFacts
    <3>3. CASE Increment(requests[n]) # responses[n]
      <4>1. Ahead(n)' = Ahead(n) + 1 /\ Ahead(n) \in Int
        BY <1>2, <3>1, <3>3 DEF Ahead, Increment
      <4>2. called'[n] = signalled'[n] + Ahead(n)' + t
        BY <1>1, <1>2, <3>1, <4>1
      <4>3. QED
        BY <4>2
    <3>4. QED
      BY <3>2, <3>3
  <2>2. CASE i[r] # n
    BY <1>1, <1>4, <2>2 DEF AddRequest, Ahead, TypeOK
  <2>3. QED
    BY <2>1, <2>2
<1>5. CASE Respond
  <2>1. CASE low = n
    <3>1. /\ responses'[n] = Increment(responses[n]) /\ signalled'[n] = signalled[n] + 1
          /\ requests[n] # responses[n] /\ UNCHANGED <<requests, called>>
      BY <1>5, <2>1 DEF Respond, Goto, TypeOK
    <3>2. Ahead(n)' = Ahead(n) - 1 /\ Ahead(n) \in Int
      BY <1>2, <3>1 DEF Ahead, Increment
    <3>3. called'[n] = signalled'[n] + Ahead(n)' + t
      BY <1>1, <1>2, <3>1, <3>2
    <3>4. QED
      BY <3>3
  <2>2. CASE low # n
    BY <1>1, <1>5, <2>2 DEF Respond, Goto, Ahead, TypeOK
  <2>3. QED
    BY <2>1, <2>2
<1>6. ASSUME NEW k \in 1 .. MaxTableSize, SetMaxExtSemTableSize(k)
      PROVE  \E u \in Turns : called'[n] = signalled'[n] + Ahead(n)' + u
  <2>1. requests'[n] = requests[n] /\ responses'[n] = responses[n] /\ UNCHANGED counts
    BY <1>6 DEF SetMaxExtSemTableSize, StartUpQuiet
  <2>2. QED
    BY <1>1, <2>1 DEF Ahead
<1>7. QED
  BY <1>3, <1>4, <1>5, <1>6 DEF Next, vars, StartInterpreter, SignalSemaphoreWithIndex,
     RequestorStep, ChooseTide, ReadLowTide, LowerLowTide, ReadHighTide, RaiseHighTide,
     SetCheck, ForceInterruptCheck, CheckForEvents, CheckForEventsWithoutSwitch,
     DoSignalExternalSemaphores, TestCheck, ClearCheck, ResetLowTide, ResetHighTide, FlipTide,
     ReadLow, ReadHigh, NextIndex, EndScan, Recheck, Goto, Heartbeat

\* What the safety part of the refinement needs.
SignalInv == TypeOK /\ StartUpQuiet /\ Accounting

\* Every reachable state satisfies it.
LEMMA SignalInvariant == Spec => []SignalInv
<1>1. Init => SignalInv
  <2>1. ASSUME Init, NEW n \in Indices PROVE called[n] = signalled[n] + Ahead(n) + 0
    BY <2>1 DEF Init, Ahead
  <2>2. QED
    BY <2>1, InitTypeOK, TurnsFacts DEF Init, SignalInv, StartUpQuiet, Accounting
<1>2. SignalInv /\ [Next]_vars => SignalInv'
  BY InductiveTypeOK, InductiveStartUpQuiet, InductiveAccounting DEF SignalInv
<1>3. QED
  BY <1>1, <1>2, PTL DEF Spec

\* No semaphore is signalled more often than signalSemaphoreWithIndex was called
\* for it: for threads as for interrupt handlers, and for every counter width.
THEOREM SignalsNotSpurious == Spec => []NoSpuriousSignal
<1>1. SignalInv => NoSpuriousSignal
  <2> SUFFICES ASSUME SignalInv, NEW n \in Indices PROVE signalled[n] <= called[n]
    BY DEF NoSpuriousSignal
  <2>1. PICK t \in Turns : called[n] = signalled[n] + Ahead(n) + t
    BY DEF SignalInv, Accounting
  <2>2. Ahead(n) \in Nat /\ t \in Nat /\ signalled[n] \in Nat
    BY ConstantsAssumption, TurnsFacts DEF ConstantsAssumption, SignalInv, TypeOK, Ahead
  <2>3. QED
    BY <2>1, <2>2
<1>2. QED
  BY <1>1, SignalInvariant, PTL

\* The implementation of external semaphores refines the safety part of its
\* promise: a step requests one signal, or delivers one that was requested, or
\* is internal (tide marks, flag, event check).
THEOREM SignalsImplementPromise == Spec => PromiseSafe
<1>1. Init => Promise!Init
  BY DEF Init, Promise!Init
<1>2. SignalInv /\ [Next]_vars => [Promise!Next]_<<called, signalled>>
  <2> SUFFICES ASSUME SignalInv, [Next]_vars,
                      ~UNCHANGED <<called, signalled>>
               PROVE  Promise!Next
    OBVIOUS
  <2>1. Respond \/ \E r \in Requestors : AddRequest(r)
    BY DEF Next, vars, SetMaxExtSemTableSize, StartInterpreter, SignalSemaphoreWithIndex,
       RequestorStep, ChooseTide, ReadLowTide, LowerLowTide, ReadHighTide, RaiseHighTide,
       SetCheck, ForceInterruptCheck, CheckForEvents, CheckForEventsWithoutSwitch,
       DoSignalExternalSemaphores, TestCheck, ClearCheck, ResetLowTide, ResetHighTide, FlipTide,
       ReadLow, ReadHigh, NextIndex, EndScan, Recheck, Goto, Heartbeat
  <2>2. ASSUME NEW r \in Requestors, AddRequest(r) PROVE Promise!Next
    BY <2>2 DEF AddRequest, SignalInv, TypeOK, Promise!Next, Promise!Request
  <2>3. CASE Respond
    <3>1. low \in Indices
      BY <2>3, Ranges DEF Respond, SignalInv, TypeOK
    <3>2. PICK t \in Turns : called[low] = signalled[low] + Ahead(low) + t
      BY <3>1 DEF SignalInv, Accounting
    <3>3. Ahead(low) \in Nat /\ Ahead(low) # 0 /\ t \in Nat /\ signalled[low] \in Nat
      BY <2>3, <3>1, ConstantsAssumption, TurnsFacts
         DEF ConstantsAssumption, SignalInv, TypeOK, Ahead, Respond
    <3>4. signalled[low] < called[low]
      BY <3>2, <3>3
    <3>5. Promise!Deliver(low)
      BY <2>3, <3>4 DEF Respond, Goto, Promise!Deliver
    <3>6. QED
      BY <3>1, <3>5 DEF Promise!Next
  <2>4. QED
    BY <2>1, <2>2, <2>3
<1>3. QED
  BY <1>1, <1>2, SignalInvariant, PTL
     DEF Spec, PromiseSafe, Promise!Safe, Promise!promiseVars
=============================================================================

-------------------------- MODULE EventCheck_proofs --------------------------
(***************************************************************************)
(* Proofs about EventCheck: type correctness, that the VM thread never     *)
(* interprets with the limit of another page, and that the hits of the     *)
(* long running primitive check are true, for any stack pages, clock,      *)
(* methods and habits of the image.                                        *)
(***************************************************************************)
EXTENDS EventCheck, TLAPS

USE DEF limits, clock, timers, hit, probe

-----------------------------------------------------------------------------
(* Type correctness *)

LEMMA InitTypeOK == Init => TypeOK
<1> SUFFICES ASSUME Init PROVE TypeOK
  OBVIOUS
<1>1. stackPage \in StackPages /\ newMethod \in Methods
  BY EventCheckAssumption DEF EventCheckAssumption, Init
<1>2. 0 \in Times /\ 1 \in Times /\ 0 \in 0 .. MaxBackSteps /\ 0 \in 0 .. MaxTime + PollUsecs
  BY EventCheckAssumption DEF EventCheckAssumption, Times
<1>3. QED
  BY <1>1, <1>2 DEF Init, TypeOK

\* The parts of the type invariant that the heartbeat thread can change.
LEMMA HeartbeatTypeOK == TypeOK /\ HeartbeatThread => TypeOK'
<1> SUFFICES ASSUME TypeOK, HeartbeatThread PROVE TypeOK'
  OBVIOUS
<1>1. CASE Heartbeat
  <2>1. osClock' \in Times /\ backSteps' \in 0 .. MaxBackSteps
    BY <1>1, EventCheckAssumption
    DEF EventCheckAssumption, TypeOK, Heartbeat, UpdateMicrosecondClock, ReadClock, Times
  <2>2. utcMicrosecondClock' \in Times /\ beat' \in {"probing", "forcing"}
    BY <1>1, <2>1 DEF TypeOK, Heartbeat, UpdateMicrosecondClock
  <2>3. QED
    BY <1>1, <2>1, <2>2 DEF TypeOK, HeartbeatThread, Heartbeat
<1>2. CASE ProbeMethod
  BY <1>2 DEF TypeOK, HeartbeatThread, ProbeMethod
<1>3. CASE ProbeSequence \/ ProbeStop
  BY <1>3 DEF TypeOK, HeartbeatThread, ProbeSequence, ProbeStop
<1>4. CASE ProbeStart
  <2>1. /\ beat' \in {"sampling", "starting", "forcing"}
        /\ sameSequence' \in BOOLEAN
        /\ checkMethod' \in Methods \cup {NoMethod}
        /\ sampled' \in BOOLEAN /\ ranLong' \in BOOLEAN
        /\ startUsecs' \in Times
    BY <1>4 DEF TypeOK, ProbeStart
  <2>2. QED
    BY <1>4, <2>1 DEF TypeOK, HeartbeatThread, ProbeStart
<1>5. CASE ReadPage
  BY <1>5 DEF TypeOK, HeartbeatThread, ReadPage
<1>6. CASE SmashPage
  <2>1. /\ pageLimit' \in [StackPages -> StackPages \cup {Max}]
        /\ \A p \in StackPages : pageLimit'[p] \in {p, Max}
    BY <1>6 DEF TypeOK, SmashPage
  <2>2. QED
    BY <1>6, <2>1 DEF TypeOK, HeartbeatThread, SmashPage
<1>7. CASE RaiseLimit
  BY <1>7 DEF TypeOK, HeartbeatThread, RaiseLimit
<1>8. QED
  BY <1>1, <1>2, <1>3, <1>4, <1>5, <1>6, <1>7 DEF HeartbeatThread

\* The VM thread's changes of limits keep their types.
LEMMA LimitsTypeOK ==
  ASSUME TypeOK, SwitchPage \/ RestoreLimit \/ ForceInterruptCheck
  PROVE  /\ stackPage' \in StackPages
         /\ stackLimit' \in StackPages \cup {Max}
         /\ loaded' \in StackPages \cup {Max}
         /\ pageLimit' \in [StackPages -> StackPages \cup {Max}]
         /\ \A p \in StackPages : pageLimit'[p] \in {p, Max}
<1>1. CASE SwitchPage
  BY <1>1 DEF TypeOK, SwitchPage
<1>2. CASE RestoreLimit
  BY <1>2 DEF TypeOK, RestoreLimit
<1>3. CASE ForceInterruptCheck
  BY <1>3 DEF TypeOK, ForceInterruptCheck
<1>4. QED
  BY <1>1, <1>2, <1>3

\* The parts of the type invariant
PageTypes ==
  /\ uses \in Habits
  /\ stackPage \in StackPages /\ thePage \in StackPages
  /\ stackLimit \in StackPages \cup {Max} /\ loaded \in StackPages \cup {Max}
  /\ pageLimit \in [StackPages -> StackPages \cup {Max}]
  /\ \A p \in StackPages : pageLimit[p] \in {p, Max}

PlaceTypes ==
  /\ vm \in {"interpreting", "switching", "copying", "restoring", "reloading", "storing",
             "checking", "polling", "answering", "voiding_method", "voiding_stop",
             "voiding_start"}
  /\ beat \in {"asleep", "probing", "comparing", "stopping", "missed", "sampling", "starting",
               "forcing", "smashing", "raising"}
  /\ interruptPending \in BOOLEAN

TimeTypes ==
  /\ osClock \in Times /\ backSteps \in 0 .. MaxBackSteps /\ utcMicrosecondClock \in Times
  /\ now \in Times /\ nextWakeupUsecs \in Times
  /\ nextPollUsecs \in 0 .. MaxTime + PollUsecs

ProbeTypes ==
  /\ newMethod \in Methods /\ startUsecs \in Times /\ stopUsecs \in Times
  /\ checkMethod \in Methods \cup {NoMethod}
  /\ sameSequence \in BOOLEAN /\ checkSemaphore \in BOOLEAN /\ signalUndelivered \in BOOLEAN
  /\ sampled \in BOOLEAN /\ ranLong \in BOOLEAN

LEMMA VMThreadTypeOK == TypeOK /\ VMThread => TypeOK'
<1> SUFFICES ASSUME TypeOK, VMThread PROVE TypeOK'
  OBVIOUS
<1>0. UNCHANGED <<uses, beat, thePage, clock>>
  BY DEF VMThread
<1>1. CASE (SwitchPage \/ RestoreLimit) /\ UNCHANGED <<timers, interruptPending, probe>>
  <2>1. vm' \in {"interpreting", "switching", "copying", "restoring", "reloading", "storing",
                 "checking", "polling", "answering", "voiding_method", "voiding_stop",
                 "voiding_start"}
    BY <1>1 DEF SwitchPage, RestoreLimit
  <2>2. UNCHANGED <<timers, interruptPending, probe>>
    BY <1>1
  <2>3. PageTypes'
    BY <1>0, <1>1, LimitsTypeOK DEF TypeOK, PageTypes
  <2>4. PlaceTypes'
    BY <1>0, <2>1, <2>2 DEF TypeOK, PlaceTypes
  <2>5. TimeTypes'
    BY <1>0, <2>2 DEF TypeOK, TimeTypes
  <2>6. ProbeTypes'
    BY <2>2 DEF TypeOK, ProbeTypes
  <2>7. QED
    BY <2>3, <2>4, <2>5, <2>6 DEF TypeOK, PageTypes, PlaceTypes, TimeTypes, ProbeTypes
<1>2. CASE StartCheck /\ UNCHANGED <<limits, timers, interruptPending, newMethod, startUsecs,
                                     stopUsecs, checkMethod, checkSemaphore, signalUndelivered,
                                     ranLong>>
  <2>1. UNCHANGED <<limits, timers, interruptPending, newMethod, startUsecs, stopUsecs,
                    checkMethod, checkSemaphore, signalUndelivered, ranLong>>
    BY <1>2
  <2>2. vm' = "restoring" /\ sameSequence' = FALSE /\ sampled' = FALSE
    BY <1>2 DEF StartCheck
  <2>3. PageTypes'
    BY <1>0, <2>1 DEF TypeOK, PageTypes
  <2>4. PlaceTypes'
    BY <1>0, <2>1, <2>2 DEF TypeOK, PlaceTypes
  <2>5. TimeTypes'
    BY <1>0, <2>1 DEF TypeOK, TimeTypes
  <2>6. ProbeTypes'
    BY <2>1, <2>2 DEF TypeOK, ProbeTypes
  <2>7. QED
    BY <2>3, <2>4, <2>5, <2>6 DEF TypeOK, PageTypes, PlaceTypes, TimeTypes, ProbeTypes
<1>3. CASE EndEarly /\ UNCHANGED <<limits, timers, interruptPending, probe>>
  BY <1>0, <1>3 DEF TypeOK, EndEarly
<1>4. CASE GoOn /\ UNCHANGED <<limits, nextPollUsecs, nextWakeupUsecs, interruptPending,
                               newMethod, checkSemaphore, hit>>
  <2>1. vm' \in {"polling", "answering"} /\ now' \in Times /\ signalUndelivered' \in BOOLEAN
    BY <1>4 DEF TypeOK, GoOn
  <2>2. QED
    BY <1>0, <1>4, <2>1 DEF TypeOK
<1>5. CASE InterruptKey /\ UNCHANGED <<vm, timers, probe>>
  <2>1. ForceInterruptCheck /\ interruptPending' = TRUE
    BY <1>5 DEF InterruptKey
  <2>2. QED
    BY <1>0, <1>5, <2>1, LimitsTypeOK DEF TypeOK
<1>6. CASE EndPoll /\ UNCHANGED <<limits, now, nextWakeupUsecs, interruptPending, probe>>
  <2>1. nextPollUsecs' \in 0 .. MaxTime + PollUsecs
    BY <1>6, EventCheckAssumption DEF EventCheckAssumption, TypeOK, EndPoll, Times
  <2>2. QED
    BY <1>0, <1>6, <2>1 DEF TypeOK, EndPoll
<1>7. CASE Answer /\ UNCHANGED <<limits, nextPollUsecs, probe>>
  <2>1. now' \in Times /\ nextWakeupUsecs' \in Times
    BY <1>7, EventCheckAssumption DEF EventCheckAssumption, TypeOK, Answer, Times
  <2>2. vm' = "interpreting" /\ interruptPending' = FALSE
    BY <1>7 DEF Answer
  <2>3. QED
    <3>1. UNCHANGED <<limits, nextPollUsecs, probe>>
      BY <1>7
    <3>2. PageTypes'
      BY <1>0, <3>1 DEF TypeOK, PageTypes
    <3>3. PlaceTypes'
      BY <1>0, <2>2 DEF TypeOK, PlaceTypes
    <3>4. TimeTypes'
      BY <1>0, <2>1, <3>1 DEF TypeOK, TimeTypes
    <3>5. ProbeTypes'
      BY <3>1 DEF TypeOK, ProbeTypes
    <3>6. QED
      BY <3>2, <3>3, <3>4, <3>5 DEF TypeOK, PageTypes, PlaceTypes, TimeTypes, ProbeTypes
<1>8. CASE /\ \E t \in Times : SignalAt(t)
           /\ UNCHANGED <<vm, limits, now, nextPollUsecs, interruptPending, probe>>
  BY <1>0, <1>8 DEF TypeOK, SignalAt
<1>9. CASE /\ \E m \in Methods : Send(m)
           /\ UNCHANGED <<vm, limits, timers, interruptPending, checkSemaphore,
                          signalUndelivered, hit>>
  BY <1>0, <1>9 DEF TypeOK, Send
<1>10. CASE StartVoiding /\ UNCHANGED <<limits, timers, interruptPending, newMethod,
                                        signalUndelivered, hit>>
  BY <1>0, <1>10 DEF TypeOK, StartVoiding
<1>11. CASE VoidProbe /\ UNCHANGED <<limits, timers, interruptPending, newMethod,
                                     checkSemaphore, sameSequence, sampled>>
  <2>1. /\ vm' \in {"voiding_stop", "voiding_start", "interpreting"}
        /\ checkMethod' \in Methods \cup {NoMethod} /\ ranLong' \in BOOLEAN
        /\ signalUndelivered' \in BOOLEAN
    BY <1>11 DEF TypeOK, VoidProbe
  <2>2. startUsecs' \in Times /\ stopUsecs' \in Times
    BY <1>11, EventCheckAssumption DEF EventCheckAssumption, TypeOK, VoidProbe, Times
  <2>3. QED
    BY <1>0, <1>11, <2>1, <2>2 DEF TypeOK
<1>12. QED
  BY <1>1, <1>2, <1>3, <1>4, <1>5, <1>6, <1>7, <1>8, <1>9, <1>10, <1>11 DEF VMThread

LEMMA InductiveTypeOK == TypeOK /\ [Next]_vars => TypeOK'
<1> SUFFICES ASSUME TypeOK, [Next]_vars PROVE TypeOK'
  OBVIOUS
<1>1. CASE HeartbeatThread
  BY <1>1, HeartbeatTypeOK
<1>2. CASE VMThread
  BY <1>2, VMThreadTypeOK
<1>3. CASE UNCHANGED vars
  BY <1>3 DEF TypeOK, vars
<1>4. QED
  BY <1>1, <1>2, <1>3 DEF Next

\* Every variable of the event check keeps its type.
THEOREM EventCheckTypeCorrect == Spec => []TypeOK
<1>1. QED
  BY InitTypeOK, InductiveTypeOK, PTL DEF Spec
-----------------------------------------------------------------------------
(* The limit in force *)

\* Where the VM thread has the limit of its page, or a raised one; and where the limit it has
\* read and not stored yet is one of these.
LimitsInForce ==
  /\ vm \notin {"switching", "copying"} => stackLimit \in {stackPage, Max}
  /\ vm \in {"copying", "storing"} => loaded \in {stackPage, Max}

\* What the heartbeat does to limits is to raise them.
LEMMA HeartbeatRaises ==
  ASSUME HeartbeatThread
  PROVE  /\ UNCHANGED <<stackPage, loaded, vm>>
         /\ stackLimit' \in {stackLimit, Max}
<1>1. UNCHANGED <<stackPage, loaded, vm>>
  BY DEF HeartbeatThread
<1>2. stackLimit' = stackLimit \/ RaiseLimit
  BY DEF HeartbeatThread, Heartbeat, ProbeMethod, ProbeSequence, ProbeStop, ProbeStart, ReadPage,
         SmashPage
<1>3. QED
  BY <1>1, <1>2 DEF RaiseLimit

\* A change of page, or the restoring of the limit, ends with the limit of the page in use.
LEMMA VMThreadKeepsLimits == TypeOK /\ LimitsInForce /\ VMThread => LimitsInForce'
<1> SUFFICES ASSUME TypeOK, LimitsInForce, VMThread PROVE LimitsInForce'
  OBVIOUS
<1>1. CASE SwitchPage
  BY <1>1 DEF TypeOK, LimitsInForce, SwitchPage, Interpreting
<1>2. CASE RestoreLimit
  BY <1>2 DEF TypeOK, LimitsInForce, RestoreLimit
<1>3. CASE InterruptKey /\ UNCHANGED <<vm, timers, probe>>
  BY <1>3 DEF LimitsInForce, InterruptKey, ForceInterruptCheck, Interpreting
<1>4. CASE UNCHANGED limits /\ (StartCheck \/ EndEarly \/ GoOn \/ EndPoll \/ Answer
                               \/ StartVoiding \/ VoidProbe)
  BY <1>4 DEF LimitsInForce, StartCheck, EndEarly, GoOn, EndPoll, Answer, StartVoiding, VoidProbe,
              Interpreting
<1>5. CASE UNCHANGED <<vm, limits>>
  BY <1>5 DEF LimitsInForce
<1>6. QED
  BY <1>1, <1>2, <1>3, <1>4, <1>5 DEF VMThread

LEMMA InductiveLimits == TypeOK /\ LimitsInForce /\ [Next]_vars => LimitsInForce'
<1> SUFFICES ASSUME TypeOK, LimitsInForce, [Next]_vars PROVE LimitsInForce'
  OBVIOUS
<1>1. CASE HeartbeatThread
  BY <1>1, HeartbeatRaises DEF LimitsInForce
<1>2. CASE VMThread
  BY <1>2, VMThreadKeepsLimits
<1>3. CASE UNCHANGED vars
  BY <1>3 DEF LimitsInForce, vars
<1>4. QED
  BY <1>1, <1>2, <1>3 DEF Next

\* The VM thread never interprets with a limit left over from another page, whenever the
\* heartbeat forces its checks.
THEOREM LimitStaysCurrent == Spec => []LimitIsCurrent
<1>1. Init => LimitsInForce
  BY DEF Init, LimitsInForce
<1>2. LimitsInForce => LimitIsCurrent
  BY DEF LimitsInForce, LimitIsCurrent
<1>3. QED
  BY <1>1, <1>2, InitTypeOK, InductiveTypeOK, InductiveLimits, PTL DEF Spec
-----------------------------------------------------------------------------
(* The hits of the long running primitive check *)

\* The method the check looks for, if any, has been found by two beats with no event check in
\* between.
Found == ranLong \/ checkMethod = NoMethod

\* Why the beats and the voiding do not mix: a method is sampled only while there is no hit
\* (stopUsecs is 0) and its sequence number is taken before it, so that a number that still is
\* the current one tells of a sample that no check came after.
HitsSound ==
  /\ beat \in {"sampling", "starting"} => stopUsecs = 0
  /\ beat # "sampling" /\ sameSequence => sampled \/ checkMethod = NoMethod
  /\ beat = "comparing" /\ sameSequence => Found
  /\ beat = "stopping" => Found
  /\ stopUsecs # 0 => Found

LEMMA HeartbeatKeepsHits == TypeOK /\ HitsSound /\ HeartbeatThread => HitsSound'
<1> SUFFICES ASSUME TypeOK, HitsSound, HeartbeatThread PROVE HitsSound'
  OBVIOUS
<1>0. UNCHANGED newMethod
  BY DEF HeartbeatThread
<1>1. CASE Heartbeat
  BY <1>1 DEF HitsSound, Found, Heartbeat
<1>2. CASE ProbeMethod
  <2>1. Found => Found'
    BY <1>2 DEF Found, ProbeMethod
  <2>2. beat' = "comparing" /\ sameSequence => Found'
    <3>1. SUFFICES ASSUME beat' = "comparing", sameSequence PROVE Found'
      OBVIOUS
    <3>2. checkMethod = newMethod /\ newMethod # NoMethod
      BY <1>2, <3>1, EventCheckAssumption DEF EventCheckAssumption, TypeOK, ProbeMethod
    <3>3. sampled
      BY <1>2, <3>1, <3>2 DEF HitsSound, ProbeMethod
    <3>4. QED
      BY <1>2, <3>2, <3>3 DEF Found, ProbeMethod
  <2>3. QED
    BY <1>2, <2>1, <2>2 DEF HitsSound, ProbeMethod
<1>3. CASE ProbeSequence
  BY <1>3 DEF HitsSound, Found, ProbeSequence
<1>4. CASE ProbeStop
  BY <1>4 DEF HitsSound, Found, ProbeStop
<1>5. CASE ProbeStart
  BY <1>5 DEF HitsSound, Found, ProbeStart
<1>6. CASE ReadPage \/ SmashPage \/ RaiseLimit
  BY <1>6 DEF HitsSound, Found, ReadPage, SmashPage, RaiseLimit
<1>7. QED
  BY <1>1, <1>2, <1>3, <1>4, <1>5, <1>6 DEF HeartbeatThread

\* An event check makes the sample stale, and a voiding leaves no method to look for.
LEMMA VMThreadKeepsHits == HitsSound /\ VMThread => HitsSound'
<1> SUFFICES ASSUME HitsSound, VMThread PROVE HitsSound'
  OBVIOUS
<1>0. UNCHANGED beat
  BY DEF VMThread
<1>1. CASE UNCHANGED hit
  BY <1>0, <1>1 DEF HitsSound, Found
<1>2. CASE StartCheck /\ UNCHANGED <<limits, timers, interruptPending, newMethod, startUsecs,
                                     stopUsecs, checkMethod, checkSemaphore, signalUndelivered,
                                     ranLong>>
  BY <1>0, <1>2 DEF HitsSound, Found, StartCheck
<1>3. CASE VoidProbe /\ UNCHANGED <<limits, timers, interruptPending, newMethod,
                                    checkSemaphore, sameSequence, sampled>>
  BY <1>0, <1>3 DEF HitsSound, Found, VoidProbe
<1>4. QED
  BY <1>1, <1>2, <1>3 DEF VMThread

LEMMA InductiveHits == TypeOK /\ HitsSound /\ [Next]_vars => HitsSound'
<1> SUFFICES ASSUME TypeOK, HitsSound, [Next]_vars PROVE HitsSound'
  OBVIOUS
<1>1. CASE HeartbeatThread
  BY <1>1, HeartbeatKeepsHits
<1>2. CASE VMThread
  BY <1>2, VMThreadKeepsHits
<1>3. CASE UNCHANGED vars
  BY <1>3 DEF HitsSound, Found, vars
<1>4. QED
  BY <1>1, <1>2, <1>3 DEF Next

\* A hit the image can read is of a method that two beats found running with no event check in
\* between, wherever the heartbeat is when the VM thread voids the check or checks for events.
THEOREM HitsStayTrue == Spec => []HitsAreTrue
<1>1. Init => HitsSound
  BY DEF Init, HitsSound, Found
<1>2. TypeOK /\ HitsSound => HitsAreTrue
  BY DEF TypeOK, Times, HitsSound, Found, HitsAreTrue
<1>3. QED
  BY <1>1, <1>2, InitTypeOK, InductiveTypeOK, InductiveHits, PTL DEF Spec
=============================================================================

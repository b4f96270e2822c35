--------------------------- MODULE Callbacks_proofs ---------------------------
(***************************************************************************)
(* What the scheduler promises holds across callbacks too, for any         *)
(* processes, habits of the image and depth of nesting.  Every step of     *)
(* Callbacks but leaving one is a step of the scheduler or leaves it alone; *)
(* the proofs say what the callers are meanwhile, and what leaving does.   *)
(***************************************************************************)
EXTENDS Callbacks, SchedulerGuarantees_proofs

-----------------------------------------------------------------------------
(* The callers of the open callbacks.                                       *)

\* The idle process calls no plugin, and while callbackEnter signals a callback is open.
CallersWork ==
  /\ \A k \in DOMAIN suspendedCallbacks : suspendedCallbacks[k] # IdleProcess
  /\ entering => jmpDepth >= 1

\* p runs only once its callback is left: it is on no list, with its context saved.
Asleep(p) == p # activeProcess /\ myList[p] = Nil /\ suspendedContext[p] = "live"

Marks == Seq(BOOLEAN)

\* The caller of the k-th callback gave up the processor.
GaveUp(k) == k \in DOMAIN preempted /\ ~preempted[k]

\* It is asleep then, and calls back no more.
CallersSleep ==
  \A k : GaveUp(k) =>
    /\ Asleep(suspendedCallbacks[k])
    /\ \A j \in DOMAIN suspendedCallbacks :
         j > k => suspendedCallbacks[j] # suspendedCallbacks[k]

CallersUnlisted == \A k : GaveUp(k) => Free(list, suspendedCallbacks[k])

\* Pushing and popping suspendedCallbacks.
LEMMA PushedCaller ==
  ASSUME NEW S, NEW s \in Seq(S), NEW e \in S
  PROVE  /\ Append(s, e) \in Seq(S)
         /\ Len(Append(s, e)) = Len(s) + 1
         /\ DOMAIN Append(s, e) = DOMAIN s \cup {Len(s) + 1}
         /\ Len(s) + 1 \notin DOMAIN s
         /\ \A k \in DOMAIN s : Append(s, e)[k] = s[k]
         /\ Append(s, e)[Len(s) + 1] = e
<1> DEFINE t == Append(s, e)
<1>1. Len(s) \in Nat /\ DOMAIN s = 1 .. Len(s)
  BY LenProperties
<1>2. t \in Seq(S) /\ Len(t) = Len(s) + 1
      /\ (\A i \in 1 .. Len(s) : t[i] = s[i]) /\ t[Len(s) + 1] = e
  BY AppendProperties
<1>3. DOMAIN t = 1 .. Len(s) + 1
  BY <1>2, LenProperties
<1> HIDE DEF t
<1>4. QED
  BY <1>1, <1>2, <1>3 DEF t

LEMMA PoppedCaller ==
  ASSUME NEW S, NEW s \in Seq(S), Len(s) >= 1
  PROVE  LET t == SubSeq(s, 1, Len(s) - 1) IN
         /\ t \in Seq(S)
         /\ Len(t) = Len(s) - 1
         /\ DOMAIN t = DOMAIN s \ {Len(s)}
         /\ Len(s) \in DOMAIN s /\ s[Len(s)] \in S
         /\ \A k \in DOMAIN t : t[k] = s[k]
<1> DEFINE t == SubSeq(s, 1, Len(s) - 1)
<1>1. /\ Len(s) \in Nat \ {0} /\ DOMAIN s = 1 .. Len(s)
      /\ \A i \in 1 .. Len(s) : s[i] \in S
  BY LenProperties, ElementOfSeq
<1>2. t \in Seq(S) /\ Len(t) = Len(s) - 1 /\ \A i \in 1 .. Len(s) - 1 : t[i] = s[i]
  BY <1>1, SubSeqProperties
<1>3. DOMAIN t = 1 .. Len(s) - 1
  BY <1>2, LenProperties
<1> HIDE DEF t
<1>4. QED
  BY <1>1, <1>2, <1>3 DEF t

\* Pushing and popping preempted.
LEMMA PushedMark ==
  ASSUME NEW s \in Marks, NEW e \in BOOLEAN
  PROVE  /\ Append(s, e) \in Marks
         /\ Len(Append(s, e)) = Len(s) + 1
         /\ \A k : k \in DOMAIN Append(s, e) /\ ~Append(s, e)[k]
                    => (k \in DOMAIN s /\ ~s[k]) \/ (k = Len(s) + 1 /\ ~e)
<1> DEFINE t == Append(s, e)
<1>1. /\ t \in Marks /\ Len(t) = Len(s) + 1
      /\ DOMAIN t = DOMAIN s \cup {Len(s) + 1}
      /\ \A k \in DOMAIN s : t[k] = s[k]
      /\ t[Len(s) + 1] = e
  BY PushedCaller DEF Marks
<1> HIDE DEF t
<1>2. ASSUME NEW k \in DOMAIN t, ~t[k]
      PROVE  (k \in DOMAIN s /\ ~s[k]) \/ (k = Len(s) + 1 /\ ~e)
  BY <1>1, <1>2, Zenon
<1>3. QED
  BY <1>1, <1>2, Zenon DEF t

LEMMA PoppedMark ==
  ASSUME NEW s \in Marks, Len(s) >= 1
  PROVE  LET t == SubSeq(s, 1, Len(s) - 1) IN
         /\ t \in Marks
         /\ Len(t) = Len(s) - 1
         /\ \A k : k \in DOMAIN t /\ ~t[k] => k \in DOMAIN s /\ ~s[k] /\ k # Len(s)
<1> DEFINE t == SubSeq(s, 1, Len(s) - 1)
<1>1. /\ t \in Marks /\ Len(t) = Len(s) - 1
      /\ DOMAIN t = DOMAIN s \ {Len(s)}
      /\ \A k \in DOMAIN t : t[k] = s[k]
  BY PoppedCaller DEF Marks
<1> HIDE DEF t
<1>2. ASSUME NEW k \in DOMAIN t, ~t[k] PROVE k \in DOMAIN s /\ ~s[k] /\ k # Len(s)
  BY <1>1, <1>2, Zenon
<1>3. QED
  BY <1>1, <1>2, Zenon DEF t

-----------------------------------------------------------------------------
(* The steps.                                                               *)

\* A callback is started as primitiveSuspend gives up the processor, if the caller is still
\* the active process, and else by leaving the scheduler alone.
LEMMA SchedulerSteps ==
  ASSUME CallbacksTypeOK, CallersWork, [CallbacksNext]_callbackVars
  PROVE  [Next]_vars \/ LeaveCallback
<1>1. ASSUME Primitive PROVE Next
  BY <1>1 DEF Primitive, Next
<1>2. ASSUME NEW s \in Semaphores, SignalOnEntry(s) PROVE Next
  BY <1>2 DEF SignalOnEntry, Next
<1>3. ASSUME StartCallback PROVE [Next]_vars
  <2>1. CASE UNCHANGED vars
    BY <2>1
  <2>2. CASE /\ suspendedCallbacks[jmpDepth] = activeProcess
             /\ TransferToWoken(list, myList) /\ UNCHANGED <<priority, synchronisation>>
    <3>1. jmpDepth \in DOMAIN suspendedCallbacks
      BY <1>3, PoppedCaller DEF CallbacksTypeOK, CallersWork, StartCallback, jmpDepth
    <3>2. Running
      BY <1>3, <2>2, <3>1 DEF CallersWork, StartCallback, Running
    <3>3. SuspendActive
      BY <2>2, <3>2 DEF SuspendActive
    <3>4. QED
      BY <3>3 DEF Next
  <2>3. QED
    BY <1>3, <2>1, <2>2 DEF StartCallback
<1>4. ASSUME EnterCallback \/ UNCHANGED callbackVars PROVE UNCHANGED vars
  BY <1>4 DEF EnterCallback, callbackVars
<1>5. QED
  BY <1>1, <1>2, <1>3, <1>4 DEF CallbacksNext

LEMMA EveryCallerNoted ==
  ASSUME CallbacksTypeOK
  PROVE  /\ TypeOK /\ suspendedCallbacks \in Seq(Processes) /\ preempted \in Marks
         /\ Len(suspendedCallbacks) \in Nat /\ Len(preempted) \in Nat
         /\ entering => Len(suspendedCallbacks) = Len(preempted) + 1
         /\ ~entering => Len(suspendedCallbacks) = Len(preempted)
BY LenProperties DEF CallbacksTypeOK, jmpDepth, Marks

LEMMA WhoGaveUp ==
  ASSUME CallbacksTypeOK
  PROVE  /\ DOMAIN suspendedCallbacks = 1 .. Len(suspendedCallbacks)
         /\ \A k \in DOMAIN suspendedCallbacks :
              suspendedCallbacks[k] \in Processes /\ k \in Nat
         /\ \A k : GaveUp(k) => /\ k \in DOMAIN suspendedCallbacks /\ k \in DOMAIN preempted
                                /\ k \in Nat /\ k <= Len(suspendedCallbacks)
         /\ ~entering /\ jmpDepth >= 1 => jmpDepth \in DOMAIN preempted
<1>1. /\ suspendedCallbacks \in Seq(Processes) /\ preempted \in Seq(BOOLEAN)
      /\ Len(suspendedCallbacks) \in Nat /\ Len(preempted) \in Nat
      /\ Len(preempted) <= Len(suspendedCallbacks)
      /\ ~entering => Len(suspendedCallbacks) = Len(preempted)
  BY EveryCallerNoted DEF Marks
<1>2. DOMAIN preempted = 1 .. Len(preempted)
  BY <1>1, LenProperties, Zenon
<1>3. /\ DOMAIN suspendedCallbacks = 1 .. Len(suspendedCallbacks)
      /\ \A k \in DOMAIN suspendedCallbacks : suspendedCallbacks[k] \in Processes
  BY <1>1, LenProperties, ElementOfSeq, Zenon
<1> DEFINE m == Len(preempted)
           n == Len(suspendedCallbacks)
<1>4. m \in Nat /\ n \in Nat /\ m <= n
  BY <1>1
<1> HIDE DEF m, n
<1>5. \A k \in 1 .. m : k \in 1 .. n /\ k \in Nat /\ k <= n
  BY <1>4
<1>6. \A k \in 1 .. n : k \in Nat
  BY <1>4
<1>7. ~entering /\ jmpDepth >= 1 => jmpDepth \in DOMAIN preempted
  <2>1. n >= 1 => n \in 1 .. n
    BY <1>4
  <2>2. QED
    BY <1>1, <1>2, <2>1, Zenon DEF jmpDepth, n
<1>8. \A k : GaveUp(k) => k \in DOMAIN preempted
  BY DEF GaveUp
<1>9. QED
  BY <1>2, <1>3, <1>5, <1>6, <1>7, <1>8, Zenon DEF m, n

\* Leaving pops both histories.
LEMMA LeavePops ==
  ASSUME CallbacksTypeOK, LeaveCallback
  PROVE  LET n == Len(suspendedCallbacks) IN
         /\ suspendedCallbacks' \in Seq(Processes) /\ preempted' \in Marks
         /\ n \in Nat \ {0} /\ n = Len(preempted)
         /\ Len(suspendedCallbacks') = n - 1 /\ Len(preempted') = n - 1
         /\ DOMAIN suspendedCallbacks' = DOMAIN suspendedCallbacks \ {n}
         /\ n \in DOMAIN suspendedCallbacks
         /\ \A k \in DOMAIN suspendedCallbacks' : suspendedCallbacks'[k] = suspendedCallbacks[k]
         /\ \A k : GaveUp(k)' => GaveUp(k) /\ k # n
<1> DEFINE n == Len(suspendedCallbacks)
<1>1. /\ suspendedCallbacks \in Seq(Processes) /\ preempted \in Marks
      /\ n \in Nat /\ n >= 1 /\ n = Len(preempted)
      /\ suspendedCallbacks' = SubSeq(suspendedCallbacks, 1, n - 1)
      /\ preempted' = SubSeq(preempted, 1, Len(preempted) - 1)
  BY EveryCallerNoted DEF LeaveCallback, jmpDepth
<1>2. /\ suspendedCallbacks' \in Seq(Processes) /\ Len(suspendedCallbacks') = n - 1
      /\ DOMAIN suspendedCallbacks' = DOMAIN suspendedCallbacks \ {n}
      /\ n \in DOMAIN suspendedCallbacks
      /\ \A k \in DOMAIN suspendedCallbacks' : suspendedCallbacks'[k] = suspendedCallbacks[k]
  BY <1>1, PoppedCaller
<1>3. /\ preempted' \in Marks /\ Len(preempted') = Len(preempted) - 1
      /\ \A k : k \in DOMAIN preempted' /\ ~preempted'[k]
                 => k \in DOMAIN preempted /\ ~preempted[k] /\ k # Len(preempted)
  BY <1>1, PoppedMark, Zenon
<1>4. \A k : GaveUp(k)' => GaveUp(k) /\ k # n
  BY <1>1, <1>3, Zenon DEF GaveUp
<1>5. QED
  BY <1>1, <1>2, <1>3, <1>4

\* Starting marks the innermost callback.
LEMMA StartMarks ==
  ASSUME CallbacksTypeOK, StartCallback
  PROVE  LET n == Len(suspendedCallbacks) IN
         /\ preempted' \in Marks /\ Len(preempted') = n
         /\ \A k : GaveUp(k)' => GaveUp(k) \/ (k = n /\ suspendedCallbacks[n] = activeProcess)
<1> DEFINE n == Len(suspendedCallbacks)
           e == suspendedCallbacks[n] # activeProcess
<1>1. preempted \in Marks /\ n = Len(preempted) + 1 /\ e \in BOOLEAN
  BY EveryCallerNoted DEF StartCallback
<1>2. preempted' = Append(preempted, e)
  BY DEF StartCallback, jmpDepth
<1>3. e <=> suspendedCallbacks[n] # activeProcess
  OBVIOUS
<1> HIDE DEF e
<1>4. /\ preempted' \in Marks /\ Len(preempted') = n
      /\ \A k : k \in DOMAIN preempted' /\ ~preempted'[k]
                 => (k \in DOMAIN preempted /\ ~preempted[k]) \/ (k = n /\ ~e)
  BY <1>1, <1>2, PushedMark, Zenon
<1>5. QED
  BY <1>3, <1>4, Zenon DEF GaveUp

\* The innermost callback is left: who runs goes back on its run queue and c, the caller, goes on.
LEMMA LeaveEffect ==
  ASSUME CallbacksTypeOK, CallersWork, LeaveCallback, NEW c, c = suspendedCallbacks[jmpDepth]
  PROVE  /\ c \in Processes \ {IdleProcess} /\ activeProcess # IdleProcess
         /\ Linked(list, list', activeProcess, priority[activeProcess])
         /\ priority[activeProcess] \in Priorities
         /\ myList' = [myList EXCEPT ![activeProcess] = priority[activeProcess]]
         /\ myList' \in BackLinks
         /\ highestRunnable' \in 0 .. MaxPriority
         /\ HintCoversRunQueues => Covered(list', highestRunnable')
         /\ TransferTo(c)
         /\ UNCHANGED <<priority, synchronisation, halted>>
<1>1. TypeOK /\ suspendedCallbacks \in Seq(Processes) /\ jmpDepth >= 1
  BY DEF CallbacksTypeOK, LeaveCallback
<1>2. c \in Processes \ {IdleProcess}
  BY <1>1, PoppedCaller DEF CallersWork, jmpDepth
<1>3. /\ PutToSleep(list, myList, activeProcess, PreemptionYields) /\ TransferTo(c)
      /\ activeProcess # IdleProcess /\ UNCHANGED <<priority, synchronisation, halted>>
  BY DEF LeaveCallback, Running
<1>4. QED
  BY <1>1, <1>2, <1>3, Typed, PutToSleepEffect, Vocabulary

\* callbackEnter pushes the caller, and callbackLeave pops it.
LEMMA CallersTyped ==
  ASSUME CallbacksTypeOK, CallersWork, [CallbacksNext]_callbackVars
  PROVE  /\ suspendedCallbacks' \in Seq(Processes)
         /\ Len(suspendedCallbacks') <= MaxJumpBuf
         /\ entering' \in BOOLEAN
         /\ preempted' \in Marks
         /\ entering' => Len(suspendedCallbacks') = Len(preempted') + 1
         /\ ~entering' => Len(suspendedCallbacks') = Len(preempted')
         /\ CallersWork'
<1>1. /\ suspendedCallbacks \in Seq(Processes) /\ activeProcess \in Processes
      /\ Len(suspendedCallbacks) \in Nat /\ Len(suspendedCallbacks) <= MaxJumpBuf
      /\ MaxJumpBuf \in Nat /\ entering \in BOOLEAN
  BY Typed, LenProperties, CallbacksAssumption DEF CallbacksAssumption, CallbacksTypeOK, jmpDepth
<1>2. CASE EnterCallback
  <2> DEFINE t == Append(suspendedCallbacks, activeProcess)
  <2>1. /\ suspendedCallbacks' = t /\ ~entering /\ entering' = TRUE /\ preempted' = preempted
        /\ Len(suspendedCallbacks) < MaxJumpBuf /\ activeProcess # IdleProcess
    BY <1>2 DEF EnterCallback, jmpDepth, Running
  <2>2. /\ t \in Seq(Processes) /\ Len(t) = Len(suspendedCallbacks) + 1
        /\ DOMAIN t = DOMAIN suspendedCallbacks \cup {Len(suspendedCallbacks) + 1}
        /\ \A k \in DOMAIN suspendedCallbacks : t[k] = suspendedCallbacks[k]
        /\ t[Len(suspendedCallbacks) + 1] = activeProcess
    BY <1>1, PushedCaller
  <2>3. preempted \in Marks /\ Len(suspendedCallbacks) = Len(preempted)
    BY <2>1, EveryCallerNoted
  <2> HIDE DEF t
  <2>4. CallersWork'
    BY <1>1, <2>1, <2>2 DEF CallersWork, jmpDepth
  <2>5. QED
    BY <1>1, <2>1, <2>2, <2>3, <2>4
<1>3. CASE LeaveCallback
  <2>1. ~entering /\ entering' = entering
    BY <1>3 DEF LeaveCallback
  <2>2. CallersWork'
    BY <1>3, <2>1, LeavePops DEF CallersWork
  <2>3. QED
    BY <1>1, <1>3, <2>1, <2>2, LeavePops
<1>4. CASE StartCallback
  <2>1. entering' = FALSE /\ UNCHANGED suspendedCallbacks
    BY <1>4 DEF StartCallback
  <2>2. preempted' \in Marks /\ Len(preempted') = Len(suspendedCallbacks)
    BY <1>4, StartMarks
  <2>3. CallersWork'
    BY <2>1 DEF CallersWork
  <2>4. QED
    BY <1>1, <2>1, <2>2, <2>3
<1>5. CASE UNCHANGED callbacks
  BY <1>1, <1>5 DEF CallersWork, CallbacksTypeOK, jmpDepth, callbacks, Marks
<1>6. QED
  BY <1>2, <1>3, <1>4, <1>5 DEF CallbacksNext, Primitive, SignalOnEntry, callbackVars

-----------------------------------------------------------------------------
(* Types, and the hint of the run queues.                                   *)

LEMMA CallbacksTypeStep ==
  CallbacksTypeOK /\ CallersWork /\ [CallbacksNext]_callbackVars => CallbacksTypeOK'
<1> SUFFICES ASSUME CallbacksTypeOK, CallersWork, [CallbacksNext]_callbackVars
             PROVE  CallbacksTypeOK'
  OBVIOUS
<1>1. CASE [Next]_vars
  <2>1. TypeOK'
    BY <1>1, TypeStep DEF CallbacksTypeOK
  <2>2. QED
    BY <2>1, CallersTyped DEF CallbacksTypeOK, jmpDepth, Marks
<1>2. CASE LeaveCallback
  <2>1. PICK c \in Processes :
          /\ Linked(list, list', activeProcess, priority[activeProcess])
          /\ myList' \in BackLinks /\ highestRunnable' \in 0 .. MaxPriority
          /\ TransferTo(c) /\ UNCHANGED <<priority, synchronisation, halted>>
    BY <1>2, LeaveEffect
  <2>2. TypeOK
    BY DEF CallbacksTypeOK
  <2>3. activeProcess' \in Processes /\ suspendedContext' \in [Processes -> {"live", "nil"}]
    BY <2>1, <2>2, TransferToEffect
  <2>4. TypeOK'
    BY <2>1, <2>2, <2>3 DEF TypeOK, Linked, LinkedLists, BackLinks, synchronisation
  <2>5. QED
    BY <2>4, CallersTyped DEF CallbacksTypeOK, jmpDepth, Marks
<1>3. QED
  BY <1>1, <1>2, SchedulerSteps

LEMMA CallbacksInitially ==
  CallbacksInit => CallbacksTypeOK /\ CallersWork /\ CallersSleep /\ CallersUnlisted
<1> SUFFICES ASSUME CallbacksInit
             PROVE  CallbacksTypeOK /\ CallersWork /\ CallersSleep /\ CallersUnlisted
  OBVIOUS
<1>1. suspendedCallbacks = <<>> /\ entering = FALSE /\ preempted = <<>> /\ TypeOK
  BY InitSound DEF CallbacksInit
<1>2. /\ suspendedCallbacks \in Seq(Processes)
      /\ Len(suspendedCallbacks) = 0 /\ DOMAIN suspendedCallbacks = {}
  BY <1>1
<1>3. preempted \in Marks /\ Len(preempted) = 0 /\ DOMAIN preempted = {}
  BY <1>1 DEF Marks
<1>4. 0 <= MaxJumpBuf
  BY CallbacksAssumption DEF CallbacksAssumption
<1>5. CallbacksTypeOK
  <2>1. jmpDepth = Len(preempted) + (IF entering THEN 1 ELSE 0)
    BY <1>1, <1>2, <1>3 DEF jmpDepth
  <2>2. jmpDepth <= MaxJumpBuf /\ entering \in BOOLEAN
    BY <1>1, <1>2, <1>4 DEF jmpDepth
  <2>3. QED
    BY <1>1, <1>2, <1>3, <2>1, <2>2, Zenon DEF CallbacksTypeOK, Marks
<1>6. \A k : ~GaveUp(k)
  BY <1>3 DEF GaveUp
<1>7. CallersWork /\ CallersSleep /\ CallersUnlisted
  BY <1>1, <1>2, <1>6 DEF CallersWork, CallersSleep, CallersUnlisted
<1>8. QED
  BY <1>5, <1>7

\* Every variable keeps its type, and no more callbacks are open than there is room for.
THEOREM CallbacksTypeCorrect == CallbacksSpec => []CallbacksTypeOK
<1>1. CallbacksTypeOK /\ CallersWork /\ [CallbacksNext]_callbackVars
        => CallbacksTypeOK' /\ CallersWork'
  BY CallbacksTypeStep, CallersTyped
<1>2. QED
  BY <1>1, CallbacksInitially, PTL DEF CallbacksSpec

LEMMA CallersAlwaysWork == CallbacksSpec => []CallersWork
<1>1. CallbacksTypeOK /\ CallersWork /\ [CallbacksNext]_callbackVars => CallersWork'
  BY CallersTyped
<1>2. QED
  BY <1>1, CallbacksInitially, CallbacksTypeCorrect, PTL DEF CallbacksSpec

\* Leaving a callback raises the cached bound for the process that it puts back, as every
\* other step does.
THEOREM HintNeverHidesAfterCallbacks == CallbacksSpec => []HintCoversRunQueues
<1>1. CallbacksTypeOK /\ CallersWork /\ HintCoversRunQueues /\ [CallbacksNext]_callbackVars
        => HintCoversRunQueues'
  <2> SUFFICES ASSUME CallbacksTypeOK, CallersWork, HintCoversRunQueues,
                      [CallbacksNext]_callbackVars
               PROVE  HintCoversRunQueues'
    OBVIOUS
  <2>1. HintCoversRunQueues' <=> Covered(list', highestRunnable')
    BY DEF HintCoversRunQueues, Covered
  <2>2. CASE [Next]_vars
    BY <2>1, <2>2, StepEffect DEF Effect, CallbacksTypeOK
  <2>3. CASE LeaveCallback
    BY <2>1, <2>3, LeaveEffect
  <2>4. QED
    BY <2>2, <2>3, SchedulerSteps
<1>2. CallbacksInit => HintCoversRunQueues
  BY InitSound DEF CallbacksInit
<1>3. QED
  BY <1>1, <1>2, CallbacksTypeCorrect, CallersAlwaysWork, PTL DEF CallbacksSpec

-----------------------------------------------------------------------------
(* What leaves a sleeping caller asleep.                                    *)

LEMMA ReadyKeepsAsleep ==
  ASSUME TypeOK, NEW L \in LinkedLists, NEW q \in Processes, ResumeOrPreempt(L, q),
         NEW p \in Processes, Asleep(p), q # p
  PROVE  Asleep(p)'
<1>1. CASE PutToSleep(L, myList, q, TRUE) /\ UNCHANGED <<activeProcess, suspendedContext>>
  <2>1. myList' = [myList EXCEPT ![q] = priority[q]]
    BY <1>1, Typed, PutToSleepEffect
  <2>2. QED
    BY <2>1, <1>1, Typed DEF Asleep, BackLinks
<1>2. CASE /\ PutToSleep(L, [myList EXCEPT ![q] = Nil], activeProcess, PreemptionYields)
           /\ TransferTo(q)
  <2> DEFINE M == [myList EXCEPT ![q] = Nil]
  <2>1. M \in BackLinks
    BY Typed DEF BackLinks
  <2>2. myList' = [M EXCEPT ![activeProcess] = priority[activeProcess]]
    BY <2>1, <1>2, Typed, PutToSleepEffect
  <2>3. activeProcess' = q /\ suspendedContext'[p] = suspendedContext[p]
    BY <1>2, TransferToEffect DEF Asleep
  <2>4. QED
    BY <2>2, <2>3, Typed DEF Asleep, BackLinks
<1>3. QED
  BY <1>1, <1>2 DEF ResumeOrPreempt

LEMMA BlockKeepsAsleep ==
  ASSUME TypeOK, OneListEach, NEW L \in LinkedLists, NEW M \in BackLinks, Left(L, M),
         TransferToWoken(L, M), ~halted', NEW p \in Processes, Asleep(p)
  PROVE  Asleep(p)'
<1>1. PICK q, k : Finds(L, q, k) /\ TransferToLink(L, M, q, k)
  BY DEF TransferToWoken, Finds
<1>2. /\ q \in Priorities /\ k \in DOMAIN L[q] /\ L[q][k] \in Processes
      /\ TransferTo(L[q][k]) /\ myList' = [M EXCEPT ![L[q][k]] = Nil]
  BY <1>1, TransferToLinkEffect
<1>3. M[p] = Nil
  BY Typed DEF Left, Asleep, BackLinks
<1>4. L[q][k] # p
  <2>1. L[q][k] \in Members(L[q]) /\ q \in Lists /\ q # Nil
    BY <1>2, Vocabulary DEF Members
  <2>2. M[L[q][k]] = q
    BY <2>1, LeftEffect DEF Sound
  <2>3. QED
    BY <2>1, <2>2, <1>3
<1>5. activeProcess' = L[q][k] /\ suspendedContext'[p] = suspendedContext[p]
  BY <1>2, <1>4, TransferToEffect DEF Asleep
<1>6. QED
  BY <1>2, <1>3, <1>4, <1>5 DEF Asleep, BackLinks

\* A signal or an exit serves somebody else.
LEMMA ServeKeepsAsleep ==
  ASSUME TypeOK, OneListEach, NEW w \in Waitables, list[w] # <<>>,
         ResumeOrPreempt(RemoveFirst(list, w), Head(list[w])), NEW p \in Processes, Asleep(p)
  PROVE  Asleep(p)'
<1>1. w \in Lists /\ list[w] \in Seq(Processes) /\ w # Nil
  BY Typed, Vocabulary DEF LinkedLists
<1>2. Head(list[w]) \in Members(list[w])
  BY <1>1, TailMembers
<1>3. myList[Head(list[w])] = w
  BY <1>1, <1>2, Vocabulary DEF Sound
<1>4. Head(list[w]) # p
  BY <1>1, <1>3 DEF Asleep
<1>5. QED
  BY <1>4, WokenFirst, ReadyKeepsAsleep

LEMMA WaitKeepsAsleep ==
  ASSUME TypeOK, OneListEach, NEW l \in Lists, BlockOn(l), ~halted',
         l \in Waitables \/ (l = priority[activeProcess] /\ list[l] # <<>>),
         NEW p \in Processes, Asleep(p)
  PROVE  Asleep(p)'
<1> DEFINE L == AddLast(list, activeProcess, l)
           M == [myList EXCEPT ![activeProcess] = l]
<1>1. /\ Linked(list, L, activeProcess, l)
      /\ \A k \in DOMAIN list[l] : k \in DOMAIN L[l] /\ L[l][k] = list[l][k]
  BY Typed, AddLastLinks
<1>2. L \in LinkedLists /\ M \in BackLinks /\ Left(L, M)
  BY <1>1, Typed DEF Linked, BackLinks, Left
<1>3. QED
  BY <1>2, BlockKeepsAsleep DEF BlockOn

\* No primitive but primitiveResume wakes a caller, moves it or takes its context.
LEMMA PrimitiveKeepsAsleep ==
  ASSUME TypeOK, OneListEach, ~halted', NEW p \in Processes, Asleep(p), Primitive, Sleeper(p)
  PROVE  Asleep(p)'
<1>0. UNCHANGED <<myList, activeProcess, suspendedContext>> => Asleep(p)'
  BY DEF Asleep
<1>1. ASSUME NEW q \in Processes, q # p, Resume(q) PROVE Asleep(p)'
  BY <1>1, Typed, ReadyKeepsAsleep DEF Resume
<1>2. ASSUME NEW q \in Processes, Suspend(q) PROVE Asleep(p)'
  BY <1>2, Typed DEF Suspend, Asleep, BackLinks
<1>3. ASSUME NEW q \in Processes, DropContext(q) PROVE Asleep(p)'
  BY <1>3, Typed, Vocabulary, ConstantsAssumption DEF ConstantsAssumption, DropContext, Asleep
<1>4. ASSUME NEW q \in Processes, NEW n \in Priorities, SetPriority(q, n) PROVE Asleep(p)'
  BY <1>4, <1>0 DEF SetPriority
<1>5. ASSUME NEW s \in Semaphores, Signal(s) PROVE Asleep(p)'
  BY <1>5, <1>0, Vocabulary, ServeKeepsAsleep DEF Signal
<1>6. ASSUME NEW s \in Semaphores, Wait(s) PROVE Asleep(p)'
  BY <1>6, <1>0, Vocabulary, WaitKeepsAsleep DEF Wait
<1>7. ASSUME NEW c \in CriticalSections, EnterCriticalSection(c) PROVE Asleep(p)'
  BY <1>7, <1>0, Vocabulary, WaitKeepsAsleep DEF EnterCriticalSection
<1>8. ASSUME NEW c \in CriticalSections, TestAndSetOwnershipOfCriticalSection(c)
      PROVE  Asleep(p)'
  BY <1>8, <1>0 DEF TestAndSetOwnershipOfCriticalSection
<1>9. ASSUME NEW c \in CriticalSections, ExitCriticalSection(c) PROVE Asleep(p)'
  BY <1>9, <1>0, Vocabulary, ServeKeepsAsleep DEF ExitCriticalSection
<1>10. ASSUME SuspendActive PROVE Asleep(p)'
  BY <1>10, Typed, BlockKeepsAsleep DEF SuspendActive, Left
<1>11. ASSUME Yield PROVE Asleep(p)'
  BY <1>11, Typed, Vocabulary, WaitKeepsAsleep DEF Yield
<1>12. QED
  BY <1>1, <1>2, <1>3, <1>4, <1>5, <1>6, <1>7, <1>8, <1>9, <1>10, <1>11 DEF Primitive

-----------------------------------------------------------------------------
(* The callers, the lists and the idle process hold each other up.          *)

LEMMA CallersSleepStep ==
  ASSUME CallbacksTypeOK, OneListEach, CallersWork, CallersSleep, ~halted', CallbacksNext
  PROVE  CallersSleep'
<1>0. /\ TypeOK /\ suspendedCallbacks \in Seq(Processes)
      /\ \A k : GaveUp(k) => /\ k \in DOMAIN suspendedCallbacks
                             /\ suspendedCallbacks[k] \in Processes
                             /\ k \in Nat /\ k <= Len(suspendedCallbacks)
      /\ Len(suspendedCallbacks) \in Nat
      /\ DOMAIN suspendedCallbacks = 1 .. Len(suspendedCallbacks)
  BY EveryCallerNoted, WhoGaveUp, Zenon
<1>1. ASSUME UNCHANGED callbacks,
             \A k : GaveUp(k) => Asleep(suspendedCallbacks[k])'
      PROVE  CallersSleep'
  BY <1>1 DEF CallersSleep, GaveUp, callbacks
<1>2. CASE Primitive
  <2>1. UNCHANGED callbacks
    BY <1>2 DEF Primitive
  <2>2. ASSUME NEW k, GaveUp(k) PROVE Asleep(suspendedCallbacks[k])'
    <3>1. PICK p \in Processes : p = suspendedCallbacks[k]
      BY <1>0, <2>2
    <3>2. Asleep(p) /\ Sleeper(p)
      BY <2>2, <3>1 DEF CallersSleep, Sleeper, GaveUp
    <3>3. Asleep(p)'
      BY <3>2, <1>0, <1>2, PrimitiveKeepsAsleep
    <3>4. QED
      BY <2>1, <3>1, <3>3 DEF Asleep, callbacks
  <2>3. QED
    BY <2>1, <2>2, <1>1
<1>3. ASSUME NEW s \in Semaphores, SignalOnEntry(s) PROVE CallersSleep'
  <2>1. UNCHANGED callbacks /\ Signal(s) /\ s \in Waitables
    BY <1>3, Vocabulary DEF SignalOnEntry
  <2>2. ASSUME NEW k, GaveUp(k) PROVE Asleep(suspendedCallbacks[k])'
    <3>1. PICK p \in Processes : p = suspendedCallbacks[k]
      BY <1>0, <2>2
    <3>2. Asleep(p)
      BY <2>2, <3>1 DEF CallersSleep
    <3>3. Asleep(p)'
      BY <2>1, <3>2, <1>0, ServeKeepsAsleep DEF Signal, Asleep
    <3>4. QED
      BY <2>1, <3>1, <3>3 DEF Asleep, callbacks
  <2>3. QED
    BY <2>1, <2>2, <1>1
<1>4. CASE EnterCallback
  <2> DEFINE n == Len(suspendedCallbacks)
             t == Append(suspendedCallbacks, activeProcess)
  <2>1. /\ suspendedCallbacks' = t /\ preempted' = preempted
        /\ UNCHANGED <<activeProcess, myList, suspendedContext>>
    BY <1>4 DEF EnterCallback, vars
  <2>2. /\ DOMAIN t = DOMAIN suspendedCallbacks \cup {n + 1}
        /\ \A k \in DOMAIN suspendedCallbacks : t[k] = suspendedCallbacks[k]
        /\ t[n + 1] = activeProcess
    BY <1>0, Typed, PushedCaller
  <2> HIDE DEF t, n
  <2>3. \A k : GaveUp(k)' <=> GaveUp(k)
    BY <2>1 DEF GaveUp
  <2>4. ASSUME NEW k, GaveUp(k)'
        PROVE  /\ Asleep(suspendedCallbacks[k])'
               /\ \A j \in DOMAIN t : j > k => t[j] # t[k]
    <3>1. GaveUp(k) /\ k \in DOMAIN suspendedCallbacks
      BY <1>0, <2>3, <2>4
    <3>2. Asleep(suspendedCallbacks[k]) /\ t[k] = suspendedCallbacks[k]
      BY <3>1, <2>2 DEF CallersSleep
    <3>3. \A j \in DOMAIN t : j > k => t[j] # t[k]
      BY <3>1, <3>2, <2>2 DEF CallersSleep, Asleep
    <3>4. QED
      BY <3>2, <3>3, <2>1 DEF Asleep
  <2>5. QED
    BY <2>1, <2>4 DEF CallersSleep
<1>5. CASE StartCallback
  <2> DEFINE n == Len(suspendedCallbacks)
  <2>1. /\ UNCHANGED suspendedCallbacks
        /\ \/ suspendedCallbacks[n] = activeProcess /\ TransferToWoken(list, myList)
           \/ suspendedCallbacks[n] # activeProcess /\ UNCHANGED vars
    BY <1>5 DEF StartCallback, jmpDepth
  <2>2. \A k : GaveUp(k)' => GaveUp(k) \/ (k = n /\ suspendedCallbacks[n] = activeProcess)
    BY <1>5, StartMarks
  <2>3. ASSUME NEW p \in Processes, Asleep(p) PROVE Asleep(p)'
    <3>1. CASE UNCHANGED vars
      BY <3>1, <2>3 DEF vars, Asleep
    <3>2. CASE TransferToWoken(list, myList)
      BY <3>2, <2>3, <1>0, Typed, BlockKeepsAsleep DEF Left
    <3>3. QED
      BY <2>1, <3>1, <3>2
  <2>4. ASSUME TransferToWoken(list, myList), NEW p, p = activeProcess PROVE Asleep(p)'
    <3>1. PICK q, k : Finds(list, q, k) /\ TransferToLink(list, myList, q, k)
      BY <2>4 DEF TransferToWoken, Finds
    <3>2. /\ q \in Priorities /\ k \in DOMAIN list[q] /\ list[q][k] \in Processes
          /\ TransferTo(list[q][k]) /\ myList' = [myList EXCEPT ![list[q][k]] = Nil]
      BY <3>1, <1>0, Typed, TransferToLinkEffect
    <3>3. p \in Processes /\ Free(list, p) /\ myList[p] = Nil
      BY <2>4, <1>0, Typed, Vocabulary, NilIsFree
    <3>4. list[q][k] # p
      BY <3>2, <3>3, Vocabulary DEF Free, Members
    <3>5. activeProcess' = list[q][k] /\ suspendedContext'[p] = "live"
      BY <2>4, <3>2, <3>3, <3>4, <1>0, TransferToEffect
    <3>6. QED
      BY <3>2, <3>3, <3>4, <3>5, <1>0, Typed DEF Asleep, BackLinks
  <2> HIDE DEF n
  <2>5. ASSUME NEW k, GaveUp(k)'
        PROVE  /\ Asleep(suspendedCallbacks[k])'
               /\ \A j \in DOMAIN suspendedCallbacks :
                    j > k => suspendedCallbacks[j] # suspendedCallbacks[k]
    <3>1. CASE GaveUp(k)
      <4>1. PICK p \in Processes : p = suspendedCallbacks[k]
        BY <1>0, <3>1
      <4>2. Asleep(p)'
        BY <3>1, <4>1, <2>3 DEF CallersSleep
      <4>3. QED
        BY <2>1, <3>1, <4>1, <4>2 DEF Asleep, CallersSleep
    <3>2. CASE k = n /\ suspendedCallbacks[n] = activeProcess
      <4>1. PICK p : p = activeProcess
        OBVIOUS
      <4>2. Asleep(p)'
        BY <3>2, <4>1, <2>1, <2>4
      <4>3. \A j \in DOMAIN suspendedCallbacks : ~(j > k)
        BY <3>2, <1>0 DEF n
      <4>4. QED
        BY <2>1, <3>2, <4>1, <4>2, <4>3 DEF Asleep
    <3>3. QED
      BY <2>2, <2>5, <3>1, <3>2
  <2>6. QED
    BY <2>1, <2>5 DEF CallersSleep
<1>6. CASE LeaveCallback
  <2> DEFINE n == Len(suspendedCallbacks)
  <2>1. /\ n \in Nat /\ n \in DOMAIN suspendedCallbacks
        /\ DOMAIN suspendedCallbacks' = DOMAIN suspendedCallbacks \ {n}
        /\ \A k \in DOMAIN suspendedCallbacks' : suspendedCallbacks'[k] = suspendedCallbacks[k]
        /\ \A k : GaveUp(k)' => GaveUp(k) /\ k # n
    BY <1>6, LeavePops
  <2>2. PICK c \in Processes :
          /\ c = suspendedCallbacks[n] /\ TransferTo(c)
          /\ myList' = [myList EXCEPT ![activeProcess] = priority[activeProcess]]
    BY <1>0, <1>6, <2>1, LeaveEffect DEF jmpDepth
  <2>3. \A k : GaveUp(k) /\ k # n => n > k
    BY <1>0
  <2> HIDE DEF n
  <2>4. ASSUME NEW p \in Processes, Asleep(p), p # c PROVE Asleep(p)'
    <3>1. activeProcess' = c /\ suspendedContext'[p] = suspendedContext[p]
      BY <2>2, <2>4, <1>0, TransferToEffect DEF Asleep
    <3>2. QED
      BY <3>1, <2>2, <2>4, <1>0, Typed DEF Asleep, BackLinks
  <2>5. ASSUME NEW k, GaveUp(k)'
        PROVE  /\ Asleep(suspendedCallbacks[k])'
               /\ \A j \in DOMAIN suspendedCallbacks' :
                    j > k => suspendedCallbacks'[j] # suspendedCallbacks'[k]
    <3>1. /\ GaveUp(k) /\ k \in DOMAIN suspendedCallbacks' /\ n > k
          /\ suspendedCallbacks'[k] = suspendedCallbacks[k]
      BY <1>0, <2>1, <2>3, <2>5
    <3>2. PICK p \in Processes : p = suspendedCallbacks[k]
      BY <1>0, <3>1
    <3>3. Asleep(p) /\ p # c
      BY <2>1, <2>2, <3>1, <3>2 DEF CallersSleep
    <3>4. Asleep(p)'
      BY <2>4, <3>3
    <3>5. QED
      BY <2>1, <3>1, <3>2, <3>4 DEF CallersSleep, Asleep
  <2>6. QED
    BY <2>5 DEF CallersSleep, Asleep
<1>7. QED
  BY <1>2, <1>3, <1>4, <1>5, <1>6, Zenon DEF CallbacksNext

\* Leaving a callback, the one step that may spoil the lists, links nobody but who runs.
LEMMA CallersUnlistedStep ==
  ASSUME CallbacksTypeOK, OneListEach, CallersWork, CallersSleep, CallersUnlisted, CallersSleep',
         CallbacksNext
  PROVE  CallersUnlisted'
<1>1. CASE [Next]_vars
  <2>1. Sound(list', myList')
    BY <1>1, StepEffect DEF Effect, CallbacksTypeOK
  <2>2. ASSUME NEW k, GaveUp(k)' PROVE Free(list', suspendedCallbacks'[k])
    <3>1. myList'[suspendedCallbacks'[k]] = Nil
      BY <2>2 DEF CallersSleep, Asleep
    <3>2. QED
      BY <2>1, <3>1, NilIsFree
  <2>3. QED
    BY <2>2 DEF CallersUnlisted, Free, Members
<1>2. CASE LeaveCallback
  <2>1. /\ Linked(list, list', activeProcess, priority[activeProcess])
        /\ priority[activeProcess] \in Lists
    BY <1>2, LeaveEffect, Vocabulary
  <2>2. ASSUME NEW k, GaveUp(k)' PROVE Free(list', suspendedCallbacks'[k])
    <3>1. GaveUp(k) /\ suspendedCallbacks'[k] = suspendedCallbacks[k]
      BY <1>2, <2>2, LeavePops, WhoGaveUp
    <3>2. suspendedCallbacks[k] # activeProcess /\ Free(list, suspendedCallbacks[k])
      BY <3>1 DEF CallersSleep, Asleep, CallersUnlisted
    <3>3. QED
      BY <2>1, <3>1, <3>2 DEF Linked, Free
  <2>3. QED
    BY <2>2 DEF CallersUnlisted, Free, Members
<1>3. QED
  BY <1>1, <1>2, SchedulerSteps

\* A caller that was not preempted is on no list when it goes on.
LEMMA LeaveKeepsLists ==
  ASSUME CallbacksTypeOK, OneListEach, CallersWork, CallersSleep, LeaveCallback,
         ~preempted[jmpDepth]
  PROVE  OneListEach'
<1>1. /\ TypeOK /\ suspendedCallbacks \in Seq(Processes) /\ jmpDepth >= 1 /\ ~entering
      /\ PutToSleep(list, myList, activeProcess, PreemptionYields)
  BY DEF CallbacksTypeOK, LeaveCallback
<1>2. PICK c : c = suspendedCallbacks[jmpDepth]
  OBVIOUS
<1>3. Asleep(c)
  <2>1. jmpDepth \in DOMAIN preempted
    BY <1>1, WhoGaveUp
  <2>2. GaveUp(jmpDepth)
    BY <2>1, Zenon DEF GaveUp
  <2>3. QED
    BY <1>2, <2>2 DEF CallersSleep
<1>4. /\ c \in Processes /\ activeProcess' = c
      /\ myList' = [myList EXCEPT ![activeProcess] = priority[activeProcess]]
  BY <1>2, LeaveEffect DEF TransferTo
<1>5. Sound(list', myList')
  BY <1>1, Typed, Vocabulary, NilIsFree, PutToSleepEffect
<1>6. myList'[activeProcess'] = Nil
  BY <1>1, <1>3, <1>4, Typed DEF Asleep, BackLinks
<1>7. QED
  BY <1>5, <1>6 DEF OneListEach, Sound, Members, NoRepeats

LEMMA LeaveKeepsIdle ==
  ASSUME CallbacksTypeOK, CallersWork, IdleReady, LeaveCallback
  PROVE  IdleReady' /\ UNCHANGED halted
<1>1. PICK c \in Processes \ {IdleProcess} :
        /\ Linked(list, list', activeProcess, priority[activeProcess])
        /\ TransferTo(c) /\ activeProcess # IdleProcess
        /\ UNCHANGED <<priority, synchronisation, halted>>
  BY LeaveEffect
<1>2. TypeOK /\ IdleProcess \in Processes /\ 1 \in Lists
  BY Typed, Vocabulary DEF CallbacksTypeOK
<1>3. Members(list[1]) \subseteq Members(list'[1])
  BY <1>1, <1>2 DEF Linked
<1>4. suspendedContext'[IdleProcess] = suspendedContext[IdleProcess]
  BY <1>1, <1>2, TransferToEffect
<1>5. QED
  BY <1>1, <1>3, <1>4 DEF IdleReady

\* What the callers and the idle process are at every step, together.  (That the lists are
\* sound is known of the state before every step.)
SoundWithCallbacks == CallersSleep /\ CallersUnlisted /\ IdleReady /\ ~halted

LEMMA SoundWithCallbacksStep ==
  ASSUME CallbacksTypeOK, CallersWork, SoundWithCallbacks, [CallbacksNext]_callbackVars
  PROVE  SoundWithCallbacks'
<1>1. CASE UNCHANGED callbackVars
  BY <1>1 DEF SoundWithCallbacks, CallersSleep, CallersUnlisted, GaveUp, Asleep, Free, IdleReady,
     Members, callbackVars, callbacks, vars
<1>2. CASE CallbacksNext
  <2>1. OneListEach
    BY <1>2 DEF CallbacksNext
  <2>2. IdleReady' /\ UNCHANGED halted
    <3>1. CASE [Next]_vars
      BY <2>1, <3>1, StepEffect, IdleReadyStep DEF Effect, CallbacksTypeOK, SoundWithCallbacks
    <3>2. CASE LeaveCallback
      BY <3>2, LeaveKeepsIdle DEF SoundWithCallbacks
    <3>3. QED
      BY <3>1, <3>2, SchedulerSteps
  <2>3. CallersSleep'
    BY <1>2, <2>1, <2>2, CallersSleepStep DEF SoundWithCallbacks
  <2>4. CallersUnlisted'
    BY <1>2, <2>1, <2>3, CallersUnlistedStep DEF SoundWithCallbacks
  <2>5. QED
    BY <2>2, <2>3, <2>4 DEF SoundWithCallbacks
<1>3. QED
  BY <1>1, <1>2

LEMMA AlwaysSoundWithCallbacks == CallbacksSpec => []SoundWithCallbacks
<1>1. CallbacksInit => SoundWithCallbacks
  BY CallbacksInitially, IdleReadyInit DEF CallbacksInit, Init, SoundWithCallbacks
<1>2. CallbacksTypeOK /\ CallersWork /\ SoundWithCallbacks /\ [CallbacksNext]_callbackVars
        => SoundWithCallbacks'
  BY SoundWithCallbacksStep
<1>3. QED
  BY <1>1, <1>2, CallbacksTypeCorrect, CallersAlwaysWork, PTL DEF CallbacksSpec

-----------------------------------------------------------------------------
(* What the scheduler promised holds across callbacks.                      *)

\* Signals at the entrance, primitives within callbacks and entering and leaving them link no
\* process twice and no active one, but for leaving a callback whose caller such a signal
\* preempted.
THEOREM ListsStaySoundAcrossCallbacks == CallbacksSpec => ListsSurvive
<1> DEFINE A == (jmpDepth' < jmpDepth => ~preempted[jmpDepth]) => OneListEach'
<1>1. ASSUME CallbacksTypeOK, CallersWork, SoundWithCallbacks, CallbacksNext,
             jmpDepth' < jmpDepth => ~preempted[jmpDepth]
      PROVE  OneListEach'
  <2>1. OneListEach
    BY <1>1 DEF CallbacksNext
  <2>2. CASE [Next]_vars
    <3>1. OneListEach' <=> Sound(list', myList') /\ myList'[activeProcess'] = Nil
      BY DEF OneListEach, Sound, Members, NoRepeats
    <3>2. QED
      BY <1>1, <2>1, <2>2, <3>1, StepEffect DEF Effect, CallbacksTypeOK
  <2>3. CASE LeaveCallback
    <3>1. jmpDepth' < jmpDepth
      BY <1>1, <2>3, LeavePops DEF jmpDepth
    <3>2. QED
      BY <1>1, <2>1, <2>3, <3>1, LeaveKeepsLists DEF SoundWithCallbacks
  <2>4. QED
    BY <1>1, <2>2, <2>3, SchedulerSteps
<1>2. CallbacksTypeOK /\ CallersWork /\ SoundWithCallbacks /\ [CallbacksNext]_callbackVars
        => [A]_callbackVars
  BY <1>1
<1>3. ListsSurvive <=> [][A]_callbackVars
  BY DEF ListsSurvive
<1> HIDE DEF A
<1>4. QED
  BY <1>2, <1>3, CallbacksTypeCorrect, CallersAlwaysWork, AlwaysSoundWithCallbacks, PTL
  DEF CallbacksSpec

\* Nobody but the end of its own callback wakes, links or robs a caller that gave up the processor,
\* however deep callbacks nest and whoever else was preempted: the process that callbackLeave
\* transfers to is there, with its context.
THEOREM CallersSleepOn == CallbacksSpec => []CallersStaySuspended
<1>1. CallbacksTypeOK /\ SoundWithCallbacks => CallersStaySuspended
  <2> SUFFICES ASSUME CallbacksTypeOK, SoundWithCallbacks PROVE CallersStaySuspended
    OBVIOUS
  <2>1. ASSUME NEW k, GaveUp(k), NEW p, p = suspendedCallbacks[k]
        PROVE  /\ p # activeProcess /\ OnNoList(p) /\ HasContext(p)
               /\ \A j \in DOMAIN suspendedCallbacks : suspendedCallbacks[j] = p => j <= k
    <3>1. Asleep(p) /\ Free(list, p)
      BY <2>1 DEF SoundWithCallbacks, CallersSleep, CallersUnlisted
    <3>2. k \in Nat /\ \A j \in DOMAIN suspendedCallbacks : j \in Nat
      BY <2>1, WhoGaveUp
    <3>3. \A j \in DOMAIN suspendedCallbacks : j > k => suspendedCallbacks[j] # p
      BY <2>1 DEF SoundWithCallbacks, CallersSleep
    <3>4. QED
      BY <3>1, <3>2, <3>3, Vocabulary DEF Asleep, HasContext
  <2>2. QED
    BY <2>1, Zenon DEF CallersStaySuspended, GaveUp
<1>2. QED
  BY <1>1, AlwaysSoundWithCallbacks, CallbacksTypeCorrect, PTL

\* Entering a callback always finds a process to go on with.
THEOREM VMNeverHaltsInCallbacks == CallbacksSpec => []NeverHalts
<1>1. SoundWithCallbacks => NeverHalts
  BY DEF SoundWithCallbacks, NeverHalts
<1>2. QED
  BY <1>1, AlwaysSoundWithCallbacks, PTL

\* Callbacks take no signal and no section from those who wait.
THEOREM NothingIsHoardedInCallbacks == CallbacksSpec => []NothingHoarded
<1>1. CallbacksInit => SignalsOut /\ SectionsOut
  <2> SUFFICES ASSUME Init PROVE SignalsOut /\ SectionsOut
    BY DEF CallbacksInit
  <2>1. \A w \in Waitables : w \in Lists /\ w # 1
    BY Vocabulary
  <2>2. \A w \in Waitables : list[w] = <<>>
    BY <2>1 DEF Init
  <2>3. QED
    BY <2>2, Vocabulary DEF SignalsOut, SectionsOut
<1>2. ASSUME CallbacksTypeOK, CallersWork, NeverHalts', SignalsOut, SectionsOut,
             [CallbacksNext]_callbackVars
      PROVE  SignalsOut' /\ SectionsOut'
  <2>1. CASE [Next]_vars
    BY <1>2, <2>1, SignalsOutStep, SectionsOutStep DEF CallbacksTypeOK, NeverHalts
  <2>2. CASE LeaveCallback
    <3>1. /\ Linked(list, list', activeProcess, priority[activeProcess])
          /\ priority[activeProcess] \in Priorities /\ UNCHANGED synchronisation
      BY <1>2, <2>2, LeaveEffect
    <3>2. \A w \in Waitables : list'[w] = list[w]
      BY <3>1, Vocabulary DEF Linked
    <3>3. QED
      BY <1>2, <3>1, <3>2, Vocabulary DEF SignalsOut, SectionsOut, synchronisation
  <2>3. QED
    BY <1>2, <2>1, <2>2, SchedulerSteps
<1>3. SignalsOut /\ SectionsOut => NothingHoarded
  BY DEF SignalsOut, SectionsOut, NothingHoarded
<1>4. QED
  BY <1>1, <1>2, <1>3, CallbacksTypeCorrect, CallersAlwaysWork, VMNeverHaltsInCallbacks, PTL
  DEF CallbacksSpec

\* Whoever the search of wakeHighestPriority passes over has no context to go on from.
LEMMA SearchKeepsReady ==
  ASSUME TypeOK, OneListEach, TransferToWoken(list, myList), ~halted',
         NEW p \in Processes, Ready(p), HasContext(p)
  PROVE  p = activeProcess' \/ Ready(p)'
<1>1. PICK q, k : Finds(list, q, k) /\ TransferToLink(list, myList, q, k)
  BY DEF TransferToWoken, Finds
<1>2. /\ q \in Priorities /\ k \in DOMAIN list[q] /\ TransferTo(list[q][k])
      /\ list[q][k] \in Processes
      /\ \A i \in DOMAIN list[q] : i > k => list[q][i] \in Members(list'[q])
      /\ \A m \in Lists : m # q /\ m \notin q + 1 .. SearchFrom => list'[m] = list[m]
      /\ myList' = [myList EXCEPT ![list[q][k]] = Nil]
  BY <1>1, Typed, TransferToLinkEffect
<1> DEFINE l == myList[p]
<1>3. PICK i \in DOMAIN list[l] : list[l][i] = p
  BY DEF Ready, OnList
<1>4. l \in Priorities /\ l \in Lists /\ i \in Runnable(list, l)
  BY <1>3, Vocabulary DEF Ready, Runnable, HasContext
<1>5. CASE p = list[q][k]
  BY <1>2, <1>5, TransferToEffect
<1>6. CASE p # list[q][k]
  <2>1. myList'[p] = l
    BY <1>2, <1>6, Typed DEF BackLinks
  <2>2. p \in Members(list'[l])
    <3>1. CASE l = q
      <4>1. k <= i /\ k # i
        BY <1>1, <1>3, <1>4, <1>6, <3>1 DEF Finds
      <4>2. i \in Int /\ k \in Int
        BY <1>2, <1>3, <1>4, <3>1, Typed, LenProperties DEF LinkedLists
      <4>3. QED
        BY <4>1, <4>2, <1>2, <1>3, <3>1
    <3>2. CASE l # q
      <4>1. l \notin q + 1 .. SearchFrom
        <5>1. SUFFICES ASSUME l \in q + 1 .. SearchFrom PROVE FALSE
          OBVIOUS
        <5>2. l \in RunnableQueues(list)
          BY <5>1, <1>2, <1>4, Vocabulary DEF RunnableQueues
        <5>3. l <= q
          BY <5>2, <1>1 DEF Finds
        <5>4. QED
          BY <5>1, <5>3, <1>2, <1>4, Vocabulary
      <4>2. list'[l] = list[l]
        BY <4>1, <3>2, <1>2, <1>4
      <4>3. QED
        BY <4>2, <1>3 DEF Members
    <3>3. QED
      BY <3>1, <3>2
  <2>3. QED
    BY <2>1, <2>2, <1>4 DEF Ready, OnList, Members
<1>7. QED
  BY <1>5, <1>6

\* Entering and leaving a callback loses nobody, whatever the image did to priorities and
\* contexts, and whatever it suspended.
THEOREM NobodyIsLostInCallbacks == CallbacksSpec => CallbacksLoseNobody
<1> DEFINE A ==
      StartCallback \/ LeaveCallback =>
        \A p \in Processes :
          (p = activeProcess \/ (Ready(p) /\ HasContext(p)))
            => (p = activeProcess \/ Ready(p) \/ Caller(p))'
<1>1. ASSUME CallbacksTypeOK, CallersWork, SoundWithCallbacks', CallbacksNext,
             StartCallback \/ LeaveCallback,
             NEW p \in Processes, p = activeProcess \/ (Ready(p) /\ HasContext(p))
      PROVE  (p = activeProcess \/ Ready(p) \/ Caller(p))'
  <2>0. TypeOK /\ OneListEach /\ ~halted'
    BY <1>1 DEF CallbacksTypeOK, SoundWithCallbacks, CallbacksNext
  <2>1. CASE StartCallback
    <3>1. CASE UNCHANGED vars
      BY <1>1, <3>1 DEF vars, Ready, OnList
    <3>2. CASE suspendedCallbacks[jmpDepth] = activeProcess /\ TransferToWoken(list, myList)
      <4>1. UNCHANGED suspendedCallbacks /\ jmpDepth \in DOMAIN suspendedCallbacks
        BY <1>1, <2>1, PoppedCaller DEF StartCallback, CallersWork, CallbacksTypeOK, jmpDepth
      <4>2. p = activeProcess => Caller(p)'
        BY <3>2, <4>1 DEF Caller
      <4>3. QED
        BY <1>1, <2>0, <3>2, <4>2, SearchKeepsReady
    <3>3. QED
      BY <2>1, <3>1, <3>2 DEF StartCallback
  <2>2. CASE LeaveCallback
    <3>1. /\ Linked(list, list', activeProcess, priority[activeProcess])
          /\ priority[activeProcess] \in Priorities
          /\ myList' = [myList EXCEPT ![activeProcess] = priority[activeProcess]]
      BY <1>1, <2>2, LeaveEffect
    <3>2. p = activeProcess => Ready(p)'
      BY <3>1, <2>0, Typed DEF Ready, OnList, Members, Linked, BackLinks
    <3>3. ASSUME p # activeProcess, Ready(p) PROVE Ready(p)'
      <4>1. myList'[p] = myList[p] /\ myList[p] \in Priorities /\ myList[p] \in Lists
            /\ p \in Members(list[myList[p]])
        BY <3>1, <3>3, <2>0, Typed, Vocabulary DEF Ready, BackLinks
      <4>2. p \in Members(list'[myList[p]])
        BY <3>1, <4>1 DEF Linked
      <4>3. QED
        BY <4>1, <4>2 DEF Ready, OnList, Members
    <3>4. QED
      BY <1>1, <3>2, <3>3
  <2>3. QED
    BY <1>1, <2>1, <2>2
<1>2. CallbacksTypeOK /\ CallersWork /\ SoundWithCallbacks' /\ [CallbacksNext]_callbackVars
        => [A]_callbackVars
  BY <1>1
<1>3. CallbacksLoseNobody <=> [][A]_callbackVars
  BY DEF CallbacksLoseNobody
<1> HIDE DEF A
<1>4. QED
  BY <1>2, <1>3, CallbacksTypeCorrect, CallersAlwaysWork, AlwaysSoundWithCallbacks, PTL
  DEF CallbacksSpec
=============================================================================

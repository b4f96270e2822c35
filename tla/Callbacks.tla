------------------------------- MODULE Callbacks -------------------------------
(***************************************************************************)
(* callbackEnter and callbackLeave of spurstack64src/vm/interp.c, on top of *)
(* the process primitives.  A plugin's foreign code calls back: the calling *)
(* process stays in its primitive on the native stack, and a new activation *)
(* of the interpreter runs the others until the innermost callback is left. *)
(***************************************************************************)
EXTENDS ProcessScheduler

CONSTANT
  MaxJumpBuf           \* callbacks that may be open at a time

VARIABLES
  suspendedCallbacks,  \* the calling process of every open callback, the innermost last
  entering,            \* callbackEnter has not yet looked for another process to run
  preempted            \* history: of every callback that began, whether a signal at its entrance
                       \* had made another process active, with the caller put on its run queue

callbacks == <<suspendedCallbacks, entering, preempted>>
callbackVars == <<vars, callbacks>>

ASSUME CallbacksAssumption == MaxJumpBuf \in Nat

jmpDepth == Len(suspendedCallbacks)
Caller(p) == \E k \in DOMAIN suspendedCallbacks : suspendedCallbacks[k] = p
Sleeper(p) == \E k \in DOMAIN preempted : ~preempted[k] /\ suspendedCallbacks[k] = p

CallbacksTypeOK ==
  /\ TypeOK
  /\ suspendedCallbacks \in Seq(Processes)
  /\ jmpDepth <= MaxJumpBuf
  /\ entering \in BOOLEAN
  /\ preempted \in Seq(BOOLEAN)
  /\ jmpDepth = Len(preempted) + (IF entering THEN 1 ELSE 0)

CallbacksInit == Init /\ suspendedCallbacks = <<>> /\ entering = FALSE /\ preempted = <<>>

\* callbackEnter, up to the signals: the process whose primitive calls back is noted.  (The
\* idle process calls no plugin.)
EnterCallback ==
  /\ Running
  /\ ~entering
  /\ jmpDepth < MaxJumpBuf
  /\ suspendedCallbacks' = Append(suspendedCallbacks, activeProcess)
  /\ entering' = TRUE
  /\ UNCHANGED <<vars, preempted>>

\* doSignalExternalSemaphores, within callbackEnter: requests that threads and interrupt handlers
\* made since the last event check, the primitive's own foreign call included
SignalOnEntry(s) ==
  /\ entering
  /\ Signal(s)
  /\ UNCHANGED callbacks

\* Whoever is active goes on, the caller too.
BugGoOn ==
  /\ ~halted
  /\ entering
  /\ entering' = FALSE
  /\ preempted' = Append(preempted, suspendedCallbacks[jmpDepth] # activeProcess)
  /\ UNCHANGED <<vars, suspendedCallbacks>>

\* The rest of callbackEnter: unless a signal has made another process active, the next one to
\* run is chosen.  The interpreter then goes on from the active process.
StartCallback ==
  /\ ~halted
  /\ entering
  /\ IF suspendedCallbacks[jmpDepth] = activeProcess
     THEN TransferToWoken(list, myList) /\ UNCHANGED <<priority, synchronisation>>
     ELSE UNCHANGED vars
  /\ entering' = FALSE
  /\ preempted' = Append(preempted, suspendedCallbacks[jmpDepth] # activeProcess)
  /\ UNCHANGED suspendedCallbacks

\* The process that leaves is not put back on its run queue.
BugLeaveNoTrace ==
  /\ Running
  /\ ~entering
  /\ jmpDepth >= 1
  /\ TransferTo(suspendedCallbacks[jmpDepth])
  /\ suspendedCallbacks' = SubSeq(suspendedCallbacks, 1, jmpDepth - 1)
  /\ preempted' = SubSeq(preempted, 1, jmpDepth - 1)
  /\ UNCHANGED <<list, myList, highestRunnable, priority, synchronisation, halted, entering>>

\* The outermost callback is left for the innermost one.
BugLeaveOutermost ==
  /\ Running
  /\ ~entering
  /\ jmpDepth >= 1
  /\ PutToSleep(list, myList, activeProcess, PreemptionYields)
  /\ TransferTo(suspendedCallbacks[1])
  /\ suspendedCallbacks' = SubSeq(suspendedCallbacks, 1, jmpDepth - 1)
  /\ preempted' = SubSeq(preempted, 1, jmpDepth - 1)
  /\ UNCHANGED <<priority, synchronisation, halted, entering>>

\* callbackLeave of the innermost callback (of any other it fails), by whatever process, and
\* the end of callbackEnter it jumps to: the caller goes on wherever it is by then.  A caller
\* that was preempted may be linked from a list, or be the process that leaves.
LeaveCallback ==
  /\ Running
  /\ ~entering
  /\ jmpDepth >= 1
  /\ PutToSleep(list, myList, activeProcess, PreemptionYields)
  /\ TransferTo(suspendedCallbacks[jmpDepth])
  /\ suspendedCallbacks' = SubSeq(suspendedCallbacks, 1, jmpDepth - 1)
  /\ preempted' = SubSeq(preempted, 1, jmpDepth - 1)
  /\ UNCHANGED <<priority, synchronisation, halted, entering>>

\* A primitive, outside callbackEnter.  No program resumes a process that sleeps until its
\* callback is left.
Primitive ==
  /\ ~entering
  /\ \/ \E p \in Processes : (~Sleeper(p) /\ Resume(p)) \/ Suspend(p) \/ DropContext(p)
     \/ \E p \in Processes, n \in Priorities : SetPriority(p, n)
     \/ \E s \in Semaphores : Signal(s) \/ Wait(s)
     \/ \E c \in CriticalSections : \/ EnterCriticalSection(c)
                                    \/ TestAndSetOwnershipOfCriticalSection(c)
                                    \/ ExitCriticalSection(c)
     \/ SuspendActive
     \/ Yield
  /\ UNCHANGED callbacks

\* The sequences stand for chains of links, of which a process has one: what follows once a process
\* is linked twice, or is active while it is linked, is beyond this model.
CallbacksNext ==
  /\ OneListEach
  /\ \/ Primitive
     \/ EnterCallback
     \/ \E s \in Semaphores : SignalOnEntry(s)
     \/ StartCallback
     \/ LeaveCallback

CallbacksSpec == CallbacksInit /\ [][CallbacksNext]_callbackVars

-----------------------------------------------------------------------------
(* Properties                                                               *)

\* A caller that callbackEnter took the processor from sleeps outside every list, with a context
\* to go on from and in no later callback: nothing but the end of its callback makes it run.
CallersStaySuspended ==
  ~halted =>
    \A k \in DOMAIN preempted :
      LET p == suspendedCallbacks[k]
      IN  ~preempted[k] =>
            /\ p # activeProcess
            /\ OnNoList(p)
            /\ HasContext(p)
            /\ \A j \in DOMAIN suspendedCallbacks : suspendedCallbacks[j] = p => j <= k

\* "Suspend the currently active process", as callbackEnter has it: while a callback is open its
\* caller does not run and is not ready to.
CallersAreSuspended ==
  ~entering => \A k \in DOMAIN suspendedCallbacks :
    suspendedCallbacks[k] # activeProcess /\ OnNoList(suspendedCallbacks[k])

\* No step links a process twice or makes a linked process active, whatever callbacks are open,
\* but for leaving a callback whose caller was preempted at its entrance.
ListsSurvive ==
  [][(jmpDepth' < jmpDepth => ~preempted[jmpDepth]) => OneListEach']_callbackVars

\* Entering and leaving a callback loses nobody: a process that was active, or ready and had a
\* context, is then active, on a run queue, or the caller of an open callback.
CallbacksLoseNobody ==
  [][StartCallback \/ LeaveCallback =>
       \A p \in Processes :
         (p = activeProcess \/ (Ready(p) /\ HasContext(p)))
           => (p = activeProcess \/ Ready(p) \/ Caller(p))']_callbackVars
=============================================================================

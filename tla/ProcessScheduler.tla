--------------------------- MODULE ProcessScheduler ---------------------------
(***************************************************************************)
(* The process primitives of spurstack64src/vm/interp.c: one run queue per *)
(* priority, semaphores, critical sections, and the transfer of control    *)
(* between Smalltalk processes.  Every primitive runs to completion in the *)
(* VM thread and is one action.                                            *)
(*                                                                         *)
(* A LinkedList is the sequence of the processes linked from it.  What the *)
(* program calls (the image, or the event check that signals semaphores)   *)
(* is arbitrary, within the habits the constants name.                     *)
(***************************************************************************)
EXTENDS Integers, Sequences

CONSTANTS
  Processes,
  IdleProcess,         \* the image's background process: lowest priority, never blocks
  MaxPriority,         \* number of run queues (size of quiescentProcessLists)
  Semaphores,
  CriticalSections,
  Nil,                 \* nilObj, in a list or owner slot
  PreemptionYields,    \* header flag: a preempted process goes to the back of its queue
  SuspendsWaiters,     \* images suspend processes that wait on a semaphore or section
  MakesZombies,        \* run queues of whose processes images drop the suspendedContext
  ChangesPriorities,   \* images change the priority of processes that are "ready" (the active one
                       \* too), or "waiting" (suspended ones too)
  MaxExcessSignals     \* bound: no signal is sent to a semaphore that holds so many

Priorities == 1 .. MaxPriority
Waitables == Semaphores \cup CriticalSections
Lists == Priorities \cup Waitables      \* a priority names its run queue

ASSUME ConstantsAssumption ==
  /\ IdleProcess \in Processes
  /\ MaxPriority \in Nat \ {0}
  /\ Nil \notin Processes \cup Lists
  /\ Priorities \cap Waitables = {}
  /\ Semaphores \cap CriticalSections = {}
  /\ PreemptionYields \in BOOLEAN
  /\ MakesZombies \subseteq Priorities
  /\ MaxExcessSignals \in Nat

VARIABLES
  list,                \* the processes linked from every LinkedList, first to last
  myList,              \* the list a process believes it is on
  priority,
  suspendedContext,    \* of every process: "live", or "nil" while it runs
  activeProcess,
  highestRunnable,     \* highestRunnableProcessPriority: 0, or a bound on the run queues
  excessSignals,
  owner,               \* of every critical section
  entered,             \* history: processes that began to enter a section and did not exit
  halted               \* the VM stopped: no runnable process was found

vars == <<list, myList, priority, suspendedContext, activeProcess, highestRunnable,
          excessSignals, owner, entered, halted>>

synchronisation == <<excessSignals, owner, entered>>

TypeOK ==
  /\ list \in [Lists -> Seq(Processes)]
  /\ myList \in [Processes -> Lists \cup {Nil}]
  /\ priority \in [Processes -> Priorities]
  /\ suspendedContext \in [Processes -> {"live", "nil"}]
  /\ activeProcess \in Processes
  /\ highestRunnable \in 0 .. MaxPriority
  /\ excessSignals \in [Semaphores -> Nat]
  /\ owner \in [CriticalSections -> Processes \cup {Nil}]
  /\ entered \in [CriticalSections -> SUBSET Processes]
  /\ halted \in BOOLEAN

\* An image has been loaded: one process is active, the idle process is ready if
\* it is not the active one, and the others wait to be resumed.  Nobody clears the
\* suspendedContext of the first active process.
Init ==
  /\ priority \in {f \in [Processes -> Priorities] : f[IdleProcess] = 1}
  /\ activeProcess \in Processes
  /\ LET idleWaits == activeProcess # IdleProcess
     IN  /\ list = [l \in Lists |-> IF l = 1 /\ idleWaits THEN <<IdleProcess>> ELSE <<>>]
         /\ myList = [p \in Processes |-> IF p = IdleProcess /\ idleWaits THEN 1 ELSE Nil]
  /\ suspendedContext = [p \in Processes |-> "live"]
  /\ highestRunnable = 0
  /\ excessSignals = [s \in Semaphores |-> 0]
  /\ owner = [c \in CriticalSections |-> Nil]
  /\ entered = [c \in CriticalSections |-> {}]
  /\ halted = FALSE

-----------------------------------------------------------------------------
(* Lists and transfers.  An operator on lists takes the lists and the       *)
(* processes' myList, as the calls made so far leave them, as L and M.      *)
(*                                                                          *)
(* A Bug definition is a variant of the one after it that the code could    *)
(* have had: what the properties below are sensitive to.                    *)

OnList(p, l) == \E k \in DOMAIN list[l] : list[l][k] = p
OnNoList(p) == \A l \in Lists : ~OnList(p, l)

AddLast(L, p, l) == [L EXCEPT ![l] = Append(@, p)]
AddFirst(L, p, l) == [L EXCEPT ![l] = <<p>> \o @]
RemoveFirst(L, l) == [L EXCEPT ![l] = Tail(@)]

\* The link before p is given nil instead of p's own next link.
BugCutOff(L, p, l) ==
  LET k == CHOOSE n \in DOMAIN L[l] : L[l][n] = p
  IN  [L EXCEPT ![l] = SubSeq(@, 1, k - 1)]

\* removeProcess:fromList:, a link in the middle included
Remove(L, p, l) ==
  LET k == CHOOSE n \in DOMAIN L[l] : L[l][n] = p
  IN  [L EXCEPT ![l] = SubSeq(@, 1, k - 1) \o SubSeq(@, k + 1, Len(@))]

\* The active process stops with its context saved; p goes on from its own.
TransferTo(p) ==
  /\ activeProcess' = p
  /\ suspendedContext' = [suspendedContext EXCEPT ![activeProcess] = "live", ![p] = "nil"]

\* The hint is left as it was.
BugKeepHint(L, M, p, yielding) ==
  /\ list' = IF yielding THEN AddLast(L, p, priority[p]) ELSE AddFirst(L, p, priority[p])
  /\ UNCHANGED highestRunnable
  /\ myList' = [M EXCEPT ![p] = priority[p]]

PutToSleep(L, M, p, yielding) ==
  /\ list' = IF yielding THEN AddLast(L, p, priority[p]) ELSE AddFirst(L, p, priority[p])
  /\ highestRunnable' = IF highestRunnable # 0 /\ priority[p] > highestRunnable
                        THEN priority[p] ELSE highestRunnable
  /\ myList' = [M EXCEPT ![p] = priority[p]]

\* A process of a higher priority is only queued.
BugNeverPreempt(L, p) ==
  /\ PutToSleep(L, myList, p, TRUE)
  /\ UNCHANGED <<activeProcess, suspendedContext>>

\* The preempted process is not put back on its run queue.
BugForgetPreempted(L, p) ==
  \/ /\ priority[p] <= priority[activeProcess]
     /\ PutToSleep(L, myList, p, TRUE)
     /\ UNCHANGED <<activeProcess, suspendedContext>>
  \/ /\ priority[p] > priority[activeProcess]
     /\ list' = L
     /\ myList' = [myList EXCEPT ![p] = Nil]
     /\ UNCHANGED highestRunnable
     /\ TransferTo(p)

\* A resumed process is queued as a preempted one is.
BugResumeInFront(L, p) ==
  \/ /\ priority[p] <= priority[activeProcess]
     /\ PutToSleep(L, myList, p, PreemptionYields)
     /\ UNCHANGED <<activeProcess, suspendedContext>>
  \/ /\ priority[p] > priority[activeProcess]
     /\ PutToSleep(L, [myList EXCEPT ![p] = Nil], activeProcess, PreemptionYields)
     /\ TransferTo(p)

\* resume:preemptedYieldingIf: of a process that is on no list of L.
ResumeOrPreempt(L, p) ==
  \/ /\ priority[p] <= priority[activeProcess]
     /\ PutToSleep(L, myList, p, TRUE)
     /\ UNCHANGED <<activeProcess, suspendedContext>>
  \/ /\ priority[p] > priority[activeProcess]
     /\ PutToSleep(L, [myList EXCEPT ![p] = Nil], activeProcess, PreemptionYields)
     /\ TransferTo(p)

\* The queues that hold a process wakeHighestPriority would answer.
SearchFrom == IF highestRunnable = 0 THEN MaxPriority ELSE highestRunnable
Runnable(L, q) == {k \in DOMAIN L[q] : suspendedContext[L[q][k]] = "live"}
RunnableQueues(L) == {q \in 1 .. SearchFrom : Runnable(L, q) # {}}

\* p + 2 for p + 1, as if p counted from one.
BugHintTooHigh(L, M, q, k) ==
  /\ list' = [l \in Lists |-> CASE l = q -> SubSeq(L[q], k + 1, Len(L[q]))
                                [] l \in q + 1 .. SearchFrom -> <<>>
                                [] OTHER -> L[l]]
  /\ myList' = [M EXCEPT ![L[q][k]] = Nil]
  /\ highestRunnable' = q + 1
  /\ TransferTo(L[q][k])

\* The process that goes on stays linked.
BugKeepLink(L, M, q, k) ==
  /\ list' = [l \in Lists |-> CASE l = q -> SubSeq(L[q], k, Len(L[q]))
                                [] l \in q + 1 .. SearchFrom -> <<>>
                                [] OTHER -> L[l]]
  /\ myList' = [M EXCEPT ![L[q][k]] = Nil]
  /\ highestRunnable' = q
  /\ TransferTo(L[q][k])

\* transferTo of link k of queue q.  The zombies before it are discarded; they keep
\* their myList.
TransferToLink(L, M, q, k) ==
  /\ list' = [l \in Lists |-> CASE l = q -> SubSeq(L[q], k + 1, Len(L[q]))
                                [] l \in q + 1 .. SearchFrom -> <<>>
                                [] OTHER -> L[l]]
  /\ myList' = [M EXCEPT ![L[q][k]] = Nil]
  /\ highestRunnable' = q
  /\ TransferTo(L[q][k])

\* transferTo(wakeHighestPriority()), or the VM gives up
TransferToWoken(L, M) ==
  \/ /\ RunnableQueues(L) = {}
     /\ halted' = TRUE
     /\ UNCHANGED <<list, myList, suspendedContext, activeProcess, highestRunnable>>
  \/ \E q \in RunnableQueues(L) : \E k \in Runnable(L, q) :
       /\ \A h \in RunnableQueues(L) : h <= q
       /\ \A j \in Runnable(L, q) : k <= j
       /\ TransferToLink(L, M, q, k)
       /\ UNCHANGED halted

\* addLastLinktoList(activeProc, l); transferTo(wakeHighestPriority())
BlockOn(l) ==
  TransferToWoken(AddLast(list, activeProcess, l), [myList EXCEPT ![activeProcess] = l])

-----------------------------------------------------------------------------
(* The primitives.                                                          *)

\* The active process runs code that may block.
Running == ~halted /\ activeProcess # IdleProcess

\* primitiveResume.  A process on a list, or the active one, is never resumed:
\* the primitive does not look, and the lists would not survive it.
Resume(p) ==
  /\ ~halted
  /\ p # activeProcess
  /\ OnNoList(p)
  /\ suspendedContext[p] = "live"
  /\ ResumeOrPreempt(list, p)
  /\ UNCHANGED <<priority, synchronisation, halted>>

\* The signal is also counted when a waiter takes it.
BugCountTwice(s) ==
  /\ ~halted
  /\ excessSignals[s] < MaxExcessSignals
  /\ \/ /\ list[s] = <<>>
        /\ excessSignals' = [excessSignals EXCEPT ![s] = @ + 1]
        /\ UNCHANGED <<list, myList, highestRunnable, activeProcess, suspendedContext>>
     \/ /\ list[s] # <<>>
        /\ ResumeOrPreempt(RemoveFirst(list, s), Head(list[s]))
        /\ excessSignals' = [excessSignals EXCEPT ![s] = @ + 1]
  /\ UNCHANGED <<priority, owner, entered, halted>>

\* synchronousSignal: primitiveSignal, and every signal of the event check.
Signal(s) ==
  /\ ~halted
  /\ \/ /\ list[s] = <<>>
        /\ excessSignals[s] < MaxExcessSignals
        /\ excessSignals' = [excessSignals EXCEPT ![s] = @ + 1]
        /\ UNCHANGED <<list, myList, highestRunnable, activeProcess, suspendedContext>>
     \/ /\ list[s] # <<>>
        /\ ResumeOrPreempt(RemoveFirst(list, s), Head(list[s]))
        /\ UNCHANGED excessSignals
  /\ UNCHANGED <<priority, owner, entered, halted>>

\* primitiveWait
Wait(s) ==
  /\ Running
  /\ \/ /\ excessSignals[s] > 0
        /\ excessSignals' = [excessSignals EXCEPT ![s] = @ - 1]
        /\ UNCHANGED <<list, myList, highestRunnable, activeProcess, suspendedContext, halted>>
     \/ /\ excessSignals[s] = 0
        /\ BlockOn(s)
        /\ UNCHANGED excessSignals
  /\ UNCHANGED <<priority, owner, entered>>

\* primitiveEnterCriticalSection.  (Entering a section one owns changes nothing.)
EnterCriticalSection(c) ==
  /\ Running
  /\ owner[c] # activeProcess
  /\ \/ /\ owner[c] = Nil
        /\ owner' = [owner EXCEPT ![c] = activeProcess]
        /\ UNCHANGED <<list, myList, highestRunnable, activeProcess, suspendedContext, halted>>
     \/ /\ owner[c] # Nil
        /\ BlockOn(c)
        /\ UNCHANGED owner
  /\ entered' = [entered EXCEPT ![c] = @ \cup {activeProcess}]
  /\ UNCHANGED <<priority, excessSignals>>

\* primitiveTestAndSetOwnershipOfCriticalSection (it never blocks; it changes
\* nothing unless the section is free)
TestAndSetOwnershipOfCriticalSection(c) ==
  /\ Running
  /\ owner[c] = Nil
  /\ owner' = [owner EXCEPT ![c] = activeProcess]
  /\ entered' = [entered EXCEPT ![c] = @ \cup {activeProcess}]
  /\ UNCHANGED <<list, myList, priority, suspendedContext, activeProcess, highestRunnable,
                 excessSignals, halted>>

\* The section is freed and the first waiter left to try again.
BugFreeSection(c) ==
  /\ Running
  /\ activeProcess \in entered[c]
  /\ \/ /\ list[c] = <<>>
        /\ owner' = [owner EXCEPT ![c] = Nil]
        /\ UNCHANGED <<list, myList, highestRunnable, activeProcess, suspendedContext>>
     \/ /\ list[c] # <<>>
        /\ owner' = [owner EXCEPT ![c] = Nil]
        /\ ResumeOrPreempt(RemoveFirst(list, c), Head(list[c]))
  /\ entered' = [entered EXCEPT ![c] = @ \ {activeProcess}]
  /\ UNCHANGED <<priority, excessSignals, halted>>

\* primitiveExitCriticalSection, by a process that went through the entrance.
ExitCriticalSection(c) ==
  /\ Running
  /\ activeProcess \in entered[c]
  /\ \/ /\ list[c] = <<>>
        /\ owner' = [owner EXCEPT ![c] = Nil]
        /\ UNCHANGED <<list, myList, highestRunnable, activeProcess, suspendedContext>>
     \/ /\ list[c] # <<>>
        /\ owner' = [owner EXCEPT ![c] = Head(list[c])]
        /\ ResumeOrPreempt(RemoveFirst(list, c), Head(list[c]))
  /\ entered' = [entered EXCEPT ![c] = @ \ {activeProcess}]
  /\ UNCHANGED <<priority, excessSignals, halted>>

\* primitiveSuspend of the active process
SuspendActive ==
  /\ Running
  /\ TransferToWoken(list, myList)
  /\ UNCHANGED <<priority, synchronisation>>

\* primitiveSuspend of another process.  (It fails when myList is nil or does not
\* hold the process.)
Suspend(p) ==
  /\ ~halted
  /\ p \notin {activeProcess, IdleProcess}
  /\ myList[p] # Nil
  /\ OnList(p, myList[p])
  /\ myList[p] \in Waitables => SuspendsWaiters
  /\ list' = Remove(list, p, myList[p])
  /\ myList' = [myList EXCEPT ![p] = Nil]
  /\ UNCHANGED <<priority, suspendedContext, activeProcess, highestRunnable, synchronisation,
                 halted>>

\* primitiveYield
Yield ==
  /\ Running
  /\ list[priority[activeProcess]] # <<>>
  /\ BlockOn(priority[activeProcess])
  /\ UNCHANGED <<priority, synchronisation>>

\* The image stores into a process: its priority, or a nil suspendedContext while
\* it is on a run queue.  No list is touched.
SetPriority(p, n) ==
  /\ ~halted
  /\ (IF p = activeProcess \/ myList[p] \in Priorities THEN "ready" ELSE "waiting")
       \in ChangesPriorities
  /\ p # IdleProcess
  /\ priority' = [priority EXCEPT ![p] = n]
  /\ UNCHANGED <<list, myList, suspendedContext, activeProcess, highestRunnable,
                 synchronisation, halted>>

DropContext(p) ==
  /\ ~halted
  /\ p # IdleProcess
  /\ myList[p] \in MakesZombies
  /\ OnList(p, myList[p])
  /\ suspendedContext' = [suspendedContext EXCEPT ![p] = "nil"]
  /\ UNCHANGED <<list, myList, priority, activeProcess, highestRunnable, synchronisation,
                 halted>>

Next ==
  \/ \E p \in Processes : Resume(p) \/ Suspend(p) \/ DropContext(p)
  \/ \E p \in Processes, n \in Priorities : SetPriority(p, n)
  \/ \E s \in Semaphores : Signal(s) \/ Wait(s)
  \/ \E c \in CriticalSections : \/ EnterCriticalSection(c)
                                 \/ TestAndSetOwnershipOfCriticalSection(c)
                                 \/ ExitCriticalSection(c)
  \/ SuspendActive
  \/ Yield

Spec == Init /\ [][Next]_vars

\* Processes that share a priority yield to each other: of the times the active
\* process of a priority could yield, it does so every now and then.
FairSpec ==
  Spec /\ \A n \in Priorities : SF_vars(priority[activeProcess] = n /\ Yield)

-----------------------------------------------------------------------------
(* Properties *)

\* A process is linked from at most one list, once, and knows from which; the
\* active process is on none.  (addLastLinktoList and removeProcess:fromList:
\* corrupt the lists if not.)
OneListEach ==
  /\ \A l \in Lists : \A j, k \in DOMAIN list[l] :
       /\ myList[list[l][j]] = l
       /\ list[l][j] = list[l][k] => j = k
  /\ myList[activeProcess] = Nil

\* highestRunnableProcessPriority, once it is known, never hides a run queue
\* from wakeHighestPriority.
HintCoversRunQueues ==
  highestRunnable # 0 => \A q \in Priorities : q > highestRunnable => list[q] = <<>>

\* No runnable process has a higher priority than the active one.
HighestRuns ==
  \A q \in Priorities : q > priority[activeProcess] => Runnable(list, q) = {}

\* Nobody waits for a signal that was sent or for a section that is free.
NothingHoarded ==
  /\ \A s \in Semaphores : excessSignals[s] > 0 => list[s] = <<>>
  /\ \A c \in CriticalSections : owner[c] = Nil => list[c] = <<>>

\* A process that got through the entrance of a section owns it until it exits.
EnteredOwns ==
  \A c \in CriticalSections, p \in Processes :
    p \in entered[c] => owner[c] = p \/ OnList(p, c)

\* While the idle process never blocks, there is always something to run.
NeverHalts == ~halted

\* A process that is not suspended is on the list it believes to be on, and will be
\* found by a signal, an exit or a switch, unless that is a queue with zombies.
NobodyFallsOff ==
  \A p \in Processes :
    myList[p] # Nil /\ myList[p] \notin MakesZombies => OnList(p, myList[p])

Ready(p) == myList[p] \in Priorities /\ OnList(p, myList[p])
HasContext(p) == suspendedContext[p] = "live"

\* A ready process above the idle process's priority gets to run if its equals
\* yield, however often they are preempted by higher priorities, suspended, resumed,
\* made to wait or robbed of their contexts meanwhile, provided the higher priorities
\* come to rest and it keeps its own context.
EqualsTakeTurns ==
  \A p \in Processes :
    []<>(priority[activeProcess] <= priority[p])
      => (Ready(p) /\ HasContext(p) /\ priority[p] > priority[IdleProcess]
            ~> activeProcess = p \/ ~Ready(p) \/ ~HasContext(p))

\* Queues, priorities and preemption implement the abstract synchronisation.
Synchronisation == INSTANCE ProcessSynchronisation WITH
  ready <- {p \in Processes : p = activeProcess \/ myList[p] \in Priorities},
  waiters <- [w \in Waitables |-> list[w]],
  signals <- excessSignals,
  holder <- owner

SynchronisationKept == Synchronisation!Spec
=============================================================================

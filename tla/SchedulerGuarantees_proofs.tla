---------------------- MODULE SchedulerGuarantees_proofs ----------------------
(***************************************************************************)
(* What the scheduler promises the programs, proved from the soundness of  *)
(* its lists (ProcessScheduler_proofs), for any processes, priorities,     *)
(* semaphores and sections.                                                *)
(***************************************************************************)
EXTENDS ProcessScheduler_proofs

-----------------------------------------------------------------------------
(* There is always something to run.                                        *)

\* The idle process runs, or is found on the lowest run queue.
IdleReady ==
  /\ priority[IdleProcess] = 1
  /\ activeProcess # IdleProcess =>
       IdleProcess \in Members(list[1]) /\ suspendedContext[IdleProcess] = "live"

LEMMA IdleReadyInit == Init => IdleReady
<1> SUFFICES ASSUME Init PROVE IdleReady
  OBVIOUS
<1>1. IdleProcess \in Processes /\ 1 \in Lists
  BY Vocabulary, ConstantsAssumption DEF ConstantsAssumption
<1>2. activeProcess # IdleProcess => list[1] = <<IdleProcess>>
  BY <1>1 DEF Init
<1>3. IdleProcess \in Members(<<IdleProcess>>)
  BY DEF Members
<1>4. QED
  BY <1>1, <1>2, <1>3 DEF Init, IdleReady

\* A process that waits on the lowest run queue stays there while others are woken.
LEMMA WokenKeepsQueues ==
  ASSUME TypeOK, NEW L, NEW p, Woken(L, p), NEW q \in Priorities
  PROVE  L[q] = list[q]
BY Vocabulary DEF Woken, Unlinked

LEMMA LeftKeepsMembers ==
  ASSUME TypeOK, NEW L, NEW M, Left(L, M), NEW q \in Priorities
  PROVE  Members(list[q]) \subseteq Members(L[q])
BY Vocabulary DEF Left, Linked

LEMMA IdlePriority == IdleReady /\ [Next]_vars /\ TypeOK => priority'[IdleProcess] = 1
<1> SUFFICES ASSUME IdleReady, [Next]_vars, TypeOK PROVE priority'[IdleProcess] = 1
  OBVIOUS
<1>1. ASSUME NEW p \in Processes, NEW n \in Priorities, SetPriority(p, n)
      PROVE  priority'[IdleProcess] = 1
  BY <1>1, Typed DEF SetPriority, IdleReady
<1>2. ASSUME UNCHANGED priority PROVE priority'[IdleProcess] = 1
  BY <1>2 DEF IdleReady
<1>3. QED
  BY <1>1, <1>2 DEF Next, vars, Resume, Suspend, DropContext, Signal, Wait, EnterCriticalSection,
     TestAndSetOwnershipOfCriticalSection, ExitCriticalSection, SuspendActive, Yield

\* A step that makes a process ready leaves the idle process ready.
LEMMA ReadyKeepsIdle ==
  ASSUME TypeOK, IdleReady, ReadyStep
  PROVE  activeProcess' # IdleProcess =>
           IdleProcess \in Members(list'[1]) /\ suspendedContext'[IdleProcess] = "live"
<1> SUFFICES ASSUME activeProcess' # IdleProcess
             PROVE  IdleProcess \in Members(list'[1]) /\ suspendedContext'[IdleProcess] = "live"
  OBVIOUS
<1>0. 1 \in Lists /\ 1 \in Priorities
  BY Vocabulary
<1>1. PICK L \in LinkedLists, p \in Processes : Woken(L, p) /\ ResumeOrPreempt(L, p)
  BY DEF ReadyStep
<1>2. L[1] = list[1]
  BY <1>0, <1>1, WokenKeepsQueues
<1>3. CASE PutToSleep(L, myList, p, TRUE) /\ UNCHANGED <<activeProcess, suspendedContext>>
  <2>1. Linked(L, list', p, priority[p])
    BY <1>3, Typed, PutToSleepEffect
  <2>2. Members(L[1]) \subseteq Members(list'[1])
    BY <2>1, <1>0 DEF Linked
  <2>3. QED
    BY <2>2, <1>2, <1>3 DEF IdleReady
<1>4. CASE /\ priority[p] > priority[activeProcess]
           /\ PutToSleep(L, [myList EXCEPT ![p] = Nil], activeProcess, PreemptionYields)
           /\ TransferTo(p)
  <2>1. [myList EXCEPT ![p] = Nil] \in BackLinks
    BY Typed DEF BackLinks
  <2>2. Linked(L, list', activeProcess, priority[activeProcess])
    BY <2>1, <1>4, Typed, PutToSleepEffect
  <2>3. /\ Members(L[1]) \subseteq Members(list'[1])
        /\ priority[activeProcess] = 1 => activeProcess \in Members(list'[1])
    BY <2>2, <1>0 DEF Linked
  <2>4. p # activeProcess
    BY <1>4, Typed, Vocabulary
  <2>5. /\ activeProcess' = p
        /\ suspendedContext'[activeProcess] = "live"
        /\ \A q \in Processes \ {activeProcess, p} : suspendedContext'[q] = suspendedContext[q]
    BY <2>4, <1>4, TransferToEffect
  <2>6. CASE activeProcess = IdleProcess
    BY <2>3, <2>5, <2>6 DEF IdleReady
  <2>7. CASE activeProcess # IdleProcess
    BY <2>3, <2>5, <2>7, <1>2, Typed DEF IdleReady
  <2>8. QED
    BY <2>6, <2>7
<1>5. QED
  BY <1>1, <1>3, <1>4 DEF ResumeOrPreempt

\* Whoever blocks, the idle process is found, and stays ready if another is found first.
LEMMA BlockKeepsIdle ==
  ASSUME TypeOK, IdleReady, BlockStep
  PROVE  /\ UNCHANGED halted
         /\ activeProcess' # IdleProcess =>
              IdleProcess \in Members(list'[1]) /\ suspendedContext'[IdleProcess] = "live"
<1>0. 1 \in Lists /\ 1 \in Priorities
  BY Vocabulary
<1>1. PICK L \in LinkedLists, M \in BackLinks : Left(L, M) /\ TransferToWoken(L, M)
  BY DEF BlockStep
<1>2. activeProcess # IdleProcess
  BY DEF BlockStep, Running
<1>3. PICK j \in DOMAIN L[1] : L[1][j] = IdleProcess
  BY <1>0, <1>1, <1>2, LeftKeepsMembers DEF IdleReady, Members
<1>4. j \in Runnable(L, 1)
  BY <1>2, <1>3 DEF Runnable, IdleReady
<1>5. 1 \in RunnableQueues(L)
  BY <1>4, SearchFromType, Vocabulary DEF RunnableQueues
<1>6. PICK q, k : Finds(L, q, k) /\ TransferToLink(L, M, q, k) /\ UNCHANGED halted
  BY <1>1, <1>5 DEF TransferToWoken, Finds
<1>7. /\ q \in Priorities /\ k \in DOMAIN L[q] /\ TransferTo(L[q][k]) /\ L[q][k] \in Processes
      /\ \A i \in DOMAIN L[q] : i > k => L[q][i] \in Members(list'[q])
      /\ \A m \in Lists : m # q /\ m \notin q + 1 .. SearchFrom => list'[m] = L[m]
  BY <1>6, TransferToLinkEffect
<1>8. ASSUME activeProcess' # IdleProcess
      PROVE  IdleProcess \in Members(list'[1]) /\ suspendedContext'[IdleProcess] = "live"
  <2>1. /\ activeProcess' = L[q][k]
        /\ \A r \in Processes \ {activeProcess, L[q][k]} :
             suspendedContext'[r] = suspendedContext[r]
    BY <1>7, TransferToEffect
  <2>2. suspendedContext'[IdleProcess] = "live"
    BY <2>1, <1>2, <1>8, Typed DEF IdleReady
  <2>3. CASE q = 1
    <3>1. k <= j /\ k # j
      BY <2>1, <2>3, <1>3, <1>4, <1>6, <1>8 DEF Finds
    <3>2. j \in Int /\ k \in Int
      BY <2>3, <1>0, <1>3, <1>7, LenProperties DEF LinkedLists
    <3>3. QED
      BY <3>1, <3>2, <2>2, <2>3, <1>3, <1>7
  <2>4. CASE q # 1
    <3>1. 1 \notin q + 1 .. SearchFrom
      BY <2>4, <1>7, SearchFromType, Vocabulary
    <3>2. list'[1] = L[1]
      BY <3>1, <2>4, <1>0, <1>7
    <3>3. QED
      BY <3>2, <2>2, <1>3 DEF Members
  <2>5. QED
    BY <2>3, <2>4
<1>9. QED
  BY <1>6, <1>8

LEMMA IdleReadyStep ==
  ASSUME TypeOK, OneListEach, IdleReady, [Next]_vars
  PROVE  IdleReady' /\ UNCHANGED halted
<1>0. priority'[IdleProcess] = 1
  BY IdlePriority
<1>1. CASE QuietStep
  BY <1>0, <1>1 DEF QuietStep, IdleReady
<1>2. CASE ReadyStep
  BY <1>0, <1>2, ReadyKeepsIdle DEF ReadyStep, IdleReady
<1>3. CASE BlockStep
  BY <1>0, <1>3, BlockKeepsIdle DEF IdleReady
<1>4. CASE SuspendStep
  <2>1. PICK p \in Processes, l \in Lists : p # IdleProcess /\ Unlinked(list, list', p, l)
    BY <1>4 DEF SuspendStep
  <2>2. NoRepeats(list[l])
    BY Vocabulary DEF Sound
  <2>3. IdleProcess \in Members(list[1]) => IdleProcess \in Members(list'[1])
    BY <2>1, <2>2, Vocabulary DEF Unlinked
  <2>4. QED
    BY <2>3, <1>0, <1>4 DEF SuspendStep, IdleReady
<1>5. QED
  BY <1>1, <1>2, <1>3, <1>4, Shapes

\* No wait, entry, suspension or yield leaves wakeHighestPriority without a process to answer,
\* whatever the image does to the priorities and contexts of the others.
THEOREM VMNeverHalts == Spec => []NeverHalts
<1>1. Init => IdleReady /\ NeverHalts
  BY IdleReadyInit DEF Init, NeverHalts
<1>2. TypeOK /\ OneListEach /\ IdleReady /\ NeverHalts /\ [Next]_vars => IdleReady' /\ NeverHalts'
  BY IdleReadyStep DEF NeverHalts
<1>3. QED
  BY <1>1, <1>2, SchedulerTypeCorrect, ListsStaySound, PTL DEF Spec

-----------------------------------------------------------------------------
(* The lists of semaphores and sections.                                    *)

\* Making a process ready moves nobody who waits.
LEMMA ReadyKeepsWaiters ==
  ASSUME TypeOK, NEW L \in LinkedLists, NEW p \in Processes, ResumeOrPreempt(L, p),
         NEW w \in Waitables
  PROVE  list'[w] = L[w]
<1>0. w \in Lists /\ w \notin Priorities
  BY Vocabulary
<1>1. CASE PutToSleep(L, myList, p, TRUE)
  BY <1>0, <1>1, Typed, PutToSleepEffect DEF Linked
<1>2. CASE PutToSleep(L, [myList EXCEPT ![p] = Nil], activeProcess, PreemptionYields)
  <2>1. [myList EXCEPT ![p] = Nil] \in BackLinks
    BY Typed DEF BackLinks
  <2>2. Linked(L, list', activeProcess, priority[activeProcess])
        /\ priority[activeProcess] \in Priorities
    BY <2>1, <1>2, Typed, PutToSleepEffect
  <2>3. QED
    BY <2>2, <1>0 DEF Linked
<1>3. QED
  BY <1>1, <1>2 DEF ResumeOrPreempt

\* Nor does finding the next process to run.
LEMMA TransferKeepsWaiters ==
  ASSUME TypeOK, NEW L \in LinkedLists, NEW M \in BackLinks, TransferToWoken(L, M),
         ~halted', NEW w \in Waitables
  PROVE  list'[w] = L[w]
<1>0. w \in Lists /\ w \notin Priorities
  BY Vocabulary
<1>1. PICK q, k : Finds(L, q, k) /\ TransferToLink(L, M, q, k)
  BY DEF TransferToWoken, Finds
<1>2. /\ q \in Priorities
      /\ \A m \in Lists : m # q /\ m \notin q + 1 .. SearchFrom => list'[m] = L[m]
  BY <1>1, TransferToLinkEffect
<1>3. q + 1 .. SearchFrom \subseteq Priorities
  BY <1>2, SearchFromType, Vocabulary
<1>4. QED
  BY <1>0, <1>2, <1>3

\* The waiters of a step that blocks on l: the active process is the last of l.
LEMMA BlockOnWaiters ==
  ASSUME TypeOK, NEW l \in Lists, BlockOn(l), ~halted', NEW w \in Waitables
  PROVE  /\ w # l => list'[w] = list[w]
         /\ w = l => list'[w] = Append(list[w], activeProcess)
<1> DEFINE L == AddLast(list, activeProcess, l)
           M == [myList EXCEPT ![activeProcess] = l]
<1>1. L \in LinkedLists /\ M \in BackLinks
  BY Typed, AddLastLinks DEF Linked, BackLinks
<1>2. list'[w] = L[w]
  BY <1>1, TransferKeepsWaiters DEF BlockOn
<1>3. w \in Lists
  BY Vocabulary
<1>4. QED
  BY <1>2, <1>3, Typed DEF AddLast, LinkedLists

\* The waiters of a step that serves the first waiter of v.
LEMMA ServeWaiters ==
  ASSUME TypeOK, NEW v \in Waitables, list[v] # <<>>,
         ResumeOrPreempt(RemoveFirst(list, v), Head(list[v])), NEW w \in Waitables
  PROVE  /\ w # v => list'[w] = list[w]
         /\ w = v => list'[w] = Tail(list[w])
<1>1. RemoveFirst(list, v) \in LinkedLists /\ Head(list[v]) \in Processes
  BY WokenFirst
<1>2. list'[w] = RemoveFirst(list, v)[w]
  BY <1>1, ReadyKeepsWaiters
<1>3. w \in Lists /\ v \in Lists
  BY Vocabulary
<1>4. QED
  BY <1>2, <1>3, Typed DEF RemoveFirst, LinkedLists

\* The steps that touch no waiter, no signal and no owner.
LEMMA OtherSteps ==
  ASSUME TypeOK, ~halted',
         \/ \E p \in Processes : Resume(p) \/ DropContext(p)
         \/ \E p \in Processes, n \in Priorities : SetPriority(p, n)
         \/ SuspendActive \/ Yield \/ UNCHANGED vars,
         NEW w \in Waitables
  PROVE  list'[w] = list[w] /\ UNCHANGED synchronisation
<1>1. ASSUME NEW p \in Processes, Resume(p)
      PROVE  list'[w] = list[w] /\ UNCHANGED synchronisation
  BY <1>1, Typed, ReadyKeepsWaiters DEF Resume
<1>2. CASE SuspendActive
  BY <1>2, Typed, TransferKeepsWaiters DEF SuspendActive
<1>3. CASE Yield
  <2>1. priority[activeProcess] \in Lists /\ priority[activeProcess] # w
    BY Typed, Vocabulary
  <2>2. QED
    BY <1>3, <2>1, BlockOnWaiters DEF Yield
<1>4. CASE UNCHANGED <<list, synchronisation>>
  BY <1>4
<1>5. QED
  BY <1>1, <1>2, <1>3, <1>4 DEF DropContext, SetPriority, vars, synchronisation

\* A suspended process leaves its list no emptier than it must.
LEMMA SuspendWaiters ==
  ASSUME TypeOK, NEW p \in Processes, Suspend(p), NEW w \in Waitables
  PROVE  /\ UNCHANGED synchronisation
         /\ list[w] = <<>> => list'[w] = <<>>
         /\ ~SuspendsWaiters => list'[w] = list[w]
<1> DEFINE l == myList[p]
<1>1. /\ l \in Lists /\ p \in Members(list[l])
      /\ list' = Remove(list, p, l) /\ UNCHANGED synchronisation
      /\ l \in Waitables => SuspendsWaiters
  BY Typed, Vocabulary DEF Suspend, BackLinks
<1> HIDE DEF l
<1>2. Unlinked(list, list', p, l)
  BY <1>1, Typed, RemoveUnlinks
<1>3. w \in Lists /\ list[w] \in Seq(Processes)
  BY Typed, Vocabulary DEF LinkedLists
<1>4. list[w] = <<>> => w # l
  BY <1>1, <1>3, EmptyMembers
<1>5. QED
  BY <1>1, <1>2, <1>3, <1>4 DEF Unlinked

-----------------------------------------------------------------------------
(* Nothing is hoarded.                                                      *)

SignalsOut == \A s \in Semaphores : excessSignals[s] > 0 => list[s] = <<>>
SectionsOut == \A c \in CriticalSections : owner[c] = Nil => list[c] = <<>>

LEMMA SignalsOutStep ==
  ASSUME TypeOK, SignalsOut, ~halted', [Next]_vars
  PROVE  SignalsOut'
<1> SUFFICES ASSUME NEW t \in Semaphores, excessSignals'[t] > 0 PROVE list'[t] = <<>>
  BY DEF SignalsOut
<1>0. t \in Waitables /\ excessSignals \in [Semaphores -> Nat]
  BY Vocabulary DEF TypeOK
<1>1. ASSUME NEW s \in Semaphores, Signal(s) PROVE list'[t] = <<>>
  <2>0. s \in Waitables
    BY Vocabulary
  <2>1. CASE /\ list[s] = <<>> /\ list' = list
             /\ excessSignals' = [excessSignals EXCEPT ![s] = @ + 1]
    <3>1. CASE t = s
      BY <2>1, <3>1
    <3>2. CASE t # s
      BY <2>1, <3>2, <1>0 DEF SignalsOut
    <3>3. QED
      BY <3>1, <3>2
  <2>2. CASE /\ list[s] # <<>> /\ UNCHANGED excessSignals
             /\ ResumeOrPreempt(RemoveFirst(list, s), Head(list[s]))
    <3>1. t # s
      BY <2>2 DEF SignalsOut
    <3>2. list'[t] = list[t]
      BY <2>0, <2>2, <3>1, <1>0, ServeWaiters
    <3>3. QED
      BY <2>2, <3>2 DEF SignalsOut
  <2>3. QED
    BY <1>1, <2>1, <2>2 DEF Signal
<1>2. ASSUME NEW s \in Semaphores, Wait(s) PROVE list'[t] = <<>>
  <2>1. CASE /\ excessSignals[s] > 0 /\ list' = list
             /\ excessSignals' = [excessSignals EXCEPT ![s] = @ - 1]
    BY <2>1, <1>0 DEF SignalsOut
  <2>2. CASE excessSignals[s] = 0 /\ BlockOn(s) /\ UNCHANGED excessSignals
    <3>1. s \in Lists /\ t # s
      BY <2>2, Vocabulary
    <3>2. list'[t] = list[t]
      BY <2>2, <3>1, <1>0, BlockOnWaiters
    <3>3. QED
      BY <2>2, <3>2 DEF SignalsOut
  <2>3. QED
    BY <1>2, <2>1, <2>2 DEF Wait
<1>3. ASSUME NEW c \in CriticalSections,
             EnterCriticalSection(c) \/ TestAndSetOwnershipOfCriticalSection(c)
               \/ ExitCriticalSection(c)
      PROVE  list'[t] = <<>>
  <2>1. UNCHANGED excessSignals
    BY <1>3 DEF EnterCriticalSection, TestAndSetOwnershipOfCriticalSection, ExitCriticalSection
  <2>2. c \in Waitables /\ c \in Lists /\ t # c
    BY Vocabulary, ConstantsAssumption DEF ConstantsAssumption
  <2>3. \/ list' = list
        \/ BlockOn(c)
        \/ list[c] # <<>> /\ ResumeOrPreempt(RemoveFirst(list, c), Head(list[c]))
    BY <1>3, Zenon DEF EnterCriticalSection, TestAndSetOwnershipOfCriticalSection,
                       ExitCriticalSection
  <2>4. list'[t] = list[t]
    BY <2>2, <2>3, <1>0, BlockOnWaiters, ServeWaiters
  <2>5. QED
    BY <2>1, <2>4 DEF SignalsOut
<1>4. ASSUME NEW p \in Processes, Suspend(p) PROVE list'[t] = <<>>
  BY <1>4, <1>0, SuspendWaiters DEF SignalsOut, synchronisation
<1>5. ASSUME \/ \E p \in Processes : Resume(p) \/ DropContext(p)
             \/ \E p \in Processes, n \in Priorities : SetPriority(p, n)
             \/ SuspendActive \/ Yield \/ UNCHANGED vars
      PROVE  list'[t] = <<>>
  BY <1>5, <1>0, OtherSteps DEF SignalsOut, synchronisation
<1>6. QED
  BY <1>1, <1>2, <1>3, <1>4, <1>5 DEF Next

LEMMA SectionsOutStep ==
  ASSUME TypeOK, SectionsOut, ~halted', [Next]_vars
  PROVE  SectionsOut'
<1> SUFFICES ASSUME NEW d \in CriticalSections, owner'[d] = Nil PROVE list'[d] = <<>>
  BY DEF SectionsOut
<1>0. d \in Waitables /\ owner \in [CriticalSections -> Processes \cup {Nil}]
  BY Vocabulary DEF TypeOK
<1>1. ASSUME NEW s \in Semaphores, Signal(s) \/ Wait(s) PROVE list'[d] = <<>>
  <2>1. UNCHANGED owner
    BY <1>1 DEF Signal, Wait
  <2>2. s \in Waitables /\ s \in Lists /\ d # s
    BY Vocabulary, ConstantsAssumption DEF ConstantsAssumption
  <2>3. \/ list' = list
        \/ BlockOn(s)
        \/ list[s] # <<>> /\ ResumeOrPreempt(RemoveFirst(list, s), Head(list[s]))
    BY <1>1, Zenon DEF Signal, Wait
  <2>4. list'[d] = list[d]
    BY <2>2, <2>3, <1>0, BlockOnWaiters, ServeWaiters
  <2>5. QED
    BY <2>1, <2>4 DEF SectionsOut
<1>2. ASSUME NEW c \in CriticalSections, EnterCriticalSection(c) PROVE list'[d] = <<>>
  <2>1. CASE owner[c] = Nil /\ owner' = [owner EXCEPT ![c] = activeProcess] /\ list' = list
    BY <2>1, <1>0, Vocabulary, Typed DEF SectionsOut
  <2>2. CASE owner[c] # Nil /\ BlockOn(c) /\ UNCHANGED owner
    <3>1. c \in Lists /\ d # c
      BY <2>2, Vocabulary
    <3>2. list'[d] = list[d]
      BY <2>2, <3>1, <1>0, BlockOnWaiters
    <3>3. QED
      BY <2>2, <3>2 DEF SectionsOut
  <2>3. QED
    BY <1>2, <2>1, <2>2 DEF EnterCriticalSection
<1>3. ASSUME NEW c \in CriticalSections, TestAndSetOwnershipOfCriticalSection(c)
      PROVE  list'[d] = <<>>
  <2>1. owner' = [owner EXCEPT ![c] = activeProcess] /\ list' = list
    BY <1>3 DEF TestAndSetOwnershipOfCriticalSection
  <2>2. QED
    BY <2>1, <1>0, Vocabulary, Typed DEF SectionsOut
<1>4. ASSUME NEW c \in CriticalSections, ExitCriticalSection(c) PROVE list'[d] = <<>>
  <2>0. c \in Waitables
    BY Vocabulary
  <2>1. CASE list[c] = <<>> /\ owner' = [owner EXCEPT ![c] = Nil] /\ list' = list
    BY <2>1, <1>0 DEF SectionsOut
  <2>2. CASE /\ list[c] # <<>>
             /\ owner' = [owner EXCEPT ![c] = Head(list[c])]
             /\ ResumeOrPreempt(RemoveFirst(list, c), Head(list[c]))
    <3>1. Head(list[c]) # Nil
      BY <2>0, <2>2, WokenFirst, Vocabulary
    <3>2. d # c
      BY <2>2, <3>1, <1>0
    <3>3. list'[d] = list[d] /\ owner'[d] = owner[d]
      BY <2>0, <2>2, <3>2, <1>0, ServeWaiters
    <3>4. QED
      BY <3>3 DEF SectionsOut
  <2>3. QED
    BY <1>4, <2>1, <2>2 DEF ExitCriticalSection
<1>5. ASSUME NEW p \in Processes, Suspend(p) PROVE list'[d] = <<>>
  BY <1>5, <1>0, SuspendWaiters DEF SectionsOut, synchronisation
<1>6. ASSUME \/ \E p \in Processes : Resume(p) \/ DropContext(p)
             \/ \E p \in Processes, n \in Priorities : SetPriority(p, n)
             \/ SuspendActive \/ Yield \/ UNCHANGED vars
      PROVE  list'[d] = <<>>
  BY <1>6, <1>0, OtherSteps DEF SectionsOut, synchronisation
<1>7. QED
  BY <1>1, <1>2, <1>3, <1>4, <1>5, <1>6 DEF Next

\* Whomever images suspend: nobody waits for a signal that a semaphore holds, or for a section
\* that nobody owns.  (synchronousSignal, primitiveWait and the primitives of sections.)
THEOREM NothingIsHoarded == Spec => []NothingHoarded
<1>1. Init => SignalsOut /\ SectionsOut
  <2> SUFFICES ASSUME Init PROVE SignalsOut /\ SectionsOut
    OBVIOUS
  <2>1. \A w \in Waitables : w \in Lists /\ w # 1
    BY Vocabulary
  <2>2. \A w \in Waitables : list[w] = <<>>
    BY <2>1 DEF Init
  <2>3. QED
    BY <2>2, Vocabulary DEF SignalsOut, SectionsOut
<1>2. TypeOK /\ NeverHalts' /\ SignalsOut /\ SectionsOut /\ [Next]_vars
        => SignalsOut' /\ SectionsOut'
  BY SignalsOutStep, SectionsOutStep DEF NeverHalts
<1>3. SignalsOut /\ SectionsOut => NothingHoarded
  BY DEF SignalsOut, SectionsOut, NothingHoarded
<1>4. QED
  BY <1>1, <1>2, <1>3, SchedulerTypeCorrect, VMNeverHalts, PTL DEF Spec

-----------------------------------------------------------------------------
(* Who entered a section owns it, or waits for it.                          *)

\* A step that leaves a section's history, owner and waiters alone.
SectionKept(c) == entered'[c] = entered[c] /\ owner'[c] = owner[c] /\ list'[c] = list[c]

Entered(c) == \A p \in Processes : p \in entered[c] => owner[c] = p \/ p \in Members(list[c])

\* A section that a process enters without waiting, or waits for.
LEMMA EnterStep ==
  ASSUME TypeOK, ~halted', NEW c \in CriticalSections, NEW d \in CriticalSections, Entered(d),
         EnterCriticalSection(c) \/ TestAndSetOwnershipOfCriticalSection(c)
  PROVE  Entered(d)'
<1>0. /\ c \in Waitables /\ d \in Waitables /\ c \in Lists /\ activeProcess # Nil
      /\ owner \in [CriticalSections -> Processes \cup {Nil}]
      /\ entered \in [CriticalSections -> SUBSET Processes]
      /\ list[d] \in Seq(Processes)
  BY Vocabulary, Typed DEF TypeOK, LinkedLists
<1>1. entered' = [entered EXCEPT ![c] = @ \cup {activeProcess}]
  BY DEF EnterCriticalSection, TestAndSetOwnershipOfCriticalSection
<1>2. CASE owner[c] = Nil /\ owner' = [owner EXCEPT ![c] = activeProcess] /\ list' = list
  <2>1. CASE d = c
    BY <2>1, <1>0, <1>1, <1>2, Vocabulary DEF Entered
  <2>2. CASE d # c
    BY <2>2, <1>0, <1>1, <1>2 DEF Entered
  <2>3. QED
    BY <2>1, <2>2
<1>3. CASE owner[c] # Nil /\ BlockOn(c) /\ UNCHANGED owner
  <2>1. CASE d = c
    <3>1. list'[c] = Append(list[c], activeProcess)
      BY <1>0, <1>3, BlockOnWaiters
    <3>2. Members(list'[c]) = Members(list[c]) \cup {activeProcess}
      BY <2>1, <3>1, <1>0, Typed, AppendMembers
    <3>3. QED
      BY <2>1, <3>2, <1>0, <1>1, <1>3 DEF Entered
  <2>2. CASE d # c
    <3>1. list'[d] = list[d]
      BY <2>2, <1>0, <1>3, BlockOnWaiters
    <3>2. QED
      BY <2>2, <3>1, <1>0, <1>1, <1>3 DEF Entered
  <2>3. QED
    BY <2>1, <2>2
<1>4. QED
  BY <1>2, <1>3 DEF EnterCriticalSection, TestAndSetOwnershipOfCriticalSection

\* Only its owner exits a section, and the first waiter gets it.
LEMMA ExitStep ==
  ASSUME TypeOK, OneListEach, NEW c \in CriticalSections, NEW d \in CriticalSections,
         Entered(c), Entered(d), ExitCriticalSection(c)
  PROVE  Entered(d)'
<1>0. /\ c \in Waitables /\ d \in Waitables /\ c \in Lists /\ activeProcess # Nil
      /\ owner \in [CriticalSections -> Processes \cup {Nil}]
      /\ entered \in [CriticalSections -> SUBSET Processes]
      /\ list[c] \in Seq(Processes)
      /\ NoRepeats(list[c])
      /\ activeProcess \notin Members(list[c])
  <2>1. Free(list, activeProcess)
    BY NilIsFree, Vocabulary
  <2>2. QED
    BY <2>1, Vocabulary, Typed DEF TypeOK, LinkedLists, Free, Sound
<1>1. activeProcess \in entered[c] /\ entered' = [entered EXCEPT ![c] = @ \ {activeProcess}]
  BY DEF ExitCriticalSection
<1>2. owner[c] = activeProcess
  BY <1>0, <1>1, Typed DEF Entered
<1>3. CASE list[c] = <<>> /\ owner' = [owner EXCEPT ![c] = Nil] /\ list' = list
  <2>1. CASE d = c
    <3>1. Members(list[c]) = {}
      BY <1>3 DEF Members
    <3>2. QED
      BY <2>1, <3>1, <1>0, <1>1, <1>2 DEF Entered
  <2>2. CASE d # c
    BY <2>2, <1>0, <1>1, <1>3 DEF Entered
  <2>3. QED
    BY <2>1, <2>2
<1>4. CASE /\ list[c] # <<>>
           /\ owner' = [owner EXCEPT ![c] = Head(list[c])]
           /\ ResumeOrPreempt(RemoveFirst(list, c), Head(list[c]))
  <2>1. CASE d = c
    <3>1. list'[c] = Tail(list[c])
      BY <1>0, <1>4, ServeWaiters
    <3>2. Members(list'[c]) = Members(list[c]) \ {Head(list[c])}
      BY <3>1, <1>0, <1>4, TailMembers
    <3>3. QED
      BY <2>1, <3>2, <1>0, <1>1, <1>2, <1>4 DEF Entered
  <2>2. CASE d # c
    <3>1. list'[d] = list[d]
      BY <2>2, <1>0, <1>4, ServeWaiters
    <3>2. QED
      BY <2>2, <3>1, <1>0, <1>1, <1>4 DEF Entered
  <2>3. QED
    BY <2>1, <2>2
<1>5. QED
  BY <1>3, <1>4 DEF ExitCriticalSection

LEMMA EnteredStep ==
  ASSUME ~SuspendsWaiters, TypeOK, OneListEach, ~halted', \A c \in CriticalSections : Entered(c),
         [Next]_vars, NEW d \in CriticalSections
  PROVE  Entered(d)'
<1>0. d \in Waitables
  BY Vocabulary
<1>1. ASSUME NEW s \in Semaphores, Signal(s) \/ Wait(s) PROVE SectionKept(d)
  <2>1. s \in Waitables /\ s \in Lists /\ d # s
    BY Vocabulary, ConstantsAssumption DEF ConstantsAssumption
  <2>2. \/ list' = list
        \/ BlockOn(s)
        \/ list[s] # <<>> /\ ResumeOrPreempt(RemoveFirst(list, s), Head(list[s]))
    BY <1>1, Zenon DEF Signal, Wait
  <2>3. list'[d] = list[d]
    BY <2>1, <2>2, <1>0, BlockOnWaiters, ServeWaiters
  <2>4. QED
    BY <2>3, <1>1 DEF Signal, Wait, SectionKept
<1>2. ASSUME NEW c \in CriticalSections,
             EnterCriticalSection(c) \/ TestAndSetOwnershipOfCriticalSection(c)
      PROVE  Entered(d)'
  BY <1>2, EnterStep
<1>3. ASSUME NEW c \in CriticalSections, ExitCriticalSection(c) PROVE Entered(d)'
  BY <1>3, ExitStep
<1>4. ASSUME NEW p \in Processes, Suspend(p) PROVE SectionKept(d)
  BY <1>4, <1>0, SuspendWaiters DEF SectionKept, synchronisation
<1>5. ASSUME \/ \E p \in Processes : Resume(p) \/ DropContext(p)
             \/ \E p \in Processes, n \in Priorities : SetPriority(p, n)
             \/ SuspendActive \/ Yield \/ UNCHANGED vars
      PROVE  SectionKept(d)
  BY <1>5, <1>0, OtherSteps DEF SectionKept, synchronisation
<1>6. SectionKept(d) => Entered(d)'
  BY DEF SectionKept, Entered
<1>7. QED
  BY <1>1, <1>2, <1>3, <1>4, <1>5, <1>6 DEF Next

\* Unless images suspend waiters: who went through the entrance of a section owns it, or will
\* when the processes before it have left it, whatever happens in between.
THEOREM EnteredIsOwned == ASSUME ~SuspendsWaiters PROVE Spec => []EnteredOwns
<1> DEFINE AllEntered == \A c \in CriticalSections : Entered(c)
<1>1. Init => AllEntered
  BY DEF Init, Entered
<1>2. TypeOK /\ OneListEach /\ NeverHalts' /\ AllEntered /\ [Next]_vars => AllEntered'
  BY EnteredStep DEF NeverHalts
<1>3. AllEntered => EnteredOwns
  BY Vocabulary DEF Entered, EnteredOwns
<1> HIDE DEF AllEntered
<1>4. QED
  BY <1>1, <1>2, <1>3, SchedulerTypeCorrect, ListsStaySound, VMNeverHalts, PTL DEF Spec

-----------------------------------------------------------------------------
(* Nobody of a higher priority is kept waiting.                             *)

\* The processes of a run queue have its priority.
Sorted(L) == \A q \in Priorities : \A p \in Members(L[q]) : priority[p] = q

LEMMA PriorityKept ==
  ASSUME [Next]_vars
  PROVE  \/ UNCHANGED priority
         \/ \E p \in Processes, n \in Priorities : SetPriority(p, n)
BY DEF Next, vars, SetPriority, Resume, Suspend, DropContext, Signal, Wait, EnterCriticalSection,
       TestAndSetOwnershipOfCriticalSection, ExitCriticalSection, SuspendActive, Yield

\* Unless the image changes priorities of ready ones: a new priority disturbs no run queue.
LEMMA SetPriorityHighestRuns ==
  ASSUME "ready" \notin ChangesPriorities, TypeOK, OneListEach, Sorted(list), HighestRuns,
         NEW p \in Processes, NEW n \in Priorities, SetPriority(p, n)
  PROVE  Sorted(list)' /\ HighestRuns'
<1>1. /\ p # activeProcess /\ myList[p] \notin Priorities
      /\ priority' = [priority EXCEPT ![p] = n]
      /\ UNCHANGED <<list, myList, suspendedContext, activeProcess>>
  BY DEF SetPriority
<1>2. priority'[activeProcess] = priority[activeProcess]
  BY <1>1, Typed
<1>3. ASSUME NEW q \in Priorities, NEW r \in Members(list[q]) PROVE priority'[r] = q
  <2>1. q \in Lists /\ list[q] \in Seq(Processes) /\ Sound(list, myList)
    BY Typed, Vocabulary DEF LinkedLists
  <2>2. r \in Processes /\ myList[r] = q /\ priority[r] = q
    BY <1>3, <2>1, EmptyMembers DEF Sound, Sorted
  <2>3. QED
    BY <2>2, <1>1, Typed
<1>4. Sorted(list)'
  BY <1>1, <1>3 DEF Sorted
<1>5. HighestRuns'
  BY <1>1, <1>2 DEF HighestRuns, Runnable
<1>6. QED
  BY <1>4, <1>5

LEMMA LinkSorted ==
  ASSUME NEW L, NEW N, NEW p, Linked(L, N, p, priority[p]), Sorted(L)
  PROVE  Sorted(N)
BY Vocabulary DEF Linked, Sorted

\* A process is made ready behind the active one, or runs in its place.
LEMMA ReadyHighestRuns ==
  ASSUME TypeOK, OneListEach, Sorted(list), HighestRuns, ReadyStep
  PROVE  /\ Sorted(list')
         /\ \A q \in Priorities :
              q > priority[activeProcess'] =>
                \A k \in DOMAIN list'[q] : suspendedContext'[list'[q][k]] # "live"
<1>1. PICK L \in LinkedLists, p \in Processes : Woken(L, p) /\ ResumeOrPreempt(L, p)
  BY DEF ReadyStep
<1>2. \A q \in Priorities : L[q] = list[q]
  BY <1>1, WokenKeepsQueues
<1>3. Sorted(L)
  BY <1>2 DEF Sorted
<1>4. \A q \in Priorities : q > priority[activeProcess] =>
        \A k \in DOMAIN list[q] : suspendedContext[list[q][k]] # "live"
  BY DEF HighestRuns, Runnable
<1>5. CASE /\ priority[p] <= priority[activeProcess]
           /\ PutToSleep(L, myList, p, TRUE) /\ UNCHANGED <<activeProcess, suspendedContext>>
  <2>1. Linked(L, list', p, priority[p]) /\ priority[p] \in Priorities
    BY <1>5, Typed, PutToSleepEffect
  <2>2. ASSUME NEW q \in Priorities, q > priority[activeProcess] PROVE list'[q] = list[q]
    BY <2>1, <2>2, <1>2, <1>5, Typed, Vocabulary DEF Linked
  <2>3. QED
    BY <2>1, <2>2, <1>3, <1>4, <1>5, LinkSorted
<1>6. CASE /\ priority[p] > priority[activeProcess]
           /\ PutToSleep(L, [myList EXCEPT ![p] = Nil], activeProcess, PreemptionYields)
           /\ TransferTo(p)
  <2>1. [myList EXCEPT ![p] = Nil] \in BackLinks
    BY Typed DEF BackLinks
  <2>2. Linked(L, list', activeProcess, priority[activeProcess])
        /\ priority[activeProcess] \in Priorities /\ priority[p] \in Priorities
    BY <2>1, <1>6, Typed, PutToSleepEffect
  <2>3. /\ activeProcess' = p
        /\ suspendedContext'[p] = "nil"
        /\ \A r \in Processes \ {activeProcess, p} : suspendedContext'[r] = suspendedContext[r]
    BY <1>6, TransferToEffect
  <2>4. ASSUME NEW q \in Priorities, q > priority[p], NEW k \in DOMAIN list'[q]
        PROVE  suspendedContext'[list'[q][k]] # "live"
    <3>1. list'[q] = list[q] /\ q > priority[activeProcess]
      BY <2>2, <2>4, <1>2, <1>6, Vocabulary DEF Linked
    <3>2. list[q][k] \in Members(list[q]) /\ suspendedContext[list[q][k]] # "live"
      BY <2>4, <3>1, <1>4 DEF Members
    <3>3. list[q][k] \in Processes /\ list[q][k] # activeProcess
      <4>1. q \in Lists /\ list[q] \in Seq(Processes) /\ Free(list, activeProcess)
        BY Vocabulary, Typed, NilIsFree DEF LinkedLists
      <4>2. QED
        BY <4>1, <3>2, EmptyMembers DEF Free
    <3>4. QED
      BY <2>3, <3>1, <3>2, <3>3
  <2>5. QED
    BY <2>2, <2>3, <2>4, <1>3, LinkSorted
<1>7. QED
  BY <1>1, <1>5, <1>6 DEF ResumeOrPreempt

\* wakeHighestPriority finds a process of the highest priority that has one.
LEMMA BlockHighestRuns ==
  ASSUME TypeOK, HintCoversRunQueues, Sorted(list), BlockStep, ~halted'
  PROVE  /\ Sorted(list')
         /\ \A q \in Priorities : q > priority[activeProcess'] => list'[q] = <<>>
<1>1. PICK L \in LinkedLists, M \in BackLinks : Left(L, M) /\ TransferToWoken(L, M)
  BY DEF BlockStep
<1>2. Sorted(L)
  BY <1>1, Vocabulary DEF Left, Linked, Sorted
<1>3. Covered(L, highestRunnable)
  BY <1>1, LeftEffect
<1>4. PICK q, k : Finds(L, q, k) /\ TransferToLink(L, M, q, k)
  BY <1>1 DEF TransferToWoken, Finds
<1>5. /\ q \in Priorities /\ k \in DOMAIN L[q] /\ L[q][k] \in Processes /\ TransferTo(L[q][k])
      /\ Members(list'[q]) \subseteq Members(L[q])
      /\ \A m \in Lists : m \in q + 1 .. SearchFrom => list'[m] = <<>>
      /\ \A m \in Lists : m # q /\ m \notin q + 1 .. SearchFrom => list'[m] = L[m]
      /\ highestRunnable' = q
      /\ Covered(list', highestRunnable')
  BY <1>3, <1>4, TransferToLinkEffect
<1>6. priority[activeProcess'] = q
  BY <1>2, <1>5, TransferToEffect DEF Sorted, Members
<1>7. Sorted(list')
  <2>1. ASSUME NEW m \in Priorities PROVE Members(list'[m]) \subseteq Members(L[m])
    <3>1. m \in Lists /\ Members(<<>>) = {}
      BY Vocabulary DEF Members
    <3>2. QED
      BY <3>1, <1>5
  <2>2. QED
    BY <2>1, <1>2 DEF Sorted
<1>8. \A m \in Priorities : m > q => list'[m] = <<>>
  BY <1>5, Vocabulary DEF Covered
<1>9. QED
  BY <1>6, <1>7, <1>8

LEMMA HighestRunsStep ==
  ASSUME "ready" \notin ChangesPriorities, TypeOK, OneListEach, HintCoversRunQueues, ~halted',
         Sorted(list), HighestRuns, [Next]_vars
  PROVE  Sorted(list)' /\ HighestRuns'
<1> SUFFICES ASSUME UNCHANGED priority PROVE Sorted(list)' /\ HighestRuns'
  BY PriorityKept, SetPriorityHighestRuns
<1>0. UNCHANGED priority /\ activeProcess' \in Processes /\ list' \in LinkedLists
  BY StepEffect DEF Effect
<1>1. Sorted(list)' <=> Sorted(list')
  BY <1>0 DEF Sorted
<1>2. HighestRuns' <=>
        \A q \in Priorities : q > priority[activeProcess'] =>
          \A k \in DOMAIN list'[q] : suspendedContext'[list'[q][k]] # "live"
  BY <1>0 DEF HighestRuns, Runnable
<1>3. CASE QuietStep
  <2>1. ASSUME NEW q \in Priorities, q > priority[activeProcess], NEW k \in DOMAIN list[q]
        PROVE  suspendedContext'[list[q][k]] # "live"
    <3>1. q \in Lists /\ list[q] \in Seq(Processes) /\ list[q][k] \in Members(list[q])
      BY Vocabulary, Typed DEF LinkedLists, Members
    <3>2. list[q][k] \in Processes
      BY <3>1, EmptyMembers
    <3>3. suspendedContext[list[q][k]] # "live"
      BY <2>1 DEF HighestRuns, Runnable
    <3>4. QED
      BY <3>2, <3>3, <1>3 DEF QuietStep
  <2>2. QED
    BY <2>1, <1>1, <1>2, <1>3 DEF QuietStep
<1>4. CASE ReadyStep
  BY <1>4, <1>1, <1>2, ReadyHighestRuns
<1>5. CASE BlockStep
  <2>1. \A k : k \notin DOMAIN <<>>
    OBVIOUS
  <2>2. QED
    BY <2>1, <1>5, <1>1, <1>2, BlockHighestRuns
<1>6. CASE SuspendStep
  <2>1. PICK p \in Processes, l \in Lists : Unlinked(list, list', p, l)
    BY <1>6 DEF SuspendStep
  <2>2. ASSUME NEW q \in Priorities PROVE Members(list'[q]) \subseteq Members(list[q])
    BY <2>1, Vocabulary DEF Unlinked
  <2>3. Sorted(list')
    BY <2>2 DEF Sorted
  <2>4. ASSUME NEW q \in Priorities, q > priority[activeProcess], NEW k \in DOMAIN list'[q]
        PROVE  suspendedContext[list'[q][k]] # "live"
    <3>1. PICK j \in DOMAIN list[q] : list[q][j] = list'[q][k]
      BY <2>2, <2>4 DEF Members
    <3>2. QED
      BY <3>1, <2>4 DEF HighestRuns, Runnable
  <2>5. QED
    BY <2>3, <2>4, <1>1, <1>2, <1>6 DEF SuspendStep
<1>7. QED
  BY <1>3, <1>4, <1>5, <1>6, Shapes

LEMMA HighestRunsInit == Init => Sorted(list) /\ HighestRuns
<1> SUFFICES ASSUME Init PROVE Sorted(list) /\ HighestRuns
  OBVIOUS
<1>1. priority[IdleProcess] = 1 /\ activeProcess \in Processes
      /\ priority \in [Processes -> Priorities]
  BY DEF Init
<1>2. \A q \in Priorities : q # 1 => list[q] = <<>>
  BY Vocabulary DEF Init
<1>3. list[1] = <<>> \/ list[1] = <<IdleProcess>>
  BY Vocabulary DEF Init
<1>4. Members(<<>>) = {} /\ Members(<<IdleProcess>>) = {IdleProcess}
  BY DEF Members
<1>5. Sorted(list)
  BY <1>1, <1>2, <1>3, <1>4 DEF Sorted
<1>6. \A q \in Priorities : q > priority[activeProcess] => list[q] = <<>>
  BY <1>1, <1>2, Vocabulary
<1>7. \A k : k \notin DOMAIN <<>>
  OBVIOUS
<1>8. QED
  BY <1>5, <1>6, <1>7 DEF HighestRuns, Runnable

\* Unless images change priorities of processes that run or are ready: whoever is resumed,
\* signalled, suspended, given another priority or robbed of a context, no process that could run
\* has a higher priority than the one that does.
THEOREM HighestPriorityRuns ==
  ASSUME "ready" \notin ChangesPriorities PROVE Spec => []HighestRuns
<1>1. Init => Sorted(list) /\ HighestRuns
  BY HighestRunsInit
<1>2. TypeOK /\ OneListEach /\ HintCoversRunQueues /\ NeverHalts' /\ Sorted(list) /\ HighestRuns
        /\ [Next]_vars => Sorted(list)' /\ HighestRuns'
  BY HighestRunsStep DEF NeverHalts
<1>3. QED
  BY <1>1, <1>2, SchedulerTypeCorrect, ListsStaySound, HintNeverHides, VMNeverHalts, PTL DEF Spec

-----------------------------------------------------------------------------
(* Nobody falls off.                                                        *)

\* Unless a list has zombies, the processes on it have contexts, and whoever believes to be on it
\* is.
Whole == Lists \ MakesZombies
Alive(L) == \A l \in Whole : \A p \in Members(L[l]) : suspendedContext[p] = "live"
Placed(L, M) == \A p \in Processes : M[p] \in Whole => p \in Members(L[M[p]])
PlacedBut(L, M, p) == \A r \in Processes \ {p} : M[r] \in Whole => r \in Members(L[M[r]])

LEMMA WholeLists ==
  /\ Whole \subseteq Lists
  /\ Waitables \subseteq Whole
  /\ Nil \notin Whole
  /\ \A l \in Lists : l \notin MakesZombies => l \in Whole
BY ConstantsAssumption, Vocabulary DEF ConstantsAssumption, Whole

LEMMA LinkPlaced ==
  ASSUME NEW L, NEW M \in BackLinks, NEW N, NEW p \in Processes, NEW l \in Lists,
         Linked(L, N, p, l), PlacedBut(L, M, p)
  PROVE  Placed(N, [M EXCEPT ![p] = l])
BY WholeLists DEF Linked, Placed, PlacedBut, BackLinks

LEMMA WokenPlaced ==
  ASSUME TypeOK, OneListEach, Alive(list), Placed(list, myList),
         NEW L \in LinkedLists, NEW p \in Processes, Woken(L, p)
  PROVE  /\ suspendedContext[p] = "live"
         /\ PlacedBut(L, myList, p)
         /\ \A l \in Lists : Members(L[l]) \subseteq Members(list[l])
<1>1. CASE L = list /\ suspendedContext[p] = "live"
  BY <1>1 DEF Placed, PlacedBut
<1>2. ASSUME NEW w \in Waitables, Unlinked(list, L, p, w)
      PROVE  /\ suspendedContext[p] = "live"
             /\ PlacedBut(L, myList, p)
             /\ \A l \in Lists : Members(L[l]) \subseteq Members(list[l])
  <2>1. w \in Lists /\ w \in Whole /\ NoRepeats(list[w])
    BY Vocabulary, WholeLists DEF Sound
  <2>2. PlacedBut(L, myList, p)
    BY <1>2, <2>1, WholeLists DEF Unlinked, Placed, PlacedBut
  <2>3. QED
    BY <1>2, <2>1, <2>2 DEF Unlinked, Alive
<1>3. QED
  BY <1>1, <1>2 DEF Woken

\* The contexts of the listed, once somebody else runs.
LEMMA TransferAlive ==
  ASSUME TypeOK, NEW p \in Processes, TransferTo(p), p # activeProcess, NEW r \in Processes,
         r # p, suspendedContext[r] = "live" \/ r = activeProcess
  PROVE  suspendedContext'[r] = "live"
BY TransferToEffect

LEMMA ReadyPlaced ==
  ASSUME TypeOK, OneListEach, Alive(list), Placed(list, myList), ReadyStep
  PROVE  /\ \A l \in Whole : \A p \in Members(list'[l]) : suspendedContext'[p] = "live"
         /\ Placed(list', myList')
<1>1. PICK L \in LinkedLists, p \in Processes : Woken(L, p) /\ ResumeOrPreempt(L, p)
  BY DEF ReadyStep
<1>2. /\ suspendedContext[p] = "live"
      /\ PlacedBut(L, myList, p)
      /\ \A l \in Lists : Members(L[l]) \subseteq Members(list[l])
  BY <1>1, WokenPlaced
<1>3. Alive(L)
  BY <1>2, WholeLists DEF Alive
<1>4. CASE PutToSleep(L, myList, p, TRUE) /\ UNCHANGED <<activeProcess, suspendedContext>>
  <2>1. /\ Linked(L, list', p, priority[p]) /\ priority[p] \in Lists
        /\ myList' = [myList EXCEPT ![p] = priority[p]]
    BY <1>4, Typed, PutToSleepEffect, Vocabulary
  <2>2. Placed(list', myList')
    BY <2>1, <1>2, Typed, LinkPlaced
  <2>3. Alive(list')
    BY <2>1, <1>2, <1>3, WholeLists DEF Linked, Alive
  <2>4. QED
    BY <2>2, <2>3, <1>4 DEF Alive
<1>5. CASE /\ priority[p] > priority[activeProcess]
           /\ PutToSleep(L, [myList EXCEPT ![p] = Nil], activeProcess, PreemptionYields)
           /\ TransferTo(p)
  <2> DEFINE M == [myList EXCEPT ![p] = Nil]
  <2>1. M \in BackLinks
    BY Typed DEF BackLinks
  <2>2. /\ Linked(L, list', activeProcess, priority[activeProcess])
        /\ priority[activeProcess] \in Lists
        /\ myList' = [M EXCEPT ![activeProcess] = priority[activeProcess]]
    BY <2>1, <1>5, Typed, PutToSleepEffect, Vocabulary
  <2>3. p # activeProcess
    BY <1>5, Typed, Vocabulary
  <2>4. PlacedBut(L, M, activeProcess)
    BY <1>2, Typed, WholeLists DEF PlacedBut, BackLinks
  <2> HIDE DEF M
  <2>5. Placed(list', myList')
    BY <2>1, <2>2, <2>4, Typed, LinkPlaced
  <2>6. \A l \in Lists : p \notin Members(list'[l])
    <3>1. Free(L, p)
      BY <1>1, WokenEffect
    <3>2. QED
      BY <3>1, <2>2, <2>3 DEF Linked, Free
  <2>7. ASSUME NEW l \in Whole, NEW r \in Members(list'[l])
        PROVE  suspendedContext'[r] = "live"
    <3>1. r \in Processes /\ r # p
      BY <2>2, <2>6, <2>7, EmptyMembers, WholeLists DEF Linked, LinkedLists
    <3>2. r = activeProcess \/ r \in Members(L[l])
      BY <2>2, <2>7, WholeLists DEF Linked
    <3>3. r = activeProcess \/ suspendedContext[r] = "live"
      BY <3>2, <2>7, <1>3 DEF Alive
    <3>4. QED
      BY <3>1, <3>3, <2>3, <1>5, TransferAlive
  <2>8. QED
    BY <2>5, <2>7
<1>6. QED
  BY <1>1, <1>4, <1>5 DEF ResumeOrPreempt

\* Whom wakeHighestPriority finds is the first of a queue without zombies, and such queues above
\* are empty: the active process is never alone on a run queue when it looks.
LEMMA FindsFirst ==
  ASSUME TypeOK, OneListEach, Alive(list), NEW L \in LinkedLists, NEW M, Left(L, M),
         NEW q, NEW k, Finds(L, q, k)
  PROVE  /\ q \in Whole => k = 1
         /\ \A m \in q + 1 .. SearchFrom : m \in Whole => L[m] = <<>>
<1>0. q \in Priorities /\ k \in DOMAIN L[q] /\ SearchFrom \in Priorities
  BY SearchFromType, Vocabulary DEF Finds, RunnableQueues, Runnable
<1>1. ASSUME NEW m \in Priorities
      PROVE  /\ L[m] # <<>> => list[m] # <<>>
             /\ \A n \in DOMAIN list[m] : n \in DOMAIN L[m] /\ L[m][n] = list[m][n]
  BY Vocabulary DEF Left, Linked
<1>2. ASSUME NEW m \in Priorities, m \in Whole, L[m] # <<>> PROVE 1 \in Runnable(L, m)
  <2>1. list[m] \in Seq(Processes) /\ list[m] # <<>>
    BY <1>1, <1>2, Typed, Vocabulary DEF LinkedLists
  <2>2. 1 \in DOMAIN list[m]
    BY <2>1, LenProperties, EmptySeq
  <2>3. suspendedContext[list[m][1]] = "live"
    BY <2>2, <1>2 DEF Alive, Members
  <2>4. QED
    BY <2>2, <2>3, <1>1 DEF Runnable
<1>3. L[q] # <<>>
  BY <1>0
<1>4. ASSUME q \in Whole PROVE k = 1
  <2>1. k <= 1
    BY <1>0, <1>2, <1>3, <1>4 DEF Finds
  <2>2. k \in Nat \ {0}
    BY <1>0, LenProperties, Vocabulary DEF LinkedLists
  <2>3. QED
    BY <2>1, <2>2
<1>5. ASSUME NEW m \in q + 1 .. SearchFrom, m \in Whole PROVE L[m] = <<>>
  <2>1. m \in Priorities /\ m \in 1 .. SearchFrom /\ ~(m <= q)
    BY <1>0, Vocabulary
  <2>2. m \notin RunnableQueues(L)
    BY <2>1 DEF Finds
  <2>3. QED
    BY <2>1, <2>2, <1>2, <1>5 DEF RunnableQueues
<1>6. QED
  BY <1>4, <1>5

LEMMA BlockPlaced ==
  ASSUME TypeOK, OneListEach, Alive(list), Placed(list, myList), BlockStep, ~halted'
  PROVE  /\ \A l \in Whole : \A p \in Members(list'[l]) : suspendedContext'[p] = "live"
         /\ Placed(list', myList')
<1>1. PICK L \in LinkedLists, M \in BackLinks : Left(L, M) /\ TransferToWoken(L, M)
  BY DEF BlockStep
<1>2. PICK q, k : Finds(L, q, k) /\ TransferToLink(L, M, q, k)
  BY <1>1 DEF TransferToWoken, Finds
<1> DEFINE p == L[q][k]
<1>3. /\ q \in Priorities /\ k \in DOMAIN L[q] /\ p \in Processes /\ TransferTo(p)
      /\ \A i \in DOMAIN L[q] : i > k => L[q][i] \in Members(list'[q])
      /\ Members(list'[q]) \subseteq Members(L[q])
      /\ \A m \in Lists : m \in q + 1 .. SearchFrom => list'[m] = <<>>
      /\ \A m \in Lists : m # q /\ m \notin q + 1 .. SearchFrom => list'[m] = L[m]
      /\ myList' = [M EXCEPT ![p] = Nil]
      /\ Sound(L, M) => Sound(list', myList')
  BY <1>2, TransferToLinkEffect
<1>4. /\ q \in Whole => k = 1
      /\ \A m \in q + 1 .. SearchFrom : m \in Whole => L[m] = <<>>
  BY <1>1, <1>2, FindsFirst
<1>5. Sound(L, M) /\ Sound(list', myList')
  BY <1>1, <1>3, LeftEffect
<1>6. q \in Lists /\ L[q] \in Seq(Processes)
  BY <1>3, Vocabulary DEF LinkedLists
<1>7. \A m \in Whole : m # q => list'[m] = L[m]
  BY <1>3, <1>4, WholeLists
<1>8. ASSUME q \in Whole PROVE Members(L[q]) \subseteq Members(list'[q]) \cup {p}
  <2>1. ASSUME NEW i \in DOMAIN L[q] PROVE L[q][i] \in Members(list'[q]) \cup {p}
    <3>1. i \in Nat \ {0}
      BY <1>6, LenProperties
    <3>2. i = k \/ i > k
      BY <3>1, <1>4, <1>8
    <3>3. QED
      BY <3>2, <1>3
  <2>2. QED
    BY <2>1 DEF Members
<1> HIDE DEF p
<1>9. Placed(L, M)
  <2>1. CASE L = list /\ M = myList
    BY <2>1
  <2>2. ASSUME NEW l \in Lists, Linked(list, L, activeProcess, l),
               M = [myList EXCEPT ![activeProcess] = l]
        PROVE  Placed(L, M)
    <3>1. PlacedBut(list, myList, activeProcess)
      BY DEF Placed, PlacedBut
    <3>2. QED
      BY <3>1, <2>2, Typed, LinkPlaced
  <2>3. QED
    BY <2>1, <2>2, <1>1 DEF Left
<1>10. Placed(list', myList')
  BY <1>3, <1>6, <1>7, <1>8, <1>9, WholeLists DEF Placed, BackLinks
<1>11. ASSUME NEW l \in Whole, NEW r \in Members(list'[l])
       PROVE  suspendedContext'[r] = "live"
  <2>1. r \in Members(L[l])
    BY <1>3, <1>7, <1>11
  <2>2. r \in Processes
    BY <2>1, <1>11, EmptyMembers, WholeLists DEF LinkedLists
  <2>3. myList'[r] = l /\ l # Nil
    BY <1>5, <1>11, WholeLists DEF Sound
  <2>4. r # p
    BY <2>2, <2>3, <1>3 DEF BackLinks
  <2>5. r = activeProcess \/ r \in Members(list[l])
    BY <2>1, <1>1, <1>11, WholeLists DEF Left, Linked
  <2>6. r = activeProcess \/ suspendedContext[r] = "live"
    BY <2>5, <1>11 DEF Alive
  <2>7. QED
    BY <2>2, <2>4, <2>6, <1>3, TransferToEffect
<1>12. QED
  BY <1>10, <1>11

LEMMA PlacedStep ==
  ASSUME TypeOK, OneListEach, ~halted', Alive(list), Placed(list, myList),
         [Next]_vars
  PROVE  Alive(list)' /\ Placed(list, myList)'
<1>1. Alive(list)' <=> \A l \in Whole : \A p \in Members(list'[l]) : suspendedContext'[p] = "live"
  BY DEF Alive
<1>2. Placed(list, myList)' <=> Placed(list', myList')
  BY DEF Placed
<1>3. CASE QuietStep
  <2>1. ASSUME NEW l \in Whole, NEW p \in Members(list[l]) PROVE suspendedContext'[p] = "live"
    <3>1. p \in Processes /\ suspendedContext[p] = "live"
      BY <2>1, Typed, EmptyMembers, WholeLists DEF Alive, LinkedLists
    <3>2. myList[p] = l /\ l \notin MakesZombies
      BY <2>1, Vocabulary, WholeLists DEF Sound, Whole
    <3>3. QED
      BY <3>1, <3>2, <1>3 DEF QuietStep
  <2>2. QED
    BY <2>1, <1>1, <1>2, <1>3 DEF QuietStep
<1>4. CASE ReadyStep
  BY <1>1, <1>2, <1>4, ReadyPlaced
<1>5. CASE BlockStep
  BY <1>1, <1>2, <1>5, BlockPlaced
<1>6. CASE SuspendStep
  <2>1. PICK p \in Processes, l \in Lists :
          Unlinked(list, list', p, l) /\ myList' = [myList EXCEPT ![p] = Nil]
    BY <1>6 DEF SuspendStep
  <2>2. NoRepeats(list[l])
    BY Vocabulary DEF Sound
  <2>3. UNCHANGED suspendedContext
    BY <1>6 DEF SuspendStep
  <2>4. Alive(list)'
    BY <2>1, <2>3, WholeLists DEF Alive, Unlinked
  <2>5. Placed(list', myList')
    BY <2>1, <2>2, Typed, WholeLists DEF Placed, Unlinked, BackLinks
  <2>6. QED
    BY <2>4, <2>5, <1>2
<1>7. QED
  BY <1>3, <1>4, <1>5, <1>6, Shapes

LEMMA PlacedInit == Init => Alive(list) /\ Placed(list, myList)
<1> SUFFICES ASSUME Init PROVE Alive(list) /\ Placed(list, myList)
  OBVIOUS
<1>1. Alive(list)
  <2>1. \A l \in Lists : list[l] \in Seq(Processes)
    BY InitSound, Typed DEF LinkedLists
  <2>2. QED
    BY <2>1, EmptyMembers, WholeLists DEF Init, Alive
<1>2. ASSUME NEW p \in Processes, myList[p] # Nil PROVE p = IdleProcess /\ myList[p] = 1
  BY <1>2 DEF Init
<1>3. myList[IdleProcess] # Nil => IdleProcess \in Members(list[1])
  <2>1. IdleProcess \in Processes /\ 1 \in Lists
    BY Vocabulary, ConstantsAssumption DEF ConstantsAssumption
  <2>2. IdleProcess \in Members(<<IdleProcess>>)
    BY DEF Members
  <2>3. QED
    BY <2>1, <2>2 DEF Init
<1>4. 1 \in Lists
  BY Vocabulary
<1>5. QED
  BY <1>1, <1>2, <1>3, <1>4, WholeLists DEF Placed

\* Whoever is suspended, preempted, signalled or yields: a process that is not suspended is found on
\* the list it believes to be on, but for queues on which images take contexts away.
THEOREM NobodyIsLost == Spec => []NobodyFallsOff
<1>1. Init => Alive(list) /\ Placed(list, myList)
  BY PlacedInit
<1>2. TypeOK /\ OneListEach /\ NeverHalts' /\ Alive(list) /\ Placed(list, myList) /\ [Next]_vars
        => Alive(list)' /\ Placed(list, myList)'
  BY PlacedStep DEF NeverHalts
<1>3. TypeOK /\ Placed(list, myList) => NobodyFallsOff
  <2>1. ASSUME TypeOK, Placed(list, myList), NEW p \in Processes, myList[p] # Nil,
               myList[p] \notin MakesZombies
        PROVE  OnList(p, myList[p])
    <3>1. myList[p] \in Lists /\ myList[p] \in Whole
      BY <2>1, Typed, WholeLists DEF BackLinks
    <3>2. QED
      BY <2>1, <3>1, Vocabulary DEF Placed
  <2>2. QED
    BY <2>1 DEF NobodyFallsOff
<1>4. QED
  BY <1>1, <1>2, <1>3, SchedulerTypeCorrect, ListsStaySound, VMNeverHalts, PTL DEF Spec

-----------------------------------------------------------------------------
(* Queues, priorities and preemption implement the abstract semaphores and  *)
(* sections.                                                                *)

ReadyOnes == {p \in Processes : p = activeProcess \/ myList[p] \in Priorities}
Waiters == [w \in Waitables |-> list[w]]

\* A process that is made ready is added to the ready ones, though another stops for it.
LEMMA ReadyOnesGrow ==
  ASSUME TypeOK, NEW L \in LinkedLists, NEW p \in Processes, ResumeOrPreempt(L, p)
  PROVE  ReadyOnes' = ReadyOnes \cup {p}
<1>1. CASE PutToSleep(L, myList, p, TRUE) /\ UNCHANGED activeProcess
  <2>1. priority[p] \in Priorities /\ myList' = [myList EXCEPT ![p] = priority[p]]
    BY <1>1, Typed, PutToSleepEffect
  <2>2. QED
    BY <2>1, <1>1, Typed DEF ReadyOnes, BackLinks
<1>2. CASE /\ PutToSleep(L, [myList EXCEPT ![p] = Nil], activeProcess, PreemptionYields)
           /\ TransferTo(p)
  <2> DEFINE M == [myList EXCEPT ![p] = Nil]
  <2>1. M \in BackLinks
    BY Typed DEF BackLinks
  <2>2. /\ priority[activeProcess] \in Priorities
        /\ myList' = [M EXCEPT ![activeProcess] = priority[activeProcess]]
    BY <2>1, <1>2, Typed, PutToSleepEffect
  <2>3. activeProcess' = p
    BY <1>2 DEF TransferTo
  <2>4. QED
    BY <2>2, <2>3, Typed DEF ReadyOnes, BackLinks
<1>3. QED
  BY <1>1, <1>2 DEF ResumeOrPreempt

\* The process that wakeHighestPriority finds was ready.
LEMMA TransferReadyOnes ==
  ASSUME TypeOK, NEW L \in LinkedLists, NEW M \in BackLinks, Sound(L, M), TransferToWoken(L, M),
         ~halted'
  PROVE  ReadyOnes' = {p \in Processes : M[p] \in Priorities}
<1>1. PICK q, k : Finds(L, q, k) /\ TransferToLink(L, M, q, k)
  BY DEF TransferToWoken, Finds
<1>2. /\ q \in Priorities /\ k \in DOMAIN L[q] /\ L[q][k] \in Processes /\ TransferTo(L[q][k])
      /\ myList' = [M EXCEPT ![L[q][k]] = Nil]
  BY <1>1, TransferToLinkEffect
<1>3. M[L[q][k]] = q
  BY <1>2, Vocabulary DEF Sound, Members
<1>4. activeProcess' = L[q][k]
  BY <1>2 DEF TransferTo
<1>5. QED
  BY <1>2, <1>3, <1>4 DEF ReadyOnes, BackLinks

\* A step that serves the first waiter
LEMMA Served ==
  ASSUME TypeOK, NEW v \in Waitables, list[v] # <<>>,
         ResumeOrPreempt(RemoveFirst(list, v), Head(list[v]))
  PROVE  /\ ReadyOnes' = ReadyOnes \cup {Head(list[v])}
         /\ Waiters' = [Waiters EXCEPT ![v] = Tail(@)]
<1>1. RemoveFirst(list, v) \in LinkedLists /\ Head(list[v]) \in Processes
  BY WokenFirst
<1>2. ReadyOnes' = ReadyOnes \cup {Head(list[v])}
  BY <1>1, ReadyOnesGrow
<1>3. \A w \in Waitables : list'[w] = IF w = v THEN Tail(list[w]) ELSE list[w]
  BY ServeWaiters
<1>4. QED
  BY <1>2, <1>3 DEF Waiters

\* A step in which the active process queues on a semaphore or section
LEMMA Queued ==
  ASSUME TypeOK, OneListEach, NEW v \in Waitables, BlockOn(v), ~halted'
  PROVE  /\ activeProcess \in ReadyOnes
         /\ ReadyOnes' = ReadyOnes \ {activeProcess}
         /\ Waiters' = [Waiters EXCEPT ![v] = Append(@, activeProcess)]
<1> DEFINE L == AddLast(list, activeProcess, v)
           M == [myList EXCEPT ![activeProcess] = v]
<1>0. v \in Lists /\ v \notin Priorities /\ activeProcess \in Processes
  BY Vocabulary, Typed
<1>1. M \in BackLinks
  BY <1>0, Typed DEF BackLinks
<1>2. Linked(list, L, activeProcess, v)
  BY <1>0, Typed, AddLastLinks
<1>3. TransferToWoken(L, M)
  BY DEF BlockOn
<1> HIDE DEF L
<1>4. Sound(L, M)
  BY <1>0, <1>2, Typed, Vocabulary, NilIsFree, LinkSound
<1>5. ReadyOnes' = {p \in Processes : M[p] \in Priorities}
  <2>1. L \in LinkedLists
    BY <1>2 DEF Linked
  <2> HIDE DEF M
  <2>2. QED
    BY <1>1, <1>3, <1>4, <2>1, TransferReadyOnes
<1>6. ReadyOnes' = ReadyOnes \ {activeProcess}
  BY <1>0, <1>5, Typed DEF ReadyOnes, BackLinks
<1>7. \A w \in Waitables : list'[w] = IF w = v THEN Append(list[w], activeProcess) ELSE list[w]
  BY <1>0, BlockOnWaiters
<1>8. QED
  BY <1>0, <1>6, <1>7 DEF Waiters, ReadyOnes

\* The steps of semaphores and sections are the abstract ones.
LEMMA SignalRefines ==
  ASSUME TypeOK, NEW s \in Semaphores, Signal(s)
  PROVE  Synchronisation!Signal(s)
<1>0. s \in Waitables
  BY Vocabulary
<1>1. CASE /\ list[s] = <<>> /\ excessSignals' = [excessSignals EXCEPT ![s] = @ + 1]
           /\ UNCHANGED <<list, myList, activeProcess, owner>>
  BY <1>0, <1>1 DEF Synchronisation!Signal
<1>2. CASE /\ list[s] # <<>> /\ ResumeOrPreempt(RemoveFirst(list, s), Head(list[s]))
           /\ UNCHANGED <<excessSignals, owner>>
  <2>1. ReadyOnes' = ReadyOnes \cup {Head(list[s])} /\ Waiters' = [Waiters EXCEPT ![s] = Tail(@)]
    BY <1>0, <1>2, Served
  <2>2. QED
    BY <1>0, <1>2, <2>1 DEF Synchronisation!Signal, Synchronisation!ServeFirst, ReadyOnes, Waiters
<1>3. QED
  BY <1>1, <1>2, Zenon DEF Signal

LEMMA WaitRefines ==
  ASSUME TypeOK, OneListEach, ~halted', NEW s \in Semaphores, Wait(s),
         NEW a \in Processes, a = activeProcess
  PROVE  Synchronisation!Wait(s, a)
<1>0. s \in Waitables /\ activeProcess \in Processes
  BY Vocabulary, Typed
<1>1. CASE /\ excessSignals[s] > 0 /\ excessSignals' = [excessSignals EXCEPT ![s] = @ - 1]
           /\ UNCHANGED <<list, myList, activeProcess, owner>>
  BY <1>0, <1>1 DEF Synchronisation!Wait
<1>2. CASE excessSignals[s] = 0 /\ BlockOn(s) /\ UNCHANGED <<excessSignals, owner>>
  <2>1. /\ activeProcess \in ReadyOnes
        /\ ReadyOnes' = ReadyOnes \ {activeProcess}
        /\ Waiters' = [Waiters EXCEPT ![s] = Append(@, activeProcess)]
    BY <1>0, <1>2, Queued
  <2>2. QED
    BY <1>2, <2>1 DEF Synchronisation!Wait, Synchronisation!Queue, ReadyOnes, Waiters
<1>3. QED
  BY <1>1, <1>2, Zenon DEF Wait

LEMMA EnterRefines ==
  ASSUME TypeOK, OneListEach, ~halted', NEW c \in CriticalSections,
         EnterCriticalSection(c) \/ TestAndSetOwnershipOfCriticalSection(c),
         NEW a \in Processes, a = activeProcess
  PROVE  Synchronisation!Enter(c, a)
<1>0. c \in Waitables /\ activeProcess \in Processes
  BY Vocabulary, Typed
<1>1. CASE /\ owner[c] = Nil /\ owner' = [owner EXCEPT ![c] = activeProcess]
           /\ UNCHANGED <<list, myList, activeProcess, excessSignals>>
  BY <1>0, <1>1 DEF Synchronisation!Enter
<1>2. CASE owner[c] \notin {Nil, activeProcess} /\ BlockOn(c) /\ UNCHANGED <<excessSignals, owner>>
  <2>1. /\ activeProcess \in ReadyOnes
        /\ ReadyOnes' = ReadyOnes \ {activeProcess}
        /\ Waiters' = [Waiters EXCEPT ![c] = Append(@, activeProcess)]
    BY <1>0, <1>2, Queued
  <2>2. QED
    BY <1>2, <2>1 DEF Synchronisation!Enter, Synchronisation!Queue, ReadyOnes, Waiters
<1>3. ASSUME EnterCriticalSection(c) PROVE Synchronisation!Enter(c, a)
  BY <1>1, <1>2, <1>3 DEF EnterCriticalSection
<1>4. ASSUME TestAndSetOwnershipOfCriticalSection(c) PROVE Synchronisation!Enter(c, a)
  BY <1>1, <1>4 DEF TestAndSetOwnershipOfCriticalSection
<1>5. QED
  BY <1>3, <1>4

LEMMA ExitRefines ==
  ASSUME TypeOK, OneListEach, NEW c \in CriticalSections, Entered(c), ExitCriticalSection(c),
         NEW a \in Processes, a = activeProcess
  PROVE  Synchronisation!Exit(c, a)
<1>0. c \in Waitables /\ c \in Lists /\ activeProcess \in Processes
  BY Vocabulary, Typed
<1>1. owner[c] = activeProcess
  <2>1. activeProcess \in entered[c]
    BY DEF ExitCriticalSection
  <2>2. activeProcess \notin Members(list[c])
    BY <1>0, NilIsFree, Vocabulary DEF Free
  <2>3. QED
    BY <1>0, <2>1, <2>2 DEF Entered
<1>2. CASE /\ list[c] = <<>> /\ owner' = [owner EXCEPT ![c] = Nil]
           /\ UNCHANGED <<list, myList, activeProcess, excessSignals>>
  BY <1>0, <1>1, <1>2 DEF Synchronisation!Exit
<1>3. CASE /\ list[c] # <<>> /\ owner' = [owner EXCEPT ![c] = Head(list[c])]
           /\ ResumeOrPreempt(RemoveFirst(list, c), Head(list[c])) /\ UNCHANGED excessSignals
  <2>1. ReadyOnes' = ReadyOnes \cup {Head(list[c])} /\ Waiters' = [Waiters EXCEPT ![c] = Tail(@)]
    BY <1>0, <1>3, Served
  <2>2. QED
    BY <1>0, <1>1, <1>3, <2>1
    DEF Synchronisation!Exit, Synchronisation!ServeFirst, ReadyOnes, Waiters
<1>4. QED
  BY <1>2, <1>3, Zenon DEF ExitCriticalSection

\* Resuming a process that fell off a run queue changes nothing abstract: it was never not ready.
LEMMA ResumeRefines ==
  ASSUME TypeOK, NEW p \in Processes, Resume(p)
  PROVE  Synchronisation!Resume(p) \/ UNCHANGED <<ReadyOnes, Waiters, excessSignals, owner>>
<1>1. OnNoList(p) /\ ResumeOrPreempt(list, p) /\ UNCHANGED <<excessSignals, owner>>
  BY DEF Resume, synchronisation
<1>2. ReadyOnes' = ReadyOnes \cup {p}
  BY <1>1, Typed, ReadyOnesGrow
<1>3. Waiters' = Waiters
  BY <1>1, Typed, ReadyKeepsWaiters DEF Waiters
<1>4. CASE p \in ReadyOnes
  BY <1>1, <1>2, <1>3, <1>4
<1>5. CASE p \notin ReadyOnes
  <2>1. \A w \in Waitables : \A k \in DOMAIN list[w] : list[w][k] # p
    BY <1>1, Vocabulary DEF OnNoList, OnList
  <2>2. QED
    BY <2>1, <1>1, <1>2, <1>3, <1>5 DEF Synchronisation!Resume, ReadyOnes, Waiters
<1>6. QED
  BY <1>4, <1>5

LEMMA SuspendActiveRefines ==
  ASSUME TypeOK, OneListEach, ~halted', SuspendActive,
         NEW a \in Processes, a = activeProcess
  PROVE  Synchronisation!Suspend(a)
<1>1. TransferToWoken(list, myList) /\ UNCHANGED <<excessSignals, owner>>
  BY DEF SuspendActive, synchronisation
<1>2. Sound(list, myList) /\ myList[activeProcess] = Nil /\ Nil \notin Priorities
  BY Vocabulary
<1>3. ReadyOnes' = {p \in Processes : myList[p] \in Priorities}
  BY <1>1, <1>2, Typed, TransferReadyOnes
<1>4. ReadyOnes' = ReadyOnes \ {activeProcess} /\ activeProcess \in ReadyOnes
  BY <1>2, <1>3, Typed DEF ReadyOnes
<1>5. Waiters' = Waiters
  BY <1>1, Typed, TransferKeepsWaiters DEF Waiters
<1>6. QED
  BY <1>1, <1>4, <1>5 DEF Synchronisation!Suspend, ReadyOnes, Waiters

\* Nobody who waits is suspended.
LEMMA SuspendRefines ==
  ASSUME ~SuspendsWaiters, TypeOK, NEW p \in Processes, Suspend(p)
  PROVE  Synchronisation!Suspend(p)
<1>1. /\ myList[p] \in Priorities /\ p # activeProcess
      /\ myList' = [myList EXCEPT ![p] = Nil] /\ UNCHANGED activeProcess
  BY Typed, Vocabulary DEF Suspend, BackLinks
<1>2. ReadyOnes' = ReadyOnes \ {p} /\ p \in ReadyOnes
  BY <1>1, Typed, Vocabulary DEF ReadyOnes, BackLinks
<1>3. \A w \in Waitables : list'[w] = list[w]
  BY SuspendWaiters
<1>4. UNCHANGED <<excessSignals, owner>> /\ Waiters' = Waiters
  BY <1>3 DEF Suspend, synchronisation, Waiters
<1>5. QED
  BY <1>2, <1>4 DEF Synchronisation!Suspend, ReadyOnes, Waiters

LEMMA YieldStutters ==
  ASSUME TypeOK, OneListEach, ~halted', Yield
  PROVE  UNCHANGED <<ReadyOnes, Waiters, excessSignals, owner>>
<1> DEFINE l == priority[activeProcess]
           L == AddLast(list, activeProcess, l)
           M == [myList EXCEPT ![activeProcess] = l]
<1>0. l \in Lists /\ l \in Priorities /\ activeProcess \in Processes
  BY Vocabulary, Typed
<1>1. M \in BackLinks
  BY <1>0, Typed DEF BackLinks
<1>2. TransferToWoken(L, M) /\ BlockOn(l) /\ UNCHANGED <<excessSignals, owner>>
  BY DEF Yield, BlockOn, synchronisation
<1> HIDE DEF l
<1>3. Linked(list, L, activeProcess, l)
  BY <1>0, Typed, AddLastLinks
<1> HIDE DEF L
<1>4. Sound(L, M) /\ L \in LinkedLists
  BY <1>0, <1>3, Typed, Vocabulary, NilIsFree, LinkSound DEF Linked
<1>5. ReadyOnes' = {p \in Processes : M[p] \in Priorities}
  <2> HIDE DEF M
  <2>1. QED
    BY <1>1, <1>2, <1>4, TransferReadyOnes
<1>6. ReadyOnes' = ReadyOnes
  BY <1>0, <1>5, Typed DEF ReadyOnes, BackLinks
<1>7. \A w \in Waitables : list'[w] = list[w]
  BY <1>0, <1>2, BlockOnWaiters, Vocabulary
<1>8. QED
  BY <1>2, <1>6, <1>7 DEF Waiters

LEMMA StepRefines ==
  ASSUME ~SuspendsWaiters, TypeOK, OneListEach, ~halted', \A c \in CriticalSections : Entered(c),
         [Next]_vars
  PROVE  [Synchronisation!Next]_<<ReadyOnes, Waiters, excessSignals, owner>>
<1>0. PICK a \in Processes : a = activeProcess
  BY Typed
<1>1. ASSUME NEW p \in Processes, Resume(p) \/ Suspend(p)
      PROVE  \/ Synchronisation!Next
             \/ UNCHANGED <<ReadyOnes, Waiters, excessSignals, owner>>
  BY <1>1, ResumeRefines, SuspendRefines DEF Synchronisation!Next
<1>2. ASSUME NEW s \in Semaphores, Signal(s) \/ Wait(s) PROVE Synchronisation!Next
  BY <1>0, <1>2, SignalRefines, WaitRefines DEF Synchronisation!Next
<1>3. ASSUME NEW c \in CriticalSections,
             EnterCriticalSection(c) \/ TestAndSetOwnershipOfCriticalSection(c)
               \/ ExitCriticalSection(c)
      PROVE  Synchronisation!Next
  BY <1>0, <1>3, EnterRefines, ExitRefines DEF Synchronisation!Next
<1>4. ASSUME SuspendActive PROVE Synchronisation!Next
  BY <1>0, <1>4, SuspendActiveRefines DEF Synchronisation!Next
<1>5. ASSUME \/ \E p \in Processes : DropContext(p)
             \/ \E p \in Processes, n \in Priorities : SetPriority(p, n)
             \/ UNCHANGED vars
      PROVE  UNCHANGED <<ReadyOnes, Waiters, excessSignals, owner>>
  BY <1>5 DEF DropContext, SetPriority, vars, synchronisation, ReadyOnes, Waiters
<1>6. QED
  BY <1>1, <1>2, <1>3, <1>4, <1>5, YieldStutters DEF Next

\* Unless images suspend waiters: run queues, priorities, preemption and yielding, and the hint
\* and the searches behind them, are semaphores that count and serve in order, and sections that
\* are handed on; contexts and priorities that images change do not show.
THEOREM SchedulerImplementsSynchronisation ==
  ASSUME ~SuspendsWaiters PROVE Spec => SynchronisationKept
<1> DEFINE AllEntered == \A c \in CriticalSections : Entered(c)
<1>1. Init => Synchronisation!Init
  <2> SUFFICES ASSUME Init PROVE Synchronisation!Init
    OBVIOUS
  <2>1. \A w \in Waitables : w \in Lists /\ w # 1
    BY Vocabulary
  <2>2. Waiters = [w \in Waitables |-> <<>>]
    BY <2>1 DEF Init, Waiters
  <2>3. QED
    BY <2>2 DEF Init, Synchronisation!Init, Waiters, Waitables
<1>2. Init => AllEntered
  BY DEF Init, Entered
<1>3. TypeOK /\ OneListEach /\ NeverHalts' /\ AllEntered /\ [Next]_vars => AllEntered'
  BY EnteredStep DEF NeverHalts
<1>4. TypeOK /\ OneListEach /\ NeverHalts' /\ AllEntered /\ [Next]_vars
        => [Synchronisation!Next]_<<ReadyOnes, Waiters, excessSignals, owner>>
  BY StepRefines DEF NeverHalts
<1>5. [Synchronisation!Next]_<<ReadyOnes, Waiters, excessSignals, owner>>
        => [Synchronisation!Next]_Synchronisation!syncVars
  BY DEF Synchronisation!syncVars, ReadyOnes, Waiters
<1> HIDE DEF AllEntered
<1>6. QED
  BY <1>1, <1>2, <1>3, <1>4, <1>5, SchedulerTypeCorrect, ListsStaySound, VMNeverHalts, PTL
  DEF Spec, SynchronisationKept, Synchronisation!Spec
=============================================================================

------------------------- MODULE ExternalSemaphores -------------------------
(***************************************************************************)
(* platforms/Cross/vm/sqExternalSemaphores.c: "lock-free" signalling of    *)
(* external semaphores.  Requestors (plugin threads, or interrupt handlers *)
(* that run on top of the VM thread) call signalSemaphoreWithIndex; the VM *)
(* thread answers from its event check with doSignalExternalSemaphores.    *)
(*                                                                         *)
(* Every access to a variable shared between the two sides is a step of    *)
(* its own.  The code fences each of them, so memory is sequentially       *)
(* consistent.                                                             *)
(***************************************************************************)
EXTENDS Integers, FiniteSets

CONSTANTS
  Requestors,           \* callers of signalSemaphoreWithIndex
  InterruptRequestors,  \* those that interrupt the VM thread and run to completion
  MaxTableSize,         \* bound: largest signalRequests table considered
  ExtTableSize,         \* size of the image's ExternalObjectsArray
  CounterModulus,       \* 2^16 (ATOMICADD16) or 2^32: width of the counters
  MaxCalls,             \* bound: no call is begun for an index after so many
  MaxOpen               \* bound: nor while so many of its requests are unanswered

ASSUME ConstantsAssumption ==
  /\ InterruptRequestors \subseteq Requestors
  /\ MaxTableSize \in Nat \ {0}
  /\ ExtTableSize \in Nat
  /\ CounterModulus \in Nat \ {0, 1}
  /\ MaxCalls \in Nat
  /\ MaxOpen \in Nat

VARIABLES
  numSignalRequests,    \* entries of the signalRequests table
  requests, responses,  \* the two counters of every entry
  checkSignalRequests,  \* "some request may be outstanding"
  useTide,              \* "A" when useTideA is set, else "B"
  lowTide, highTide,    \* the two pairs of tide marks
  interruptForced,      \* stackLimit is smashed: the next check is an event check
  pc, i, v, tide,       \* control state and locals of every requestor
  vm, low, high,        \* control state and locals of the VM thread
  called,               \* history: requests counted so far, per index
  signalled,            \* signals sent to each image semaphore
  skipped               \* history: an event check since the last full one was cut short

table == <<numSignalRequests, requests, responses>>
tides == <<useTide, lowTide, highTide>>
locals == <<i, v, tide>>
requestors == <<pc, i, v, tide>>
vmThread == <<vm, low, high>>
counts == <<called, signalled, skipped>>
vars == <<table, checkSignalRequests, tides, interruptForced, requestors, vmThread, counts>>

Indices == 0 .. MaxTableSize - 1
Tides == {"A", "B"}
OtherTide(t) == IF t = "A" THEN "B" ELSE "A"

\* The empty interval; MaxTide stands for INT_MAX, any value above every index.
MaxTide == MaxTableSize
MinTide == -1

\* Counters are compared for equality only, so wrapping is all that width means.
Increment(n) == IF n = CounterModulus - 1 THEN 0 ELSE n + 1

RequestorPCs == {"idle", "add", "tide", "low", "lowCAS", "high", "highCAS", "flag", "force"}
VMPCs == {"startup", "running", "test", "clear", "resetLow", "resetHigh", "flip",
          "readLow", "readHigh", "scan", "recheck"}

TypeOK ==
  /\ numSignalRequests \in 0 .. MaxTableSize
  /\ requests \in [Indices -> 0 .. CounterModulus - 1]
  /\ responses \in [Indices -> 0 .. CounterModulus - 1]
  /\ checkSignalRequests \in BOOLEAN
  /\ useTide \in Tides
  /\ lowTide \in [Tides -> 0 .. MaxTide]
  /\ highTide \in [Tides -> MinTide .. MaxTableSize - 1]
  /\ interruptForced \in BOOLEAN
  /\ pc \in [Requestors -> RequestorPCs]
  /\ i \in [Requestors -> Indices]
  /\ v \in [Requestors -> MinTide .. MaxTide]
  /\ tide \in [Requestors -> Tides]
  /\ vm \in VMPCs
  /\ low \in 0 .. MaxTide
  /\ high \in MinTide .. MaxTableSize - 1
  /\ called \in [Indices -> Nat]
  /\ signalled \in [Indices -> Nat]
  /\ skipped \in BOOLEAN

Init ==
  /\ numSignalRequests = 0
  /\ requests = [n \in Indices |-> 0]
  /\ responses = [n \in Indices |-> 0]
  /\ checkSignalRequests = FALSE
  /\ useTide = "A"
  /\ lowTide = [t \in Tides |-> MaxTide]
  /\ highTide = [t \in Tides |-> MinTide]
  /\ interruptForced = FALSE
  /\ pc = [r \in Requestors |-> "idle"]
  /\ i = [r \in Requestors |-> 0]
  /\ v = [r \in Requestors |-> 0]
  /\ tide = [r \in Requestors |-> "A"]
  /\ vm = "startup"
  /\ low = 0
  /\ high = MinTide
  /\ called = [n \in Indices |-> 0]
  /\ signalled = [n \in Indices |-> 0]
  /\ skipped = FALSE

-----------------------------------------------------------------------------
(* Start-up: ioInitExternalSemaphores and the table size in the image header. *)

\* sz = 1 << highBit(n-1), the least power of two that is at least n.
IsTableSizeFor(sz, n) ==
  \E k \in 0 .. n : sz = 2 ^ k /\ n <= sz /\ sz < 2 * n

\* Requests made while the table moves may be lost, so it is sized at start-up only.
SetMaxExtSemTableSize(n) ==
  /\ vm = "startup"
  /\ numSignalRequests < n
  /\ \E sz \in 1 .. MaxTableSize : IsTableSizeFor(sz, n) /\ numSignalRequests' = sz
  /\ requests' = [k \in Indices |-> IF k < numSignalRequests THEN requests[k] ELSE 0]
  /\ responses' = [k \in Indices |-> IF k < numSignalRequests THEN responses[k] ELSE 0]
  /\ UNCHANGED <<checkSignalRequests, tides, interruptForced, requestors, vmThread, counts>>

StartInterpreter ==
  /\ vm = "startup"
  /\ numSignalRequests > 0
  /\ vm' = "running"
  /\ UNCHANGED <<table, checkSignalRequests, tides, interruptForced, requestors, low, high,
                 counts>>

-----------------------------------------------------------------------------
(* signalSemaphoreWithIndex(index), step by step.                           *)
(*                                                                          *)
(* A Bug definition is a variant of the one after it that the code could    *)
(* have had: what the properties below are sensitive to.                    *)

\* Requests of index n, counted or about to be, that no signal has answered yet.
Open(n) ==
  called[n] - signalled[n] + Cardinality({r \in Requestors : pc[r] = "add" /\ i[r] = n})

\* index - 1 compared as a signed int: the cast to unsigned is dropped.
BugSignedIndex(r, index) ==
  /\ vm # "startup"
  /\ pc[r] = "idle"
  /\ index - 1 < numSignalRequests
  /\ index > 0 => called[index - 1] < MaxCalls /\ Open(index - 1) < MaxOpen
  /\ pc' = [pc EXCEPT ![r] = "add"]
  /\ i' = [i EXCEPT ![r] = index - 1]
  /\ UNCHANGED <<table, checkSignalRequests, tides, interruptForced, v, tide, vmThread, counts>>

\* An index of zero or beyond the table answers 0 and changes nothing.
SignalSemaphoreWithIndex(r, index) ==
  /\ vm # "startup"
  /\ pc[r] = "idle"
  /\ index - 1 \in 0 .. numSignalRequests - 1
  /\ called[index - 1] < MaxCalls
  /\ Open(index - 1) < MaxOpen
  /\ pc' = [pc EXCEPT ![r] = "add"]
  /\ i' = [i EXCEPT ![r] = index - 1]
  /\ UNCHANGED <<table, checkSignalRequests, tides, interruptForced, v, tide, vmThread, counts>>

\* sqAtomicAddConst(signalRequests[i].requests, 1)
AddRequest(r) ==
  /\ pc[r] = "add"
  /\ requests' = [requests EXCEPT ![i[r]] = Increment(@)]
  /\ called' = [called EXCEPT ![i[r]] = @ + 1]
  /\ pc' = [pc EXCEPT ![r] = "tide"]
  /\ UNCHANGED <<numSignalRequests, responses, checkSignalRequests, tides, interruptForced,
                 locals, vmThread, signalled, skipped>>

\* if (useTideA): the branch taken decides which pair of marks is moved.
ChooseTide(r) ==
  /\ pc[r] = "tide"
  /\ tide' = [tide EXCEPT ![r] = useTide]
  /\ pc' = [pc EXCEPT ![r] = "low"]
  /\ UNCHANGED <<table, checkSignalRequests, tides, interruptForced, i, v, vmThread, counts>>

\* while ((v = lowTide) > i)
ReadLowTide(r) ==
  /\ pc[r] = "low"
  /\ v' = [v EXCEPT ![r] = lowTide[tide[r]]]
  /\ pc' = [pc EXCEPT ![r] = IF v'[r] > i[r] THEN "lowCAS" ELSE "high"]
  /\ UNCHANGED <<table, checkSignalRequests, tides, interruptForced, i, tide, vmThread, counts>>

\* A plain store in place of the compare-and-swap.
BugStoreLowTide(r) ==
  /\ pc[r] = "lowCAS"
  /\ lowTide' = [lowTide EXCEPT ![tide[r]] = i[r]]
  /\ pc' = [pc EXCEPT ![r] = "low"]
  /\ UNCHANGED <<table, checkSignalRequests, useTide, highTide, interruptForced, locals,
                 vmThread, counts>>

\* sqCompareAndSwap(lowTide, v, i), then round the loop again
LowerLowTide(r) ==
  /\ pc[r] = "lowCAS"
  /\ lowTide' = [lowTide EXCEPT ![tide[r]] = IF @ = v[r] THEN i[r] ELSE @]
  /\ pc' = [pc EXCEPT ![r] = "low"]
  /\ UNCHANGED <<table, checkSignalRequests, useTide, highTide, interruptForced, locals,
                 vmThread, counts>>

\* while ((v = highTide) < i)
ReadHighTide(r) ==
  /\ pc[r] = "high"
  /\ v' = [v EXCEPT ![r] = highTide[tide[r]]]
  /\ pc' = [pc EXCEPT ![r] = IF v'[r] < i[r] THEN "highCAS" ELSE "flag"]
  /\ UNCHANGED <<table, checkSignalRequests, tides, interruptForced, i, tide, vmThread, counts>>

RaiseHighTide(r) ==
  /\ pc[r] = "highCAS"
  /\ highTide' = [highTide EXCEPT ![tide[r]] = IF @ = v[r] THEN i[r] ELSE @]
  /\ pc' = [pc EXCEPT ![r] = "high"]
  /\ UNCHANGED <<table, checkSignalRequests, useTide, lowTide, interruptForced, locals,
                 vmThread, counts>>

\* checkSignalRequests = 1
SetCheck(r) ==
  /\ pc[r] = "flag"
  /\ checkSignalRequests' = TRUE
  /\ pc' = [pc EXCEPT ![r] = "force"]
  /\ UNCHANGED <<table, tides, interruptForced, locals, vmThread, counts>>

\* forceInterruptCheck(); return 1.  The locals go out of scope.
ForceInterruptCheck(r) ==
  /\ pc[r] = "force"
  /\ interruptForced' = TRUE
  /\ pc' = [pc EXCEPT ![r] = "idle"]
  /\ i' = [i EXCEPT ![r] = 0]
  /\ v' = [v EXCEPT ![r] = 0]
  /\ tide' = [tide EXCEPT ![r] = "A"]
  /\ UNCHANGED <<table, checkSignalRequests, tides, vmThread, counts>>

RequestorStep(r) ==
  \/ AddRequest(r)
  \/ ChooseTide(r)
  \/ ReadLowTide(r)
  \/ LowerLowTide(r)
  \/ ReadHighTide(r)
  \/ RaiseHighTide(r)
  \/ SetCheck(r)
  \/ ForceInterruptCheck(r)

-----------------------------------------------------------------------------
(* The VM thread: checkForEventsMayContextSwitch calls                     *)
(* doSignalExternalSemaphores(externalSemaphoreTableSize).                 *)

\* While an interrupt handler runs, the VM thread it interrupted does not.
VMMayRun == \A r \in InterruptRequestors : pc[r] = "idle"

\* The VM thread is at step "from" and may go on to step "to".
Goto(from, to) ==
  /\ VMMayRun
  /\ vm = from
  /\ vm' = to
  /\ UNCHANGED <<requestors, numSignalRequests, requests, called, skipped>>

\* A frame-building send finds the stack limit smashed; the limit is restored.
CheckForEvents ==
  /\ VMMayRun
  /\ vm = "running"
  /\ interruptForced
  /\ vm' = "test"
  /\ interruptForced' = FALSE
  /\ skipped' = FALSE
  /\ UNCHANGED <<table, checkSignalRequests, tides, requestors, low, high, called, signalled>>

\* The frame is that of ensure: or ifCurtailed: (primitive 198), where no process
\* switch may happen: the limit is restored and no semaphore is looked at.
CheckForEventsWithoutSwitch ==
  /\ VMMayRun
  /\ vm = "running"
  /\ interruptForced
  /\ interruptForced' = FALSE
  /\ skipped' = TRUE
  /\ UNCHANGED <<table, checkSignalRequests, tides, requestors, vmThread, called, signalled>>

\* if (!checkSignalRequests) return 0
TestCheck ==
  /\ Goto("test", IF checkSignalRequests THEN "clear" ELSE "running")
  /\ UNCHANGED <<responses, checkSignalRequests, tides, interruptForced, low, high, signalled>>

\* checkSignalRequests = 0
ClearCheck ==
  /\ Goto("clear", "resetLow")
  /\ checkSignalRequests' = FALSE
  /\ UNCHANGED <<responses, tides, interruptForced, low, high, signalled>>

\* Empty the pair of marks not in use ...
ResetLowTide ==
  /\ Goto("resetLow", "resetHigh")
  /\ lowTide' = [lowTide EXCEPT ![OtherTide(useTide)] = MaxTide]
  /\ UNCHANGED <<responses, checkSignalRequests, useTide, highTide, interruptForced, low, high,
                 signalled>>

\* The marks in use are emptied.
BugResetTideInUse ==
  /\ Goto("resetHigh", "flip")
  /\ highTide' = [highTide EXCEPT ![useTide] = MinTide]
  /\ UNCHANGED <<responses, checkSignalRequests, useTide, lowTide, interruptForced, low, high,
                 signalled>>

ResetHighTide ==
  /\ Goto("resetHigh", "flip")
  /\ highTide' = [highTide EXCEPT ![OtherTide(useTide)] = MinTide]
  /\ UNCHANGED <<responses, checkSignalRequests, useTide, lowTide, interruptForced, low, high,
                 signalled>>

\* ... make it the one in use ...
FlipTide ==
  /\ Goto("flip", "readLow")
  /\ useTide' = OtherTide(useTide)
  /\ UNCHANGED <<responses, checkSignalRequests, lowTide, highTide, interruptForced, low, high,
                 signalled>>

\* ... and read the marks that were in use until now.
ReadLow ==
  /\ Goto("readLow", "readHigh")
  /\ low' = lowTide[OtherTide(useTide)]
  /\ UNCHANGED <<responses, checkSignalRequests, tides, interruptForced, high, signalled>>

\* Reads highTide and clips it to the image's table of external objects.
ReadHigh ==
  LET tideMark == highTide[OtherTide(useTide)] IN
  /\ Goto("readHigh", "scan")
  /\ high' = IF tideMark >= ExtTableSize THEN ExtTableSize - 1 ELSE tideMark
  /\ UNCHANGED <<responses, checkSignalRequests, tides, interruptForced, low, signalled>>

\* One signal per index: if in place of while.
BugRespondOnce ==
  /\ Goto("scan", "scan")
  /\ low <= high
  /\ responses[low] # requests[low]
  /\ signalled' = [signalled EXCEPT ![low] = @ + 1]
  /\ responses' = [responses EXCEPT ![low] = Increment(@)]
  /\ low' = low + 1
  /\ UNCHANGED <<checkSignalRequests, tides, interruptForced, high>>

\* Signals first and compares the counters afterwards: do in place of while.
BugRespondUntested ==
  /\ Goto("scan", "scan")
  /\ low <= high
  /\ signalled' = [signalled EXCEPT ![low] = @ + 1]
  /\ responses' = [responses EXCEPT ![low] = Increment(@)]
  /\ UNCHANGED <<checkSignalRequests, tides, interruptForced, low, high>>

\* The body of the scan: doSignalSemaphoreWithIndex(i+1); ++responses.  Only the
\* VM thread writes responses, so testing, signalling and counting are one step.
Respond ==
  /\ Goto("scan", "scan")
  /\ low <= high
  /\ responses[low] # requests[low]
  /\ signalled' = [signalled EXCEPT ![low] = @ + 1]
  /\ responses' = [responses EXCEPT ![low] = Increment(@)]
  /\ UNCHANGED <<checkSignalRequests, tides, interruptForced, low, high>>

NextIndex ==
  /\ Goto("scan", "scan")
  /\ low <= high
  /\ responses[low] = requests[low]
  /\ low' = low + 1
  /\ UNCHANGED <<responses, checkSignalRequests, tides, interruptForced, high, signalled>>

EndScan ==
  /\ Goto("scan", "recheck")
  /\ low > high
  /\ UNCHANGED <<responses, checkSignalRequests, tides, interruptForced, low, high, signalled>>

\* The stack limit is restored when the event check ends instead of when it begins.
BugRestoreLimitLast ==
  /\ Goto("recheck", "running")
  /\ interruptForced' = FALSE
  /\ low' = 0
  /\ high' = MinTide
  /\ UNCHANGED <<responses, checkSignalRequests, tides, signalled>>

\* A signal that came in while processing forces another event check.  The
\* locals of the scan go out of scope.
Recheck ==
  /\ Goto("recheck", "running")
  /\ interruptForced' = (interruptForced \/ checkSignalRequests)
  /\ low' = 0
  /\ high' = MinTide
  /\ UNCHANGED <<responses, checkSignalRequests, tides, signalled>>

DoSignalExternalSemaphores ==
  \/ TestCheck
  \/ ClearCheck
  \/ ResetLowTide
  \/ ResetHighTide
  \/ FlipTide
  \/ ReadLow
  \/ ReadHigh
  \/ Respond
  \/ NextIndex
  \/ EndScan
  \/ Recheck

\* The heartbeat forces an event check whether or not anything was requested.
Heartbeat ==
  /\ vm # "startup"
  /\ ~interruptForced
  /\ interruptForced' = TRUE
  /\ UNCHANGED <<table, checkSignalRequests, tides, requestors, vmThread, counts>>

Next ==
  \/ \E n \in 1 .. MaxTableSize : SetMaxExtSemTableSize(n)
  \/ StartInterpreter
  \/ \E r \in Requestors, index \in 0 .. MaxTableSize : SignalSemaphoreWithIndex(r, index)
  \/ \E r \in Requestors : RequestorStep(r)
  \/ CheckForEvents
  \/ CheckForEventsWithoutSwitch
  \/ DoSignalExternalSemaphores
  \/ Heartbeat

Spec == Init /\ [][Next]_vars

\* Threads and handlers finish the calls they begin, the heartbeat keeps beating,
\* and the VM thread completes the event checks it begins.  Not every frame of a
\* program is an ensure: block's: of checks forced for ever, one may switch.
Fairness ==
  /\ \A r \in Requestors : WF_vars(RequestorStep(r))
  /\ WF_vars(Heartbeat)
  /\ SF_vars(CheckForEvents)
  /\ WF_vars(DoSignalExternalSemaphores)

FairSpec == Spec /\ Fairness

-----------------------------------------------------------------------------
(* Properties *)

\* A semaphore is never signalled more often than that was asked for, however
\* requestors, the two pairs of marks and the wrapping counters interleave.
NoSpuriousSignal == \A n \in Indices : signalled[n] <= called[n]

\* A raised checkSignalRequests is never left for nobody to look at: unless its
\* requestor is still to force the interrupt, the VM is in its event check or
\* will enter it; only a check cut short leaves the flag to the next heartbeat.
\* (The window between restoring the stack limit, testing the flag, clearing it
\* and looking at it again.)
NoLostInterrupt ==
  checkSignalRequests =>
    \/ interruptForced
    \/ skipped
    \/ vm \in VMPCs \ {"startup", "running"}
    \/ \E r \in Requestors : pc[r] = "force"

Deliverable == {n \in Indices : n < ExtTableSize}

\* A requestor that has counted its request and not yet raised the flag.
InFlight(n) ==
  \E r \in Requestors : i[r] = n /\ pc[r] \in RequestorPCs \ {"idle", "add", "force"}

Covers(t, n) == lowTide[t] <= n /\ n <= highTide[t]

\* The marks in use cover n, and the VM is going to look at them.
Announced(n) ==
  /\ Covers(useTide, n)
  /\ checkSignalRequests \/ vm \in {"resetLow", "resetHigh", "flip"}

\* The VM still has index n before it.
InScan(n) ==
  \/ vm = "readLow" /\ Covers(OtherTide(useTide), n)
  \/ vm = "readHigh" /\ low <= n /\ n <= highTide[OtherTide(useTide)]
  \/ vm = "scan" /\ low <= n /\ n <= high

\* An unanswered request is always on its way: its requestor is still going to
\* announce it, or it is announced, or the VM's scan has it before it.
NoSignalLost ==
  \A n \in Deliverable :
    requests[n] # responses[n] => InFlight(n) \/ Announced(n) \/ InScan(n)

\* allRequestsAreAnswered, the test of the file: when nobody is doing anything
\* any more, every request of a semaphore the image has is answered.
AllRequestsAreAnswered ==
  vm = "running" /\ ~checkSignalRequests /\ (\A r \in Requestors : pc[r] = "idle")
    => \A n \in Deliverable : responses[n] = requests[n]

\* The abstract specification, with the history of the calls as what is requested.
Promise == INSTANCE SignalPromise WITH requested <- called, delivered <- signalled

\* Every signal answers one request (any requestors).
PromiseSafe == Promise!Safe

\* ... and every request is answered in the end (interrupting requestors).
PromiseKept == Promise!Spec
=============================================================================

# A verification project for the OpenSmalltalk virtual machine

The virtual machine runs a Smalltalk image in one OS thread, the *VM thread*:
it interprets (or runs machine code for) bytecodes, and every so often, when a
method is activated and the stack limit says so, it looks at what happened in
the outside world. Around it are a heartbeat thread or interval timer, plugin
threads and signal handlers that want the VM thread's attention, and inside the
image are many Smalltalk processes that share the VM thread by priority,
semaphores and critical sections. Most of the code is sequential and generated
from Slang; what is hard to get right and hard to test is where these actors
meet. That is what is modelled here.

Paths below are relative to the repository's root.

## 1. Inventory

| Component | Code | State | Operations | Met by |
|---|---|---|---|---|
| External semaphores | `platforms/Cross/vm/sqExternalSemaphores.c` | request and response counters per index, two pairs of tide marks, `useTideA`, `checkSignalRequests` | `signalSemaphoreWithIndex` (any thread or handler), `doSignalExternalSemaphores` (VM thread), `ioSetMaxExtSemTableSize` | plugins call it; the event check answers |
| Scheduler | `spurstack64src/vm/interp.c` (one of several translations of the same Slang source) | run queue per priority, `highestRunnableProcessPriority`, the active process, links, `myList` and `suspendedContext` of each process; the callers of open callbacks | primitives resume, suspend, yield, signal, wait, enter, test-and-set, exit; `transferTo`, `wakeHighestPriority`, `putToSleep`; `callbackEnter`, `callbackLeave` | the event check signals semaphores |
| Event check and timers | `interp.c` `checkForEventsMayContextSwitch`, `forceInterruptCheck`, `handleStackOverflowOrEvent…` | `stackLimit`, `stackPage`, `nextWakeupUsecs`, `nextPollUsecs`, `interruptPending`, long running primitive times | smash and restore the limit; signal timer, interrupt, low space, finalization, profile and external semaphores | heartbeat, external semaphores, scheduler |
| Ticker | `platforms/Cross/vm/sqTicker.c` | two tables of tickees (period, deadline, `inProgress`) | add, remove, run due tickees | nobody: it is compiled where `VM_TICKER` is defined, and no build defines it |
| Heartbeat | `platforms/unix/vm/sqUnixHeartbeat.c` | clocks, `beatState` | beat, start, restart after fork | event check |
| Interval timer heartbeat | `platforms/unix/vm/sqUnixITimer*Heartbeat.c` | `yield_mutex`, `yield_sync`, ticker thread (both only with `VM_TICKER`) | signal handler, prod, yield, unblock | VM thread |
| Asynchronous I/O | `platforms/unix/vm/aio.c` | masks, handlers and client data per descriptor | enable, handle, suspend, disable, poll | sockets, asynchronous files, display |
| Sockets | `platforms/unix/plugins/SocketPlugin/sqUnixSocket.c` | state, pending accept, errors, three semaphores per socket | create, connect, listen, accept, send, receive, close, abort, destroy | aio handlers, external semaphores |
| Asynchronous files | `platforms/unix/plugins/AsynchFilePlugin/sqUnixAsynchFile.c` | read and write buffer, status and position | start, handler, result, close | aio handlers, external semaphores |
| Input events | `platforms/unix/vm/sqUnixEvent.c` | ring buffer of 64 events, button state | record, fetch, signal | display driver, image |
| Named primitives | `platforms/Cross/vm/sqNamedPrims.c` | list of modules, with their function handles | load, look up, initialise, shut down, unload | interpreter |
| OS semaphores and threads | `platforms/unix/vm/sqUnixThreads.c` | mutex, condition, count | signal, wait | multithreaded VM |
| Multithreaded VM | `src/vm/cointerpmt.c` | `vmOwner` lock, thread states, process affinity | `ownVM`, `disownVM`, thread switch | plugins, callbacks |
| Bytecodes, object memory, collector, Cogit | generated `interp.c`, `cointerp.c`, `cogit.c` | heap, stack pages, code zone | – | everything |
| Start-up, memory, drivers, plugins, other platforms, builds | `platforms/**`, `build.*`, `third-party`, `processors`, … | – | – | – |

### What makes each correct, and what is hard about it

* **External semaphores.** Every request is answered by exactly one signal, for
  requests made from threads and from interrupt handlers on top of the VM
  thread, without any lock. Hard: the VM thread and the requestors interleave at
  every memory access; the flag, the marks and the counters are three separate
  words; event checks are sometimes cut short.
* **Scheduler.** A process is on one list at most and the list it believes in;
  the highest runnable priority runs; no signal is lost or doubled; a section
  has one owner and is handed over in order. Hard: any sequence of primitives,
  one cached bound (`highestRunnableProcessPriority`), zombies, suspending a
  process that waits; callbacks, during which a process sleeps that is on no list
  and in no suspended state the image can see.
* **Event check.** What was asked for is looked at in the end; a timer that is set
  is signalled, although the clock stands still now and then; the limit is restored before the sources are
  read. Hard: the heartbeat smashes the limit of whatever page it believes to be
  current.
* **Heartbeats.** Clocks never go back; the thread restarts after a fork.
* **aio, sockets, files.** One call of a handler per readiness it asked for; one
  signal per completed operation; a closed descriptor's handler is never run; a
  socket never uses the descriptor of another. Hard: handlers run over a
  snapshot of the masks and change the masks, they are used up by one call, and
  descriptors are given again once closed.
* **Input events.** Events are read in order, only the oldest are lost, and none
  is left in the buffer with the image not told. Hard: the image fetches until the
  buffer is empty, and events arrive meanwhile.
* **Named primitives.** A function of an unloaded module is never called.
* **Threads.** One thread owns the VM; an owner that leaves is replaced.

The hazards, each with its line, are listed in `PROJECT.json`.

## 2. Modules

| Module | Role |
|---|---|
| `SignalPromise` | abstract: requested and delivered signals per index |
| `ExternalSemaphores` | the protocol, one action per access to shared memory; refines `SignalPromise` |
| `ExternalSemaphores_proofs` | theorems about it |
| `MCExternalSemaphores` | model values and symmetry for TLC |
| `ProcessSynchronisation` | abstract: ready processes, queues of waiters, signals, owners; no priorities |
| `ProcessScheduler` | the process primitives; refines `ProcessSynchronisation` |
| `ProcessScheduler_proofs` | theorems about its lists and its hint |
| `SchedulerGuarantees_proofs` | theorems about what it promises, and its refinement |
| `MCProcessScheduler` | model values and symmetry for TLC |
| `Callbacks` | entering and leaving the interpreter for callbacks; extends `ProcessScheduler` |
| `Callbacks_proofs` | theorems about what callbacks leave of the scheduler's promises |
| `MCCallbacks` | model values and symmetry for TLC |
| `EventCheck` | the event check of the VM thread and the heartbeat thread that forces it |
| `EventCheck_proofs` | theorems about it |
| `InputQueue` | abstract: a bounded queue that forgets its oldest event |
| `InputEvents` | the ring buffer, its semaphore and the process that fetches; refines `InputQueue` |
| `InputEvents_proofs` | theorems about it |
| `AsynchronousIO` | the masks, handlers and loop of `aio.c`, as operators and variables its clients build on |
| `Sockets` | the primitives and handlers of sockets; extends `AsynchronousIO` |
| `Sockets_proofs` | theorems about them |
| `MCSockets` | model values and symmetry for TLC |
| `AsyncFiles` | the primitives and handlers of asynchronous files; extends `AsynchronousIO` |
| `AioClients` | `Sockets` and `AsyncFiles` over one `AsynchronousIO` |
| `AioClients_proofs` | theorems about the two together, on top of `Sockets_proofs` |

How they fit: `ExternalSemaphores` takes from the event check that a forced one
comes and may be cut short, which is what `EventCheck` shows of
`forceInterruptCheck` step by step; the plugins' modules take from
`ExternalSemaphores` that a requested signal is given once; the scheduler's
`Signal` is that signal. `Callbacks` and `AioClients` compose modules in full,
sharing their variables.

### `ExternalSemaphores`

A requestor is a call of `signalSemaphoreWithIndex` in progress: `pc`, and its
locals `i`, `v` and (which arm of the `if` it is in) `tide`. The VM thread is
`vm`, with the locals `low` and `high` of `doSignalExternalSemaphores`. Each
action is one access to a variable the two sides share; the code puts a fence or
an atomic operation between all of them, so memory is sequentially consistent.
Requestors in `InterruptRequestors` are signal handlers: while one is in a call,
the VM thread does not move (`VMMayRun`). Two handlers interleave freely, which
includes the nested ones. Reading a response, comparing it, signalling and
incrementing it is one step, because only the VM thread writes responses and a
request counted in between is seen by the next comparison.

`interruptForced` is the smashed stack limit. `CheckForEvents` restores it
*before* it looks at anything, as `checkForEventsMayContextSwitch` does;
`CheckForEventsWithoutSwitch` is the same function called for a frame in which
no process switch is allowed (primitive 198), which restores the limit and
returns before the semaphores. `Heartbeat` forces a check whether or not there
is anything to do. Tide marks outside the table's indices are the empty interval
(`MaxTide`, `MinTide`); the width of a counter is `CounterModulus`.

`called`, `signalled` and `skipped` are history; `i`, `v`, `tide`, `low` and
`high` are reset when they go out of scope.

### `ProcessScheduler`

The interpreter runs a primitive to its end, so each primitive is one action.
A linked list is a sequence of processes; a priority names its run queue. The
actions call the operators the code calls: `PutToSleep`, `ResumeOrPreempt`
(`resume:preemptedYieldingIf:`), `TransferToWoken` (`wakeHighestPriority` and
`transferTo`). `suspendedContext` is `"live"` or `"nil"`: the active process has
none, because `transferTo` takes it away, and `wakeHighestPriority` discards
processes that have none. What programs do is open, with the habits of an image
as constants:

* `SuspendsWaiters`: processes are suspended while they wait for a semaphore or section;
* `MakesZombies`: the run queues on which the context of a process is set to nil;
* `ChangesPriorities`: the priority is changed of processes that are `"ready"`, the
  active one included, or `"waiting"`, the suspended ones included.

The idle process is the image's background process: the lowest priority, and it
never blocks. Resuming a process that is on a list, or is the active one, is left
out: the primitive does not look, and the lists would not survive it. Semaphore
signals from the event check are `Signal`, which is `synchronousSignal`.

### `Callbacks`

A plugin's foreign code calls back into the image: `callbackEnter` notes the
active process in `suspendedCallbacks`, signals what external semaphores are
owed, chooses another process to run, and starts an interpreter of its own on the
native stack. `entering` is between the first and the last of these, since the
signals are steps of their own (`SignalOnEntry`). `LeaveCallback` is
`callbackLeave` and what follows the `longjmp`: the process that leaves is put on
its run queue, and the caller of the innermost callback becomes active. The
primitive refuses to leave any other, so leaving in another order than entering
is not a step. All of `ProcessScheduler`'s primitives run between, with all the
habits of an image it knows.

Nothing says that a signal at the entrance wakes a process of a lower priority:
threads and handlers may have asked for it while the foreign code ran. If it wakes
a higher one, `synchronousSignal` puts the caller on its run queue, line 51564
finds another process active, and the callback begins with its caller ready.
`preempted` is history, and keeps of each open callback whether that happened. A
preempted caller may run while its callback is open, wait, be suspended, call back
again, and leave its own callback; and `LeaveCallback` makes it active wherever it
is by then (finding 5). Once that has linked a process twice, or made a linked one
active, the sequences of `ProcessScheduler` no longer stand for what the chains of
links are, so no step is taken from such a state (`OneListEach` in
`CallbacksNext`); the step that leads there is in the model, and the invariants hold
of the state it leads to.

Two habits are taken: nobody resumes a process that sleeps until its callback is
left (it looks suspended, and the primitive would not know), and the idle process
calls no plugin.

### `EventCheck`

The VM thread and the heartbeat thread, one access to a shared variable a step.
A stack page stands for its `realStackLimit`; `pageLimit[p]` is its `stackLimit`,
and `Max` the value that no stack pointer satisfies. The steps of the heartbeat
are the beat with its clock, the long running primitive check
(`longRunningPrimitive...`: `startUsecs`, `stopUsecs`, `checkMethod` and the
sequence number, of which it only matters whether it is still
`statCheckForEvents`), then `forceInterruptCheck` in three. The VM thread changes
stack pages (`setStackPageAndLimit:` in three), starts a check when its limit is
not its page's, restores the limit in three, and either ends there (a method that
must not be interrupted) or goes on to the sources of events. The interrupt key
arrives while `ioProcessEvents` runs, in a check or in a primitive that calls it.

What this shows of the protocol is that it loses checks and may: when the VM
thread has read the limit of its new page and the heartbeat raises `stackLimit`
before it is stored, the raise is overwritten, and the page that was smashed may
be the one before. Nothing is lost for good, since the next beat forces again,
and `LimitIsCurrent` (the assertion of line 51498) holds throughout.

The operating system's clock is looked at in the beat and nowhere else, so what it
did since the beat before is chosen there (`ReadClock`).

`Habits` bounds the services an image uses together: the interrupt key with
changes of stack page, the interrupt key with the timer, and the long running
primitive check. They share nothing but the stack limit and the event check,
which every image has. `sampled` and `ranLong` are history.

Two things the code does here are harmless but not meant: line 65417 compares the
sequence number with 0 instead of clearing it, and the assertion of line 54828 is
false when the clock stood still between two beats, as it does while it waits for
a clock that was set back. A heartbeat that hits while the VM
thread voids the check may leave a stop time with no start time: a signal is sent
and the image reads nil.

### `InputEvents`

`ring` is the buffer with its indices; an event is the value the image reads.
`requests` and `signals` are the input semaphore before and after
`doSignalExternalSemaphores` has answered, at the end of an event check. The
image's process (`sensor`) waits for the semaphore once and then calls
`ioGetNextEvent` until there is none, which calls `ioProcessEvents` itself when
the buffer is empty. `RingIsQueue` says that the ring is `InputQueue` with a
capacity of one less than its size.

### `AsynchronousIO` and `Sockets`

The state of `aio.c` is one record, `aio`: `enabled` is `fdMask`, `watched` the
three event masks, `handler` the three tables of handlers (`"undefined"` is
`undefinedHandler`, `"none"` the null pointer that `aioDisable` stores), `client`
is `clientData`. Each function is an operator from the record it finds to the
record it leaves, since primitives and handlers call several in a row. `aioPoll`
is not atomic: `Select` keeps what select answered in `ready`, each handler is an
action on the next event of the loop (`First`, after `Taken` has cleared mask and
handler, as the code does), and `EndPoll` is the loop that stops early because
`maxFd` dropped. Select answers any non-empty set of watched events that
descriptors of their kind can have, and fails (it is not enabled) when one of them
is not open. `kernel` is the operating system's side: what is open under each
descriptor. A new descriptor is the lowest free one.

`pss[s]` is the private struct of a socket, `Nil` when `socketValid` fails, with
the type of the socket (`tcp`; datagram and raw sockets behave alike) and
`awaits`, which is history: the signals the image asked for by connecting,
listening, accepting, or by `dataAvailable` or `sendDone` answering false.
Everything runs in the VM thread, so primitives only start outside a poll. A
handler is one action for each of its branches. An action that needs the struct
behind `clientData` cannot be taken without one, and a null handler cannot be
called at all: the VM would stop there, and so does the model.

The image is taken to create sockets in a session, to listen or connect with
sockets that are idle, to read and write those it found connected, and to ask for
the state of a socket before it accepts from it, closes it or destroys it (as
`Socket>>isValid` and `waitForConnectionFor:` do). It has to: a server whose
accept failed keeps the number of the descriptor `acceptHandler` closed (line
370), and destroying it would close whatever has that number by then; and
`acceptedSock` starts as 0 (from calloc), which the test of line 819 takes for a
connection. What no habit of the image avoids is that a server destroyed with a
connection it has accepted and the image has not taken (line 915) leaves that
connection's descriptor open for ever; in the model such a descriptor is used up.

### `AsyncFiles` and `AioClients`

`rec[f]` is the `FileRec` behind a handle that `validate` accepts; `Nil` stands for
a handle that is closed or of an earlier session. A file is always ready; a stream
(a terminal or a pipe, which cannot seek and may block) may never be.
`writeBuffer` is one action, with any number of units written before it is done,
blocks or fails. Positions are kept because there are two of them in the record
and one, `offset`, in the operating system: `Sought` says where a transfer takes
place when it trusts the record. `signals` is the file's semaphore and `transfer`
what the image waits for, one transfer at a time as the plugin's opening comment
asks. It may ask for a result too early. A primitive that fails without a change
that anything depends on is left out; a write that fails to start sets its status
(`WriteStartFails`).

A file that is both read and written without seeking is not where its record
says: each transfer moves the one offset and one of the two positions. The
plugin's streams need no position, and `PositionsAreKnown` is about files that
are only read or only written.

`AioClients` puts both on one `aio.c`: one poll calls handlers of both, and what
one closes the other may be given. One habit is taken: the image unloads the
socket plugin only while no asynchronous file is open, since `sqNetworkShutdown`
closes every descriptor in the masks, whosever it is (line 506).

## 3. Runs

| Run | Instance | Shows |
|---|---|---|
| `ext_sem_interrupts` | 2 handlers, table of 3, image table of 2, counters modulo 3, up to 3 calls per index, at most 2 open when another begins | types, no lost interrupt, no lost signal, all answered when quiet, every request answered by exactly one signal |
| `ext_sem_threads_lost` | 2 threads, table of 2, counters modulo 4 | finding: a request stays unanswered |
| `scheduler` | idle and 3 workers, any of 3 priorities, changed while a process waits, a semaphore, a section, up to 2 excess signals, contexts dropped at priority 2, no yielding on preemption, fair yields | lists and processes agree, hand-over, nobody falls off a list, the highest priority runs, refinement, equals take turns |
| `callbacks` | idle and 3 workers, any of 3 priorities, a semaphore, a section, 2 callbacks open, yielding on preemption, waiters suspended, contexts dropped | the bound, no hoarding, no halt; whoever gave up the processor sleeps until its callback ends, what spoils the lists, nobody is lost |
| `callbacks_preempted` | idle and 3 workers, 2 callbacks open, no habits | finding: a caller is ready while its callback is open |
| `scheduler_suspended` | 2 workers, waiters are suspended | finding: an entrance passed without owning |
| `event_check` | 2 stack pages, 2 methods, 2 ticks of the clock, one step back | the limit in force, interrupts and timers come, hits are true |
| `input_events` | ring of 4, 2 events, up to 4 signals outstanding | the ring is a queue, no event is forgotten |
| `sockets` | 2 sockets, descriptors 0 to 3, exceptions of every kind of descriptor | descriptors and clients belong together, select never fails, signals are owed exactly while a handler will send them, no silent change of state but the image's own closing |
| `sockets_connect` | 2 sockets, exceptions of connected sockets (out-of-band data) | finding: a handler outlives the attempt it is for |
| `aio_clients` | a socket and a file, descriptors 0 to 2, the same exceptions, files of one unit | events find their clients, nothing is shared, transfers, attempts and reads end |
| `async_files` | a file, descriptors 0 to 2 | finding: a write that fails does not signal |

*Bounds.* A table of 3 has room for marks that meet and cross, and 2 image entries
leave one index that is clipped. Two requestors are enough for every race over one
compare-and-swap, and with the VM thread make the three parties of the flip.
`MaxCalls` is the number of calls after which none is begun for an index, and
`MaxOpen` the number of requests that may be open for an index when another is
begun. Counters wrap modulo 3, with up to 3 requests of an index and fewer open
than a counter has values, which is how the 16-bit counters are used.
With four processes and three priorities a list holds up to
three and a process can be preempted twice; `MaxExcessSignals` bounds the
signals nobody waited for. `scheduler` has as much of the image's
habits as its properties bear: contexts are dropped at one priority, so that queues with
zombies lie between queues without, and a process gets another priority while it waits.
In `callbacks` waiters are suspended and contexts dropped on every queue; priorities do
not change there, which would make the instance too large, and the theorems hold if they
do. Two callbacks of three workers are enough for one within another, of two callers or
of one that was preempted, and for somebody to run while both callers sleep.

Two sockets over three descriptors let a descriptor be closed and given again to
the other socket while the first still exists, a server, its pending connection
and the socket that takes it exist at once, and an accept find no descriptor left.
In `aio_clients` a socket and a file take turns at two descriptors, and both are in
one poll. Two stack pages are the one in use and the one before, which is all that
`forceInterruptCheck` can confuse; two ticks and a step back let a timer be set,
come due, and the clock fall behind. A ring of four wraps with its three places
full and is overrun while it is being emptied.

*Deadlock* is checked in every run but `scheduler` and `callbacks`, where an image that
robs every other process of its context leaves the idle process alone (and where the
model of `callbacks` ends once the lists are spoilt), and `sockets`. There the exception of
a listening descriptor may be answered together with the connection it accepts in
place, which disables the descriptor: the loop calls its null exception handler.
Select reports exceptions of listening descriptors on none of the systems the
code is built for today; the code has a branch for them. `aio_clients` is the
run without them, and checks that the loop calls no handler that is gone.

*Fairness.* Threads and handlers finish the calls they began: weak fairness of
each requestor. The heartbeat thread has a period of 2 ms and its own thread:
weak fairness. The VM thread completes the event checks it begins: weak fairness
of `DoSignalExternalSemaphores`. Checks forced again and again are not all cut
short, because programs activate other methods than `ensure:`: strong fairness
of `CheckForEvents`, which a cut-short check disables and the heartbeat enables
again. In `scheduler` strong fairness of `Yield` per priority says that the
processes of a priority yield every now and then; that is a condition on the
program, and the property has the condition that higher priorities come to rest.
In `aio_clients` polls go on to their end (weak fairness of handlers and
`EndPoll`), and a watched descriptor whose connection attempt is over is answered
by select sooner or later: strong fairness, since select answers readiness for as
long as it lasts, the operating system ends every attempt, and the VM polls again
and again but not during a poll. A file is always ready to be read; for streams
nothing is assumed. In `event_check` both threads go on (weak), so does the clock from beat to beat, the
beat does not hit for ever the few instructions in which a raised limit is
overwritten (strong fairness of a raise while the VM thread interprets), and
checks are not for ever cut short, as above. In `input_events` a request is
followed by an event check, which `ext_sem_interrupts` and `event_check` show, and
the image's input process, which has a high priority, goes on (strong, since checks
come in between).

### Findings

1. **A request can be left unanswered when requestors are threads.** A thread
   tests `useTideA` and then moves the pair it chose. If the VM thread flips the
   tides in between, the marks it moves are read too early or emptied later. The
   flag it raises afterwards brings the VM thread back, which then reads the
   other pair, finds it empty, and leaves the counters unequal. The next request
   for that index, or for a range that covers it, heals it. For handlers on top
   of the VM thread, the case the opening comment is about, it cannot happen
   (`NoSignalLost`).
2. **A waiter that is suspended and resumed gets into a critical section.** The
   answer of `primitiveEnterCriticalSection` is pushed before the process waits.
3. **A connected socket keeps the exception handler of its attempt**, although
   the comment of `connectHandler` says it is left unhandled. Out-of-band data
   that arrives before the image waits for data makes it `Unconnected`.
4. **A write of an asynchronous file that fails signals nobody**, although the
   plugin's opening comment says that the semaphore is signalled for each transfer
   that was started, even if it later fails.

5. **The caller of a callback may stay ready.** The comment of `callbackEnter` says
   that it suspends the active process. When a signal that it answers on the way
   wakes a higher process, the caller stays on its run queue instead, may run on in
   the frames under the callback, and is made active when the callback is left
   although it may be linked from a list. `ListsSurvive` says that nothing else
   spoils the lists, and `CallersStaySuspended` that no other caller is disturbed.

Two more are told here without a run. With `MakesZombies` a process that
yields to a run queue which holds a zombie only is discarded with it, since its
`suspendedContext` is nil while it runs, which is how `wakeHighestPriority` (line
65617) knows zombies: `NobodyFallsOff` excepts the run queues that may hold any. And
`sqSocketCloseConnection` signals nobody when it succeeds (lines 876-882), only when
it fails: a process that waits for a connection which another one closes or aborts
is not told. No document promises that it is; `NoSilentChange` excepts that step.

## 4. Proofs

`ExternalSemaphores_proofs` proves, for any requestors, table sizes and counter
width:

* `TypeCorrect`: `Spec => []TypeOK`.
* `InterruptsNotLost`: `Spec => []NoLostInterrupt`; inductive by itself.
* `HandlersSignalsNotLost` and `HandlersRequestsAnswered`, under the assumption
  that every requestor is a handler. The inductive invariant adds where a
  requestor's marks are (`tide[r]` is the pair in use while a handler is in its
  call, since the VM thread, which flips, is not running) and that the marks it
  has passed cover its index.
* `SignalsNotSpurious` (`NoSpuriousSignal`, which the refinement implies and no run
  repeats) and `SignalsImplementPromise`: the counters are the number
  of requests and signals modulo the width, and a signal is sent only while they
  differ.

`ProcessScheduler_proofs` proves, for any processes, priorities, semaphores and
sections, and whatever habits the image has:

* `SchedulerTypeCorrect`: `Spec => []TypeOK`.
* `ListsStaySound`: `Spec => []OneListEach`, inductive with the types.
* `HintNeverHides`: `Spec => []HintCoversRunQueues`, inductive with the types.

The sequences are put away first: lemmas say what each list operation does to
the *members* of a list and to its freedom from repetitions. Then every
primitive is shown to be a step of one of four shapes (`Shapes`): it leaves the
lists alone, readies a process that is on no list once the waiters are
unlinked, stops the active process, or unlinks one process. The effect of each
shape on types, lists and hint is one lemma (`StepEffect`), and the theorems
follow from that.

`SchedulerGuarantees_proofs` builds on them. With every habit:

* `VMNeverHalts`: `Spec => []NeverHalts`. The inductive invariant, `IdleReady`, is
  that the idle process has priority 1 and, while it does not run, is on the lowest
  run queue with a context, so that `wakeHighestPriority` finds it at the latest.
* `NothingIsHoarded`: `Spec => []NothingHoarded`, inductive with the types once
  lemmas say what blocking and serving do to the waiters of one list
  (`BlockOnWaiters`, `ServeWaiters`).

* `NobodyIsLost`: `Spec => []NobodyFallsOff`. It adds that the processes on lists without
  zombies have a context (`Alive`). Then the search finds the first of such a queue and
  discards nobody from it, since the active process, which has none, is never alone on
  one when it looks (`FindsFirst`).

Each of the others assumes that the image lacks the one habit that breaks it:

* `EnteredIsOwned` (no waiter is suspended): `Spec => []EnteredOwns`. It needs
  `OneListEach`: who exits is on no list, so it is the owner.
* `HighestPriorityRuns` (no priority of a ready process is changed): `Spec => []HighestRuns`. It adds
  that the processes of a run queue have its priority (`Sorted`), and needs the hint
  to cover the queues that the search skips.
* `SchedulerImplementsSynchronisation` (no waiter is suspended):
  `Spec => SynchronisationKept`. Every step is a step of `ProcessSynchronisation` or
  a stutter; the exit of a section needs `EnteredIsOwned`, and a yield is a stutter
  because whom it finds was ready.

`Callbacks_proofs` carries these promises across callbacks, for any depth of nesting
and whatever habits the image has. Every step but `LeaveCallback` is a step of the
scheduler or leaves its variables alone (`SchedulerSteps`), so each proof adds what
leaving does and what the open callbacks' callers are meanwhile.

* `CallbacksTypeCorrect`: `CallbacksSpec => []CallbacksTypeOK`.
* `HintNeverHidesAfterCallbacks`: `CallbacksSpec => []HintCoversRunQueues`.

* `CallersSleepOn`: `CallbacksSpec => []CallersStaySuspended`. The inductive
  invariant, `SoundWithCallbacks`, says of every caller that gave up the processor
  that it believes to be on no list and is on none, has its context, and called no
  later callback. The program resumes none of them, a primitive's other effects reach
  listed processes and the active one only, and a process that runs does not sleep.
* `ListsStaySoundAcrossCallbacks`: `CallbacksSpec => ListsSurvive`, an action property:
  the caller that goes on is on no list unless it was preempted.
* `VMNeverHaltsInCallbacks` (`NeverHalts`) and `NothingIsHoardedInCallbacks`
  (`NothingHoarded`).
* `NobodyIsLostInCallbacks` (`CallbacksLoseNobody`), an action property: who is made
  active when a callback starts had a context, and who ran when it is left is ready.

`EventCheck_proofs` proves, for any stack pages, clock, methods and services used:

* `EventCheckTypeCorrect`: `Spec => []TypeOK`.
* `LimitStaysCurrent`: `Spec => []LimitIsCurrent`. The inductive invariant,
  `LimitsInForce`, adds what the limit is at the steps in which the VM thread does
  not interpret, and that a limit it has read and not stored yet is its page's or
  raised; the heartbeat can only raise limits.
* `HitsStayTrue`: `Spec => []HitsAreTrue`. The inductive invariant, `HitsSound`, says
  that a method is sampled only while there is no hit, and that a sequence number which
  still is the current one tells of a sample that no check came after. It needs the
  order in which `ProbeStart` writes the sequence number and the method. A hit is
  true in the middle of a voiding, too: the method is voided first.

`InputEvents_proofs` proves, for any size of the ring and any events:

* `InputTypeCorrect`: `Spec => []TypeOK`.
* `NoEventIsForgotten`: `Spec => []NoEventForgotten`, inductive with the types.
* `RingImplementsQueue`: `Spec => RingIsQueue`, the refinement of `InputQueue`. The
  events in order are a function of buffer and indices (`InOrder`); lemmas say what
  it is after an event is recorded with room (`RoomFor`) and without (`NoRoomFor`),
  and after one is read (`WithoutOldest`).

`Sockets_proofs` proves, for any sockets and descriptors and whatever exceptions
select reports:

* `SocketsTypeCorrect`: `Spec => []TypeOK`.
* `NoDescriptorIsShared` (`DescriptorsHeldOnce`), `HandlersFindTheirSockets`
  (`ClientsOwnTheirDescriptors`), `SelectIsAskedOfOpenDescriptors` (`SelectNeverFails`)
  and `NoSignalIsLostOrSpurious` (`SignalsAreOwed`).
* `WaitersAreTold`: `Spec => NoSilentChange`, an action property: who waits for a
  connection is signalled by the step that changes its state, unless that is the
  image's own `sqSocketCloseConnection`.

They share one inductive invariant, `Sound`. Its parts are that what is watched has a
handler, and what is enabled is below `maxFd` (`Tidy`); what the state of a socket, the
kind of its descriptor and the three handlers of the descriptor say of each other
(`Consistent`); that an enabled descriptor is open and its client the socket that has
it (`DescriptorSound`); and that two sockets have no descriptor in common, the ones
that wait for `sqSocketAcceptFrom` included (`Separate`). `Consistent` is where the work was:
the exception handler of a finished connection attempt stays (finding 3), so it must
say which other handlers can be there beside it, or a signal would be lost or sent twice.

Lemmas say first what `aioEnable`, `aioHandle` and `aioDisable` do to the masks. Then
`Frame` shows that a step which touches the sockets `S` and the descriptors `D`, that
no other socket has, leaves the rest of `Sound` alone, so that each handler and
primitive is only shown to leave what it touches sound. The lowest free descriptor and
the first ready event exist because the naturals are well-founded.

`AioClients_proofs` proves, for any sockets, files and descriptors:

* `ClientsTypeCorrect`: `ClientsSpec => []ClientsTypeOK`.
* `FilesAndSocketsKeepApart` (`NothingIsShared`), `TransfersStayAnswered`
  (`FilesTransfersAreAnswered`) and `PositionsStayKnown` (`FilesPositionsAreKnown`).
* `HandlersFindTheirClients` (`EventsReachTheirClients`), where select reports no
  exceptions of a listening socket (`OnlyConnections`), as the systems the plugin is
  built for do not: an exception is out-of-band data, of a connection. Reported together
  with a connection, it would find its handler removed when the connection replaces the
  server in place.

The inductive invariant, `ClientsSound`, is the sockets' `Sound` beside `SoundFiles`.
That says of each file what its record and its descriptor's masks say of each other
(`FileSound`); that an enabled descriptor of a file has its file as client
(`OwnerSound`); and what the image waits for, the signals it has not taken, the status
and the units left of its write, and the two handlers promise together (`Promise`). A
write that is under way has its handler and the status `Busy`, and a write that is over
a signal or an error, so that an early question for the result, which resets the status,
loses nothing.

Neither side is proved again for the other: `SocketsLeaveFiles` and `FilesLeaveSockets`
show that masks and descriptors that change elsewhere leave either half of the invariant
alone, and every step of the one changes only descriptors that are its own or free. The
exception is `sqNetworkShutdown`, which closes what is enabled: the image calls it with no
file open (section 2). Events have an invariant of their own, `EventsSound`: an event that
select answered and whose turn has not come keeps its handler. A handler disables its own
descriptor at most, of which no event waits any more, since it is a server's only one
or an exception, the last of the three (`NoOthers`); and what it opens was free, and of a
free descriptor no event waits (`FreeHasNoEvents`).

Model-checked only: the liveness properties (`PromiseKept`, `EqualsTakeTurns`,
`InterruptsAreAnswered`, `TimersSound`, `EventsMoveOn`, `ConnectEnds`,
`FileReadsEnd`), since fairness and `ENABLED` are beyond the prover. Every invariant and
action property that a passing run checks has its theorem, under the assumptions named.

## 5. Not modelled, and the plan

Not modelled: the components that `PROJECT.json` lists as such. Of the event
check, the profiler, low space and finalization semaphores, which are flags set
and cleared in the VM thread, and the collection it may run. `closeHandler` and the
deferred close it ends are left out of `Sockets`: close() of a socket answers
`EWOULDBLOCK` on none of the systems the plugin is built for. Had it to run, it
would be called without a socket, since the descriptor has just been disabled. The
ticker is compiled in no build. The interval timer's signal handler makes the
heartbeat's calls in an order `EventCheck` has. Bytecodes, object memory, the
collector and the JIT are left out for good: their state is the heap, and small
instances of it say little. Drivers, codecs, other platforms and builds are I/O or
sequential.

What comes next:

1. `LinkedLists`: first, last and next links under the scheduler's sequences, as
   a refinement; `NamedPrims`, `OSSemaphores`, ownership of the multithreaded VM.

------------------------------- MODULE EventCheck -------------------------------
(***************************************************************************)
(* The event check of spurstack64src/vm/interp.c and the heartbeat thread of *)
(* platforms/unix/vm/sqUnixHeartbeat.c that forces it.                       *)
(*                                                                           *)
(* The VM thread compares its stack pointer with stackLimit at every send:   *)
(* whoever wants an event check makes stackLimit impossible to satisfy.  The *)
(* VM thread copies the limit of a stack page to stackLimit whenever it goes *)
(* on to another page, and restores it when it checks; nothing is locked.    *)
(* The heartbeat also drives the clock, and looks for primitives that run    *)
(* from one beat to the next.                                                *)
(*                                                                           *)
(* A stack page stands for its own real limit.                               *)
(***************************************************************************)
EXTENDS Integers

CONSTANTS
  StackPages,
  Max,                 \* allOnesAsCharStar: a limit no stack pointer satisfies
  MaxTime,             \* bound of the operating system's clock
  MaxBackSteps,        \* bound of the times it is set back
  PollUsecs,           \* ioProcessEvents is called as often by event checks
  Methods,
  NoMethod,
  Habits               \* the services an image uses; a set of the sets of services it may use together

Services == {"pages", "timer", "interrupt", "probe"}

ASSUME EventCheckAssumption ==
  /\ StackPages # {} /\ Max \notin StackPages
  /\ Methods # {} /\ NoMethod \notin Methods
  /\ MaxTime \in Nat \ {0} /\ MaxBackSteps \in Nat /\ PollUsecs \in Nat \ {0}
  /\ Habits \subseteq SUBSET Services

VARIABLES
  uses,                \* the habits of the image that runs
  stackPage,
  stackLimit,
  pageLimit,           \* stackLimit of every stack page
  loaded,              \* the limit the VM thread has read from a page, to be stored
  vm,                  \* the VM thread is interpreting, or where it is in the code below
  beat,                \* the heartbeat thread is asleep, or where it is
  thePage,             \* the stack page it has read
  osClock, backSteps,
  utcMicrosecondClock,
  now,                 \* the time the event check has read
  nextPollUsecs,
  nextWakeupUsecs,     \* of the timer semaphore; 0 for none
  interruptPending,
  newMethod,           \* the method, or primitive, called last
  startUsecs, stopUsecs, checkMethod,    \* of the long running primitive check
  sameSequence,        \* its sequence number is statCheckForEvents
  checkSemaphore,      \* it has a semaphore
  signalUndelivered,
  sampled,             \* history: the last beat found checkMethod running, and no events were checked since
  ranLong              \* history: and so did the beat before it, with no check in between

limits == <<stackPage, stackLimit, pageLimit, loaded>>
clock == <<osClock, backSteps, utcMicrosecondClock>>
timers == <<now, nextPollUsecs, nextWakeupUsecs>>
hit == <<startUsecs, stopUsecs, checkMethod, sameSequence, sampled, ranLong>>
probe == <<newMethod, checkSemaphore, signalUndelivered, hit>>
vars == <<uses, limits, vm, beat, thePage, clock, timers, interruptPending, probe>>

Times == 0 .. MaxTime

TypeOK ==
  /\ uses \in Habits
  /\ stackPage \in StackPages /\ thePage \in StackPages
  /\ stackLimit \in StackPages \cup {Max} /\ loaded \in StackPages \cup {Max}
  /\ pageLimit \in [StackPages -> StackPages \cup {Max}]
  /\ \A p \in StackPages : pageLimit[p] \in {p, Max}
  /\ vm \in {"interpreting", "switching", "copying", "restoring", "reloading", "storing",
             "checking", "polling", "answering", "voiding_method", "voiding_stop",
             "voiding_start"}
  /\ beat \in {"asleep", "probing", "comparing", "stopping", "missed", "sampling", "starting",
               "forcing", "smashing", "raising"}
  /\ osClock \in Times /\ backSteps \in 0 .. MaxBackSteps /\ utcMicrosecondClock \in Times
  /\ now \in Times /\ nextWakeupUsecs \in Times
  /\ nextPollUsecs \in 0 .. MaxTime + PollUsecs
  /\ interruptPending \in BOOLEAN
  /\ newMethod \in Methods /\ startUsecs \in Times /\ stopUsecs \in Times
  /\ checkMethod \in Methods \cup {NoMethod}
  /\ sameSequence \in BOOLEAN /\ checkSemaphore \in BOOLEAN /\ signalUndelivered \in BOOLEAN
  /\ sampled \in BOOLEAN /\ ranLong \in BOOLEAN

\* The stacks are set up and the clock and the heartbeat run.
Init ==
  /\ uses \in Habits
  /\ stackPage = CHOOSE p \in StackPages : TRUE
  /\ thePage = stackPage /\ stackLimit = stackPage /\ loaded = stackPage
  /\ pageLimit = [p \in StackPages |-> p]
  /\ vm = "interpreting" /\ beat = "asleep"
  /\ osClock = 1 /\ backSteps = 0 /\ utcMicrosecondClock = 1
  /\ now = 0 /\ nextPollUsecs = 0 /\ nextWakeupUsecs = 0
  /\ interruptPending = FALSE
  /\ newMethod = (CHOOSE m \in Methods : TRUE) /\ checkMethod = NoMethod
  /\ startUsecs = 0 /\ stopUsecs = 0
  /\ sameSequence = TRUE /\ checkSemaphore = FALSE /\ signalUndelivered = FALSE
  /\ sampled = FALSE /\ ranLong = FALSE

-----------------------------------------------------------------------------
(* The heartbeat thread.  (What none of its steps changes is said once, in  *)
(* HeartbeatThread.)                                                        *)

\* What the operating system's clock says: it goes on, and may be set back.
ReadClock ==
  \/ osClock' \in {osClock, osClock + 1} \cap Times /\ UNCHANGED backSteps
  \/ /\ "timer" \in uses
     /\ backSteps < MaxBackSteps /\ osClock > 1
     /\ osClock' = osClock - 1 /\ backSteps' = backSteps + 1

UpdateMicrosecondClock ==
  /\ ReadClock
  /\ utcMicrosecondClock' = IF osClock' >= utcMicrosecondClock THEN osClock'
                                                             ELSE utcMicrosecondClock

Heartbeat ==
  /\ beat = "asleep"
  /\ UpdateMicrosecondClock
  /\ beat' = IF checkSemaphore THEN "probing" ELSE "forcing"
  /\ UNCHANGED <<stackLimit, pageLimit, thePage, hit>>

\* checkForLongRunningPrimitive: does the method the last beat found still run?
ProbeMethod ==
  /\ beat = "probing"
  /\ beat' = IF startUsecs > 0 /\ checkMethod = newMethod THEN "comparing" ELSE "missed"
  /\ ranLong' = (ranLong \/ (sampled /\ checkMethod = newMethod))
  /\ UNCHANGED <<stackLimit, pageLimit, thePage, clock, startUsecs, stopUsecs,
                 checkMethod, sameSequence, sampled>>

\* The sequence number is not compared.
BugNoSequence ==
  /\ beat = "comparing"
  /\ beat' = "stopping"
  /\ UNCHANGED <<stackLimit, pageLimit, thePage, clock, hit>>

\* ... and were no events checked since?
ProbeSequence ==
  /\ beat = "comparing"
  /\ beat' = IF sameSequence THEN "stopping" ELSE "missed"
  /\ UNCHANGED <<stackLimit, pageLimit, thePage, clock, hit>>

ProbeStop ==
  /\ beat = "stopping"
  /\ beat' = "forcing"
  /\ stopUsecs' = utcMicrosecondClock
  /\ UNCHANGED <<stackLimit, pageLimit, thePage, clock, startUsecs, checkMethod,
                 sameSequence, sampled, ranLong>>

\* Unless there is a hit already, what runs now is what the next beat looks for: its sequence
\* number, then its method, then the time.
ProbeStart ==
  /\ \/ /\ beat = "missed" /\ stopUsecs = 0
        /\ beat' = "sampling"
        /\ sameSequence' = TRUE
        /\ UNCHANGED <<checkMethod, sampled, ranLong, startUsecs>>
     \/ /\ beat = "missed" /\ stopUsecs # 0
        /\ beat' = "forcing"
        /\ UNCHANGED <<sameSequence, checkMethod, sampled, ranLong, startUsecs>>
     \/ /\ beat = "sampling"
        /\ beat' = "starting"
        /\ checkMethod' = newMethod
        /\ sampled' = TRUE /\ ranLong' = FALSE
        /\ UNCHANGED <<sameSequence, startUsecs>>
     \/ /\ beat = "starting"
        /\ beat' = "forcing"
        /\ startUsecs' = utcMicrosecondClock
        /\ UNCHANGED <<sameSequence, checkMethod, sampled, ranLong>>
  /\ UNCHANGED <<stackLimit, pageLimit, thePage, clock, stopUsecs>>

\* forceInterruptCheck: the page in use is read, its limit smashed, ...
ReadPage ==
  /\ beat = "forcing"
  /\ beat' = "smashing"
  /\ thePage' = stackPage
  /\ UNCHANGED <<stackLimit, pageLimit, clock, hit>>

SmashPage ==
  /\ beat = "smashing"
  /\ beat' = "raising"
  /\ pageLimit' = [pageLimit EXCEPT ![thePage] = Max]
  /\ UNCHANGED <<stackLimit, thePage, clock, hit>>

\* Only the page is smashed.
BugSmashOnly ==
  /\ beat = "raising"
  /\ beat' = "asleep"
  /\ UNCHANGED <<stackLimit, pageLimit, thePage, clock, hit>>

\* ... and the limit the VM thread compares with is raised.
RaiseLimit ==
  /\ beat = "raising"
  /\ beat' = "asleep"
  /\ stackLimit' = Max
  /\ UNCHANGED <<pageLimit, thePage, clock, hit>>

HeartbeatThread ==
  /\ \/ Heartbeat
     \/ ProbeMethod \/ ProbeSequence \/ ProbeStop \/ ProbeStart
     \/ ReadPage \/ SmashPage \/ RaiseLimit
  /\ UNCHANGED <<uses, stackPage, loaded, vm, timers, interruptPending,
                 newMethod, checkSemaphore, signalUndelivered>>

-----------------------------------------------------------------------------
(* The VM thread.  (It leaves alone what VMThread says.)                    *)

\* Between two sends
Interpreting == vm = "interpreting"

\* The limit of the page the VM thread leaves is what it goes on with.
BugStaleLimit ==
  \/ /\ Interpreting /\ "pages" \in uses
     /\ vm' = "switching"
     /\ \E p \in StackPages : p # stackPage /\ stackPage' = p
     /\ UNCHANGED <<stackLimit, pageLimit, loaded>>
  \/ /\ vm = "switching"
     /\ vm' = "interpreting"
     /\ UNCHANGED limits

\* setStackPageAndLimit: the page is stored; unless stackLimit is raised, the limit of the page
\* is read, then stored.
SwitchPage ==
  \/ /\ Interpreting /\ "pages" \in uses
     /\ vm' = "switching"
     /\ \E p \in StackPages : p # stackPage /\ stackPage' = p
     /\ UNCHANGED <<stackLimit, pageLimit, loaded>>
  \/ /\ vm = "switching"
     /\ IF stackLimit = Max THEN vm' = "interpreting" /\ UNCHANGED loaded
                            ELSE vm' = "copying" /\ loaded' = pageLimit[stackPage]
     /\ UNCHANGED <<stackPage, stackLimit, pageLimit>>
  \/ /\ vm = "copying"
     /\ vm' = "interpreting"
     /\ stackLimit' = loaded
     /\ UNCHANGED <<stackPage, pageLimit, loaded>>

\* handleStackOverflowOrEvent: a limit that is not the page's own asks for a check.
StartCheck ==
  /\ Interpreting
  /\ stackLimit # stackPage
  /\ vm' = "restoring"
  /\ sameSequence' = FALSE
  /\ sampled' = FALSE

\* The limit read last is given back to the page in use.
BugRestoreLoaded ==
  \/ /\ vm = "restoring"
     /\ vm' = "storing"
     /\ pageLimit' = [pageLimit EXCEPT ![stackPage] = loaded]
     /\ UNCHANGED <<stackPage, stackLimit, loaded>>
  \/ /\ vm = "storing"
     /\ vm' = "checking"
     /\ stackLimit' = loaded
     /\ UNCHANGED <<stackPage, pageLimit, loaded>>

\* restoreStackLimit
RestoreLimit ==
  \/ /\ vm = "restoring"
     /\ vm' = "reloading"
     /\ pageLimit' = [pageLimit EXCEPT ![stackPage] = stackPage]
     /\ UNCHANGED <<stackPage, stackLimit, loaded>>
  \/ /\ vm = "reloading"
     /\ vm' = "storing"
     /\ loaded' = pageLimit[stackPage]
     /\ UNCHANGED <<stackPage, stackLimit, pageLimit>>
  \/ /\ vm = "storing"
     /\ vm' = "checking"
     /\ stackLimit' = loaded
     /\ UNCHANGED <<stackPage, pageLimit, loaded>>

\* The activation of a method that may not be interrupted ends the check at once.
EndEarly ==
  /\ vm = "checking"
  /\ vm' = "interpreting"

\* A hit of the long running primitive check is delivered once; the time is read.
GoOn ==
  /\ vm = "checking"
  /\ signalUndelivered' = (signalUndelivered /\ ~(stopUsecs > startUsecs /\ checkSemaphore))
  /\ now' = utcMicrosecondClock
  /\ vm' = IF now' >= nextPollUsecs THEN "polling" ELSE "answering"

\* The VM thread's own forceInterruptCheck
ForceInterruptCheck ==
  /\ pageLimit' = [pageLimit EXCEPT ![stackPage] = Max]
  /\ stackLimit' = Max
  /\ UNCHANGED <<stackPage, loaded>>

\* ioProcessEvents, within the check or within a primitive such as ioGetNextEvent, meets the
\* interrupt key: setInterruptPending.  (The other events are in InputEvents.)
InterruptKey ==
  /\ vm = "polling" \/ Interpreting
  /\ "interrupt" \in uses
  /\ ForceInterruptCheck
  /\ interruptPending' = TRUE

EndPoll ==
  /\ vm = "polling"
  /\ vm' = "answering"
  /\ nextPollUsecs' = now + PollUsecs

\* The timer sounds at its very time only.
BugExactTime ==
  /\ vm = "answering"
  /\ vm' = "interpreting"
  /\ interruptPending' = FALSE
  /\ LET due == nextWakeupUsecs # 0 /\ now = nextWakeupUsecs
     IN nextWakeupUsecs' = IF due THEN 0 ELSE nextWakeupUsecs
  /\ now' = 0

\* The rest of the check: the interrupt and timer semaphores are signalled.
Answer ==
  /\ vm = "answering"
  /\ vm' = "interpreting"
  /\ interruptPending' = FALSE
  /\ LET due == nextWakeupUsecs # 0 /\ now >= nextWakeupUsecs
     IN nextWakeupUsecs' = IF due THEN 0 ELSE nextWakeupUsecs
  /\ now' = 0

\* primitiveSignalAtMilliseconds, primitiveSignalAtUTCMicroseconds: set, or turned off
SignalAt(t) ==
  /\ Interpreting /\ "timer" \in uses
  /\ nextWakeupUsecs' = t

\* A method or a primitive is called.
Send(m) ==
  /\ Interpreting /\ "probe" \in uses
  /\ m # newMethod
  /\ newMethod' = m

\* primitiveLongRunningPrimitive, which answers a hit, and the primitive that gives the check a
\* semaphore or takes it away: both void it.
StartVoiding ==
  /\ Interpreting /\ "probe" \in uses
  /\ vm' = "voiding_method"
  /\ checkSemaphore' \in BOOLEAN

\* voidLongRunningPrimitive.  (It means to clear the sequence number, and compares it.)
VoidProbe ==
  \/ /\ vm = "voiding_method" /\ vm' = "voiding_stop"
     /\ checkMethod' = NoMethod /\ ranLong' = FALSE
     /\ UNCHANGED <<stopUsecs, startUsecs, signalUndelivered>>
  \/ /\ vm = "voiding_stop" /\ vm' = "voiding_start"
     /\ stopUsecs' = 0
     /\ UNCHANGED <<ranLong, checkMethod, startUsecs, signalUndelivered>>
  \/ /\ vm = "voiding_start" /\ vm' = "interpreting"
     /\ startUsecs' = 0 /\ signalUndelivered' = TRUE
     /\ UNCHANGED <<ranLong, checkMethod, stopUsecs>>

VMThread ==
  /\ \/ /\ SwitchPage \/ RestoreLimit
        /\ UNCHANGED <<timers, interruptPending, probe>>
     \/ StartCheck /\ UNCHANGED <<limits, timers, interruptPending, newMethod, startUsecs,
                                  stopUsecs, checkMethod, checkSemaphore, signalUndelivered,
                                  ranLong>>
     \/ EndEarly /\ UNCHANGED <<limits, timers, interruptPending, probe>>
     \/ GoOn /\ UNCHANGED <<limits, nextPollUsecs, nextWakeupUsecs, interruptPending,
                            newMethod, checkSemaphore, hit>>
     \/ InterruptKey /\ UNCHANGED <<vm, timers, probe>>
     \/ EndPoll /\ UNCHANGED <<limits, now, nextWakeupUsecs, interruptPending, probe>>
     \/ Answer /\ UNCHANGED <<limits, nextPollUsecs, probe>>
     \/ /\ \E t \in Times : SignalAt(t)
        /\ UNCHANGED <<vm, limits, now, nextPollUsecs, interruptPending, probe>>
     \/ /\ \E m \in Methods : Send(m)
        /\ UNCHANGED <<vm, limits, timers, interruptPending, checkSemaphore,
                       signalUndelivered, hit>>
     \/ StartVoiding /\ UNCHANGED <<limits, timers, interruptPending, newMethod,
                                    signalUndelivered, hit>>
     \/ VoidProbe /\ UNCHANGED <<limits, timers, interruptPending, newMethod, checkSemaphore,
                                 sameSequence, sampled>>
  /\ UNCHANGED <<uses, beat, thePage, clock>>

Next == HeartbeatThread \/ VMThread

\* The threads and the clock go on.  The heartbeat does not hit for ever the few instructions
\* in which the VM thread overwrites a raised limit, and not every check is for a method that
\* must not be interrupted: between the beats, other methods are called.
Fairness ==
  /\ SF_vars(HeartbeatThread /\ osClock' > osClock)
  /\ WF_vars(HeartbeatThread)
  /\ SF_vars(RaiseLimit /\ vm = "interpreting" /\ HeartbeatThread)
  /\ WF_vars(vm # "interpreting" /\ VMThread /\ vm' # vm)
  /\ SF_vars(StartCheck /\ VMThread)
  /\ SF_vars(GoOn /\ VMThread)

Spec == Init /\ [][Next]_vars /\ Fairness

-----------------------------------------------------------------------------
(* Properties                                                               *)

\* While the VM thread interprets it compares with the limit of the page it is on, or with one
\* that makes it check; a limit left over from another page would let the stack overflow.
LimitIsCurrent == vm = "interpreting" => stackLimit \in {stackPage, Max}

\* An interrupt key reaches the image, however the heartbeat, changes of page and checks that
\* are cut short come in between.
InterruptsAreAnswered == interruptPending ~> ~interruptPending

\* A timer sounds, is set to another time or turned off, with the operating system's clock
\* set back now and then.
TimersSound == \A t \in Times \ {0} : nextWakeupUsecs = t ~> nextWakeupUsecs # t

\* A hit that the image can read is of a method that two beats found running with no event
\* check in between, although the heartbeat writes it beside the VM thread's voiding it.
HitsAreTrue ==
  vm = "interpreting" /\ stopUsecs > startUsecs /\ checkMethod # NoMethod
    => ranLong
=============================================================================

------------------------ MODULE ProcessSynchronisation ------------------------
(***************************************************************************)
(* What Smalltalk's processes are promised by semaphores and critical      *)
(* sections, whichever of the ready processes happens to run: signals are  *)
(* counted, waiters are served in the order they came, and a section is    *)
(* handed from its owner to the first waiter.                              *)
(***************************************************************************)
EXTENDS Integers, Sequences

CONSTANTS Processes, Semaphores, CriticalSections, Nil

VARIABLES
  ready,      \* processes that run or could run
  waiters,    \* per semaphore or section, in order
  signals,    \* signals a semaphore holds
  holder      \* the owner of a section

syncVars == <<ready, waiters, signals, holder>>

Init ==
  /\ ready \subseteq Processes
  /\ waiters = [w \in Semaphores \cup CriticalSections |-> <<>>]
  /\ signals = [s \in Semaphores |-> 0]
  /\ holder = [c \in CriticalSections |-> Nil]

Queue(w, p) ==
  /\ p \in ready
  /\ ready' = ready \ {p}
  /\ waiters' = [waiters EXCEPT ![w] = Append(@, p)]

ServeFirst(w) ==
  /\ waiters[w] # <<>>
  /\ ready' = ready \cup {Head(waiters[w])}
  /\ waiters' = [waiters EXCEPT ![w] = Tail(@)]

Signal(s) ==
  \/ ServeFirst(s) /\ UNCHANGED <<signals, holder>>
  \/ /\ waiters[s] = <<>>
     /\ signals' = [signals EXCEPT ![s] = @ + 1]
     /\ UNCHANGED <<ready, waiters, holder>>

Wait(s, p) ==
  \/ signals[s] = 0 /\ Queue(s, p) /\ UNCHANGED <<signals, holder>>
  \/ /\ p \in ready
     /\ signals[s] > 0
     /\ signals' = [signals EXCEPT ![s] = @ - 1]
     /\ UNCHANGED <<ready, waiters, holder>>

Enter(c, p) ==
  \/ holder[c] \notin {Nil, p} /\ Queue(c, p) /\ UNCHANGED <<signals, holder>>
  \/ /\ p \in ready
     /\ holder[c] = Nil
     /\ holder' = [holder EXCEPT ![c] = p]
     /\ UNCHANGED <<ready, waiters, signals>>

Exit(c, p) ==
  /\ p \in ready
  /\ holder[c] = p
  /\ \/ /\ ServeFirst(c)
        /\ holder' = [holder EXCEPT ![c] = Head(waiters[c])]
     \/ /\ waiters[c] = <<>>
        /\ holder' = [holder EXCEPT ![c] = Nil]
        /\ UNCHANGED <<ready, waiters>>
  /\ UNCHANGED signals

\* A process is suspended while it is ready, and made ready again.
Suspend(p) ==
  /\ p \in ready
  /\ ready' = ready \ {p}
  /\ UNCHANGED <<waiters, signals, holder>>

Resume(p) ==
  /\ p \notin ready
  /\ \A w \in DOMAIN waiters : \A k \in DOMAIN waiters[w] : waiters[w][k] # p
  /\ ready' = ready \cup {p}
  /\ UNCHANGED <<waiters, signals, holder>>

Next ==
  \E p \in Processes :
    \/ Suspend(p)
    \/ Resume(p)
    \/ \E s \in Semaphores : Signal(s) \/ Wait(s, p)
    \/ \E c \in CriticalSections : Enter(c, p) \/ Exit(c, p)

Spec == Init /\ [][Next]_syncVars
=============================================================================

---------------------------- MODULE SignalPromise ----------------------------
(***************************************************************************)
(* What platforms/Cross/vm/sqExternalSemaphores.c promises its callers:    *)
(* every request to signal an external semaphore is answered by one signal *)
(* of that semaphore, no more and, in the end, no less.                    *)
(***************************************************************************)
EXTENDS Naturals

CONSTANTS
  Indices,      \* indices of external semaphores
  Deliverable   \* those that the image has a semaphore for

VARIABLES requested, delivered

promiseVars == <<requested, delivered>>

Init ==
  /\ requested = [i \in Indices |-> 0]
  /\ delivered = [i \in Indices |-> 0]

Request(i) ==
  /\ requested' = [requested EXCEPT ![i] = @ + 1]
  /\ UNCHANGED delivered

Deliver(i) ==
  /\ delivered[i] < requested[i]
  /\ delivered' = [delivered EXCEPT ![i] = @ + 1]
  /\ UNCHANGED requested

Next == \E i \in Indices : Request(i) \/ Deliver(i)

Safe == Init /\ [][Next]_promiseVars

\* No semaphore is left waiting for a signal that was requested.
Spec == Safe /\ \A i \in Deliverable : WF_promiseVars(Deliver(i))
=============================================================================

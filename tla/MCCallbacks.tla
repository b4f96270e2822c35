------------------------------ MODULE MCCallbacks ------------------------------
(* Callbacks for TLC: the idle process, workers, a semaphore, a section. *)
EXTENDS Callbacks, TLC

CONSTANTS idle, p1, p2, p3, s1, section

Symmetry == Permutations(Processes \ {IdleProcess})
=============================================================================

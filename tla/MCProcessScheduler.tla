------------------------- MODULE MCProcessScheduler -------------------------
(* ProcessScheduler for TLC: the idle process, workers, semaphores and one   *)
(* critical section.                                                          *)
EXTENDS ProcessScheduler, TLC

CONSTANTS idle, p1, p2, p3, s1, s2, section

Symmetry == Permutations(Processes \ {IdleProcess}) \cup Permutations(Semaphores)
=============================================================================

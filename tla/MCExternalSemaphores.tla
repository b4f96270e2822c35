------------------------ MODULE MCExternalSemaphores ------------------------
(* Small instances of ExternalSemaphores for TLC. *)
EXTENDS ExternalSemaphores, TLC

CONSTANTS r1, r2

\* Requestors are interchangeable (used where no liveness is checked).
Symmetry == Permutations(Requestors)
=============================================================================

------------------------------ MODULE MCSockets -------------------------------
(* Sockets for TLC.                                                         *)
EXTENDS Sockets, TLC

CONSTANTS a, b

Symmetry == Permutations({a, b})
=============================================================================

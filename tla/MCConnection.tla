---------------------------- MODULE MCConnection ----------------------------
(* Instance of Connection for TLC. *)
EXTENDS Connection, TLC

CONSTANTS c1, c2

Symmetry == Permutations(Caller)
=============================================================================

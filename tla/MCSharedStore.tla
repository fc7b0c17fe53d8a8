---------------------------- MODULE MCSharedStore ----------------------------
(* A small instance of SharedStore for TLC. *)
EXTENDS SharedStore, TLC

CONSTANTS p1, p2, b1, b2

ProcessSymmetry == Permutations(Appenders)
=============================================================================

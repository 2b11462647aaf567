-------------------------- MODULE MCCommandSession --------------------------
(* Instance of CommandSession for TLC: the bounds are in the .cfg files. *)
EXTENDS CommandSession, TLC

CONSTANTS a, q, r, c1, c2

ConnSymmetry == Permutations(Conns)
=============================================================================

----------------------- MODULE MCCommandSessionHazards -----------------------
(* Instances of CommandSessionHazards for TLC: the bounds are in the .cfg files. *)
EXTENDS CommandSessionHazards

CONSTANTS a, b, q, c1, c2
=============================================================================

--------------------------- MODULE MCEventSession ---------------------------
(* Instance of EventSession for TLC: the bounds are in the .cfg files. *)
EXTENDS EventSession

CONSTANTS c1, c2
=============================================================================

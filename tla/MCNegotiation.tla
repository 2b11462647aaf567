---------------------------- MODULE MCNegotiation ----------------------------
(* Instance of Negotiation for TLC: the bounds are in the .cfg file. *)
EXTENDS Negotiation
=============================================================================

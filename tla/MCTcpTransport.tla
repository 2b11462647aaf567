--------------------------- MODULE MCTcpTransport ---------------------------
(* Instance of TcpTransport for TLC: two owners; the bounds are in the .cfg file. *)
EXTENDS TcpTransport

CONSTANTS o1, o2
=============================================================================

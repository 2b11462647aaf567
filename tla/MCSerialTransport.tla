-------------------------- MODULE MCSerialTransport --------------------------
(* Instance of SerialTransport for TLC: the bounds are in the .cfg files. *)
EXTENDS SerialTransport

CONSTANTS a, b, r

(* Every call is about something else. *)
OwnTopic == [s \in Calls |-> s]
=============================================================================

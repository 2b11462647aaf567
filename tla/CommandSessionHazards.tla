------------------------ MODULE CommandSessionHazards ------------------------
(***************************************************************************)
(* Two behaviours of OWNCommandSession that CommandSession keeps apart,    *)
(* each under a specification of its own: a send() cancelled while it is   *)
(* inside its own connect(), and close() as the last thing the consumer    *)
(* does.                                                                   *)
(***************************************************************************)
EXTENDS CommandSession

VARIABLE torn   \* the consumer's final close() has returned

(* send() awaits connect() outside the try statement whose handler closes   *)
(* the session on CancelledError: a cancellation there releases the lock    *)
(* and leaves the streams as they are.                                      *)
CancelConnecting(s) ==
  /\ pc[s] \in {"opening", "shaking"}
  /\ Return(s, "unknown")
  /\ reader' = [reader EXCEPT ![s] = NoConn]
  /\ UNCHANGED <<closer, try, got, left, stream, connected, cooldown, wireVars>>

CancelSpec ==
  /\ Init /\ torn = FALSE
  /\ [][(Next \/ \E s \in Calls : CancelConnecting(s)) /\ UNCHANGED torn]_<<vars, torn>>

(* After the consumer's final close() it starts nothing: no new call, no    *)
(* connect(), and the calls queued on the lock are not served.              *)
TeardownSpec ==
  /\ Init /\ torn = FALSE
  /\ [][/\ Next
        /\ torn' = (torn \/ (closer = "closing" /\ closer' = "idle"))
        /\ torn => \A p \in Tasks : pc[p] \in {"idle", "waiting"} => pc'[p] = pc[p]
       ]_<<vars, torn>>

(* "This is the explicit teardown: the socket is released and the session   *)
(* is no longer connected" (OWNSession.close): once the final close() has   *)
(* returned, the session holds no socket.                                   *)
ClosedStaysClosed == torn => stream = NoConn
=============================================================================

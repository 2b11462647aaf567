---------------------------- MODULE EventSession ----------------------------
(***************************************************************************)
(* One OWNEventSession and the three tasks that touch it:                  *)
(*   - the listener of AsyncTcpTransport: connect(), then get_next() in a  *)
(*     loop that reconnects after any loss and pauses between cycles of a  *)
(*     connect() that gave up;                                             *)
(*   - the keepalive task, started by each connect() that succeeds and     *)
(*     stopped by whatever releases the socket;                            *)
(*   - the task that calls disconnect(): it stops, cancels and awaits the  *)
(*     listener, then close()s the session.                                *)
(* Each action is the code a task runs from one await to the next; an      *)
(* await that only sometimes suspends is taken to suspend.  A negotiation  *)
(* is one step here, with the outcomes module Negotiation derives.  Sleeps *)
(* and time limits are abstracted: one may end whenever the task waits.    *)
(***************************************************************************)
EXTENDS Naturals

CONSTANTS Conns,               \* TCP connections; a closed one may be used again
          NoConn,
          MaxConnectAttempts   \* MAX_CONNECT_ATTEMPTS

ASSUME EventSessionAssumption ==
  NoConn \notin Conns /\ MaxConnectAttempts \in Nat \ {0}

(* Configuration: a gateway that will accept the credentials, a profile     *)
(* with an event keepalive, and raise_on_auth_error.                        *)
VARIABLES credentials, probing, raising

VARIABLES
  pc,         \* where the listener is suspended
  found,      \* what get_next() found when it was called; "first": not called yet
  retries,    \* retry_count of connect()
  verdict,    \* what the last attempt of connect() came to
  unpaused,   \* get_next()'s reconnections that failed since one succeeded or it paused
  stream,     \* _stream_reader / _stream_writer
  connected,  \* _connected
  task,       \* _keepalive_task, named by the connection it was started for
  keepalive,  \* the state of each such task
  closer,     \* where disconnect() is suspended
  cancelled,  \* the listener has been cancelled and has not noticed yet
  sock,       \* client end of each connection
  peer,       \* gateway end of each connection
  world       \* whether the gateway can be reached

config  == <<credentials, probing, raising>>
session == <<found, retries, verdict, unpaused, stream, connected>>
tasks   == <<task, keepalive>>
wire    == <<sock, peer>>
vars    == <<config, pc, session, tasks, closer, cancelled, wire, world>>

States   == {"start", "idle", "reading", "unkeeping", "recycling", "opening",
             "shaking", "releasing", "backoff", "pausing", "ended"}
Verdicts == {"none", "success", "transient", "fatal"}
Live     == {"sleeping", "draining", "cancelling"}   \* keepalive tasks not done

TypeOK ==
  /\ credentials \in BOOLEAN /\ probing \in BOOLEAN /\ raising \in BOOLEAN
  /\ pc \in States
  /\ found \in {"first", "stream", "nothing"}
  /\ retries \in 0 .. MaxConnectAttempts
  /\ verdict \in Verdicts
  /\ unpaused \in 0 .. 3
  /\ stream \in Conns \cup {NoConn}
  /\ connected \in BOOLEAN
  /\ task \in Conns \cup {NoConn}
  /\ keepalive \in [Conns -> Live \cup {"none"}]
  /\ closer \in {"idle", "joining", "unkeeping", "closing", "closed"}
  /\ cancelled \in BOOLEAN
  /\ sock \in [Conns -> {"open", "closed"}]
  /\ peer \in [Conns -> {"none", "up", "down"}]
  /\ world \in {"up", "away"}

Init ==
  /\ credentials \in BOOLEAN /\ probing \in BOOLEAN /\ raising \in BOOLEAN
  /\ pc = "start" /\ found = "first"
  /\ retries = 0 /\ verdict = "none" /\ unpaused = 0
  /\ stream = NoConn /\ connected = FALSE
  /\ task = NoConn /\ keepalive = [c \in Conns |-> "none"]
  /\ closer = "idle" /\ cancelled = FALSE
  /\ sock = [c \in Conns |-> "closed"] /\ peer = [c \in Conns |-> "none"]
  /\ world \in {"up", "away"}

-----------------------------------------------------------------------------
(* Helpers. *)

(* Mutant: the streams are forgotten, not closed. *)
ForgetStreams == stream' = NoConn /\ UNCHANGED sock

(* OWNSession._close_streams(). *)
CloseStreams ==
  /\ stream' = NoConn
  /\ sock' = [c \in Conns |-> IF c = stream THEN "closed" ELSE sock[c]]

(* Mutant: the streams are closed under a running keepalive task. *)
KeepKeepalive == UNCHANGED <<task, keepalive>>

(* _stop_keepalive(), up to the await of the cancelled task. *)
StopKeepalive ==
  /\ task' = NoConn
  /\ keepalive' = [c \in Conns |-> IF c = task /\ keepalive[c] # "none"
                                   THEN "cancelling" ELSE keepalive[c]]

(* _close_streams() of the event session, called by the listener.  Without  *)
(* a keepalive task there is nothing to await before the socket.            *)
CloseEventStreams ==
  IF task # NoConn
  THEN pc' = "unkeeping" /\ StopKeepalive /\ UNCHANGED <<stream, sock>>
  ELSE pc' = "recycling" /\ CloseStreams /\ UNCHANGED tasks

(* The await of the cancelled task is over. *)
KeepaliveStopped == \A c \in Conns : keepalive[c] # "cancelling"

(* A connection that is nobody's. *)
Free(c) == sock[c] = "closed" /\ keepalive[c] = "none"

-----------------------------------------------------------------------------
(* get_next(), called in the listener's loop. *)

(* The owner of the session connects it first. *)
Connect ==
  /\ pc = "start" /\ ~cancelled
  /\ pc' = "opening"
  /\ retries' = 0
  /\ UNCHANGED <<config, found, verdict, unpaused, stream, connected, tasks, closer,
                 cancelled, wire, world>>

(* Mutant: the listener's loop does not look at _stopping. *)
GetNextForever ==
  /\ pc = "idle"
  /\ IF stream # NoConn
     THEN pc' = "reading" /\ found' = "stream" /\ UNCHANGED <<tasks, stream, sock>>
     ELSE CloseEventStreams /\ found' = "nothing"
  /\ UNCHANGED <<config, retries, verdict, unpaused, connected, closer, cancelled, peer, world>>

(* Mutant: get_next() without a stream returns at once. *)
GetNextNothing ==
  /\ pc = "idle"
  /\ IF closer # "idle" THEN pc' = "ended" /\ UNCHANGED found
     ELSE /\ stream # NoConn
          /\ pc' = "reading" /\ found' = "stream"
  /\ UNCHANGED <<config, retries, verdict, unpaused, stream, connected, tasks, closer,
                 cancelled, wire, world>>

(* The loop ends once stopped.  get_next() on an open session reads;        *)
(* without a stream it reconnects.                                          *)
GetNext ==
  /\ pc = "idle"
  /\ IF closer # "idle"
     THEN pc' = "ended" /\ UNCHANGED <<found, tasks, stream, sock>>
     ELSE IF stream # NoConn
     THEN pc' = "reading" /\ found' = "stream" /\ UNCHANGED <<tasks, stream, sock>>
     ELSE CloseEventStreams /\ found' = "nothing"
  /\ UNCHANGED <<config, retries, verdict, unpaused, connected, closer, cancelled, peer, world>>

(* A frame arrives; one that cannot be parsed is returned all the same. *)
ReadFrame ==
  /\ pc = "reading" /\ ~cancelled
  /\ sock[stream] = "open" /\ peer[stream] = "up"
  /\ pc' = "idle"
  /\ UNCHANGED <<config, session, tasks, closer, cancelled, wire, world>>

(* The read fails (end of file, reset, oversized frame) or nothing came for *)
(* the inactivity timeout: _reconnect().                                    *)
ReadFails ==
  /\ pc = "reading" /\ ~cancelled
  /\ CloseEventStreams
  /\ UNCHANGED <<config, found, retries, verdict, unpaused, connected, closer, cancelled,
                 peer, world>>

(* The rest of _close_streams().  A cancellation of the listener that came  *)
(* while it awaited the keepalive task is suppressed with the task's own.   *)
Recycle ==
  /\ pc = "unkeeping" /\ KeepaliveStopped
  /\ pc' = "recycling"
  /\ CloseStreams
  /\ cancelled' = FALSE
  /\ UNCHANGED <<config, found, retries, verdict, unpaused, connected, tasks, closer,
                 peer, world>>

(* The socket is closed: connect(). *)
Recycled ==
  /\ pc = "recycling" /\ ~cancelled
  /\ pc' = "opening"
  /\ retries' = 0
  /\ UNCHANGED <<config, found, verdict, unpaused, stream, connected, tasks, closer,
                 cancelled, wire, world>>

-----------------------------------------------------------------------------
(* connect(). *)

OpenOk ==
  /\ pc = "opening" /\ ~cancelled
  /\ world = "up"
  /\ \E c \in Conns :
       /\ Free(c)
       /\ stream' = c
       /\ sock' = [sock EXCEPT ![c] = "open"]
       /\ peer' = [peer EXCEPT ![c] = "up"]
  /\ pc' = "shaking"
  /\ UNCHANGED <<config, found, retries, verdict, unpaused, connected, tasks, closer,
                 cancelled, world>>

OpenFails ==
  /\ pc = "opening" /\ ~cancelled
  /\ world = "away"
  /\ pc' = "releasing"
  /\ verdict' = "transient" /\ retries' = retries + 1
  /\ CloseStreams
  /\ UNCHANGED <<config, found, unpaused, connected, tasks, closer, cancelled, peer, world>>

(* The session is negotiated: super().connect() returns, the keepalive is   *)
(* started and get_next() returns None.                                     *)
Established ==
  /\ pc = "shaking" /\ ~cancelled
  /\ credentials /\ peer[stream] = "up"
  /\ pc' = "idle"
  /\ verdict' = "success" /\ unpaused' = 0
  /\ connected' = TRUE
  /\ IF probing
     THEN /\ task' = stream
          /\ keepalive' = [keepalive EXCEPT ![stream] = "sleeping"]
     ELSE UNCHANGED tasks
  /\ UNCHANGED <<config, found, retries, stream, closer, cancelled, wire, world>>

(* The gateway rejects the credentials: no other attempt is made. *)
Rejected ==
  /\ pc = "shaking" /\ ~cancelled
  /\ ~credentials /\ peer[stream] = "up"
  /\ pc' = "releasing"
  /\ verdict' = "fatal" /\ connected' = FALSE
  /\ CloseStreams
  /\ UNCHANGED <<config, found, retries, unpaused, tasks, closer, cancelled, peer, world>>

(* The connection is lost, or the gateway too slow, half-way. *)
ShakeFails ==
  /\ pc = "shaking" /\ ~cancelled
  /\ peer[stream] = "down" \/ world = "away"
  /\ pc' = "releasing"
  /\ verdict' = "transient" /\ retries' = retries + 1
  /\ CloseStreams
  /\ UNCHANGED <<config, found, unpaused, connected, tasks, closer, cancelled, peer, world>>

(* A frame of the negotiation that is no UTF-8 text, or has no end: the     *)
(* exception goes through connect() and get_next(), and ends the listener.  *)
ShakeCrashes ==
  /\ pc = "shaking" /\ ~cancelled
  /\ peer[stream] = "up"
  /\ pc' = "ended"
  /\ UNCHANGED <<config, session, tasks, closer, cancelled, wire, world>>

(* Mutant: one attempt too many. *)
BackOffOnce ==
  /\ pc = "releasing" /\ ~cancelled
  /\ verdict = "transient" /\ retries <= MaxConnectAttempts
  /\ pc' = "backoff"
  /\ UNCHANGED <<config, session, tasks, closer, cancelled, wire, world>>

(* The streams of a failed attempt are released: back off, or return.       *)
BackOff ==
  /\ pc = "releasing" /\ ~cancelled
  /\ verdict = "transient" /\ retries < MaxConnectAttempts
  /\ pc' = "backoff"
  /\ UNCHANGED <<config, session, tasks, closer, cancelled, wire, world>>

TryAgain ==
  /\ pc = "backoff" /\ ~cancelled
  /\ pc' = "opening"
  /\ UNCHANGED <<config, session, tasks, closer, cancelled, wire, world>>

(* Mutant: get_next() returns at once from a reconnection that failed. *)
ConnectFailedNoPause ==
  /\ pc = "releasing" /\ ~cancelled
  /\ verdict = "fatal" \/ retries = MaxConnectAttempts
  /\ connected' = FALSE
  /\ unpaused' = IF found # "first" /\ unpaused < 3 THEN unpaused + 1 ELSE unpaused
  /\ pc' = IF raising /\ verdict = "fatal" THEN "ended" ELSE "idle"
  /\ UNCHANGED <<config, found, retries, verdict, stream, tasks, closer, cancelled,
                 wire, world>>

(* connect() returns without a stream.  get_next() raises the error of a    *)
(* rejected password if asked to, pauses if it had found no stream either,  *)
(* and returns None otherwise.  (unpaused is the model's, capped at 3.)     *)
ConnectFailed ==
  /\ pc = "releasing" /\ ~cancelled
  /\ verdict = "fatal" \/ retries = MaxConnectAttempts
  /\ connected' = FALSE
  /\ unpaused' = IF found # "first" /\ unpaused < 3 THEN unpaused + 1 ELSE unpaused
  /\ pc' = IF raising /\ verdict = "fatal" /\ found # "first" THEN "ended"
           ELSE IF found = "nothing" THEN "pausing" ELSE "idle"
  /\ UNCHANGED <<config, found, retries, verdict, stream, tasks, closer, cancelled,
                 wire, world>>

Pause ==
  /\ pc = "pausing" /\ ~cancelled
  /\ pc' = "idle" /\ unpaused' = 0
  /\ UNCHANGED <<config, found, retries, verdict, stream, connected, tasks, closer,
                 cancelled, wire, world>>

(* CancelledError at any other await ends the listener where it stands.     *)
Cancelled ==
  /\ cancelled /\ pc \notin {"idle", "unkeeping", "ended"}
  /\ pc' = "ended"
  /\ cancelled' = FALSE
  /\ UNCHANGED <<config, session, tasks, closer, wire, world>>

-----------------------------------------------------------------------------
(* _keepalive_loop() of the task started for connection c. *)

(* The interval is over: the frame goes to whatever stream the session has. *)
KeepaliveTick(c) ==
  /\ keepalive[c] = "sleeping"
  /\ keepalive' = [keepalive EXCEPT ![c] = IF stream = NoConn THEN "none" ELSE "draining"]
  /\ UNCHANGED <<config, pc, session, task, closer, cancelled, wire, world>>

KeepaliveSent(c) ==
  /\ keepalive[c] = "draining"
  /\ keepalive' = [keepalive EXCEPT ![c] = "sleeping"]
  /\ UNCHANGED <<config, pc, session, task, closer, cancelled, wire, world>>

(* drain() fails: the session's writer is closed, whichever it is by now.   *)
KeepaliveFails(c) ==
  /\ keepalive[c] = "draining" /\ (peer[c] = "down" \/ sock[c] = "closed")
  /\ keepalive' = [keepalive EXCEPT ![c] = "none"]
  /\ sock' = [d \in Conns |-> IF d = stream THEN "closed" ELSE sock[d]]
  /\ UNCHANGED <<config, pc, session, task, closer, cancelled, peer, world>>

KeepaliveCancelled(c) ==
  /\ keepalive[c] = "cancelling"
  /\ keepalive' = [keepalive EXCEPT ![c] = "none"]
  /\ UNCHANGED <<config, pc, session, task, closer, cancelled, wire, world>>

-----------------------------------------------------------------------------
(* AsyncTcpTransport.disconnect(). *)

(* _stopping is set and the listener, started by a connect() that has       *)
(* returned, is cancelled.                                                  *)
Disconnect ==
  /\ closer = "idle"
  /\ found # "first" \/ pc \in {"idle", "ended"}
  /\ closer' = "joining"
  /\ cancelled' = (pc # "ended")
  /\ UNCHANGED <<config, pc, session, tasks, wire, world>>

(* Mutant: close() does not wait for the listener. *)
CloseUnjoined ==
  /\ closer = "joining"
  /\ closer' = "unkeeping"
  /\ StopKeepalive
  /\ UNCHANGED <<config, pc, session, cancelled, wire, world>>

(* The listener has ended: close(). *)
Close ==
  /\ closer = "joining" /\ pc = "ended"
  /\ closer' = "unkeeping"
  /\ StopKeepalive
  /\ UNCHANGED <<config, pc, session, cancelled, wire, world>>

CloseSocket ==
  /\ closer = "unkeeping" /\ KeepaliveStopped
  /\ closer' = "closing"
  /\ CloseStreams
  /\ UNCHANGED <<config, pc, found, retries, verdict, unpaused, connected, tasks,
                 cancelled, peer, world>>

Closed ==
  /\ closer = "closing"
  /\ closer' = "closed" /\ connected' = FALSE
  /\ UNCHANGED <<config, pc, found, retries, verdict, unpaused, stream, tasks,
                 cancelled, wire, world>>

-----------------------------------------------------------------------------
(* The gateway and the network (external). *)

(* A connection is dropped; by a gateway that can be reached, only once     *)
(* negotiated (one that has no session left cannot be reached, here).       *)
Drop(c) ==
  /\ sock[c] = "open" /\ peer[c] = "up"
  /\ pc # "shaking" \/ world = "away"
  /\ peer' = [peer EXCEPT ![c] = "down"]
  /\ UNCHANGED <<config, pc, session, tasks, closer, cancelled, sock, world>>

WorldChanges ==
  /\ world' = IF world = "up" THEN "away" ELSE "up"
  /\ UNCHANGED <<config, pc, session, tasks, closer, cancelled, wire>>

-----------------------------------------------------------------------------
Listener ==
  \/ Connect \/ GetNext \/ ReadFrame \/ ReadFails \/ Recycle \/ Recycled
  \/ OpenOk \/ OpenFails \/ Established \/ Rejected \/ ShakeFails \/ ShakeCrashes
  \/ BackOff \/ TryAgain \/ ConnectFailed \/ Pause \/ Cancelled

Keepalive(c) == KeepaliveTick(c) \/ KeepaliveSent(c) \/ KeepaliveFails(c) \/ KeepaliveCancelled(c)

Closer == Disconnect \/ Close \/ CloseSocket \/ Closed

Next ==
  \/ Listener \/ Closer \/ WorldChanges
  \/ \E c \in Conns : Keepalive(c) \/ Drop(c)

Spec == Init /\ [][Next]_vars

(* The event loop runs every task that is ready, every sleep and time limit *)
(* ends, and disconnect(), once called, is resumed.  Nothing obliges the    *)
(* gateway, or anyone to call disconnect().                                 *)
FairSpec ==
  /\ Spec
  /\ WF_vars(Listener)
  /\ WF_vars(Close \/ CloseSocket \/ Closed)
  /\ \A c \in Conns : WF_vars(KeepaliveCancelled(c))

-----------------------------------------------------------------------------
(* Properties. *)

(* A keepalive task never outlives the socket it was started for, so its    *)
(* frames and its close() on a failed drain() can only reach that socket    *)
(* (event_session.py:103-104).                                              *)
KeepaliveFollowsStream == \A c \in Conns : keepalive[c] \in Live => stream = c

(* Every socket still open is the session's: none is lost in a reconnection *)
(* or a cancellation (session.py:507-513).                                  *)
NoLeakedSocket == \A c \in Conns : sock[c] = "open" => stream = c

(* Once disconnect() has returned nothing is left running or open, wherever *)
(* the cancellation found the listener, even where it was suppressed.       *)
ClosedForGood ==
  closer = "closed" =>
    /\ pc = "ended"
    /\ stream = NoConn /\ ~connected
    /\ \A c \in Conns : sock[c] = "closed" /\ keepalive[c] = "none"

(* A gateway that refuses every session sees at most two cycles of connect()*)
(* between two pauses (event_session.py:177-194).                           *)
FloodBounded == unpaused <= 2

(* disconnect() returns, even if the listener's cancellation was suppressed *)
(* while it awaited the keepalive task (event_session.py:80, tcp.py:72, 89).*)
DisconnectReturns == closer = "joining" ~> closer = "closed"

(* As long as the listener runs, a gateway that can be reached again and    *)
(* accepts the credentials is read from again and again.                    *)
Recovers ==
  <>[](world = "up") /\ [](credentials /\ pc # "ended") => []<>(pc = "reading" /\ connected)

(* What session.py:77-82 says of RECONNECT_PAUSE: it comes "before the next *)
(* reconnection cycle when connect() returned without an open stream".      *)
PauseBeforeNextCycle == pc = "opening" /\ retries = 0 => unpaused = 0

(* What session.py:194-196 says of is_connected, "True once a session has   *)
(* been negotiated and not since lost": a listener that has ended by itself *)
(* has lost its session.                                                    *)
ConnectedIsListening == connected /\ closer = "idle" => pc # "ended"

-----------------------------------------------------------------------------
(* The inductive invariant behind the safety properties. *)

(* Where the session has no stream, and so no keepalive task either.        *)
Streamless == {"start", "recycling", "opening", "releasing", "backoff", "pausing"}

(* Who has a stream and a keepalive task, at each await of the listener and *)
(* of disconnect().                                                         *)
StreamInv ==
  /\ pc \in Streamless => stream = NoConn
  /\ pc \in {"reading", "shaking"} => stream # NoConn
  /\ pc \in {"shaking", "unkeeping"} => task = NoConn
  /\ pc = "shaking" => \A c \in Conns : keepalive[c] = "none"
  /\ task \in {NoConn, stream}
  /\ \A c \in Conns : keepalive[c] \in {"sleeping", "draining"} => task = c
  /\ \A c \in Conns : keepalive[c] = "cancelling" => pc = "unkeeping" \/ closer = "unkeeping"

(* close() runs once the listener has ended, and undoes one thing at a time. *)
CloserInv ==
  /\ closer \in {"unkeeping", "closing", "closed"} => pc = "ended" /\ task = NoConn
  /\ closer \in {"closing", "closed"} => stream = NoConn
  /\ closer = "closed" => ~connected

(* Attempts are left wherever one is under way. *)
RetryInv == pc \in {"opening", "shaking", "backoff"} => retries < MaxConnectAttempts

(* What the reconnections since the last pause can amount to, by what       *)
(* get_next() had found: only one that found nothing may be the second.     *)
FloodInv ==
  /\ unpaused <= 2
  /\ pc \notin {"pausing", "ended"} => unpaused <= 1
  /\ found = "first" => unpaused = 0
  /\ found = "stream" /\ pc \notin {"idle", "ended"} => unpaused = 0
  /\ pc = "idle" /\ stream # NoConn => unpaused = 0
  /\ pc = "reading" => found = "stream"

IInv ==
  /\ TypeOK
  /\ KeepaliveFollowsStream /\ NoLeakedSocket
  /\ StreamInv /\ CloserInv /\ RetryInv /\ FloodInv
=============================================================================

--------------------------- MODULE CommandSession ---------------------------
(***************************************************************************)
(* One OWNCommandSession shared by concurrent asyncio tasks:               *)
(*   - calls of send(), serialised by _send_lock, each with at most two    *)
(*     attempts, an in-send single-attempt connect() when the streams are  *)
(*     gone, a cooldown after a failed one, and the rules that decide      *)
(*     when a frame may be written a second time;                          *)
(*   - a consumer task that opens the session with connect(), with         *)
(*     MaxConnectAttempts and a back-off;                                  *)
(*   - a closer task that calls close() at any moment.                     *)
(* Each action is the code a task runs from one await to the next; an      *)
(* await that only sometimes suspends is taken to suspend.  The gateway    *)
(* and the TCP connections are external.  The frames of a negotiation are  *)
(* one exchange here: module Negotiation has them all.  Wall-clock time is *)
(* abstracted: a timeout may fire whenever the task waits, and the         *)
(* cooldown may end at any time.                                           *)
(***************************************************************************)
EXTENDS Naturals, Sequences, FiniteSets

CONSTANTS Calls,               \* invocations of send()
          StatusRequests,      \* those made with is_status_request=True
          Queries,             \* those that are is_idempotent_query
          Refused,             \* those whose frame is invalid or destructive
          Consumer,            \* the task that calls connect()
          Conns,               \* TCP connections, in no particular order
          NoConn, NoCall,
          MaxConnectAttempts   \* MAX_CONNECT_ATTEMPTS

ASSUME CallsAssumption ==
  /\ Queries \subseteq StatusRequests
  /\ StatusRequests \subseteq Calls
  /\ Refused \subseteq Calls
  /\ Consumer \notin Calls
  /\ NoCall \notin Calls
  /\ NoConn \notin Conns
  /\ MaxConnectAttempts \in Nat \ {0}

MaxTries == 2                  \* max_attempts of _locked_send()

Tasks == Calls \cup {Consumer} \* the tasks that can be inside connect()

VARIABLES
  pc,         \* where each task is suspended
  closer,     \* where the close() task is suspended
  lock,       \* the call holding _send_lock
  try,        \* attempt, of each call
  got,        \* whether a call has collected response frames
  outcome,    \* what a call returns (or is about to return)
  left,       \* connection attempts a connect() has left
  reader,     \* the connection whose StreamReader a task waits on
  stream,     \* _stream_reader / _stream_writer
  connected,  \* _connected
  cooldown,   \* _last_reconnect_failure is set and recent
  sock,       \* client end of each TCP connection
  peer,       \* gateway end of each TCP connection
  requests,   \* command frames written and not yet processed by the gateway
  replies,    \* frames the gateway has sent and no task has read
  runs        \* how often the gateway carried out each call's frame

sessionVars == <<lock, try, got, outcome, left, reader, stream, connected, cooldown>>
wireVars    == <<sock, peer, requests, replies, runs>>
vars        == <<pc, closer, sessionVars, wireVars>>

(* A frame to read; "to", the exchange it answers, is not seen by the reader. *)
Frame(kind, to) == [kind |-> kind, to |-> to]

Frames == [kind : {"ack", "nack", "fatal", "data"}, to : Calls \cup {"hello"}]

CallStates    == {"idle", "waiting", "opening", "shaking", "releasing",
                  "reading", "recycling", "closing", "done"}
ConnectStates == {"idle", "opening", "shaking", "releasing", "backoff"}

(* What send() tells its caller of the frame: acknowledged, rejected, not    *)
(* sent (session unavailable), refused locally, or, after a loss, a timeout, *)
(* a cancellation or a crash, that its fate is unknown.                      *)
Outcomes == {"pending", "ok", "nack", "unsent", "refused", "unknown"}

PcOK ==
  /\ pc \in [Tasks -> CallStates \cup ConnectStates]
  /\ \A s \in Calls : pc[s] \in CallStates
  /\ pc[Consumer] \in ConnectStates

TypeOK ==
  /\ PcOK
  /\ closer \in {"idle", "closing"}
  /\ lock \in Calls \cup {NoCall}
  /\ try \in [Calls -> 1 .. MaxTries]
  /\ got \in [Calls -> BOOLEAN]
  /\ outcome \in [Calls -> Outcomes]
  /\ left \in [Tasks -> 0 .. MaxConnectAttempts]
  /\ reader \in [Tasks -> Conns \cup {NoConn}]
  /\ stream \in Conns \cup {NoConn}
  /\ connected \in BOOLEAN
  /\ cooldown \in BOOLEAN
  /\ sock \in [Conns -> {"unused", "open", "closed"}]
  /\ peer \in [Conns -> {"none", "greeting", "up", "refused", "down"}]
  /\ requests \in [Conns -> SUBSET (Calls \X (1 .. MaxTries))]
  /\ replies \in [Conns -> Seq(Frames)]
  /\ runs \in [Calls -> Nat]

Init ==
  /\ pc = [p \in Tasks |-> "idle"]
  /\ closer = "idle"
  /\ lock = NoCall
  /\ try = [s \in Calls |-> 1]
  /\ got = [s \in Calls |-> FALSE]
  /\ outcome = [s \in Calls |-> "pending"]
  /\ left = [p \in Tasks |-> 0]
  /\ reader = [p \in Tasks |-> NoConn]
  /\ stream = NoConn
  /\ connected = FALSE
  /\ cooldown = FALSE
  /\ sock = [c \in Conns |-> "unused"]
  /\ peer = [c \in Conns |-> "none"]
  /\ requests = [c \in Conns |-> {}]
  /\ replies = [c \in Conns |-> <<>>]
  /\ runs = [s \in Calls |-> 0]

-----------------------------------------------------------------------------
(* Helpers shared by the actions. *)

(* _close_streams(): the attributes go to None, whatever connection they    *)
(* hold is closed.                                                          *)
CloseStreams ==
  /\ stream' = NoConn
  /\ sock' = [c \in Conns |-> IF c = stream THEN "closed" ELSE sock[c]]

(* send() returns o to its caller and the lock is released. *)
Return(s, o) ==
  /\ pc' = [pc EXCEPT ![s] = "done"]
  /\ outcome' = [outcome EXCEPT ![s] = o]
  /\ lock' = NoCall

(* Task p stops reading: the frames its StreamReader still holds go with it. *)
LeaveReader(p) ==
  /\ reader' = [reader EXCEPT ![p] = NoConn]
  /\ replies' = [c \in Conns |-> IF c = reader[p] THEN <<>> ELSE replies[c]]

(* An exception handler of send() runs close() and will then return o. *)
CloseAndReturn(s, o) ==
  /\ CloseStreams
  /\ LeaveReader(s)
  /\ pc' = [pc EXCEPT ![s] = "closing"]
  /\ outcome' = [outcome EXCEPT ![s] = o]

(* The frame of call s goes to connection c and the response is awaited. *)
Write(s, c) ==
  /\ requests' = [requests EXCEPT ![c] = @ \cup {<<s, try'[s]>>}]
  /\ pc' = [pc EXCEPT ![s] = "reading"]
  /\ reader' = [reader EXCEPT ![s] = c]

(* The head of the retry loop, up to its first await: fail fast in the      *)
(* cooldown, start a one-attempt connect(), or write on the open session.   *)
Attempt(s) ==
  \/ /\ stream = NoConn /\ cooldown
     /\ Return(s, "unsent")
     /\ reader' = [reader EXCEPT ![s] = NoConn]
     /\ UNCHANGED <<left, requests>>
  \/ /\ stream = NoConn /\ ~cooldown
     /\ pc' = [pc EXCEPT ![s] = "opening"]
     /\ left' = [left EXCEPT ![s] = 1]
     /\ lock' = s
     /\ reader' = [reader EXCEPT ![s] = NoConn]
     /\ UNCHANGED <<outcome, requests>>
  \/ /\ stream # NoConn
     /\ Write(s, stream)
     /\ lock' = s
     /\ UNCHANGED <<outcome, left>>

-----------------------------------------------------------------------------
(* send() and _locked_send(). *)

(* A task calls send() and queues on the lock. *)
Call(s) ==
  /\ pc[s] = "idle"
  /\ pc[Consumer] = "idle"
  /\ pc' = [pc EXCEPT ![s] = "waiting"]
  /\ UNCHANGED <<closer, sessionVars, wireVars>>

(* The caller's task is cancelled while it queues on the lock. *)
CancelWaiting(s) ==
  /\ pc[s] = "waiting"
  /\ pc' = [pc EXCEPT ![s] = "done"]
  /\ outcome' = [outcome EXCEPT ![s] = "unknown"]
  /\ UNCHANGED <<closer, lock, try, got, left, reader, stream, connected, cooldown, wireVars>>

(* The lock is granted to a valid frame: the first attempt starts. *)
Acquire(s) ==
  /\ pc[s] = "waiting"
  /\ lock = NoCall
  /\ s \notin Refused
  /\ try' = [try EXCEPT ![s] = 1]
  /\ Attempt(s)
  /\ UNCHANGED <<closer, got, stream, connected, cooldown, sock, peer, replies, runs>>

(* The lock is granted to a frame that is never written. *)
Refuse(s) ==
  /\ pc[s] = "waiting"
  /\ lock = NoCall
  /\ s \in Refused
  /\ Return(s, "refused")
  /\ UNCHANGED <<closer, try, got, left, reader, stream, connected, cooldown, wireVars>>

(* The reader of call s has a frame for it to consume. *)
Readable(p) == reader[p] # NoConn /\ replies[reader[p]] # <<>>
Next1(p)    == Head(replies[reader[p]]).kind
Consume(p)  == replies' = [replies EXCEPT ![reader[p]] = Tail(@)]

(* A frame that does not end the response: a data frame is collected, other *)
(* signaling is ignored; the next read is bound to the streams of now, and  *)
(* fails on its assertion when they are gone.                               *)
ReadMore(s) ==
  /\ pc[s] = "reading" /\ Readable(s) /\ Next1(s) \in {"data", "fatal"}
  /\ IF stream = NoConn
     THEN /\ CloseAndReturn(s, "unknown")
          /\ got' = [got EXCEPT ![s] = FALSE]
     ELSE /\ Consume(s)
          /\ got' = [got EXCEPT ![s] = @ \/ Next1(s) = "data"]
          /\ reader' = [reader EXCEPT ![s] = stream]
          /\ UNCHANGED <<pc, outcome, stream, sock>>
  /\ UNCHANGED <<closer, lock, try, left, connected, cooldown, peer, requests, runs>>

ReadAck(s) ==
  /\ pc[s] = "reading" /\ Readable(s) /\ Next1(s) = "ack"
  /\ Consume(s)
  /\ Return(s, "ok")
  /\ reader' = [reader EXCEPT ![s] = NoConn]
  /\ got' = [got EXCEPT ![s] = FALSE]
  /\ UNCHANGED <<closer, try, left, stream, connected, cooldown, sock, peer, requests, runs>>

(* Mutant: a second NACK to a command does not end the call. *)
FinalNackUnbounded(s) == got[s] \/ s \in StatusRequests

(* A NACK that ends the call. *)
FinalNack(s) == got[s] \/ s \in StatusRequests \/ try[s] = MaxTries

ReadNack(s) ==
  /\ pc[s] = "reading" /\ Readable(s) /\ Next1(s) = "nack" /\ FinalNack(s)
  /\ Consume(s)
  /\ Return(s, "nack")
  /\ reader' = [reader EXCEPT ![s] = NoConn]
  /\ got' = [got EXCEPT ![s] = FALSE]
  /\ UNCHANGED <<closer, try, left, stream, connected, cooldown, sock, peer, requests, runs>>

(* A NACK to a command, with no data before it: the loop goes round. *)
RetryNack(s) ==
  /\ pc[s] = "reading" /\ Readable(s) /\ Next1(s) = "nack" /\ ~FinalNack(s)
  /\ Consume(s)
  /\ try' = [try EXCEPT ![s] = @ + 1]
  /\ Attempt(s)
  /\ UNCHANGED <<closer, got, stream, connected, cooldown, sock, peer, runs>>

(* End of file or reset on the connection being read: the streams are       *)
(* released before it is decided whether the frame may be sent again.       *)
ConnectionLost(s) ==
  /\ pc[s] = "reading"
  /\ \/ sock[reader[s]] = "closed"
     \/ peer[reader[s]] = "down" /\ replies[reader[s]] = <<>>
  /\ CloseStreams
  /\ LeaveReader(s)
  /\ pc' = [pc EXCEPT ![s] = "recycling"]
  /\ got' = [got EXCEPT ![s] = FALSE]
  /\ UNCHANGED <<closer, lock, try, outcome, left, connected, cooldown, peer, requests, runs>>

(* Mutant: a command whose acknowledgement was lost is written again. *)
MayResendAny(s) == try[s] < MaxTries

(* The frame was written: only an idempotent query is sent again. *)
MayResend(s) == try[s] < MaxTries /\ s \in Queries

Resend(s) ==
  /\ pc[s] = "recycling" /\ MayResend(s)
  /\ try' = [try EXCEPT ![s] = @ + 1]
  /\ Attempt(s)
  /\ UNCHANGED <<closer, got, stream, connected, cooldown, sock, peer, replies, runs>>

(* Mutant: the definitive loss is not announced. *)
GiveUpSilently(s) ==
  /\ pc[s] = "recycling" /\ ~MayResend(s)
  /\ Return(s, "unknown")
  /\ UNCHANGED <<closer, try, got, left, reader, stream, connected, cooldown, wireVars>>

GiveUp(s) ==
  /\ pc[s] = "recycling" /\ ~MayResend(s)
  /\ connected' = FALSE
  /\ Return(s, "unknown")
  /\ UNCHANGED <<closer, try, got, left, reader, stream, cooldown, wireVars>>

(* Mutant: an abandoned call returns and leaves its exchange on the session. *)
AbandonNoClose(s) ==
  /\ pc[s] = "reading"
  /\ Return(s, "unknown")
  /\ reader' = [reader EXCEPT ![s] = NoConn]
  /\ got' = [got EXCEPT ![s] = FALSE]
  /\ UNCHANGED <<closer, try, left, stream, connected, cooldown, wireVars>>

(* The response ends with COMMAND_TIMEOUT or too many frames, or the        *)
(* caller's task is cancelled: either handler closes the session first.     *)
Abandon(s) ==
  /\ pc[s] = "reading"
  /\ CloseAndReturn(s, "unknown")
  /\ got' = [got EXCEPT ![s] = FALSE]
  /\ UNCHANGED <<closer, lock, try, left, connected, cooldown, peer, requests, runs>>

(* Mutant: the lock is not released. *)
ClosedHoldingLock(s) ==
  /\ pc[s] = "closing"
  /\ connected' = FALSE
  /\ pc' = [pc EXCEPT ![s] = "done"]
  /\ UNCHANGED <<closer, lock, try, got, outcome, left, reader, stream, cooldown, wireVars>>

(* close() ends, and send() returns what its handler had decided. *)
Closed(s) ==
  /\ pc[s] = "closing"
  /\ connected' = FALSE
  /\ Return(s, outcome[s])
  /\ UNCHANGED <<closer, try, got, left, reader, stream, cooldown, wireVars>>

-----------------------------------------------------------------------------
(* connect(), run by a call that found no streams or by the consumer.  The  *)
(* consumer opens the session before it is used: no call is in progress.    *)
ConsumerConnect ==
  /\ pc[Consumer] = "idle" /\ closer = "idle"
  /\ stream = NoConn
  /\ \A s \in Calls : pc[s] \in {"idle", "done"}
  /\ cooldown' = FALSE
  /\ pc' = [pc EXCEPT ![Consumer] = "opening"]
  /\ left' = [left EXCEPT ![Consumer] = MaxConnectAttempts]
  /\ UNCHANGED <<closer, lock, try, got, outcome, reader, stream, connected, wireVars>>

(* open_connection() answers with a socket and the negotiation starts. *)
OpenOk(p, c) ==
  /\ pc[p] = "opening"
  /\ sock[c] = "unused"
  /\ stream' = c
  /\ sock' = [sock EXCEPT ![c] = "open"]
  /\ peer' = [peer EXCEPT ![c] = "greeting"]
  /\ pc' = [pc EXCEPT ![p] = "shaking"]
  /\ reader' = [reader EXCEPT ![p] = c]
  /\ UNCHANGED <<closer, lock, try, got, outcome, left, connected, cooldown,
                 requests, replies, runs>>

(* Mutant: a failed attempt keeps its half-open socket. *)
AttemptFailedNoClose(p) ==
  /\ LeaveReader(p)
  /\ pc' = [pc EXCEPT ![p] = "releasing"]
  /\ UNCHANGED <<stream, sock>>

(* A failed attempt releases the streams, whichever they are. *)
AttemptFailed(p) ==
  /\ CloseStreams
  /\ LeaveReader(p)
  /\ pc' = [pc EXCEPT ![p] = "releasing"]

(* open_connection() fails or times out. *)
OpenFail(p) ==
  /\ pc[p] = "opening"
  /\ AttemptFailed(p)
  /\ UNCHANGED <<closer, lock, try, got, outcome, left, connected, cooldown, peer, requests, runs>>

(* The gateway accepts the session.  A call goes on to write its frame,     *)
(* unless close() took the streams away meanwhile: then connect() has       *)
(* failed after all.                                                        *)
ShakeOk(p) ==
  /\ pc[p] = "shaking" /\ Readable(p) /\ Next1(p) = "ack"
  /\ connected' = TRUE
  /\ \/ /\ p = Consumer
        /\ Consume(p)
        /\ pc' = [pc EXCEPT ![p] = "idle"]
        /\ reader' = [reader EXCEPT ![p] = NoConn]
        /\ UNCHANGED <<try, outcome, stream, cooldown, sock, requests>>
     \/ /\ p \in Calls /\ stream = NoConn
        /\ cooldown' = TRUE
        /\ CloseAndReturn(p, "unsent")
        /\ UNCHANGED <<try, requests>>
     \/ /\ p \in Calls /\ stream # NoConn
        /\ cooldown' = FALSE
        /\ Consume(p)
        /\ try' = try
        /\ Write(p, stream)
        /\ UNCHANGED <<outcome, stream, sock>>
  /\ UNCHANGED <<closer, lock, got, left, peer, runs>>

(* The gateway refuses: a transient refusal may be tried again, a fatal one *)
(* (authentication) ends connect() at once and the consumer hears it.       *)
ShakeRefused(p) ==
  /\ pc[p] = "shaking" /\ Readable(p) /\ Next1(p) \in {"nack", "fatal"}
  /\ AttemptFailed(p)
  /\ IF Next1(p) = "fatal"
     THEN connected' = FALSE /\ left' = [left EXCEPT ![p] = 0]
     ELSE UNCHANGED <<connected, left>>
  /\ UNCHANGED <<closer, lock, try, got, outcome, cooldown, peer, requests, runs>>

(* The negotiation times out, or reads end of file. *)
ShakeLost(p) ==
  /\ pc[p] = "shaking"
  /\ AttemptFailed(p)
  /\ UNCHANGED <<closer, lock, try, got, outcome, left, connected, cooldown, peer, requests, runs>>

(* close() took the streams away between two frames of the negotiation: the *)
(* next use of them raises through connect() and send().                    *)
ShakeRaises(s) ==
  /\ pc[s] = "shaking" /\ Readable(s) /\ stream = NoConn
  /\ Consume(s)
  /\ Return(s, "unsent")
  /\ reader' = [reader EXCEPT ![s] = NoConn]
  /\ UNCHANGED <<closer, try, got, left, stream, connected, cooldown, sock, peer, requests, runs>>

(* The end of a failed attempt of the consumer's connect(): back off, or    *)
(* give up with the session not connected.                                  *)
AttemptReleased ==
  /\ pc[Consumer] = "releasing"
  /\ IF left[Consumer] > 1
     THEN /\ pc' = [pc EXCEPT ![Consumer] = "backoff"]
          /\ left' = [left EXCEPT ![Consumer] = @ - 1]
          /\ UNCHANGED connected
     ELSE /\ pc' = [pc EXCEPT ![Consumer] = "idle"]
          /\ left' = [left EXCEPT ![Consumer] = 0]
          /\ connected' = IF left[Consumer] = 1 THEN FALSE ELSE connected
  /\ UNCHANGED <<closer, lock, try, got, outcome, reader, stream, cooldown, wireVars>>

BackoffOver ==
  /\ pc[Consumer] = "backoff"
  /\ pc' = [pc EXCEPT ![Consumer] = "opening"]
  /\ UNCHANGED <<closer, sessionVars, wireVars>>

(* The single attempt of a call's connect() has failed: the cooldown starts *)
(* and send() closes the session.                                           *)
Unavailable(s) ==
  /\ pc[s] = "releasing"
  /\ connected' = IF left[s] = 1 THEN FALSE ELSE connected
  /\ cooldown' = TRUE
  /\ CloseAndReturn(s, "unsent")
  /\ left' = [left EXCEPT ![s] = 0]
  /\ UNCHANGED <<closer, lock, try, got, peer, requests, runs>>

CooldownOver ==
  /\ cooldown
  /\ cooldown' = FALSE
  /\ UNCHANGED <<pc, closer, lock, try, got, outcome, left, reader, stream, connected, wireVars>>

-----------------------------------------------------------------------------
(* close(), called by a task that does not hold the lock. *)

CloseBegin ==
  /\ closer = "idle" /\ pc[Consumer] = "idle"
  /\ CloseStreams
  /\ closer' = "closing"
  /\ UNCHANGED <<pc, lock, try, got, outcome, left, reader, connected, cooldown,
                 peer, requests, replies, runs>>

CloseEnd ==
  /\ closer = "closing"
  /\ connected' = FALSE
  /\ closer' = "idle"
  /\ UNCHANGED <<pc, lock, try, got, outcome, left, reader, stream, cooldown, wireVars>>

-----------------------------------------------------------------------------
(* The gateway and the network (external).  On a connection the client has  *)
(* closed the gateway may still carry out the frames it had received; what  *)
(* it sends there is not delivered.                                         *)

Deliver(c, frames) ==
  replies' = [replies EXCEPT ![c] = IF sock[c] = "open" THEN @ \o frames ELSE @]

GatewayAccept(c) ==
  /\ peer[c] = "greeting" /\ sock[c] = "open"
  /\ peer' = [peer EXCEPT ![c] = "up"]
  /\ Deliver(c, <<Frame("ack", "hello")>>)
  /\ UNCHANGED <<pc, closer, sessionVars, sock, requests, runs>>

GatewayRefuse(c) ==
  /\ peer[c] = "greeting" /\ sock[c] = "open"
  /\ peer' = [peer EXCEPT ![c] = "refused"]
  /\ \E kind \in {"nack", "fatal"} : Deliver(c, <<Frame(kind, "hello")>>)
  /\ UNCHANGED <<pc, closer, sessionVars, sock, requests, runs>>

GatewayExecute(c, s, n) ==
  /\ peer[c] = "up"
  /\ <<s, n>> \in requests[c]
  /\ requests' = [requests EXCEPT ![c] = @ \ {<<s, n>>}]
  /\ runs' = [runs EXCEPT ![s] = @ + 1]
  /\ \E answer \in {<<Frame("ack", s)>>, <<Frame("data", s), Frame("ack", s)>>} :
        Deliver(c, answer)
  /\ UNCHANGED <<pc, closer, sessionVars, sock, peer>>

GatewayReject(c, s, n) ==
  /\ peer[c] = "up"
  /\ <<s, n>> \in requests[c]
  /\ requests' = [requests EXCEPT ![c] = @ \ {<<s, n>>}]
  /\ \E answer \in {<<Frame("nack", s)>>, <<Frame("data", s), Frame("nack", s)>>} :
        Deliver(c, answer)
  /\ UNCHANGED <<pc, closer, sessionVars, sock, peer, runs>>

(* The connection breaks: unprocessed frames are lost, and answers that     *)
(* have not been read are lost or not.                                      *)
GatewayDrop(c) ==
  /\ peer[c] # "down" /\ sock[c] = "open"
  /\ peer' = [peer EXCEPT ![c] = "down"]
  /\ requests' = [requests EXCEPT ![c] = {}]
  /\ \E kept \in {replies[c], <<>>} : replies' = [replies EXCEPT ![c] = kept]
  /\ UNCHANGED <<pc, closer, sessionVars, sock, runs>>

-----------------------------------------------------------------------------
SendStep(s) ==
  \/ Acquire(s) \/ Refuse(s)
  \/ ReadMore(s) \/ ReadAck(s) \/ ReadNack(s) \/ RetryNack(s)
  \/ ConnectionLost(s) \/ Resend(s) \/ GiveUp(s)
  \/ Abandon(s) \/ Closed(s)
  \/ ShakeRaises(s) \/ Unavailable(s)

ConnectStep(p) ==
  \/ \E c \in Conns : OpenOk(p, c)
  \/ OpenFail(p) \/ ShakeOk(p) \/ ShakeRefused(p) \/ ShakeLost(p)

Gateway ==
  \E c \in Conns :
     \/ GatewayAccept(c) \/ GatewayRefuse(c) \/ GatewayDrop(c)
     \/ \E s \in Calls, n \in 1 .. MaxTries : GatewayExecute(c, s, n) \/ GatewayReject(c, s, n)

Next ==
  \/ \E s \in Calls : Call(s) \/ SendStep(s) \/ CancelWaiting(s)
  \/ \E p \in Tasks : ConnectStep(p)
  \/ ConsumerConnect \/ AttemptReleased \/ BackoffOver \/ CooldownOver
  \/ CloseBegin \/ CloseEnd
  \/ Gateway

Spec == Init /\ [][Next]_vars

(* The event loop runs every task that can run, and every wait but the one  *)
(* for the lock is bounded by a timeout of its own.  A caller may never     *)
(* call, and the gateway owes nothing.                                      *)
Fairness ==
  /\ \A s \in Calls : WF_vars(SendStep(s)) /\ WF_vars(ConnectStep(s))
  /\ WF_vars(ConnectStep(Consumer)) /\ WF_vars(AttemptReleased) /\ WF_vars(BackoffOver)
  /\ WF_vars(CloseEnd)

FairSpec == Spec /\ Fairness

-----------------------------------------------------------------------------
(* Properties. *)

(* What the caller has been told so far. *)
Told(s) == IF pc[s] = "done" THEN outcome[s] ELSE "pending"

Rpc == INSTANCE CommandRpc WITH outcome <- [s \in Calls |-> Told(s)]

(* The session implements the at-most-once contract of CommandRpc: over     *)
(* retries, reconnections, lost and late answers and concurrent callers, a  *)
(* command is carried out at most once, an acknowledged call was carried    *)
(* out, and a command reported unsent or rejected never is (the rules of    *)
(* _locked_send, "never replay a command after it was written").            *)
ImplementsRpc == Rpc!Spec

(* The same as a state property: the answer a call returns is its own.      *)
(* "Interleaved write/read pairs on the same stream would steal each        *)
(* other's acknowledgements": an acknowledged call was carried out, a       *)
(* rejected or unsent command was not.                                      *)
AnswersMatch ==
  \A s \in Calls :
     /\ Told(s) = "ok" => runs[s] > 0
     /\ Told(s) \in {"nack", "unsent"} => s \in Queries \/ runs[s] = 0
     /\ s \notin Queries => runs[s] <= 1

(* The frames a waiting call can read are answers to its own frame, and no  *)
(* frame of another call is on its connection: write/read pairs never       *)
(* interleave, whatever was cancelled, timed out or lost before.            *)
OwnExchange ==
  \A s \in Calls : pc[s] = "reading" =>
     /\ requests[reader[s]] \subseteq {<<s, try[s]>>}
     /\ \A i \in 1 .. Len(replies[reader[s]]) : replies[reader[s]][i].to = s

(* Retries, timeouts, failed negotiations and concurrent close() calls      *)
(* never accumulate leaked descriptors: the only open socket is the one in  *)
(* _stream_writer, and that one is open.                                    *)
NoLeakedSocket ==
  \A c \in Conns : sock[c] = "open" <=> stream = c

(* When no task is inside send(), connect() or close(), a session that says *)
(* it is connected holds its streams: is_connected means "negotiated and    *)
(* not since lost", and a loss found out by any task is announced.          *)
Quiescent == lock = NoCall /\ closer = "idle" /\ pc[Consumer] = "idle"
ConnectedIsOpen == Quiescent /\ connected => stream # NoConn

(* Every send() that was called returns, even if the gateway never answers, *)
(* connections keep breaking and other callers are cancelled: no path       *)
(* leaves the lock held.                                                    *)
CallsReturn == \A s \in Calls : pc[s] = "waiting" ~> pc[s] = "done"

-----------------------------------------------------------------------------
(* The inductive invariant behind AnswersMatch, OwnExchange, NoLeakedSocket *)
(* and ConnectedIsOpen, for every set of calls and connections.             *)

Holding == {"opening", "shaking", "releasing", "reading", "recycling", "closing"}

(* The call inside _locked_send() holds the lock, and the consumer's        *)
(* connect() has the session to itself.                                     *)
LockInv ==
  /\ \A s \in Calls : pc[s] \in Holding <=> lock = s
  /\ pc[Consumer] # "idle" => closer = "idle" /\ \A s \in Calls : pc[s] \in {"idle", "done"}

(* connect() opens a connection only when the session has none. *)
StreamInv ==
  \A p \in Tasks : pc[p] \in {"opening", "releasing", "backoff"} => stream = NoConn

(* A task that waits on a reader waits on the session's own connection, or  *)
(* on one that close() has taken away.                                      *)
ReaderInv ==
  \A p \in Tasks :
     /\ reader[p] # NoConn <=> pc[p] \in {"shaking", "reading"}
     /\ reader[p] # NoConn => stream \in {reader[p], NoConn} /\ sock[reader[p]] # "unused"

(* A connection nobody reads has nothing to be read, an open one carries a  *)
(* frame only for a call that reads it, and one still in negotiation is     *)
(* read by the task that negotiates.                                        *)
WireInv ==
  \A c \in Conns :
     /\ sock[c] = "unused" => requests[c] = {} /\ replies[c] = <<>>
     /\ replies[c] # <<>> => \E p \in Tasks : reader[p] = c
     /\ requests[c] # {} /\ sock[c] = "open" =>
          \E s \in Calls : reader[s] = c /\ pc[s] = "reading"
     /\ peer[c] \in {"greeting", "refused"} /\ sock[c] = "open" =>
          \E p \in Tasks : reader[p] = c /\ pc[p] = "shaking"

(* A negotiation has at most one answer to read, and no command on its wire. *)
ShakeInv ==
  \A p \in Tasks : pc[p] = "shaking" =>
     /\ requests[reader[p]] = {}
     /\ Len(replies[reader[p]]) <= 1
     /\ peer[reader[p]] = "greeting" => replies[reader[p]] = <<>>
     /\ replies[reader[p]] # <<>> /\ Head(replies[reader[p]]).kind = "ack"
          => peer[reader[p]] \in {"up", "down"}

(* A waiting call has its frame on the wire or the answer to it, and the    *)
(* answer ends in its ACK or NACK.                                          *)
ExchangeInv ==
  \A s \in Calls : pc[s] = "reading" =>
     /\ requests[reader[s]] \subseteq {<<s, try[s]>>}
     /\ requests[reader[s]] # {} => replies[reader[s]] = <<>>
     /\ \A i \in 1 .. Len(replies[reader[s]]) :
          /\ replies[reader[s]][i].to = s
          /\ i < Len(replies[reader[s]]) => replies[reader[s]][i].kind = "data"

(* The answer a waiting call will read says what happened. *)
AnswerInv ==
  \A s \in Calls : pc[s] = "reading" =>
     \A i \in 1 .. Len(replies[reader[s]]) :
        /\ replies[reader[s]][i].kind = "ack" => runs[s] > 0
        /\ replies[reader[s]][i].kind = "nack" /\ s \notin Queries => runs[s] = 0

(* What a call returns is settled when it returns. *)
OutcomeInv ==
  \A s \in Calls :
     /\ pc[s] \notin {"closing", "done"} => outcome[s] = "pending"
     /\ pc[s] = "closing" => outcome[s] \in {"unsent", "unknown"}
     /\ pc[s] = "done" => outcome[s] # "pending"
     /\ pc[s] = "done" /\ outcome[s] = "ok" => runs[s] > 0
     /\ pc[s] = "done" /\ outcome[s] = "refused" => s \in Refused
     /\ s \in Refused => pc[s] \in {"idle", "waiting", "done"}

(* The frame of s is on some wire. *)
Pending(s) == \E c \in Conns, n \in 1 .. MaxTries : <<s, n>> \in requests[c]

(* The frame of s is on no wire because it has not been written, or because *)
(* the gateway has rejected it.                                             *)
Unwritten(s) ==
  \/ pc[s] \in {"idle", "waiting", "opening", "shaking", "releasing"}
  \/ pc[s] \in {"closing", "done"} /\ outcome[s] \in {"nack", "unsent", "refused"}

(* A command is on at most one wire, the one its call reads if it still     *)
(* does, and on none once it was carried out.                               *)
CommandInv ==
  \A s \in Calls \ Queries :
     /\ runs[s] <= 1
     /\ Pending(s) => runs[s] = 0
     /\ \A c, d \in Conns, n, m \in 1 .. MaxTries :
          <<s, n>> \in requests[c] /\ <<s, m>> \in requests[d] => c = d /\ n = m
     /\ \A c \in Conns, n \in 1 .. MaxTries :
          <<s, n>> \in requests[c] /\ pc[s] = "reading" => c = reader[s]
     /\ Unwritten(s) => runs[s] = 0 /\ ~Pending(s)

(* A refused frame is never on a wire, not even a query's. *)
RefusedInv == \A s \in Refused : runs[s] = 0 /\ ~Pending(s)

(* Who will still clear the flag of a session that has lost its streams: a   *)
(* close(), or the call that lost them or was to open them.  A cooldown      *)
(* starts only where the flag is about to be cleared, and the consumer       *)
(* opens a session that says it is not connected.                            *)
FlagInv ==
  /\ connected /\ stream = NoConn =>
       \/ closer = "closing"
       \/ \E s \in Calls : pc[s] \in {"opening", "releasing", "recycling", "closing"}
  /\ connected /\ cooldown => \E s \in Calls : pc[s] = "closing"
  /\ pc[Consumer] # "idle" => ~connected /\ ~cooldown
  /\ pc[Consumer] = "shaking" => stream # NoConn

IInv == /\ TypeOK /\ LockInv /\ StreamInv /\ NoLeakedSocket /\ ReaderInv /\ WireInv
        /\ ShakeInv /\ ExchangeInv /\ AnswerInv /\ OutcomeInv /\ CommandInv /\ RefusedInv
        /\ FlagInv
=============================================================================

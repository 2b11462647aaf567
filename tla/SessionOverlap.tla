--------------------------- MODULE SessionOverlap ---------------------------
(***************************************************************************)
(* One OWNCommandSession shared by the tasks of a consumer the way the     *)
(* comment at command_session.py:330 tells it: workers that call connect() *)
(* themselves when the session is not open and then send(), and keepalives *)
(* that only send() and so reopen it with a single attempt.  send() holds  *)
(* _send_lock, connect() does not: their steps interleave on one pair of   *)
(* streams, and whatever is read or written next goes to the streams the   *)
(* session has by then.  A negotiation is two answers, "hello" and         *)
(* "session": the second comes unasked, or after one more frame (the       *)
(* answer to a challenge, the request for an alternate session).  A        *)
(* command is answered by "end", perhaps after one frame of "data".        *)
(* Negotiation has the whole exchange, CommandSession the retry after a    *)
(* NACK.  Any read may time out.                                           *)
(***************************************************************************)
EXTENDS Naturals, Sequences, FiniteSets

CONSTANTS Workers, Pings, \* the tasks: one call of send() each
          Sockets,        \* bound of the model: connections opened
          MaxConnectAttempts, \* MAX_CONNECT_ATTEMPTS
          Nobody

ASSUME OverlapAssumption ==
  /\ Workers \cap Pings = {} /\ Nobody \notin Workers \cup Pings \cup Sockets
  /\ MaxConnectAttempts \in Nat \ {0, 1}

Tasks == Workers \cup Pings

VARIABLES
  pc,        \* where each task is suspended
  inSend,    \* its connect() was called by send()
  limit,     \* max_attempts of its connect()
  retries,   \* retry_count of its connect()
  attempt,   \* attempt of its send()
  reading,   \* the connection it reads from
  lock,      \* the task that holds _send_lock
  stream,    \* _stream_reader and _stream_writer: a connection
  sockets,   \* the connections: open or not, and the answers still to come
  override,  \* _connect_max_attempts_override
  cooling,   \* _last_reconnect_failure is set, and recent
  failed,    \* reconnections of send() failed, and connect()s begun by the
  begun      \* consumer, since one succeeded or a cooldown ran out
overlapVars == <<pc, inSend, limit, retries, attempt, reading, lock, stream, sockets, override,
          cooling, failed, begun>>
connectCall == <<inSend, limit, retries>>
flags == <<override, cooling, failed, begun>>

Connecting == {"opening", "hello", "session", "failing"}
Reads == {"hello", "session", "answer"}

(* A frame on its way to the session, and the task whose frame it answers. *)
Frame(kind, t) == [kind |-> kind, of |-> t]
Frames == [kind : {"hello", "session", "data", "end"}, of : Tasks]

OverlapTypeOK ==
  /\ pc \in [Tasks -> Connecting \cup {"idle", "queued", "holding", "answer", "ok", "failed", "crashed"}]
  /\ inSend \in [Tasks -> BOOLEAN] /\ limit \in [Tasks -> 0 .. MaxConnectAttempts]
  /\ retries \in [Tasks -> 0 .. MaxConnectAttempts] /\ attempt \in [Tasks -> 0 .. 2]
  /\ reading \in [Tasks -> Sockets \cup {Nobody}]
  /\ lock \in Tasks \cup {Nobody} /\ stream \in Sockets \cup {Nobody}
  /\ sockets \in [Sockets -> [state : {"unused", "open", "closed"}, due : Seq(Frames), mixed : BOOLEAN]]
  /\ override \in {0, 1} /\ cooling \in BOOLEAN
  /\ failed \in Nat /\ begun \in Nat

OverlapInit ==
  /\ pc = [t \in Tasks |-> "idle"] /\ inSend = [t \in Tasks |-> FALSE]
  /\ limit = [t \in Tasks |-> 0] /\ retries = [t \in Tasks |-> 0]
  /\ attempt = [t \in Tasks |-> 0] /\ reading = [t \in Tasks |-> Nobody]
  /\ lock = Nobody /\ stream = Nobody /\ override = 0
  /\ sockets = [s \in Sockets |-> [state |-> "unused", due |-> <<>>, mixed |-> FALSE]]
  /\ cooling = FALSE /\ failed = 0 /\ begun = 0

Go(t, place) == pc' = [pc EXCEPT ![t] = place]

(* _close_streams(): whatever streams the session has now. *)
CloseStreams ==
  /\ stream' = Nobody
  /\ sockets' = IF stream = Nobody THEN sockets ELSE [sockets EXCEPT ![stream].state = "closed"]

(* A reader somebody waits on raises RuntimeError, no reader asserts. *)
Unreadable(t) == stream = Nobody \/ \E u \in Tasks \ {t} : pc[u] \in Reads /\ reading[u] = stream

-----------------------------------------------------------------------------
(* connect(). *)

Begin(t, fromSend) ==
  /\ Go(t, "opening")
  /\ inSend' = [inSend EXCEPT ![t] = fromSend]
  /\ limit' = [limit EXCEPT ![t] = IF fromSend \/ override = 1 THEN 1 ELSE MaxConnectAttempts]
  /\ retries' = [retries EXCEPT ![t] = 0]
  /\ cooling' = FALSE
  /\ begun' = IF fromSend THEN begun ELSE begun + 1
  /\ UNCHANGED <<reading, stream, sockets, failed>>

(* A worker opens the session before it sends, when it is not open. *)
Connect(t) ==
  /\ pc[t] = "idle" /\ t \in Workers /\ stream = Nobody
  /\ Begin(t, FALSE)
  /\ UNCHANGED <<attempt, lock, override>>

(* open_connection() returns: the streams of another connect() are         *)
(* overwritten, *99*0## is written and the first answer awaited.  The      *)
(* second may follow by itself.                                            *)
StreamsOpened(t) ==
  /\ pc[t] = "opening"
  /\ \E s \in Sockets :
       /\ sockets[s].state = "unused"
       /\ stream' = s /\ reading' = [reading EXCEPT ![t] = s]
       /\ \E due \in {<<Frame("hello", t)>>, <<Frame("hello", t), Frame("session", t)>>} :
            sockets' = [sockets EXCEPT ![s] = [state |-> "open", due |-> due, mixed |-> FALSE]]
  /\ Go(t, "hello")
  /\ UNCHANGED <<connectCall, attempt, lock, flags>>

(* The attempt fails: refused, timed out, closed. *)
Fails(t) ==
  /\ pc[t] \in {"opening", "hello", "session"}
  /\ Go(t, "failing") /\ CloseStreams
  /\ retries' = [retries EXCEPT ![t] = @ + 1]
  /\ reading' = [reading EXCEPT ![t] = Nobody]
  /\ UNCHANGED <<inSend, limit, attempt, lock, flags>>

(* A frame has come on the connection a task reads from: it is taken, and  *)
(* perhaps another is written to the streams the session has by now.  That *)
(* connection is "mixed" when the frame belongs to the exchange of another. *)
Arrived(t) == sockets[reading[t]].state = "open" /\ sockets[reading[t]].due # <<>>
Taken(t) == [sockets EXCEPT ![reading[t]].due = Tail(@)]
NextAsked(t) ==
  [Taken(t) EXCEPT ![stream].due = Append(@, Frame("session", t)),
                   ![stream].mixed = @ \/ stream # reading[t]]
(* The second answer is under way, or is asked for. *)
TakesHello(t) ==
  /\ pc[t] = "hello" /\ Arrived(t)
  /\ IF Len(sockets[reading[t]].due) > 1 \/ stream = Nobody THEN sockets' = Taken(t)
     ELSE sockets' = NextAsked(t)

(* The next answer is read from the streams the session has by now.        *)
Hello(t) ==
  /\ TakesHello(t) /\ ~Unreadable(t)
  /\ Go(t, "session") /\ reading' = [reading EXCEPT ![t] = stream]
  /\ UNCHANGED <<connectCall, attempt, lock, stream, flags>>

(* connect() is left, and what it knew of its call goes with it. *)
Leave(t) ==
  /\ inSend' = [inSend EXCEPT ![t] = FALSE]
  /\ limit' = [limit EXCEPT ![t] = 0] /\ retries' = [retries EXCEPT ![t] = 0]
  /\ reading' = [reading EXCEPT ![t] = Nobody]

(* connect() returns to its caller with the streams of the session. *)
Return(t) ==
  /\ Leave(t)
  /\ IF ~inSend[t] THEN Go(t, "queued") /\ UNCHANGED flags
     ELSE /\ Go(t, "holding") /\ override' = 0 /\ cooling' = FALSE /\ failed' = 0 /\ begun' = 0
  /\ UNCHANGED <<lock, attempt, stream>>

Negotiated(t) ==
  /\ pc[t] = "session" /\ Arrived(t) /\ sockets' = Taken(t)
  /\ (inSend[t] => stream # Nobody)
  /\ Return(t)

(* The in-send connect() finds that another task took its streams, or has  *)
(* used its only attempt: close(), and the cooldown begins.                *)
GiveUp(t) ==
  /\ CloseStreams /\ Leave(t)
  /\ Go(t, "failed") /\ lock' = Nobody
  /\ override' = 0 /\ cooling' = TRUE /\ failed' = failed + 1

NegotiatedTooLate(t) ==
  /\ pc[t] = "session" /\ Arrived(t)
  /\ inSend[t] /\ stream = Nobody
  /\ GiveUp(t)
  /\ UNCHANGED <<attempt, begun>>

(* After the socket is released: another attempt, or none. *)
AfterFailure(t) ==
  /\ pc[t] = "failing"
  /\ \/ /\ retries[t] < limit[t] /\ Go(t, "opening")
        /\ UNCHANGED <<connectCall, reading, lock, stream, sockets, override, cooling, failed>>
     \/ /\ retries[t] = limit[t] /\ ~inSend[t]
        /\ Go(t, "failed") /\ Leave(t)
        /\ UNCHANGED <<lock, stream, sockets, override, cooling, failed>>
     \/ retries[t] = limit[t] /\ inSend[t] /\ GiveUp(t)
  /\ UNCHANGED <<attempt, begun>>

(* Mutant: the lock is kept. *)
CrashLocked(t) ==
  /\ TakesHello(t) /\ Unreadable(t)
  /\ Go(t, "crashed") /\ Leave(t)
  /\ override' = IF inSend[t] THEN 0 ELSE override
  /\ UNCHANGED <<attempt, lock, stream, cooling, failed, begun>>
(* The next read raises, or the write to no stream at all: connect() does  *)
(* not catch it.                                                           *)
Crash(t) ==
  /\ TakesHello(t) /\ Unreadable(t)
  /\ Go(t, "crashed") /\ Leave(t)
  /\ lock' = IF lock = t THEN Nobody ELSE lock
  /\ override' = IF inSend[t] THEN 0 ELSE override
  /\ UNCHANGED <<attempt, stream, cooling, failed, begun>>

-----------------------------------------------------------------------------
(* send(). *)

CallSend(t) ==
  /\ pc[t] = "idle" /\ (t \in Pings \/ stream # Nobody)
  /\ Go(t, "queued")
  /\ UNCHANGED <<connectCall, attempt, reading, lock, stream, sockets, flags>>

LockGranted(t) ==
  /\ pc[t] = "queued" /\ lock = Nobody
  /\ lock' = t /\ Go(t, "holding") /\ attempt' = [attempt EXCEPT ![t] = 1]
  /\ UNCHANGED <<connectCall, reading, stream, sockets, flags>>

FailFast(t) ==
  /\ pc[t] = "holding" /\ stream = Nobody /\ cooling
  /\ Go(t, "failed") /\ lock' = Nobody
  /\ UNCHANGED <<connectCall, attempt, reading, stream, sockets, flags>>

Reopen(t) ==
  /\ pc[t] = "holding" /\ stream = Nobody /\ ~cooling
  /\ Begin(t, TRUE) /\ override' = 1
  /\ UNCHANGED <<attempt, lock>>

Write(t) ==
  /\ pc[t] = "holding" /\ stream # Nobody /\ ~Unreadable(t)
  /\ Go(t, "answer") /\ reading' = [reading EXCEPT ![t] = stream]
  /\ \E answer \in {<<Frame("end", t)>>, <<Frame("data", t), Frame("end", t)>>} :
       sockets' = [sockets EXCEPT ![stream].due = @ \o answer]
  /\ UNCHANGED <<connectCall, attempt, lock, stream, flags>>

(* A frame of the answer is taken; the next one is read from the streams   *)
(* the session has by now.                                                 *)
TakesData(t) ==
  pc[t] = "answer" /\ Arrived(t) /\ Head(sockets[reading[t]].due).kind = "data"
DataRead(t) ==
  /\ TakesData(t) /\ ~Unreadable(t) /\ sockets' = Taken(t)
  /\ reading' = [reading EXCEPT ![t] = stream]
  /\ UNCHANGED <<pc, inSend, limit, retries, attempt, lock, stream, flags>>

(* send() ends by closing the session: a time limit, or the frame is       *)
(* written, or one of its answers taken, and the next read raises.         *)
(* Mutant: the streams are kept. *)
CloseAndLeaveOpen(t) ==
  /\ \/ pc[t] = "answer"
     \/ pc[t] = "holding" /\ stream # Nobody /\ Unreadable(t)
  /\ UNCHANGED <<stream, sockets>>
  /\ Go(t, "failed") /\ lock' = Nobody /\ reading' = [reading EXCEPT ![t] = Nobody]
  /\ UNCHANGED <<connectCall, attempt, flags>>
CloseAndLeave(t) ==
  /\ \/ pc[t] = "answer"
     \/ pc[t] = "holding" /\ stream # Nobody /\ Unreadable(t)
  /\ CloseStreams
  /\ Go(t, "failed") /\ lock' = Nobody /\ reading' = [reading EXCEPT ![t] = Nobody]
  /\ UNCHANGED <<connectCall, attempt, flags>>

(* The first frame that is an ACK or a NACK is the answer.                 *)
Answered(t) ==
  /\ pc[t] = "answer" /\ Arrived(t) /\ ~TakesData(t) /\ sockets' = Taken(t)
  /\ Go(t, "ok") /\ lock' = Nobody /\ reading' = [reading EXCEPT ![t] = Nobody]
  /\ UNCHANGED <<connectCall, attempt, stream, flags>>

(* The connection is lost: a keepalive, an idempotent query, is sent once  *)
(* more; a command is not.                                                 *)
ConnectionLost(t) ==
  /\ pc[t] = "answer" /\ sockets[reading[t]].state = "closed"
  /\ CloseStreams /\ reading' = [reading EXCEPT ![t] = Nobody]
  /\ IF attempt[t] = 1 /\ t \in Pings
     THEN /\ Go(t, "holding") /\ attempt' = [attempt EXCEPT ![t] = 2]
          /\ UNCHANGED <<lock>>
     ELSE /\ Go(t, "failed") /\ lock' = Nobody
          /\ UNCHANGED attempt
  /\ UNCHANGED <<connectCall, flags>>

-----------------------------------------------------------------------------
(* The gateway, and time (external). *)

Drop(s) ==
  /\ sockets[s].state = "open" /\ sockets' = [sockets EXCEPT ![s].state = "closed"]
  /\ UNCHANGED <<pc, connectCall, attempt, reading, lock, stream, flags>>

CooldownEnds ==
  /\ cooling /\ cooling' = FALSE /\ failed' = 0 /\ begun' = 0
  /\ UNCHANGED <<pc, connectCall, attempt, reading, lock, stream, sockets, override>>

Step(t) ==
  \/ Connect(t) \/ StreamsOpened(t) \/ Fails(t) \/ Hello(t) \/ Negotiated(t) \/ NegotiatedTooLate(t)
  \/ AfterFailure(t) \/ Crash(t) \/ CallSend(t) \/ LockGranted(t) \/ FailFast(t) \/ Reopen(t)
  \/ Write(t) \/ DataRead(t) \/ CloseAndLeave(t) \/ Answered(t) \/ ConnectionLost(t)
OverlapNext == (\E t \in Tasks : Step(t)) \/ (\E s \in Sockets : Drop(s)) \/ CooldownEnds
OverlapSpec == OverlapInit /\ [][OverlapNext]_overlapVars

(* The loop runs every task that can go on, and every wait has a limit; a  *)
(* task queued on the lock is granted it in turn.                          *)
OverlapFairSpec ==
  OverlapSpec /\ \A t \in Tasks : WF_overlapVars(Step(t)) /\ SF_overlapVars(LockGranted(t))

-----------------------------------------------------------------------------
(* The override is set exactly while a send() is in its own connect(): no  *)
(* way out of that connect(), an exception included, leaves it to others.  *)
OverrideIsScoped ==
  (override = 1) = \E t \in Tasks : inSend[t]

(* A send() makes one attempt to open the session, with the lock: it does  *)
(* not stall the callers behind it with a back-off.                        *)
SendDoesNotStall ==
  \A t \in Tasks : inSend[t] => pc[t] \in Connecting /\ limit[t] = 1 /\ lock = t

(* Callers queued behind a failed reconnection do not try again within the *)
(* cooldown, but for one more with each connect() that the consumer begins *)
(* meanwhile: that clears the time of the last failure.                    *)
FailuresAreAllowed == failed <= 1 + begun

(* A call that waits on an open connection will read the answer to its own *)
(* frame, although connect()s overwrite and close the streams under it;    *)
(* not so where the negotiation of another connection wrote on this one.   *)
AnswerIsOwn ==
  \A t \in Tasks :
    pc[t] = "answer" /\ sockets[reading[t]].state = "open" /\ ~sockets[reading[t]].mixed
    /\ sockets[reading[t]].due # <<>> =>
      Head(sockets[reading[t]].due).of = t

(* What a send() that reopens the session, and a connect() that overlaps   *)
(* it, do not spoil: the single attempt stays with the send() it is for,   *)
(* the cooldown is kept, and answers reach their calls                     *)
(* (command_session.py:330-387).  What they do spoil: FullWindow.          *)
OverlapContained ==
  OverrideIsScoped /\ SendDoesNotStall /\ FailuresAreAllowed /\ AnswerIsOwn

(* Every call of connect() and send() returns, whatever the others do to   *)
(* its streams.                                                            *)
CallsReturn == \A t \in Tasks : <>(pc[t] \in {"ok", "failed", "crashed"})

(* "callers that recycle idle command sockets [...] invoke                 *)
(* `await session.connect()` directly when `not session.is_open` before    *)
(* calling `send()`, preserving the full MAX_CONNECT_ATTEMPTS=5 (~13.3 s)  *)
(* retry window on session open" (command_session.py:332-337).             *)
FullWindow ==
  \A t \in Tasks : ~inSend[t] /\ pc[t] \in Connecting => limit[t] = MaxConnectAttempts
=============================================================================

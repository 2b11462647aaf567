--------------------------- MODULE SerialTransport ---------------------------
(***************************************************************************)
(* One AsyncSerialTransport: concurrent calls of send() serialised by      *)
(* _command_lock, the reader task that tells answers from bus events, and  *)
(* the task that calls connect() and disconnect(), one at a time.  Each    *)
(* action is the code a task runs from one await to the next.  The serial  *)
(* line and the interface at its end are external; the interface may       *)
(* answer late, partly or never, and may be unplugged.  A timeout may fire *)
(* whenever the task waits.                                                *)
(***************************************************************************)
EXTENDS Naturals, Sequences, FiniteSets

CONSTANTS Calls,       \* invocations of send()
          Refused,     \* those whose frame is invalid or destructive
          Topic,       \* the WHO and WHERE of each call's frame
          NoCall,
          MaxFrames,   \* COMMAND_RESPONSE_MAX_FRAMES
          MaxInbox     \* bound of the model: frames on the line

ASSUME SerialAssumption ==
  /\ Refused \subseteq Calls /\ NoCall \notin Calls
  /\ DOMAIN Topic = Calls
  /\ MaxFrames \in Nat /\ MaxInbox \in Nat

VARIABLES
  pc,         \* where each call is suspended
  outcome,    \* how each call ended
  answeredBy, \* the call whose ACK a successful call took for its own
  lock,       \* the call holding _command_lock
  pending,    \* the call of _pending_future and _pending_request
  future,     \* the state of _pending_future
  collected,  \* the number of _pending_frames
  owner,      \* where the task that connects and disconnects is suspended
  connected,  \* _connected
  stopping,   \* _stopping
  reader,     \* the reader task
  port,       \* _reader / _writer: None, open, or closed and not yet None
  asked,      \* frames written that the interface has not answered yet
  inbox,      \* frames on the line to the reader
  late        \* a call has ended while its answer was still to come

client == <<pc, outcome, answeredBy, lock, pending, future, collected>>
link   == <<owner, connected, stopping, reader, port>>
line   == <<asked, inbox>>
vars   == <<client, link, line, late>>

(* What the frames are: a signalling frame that is neither ACK nor NACK is  *)
(* "signal"; "data" is a dimension reply, "event" an unsolicited frame.     *)
Frames == [kind : {"ack", "nack", "signal", "data"}, to : Calls] \cup
          [kind : {"event"}, to : {NoCall}]

TypeOK ==
  /\ pc \in [Calls -> {"idle", "waiting", "answering", "done"}]
  /\ outcome \in [Calls -> {"pending", "ok", "none", "refused", "not_connected",
                            "no_writer", "lost", "timeout", "cancelled"}]
  /\ answeredBy \in [Calls -> Calls \cup {NoCall}]
  /\ lock \in Calls \cup {NoCall} /\ pending \in Calls \cup {NoCall}
  /\ future \in {"none", "waiting", "ack", "empty", "overflow"}
  /\ collected \in 0 .. MaxFrames
  /\ owner \in {"idle", "opening", "joining", "closing", "rejoining", "reclosing"}
  /\ connected \in BOOLEAN /\ stopping \in BOOLEAN
  /\ reader \in {"none", "starting", "running", "cancelled", "done", "raised"}
  /\ port \in {"none", "open", "dead"}
  /\ asked \subseteq Calls
  /\ inbox \in Seq(Frames)
  /\ late \in BOOLEAN

Init ==
  /\ pc = [s \in Calls |-> "idle"]
  /\ outcome = [s \in Calls |-> "pending"]
  /\ answeredBy = [s \in Calls |-> NoCall]
  /\ lock = NoCall /\ pending = NoCall /\ future = "none" /\ collected = 0
  /\ owner = "idle" /\ connected = FALSE /\ stopping = FALSE
  /\ reader = "none" /\ port = "none"
  /\ asked = {} /\ inbox = <<>> /\ late = FALSE

-----------------------------------------------------------------------------
(* Helpers. *)

(* send() ends with o before it takes the lock. *)
End(s, o) ==
  /\ pc' = [pc EXCEPT ![s] = "done"]
  /\ outcome' = [outcome EXCEPT ![s] = o]

(* Mutant: the lock is kept. *)
LeaveLocked(s, o) ==
  /\ End(s, o)
  /\ pending' = NoCall /\ future' = "none" /\ collected' = 0
  /\ UNCHANGED lock

(* send() ends with o: its finally clause, and the lock is released. *)
Leave(s, o) ==
  /\ End(s, o)
  /\ lock' = NoCall
  /\ pending' = NoCall /\ future' = "none" /\ collected' = 0

(* An answer to s has not been read yet. *)
AnswerToCome(s) ==
  s \in asked \/ \E i \in 1 .. Len(inbox) : inbox[i].to = s

(* The pending future, if it is not done, gets None. *)
ResolvePending == future' = IF future = "waiting" THEN "empty" ELSE future

-----------------------------------------------------------------------------
(* send(). *)

NotConnected(s) ==
  /\ pc[s] = "idle"
  /\ ~connected \/ port = "none"
  /\ End(s, "not_connected")
  /\ UNCHANGED <<answeredBy, lock, pending, future, collected, link, line, late>>

Refuse(s) ==
  /\ pc[s] = "idle" /\ connected /\ port # "none"
  /\ s \in Refused
  /\ End(s, "refused")
  /\ UNCHANGED <<answeredBy, lock, pending, future, collected, link, line, late>>

Passes(s) == pc[s] = "idle" /\ connected /\ port # "none" /\ s \notin Refused

LockFree == lock = NoCall /\ \A t \in Calls : pc[t] # "waiting"

(* Inside the lock: the frame is written and its answer awaited. *)
Write(s) ==
  /\ pc' = [pc EXCEPT ![s] = "answering"]
  /\ lock' = s
  /\ pending' = s /\ future' = "waiting" /\ collected' = 0
  /\ asked' = IF port = "open" THEN asked \cup {s} ELSE asked
  /\ UNCHANGED <<outcome, answeredBy, link, inbox, late>>

(* A free lock is taken without an await. *)
WriteAtOnce(s) == Passes(s) /\ LockFree /\ Write(s)

Queue(s) ==
  /\ Passes(s) /\ ~LockFree
  /\ pc' = [pc EXCEPT ![s] = "waiting"]
  /\ UNCHANGED <<outcome, answeredBy, lock, pending, future, collected, link, line, late>>

(* Mutant: the lock does not exclude. *)
GrantedToAll(s) == pc[s] = "waiting" /\ port # "none" /\ Write(s)

(* The lock is granted to a call that queued on it. *)
Granted(s) == pc[s] = "waiting" /\ lock = NoCall /\ port # "none" /\ Write(s)

(* The lock is granted after a disconnect(): _writer is None. *)
WriterGone(s) ==
  /\ pc[s] = "waiting" /\ lock = NoCall /\ port = "none"
  /\ Leave(s, "no_writer")
  /\ UNCHANGED <<answeredBy, link, line, late>>

(* drain() raises on a port that is closed or broken. *)
DrainFails(s) ==
  /\ pc[s] = "answering" /\ future = "waiting" /\ port # "open"
  /\ Leave(s, "lost")
  /\ late' = (late \/ AnswerToCome(s))
  /\ UNCHANGED <<answeredBy, link, line>>

(* The future is done: ACK, None, or too many frames.                       *)
Answered(s) ==
  /\ pc[s] = "answering" /\ future # "waiting"
  /\ Leave(s, CASE future = "ack" -> "ok"
                [] future = "overflow" -> "timeout"
                [] OTHER -> "none")
  /\ late' = (late \/ AnswerToCome(s))
  /\ UNCHANGED <<answeredBy, link, line>>

Timeout(s) ==
  /\ pc[s] = "answering" /\ future = "waiting"
  /\ Leave(s, "timeout")
  /\ late' = (late \/ AnswerToCome(s))
  /\ UNCHANGED <<answeredBy, link, line>>

(* The caller's task is cancelled. *)
CancelWaiting(s) ==
  /\ pc[s] = "waiting"
  /\ End(s, "cancelled")
  /\ UNCHANGED <<answeredBy, lock, pending, future, collected, link, line, late>>

CancelAnswering(s) ==
  /\ pc[s] = "answering"
  /\ Leave(s, "cancelled")
  /\ late' = (late \/ AnswerToCome(s))
  /\ UNCHANGED <<answeredBy, link, line>>

-----------------------------------------------------------------------------
(* _read_loop() and _process_frame(). *)

(* The reader task runs for the first time. *)
ReaderStarts ==
  /\ reader = "starting"
  /\ reader' = "running"
  /\ UNCHANGED <<client, owner, connected, stopping, port, line, late>>

(* The next frame has been read. *)
Reads(kinds) ==
  /\ reader = "running" /\ port = "open" /\ ~stopping
  /\ inbox # <<>> /\ Head(inbox).kind \in kinds
  /\ inbox' = Tail(inbox)
  /\ UNCHANGED <<pc, outcome, lock, pending, link, asked, late>>

Expecting == pending # NoCall /\ future = "waiting"

(* An event, or a frame nobody waits for, goes to the listeners. *)
Notify ==
  /\ Reads({"event"}) \/ (~Expecting /\ Reads({"ack", "nack", "signal", "data"}))
  /\ UNCHANGED <<answeredBy, future, collected>>

Ack ==
  /\ Expecting /\ Reads({"ack"})
  /\ future' = "ack"
  /\ answeredBy' = [answeredBy EXCEPT ![pending] = Head(inbox).to]
  /\ UNCHANGED collected

Nack ==
  /\ Expecting /\ Reads({"nack", "signal"})
  /\ future' = "empty"
  /\ UNCHANGED <<answeredBy, collected>>

(* A reply about something else goes to the listeners. *)
OffTopic ==
  /\ Expecting /\ Reads({"data"})
  /\ Topic[Head(inbox).to] # Topic[pending]
  /\ UNCHANGED <<answeredBy, future, collected>>

(* Mutant: one frame more than the budget. *)
CollectOneMore ==
  /\ Expecting /\ Reads({"data"})
  /\ Topic[Head(inbox).to] = Topic[pending]
  /\ IF collected > MaxFrames
     THEN future' = "overflow" /\ UNCHANGED collected
     ELSE collected' = collected + 1 /\ UNCHANGED future
  /\ UNCHANGED answeredBy

Collect ==
  /\ Expecting /\ Reads({"data"})
  /\ Topic[Head(inbox).to] = Topic[pending]
  /\ IF collected >= MaxFrames
     THEN future' = "overflow" /\ UNCHANGED collected
     ELSE collected' = collected + 1 /\ UNCHANGED future
  /\ UNCHANGED answeredBy

(* Mutant: the reader ends without telling send(). *)
ReaderEndsQuietly ==
  /\ \/ reader = "running" /\ port = "dead"
     \/ reader = "cancelled"
  /\ reader' = "done"
  /\ port' = "dead"
  /\ ResolvePending
  /\ UNCHANGED <<pc, outcome, answeredBy, lock, pending, collected, owner, connected,
                 stopping, line, late>>

(* The finally clause of the reader: unplugged, or cancelled. *)
ReaderEnds ==
  /\ \/ reader = "running" /\ port = "dead"
     \/ reader = "cancelled"
  /\ reader' = "done"
  /\ connected' = FALSE
  /\ port' = "dead"
  /\ ResolvePending
  /\ UNCHANGED <<pc, outcome, answeredBy, lock, pending, collected, owner, stopping,
                 line, late>>

(* parse() raises on a frame whose values it cannot convert (an empty one,  *)
(* a missing one): the reader catches no such exception, and its task ends  *)
(* with it, after the same finally clause.                                  *)
ParseRaises ==
  /\ reader = "running" /\ port = "open" /\ ~stopping
  /\ inbox # <<>> /\ Head(inbox).kind \in {"data", "event"}
  /\ inbox' = Tail(inbox)
  /\ reader' = "raised" /\ connected' = FALSE /\ port' = "dead"
  /\ ResolvePending
  /\ UNCHANGED <<pc, outcome, answeredBy, lock, pending, collected, owner, stopping,
                 asked, late>>

-----------------------------------------------------------------------------
(* connect() and disconnect(). *)

(* disconnect() up to its first await, then in state next.  A reader task   *)
(* cancelled before it has run is done without its finally clause.          *)
StopReader(next) ==
  /\ owner' = next
  /\ stopping' = TRUE /\ connected' = FALSE
  /\ ResolvePending
  /\ reader' = CASE reader = "running"  -> "cancelled"
                 [] reader = "starting" -> "done"
                 [] OTHER -> reader
  /\ UNCHANGED <<pc, outcome, answeredBy, lock, pending, collected, port, line, late>>

Connect ==
  /\ owner = "idle" /\ ~connected /\ port = "none"
  /\ owner' = "opening" /\ stopping' = FALSE
  /\ UNCHANGED <<client, connected, reader, port, line, late>>

(* What is left of a lost connection is disconnected first. *)
ConnectAgain ==
  /\ owner = "idle" /\ ~connected /\ port # "none"
  /\ StopReader("rejoining")

(* The line may hold what the interface sent before the port was opened. *)
OpenOk ==
  /\ owner = "opening"
  /\ owner' = "idle"
  /\ connected' = TRUE /\ port' = "open" /\ reader' = "starting"
  /\ inbox' \in {inbox, <<>>}
  /\ UNCHANGED <<client, stopping, asked, late>>

OpenFails ==
  /\ owner = "opening"
  /\ owner' = "idle"
  /\ UNCHANGED <<client, connected, stopping, reader, port, line, late>>

Disconnect == owner = "idle" /\ StopReader("joining")

(* Mutant: the port is closed while the reader still runs. *)
ClosePortUnjoined ==
  /\ owner \in {"joining", "rejoining"}
  /\ owner' = IF owner = "joining" THEN "closing" ELSE "reclosing"
  /\ port' = "none"
  /\ UNCHANGED <<client, connected, stopping, reader, line, late>>

(* The reader task is done: the port is closed. *)
ClosePort ==
  /\ owner \in {"joining", "rejoining"}
  /\ reader \in {"none", "done"}
  /\ owner' = IF owner = "joining" THEN "closing" ELSE "reclosing"
  /\ reader' = "none"
  /\ port' = "none"
  /\ UNCHANGED <<client, connected, stopping, line, late>>

(* The reader task ended with an exception, which leaves disconnect(), and  *)
(* a connect() that called it, before the port is forgotten.                *)
ReaderRaised ==
  /\ owner \in {"joining", "rejoining"} /\ reader = "raised"
  /\ owner' = "idle" /\ reader' = "none"
  /\ UNCHANGED <<client, connected, stopping, port, line, late>>

PortClosed ==
  /\ owner \in {"closing", "reclosing"}
  /\ IF owner = "closing"
     THEN owner' = "idle" /\ UNCHANGED stopping
     ELSE owner' = "opening" /\ stopping' = FALSE
  /\ UNCHANGED <<client, connected, reader, port, line, late>>

-----------------------------------------------------------------------------
(* The interface and the line (external). *)

Arrives(f) == Len(inbox) < MaxInbox /\ inbox' = Append(inbox, f)

(* The interface sends a frame of its answer to s, the last one or not. *)
InterfaceReplies(s) ==
  /\ s \in asked /\ port = "open"
  /\ \/ Arrives([kind |-> "data", to |-> s]) /\ UNCHANGED asked
     \/ \E k \in {"ack", "nack", "signal"} :
          Arrives([kind |-> k, to |-> s]) /\ asked' = asked \ {s}
  /\ UNCHANGED <<client, link, late>>

BusEvent ==
  /\ port = "open"
  /\ Arrives([kind |-> "event", to |-> NoCall])
  /\ UNCHANGED <<client, link, asked, late>>

Unplugged ==
  /\ port = "open"
  /\ port' = "dead"
  /\ UNCHANGED <<client, owner, connected, stopping, reader, line, late>>

-----------------------------------------------------------------------------
Send(s) ==
  \/ NotConnected(s) \/ Refuse(s) \/ WriteAtOnce(s) \/ Queue(s) \/ Granted(s) \/ WriterGone(s)
  \/ DrainFails(s) \/ Answered(s) \/ Timeout(s) \/ CancelWaiting(s) \/ CancelAnswering(s)

Reader ==
  \/ ReaderStarts \/ Notify \/ Ack \/ Nack \/ OffTopic \/ Collect \/ ReaderEnds \/ ParseRaises

Owner ==
  \/ Connect \/ ConnectAgain \/ OpenOk \/ OpenFails
  \/ Disconnect \/ ClosePort \/ ReaderRaised \/ PortClosed

Interface == BusEvent \/ Unplugged \/ \E s \in Calls : InterfaceReplies(s)

Next == Reader \/ Owner \/ Interface \/ \E s \in Calls : Send(s)

Spec == Init /\ [][Next]_vars

(* The event loop runs each task that is ready, and a response is awaited   *)
(* for a bounded time: no answer, and no call, is taken for granted.        *)
FairSpec ==
  /\ Spec
  /\ \A s \in Calls : WF_vars(Granted(s) \/ WriterGone(s) \/ Answered(s) \/ Timeout(s))
  /\ WF_vars(ReaderStarts \/ ReaderEnds)
  /\ WF_vars(ClosePort \/ ReaderRaised \/ PortClosed \/ OpenOk \/ OpenFails)

-----------------------------------------------------------------------------
(* Properties. *)

(* The pending future is that of the one call in the exchange, so what the  *)
(* reader resolves is never another call's (serial.py:204-225).             *)
OneExchange ==
  /\ pending = lock
  /\ \A s \in Calls : pc[s] = "answering" => lock = s
  /\ lock # NoCall => pc[lock] = "answering"

(* As long as no call has left its answer on the line, the ACK a call takes *)
(* for its own is its own, whatever the bus and a reconnection mix in.      *)
TimelyAnswersMatch ==
  ~late /\ future = "ack" /\ pending \in Calls => answeredBy[pending] = pending

(* A transport that says it is connected has an open or just broken port    *)
(* and a reader task that will notice (serial.py:81-82, 104-107, 228-229).  *)
ConnectedIsRead ==
  connected => port # "none" /\ reader \in {"starting", "running"} /\ ~stopping

(* From the end of disconnect() to the next connect() there is neither an   *)
(* open port nor a reader task that could still touch it (base.py:56), also *)
(* when disconnect() raises what the reader task ended with.                *)
DisconnectReleases ==
  stopping /\ owner = "idle" => port # "open" /\ reader = "none" /\ ~connected

(* Every call that got past the first checks ends, whatever the             *)
(* interface, the port and the other calls do (serial.py:204-225).          *)
CallsReturn ==
  \A s \in Calls : pc[s] \in {"waiting", "answering"} ~> pc[s] = "done"

(* What base.py:66 says of send(), "Send one command and return its         *)
(* response": a success is the success of that command.                     *)
AnswersMatch == \A s \in Calls : outcome[s] = "ok" => answeredBy[s] = s

(* What base.py:68 says of send(), "Raises ``RuntimeError`` when the        *)
(* transport is not connected": no other exception for want of a port.      *)
NotConnectedIsRuntimeError == \A s \in Calls : outcome[s] # "no_writer"
-----------------------------------------------------------------------------
(* The inductive invariant of the proofs. *)

(* Where the owner of the port is, and what is left of port and reader.     *)
LinkInv ==
  /\ port = "none" => reader = "none"
  /\ reader = "none" => port # "open"
  /\ reader = "raised" => port = "dead"
  /\ owner = "opening" => port = "none" /\ ~connected /\ ~stopping
  /\ owner \in {"joining", "rejoining"} =>
       stopping /\ ~connected /\ reader \notin {"starting", "running"}
  /\ owner \in {"closing", "reclosing"} => stopping /\ ~connected /\ port = "none"
  /\ reader = "cancelled" => owner \in {"joining", "rejoining"}

(* As long as no call has left its answer on the line, all that is on it    *)
(* is for a call still in the exchange.                                     *)
WireInv ==
  ~late =>
    /\ \A s \in asked : pc[s] = "answering"
    /\ \A i \in 1 .. Len(inbox) : inbox[i].to \in Calls => pc[inbox[i].to] = "answering"

IInv ==
  /\ TypeOK /\ OneExchange /\ TimelyAnswersMatch
  /\ LinkInv /\ ConnectedIsRead /\ DisconnectReleases /\ WireInv
=============================================================================

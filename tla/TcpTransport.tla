---------------------------- MODULE TcpTransport ----------------------------
(***************************************************************************)
(* AsyncTcpTransport: one event session and one command session made       *)
(* together, a listener task that reads the event session, tasks that call *)
(* connect() and disconnect(), tasks that call send().  What a session     *)
(* does by itself is in EventSession, CommandSession and Negotiation; here *)
(* it is a socket and a flag, and the steps by which its users open and    *)
(* close them.  Each action is the code a task runs from one await to the  *)
(* next.  Time is abstracted.                                              *)
(***************************************************************************)
EXTENDS Naturals

CONSTANTS Owners,      \* tasks that call connect() and disconnect()
          Senders,     \* calls of send()
          MaxPairs,    \* bound of the model: pairs of sessions made
          MaxAttempts  \* MAX_CONNECT_ATTEMPTS

ASSUME TransportAssumption == MaxPairs \in Nat /\ MaxAttempts \in Nat \ {0}

Pairs    == 1 .. MaxPairs
None     == 0
Event(g)   == <<"event", g>>      \* the sessions of a pair
Command(g) == <<"command", g>>
Sessions == {"event", "command"} \X Pairs

VARIABLES
  op,        \* where each owner is suspended
  why,       \* what its disconnect() was called for
  mine,      \* the pair its connect() made
  taken,     \* the pair its disconnect() took, or the listener it waits for
  tries,     \* retry_count of the session's connect() it is in
  made,      \* pairs made so far
  held,      \* _event_session and _command_session
  task,      \* _listener_task, named by the pair it was started with
  stopping,  \* _stopping
  listener,  \* where each listener task is suspended
  reads,     \* the pair it took the event session from
  cancelled, \* the listeners with a cancellation to come
  call,      \* where each send() is suspended
  using,     \* the pair it took the command session from
  sock,      \* the sessions with streams
  flag,      \* the sessions that say is_connected
  spoiled,   \* pairs taken by a disconnect() while in use, or not all closed
  abandoned  \* pairs whose connect() or disconnect() was cancelled or raised

owners    == <<op, why, mine, taken, tries>>
transport == <<made, held, task, stopping>>
listeners == <<listener, reads, cancelled>>
senders   == <<call, using>>
sessions  == <<sock, flag>>
ghosts    == <<spoiled, abandoned>>
vars == <<owners, transport, listeners, senders, sessions, ghosts>>

Opening == {"openEvent", "shakeEvent", "openCommand", "shakeCommand"}
Closing == {"stopKeepalive", "closeEvent", "closeCommand"}
Sending == {"queued", "opening", "shaking", "using"}
Ended   == {"none", "ended", "crashed"}

TypeOK ==
  /\ op \in [Owners -> Opening \cup Closing \cup {"idle", "join"}]
  /\ why \in [Owners -> {"none", "connect", "failed", "disconnect"}]
  /\ mine \in [Owners -> 0 .. MaxPairs] /\ taken \in [Owners -> 0 .. MaxPairs]
  /\ tries \in [Owners -> 0 .. MaxAttempts]
  /\ made \in 0 .. MaxPairs /\ held \in 0 .. made /\ task \in 0 .. made
  /\ stopping \in BOOLEAN
  /\ listener \in [Pairs -> Ended \cup {"top", "reading", "recycling", "opening", "shaking"}]
  /\ reads \in [Pairs -> 0 .. MaxPairs] /\ cancelled \subseteq Pairs
  /\ call \in [Senders -> Sending \cup {"idle", "done", "raised"}]
  /\ using \in [Senders -> 0 .. MaxPairs]
  /\ sock \subseteq Sessions /\ flag \subseteq Sessions
  /\ spoiled \subseteq Pairs /\ abandoned \subseteq Pairs

Init ==
  /\ op = [o \in Owners |-> "idle"] /\ why = [o \in Owners |-> "none"]
  /\ mine = [o \in Owners |-> None] /\ taken = [o \in Owners |-> None]
  /\ tries = [o \in Owners |-> 0]
  /\ made = 0 /\ held = None /\ task = None /\ stopping = FALSE
  /\ listener = [g \in Pairs |-> "none"] /\ reads = [g \in Pairs |-> None]
  /\ cancelled = {}
  /\ call = [s \in Senders |-> "idle"] /\ using = [s \in Senders |-> None]
  /\ sock = {} /\ flag = {} /\ spoiled = {} /\ abandoned = {}

Goes(o, place) == op' = [op EXCEPT ![o] = place]

(* The session of a pair that an owner's connect() is at, and its two steps. *)
At(o) == IF op[o] \in {"openEvent", "shakeEvent"} THEN Event(mine[o]) ELSE Command(mine[o])
IsOpening(o) == op[o] \in {"openEvent", "openCommand"}
IsShaking(o) == op[o] \in {"shakeEvent", "shakeCommand"}

(* Some call is at work on the sessions of pair g. *)
InUse(o, g) == \/ \E s \in Senders : call[s] \in Sending /\ using[s] = g
               \/ \E p \in Owners \ {o} : op[p] \in Opening /\ mine[p] = g

-----------------------------------------------------------------------------
(* disconnect(). *)

(* connect() makes a new pair, and opens the event session first. *)
Make(o) ==
  /\ made < MaxPairs
  /\ made' = made + 1 /\ held' = made + 1 /\ stopping' = FALSE
  /\ mine' = [mine EXCEPT ![o] = made + 1]
  /\ tries' = [tries EXCEPT ![o] = 0]
  /\ Goes(o, "openEvent")

(* The sessions are dropped from the transport, then closed one after the   *)
(* other; without any, disconnect() is over.                                *)
TakeSessions(o) ==
  /\ held # None
  /\ taken' = [taken EXCEPT ![o] = held]
  /\ spoiled' = IF InUse(o, held) THEN spoiled \cup {held} ELSE spoiled
  /\ held' = None
  /\ Goes(o, "stopKeepalive")

(* Mutant: the listener is cancelled and not awaited. *)
DisconnectUnjoined(o, reason) ==
  /\ stopping' = TRUE /\ task' = None
  /\ why' = [why EXCEPT ![o] = reason]
  /\ cancelled' = IF task # None /\ listener[task] \notin Ended THEN cancelled \cup {task}
                                                                ELSE cancelled
  /\ \/ TakeSessions(o)
     \/ held = None /\ Goes(o, "idle") /\ UNCHANGED <<taken, held, spoiled>>
  /\ UNCHANGED <<mine, tries, made>>

(* The listener is cancelled and awaited. *)
Disconnect(o, reason) ==
  /\ stopping' = TRUE /\ task' = None
  /\ why' = [why EXCEPT ![o] = reason]
  /\ IF task # None
     THEN /\ cancelled' = IF listener[task] \notin Ended THEN cancelled \cup {task} ELSE cancelled
          /\ taken' = [taken EXCEPT ![o] = task]
          /\ Goes(o, "join")
          /\ UNCHANGED <<held, spoiled>>
     ELSE /\ \/ TakeSessions(o)
             \/ held = None /\ Goes(o, "idle") /\ UNCHANGED <<taken, held, spoiled>>
          /\ UNCHANGED cancelled
  /\ UNCHANGED <<mine, tries, made>>

(* It is over: what follows depends on its caller. *)
Disconnected(o) ==
  IF why[o] = "connect" THEN Make(o) ELSE Goes(o, "idle") /\ UNCHANGED <<made, held, stopping, mine, tries>>

CallDisconnect(o) ==
  /\ op[o] = "idle"
  /\ Disconnect(o, "disconnect")
  /\ UNCHANGED <<listener, reads, senders, sessions, abandoned>>

Joined(o) ==
  /\ op[o] = "join" /\ listener[taken[o]] \in Ended
  /\ \/ TakeSessions(o) /\ UNCHANGED <<made, stopping, mine, tries>>
     \/ held = None /\ Disconnected(o) /\ UNCHANGED <<taken, spoiled>>
  /\ UNCHANGED <<why, task, listeners, senders, sessions, abandoned>>

(* close() of the event session, once its keepalive task has stopped. *)
CloseEvent(o) ==
  /\ op[o] = "stopKeepalive"
  /\ sock' = sock \ {Event(taken[o])}
  /\ Goes(o, "closeEvent")
  /\ UNCHANGED <<why, mine, taken, tries, transport, listeners, senders, flag, ghosts>>

(* Mutant: only the event session is closed. *)
CloseEventOnly(o) ==
  /\ op[o] = "closeEvent"
  /\ flag' = flag \ {Event(taken[o])}
  /\ Goes(o, "closeCommand")
  /\ UNCHANGED <<why, mine, taken, tries, transport, listeners, senders, sock, ghosts>>

CloseCommand(o) ==
  /\ op[o] = "closeEvent"
  /\ flag' = flag \ {Event(taken[o])}
  /\ sock' = sock \ {Command(taken[o])}
  /\ Goes(o, "closeCommand")
  /\ UNCHANGED <<why, mine, taken, tries, transport, listeners, senders, ghosts>>

Closed(o) ==
  /\ op[o] = "closeCommand"
  /\ flag' = flag \ {Command(taken[o])}
  /\ Disconnected(o)
  /\ UNCHANGED <<why, taken, task, listeners, senders, sock, ghosts>>

(* A cancellation while a session is closed; one that finds disconnect()    *)
(* waiting for the listener is passed on to it, and suppressed.             *)
CancelClosing(o) ==
  /\ op[o] \in Closing
  /\ spoiled' = spoiled \cup {taken[o]} /\ abandoned' = abandoned \cup {taken[o]}
  /\ Goes(o, "idle")
  /\ UNCHANGED <<why, mine, taken, tries, transport, listeners, senders, sessions>>

-----------------------------------------------------------------------------
(* connect(). *)

CallConnect(o) ==
  /\ op[o] = "idle" /\ made < MaxPairs
  /\ IF held # None
     THEN Disconnect(o, "connect")
     ELSE Make(o) /\ UNCHANGED <<why, taken, task, cancelled, spoiled>>
  /\ UNCHANGED <<listener, reads, senders, sessions, abandoned>>

Opened(o) ==
  /\ IsOpening(o)
  /\ sock' = sock \cup {At(o)}
  /\ Goes(o, IF op[o] = "openEvent" THEN "shakeEvent" ELSE "shakeCommand")
  /\ UNCHANGED <<why, mine, taken, tries, transport, listeners, senders, flag, ghosts>>

(* Mutant: no last attempt. *)
RetriesForever(o) ==
  /\ IsOpening(o) \/ IsShaking(o)
  /\ tries' = [tries EXCEPT ![o] = @ + 1]
  /\ sock' = sock \ {At(o)}
  /\ Goes(o, IF At(o) = Event(mine[o]) THEN "openEvent" ELSE "openCommand")
  /\ UNCHANGED <<why, mine, taken, transport, listeners, senders, flag, ghosts>>

(* An attempt fails with others left. *)
Retries(o) ==
  /\ IsOpening(o) \/ IsShaking(o)
  /\ tries[o] + 1 < MaxAttempts
  /\ tries' = [tries EXCEPT ![o] = @ + 1]
  /\ sock' = sock \ {At(o)}
  /\ Goes(o, IF At(o) = Event(mine[o]) THEN "openEvent" ELSE "openCommand")
  /\ UNCHANGED <<why, mine, taken, transport, listeners, senders, flag, ghosts>>

(* Mutant: nothing is released. *)
ConnectFailsHolding(o) ==
  /\ IsOpening(o) \/ IsShaking(o)
  /\ sock' = sock \ {At(o)} /\ flag' = flag \ {At(o)}
  /\ Goes(o, "idle") /\ held' = None
  /\ UNCHANGED <<why, mine, taken, tries, made, task, stopping, listeners, senders, ghosts>>

(* A session's connect() gives up, or is refused: disconnect(). *)
ConnectFails(o) ==
  /\ IsOpening(o) \/ IsShaking(o)
  /\ sock' = sock \ {At(o)} /\ flag' = flag \ {At(o)}
  /\ Disconnect(o, "failed")
  /\ UNCHANGED <<listener, reads, senders, abandoned>>

EventIsUp(o) ==
  /\ op[o] = "shakeEvent"
  /\ flag' = flag \cup {At(o)}
  /\ tries' = [tries EXCEPT ![o] = 0]
  /\ Goes(o, "openCommand")
  /\ UNCHANGED <<why, mine, taken, transport, listeners, senders, sock, ghosts>>

(* Mutant: no listener is started. *)
CommandIsUpUnheard(o) ==
  /\ op[o] = "shakeCommand"
  /\ flag' = flag \cup {At(o)}
  /\ Goes(o, "idle")
  /\ UNCHANGED <<why, mine, taken, tries, transport, listeners, senders, sock, ghosts>>

(* Both are: the listener is started, and connect() returns True. *)
CommandIsUp(o) ==
  /\ op[o] = "shakeCommand"
  /\ flag' = flag \cup {At(o)}
  /\ task' = mine[o] /\ listener' = [listener EXCEPT ![mine[o]] = "top"]
  /\ Goes(o, "idle")
  /\ UNCHANGED <<why, mine, taken, tries, made, held, stopping, reads, cancelled, senders, sock,
                 ghosts>>

(* connect() is cancelled, or lets an exception of a negotiation through.   *)
Abandons(o) ==
  /\ IsOpening(o) \/ IsShaking(o)
  /\ abandoned' = abandoned \cup {mine[o]}
  /\ Goes(o, "idle")
  /\ UNCHANGED <<why, mine, taken, tries, transport, listeners, senders, sessions, spoiled>>

-----------------------------------------------------------------------------
(* _listen_loop() of the task started with pair g. *)

Listens(g, place) == listener' = [listener EXCEPT ![g] = place]

(* Mutant: the loop looks at neither. *)
ListenForever(g) ==
  /\ listener[g] = "top"
  /\ IF held # None
     THEN /\ reads' = [reads EXCEPT ![g] = held]
          /\ Listens(g, IF Event(held) \in sock THEN "reading" ELSE "recycling")
     ELSE UNCHANGED <<listener, reads>>
  /\ UNCHANGED <<owners, transport, cancelled, senders, sessions, ghosts>>

(* The condition of the loop, and get_next() of the session it finds. *)
Listen(g) ==
  /\ listener[g] = "top"
  /\ IF ~stopping /\ held # None
     THEN /\ reads' = [reads EXCEPT ![g] = held]
          /\ Listens(g, IF Event(held) \in sock THEN "reading" ELSE "recycling")
     ELSE Listens(g, "ended") /\ UNCHANGED reads
  /\ UNCHANGED <<owners, transport, cancelled, senders, sessions, ghosts>>

Heard(g) ==
  /\ listener[g] = "reading" /\ g \notin cancelled
  /\ Listens(g, "top")
  /\ UNCHANGED <<owners, transport, reads, cancelled, senders, sessions, ghosts>>

Lost(g) ==
  /\ listener[g] = "reading" /\ g \notin cancelled
  /\ Listens(g, "recycling")
  /\ UNCHANGED <<owners, transport, reads, cancelled, senders, sessions, ghosts>>

(* The keepalive task has ended; a cancellation that came meanwhile may be  *)
(* suppressed with its own.                                                 *)
Recycled(g) ==
  /\ listener[g] = "recycling"
  /\ sock' = sock \ {Event(reads[g])}
  /\ cancelled' = cancelled \ {g}
  /\ Listens(g, "opening")
  /\ UNCHANGED <<owners, transport, reads, senders, flag, ghosts>>

Reopened(g) ==
  /\ listener[g] = "opening" /\ g \notin cancelled
  /\ sock' = sock \cup {Event(reads[g])}
  /\ Listens(g, "shaking")
  /\ UNCHANGED <<owners, transport, reads, cancelled, senders, flag, ghosts>>

Reconnected(g) ==
  /\ listener[g] = "shaking" /\ g \notin cancelled
  /\ flag' = flag \cup {Event(reads[g])}
  /\ Listens(g, "top")
  /\ UNCHANGED <<owners, transport, reads, cancelled, senders, sock, ghosts>>

(* The reconnection gives up; it is tried again from get_next(). *)
ReconnectFails(g) ==
  /\ listener[g] \in {"opening", "shaking"} /\ g \notin cancelled
  /\ sock' = sock \ {Event(reads[g])} /\ flag' = flag \ {Event(reads[g])}
  /\ Listens(g, "top")
  /\ UNCHANGED <<owners, transport, reads, cancelled, senders, ghosts>>

(* An exception ends the loop: see EventSession!ConnectedIsListening.       *)
ListenerCrashes(g) ==
  /\ listener[g] = "shaking" /\ g \notin cancelled
  /\ Listens(g, "crashed")
  /\ UNCHANGED <<owners, transport, reads, cancelled, senders, sessions, ghosts>>

ListenerCancelled(g) ==
  /\ g \in cancelled /\ listener[g] \notin Ended
  /\ Listens(g, "ended") /\ cancelled' = cancelled \ {g}
  /\ UNCHANGED <<owners, transport, reads, senders, sessions, ghosts>>

-----------------------------------------------------------------------------
(* send(), of which only what it does to the session it was given. *)

Calls(s, place) == call' = [call EXCEPT ![s] = place]

Send(s) ==
  /\ call[s] = "idle"
  /\ IF held = None
     THEN Calls(s, "raised") /\ UNCHANGED using
     ELSE Calls(s, "queued") /\ using' = [using EXCEPT ![s] = held]
  /\ UNCHANGED <<owners, transport, listeners, sessions, ghosts>>

(* It has the lock: a session without streams is opened first. *)
Granted(s) ==
  /\ call[s] = "queued"
  /\ \A t \in Senders \ {s} : using[t] = using[s] => call[t] \in {"queued", "done"}
  /\ Calls(s, IF Command(using[s]) \in sock THEN "using" ELSE "opening")
  /\ UNCHANGED <<owners, transport, listeners, using, sessions, ghosts>>

SendOpens(s) ==
  /\ call[s] = "opening"
  /\ sock' = sock \cup {Command(using[s])}
  /\ Calls(s, "shaking")
  /\ UNCHANGED <<owners, transport, listeners, using, flag, ghosts>>

SendConnects(s) ==
  /\ call[s] = "shaking"
  /\ flag' = flag \cup {Command(using[s])}
  /\ Calls(s, "using")
  /\ UNCHANGED <<owners, transport, listeners, using, sock, ghosts>>

Sent(s) ==
  /\ call[s] = "using"
  /\ Calls(s, "done")
  /\ UNCHANGED <<owners, transport, listeners, using, sessions, ghosts>>

(* The connection is lost: an idempotent query is sent once more. *)
SendAgain(s) ==
  /\ call[s] = "using"
  /\ sock' = sock \ {Command(using[s])}
  /\ Calls(s, "opening")
  /\ UNCHANGED <<owners, transport, listeners, using, flag, ghosts>>

(* send() closes the session: no connection, or no answer. *)
SendFails(s) ==
  /\ call[s] \in {"opening", "shaking", "using"}
  /\ sock' = sock \ {Command(using[s])} /\ flag' = flag \ {Command(using[s])}
  /\ Calls(s, "done")
  /\ UNCHANGED <<owners, transport, listeners, using, ghosts>>

-----------------------------------------------------------------------------
OwnerWorks(o) ==
  \/ Joined(o) \/ CloseEvent(o) \/ CloseCommand(o) \/ Closed(o)
  \/ Opened(o) \/ Retries(o) \/ ConnectFails(o) \/ EventIsUp(o) \/ CommandIsUp(o)

OwnerCalls(o) == CallDisconnect(o) \/ CallConnect(o) \/ Abandons(o) \/ CancelClosing(o)

Listener(g) ==
  \/ Listen(g) \/ Heard(g) \/ Lost(g) \/ Recycled(g) \/ Reopened(g) \/ Reconnected(g)
  \/ ReconnectFails(g) \/ ListenerCrashes(g) \/ ListenerCancelled(g)

Sender(s) ==
  \/ Send(s) \/ Granted(s) \/ SendOpens(s) \/ SendConnects(s) \/ Sent(s) \/ SendAgain(s)
  \/ SendFails(s)

Next ==
  \/ \E o \in Owners : OwnerWorks(o) \/ OwnerCalls(o)
  \/ \E g \in Pairs : Listener(g)
  \/ \E s \in Senders : Sender(s)

Spec == Init /\ [][Next]_vars

(* The loop runs every task that can go on, and every wait has a limit.     *)
(* Nobody has to call anything.                                             *)
FairSpec ==
  /\ Spec
  /\ \A o \in Owners : WF_vars(OwnerWorks(o))
  /\ \A g \in Pairs : WF_vars(Listener(g))

-----------------------------------------------------------------------------
(* Properties. *)

Quiet == /\ \A o \in Owners : op[o] = "idle"
         /\ \A s \in Senders : call[s] \notin Sending

IsConnected == held # None /\ {Event(held), Command(held)} \subseteq flag

(* Every session with streams is the transport's own or about to be closed  *)
(* by a disconnect(): failures half-way, reconnections by the listener and  *)
(* abandoned calls of connect() included (tcp.py:52-65, 81-98).  Except    *)
(* those of a pair that a call was using as they were taken.                *)
NoOrphan ==
  \A k \in {"event", "command"}, g \in Pairs \ spoiled :
    <<k, g>> \in sock =>
      \/ g = held
      \/ \E o \in Owners : /\ taken[o] = g
                           /\ op[o] \in IF k = "event" THEN {"stopKeepalive"}
                                        ELSE {"stopKeepalive", "closeEvent"}

(* Once connect() has returned, a connected transport has a listener that   *)
(* reads its event session, unless that crashed (tcp.py:67, 70-79).         *)
ConnectedIsHeard ==
  IsConnected /\ Quiet /\ held \notin abandoned =>
    /\ task = held /\ listener[held] \notin {"none", "ended"}
    /\ listener[held] \in {"reading", "recycling", "opening", "shaking"} => reads[held] = held

(* Two listeners never run at once: they would read one stream, or deliver  *)
(* events of sessions nobody holds (tcp.py:49, 84-89).                      *)
OneListener ==
  \A g, h \in Pairs : listener[g] \notin Ended /\ listener[h] \notin Ended => g = h

(* Of the pairs of sessions that a transport makes one is in use, with one *)
(* listener, and the others are closed (tcp.py:49-98).                     *)
OnePairInUse == NoOrphan /\ ConnectedIsHeard /\ OneListener

(* connect() and disconnect() return, even where the listener's             *)
(* cancellation was suppressed (tcp.py:72, 82-89).                          *)
OwnersReturn == \A o \in Owners : op[o] # "idle" ~> op[o] = "idle"

(* What base.py:56 says of disconnect(): "Close the transport and release   *)
(* its resources": once every call has returned.                            *)
DisconnectReleases ==
  Quiet /\ held = None => \A k \in {"event", "command"}, g \in Pairs \ abandoned : <<k, g>> \notin sock

(* What base.py:43 says of is_connected: "Return whether the transport is   *)
(* connected and ready": somebody reads its events.                         *)
ReadyIsHeard == IsConnected /\ Quiet => task = held
=============================================================================

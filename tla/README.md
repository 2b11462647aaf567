# OWNd in TLA+

TLA+ models of [OWNd](../src/README.md), a Python library that speaks OpenWebNet to
BTicino/Legrand gateways, over TCP or over a serial interface. The library is used inside an
asyncio event loop (typically Home Assistant): it keeps two long-lived sessions to a gateway,
sends commands on one, listens to bus events on the other, and must survive gateways that
refuse sessions, recycle them every hour, answer late, or disappear.

Paths below are relative to `src/OWNd/`; line numbers are those of `src/`.

## 1. The system

### Components, their state and their operations

| Component | State | Operations |
|---|---|---|
| Session opening and negotiation, `connection/session.py` | streams, `_connected`, `_last_error`, `_connect_max_attempts_override` | `connect`, `_reconnect`, `close`, `_close_streams`, `_negotiate`, `test_connection` |
| Command session, `connection/command_session.py` | the above, `_send_lock`, `_last_reconnect_failure` | `connect`, `send`, `keepalive`, `run_keepalive` |
| Event session, `connection/event_session.py` | the above, `_keepalive_task`, `_recent_drops`, `_last_drop_warning` | `connect`, `get_next`, `close`, the keepalive loop |
| TCP transport, `transport/tcp.py` | the two sessions, `_listener_task`, `_stopping` | `connect`, `disconnect`, `send`, the listener loop |
| Serial transport, `transport/serial.py` | reader and writer, `_reader_task`, `_command_lock`, `_pending_future/_request/_frames`, `_connected`, `_stopping` | `connect`, `disconnect`, `send`, the read loop |
| Authentication arithmetic, `connection/auth.py` | none | legacy password hash, HMAC strings |
| Gateway description, `connection/gateway.py` | what discovery or configuration said of a gateway, its firmware and profile | constructors, `build_from_discovery_info`, property setters |
| Discovery, `discovery.py` | the answers of an SSDP search | search, descriptor and port fetch, lookup by address |
| Profiles, `profiles.py` | constant tables | the profile of a model and a firmware |
| Message parsing and dispatch, `message/base.py` and friends | none | a line to an object, builders' common part |
| WHO families, `message/*.py` | the coarse-dimmer registry of `lighting.py`; otherwise none | decode an event, build commands and requests |
| Exceptions, `exceptions.py` | none | types |
| Command line, `__main__.py` | none | a demonstration client |

### Interactions

All code runs in one event loop, so tasks interleave only at `await`. The consumer's tasks call
`send()` concurrently, on one `asyncio.Lock` per session; a listener task calls `get_next()` in a
loop; the event session starts a keepalive task that writes on the session's stream; any task
may be cancelled at any `await`; `close()` and `disconnect()` may be called by a task other than
those. Callbacks (`on_state_change`, `on_auth_error`, listeners) are synchronous and their
exceptions are contained. Nothing is persisted: a crash of the process loses everything and
there is no recovery to model.

### What is hard, and what must hold

The full list, with its lines, is `hazards` in `PROJECT.json`. In short:

* **Command session.** A write and its acknowledgement must not be separated by another
  caller's, nor by the leftovers of a call that timed out, was cancelled, or lost its
  connection. A command whose acknowledgement was lost must not be written again; a query may.
  Every path must release the lock, the socket and the truth about `is_connected`.
* **Negotiation.** The exchange has a length that depends on the authentication and on the
  alternate session; an ACK too many or too few is read by the first command. Transient
  failures must be retried, and only credentials may be fatal. The flag, the stored error and
  the callbacks must agree after any sequence of failures.
* **Event session.** The keepalive task must not outlive its socket; a cancellation may be
  swallowed while the keepalive task is awaited; reconnections must not flood the gateway, and
  must go on until it is back.
* **Serial transport.** One port carries answers and events; the reader task, the callers, the
  time limits and `disconnect()` all touch one pending future.
* **Several tasks on one session.** `connect()` takes no lock, `send()` does: a consumer's
  `connect()` and a reconnection inside somebody's `send()` overlap on one pair of streams, on one
  retry budget and on one cooldown.
* **TCP transport.** Two sessions are made, opened and given up together by tasks that may overlap.
* **Setup.** Anyone answers a search, descriptors may be missing or mute, and versions are compared
  as tuples of any length. The gateway that comes out must be the one asked for.
* **Message families.** No concurrency of their own, but three things that a unit test of a decoder
  does not show: what a builder writes must be what the decoder reads back of its effect; a
  consumer that follows a *sequence* of events must end with what the plant is; and state outside the
  frame (the dimmer registry, today's date) is read at a moment the frame knows nothing of.

## 2. The modules

| Module | Models | Extends / instantiates |
|---|---|---|
| `CommandRpc` | the contract of `send()`: outcomes and executions, no session | |
| `CommandSession` | `OWNCommandSession` and the parts of `OWNSession` it runs | instantiates `CommandRpc` |
| `CommandSessionHazards` | two more behaviours of it, each under its own specification | `CommandSession` |
| `CommandSessionProofs` | theorems: types, sockets, exchanges, the flag, answers and the refinement | `CommandSession` |
| `Negotiation` | `OWNSession.connect()` with every frame of the negotiation | |
| `EventSession` | `OWNEventSession` as `AsyncTcpTransport` runs it | |
| `SerialTransport` | `AsyncSerialTransport` | |
| `SerialTransportProofs` | theorems | `SerialTransport` |
| `EventSessionProofs`, `NegotiationProofs` | theorems | `EventSession`, `Negotiation` |
| `SessionOverlap` | one command session used by several tasks: overlapping `connect()`, the override of the attempts, the cooldown | |
| `TcpTransport` | `AsyncTcpTransport`: both sessions, the listener, the tasks that connect, disconnect and send | |
| `Auth` | `calculate_open_password()` on words of 32 bits | |
| `Discovery` | the ways to an `OWNGateway`: given, looked up, searched for | |
| `GatewayProfile` | profiles, and a gateway that follows its firmware | |
| `ConnectionProofs` | theorems about these five | `Auth`, `SessionOverlap`, `TcpTransport`, `Discovery`, `GatewayProfile` |
| `OwnFrame` | a frame as the decoders see it, with the constructors of `message/base.py` | |
| `Bus` | the way of a frame: built, carried out, reported, decoded | `OwnFrame` |
| `Dispatch` | which class and which type a line becomes | |
| `Lighting`, `Heating`, `Sound`, `Energy`, `DoorEntry`, `GatewayClock` | WHO 1; 4; 16 and 22; 18; 6 and 8; 13: builders and decoders around a plant | `OwnFrame` or `Bus` |
| `Families` | these six and `Dispatch` side by side | extends `Dispatch`, instantiates the six |
| `PlantProofs`, `FamilyProofs` | theorems about them: the bus and WHO 6, 8, 13, 16, 18, 22; `Dispatch`, WHO 1 and 4, and all together | `Families`, `PlantProofs` |
| `Alarm`, `Cen`, `Shutter`, `Scenario`, `Load`, `Diagnostics` | WHO 5; 15 and 25; 2 and 14; 0 and 17; 3; 1004: a consumer that follows the events | `OwnFrame` |
| `Followers` | these six side by side | instantiates them |
| `FollowerProofs` | theorems about them | `Followers` |
| `MCSessions`, `MCFamilies`, `MCFollowers` | several of these side by side | their parts |
| other `MC*` | one instance each; the bounds are in the `.cfg` files and the MC modules | |

### Conventions

* An action is the code a task runs from one `await` to the next. An `await` that suspends only
  sometimes (a `drain()`, a `wait_closed()` on a closed socket) is taken to suspend: this adds
  interleavings and removes none. The exception is the serial transport's lock, which an
  `asyncio.Lock` that is free and not queued for grants without suspending (`LockFree`).
* Clocks are abstracted. A time limit may fire whenever its task waits, a back-off or a cooldown
  may end at any time. What depends on *how long* something lasts is not modelled.
* Frames are records of a kind and of the exchange they answer. The second field is a ghost: no
  guard of the program's actions reads it, except `SerialTransport!OffTopic`, whose code compares
  WHO and WHERE (constant `Topic`).
* The gateway, the serial interface and the network are external. They answer, refuse, are
  silent, break a connection with or without the frames on their way, and in `Negotiation` speak
  out of turn once (`odd`). A frame in flight of a closed connection may still be carried out.

### `CommandSession`

`pc[s]` is where call `s` is suspended: on the lock (`waiting`), in the in-send connect
(`opening`, `shaking`, `releasing`), in the response (`reading`), in `_close_streams()` of the
reset handler (`recycling`), or in `close()` (`closing`). `stream` stands for
`_stream_reader`/`_stream_writer`, which always change together; `reader[p]` is the `StreamReader`
an awaited read is bound to, which may no longer be the session's. `sock` and `peer` are the two
ends of each TCP connection. `runs[s]` counts how often the gateway carried out the frame of `s`.
`Attempt` is the head of the retry loop, shared by the first attempt (`Acquire`), the NACK retry
(`RetryNack`) and the query's retry (`Resend`).

The negotiation is one exchange here. What the command session relies on, that a successful
negotiation leaves nothing unread, is `CleanHandover` of `Negotiation`.

Discipline assumed of the consumer, and why: `connect()` is called with no `send()` and no
`close()` in progress, as the comment at `command_session.py:330-339` describes its callers. A
frame is either refused by the checks before the first write (`Refused`) or valid. Two behaviours
are outside `CommandSession` and have a specification of their own in `CommandSessionHazards`,
because they break its invariants: a cancellation inside the in-send `connect()`, and a retry
after the last `close()`. A cancellation inside the `close()` of an exception handler is left out:
`ConnectedIsOpen` and the properties beside it are about handlers that come to their end.

### `Negotiation`

One task in `connect()`; `pc` names the frame it waits for: `first` (answer to `*99*0`/`*99*1`),
`alternate` (to `*99*9`), `second` (the acceptance or the challenge), `nonce` and `digest` (HMAC),
`reply` (legacy). The configuration (session type, password, authentication asked for, alternate
session) is chosen in `Init`, so one run covers them all. Cryptography is symbolic. `stale` counts
the sessions a gateway holds for closed connections: with its slots full it refuses.

### `EventSession`

The listener (`pc`), the keepalive tasks (one per connection it was started for, so that two could
coexist if the code let them), `disconnect()` (`closer`), and a gateway that comes and goes
(`world`). `cancelled` is the cancellation requested by `disconnect()`: it is raised at the
listener's next resumption, except in `unkeeping`, where `contextlib.suppress(CancelledError)`
around the await of the keepalive task swallows it (`event_session.py:80`, action `Recycle`).
A gateway that is reachable does not drop a connection under negotiation; one that does is away.

### `SerialTransport`

The calls (`pc`), the lock, the one pending future and whose it is, the reader task, the owner
(`connect()` and `disconnect()`, one task), the port. `late` records that some call has ended
with its answer still to come: the ghost that separates what the transport guarantees
(`TimelyAnswersMatch`) from what its documentation says (`AnswersMatch`). A frame that
`OWNMessage.parse()` cannot read (`*#1*11*1*##` raises at `lighting.py:368`) ends the reader with an
exception that the loop does not catch (`ParseRaises`); the port is closed all the same, and the next
`disconnect()` raises it again, having left the rest undone (`ReaderRaised`, `serial.py:239`).

### `SessionOverlap`

One `OWNCommandSession` shared the way the comment at `command_session.py:330` tells it: workers
that call `connect()` themselves and then `send()`, and keepalives that only `send()`. `send()` holds
`_send_lock`, `connect()` takes none, so both may be inside `connect()`, each on streams the other
has replaced. `override` is `_connect_max_attempts_override`, `cooling` the cooldown after a failed
reconnection. The negotiation is its two answers here; `Negotiation` has the whole of it. A task reads
from the connection that the session had when it began to (`reading`) and writes to the one it has now;
every frame carries, as a ghost, the task whose frame it answers, and a connection on which the
negotiation of another connection was written is `mixed`.

Overlapping connections do disturb each other: the streams of one are overwritten and closed by the
other, and a consumer's `connect()` gets the single attempt of a `send()` (`FullWindow`, refuted).
`OverlapContained` is what remains: the override ends with the `connect()` it is for, a `send()`
makes one attempt and does not stall those behind it, the cooldown is kept but for the `connect()`s
that clear it (`command_session.py:78`), and the answer a call takes is to its
own frame, unless the connection is mixed. Every task returns (`TasksReturn`).

### `TcpTransport`

The tasks that call `connect()` and `disconnect()` (`op`), those that call `send()` (`call`), and per
pair of sessions a listener task; `mine` is what a `connect()` holds in local names, `held` what the
transport does. What a session does by itself is in the modules above; here it is a socket and a
flag. Of `send()` it has what that does to its session: reconnect, use, close. The cooldown is left
out, so a `send()` may reconnect more often than it does.

### `Auth`

`calculate_open_password()` digit by digit. A word of 32 bits is a function from the positions of
its bits, a shift is masked at once (the code masks after each digit). `meant` is the reference: per
digit a rotation, an exchange of bytes or the complement, whatever the code's shifts and masks are.
The nonce is not in `Init` but arrives digit by digit, so that every length is covered.

### `Discovery` and `GatewayProfile`

`Discovery` follows one call of `build_from_discovery_info()` through `find_from_address()`,
`get_gateway()`, `get_port()`, `find_gateways()` and `_get_scpd_details()`, and the event session
that `__main__.py` makes of the result. `net` says of each device what its descriptor has, on which
port, and whether it answers; `recvq` and `found` are the queue and the list of the code. The text of
requests, headers and XML is abstracted to what comes of it. An answer to the search has the address
of its sender and the LOCATION it names, which may be on another host: the details are then that
one's. Where an element stands for a text, `_node_text()` raises `AttributeError` (`discovery.py:48`), which
neither `get_port()` nor `find_gateways()` expects: the call ends with it (`BuildRaises`,
`DetailsRaise`), although the comments at `discovery.py:314` and `387` have a malformed descriptor
"fall back to the default port instead of crashing discovery" and a gateway whose details fail "still
returned". `GatewayIsFound` is about searches that return. `GatewayProfile` has the table of
`profiles.py` and `OWNGateway.firmware`'s setter; a firmware is the sequence of its numbers.

### `OwnFrame`, `Bus` and `Dispatch`

A frame is a record of what `OWNMessage.__init__` leaves of the text: type, WHO, WHERE, WHAT,
dimension and values. `Bus` is the frame's way from a builder to a plant and back to a decoder;
what the caller meant, or the plant had to tell, travels with it as a ghost. `Dispatch` is about the
text itself, as shapes of its fields: `parse()` tries the regular expressions in one order to choose
a class, `__init__` in another to fill the object in (`base.py:157`, `base.py:259`).

### The families with a plant: `Lighting`, `Heating`, `Sound`, `Energy`, `DoorEntry`, `GatewayClock`

Every builder is an action that posts a frame, or nothing where it raises. The plant, external,
carries it out and reports. The event is decoded by the operators translated from the `__init__` and
the properties of the family's event class.

* `Lighting`: the registry of coarse dimmers is process-wide and keyed by gateway and WHERE; it is
  read when a command is built *and* when a report is decoded, and taught by reports. A dimmer may be
  replaced by one of the other type at any time, with commands and reports under way, and an address
  may be registered by hand; between that and the next report a level can be misread
  (`lighting.py:302`), and `EventsTellTheTruth` says when: only where the registry holds a replaced dimmer's
  type, or an unscoped entry that no report has overruled (`Misplaced`).
* `Heating`: setpoints are rounded to half degrees, a tie to the even half, limited to 5..40 and
  written in tenths; zones, actuators and central units share numbers.
* `Sound`: WHO 16 and the diffusion of WHO 22, with their two ways to write a source, a level and a
  frequency, and `select_source()`, which is two frames.
* `Energy`: a date is YYYYMMDD; answers carry a day and a month, or a month alone, and `today` may
  turn between the question and the answer. The code deduces the year when it decodes, and the
  properties say which year that is. A sample gets the last day of its name: the day asked for if that
  is less than a year old, but `get_hourly_consumption()` also takes days to come, and the anniversary
  of today, and those come out as another year's, as does a day whose anniversary midnight strikes
  meanwhile; 29 February is dropped until there is one this year. A day of a table is one year late
  for every time the first of its month came round between question and answer. The report of a month
  without a date gives no reading (`energy.py:548`, `200`).
* `DoorEntry`: WHO 6 and WHO 8 use the same WHATs for other things. An `end_call` of kind 3 is, on
  the wire, the stop of a video, and an internal call to 4 is a pager's: the properties follow
  the wire.
* `GatewayClock`: local time, the zone on the wire in whole hours, a change of summer time, and
  `set_time()` and `set_date()` as two frames. The calendar is short (months of two days, years of
  two months) and counted in half hours; the weekday field is read by nobody and left out. When a
  midnight passes between the two frames, the clock is whole days off: `astray` is how many days the
  date that was set lies from the date of the time set with it, and `ClockIsRight` says the clock is
  off by that and no more.

### The families with a consumer: `Alarm`, `Cen`, `Shutter`, `Scenario`, `Load`, `Diagnostics`

Here a single frame says little. The plant changes state and reports; a consumer, written the way the
event's properties invite, keeps what it is told; once all events are taken it must have the plant
as it is. The consumer is not code under `src/`: it is in the model so that the properties of
successive events are judged together.

* `Alarm`: disarming is three reports, and zones, sensors and the panel share the WHATs. A panel may
  refuse to arm or disarm.
* `Cen`: a gesture is several frames, others for CEN than for CEN+; contacts are of CEN+. CEN+
  builders take the WHERE with its leading 2, `event.object` gives it without.
* `Shutter`: an advanced actuator reports levels (dimension 10), a basic one only how it moves, and
  the bus repeats commands as translations that a locked actuator does not obey. The level of a
  basic actuator is left alone. With the interface and unique id of `base.py`, since two
  actuators may have one address on two buses.
* `Scenario`: launches and steps of programming in WHO 0; running and enabled scenes in WHO 17.
* `Load`: priorities, shed and forced loads, measurements one by one or all together.
* `Diagnostics`: fault masks of WHO 1004, where only the whole WHERE tells a zone from a central unit,
  a probe or an actuator of the same number. Counts of dimension 23 are only required to be readable.

### The union modules

`MCSessions`, `Families` and `Followers` put several components side by side in one run
(`MCFamilies` and `MCFollowers` are the instances of the last two): `about`, chosen in `Init`, says
which, and the variables of the others rest. This is sound because
the components share no variable in the code: no family touches another's state, and which family a
line belongs to is decided by its WHO. Each named property is a conjunction of the parts' own
properties, by the question they answer, and each part is defined and explained in its module.

## 3. The runs

| Run | Instance | States | Shows |
|---|---|---|---|
| `command_session` | calls: a command, a query, a refused frame; 2 connections; symmetry on connections | 939 k | `AnswersMatch`, `OwnExchange`, `NoLeakedSocket`, `ConnectedIsOpen`, and the refinement `ImplementsRpc` |
| `command_session_live` | a command and a query | 453 k | `CallsReturn` |
| `negotiation` | 2 attempts, 5 frames (the code's budget), 1 gateway slot | 381 k | `CleanHandover`, `FatalMeansCredentials`, `OutcomeReported`, `BudgetSuffices`, `ReleasedBeforeRetry`, `NoFlap`, `ConnectReturns` |
| `event_session` | 2 connections, 2 attempts | 25 k | `KeepaliveFollowsStream`, `NoLeakedSocket`, `ClosedForGood`, `FloodBounded`, `DisconnectReturns`, `Recovers` |
| `serial_transport` | 3 calls, one refused; at most 1 data frame per answer, 2 frames on the line | 477 k | `OneExchange`, `TimelyAnswersMatch`, `ConnectedIsRead`, `DisconnectReleases`, `CallsReturn` |
| `sessions` | `SessionOverlap`: a worker, two keepalives, 2 sockets; `TcpTransport`: an owner, a sender, 2 pairs; `Auth`: 12 passwords, 3 digits; `Discovery`: two devices with every descriptor that matters, 2 answers; `GatewayProfile`: two gateways, versions around the two that add a subsystem | 432 k | `OverlapContained`, `OnePairInUse`, `AnswerIsMeant`, `TasksReturn`, `GatewayIsFound`, `EverySearchEnds`, `SameVersionSameProfile`, `UpdateAddsOnly` |
| `families` | the six families with a plant, and `Dispatch` with lines of up to four fields | 1.92 M | `LinesReadOneWay`, `EventsTellTheTruth`, `CommandsAreObeyed`, `DatesAreRight` |
| `followers` | the six families with a consumer, 2 or 3 frames under way | 2.57 M | `ConsumerKnows`, `ActsArriveOnce` |
| `command_cancel` | two commands, a query | violation | `AnswersMatch` with a cancellation inside the in-send `connect()` |
| `discovery_password` | as `sessions` | violation | `PasswordKept` |
| `tcp_orphan` | two owners, a sender | violation | `DisconnectReleases` |
| `sessions_window` | as `sessions` | violation | `FullWindow` |

Why the bounds are enough to be interesting. Connections, sockets, pairs: two, a lost one and its
successor. Attempts of `connect()`: two, one that is retried and one that gives up.
`command_session` has a call inside the exchange, one queued behind it and one refused, a connection
each call can lose, and its successor; a connection is used once, so the run stops when both are
spent (the calls then end in "not sent"). `serial_transport` has one call in the exchange, one queued,
a late answer and an event on the line at once. In `negotiation` the frame budget is the code's own.
`sessions` has a `connect()`, a reconnecting `send()` and one queued behind it, and the gateway that is
asked for, another one that answers first or twice, and a mute one. In `families` one frame is under way
(`MaxWire`), except where order matters: three with one gateway for the registry of `Lighting`. The
numbers are those at, next to and beyond every limit the code tests; the days of `Energy` are New
Year, the last of February in a leap year and after one, and a plain one; the zones of
`GatewayClock` are one ahead of UTC, one behind, one with a half hour.

Runs with `CHECK_DEADLOCK FALSE` are those of systems that may stop: `connect()` has returned,
`disconnect()` has, discovery is over, or a bound is reached. `CommandSession` can never stop (its closer
can always run), so there deadlock is checked but says little; `CallsReturn` is the property about
being stuck.

### Fairness

Only the event loop is fair: a task that can run does (weak fairness of the actions of each task
inside the library), and every wait the code bounds by a timeout ends, by the timeout if by
nothing else. The gateway, the network and the callers owe nothing: no run assumes that a frame is
answered, that a connection stays up or that a consumer calls. `Recovers` alone states a condition on
the environment, in its formula. In particular:

* `SessionOverlap`: weak fairness of each task's step, and strong fairness of its being granted the
  lock: others take and release it meanwhile, and `asyncio.Lock` serves its waiters in order.
* `TcpTransport`: weak fairness of the owners' work and of the listeners; the calls of `send()` have
  none.
* `Discovery`: weak fairness of the one task's step: its waits are a sleep and HTTP requests with a
  timeout (`discovery.py:23`), and a mute device answers nothing.

### What the violations are

Each `violation` run is a disagreement between the code and its own documentation, quoted in
`findings` of `PROJECT.json`:

1. `command_cancel`: `send()` awaits `connect()` outside the `try` that closes the session on a
   cancellation (`command_session.py:361-365`, `456-458`). The next `send()` finds half a negotiation
   on the stream and returns `True` for its ACK.
2. `discovery_password`: with an address and no port the gateway is made of its descriptor alone, and
   the password the user gave is lost (`gateway.py:129`, `154`).
3. `tcp_orphan`: `connect()` keeps its sessions in local names; a `disconnect()` meanwhile closes
   them, and `connect()` opens them afterwards. Nothing knows of those sockets then.
4. `sessions_window`: a `send()` that reconnects sets `_connect_max_attempts_override` on the session
   (`command_session.py:361`); a consumer's `connect()` that starts meanwhile reads it
   (`session.py:435`) and makes one attempt, where the comment at `command_session.py:334-337` has such
   callers keep the full window of five.

Further disagreements that TLC found. Their properties stay in the modules, for whoever wants to run
them on an instance there; no run of the project lists them:

| Property | Module | What happens |
|---|---|---|
| `ClosedStaysClosed` | `CommandSessionHazards` | `close()` during a query that then retries leaves the session open (`command_session.py:486`) |
| `PauseBeforeNextCycle` | `EventSession` | after a failed read a reconnection that gives up is not followed by the pause of `session.py:77-82`; the next cycle pauses, and `FloodBounded` says it never gets worse |
| `ConnectedIsListening` | `EventSession` | an exception that `connect()` lets through ends the listener task with `is_connected` still true |
| `AnswersMatch` | `SerialTransport` | a timeout or a cancellation leaves the port open and the late answer to the next command (`serial.py:215`) |
| `NotConnectedIsRuntimeError` | `SerialTransport` | the connection check is made before the lock is awaited |
| `ReadyIsHeard` | `TcpTransport` | after a `connect()` cancelled in the second negotiation a `send()` reconnects: both flags are set, nobody listens (`base.py:43` of transport) |
| `KeepaliveAsProfiled` | `Discovery` | the keepalive interval is read when the session is made; the `gateway` setter leaves it (`event_session.py:53`, `session.py:295`) |
| `RequestReadsAsRequest` | `Dispatch` | the status request of WHO 1004, `*#1004##`, reads back as a nonce (`message/base.py:81`) |

### Hazards

`hazards` in `PROJECT.json` are what these properties are for. Others, smaller or without a property:

* `serial.py:58`, `serial.py:157`: `connect()` and `disconnect()` of a serial port by two tasks at
  once. Not modelled; the transport's owner is one task here.
* `tcp.py:54`, `tcp.py:78`, `tcp.py:96`: a listener that ends by itself, the pair given up by a second
  `connect()`, a cancellation inside `disconnect()`. In `TcpTransport`, within `OnePairInUse` and
  `TasksReturn`, the last one by the ghost `abandoned` only.
* `lighting.py:176`, `alarm.py:34`, `gateway.py:511` (message): which of several WHERE forms a
  decoder takes for a group, a zone, a zone with half an hour. Within `EventsTellTheTruth`,
  `ConsumerKnows` and `DatesAreRight`.
* `__main__.py:41`: the session of the command line outlives its gateway object: `KeepaliveAsProfiled`.

## 4. The proofs

`tlapm` checks these for every set of calls and connections and for every value of the bounds, from
the named assumptions of the modules only (`CallsAssumption`, `NegotiationAssumption`, `EventSessionAssumption`, `SerialAssumption`,
`OverlapAssumption`, `TransportAssumption`, `AuthAssumption`, `DiscoveryAssumption`,
`ProfileAssumption`, `DispatchAssumption`, `FollowersAssumption`, `FamiliesAssumption`): the special values are not elements of the sets they are
added to, queries are status requests, passwords are words of 32 bits, firmwares are sequences of
numbers, a caller that names both an address and a location names one device, the bounds are natural
numbers. `FollowersAssumption` joins those of the six families, which say how their addresses and numbers
are written: a zone of the alarm as digits after a hash, eight loads, 31 scenarios, the digits a device
of each kind has. `FamiliesAssumption` joins those of the families with a plant: zones are 0 to 99, levels
0 to 100, temperatures have three digits and a sign, dates are dates of the calendar, zones
are less than a day from UTC (as `datetime` demands), a day has an even number of half hours, no gateway is
called what stands for none. How long anything under way may get, how many houses, lights, moments or dates there are,
and which, is left open. One theorem, `OnePair`, has a hypothesis of its own: see there.

* `CommandSessionProofs!TypeCorrect`: `Spec => []TypeOK`. `TypeOK` is inductive; the proof has one
  lemma per helper (what `Return`, `Attempt`, `CloseAndReturn`... leave well typed) and one per action.
  It includes that `try` never exceeds two: no frame is written a third time.
* `CommandSessionProofs!SocketsAreHeld` (`NoLeakedSocket`) and `ExchangesAreOwn` (`OwnExchange`).
  First who holds what (`SocketInv`: the call past the lock, or the consumer, is alone there, and
  `connect()` opens only where there are no streams), then what is on the wires (`TrafficInv`). The argument
  for the second: whoever reads, reads alone (`ReadsAlone`); when nobody does, every reply has been
  read and an open connection carries no command (`Drained`, `Idle`); every action that ends an
  exchange either read its last frame (`LastFrame`) or closed the connection (`LeaveCalm`), so
  the next frame is written on calm wires (`WriteTraffic`).
* `CommandSessionProofs!FlagIsTrue` (`ConnectedIsOpen`). The flag may be set without streams only while
  somebody is at work that will clear or restore it: `FlagInv` says who in each of the states a handler
  passes (a call that recycles, opens or closes; the consumer's `connect()` and `close()`).
* `CommandSessionProofs!SessionInvariant`, `AnswersAreTrue` (`AnswersMatch`) and `ContractKept`
  (`Spec => ImplementsRpc`). A command's frame is written only when it is on no wire and was not
  carried out (`AttemptContract`: the first attempt, and the one after a NACK, `NackIsUnsent`), is
  on one wire at most, and on none once it was carried out; so a call that ends "not sent" or "rejected" leaves
  nothing behind. The refinement follows: outside the gateway a step changes what one call has been
  told, once (`ReturnOrStutter`); the gateway carries out only frames the contract lets it
  (`ExecuteOrStutter`).
* `SerialTransportProofs`: `TypeCorrect`, `ExchangeIsExclusive` (`OneExchange`), `TimelyAnswers`
  (`TimelyAnswersMatch`), `LinkIsSound` (`ConnectedIsRead`) and `DisconnectIsComplete`
  (`DisconnectReleases`). The invariants
  are not inductive by themselves. `OneExchange` needs only the types; the answer a call takes for
  its own is its own because everything on the line is for a call still in the exchange (`WireInv`)
  and there is only one of those (`OneExchange`); a connected transport has a live reader because of
  what each state of the owner says of port and reader (`LinkInv`). `IInv` in `SerialTransport` is
  their conjunction.
* `EventSessionProofs`: `TypeCorrect`, `KeepaliveIsBound`, `SocketsAreHeld`, `TeardownIsComplete`
  (`ClosedForGood`), `GatewayIsNotFlooded` (`FloodBounded`). The inductive invariant has four parts:
  which sockets are open and what the listener holds in each of its states (`StreamInv`), how far
  `disconnect()` has come and that `close()` runs only once the listener has ended (`CloserInv`), that an
  attempt is left wherever one is under way (`RetryInv`), and the cycles since a pause by what
  `get_next()` had found (`FloodInv`). Teardown is complete, however the listener's cancellation went,
  because `CloserInv` speaks of where the listener is and not of how it was stopped.
* `NegotiationProofs`: every invariant of its run and `NoFlap`. The invariant counts attempts and the
  connections they left (`CountInv`), frames read (`FrameInv`), says when nothing is connected
  (`ReleaseInv`), what has been announced (`ReportInv`), which failures a password can explain
  (`CredentialInv`), and, for a gateway that never spoke out of turn, where each side is when so much
  is on the wire (`TalkInv`). `CleanHandover` follows from `TalkInv`, `BudgetSuffices` from `FrameInv`. `FailureKept`,
  `GoingOnKept`, `SuccessKept` and `GatewayKept` prove the shared parts once for all steps
  of a kind. `BudgetSuffices` is for budgets of at least five frames, the code's.
* `ConnectionProofs!AuthAnswerIsMeant` (`AnswerIsMeant`), for every password below 2^32 and every nonce.
  Per digit a lemma that the shifts and masks are the rotation (`DigitsMean`); the registers then
  carry the meaning along.
* `ConnectionProofs!OverlapIsContained` (`OverlapContained`), for any number of workers and keepalives. The
  override and the cooldown are fields of the session that several tasks write, so the invariant
  (`OverlapInv`) ties them to the lock: whoever has its streams opened inside `send()` holds the lock,
  only that task has a limit of one attempt by its own doing, and the override is one exactly as long
  as it does. `OwnStep` says what any step of a task may do to these; `WalkStep`, `GiveUpStep` and
  `LeaveStep` prove it once for all steps of a kind. That answers are not mixed up is `WireInv`: on an open
  connection that is not mixed, what is due to a task that waits for an answer comes first to it.
* `ConnectionProofs!OnePair` (`OnePairInUse`), for any number of calls of `send()`, pairs and attempts,
  under `OneOwner`: one task calls `connect()` and `disconnect()`, as the transport's documentation
  shows it used. With two owners it does not hold, which is what the run `tcp_orphan` is about.
  `TransportInv` has three parts besides the types and `NoOrphan`: a pair being opened is held and has no
  listener yet, one being closed is held no more (`OwnerInv`); the listener that runs is that of the
  pair that is held, or the one a `disconnect()` waits for, and reads its own pair (`TaskInv`); a
  `send()` at work uses the pair that is held, or one that was taken from it and counts as spoiled
  (`SenderInv`). The last is what `NoOrphan` needs of a task that reconnects by itself.
* `ConnectionProofs!ProfilesSameVersion` and `ProfilesUpdate`, for firmwares of any length: a
  comparison with a required version is decided by the first three numbers, a missing one as zero.
* `ConnectionProofs!TheOneAskedFor` (`GatewayIsFound`), for any network, any request and any number of answers.
  `DiscoveryInv` follows the lookup through its awaits: what is in the queue and the list is what was
  announced, in its order, each entry with the address of the device that announced it and its LOCATION,
  and details only of the descriptor at that LOCATION.
* `FamilyProofs!OneReading` (`LinesReadOneWay`), for every WHO, any values and any number of fields: the
  shapes exclude each other by what is before the first separator and by how many fields follow.
  `OneReadingHere` is the same of `FamiliesSpec`.
* `FamilyProofs!DatesAlwaysRight` (`DatesAreRight`), `EventsAlwaysTell` (`EventsTellTheTruth`) and
  `CommandsAlwaysObeyed` (`CommandsAreObeyed`), for any number of frames under way. `FamilyInv` has one
  invariant per family (`ClockInv`, `MeterInv`, `DoorInv` and `SoundInv` are in `PlantProofs`). All have the same form: the type invariant; the two queues are what a bus may
  carry (`BusOk`, which grows and shrinks by `BusPosts`, `BusTells`, `BusAnswers` and `BusTakes`); every command
  under way is one that the plant can carry out and reads as its caller meant it; every report, *decoded
  now*, says what was so when it was sent. The properties speak of the head of a queue, so they are not
  inductive: a frame must be right when it is written, and stay right while it waits.
  * `ClockInv`, `MeterInv`: that a number on the wire is read as the date it was written for rests on lemmas about
    division (`Division`, `TimeParts`, `DateParts`), on zones and their sign (`ZoneMeans`) and on the
    calendar: days follow each other (`TomorrowIs`), a year ago (`YearsAgoIs`), the latest day or month of that
    name (`SampleIsOf`, `LastFirstIs`, `TableIsOf`). `GatewayClock`'s own calendar is proved for any
    number of half hours in a day and any years.
  * `DoorInv`, `SoundInv`: by the kind of frame, since the families share WHATs and differ in what a
    `WHERE` may be (`TargetHears` and the lemmas before it for the diffusion).
  * `HeatInv`: rounding and its ties (`SetpointIs`, `EncodedNear`), raw values and their sign (`RawIsRead`),
    and where a reply may come from (`Places`, the address of the command or the bare zone of its number).
  * `LightInv`: what a frame says depends on the registry twice, when it is built and when it is decoded.
    A dimmer's class is in the registry once it has reported, under its gateway and no other
    (`Taught`, in `LightState`); a command under way is of the sort its light understands, however it was
    built (`LightOrder`); a report is true whichever way the registry reads it or changes before it is
    decoded (`LightReported`), but for a preset, of which it says what the registry must hold to misread
    it. An order under way to a dimmer that is replaced is one that the new dimmer may take otherwise: what is
    then still asked of it is `Expected` (`OrderArrives`). That a level lands on the nearest preset is shown interval by interval
    (`PresetOfLevel`, `PresetIsNear`).

* `FollowerProofs!PlantIsKnown` (`ConsumerKnows`) and `ActsOnce` (`ActsArriveOnce`), for any plant of the six
  families and any number of events under way. What the consumer knows differs from the plant while
  events are under way, so the invariant relates them through the wire: taking the events one after the
  other *leads* from what is known to what the plant is (`Leads`), and through nothing on the way that
  must not be known (more presses than there were, say). An action of the plant changes what the events
  lead to, by the event it sends (`LeadsOn`, and `LeadsStay` for events that say nothing new); taking one shortens the
  way (`LeadsFrom`); with none left it has no length (`LeadsEnds`). Per family then a lemma for each event:
  what the decoder reads of the frame that is built is what happened, at the place it happened
  (`LoadInv`, `SceneInv`, `CenInv`, `AlarmInv`, `ShutterInv`, `DeviceInv`, and the lemmas before each). `Follow` in
  each family is what `Take` does to the consumer, as an operator, so that it can be spoken of for
  events still to come.

The invariants named `IInv` in the modules are the inductive ones behind these. None of the properties
is inductive: what a call may conclude from an answer depends on where every frame was written, that on
who may write, and that on who holds the lock, the streams and the readers.

Every invariant that a passing run checks is proved. Only model-checked: liveness under fairness
(`CallsReturn`, `ConnectReturns`, `DisconnectReturns`, `Recovers`, `TasksReturn`, `EverySearchEnds`), which is
out of the prover's reach; and the four violations, which are behaviours and not theorems. `OnePair`
is proved under its hypothesis only.

What the proofs showed of the model: `Heating!Legal` had said of every frame that its WHERE has at most one
parameter, which holds of the addresses of the run but not of all. `report_temperature()` and
`write_temperature()` take any WHERE (`heating.py:1563`, `heating.py:1577`), so `Legal` now leaves that of an
announced temperature to the caller and bounds those the builders themselves compose.

## 5. Not modelled, and why

* `session.test_connection()`: a one-shot variant of `connect()` for configuration dialogs.
* Socket options, logging, drop-burst warnings: no effect on any property here.
* The set of listeners of the TCP transport: callbacks are synchronous and their exceptions contained.
* The frames a keepalive of the command session chooses, and `run_keepalive()`'s loop: its `send()`
  is in `SessionOverlap` as any other.
* HMAC digests (symbolic in `Negotiation`) and the conversion between digits and hexadecimal; passwords
  of 2^32 and more.
* WHO 9 (one number per channel), the versions, addresses and device types of WHO 13, WHO 1001 and 1013:
  look-ups of names, one frame to one text, with nothing to relate.
* The payload dictionary of events: a copy of the properties that are modelled.
* The aliases of model names, the flags of what was measured and the documentation summaries in
  `profiles.py`; `scripts/`, which writes documentation from them.
* `exceptions.py` has only types; of `__main__.py` arguments and logging are left out.

## 6. Plan

Done: the four connection components and their composition (`CommandSession`, `Negotiation`,
`EventSession`, `SerialTransport`, `SessionOverlap`, `TcpTransport`), the password, discovery and
profiles, dispatch and the WHO families with state, arithmetic or two readings; proofs of every safety
property the passing runs check (one owner task in `TcpTransport`), with the refinement of the contract by
`CommandSession`.

Left:

1. A second owner task of the serial port.
2. The remaining look-ups of WHO 9, 13, 1001 and 1013, should they come to carry state.

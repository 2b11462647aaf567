------------------------- MODULE EventSessionProofs -------------------------
(***************************************************************************)
(* Proofs about OWNEventSession under its listener, its keepalive tasks    *)
(* and disconnect(), for any connections and any number of attempts: no    *)
(* keepalive task outlives its socket, no socket is lost, disconnect()     *)
(* leaves nothing behind, and a gateway is not flooded.                    *)
(***************************************************************************)
EXTENDS EventSession, TLAPS

(* _close_streams() keeps the types. *)
LEMMA CloseStreamsType ==
  ASSUME TypeOK, CloseStreams
  PROVE  stream' \in Conns \cup {NoConn} /\ sock' \in [Conns -> {"open", "closed"}]
BY DEF TypeOK, CloseStreams

(* So does _stop_keepalive(). *)
LEMMA StopKeepaliveType ==
  ASSUME TypeOK, StopKeepalive
  PROVE  task' \in Conns \cup {NoConn} /\ keepalive' \in [Conns -> Live \cup {"none"}]
BY DEF TypeOK, StopKeepalive, Live

(* And the listener's _close_streams(), up to its first await. *)
LEMMA CloseEventStreamsType ==
  ASSUME TypeOK, CloseEventStreams
  PROVE  /\ pc' \in States
         /\ stream' \in Conns \cup {NoConn} /\ sock' \in [Conns -> {"open", "closed"}]
         /\ task' \in Conns \cup {NoConn} /\ keepalive' \in [Conns -> Live \cup {"none"}]
BY CloseStreamsType, StopKeepaliveType DEF TypeOK, CloseEventStreams, States, tasks

(* get_next() keeps the types. *)
LEMMA GetNextType ==
  ASSUME TypeOK, Connect \/ GetNext \/ ReadFrame \/ ReadFails \/ Recycle \/ Recycled
  PROVE  TypeOK'
<1>1. CASE Connect
  BY <1>1, EventSessionAssumption DEF TypeOK, Connect, config, tasks, wire, States
<1>2. CASE GetNext
  BY <1>2, CloseEventStreamsType DEF TypeOK, GetNext, config, tasks, wire, States
<1>3. CASE ReadFrame
  BY <1>3 DEF TypeOK, ReadFrame, config, session, tasks, wire, States
<1>4. CASE ReadFails
  BY <1>4, CloseEventStreamsType DEF TypeOK, ReadFails, config
<1>5. CASE Recycle
  <2>1. pc' \in States /\ cancelled' \in BOOLEAN
    BY <1>5 DEF Recycle, States
  <2> QED
    BY <1>5, <2>1, CloseStreamsType DEF TypeOK, Recycle, config, tasks
<1>6. CASE Recycled
  BY <1>6, EventSessionAssumption DEF TypeOK, Recycled, config, tasks, wire, States
<1> QED
  BY <1>1, <1>2, <1>3, <1>4, <1>5, <1>6

(* connect() keeps the types: a retry is counted where one was left. *)
LEMMA ConnectType ==
  ASSUME TypeOK, RetryInv, StreamInv,
         \/ OpenOk \/ OpenFails \/ Established \/ Rejected \/ ShakeFails \/ ShakeCrashes
         \/ BackOff \/ TryAgain \/ ConnectFailed \/ Pause \/ Cancelled
  PROVE  TypeOK'
<1>1. CASE OpenOk
  BY <1>1 DEF TypeOK, OpenOk, config, tasks, States
<1>2. CASE OpenFails
  <2>1. retries' \in 0 .. MaxConnectAttempts
    BY <1>2, EventSessionAssumption DEF TypeOK, RetryInv, OpenFails
  <2> QED
    BY <1>2, <2>1, CloseStreamsType DEF TypeOK, OpenFails, config, tasks, States, Verdicts
<1>3. CASE Established
  BY <1>3 DEF TypeOK, StreamInv, Established, config, tasks, wire, States, Verdicts, Live
<1>4. CASE Rejected
  BY <1>4, CloseStreamsType DEF TypeOK, Rejected, config, tasks, States, Verdicts
<1>5. CASE ShakeFails
  <2>1. retries' \in 0 .. MaxConnectAttempts
    BY <1>5, EventSessionAssumption DEF TypeOK, RetryInv, ShakeFails
  <2> QED
    BY <1>5, <2>1, CloseStreamsType DEF TypeOK, ShakeFails, config, tasks, States, Verdicts
<1>6. CASE ShakeCrashes
  BY <1>6 DEF TypeOK, ShakeCrashes, config, session, tasks, wire, States
<1>9. CASE BackOff
  BY <1>9 DEF TypeOK, BackOff, config, session, tasks, wire, States
<1>10. CASE TryAgain
  BY <1>10 DEF TypeOK, TryAgain, config, session, tasks, wire, States
<1>11. CASE Cancelled
  BY <1>11, ZenonT(40) DEF TypeOK, Cancelled, config, session, tasks, wire, States
<1>7. CASE ConnectFailed
  <2>1. pc' \in States
    BY <1>7 DEF ConnectFailed, States
  <2>2. unpaused' \in 0 .. 3
    BY <1>7 DEF TypeOK, ConnectFailed
  <2> QED
    BY <1>7, <2>1, <2>2 DEF TypeOK, ConnectFailed, config, tasks, wire
<1>8. CASE Pause
  BY <1>8 DEF TypeOK, Pause, config, tasks, wire, States
<1> QED
  BY <1>1, <1>2, <1>3, <1>4, <1>5, <1>6, <1>7, <1>8, <1>9, <1>10, <1>11

(* The keepalive tasks, disconnect() and the network keep the types. *)
LEMMA OthersType ==
  ASSUME TypeOK, Closer \/ WorldChanges \/ \E c \in Conns : Keepalive(c) \/ Drop(c)
  PROVE  TypeOK'
<1>1. CASE Disconnect
  BY <1>1 DEF TypeOK, Disconnect, config, session, tasks, wire
<1>2. CASE Close
  BY <1>2, StopKeepaliveType DEF TypeOK, Close, config, session, wire
<1>3. CASE CloseSocket
  BY <1>3, CloseStreamsType DEF TypeOK, CloseSocket, config, tasks
<1>4. CASE Closed
  BY <1>4 DEF TypeOK, Closed, config, tasks, wire
<1>5. CASE WorldChanges
  BY <1>5 DEF TypeOK, WorldChanges, config, session, tasks, wire
<1>6. ASSUME NEW c \in Conns, Keepalive(c)
      PROVE  TypeOK'
  <2>1. CASE KeepaliveTick(c)
    BY <2>1 DEF TypeOK, KeepaliveTick, config, session, wire, Live
  <2>2. CASE KeepaliveSent(c) \/ KeepaliveCancelled(c)
    BY <2>2 DEF TypeOK, KeepaliveSent, KeepaliveCancelled, config, session, wire, Live
  <2>3. CASE KeepaliveFails(c)
    BY <2>3 DEF TypeOK, KeepaliveFails, config, session, Live
  <2> QED
    BY <1>6, <2>1, <2>2, <2>3 DEF Keepalive
<1>7. ASSUME NEW c \in Conns, Drop(c)
      PROVE  TypeOK'
  BY <1>7 DEF TypeOK, Drop, config, session, tasks
<1> QED
  BY <1>1, <1>2, <1>3, <1>4, <1>5, <1>6, <1>7 DEF Closer

(* Every step keeps the types. *)
LEMMA TypeStep ==
  ASSUME IInv, [Next]_vars
  PROVE  TypeOK'
<1>1. CASE UNCHANGED vars
  BY <1>1 DEF IInv, TypeOK, vars, config, session, tasks, wire
<1> QED
  BY <1>1, GetNextType, ConnectType, OthersType DEF IInv, Next, Listener

-----------------------------------------------------------------------------
(* Streams, sockets and keepalive tasks, and what disconnect() leaves.      *)
StreamAll == KeepaliveFollowsStream /\ NoLeakedSocket /\ StreamInv /\ CloserInv

(* With neither a task nor one being cancelled, no keepalive is left.       *)
LEMMA NoKeepalive ==
  ASSUME TypeOK, StreamInv, task = NoConn, KeepaliveStopped
  PROVE  \A c \in Conns : keepalive[c] = "none"
BY EventSessionAssumption DEF TypeOK, StreamInv, KeepaliveStopped, Live

(* Where there is no stream there is no keepalive, and no open socket.      *)
LEMMA StreamlessIsBare ==
  ASSUME TypeOK, StreamAll, stream = NoConn
  PROVE  task = NoConn /\ \A c \in Conns : keepalive[c] = "none" /\ sock[c] = "closed"
BY EventSessionAssumption DEF TypeOK, StreamAll, StreamInv, KeepaliveFollowsStream, NoLeakedSocket,
                              Live

(* Closing the streams closes the only open socket. *)
LEMMA CloseStreamsCloses ==
  ASSUME TypeOK, NoLeakedSocket, CloseStreams
  PROVE  stream' = NoConn /\ \A c \in Conns : sock'[c] = "closed"
BY DEF TypeOK, NoLeakedSocket, CloseStreams

(* Stopping the keepalive leaves only tasks being cancelled.                *)
LEMMA StopKeepaliveStops ==
  ASSUME TypeOK, StreamAll, StopKeepalive
  PROVE  /\ task' = NoConn
         /\ \A c \in Conns : keepalive'[c] \notin {"sleeping", "draining"}
         /\ \A c \in Conns : keepalive'[c] = "cancelling" => keepalive[c] \in Live
<1>1. \A c \in Conns : keepalive[c] \in Live \cup {"none"}
  BY DEF TypeOK
<1>2. \A c \in Conns : keepalive'[c] = IF c = task /\ keepalive[c] # "none"
                                      THEN "cancelling" ELSE keepalive[c]
  BY DEF StopKeepalive
<1>3. \A c \in Conns : c # task => keepalive[c] \in {"none", "cancelling"}
  BY <1>1 DEF StreamAll, StreamInv, Live
<1> QED
  BY <1>1, <1>2, <1>3 DEF StopKeepalive, Live

(* The listener's _close_streams(), up to its first await, where no task is *)
(* being cancelled: either the keepalive is stopped, or all is released.    *)
LEMMA CloseEventStreamsStream ==
  ASSUME TypeOK, StreamAll, CloseEventStreams, pc \in {"idle", "reading"},
         pc = "idle" => closer = "idle", UNCHANGED <<closer, connected>>
  PROVE  StreamAll'
<1>1. closer \notin {"unkeeping", "closing", "closed"}
  BY DEF StreamAll, CloserInv
<1>2. CASE task # NoConn
  <2>1. pc' = "unkeeping" /\ StopKeepalive /\ UNCHANGED <<stream, sock>>
    BY <1>2 DEF CloseEventStreams
  <2>2. /\ task' = NoConn
        /\ \A c \in Conns : keepalive'[c] \notin {"sleeping", "draining"}
        /\ \A c \in Conns : keepalive'[c] = "cancelling" => keepalive[c] \in Live
    BY <2>1, StopKeepaliveStops
  <2>3. KeepaliveFollowsStream' /\ NoLeakedSocket'
    BY <2>1, <2>2 DEF StreamAll, KeepaliveFollowsStream, NoLeakedSocket, Live
  <2>4. StreamInv'
    BY <2>1, <2>2 DEF StreamInv, Streamless
  <2>5. CloserInv'
    BY <1>1 DEF CloserInv
  <2> QED
    BY <2>3, <2>4, <2>5 DEF StreamAll
<1>3. CASE task = NoConn
  <2>1. pc' = "recycling" /\ CloseStreams /\ UNCHANGED <<task, keepalive>>
    BY <1>3 DEF CloseEventStreams, tasks
  <2>2. \A c \in Conns : keepalive[c] = "none"
    BY <1>1, <1>3, NoKeepalive DEF StreamAll, StreamInv, KeepaliveStopped
  <2> QED
    BY <1>1, <1>3, <2>1, <2>2, CloseStreamsCloses
    DEF StreamAll, StreamInv, CloserInv, KeepaliveFollowsStream, NoLeakedSocket, Live, Streamless
<1> QED
  BY <1>2, <1>3

(* A step of the listener that leaves streams and tasks alone, to where it  *)
(* may be with them.                                                        *)
LEMMA MoveStream ==
  ASSUME TypeOK, StreamAll, UNCHANGED <<stream, sock, task, keepalive, closer>>,
         pc \notin {"unkeeping", "ended"},
         pc' \notin {"shaking", "unkeeping"},
         pc' \in Streamless => stream = NoConn,
         pc' = "reading" => stream # NoConn
  PROVE  StreamAll'
<1>1. closer \notin {"unkeeping", "closing", "closed"}
  BY DEF StreamAll, CloserInv
<1> QED
  BY <1>1 DEF StreamAll, StreamInv, CloserInv, KeepaliveFollowsStream, NoLeakedSocket, Live

(* get_next() keeps streams and keepalive tasks together. *)
LEMMA GetNextStream ==
  ASSUME TypeOK, StreamAll, Connect \/ GetNext \/ ReadFrame \/ ReadFails \/ Recycle \/ Recycled
  PROVE  StreamAll'
<1>1. CASE Connect
  BY <1>1, MoveStream DEF Connect, StreamAll, StreamInv, Streamless, tasks, wire
<1>2. CASE GetNext
  <2>1. CASE closer # "idle"
    BY <1>2, <2>1, MoveStream DEF GetNext, Streamless, tasks
  <2>2. CASE closer = "idle" /\ stream # NoConn
    BY <1>2, <2>2, MoveStream DEF GetNext, Streamless, tasks
  <2>3. CASE closer = "idle" /\ stream = NoConn
    BY <1>2, <2>3, CloseEventStreamsStream DEF GetNext
  <2> QED
    BY <2>1, <2>2, <2>3
<1>3. CASE ReadFrame
  BY <1>3, MoveStream DEF ReadFrame, Streamless, session, tasks, wire
<1>4. CASE ReadFails
  BY <1>4, CloseEventStreamsStream DEF ReadFails
<1>5. CASE Recycle
  <2>1. \A c \in Conns : keepalive[c] = "none"
    BY <1>5, NoKeepalive DEF Recycle, StreamAll, StreamInv
  <2>2. closer \notin {"unkeeping", "closing", "closed"}
    BY <1>5 DEF Recycle, StreamAll, CloserInv
  <2> QED
    BY <1>5, <2>1, <2>2, CloseStreamsCloses
    DEF Recycle, StreamAll, StreamInv, CloserInv, KeepaliveFollowsStream, NoLeakedSocket, Live,
        Streamless, tasks
<1>6. CASE Recycled
  BY <1>6, MoveStream DEF Recycled, StreamAll, StreamInv, Streamless, tasks, wire
<1> QED
  BY <1>1, <1>2, <1>3, <1>4, <1>5, <1>6

(* connect() opens a stream where there was none and starts a keepalive     *)
(* where there was none.                                                    *)
LEMMA ConnectStream ==
  ASSUME TypeOK, StreamAll,
         \/ OpenOk \/ OpenFails \/ Established \/ Rejected \/ ShakeFails \/ ShakeCrashes
         \/ BackOff \/ TryAgain \/ ConnectFailed \/ Pause \/ Cancelled
  PROVE  StreamAll'
<1>0. ASSUME pc \notin {"ended"}
      PROVE  closer \notin {"unkeeping", "closing", "closed"}
  BY <1>0 DEF StreamAll, CloserInv
<1>1. CASE OpenOk
  <2>1. stream = NoConn
    BY <1>1 DEF OpenOk, StreamAll, StreamInv, Streamless
  <2>2. PICK c \in Conns : stream' = c /\ sock' = [sock EXCEPT ![c] = "open"]
    BY <1>1 DEF OpenOk
  <2> QED
    BY <1>0, <1>1, <2>1, <2>2, StreamlessIsBare, EventSessionAssumption
    DEF TypeOK, OpenOk, StreamAll, StreamInv, CloserInv, KeepaliveFollowsStream, NoLeakedSocket,
        Live, Streamless, tasks
<1>2. CASE Established
  <2>1. stream \in Conns /\ task = NoConn /\ \A c \in Conns : keepalive[c] = "none"
    BY <1>2 DEF TypeOK, Established, StreamAll, StreamInv
  <2>2. task' \in {NoConn, stream} /\ \A c \in Conns : keepalive'[c] # "none" =>
                                         keepalive'[c] = "sleeping" /\ c = stream /\ task' = c
    BY <1>2, <2>1 DEF TypeOK, Established, tasks
  <2> QED
    BY <1>0, <1>2, <2>1, <2>2
    DEF Established, StreamAll, StreamInv, CloserInv, KeepaliveFollowsStream, NoLeakedSocket,
        Live, Streamless, wire
<1>3. CASE OpenFails \/ Rejected \/ ShakeFails
  <2>1. CloseStreams /\ UNCHANGED <<task, keepalive, closer>> /\ pc' = "releasing"
    BY <1>3 DEF OpenFails, Rejected, ShakeFails, tasks
  <2>2. pc \in {"opening", "shaking"}
    BY <1>3 DEF OpenFails, Rejected, ShakeFails
  <2>3. task = NoConn /\ \A c \in Conns : keepalive[c] = "none"
    BY <2>2, StreamlessIsBare DEF StreamAll, StreamInv, Streamless
  <2> QED
    BY <1>0, <2>1, <2>2, <2>3, CloseStreamsCloses
    DEF StreamAll, StreamInv, CloserInv, KeepaliveFollowsStream, NoLeakedSocket, Live, Streamless
<1>4. CASE ShakeCrashes \/ Cancelled
  BY <1>4, MoveStream DEF ShakeCrashes, Cancelled, Streamless, session, tasks, wire
<1>5. CASE BackOff \/ TryAgain \/ ConnectFailed \/ Pause
  <2>1. stream = NoConn
    BY <1>5 DEF BackOff, TryAgain, ConnectFailed, Pause, StreamAll, StreamInv, Streamless
  <2>2. pc' \in {"backoff", "opening", "idle", "pausing", "ended"} /\ pc \in Streamless
    BY <1>5 DEF BackOff, TryAgain, ConnectFailed, Pause, Streamless
  <2>3. UNCHANGED <<stream, sock, task, keepalive, closer>>
    BY <1>5 DEF BackOff, TryAgain, ConnectFailed, Pause, session, tasks, wire
  <2> QED
    BY <2>1, <2>2, <2>3, MoveStream DEF Streamless
<1> QED
  BY <1>1, <1>2, <1>3, <1>4, <1>5

(* The keepalive tasks, disconnect() and the network take nothing away from *)
(* a stream but its socket.                                                 *)
LEMMA OthersStream ==
  ASSUME TypeOK, StreamAll, Closer \/ WorldChanges \/ \E c \in Conns : Keepalive(c) \/ Drop(c)
  PROVE  StreamAll'
<1>1. CASE Disconnect
  BY <1>1 DEF Disconnect, StreamAll, StreamInv, CloserInv, KeepaliveFollowsStream, NoLeakedSocket,
              session, tasks, wire
<1>2. CASE Close
  <2>1. /\ pc = "ended" /\ pc' = pc /\ closer' = "unkeeping"
        /\ StopKeepalive /\ UNCHANGED <<stream, sock, connected>>
    BY <1>2 DEF Close, session, wire
  <2>2. /\ task' = NoConn
        /\ \A c \in Conns : keepalive'[c] \notin {"sleeping", "draining"}
        /\ \A c \in Conns : keepalive'[c] = "cancelling" => keepalive[c] \in Live
    BY <2>1, StopKeepaliveStops
  <2>3. KeepaliveFollowsStream' /\ NoLeakedSocket'
    BY <2>1, <2>2 DEF StreamAll, KeepaliveFollowsStream, NoLeakedSocket, Live
  <2>4. StreamInv'
    BY <2>1, <2>2 DEF StreamInv, Streamless
  <2>5. CloserInv'
    BY <2>1, <2>2 DEF CloserInv
  <2> QED
    BY <2>3, <2>4, <2>5 DEF StreamAll
<1>3. CASE CloseSocket
  <2>1. pc = "ended" /\ task = NoConn /\ \A c \in Conns : keepalive[c] = "none"
    BY <1>3, NoKeepalive DEF CloseSocket, StreamAll, CloserInv
  <2> QED
    BY <1>3, <2>1, CloseStreamsCloses
    DEF CloseSocket, StreamAll, StreamInv, CloserInv, KeepaliveFollowsStream, NoLeakedSocket, Live,
        Streamless, tasks
<1>4. CASE Closed
  BY <1>4 DEF Closed, StreamAll, StreamInv, CloserInv, KeepaliveFollowsStream, NoLeakedSocket,
              tasks, wire
<1>5. CASE WorldChanges
  BY <1>5 DEF WorldChanges, StreamAll, StreamInv, CloserInv, KeepaliveFollowsStream,
              NoLeakedSocket, session, tasks, wire
<1>6. ASSUME NEW c \in Conns, Keepalive(c)
      PROVE  StreamAll'
  <2>1. UNCHANGED <<pc, stream, connected, task, closer>>
    BY <1>6 DEF Keepalive, KeepaliveTick, KeepaliveSent, KeepaliveFails, KeepaliveCancelled, session
  <2>2. \A d \in Conns : sock'[d] = "open" => sock[d] = "open"
    BY <1>6 DEF TypeOK, Keepalive, KeepaliveTick, KeepaliveSent, KeepaliveFails,
                KeepaliveCancelled, wire
  <2>3. \A d \in Conns : \/ keepalive'[d] = keepalive[d]
                         \/ keepalive'[d] = "none"
                         \/ {keepalive[d], keepalive'[d]} \subseteq {"sleeping", "draining"}
    BY <1>6 DEF TypeOK, Keepalive, KeepaliveTick, KeepaliveSent, KeepaliveFails, KeepaliveCancelled
  <2> QED
    BY <2>1, <2>2, <2>3
    DEF StreamAll, StreamInv, CloserInv, KeepaliveFollowsStream, NoLeakedSocket, Live
<1>7. ASSUME NEW c \in Conns, Drop(c)
      PROVE  StreamAll'
  BY <1>7 DEF Drop, StreamAll, StreamInv, CloserInv, KeepaliveFollowsStream, NoLeakedSocket,
              session, tasks
<1> QED
  BY <1>1, <1>2, <1>3, <1>4, <1>5, <1>6, <1>7 DEF Closer

(* Every step keeps sockets, streams and keepalive tasks together. *)
LEMMA StreamStep ==
  ASSUME IInv, [Next]_vars
  PROVE  StreamAll'
<1>1. CASE UNCHANGED vars
  BY <1>1 DEF IInv, StreamAll, StreamInv, CloserInv, KeepaliveFollowsStream, NoLeakedSocket, vars,
              session, tasks, wire
<1>2. StreamAll
  BY DEF IInv, StreamAll
<1> QED
  BY <1>1, <1>2, GetNextStream, ConnectStream, OthersStream DEF IInv, Next, Listener

-----------------------------------------------------------------------------
(* The retries of one connect(), and the reconnections between two pauses.  *)
CountAll == RetryInv /\ FloodInv

(* get_next() starts a connect() afresh, and reads only what a success left. *)
LEMMA GetNextCount ==
  ASSUME TypeOK, CountAll, Connect \/ GetNext \/ ReadFrame \/ ReadFails \/ Recycle \/ Recycled
  PROVE  CountAll'
<1>1. CASE Connect \/ Recycled
  BY <1>1, EventSessionAssumption DEF Connect, Recycled, CountAll, RetryInv, FloodInv
<1>2. CASE GetNext
  BY <1>2 DEF GetNext, CloseEventStreams, CountAll, RetryInv, FloodInv
<1>3. CASE ReadFrame
  BY <1>3 DEF ReadFrame, CountAll, RetryInv, FloodInv, session
<1>4. CASE ReadFails
  BY <1>4 DEF ReadFails, CloseEventStreams, CountAll, RetryInv, FloodInv
<1>5. CASE Recycle
  BY <1>5 DEF Recycle, CountAll, RetryInv, FloodInv
<1> QED
  BY <1>1, <1>2, <1>3, <1>4, <1>5

(* connect() counts its failures, and a failed reconnection is the second   *)
(* since the last pause only if get_next() pauses after it.                 *)
LEMMA ConnectCount ==
  ASSUME TypeOK, CountAll, StreamInv,
         \/ OpenOk \/ OpenFails \/ Established \/ Rejected \/ ShakeFails \/ ShakeCrashes
         \/ BackOff \/ TryAgain \/ ConnectFailed \/ Pause \/ Cancelled
  PROVE  CountAll'
<1>1. CASE OpenOk
  BY <1>1 DEF OpenOk, CountAll, RetryInv, FloodInv
<1>2. CASE OpenFails \/ Rejected \/ ShakeFails
  BY <1>2 DEF OpenFails, Rejected, ShakeFails, CountAll, RetryInv, FloodInv
<1>3. CASE Established \/ Pause
  BY <1>3 DEF Established, Pause, CountAll, RetryInv, FloodInv
<1>4. CASE ShakeCrashes \/ TryAgain \/ Cancelled
  BY <1>4 DEF ShakeCrashes, TryAgain, Cancelled, CountAll, RetryInv, FloodInv, session
<1>5. CASE BackOff
  BY <1>5, EventSessionAssumption DEF TypeOK, BackOff, CountAll, RetryInv, FloodInv, session
<1>6. CASE ConnectFailed
  <2>1. stream = NoConn /\ stream' = stream /\ found' = found /\ retries' = retries
    BY <1>6 DEF ConnectFailed, StreamInv, Streamless
  <2>2. unpaused \in 0 .. 1 /\ (found = "first" => unpaused = 0)
                            /\ (found = "stream" => unpaused = 0)
    BY <1>6 DEF TypeOK, ConnectFailed, CountAll, FloodInv
  <2>3. CASE found = "first"
    <3>1. pc' \in {"idle"} /\ unpaused' = 0
      BY <1>6, <2>2, <2>3 DEF ConnectFailed
    <3> QED
      BY <2>1, <2>3, <3>1 DEF CountAll, RetryInv, FloodInv
  <2>4. CASE found = "stream"
    <3>1. pc' \in {"idle", "ended"} /\ unpaused' = 1
      BY <1>6, <2>2, <2>4 DEF ConnectFailed
    <3> QED
      BY <2>1, <2>4, <3>1 DEF CountAll, RetryInv, FloodInv
  <2>5. CASE found = "nothing"
    <3>1. pc' \in {"pausing", "ended"} /\ unpaused' = unpaused + 1
      BY <1>6, <2>2, <2>5 DEF ConnectFailed
    <3> QED
      BY <2>1, <2>2, <2>5, <3>1 DEF CountAll, RetryInv, FloodInv
  <2> QED
    BY <2>3, <2>4, <2>5 DEF TypeOK
<1> QED
  BY <1>1, <1>2, <1>3, <1>4, <1>5, <1>6

(* disconnect(), the keepalive tasks and the network count nothing.         *)
LEMMA OthersCount ==
  ASSUME CountAll, StreamAll,
         Closer \/ WorldChanges \/ \E c \in Conns : Keepalive(c) \/ Drop(c)
  PROVE  CountAll'
<1>1. CASE CloseSocket
  BY <1>1 DEF CloseSocket, CloseStreams, CountAll, RetryInv, FloodInv, StreamAll, CloserInv
<1>2. CASE Disconnect \/ Close \/ WorldChanges \/ \E c \in Conns : Keepalive(c) \/ Drop(c)
  <2>1. UNCHANGED <<pc, session>>
    BY <1>2 DEF Disconnect, Close, WorldChanges, Keepalive, KeepaliveTick, KeepaliveSent,
                KeepaliveFails, KeepaliveCancelled, Drop
  <2> QED
    BY <2>1 DEF CountAll, RetryInv, FloodInv, session
<1>3. CASE Closed
  BY <1>3 DEF Closed, CountAll, RetryInv, FloodInv
<1> QED
  BY <1>1, <1>2, <1>3 DEF Closer

(* Every step keeps the counts. *)
LEMMA CountStep ==
  ASSUME IInv, [Next]_vars
  PROVE  CountAll'
<1>1. CASE UNCHANGED vars
  BY <1>1 DEF IInv, CountAll, RetryInv, FloodInv, vars, session
<1>2. CountAll /\ StreamAll
  BY DEF IInv, CountAll, StreamAll
<1> QED
  BY <1>1, <1>2, GetNextCount, ConnectCount, OthersCount DEF IInv, Next, Listener, StreamAll

-----------------------------------------------------------------------------
(* The session starts without a stream, a task or a pause to come.          *)
LEMMA InitIInv == Init => IInv
<1> SUFFICES ASSUME Init
             PROVE  IInv
  OBVIOUS
<1>1. TypeOK
  <2>1. retries \in 0 .. MaxConnectAttempts /\ unpaused \in 0 .. 3
    BY EventSessionAssumption DEF Init
  <2>2. /\ keepalive \in [Conns -> Live \cup {"none"}]
        /\ sock \in [Conns -> {"open", "closed"}] /\ peer \in [Conns -> {"none", "up", "down"}]
    BY DEF Init
  <2> QED
    BY <2>1, <2>2 DEF Init, TypeOK, States, Verdicts
<1>2. KeepaliveFollowsStream /\ NoLeakedSocket /\ StreamInv /\ CloserInv
  <2>1. \A c \in Conns : keepalive[c] = "none" /\ sock[c] = "closed"
    BY DEF Init
  <2> QED
    BY <2>1 DEF Init, KeepaliveFollowsStream, NoLeakedSocket, StreamInv, CloserInv, Live, Streamless
<1>3. RetryInv /\ FloodInv
  BY DEF Init, RetryInv, FloodInv
<1> QED
  BY <1>1, <1>2, <1>3 DEF IInv

(* The inductive invariant holds in every state of every behaviour, fair    *)
(* or not.                                                                  *)
THEOREM SessionInvariant == Spec => []IInv
<1>1. IInv /\ [Next]_vars => IInv'
  BY TypeStep, StreamStep, CountStep DEF IInv, StreamAll, CountAll
<1> QED
  BY <1>1, InitIInv, PTL DEF Spec

(* The session keeps its types; in particular connect() never starts an     *)
(* attempt beyond MAX_CONNECT_ATTEMPTS.                                     *)
THEOREM TypeCorrect == Spec => []TypeOK
<1>1. IInv => TypeOK
  BY DEF IInv
<1> QED
  BY <1>1, SessionInvariant, PTL

(* No keepalive task outlives the socket it was started for                 *)
(* (event_session.py:103-104).                                              *)
THEOREM KeepaliveIsBound == Spec => []KeepaliveFollowsStream
<1>1. IInv => KeepaliveFollowsStream
  BY DEF IInv
<1> QED
  BY <1>1, SessionInvariant, PTL

(* Every open socket is the session's, over reconnections, failures half-   *)
(* way and cancellations (session.py:507-513).                              *)
THEOREM SocketsAreHeld == Spec => []NoLeakedSocket
<1>1. IInv => NoLeakedSocket
  BY DEF IInv
<1> QED
  BY <1>1, SessionInvariant, PTL

(* Once disconnect() has returned nothing runs and nothing is open, even    *)
(* where the cancellation of the listener was suppressed (event_session.py  *)
(* :80, tcp.py:72).                                                         *)
THEOREM TeardownIsComplete == Spec => []ClosedForGood
<1>1. IInv => ClosedForGood
  <2> SUFFICES ASSUME IInv, closer = "closed"
               PROVE  /\ pc = "ended" /\ stream = NoConn /\ ~connected
                      /\ \A c \in Conns : sock[c] = "closed" /\ keepalive[c] = "none"
    BY DEF ClosedForGood
  <2>1. pc = "ended" /\ stream = NoConn /\ ~connected
    BY DEF IInv, CloserInv
  <2> QED
    BY <2>1, StreamlessIsBare DEF IInv, StreamAll
<1> QED
  BY <1>1, SessionInvariant, PTL

(* A gateway that refuses every session sees at most two cycles of          *)
(* connect() between two pauses, for any MAX_CONNECT_ATTEMPTS               *)
(* (event_session.py:177-194).                                              *)
THEOREM GatewayIsNotFlooded == Spec => []FloodBounded
<1>1. IInv => FloodBounded
  BY DEF IInv, FloodInv, FloodBounded
<1> QED
  BY <1>1, SessionInvariant, PTL
=============================================================================

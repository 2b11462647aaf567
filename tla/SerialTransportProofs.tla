----------------------- MODULE SerialTransportProofs -----------------------
(***************************************************************************)
(* Proofs about AsyncSerialTransport, for any calls, topics and bounds:    *)
(* the exchange belongs to one call, an ACK is not taken for another       *)
(* call's as long as no call has left its answer behind, and the flags of  *)
(* the link agree with its reader task and its port.                       *)
(***************************************************************************)
EXTENDS SerialTransport, TLAPS

(* The frames on the line stay frames. *)
LEMMA SeqFacts ==
  ASSUME TypeOK
  PROVE  /\ inbox # <<>> => Head(inbox) \in Frames /\ Tail(inbox) \in Seq(Frames)
         /\ \A f \in Frames : Append(inbox, f) \in Seq(Frames)
BY DEF TypeOK

(* Taking the exchange keeps the types. *)
LEMMA WriteType ==
  ASSUME TypeOK, NEW s \in Calls, Write(s)
  PROVE  TypeOK'
<1>1. asked' \subseteq Calls
  BY DEF TypeOK, Write
<1>2. pc' \in [Calls -> {"idle", "waiting", "answering", "done"}]
  BY DEF TypeOK, Write
<1>3. lock' \in Calls \cup {NoCall} /\ pending' \in Calls \cup {NoCall}
  BY DEF TypeOK, Write
<1>4. collected' \in 0 .. MaxFrames /\ future' = "waiting"
  BY SerialAssumption DEF TypeOK, Write
<1>5. UNCHANGED <<outcome, answeredBy, link, inbox, late>>
  BY DEF Write
<1> QED
  BY <1>1, <1>2, <1>3, <1>4, <1>5 DEF TypeOK, link

(* send() keeps the types. *)
LEMMA SendType ==
  ASSUME TypeOK, NEW s \in Calls, Send(s)
  PROVE  TypeOK'
<1>1. CASE NotConnected(s)
  BY <1>1 DEF TypeOK, NotConnected, End, link, line
<1>2. CASE Refuse(s)
  BY <1>2 DEF TypeOK, Refuse, End, link, line
<1>3. CASE WriteAtOnce(s)
  BY <1>3, WriteType DEF WriteAtOnce
<1>4. CASE Queue(s)
  BY <1>4 DEF TypeOK, Queue, link, line
<1>5. CASE Granted(s)
  BY <1>5, WriteType DEF Granted
<1>6. CASE WriterGone(s)
  BY <1>6, SerialAssumption DEF TypeOK, WriterGone, Leave, End, link, line
<1>7. CASE DrainFails(s)
  BY <1>7, SerialAssumption DEF TypeOK, DrainFails, Leave, End, link, line, AnswerToCome
<1>8. CASE Answered(s)
  BY <1>8, SerialAssumption DEF TypeOK, Answered, Leave, End, link, line, AnswerToCome
<1>9. CASE Timeout(s)
  BY <1>9, SerialAssumption DEF TypeOK, Timeout, Leave, End, link, line, AnswerToCome
<1>10. CASE CancelWaiting(s)
  BY <1>10 DEF TypeOK, CancelWaiting, End, link, line
<1>11. CASE CancelAnswering(s)
  BY <1>11, SerialAssumption DEF TypeOK, CancelAnswering, Leave, End, link, line, AnswerToCome
<1> QED
  BY <1>1, <1>2, <1>3, <1>4, <1>5, <1>6, <1>7, <1>8, <1>9, <1>10, <1>11 DEF Send

(* The reader task keeps the types. *)
LEMMA ReaderType ==
  ASSUME TypeOK, Reader
  PROVE  TypeOK'
<1>1. CASE ReaderStarts
  BY <1>1 DEF TypeOK, ReaderStarts, client, line
<1>2. CASE Notify
  <2>1. /\ inbox # <<>> /\ inbox' = Tail(inbox)
        /\ UNCHANGED <<pc, outcome, lock, pending, link, asked, late, answeredBy, future, collected>>
    BY <1>2 DEF Notify, Reads
  <2> QED
    BY <2>1, SeqFacts DEF TypeOK, link
<1>3. CASE Ack
  <2>1. Head(inbox).to \in Calls
    BY <1>3, SeqFacts DEF Ack, Reads, Frames
  <2> QED
    BY <1>3, <2>1, SeqFacts DEF TypeOK, Ack, Reads, Expecting, link
<1>4. CASE Nack
  BY <1>4, SeqFacts DEF TypeOK, Nack, Reads, link
<1>5. CASE OffTopic
  BY <1>5, SeqFacts DEF TypeOK, OffTopic, Reads, link
<1>6. CASE Collect
  <2>1. collected' \in 0 .. MaxFrames /\ future' \in {"none", "waiting", "ack", "empty", "overflow"}
    BY <1>6, SerialAssumption DEF TypeOK, Collect
  <2> QED
    BY <1>6, <2>1, SeqFacts DEF TypeOK, Collect, Reads, link
<1>7. CASE ReaderEnds
  BY <1>7 DEF TypeOK, ReaderEnds, ResolvePending, line
<1>8. CASE ParseRaises
  <2>1. inbox' \in Seq(Frames)
    BY <1>8, SeqFacts DEF ParseRaises
  <2> QED
    BY <1>8, <2>1 DEF TypeOK, ParseRaises, ResolvePending
<1> QED
  BY <1>1, <1>2, <1>3, <1>4, <1>5, <1>6, <1>7, <1>8 DEF Reader

(* connect() and disconnect() keep the types. *)
LEMMA OwnerType ==
  ASSUME TypeOK, Owner
  PROVE  TypeOK'
<1>1. CASE Connect
  BY <1>1 DEF TypeOK, Connect, client, line
<1>2. CASE ConnectAgain
  BY <1>2 DEF TypeOK, ConnectAgain, StopReader, ResolvePending, line
<1>3. CASE OpenOk
  <2>0. <<>> \in Seq(Frames)
    OBVIOUS
  <2>1. inbox' \in Seq(Frames)
    BY <1>3, <2>0 DEF TypeOK, OpenOk
  <2> QED
    BY <1>3, <2>1 DEF TypeOK, OpenOk, client
<1>4. CASE OpenFails
  BY <1>4 DEF TypeOK, OpenFails, client, line
<1>5. CASE Disconnect
  BY <1>5 DEF TypeOK, Disconnect, StopReader, ResolvePending, line
<1>6. CASE ClosePort
  BY <1>6 DEF TypeOK, ClosePort, client, line
<1>7. CASE PortClosed
  BY <1>7, ZenonT(40) DEF TypeOK, PortClosed, client, line
<1>8. CASE ReaderRaised
  BY <1>8 DEF TypeOK, ReaderRaised, client, line
<1> QED
  BY <1>1, <1>2, <1>3, <1>4, <1>5, <1>6, <1>7, <1>8 DEF Owner

(* The interface and the line keep the types. *)
LEMMA InterfaceType ==
  ASSUME TypeOK, Interface
  PROVE  TypeOK'
<1>1. CASE BusEvent
  <2>1. [kind |-> "event", to |-> NoCall] \in Frames
    BY DEF Frames
  <2>2. inbox' \in Seq(Frames)
    BY <1>1, <2>1, SeqFacts DEF BusEvent, Arrives
  <2> QED
    BY <1>1, <2>2 DEF TypeOK, BusEvent, client, link
<1>2. CASE Unplugged
  BY <1>2 DEF TypeOK, Unplugged, client, line
<1>3. ASSUME NEW s \in Calls, InterfaceReplies(s)
      PROVE  TypeOK'
  <2>1. \A k \in {"ack", "nack", "signal", "data"} : [kind |-> k, to |-> s] \in Frames
    BY DEF Frames
  <2>2. inbox' \in Seq(Frames)
    BY <1>3, <2>1, SeqFacts DEF InterfaceReplies, Arrives
  <2>3. asked' \subseteq Calls
    BY <1>3 DEF TypeOK, InterfaceReplies
  <2> QED
    BY <1>3, <2>2, <2>3 DEF TypeOK, InterfaceReplies, client, link
<1> QED
  BY <1>1, <1>2, <1>3 DEF Interface

(* Every step keeps the types. *)
LEMMA TypeStep ==
  ASSUME TypeOK, [Next]_vars
  PROVE  TypeOK'
<1>1. CASE UNCHANGED vars
  BY <1>1 DEF TypeOK, vars, client, link, line
<1> QED
  BY <1>1, SendType, ReaderType, OwnerType, InterfaceType DEF Next

-----------------------------------------------------------------------------
(* A call leaving the exchange is the only one in it. *)
LEMMA LeaveExchange ==
  ASSUME TypeOK, OneExchange, NEW s \in Calls, NEW o, Leave(s, o),
         pc[s] = "answering" \/ lock = NoCall
  PROVE  OneExchange' /\ \A t \in Calls : pc'[t] # "answering"
<1>1. \A t \in Calls : pc[t] = "answering" => t = s
  BY SerialAssumption DEF OneExchange
<1>2. \A t \in Calls : pc'[t] # "answering"
  BY <1>1 DEF TypeOK, Leave, End
<1> QED
  BY <1>2 DEF OneExchange, Leave

(* A call entering the exchange finds nobody there. *)
LEMMA WriteExchange ==
  ASSUME TypeOK, OneExchange, NEW s \in Calls, Write(s), lock = NoCall
  PROVE  OneExchange'
<1>1. \A t \in Calls : pc[t] # "answering"
  BY SerialAssumption DEF OneExchange
<1> QED
  BY <1>1, SerialAssumption DEF TypeOK, OneExchange, Write

(* send() keeps the exchange to one call. *)
LEMMA SendExchange ==
  ASSUME TypeOK, OneExchange, NEW s \in Calls, Send(s)
  PROVE  OneExchange'
<1>1. CASE End(s, outcome'[s]) /\ pc[s] \in {"idle", "waiting"} /\ UNCHANGED <<lock, pending>>
  BY <1>1 DEF TypeOK, OneExchange, End
<1>2. CASE Queue(s)
  BY <1>2 DEF TypeOK, OneExchange, Queue, Passes
<1>3. CASE WriteAtOnce(s)
  BY <1>3, WriteExchange DEF WriteAtOnce, LockFree
<1>4. CASE Granted(s)
  BY <1>4, WriteExchange DEF Granted
<1>5. CASE WriterGone(s)
  BY <1>5, LeaveExchange DEF WriterGone
<1>6. CASE DrainFails(s) \/ Answered(s) \/ Timeout(s) \/ CancelAnswering(s)
  BY <1>6, LeaveExchange DEF DrainFails, Answered, Timeout, CancelAnswering
<1>7. CASE NotConnected(s)
  BY <1>7 DEF TypeOK, OneExchange, NotConnected, End
<1>8. CASE Refuse(s)
  BY <1>8 DEF TypeOK, OneExchange, Refuse, End
<1>9. CASE CancelWaiting(s)
  BY <1>9 DEF TypeOK, OneExchange, CancelWaiting, End
<1> QED
  BY <1>2, <1>3, <1>4, <1>5, <1>6, <1>7, <1>8, <1>9 DEF Send

(* Nobody else touches pc, lock and pending. *)
LEMMA OthersExchange ==
  ASSUME Reader \/ Owner \/ Interface \/ UNCHANGED vars
  PROVE  UNCHANGED <<pc, lock, pending>>
<1>1. CASE Reader
  BY <1>1 DEF Reader, ReaderStarts, Notify, Ack, Nack, OffTopic, Collect, ReaderEnds,
              ParseRaises, Reads, client
<1>2. CASE Owner
  BY <1>2 DEF Owner, Connect, ConnectAgain, OpenOk, OpenFails, Disconnect, ClosePort, ReaderRaised,
              PortClosed, StopReader, client
<1>3. CASE Interface
  BY <1>3 DEF Interface, BusEvent, Unplugged, InterfaceReplies, client
<1>4. CASE UNCHANGED vars
  BY <1>4 DEF vars, client
<1> QED
  BY <1>1, <1>2, <1>3, <1>4

(* Every step keeps the exchange to one call. *)
LEMMA ExchangeStep ==
  ASSUME TypeOK, OneExchange, [Next]_vars
  PROVE  OneExchange'
<1>1. CASE Reader \/ Owner \/ Interface \/ UNCHANGED vars
  BY <1>1, OthersExchange DEF OneExchange
<1> QED
  BY <1>1, SendExchange DEF Next

-----------------------------------------------------------------------------
(* The three facts about the link, proved together. *)
LinkAll == LinkInv /\ ConnectedIsRead /\ DisconnectReleases

(* send() and the line leave the link alone, but for the port that breaks. *)
LEMMA OthersLink ==
  ASSUME \/ \E s \in Calls : Send(s)
         \/ BusEvent \/ \E s \in Calls : InterfaceReplies(s)
         \/ UNCHANGED vars
  PROVE  UNCHANGED link
<1>1. ASSUME NEW s \in Calls, Send(s)
      PROVE  UNCHANGED link
  BY <1>1 DEF Send, NotConnected, Refuse, WriteAtOnce, Queue, Granted, Write, WriterGone,
              DrainFails, Answered, Timeout, CancelWaiting, CancelAnswering
<1>2. CASE UNCHANGED vars
  BY <1>2 DEF vars
<1> QED
  BY <1>1, <1>2 DEF BusEvent, InterfaceReplies

(* The reader task keeps the link's state consistent. *)
LEMMA ReaderLink ==
  ASSUME TypeOK, LinkAll, Reader
  PROVE  LinkAll'
<1>1. CASE ReaderStarts
  BY <1>1 DEF TypeOK, LinkAll, LinkInv, ConnectedIsRead, DisconnectReleases, ReaderStarts
<1>2. CASE Notify \/ Ack \/ Nack \/ OffTopic \/ Collect
  <2>1. UNCHANGED link
    BY <1>2 DEF Notify, Ack, Nack, OffTopic, Collect, Reads
  <2> QED
    BY <2>1 DEF link, LinkAll, LinkInv, ConnectedIsRead, DisconnectReleases
<1>3. CASE ReaderEnds
  BY <1>3 DEF TypeOK, LinkAll, LinkInv, ConnectedIsRead, DisconnectReleases, ReaderEnds
<1>4. CASE ParseRaises
  BY <1>4 DEF TypeOK, LinkAll, LinkInv, ConnectedIsRead, DisconnectReleases, ParseRaises
<1> QED
  BY <1>1, <1>2, <1>3, <1>4 DEF Reader

(* connect() and disconnect() keep the link's state consistent. *)
LEMMA OwnerLink ==
  ASSUME TypeOK, LinkAll, Owner
  PROVE  LinkAll'
<1> USE DEF TypeOK, LinkAll, LinkInv, ConnectedIsRead, DisconnectReleases
<1>1. CASE Connect
  BY <1>1 DEF Connect
<1>2. CASE ConnectAgain
  BY <1>2 DEF ConnectAgain, StopReader
<1>3. CASE OpenOk
  BY <1>3 DEF OpenOk
<1>4. CASE OpenFails
  BY <1>4 DEF OpenFails
<1>5. CASE Disconnect
  BY <1>5 DEF Disconnect, StopReader
<1>6. CASE ClosePort
  BY <1>6 DEF ClosePort
<1>7. CASE PortClosed
  BY <1>7 DEF PortClosed
<1>8. CASE ReaderRaised
  BY <1>8 DEF ReaderRaised
<1> QED
  BY <1>1, <1>2, <1>3, <1>4, <1>5, <1>6, <1>7, <1>8 DEF Owner

(* Every step keeps the link's state consistent. *)
LEMMA LinkStep ==
  ASSUME TypeOK, LinkAll, [Next]_vars
  PROVE  LinkAll'
<1>1. CASE UNCHANGED link
  BY <1>1 DEF link, LinkAll, LinkInv, ConnectedIsRead, DisconnectReleases
<1>2. CASE Unplugged
  BY <1>2 DEF TypeOK, LinkAll, LinkInv, ConnectedIsRead, DisconnectReleases, Unplugged
<1> QED
  BY <1>1, <1>2, OthersLink, ReaderLink, OwnerLink DEF Next, Interface

-----------------------------------------------------------------------------
(* Only send() changes pc; only it and the interface add to the wire. *)
LEMMA ReaderWire ==
  ASSUME TypeOK, WireInv, Reader
  PROVE  WireInv'
<1>1. CASE ReaderStarts \/ ReaderEnds
  BY <1>1 DEF WireInv, ReaderStarts, ReaderEnds, client, line
<1>2. ASSUME inbox # <<>>, inbox' = Tail(inbox), UNCHANGED <<pc, asked, late>>
      PROVE  WireInv'
  <2>1. /\ inbox \in Seq(Frames) /\ inbox # <<>> /\ inbox' = Tail(inbox)
        /\ UNCHANGED <<pc, asked, late>>
    BY <1>2 DEF TypeOK
  <2>2. Len(inbox') = Len(inbox) - 1 /\ \A i \in 1 .. Len(inbox') : inbox'[i] = inbox[i + 1]
    BY <2>1
  <2>3. \A i \in 1 .. Len(inbox') : i + 1 \in 1 .. Len(inbox)
    BY <2>1, <2>2
  <2> QED
    BY <2>1, <2>2, <2>3 DEF WireInv
<1>3. CASE Notify \/ Ack \/ Nack \/ OffTopic \/ Collect
  BY <1>2, <1>3 DEF Notify, Ack, Nack, OffTopic, Collect, Reads
<1>4. CASE ParseRaises
  BY <1>2, <1>4 DEF ParseRaises
<1> QED
  BY <1>1, <1>3, <1>4 DEF Reader

(* connect() and disconnect() put nothing on the wire. *)
LEMMA OwnerWire ==
  ASSUME TypeOK, WireInv, Owner
  PROVE  WireInv'
<1>1. /\ UNCHANGED <<pc, asked, late>>
      /\ inbox' = inbox \/ inbox' = <<>>
  BY DEF Owner, Connect, ConnectAgain, OpenOk, OpenFails, Disconnect, ClosePort, ReaderRaised,
         PortClosed, StopReader, client, line
<1> QED
  BY <1>1 DEF WireInv

(* What the interface sends is for a call in the exchange, or for nobody. *)
LEMMA InterfaceWire ==
  ASSUME TypeOK, WireInv, Interface
  PROVE  WireInv'
<1>1. CASE Unplugged
  BY <1>1 DEF WireInv, Unplugged, client, line
<1>2. ASSUME NEW f, inbox' = Append(inbox, f), asked' \subseteq asked, UNCHANGED <<pc, late>>,
             ~late /\ f.to \in Calls => pc[f.to] = "answering"
      PROVE  WireInv'
  <2>1. inbox \in Seq(Frames)
    BY DEF TypeOK
  <2>2. Len(inbox') = Len(inbox) + 1 /\ inbox'[Len(inbox) + 1] = f
    BY <1>2, <2>1
  <2>3. \A i \in 1 .. Len(inbox) : inbox'[i] = inbox[i]
    BY <1>2, <2>1
  <2> QED
    BY <1>2, <2>1, <2>2, <2>3 DEF WireInv
<1>3. CASE BusEvent
  BY <1>2, <1>3, SerialAssumption DEF BusEvent, Arrives, client
<1>4. ASSUME NEW s \in Calls, InterfaceReplies(s)
      PROVE  WireInv'
  <2>1. ~late => pc[s] = "answering"
    BY <1>4 DEF WireInv, InterfaceReplies
  <2>2. UNCHANGED <<pc, late>> /\ asked' \subseteq asked
    BY <1>4 DEF InterfaceReplies, client
  <2>3. \E k : inbox' = Append(inbox, [kind |-> k, to |-> s])
    BY <1>4 DEF InterfaceReplies, Arrives
  <2> QED
    BY <1>2, <2>1, <2>2, <2>3
<1> QED
  BY <1>1, <1>3, <1>4 DEF Interface

(* A call leaves nothing on the wire, or is late. *)
LEMMA LeaveWire ==
  ASSUME TypeOK, WireInv, NEW s \in Calls, NEW o, End(s, o), UNCHANGED line,
         (pc[s] # "answering" /\ late' = late) \/ late' = (late \/ AnswerToCome(s))
  PROVE  WireInv'
<1> SUFFICES ASSUME ~late'
             PROVE  /\ \A t \in asked : pc'[t] = "answering"
                    /\ \A i \in 1 .. Len(inbox) :
                         inbox[i].to \in Calls => pc'[inbox[i].to] = "answering"
  BY DEF WireInv, line
<1>1. ~late /\ (pc[s] = "answering" => ~AnswerToCome(s))
  BY DEF TypeOK
<1>2. s \notin asked /\ \A i \in 1 .. Len(inbox) : inbox[i].to # s
  BY <1>1 DEF WireInv, AnswerToCome
<1>3. \A t \in Calls : t # s => pc'[t] = pc[t]
  BY DEF TypeOK, End
<1> QED
  BY <1>1, <1>2, <1>3 DEF TypeOK, WireInv

(* send() keeps the wire's invariant. *)
LEMMA SendWire ==
  ASSUME TypeOK, WireInv, NEW s \in Calls, Send(s)
  PROVE  WireInv'
<1>1. CASE Write(s) /\ pc[s] # "answering"
  <2>1. \A t \in Calls : pc[t] = "answering" => pc'[t] = "answering"
    BY <1>1 DEF TypeOK, Write
  <2>2. pc'[s] = "answering" /\ asked' \subseteq asked \cup {s} /\ UNCHANGED <<inbox, late>>
    BY <1>1 DEF TypeOK, Write
  <2> QED
    BY <2>1, <2>2 DEF TypeOK, WireInv
<1>2. CASE Queue(s)
  <2>1. \A t \in Calls : pc[t] = "answering" => pc'[t] = "answering"
    BY <1>2 DEF TypeOK, Queue, Passes
  <2> QED
    BY <1>2, <2>1 DEF TypeOK, WireInv, Queue, line
<1>3. CASE NotConnected(s) \/ Refuse(s) \/ CancelWaiting(s)
  BY <1>3, LeaveWire DEF NotConnected, Refuse, CancelWaiting
<1>4. CASE WriterGone(s)
  BY <1>4, LeaveWire DEF WriterGone, Leave
<1>5. CASE DrainFails(s) \/ Answered(s) \/ Timeout(s) \/ CancelAnswering(s)
  BY <1>5, LeaveWire DEF DrainFails, Answered, Timeout, CancelAnswering, Leave
<1> QED
  BY <1>1, <1>2, <1>3, <1>4, <1>5 DEF Send, WriteAtOnce, Granted, Passes

(* Every step keeps the wire's invariant. *)
LEMMA WireStep ==
  ASSUME TypeOK, WireInv, [Next]_vars
  PROVE  WireInv'
<1>1. CASE UNCHANGED vars
  BY <1>1 DEF WireInv, vars, client, line
<1> QED
  BY <1>1, ReaderWire, OwnerWire, InterfaceWire, SendWire DEF Next

-----------------------------------------------------------------------------
(* The ACK a call is about to take for its own is its own. *)
LEMMA TimelyStep ==
  ASSUME TypeOK, OneExchange, WireInv, TimelyAnswersMatch, [Next]_vars
  PROVE  TimelyAnswersMatch'
<1>1. CASE UNCHANGED <<answeredBy, future, pending>> /\ (late => late')
  BY <1>1 DEF TypeOK, TimelyAnswersMatch
<1>2. CASE future' # "ack"
  BY <1>2 DEF TimelyAnswersMatch
<1>3. CASE Ack
  <2>1. /\ Head(inbox).to \in Calls /\ inbox # <<>> /\ inbox \in Seq(Frames)
        /\ UNCHANGED <<pending, late>> /\ pending \in Calls
        /\ answeredBy' = [answeredBy EXCEPT ![pending] = Head(inbox).to]
    BY <1>3, SeqFacts DEF TypeOK, Ack, Reads, Expecting, Frames
  <2>2. 1 \in 1 .. Len(inbox) /\ Head(inbox) = inbox[1]
    BY <2>1
  <2>3. ~late => pc[Head(inbox).to] = "answering"
    BY <2>1, <2>2 DEF WireInv
  <2>4. ~late => Head(inbox).to = pending
    BY <2>1, <2>3 DEF OneExchange
  <2> QED
    BY <2>1, <2>4 DEF TypeOK, TimelyAnswersMatch
<1>4. CASE Reader /\ ~Ack
  BY <1>1, <1>2, <1>4 DEF TypeOK, Reader, ReaderStarts, Notify, Nack, OffTopic, Collect,
                          ReaderEnds, ParseRaises, ResolvePending, Reads, client
<1>5. CASE Owner
  BY <1>1, <1>2, <1>5 DEF TypeOK, Owner, Connect, ConnectAgain, OpenOk, OpenFails, Disconnect,
                          ClosePort, ReaderRaised, PortClosed, StopReader, ResolvePending, client
<1>6. CASE Interface \/ UNCHANGED vars
  <2>1. UNCHANGED client /\ UNCHANGED late
    BY <1>6 DEF Interface, BusEvent, Unplugged, InterfaceReplies, vars
  <2> QED
    BY <1>1, <2>1 DEF client
<1>7. ASSUME NEW s \in Calls, Send(s)
      PROVE  TimelyAnswersMatch'
  <2>1. CASE Queue(s) \/ NotConnected(s) \/ Refuse(s) \/ CancelWaiting(s)
    BY <1>1, <2>1 DEF Queue, NotConnected, Refuse, CancelWaiting, End
  <2>2. CASE WriteAtOnce(s) \/ Granted(s)
    BY <1>2, <2>2 DEF WriteAtOnce, Granted, Write
  <2>3. CASE WriterGone(s) \/ DrainFails(s) \/ Answered(s) \/ Timeout(s) \/ CancelAnswering(s)
    BY <1>2, <2>3 DEF WriterGone, DrainFails, Answered, Timeout, CancelAnswering, Leave
  <2> QED
    BY <1>7, <2>1, <2>2, <2>3 DEF Send
<1> QED
  BY <1>3, <1>4, <1>5, <1>6, <1>7 DEF Next

-----------------------------------------------------------------------------
(* The inductive invariant holds at first, and of every step. *)
LEMMA Inductive ==
  /\ Init => IInv
  /\ IInv /\ [Next]_vars => IInv'
<1>1. ASSUME Init
      PROVE  IInv
  <2>1. <<>> \in Seq(Frames)
    OBVIOUS
  <2>2. TypeOK
    <3>1. collected \in 0 .. MaxFrames /\ inbox \in Seq(Frames) /\ asked \subseteq Calls
      BY <1>1, <2>1, SerialAssumption DEF Init
    <3>2. /\ pc \in [Calls -> {"idle", "waiting", "answering", "done"}]
          /\ answeredBy \in [Calls -> Calls \cup {NoCall}]
      BY <1>1 DEF Init
    <3> QED
      BY <1>1, <3>1, <3>2 DEF Init, TypeOK
  <2> QED
    BY <1>1, <2>2, SerialAssumption
       DEF Init, IInv, OneExchange, TimelyAnswersMatch, LinkInv, ConnectedIsRead,
           DisconnectReleases, WireInv
<1>2. ASSUME IInv, [Next]_vars
      PROVE  IInv'
  <2>1. TypeOK' /\ OneExchange' /\ WireInv' /\ TimelyAnswersMatch'
    BY <1>2, TypeStep, ExchangeStep, WireStep, TimelyStep DEF IInv
  <2>2. LinkAll'
    BY <1>2, LinkStep DEF IInv, LinkAll
  <2> QED
    BY <2>1, <2>2 DEF IInv, LinkAll
<1> QED
  BY <1>1, <1>2

(* The inductive invariant always holds. *)
LEMMA Invariant == Spec => []IInv
BY Inductive, PTL DEF Spec

(* The variables keep the types TypeOK gives them. *)
THEOREM TypeCorrect == Spec => []TypeOK
<1>1. IInv => TypeOK
  BY DEF IInv
<1> QED
  BY <1>1, Invariant, PTL

(* The pending future is that of the one call in the exchange, whatever     *)
(* calls queue, are cancelled or time out around it.                        *)
THEOREM ExchangeIsExclusive == Spec => []OneExchange
<1>1. IInv => OneExchange
  BY DEF IInv
<1> QED
  BY <1>1, Invariant, PTL

(* As long as no call has left its answer on the line, no ACK is taken for  *)
(* another call's, whatever reconnections, events and losses come between.  *)
THEOREM TimelyAnswers == Spec => []TimelyAnswersMatch
<1>1. IInv => TimelyAnswersMatch
  BY DEF IInv
<1> QED
  BY <1>1, Invariant, PTL

(* is_connected means an open or just broken port with a reader task that   *)
(* will notice.                                                             *)
THEOREM LinkIsSound == Spec => []ConnectedIsRead
<1>1. IInv => ConnectedIsRead
  BY DEF IInv
<1> QED
  BY <1>1, Invariant, PTL

(* A disconnect() that has returned leaves neither an open port nor a task   *)
(* that reads it.                                                           *)
THEOREM DisconnectIsComplete == Spec => []DisconnectReleases
<1>1. IInv => DisconnectReleases
  BY DEF IInv
<1> QED
  BY <1>1, Invariant, PTL
=============================================================================

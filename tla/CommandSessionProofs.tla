-------------------------- MODULE CommandSessionProofs --------------------------
(***************************************************************************)
(* Safety of OWNCommandSession, for every set of calls and of connections: *)
(* type correctness, no socket leaks, a waiting call has its connection to *)
(* itself, is_connected means open streams, and send() keeps its contract. *)
(* One lemma per helper, one per action, and the step.                     *)
(***************************************************************************)
EXTENDS CommandSession, TLAPS

(* A task that moves to a state of its own kind keeps pc well typed. *)
LEMMA PcSet ==
  ASSUME TypeOK, NEW p \in Tasks, NEW x, pc' = [pc EXCEPT ![p] = x],
         p \in Calls => x \in CallStates, p = Consumer => x \in ConnectStates
  PROVE  PcOK'
<1>1. p \in Calls \/ p = Consumer
  BY DEF Tasks
<1>2. x \in CallStates \cup ConnectStates
  BY <1>1
<1>3. (pc \in [Tasks -> CallStates \cup ConnectStates])'
  BY <1>2 DEF TypeOK, PcOK
<1>4. \A s \in Calls : pc'[s] \in CallStates
  BY DEF TypeOK, PcOK, Tasks
<1>5. pc'[Consumer] \in ConnectStates
  BY DEF TypeOK, PcOK, Tasks
<1> QED
  BY <1>3, <1>4, <1>5 DEF PcOK

(* The effect of send() returning is well typed. *)
LEMMA ReturnType ==
  ASSUME TypeOK, NEW s \in Calls, NEW o \in Outcomes, Return(s, o)
  PROVE  PcOK' /\ outcome' \in [Calls -> Outcomes] /\ lock' \in Calls \cup {NoCall}
<1>1. PcOK'
  BY PcSet, CallsAssumption DEF Return, CallStates, Tasks
<1> QED
  BY <1>1 DEF TypeOK, Return

(* The effect of _close_streams() on the streams and sockets is well typed. *)
LEMMA CloseStreamsType ==
  ASSUME TypeOK, CloseStreams
  PROVE  /\ stream' \in Conns \cup {NoConn}
         /\ sock' \in [Conns -> {"unused", "open", "closed"}]
BY DEF TypeOK, CloseStreams

(* Leaving a StreamReader leaves well typed readers and frames. *)
LEMMA LeaveReaderType ==
  ASSUME TypeOK, NEW p \in Tasks, LeaveReader(p)
  PROVE  reader' \in [Tasks -> Conns \cup {NoConn}] /\ replies' \in [Conns -> Seq(Frames)]
BY DEF TypeOK, LeaveReader

(* Reading one frame leaves a sequence of frames. *)
LEMMA ConsumeType ==
  ASSUME TypeOK, NEW p \in Tasks, Readable(p), Consume(p)
  PROVE  replies' \in [Conns -> Seq(Frames)]
<1>1. replies[reader[p]] \in Seq(Frames) /\ replies[reader[p]] # <<>>
  BY DEF TypeOK, Readable
<1>2. Tail(replies[reader[p]]) \in Seq(Frames)
  BY <1>1
<1> QED
  BY <1>2 DEF TypeOK, Consume

(* The effect of writing a frame is well typed. *)
LEMMA WriteType ==
  ASSUME TypeOK, NEW s \in Calls, NEW c \in Conns, Write(s, c),
         try' \in [Calls -> 1 .. MaxTries]
  PROVE  /\ requests' \in [Conns -> SUBSET (Calls \X (1 .. MaxTries))]
         /\ PcOK'
         /\ reader' \in [Tasks -> Conns \cup {NoConn}]
<1>1. PcOK'
  BY PcSet, CallsAssumption DEF Write, CallStates, Tasks
<1>2. try'[s] \in 1 .. MaxTries
  BY DEF MaxTries
<1>3. <<s, try'[s]>> \in Calls \X (1 .. MaxTries)
  BY <1>2
<1> QED
  BY <1>1, <1>3 DEF TypeOK, Write

(* The head of the retry loop is well typed, whichever way it goes. *)
LEMMA AttemptType ==
  ASSUME TypeOK, NEW s \in Calls, Attempt(s),
         try' \in [Calls -> 1 .. MaxTries]
  PROVE  /\ PcOK'
         /\ lock' \in Calls \cup {NoCall}
         /\ outcome' \in [Calls -> Outcomes]
         /\ left' \in [Tasks -> 0 .. MaxConnectAttempts]
         /\ reader' \in [Tasks -> Conns \cup {NoConn}]
         /\ requests' \in [Conns -> SUBSET (Calls \X (1 .. MaxTries))]
<1>1. CASE stream = NoConn /\ cooldown
  <2>1. Return(s, "unsent") /\ reader' = [reader EXCEPT ![s] = NoConn] /\ UNCHANGED <<left, requests>>
    BY <1>1 DEF Attempt
  <2> QED
    BY <2>1, ReturnType DEF TypeOK, Outcomes
<1>2. CASE stream = NoConn /\ ~cooldown
  <2>1. /\ pc' = [pc EXCEPT ![s] = "opening"] /\ left' = [left EXCEPT ![s] = 1] /\ lock' = s
        /\ reader' = [reader EXCEPT ![s] = NoConn] /\ UNCHANGED <<outcome, requests>>
    BY <1>2 DEF Attempt
  <2>2. PcOK'
    BY <2>1, PcSet, CallsAssumption DEF CallStates, Tasks
  <2>3. 1 \in 0 .. MaxConnectAttempts
    BY CallsAssumption
  <2> QED
    BY <2>1, <2>2, <2>3 DEF TypeOK
<1>3. CASE stream # NoConn
  <2>1. Write(s, stream) /\ lock' = s /\ UNCHANGED <<outcome, left>>
    BY <1>3 DEF Attempt
  <2>2. stream \in Conns
    BY <1>3 DEF TypeOK
  <2> QED
    BY <2>1, <2>2, WriteType DEF TypeOK
<1> QED
  BY <1>1, <1>2, <1>3 DEF TypeOK

(* The exception handlers that close the session are well typed. *)
LEMMA CloseAndReturnType ==
  ASSUME TypeOK, NEW s \in Calls, NEW o \in Outcomes, CloseAndReturn(s, o)
  PROVE  /\ PcOK'
         /\ outcome' \in [Calls -> Outcomes]
         /\ stream' \in Conns \cup {NoConn}
         /\ sock' \in [Conns -> {"unused", "open", "closed"}]
         /\ reader' \in [Tasks -> Conns \cup {NoConn}]
         /\ replies' \in [Conns -> Seq(Frames)]
<1>1. PcOK'
  BY PcSet, CallsAssumption DEF CloseAndReturn, CallStates, Tasks
<1>2. s \in Tasks
  BY DEF Tasks
<1> QED
  BY <1>1, <1>2, CloseStreamsType, LeaveReaderType DEF TypeOK, CloseAndReturn

(* The end of a failed connection attempt is well typed. *)
LEMMA AttemptFailedType ==
  ASSUME TypeOK, NEW p \in Tasks, AttemptFailed(p)
  PROVE  /\ PcOK'
         /\ stream' \in Conns \cup {NoConn}
         /\ sock' \in [Conns -> {"unused", "open", "closed"}]
         /\ reader' \in [Tasks -> Conns \cup {NoConn}]
         /\ replies' \in [Conns -> Seq(Frames)]
<1>1. PcOK'
  BY PcSet, CallsAssumption DEF AttemptFailed, CallStates, ConnectStates, Tasks
<1> QED
  BY <1>1, CloseStreamsType, LeaveReaderType DEF AttemptFailed

(* What the gateway sends is appended as frames. *)
LEMMA DeliverType ==
  ASSUME TypeOK, NEW c \in Conns, NEW frames \in Seq(Frames), Deliver(c, frames)
  PROVE  replies' \in [Conns -> Seq(Frames)]
<1>1. replies[c] \o frames \in Seq(Frames)
  BY DEF TypeOK
<1> QED
  BY <1>1 DEF TypeOK, Deliver

(* Call keeps TypeOK. *)
LEMMA CallType ==
  ASSUME TypeOK, NEW s \in Calls, Call(s)
  PROVE  TypeOK'
BY PcSet, CallsAssumption DEF TypeOK, Call, CallStates, Tasks, sessionVars, wireVars

(* CancelWaiting keeps TypeOK. *)
LEMMA CancelWaitingType ==
  ASSUME TypeOK, NEW s \in Calls, CancelWaiting(s)
  PROVE  TypeOK'
BY PcSet, CallsAssumption DEF TypeOK, CancelWaiting, CallStates, Tasks, wireVars, Outcomes

(* Acquire keeps TypeOK. *)
LEMMA AcquireType ==
  ASSUME TypeOK, NEW s \in Calls, Acquire(s)
  PROVE  TypeOK'
BY AttemptType, CallsAssumption DEF TypeOK, Acquire, MaxTries

(* Refuse keeps TypeOK. *)
LEMMA RefuseType ==
  ASSUME TypeOK, NEW s \in Calls, Refuse(s)
  PROVE  TypeOK'
BY ReturnType, CallsAssumption DEF TypeOK, Refuse, Outcomes, wireVars

(* ReadAck keeps TypeOK. *)
LEMMA ReadAckType ==
  ASSUME TypeOK, NEW s \in Calls, ReadAck(s)
  PROVE  TypeOK'
BY ReturnType, ConsumeType, CallsAssumption DEF TypeOK, ReadAck, Outcomes, Tasks

(* ReadNack keeps TypeOK. *)
LEMMA ReadNackType ==
  ASSUME TypeOK, NEW s \in Calls, ReadNack(s)
  PROVE  TypeOK'
BY ReturnType, ConsumeType, CallsAssumption DEF TypeOK, ReadNack, Outcomes, Tasks

(* ConnectionLost keeps TypeOK. *)
LEMMA ConnectionLostType ==
  ASSUME TypeOK, NEW s \in Calls, ConnectionLost(s)
  PROVE  TypeOK'
BY PcSet, CloseStreamsType, LeaveReaderType, CallsAssumption DEF TypeOK, ConnectionLost, CallStates, Tasks

(* GiveUp keeps TypeOK. *)
LEMMA GiveUpType ==
  ASSUME TypeOK, NEW s \in Calls, GiveUp(s)
  PROVE  TypeOK'
BY ReturnType, CallsAssumption DEF TypeOK, GiveUp, Outcomes, wireVars

(* Abandon keeps TypeOK. *)
LEMMA AbandonType ==
  ASSUME TypeOK, NEW s \in Calls, Abandon(s)
  PROVE  TypeOK'
BY CloseAndReturnType, CallsAssumption DEF TypeOK, Abandon, Outcomes

(* Closed keeps TypeOK. *)
LEMMA ClosedType ==
  ASSUME TypeOK, NEW s \in Calls, Closed(s)
  PROVE  TypeOK'
BY ReturnType, CallsAssumption DEF TypeOK, Closed, wireVars

(* ShakeRaises keeps TypeOK. *)
LEMMA ShakeRaisesType ==
  ASSUME TypeOK, NEW s \in Calls, ShakeRaises(s)
  PROVE  TypeOK'
BY ReturnType, ConsumeType, CallsAssumption DEF TypeOK, ShakeRaises, Outcomes, Tasks

(* OpenOk keeps TypeOK. *)
LEMMA OpenOkType ==
  ASSUME TypeOK, NEW p \in Tasks, NEW c \in Conns, OpenOk(p, c)
  PROVE  TypeOK'
BY PcSet, CallsAssumption DEF TypeOK, OpenOk, CallStates, ConnectStates, Tasks

(* OpenFail keeps TypeOK. *)
LEMMA OpenFailType ==
  ASSUME TypeOK, NEW p \in Tasks, OpenFail(p)
  PROVE  TypeOK'
BY AttemptFailedType, CallsAssumption DEF TypeOK, OpenFail

(* ShakeLost keeps TypeOK. *)
LEMMA ShakeLostType ==
  ASSUME TypeOK, NEW p \in Tasks, ShakeLost(p)
  PROVE  TypeOK'
BY AttemptFailedType, CallsAssumption DEF TypeOK, ShakeLost

(* ReadMore keeps TypeOK. *)
LEMMA ReadMoreType ==
  ASSUME TypeOK, NEW s \in Calls, ReadMore(s)
  PROVE  TypeOK'
<1>1. got' \in [Calls -> BOOLEAN]
  <2>1. \E g \in BOOLEAN : got' = [got EXCEPT ![s] = g]
    BY DEF ReadMore, TypeOK
  <2> QED
    BY <2>1 DEF TypeOK
<1>2. s \in Tasks
  BY DEF Tasks
<1>3. CASE stream = NoConn
  <2>1. CloseAndReturn(s, "unknown")
    BY <1>3 DEF ReadMore
  <2> QED
    BY <1>1, <2>1, CloseAndReturnType DEF TypeOK, ReadMore, Outcomes
<1>4. CASE stream # NoConn
  <2>1. /\ Consume(s) /\ Readable(s)
        /\ reader' = [reader EXCEPT ![s] = stream]
        /\ UNCHANGED <<pc, outcome, stream, sock>>
    BY <1>4 DEF ReadMore
  <2>2. replies' \in [Conns -> Seq(Frames)]
    BY <1>2, <2>1, ConsumeType
  <2>3. PcOK'
    BY <2>1 DEF TypeOK, PcOK
  <2>4. UNCHANGED <<closer, lock, try, left, connected, cooldown, peer, requests, runs>>
    BY DEF ReadMore
  <2> QED
    BY <1>1, <2>1, <2>2, <2>3, <2>4 DEF TypeOK
<1> QED
  BY <1>3, <1>4

(* RetryNack keeps TypeOK. *)
LEMMA RetryNackType ==
  ASSUME TypeOK, NEW s \in Calls, RetryNack(s)
  PROVE  TypeOK'
<1>1. try' \in [Calls -> 1 .. MaxTries]
  <2>1. try[s] \in 1 .. MaxTries /\ try[s] # MaxTries /\ try' = [try EXCEPT ![s] = @ + 1]
    BY DEF TypeOK, RetryNack, FinalNack
  <2>2. try[s] + 1 \in 1 .. MaxTries
    BY <2>1 DEF MaxTries
  <2> QED
    BY <2>1, <2>2 DEF TypeOK
<1>2. replies' \in [Conns -> Seq(Frames)]
  BY ConsumeType DEF RetryNack, Tasks
<1>3. /\ Attempt(s)
      /\ UNCHANGED <<closer, got, stream, connected, cooldown, sock, peer, runs>>
  BY DEF RetryNack
<1> QED
  BY <1>1, <1>2, <1>3, AttemptType DEF TypeOK

(* Resend keeps TypeOK. *)
LEMMA ResendType ==
  ASSUME TypeOK, NEW s \in Calls, Resend(s)
  PROVE  TypeOK'
<1>1. try' \in [Calls -> 1 .. MaxTries]
  <2>1. try[s] \in 1 .. MaxTries /\ try[s] < MaxTries /\ try' = [try EXCEPT ![s] = @ + 1]
    BY DEF TypeOK, Resend, MayResend
  <2>2. try[s] + 1 \in 1 .. MaxTries
    BY <2>1 DEF MaxTries
  <2> QED
    BY <2>1, <2>2 DEF TypeOK
<1>2. /\ Attempt(s)
      /\ UNCHANGED <<closer, got, stream, connected, cooldown, sock, peer, replies, runs>>
  BY DEF Resend
<1> QED
  BY <1>1, <1>2, AttemptType DEF TypeOK

(* Unavailable keeps TypeOK. *)
LEMMA UnavailableType ==
  ASSUME TypeOK, NEW s \in Calls, Unavailable(s)
  PROVE  TypeOK'
<1>1. CloseAndReturn(s, "unsent") /\ "unsent" \in Outcomes /\ s \in Tasks
  BY DEF Unavailable, Outcomes, Tasks
<1>2. connected' \in BOOLEAN /\ cooldown' \in BOOLEAN
  BY DEF TypeOK, Unavailable
<1>3. left' \in [Tasks -> 0 .. MaxConnectAttempts]
  <2>1. left' = [left EXCEPT ![s] = 0] /\ 0 \in 0 .. MaxConnectAttempts
    BY CallsAssumption DEF Unavailable
  <2> QED
    BY <2>1 DEF TypeOK
<1>4. UNCHANGED <<closer, lock, try, got, peer, requests, runs>>
  BY DEF Unavailable
<1> QED
  BY <1>1, <1>2, <1>3, <1>4, CloseAndReturnType DEF TypeOK

(* ShakeRefused keeps TypeOK. *)
LEMMA ShakeRefusedType ==
  ASSUME TypeOK, NEW p \in Tasks, ShakeRefused(p)
  PROVE  TypeOK'
<1>1. connected' \in BOOLEAN
  BY DEF TypeOK, ShakeRefused
<1>2. left' \in [Tasks -> 0 .. MaxConnectAttempts]
  <2>1. left' = [left EXCEPT ![p] = 0] \/ left' = left
    BY DEF ShakeRefused
  <2>2. 0 \in 0 .. MaxConnectAttempts
    BY CallsAssumption
  <2> QED
    BY <2>1, <2>2 DEF TypeOK
<1>3. AttemptFailed(p) /\ UNCHANGED <<closer, lock, try, got, outcome, cooldown, peer, requests, runs>>
  BY DEF ShakeRefused
<1> QED
  BY <1>1, <1>2, <1>3, AttemptFailedType DEF TypeOK

(* ShakeOk keeps TypeOK. *)
LEMMA ShakeOkType ==
  ASSUME TypeOK, NEW p \in Tasks, ShakeOk(p)
  PROVE  TypeOK'
<1>1. /\ connected' = TRUE /\ Readable(p) /\ pc[p] = "shaking"
      /\ UNCHANGED <<closer, lock, got, left, peer, runs>>
  BY DEF ShakeOk
<1>2. CASE /\ p = Consumer
           /\ Consume(p)
           /\ pc' = [pc EXCEPT ![p] = "idle"]
           /\ reader' = [reader EXCEPT ![p] = NoConn]
           /\ UNCHANGED <<try, outcome, stream, cooldown, sock, requests>>
  <2>1. PcOK'
    BY <1>2, PcSet, CallsAssumption DEF ConnectStates, CallStates
  <2>2. replies' \in [Conns -> Seq(Frames)]
    BY <1>1, <1>2, ConsumeType
  <2> QED
    BY <1>1, <1>2, <2>1, <2>2 DEF TypeOK
<1>3. CASE /\ p \in Calls /\ cooldown' = TRUE
           /\ CloseAndReturn(p, "unsent")
           /\ UNCHANGED <<try, requests>>
  <2>1. "unsent" \in Outcomes
    BY DEF Outcomes
  <2> QED
    BY <1>1, <1>3, <2>1, CloseAndReturnType DEF TypeOK
<1>4. CASE /\ p \in Calls /\ stream # NoConn /\ cooldown' = FALSE
           /\ Consume(p) /\ try' = try
           /\ Write(p, stream)
           /\ UNCHANGED <<outcome, stream, sock>>
  <2>1. replies' \in [Conns -> Seq(Frames)]
    BY <1>1, <1>4, ConsumeType
  <2>2. stream \in Conns
    BY <1>4 DEF TypeOK
  <2>3. try' \in [Calls -> 1 .. MaxTries]
    BY <1>4 DEF TypeOK
  <2> QED
    BY <1>1, <1>4, <2>1, <2>2, <2>3, WriteType DEF TypeOK
<1> QED
  BY <1>2, <1>3, <1>4 DEF ShakeOk

(* Every step of the consumer's connect() and of the cooldown keeps TypeOK. *)
LEMMA ConsumerType ==
  ASSUME TypeOK, ConsumerConnect \/ AttemptReleased \/ BackoffOver
  PROVE  TypeOK'
<1>0. Consumer \in Tasks
  BY DEF Tasks
<1>1. CASE ConsumerConnect
  <2>1. PcOK'
    BY <1>0, <1>1, PcSet, CallsAssumption DEF ConsumerConnect, ConnectStates
  <2>2. left' \in [Tasks -> 0 .. MaxConnectAttempts]
    <3>1. MaxConnectAttempts \in 0 .. MaxConnectAttempts
      BY CallsAssumption
    <3>2. left' = [left EXCEPT ![Consumer] = MaxConnectAttempts]
      BY <1>1 DEF ConsumerConnect
    <3> QED
      BY <3>1, <3>2 DEF TypeOK
  <2> QED
    BY <1>1, <2>1, <2>2 DEF ConsumerConnect, TypeOK, wireVars
<1>2. CASE AttemptReleased
  <2>1. PcOK'
    BY <1>0, <1>2, PcSet, CallsAssumption DEF AttemptReleased, ConnectStates
  <2>2. left' \in [Tasks -> 0 .. MaxConnectAttempts]
    <3>1. left[Consumer] \in 0 .. MaxConnectAttempts
      BY <1>0 DEF TypeOK
    <3>2. left[Consumer] > 1 => left[Consumer] - 1 \in 0 .. MaxConnectAttempts
      BY <3>1, CallsAssumption
    <3>3. 0 \in 0 .. MaxConnectAttempts
      BY CallsAssumption
    <3> QED
      BY <1>2, <3>2, <3>3 DEF AttemptReleased, TypeOK
  <2>3. connected' \in BOOLEAN
    BY <1>2 DEF AttemptReleased, TypeOK
  <2>4. UNCHANGED <<closer, lock, try, got, outcome, reader, stream, cooldown, wireVars>>
    BY <1>2 DEF AttemptReleased
  <2> QED
    BY <2>1, <2>2, <2>3, <2>4 DEF TypeOK, wireVars
<1>3. CASE BackoffOver
  <2>1. PcOK'
    BY <1>0, <1>3, PcSet, CallsAssumption DEF BackoffOver, ConnectStates
  <2> QED
    BY <1>3, <2>1 DEF BackoffOver, TypeOK, sessionVars, wireVars
<1> QED
  BY <1>1, <1>2, <1>3

(* Both steps of close() keep TypeOK. *)
LEMMA CloserType ==
  ASSUME TypeOK, CooldownOver \/ CloseBegin \/ CloseEnd
  PROVE  TypeOK'
<1>1. PcOK'
  BY DEF CooldownOver, CloseBegin, CloseEnd, TypeOK, PcOK
<1>2. CASE CooldownOver
  BY <1>1, <1>2 DEF CooldownOver, TypeOK, wireVars
<1>3. CASE CloseBegin
  BY <1>1, <1>3, CloseStreamsType DEF CloseBegin, TypeOK
<1>4. CASE CloseEnd
  BY <1>1, <1>4 DEF CloseEnd, TypeOK, wireVars
<1> QED
  BY <1>2, <1>3, <1>4

(* Every frame the gateway builds is in Frames. *)
LEMMA FrameType ==
  ASSUME NEW kind \in {"ack", "nack", "fatal", "data"}, NEW to \in Calls \cup {"hello"}
  PROVE  Frame(kind, to) \in Frames
BY DEF Frame, Frames

(* Every step of the gateway keeps TypeOK. *)
LEMMA GatewayType ==
  ASSUME TypeOK, Gateway
  PROVE  TypeOK'
<1> PICK c \in Conns :
       \/ GatewayAccept(c) \/ GatewayRefuse(c) \/ GatewayDrop(c)
       \/ \E s \in Calls, n \in 1 .. MaxTries : GatewayExecute(c, s, n) \/ GatewayReject(c, s, n)
  BY DEF Gateway
<1>1. PcOK'
  BY DEF Gateway, GatewayAccept, GatewayRefuse, GatewayDrop, GatewayExecute, GatewayReject, TypeOK, PcOK
<1>2. CASE GatewayAccept(c)
  <2>1. <<Frame("ack", "hello")>> \in Seq(Frames)
    BY FrameType
  <2>2. replies' \in [Conns -> Seq(Frames)]
    BY <1>2, <2>1, DeliverType DEF GatewayAccept
  <2> QED
    BY <1>1, <1>2, <2>2 DEF GatewayAccept, TypeOK, sessionVars
<1>3. CASE GatewayRefuse(c)
  <2>1. \A kind \in {"nack", "fatal"} : <<Frame(kind, "hello")>> \in Seq(Frames)
    BY FrameType
  <2>2. replies' \in [Conns -> Seq(Frames)]
    BY <1>3, <2>1, DeliverType DEF GatewayRefuse
  <2> QED
    BY <1>1, <1>3, <2>2 DEF GatewayRefuse, TypeOK, sessionVars
<1>4. CASE GatewayDrop(c)
  <2>1. replies' \in [Conns -> Seq(Frames)]
    <3>1. replies[c] \in Seq(Frames) /\ <<>> \in Seq(Frames)
      BY DEF TypeOK
    <3>2. \E kept \in Seq(Frames) : replies' = [replies EXCEPT ![c] = kept]
      BY <1>4, <3>1 DEF GatewayDrop
    <3> QED
      BY <3>2 DEF TypeOK
  <2> QED
    BY <1>1, <1>4, <2>1 DEF GatewayDrop, TypeOK, sessionVars
<1>5. ASSUME NEW s \in Calls, NEW n \in 1 .. MaxTries, GatewayExecute(c, s, n)
      PROVE  TypeOK'
  <2>1. /\ <<Frame("ack", s)>> \in Seq(Frames)
        /\ <<Frame("data", s), Frame("ack", s)>> \in Seq(Frames)
    BY FrameType
  <2>2. replies' \in [Conns -> Seq(Frames)]
    BY <1>5, <2>1, DeliverType DEF GatewayExecute
  <2>3. requests' \in [Conns -> SUBSET (Calls \X (1 .. MaxTries))]
    BY <1>5 DEF GatewayExecute, TypeOK
  <2>4. runs' \in [Calls -> Nat]
    BY <1>5 DEF GatewayExecute, TypeOK
  <2> QED
    BY <1>1, <1>5, <2>2, <2>3, <2>4 DEF GatewayExecute, TypeOK, sessionVars
<1>6. ASSUME NEW s \in Calls, NEW n \in 1 .. MaxTries, GatewayReject(c, s, n)
      PROVE  TypeOK'
  <2>1. /\ <<Frame("nack", s)>> \in Seq(Frames)
        /\ <<Frame("data", s), Frame("nack", s)>> \in Seq(Frames)
    BY FrameType
  <2>2. replies' \in [Conns -> Seq(Frames)]
    BY <1>6, <2>1, DeliverType DEF GatewayReject
  <2>3. requests' \in [Conns -> SUBSET (Calls \X (1 .. MaxTries))]
    BY <1>6 DEF GatewayReject, TypeOK
  <2> QED
    BY <1>1, <1>6, <2>2, <2>3 DEF GatewayReject, TypeOK, sessionVars
<1> QED
  BY <1>2, <1>3, <1>4, <1>5, <1>6

(* Every step keeps TypeOK. *)
LEMMA TypeStep == TypeOK /\ [Next]_vars => TypeOK'
<1> SUFFICES ASSUME TypeOK, [Next]_vars PROVE TypeOK'
  OBVIOUS
<1>1. ASSUME NEW s \in Calls, Call(s) \/ SendStep(s) \/ CancelWaiting(s)
      PROVE  TypeOK'
  BY <1>1, CallType,
     CancelWaitingType,
     AcquireType,
     RefuseType,
     ReadMoreType,
     ReadAckType,
     ReadNackType,
     RetryNackType,
     ConnectionLostType,
     ResendType,
     GiveUpType,
     AbandonType,
     ClosedType,
     ShakeRaisesType,
     UnavailableType DEF SendStep
<1>2. ASSUME NEW p \in Tasks, ConnectStep(p)
      PROVE  TypeOK'
  BY <1>2, OpenOkType, OpenFailType, ShakeOkType, ShakeRefusedType, ShakeLostType DEF ConnectStep
<1>3. CASE UNCHANGED vars
  BY <1>3 DEF vars, sessionVars, wireVars, TypeOK, PcOK
<1> QED
  BY <1>1, <1>2, <1>3, ConsumerType, CloserType, GatewayType DEF Next

(* The initial states satisfy TypeOK. *)
LEMMA TypeInit == Init => TypeOK
<1> SUFFICES ASSUME Init PROVE TypeOK
  OBVIOUS
<1>1. PcOK
  BY DEF Init, PcOK, Tasks, CallStates, ConnectStates
<1>2. replies \in [Conns -> Seq(Frames)] /\ requests \in [Conns -> SUBSET (Calls \X (1 .. MaxTries))]
  BY DEF Init
<1>3. /\ try \in [Calls -> 1 .. MaxTries]
      /\ left \in [Tasks -> 0 .. MaxConnectAttempts]
      /\ runs \in [Calls -> Nat]
  BY CallsAssumption DEF Init, MaxTries
<1>4. outcome \in [Calls -> Outcomes] /\ got \in [Calls -> BOOLEAN]
  BY DEF Init, Outcomes
<1> QED
  BY <1>1, <1>2, <1>3, <1>4 DEF Init, TypeOK

(* Type correctness, for every set of calls and connections. *)
THEOREM TypeCorrect == Spec => []TypeOK
BY TypeInit, TypeStep, PTL DEF Spec

-----------------------------------------------------------------------------
(* Sockets and exchanges: first who holds the lock and the streams, then    *)
(* what is on the wires.                                                    *)


(* Who is in the session, and what it holds. *)
SocketInv == LockInv /\ StreamInv /\ NoLeakedSocket

(* Only one task at a time is inside connect() or past the lock. *)
LEMMA Alone ==
  ASSUME TypeOK, LockInv, NEW p \in Tasks, pc[p] \in Holding \cup {"backoff"},
         NEW q \in Tasks, q # p
  PROVE  pc[q] \notin Holding \cup {"backoff"}
<1>1. CASE p = Consumer
  <2>1. q \in Calls
    BY <1>1 DEF Tasks
  <2>2. pc[q] \in {"idle", "done"}
    BY <1>1, <2>1 DEF LockInv, Holding
  <2> QED
    BY <2>2 DEF Holding
<1>2. CASE p \in Calls
  <2>1. pc[p] \in Holding /\ lock = p
    BY <1>2 DEF TypeOK, PcOK, CallStates, LockInv
  <2>2. CASE q = Consumer
    BY <1>2, <2>1, <2>2 DEF LockInv, Holding
  <2>3. CASE q \in Calls
    BY <1>2, <2>1, <2>3 DEF LockInv, TypeOK, PcOK, CallStates
  <2> QED
    BY <2>2, <2>3 DEF Tasks
<1> QED
  BY <1>1, <1>2 DEF Tasks

(* The head of the retry loop, entered with the lock. *)
LEMMA AttemptSocket ==
  ASSUME TypeOK, SocketInv, NEW s \in Calls, Attempt(s), UNCHANGED <<closer, stream, sock>>,
         pc[Consumer] = "idle",
         \A t \in Calls : t # s => pc[t] \notin Holding
  PROVE  SocketInv'
<1>1. CASE stream = NoConn /\ cooldown
  <2>1. Return(s, "unsent")
    BY <1>1 DEF Attempt
  <2> QED
    BY <2>1, CallsAssumption DEF Return, TypeOK, PcOK, SocketInv, LockInv, StreamInv,
       NoLeakedSocket, Tasks, Holding
<1>2. CASE stream = NoConn /\ ~cooldown
  <2>1. pc' = [pc EXCEPT ![s] = "opening"] /\ lock' = s
    BY <1>2 DEF Attempt
  <2> QED
    BY <1>2, <2>1, CallsAssumption DEF TypeOK, PcOK, SocketInv, LockInv, StreamInv,
       NoLeakedSocket, Tasks, Holding
<1>3. CASE stream # NoConn
  <2>1. pc' = [pc EXCEPT ![s] = "reading"] /\ lock' = s
    BY <1>3 DEF Attempt, Write
  <2> QED
    BY <1>3, <2>1, CallsAssumption DEF TypeOK, PcOK, SocketInv, LockInv, StreamInv,
       NoLeakedSocket, Tasks, Holding
<1> QED
  BY <1>1, <1>2, <1>3 DEF TypeOK

(* Acquire keeps SocketInv: nobody else is inside connect() or past the lock. *)
LEMMA AcquireSocket ==
  ASSUME TypeOK, SocketInv, NEW s \in Calls, Acquire(s)
  PROVE  SocketInv'
<1>1. /\ pc[Consumer] = "idle"
      /\ \A t \in Calls : t # s => pc[t] \notin Holding
  BY CallsAssumption DEF Acquire, SocketInv, LockInv
<1> QED
  BY <1>1, AttemptSocket DEF Acquire

(* RetryNack keeps SocketInv. *)
LEMMA RetryNackSocket ==
  ASSUME TypeOK, SocketInv, NEW s \in Calls, RetryNack(s)
  PROVE  SocketInv'
<1>1. /\ pc[Consumer] = "idle"
      /\ \A t \in Calls : t # s => pc[t] \notin Holding
  BY CallsAssumption DEF RetryNack, SocketInv, LockInv, Holding
<1> QED
  BY <1>1, AttemptSocket DEF RetryNack

(* Resend keeps SocketInv. *)
LEMMA ResendSocket ==
  ASSUME TypeOK, SocketInv, NEW s \in Calls, Resend(s)
  PROVE  SocketInv'
<1>1. /\ pc[Consumer] = "idle"
      /\ \A t \in Calls : t # s => pc[t] \notin Holding
  BY CallsAssumption DEF Resend, SocketInv, LockInv, Holding
<1> QED
  BY <1>1, AttemptSocket DEF Resend

(* ReadMore keeps SocketInv, whether it reads on or closes. *)
LEMMA ReadMoreSocket ==
  ASSUME TypeOK, SocketInv, NEW s \in Calls, ReadMore(s)
  PROVE  SocketInv'
<1>1. CASE stream = NoConn
  <2>1. CloseAndReturn(s, "unknown") /\ UNCHANGED <<closer, lock>>
    BY <1>1 DEF ReadMore
  <2> QED
    BY <1>1, <2>1, CallsAssumption DEF ReadMore, CloseAndReturn, CloseStreams, TypeOK, PcOK,
       SocketInv, LockInv, StreamInv, NoLeakedSocket, Tasks, Holding
<1>2. CASE stream # NoConn
  <2>1. UNCHANGED <<pc, stream, sock, closer, lock>>
    BY <1>2 DEF ReadMore
  <2> QED
    BY <2>1 DEF SocketInv, LockInv, StreamInv, NoLeakedSocket
<1> QED
  BY <1>1, <1>2

(* ShakeOk keeps SocketInv in each of its three outcomes. *)
LEMMA ShakeOkSocket ==
  ASSUME TypeOK, SocketInv, NEW p \in Tasks, ShakeOk(p)
  PROVE  SocketInv'
<1>1. CASE p = Consumer /\ pc' = [pc EXCEPT ![p] = "idle"] /\ UNCHANGED <<stream, sock>>
  BY <1>1, CallsAssumption DEF ShakeOk, TypeOK, PcOK, SocketInv, LockInv, StreamInv,
     NoLeakedSocket, Tasks, Holding
<1>2. CASE p \in Calls /\ CloseAndReturn(p, "unsent")
  BY <1>2, CallsAssumption DEF ShakeOk, CloseAndReturn, CloseStreams, TypeOK, PcOK, SocketInv,
     LockInv, StreamInv, NoLeakedSocket, Tasks, Holding
<1>3. CASE p \in Calls /\ pc' = [pc EXCEPT ![p] = "reading"] /\ UNCHANGED <<stream, sock>>
  BY <1>3, CallsAssumption DEF ShakeOk, TypeOK, PcOK, SocketInv, LockInv, StreamInv,
     NoLeakedSocket, Tasks, Holding
<1> QED
  BY <1>1, <1>2, <1>3 DEF ShakeOk, Write

(* OpenOk keeps SocketInv: it fills streams that were empty. *)
LEMMA OpenOkSocket ==
  ASSUME TypeOK, SocketInv, NEW p \in Tasks, NEW c \in Conns, OpenOk(p, c)
  PROVE  SocketInv'
<1>1. \A q \in Tasks : q # p => pc[q] \notin Holding \cup {"backoff"}
  BY Alone DEF OpenOk, SocketInv, Holding
<1>2. StreamInv' /\ NoLeakedSocket'
  BY <1>1, CallsAssumption DEF OpenOk, TypeOK, PcOK, SocketInv, StreamInv, NoLeakedSocket, Holding
<1>3. LockInv'
  BY CallsAssumption DEF OpenOk, TypeOK, PcOK, SocketInv, LockInv, Tasks, Holding
<1> QED
  BY <1>2, <1>3 DEF SocketInv

(* Every action keeps SocketInv. *)
LEMMA SocketStep ==
  ASSUME TypeOK, SocketInv, [Next]_vars
  PROVE  SocketInv'
<1> USE CallsAssumption
<1> USE DEF TypeOK, PcOK, SocketInv, LockInv, StreamInv, NoLeakedSocket, Tasks, Holding,
            sessionVars, wireVars
<1>1. ASSUME NEW s \in Calls, Call(s)
      PROVE  SocketInv'
  BY <1>1 DEF Call
<1>2. ASSUME NEW s \in Calls, CancelWaiting(s)
      PROVE  SocketInv'
  BY <1>2 DEF CancelWaiting
<1>3. ASSUME NEW s \in Calls, Refuse(s)
      PROVE  SocketInv'
  BY <1>3 DEF Refuse, Return
<1>4. ASSUME NEW s \in Calls, ReadAck(s)
      PROVE  SocketInv'
  BY <1>4 DEF ReadAck, Return
<1>5. ASSUME NEW s \in Calls, ReadNack(s)
      PROVE  SocketInv'
  BY <1>5 DEF ReadNack, Return
<1>6. ASSUME NEW s \in Calls, ConnectionLost(s)
      PROVE  SocketInv'
  BY <1>6 DEF ConnectionLost, CloseStreams
<1>7. ASSUME NEW s \in Calls, GiveUp(s)
      PROVE  SocketInv'
  BY <1>7 DEF GiveUp, Return
<1>8. ASSUME NEW s \in Calls, Abandon(s)
      PROVE  SocketInv'
  BY <1>8 DEF Abandon, CloseAndReturn, CloseStreams
<1>9. ASSUME NEW s \in Calls, Closed(s)
      PROVE  SocketInv'
  BY <1>9 DEF Closed, Return
<1>10. ASSUME NEW s \in Calls, ShakeRaises(s)
      PROVE  SocketInv'
  BY <1>10 DEF ShakeRaises, Return
<1>11. ASSUME NEW s \in Calls, Unavailable(s)
      PROVE  SocketInv'
  BY <1>11 DEF Unavailable, CloseAndReturn, CloseStreams
<1>12. ASSUME NEW p \in Tasks, OpenFail(p)
      PROVE  SocketInv'
  BY <1>12 DEF OpenFail, AttemptFailed, CloseStreams
<1>13. ASSUME NEW p \in Tasks, ShakeRefused(p)
      PROVE  SocketInv'
  BY <1>13 DEF ShakeRefused, AttemptFailed, CloseStreams
<1>14. ASSUME NEW p \in Tasks, ShakeLost(p)
      PROVE  SocketInv'
  BY <1>14 DEF ShakeLost, AttemptFailed, CloseStreams
<1>15. CASE ConsumerConnect
  BY <1>15 DEF ConsumerConnect
<1>16. CASE AttemptReleased
  BY <1>16 DEF AttemptReleased
<1>17. CASE BackoffOver
  BY <1>17 DEF BackoffOver
<1>18. CASE CooldownOver
  BY <1>18 DEF CooldownOver
<1>19. CASE CloseBegin
  BY <1>19 DEF CloseBegin, CloseStreams
<1>20. CASE CloseEnd
  BY <1>20 DEF CloseEnd
<1>21. ASSUME NEW c \in Conns, GatewayAccept(c)
      PROVE  SocketInv'
  BY <1>21 DEF GatewayAccept
<1>22. ASSUME NEW c \in Conns, GatewayRefuse(c)
      PROVE  SocketInv'
  BY <1>22 DEF GatewayRefuse
<1>23. ASSUME NEW c \in Conns, NEW s \in Calls, NEW n \in 1 .. MaxTries, GatewayExecute(c, s, n)
      PROVE  SocketInv'
  BY <1>23 DEF GatewayExecute
<1>24. ASSUME NEW c \in Conns, NEW s \in Calls, NEW n \in 1 .. MaxTries, GatewayReject(c, s, n)
      PROVE  SocketInv'
  BY <1>24 DEF GatewayReject
<1>25. ASSUME NEW c \in Conns, GatewayDrop(c)
      PROVE  SocketInv'
  BY <1>25 DEF GatewayDrop
<1>26. CASE UNCHANGED vars
  BY <1>26 DEF vars
<1> HIDE DEF TypeOK, PcOK, SocketInv, LockInv, StreamInv, NoLeakedSocket, Tasks, Holding
<1> QED
  BY <1>1, <1>2, <1>3, <1>4, <1>5, <1>6, <1>7, <1>8, <1>9, <1>10, <1>11, <1>12, <1>13, <1>14,
     <1>15, <1>16, <1>17, <1>18, <1>19, <1>20, <1>21, <1>22, <1>23, <1>24, <1>25, <1>26,
     AcquireSocket, OpenOkSocket, RetryNackSocket, ResendSocket, ReadMoreSocket, ShakeOkSocket
     DEF Next, SendStep, ConnectStep, Gateway

(* No socket leaks, whatever the number of calls and of connections. *)
THEOREM SocketsAreHeld == Spec => []NoLeakedSocket
<1>1. Init => SocketInv
  BY CallsAssumption DEF Init, SocketInv, LockInv, StreamInv, NoLeakedSocket, Tasks, Holding
<1>2. TypeOK /\ SocketInv /\ [Next]_vars => SocketInv'
  BY SocketStep
<1>3. SocketInv => NoLeakedSocket
  BY DEF SocketInv
<1> QED
  BY <1>1, <1>2, <1>3, TypeCorrect, PTL DEF Spec
-----------------------------------------------------------------------------
(* Whether the session says it is connected. *)

(* The call that holds the lock is the only one past it. *)
LEMMA HoldsAlone ==
  ASSUME LockInv, NEW s \in Calls, pc[s] \in Holding
  PROVE  /\ pc[Consumer] = "idle"
         /\ \A t \in Calls : pc[t] \in Holding => t = s
BY DEF LockInv, Holding

(* The head of the retry loop, entered with the lock and without a cooldown  *)
(* on a connected session: a call that fails fast leaves the flag clear, and *)
(* the one that is to open the streams is there to answer for it.            *)
LEMMA AttemptFlag ==
  ASSUME TypeOK, FlagInv, NEW s \in Calls, Attempt(s), UNCHANGED <<closer, stream, connected, cooldown>>,
         pc[Consumer] = "idle",
         \A t \in Calls : t # s => pc[t] \notin Holding,
         pc[s] # "closing"
  PROVE  FlagInv'
<1>1. ~(connected /\ cooldown)
  BY DEF FlagInv, Holding
<1>2. CASE stream = NoConn /\ cooldown
  <2>1. pc' = [pc EXCEPT ![s] = "done"]
    BY <1>2 DEF Attempt, Return
  <2>2. pc'[Consumer] = "idle" /\ ~connected
    BY <1>1, <1>2, <2>1, CallsAssumption DEF TypeOK, PcOK, Tasks
  <2> QED
    BY <2>2 DEF FlagInv
<1>3. CASE stream = NoConn /\ ~cooldown
  <2>1. pc' = [pc EXCEPT ![s] = "opening"]
    BY <1>3 DEF Attempt
  <2>2. pc'[Consumer] = "idle" /\ pc'[s] = "opening"
    BY <2>1, CallsAssumption DEF TypeOK, PcOK, Tasks
  <2> QED
    BY <1>1, <2>2 DEF FlagInv
<1>4. CASE stream # NoConn
  <2>1. pc' = [pc EXCEPT ![s] = "reading"]
    BY <1>4 DEF Attempt, Write
  <2>2. pc'[Consumer] = "idle"
    BY <2>1, CallsAssumption DEF TypeOK, PcOK, Tasks
  <2> QED
    BY <1>1, <1>4, <2>2 DEF FlagInv
<1> QED
  BY <1>2, <1>3, <1>4 DEF TypeOK

(* The call s, alone past the lock, that is in no state to answer for a lost *)
(* stream: if there is none on a connected session, close() is about.        *)
LEMMA ReaderFlag ==
  ASSUME LockInv, FlagInv, NEW s \in Calls, pc[s] \in {"reading", "shaking"}
  PROVE  /\ pc[Consumer] = "idle"
         /\ ~(connected /\ cooldown)
         /\ connected /\ stream = NoConn => closer = "closing"
<1>1. /\ pc[Consumer] = "idle"
      /\ \A t \in Calls : pc[t] \in Holding => t = s
  BY HoldsAlone DEF Holding
<1> QED
  BY <1>1 DEF FlagInv, Holding

(* A call that will answer for a lost stream may take it, and a call that    *)
(* runs close() may start a cooldown.                                        *)
LEMMA BlamedFlag ==
  ASSUME TypeOK, NEW s \in Calls, pc[Consumer] = "idle",
         \/ pc' = [pc EXCEPT ![s] = "closing"]
         \/ /\ \E l \in {"releasing", "recycling"} : pc' = [pc EXCEPT ![s] = l]
            /\ ~(connected' /\ cooldown')
  PROVE  FlagInv'
<1>1. pc'[Consumer] = "idle" /\ pc'[s] \in {"closing", "releasing", "recycling"}
  BY CallsAssumption DEF TypeOK, PcOK, Tasks
<1>2. connected' /\ cooldown' => pc'[s] = "closing"
  BY DEF TypeOK, PcOK, Tasks
<1> QED
  BY <1>1, <1>2 DEF FlagInv

(* A failed attempt of connect(), of a call or of the consumer. *)
LEMMA FailedFlag ==
  ASSUME TypeOK, LockInv, FlagInv, NEW p \in Tasks, pc[p] \in {"opening", "shaking"},
         pc' = [pc EXCEPT ![p] = "releasing"], connected' \in {FALSE, connected},
         cooldown' = cooldown
  PROVE  FlagInv'
<1>1. CASE p = Consumer
  <2>1. connected = FALSE /\ cooldown = FALSE
    BY <1>1 DEF FlagInv, TypeOK
  <2>2. pc'[Consumer] = "releasing"
    BY <1>1 DEF TypeOK, PcOK
  <2>3. connected' = FALSE /\ cooldown' = FALSE
    BY <2>1
  <2> QED
    BY <2>2, <2>3 DEF FlagInv
<1>2. CASE p \in Calls
  <2>1. /\ pc[Consumer] = "idle"
        /\ \A t \in Calls : pc[t] \in Holding => t = p
    BY <1>2, HoldsAlone DEF Holding
  <2>2. ~(connected' /\ cooldown')
    BY <2>1 DEF FlagInv, Holding
  <2> QED
    BY <1>2, <2>1, <2>2, BlamedFlag
<1> QED
  BY <1>1, <1>2 DEF Tasks

(* OpenOk keeps FlagInv: it fills streams that were empty. *)
LEMMA OpenOkFlag ==
  ASSUME TypeOK, LockInv, FlagInv, NEW p \in Tasks, NEW c \in Conns, OpenOk(p, c)
  PROVE  FlagInv'
<1>1. stream' # NoConn /\ UNCHANGED <<connected, cooldown>> /\ pc' = [pc EXCEPT ![p] = "shaking"]
  BY CallsAssumption DEF OpenOk
<1>2. pc[p] = "opening"
  BY DEF OpenOk
<1>3. CASE p = Consumer
  BY <1>1, <1>2, <1>3 DEF FlagInv, TypeOK, PcOK, Tasks
<1>4. CASE p \in Calls
  <2>1. pc[Consumer] = "idle" /\ ~(connected /\ cooldown)
    BY <1>2, <1>4, HoldsAlone DEF FlagInv, Holding
  <2>2. pc'[Consumer] = "idle"
    BY <1>1, <1>4, <2>1, CallsAssumption DEF TypeOK, PcOK, Tasks
  <2> QED
    BY <1>1, <2>1, <2>2 DEF FlagInv
<1> QED
  BY <1>3, <1>4 DEF Tasks

(* ShakeOk keeps FlagInv in each of its three outcomes. *)
LEMMA ShakeOkFlag ==
  ASSUME TypeOK, LockInv, FlagInv, NEW p \in Tasks, ShakeOk(p)
  PROVE  FlagInv'
<1>1. CASE p = Consumer /\ pc' = [pc EXCEPT ![p] = "idle"] /\ UNCHANGED <<stream, cooldown>>
  <2>1. pc'[Consumer] = "idle" /\ stream' # NoConn /\ ~cooldown'
    BY <1>1 DEF ShakeOk, FlagInv, TypeOK, PcOK, Tasks
  <2> QED
    BY <2>1 DEF FlagInv
<1>2. CASE p \in Calls /\ CloseAndReturn(p, "unsent")
  BY <1>2, ReaderFlag, BlamedFlag DEF ShakeOk, CloseAndReturn
<1>3. CASE /\ p \in Calls /\ stream' # NoConn /\ cooldown' = FALSE
           /\ pc' = [pc EXCEPT ![p] = "reading"]
  <2>1. pc'[Consumer] = "idle"
    BY <1>3, ReaderFlag, CallsAssumption DEF ShakeOk, TypeOK, PcOK, Tasks
  <2> QED
    BY <1>3, <2>1 DEF FlagInv
<1> QED
  BY <1>1, <1>2, <1>3 DEF ShakeOk, Write

(* A call that hears the end of its answer leaves the session to whoever     *)
(* had taken its streams.                                                    *)
LEMMA HeardFlag ==
  ASSUME TypeOK, LockInv, FlagInv, NEW s \in Calls, pc[s] \in {"reading", "shaking"},
         pc' = [pc EXCEPT ![s] = "done"], UNCHANGED <<closer, stream, connected, cooldown>>
  PROVE  FlagInv'
<1>1. pc'[Consumer] = "idle"
  BY ReaderFlag, CallsAssumption DEF TypeOK, PcOK, Tasks
<1> QED
  BY <1>1, ReaderFlag DEF FlagInv

(* A step of a call outside the lock changes nothing the flag depends on. *)
LEMMA OutsideFlag ==
  ASSUME TypeOK, FlagInv, NEW s \in Calls, pc[s] \in {"idle", "waiting"},
         \E l \in {"waiting", "done"} : pc' = [pc EXCEPT ![s] = l],
         UNCHANGED <<closer, stream, connected, cooldown>>
  PROVE  FlagInv'
<1>1. pc'[Consumer] = pc[Consumer]
  BY CallsAssumption DEF TypeOK, PcOK, Tasks
<1>2. \A t \in Calls : pc[t] \notin {"idle", "waiting"} => pc'[t] = pc[t]
  BY DEF TypeOK, PcOK, Tasks
<1> QED
  BY <1>1, <1>2 DEF FlagInv

(* Every action keeps FlagInv. *)
LEMMA FlagStep ==
  ASSUME TypeOK, LockInv, FlagInv, [Next]_vars
  PROVE  FlagInv'
<1> USE DEF sessionVars, wireVars
<1>1. ASSUME NEW s \in Calls, Call(s) \/ CancelWaiting(s) \/ Refuse(s)
      PROVE  FlagInv'
  BY <1>1, OutsideFlag DEF Call, CancelWaiting, Refuse, Return
<1>2. ASSUME NEW s \in Calls, Acquire(s) \/ RetryNack(s) \/ Resend(s)
      PROVE  FlagInv'
  <2>1. /\ pc[Consumer] = "idle"
        /\ \A t \in Calls : t # s => pc[t] \notin Holding
        /\ pc[s] # "closing"
    BY <1>2, CallsAssumption DEF Acquire, RetryNack, Resend, LockInv, Holding
  <2> QED
    BY <1>2, <2>1, AttemptFlag DEF Acquire, RetryNack, Resend
<1>3. ASSUME NEW s \in Calls, ReadMore(s)
      PROVE  FlagInv'
  <2>1. CASE CloseAndReturn(s, "unknown")
    BY <1>3, <2>1, ReaderFlag, BlamedFlag DEF ReadMore, CloseAndReturn
  <2>2. CASE UNCHANGED <<pc, stream>>
    BY <1>3, <2>2 DEF ReadMore, FlagInv
  <2> QED
    BY <1>3, <2>1, <2>2 DEF ReadMore
<1>4. ASSUME NEW s \in Calls, ReadAck(s) \/ ReadNack(s) \/ ShakeRaises(s)
      PROVE  FlagInv'
  BY <1>4, HeardFlag DEF ReadAck, ReadNack, ShakeRaises, Return
<1>5. ASSUME NEW s \in Calls, ConnectionLost(s)
      PROVE  FlagInv'
  BY <1>5, ReaderFlag, BlamedFlag DEF ConnectionLost
<1>6. ASSUME NEW s \in Calls, Abandon(s)
      PROVE  FlagInv'
  BY <1>6, ReaderFlag, BlamedFlag DEF Abandon, CloseAndReturn
<1>7. ASSUME NEW s \in Calls, Unavailable(s)
      PROVE  FlagInv'
  BY <1>7, HoldsAlone, BlamedFlag DEF Unavailable, CloseAndReturn, Holding
<1>8. ASSUME NEW s \in Calls, GiveUp(s) \/ Closed(s)
      PROVE  FlagInv'
  <2>1. pc[Consumer] = "idle" /\ pc' = [pc EXCEPT ![s] = "done"] /\ ~connected'
    BY <1>8, HoldsAlone DEF GiveUp, Closed, Return, Holding
  <2>2. pc'[Consumer] = "idle"
    BY <2>1, CallsAssumption DEF TypeOK, PcOK, Tasks
  <2> QED
    BY <2>1, <2>2 DEF FlagInv
<1>9. ASSUME NEW p \in Tasks, OpenFail(p) \/ ShakeRefused(p) \/ ShakeLost(p)
      PROVE  FlagInv'
  BY <1>9, FailedFlag DEF OpenFail, ShakeRefused, ShakeLost, AttemptFailed
<1>10. CASE ConsumerConnect
  <2>1. ~connected
    BY <1>10 DEF ConsumerConnect, FlagInv
  <2>2. pc'[Consumer] = "opening"
    BY <1>10 DEF ConsumerConnect, TypeOK, PcOK, Tasks
  <2>3. ~connected' /\ ~cooldown'
    BY <1>10, <2>1 DEF ConsumerConnect
  <2> QED
    BY <2>2, <2>3 DEF FlagInv
<1>11. CASE AttemptReleased \/ BackoffOver
  <2>1. connected = FALSE /\ cooldown = FALSE
    BY <1>11 DEF AttemptReleased, BackoffOver, FlagInv, TypeOK
  <2>2. pc'[Consumer] # "shaking"
    <3>1. \E l \in {"backoff", "idle", "opening"} : pc' = [pc EXCEPT ![Consumer] = l]
      BY <1>11 DEF AttemptReleased, BackoffOver
    <3> QED
      BY <3>1 DEF TypeOK, PcOK, Tasks
  <2>3. connected' \in {FALSE, connected} /\ cooldown' = cooldown
    BY <1>11 DEF AttemptReleased, BackoffOver, sessionVars
  <2>4. connected' = FALSE /\ cooldown' = FALSE
    BY <2>1, <2>3
  <2> QED
    BY <2>2, <2>4 DEF FlagInv
<1>12. CASE CooldownOver
  BY <1>12 DEF CooldownOver, FlagInv
<1>13. CASE CloseBegin
  BY <1>13 DEF CloseBegin, FlagInv
<1>14. CASE CloseEnd
  BY <1>14 DEF CloseEnd, FlagInv
<1>15. CASE Gateway \/ UNCHANGED vars
  <2>1. UNCHANGED <<pc, closer, stream, connected, cooldown>>
    BY <1>15 DEF Gateway, GatewayAccept, GatewayRefuse, GatewayDrop, GatewayExecute,
       GatewayReject, vars
  <2> QED
    BY <2>1 DEF FlagInv
<1> QED
  BY <1>1, <1>2, <1>3, <1>4, <1>5, <1>6, <1>7, <1>8, <1>9, <1>10, <1>11, <1>12, <1>13, <1>14,
     <1>15, OpenOkFlag, ShakeOkFlag DEF Next, SendStep, ConnectStep

(* The session starts without a connection. *)
LEMMA FlagInit == Init => FlagInv
BY CallsAssumption DEF Init, FlagInv, Tasks

(* Between calls a session that says it is connected holds its streams. *)
THEOREM FlagIsTrue == Spec => []ConnectedIsOpen
<1>1. Init => SocketInv /\ FlagInv
  BY FlagInit, CallsAssumption DEF Init, SocketInv, LockInv, StreamInv, NoLeakedSocket, Tasks, Holding
<1>2. TypeOK /\ SocketInv /\ FlagInv /\ [Next]_vars => SocketInv' /\ FlagInv'
  BY SocketStep, FlagStep DEF SocketInv
<1>3. SocketInv /\ FlagInv => ConnectedIsOpen
  BY CallsAssumption DEF SocketInv, LockInv, FlagInv, ConnectedIsOpen, Quiescent, Holding
<1> QED
  BY <1>1, <1>2, <1>3, TypeCorrect, PTL DEF Spec
-----------------------------------------------------------------------------
(* What is on the wires. *)
TrafficInv == ReaderInv /\ WireInv /\ ShakeInv /\ ExchangeInv

(* Nothing is left to be read. *)
Drained == \A c \in Conns : replies[c] = <<>>

(* An open connection waits for a command. *)
Idle ==
  \A c \in Conns : sock[c] = "open" => requests[c] = {} /\ peer[c] \notin {"greeting", "refused"}

(* No task reads or is about to. *)
NoReader == \A p \in Tasks : reader[p] = NoConn /\ pc[p] \notin {"shaking", "reading"}

(* A task past the lock, or inside connect(), is the only one that reads. *)
LEMMA ReadsAlone ==
  ASSUME TypeOK, SocketInv, ReaderInv, NEW p \in Tasks, pc[p] \in Holding \cup {"backoff"},
         NEW q \in Tasks, q # p
  PROVE  reader[q] = NoConn /\ pc[q] \notin {"shaking", "reading"}
<1>1. pc[q] \notin Holding
  BY Alone DEF SocketInv
<1> QED
  BY <1>1 DEF ReaderInv, Holding

(* When no task reads, the wires are calm. *)
LEMMA NoReaderIsCalm ==
  ASSUME TypeOK, WireInv, \A p \in Tasks : reader[p] = NoConn
  PROVE  Drained /\ Idle
<1> SUFFICES ASSUME NEW c \in Conns
             PROVE  /\ replies[c] = <<>>
                    /\ sock[c] = "open" =>
                         requests[c] = {} /\ peer[c] \notin {"greeting", "refused"}
  BY DEF Drained, Idle
<1>1. c # NoConn
  BY CallsAssumption
<1>2. ~\E p \in Tasks : reader[p] = c
  BY <1>1
<1>3. ~\E s \in Calls : reader[s] = c
  BY <1>2 DEF Tasks
<1> QED
  BY <1>2, <1>3 DEF WireInv

(* A calm state without a reader is a good one. *)
LEMMA CalmTraffic ==
  ASSUME WireInv, NoReader', Drained', Idle', requests' = requests,
         \A c \in Conns : sock'[c] = "unused" => sock[c] = "unused"
  PROVE  TrafficInv'
<1>1. ReaderInv'
  BY DEF NoReader, ReaderInv
<1>2. ShakeInv' /\ ExchangeInv'
  BY DEF NoReader, ShakeInv, ExchangeInv, Tasks
<1>3. WireInv'
  <2> SUFFICES ASSUME NEW c \in Conns
               PROVE  /\ sock'[c] = "unused" => requests'[c] = {} /\ replies'[c] = <<>>
                      /\ replies'[c] = <<>>
                      /\ sock'[c] = "open" =>
                           requests'[c] = {} /\ peer'[c] \notin {"greeting", "refused"}
    BY DEF WireInv
  <2> QED
    BY DEF Drained, Idle, WireInv
<1> QED
  BY <1>1, <1>2, <1>3 DEF TrafficInv

(* A task that closes the streams and leaves its reader leaves calm wires. *)
LEMMA LeaveCalm ==
  ASSUME TypeOK, SocketInv, TrafficInv, NEW p \in Tasks, pc[p] \in Holding,
         CloseStreams, LeaveReader(p), UNCHANGED <<peer, requests>>,
         NEW x \in (CallStates \cup ConnectStates) \ {"shaking", "reading"},
         pc' = [pc EXCEPT ![p] = x]
  PROVE  TrafficInv' /\ Drained'
<1>1. \A q \in Tasks : q # p => reader[q] = NoConn /\ pc[q] \notin {"shaking", "reading"}
  BY ReadsAlone DEF TrafficInv
<1>2. NoReader'
  BY <1>1 DEF NoReader, LeaveReader, TypeOK, PcOK
<1>3. \A c \in Conns : sock'[c] # "open"
  BY CallsAssumption DEF CloseStreams, SocketInv, NoLeakedSocket
<1>4. \A c \in Conns : replies'[c] = <<>>
  <2> SUFFICES ASSUME NEW c \in Conns, c # reader[p]
               PROVE  replies[c] = <<>>
    BY DEF LeaveReader
  <2>1. \A q \in Tasks : reader[q] # c
    BY <1>1, CallsAssumption
  <2> QED
    BY <2>1 DEF TrafficInv, WireInv
<1>5. Drained' /\ Idle'
  BY <1>3, <1>4 DEF Drained, Idle
<1>6. \A c \in Conns : sock'[c] = "unused" => sock[c] = "unused"
  BY DEF CloseStreams
<1> QED
  BY <1>2, <1>5, <1>6, CalmTraffic DEF TrafficInv

(* A nonempty sequence with no second element has one element. *)
LEMMA Single ==
  ASSUME NEW S, NEW q \in Seq(S), q # <<>>, ~(1 < Len(q))
  PROVE  Tail(q) = <<>>
<1>1. Len(q) \in Nat /\ Len(q) # 0
  OBVIOUS
<1>2. Len(q) = 1
  BY <1>1
<1>3. Tail(q) \in Seq(S) /\ Len(Tail(q)) = 0
  BY <1>2
<1> QED
  BY <1>3

(* Reading the last frame of an exchange leaves calm wires. *)
LEMMA LastFrame ==
  ASSUME TypeOK, SocketInv, TrafficInv, NEW p \in Tasks, Readable(p), Consume(p),
         \/ p \in Calls /\ pc[p] = "reading" /\ Next1(p) \in {"ack", "nack"}
         \/ pc[p] = "shaking" /\ (Next1(p) = "ack" \/ stream = NoConn)
  PROVE  Drained' /\ Idle
<1> DEFINE r == reader[p]
<1>1. \A q \in Tasks : q # p => reader[q] = NoConn /\ pc[q] \notin {"shaking", "reading"}
  BY ReadsAlone DEF TrafficInv, Holding
<1>2. r \in Conns /\ replies[r] \in Seq(Frames) /\ replies[r] # <<>>
  BY DEF TypeOK, Readable
<1>3. ~(1 < Len(replies[r]))
  <2>1. Len(replies[r]) \in Nat /\ Len(replies[r]) # 0
    BY <1>2
  <2>2. CASE pc[p] = "shaking"
    <3>1. Len(replies[r]) <= 1
      BY <2>2 DEF TrafficInv, ShakeInv
    <3> QED
      BY <2>1, <3>1
  <2>3. CASE p \in Calls /\ pc[p] = "reading" /\ Next1(p) \in {"ack", "nack"}
    <3>1. replies[r][1].kind \in {"ack", "nack"}
      BY <1>2, <2>3 DEF Next1
    <3>2. 1 \in 1 .. Len(replies[r])
      BY <2>1
    <3>3. 1 < Len(replies[r]) => replies[r][1].kind = "data"
      BY <2>3, <3>2 DEF TrafficInv, ExchangeInv
    <3> QED
      BY <3>1, <3>3
  <2> QED
    BY <2>2, <2>3
<1>4. replies' = [replies EXCEPT ![r] = <<>>]
  BY <1>2, <1>3, Single DEF Consume
<1>5. \A c \in Conns : c # r => replies[c] = <<>>
  BY <1>1, CallsAssumption DEF TrafficInv, WireInv
<1>6. requests[r] = {}
  BY <1>2 DEF TrafficInv, ShakeInv, ExchangeInv
<1>7. ASSUME NEW c \in Conns, sock[c] = "open"
      PROVE  requests[c] = {} /\ peer[c] \notin {"greeting", "refused"}
  <2>1. stream = c /\ c # NoConn
    BY <1>7, CallsAssumption DEF SocketInv, NoLeakedSocket
  <2>2. r = c
    BY <1>2, <2>1, CallsAssumption DEF TrafficInv, ReaderInv
  <2>3. CASE pc[p] = "reading"
    BY <1>1, <1>6, <1>7, <2>1, <2>2, <2>3 DEF TrafficInv, WireInv
  <2>4. CASE pc[p] = "shaking" /\ Next1(p) = "ack"
    BY <1>2, <1>6, <2>2, <2>4 DEF TrafficInv, ShakeInv, Next1
  <2> QED
    BY <2>1, <2>3, <2>4
<1>8. \A c \in Conns : replies'[c] = <<>>
  BY <1>4, <1>5 DEF TypeOK
<1> QED
  BY <1>7, <1>8 DEF Drained, Idle

(* A call that writes on calm wires starts an exchange of its own. *)
LEMMA WriteTraffic ==
  ASSUME TypeOK, NoLeakedSocket, WireInv, NEW s \in Calls, stream # NoConn, Write(s, stream),
         \A p \in Tasks : p # s => reader[p] = NoConn /\ pc[p] \notin {"shaking", "reading"},
         Drained', Idle, UNCHANGED <<stream, sock, peer>>
  PROVE  TrafficInv'
<1>1. stream \in Conns /\ sock[stream] = "open" /\ s \in Tasks
  BY DEF TypeOK, NoLeakedSocket, Tasks
<1>2. /\ pc'[s] = "reading" /\ reader'[s] = stream
      /\ \A p \in Tasks : p # s => reader'[p] = NoConn /\ pc'[p] \notin {"shaking", "reading"}
  BY <1>1 DEF Write, TypeOK, PcOK
<1>3. /\ requests'[stream] = {<<s, try'[s]>>}
      /\ \A c \in Conns : c # stream => requests'[c] = requests[c]
  BY <1>1 DEF Write, Idle, TypeOK
<1>4. ReaderInv'
  BY <1>1, <1>2 DEF ReaderInv
<1>5. WireInv'
  <2> SUFFICES ASSUME NEW c \in Conns
               PROVE  /\ sock'[c] = "unused" => requests'[c] = {} /\ replies'[c] = <<>>
                      /\ replies'[c] = <<>>
                      /\ requests'[c] # {} /\ sock'[c] = "open" =>
                           \E t \in Calls : reader'[t] = c /\ pc'[t] = "reading"
                      /\ sock'[c] = "open" => peer'[c] \notin {"greeting", "refused"}
    BY DEF WireInv
  <2>1. CASE c = stream
    BY <1>1, <1>2, <2>1 DEF Drained, Idle
  <2>2. CASE c # stream
    BY <1>3, <2>2 DEF Drained, Idle, WireInv
  <2> QED
    BY <2>1, <2>2
<1>6. ShakeInv'
  BY <1>2 DEF ShakeInv
<1>7. ExchangeInv'
  <2>1. \A t \in Calls : pc'[t] = "reading" => t = s
    BY <1>2 DEF Tasks
  <2>2. replies'[stream] = <<>>
    BY <1>1 DEF Drained
  <2> QED
    BY <1>2, <1>3, <2>1, <2>2 DEF ExchangeInv
<1> QED
  BY <1>4, <1>5, <1>6, <1>7 DEF TrafficInv

(* The head of the retry loop, entered when the wires are calm. *)
LEMMA AttemptTraffic ==
  ASSUME TypeOK, NoLeakedSocket, WireInv, NEW s \in Calls, Attempt(s),
         \A p \in Tasks : p # s => reader[p] = NoConn /\ pc[p] \notin {"shaking", "reading"},
         Drained', Idle, UNCHANGED <<stream, sock, peer>>
  PROVE  TrafficInv'
<1>1. CASE stream # NoConn
  <2>1. Write(s, stream)
    BY <1>1 DEF Attempt
  <2> QED
    BY <1>1, <2>1, WriteTraffic
<1>2. CASE stream = NoConn
  <2>1. requests' = requests
    BY <1>2 DEF Attempt
  <2>2. /\ reader' = [reader EXCEPT ![s] = NoConn]
        /\ pc' = [pc EXCEPT ![s] = "done"] \/ pc' = [pc EXCEPT ![s] = "opening"]
    BY <1>2 DEF Attempt, Return
  <2>3. NoReader'
    BY <2>2 DEF NoReader, TypeOK, PcOK
  <2>4. Idle'
    BY <2>1 DEF Idle
  <2> QED
    BY <2>1, <2>3, <2>4, CalmTraffic
<1> QED
  BY <1>1, <1>2

(* Acquire keeps TrafficInv: whoever gets the lock finds calm wires. *)
LEMMA AcquireTraffic ==
  ASSUME TypeOK, SocketInv, TrafficInv, NEW s \in Calls, Acquire(s)
  PROVE  TrafficInv' /\ Drained'
<1>1. \A p \in Tasks : pc[p] \notin {"shaking", "reading"}
  <2>1. pc[Consumer] = "idle" /\ lock = NoCall
    BY DEF Acquire, SocketInv, LockInv
  <2>2. \A t \in Calls : pc[t] \notin Holding
    BY <2>1, CallsAssumption DEF SocketInv, LockInv
  <2> QED
    BY <2>1, <2>2 DEF Tasks, Holding
<1>2. \A p \in Tasks : reader[p] = NoConn
  BY <1>1 DEF TrafficInv, ReaderInv
<1>3. Drained /\ Idle
  BY <1>2, NoReaderIsCalm DEF TrafficInv
<1>4. Drained'
  BY <1>3 DEF Drained, Acquire
<1> QED
  BY <1>1, <1>2, <1>3, <1>4, AttemptTraffic DEF Acquire, SocketInv, TrafficInv

(* Resend keeps TrafficInv: the lost connection was left behind. *)
LEMMA ResendTraffic ==
  ASSUME TypeOK, SocketInv, TrafficInv, NEW s \in Calls, Resend(s)
  PROVE  TrafficInv' /\ Drained'
<1>0. s \in Tasks /\ pc[s] = "recycling"
  BY DEF Tasks, Resend
<1>1. \A p \in Tasks : p # s => reader[p] = NoConn /\ pc[p] \notin {"shaking", "reading"}
  BY <1>0, ReadsAlone DEF TrafficInv, Holding
<1>2. \A p \in Tasks : reader[p] = NoConn
  BY <1>0, <1>1 DEF TrafficInv, ReaderInv
<1>3. Drained /\ Idle
  BY <1>2, NoReaderIsCalm DEF TrafficInv
<1>4. Drained'
  BY <1>3 DEF Drained, Resend
<1> QED
  BY <1>1, <1>3, <1>4, AttemptTraffic DEF Resend, SocketInv, TrafficInv

(* RetryNack keeps TrafficInv: the NACK was the last frame of the exchange. *)
LEMMA RetryNackTraffic ==
  ASSUME TypeOK, SocketInv, TrafficInv, NEW s \in Calls, RetryNack(s)
  PROVE  TrafficInv' /\ Drained'
<1>0. /\ s \in Tasks /\ pc[s] = "reading" /\ Readable(s) /\ Consume(s) /\ Next1(s) = "nack"
      /\ Attempt(s) /\ UNCHANGED <<stream, sock, peer>>
  BY DEF Tasks, RetryNack
<1>1. \A p \in Tasks : p # s => reader[p] = NoConn /\ pc[p] \notin {"shaking", "reading"}
  BY <1>0, ReadsAlone DEF TrafficInv, Holding
<1>2. Drained' /\ Idle
  BY <1>0, LastFrame
<1> QED
  BY <1>0, <1>1, <1>2, AttemptTraffic DEF SocketInv, TrafficInv

(* ReadAck, ReadNack and ShakeRaises keep TrafficInv: the last frame is read. *)
LEMMA EndTraffic ==
  ASSUME TypeOK, SocketInv, TrafficInv, NEW s \in Calls,
         ReadAck(s) \/ ReadNack(s) \/ ShakeRaises(s)
  PROVE  TrafficInv' /\ Drained'
<1>1. /\ s \in Tasks /\ pc[s] \in {"reading", "shaking"} /\ Readable(s) /\ Consume(s)
      /\ pc' = [pc EXCEPT ![s] = "done"] /\ reader' = [reader EXCEPT ![s] = NoConn]
      /\ UNCHANGED <<sock, peer, requests>>
  BY DEF Tasks, ReadAck, ReadNack, ShakeRaises, Return
<1>2. \A p \in Tasks : p # s => reader[p] = NoConn /\ pc[p] \notin {"shaking", "reading"}
  BY <1>1, ReadsAlone DEF TrafficInv, Holding
<1>3. Drained' /\ Idle
  BY <1>1, LastFrame DEF ReadAck, ReadNack, ShakeRaises
<1>4. Idle'
  BY <1>1, <1>3 DEF Idle
<1>5. NoReader'
  BY <1>1, <1>2 DEF NoReader, TypeOK, PcOK
<1> QED
  BY <1>1, <1>3, <1>4, <1>5, CalmTraffic DEF TrafficInv

(* ShakeOk keeps TrafficInv: the answer to the negotiation was its last frame. *)
LEMMA ShakeOkTraffic ==
  ASSUME TypeOK, SocketInv, TrafficInv, NEW p \in Tasks, ShakeOk(p)
  PROVE  TrafficInv' /\ Drained'
<1>1. /\ pc[p] = "shaking" /\ Readable(p) /\ Next1(p) = "ack" /\ peer' = peer
  BY DEF ShakeOk
<1>2. \A q \in Tasks : q # p => reader[q] = NoConn /\ pc[q] \notin {"shaking", "reading"}
  BY <1>1, ReadsAlone DEF TrafficInv, Holding
<1>3. Consume(p) => Drained' /\ Idle
  BY <1>1, LastFrame
<1>4. CASE /\ p = Consumer /\ Consume(p)
           /\ pc' = [pc EXCEPT ![p] = "idle"] /\ reader' = [reader EXCEPT ![p] = NoConn]
           /\ UNCHANGED <<sock, requests>>
  <2>1. NoReader'
    BY <1>2, <1>4 DEF NoReader, TypeOK, PcOK
  <2>2. Idle'
    BY <1>1, <1>3, <1>4 DEF Idle
  <2> QED
    BY <1>3, <1>4, <2>1, <2>2, CalmTraffic DEF TrafficInv
<1>5. CASE p \in Calls /\ CloseAndReturn(p, "unsent") /\ requests' = requests
  <2>1. /\ CloseStreams /\ LeaveReader(p) /\ pc' = [pc EXCEPT ![p] = "closing"]
        /\ UNCHANGED <<peer, requests>>
    BY <1>1, <1>5 DEF CloseAndReturn
  <2>2. "closing" \in (CallStates \cup ConnectStates) \ {"shaking", "reading"} /\ pc[p] \in Holding
    BY <1>1 DEF CallStates, Holding
  <2> QED
    BY <2>1, <2>2, LeaveCalm
<1>6. CASE /\ p \in Calls /\ stream # NoConn /\ Consume(p) /\ Write(p, stream) 
           /\ UNCHANGED <<stream, sock>>
  BY <1>1, <1>2, <1>3, <1>6, WriteTraffic DEF SocketInv, TrafficInv
<1> QED
  BY <1>4, <1>5, <1>6 DEF ShakeOk

(* Six handlers close the streams and leave their reader. *)
LEMMA LeaveTraffic ==
  ASSUME TypeOK, SocketInv, TrafficInv
  PROVE  /\ \A s \in Calls :
               ConnectionLost(s) \/ Abandon(s) \/ Unavailable(s) => TrafficInv' /\ Drained'
         /\ \A p \in Tasks :
               OpenFail(p) \/ ShakeRefused(p) \/ ShakeLost(p) => TrafficInv' /\ Drained'
<1> USE DEF CloseAndReturn, AttemptFailed, CallStates, Holding, Tasks
<1>1. ASSUME NEW s \in Calls, ConnectionLost(s)
      PROVE  TrafficInv' /\ Drained'
  BY <1>1, LeaveCalm DEF ConnectionLost
<1>2. ASSUME NEW s \in Calls, Abandon(s)
      PROVE  TrafficInv' /\ Drained'
  BY <1>2, LeaveCalm DEF Abandon
<1>3. ASSUME NEW s \in Calls, Unavailable(s)
      PROVE  TrafficInv' /\ Drained'
  BY <1>3, LeaveCalm DEF Unavailable
<1>4. ASSUME NEW p \in Tasks, OpenFail(p)
      PROVE  TrafficInv' /\ Drained'
  BY <1>4, LeaveCalm DEF OpenFail
<1>5. ASSUME NEW p \in Tasks, ShakeRefused(p)
      PROVE  TrafficInv' /\ Drained'
  BY <1>5, LeaveCalm DEF ShakeRefused
<1>6. ASSUME NEW p \in Tasks, ShakeLost(p)
      PROVE  TrafficInv' /\ Drained'
  BY <1>6, LeaveCalm DEF ShakeLost
<1> QED
  BY <1>1, <1>2, <1>3, <1>4, <1>5, <1>6

(* What is left of a sequence once its head is taken. *)
LEMMA TailElements ==
  ASSUME NEW S, NEW q \in Seq(S), q # <<>>, NEW i \in 1 .. Len(Tail(q))
  PROVE  /\ i + 1 \in 1 .. Len(q) /\ Tail(q)[i] = q[i + 1]
         /\ i < Len(Tail(q)) => i + 1 < Len(q)
<1>1. Len(q) \in Nat /\ Len(q) # 0 /\ Len(Tail(q)) = Len(q) - 1
  OBVIOUS
<1> QED
  BY <1>1

(* ReadMore keeps TrafficInv: the rest of the response is still its own. *)
LEMMA ReadMoreTraffic ==
  ASSUME TypeOK, SocketInv, TrafficInv, NEW s \in Calls, ReadMore(s)
  PROVE  TrafficInv'
<1> DEFINE r == reader[s]
<1>0. s \in Tasks /\ pc[s] = "reading" /\ Readable(s) /\ UNCHANGED <<try, peer, requests>>
  BY DEF Tasks, ReadMore
<1>1. CASE stream = NoConn
  <2>1. CloseStreams /\ LeaveReader(s) /\ pc' = [pc EXCEPT ![s] = "closing"]
    BY <1>1 DEF ReadMore, CloseAndReturn
  <2> QED
    BY <1>0, <2>1, LeaveCalm DEF CallStates, Holding
<1>2. CASE stream # NoConn
  <2>1. /\ Consume(s) /\ reader' = [reader EXCEPT ![s] = stream]
        /\ UNCHANGED <<pc, stream, sock>>
    BY <1>2 DEF ReadMore
  <2>2. r \in Conns /\ replies[r] \in Seq(Frames) /\ replies[r] # <<>> /\ stream = r
    BY <1>0, <1>2 DEF Readable, TypeOK, TrafficInv, ReaderInv
  <2>3. reader' = reader
    BY <1>0, <2>1, <2>2 DEF TypeOK
  <2>4. /\ replies'[r] = Tail(replies[r])
        /\ \A c \in Conns : c # r => replies'[c] = replies[c]
    BY <2>1, <2>2 DEF Consume, TypeOK
  <2>5. \A q \in Tasks : q # s => reader[q] = NoConn /\ pc[q] \notin {"shaking", "reading"}
    BY <1>0, ReadsAlone DEF TrafficInv, Holding
  <2>6. ReaderInv'
    BY <2>1, <2>3 DEF TrafficInv, ReaderInv
  <2>7. WireInv'
    <3>1. replies[r] # <<>> /\ sock[r] # "unused"
      BY <2>2, CallsAssumption, <1>0 DEF TrafficInv, ReaderInv
    <3> QED
      BY <1>0, <2>1, <2>2, <2>3, <2>4, <3>1 DEF TrafficInv, WireInv
  <2>8. ShakeInv'
    BY <1>0, <2>1, <2>5 DEF ShakeInv
  <2>9. ExchangeInv'
    <3>1. requests[r] = {}
      BY <1>0, <2>2 DEF TrafficInv, ExchangeInv
    <3>2. ASSUME NEW i \in 1 .. Len(Tail(replies[r]))
          PROVE  /\ Tail(replies[r])[i].to = s
                 /\ i < Len(Tail(replies[r])) => Tail(replies[r])[i].kind = "data"
      BY <1>0, <2>2, TailElements DEF TrafficInv, ExchangeInv
    <3>3. \A t \in Calls : pc'[t] = "reading" => t = s
      BY <2>1, <2>5 DEF Tasks
    <3> QED
      BY <1>0, <2>3, <2>4, <3>1, <3>2, <3>3, ZenonT(40) DEF ExchangeInv
  <2> QED
    BY <2>6, <2>7, <2>8, <2>9 DEF TrafficInv
<1> QED
  BY <1>1, <1>2

(* OpenOk keeps TrafficInv: the new connection starts empty. *)
LEMMA OpenOkTraffic ==
  ASSUME TypeOK, SocketInv, TrafficInv, NEW p \in Tasks, NEW c \in Conns, OpenOk(p, c)
  PROVE  TrafficInv' /\ Drained'
<1>1. \A q \in Tasks : q # p => reader[q] = NoConn /\ pc[q] \notin {"shaking", "reading"}
  BY ReadsAlone DEF OpenOk, TrafficInv, Holding
<1>2. reader[p] = NoConn
  BY DEF OpenOk, TrafficInv, ReaderInv
<1>3. Drained /\ Idle
  BY <1>1, <1>2, NoReaderIsCalm DEF TrafficInv
<1>4. requests[c] = {}
  BY DEF OpenOk, TrafficInv, WireInv
<1>5. /\ pc'[p] = "shaking" /\ reader'[p] = c
      /\ \A q \in Tasks : q # p => reader'[q] = NoConn /\ pc'[q] \notin {"shaking", "reading"}
  BY <1>1 DEF OpenOk, TypeOK, PcOK
<1>6. UNCHANGED <<requests, replies>> /\ stream' = c
  BY DEF OpenOk
<1>7. /\ sock'[c] = "open" /\ peer'[c] = "greeting"
      /\ \A d \in Conns : d # c => sock'[d] = sock[d] /\ peer'[d] = peer[d]
  BY DEF OpenOk, TypeOK
<1>8. ReaderInv'
  BY <1>5, <1>6, <1>7, CallsAssumption DEF ReaderInv
<1>9. WireInv'
  <2> SUFFICES ASSUME NEW d \in Conns
               PROVE  /\ sock'[d] = "unused" => requests'[d] = {} /\ replies'[d] = <<>>
                      /\ replies'[d] = <<>>
                      /\ sock'[d] = "open" => requests'[d] = {}
                      /\ peer'[d] \in {"greeting", "refused"} /\ sock'[d] = "open" =>
                           \E q \in Tasks : reader'[q] = d /\ pc'[q] = "shaking"
    BY DEF WireInv
  <2>1. CASE d = c
    BY <1>3, <1>4, <1>5, <1>6, <1>7, <2>1 DEF Drained
  <2>2. CASE d # c
    BY <1>3, <1>6, <1>7, <2>2 DEF Drained, Idle, TrafficInv, WireInv
  <2> QED
    BY <2>1, <2>2
<1>10. ShakeInv'
  <2>1. replies'[c] = <<>> /\ requests'[c] = {} /\ Len(<<>>) <= 1
    BY <1>3, <1>4, <1>6 DEF Drained
  <2> QED
    BY <1>5, <2>1 DEF ShakeInv
<1>11. ExchangeInv'
  BY <1>5 DEF ExchangeInv, Tasks
<1> QED
  BY <1>3, <1>6, <1>8, <1>9, <1>10, <1>11 DEF TrafficInv, Drained

(* A step off the wires, by no task that reads before or after it. *)
LEMMA QuietTraffic ==
  ASSUME TrafficInv, UNCHANGED <<try, reader, stream, wireVars>>,
         \A p \in Tasks : \A x \in {"shaking", "reading"} : pc'[p] = x <=> pc[p] = x
  PROVE  TrafficInv'
<1>1. UNCHANGED <<sock, peer, requests, replies>>
  BY DEF wireVars
<1>2. ReaderInv'
  BY <1>1 DEF TrafficInv, ReaderInv
<1>3. WireInv'
  BY <1>1 DEF TrafficInv, WireInv, Tasks
<1>4. ShakeInv'
  BY <1>1 DEF TrafficInv, ShakeInv
<1>5. ExchangeInv'
  BY <1>1 DEF TrafficInv, ExchangeInv, Tasks
<1> QED
  BY <1>2, <1>3, <1>4, <1>5 DEF TrafficInv

(* The steps of a call that touch no connection keep TrafficInv. *)
LEMMA QuietCallTraffic ==
  ASSUME TypeOK, TrafficInv, NEW s \in Calls,
         Call(s) \/ CancelWaiting(s) \/ Refuse(s) \/ GiveUp(s) \/ Closed(s)
  PROVE  TrafficInv'
<1>1. UNCHANGED <<try, reader, stream, wireVars>>
  BY DEF Call, CancelWaiting, Refuse, GiveUp, Closed, sessionVars
<1>2. /\ pc[s] \in {"idle", "waiting", "recycling", "closing"} /\ s \in Tasks
      /\ pc' = [pc EXCEPT ![s] = "waiting"] \/ pc' = [pc EXCEPT ![s] = "done"]
  BY DEF Call, CancelWaiting, Refuse, GiveUp, Closed, Return, Tasks
<1>3. \A p \in Tasks : \A x \in {"shaking", "reading"} : pc'[p] = x <=> pc[p] = x
  BY <1>2 DEF TypeOK, PcOK
<1> QED
  BY <1>1, <1>3, QuietTraffic

(* So do those of the consumer, of the clock, and the end of close(). *)
LEMMA QuietSessionTraffic ==
  ASSUME TypeOK, TrafficInv,
         ConsumerConnect \/ AttemptReleased \/ BackoffOver \/ CooldownOver \/ CloseEnd
  PROVE  TrafficInv'
<1>1. UNCHANGED <<try, reader, stream, wireVars>>
  BY DEF ConsumerConnect, AttemptReleased, BackoffOver, CooldownOver, CloseEnd, sessionVars
<1>2. \/ pc' = pc
      \/ /\ pc[Consumer] \in {"idle", "releasing", "backoff"}
         /\ \E x \in {"idle", "opening", "backoff"} : pc' = [pc EXCEPT ![Consumer] = x]
  BY DEF ConsumerConnect, AttemptReleased, BackoffOver, CooldownOver, CloseEnd
<1>3. \A p \in Tasks : \A x \in {"shaking", "reading"} : pc'[p] = x <=> pc[p] = x
  BY <1>2 DEF TypeOK, PcOK
<1> QED
  BY <1>1, <1>3, QuietTraffic

(* close() takes the streams away under whoever reads them. *)
LEMMA CloseBeginTraffic ==
  ASSUME TypeOK, SocketInv, TrafficInv, CloseBegin
  PROVE  TrafficInv'
<1>1. /\ stream' = NoConn
      /\ \A c \in Conns : sock'[c] = IF c = stream THEN "closed" ELSE sock[c]
      /\ UNCHANGED <<pc, try, reader, peer, requests, replies>>
  BY DEF CloseBegin, CloseStreams
<1>2. ReaderInv'
  BY <1>1 DEF TrafficInv, ReaderInv, TypeOK
<1>3. WireInv'
  BY <1>1 DEF TrafficInv, WireInv
<1>4. ShakeInv' /\ ExchangeInv'
  BY <1>1 DEF TrafficInv, ShakeInv, ExchangeInv
<1> QED
  BY <1>2, <1>3, <1>4 DEF TrafficInv

(* The gateway answers a negotiation. *)
LEMMA HelloTraffic ==
  ASSUME TypeOK, SocketInv, TrafficInv, NEW c \in Conns, peer[c] = "greeting", sock[c] = "open",
         NEW x \in {"up", "refused"}, peer' = [peer EXCEPT ![c] = x],
         NEW kind \in {"ack", "nack", "fatal"}, kind = "ack" => x = "up",
         Deliver(c, <<Frame(kind, "hello")>>), UNCHANGED <<pc, sessionVars, sock, requests>>
  PROVE  TrafficInv'
<1> PICK p \in Tasks : reader[p] = c /\ pc[p] = "shaking"
  BY DEF TrafficInv, WireInv
<1>1. \A q \in Tasks : q # p => reader[q] = NoConn /\ pc[q] \notin {"shaking", "reading"}
  BY ReadsAlone DEF TrafficInv, Holding
<1>2. requests[c] = {} /\ replies[c] = <<>>
  BY DEF TrafficInv, ShakeInv
<1>3. /\ replies'[c] = <<Frame(kind, "hello")>>
      /\ \A d \in Conns : d # c => replies'[d] = replies[d]
  BY <1>2 DEF Deliver, TypeOK
<1>4. peer'[c] = x /\ \A d \in Conns : d # c => peer'[d] = peer[d]
  BY DEF TypeOK
<1>5. UNCHANGED <<pc, try, reader, stream, sock, requests>>
  BY DEF sessionVars
<1>6. ReaderInv'
  BY <1>5 DEF TrafficInv, ReaderInv
<1>7. WireInv'
  BY <1>3, <1>4, <1>5 DEF TrafficInv, WireInv
<1>8. ShakeInv'
  <2>1. /\ Len(<<Frame(kind, "hello")>>) <= 1 /\ <<Frame(kind, "hello")>> # <<>>
        /\ Head(<<Frame(kind, "hello")>>).kind = kind
    BY DEF Frame
  <2> QED
    BY <1>1, <1>2, <1>3, <1>4, <1>5, <2>1 DEF ShakeInv
<1>9. ExchangeInv'
  BY <1>1, <1>5 DEF ExchangeInv, Tasks
<1> QED
  BY <1>6, <1>7, <1>8, <1>9 DEF TrafficInv

(* The gateway answers a command: to the call that waits, or to nobody. *)
LEMMA AnswerTraffic ==
  ASSUME TypeOK, SocketInv, TrafficInv, NEW c \in Conns, NEW s \in Calls, NEW n \in 1 .. MaxTries,
         <<s, n>> \in requests[c], requests' = [requests EXCEPT ![c] = @ \ {<<s, n>>}],
         NEW kind \in {"ack", "nack"},
         NEW answer \in {<<Frame(kind, s)>>, <<Frame("data", s), Frame(kind, s)>>},
         Deliver(c, answer), UNCHANGED <<pc, sessionVars, sock, peer>>
  PROVE  TrafficInv'
<1>1. UNCHANGED <<pc, try, reader, stream, sock, peer>>
  BY DEF sessionVars
<1>2. /\ requests'[c] = requests[c] \ {<<s, n>>}
      /\ \A d \in Conns : d # c => requests'[d] = requests[d]
  BY DEF TypeOK
<1>3. \A d \in Conns : d # c => replies'[d] = replies[d]
  BY DEF Deliver, TypeOK
<1>4. ReaderInv'
  BY <1>1 DEF TrafficInv, ReaderInv
<1>5. CASE sock[c] # "open"
  <2>1. replies' = replies
    BY <1>5 DEF Deliver, TypeOK
  <2>2. \A d \in Conns : requests'[d] \subseteq requests[d]
    BY <1>2
  <2>3. WireInv'
    BY <1>1, <1>2, <1>5, <2>1 DEF TrafficInv, WireInv
  <2>4. ShakeInv'
    BY <1>1, <1>2, <2>1 DEF TrafficInv, ShakeInv, ReaderInv, TypeOK
  <2>5. ExchangeInv'
    <3>1. \A t \in Calls : pc[t] = "reading" => reader[t] \in Conns
      BY DEF TrafficInv, ReaderInv, TypeOK, Tasks
    <3>2. \A t \in Calls : pc[t] = "reading" => requests'[reader[t]] \subseteq requests[reader[t]]
      BY <2>2, <3>1
    <3> QED
      BY <1>1, <2>1, <3>2 DEF TrafficInv, ExchangeInv
  <2> QED
    BY <1>4, <2>3, <2>4, <2>5 DEF TrafficInv
<1>6. CASE sock[c] = "open"
  <2> PICK t \in Calls : reader[t] = c /\ pc[t] = "reading"
    BY <1>6 DEF TrafficInv, WireInv
  <2>1. t \in Tasks
    BY DEF Tasks
  <2>2. \A q \in Tasks : q # t => reader[q] = NoConn /\ pc[q] \notin {"shaking", "reading"}
    BY <2>1, ReadsAlone DEF TrafficInv, Holding
  <2>3. replies[c] = <<>> /\ requests[c] = {<<s, n>>} /\ t = s
    BY DEF TrafficInv, ExchangeInv
  <2>4. replies'[c] = answer /\ requests'[c] = {}
    BY <1>2, <1>6, <2>3 DEF Deliver, TypeOK
  <2>5. WireInv'
    BY <1>1, <1>2, <1>3, <1>6, <2>1, <2>4 DEF TrafficInv, WireInv
  <2>6. ShakeInv'
    BY <1>1, <2>1, <2>2 DEF ShakeInv
  <2>7. ExchangeInv'
    <3>1. ASSUME NEW i \in 1 .. Len(answer)
          PROVE  answer[i].to = s /\ (i < Len(answer) => answer[i].kind = "data")
      <4>1. CASE answer = <<Frame(kind, s)>>
        <5>1. Len(answer) = 1 /\ i = 1
          BY <4>1
        <5> QED
          BY <4>1, <5>1 DEF Frame
      <4>2. CASE answer = <<Frame("data", s), Frame(kind, s)>>
        <5>1. Len(answer) = 2 /\ i \in {1, 2}
          BY <4>2
        <5> QED
          BY <4>2, <5>1 DEF Frame
      <4> QED
        BY <4>1, <4>2
    <3>2. \A u \in Calls : pc'[u] = "reading" => u = s
      BY <1>1, <2>2, <2>3 DEF Tasks
    <3> QED
      BY <1>1, <2>3, <2>4, <3>1, <3>2 DEF ExchangeInv
  <2> QED
    BY <1>4, <2>5, <2>6, <2>7 DEF TrafficInv
<1> QED
  BY <1>5, <1>6

(* The connection breaks. *)
LEMMA DropTraffic ==
  ASSUME TypeOK, SocketInv, TrafficInv, NEW c \in Conns, GatewayDrop(c)
  PROVE  TrafficInv'
<1>1. UNCHANGED <<pc, try, reader, stream, sock>>
  BY DEF GatewayDrop, sessionVars
<1>2. /\ peer'[c] = "down" /\ requests'[c] = {}
      /\ \A d \in Conns : d # c => peer'[d] = peer[d] /\ requests'[d] = requests[d]
  BY DEF GatewayDrop, TypeOK
<1>3. \A d \in Conns : replies'[d] = replies[d] \/ replies'[d] = <<>>
  BY DEF GatewayDrop, TypeOK
<1>4. \A p \in Tasks : pc[p] \in {"shaking", "reading"} => reader[p] \in Conns
  BY DEF TrafficInv, ReaderInv, TypeOK
<1>5. ReaderInv'
  BY <1>1 DEF TrafficInv, ReaderInv
<1>6. WireInv'
  BY <1>1, <1>2, <1>3 DEF TrafficInv, WireInv
<1>7. ShakeInv'
  <2>1. Len(<<>>) <= 1
    OBVIOUS
  <2> QED
    BY <1>1, <1>2, <1>3, <1>4, <2>1 DEF TrafficInv, ShakeInv
<1>8. ExchangeInv'
  <2> SUFFICES ASSUME NEW s \in Calls, pc[s] = "reading"
               PROVE  /\ requests'[reader[s]] \subseteq {<<s, try[s]>>}
                      /\ requests'[reader[s]] # {} => replies'[reader[s]] = <<>>
                      /\ \A i \in 1 .. Len(replies'[reader[s]]) :
                           /\ replies'[reader[s]][i].to = s
                           /\ i < Len(replies'[reader[s]]) => replies'[reader[s]][i].kind = "data"
    BY <1>1 DEF ExchangeInv
  <2>1. reader[s] \in Conns
    BY <1>4 DEF Tasks
  <2>2. 1 .. Len(<<>>) = {}
    OBVIOUS
  <2>3. requests'[reader[s]] \subseteq requests[reader[s]]
    BY <1>2, <2>1
  <2> QED
    BY <1>3, <2>1, <2>2, <2>3 DEF TrafficInv, ExchangeInv
<1> QED
  BY <1>5, <1>6, <1>7, <1>8 DEF TrafficInv

(* Every step of the gateway keeps TrafficInv. *)
LEMMA GatewayTraffic ==
  ASSUME TypeOK, SocketInv, TrafficInv, Gateway
  PROVE  TrafficInv'
<1> PICK c \in Conns :
       \/ GatewayAccept(c) \/ GatewayRefuse(c) \/ GatewayDrop(c)
       \/ \E s \in Calls, n \in 1 .. MaxTries : GatewayExecute(c, s, n) \/ GatewayReject(c, s, n)
  BY DEF Gateway
<1>1. CASE GatewayAccept(c)
  BY <1>1, HelloTraffic DEF GatewayAccept
<1>2. CASE GatewayRefuse(c)
  <2> PICK kind \in {"nack", "fatal"} : Deliver(c, <<Frame(kind, "hello")>>)
    BY <1>2 DEF GatewayRefuse
  <2> QED
    BY <1>2, HelloTraffic DEF GatewayRefuse
<1>3. ASSUME NEW s \in Calls, NEW n \in 1 .. MaxTries, GatewayExecute(c, s, n)
      PROVE  TrafficInv'
  <2> PICK answer \in {<<Frame("ack", s)>>, <<Frame("data", s), Frame("ack", s)>>} :
         Deliver(c, answer)
    BY <1>3 DEF GatewayExecute
  <2> QED
    BY <1>3, AnswerTraffic DEF GatewayExecute
<1>4. ASSUME NEW s \in Calls, NEW n \in 1 .. MaxTries, GatewayReject(c, s, n)
      PROVE  TrafficInv'
  <2> PICK answer \in {<<Frame("nack", s)>>, <<Frame("data", s), Frame("nack", s)>>} :
         Deliver(c, answer)
    BY <1>4 DEF GatewayReject
  <2> QED
    BY <1>4, AnswerTraffic DEF GatewayReject
<1> QED
  BY <1>1, <1>2, <1>3, <1>4, DropTraffic

(* Every action keeps TrafficInv. *)
LEMMA TrafficStep ==
  ASSUME TypeOK, SocketInv, TrafficInv, [Next]_vars
  PROVE  TrafficInv'
<1>1. ASSUME NEW s \in Calls, Call(s) \/ SendStep(s) \/ CancelWaiting(s)
      PROVE  TrafficInv'
  BY <1>1, QuietCallTraffic, AcquireTraffic, ReadMoreTraffic, EndTraffic, RetryNackTraffic,
     LeaveTraffic, ResendTraffic DEF SendStep
<1>2. ASSUME NEW p \in Tasks, ConnectStep(p)
      PROVE  TrafficInv'
  BY <1>2, OpenOkTraffic, LeaveTraffic, ShakeOkTraffic DEF ConnectStep
<1>3. CASE UNCHANGED vars
  BY <1>3, QuietTraffic DEF vars, sessionVars
<1> QED
  BY <1>1, <1>2, <1>3, QuietSessionTraffic, CloseBeginTraffic, GatewayTraffic DEF Next

(* A waiting call has its connection to itself, however many calls queue on *)
(* the lock and whatever was cancelled, timed out, closed or lost before.   *)
THEOREM ExchangesAreOwn == Spec => []OwnExchange
<1>1. Init => SocketInv
  BY CallsAssumption DEF Init, SocketInv, LockInv, StreamInv, NoLeakedSocket, Tasks, Holding
<1>2. Init => TrafficInv
  BY DEF Init, TrafficInv, ReaderInv, WireInv, ShakeInv, ExchangeInv, Tasks
<1>3. TypeOK /\ SocketInv /\ [Next]_vars => SocketInv'
  BY SocketStep
<1>4. TypeOK /\ SocketInv /\ TrafficInv /\ [Next]_vars => TrafficInv'
  BY TrafficStep
<1>5. TrafficInv => OwnExchange
  BY DEF TrafficInv, ExchangeInv, OwnExchange
<1> QED
  BY <1>1, <1>2, <1>3, <1>4, <1>5, TypeCorrect, PTL DEF Spec

-----------------------------------------------------------------------------
(* The contract of CommandRpc: what send() returns is true, a command runs  *)
(* at most once, and every step is a step of CommandRpc or a stutter.       *)

(* What the calls have been told, and what is on the wires for them. *)
ContractInv == AnswerInv /\ OutcomeInv /\ CommandInv /\ RefusedInv

(* The frame of s was not carried out and will not be, as things stand. *)
Unsent(s) == runs[s] = 0 /\ ~Pending(s)

-----------------------------------------------------------------------------
(* The frames of the commands. *)

(* A step that writes nothing and carries nothing out: whoever then claims  *)
(* that its frame is on no wire must already have been right.               *)
LEMMA NoWrite ==
  ASSUME CommandInv, RefusedInv, runs' = runs,
         \A c \in Conns : requests'[c] \subseteq requests[c],
         \A s \in Calls \ Queries : Unwritten(s)' => Unsent(s),
         \A s \in Calls \ Queries :
            pc'[s] = "reading" => pc[s] = "reading" /\ reader'[s] = reader[s]
  PROVE  CommandInv' /\ RefusedInv'
<1>1. \A s \in Calls : Pending(s)' => Pending(s)
  BY DEF Pending
<1>2. RefusedInv'
  BY <1>1, CallsAssumption DEF RefusedInv
<1>3. ASSUME NEW s \in Calls \ Queries
      PROVE  /\ runs'[s] <= 1
             /\ Pending(s)' => runs'[s] = 0
             /\ \A c, d \in Conns, n, m \in 1 .. MaxTries :
                  <<s, n>> \in requests'[c] /\ <<s, m>> \in requests'[d] => c = d /\ n = m
             /\ \A c \in Conns, n \in 1 .. MaxTries :
                  <<s, n>> \in requests'[c] /\ pc'[s] = "reading" => c = reader'[s]
             /\ Unwritten(s)' => runs'[s] = 0 /\ ~Pending(s)'
  BY <1>1 DEF CommandInv, Unsent
<1> QED
  BY <1>2, <1>3 DEF CommandInv

(* The same, when one task moves on and is not waiting for a response. *)
LEMMA MoveOn ==
  ASSUME TypeOK, CommandInv, RefusedInv, UNCHANGED <<runs, requests>>,
         NEW p \in Tasks, NEW x, x # "reading", pc' = [pc EXCEPT ![p] = x],
         \A t \in Calls : t # p => outcome'[t] = outcome[t] /\ reader'[t] = reader[t],
         p \in Calls \ Queries => (Unwritten(p)' => Unsent(p))
  PROVE  CommandInv' /\ RefusedInv'
<1>1. /\ pc'[p] = x
      /\ \A t \in Calls : t # p => pc'[t] = pc[t]
  BY DEF TypeOK, PcOK, Tasks
<1>2. ASSUME NEW s \in Calls \ Queries, Unwritten(s)'
      PROVE  Unsent(s)
  <2>1. CASE s = p
    BY <1>2, <2>1
  <2>2. CASE s # p
    <3>1. Unwritten(s)
      BY <1>1, <1>2, <2>2 DEF Unwritten
    <3> QED
      BY <3>1 DEF CommandInv, Unsent
  <2> QED
    BY <2>1, <2>2
<1> QED
  BY <1>1, <1>2, NoWrite

(* A call that writes: a command's frame was on no wire before. *)
LEMMA WriteContract ==
  ASSUME TypeOK, CommandInv, RefusedInv, NEW s \in Calls \ Refused, NEW c \in Conns, Write(s, c),
         UNCHANGED <<runs, outcome>>, s \notin Queries => Unsent(s)
  PROVE  CommandInv' /\ RefusedInv'
<1>1. /\ requests'[c] = requests[c] \cup {<<s, try'[s]>>}
      /\ \A d \in Conns : d # c => requests'[d] = requests[d]
  BY DEF Write, TypeOK
<1>2. /\ pc'[s] = "reading" /\ reader'[s] = c
      /\ \A t \in Calls : t # s => pc'[t] = pc[t] /\ reader'[t] = reader[t]
  BY DEF Write, TypeOK, PcOK, Tasks
<1>3. \A t \in Calls, d \in Conns, n \in 1 .. MaxTries :
         t # s => (<<t, n>> \in requests'[d] <=> <<t, n>> \in requests[d])
  BY <1>1
<1>4. \A t \in Calls : t # s => (Pending(t)' <=> Pending(t))
  BY <1>3 DEF Pending
<1>5. RefusedInv'
  BY <1>4, CallsAssumption DEF RefusedInv
<1>6. ASSUME NEW t \in Calls \ Queries
      PROVE  /\ runs'[t] <= 1
             /\ Pending(t)' => runs'[t] = 0
             /\ \A d, e \in Conns, n, m \in 1 .. MaxTries :
                  <<t, n>> \in requests'[d] /\ <<t, m>> \in requests'[e] => d = e /\ n = m
             /\ \A d \in Conns, n \in 1 .. MaxTries :
                  <<t, n>> \in requests'[d] /\ pc'[t] = "reading" => d = reader'[t]
             /\ Unwritten(t)' => runs'[t] = 0 /\ ~Pending(t)'
  <2>1. CASE t # s
    <3>1. Unwritten(t)' <=> Unwritten(t)
      BY <1>2, <2>1 DEF Unwritten
    <3> QED
      BY <1>2, <1>3, <1>4, <2>1, <3>1 DEF CommandInv
  <2>2. CASE t = s
    <3>1. runs'[s] = 0 /\ ~Unwritten(s)'
      BY <1>2, <2>2 DEF Unsent, Unwritten
    <3>2. \A d \in Conns, n \in 1 .. MaxTries : <<s, n>> \in requests'[d] => d = c /\ n = try'[s]
      BY <1>1, <2>2 DEF Unsent, Pending
    <3> QED
      BY <1>2, <2>2, <3>1, <3>2
  <2> QED
    BY <2>1, <2>2
<1> QED
  BY <1>5, <1>6 DEF CommandInv

(* The head of the retry loop, for a frame that may be written. *)
LEMMA AttemptContract ==
  ASSUME TypeOK, CommandInv, RefusedInv, NEW s \in Calls \ Refused, Attempt(s),
         UNCHANGED <<stream, runs>>, s \notin Queries => Unsent(s)
  PROVE  CommandInv' /\ RefusedInv'
<1>1. CASE stream # NoConn
  <2>1. Write(s, stream) /\ stream \in Conns /\ outcome' = outcome
    BY <1>1 DEF Attempt, TypeOK
  <2> QED
    BY <2>1, WriteContract
<1>2. CASE stream = NoConn
  <2>1. /\ pc' = [pc EXCEPT ![s] = "done"] \/ pc' = [pc EXCEPT ![s] = "opening"]
        /\ requests' = requests /\ s \in Tasks
    BY <1>2 DEF Attempt, Return, Tasks
  <2>2. \A t \in Calls : t # s => outcome'[t] = outcome[t] /\ reader'[t] = reader[t]
    BY <1>2 DEF Attempt, Return, TypeOK, Tasks
  <2> QED
    BY <2>1, <2>2, MoveOn
<1> QED
  BY <1>1, <1>2

(* A call that reads a NACK has its frame on no wire. *)
LEMMA NackIsUnsent ==
  ASSUME TypeOK, TrafficInv, AnswerInv, CommandInv,
         NEW s \in Calls \ Queries, pc[s] = "reading", Readable(s), Next1(s) = "nack"
  PROVE  Unsent(s)
<1> DEFINE r == reader[s]
<1>1. r \in Conns /\ replies[r] \in Seq(Frames) /\ replies[r] # <<>>
  BY DEF Readable, TypeOK, Tasks
<1>2. 1 \in 1 .. Len(replies[r]) /\ replies[r][1].kind = "nack"
  <2>1. Len(replies[r]) \in Nat /\ Len(replies[r]) # 0
    BY <1>1
  <2>2. replies[r][1].kind = "nack"
    BY <1>1 DEF Next1
  <2> HIDE DEF r
  <2> QED
    BY <2>1, <2>2
<1>3. runs[s] = 0
  BY <1>2 DEF AnswerInv
<1>4. requests[r] = {}
  BY <1>1 DEF TrafficInv, ExchangeInv
<1>5. ~Pending(s)
  BY <1>4 DEF Pending, CommandInv
<1> QED
  BY <1>3, <1>5 DEF Unsent
(* Every step of a call keeps CommandInv and RefusedInv. *)
LEMMA CallCommand ==
  ASSUME TypeOK, TrafficInv, ContractInv, NEW s \in Calls,
         Call(s) \/ SendStep(s) \/ CancelWaiting(s)
  PROVE  CommandInv' /\ RefusedInv'
<1>0. s \in Tasks /\ (s \notin Queries /\ Unwritten(s) => Unsent(s))
  BY DEF Tasks, ContractInv, CommandInv, Unsent
<1>1. CASE Call(s) \/ CancelWaiting(s) \/ Refuse(s) \/ GiveUp(s) \/ Closed(s)
  <2>1. /\ UNCHANGED <<runs, requests, reader>>
        /\ pc' = [pc EXCEPT ![s] = "waiting"] \/ pc' = [pc EXCEPT ![s] = "done"]
    BY <1>1 DEF Call, CancelWaiting, Refuse, GiveUp, Closed, Return, sessionVars, wireVars
  <2>2. \A t \in Calls : t # s => outcome'[t] = outcome[t]
    BY <1>1 DEF Call, CancelWaiting, Refuse, GiveUp, Closed, Return, TypeOK, sessionVars
  <2>3. Unwritten(s)' => Unwritten(s)
    BY <1>0, <1>1 DEF Call, CancelWaiting, Refuse, GiveUp, Closed, Return, Unwritten, TypeOK,
       PcOK, sessionVars
  <2> QED
    BY <1>0, <2>1, <2>2, <2>3, MoveOn DEF ContractInv
<1>2. CASE ReadAck(s) \/ ReadNack(s) \/ ShakeRaises(s)
  <2>1. /\ UNCHANGED <<runs, requests>> /\ pc' = [pc EXCEPT ![s] = "done"]
        /\ reader' = [reader EXCEPT ![s] = NoConn]
    BY <1>2 DEF ReadAck, ReadNack, ShakeRaises, Return
  <2>2. \A t \in Calls : t # s => outcome'[t] = outcome[t] /\ reader'[t] = reader[t]
    BY <1>2, <2>1 DEF ReadAck, ReadNack, ShakeRaises, Return, TypeOK
  <2>3. s \notin Queries /\ Unwritten(s)' => Unsent(s)
    <3>1. CASE ReadAck(s)
      BY <1>0, <3>1 DEF ReadAck, Return, Unwritten, TypeOK, PcOK
    <3>2. CASE ReadNack(s)
      BY <3>2, NackIsUnsent DEF ReadNack, ContractInv
    <3>3. CASE ShakeRaises(s)
      BY <1>0, <3>3 DEF ShakeRaises, Unwritten
    <3> QED
      BY <1>2, <3>1, <3>2, <3>3
  <2> QED
    BY <1>0, <2>1, <2>2, <2>3, MoveOn DEF ContractInv
<1>3. CASE ConnectionLost(s) \/ Abandon(s) \/ Unavailable(s) \/ (ReadMore(s) /\ stream = NoConn)
  <2>1. /\ UNCHANGED <<runs, requests>> /\ LeaveReader(s)
        /\ pc' = [pc EXCEPT ![s] = "recycling"] \/ pc' = [pc EXCEPT ![s] = "closing"]
    BY <1>3 DEF ConnectionLost, Abandon, Unavailable, ReadMore, CloseAndReturn
  <2>2. \A t \in Calls : t # s => outcome'[t] = outcome[t] /\ reader'[t] = reader[t]
    <3>1. outcome' = outcome \/ \E o \in Outcomes : outcome' = [outcome EXCEPT ![s] = o]
      BY <1>3 DEF ConnectionLost, Abandon, Unavailable, ReadMore, CloseAndReturn, Outcomes
    <3> QED
      BY <2>1, <3>1 DEF LeaveReader, TypeOK, Tasks
  <2>3. Unwritten(s)' => Unwritten(s)
    BY <1>0, <1>3 DEF ConnectionLost, Abandon, Unavailable, ReadMore, CloseAndReturn, Unwritten,
       TypeOK, PcOK
  <2> QED
    BY <1>0, <2>1, <2>2, <2>3, MoveOn DEF ContractInv
<1>4. CASE Acquire(s)
  BY <1>0, <1>4, AttemptContract DEF Acquire, Unwritten, ContractInv
<1>5. CASE RetryNack(s)
  <2>1. s \notin Refused
    BY <1>5 DEF RetryNack, ContractInv, OutcomeInv
  <2> QED
    BY <1>5, <2>1, NackIsUnsent, AttemptContract DEF RetryNack, ContractInv
<1>6. CASE Resend(s)
  <2>1. s \notin Refused /\ s \in Queries
    BY <1>6 DEF Resend, MayResend, ContractInv, OutcomeInv
  <2> QED
    BY <1>6, <2>1, AttemptContract DEF Resend, ContractInv
<1>7. CASE ReadMore(s) /\ stream # NoConn
  <2>1. UNCHANGED <<pc, outcome, runs, requests>> /\ reader' = [reader EXCEPT ![s] = stream]
    BY <1>7 DEF ReadMore
  <2>2. reader' = reader
    BY <1>0, <1>7, <2>1 DEF ReadMore, Readable, TypeOK, TrafficInv, ReaderInv
  <2>3. \A t \in Calls \ Queries : Unwritten(t)' => Unsent(t)
    BY <2>1 DEF Unwritten, Unsent, ContractInv, CommandInv
  <2> QED
    BY <2>1, <2>2, <2>3, NoWrite DEF ContractInv
<1> QED
  BY <1>1, <1>2, <1>3, <1>4, <1>5, <1>6, <1>7 DEF SendStep

(* Every step of connect() keeps CommandInv and RefusedInv. *)
LEMMA ConnectCommand ==
  ASSUME TypeOK, ContractInv, NEW p \in Tasks, ConnectStep(p)
  PROVE  CommandInv' /\ RefusedInv'
<1>0. p \in Calls \ Queries /\ Unwritten(p) => Unsent(p)
  BY DEF ContractInv, CommandInv, Unsent
<1>1. CASE ShakeOk(p) /\ p \in Calls /\ Write(p, stream) /\ stream # NoConn /\ outcome' = outcome
  <2>1. stream \in Conns /\ p \notin Refused /\ runs' = runs
    BY <1>1 DEF TypeOK, ShakeOk, ContractInv, OutcomeInv
  <2>2. Unwritten(p)
    BY <1>1 DEF ShakeOk, Unwritten
  <2> QED
    BY <1>0, <1>1, <2>1, <2>2, WriteContract DEF ContractInv
<1>2. CASE /\ p \in Calls => pc[p] \in {"opening", "shaking"}
           /\ UNCHANGED <<runs, requests>>
           /\ \E x \in {"shaking", "releasing", "idle", "closing"} : pc' = [pc EXCEPT ![p] = x]
           /\ \E c \in Conns \cup {NoConn} : reader' = [reader EXCEPT ![p] = c]
           /\ outcome' = outcome \/ outcome' = [outcome EXCEPT ![p] = "unsent"]
  <2>1. \A t \in Calls : t # p => outcome'[t] = outcome[t] /\ reader'[t] = reader[t]
    BY <1>2 DEF TypeOK
  <2>2. p \in Calls \ Queries => (Unwritten(p)' => Unsent(p))
    BY <1>0, <1>2 DEF Unwritten
  <2> QED
    BY <1>2, <2>1, <2>2, MoveOn DEF ContractInv
<1>3. CASE ShakeOk(p)
  BY <1>1, <1>2, <1>3 DEF ShakeOk, CloseAndReturn, LeaveReader
<1>4. CASE ~ShakeOk(p)
  BY <1>2, <1>4 DEF ConnectStep, OpenOk, OpenFail, ShakeRefused, ShakeLost, AttemptFailed,
     LeaveReader
<1> QED
  BY <1>3, <1>4

(* Every step of the consumer, the clock and close() does. *)
LEMMA SessionCommand ==
  ASSUME TypeOK, ContractInv,
         \/ ConsumerConnect \/ AttemptReleased \/ BackoffOver \/ CooldownOver
         \/ CloseBegin \/ CloseEnd \/ UNCHANGED vars
  PROVE  CommandInv' /\ RefusedInv'
<1>1. UNCHANGED <<runs, requests, outcome, reader>>
  BY DEF ConsumerConnect, AttemptReleased, BackoffOver, CooldownOver, CloseBegin, CloseEnd, vars,
     sessionVars, wireVars
<1>2. \A t \in Calls : pc'[t] = pc[t]
  BY CallsAssumption DEF ConsumerConnect, AttemptReleased, BackoffOver, CooldownOver, CloseBegin,
     CloseEnd, vars, TypeOK, PcOK, Tasks
<1>3. \A s \in Calls \ Queries : Unwritten(s)' => Unsent(s)
  BY <1>1, <1>2 DEF Unwritten, Unsent, ContractInv, CommandInv
<1> QED
  BY <1>1, <1>2, <1>3, NoWrite DEF ContractInv

(* The gateway takes a frame off a wire: it is not carried out twice. *)
LEMMA GatewayCommand ==
  ASSUME TypeOK, ContractInv, Gateway
  PROVE  CommandInv' /\ RefusedInv'
<1>1. UNCHANGED <<pc, outcome, reader>>
  <2>1. UNCHANGED <<pc, sessionVars>>
    BY DEF Gateway, GatewayAccept, GatewayRefuse, GatewayDrop, GatewayExecute, GatewayReject
  <2> QED
    BY <2>1 DEF sessionVars
<1>2. \A s \in Calls \ Queries : Unwritten(s)' => Unsent(s)
  BY <1>1 DEF Unwritten, Unsent, ContractInv, CommandInv
<1>3. ASSUME NEW c \in Conns, NEW s \in Calls, NEW n \in 1 .. MaxTries, GatewayExecute(c, s, n)
      PROVE  CommandInv' /\ RefusedInv'
  <2>1. /\ <<s, n>> \in requests[c]
        /\ requests'[c] = requests[c] \ {<<s, n>>}
        /\ \A d \in Conns : d # c => requests'[d] = requests[d]
        /\ runs'[s] = runs[s] + 1
        /\ \A t \in Calls : t # s => runs'[t] = runs[t]
    BY <1>3 DEF GatewayExecute, TypeOK
  <2>2. Pending(s)
    BY <2>1 DEF Pending
  <2>3. \A t \in Calls : Pending(t)' => Pending(t)
    BY <2>1 DEF Pending
  <2>4. RefusedInv'
    BY <2>1, <2>2, <2>3, CallsAssumption DEF RefusedInv, ContractInv
  <2>5. ASSUME NEW t \in Calls \ Queries
        PROVE  /\ runs'[t] <= 1
               /\ Pending(t)' => runs'[t] = 0
               /\ Unwritten(t)' => runs'[t] = 0 /\ ~Pending(t)'
    <3>1. CASE t # s
      BY <1>2, <2>1, <2>3, <3>1 DEF ContractInv, CommandInv, Unsent
    <3>2. CASE t = s
      <4>1. runs'[s] = 1
        BY <2>1, <2>2, <3>2 DEF ContractInv, CommandInv
      <4>2. ~Pending(s)'
        <5> SUFFICES ASSUME NEW d \in Conns, NEW m \in 1 .. MaxTries, <<s, m>> \in requests'[d]
                     PROVE  FALSE
          BY DEF Pending
        <5>1. <<s, m>> \in requests[d]
          BY <2>1
        <5>2. d = c /\ m = n
          BY <2>1, <3>2, <5>1 DEF ContractInv, CommandInv
        <5> QED
          BY <2>1, <5>2
      <4>3. ~Unwritten(s)'
        BY <1>2, <2>2, <3>2 DEF Unsent
      <4> QED
        BY <3>2, <4>1, <4>2, <4>3
    <3> QED
      BY <3>1, <3>2
  <2>6. \A d \in Conns : requests'[d] \subseteq requests[d]
    BY <2>1
  <2>7. ASSUME NEW t \in Calls \ Queries
        PROVE  /\ \A d, e \in Conns, k, m \in 1 .. MaxTries :
                    <<t, k>> \in requests'[d] /\ <<t, m>> \in requests'[e] => d = e /\ k = m
               /\ \A d \in Conns, k \in 1 .. MaxTries :
                    <<t, k>> \in requests'[d] /\ pc'[t] = "reading" => d = reader'[t]
    BY <1>1, <2>6 DEF ContractInv, CommandInv
  <2> QED
    BY <2>4, <2>5, <2>7 DEF CommandInv
<1>4. CASE runs' = runs /\ \A c \in Conns : requests'[c] \subseteq requests[c]
  BY <1>1, <1>2, <1>4, NoWrite DEF ContractInv
<1>5. ASSUME NEW c \in Conns, NEW s \in Calls, NEW n \in 1 .. MaxTries, GatewayReject(c, s, n)
      PROVE  CommandInv' /\ RefusedInv'
  BY <1>4, <1>5 DEF GatewayReject, TypeOK
<1>6. ASSUME NEW c \in Conns, GatewayAccept(c) \/ GatewayRefuse(c) \/ GatewayDrop(c)
      PROVE  CommandInv' /\ RefusedInv'
  BY <1>4, <1>6 DEF GatewayAccept, GatewayRefuse, GatewayDrop, TypeOK
<1> QED
  BY <1>3, <1>5, <1>6 DEF Gateway

-----------------------------------------------------------------------------
(* The answers. *)

(* With nothing to read, every answer is right. *)
LEMMA DrainedAnswers ==
  ASSUME TypeOK', TrafficInv', Drained'
  PROVE  AnswerInv'
<1> SUFFICES ASSUME NEW s \in Calls, pc'[s] = "reading"
             PROVE  1 .. Len(replies'[reader'[s]]) = {}
  BY DEF AnswerInv
<1>1. reader'[s] \in Conns
  BY DEF TypeOK, TrafficInv, ReaderInv, Tasks
<1>2. Len(<<>>) = 0
  OBVIOUS
<1> QED
  BY <1>1, <1>2 DEF Drained

(* A step that leaves the answers alone keeps them right. *)
LEMMA QuietAnswers ==
  ASSUME AnswerInv, UNCHANGED <<runs, reader, replies>>,
         \A s \in Calls : pc'[s] = "reading" => pc[s] = "reading"
  PROVE  AnswerInv'
BY DEF AnswerInv

(* The gateway's answer says what the gateway did. *)
LEMMA GatewayAnswers ==
  ASSUME TypeOK, SocketInv, TrafficInv, ContractInv, NEW c \in Conns, NEW s \in Calls,
         NEW n \in 1 .. MaxTries, GatewayExecute(c, s, n) \/ GatewayReject(c, s, n)
  PROVE  AnswerInv'
<1>1. UNCHANGED <<pc, reader, sock>> /\ <<s, n>> \in requests[c]
  BY DEF GatewayExecute, GatewayReject, sessionVars
<1>2. \E kind \in {"ack", "nack"} :
         /\ \E answer \in {<<Frame(kind, s)>>, <<Frame("data", s), Frame(kind, s)>>} :
               Deliver(c, answer)
         /\ kind = "ack" => runs'[s] > 0
         /\ kind = "nack" => runs'[s] = runs[s]
  BY DEF GatewayExecute, GatewayReject, TypeOK
<1>3. /\ \A t \in Calls : t # s => runs'[t] = runs[t]
      /\ runs'[s] \in {runs[s], runs[s] + 1} /\ \A t \in Calls : runs[t] \in Nat
  BY DEF GatewayExecute, GatewayReject, TypeOK
<1>4. \A d \in Conns : d # c \/ sock[c] # "open" => replies'[d] = replies[d]
  BY <1>2 DEF Deliver, TypeOK
<1> SUFFICES ASSUME NEW t \in Calls, pc[t] = "reading", NEW i \in 1 .. Len(replies'[reader[t]])
             PROVE  /\ replies'[reader[t]][i].kind = "ack" => runs'[t] > 0
                    /\ replies'[reader[t]][i].kind = "nack" /\ t \notin Queries => runs'[t] = 0
  BY <1>1 DEF AnswerInv
<1> DEFINE r == reader[t]
<1>5. r \in Conns /\ t \in Tasks
  BY DEF TypeOK, TrafficInv, ReaderInv, Tasks
<1>6. CASE r # c \/ sock[c] # "open"
  <2>1. replies'[r] = replies[r]
    BY <1>4, <1>5, <1>6
  <2>2. /\ replies'[r][i].kind = "ack" => runs[t] > 0
        /\ replies'[r][i].kind = "nack" /\ t \notin Queries => runs[t] = 0
    BY <2>1 DEF ContractInv, AnswerInv
  <2>3. replies[r] # <<>>
    <3>1. 1 .. Len(<<>>) = {}
      OBVIOUS
    <3> QED
      BY <2>1, <3>1
  <2>4. t = s /\ t \notin Queries => FALSE
    <3> SUFFICES ASSUME t = s, t \notin Queries
                 PROVE  FALSE
      OBVIOUS
    <3>1. r = c
      BY <1>1 DEF ContractInv, CommandInv
    <3>2. requests[r] # {}
      BY <1>1, <3>1
    <3> QED
      BY <2>3, <3>2 DEF TrafficInv, ExchangeInv
  <2> QED
    BY <1>3, <2>2, <2>4
<1>7. CASE r = c /\ sock[c] = "open"
  <2>1. replies[c] = <<>> /\ s = t
    BY <1>1, <1>7 DEF TrafficInv, ExchangeInv
  <2>2. t \notin Queries => runs[t] = 0
    BY <1>1, <2>1 DEF ContractInv, CommandInv, Pending
  <2> PICK kind \in {"ack", "nack"} :
         /\ \E answer \in {<<Frame(kind, s)>>, <<Frame("data", s), Frame(kind, s)>>} :
               Deliver(c, answer)
         /\ kind = "ack" => runs'[s] > 0
         /\ kind = "nack" => runs'[s] = runs[s]
    BY <1>2
  <2> PICK answer \in {<<Frame(kind, s)>>, <<Frame("data", s), Frame(kind, s)>>} :
         Deliver(c, answer)
    OBVIOUS
  <2>3. replies'[c] = answer
    BY <1>7, <2>1 DEF Deliver, TypeOK
  <2>4. replies'[c][i].kind \in {"data", kind}
    <3>1. i \in 1 .. Len(answer)
      BY <1>7, <2>3
    <3>2. CASE answer = <<Frame(kind, s)>>
      BY <2>3, <3>1, <3>2 DEF Frame
    <3>3. CASE answer = <<Frame("data", s), Frame(kind, s)>>
      <4>1. i \in {1, 2}
        BY <3>1, <3>3
      <4> QED
        BY <2>3, <3>3, <4>1 DEF Frame
    <3> QED
      BY <3>2, <3>3
  <2> QED
    BY <1>7, <2>1, <2>2, <2>4
<1> QED
  BY <1>5, <1>6, <1>7

(* Reading on leaves the rest of the answer as it was. *)
LEMMA ReadMoreAnswers ==
  ASSUME TypeOK, SocketInv, TrafficInv, AnswerInv, NEW s \in Calls, ReadMore(s), stream # NoConn
  PROVE  AnswerInv'
<1> DEFINE r == reader[s]
<1>1. /\ s \in Tasks /\ pc[s] = "reading" /\ Readable(s) /\ Consume(s)
      /\ reader' = [reader EXCEPT ![s] = stream] /\ UNCHANGED <<pc, runs>>
  BY DEF Tasks, ReadMore
<1>2. r \in Conns /\ replies[r] \in Seq(Frames) /\ replies[r] # <<>> /\ stream = r
  BY <1>1 DEF Readable, TypeOK, TrafficInv, ReaderInv
<1>3. reader' = reader /\ replies'[r] = Tail(replies[r])
  BY <1>1, <1>2 DEF Consume, TypeOK
<1>4. \A t \in Calls : pc'[t] = "reading" => t = s
  BY <1>1, ReadsAlone DEF TrafficInv, Holding, Tasks
<1>5. ASSUME NEW i \in 1 .. Len(Tail(replies[r]))
      PROVE  /\ Tail(replies[r])[i].kind = "ack" => runs[s] > 0
             /\ Tail(replies[r])[i].kind = "nack" /\ s \notin Queries => runs[s] = 0
  BY <1>1, <1>2, TailElements DEF AnswerInv
<1> QED
  BY <1>1, <1>3, <1>4, <1>5 DEF AnswerInv

(* Every step keeps the answers right. *)
LEMMA AnswerStep ==
  ASSUME TypeOK, SocketInv, TrafficInv, ContractInv, [Next]_vars, TypeOK', TrafficInv'
  PROVE  AnswerInv'
<1>1. ASSUME NEW s \in Calls, Call(s) \/ SendStep(s) \/ CancelWaiting(s)
      PROVE  AnswerInv'
  <2>1. CASE Call(s) \/ CancelWaiting(s) \/ Refuse(s) \/ GiveUp(s) \/ Closed(s)
    <3>1. UNCHANGED <<runs, reader, replies>>
      BY <2>1 DEF Call, CancelWaiting, Refuse, GiveUp, Closed, sessionVars, wireVars
    <3>2. \A t \in Calls : pc'[t] = "reading" => pc[t] = "reading"
      BY <2>1 DEF Call, CancelWaiting, Refuse, GiveUp, Closed, Return, TypeOK, PcOK, Tasks
    <3> QED
      BY <3>1, <3>2, QuietAnswers DEF ContractInv
  <2>2. CASE ReadMore(s) /\ stream = NoConn
    <3>1. \A t \in Calls : pc'[t] # "reading"
      <4>1. pc[s] \in Holding /\ s \in Tasks /\ pc' = [pc EXCEPT ![s] = "closing"]
        BY <2>2 DEF ReadMore, CloseAndReturn, Holding, Tasks
      <4> QED
        BY <4>1, ReadsAlone DEF TrafficInv, Tasks, TypeOK, PcOK
    <3> QED
      BY <3>1 DEF AnswerInv
  <2> QED
    BY <1>1, <2>1, <2>2, ReadMoreAnswers, DrainedAnswers, AcquireTraffic, EndTraffic,
       RetryNackTraffic, LeaveTraffic, ResendTraffic DEF SendStep, ContractInv
<1>2. ASSUME NEW p \in Tasks, ConnectStep(p)
      PROVE  AnswerInv'
  BY <1>2, DrainedAnswers, OpenOkTraffic, LeaveTraffic, ShakeOkTraffic DEF ConnectStep
<1>3. CASE \/ ConsumerConnect \/ AttemptReleased \/ BackoffOver \/ CooldownOver
           \/ CloseBegin \/ CloseEnd \/ UNCHANGED vars
  <2>1. UNCHANGED <<runs, reader, replies>>
    BY <1>3 DEF ConsumerConnect, AttemptReleased, BackoffOver, CooldownOver, CloseBegin, CloseEnd,
       vars, sessionVars, wireVars
  <2>2. \A t \in Calls : pc'[t] = pc[t]
    BY <1>3, CallsAssumption DEF ConsumerConnect, AttemptReleased, BackoffOver, CooldownOver,
       CloseBegin, CloseEnd, vars, TypeOK, PcOK, Tasks
  <2> QED
    BY <2>1, <2>2, QuietAnswers DEF ContractInv
<1>4. ASSUME NEW c \in Conns, GatewayAccept(c) \/ GatewayRefuse(c)
      PROVE  AnswerInv'
  <2>1. peer[c] = "greeting" /\ sock[c] = "open" /\ pc' = pc
    BY <1>4 DEF GatewayAccept, GatewayRefuse
  <2> PICK p \in Tasks : reader[p] = c /\ pc[p] = "shaking"
    BY <2>1 DEF TrafficInv, WireInv
  <2>2. \A q \in Tasks : pc[q] # "reading"
    BY ReadsAlone DEF TrafficInv, Holding
  <2> QED
    BY <2>1, <2>2 DEF AnswerInv, Tasks
<1>5. ASSUME NEW c \in Conns, GatewayDrop(c)
      PROVE  AnswerInv'
  <2>1. UNCHANGED <<pc, reader, runs>>
    BY <1>5 DEF GatewayDrop, sessionVars
  <2>2. \A d \in Conns : replies'[d] = replies[d] \/ replies'[d] = <<>>
    BY <1>5 DEF GatewayDrop, TypeOK
  <2>3. \A s \in Calls : pc[s] = "reading" => reader[s] \in Conns
    BY DEF TrafficInv, ReaderInv, TypeOK, Tasks
  <2>4. 1 .. Len(<<>>) = {}
    OBVIOUS
  <2> QED
    BY <2>1, <2>2, <2>3, <2>4 DEF AnswerInv, ContractInv
<1> QED
  BY <1>1, <1>2, <1>3, <1>4, <1>5, GatewayAnswers DEF Next, Gateway

-----------------------------------------------------------------------------
(* The outcomes. *)

(* Who reads an ACK had its frame carried out. *)
LEMMA AckIsRun ==
  ASSUME TypeOK, AnswerInv, NEW s \in Calls, pc[s] = "reading", Readable(s), Next1(s) = "ack"
  PROVE  runs[s] > 0
<1> DEFINE r == reader[s]
<1>1. r \in Conns /\ replies[r] \in Seq(Frames) /\ replies[r] # <<>>
  BY DEF Readable, TypeOK, Tasks
<1>2. Len(replies[r]) \in Nat /\ Len(replies[r]) # 0 /\ replies[r][1].kind = "ack"
  BY <1>1 DEF Next1
<1>3. 1 \in 1 .. Len(replies[r])
  <2> HIDE DEF r
  <2> QED
    BY <1>2
<1> QED
  BY <1>2, <1>3 DEF AnswerInv

(* Every step of a call keeps OutcomeInv. *)
LEMMA CallOutcome ==
  ASSUME TypeOK, AnswerInv, OutcomeInv, NEW s \in Calls, Call(s) \/ SendStep(s) \/ CancelWaiting(s)
  PROVE  OutcomeInv'
<1> USE DEF TypeOK, PcOK, OutcomeInv, Tasks
<1>0. runs' = runs
  BY DEF Call, CancelWaiting, SendStep, Acquire, Refuse, ReadMore, ReadAck, ReadNack, RetryNack,
     ConnectionLost, Resend, GiveUp, Abandon, Closed, ShakeRaises, Unavailable, wireVars
<1>1. CASE Call(s)
  BY <1>0, <1>1 DEF Call, sessionVars
<1>2. CASE CancelWaiting(s)
  BY <1>0, <1>2 DEF CancelWaiting
<1>3. CASE Refuse(s)
  BY <1>0, <1>3 DEF Refuse, Return
<1>4. CASE GiveUp(s)
  BY <1>0, <1>4 DEF GiveUp, Return
<1>5. CASE Closed(s)
  BY <1>0, <1>5 DEF Closed, Return
<1>6. CASE ReadAck(s)
  BY <1>0, <1>6, AckIsRun DEF ReadAck, Return
<1>7. CASE ReadNack(s)
  BY <1>0, <1>7 DEF ReadNack, Return
<1>8. CASE ShakeRaises(s)
  BY <1>0, <1>8 DEF ShakeRaises, Return
<1>9. CASE ConnectionLost(s)
  BY <1>0, <1>9 DEF ConnectionLost
<1>10. CASE Abandon(s)
  BY <1>0, <1>10 DEF Abandon, CloseAndReturn
<1>11. CASE Unavailable(s)
  BY <1>0, <1>11 DEF Unavailable, CloseAndReturn
<1>12. CASE ReadMore(s)
  BY <1>0, <1>12 DEF ReadMore, CloseAndReturn
<1>13. CASE Attempt(s) /\ s \notin Refused /\ pc[s] \in {"waiting", "reading", "recycling"}
  <2>1. \/ Return(s, "unsent")
        \/ pc' = [pc EXCEPT ![s] = "opening"] /\ outcome' = outcome
        \/ pc' = [pc EXCEPT ![s] = "reading"] /\ outcome' = outcome
    BY <1>13 DEF Attempt, Write
  <2> QED
    BY <1>0, <1>13, <2>1 DEF Return
<1>14. CASE Acquire(s) \/ RetryNack(s) \/ Resend(s)
  BY <1>13, <1>14 DEF Acquire, RetryNack, Resend
<1> HIDE DEF TypeOK, PcOK, OutcomeInv, Tasks
<1> QED
  BY <1>1, <1>2, <1>3, <1>4, <1>5, <1>6, <1>7, <1>8, <1>9, <1>10, <1>11, <1>12, <1>14 DEF SendStep

(* Every step keeps OutcomeInv. *)
LEMMA OutcomeStep ==
  ASSUME TypeOK, AnswerInv, OutcomeInv, [Next]_vars
  PROVE  OutcomeInv'
<1>1. ASSUME NEW p \in Tasks, ConnectStep(p)
      PROVE  OutcomeInv'
  <2>1. /\ runs' = runs /\ pc[p] \in {"opening", "shaking"}
        /\ \/ \E x \in {"shaking", "releasing", "reading"} :
                 pc' = [pc EXCEPT ![p] = x] /\ outcome' = outcome
           \/ /\ p \in Calls
              /\ pc' = [pc EXCEPT ![p] = "closing"] /\ outcome' = [outcome EXCEPT ![p] = "unsent"]
           \/ p = Consumer /\ pc' = [pc EXCEPT ![p] = "idle"] /\ outcome' = outcome
    BY <1>1 DEF ConnectStep, OpenOk, OpenFail, ShakeOk, ShakeRefused, ShakeLost, AttemptFailed,
       CloseAndReturn, Write
  <2>2. \A t \in Calls : t # p => pc'[t] = pc[t] /\ outcome'[t] = outcome[t]
    BY <2>1 DEF TypeOK, PcOK, Tasks
  <2>3. p \in Calls => \/ pc'[p] \in {"shaking", "releasing", "reading"} /\ outcome'[p] = outcome[p]
                       \/ pc'[p] = "closing" /\ outcome'[p] = "unsent"
    BY <2>1, CallsAssumption DEF TypeOK, PcOK, Tasks
  <2> QED
    BY <2>1, <2>2, <2>3 DEF OutcomeInv
<1>2. CASE \/ ConsumerConnect \/ AttemptReleased \/ BackoffOver \/ CooldownOver
           \/ CloseBegin \/ CloseEnd \/ UNCHANGED vars
  <2>1. UNCHANGED <<runs, outcome>>
    BY <1>2 DEF ConsumerConnect, AttemptReleased, BackoffOver, CooldownOver, CloseBegin, CloseEnd,
       vars, sessionVars, wireVars
  <2>2. \A t \in Calls : pc'[t] = pc[t]
    BY <1>2, CallsAssumption DEF ConsumerConnect, AttemptReleased, BackoffOver, CooldownOver,
       CloseBegin, CloseEnd, vars, TypeOK, PcOK, Tasks
  <2> QED
    BY <2>1, <2>2 DEF OutcomeInv
<1>3. CASE Gateway
  <2>1. UNCHANGED <<pc, outcome>>
    BY <1>3 DEF Gateway, GatewayAccept, GatewayRefuse, GatewayDrop, GatewayExecute, GatewayReject,
       sessionVars
  <2>2. runs' = runs \/ \E s \in Calls : runs' = [runs EXCEPT ![s] = @ + 1]
    BY <1>3 DEF Gateway, GatewayAccept, GatewayRefuse, GatewayDrop, GatewayExecute, GatewayReject
  <2>3. \A t \in Calls : runs[t] > 0 => runs'[t] > 0
    <3>1. \A s \in Calls : runs[s] \in Nat
      BY DEF TypeOK
    <3>2. ASSUME NEW s \in Calls, runs' = [runs EXCEPT ![s] = @ + 1], NEW t \in Calls, runs[t] > 0
          PROVE  runs'[t] > 0
      <4>1. runs'[t] = runs[t] \/ runs'[t] = runs[t] + 1
        BY <3>2 DEF TypeOK
      <4> QED
        BY <3>1, <3>2, <4>1
    <3> QED
      BY <2>2, <3>2
  <2> QED
    BY <2>1, <2>3 DEF OutcomeInv
<1> QED
  BY <1>1, <1>2, <1>3, CallOutcome DEF Next

-----------------------------------------------------------------------------
(* Every action keeps ContractInv. *)
LEMMA ContractStep ==
  ASSUME TypeOK, SocketInv, TrafficInv, ContractInv, [Next]_vars, TypeOK', TrafficInv'
  PROVE  ContractInv'
<1>1. AnswerInv'
  BY AnswerStep
<1>2. OutcomeInv'
  BY OutcomeStep DEF ContractInv
<1>3. CommandInv' /\ RefusedInv'
  BY CallCommand, ConnectCommand, SessionCommand, GatewayCommand DEF Next
<1> QED
  BY <1>1, <1>2, <1>3 DEF ContractInv

(* The initial states satisfy it. *)
LEMMA ContractInit == Init => ContractInv
<1> SUFFICES ASSUME Init PROVE ContractInv
  OBVIOUS
<1>1. \A s \in Calls : pc[s] = "idle" /\ outcome[s] = "pending" /\ runs[s] = 0
  BY DEF Init, Tasks
<1>2. \A s \in Calls : ~Pending(s)
  BY DEF Init, Pending
<1>3. AnswerInv /\ OutcomeInv
  BY <1>1 DEF AnswerInv, OutcomeInv
<1>4. CommandInv
  BY <1>1, <1>2 DEF CommandInv, Init
<1>5. RefusedInv
  BY <1>1, <1>2, CallsAssumption DEF RefusedInv
<1> QED
  BY <1>3, <1>4, <1>5 DEF ContractInv

(* IInv holds in every state, whatever the number of calls and connections. *)
THEOREM SessionInvariant == Spec => []IInv
<1>1. Init => SocketInv
  BY CallsAssumption DEF Init, SocketInv, LockInv, StreamInv, NoLeakedSocket, Tasks, Holding
<1>2. Init => TrafficInv
  BY DEF Init, TrafficInv, ReaderInv, WireInv, ShakeInv, ExchangeInv, Tasks
<1>3. TypeOK /\ SocketInv /\ [Next]_vars => SocketInv'
  BY SocketStep
<1>4. TypeOK /\ SocketInv /\ TrafficInv /\ [Next]_vars => TrafficInv'
  BY TrafficStep
<1>5. /\ TypeOK /\ SocketInv /\ TrafficInv /\ ContractInv /\ [Next]_vars /\ TypeOK' /\ TrafficInv'
      => ContractInv'
  BY ContractStep
<1>6. TypeOK /\ SocketInv /\ FlagInv /\ [Next]_vars => FlagInv'
  BY FlagStep DEF SocketInv
<1>7. TypeOK /\ SocketInv /\ FlagInv /\ TrafficInv /\ ContractInv => IInv
  BY DEF SocketInv, TrafficInv, ContractInv, IInv
<1> QED
  BY <1>1, <1>2, <1>3, <1>4, <1>5, <1>6, <1>7, TypeCorrect, ContractInit, FlagInit, PTL DEF Spec

(* What send() tells its callers is true, and a command runs at most once. *)
THEOREM AnswersAreTrue == Spec => []AnswersMatch
<1>1. IInv => AnswersMatch
  BY DEF IInv, AnswersMatch, Told, OutcomeInv, CommandInv, Unwritten
<1> QED
  BY <1>1, SessionInvariant, PTL

-----------------------------------------------------------------------------
(* The refinement of CommandRpc. *)

(* Outside the gateway a step changes what at most one call has been told,  *)
(* and that only once.                                                      *)
LEMMA OneCallMoves ==
  ASSUME TypeOK, [Next]_vars, ~Gateway
  PROVE  /\ runs' = runs
         /\ \E p \in Tasks :
               /\ p \in Calls => pc[p] # "done"
               /\ \A t \in Calls : t # p => pc'[t] = pc[t] /\ outcome'[t] = outcome[t]
<1>1. ASSUME NEW s \in Calls, Call(s) \/ SendStep(s) \/ CancelWaiting(s)
      PROVE  /\ runs' = runs /\ pc[s] # "done"
             /\ \A t \in Calls : t # s => pc'[t] = pc[t] /\ outcome'[t] = outcome[t]
  <2>1. /\ runs' = runs /\ pc[s] # "done"
        /\ pc' = pc \/ \E x \in CallStates : pc' = [pc EXCEPT ![s] = x]
        /\ \/ outcome' = outcome
           \/ \E o \in Outcomes \cup {outcome[s]} : outcome' = [outcome EXCEPT ![s] = o]
    BY <1>1 DEF Call, CancelWaiting, SendStep, Acquire, Refuse, ReadMore, ReadAck, ReadNack,
       RetryNack, ConnectionLost, Resend, GiveUp, Abandon, Closed, ShakeRaises, Unavailable,
       Attempt, Write, Return, CloseAndReturn, wireVars, sessionVars, CallStates, Outcomes
  <2> QED
    BY <2>1 DEF TypeOK, PcOK, Tasks
<1>2. ASSUME NEW p \in Tasks, ConnectStep(p)
      PROVE  /\ runs' = runs /\ pc[p] # "done"
             /\ \A t \in Calls : t # p => pc'[t] = pc[t] /\ outcome'[t] = outcome[t]
  <2>1. /\ runs' = runs /\ pc[p] # "done"
        /\ \E x \in CallStates : pc' = [pc EXCEPT ![p] = x]
        /\ outcome' = outcome \/ outcome' = [outcome EXCEPT ![p] = "unsent"]
    BY <1>2 DEF ConnectStep, OpenOk, OpenFail, ShakeOk, ShakeRefused, ShakeLost, AttemptFailed,
       Write, CloseAndReturn, CallStates
  <2> QED
    BY <2>1 DEF TypeOK, PcOK, Tasks
<1>3. CASE \/ ConsumerConnect \/ AttemptReleased \/ BackoffOver \/ CooldownOver
           \/ CloseBegin \/ CloseEnd \/ UNCHANGED vars
  <2>1. UNCHANGED <<runs, outcome>>
    BY <1>3 DEF ConsumerConnect, AttemptReleased, BackoffOver, CooldownOver, CloseBegin, CloseEnd,
       vars, sessionVars, wireVars
  <2>2. \A t \in Calls : pc'[t] = pc[t]
    BY <1>3, CallsAssumption DEF ConsumerConnect, AttemptReleased, BackoffOver, CooldownOver,
       CloseBegin, CloseEnd, vars, TypeOK, PcOK, Tasks
  <2> QED
    BY <2>1, <2>2, CallsAssumption DEF Tasks
<1> QED
  BY <1>1, <1>2, <1>3 DEF Next, Tasks

(* Such a step returns from one send(), or is a stutter. *)
LEMMA ReturnOrStutter ==
  ASSUME TypeOK, TypeOK', ContractInv', [Next]_vars, ~Gateway
  PROVE  [Rpc!Next]_(Rpc!vars)
<1> PICK p \in Tasks :
       /\ p \in Calls => pc[p] # "done"
       /\ \A t \in Calls : t # p => pc'[t] = pc[t] /\ outcome'[t] = outcome[t]
  BY OneCallMoves
<1>1. runs' = runs
  BY OneCallMoves
<1>2. \A t \in Calls : t # p => Told(t)' = Told(t)
  BY DEF Told
<1>3. CASE p \notin Calls \/ pc'[p] # "done"
  <2>1. \A t \in Calls : Told(t)' = Told(t)
    BY <1>2, <1>3 DEF Told
  <2> QED
    BY <1>1, <2>1 DEF Rpc!vars
<1>4. CASE p \in Calls /\ pc'[p] = "done"
  <2> DEFINE o == outcome'[p]
  <2>1. Told(p) = "pending" /\ Told(p)' = o
    BY <1>4 DEF Told
  <2>2. /\ o \in Outcomes \ {"pending"}
        /\ o = "ok" => runs[p] > 0
        /\ o = "refused" => runs[p] = 0
        /\ o \in {"nack", "unsent"} => p \in Queries \/ runs[p] = 0
    BY <1>1, <1>4 DEF TypeOK, ContractInv, OutcomeInv, CommandInv, RefusedInv, Unwritten
  <2>3. [t \in Calls |-> Told(t)'] = [[t \in Calls |-> Told(t)] EXCEPT ![p] = o]
    BY <1>2, <1>4, <2>1
  <2>4. Rpc!Return(p, o)
    BY <1>1, <1>4, <2>1, <2>2, <2>3 DEF Rpc!Return
  <2> QED
    BY <1>4, <2>2, <2>4 DEF Rpc!Next, Rpc!Outcomes, Outcomes
<1> QED
  BY <1>3, <1>4

(* A step of the gateway carries out the frame of a call, or is a stutter. *)
LEMMA ExecuteOrStutter ==
  ASSUME TypeOK, ContractInv, Gateway
  PROVE  [Rpc!Next]_(Rpc!vars)
<1>1. UNCHANGED <<pc, outcome>>
  BY DEF Gateway, GatewayAccept, GatewayRefuse, GatewayDrop, GatewayExecute, GatewayReject,
     sessionVars
<1>2. [t \in Calls |-> Told(t)'] = [t \in Calls |-> Told(t)]
  BY <1>1 DEF Told
<1>3. CASE runs' = runs
  BY <1>2, <1>3 DEF Rpc!vars
<1>4. ASSUME NEW c \in Conns, NEW s \in Calls, NEW n \in 1 .. MaxTries, GatewayExecute(c, s, n)
      PROVE  Rpc!Next
  <2>1. Pending(s) /\ runs' = [runs EXCEPT ![s] = @ + 1]
    BY <1>4 DEF Pending, GatewayExecute
  <2>2. s \notin Refused
    BY <2>1 DEF ContractInv, RefusedInv
  <2>3. Told(s) # "refused"
    BY <2>2 DEF Told, ContractInv, OutcomeInv
  <2>4. s \in Queries \/ (Told(s) \in {"pending", "unknown"} /\ runs[s] = 0)
    <3> SUFFICES ASSUME s \notin Queries
                 PROVE  Told(s) \in {"pending", "unknown"} /\ runs[s] = 0
      OBVIOUS
    <3>1. runs[s] = 0 /\ ~Unwritten(s)
      BY <2>1 DEF ContractInv, CommandInv
    <3>2. outcome[s] \in Outcomes
      BY DEF TypeOK
    <3> QED
      BY <3>1, <3>2 DEF Told, Unwritten, Outcomes, ContractInv, OutcomeInv
  <2>5. Rpc!Execute(s)
    BY <1>2, <2>1, <2>3, <2>4 DEF Rpc!Execute
  <2> QED
    BY <2>5 DEF Rpc!Next
<1> QED
  BY <1>3, <1>4 DEF Gateway, GatewayAccept, GatewayRefuse, GatewayDrop, GatewayReject

(* The command session implements the contract of CommandRpc: initial       *)
(* states map to initial states, every step to a step or a stutter.         *)
THEOREM ContractKept == Spec => ImplementsRpc
<1>1. Init => Rpc!Init
  BY DEF Init, Rpc!Init, Told, Tasks
<1>2. TypeOK /\ TypeOK' /\ ContractInv /\ ContractInv' /\ [Next]_vars => [Rpc!Next]_(Rpc!vars)
  BY ReturnOrStutter, ExecuteOrStutter
<1>3. IInv => TypeOK /\ ContractInv
  BY DEF IInv, ContractInv
<1> QED
  BY <1>1, <1>2, <1>3, SessionInvariant, PTL DEF Spec, ImplementsRpc, Rpc!Spec
=============================================================================

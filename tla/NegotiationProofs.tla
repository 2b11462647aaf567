------------------------- MODULE NegotiationProofs -------------------------
(***************************************************************************)
(* Proofs about OWNSession.connect(), for any number of attempts, any      *)
(* frame budget and a gateway with any number of sessions: what is         *)
(* announced, what is released, which failures are final, and that a       *)
(* session is handed over with nothing of its negotiation left unread.     *)
(***************************************************************************)
EXTENDS Negotiation, SequenceTheorems, TLAPS

(* Sequences of one and two frames. *)
LEMMA ShortSequences ==
  /\ \A a : /\ <<a>> # <<>> /\ Head(<<a>>) = a /\ Tail(<<a>>) = <<>>
            /\ <<>> \o <<a>> = <<a>>
  /\ \A a, b : /\ <<a, b>> # <<>> /\ Head(<<a, b>>) = a /\ Tail(<<a, b>>) = <<b>>
               /\ <<a>> # <<a, b>>
  /\ \A a, b, c, d : <<a, b>> = <<c, d>> <=> a = c /\ b = d
  /\ \A a, b : <<a>> = <<b>> <=> a = b
  /\ \A a, b, c : <<a>> # <<b, c>>
  /\ <<>> \o <<>> = <<>>
OBVIOUS

(* Two frames on the wire, one after the other. *)
LEMMA Pair ==
  ASSUME NEW a, NEW b
  PROVE  <<a>> \o <<b>> = <<a, b>>
<1>1. <<a>> \o <<b>> \in Seq({a, b}) /\ <<a, b>> \in Seq({a, b})
  OBVIOUS
<1>2. Len(<<a>> \o <<b>>) = 2 /\ (<<a>> \o <<b>>)[1] = a /\ (<<a>> \o <<b>>)[2] = b
  OBVIOUS
<1>3. Len(<<a, b>>) = 2 /\ <<a, b>>[1] = a /\ <<a, b>>[2] = b
  OBVIOUS
<1>4. \A i \in 1 .. 2 : (<<a>> \o <<b>>)[i] = <<a, b>>[i]
  BY <1>2, <1>3
<1> QED
  BY <1>1, <1>2, <1>3, <1>4, SeqEqual

-----------------------------------------------------------------------------
(* The three ways in which a frame is dealt with. *)

(* A failed attempt keeps the invariant, when only credentials are fatal   *)
(* and only waiting times out.                                             *)
LEMMA FailureKept ==
  ASSUME IInv, pc \in {"opening"} \cup Reading, NEW r \in Reasons, AttemptFails(r),
         frames' \in 0 .. MaxFrames, slow' \in BOOLEAN,
         r \in FatalErrors /\ ~odd => BadCredentials,
         r = "negotiation_timeout" /\ ~odd /\ MaxFrames >= 5 => slow'
  PROVE  IInv'
<1> USE NegotiationAssumption DEF NegotiationAssumption
<1>1. pc \in Trying /\ ~Fatal
  BY DEF IInv, CountInv, Trying, Fatal, Reading
<1>2. CountInv'
  BY <1>1 DEF IInv, TypeOK, CountInv, AttemptFails, CloseStreams, Fatal, Trying, Reading
<1>3. TypeOK'
  <2>1. stale' \in 0 .. Slots + MaxConnectAttempts
    BY <1>1, <1>2 DEF IInv, TypeOK, CountInv, AttemptFails, CloseStreams, Fatal
  <2>2. authErrors = 0
    BY <1>1 DEF IInv, ReportInv, Fatal, FatalErrors
  <2>3. retries' \in 0 .. MaxConnectAttempts
    <3>1. retries \in 0 .. MaxConnectAttempts /\ retries < MaxConnectAttempts
      BY <1>1 DEF IInv, TypeOK, CountInv
    <3>2. retries' = retries \/ retries' = retries + 1
      BY DEF AttemptFails
    <3> QED
      BY <3>1, <3>2
  <2>4. lastError' \in Reasons \cup {"none"} /\ connected' \in BOOLEAN /\ authErrors' \in 0 .. 1
    <3>1. lastError' \in Reasons \cup {"none"}
      BY DEF IInv, TypeOK, AttemptFails, Announce
    <3>2. connected' \in BOOLEAN
      BY DEF IInv, TypeOK, AttemptFails, Announce
    <3>3. authErrors' \in {0, 1}
      BY <2>2 DEF AttemptFails, Announce
    <3> QED
      BY <3>1, <3>2, <3>3
  <2>5. toGateway' \in Seq(ClientFrames) /\ fromGateway' \in Seq(GatewayFrames \cup {"garbage"})
    BY DEF AttemptFails, CloseStreams
  <2> QED
    BY <2>1, <2>3, <2>4, <2>5 DEF IInv, TypeOK, AttemptFails, CloseStreams, States, config
<1>4. ReleaseInv' /\ FrameInv' /\ CredentialInv' /\ TalkInv'
  BY DEF AttemptFails, CloseStreams, ReleaseInv, FrameInv, CredentialInv, TalkInv, Reading
<1>5. ReportInv'
  BY <1>1 DEF IInv, ReportInv, AttemptFails, Announce, Fatal, FatalErrors, AuthErrors
<1>6. FatalMeansCredentials' /\ (MaxFrames >= 5 => BudgetSuffices)'
  BY DEF AttemptFails, FatalMeansCredentials, BudgetSuffices, BadCredentials, config
<1> QED
  BY <1>2, <1>3, <1>4, <1>5, <1>6 DEF IInv

(* The exchange going on keeps what it does not touch. *)
LEMMA GoingOnKept ==
  ASSUME IInv, pc \in Reading, NEW s \in Reading, NEW out \in Seq(ClientFrames), GoOn(s, out),
         fromGateway # <<>>, frames' \in 0 .. MaxFrames, FrameInv', CredentialInv', TalkInv'
  PROVE  IInv'
<1>1. TypeOK'
  BY DEF IInv, TypeOK, GoOn, States, config
<1>2. CountInv' /\ ReleaseInv' /\ ReportInv'
  BY DEF IInv, CountInv, ReleaseInv, ReportInv, GoOn, Fatal, Trying, Reading
<1>3. FatalMeansCredentials' /\ (MaxFrames >= 5 => BudgetSuffices)'
  BY DEF IInv, GoOn, FatalMeansCredentials, BudgetSuffices, BadCredentials, config, Reading
<1> QED
  BY <1>1, <1>2, <1>3 DEF IInv

(* So does a success. *)
LEMMA SuccessKept ==
  ASSUME IInv, pc \in Reading, NEW out \in Seq(ClientFrames), Succeed(out),
         fromGateway # <<>>, frames' \in 0 .. MaxFrames, TalkInv'
  PROVE  IInv'
<1>1. TypeOK'
  BY DEF IInv, TypeOK, Succeed, States, config
<1>2. ~Fatal /\ authErrors = 0
  BY DEF IInv, CountInv, ReportInv, Fatal, FatalErrors, Reading
<1>3. CountInv' /\ ReleaseInv' /\ ReportInv' /\ FrameInv' /\ CredentialInv'
  BY <1>2 DEF IInv, CountInv, ReleaseInv, ReportInv, FrameInv, CredentialInv, Succeed, Fatal, Trying, Reading, FatalErrors
<1>4. FatalMeansCredentials' /\ (MaxFrames >= 5 => BudgetSuffices)'
  BY DEF IInv, Succeed, FatalMeansCredentials, BudgetSuffices, BadCredentials, config
<1> QED
  BY <1>1, <1>3, <1>4 DEF IInv

(* And a step of the gateway, which touches the wires only. *)
LEMMA GatewayKept ==
  ASSUME IInv, UNCHANGED client,
         toGateway' \in Seq(ClientFrames), fromGateway' \in Seq(GatewayFrames \cup {"garbage"}),
         gateway' \in {"idle", "greeted", "busy", "password", "accept", "hmac",
                       "confirm", "open", "closed"},
         gateway # "none", UNCHANGED stale, odd' \in BOOLEAN, odd => odd', TalkInv'
  PROVE  IInv'
<1>1. TypeOK' /\ CountInv' /\ ReleaseInv'
  BY DEF IInv, TypeOK, CountInv, ReleaseInv, client, config, Fatal
<1>2. FrameInv' /\ ReportInv' /\ CredentialInv'
  BY DEF IInv, FrameInv, ReportInv, CredentialInv, client, config, Fatal
<1>3. FatalMeansCredentials' /\ (MaxFrames >= 5 => BudgetSuffices)'
  BY DEF IInv, FatalMeansCredentials, BudgetSuffices, BadCredentials, client, config
<1> QED
  BY <1>1, <1>2, <1>3 DEF IInv

-----------------------------------------------------------------------------
(* The steps of connect(). *)

(* A frame is read within the budget. *)
LEMMA FrameRead ==
  ASSUME IInv, NEW s, NEW F, Reads(s, F)
  PROVE  /\ pc = s /\ fromGateway # <<>> /\ Head(fromGateway) \in F
         /\ frames' = frames + 1 /\ frames' \in 0 .. MaxFrames
BY NegotiationAssumption DEF IInv, TypeOK, Reads, BudgetSpent, NegotiationAssumption

(* What may be read first, with a gateway that keeps to its protocol. *)
LEMMA FirstFrame ==
  ASSUME IInv, ~odd, fromGateway # <<>>, pc \in Reading, NEW f, f = Head(fromGateway)
  PROVE  /\ pc \in {"first", "alternate"} => f \in {"ack", "nack"}
         /\ pc = "second" => \/ f = "nack"
                             \/ auth = "open" /\ f = "ack"
                             \/ auth = "legacy" /\ f = "nonce"
                             \/ auth = "sha" /\ f = "sha"
         /\ pc = "nonce" => f = "nonce"
         /\ pc = "digest" => IF Proof = "right" THEN f = "digest" ELSE f = "nack"
         /\ pc = "reply" => IF Proof = "right" THEN f = "ack" ELSE f = "nack"
<1>1. IF gateway = "closed" THEN Left ELSE Talking
  BY DEF IInv, TalkInv
<1>2. Proof \in {"right", "wrong"}
  BY DEF Proof
<1>3. ASSUME pc \in {"first", "alternate"} PROVE f \in {"ack", "nack"}
  BY <1>1, <1>3, ShortSequences DEF Left, Talking, Greeting, At
<1>4. ASSUME pc = "second"
      PROVE  \/ f = "nack"
             \/ auth = "open" /\ f = "ack"
             \/ auth = "legacy" /\ f = "nonce"
             \/ auth = "sha" /\ f = "sha"
  BY <1>1, <1>4, ShortSequences DEF Left, Talking, Challenged, At
<1>5. ASSUME pc = "nonce" PROVE f = "nonce"
  BY <1>1, <1>5, ShortSequences DEF Left, Talking, At
<1>6. ASSUME pc = "digest" PROVE IF Proof = "right" THEN f = "digest" ELSE f = "nack"
  BY <1>1, <1>2, <1>6, ShortSequences DEF Left, Talking, At
<1>7. ASSUME pc = "reply" PROVE IF Proof = "right" THEN f = "ack" ELSE f = "nack"
  BY <1>1, <1>2, <1>7, ShortSequences DEF Left, Talking, At
<1> QED
  BY <1>3, <1>4, <1>5, <1>6, <1>7

(* Attempts that fail, each for its reason. *)
LEMMA FailuresKept ==
  ASSUME IInv,
         \/ OpenFails \/ SessionRefused \/ NegotiationRefused \/ NegotiationFailed
         \/ PasswordMissing \/ PasswordNotDecimal \/ PasswordRejected
         \/ AuthenticationBroken \/ NegotiationTimeout \/ ConnectionLost
  PROVE  IInv'
<1> USE DEF Reasons, FatalErrors, AuthErrors, Reading
<1>1. TypeOK /\ slow \in BOOLEAN /\ frames \in 0 .. MaxFrames /\ password \in Passwords
  BY DEF IInv, TypeOK
<1>2. CASE OpenFails \/ ConnectionLost
  BY <1>1, <1>2, FailureKept DEF OpenFails, ConnectionLost
<1>3. CASE SessionRefused
  BY <1>1, <1>3, FailureKept, FrameRead DEF SessionRefused
<1>4. CASE NegotiationRefused \/ NegotiationFailed
  BY <1>1, <1>4, FailureKept, FrameRead DEF NegotiationRefused, NegotiationFailed
<1>5. CASE PasswordMissing
  <2>1. pc = "second" /\ fromGateway # <<>> /\ Head(fromGateway) \in {"sha"} \cup NonceFrames
        /\ frames' \in 0 .. MaxFrames
    BY <1>5, FrameRead DEF PasswordMissing
  <2>2. ~odd => BadCredentials
    BY <1>5, <2>1, FirstFrame DEF PasswordMissing, BadCredentials, NonceFrames
  <2> QED
    BY <1>1, <1>5, <2>1, <2>2, FailureKept DEF PasswordMissing
<1>6. CASE PasswordNotDecimal
  <2>1. pc = "second" /\ fromGateway # <<>> /\ Head(fromGateway) \in NonceFrames
        /\ frames' \in 0 .. MaxFrames
    BY <1>6, FrameRead DEF PasswordNotDecimal
  <2>2. ~odd => BadCredentials
    BY <1>6, <2>1, FirstFrame DEF PasswordNotDecimal, BadCredentials, NonceFrames
  <2> QED
    BY <1>1, <1>6, <2>1, <2>2, FailureKept DEF PasswordNotDecimal
<1>7. CASE PasswordRejected
  <2>1. pc \in {"digest", "reply"} /\ fromGateway # <<>> /\ Head(fromGateway) = "nack"
        /\ frames' \in 0 .. MaxFrames
    BY <1>7, FrameRead DEF PasswordRejected
  <2>2. ~odd => Proof # "right" /\ auth # "open"
    BY <2>1, FirstFrame DEF IInv, CredentialInv
  <2>3. ~odd => BadCredentials
    BY <1>1, <2>1, <2>2 DEF IInv, CredentialInv, BadCredentials, Proof, Passwords
  <2> QED
    BY <1>1, <1>7, <2>1, <2>3, FailureKept DEF PasswordRejected
<1>8. CASE AuthenticationBroken
  <2>1. /\ pc \in {"nonce", "digest", "reply"} /\ fromGateway # <<>>
        /\ frames' \in 0 .. MaxFrames
    BY <1>8, FrameRead DEF AuthenticationBroken
  <2>2. odd
    BY <1>8, <2>1, FrameRead, FirstFrame DEF AuthenticationBroken, NonceFrames, Proof
  <2> QED
    BY <1>1, <1>8, <2>1, <2>2, FailureKept DEF AuthenticationBroken
<1>9. CASE NegotiationTimeout
  <2>1. MaxFrames >= 5 => slow'
    <3>1. frames \in 0 .. 4
      BY <1>9 DEF NegotiationTimeout, IInv, FrameInv
    <3>2. MaxFrames >= 5 => ~BudgetSpent
      BY <3>1, NegotiationAssumption DEF BudgetSpent, NegotiationAssumption
    <3> QED
      BY <1>9, <3>2 DEF NegotiationTimeout
  <2>2. slow' \in BOOLEAN
    BY <1>9 DEF NegotiationTimeout
  <2> QED
    BY <1>1, <1>9, <2>1, <2>2, FailureKept DEF NegotiationTimeout
<1> QED
  BY <1>2, <1>3, <1>4, <1>5, <1>6, <1>7, <1>8, <1>9

(* The exchange going on, frame by frame: the two ends stay in step. *)
LEMMA ExchangeKept ==
  ASSUME IInv, TryAlternate \/ SessionAccepted \/ AcceptChallenge \/ SendHmac \/ SendPassword
  PROVE  IInv'
<1>1. TypeOK /\ frames \in Nat /\ password \in Passwords
  BY DEF IInv, TypeOK
<1>2. \A s : s \in ClientFrames => <<s>> \in Seq(ClientFrames)
  OBVIOUS
<1>3. <<>> \in Seq(ClientFrames)
  OBVIOUS
<1>4. Proof \in {"right", "wrong"} /\ Proof \in ClientFrames
  BY DEF Proof, ClientFrames
<1>5. ~odd /\ pc \in Reading => IF gateway = "closed" THEN Left ELSE Talking
  BY DEF IInv, TalkInv
<1>Tails. /\ Tail(<<"ack">>) = <<>> /\ Tail(<<"ack", "nack">>) = <<"nack">>
       /\ Tail(<<"ack", "ack">>) = <<"ack">> /\ Tail(<<"ack", "nonce">>) = <<"nonce">>
       /\ Tail(<<"ack", "sha">>) = <<"sha">>
  BY ShortSequences
<1>6. CASE TryAlternate
  <2>1. /\ pc = "first" /\ fromGateway # <<>> /\ Head(fromGateway) = "nack"
        /\ frames' = frames + 1 /\ frames' \in 0 .. MaxFrames
    BY <1>6, FrameRead DEF TryAlternate
  <2>2. FrameInv' /\ CredentialInv'
    BY <1>1, <1>6, <2>1 DEF TryAlternate, GoOn, IInv, FrameInv, CredentialInv, config, Reading
  <2>3. ASSUME ~odd PROVE IF gateway' = "closed" THEN Left' ELSE Talking'
    <3>1. fromGateway = <<"nack">>
      BY <1>5, <2>1, <2>3, ShortSequences DEF Left, Talking, Greeting, At, Reading
    <3>2. gateway # "closed" => gateway \in {"idle", "busy"} /\ toGateway = <<>>
      BY <1>5, <2>1, <2>3, <3>1, ShortSequences DEF Talking, Greeting, At, Reading
    <3>3. pc' = "alternate" /\ gateway' = gateway /\ fromGateway' = <<>>
          /\ (toGateway = <<>> => toGateway' = <<"open9">>)
      BY <1>6, <3>1, ShortSequences DEF TryAlternate, GoOn
    <3> QED
      BY <3>2, <3>3 DEF Left, Talking, Greeting, At
  <2>4. TalkInv'
    BY <1>6, <2>3 DEF TalkInv, TryAlternate, GoOn
  <2> QED
    BY <1>2, <1>6, <2>1, <2>2, <2>4, GoingOnKept DEF TryAlternate, ClientFrames, Reading
<1>7. CASE SessionAccepted
  <2>1. /\ pc \in {"first", "alternate"} /\ fromGateway # <<>> /\ Head(fromGateway) # "nack"
        /\ frames' = frames + 1 /\ frames' \in 0 .. MaxFrames
    BY <1>7, FrameRead DEF SessionAccepted
  <2>2. FrameInv' /\ CredentialInv'
    BY <1>1, <1>7, <2>1 DEF SessionAccepted, GoOn, IInv, FrameInv, CredentialInv, config, Reading
  <2>3. ASSUME ~odd PROVE IF gateway' = "closed" THEN Left' ELSE Talking'
    <3>1. pc' = "second" /\ gateway' = gateway /\ auth' = auth
          /\ fromGateway' = Tail(fromGateway) /\ (toGateway = <<>> => toGateway' = <<>>)
      BY <1>7, ShortSequences DEF SessionAccepted, GoOn, config
    <3>2. CASE gateway = "closed"
      <4>1. \/ fromGateway' = <<>> \/ fromGateway' = <<"nack">>
            \/ auth = "open" /\ fromGateway' = <<"ack">>
            \/ auth = "legacy" /\ fromGateway' = <<"nonce">>
            \/ auth = "sha" /\ fromGateway' = <<"sha">>
        <5>1. \/ fromGateway \in {<<"ack">>, <<"ack", "nack">>}
              \/ auth = "open" /\ fromGateway = <<"ack", "ack">>
              \/ auth = "legacy" /\ fromGateway = <<"ack", "nonce">>
              \/ auth = "sha" /\ fromGateway = <<"ack", "sha">>
          BY <1>5, <2>1, <2>3, <3>2, ShortSequences DEF Left, Reading
        <5> QED
          BY <3>1, <5>1, <1>Tails
      <4> QED
        BY <3>1, <3>2, <4>1 DEF Left
    <3>3. CASE gateway # "closed"
      <4>1. Greeting("open") \/ Greeting("open9")
        BY <1>5, <2>1, <2>3, <3>3, ShortSequences DEF Talking, Reading, At
      <4>2. \/ At("greeted", <<>>, <<"ack">>) \/ At("busy", <<>>, <<"ack", "nack">>)
            \/ auth = "open" /\ At("open", <<>>, <<"ack", "ack">>)
            \/ auth = "legacy" /\ At("password", <<>>, <<"ack", "nonce">>)
            \/ auth = "sha" /\ At("accept", <<>>, <<"ack", "sha">>)
        BY <2>1, <4>1, ShortSequences DEF Greeting, At
      <4>3. Challenged'
        BY <3>1, <4>2, <1>Tails DEF Challenged, At
      <4> QED
        BY <3>1, <3>3, <4>3 DEF Talking
    <3> QED
      BY <3>2, <3>3
  <2>4. TalkInv'
    BY <1>7, <2>3 DEF TalkInv, SessionAccepted, GoOn
  <2> QED
    BY <1>3, <1>7, <2>1, <2>2, <2>4, GoingOnKept DEF SessionAccepted, Reading
<1>8. CASE AcceptChallenge
  <2>1. /\ pc = "second" /\ fromGateway # <<>> /\ Head(fromGateway) = "sha"
        /\ frames' = frames + 1 /\ frames' \in 0 .. MaxFrames
    BY <1>8, FrameRead DEF AcceptChallenge
  <2>2. odd \/ auth = "sha"
    BY <2>1, FirstFrame DEF Reading
  <2>3. FrameInv' /\ CredentialInv'
    BY <1>1, <1>8, <2>1, <2>2 DEF AcceptChallenge, GoOn, IInv, FrameInv, CredentialInv, config, Reading
  <2>4. ASSUME ~odd PROVE IF gateway' = "closed" THEN Left' ELSE Talking'
    <3>1. fromGateway = <<"sha">>
      BY <1>5, <2>1, <2>4, ShortSequences DEF Left, Talking, Challenged, At, Reading
    <3>2. gateway # "closed" => gateway = "accept" /\ toGateway = <<>>
      BY <1>5, <2>1, <2>4, <3>1, ShortSequences DEF Talking, Challenged, At, Reading
    <3>3. pc' = "nonce" /\ gateway' = gateway /\ fromGateway' = <<>>
          /\ (toGateway = <<>> => toGateway' = <<"ack">>)
      BY <1>8, <3>1, ShortSequences DEF AcceptChallenge, GoOn
    <3> QED
      BY <3>2, <3>3 DEF Left, Talking, At
  <2>5. TalkInv'
    BY <1>8, <2>4 DEF TalkInv, AcceptChallenge, GoOn
  <2> QED
    BY <1>2, <1>8, <2>1, <2>3, <2>5, GoingOnKept DEF AcceptChallenge, ClientFrames, Reading
<1>9. CASE SendHmac
  <2>1. /\ pc = "nonce" /\ fromGateway # <<>>
        /\ frames' = frames + 1 /\ frames' \in 0 .. MaxFrames
    BY <1>9, FrameRead DEF SendHmac
  <2>2. FrameInv' /\ CredentialInv'
    BY <1>1, <1>9, <2>1 DEF SendHmac, GoOn, IInv, FrameInv, CredentialInv, config, Reading
  <2>3. ASSUME ~odd PROVE IF gateway' = "closed" THEN Left' ELSE Talking'
    <3>1. fromGateway = <<"nonce">>
      BY <1>5, <2>1, <2>3, ShortSequences DEF Left, Talking, At, Reading
    <3>2. gateway # "closed" => gateway = "hmac" /\ toGateway = <<>>
      BY <1>5, <2>1, <2>3, <3>1, ShortSequences DEF Talking, At, Reading
    <3>3. pc' = "digest" /\ gateway' = gateway /\ fromGateway' = <<>> /\ Proof' = Proof
          /\ (toGateway = <<>> => toGateway' = <<Proof>>)
      BY <1>9, <3>1, ShortSequences DEF SendHmac, GoOn, config, Proof
    <3> QED
      BY <3>2, <3>3 DEF Left, Talking, At
  <2>4. TalkInv'
    BY <1>9, <2>3 DEF TalkInv, SendHmac, GoOn
  <2> QED
    BY <1>2, <1>4, <1>9, <2>1, <2>2, <2>4, GoingOnKept DEF SendHmac, Reading
<1>10. CASE SendPassword
  <2>1. /\ pc = "second" /\ fromGateway # <<>> /\ Head(fromGateway) \in NonceFrames
        /\ frames' = frames + 1 /\ frames' \in 0 .. MaxFrames
    BY <1>10, FrameRead DEF SendPassword
  <2>2. odd \/ auth = "legacy"
    BY <2>1, FirstFrame DEF Reading, NonceFrames
  <2>3. FrameInv' /\ CredentialInv'
    BY <1>1, <1>10, <2>1, <2>2 DEF SendPassword, GoOn, IInv, FrameInv, CredentialInv, config, Reading
  <2>4. ASSUME ~odd PROVE IF gateway' = "closed" THEN Left' ELSE Talking'
    <3>1. fromGateway = <<"nonce">>
      BY <1>5, <2>1, <2>4, ShortSequences DEF Left, Talking, Challenged, At, Reading, NonceFrames
    <3>2. gateway # "closed" => gateway = "password" /\ toGateway = <<>>
      BY <1>5, <2>1, <2>4, <3>1, ShortSequences DEF Talking, Challenged, At, Reading
    <3>3. pc' = "reply" /\ gateway' = gateway /\ fromGateway' = <<>> /\ Proof' = Proof
          /\ (toGateway = <<>> => toGateway' = <<Proof>>)
      BY <1>10, <3>1, ShortSequences, ZenonT(40) DEF SendPassword, GoOn, config, Proof
    <3> QED
      BY <3>2, <3>3 DEF Left, Talking, At
  <2>5. TalkInv'
    BY <1>10, <2>4 DEF TalkInv, SendPassword, GoOn
  <2> QED
    BY <1>2, <1>4, <1>10, <2>1, <2>3, <2>5, GoingOnKept DEF SendPassword, Reading
<1> QED
  BY <1>6, <1>7, <1>8, <1>9, <1>10

(* A success: nothing of the negotiation is left. *)
LEMMA SuccessesKept ==
  ASSUME IInv, OpenedWithoutPassword \/ GatewayConfirmed \/ PasswordAccepted
  PROVE  IInv'
<1>1. <<>> \in Seq(ClientFrames) /\ <<"ack">> \in Seq(ClientFrames)
  BY DEF ClientFrames
<1>2. ~odd /\ pc \in Reading => IF gateway = "closed" THEN Left ELSE Talking
  BY DEF IInv, TalkInv
<1>3. CASE OpenedWithoutPassword
  <2>1. pc = "second" /\ fromGateway # <<>> /\ Head(fromGateway) = "ack" /\ frames' \in 0 .. MaxFrames
    BY <1>3, FrameRead DEF OpenedWithoutPassword
  <2>2. ASSUME ~odd PROVE IF gateway' = "closed" THEN Left' ELSE Talking'
    <3>1. fromGateway = <<"ack">>
      BY <1>2, <2>1, <2>2, ShortSequences DEF Left, Talking, Challenged, At, Reading
    <3>2. gateway # "closed" => gateway = "open" /\ toGateway = <<>>
      BY <1>2, <2>1, <2>2, <3>1, ShortSequences DEF Talking, Challenged, At, Reading
    <3>3. pc' = "success" /\ gateway' = gateway /\ fromGateway' = <<>>
          /\ (toGateway = <<>> => toGateway' = <<>>)
      BY <1>3, <3>1, ShortSequences DEF OpenedWithoutPassword, Succeed
    <3> QED
      BY <3>2, <3>3 DEF Left, Talking, At
  <2>3. TalkInv'
    BY <1>3, <2>2 DEF TalkInv, OpenedWithoutPassword, Succeed
  <2> QED
    BY <1>1, <1>3, <2>1, <2>3, SuccessKept DEF OpenedWithoutPassword, Reading
<1>4. CASE GatewayConfirmed
  <2>1. pc = "digest" /\ fromGateway # <<>> /\ Head(fromGateway) = "digest" /\ frames' \in 0 .. MaxFrames
    BY <1>4, FrameRead DEF GatewayConfirmed
  <2>2. ASSUME ~odd PROVE IF gateway' = "closed" THEN Left' ELSE Talking'
    <3>1. fromGateway = <<"digest">>
      BY <1>2, <1>4, <2>1, <2>2, ShortSequences DEF GatewayConfirmed, Left, Talking, At, Reading
    <3>2. gateway # "closed" => gateway = "confirm" /\ toGateway = <<>>
      BY <1>2, <2>1, <2>2, <3>1, ShortSequences DEF Talking, At, Reading
    <3>3. pc' = "success" /\ gateway' = gateway /\ fromGateway' = <<>>
          /\ (toGateway = <<>> => toGateway' = <<"ack">>)
      BY <1>4, <3>1, ShortSequences DEF GatewayConfirmed, Succeed
    <3> QED
      BY <3>2, <3>3 DEF Left, Talking, At
  <2>3. TalkInv'
    BY <1>4, <2>2 DEF TalkInv, GatewayConfirmed, Succeed
  <2> QED
    BY <1>1, <1>4, <2>1, <2>3, SuccessKept DEF GatewayConfirmed, Reading
<1>5. CASE PasswordAccepted
  <2>1. pc = "reply" /\ fromGateway # <<>> /\ Head(fromGateway) = "ack" /\ frames' \in 0 .. MaxFrames
    BY <1>5, FrameRead DEF PasswordAccepted
  <2>2. ASSUME ~odd PROVE IF gateway' = "closed" THEN Left' ELSE Talking'
    <3>1. fromGateway = <<"ack">>
      BY <1>2, <2>1, <2>2, ShortSequences DEF Left, Talking, At, Reading
    <3>2. gateway # "closed" => gateway = "open" /\ toGateway = <<>>
      BY <1>2, <2>1, <2>2, <3>1, ShortSequences DEF Talking, At, Reading
    <3>3. pc' = "success" /\ gateway' = gateway /\ fromGateway' = <<>>
          /\ (toGateway = <<>> => toGateway' = <<>>)
      BY <1>5, <3>1, ShortSequences DEF PasswordAccepted, Succeed
    <3> QED
      BY <3>2, <3>3 DEF Left, Talking, At
  <2>3. TalkInv'
    BY <1>5, <2>2 DEF TalkInv, PasswordAccepted, Succeed
  <2> QED
    BY <1>1, <1>5, <2>1, <2>3, SuccessKept DEF PasswordAccepted, Reading
<1> QED
  BY <1>3, <1>4, <1>5

(* The other steps of connect(): a connection is opened, or nothing is      *)
(* connected any more.                                                      *)
LEMMA LoopKept ==
  ASSUME IInv, OpenConnection \/ ConnectRaises \/ Released \/ BackoffOver
  PROVE  IInv'
<1> USE NegotiationAssumption DEF NegotiationAssumption
<1>1. CASE OpenConnection
  <2>1. pc = "opening" /\ frames' = 0 /\ slow' = FALSE
    BY <1>1 DEF OpenConnection
  <2>2. CASE password = "non_ascii"
    <3>1. AttemptFails("password_error")
      BY <1>1, <2>2 DEF OpenConnection
    <3>3. frames' \in 0 .. MaxFrames
      BY <2>1
    <3>4. slow' \in BOOLEAN
      BY <2>1
    <3>2. "password_error" \in Reasons /\ BadCredentials
      BY <2>2 DEF Reasons, FatalErrors, AuthErrors, BadCredentials
    <3> QED
      BY <2>1, <3>1, <3>2, <3>3, <3>4, FailureKept
  <2>3. CASE password # "non_ascii"
    <3>1. /\ pc' = "first" /\ gateway' \in {"idle", "busy"} /\ toGateway' = <<"open">>
          /\ fromGateway' = <<>> /\ odd' = odd
          /\ UNCHANGED <<config, retries, reason, was, connected, lastError, authErrors, stale>>
      BY <1>1, <2>1, <2>3 DEF OpenConnection, IInv, ReleaseInv
    <3>2. TypeOK'
      <4>1. toGateway' \in Seq(ClientFrames) /\ fromGateway' \in Seq(GatewayFrames \cup {"garbage"})
        <5>1. "open" \in ClientFrames
          BY DEF ClientFrames
        <5> QED
          BY <3>1, <5>1
      <4>2. /\ type' \in {"command", "event"} /\ password' \in Passwords
            /\ auth' \in {"open", "legacy", "sha"} /\ alternate' \in BOOLEAN /\ was' \in BOOLEAN
            /\ connected' \in BOOLEAN /\ odd' \in BOOLEAN /\ slow' \in BOOLEAN
        BY <2>1, <3>1 DEF IInv, TypeOK, config
      <4>3. /\ pc' \in States /\ retries' \in 0 .. MaxConnectAttempts /\ frames' \in 0 .. MaxFrames
            /\ reason' \in Reasons \cup {"none"} /\ lastError' \in Reasons \cup {"none"}
            /\ authErrors' \in 0 .. 1 /\ stale' \in 0 .. Slots + MaxConnectAttempts
        BY <2>1, <3>1 DEF IInv, TypeOK, States, Reading
      <4> QED
        BY <3>1, <4>1, <4>2, <4>3 DEF TypeOK
    <3>3. CountInv' /\ FrameInv' /\ ReleaseInv' /\ ReportInv' /\ CredentialInv'
      BY <2>1, <2>3, <3>1
         DEF IInv, CountInv, FrameInv, ReleaseInv, ReportInv, CredentialInv, Fatal, Trying, Reading, config
    <3>4. TalkInv'
      BY <3>1 DEF TalkInv, Talking, Greeting, At
    <3>5. FatalMeansCredentials' /\ (MaxFrames >= 5 => BudgetSuffices)'
      BY <2>1, <3>1 DEF IInv, FatalMeansCredentials, BudgetSuffices, BadCredentials, config
    <3> QED
      BY <3>2, <3>3, <3>4, <3>5 DEF IInv
  <2> QED
    BY <2>2, <2>3
<1>2. CASE ConnectRaises
  <2>1. pc \in Reading /\ fromGateway # <<>> /\ frames' \in 0 .. MaxFrames /\ pc' = "raised"
    BY <1>2, FrameRead DEF ConnectRaises
  <2>2. TypeOK'
    BY <1>2, <2>1 DEF ConnectRaises, IInv, TypeOK, States, config
  <2>3. CountInv' /\ FrameInv' /\ ReleaseInv' /\ ReportInv' /\ CredentialInv' /\ TalkInv'
    BY <1>2, <2>1
       DEF ConnectRaises, IInv, CountInv, FrameInv, ReleaseInv, ReportInv, CredentialInv, TalkInv,
           Fatal, Trying, Reading
  <2>4. FatalMeansCredentials' /\ (MaxFrames >= 5 => BudgetSuffices)'
    BY <1>2, <2>1 DEF ConnectRaises, IInv, FatalMeansCredentials, BudgetSuffices, BadCredentials, config
  <2> QED
    BY <2>2, <2>3, <2>4 DEF IInv
<1>3. CASE Released
  <2>1. pc = "releasing" /\ retries \in 0 .. MaxConnectAttempts
    BY <1>3 DEF Released, IInv, TypeOK
  <2>2. /\ pc' = IF Fatal THEN "fatal" ELSE IF retries >= MaxConnectAttempts THEN "gave_up" ELSE "backoff"
        /\ IF GivesUp THEN connected' = FALSE /\ lastError' = reason
                      ELSE connected' = connected /\ lastError' = lastError
        /\ UNCHANGED <<config, retries, frames, reason, was, authErrors, wire, slow>>
    BY <1>3 DEF Released, Fatal, GivesUp
  <2>3. TypeOK'
    <3>1. pc' \in States
      BY <2>2 DEF States
    <3>2. connected' \in BOOLEAN /\ lastError' \in Reasons \cup {"none"}
      BY <2>2 DEF IInv, TypeOK
    <3> QED
      BY <2>2, <3>1, <3>2 DEF IInv, TypeOK, config, wire
  <2>4. CountInv' /\ FrameInv' /\ ReleaseInv' /\ CredentialInv' /\ TalkInv'
    BY <2>1, <2>2 DEF IInv, CountInv, FrameInv, ReleaseInv, CredentialInv, TalkInv, Trying, Reading, Fatal, wire
  <2>5. ReportInv'
    BY <2>1, <2>2 DEF IInv, ReportInv, Fatal, GivesUp
  <2>6. FatalMeansCredentials' /\ (MaxFrames >= 5 => BudgetSuffices)'
    BY <2>1, <2>2 DEF IInv, FatalMeansCredentials, BudgetSuffices, BadCredentials, config, wire
  <2> QED
    BY <2>3, <2>4, <2>5, <2>6 DEF IInv
<1>4. CASE BackoffOver
  <2>1. pc = "backoff" /\ pc' = "opening"
        /\ UNCHANGED <<config, retries, frames, reason, was, connected, lastError, authErrors, wire, slow>>
    BY <1>4 DEF BackoffOver
  <2>2. TypeOK'
    BY <2>1 DEF IInv, TypeOK, States, config, wire
  <2>3. CountInv' /\ FrameInv' /\ ReleaseInv' /\ ReportInv' /\ CredentialInv' /\ TalkInv'
    BY <2>1 DEF IInv, CountInv, FrameInv, ReleaseInv, ReportInv, CredentialInv, TalkInv, Fatal,
                Trying, Reading, wire
  <2>4. FatalMeansCredentials' /\ (MaxFrames >= 5 => BudgetSuffices)'
    BY <2>1 DEF IInv, FatalMeansCredentials, BudgetSuffices, BadCredentials, config, wire
  <2> QED
    BY <2>2, <2>3, <2>4 DEF IInv
<1> QED
  BY <1>1, <1>2, <1>3, <1>4

-----------------------------------------------------------------------------
(* The steps of the gateway. *)

(* Where the gateway is when it answers a frame, and what it answers.       *)
LEMMA AnswersKept ==
  ASSUME IInv, toGateway # <<>>,
         \/ GatewayOpens \/ GatewayIsBusy \/ GatewayJudgesPassword
         \/ GatewayStartsHmac \/ GatewayJudgesHmac \/ GatewayConfirms
  PROVE  IInv'
<1>1. /\ toGateway \in Seq(ClientFrames) /\ Tail(toGateway) \in Seq(ClientFrames)
      /\ fromGateway \in Seq(GatewayFrames \cup {"garbage"}) /\ odd \in BOOLEAN
  BY DEF IInv, TypeOK
<1>2. \A out \in {<<"ack">>, <<"nack">>, <<"ack", "nack">>, <<"nonce">>, <<"digest">>, <<>>} :
        fromGateway \o out \in Seq(GatewayFrames \cup {"garbage"})
  <2>1. \A out \in Seq(GatewayFrames \cup {"garbage"}) :
          fromGateway \o out \in Seq(GatewayFrames \cup {"garbage"})
    BY <1>1
  <2>2. \A a, b \in GatewayFrames : /\ <<a>> \in Seq(GatewayFrames \cup {"garbage"})
                                    /\ <<a, b>> \in Seq(GatewayFrames \cup {"garbage"})
    OBVIOUS
  <2>3. /\ "ack" \in GatewayFrames /\ "nack" \in GatewayFrames
        /\ "nonce" \in GatewayFrames /\ "digest" \in GatewayFrames
    BY DEF GatewayFrames
  <2>4. <<>> \in Seq(GatewayFrames \cup {"garbage"})
    OBVIOUS
  <2> QED
    BY <2>1, <2>2, <2>3, <2>4
<1>3. \E st, g, out : Answer(st, g, out)
        /\ st \in {"idle", "busy", "password", "accept", "hmac", "confirm"}
        /\ g \in {"idle", "greeted", "busy", "open", "closed", "hmac", "confirm"}
        /\ out \in {<<"ack">>, <<"nack">>, <<"ack", "nack">>, <<"nonce">>, <<"digest">>, <<>>}
  BY DEF GatewayOpens, GatewayIsBusy, GatewayJudgesPassword, GatewayStartsHmac,
         GatewayJudgesHmac, GatewayConfirms
<1>4. UNCHANGED client /\ UNCHANGED stale /\ odd' = odd /\ gateway # "none" /\ gateway # "closed"
      /\ toGateway' \in Seq(ClientFrames) /\ fromGateway' \in Seq(GatewayFrames \cup {"garbage"})
      /\ gateway' \in {"idle", "greeted", "busy", "password", "accept", "hmac",
                       "confirm", "open", "closed"}
  BY <1>1, <1>2, <1>3 DEF Answer
<1>5. ASSUME ~odd, pc \in Reading \cup {"success"}
      PROVE  IF gateway' = "closed" THEN Left' ELSE Talking'
  <2> USE DEF Answer
  <2>1. Talking /\ pc' = pc /\ auth' = auth /\ Proof' = Proof
    BY <1>4, <1>5 DEF IInv, TalkInv, client, config, Proof
  <2>2. CASE GatewayOpens
    <3>1. \/ pc = "first" /\ At("idle", <<"open">>, <<>>)
          \/ pc = "alternate" /\ At("idle", <<"open9">>, <<>>)
      BY <1>5, <2>1, <2>2 DEF GatewayOpens, Talking, Greeting, Challenged, At, Reading
    <3>2. \/ At("idle", <<>>, <<"nack">>)' /\ pc = "first"
          \/ At("greeted", <<>>, <<"ack">>)'
      BY <2>2, <3>1, ShortSequences DEF GatewayOpens, WantsAlternate, At
    <3> QED
      BY <2>1, <3>1, <3>2 DEF Talking, Greeting, At
  <2>3. CASE GatewayIsBusy
    <3>1. \/ pc = "first" /\ At("busy", <<"open">>, <<>>)
          \/ pc = "alternate" /\ At("busy", <<"open9">>, <<>>)
      BY <1>5, <2>1, <2>3 DEF GatewayIsBusy, Talking, Greeting, Challenged, At, Reading
    <3>2. At("busy", <<>>, <<"nack">>)' \/ At("busy", <<>>, <<"ack", "nack">>)'
      <4>1. /\ toGateway \in {<<"open">>, <<"open9">>} /\ fromGateway = <<>> /\ gateway' = "busy"
            /\ toGateway' = Tail(toGateway)
            /\ \/ fromGateway' = fromGateway \o <<"nack">> \/ fromGateway' = fromGateway \o <<"ack", "nack">>
        BY <2>3, <3>1 DEF GatewayIsBusy, At
      <4>2. <<>> \o <<"nack">> = <<"nack">> /\ <<>> \o <<"ack", "nack">> = <<"ack", "nack">>
        BY ConcatEmptySeq DEF GatewayFrames
      <4>3. toGateway' = <<>>
        BY <4>1, ShortSequences
      <4> QED
        BY <4>1, <4>2, <4>3 DEF At
    <3> QED
      BY <2>1, <3>1, <3>2 DEF Talking, Greeting, At
  <2>4. CASE GatewayJudgesPassword
    <3>1. pc = "reply" /\ At("password", <<Proof>>, <<>>)
      BY <1>5, <2>1, <2>4 DEF GatewayJudgesPassword, Talking, Greeting, Challenged, At, Reading
    <3>2. \/ Proof = "right" /\ At("open", <<>>, <<"ack">>)'
          \/ Proof = "wrong" /\ At("closed", <<>>, <<"nack">>)'
      BY <2>4, <3>1, ShortSequences DEF GatewayJudgesPassword, At
    <3> QED
      BY <2>1, <3>1, <3>2 DEF Talking, Left, At
  <2>5. CASE GatewayStartsHmac
    <3>1. pc = "nonce" /\ At("accept", <<"ack">>, <<>>)
      BY <1>5, <2>1, <2>5 DEF GatewayStartsHmac, Talking, Greeting, Challenged, At, Reading
    <3>2. At("hmac", <<>>, <<"nonce">>)'
      BY <2>5, <3>1, ShortSequences DEF GatewayStartsHmac, At
    <3> QED
      BY <2>1, <3>1, <3>2 DEF Talking, At
  <2>6. CASE GatewayJudgesHmac
    <3>1. pc = "digest" /\ At("hmac", <<Proof>>, <<>>)
      BY <1>5, <2>1, <2>6 DEF GatewayJudgesHmac, Talking, Greeting, Challenged, At, Reading
    <3>2. \/ Proof = "right" /\ At("confirm", <<>>, <<"digest">>)'
          \/ Proof = "wrong" /\ At("closed", <<>>, <<"nack">>)'
      BY <2>6, <3>1, ShortSequences DEF GatewayJudgesHmac, At
    <3> QED
      BY <2>1, <3>1, <3>2 DEF Talking, Left, At
  <2>7. CASE GatewayConfirms
    <3>1. pc = "success" /\ At("confirm", <<"ack">>, <<>>)
      BY <1>5, <2>1, <2>7 DEF GatewayConfirms, Talking, Greeting, Challenged, At, Reading
    <3>2. At("open", <<>>, <<>>)'
      BY <2>7, <3>1, ShortSequences DEF GatewayConfirms, At
    <3> QED
      BY <2>1, <3>1, <3>2 DEF Talking, At
  <2> QED
    BY <2>2, <2>3, <2>4, <2>5, <2>6, <2>7
<1>6. TalkInv'
  BY <1>4, <1>5 DEF TalkInv, client
<1> QED
  BY <1>1, <1>4, <1>6, GatewayKept

(* What the gateway does of itself, and the network. *)
LEMMA GatewayStepKept ==
  ASSUME IInv, GatewayStep
  PROVE  IInv'
<1>1. TypeOK /\ ~odd /\ pc \in Reading \cup {"success"} => IF gateway = "closed" THEN Left ELSE Talking
  BY DEF IInv, TalkInv
<1>2. CASE GatewayChallenges
  <2>1. auth \in {"open", "legacy", "sha"} /\ gateway = "greeted" /\ odd' = odd /\ UNCHANGED client
    BY <1>2 DEF IInv, TypeOK, GatewayChallenges
  <2>2. /\ toGateway' = toGateway /\ fromGateway' = fromGateway \o Challenge
        /\ \/ auth = "open" /\ gateway' = "open" /\ Challenge = <<"ack">>
           \/ auth = "legacy" /\ gateway' = "password" /\ Challenge = <<"nonce">>
           \/ auth = "sha" /\ gateway' = "accept" /\ Challenge = <<"sha">>
    BY <1>2, <2>1 DEF GatewayChallenges, AfterChallenge, Challenge
  <2>3. fromGateway' \in Seq(GatewayFrames \cup {"garbage"}) /\ toGateway' \in Seq(ClientFrames)
    <3>1. Challenge \in Seq(GatewayFrames \cup {"garbage"})
      BY <2>2 DEF GatewayFrames
    <3> QED
      BY <2>2, <3>1 DEF IInv, TypeOK
  <2>4. ASSUME ~odd, pc \in Reading \cup {"success"} PROVE Talking'
    <3>1. \/ pc \in {"first", "alternate"} /\ At("greeted", <<>>, <<"ack">>)
          \/ pc = "second" /\ At("greeted", <<>>, <<>>)
      BY <2>1, <2>4 DEF IInv, TalkInv, Talking, Greeting, Challenged, At, Reading
    <3>2. /\ <<"ack">> \o <<"ack">> = <<"ack", "ack">> /\ <<"ack">> \o <<"nonce">> = <<"ack", "nonce">>
          /\ <<"ack">> \o <<"sha">> = <<"ack", "sha">>
      BY Pair
    <3>3. CASE pc \in {"first", "alternate"}
      <4>1. \/ auth = "open" /\ At("open", <<>>, <<"ack", "ack">>)'
            \/ auth = "legacy" /\ At("password", <<>>, <<"ack", "nonce">>)'
            \/ auth = "sha" /\ At("accept", <<>>, <<"ack", "sha">>)'
        BY <2>2, <3>1, <3>2, <3>3 DEF At
      <4> QED
        BY <2>1, <3>3, <4>1 DEF Talking, Greeting, At, client, config
    <3>4. CASE pc = "second"
      <4>1. \/ auth = "open" /\ At("open", <<>>, <<"ack">>)'
            \/ auth = "legacy" /\ At("password", <<>>, <<"nonce">>)'
            \/ auth = "sha" /\ At("accept", <<>>, <<"sha">>)'
        BY <2>2, <3>1, <3>4, ShortSequences DEF At
      <4> QED
        BY <2>1, <3>4, <4>1 DEF Talking, Challenged, At, client, config
    <3> QED
      BY <3>1, <3>3, <3>4
  <2>5. TalkInv'
    BY <2>1, <2>2, <2>4 DEF TalkInv, client
  <2> QED
    BY <1>2, <2>1, <2>2, <2>3, <2>5, GatewayKept DEF GatewayChallenges, IInv, TypeOK
<1>3. CASE GatewayDrops
  <2>1. /\ gateway' = "closed" /\ toGateway' = <<>> /\ fromGateway' \in {fromGateway, <<>>}
        /\ gateway \notin {"none", "closed"} /\ odd' = odd /\ UNCHANGED client /\ UNCHANGED stale
    BY <1>3 DEF GatewayDrops
  <2>2. fromGateway' \in Seq(GatewayFrames \cup {"garbage"}) /\ toGateway' \in Seq(ClientFrames)
    <3>1. fromGateway \in Seq(GatewayFrames \cup {"garbage"})
      BY DEF IInv, TypeOK
    <3>2. <<>> \in Seq(GatewayFrames \cup {"garbage"}) /\ <<>> \in Seq(ClientFrames)
      OBVIOUS
    <3> QED
      BY <2>1, <3>1, <3>2, Zenon
  <2>3. ASSUME ~odd, pc \in Reading \cup {"success"}, fromGateway' # <<>> PROVE Left'
    <3>1. fromGateway' = fromGateway /\ fromGateway # <<>> /\ Talking
      BY <2>1, <2>3 DEF IInv, TalkInv
    <3>2. pc' = pc /\ auth' = auth /\ Proof' = Proof /\ Proof \in {"right", "wrong"}
      BY <2>1 DEF client, config, Proof
    <3>3. Left
      BY <3>1, <3>2, ShortSequences DEF Talking, Left, Greeting, Challenged, At
    <3> QED
      BY <3>1, <3>2, <3>3 DEF Left
  <2>4. TalkInv'
    BY <2>1, <2>3 DEF TalkInv, Left, client
  <2> QED
    BY <2>1, <2>2, <2>4, GatewayKept DEF IInv, TypeOK
<1>4. CASE GatewaySpeaksOutOfTurn
  <2>1. /\ odd' = TRUE /\ UNCHANGED client /\ UNCHANGED stale /\ gateway' = gateway
        /\ gateway \notin {"none", "closed"} /\ toGateway' = toGateway
    BY <1>4 DEF GatewaySpeaksOutOfTurn
  <2>2. fromGateway' \in Seq(GatewayFrames \cup {"garbage"})
    <3>1. PICK f \in GatewayFrames \cup {"garbage"} : fromGateway' = Append(fromGateway, f)
      BY <1>4 DEF GatewaySpeaksOutOfTurn
    <3>2. fromGateway \in Seq(GatewayFrames \cup {"garbage"})
      BY DEF IInv, TypeOK
    <3>3. \A S : \A q \in Seq(S), e \in S : Append(q, e) \in Seq(S)
      BY AppendProperties
    <3>4. Append(fromGateway, f) \in Seq(GatewayFrames \cup {"garbage"})
      BY <3>1, <3>2, <3>3, Zenon
    <3> QED
      BY <3>1, <3>4, Zenon
  <2>3. TalkInv'
    BY <2>1 DEF TalkInv
  <2> QED
    BY <2>1, <2>2, <2>3, GatewayKept DEF IInv, TypeOK
<1>5. CASE StaleExpires
  <2>1. /\ stale > 0 /\ stale' = stale - 1 /\ UNCHANGED <<client, gateway, toGateway, fromGateway, odd>>
    BY <1>5 DEF StaleExpires
  <2>2. TypeOK' /\ CountInv'
    BY <2>1, NegotiationAssumption DEF NegotiationAssumption, IInv, TypeOK, CountInv, Fatal, client, config
  <2>3. FrameInv' /\ ReleaseInv' /\ ReportInv' /\ CredentialInv'
    BY <2>1 DEF IInv, FrameInv, ReleaseInv, ReportInv, CredentialInv, Fatal, client, config
  <2>4. TalkInv'
    BY <2>1 DEF IInv, TalkInv, Left, Talking, Greeting, Challenged, At, Proof, client, config
  <2>5. FatalMeansCredentials' /\ (MaxFrames >= 5 => BudgetSuffices)'
    BY <2>1 DEF IInv, FatalMeansCredentials, BudgetSuffices, BadCredentials, client, config
  <2> QED
    BY <2>2, <2>3, <2>4, <2>5 DEF IInv
<1> QED
  BY <1>2, <1>3, <1>4, <1>5, AnswersKept DEF GatewayStep

-----------------------------------------------------------------------------
(* The theorems. *)

(* connect() starts with nothing counted, announced or connected. *)
LEMMA Initially == Init => IInv
<1> SUFFICES ASSUME Init PROVE IInv
  OBVIOUS
<1> USE NegotiationAssumption DEF NegotiationAssumption
<1>1. TypeOK
  <2>1. toGateway \in Seq(ClientFrames) /\ fromGateway \in Seq(GatewayFrames \cup {"garbage"})
    BY DEF Init
  <2>2. connected \in BOOLEAN /\ was \in BOOLEAN
    BY DEF Init
  <2>3. retries \in 0 .. MaxConnectAttempts /\ frames \in 0 .. MaxFrames
        /\ stale \in 0 .. Slots + MaxConnectAttempts
    BY DEF Init
  <2> QED
    <3>1. authErrors \in 0 .. 1
      BY DEF Init
    <3>3. odd \in BOOLEAN /\ slow \in BOOLEAN
      BY DEF Init
    <3>2. /\ type \in {"command", "event"} /\ password \in Passwords /\ pc \in States
          /\ auth \in {"open", "legacy", "sha"} /\ alternate \in BOOLEAN
          /\ reason \in Reasons \cup {"none"} /\ lastError \in Reasons \cup {"none"}
          /\ gateway = "none"
      BY DEF Init, States
    <3> QED
      BY <2>1, <2>2, <2>3, <3>1, <3>2, <3>3 DEF TypeOK
<1>2. CountInv /\ FrameInv /\ ReleaseInv /\ ReportInv /\ CredentialInv /\ TalkInv
  BY DEF Init, CountInv, FrameInv, ReleaseInv, ReportInv, CredentialInv, TalkInv, Fatal, Trying,
         Reading, FatalErrors, AuthErrors
<1>3. FatalMeansCredentials /\ BudgetSuffices
  BY DEF Init, FatalMeansCredentials, BudgetSuffices, FatalErrors, AuthErrors
<1> QED
  BY <1>1, <1>2, <1>3 DEF IInv

(* A step of something else. *)
LEMMA StutterKept == IInv /\ UNCHANGED vars => IInv'
<1> SUFFICES ASSUME IInv, UNCHANGED vars PROVE IInv'
  OBVIOUS
<1>1. TypeOK' /\ CountInv' /\ FrameInv' /\ ReleaseInv' /\ ReportInv' /\ CredentialInv'
  BY DEF IInv, TypeOK, CountInv, FrameInv, ReleaseInv, ReportInv, CredentialInv, Fatal,
         vars, config, wire
<1>2. TalkInv'
  BY DEF IInv, TalkInv, Left, Talking, Greeting, Challenged, At, Proof, vars, config, wire
<1>3. FatalMeansCredentials' /\ (MaxFrames >= 5 => BudgetSuffices)'
  BY DEF IInv, FatalMeansCredentials, BudgetSuffices, BadCredentials, vars, config, wire
<1> QED
  BY <1>1, <1>2, <1>3 DEF IInv

(* Every step is one of those above. *)
LEMMA NextKept == IInv /\ [Next]_vars => IInv'
BY StutterKept, FailuresKept, ExchangeKept, SuccessesKept, LoopKept, GatewayStepKept DEF Next, Connect

(* Every step of connect(), of the gateway and of the network keeps what   *)
(* the attempts, the frames, the streams and the two ends of the exchange  *)
(* have in common.                                                         *)
THEOREM Inductive == Spec => []IInv
BY Initially, NextKept, PTL DEF Spec

(* connect() never counts more attempts, frames or authentication errors   *)
(* than it may, nor leaves more sessions behind than one per attempt.      *)
THEOREM TypeCorrect == Spec => []TypeOK
BY Inductive, PTL DEF IInv

(* A session is handed over with no frame of its negotiation left unread.  *)
THEOREM HandoverIsClean == Spec => []CleanHandover
<1>1. IInv => CleanHandover
  BY DEF IInv, TalkInv, Left, Talking, At, CleanHandover
<1> QED
  BY <1>1, Inductive, PTL

(* connect() gives up for good only for credentials that cannot work.      *)
THEOREM FatalFailures == Spec => []FatalMeansCredentials
BY Inductive, PTL DEF IInv

(* The flag, the error kept and the callback tell the same story.          *)
THEOREM OutcomeIsReported == Spec => []OutcomeReported
<1>1. IInv => OutcomeReported
  BY DEF IInv, TypeOK, ReportInv, CountInv, OutcomeReported, Ended, Fatal, FatalErrors
<1> QED
  BY <1>1, Inductive, PTL

(* A budget of five frames is enough for every exchange of the protocol.   *)
THEOREM FiveFramesSuffice == ASSUME MaxFrames >= 5 PROVE Spec => []BudgetSuffices
<1>1. IInv => BudgetSuffices
  BY DEF IInv
<1> QED
  BY <1>1, Inductive, PTL

(* Nothing is left open when connect() tries again or gives up.            *)
THEOREM ConnectionsReleased == Spec => []ReleasedBeforeRetry
<1>1. IInv => ReleasedBeforeRetry
  BY DEF IInv, ReleaseInv, ReleasedBeforeRetry
<1> QED
  BY <1>1, Inductive, PTL

(* Only a decision of connect() changes is_connected.                      *)
THEOREM NeverFlaps == Spec => NoFlap
<1>1. [Next]_vars => [connected' # connected =>
                        \/ pc' \in {"success", "gave_up"}
                        \/ pc' = "releasing" /\ reason' \in FatalErrors]_vars
  <2> SUFFICES ASSUME Next, connected' # connected
               PROVE  \/ pc' \in {"success", "gave_up"}
                      \/ pc' = "releasing" /\ reason' \in FatalErrors
    BY DEF vars
  <2>1. ASSUME NEW r, AttemptFails(r) PROVE pc' = "releasing" /\ reason' \in FatalErrors
    BY <2>1 DEF AttemptFails, Announce
  <2>2. CASE GatewayStep
    BY <2>2 DEF GatewayStep, GatewayOpens, GatewayIsBusy, GatewayJudgesPassword, GatewayStartsHmac,
                GatewayJudgesHmac, GatewayConfirms, GatewayChallenges, GatewayDrops,
                GatewaySpeaksOutOfTurn, StaleExpires, Answer, client
  <2>3. CASE OpenConnection
    BY <2>1, <2>3 DEF OpenConnection
  <2>4. CASE \/ OpenFails \/ SessionRefused \/ NegotiationRefused \/ NegotiationFailed
             \/ PasswordMissing \/ PasswordNotDecimal \/ PasswordRejected
             \/ AuthenticationBroken \/ NegotiationTimeout \/ ConnectionLost
    BY <2>1, <2>4 DEF OpenFails, SessionRefused, NegotiationRefused, NegotiationFailed, PasswordMissing,
         PasswordNotDecimal, PasswordRejected, AuthenticationBroken, NegotiationTimeout, ConnectionLost
  <2>5. CASE \/ TryAlternate \/ SessionAccepted \/ AcceptChallenge \/ SendHmac \/ SendPassword
             \/ ConnectRaises \/ BackoffOver
    BY <2>5 DEF TryAlternate, SessionAccepted, AcceptChallenge, SendHmac, SendPassword, GoOn,
                ConnectRaises, BackoffOver
  <2>6. CASE OpenedWithoutPassword \/ GatewayConfirmed \/ PasswordAccepted
    BY <2>6 DEF OpenedWithoutPassword, GatewayConfirmed, PasswordAccepted, Succeed
  <2>7. CASE Released
    BY <2>7 DEF Released, GivesUp
  <2> QED
    BY <2>2, <2>3, <2>4, <2>5, <2>6, <2>7 DEF Next, Connect
<1> QED
  BY <1>1, PTL DEF Spec, NoFlap
=============================================================================

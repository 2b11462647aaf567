----------------------------- MODULE Negotiation -----------------------------
(***************************************************************************)
(* OWNSession.connect(): up to MaxConnectAttempts connection attempts, a   *)
(* back-off between them, and on each connection the whole exchange of     *)
(* _negotiate_exchange(), frame by frame: the *99* request, the alternate  *)
(* *99*9 command session, the open, legacy and HMAC (SHA) authentications, *)
(* the frame budget and the timeouts.  One task runs connect(); the        *)
(* gateway is external: it asks for one kind of authentication, holds a    *)
(* bounded number of sessions, and may drop the connection, be busy, or    *)
(* send a frame its protocol does not call for.                            *)
(*                                                                         *)
(* Cryptography is symbolic: a proof computed from the gateway's password  *)
(* is "right", any other is "wrong".  Waiting times are abstracted: any    *)
(* read may time out.                                                      *)
(***************************************************************************)
EXTENDS Naturals, Sequences

CONSTANTS MaxConnectAttempts,   \* MAX_CONNECT_ATTEMPTS
          MaxFrames,            \* NEGOTIATION_MAX_FRAMES
          Slots                 \* sessions the gateway can hold at once

ASSUME NegotiationAssumption ==
  MaxConnectAttempts \in Nat \ {0} /\ MaxFrames \in Nat /\ Slots \in Nat \ {0}

(* The configuration: fixed while connect() runs. *)
VARIABLES type,      \* _type: "command" or "event"
          password,  \* the gateway object's password
          auth,      \* the authentication the gateway asks for
          alternate  \* the gateway wants *99*9 for a command session

(* The client. *)
VARIABLES pc,          \* where connect() is suspended
          retries,     \* retry_count
          frames,      \* frames_read in this negotiation
          reason,      \* why the last attempt failed
          was,         \* _connected when connect() was called
          connected,   \* _connected
          lastError,   \* _last_error
          authErrors   \* calls of on_auth_error

(* The current connection and the gateway. *)
VARIABLES toGateway, fromGateway,
          gateway,     \* the gateway's end of the current connection
          stale,       \* sessions the gateway still holds for closed connections
          odd,         \* the gateway has sent a frame out of protocol
          slow         \* a read or a connect has timed out in this attempt

config == <<type, password, auth, alternate>>
wire   == <<toGateway, fromGateway, gateway, stale, odd>>
vars   == <<config, pc, retries, frames, reason, was, connected, lastError,
            authErrors, wire, slow>>

Reading == {"first", "alternate", "second", "nonce", "digest", "reply"}
States  == Reading \cup {"opening", "releasing", "backoff", "success", "fatal",
                         "gave_up", "raised"}

(* _AUTH_NEGOTIATION_ERRORS and _FATAL_NEGOTIATION_ERRORS. *)
AuthErrors  == {"password_required", "password_error"}
FatalErrors == AuthErrors \cup {"negotiation_error"}
Reasons == FatalErrors \cup
  {"connection_refused", "negotiation_refused", "negotiation_failed",
   "negotiation_timeout", "connection_lost"}

(* "word" is the gateway's password too, but not all decimal digits. *)
Passwords == {"none", "right", "word", "wrong", "non_ascii"}

ClientFrames  == {"open", "open9", "ack", "nack", "right", "wrong"}
GatewayFrames == {"ack", "nack", "sha", "nonce", "digest", "bad_digest", "other"}
NonceFrames   == {"nonce", "digest", "bad_digest"}   \* what is_nonce() accepts

TypeOK ==
  /\ type \in {"command", "event"} /\ password \in Passwords
  /\ auth \in {"open", "legacy", "sha"} /\ alternate \in BOOLEAN
  /\ pc \in States
  /\ retries \in 0 .. MaxConnectAttempts
  /\ frames \in 0 .. MaxFrames
  /\ reason \in Reasons \cup {"none"} /\ lastError \in Reasons \cup {"none"}
  /\ was \in BOOLEAN /\ connected \in BOOLEAN
  /\ authErrors \in 0 .. 1
  /\ toGateway \in Seq(ClientFrames)
  /\ fromGateway \in Seq(GatewayFrames \cup {"garbage"})
  /\ gateway \in {"none", "idle", "greeted", "busy", "password", "accept", "hmac",
                  "confirm", "open", "closed"}
  /\ stale \in 0 .. Slots + MaxConnectAttempts
  /\ odd \in BOOLEAN /\ slow \in BOOLEAN

Init ==
  /\ type \in {"command", "event"} /\ password \in Passwords
  /\ auth \in {"open", "legacy", "sha"} /\ alternate \in BOOLEAN
  /\ pc = "opening" /\ retries = 0 /\ frames = 0
  /\ reason = "none" /\ lastError = "none"
  /\ was \in BOOLEAN /\ connected = was
  /\ authErrors = 0
  /\ toGateway = <<>> /\ fromGateway = <<>> /\ gateway = "none"
  /\ stale \in 0 .. Slots
  /\ odd = FALSE /\ slow = FALSE

-----------------------------------------------------------------------------
(* Helpers. *)

(* Mutant: the streams of a failed attempt are forgotten. *)
ForgetStreams == UNCHANGED <<gateway, toGateway, fromGateway, stale>>

(* _close_streams(): what the gateway held for the connection goes stale. *)
CloseStreams ==
  /\ gateway' = "none"
  /\ toGateway' = <<>> /\ fromGateway' = <<>>
  /\ stale' = IF gateway \in {"none", "closed"} THEN stale ELSE stale + 1

(* Mutant: a fatal failure is stored but not announced. *)
AnnounceNothing(r) ==
  IF r \in FatalErrors
  THEN lastError' = r /\ connected' = FALSE /\ UNCHANGED authErrors
  ELSE UNCHANGED <<lastError, connected, authErrors>>

(* Mutant: a failed attempt ends with close(), not _close_streams(). *)
AnnounceEveryFailure(r) ==
  /\ connected' = FALSE
  /\ IF r \in FatalErrors
     THEN /\ lastError' = r
          /\ authErrors' = authErrors + (IF r \in AuthErrors THEN 1 ELSE 0)
     ELSE UNCHANGED <<lastError, authErrors>>

(* A fatal failure is announced at once, any other only on giving up. *)
Announce(r) ==
  IF r \in FatalErrors
  THEN /\ lastError' = r
       /\ connected' = FALSE
       /\ authErrors' = authErrors + (IF r \in AuthErrors THEN 1 ELSE 0)
  ELSE UNCHANGED <<lastError, connected, authErrors>>

(* Mutant: a failed attempt is not counted. *)
AttemptForgotten(r) ==
  /\ CloseStreams
  /\ pc' = "releasing" /\ reason' = r
  /\ Announce(r)
  /\ UNCHANGED <<retries, config, was, odd>>

(* An attempt fails with r: a fatal failure is announced before the streams *)
(* are released and not retried, any other is counted.                      *)
AttemptFails(r) ==
  /\ CloseStreams
  /\ pc' = "releasing" /\ reason' = r
  /\ Announce(r)
  /\ retries' = IF r \in FatalErrors THEN retries ELSE retries + 1
  /\ UNCHANGED <<config, was, odd>>

(* Mutant: the budget is one frame short. *)
BudgetSpentEarly == frames + 1 >= MaxFrames

BudgetSpent == frames >= MaxFrames

(* read_signaling() returns a frame of set F in state s. *)
Reads(s, F) ==
  /\ pc = s /\ fromGateway # <<>> /\ Head(fromGateway) \in F
  /\ ~BudgetSpent
  /\ frames' = frames + 1

(* The exchange goes on in state s, after writing out. *)
GoOn(s, out) ==
  /\ pc' = s
  /\ fromGateway' = Tail(fromGateway)
  /\ toGateway' = toGateway \o out
  /\ UNCHANGED <<config, retries, reason, was, connected, lastError, authErrors,
                 gateway, stale, odd, slow>>

(* The negotiation succeeds, after writing out. *)
Succeed(out) ==
  /\ pc' = "success"
  /\ fromGateway' = Tail(fromGateway)
  /\ toGateway' = toGateway \o out
  /\ lastError' = "none"
  /\ connected' = TRUE
  /\ UNCHANGED <<config, retries, reason, was, authErrors, gateway, stale, odd,
                 slow>>

-----------------------------------------------------------------------------
(* connect() and the first two frames. *)

OpenConnection ==
  /\ pc = "opening"
  /\ frames' = 0 /\ slow' = FALSE
  /\ IF password = "non_ascii"
     THEN AttemptFails("password_error")
     ELSE /\ pc' = "first"
          /\ gateway' = IF stale < Slots THEN "idle" ELSE "busy"
          /\ toGateway' = <<"open">>
          /\ UNCHANGED <<config, retries, reason, was, connected, lastError,
                         authErrors, fromGateway, stale, odd>>

OpenFails ==
  /\ pc = "opening"
  /\ AttemptFails("connection_lost")
  /\ UNCHANGED <<frames, slow>>

(* NACK to *99*0: ask for the alternate session. *)
TryAlternate ==
  /\ type = "command"
  /\ Reads("first", {"nack"})
  /\ GoOn("alternate", <<"open9">>)

SessionRefused ==
  /\ \/ type = "event" /\ Reads("first", {"nack"})
     \/ Reads("alternate", {"nack"})
  /\ AttemptFails("connection_refused")
  /\ UNCHANGED slow

(* Mutant: the first ACK is taken for the end of the negotiation. *)
AcceptedIsEstablished ==
  /\ \/ Reads("first", GatewayFrames \ {"nack"})
     \/ Reads("alternate", GatewayFrames \ {"nack"})
  /\ Succeed(<<>>)

(* Any other first frame is taken for an acceptance. *)
SessionAccepted ==
  /\ \/ Reads("first", GatewayFrames \ {"nack"})
     \/ Reads("alternate", GatewayFrames \ {"nack"})
  /\ GoOn("second", <<>>)

OpenedWithoutPassword ==
  /\ Reads("second", {"ack"})
  /\ Succeed(<<>>)

NegotiationRefused ==
  /\ Reads("second", {"nack"})
  /\ AttemptFails("negotiation_refused")
  /\ UNCHANGED slow

NegotiationFailed ==
  /\ Reads("second", {"other"})
  /\ AttemptFails("negotiation_failed")
  /\ UNCHANGED slow

-----------------------------------------------------------------------------
(* The authentications. *)

Proof == IF password \in {"right", "word"} THEN "right" ELSE "wrong"

PasswordMissing ==
  /\ password = "none"
  /\ Reads("second", {"sha"} \cup NonceFrames)
  /\ AttemptFails("password_required")
  /\ UNCHANGED slow

AcceptChallenge ==
  /\ password # "none"
  /\ Reads("second", {"sha"})
  /\ GoOn("nonce", <<"ack">>)

SendHmac ==
  /\ Reads("nonce", NonceFrames)
  /\ GoOn("digest", <<Proof>>)

(* The gateway's digest is the expected one: the gateway is told so. *)
GatewayConfirmed ==
  /\ Reads("digest", {"digest"})
  /\ Proof = "right"
  /\ Succeed(<<"ack">>)

(* The legacy password must be a number. *)
PasswordNotDecimal ==
  /\ password = "word"
  /\ Reads("second", NonceFrames)
  /\ AttemptFails("password_error")
  /\ UNCHANGED slow

SendPassword ==
  /\ password \in {"right", "wrong"}
  /\ Reads("second", NonceFrames)
  /\ GoOn("reply", <<Proof>>)

PasswordAccepted ==
  /\ Reads("reply", {"ack"})
  /\ Succeed(<<>>)

PasswordRejected ==
  /\ Reads("digest", {"nack"}) \/ Reads("reply", {"nack"})
  /\ AttemptFails("password_error")
  /\ UNCHANGED slow

(* Anything else after a challenge was taken up, a wrong digest included. *)
AuthenticationBroken ==
  /\ \/ Reads("nonce", GatewayFrames \ NonceFrames)
     \/ Reads("digest", GatewayFrames \ {"nack", "digest"})
     \/ Reads("digest", {"digest"}) /\ Proof = "wrong"
     \/ Reads("reply", GatewayFrames \ {"ack", "nack"})
  /\ AttemptFails("negotiation_error")
  /\ UNCHANGED slow

-----------------------------------------------------------------------------
(* Failures of the exchange, and the retry loop. *)

(* A read or the whole negotiation times out, or the frame budget is spent. *)
NegotiationTimeout ==
  /\ pc \in Reading
  /\ slow' = ~BudgetSpent
  /\ AttemptFails("negotiation_timeout")
  /\ UNCHANGED frames

(* A frame that is no UTF-8 text raises out of connect(), streams and all.  *)
ConnectRaises ==
  /\ pc \in Reading
  /\ Reads(pc, {"garbage"})
  /\ pc' = "raised"
  /\ fromGateway' = Tail(fromGateway)
  /\ UNCHANGED <<config, retries, reason, was, connected, lastError, authErrors,
                 toGateway, gateway, stale, odd, slow>>

(* Mutant: a connection closed half-way is a negotiation error. *)
ConnectionLostIsFatal ==
  /\ pc \in Reading
  /\ gateway = "closed" /\ fromGateway = <<>>
  /\ AttemptFails("negotiation_error")
  /\ UNCHANGED <<frames, slow>>

(* End of file or reset while a frame is awaited. *)
ConnectionLost ==
  /\ pc \in Reading
  /\ gateway = "closed" /\ fromGateway = <<>>
  /\ AttemptFails("connection_lost")
  /\ UNCHANGED <<frames, slow>>

(* Mutant: one attempt too many. *)
GivesUpLate == reason \notin FatalErrors /\ retries > MaxConnectAttempts

GivesUp == reason \notin FatalErrors /\ retries >= MaxConnectAttempts

(* The streams of a failed attempt are released: connect() returns, gives   *)
(* up, or backs off.                                                        *)
Released ==
  /\ pc = "releasing"
  /\ pc' = IF reason \in FatalErrors THEN "fatal"
           ELSE IF GivesUp THEN "gave_up" ELSE "backoff"
  /\ IF GivesUp
     THEN connected' = FALSE /\ lastError' = reason
     ELSE UNCHANGED <<connected, lastError>>
  /\ UNCHANGED <<config, retries, frames, reason, was, authErrors, wire, slow>>

BackoffOver ==
  /\ pc = "backoff"
  /\ pc' = "opening"
  /\ UNCHANGED <<config, retries, frames, reason, was, connected, lastError,
                 authErrors, wire, slow>>

-----------------------------------------------------------------------------
(* The gateway (external). *)

client == <<config, pc, retries, frames, reason, was, connected, lastError,
            authErrors, slow>>

Answer(state, g, out) ==
  /\ gateway = state /\ gateway' = g
  /\ toGateway # <<>> /\ toGateway' = Tail(toGateway)
  /\ fromGateway' = fromGateway \o out
  /\ UNCHANGED <<client, stale, odd>>

Challenge == CASE auth = "open"   -> <<"ack">>
               [] auth = "legacy" -> <<"nonce">>
               [] auth = "sha"    -> <<"sha">>
AfterChallenge == CASE auth = "open"   -> "open"
                    [] auth = "legacy" -> "password"
                    [] auth = "sha"    -> "accept"
WantsAlternate == alternate /\ type = "command" /\ Head(toGateway) = "open"

GatewayOpens ==
  \/ WantsAlternate /\ Answer("idle", "idle", <<"nack">>)
  \/ ~WantsAlternate /\ Answer("idle", "greeted", <<"ack">>)

GatewayChallenges ==
  /\ gateway = "greeted" /\ gateway' = AfterChallenge
  /\ fromGateway' = fromGateway \o Challenge
  /\ UNCHANGED <<client, toGateway, stale, odd>>

GatewayIsBusy ==
  \/ Answer("busy", "busy", <<"nack">>)
  \/ Answer("busy", "busy", <<"ack", "nack">>)

GatewayJudgesPassword ==
  \/ Head(toGateway) = "right" /\ Answer("password", "open", <<"ack">>)
  \/ Head(toGateway) = "wrong" /\ Answer("password", "closed", <<"nack">>)

GatewayStartsHmac == Head(toGateway) = "ack" /\ Answer("accept", "hmac", <<"nonce">>)

GatewayJudgesHmac ==
  \/ Head(toGateway) = "right" /\ Answer("hmac", "confirm", <<"digest">>)
  \/ Head(toGateway) = "wrong" /\ Answer("hmac", "closed", <<"nack">>)

GatewayConfirms == Head(toGateway) = "ack" /\ Answer("confirm", "open", <<>>)

(* The network breaks, or the gateway closes: what was sent arrives or not. *)
GatewayDrops ==
  /\ gateway \notin {"none", "closed"}
  /\ gateway' = "closed"
  /\ toGateway' = <<>>
  /\ fromGateway' \in {fromGateway, <<>>}
  /\ UNCHANGED <<client, stale, odd>>

(* A frame out of protocol, or one that is no text, once. *)
GatewaySpeaksOutOfTurn ==
  /\ ~odd /\ odd' = TRUE
  /\ gateway \notin {"none", "closed"}
  /\ \E f \in GatewayFrames \cup {"garbage"} : fromGateway' = Append(fromGateway, f)
  /\ UNCHANGED <<client, gateway, toGateway, stale>>

(* A session of a closed connection expires at the gateway. *)
StaleExpires ==
  /\ stale > 0 /\ stale' = stale - 1
  /\ UNCHANGED <<client, gateway, toGateway, fromGateway, odd>>

-----------------------------------------------------------------------------
Connect ==
  \/ OpenConnection \/ OpenFails
  \/ TryAlternate \/ SessionRefused \/ SessionAccepted
  \/ OpenedWithoutPassword \/ NegotiationRefused \/ NegotiationFailed
  \/ PasswordMissing \/ AcceptChallenge \/ SendHmac \/ GatewayConfirmed
  \/ PasswordNotDecimal \/ SendPassword \/ PasswordAccepted \/ PasswordRejected
  \/ AuthenticationBroken \/ NegotiationTimeout \/ ConnectionLost \/ ConnectRaises
  \/ Released \/ BackoffOver

GatewayStep ==
  \/ (toGateway # <<>> /\ (GatewayOpens \/ GatewayIsBusy \/ GatewayJudgesPassword
        \/ GatewayStartsHmac \/ GatewayJudgesHmac \/ GatewayConfirms))
  \/ GatewayChallenges \/ GatewayDrops \/ GatewaySpeaksOutOfTurn \/ StaleExpires

Next == Connect \/ GatewayStep

Spec == Init /\ [][Next]_vars

(* connect() is one task of an event loop, and every wait of it is bounded *)
(* by a timeout: nothing is asked of the gateway.                          *)
FairSpec == Spec /\ WF_vars(Connect)

-----------------------------------------------------------------------------
(* Properties. *)

Ended == {"success", "fatal", "gave_up"}

(* When connect() succeeds against a gateway that keeps to its protocol, no *)
(* frame of the negotiation is left unread, whatever the authentication     *)
(* and the *99*9 fallback were, and the gateway is at the same point of the *)
(* exchange: the next frame it sends answers the first command (session.py  *)
(* _negotiate_exchange; command_session.py relies on it).                   *)
CleanHandover ==
  pc = "success" /\ ~odd =>
    /\ fromGateway = <<>>
    /\ \/ gateway \in {"open", "closed"}
       \/ gateway = "confirm" /\ toGateway = <<"ack">>

(* connect() gives up for good only for credentials that cannot work, never *)
(* because a gateway was busy, slow, or closed the connection half-way      *)
(* (session.py:863-868).                                                    *)
BadCredentials ==
  \/ password = "non_ascii"
  \/ auth # "open" /\ password \in {"none", "wrong"}
  \/ auth = "legacy" /\ password = "word"
FatalMeansCredentials == reason \in FatalErrors /\ ~odd => BadCredentials

(* When connect() has ended, the flag, the error kept for the caller and    *)
(* the calls of on_auth_error all tell the same story, whatever the earlier *)
(* attempts ran into.                                                       *)
OutcomeReported ==
  pc \in Ended =>
    /\ connected = (pc = "success")
    /\ lastError = IF pc = "success" THEN "none" ELSE reason
    /\ authErrors = IF pc = "fatal" /\ reason \in AuthErrors THEN 1 ELSE 0

(* The frame budget is enough for the longest exchange of the protocol: an  *)
(* alternate session with HMAC.  A negotiation that times out against a     *)
(* gateway keeping to its protocol has waited (session.py:40, 628).         *)
BudgetSuffices == reason = "negotiation_timeout" /\ ~odd => slow \/ pc # "releasing"

(* No connection is left open when connect() tries again or returns empty-  *)
(* handed (session.py:507-513).                                             *)
ReleasedBeforeRetry ==
  pc \in {"opening", "backoff", "fatal", "gave_up"} => gateway = "none"

(* The consumer sees a change of is_connected only when connect() decides:  *)
(* an attempt that fails and is retried never flaps it (session.py:511-513).*)
NoFlap ==
  [][connected' # connected =>
       \/ pc' \in {"success", "gave_up"}
       \/ pc' = "releasing" /\ reason' \in FatalErrors]_vars

(* connect() ends, whatever the gateway does or leaves undone.              *)
ConnectReturns == <>(pc \in Ended \cup {"raised"})

-----------------------------------------------------------------------------
(* The inductive invariant behind them. *)

Trying == {"opening", "backoff"} \cup Reading
Fatal == reason \in FatalErrors

(* Attempts are counted, and a fatal one is the last; each closed at most  *)
(* one connection.                                                         *)
CountInv ==
  /\ pc \in Trying => retries < MaxConnectAttempts
  /\ Fatal => pc \in {"releasing", "fatal"} /\ retries < MaxConnectAttempts
  /\ stale <= Slots + retries + (IF Fatal THEN 1 ELSE 0)

(* How many frames have been read where connect() waits for the next.      *)
FrameInv ==
  /\ pc = "first" => frames = 0
  /\ pc = "alternate" => frames = 1
  /\ pc = "second" => frames \in 1 .. 2
  /\ pc \in {"nonce", "reply"} => frames \in 2 .. 3
  /\ pc = "digest" => frames \in 3 .. 4

(* Outside a negotiation and its result there is no connection.            *)
ReleaseInv ==
  pc \in {"opening", "backoff", "releasing", "fatal", "gave_up"} =>
    gateway = "none" /\ toGateway = <<>> /\ fromGateway = <<>>

(* What has been announced while connect() is still under way.             *)
ReportInv ==
  /\ authErrors = IF reason \in AuthErrors THEN 1 ELSE 0
  /\ Fatal => ~connected /\ lastError = reason
  /\ pc = "fatal" => Fatal
  /\ pc = "success" => connected /\ lastError = "none"
  /\ pc = "gave_up" => ~connected /\ lastError = reason

(* Which passwords get as far, with a gateway that keeps to its protocol.  *)
CredentialInv ==
  /\ pc \in Reading => password # "non_ascii"
  /\ pc \in {"nonce", "digest"} => password # "none" /\ (odd \/ auth = "sha")
  /\ pc = "reply" => password \in {"right", "wrong"} /\ (odd \/ auth = "legacy")

(* Where the two ends of an open connection can be at once.                *)
At(g, to, from) == gateway = g /\ toGateway = to /\ fromGateway = from
Greeting(f) ==
  \/ At("idle", <<f>>, <<>>) \/ At("greeted", <<>>, <<"ack">>)
  \/ At("busy", <<f>>, <<>>) \/ At("busy", <<>>, <<"nack">>) \/ At("busy", <<>>, <<"ack", "nack">>)
  \/ auth = "open" /\ At("open", <<>>, <<"ack", "ack">>)
  \/ auth = "legacy" /\ At("password", <<>>, <<"ack", "nonce">>)
  \/ auth = "sha" /\ At("accept", <<>>, <<"ack", "sha">>)
Challenged ==
  \/ At("greeted", <<>>, <<>>) \/ At("busy", <<>>, <<"nack">>)
  \/ auth = "open" /\ At("open", <<>>, <<"ack">>)
  \/ auth = "legacy" /\ At("password", <<>>, <<"nonce">>)
  \/ auth = "sha" /\ At("accept", <<>>, <<"sha">>)
Talking ==
  /\ pc = "first" => Greeting("open") \/ At("idle", <<>>, <<"nack">>)
  /\ pc = "alternate" => Greeting("open9")
  /\ pc = "second" => Challenged
  /\ pc = "nonce" => At("accept", <<"ack">>, <<>>) \/ At("hmac", <<>>, <<"nonce">>)
  /\ pc = "digest" => \/ At("hmac", <<Proof>>, <<>>)
                      \/ Proof = "right" /\ At("confirm", <<>>, <<"digest">>)
  /\ pc = "reply" => \/ At("password", <<Proof>>, <<>>)
                     \/ Proof = "right" /\ At("open", <<>>, <<"ack">>)
  /\ pc = "success" => At("open", <<>>, <<>>) \/ At("confirm", <<"ack">>, <<>>)

(* What may still be read of a connection that is closed.                  *)
Left ==
  fromGateway # <<>> =>
    /\ pc \in {"first", "alternate"} =>
         \/ fromGateway \in {<<"ack">>, <<"nack">>, <<"ack", "nack">>}
         \/ auth = "open" /\ fromGateway = <<"ack", "ack">>
         \/ auth = "legacy" /\ fromGateway = <<"ack", "nonce">>
         \/ auth = "sha" /\ fromGateway = <<"ack", "sha">>
    /\ pc = "second" => \/ fromGateway = <<"nack">>
                        \/ auth = "open" /\ fromGateway = <<"ack">>
                        \/ auth = "legacy" /\ fromGateway = <<"nonce">>
                        \/ auth = "sha" /\ fromGateway = <<"sha">>
    /\ pc = "nonce" => fromGateway = <<"nonce">>
    /\ pc = "digest" => fromGateway = IF Proof = "right" THEN <<"digest">> ELSE <<"nack">>
    /\ pc = "reply" => fromGateway = IF Proof = "right" THEN <<"ack">> ELSE <<"nack">>
    /\ pc # "success"

TalkInv ==
  ~odd /\ pc \in Reading \cup {"success"} => IF gateway = "closed" THEN Left ELSE Talking

IInv ==
  /\ TypeOK /\ CountInv /\ FrameInv /\ ReleaseInv /\ ReportInv /\ CredentialInv /\ TalkInv
  /\ FatalMeansCredentials /\ (MaxFrames >= 5 => BudgetSuffices)
=============================================================================

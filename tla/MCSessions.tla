------------------------------ MODULE MCSessions ------------------------------
(* Instances for TLC of the parts around a session: what is known of a     *)
(* gateway before one is opened, and what several tasks, or several        *)
(* digits, work on.  A behaviour is about one of them, and the variables   *)
(* of the others stay as they begin.                                       *)
(*                                                                         *)
(* SessionOverlap: a worker and two keepalives, which may find two         *)
(* connections.  TcpTransport: one owner and one caller of send().         *)
(* Auth: single bits at the edges of the shifts, their complement in 31    *)
(* bits, and passwords as installers set them.  GatewayProfile: versions   *)
(* around the two that add a subsystem, short ones and long ones.          *)
(* Discovery: a gateway, a second one or another device, with each of the  *)
(* descriptors that make a difference, and the calls of the command line   *)
(* and of a consumer.                                                      *)
EXTENDS Auth, TcpTransport, SessionOverlap, GatewayProfile, Discovery, TLC
CONSTANTS w1, k1, k2, o1, s1, g1, g2, h1, h2, secret, mac

Word(n) == [i \in Bits |-> IF i < 31 THEN (n \div 2 ^ i) % 2 ELSE 0]
MCPasswords ==
  {Word(n) : n \in {0, 1, 8, 128, 2 ^ 12, 2 ^ 20, 2 ^ 25, 2 ^ 30, 12345, 987654321, 2147483647}}
  \cup {[i \in Bits |-> IF i >= 30 THEN 1 ELSE 0]}

MCFirmwares ==
  {<<>>, <<2>>, <<2, 1>>, <<2, 1, 7>>, <<2, 1, 7, 4>>, <<2, 2>>, <<6>>, <<6, 0>>, <<6, 0, 0>>, <<6, 0, 11>>}

Device(usn, page, named, port, odd, mute) ==
  [usn |-> usn, page |-> page, named |-> named, port |-> port, odd |-> odd, mute |-> mute,
   model |-> IF port = Unset THEN Null ELSE "F454"]
Ones == {Device(TRUE, page, named, 20001, "none", FALSE) :
           page \in {49153, 80, 8080}, named \in BOOLEAN}
        \cup {Device(TRUE, 80, TRUE, 20001, odd, FALSE) : odd \in {"page", "port"}}
        \cup {Device(TRUE, 80, TRUE, 20001, "none", TRUE)}
Twos == {Device(usn, 80, TRUE, Unset, "none", mute) : usn \in BOOLEAN, mute \in BOOLEAN}
Info(address, location, port, serial, model) ==
  [address |-> address, location |-> location, port |-> port, password |-> secret,
   serial |-> serial, model |-> model]
(* Address and port, each perhaps not given; an entry of an earlier search. *)
MCAsked ==
  {Info(a, Null, p, mac, Null) : a \in {Null, h1}, p \in {Null, 20001}}
  \cup {Info(a, h1, p, h1, "F454") : a \in {Null, h1}, p \in {Null, Unset, Absent}}

MCNetworks == {(h1 :> d) @@ (h2 :> e) : d \in Ones, e \in Twos}

VARIABLE about
mcvars == <<about, vars, overlapVars, authVars, gateways, discoveryVars>>

MCInit ==
  /\ about \in {"auth", "overlap", "transport", "profiles", "discovery"}
  /\ AuthInit /\ (about # "auth" => password = Word(12345))
  /\ OverlapInit
  /\ Init
  /\ ProfileInit /\ (about # "profiles" => gateways = [g \in Gateways |-> Described("F454", <<2>>)])
  /\ DiscoveryInit /\ (about # "discovery" => net = (CHOOSE n \in MCNetworks : TRUE)
                                      /\ asked = (CHOOSE a \in MCAsked : TRUE))

Auth_Only == about = "auth" /\ UNCHANGED <<about, vars, overlapVars, gateways, discoveryVars>>
Overlap_Only == about = "overlap" /\ UNCHANGED <<about, vars, authVars, gateways, discoveryVars>>
Transport_Only == about = "transport" /\ UNCHANGED <<about, overlapVars, authVars, gateways, discoveryVars>>
Profiles_Only == about = "profiles" /\ UNCHANGED <<about, vars, overlapVars, authVars, discoveryVars>>
Discovery_Only == about = "discovery" /\ UNCHANGED <<about, vars, overlapVars, authVars, gateways>>

MCNext ==
  \/ Auth_Only /\ AuthNext
  \/ Overlap_Only /\ OverlapNext
  \/ Transport_Only /\ Next
  \/ Profiles_Only /\ ProfileNext
  \/ Discovery_Only /\ DiscoveryNext
MCSpec == MCInit /\ [][MCNext]_mcvars

(* The fairness of the components: the loop runs every task that can go    *)
(* on, and every wait has a limit.                                         *)
MCFairSpec ==
  /\ MCSpec
  /\ \A t \in Tasks : /\ WF_mcvars(Overlap_Only /\ Step(t))
                      /\ SF_mcvars(Overlap_Only /\ LockGranted(t))
  /\ \A o \in Owners : WF_mcvars(Transport_Only /\ OwnerWorks(o))
  /\ \A g \in Pairs : WF_mcvars(Transport_Only /\ Listener(g))
  /\ WF_mcvars(Discovery_Only /\ DiscoveryStep)

(* Every connect(), send() and disconnect() returns, whatever the others   *)
(* do to its streams (session.py:441, tcp.py:72).  A task of SessionOverlap *)
(* that has returned is done.                                              *)
TasksReturn ==
  []<>(/\ about = "overlap" => \A t \in Tasks : pc[t] \in {"ok", "failed", "crashed"}
       /\ about = "transport" => \A o \in Owners : op[o] = "idle")

(* Discovery ends, whatever the devices do (discovery.py:23).              *)
EverySearchEnds == about = "discovery" => DiscoveryEnds
=============================================================================

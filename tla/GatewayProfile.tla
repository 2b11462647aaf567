--------------------------- MODULE GatewayProfile ---------------------------
(***************************************************************************)
(* The profiles of the gateway models and how an OWNGateway follows its    *)
(* firmware.  A firmware is the sequence of the numbers in it, as text, a  *)
(* tuple or a list give them; <<>> is none.  Of a profile, what a consumer *)
(* schedules by: the subsystems, the command sessions, the pauses.         *)
(***************************************************************************)
EXTENDS Integers, Sequences, FiniteSets

CONSTANTS Gateways,  \* OWNGateway objects
          Firmwares  \* sequences of numbers

ASSUME ProfileAssumption == Firmwares \subseteq Seq(Nat)

VARIABLE gateways \* of each: model_name, firmware, profile

DefaultWho == {1, 2, 3, 4, 15, 16, 17, 18, 22, 25}
WithoutCenPlus == DefaultWho \ {25}

(* parse_firmware_version(): at least three numbers.  Mutant: not padded. *)
PaddedNot(v) == v
Padded(v) == [i \in 1 .. (IF Len(v) < 3 THEN 3 ELSE Len(v)) |-> IF i <= Len(v) THEN v[i] ELSE 0]

(* Tuples are compared from the left; a longer one is later than its start. *)
(* Mutant: number by number. *)
AtLeastEach(v, w) == \A i \in DOMAIN w : i \in DOMAIN v /\ v[i] >= w[i]
AtLeast(v, w) ==
  \/ \E i \in DOMAIN v \cap DOMAIN w :
       v[i] > w[i] /\ \A j \in 1 .. i - 1 : v[j] = w[j]
  \/ Len(v) >= Len(w) /\ \A i \in DOMAIN w : v[i] = w[i]

Base == [who |-> DefaultWho, sessions |-> 1, start |-> 1, delay |-> 50, queue |-> 200,
         keepalive |-> 0]
F452 == [Base EXCEPT !.who = WithoutCenPlus, !.delay = 150]
F453 == [Base EXCEPT !.delay = 150]
F453AV(fw) ==
  [F453 EXCEPT !.who = IF AtLeast(Padded(fw), <<2, 1, 7>>) THEN DefaultWho ELSE WithoutCenPlus]
F454 == [Base EXCEPT !.sessions = 4, !.queue = 250, !.keepalive = 90]
(* Mutant: with the one session of the default. *)
F455Single == [Base EXCEPT !.who = {1, 2, 3, 4, 15, 17, 18, 25}, !.start = 2, !.queue = 250]
F455 == [Base EXCEPT !.who = {1, 2, 3, 4, 15, 17, 18, 25}, !.sessions = 4, !.start = 2, !.queue = 250]
F461 == [F454 EXCEPT !.who = DefaultWho \ {3, 16}]
MH200 == [Base EXCEPT !.who = {1, 2, 3, 4, 6, 8, 15, 16, 17}, !.delay = 150, !.queue = 100,
                      !.keepalive = 90]
MH200N == [MH200 EXCEPT !.who = {1, 2, 3, 4, 6, 8, 15, 16, 17, 22, 25}]
MH201 == [Base EXCEPT !.delay = 100, !.queue = 100]
MH202 == [Base EXCEPT !.who = DefaultWho \cup {5}, !.sessions = 2, !.delay = 100]
H4890 == [Base EXCEPT !.who = DefaultWho \cup {5}]
H4684(fw) ==
  [Base EXCEPT !.who = {1, 2, 3, 4, 15, 16, 18}
                       \cup (IF AtLeast(Padded(fw), <<6, 0, 0>>) THEN {22} ELSE {})]
MyHomeServer1 ==
  [Base EXCEPT !.who = DefaultWho \ {3, 16}, !.sessions = 4, !.start = 2, !.delay = 20, !.queue = 300]

(* get_gateway_profile() *)
Profiles(fw) ==
  [F452 |-> F452, F452V |-> F452, F453 |-> F453, F453AV |-> F453AV(fw), F454 |-> F454,
   F455 |-> F455, F461 |-> F461, H4684 |-> H4684(fw), H4890 |-> H4890, MH200 |-> MH200,
   MH200N |-> MH200N, MH201 |-> MH201, MH202 |-> MH202, MyHomeServer1 |-> MyHomeServer1,
   unknown |-> Base]
Models == DOMAIN Profiles(<<>>)
GetGatewayProfile(model, fw) == Profiles(fw)[model]

Described(model, fw) == [model |-> model, firmware |-> fw, profile |-> GetGatewayProfile(model, fw)]
ProfileInit == \E model \in [Gateways -> Models], fw \in Firmwares :
          gateways = [g \in Gateways |-> Described(model[g], fw)]

(* The setter of the firmware. *)
SetFirmware(g, fw) ==
  gateways' = [gateways EXCEPT ![g] = Described(gateways[g].model, fw)]

ProfileNext == \E g \in Gateways, fw \in Firmwares : SetFirmware(g, fw)
ProfileSpec == ProfileInit /\ [][ProfileNext]_gateways

(* supports_session_count(): the sessions a consumer starts with are among  *)
(* those the gateway bears.                                                 *)
ProfileTypeOK ==
  \A g \in Gateways :
    /\ gateways[g].model \in Models /\ gateways[g].firmware \in Firmwares
    /\ gateways[g].profile.who \subseteq 0 .. 25
    /\ gateways[g].profile.start \in 1 .. gateways[g].profile.sessions

(* Of two gateways of one model with firmware that means the same version,  *)
(* given with or without its last zeros, in whatever order it was set, both *)
(* have the same profile.                                                   *)
Part(v, i) == IF i \in DOMAIN v THEN v[i] ELSE 0
SameVersion(v, w) == \A i \in DOMAIN v \cup DOMAIN w : Part(v, i) = Part(w, i)
SameVersionSameProfile ==
  \A g, h \in Gateways :
    gateways[g].model = gateways[h].model /\ SameVersion(gateways[g].firmware, gateways[h].firmware)
      => gateways[g].profile = gateways[h].profile

(* A gateway that is updated never loses a subsystem.                       *)
Later(v, w) ==
  \E i \in DOMAIN v : v[i] > Part(w, i) /\ \A j \in 1 .. i - 1 : v[j] = Part(w, j)
AddsOnly ==
  \A g \in Gateways : Later(gateways'[g].firmware, gateways[g].firmware)
                        => gateways[g].profile.who \subseteq gateways'[g].profile.who
UpdateAddsOnly == [][AddsOnly]_gateways
=============================================================================

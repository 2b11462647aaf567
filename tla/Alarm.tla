------------------------------- MODULE Alarm -------------------------------
(***************************************************************************)
(* WHO 5, the burglar alarm: a panel that reports on itself, its zones and *)
(* its sensors with one set of WHATs, and a consumer that keeps what it is *)
(* told by the properties of the events: whether the panel is armed, which *)
(* zones are active, and which alarms have been raised.  A WHERE is the    *)
(* sequence of its characters.                                             *)
(***************************************************************************)
EXTENDS OwnFrame, FiniteSets

CONSTANTS
  Zones,   \* zones of the plant, as their WHERE says: <<Hash, ...>>
  Sensors, \* sensors, as their WHERE says: <<zone, ...>>
  Notices, \* what the panel reports besides and what moves nothing: delay end,
           \* power, reset, no reception, programming
  MaxWire,   \* bounds of the model: frames on the way to the consumer
  MaxAlarms  \* and alarms raised

VARIABLES
  panel,   \* [armed, active, raised]: the alarm itself
  command, \* a command on its way to the panel, or none: <<f>> or <<>>
  wire,    \* reports under way: [f, armed], the panel being armed or not
  known,   \* [armed, active, raised]: what the consumer has been told
  told     \* the panel was armed when it made the last report taken
vars == <<panel, command, wire, known, told>>
Hash == -1
C == 112 \* the letters of two zones
F == 115
Number == 0 \* before a zone that is a number, no text
System == <<>>  \* no WHERE, or the * that stands for none
Central == <<0>>

Activation == 1
Deactivation == 2
Engaged == 8
Disengaged == 9
ActiveZone == 11
NonActiveZone == 18
Alarms == {12, 15, 16, 17, 31}

(* A zone is written with digits after a hash; a sensor with the digit of  *)
(* its zone and its number, in one digit where that has one.               *)
Digits == 0 .. 9
AlarmAssumption ==
  /\ Zones \subseteq Seq({Hash} \cup Digits) /\ Sensors \subseteq Seq(Digits)
  /\ \A z \in Zones : Len(z) > 1 /\ z[1] = Hash /\ \A i \in 2 .. Len(z) : z[i] # Hash
  /\ \A s \in Sensors : Len(s) \in {2, 3} /\ (Len(s) = 3 => s[2] # 0)
  /\ Notices \subseteq Nat \ ({0, Activation, Deactivation, Engaged, Disengaged, ActiveZone, NonActiveZone}
                            \cup Alarms)
  /\ MaxWire \in Nat

(****************************** OWNAlarmEvent *****************************)

(* Whom an event is about.  The zone is text, the zone of a sensor is a    *)
(* number.  Mutant: an event about a zone is about the panel too.          *)
AboutPanel(w) ==
  [system |-> TRUE, zone |-> IF w = System THEN Null ELSE Tail(w), sensor |-> Null]
About(w) ==
  CASE w = System -> [system |-> TRUE, zone |-> Null, sensor |-> Null]
    [] w # System /\ w[1] = Hash ->
         [system |-> FALSE, sensor |-> Null,
          zone |-> CASE Tail(w) = <<1, 2>> -> <<C>> [] Tail(w) = <<1, 5>> -> <<F>> [] OTHER -> Tail(w)]
    [] w # System /\ w[1] # Hash /\ Len(w) > 1 ->
         [system |-> FALSE, zone |-> <<Number, w[1]>>, sensor |-> IF Len(w) = 2 THEN w[2] ELSE 10 * w[2] + w[3]]
    [] OTHER -> [system |-> TRUE, zone |-> Null, sensor |-> Null]

(* Mutant: the panel is armed when the system is operational. *)
ArmedWhenActive(f) == f.what \in {Activation, Engaged} /\ About(f.where).system
IsArmedAway(f) == f.what = Engaged /\ About(f.where).system
IsDisarmed(f) == f.what \in {0, Deactivation, Disengaged} /\ About(f.where).system
IsZoneActive(f) == f.what = ActiveZone /\ ~About(f.where).system
IsZoneInactive(f) == f.what = NonActiveZone /\ ~About(f.where).system
(* Mutant: a silent alarm is none. *)
IsAudible(f) == f.what \in Alarms \ {31}
IsAlarm(f) == f.what \in Alarms

(***************************** OWNAlarmCommand ****************************)

(* A zone is asked for by its number, with or without the hash.  Mutant:   *)
(* it is left out.                                                         *)
StatusBare(w) == StatusRequest(5, w)
StatusOf(w) ==
  CASE w = System -> StatusRequest(5, System)
    [] w = Central -> StatusRequest(5, Central)
    [] OTHER -> StatusRequest(5, IF w[1] = Hash THEN w ELSE <<Hash>> \o w)
Disarm(w) == Status(5, Deactivation, <<>>, w)
ArmAway(w) == Status(5, Activation, <<>>, w) \* and arm_home
Trigger(w) == Status(5, 17, <<>>, w)         \* and panic
Engage(w) == Status(5, Engaged, <<>>, w)
Disengage(w) == Status(5, Disengaged, <<>>, w)

Send ==
  /\ command = <<>>
  /\ \E f \in {StatusOf(w) : w \in Zones \cup {Tail(z) : z \in Zones} \cup {System, Central}}
              \cup {Disarm(Central), ArmAway(Central), Trigger(Central), Engage(Central),
                    Disengage(Central)} : command' = <<f>>
  /\ UNCHANGED <<panel, wire, known, told>>

(******************************* the panel ********************************)

Reports(whats, w) ==
  wire' = wire \o [i \in DOMAIN whats |->
                    [f |-> Status(5, whats[i], <<>>, w), armed |-> panel'.armed]]
Room == Len(wire) + 3 <= MaxWire

(* Arming is one report; disarming tells that the system is operational    *)
(* between its other two.                                                  *)
Arm == panel' = [panel EXCEPT !.armed = TRUE] /\ Reports(<<Engaged>>, Central)
StandDown ==
  /\ panel' = [panel EXCEPT !.armed = FALSE]
  /\ Reports(<<Deactivation, Activation, Disengaged>>, Central)
Raise(what, w) ==
  /\ Cardinality(panel.raised) < MaxAlarms
  /\ panel' = [panel EXCEPT !.raised = @ \cup {<<what, w>>}]
  /\ Reports(<<what>>, w)
(* What a panel tells when asked, of itself or of a zone. *)
Dump(w) ==
  /\ UNCHANGED panel
  /\ IF w \in Zones THEN Reports(<<IF w \in panel.active THEN ActiveZone ELSE NonActiveZone>>, w)
     ELSE IF panel.armed THEN Reports(<<Engaged>>, Central)
     ELSE Reports(<<Activation, Disengaged>>, Central)

Obey(f) ==
  \/ f.type = "STATUS_REQUEST" /\ Dump(f.where)
  \/ f.what = Engaged /\ Arm
  \/ f.what \in {Deactivation, Disengaged} /\ StandDown
  \/ f.what = 17 /\ Raise(17, Central)
(* A panel carries out a command or refuses it; activation arms nothing. *)
CarryOut ==
  /\ command # <<>> /\ Room
  /\ Obey(command[1]) \/ (command[1].type = "STATUS" /\ UNCHANGED <<panel, wire>>)
  /\ command' = <<>> /\ UNCHANGED <<known, told>>

(* What happens at the panel, in the zones and at the sensors. *)
Happens ==
  /\ Room
  /\ \/ Arm \/ StandDown
     \/ panel' = [panel EXCEPT !.armed = FALSE] /\ Reports(<<0>>, System) \* maintenance
     \/ \E z \in Zones :
          \/ panel' = [panel EXCEPT !.active = @ \cup {z}] /\ Reports(<<ActiveZone>>, z)
          \/ panel' = [panel EXCEPT !.active = @ \ {z}] /\ Reports(<<NonActiveZone>>, z)
          \/ Raise(15, z) \/ Raise(31, z) \/ Raise(12, z)
     \/ \E s \in Sensors : Raise(15, s) \/ Raise(16, s)
     \/ \E what \in Notices : UNCHANGED panel /\ Reports(<<what>>, System)
     \/ \E z \in Zones, what \in {Engaged, Disengaged, Activation} :
          UNCHANGED panel /\ Reports(<<what>>, z) \* a partition, not the panel
  /\ UNCHANGED <<command, known, told>>

(****************************** the consumer ******************************)

Follow(k, f) ==
  LET z == About(f.where).zone IN
  [armed  |-> IF IsDisarmed(f) THEN FALSE ELSE k.armed \/ IsArmedAway(f),
   active |-> CASE IsZoneActive(f) -> k.active \cup {z}
                [] IsZoneInactive(f) -> k.active \ {z}
                [] OTHER -> k.active,
   raised |-> k.raised \cup (IF IsAlarm(f) THEN {<<f.what, About(f.where)>>} ELSE {})]
Take ==
  /\ wire # <<>>
  /\ known' = Follow(known, Head(wire).f) /\ told' = Head(wire).armed
  /\ wire' = Tail(wire) /\ UNCHANGED <<panel, command>>

Init ==
  /\ panel = [armed |-> FALSE, active |-> {}, raised |-> {}]
  /\ known = panel /\ told = FALSE
  /\ command = <<>> /\ wire = <<>>

Next == Send \/ CarryOut \/ Happens \/ Take
Spec == Init /\ [][Next]_vars

(******************************* properties *******************************)

(* Besides the bounds: a zone is asked about by its own address. *)
TypeOK ==
  /\ Len(wire) <= MaxWire
  /\ known.armed \in BOOLEAN
  /\ command # <<>> => command[1].where \in Zones \cup {System, Central}

(* The consumer always has the panel armed or not as it was when it made   *)
(* the last report taken, and as it is once every report is taken: neither *)
(* what zones and sensors report nor the activation that a panel reports   *)
(* while it disarms moves it.                                              *)
PanelKnown ==
  /\ known.armed = told
  /\ wire = <<>> => known.armed = panel.armed

(* Once every report is taken it has the active zones, each by a name of   *)
(* its own.                                                                *)
ZonesKnown ==
  wire = <<>> =>
    /\ known.active = {About(z).zone : z \in panel.active}
    /\ Cardinality(known.active) = Cardinality(panel.active)

(* Likewise it has every alarm that was raised and no other, and knows the *)
(* alarm of a zone from that of its sensor and of the panel.               *)
AlarmsKnown ==
  wire = <<>> =>
    /\ known.raised = {<<alarm[1], About(alarm[2])>> : alarm \in panel.raised}
    /\ Cardinality(known.raised) = Cardinality(panel.raised)
=============================================================================

------------------------------ MODULE Followers ------------------------------
(***************************************************************************)
(* The families whose events a consumer follows, side by side: what it     *)
(* knows must be what the plant is, once every event has arrived.  A       *)
(* behaviour is about one of them, and the variables of the others rest:   *)
(* which family an event is of is decided by its WHO, and no decoder keeps *)
(* anything between two events.                                            *)
(***************************************************************************)
EXTENDS OwnFrame

CONSTANTS
  AlarmZones, AlarmSensors, AlarmNotices, AlarmWire, MaxAlarms,       \* Alarm
  KeyPoints, KeyObjects, KeySensors, KeyButtons, KeyWire, MaxPress,   \* Cen
  Advanced, Basic, LockBases, BusSpelled, Levels, Unknowns, ShutterWire, \* Shutter
  Modules, Scenarios, Scenes, SceneWire, MaxLaunch,                   \* Scenario
  Loads, LoadsTried, Readings, LoadWire,                              \* Load
  Devices, Faults, DevicesAsked, MaxFaulty, DeviceWire                \* Diagnostics

VARIABLES about, wire, known,
          panel, command, told,                 \* Alarm; told: Load too
          phase, presses, closed,               \* Cen
          plant, locked, orders,                \* Shutter
          module, starts, on, enabled,          \* Scenario
          load, order,                          \* Load
          faulty                                \* Diagnostics
panels == <<panel, command>>
keys == <<phase, presses, closed>>
shutters == <<plant, locked, orders>>
scenes == <<module, starts, on, enabled>>
loads == <<load, order>>
vars == <<about, wire, known, told, panels, keys, shutters, scenes, loads, faulty>>

A == INSTANCE Alarm WITH
       Zones <- AlarmZones, Sensors <- AlarmSensors, Notices <- AlarmNotices, MaxWire <- AlarmWire
C == INSTANCE Cen WITH
       Points <- KeyPoints, Objects <- KeyObjects, Sensors <- KeySensors, Buttons <- KeyButtons,
       MaxWire <- KeyWire
S == INSTANCE Shutter WITH Bases <- LockBases, Spelled <- BusSpelled, MaxWire <- ShutterWire
P == INSTANCE Scenario WITH Numbers <- Scenarios, MaxWire <- SceneWire
L == INSTANCE Load WITH Tried <- LoadsTried, MaxWire <- LoadWire
G == INSTANCE Diagnostics WITH Asked <- DevicesAsked, MaxWire <- DeviceWire

ASSUME FollowersAssumption ==
  /\ A!AlarmAssumption /\ C!CenAssumption /\ S!ShutterAssumption
  /\ P!ScenarioAssumption /\ L!LoadAssumption /\ G!DiagnosticsAssumption

PanelRests == panel = 0 /\ command = 0
KeysRest == phase = 0 /\ presses = 0 /\ closed = 0
ShuttersRest == plant = 0 /\ locked = 0 /\ orders = 0
ScenesRest == module = 0 /\ starts = 0 /\ on = 0 /\ enabled = 0
LoadsRest == load = 0 /\ order = 0
DevicesRest == faulty = 0

Init ==
  \/ about = "alarm" /\ A!Init /\ KeysRest /\ ShuttersRest /\ ScenesRest /\ LoadsRest /\ DevicesRest
  \/ about = "keys" /\ C!Init /\ told = 0 /\ PanelRests /\ ShuttersRest /\ ScenesRest /\ LoadsRest /\ DevicesRest
  \/ about = "shutters" /\ S!Init /\ told = 0 /\ PanelRests /\ KeysRest /\ ScenesRest /\ LoadsRest /\ DevicesRest
  \/ about = "scenes" /\ P!Init /\ told = 0 /\ PanelRests /\ KeysRest /\ ShuttersRest /\ LoadsRest /\ DevicesRest
  \/ about = "loads" /\ L!Init /\ PanelRests /\ KeysRest /\ ShuttersRest /\ ScenesRest /\ DevicesRest
  \/ about = "devices" /\ G!Init /\ told = 0 /\ PanelRests /\ KeysRest /\ ShuttersRest /\ ScenesRest /\ LoadsRest

Alarm_Next == about = "alarm" /\ A!Next /\ UNCHANGED <<about, keys, shutters, scenes, loads, faulty>>
Cen_Next == about = "keys" /\ C!Next /\ UNCHANGED <<about, told, panels, shutters, scenes, loads, faulty>>
Shutter_Next == about = "shutters" /\ S!Next /\ UNCHANGED <<about, told, panels, keys, scenes, loads, faulty>>
Scenario_Next == about = "scenes" /\ P!Next /\ UNCHANGED <<about, told, panels, keys, shutters, loads, faulty>>
Load_Next == about = "loads" /\ L!Next /\ UNCHANGED <<about, panels, keys, shutters, scenes, faulty>>
Diagnostics_Next == about = "devices" /\ G!Next /\ UNCHANGED <<about, told, panels, keys, shutters, scenes, loads>>

Next == Alarm_Next \/ Cen_Next \/ Shutter_Next \/ Scenario_Next \/ Load_Next \/ Diagnostics_Next
Spec == Init /\ [][Next]_vars

(* A consumer that takes every event has the plant as it is: the panel,    *)
(* its zones and alarms, the keys and contacts, the shutters and locks,    *)
(* the modules and scenes, the loads and the meter, the faults of each     *)
(* device (the events of WHO 2, 3, 5, 14, 0, 17, 15, 25 and 1004).         *)
ConsumerKnows ==
  /\ about = "alarm" => A!TypeOK /\ A!PanelKnown /\ A!ZonesKnown /\ A!AlarmsKnown
  /\ about = "keys" => C!TypeOK /\ C!KeysKnown /\ C!ContactsKnown
  /\ about = "shutters" => S!TypeOK /\ S!ShutterKnown /\ S!LocksKnown
  /\ about = "scenes" => P!TypeOK /\ P!ModulesKnown /\ P!ScenesKnown
  /\ about = "loads" => L!TypeOK /\ L!LoadsKnown /\ L!MeterKnown
  /\ about = "devices" => G!TypeOK /\ G!FaultsKnown

(* What somebody does arrives once and where it is meant: a press is one   *)
(* press and a launch one launch at any time, a lock and a request reach   *)
(* the device they name, and an answer tells which it is from (cen.py:136, *)
(* scenario.py:37, actuator_lock.py:47, heating.py:1644).                  *)
ActsArriveOnce ==
  /\ about = "keys" => C!PressesCounted
  /\ about = "scenes" => P!LaunchesCounted
  /\ about = "shutters" => S!LockReaches
  /\ about = "devices" => G!ScopesAreTrue /\ G!RequestsAreReadable
=============================================================================

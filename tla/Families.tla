------------------------------ MODULE Families ------------------------------
(***************************************************************************)
(* The modules that write and read lines, side by side: Dispatch, and the  *)
(* families whose commands cross a bus and come back as reports.  Which    *)
(* family a line belongs to is decided by its WHO, and no family touches   *)
(* what another keeps: a behaviour is about one of them, and the variables *)
(* of the others rest; a line rests as it came.                            *)
(***************************************************************************)
EXTENDS Dispatch

CONSTANTS
  Houses, NoGateway, LightWheres,                        \* Lighting
  HeatingWheres, Quarters, Temperatures, HeatingWire,    \* Heating
  SoundNumbers, Frequencies, SoundWire,                  \* Sound
  StartDays, MaxTicks, Dates, MeterNumbers, MeterWire,   \* Energy
  DoorAddresses, DoorWire,                               \* DoorEntry
  HalfHours, TimeZones, Before, After, SwitchMoment, Years, Moments, Start, End, ClockWire \* GatewayClock

VARIABLES about, commands, reports,
          setup, registry, coarse, level, learned,  \* Lighting
          today, ticks, breaker,                    \* Energy
          now, clock, tz, late, astray               \* GatewayClock
lights == <<setup, registry, coarse, level, learned>>
meters == <<today, ticks, breaker>>
clocks == <<now, clock, tz, late, astray>>
familyVars == <<about, commands, reports, vars, lights, meters, clocks>>

L == INSTANCE Lighting WITH Setups <- Houses, Wheres <- LightWheres
H == INSTANCE Heating WITH Wheres <- HeatingWheres, Readings <- Temperatures, MaxWire <- HeatingWire
S == INSTANCE Sound WITH Numbers <- SoundNumbers, MaxWire <- SoundWire
E == INSTANCE Energy WITH Numbers <- MeterNumbers, MaxWire <- MeterWire
D == INSTANCE DoorEntry WITH Addresses <- DoorAddresses, MaxWire <- DoorWire
C == INSTANCE GatewayClock WITH Day <- HalfHours, Zones <- TimeZones, Switch <- SwitchMoment,
     MaxWire <- ClockWire

ASSUME FamiliesAssumption ==
  /\ L!LightingAssumption /\ H!HeatingAssumption /\ S!SoundAssumption
  /\ E!EnergyAssumption /\ D!DoorEntryAssumption /\ C!ClockAssumption

LinesRest == Init /\ line = [hash |-> TRUE, who |-> NoWho, number |-> 1, fields |-> <<"n">>]
LightsRest == setup = 0 /\ registry = 0 /\ coarse = 0 /\ level = 0 /\ learned = 0
MetersRest == today = 0 /\ ticks = 0 /\ breaker = 0
ClocksRest == now = 0 /\ clock = 0 /\ tz = 0 /\ late = 0 /\ astray = 0
OthersRest == LinesRest /\ LightsRest /\ MetersRest /\ ClocksRest

FamiliesInit ==
  \/ /\ about = "lines" /\ Init /\ LightsRest /\ MetersRest /\ ClocksRest
     /\ commands = <<>> /\ reports = <<>>
  \/ about = "lights" /\ L!Init /\ LinesRest /\ MetersRest /\ ClocksRest
  \/ about = "heating" /\ H!Init /\ OthersRest
  \/ about = "sound" /\ S!BusInit /\ OthersRest
  \/ about = "meters" /\ E!Init /\ LinesRest /\ LightsRest /\ ClocksRest
  \/ about = "doors" /\ D!BusInit /\ OthersRest
  \/ about = "clock" /\ C!Init /\ LinesRest /\ LightsRest /\ MetersRest

Dispatch_Next == about = "lines" /\ Next /\ UNCHANGED <<about, commands, reports, lights, meters, clocks>>
Lighting_Next == about = "lights" /\ L!Next /\ UNCHANGED <<about, vars, meters, clocks>>
Bus_Only == UNCHANGED <<about, vars, lights, meters, clocks>>
Heating_Next == about = "heating" /\ H!Next /\ Bus_Only
Sound_Next == about = "sound" /\ S!Next /\ Bus_Only
DoorEntry_Next == about = "doors" /\ D!Next /\ Bus_Only
Energy_Next == about = "meters" /\ E!Next /\ UNCHANGED <<about, vars, lights, clocks>>
Clock_Next == about = "clock" /\ C!Next /\ UNCHANGED <<about, vars, lights, meters>>

FamiliesNext ==
  \/ Dispatch_Next \/ Lighting_Next \/ Heating_Next \/ Sound_Next \/ DoorEntry_Next
  \/ Energy_Next \/ Clock_Next
FamiliesSpec == FamiliesInit /\ [][FamiliesNext]_familyVars

(* An event says of the plant what was so when its report left it, and     *)
(* nothing of anything else (the decoders of WHO 1, 4, 5, 6, 8, 13, 16,    *)
(* 18 and 22).                                                             *)
EventsTellTheTruth ==
  /\ about = "lights" => L!EventsTellTheTruth
  /\ about = "heating" => H!EventsTellTheTruth
  /\ about = "sound" => S!EventsTellTheTruth
  /\ about = "meters" => E!ReadingsAreTrue
  /\ about = "doors" => D!EventsTell /\ D!TellsOneThing
  /\ about = "clock" => C!EventsTell

(* A command is a legal frame, reaches whom its caller means and has the   *)
(* effect the caller asked for (the builders of the same WHOs).            *)
CommandsAreObeyed ==
  /\ about = "lights" => L!TypeOK /\ L!ReportsDecide /\ L!CommandsAreObeyed
  /\ about = "heating" => H!TypeOK /\ H!CommandsAreRouted /\ H!CommandsReadBack
  /\ about = "sound" => S!TypeOK /\ S!RoutesAreRead
  /\ about = "doors" => D!TypeOK

(* The year that is deduced is the one its rule gives, at New Year, on     *)
(* leap days and over midnight; the clock is right in every time zone, but *)
(* for the days its date and time were set apart (energy.py:113-160,       *)
(* gateway.py:480-560).                                                    *)
DatesAreRight ==
  /\ about = "meters" => E!TypeOK /\ E!SamplesAreDated /\ E!TablesAreDated
  /\ about = "clock" => C!TypeOK /\ C!ClockIsRight
=============================================================================

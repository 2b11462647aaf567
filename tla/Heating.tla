------------------------------- MODULE Heating -------------------------------
(***************************************************************************)
(* WHO 4.  Commands for a zone or a central unit are built, carried out    *)
(* and reported back, and zones report measurements, valves and states of  *)
(* their own; OWNHeatingEvent decodes every report.  The plant is          *)
(* external.  A temperature is in tenths of a degree, an address a record  *)
(* of its sharp, its number and its parameters.                            *)
(***************************************************************************)
EXTENDS OwnFrame, TLC

CONSTANTS Wheres,    \* addresses given to the builders
          Quarters,  \* temperatures asked for, in quarters of a degree
          Readings,  \* temperatures measured, in tenths of a degree
          MaxWire    \* bound of the model: frames under way

VARIABLES commands, \* frames built, each with what its caller wants
          reports   \* frames on the way back, each with what it has to tell
vars == <<commands, reports>>

(* What the constants are. *)
HeatingAssumption ==
  /\ \A w \in Wheres : w = [hash |-> w.hash, n |-> w.n, par |-> w.par]
                      /\ w.hash \in BOOLEAN /\ w.n \in 0 .. 99 /\ w.par \in Seq(0 .. 99)
  /\ Quarters \subseteq Int /\ Readings \subseteq -999 .. 999 /\ MaxWire \in Nat

Addr(hash, n, par) == [hash |-> hash, n |-> n, par |-> par]
Clamp(low, high, n) == IF n < low THEN low ELSE IF n > high THEN high ELSE n

(* who4_temperature: SXXX, read as a number. *)
Temperature(raw) ==
  IF raw \notin 0 .. 1999 THEN Null
  ELSE IF raw >= 1000 THEN -(raw % 1000) ELSE raw

(* Mutant: the sign is left to the number. *)
EncodeSigned(hundredths) == hundredths \div 10
(* encode_temperature, from hundredths of a degree: half up, S the sign. *)
EncodeTemperature(hundredths) ==
  LET size   == IF hundredths < 0 THEN -hundredths ELSE hundredths
      tenths == (size + 5) \div 10
  IN IF hundredths < 0 /\ tenths # 0 THEN 1000 + tenths ELSE tenths

(*************************** OWNHeatingEvent ******************************)

NoEvent ==
  [type |-> "none", mode |-> "none", season |-> "none", set |-> Null, program |-> Null,
   scenario |-> Null, days |-> Null, measured |-> Null, sensor |-> Null, active |-> Null,
   fan |-> Null, state |-> Null, context |-> Null, offset |-> Null, span |-> <<>>]

(* #0#N is zone N of a 4-zone central unit; a number above 99 is a sensor  *)
(* and its zone.                                                           *)
(* Mutant: 0#N, actuator N of zone 0, is read as zone N. *)
ZoneOfAny(w) == IF w.n = 0 /\ w.par # <<>> THEN w.par[1] ELSE w.n % 100
ZoneOf(w) ==
  LET n == IF w.n = 0 /\ w.hash /\ w.par # <<>> THEN w.par[1] ELSE w.n
  IN IF n > 99 THEN n % 100 ELSE n
SensorOf(w) == IF w.n > 99 THEN w.n \div 100 ELSE Null
UniqueId(w) ==
  IF ZoneOf(w) = 0 THEN <<"central">>
  ELSE IF SensorOf(w) # Null THEN <<"sensor", w.n>> ELSE <<"zone", ZoneOf(w)>>

Holiday == (13001 .. 13255) \cup (23001 .. 23255) \cup (33001 .. 33255)
Programs == (1101 .. 1103) \cup (2101 .. 2103) \cup (3101 .. 3116)
Scenarios == (1201 .. 1216) \cup (2201 .. 2216) \cup (3201 .. 3216)

ModeOf(what) ==
  CASE what \in {102, 103, 202, 203, 302, 303} -> "off"
    [] what \in {210, 211, 212, 215} \cup 2101 .. 2103 \cup 2201 .. 2216 \cup 23001 .. 23255 -> "cool"
    [] what \in {110, 111, 112, 115} \cup 1101 .. 1103 \cup 1201 .. 1216 \cup 13001 .. 13255 -> "heat"
    [] what \in {310, 311, 312, 315} \cup 3101 .. 3116 \cup 3201 .. 3216 \cup 33001 .. 33255 -> "auto"
    [] OTHER -> "none"
SeasonOf(what) ==
  CASE what \in {102, 103} \/ ModeOf(what) = "heat" -> "heating"
    [] what \in {202, 203} \/ ModeOf(what) = "cool" -> "conditioning"
    [] OTHER -> "none"

(* A WHAT: a bare 0 or 1 is the season; the parameter of a daily plan or   *)
(* of a holiday is the program to resume, that of another mode a setpoint. *)
(* Mutant: every parameter is read as a temperature. *)
EventOfWhatWarm(what, par) ==
  [NoEvent EXCEPT !.type = "mode_target", !.mode = ModeOf(what), !.season = SeasonOf(what),
     !.set = IF par = <<>> THEN Null ELSE Temperature(par[1])]
EventOfWhat(what, par) ==
  LET mode == [NoEvent EXCEPT !.type = "mode", !.mode = ModeOf(what), !.season = SeasonOf(what),
                 !.days = IF what \in Holiday THEN what % 1000 ELSE Null,
                 !.program = IF what \in Programs THEN what % 100 ELSE Null,
                 !.scenario = IF what \in Scenarios THEN what % 100 ELSE Null]
  IN IF what \in {0, 1} /\ par = <<>>
     THEN [NoEvent EXCEPT !.type = "season", !.season = IF what = 1 THEN "heating" ELSE "conditioning"]
     ELSE IF ModeOf(what) = "none" THEN NoEvent
     ELSE IF par = <<>> THEN mode
     ELSE IF what \in Holiday \cup {115, 215, 315} THEN [mode EXCEPT !.program = par[1] % 100]
     ELSE [mode EXCEPT !.type = "mode_target", !.set = Temperature(par[1])]

(* DIMENSION 7: a setpoint has a temperature; a half-known frame tells     *)
(* nothing, and a write is a command, not a state.                         *)
ZoneState(v) ==
  IF Len(v) < 2 \/ v[1] \notin 0 .. 3 \/ v[2] \notin 1 .. 5 THEN NoEvent
  ELSE [NoEvent EXCEPT !.type = "zone_state", !.context = v[1], !.state = v[2],
          !.set = IF v[2] = 1 /\ Len(v) > 2 THEN Temperature(v[3]) ELSE Null]

(* DIMENSION 13: the values 11 to 13 are negative offsets. *)
LocalOffset(n) ==
  [NoEvent EXCEPT !.type = "local_offset",
     !.offset = CASE n \in 0 .. 3 -> n [] n \in 11 .. 13 -> 10 - n [] OTHER -> Null]

(* A valve or actuator value: 5 is a fan coil that is off, 6 to 8 its      *)
(* speeds, 9 (of an actuator) its automatic speed.                         *)
ValveActive(n) == n \in {1, 2, 6, 7, 8}
FanOf(n) == IF n > 5 THEN n - 5 ELSE Null
Valves(v) ==
  [NoEvent EXCEPT !.type = "action", !.fan = FanOf(v[2]),
     !.active = ValveActive(v[1]) \/ ValveActive(v[2]) \/ v[1] > 5 \/ v[2] > 5]
Actuator(n) ==
  [NoEvent EXCEPT !.type = "action", !.active = ValveActive(n) \/ n > 5,
                  !.fan = IF n \in 6 .. 8 THEN n - 5 ELSE Null]

Measured(type, raw) == [NoEvent EXCEPT !.type = type, !.measured = Temperature(raw)]

EventOfDimension(f) ==
  LET v == f.val written == f.type = "DIMENSION_WRITING"
  IN CASE f.dim = 0  -> [Measured(IF SensorOf(f.where) = Null THEN "main" ELSE "secondary", v[1])
                           EXCEPT !.sensor = SensorOf(f.where)]
       [] f.dim = 7 /\ ~written -> ZoneState(v)
       [] f.dim = 11 -> [NoEvent EXCEPT !.type = "fan_speed", !.active = v[1] < 4,
                                        !.fan = IF v[1] < 4 THEN v[1] ELSE Null]
       [] f.dim = 12 -> Measured("local_target", v[1])
       [] f.dim = 13 -> LocalOffset(v[1])
       [] f.dim = 14 -> [NoEvent EXCEPT !.type = "target", !.set = Temperature(v[1])]
       [] f.dim = 15 -> IF Len(v) >= 2
                        THEN [Measured("secondary", v[2]) EXCEPT !.sensor = v[1]]
                        ELSE Measured("secondary", v[1])
       [] f.dim = 19 /\ Len(v) >= 2 -> Valves(v)
       [] f.dim = 20 -> Actuator(v[1])
       [] f.dim \in {30, 31, 32} /\ ~written -> [NoEvent EXCEPT !.span = v]
       [] f.dim = 60 -> [NoEvent EXCEPT !.type = "humidity", !.measured = v[1]]
       [] OTHER -> NoEvent

HeatingEvent(f) ==
  IF f.type = "STATUS" THEN EventOfWhat(f.what, f.wpar)
  ELSE IF f.val = <<>> THEN NoEvent ELSE EventOfDimension(f)

(************************** OWNHeatingCommand *****************************)

Refuse == [type |-> "refused"]

(* _validate_central_where *)
IsCentral(w) == w.hash /\ w.n = 0 /\ (w.par = <<>> \/ (Len(w.par) = 1 /\ w.par[1] \in 1 .. 99))
(* _zone_address_and_name: two fields keep both and get a sharp. *)
IsZone(w) == Len(w.par) <= 1
ZoneAddress(w, standalone) ==
  Addr(w.par # <<>> \/ ~standalone \/ w.n = 0, w.n, w.par)

Status4(what, par, w) == Status(4, what, par, w)
(* Mutant: a standalone zone gets automatic directly. *)
SetModeDirect(w, mode, standalone) ==
  Status4(IF mode = "auto" THEN 311 ELSE 303, <<>>, ZoneAddress(w, standalone))
SetMode(w, mode, standalone) ==
  LET zone == ZoneAddress(w, standalone)
      codes == [off |-> 303, auto |-> 311, protection |-> 302, antifreeze |-> 102,
                thermal_protection |-> 202]
  IN IF ~IsZone(w) \/ mode \notin DOMAIN codes THEN Refuse
     ELSE Status4(codes[mode], <<>>, IF mode = "auto" THEN [zone EXCEPT !.hash = TRUE] ELSE zone)

(* round(t * 2) / 2, kept within 5 and 40 degrees; a tie goes to even. *)
Setpoint(quarters) ==
  5 * Clamp(10, 80, IF quarters % 4 = 3 THEN (quarters + 1) \div 2 ELSE quarters \div 2)
SeasonCodes == [heat |-> 1, cool |-> 2, auto |-> 3, generic |-> 3]

SetTemperature(w, quarters, mode, standalone) ==
  IF ~IsZone(w) \/ mode \notin DOMAIN SeasonCodes THEN Refuse
  ELSE DimensionWriting(4, ZoneAddress(w, standalone), 14, <<Setpoint(quarters), SeasonCodes[mode]>>)
SetCentralTemperature(w, quarters, mode) ==
  IF ~IsCentral(w) \/ mode \notin DOMAIN SeasonCodes THEN Refuse
  ELSE DimensionWriting(4, w, 14, <<Setpoint(quarters), SeasonCodes[mode]>>)
SetFanSpeed(w, speed) ==
  IF ~IsZone(w) \/ w.n \notin 1 .. 99 \/ speed \notin 0 .. 3 THEN Refuse
  ELSE DimensionWriting(4, Addr(FALSE, w.n, <<>>), 11, <<speed>>)
SetCentralMode(w, mode) ==
  LET codes == [off |-> 303, heat |-> 1, cool |-> 0, auto |-> 311, antifreeze |-> 102,
                protection |-> 302]
  IN IF ~IsCentral(w) \/ mode \notin DOMAIN codes THEN Refuse
     ELSE Status4(codes[mode], <<>>, w)
SetCentralProgram(w, p) ==
  IF ~IsCentral(w) \/ p \notin 1 .. 16 THEN Refuse ELSE Status4(3100 + p, <<>>, w)
SetCentralScenario(w, s) ==
  IF ~IsCentral(w) \/ s \notin 1 .. 16 THEN Refuse ELSE Status4(3200 + s, <<>>, w)
SetTimedManual(w, quarters, hours, standalone) ==
  IF ~IsZone(w) \/ hours \notin 1 .. 24 THEN Refuse
  ELSE Status4(312, <<Setpoint(quarters), hours>>, ZoneAddress(w, standalone))
SetCentralWeekend(w, p) ==
  IF ~IsCentral(w) \/ p \notin 1 .. 16 THEN Refuse ELSE Status4(315, <<3100 + p>>, w)
SetCentralHoliday(w, d, p) ==
  IF ~IsCentral(w) \/ d \notin 1 .. 255 \/ p \notin 1 .. 16 THEN Refuse
  ELSE Status4(33000 + d, <<3100 + p>>, w)
SetHolidayEndDate(w, d, m, y) ==
  IF ~IsCentral(w) \/ d \notin 1 .. 31 \/ m \notin 1 .. 12 \/ y \notin 2000 .. 2099 THEN Refuse
  ELSE DimensionWriting(4, w, 30, <<d, m, y>>)
SetHolidayEndTime(w, h, m) ==
  IF ~IsCentral(w) \/ h \notin 0 .. 23 \/ m \notin 0 .. 59 THEN Refuse
  ELSE DimensionWriting(4, w, 31, <<h, m>>)
SetTimedManualEndTime(w, h, m) ==
  IF ~IsCentral(w) \/ h \notin 0 .. 24 \/ m \notin 0 .. 59 THEN Refuse
  ELSE DimensionWriting(4, w, 32, <<h, m>>)
ReportTemperature(w, hundredths) ==
  IF hundredths \notin -9990 .. 9990 THEN Refuse
  ELSE DimensionReply(4, w, 0, <<EncodeTemperature(hundredths)>>)
WriteTemperature(w, hundredths) ==
  IF hundredths \notin -9990 .. 9990 THEN Refuse
  ELSE DimensionWriting(4, w, 0, <<EncodeTemperature(hundredths)>>)

(******************************** actions *********************************)

(* The zone an address names for the caller: #0#N is zone N. *)
ZoneAsked(w) == IF w.n = 0 /\ w.par # <<>> THEN w.par[1] ELSE w.n
Said(kind, zone, n) == [kind |-> kind, zone |-> zone, n |-> n]

Init == commands = <<>> /\ reports = <<>>

Wire == Len(commands) + Len(reports)
Post(f, kind, w, n) ==
  /\ Wire < MaxWire /\ f # Refuse
  /\ commands' = Append(commands, [f |-> f, want |-> Said(kind, ZoneAsked(w), n)])
  /\ UNCHANGED reports

Modes == {"off", "heat", "cool", "auto", "protection", "antifreeze", "thermal_protection", "dry"}
Bounds == {0, 1, 2, 16, 17, 24, 25, 255, 256}
Endings == {<<0, 0>>, <<23, 59>>, <<24, 0>>, <<12, 60>>}

CommandZone(w) ==
  \E alone \in BOOLEAN :
    \/ \E m \in Modes : Post(SetMode(w, m, alone), "mode", w, m)
    \/ \E q \in Quarters, m \in Modes : Post(SetTemperature(w, q, m, alone), "set", w, q)
    \/ \E q \in Quarters, h \in Bounds : Post(SetTimedManual(w, q, h, alone), "set", w, q)
    \/ \E s \in -1 .. 4 : Post(SetFanSpeed(w, s), "fan", w, s)
CommandCentral(w) ==
  \/ \E m \in Modes : Post(SetCentralMode(w, m), "mode", w, m)
  \/ \E q \in Quarters, m \in Modes : Post(SetCentralTemperature(w, q, m), "set", w, q)
  \/ \E p \in Bounds :
       \/ Post(SetCentralProgram(w, p), "program", w, p)
       \/ Post(SetCentralScenario(w, p), "scenario", w, p)
       \/ Post(SetCentralWeekend(w, p), "program", w, p)
       \/ \E d \in Bounds : Post(SetCentralHoliday(w, d, p), "holiday", w, <<d, p>>)
  \/ \E d \in {0, 31, 32}, m \in {1, 12, 13}, y \in {1999, 2000, 2099} :
       Post(SetHolidayEndDate(w, d, m, y), "span", w, <<d, m, y>>)
  \/ \E e \in Endings : \/ Post(SetHolidayEndTime(w, e[1], e[2]), "span", w, e)
                        \/ Post(SetTimedManualEndTime(w, e[1], e[2]), "span", w, e)
Announce(w) ==
  /\ ~w.hash /\ w.n > 0
  /\ \E t \in Readings, d \in -5 .. 5 :
       \/ Post(ReportTemperature(w, 10 * t + d), "report", w, 10 * t + d)
       \/ Post(WriteTemperature(w, 10 * t + d), "report", w, 10 * t + d)

(* The plant carries a command out.  It reports with the address it was    *)
(* given or with the bare zone, a setpoint as a target, as a zone state or *)
(* as a local target; the event monitor may see the write itself too.      *)
Places(f) == {f.where} \cup (IF f.where.n > 0 THEN {Addr(FALSE, f.where.n, <<>>)} ELSE {})
MovedTo(f, w) == [f EXCEPT !.where = w]
Replies(f) ==
  CASE f.type = "STATUS" -> {MovedTo(f, w) : w \in Places(f)}
    [] f.dim = 14 -> UNION {{DimensionReply(4, w, 14, f.val),
                             DimensionReply(4, w, 7, <<f.val[2] % 3, 1, f.val[1]>>)} : w \in Places(f)}
    [] OTHER -> {DimensionReply(4, w, f.dim, f.val) : w \in Places(f)}
CarryOut ==
  /\ commands # <<>>
  /\ LET c == Head(commands)
     IN \/ \E f \in Replies(c.f) :
             reports' = Append(reports, [f |-> f, truth |-> c.want, asked |-> TRUE])
        \/ /\ c.f.dim \in {30, 31, 32}
           /\ reports' = Append(reports, [f |-> c.f, truth |-> Said("nothing", c.want.zone, 0),
                                          asked |-> FALSE])
  /\ commands' = Tail(commands)

(* What the plant reports by itself. *)
Tell(f, kind, zone, n) ==
  reports' = Append(reports, [f |-> f, truth |-> Said(kind, zone, n), asked |-> FALSE])
Raw(t) == IF t < 0 THEN 1000 - t ELSE t
Runs(code) == code \in {1, 2} \/ code > 5
Measure(z) ==
  LET at == Addr(FALSE, z, <<>>) probe == Addr(FALSE, 300 + z, <<>>)
  IN \E t \in Readings :
       \/ Tell(DimensionReply(4, at, 0, <<Raw(t)>>), "main", z, t)
       \/ Tell(DimensionReply(4, probe, 0, <<Raw(t)>>), "secondary", z, <<3, t>>)
       \/ Tell(DimensionReply(4, at, 15, <<2, Raw(t)>>), "secondary", z, <<2, t>>)
       \/ Tell(DimensionReply(4, at, 12, <<Raw(t)>>), "local", z, t)
Behave(z) ==
  LET at == Addr(FALSE, z, <<>>)
  IN \/ \E c, h \in 0 .. 8 : Tell(DimensionReply(4, at, 19, <<c, h>>), "running", z, Runs(c) \/ Runs(h))
     \/ \E zone \in {0, z}, n \in 0 .. 9 :
          Tell(DimensionReply(4, Addr(FALSE, zone, <<1>>), 20, <<n>>), "running", zone, Runs(n))
     \/ \E n \in 0 .. 3 : Tell(DimensionReply(4, at, 13, <<n>>), "offset", z, n)
     \/ \E n \in 1 .. 3 : Tell(DimensionReply(4, at, 13, <<10 + n>>), "offset", z, -n)
     \/ Tell(DimensionReply(4, at, 11, <<15>>), "running", z, FALSE)
     \/ \E s \in {0, 1} : Tell(Status(4, s, <<>>, at), "season", z, s)
     \/ \E v \in {<<1>>, <<1, 9>>, <<7, 1, 200>>} :
          Tell(DimensionReply(4, at, 7, v), "nothing", z, 0)
     \/ Tell(DimensionWriting(4, at, 7, <<1, 1, 200>>), "nothing", z, 0)
Sense == /\ Wire < MaxWire
         /\ \E z \in {w.n : w \in Wheres} \ {0} : Measure(z) \/ Behave(z)
         /\ UNCHANGED commands

(* The event is decoded, and taken. *)
Decode == reports # <<>> /\ reports' = Tail(reports) /\ UNCHANGED commands

Next == \/ \E w \in Wheres : CommandZone(w) \/ CommandCentral(w) \/ Announce(w)
        \/ CarryOut \/ Sense \/ Decode
Spec == Init /\ [][Next]_vars

(* A central unit's WHAT: a bare season, a program, a scenario, a holiday. *)
CentralOnly(what) == what \in {0, 1, 315} \cup 3101 .. 3116 \cup 3201 .. 3216 \cup 33001 .. 33255

(* Only legal frames are built: four digits of temperature, addresses of   *)
(* at most two fields (that of a temperature announced is the caller's).   *)
Legal(f) ==
  /\ f.type \in {"STATUS", "DIMENSION_WRITING", "DIMENSION_REQUEST_REPLY"}
  /\ f.dim # 0 => Len(f.where.par) <= 1
  /\ f.dim \in {0, 14} => f.val[1] \in 0 .. 1999
TypeOK == Wire <= MaxWire /\ \A i \in DOMAIN commands : Legal(commands[i].f)

(* A frame goes where the gateways take it: a WHAT of the central unit to  *)
(* a central unit, automatic through one, a fan speed to a bare zone.      *)
Routed(f) ==
  /\ CentralOnly(f.what) => IsCentral(f.where)
  /\ f.what = 311 => f.where.hash
  /\ f.dim = 11 => ~f.where.hash /\ f.where.par = <<>> /\ f.where.n > 0
CommandsAreRouted == \A i \in DOMAIN commands : Routed(commands[i].f)

(* The event of a command carried out says what the caller had asked: the  *)
(* zone, the mode or the season, the setpoint in tenths (within a quarter  *)
(* of a degree of the one asked, kept within 5 and 40 degrees), the        *)
(* program to resume, the scenario, the days.                              *)
ReadsBack(f, asked) ==
  LET e == HeatingEvent(f) n == asked.n kind == asked.kind
  IN CASE kind = "mode" -> CASE n = "heat" -> e.type = "season" /\ e.season = "heating"
                             [] n = "cool" -> e.type = "season" /\ e.season = "conditioning"
                             [] n = "auto" -> e.mode = "auto"
                             [] OTHER      -> e.mode = "off"
       [] kind = "set" -> 2 * e.set - 5 * Clamp(20, 160, n) \in -5 .. 5
       [] kind = "fan" -> e.fan = n /\ e.active
       [] kind = "program"  -> e.type = "mode" /\ e.program = n
       [] kind = "scenario" -> e.type = "mode" /\ e.scenario = n
       [] kind = "holiday"  -> e.type = "mode" /\ <<e.days, e.program>> = n
       [] kind = "span"     -> e.span = n
       [] kind = "report"   -> e.type = "main" /\ 10 * e.measured - n \in -5 .. 5
CommandsReadBack ==
  \A i \in DOMAIN reports : reports[i].asked => ReadsBack(reports[i].f, reports[i].truth)

(* An event is about the zone that reported, and tells the truth: a        *)
(* temperature with its sign, a running valve or fan on either side, the   *)
(* sign of the local offset; a season is no change of mode; half a zone    *)
(* state, or a write that is only seen passing, tells nothing.             *)
Truthful(f, t) ==
  LET e == HeatingEvent(f)
  IN /\ ZoneOf(f.where) = t.zone
     /\ CASE t.kind = "main"      -> e.type = "main" /\ e.measured = t.n
          [] t.kind = "local"     -> e.measured = t.n
          [] t.kind = "secondary" -> e.type = "secondary" /\ <<e.sensor, e.measured>> = t.n
          [] t.kind = "running"   -> e.active = t.n
          [] t.kind = "offset"    -> e.offset = t.n
          [] t.kind = "season"    -> e.type = "season" /\ e.mode = "none"
          [] t.kind = "nothing"   -> e = NoEvent
          [] OTHER -> TRUE
EventsTellTheTruth == \A i \in DOMAIN reports : Truthful(reports[i].f, reports[i].truth)
=============================================================================

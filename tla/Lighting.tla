------------------------------ MODULE Lighting ------------------------------
(***************************************************************************)
(* WHO 1.  Commands are built, carried out by a light and reported back;   *)
(* the reports are decoded into events and teach the process-wide registry *)
(* of coarse dimmers, which decides how the next command is built.  Plants *)
(* behind different gateways share the registry.  The lights are external. *)
(***************************************************************************)
EXTENDS OwnFrame, FiniteSets

CONSTANTS Setups,    \* houses: [gateways, levels, others, wire], as below
          NoGateway, \* no gateway given: the key None
          Wheres     \* addresses, after normalize_where

(* What the constants are. *)
LightingAssumption ==
  \A s \in Setups : /\ NoGateway \notin s.gateways /\ s.levels \subseteq 0 .. 100
                    /\ s.others \in BOOLEAN /\ s.wire \in Nat

VARIABLES
  setup,    \* the house of this behaviour, and how it is used
  registry, \* _COARSE_DIMMER_BY_GATEWAY: <<key, where>> |-> is coarse
  coarse,   \* the lights that are dimmers and only obey WHAT 2..10
  level,    \* the brightness of each light
  commands, \* frames on the way to a light, with what the caller wants
  reports,  \* frames on the way back, with the truth each one tells
  learned   \* what the last report of its speed said of each dimmer
vars == <<setup, registry, coarse, level, commands, reports, learned>>

Gateways == setup.gateways \* the keys of the gateways (_normalize_gateway_key)
Levels == setup.levels     \* brightness levels asked for, in percent
Others == setup.others     \* whether the commands that do not dim are used too
MaxWire == setup.wire      \* bound of the model: frames under way

Lights == Gateways \X Wheres
DIMMER_SPEED_COARSE_ONLY == 240

(* Clamp to a range, as max(low, min(high, n)) does. *)
Clamp(low, high, n) == IF n < low THEN low ELSE IF n > high THEN high ELSE n

(* COARSE_PRESET_TO_PERCENT *)
PresetToPercent == [p \in 2 .. 10 |-> <<0, 1, 10, 20, 30, 40, 50, 60, 75, 100>>[p]]

(* percent_to_brightness_preset, by the upper bounds of the presets 2 .. 9. *)
PresetBounds == <<4, 15, 25, 35, 45, 53, 67, 85>>
PercentToPreset(l) ==
  IF l <= 0 THEN 0
  ELSE 2 + Cardinality({i \in DOMAIN PresetBounds : PresetBounds[i] < l})

(* Mutant: an entry without a gateway hides what a plant has reported. *)
IsCoarseUnscopedFirst(w, key) ==
  IF <<NoGateway, w>> \in DOMAIN registry THEN registry[<<NoGateway, w>>]
  ELSE <<key, w>> \in DOMAIN registry /\ registry[<<key, w>>]
IsCoarse(w, key) ==
  LET scoped == {e \in DOMAIN registry : e[1] # NoGateway /\ e[2] = w}
  IN IF <<key, w>> \in DOMAIN registry THEN registry[<<key, w>>]
     ELSE IF key # NoGateway
          THEN <<NoGateway, w>> \in DOMAIN registry /\ registry[<<NoGateway, w>>]
     ELSE scoped # {} /\ \A e \in scoped : registry[e]

(* Mutant: a dimmer once coarse stays so. *)
RegisteredForGood(w, key, is) ==
  [e \in DOMAIN registry \cup {<<key, w>>} |->
     IF e \in DOMAIN registry THEN registry[e] ELSE is]
Registered(w, key, is) ==
  [e \in DOMAIN registry \cup {<<key, w>>} |-> IF e = <<key, w>> THEN is ELSE registry[e]]

(*************************** OWNLightingEvent *****************************)

(* The attributes that tell what a light does; the times in half seconds.  *)
NoEvent == [state |-> Null, brightness |-> Null, timer |-> Null, blinker |-> Null,
            colour |-> <<>>, quiet |-> FALSE]

FixedTimer == [w \in 11 .. 18 |-> <<120, 240, 360, 480, 600, 1800, 60, 1>>[w - 10]]

(* A WHAT.  The motion states and the anomaly leave the light alone: quiet. *)
EventOfWhat(what, isCoarse) ==
  LET e == [NoEvent EXCEPT !.state = what]
  IN CASE what \in 2 .. 10  -> [e EXCEPT !.brightness =
                                 IF isCoarse THEN PresetToPercent[what] ELSE Null]
       [] what \in 11 .. 18 -> [e EXCEPT !.timer = FixedTimer[what]]
       [] what \in 20 .. 29 -> [e EXCEPT !.blinker = what - 19]
       [] what \in {34, 39} -> [e EXCEPT !.quiet = TRUE]
       [] what = 1000       -> NoEvent
       [] what \in {0, 1, 30, 31} -> e
       [] OTHER             -> [NoEvent EXCEPT !.quiet = (what = 19)]

(* Mutant: the level is read without its offset. *)
EventOfDimensionRaw(dim, v) ==
  [NoEvent EXCEPT !.brightness = v[1], !.state = IF v[1] = 0 THEN 0 ELSE 1]
EventOfDimension(dim, v) ==
  CASE dim \in {1, 4} -> [NoEvent EXCEPT !.brightness = v[1] - 100,
                                         !.state = IF v[1] = 100 THEN 0 ELSE 1]
    [] dim = 2  -> [NoEvent EXCEPT !.timer = 2 * (v[1] * 3600 + v[2] * 60 + v[3])]
    [] dim = 12 -> [NoEvent EXCEPT !.colour =
                     IF Len(v) >= 3 /\ v[1] \in 0 .. 360 /\ v[2] \in 0 .. 100 /\ v[3] \in 0 .. 100
                     THEN v ELSE <<>>]
    [] dim = 14 -> [NoEvent EXCEPT !.colour = IF v[1] = 1 THEN <<>> ELSE v]
    [] OTHER    -> NoEvent \* 5, 6 and 7: a sensor's

LightingEvent(f, isCoarse) ==
  IF f.type = "STATUS" THEN EventOfWhat(f.what, isCoarse) ELSE EventOfDimension(f.dim, f.val)

(* Mutant: only the absence of a state makes is_on unknown. *)
IsOnAlways(e) == IF e.state = Null THEN "unknown" ELSE IF e.state = 0 THEN "off" ELSE "on"
IsOn(e) ==
  IF e.state = Null \/ e.quiet THEN "unknown"
  ELSE IF 0 < e.state /\ e.state < 32 THEN "on" ELSE "off"

(* What a frame teaches the registry: DIMENSION 1 or 4 with a speed. *)
TellsSpeed(f) == f.dim \in {1, 4} /\ Len(f.val) > 1
SpeedIsCoarse(f) == f.val[2] = DIMMER_SPEED_COARSE_ONLY

(************************** OWNLightingCommand ****************************)

SwitchOn(w, speed) == Status(1, 1, IF speed \in 0 .. 255 THEN <<speed>> ELSE <<>>, w)
SwitchOff(w, speed) == Status(1, 0, IF speed \in 0 .. 255 THEN <<speed>> ELSE <<>>, w)
SetBrightnessPreset(w, preset) == Status(1, preset, <<>>, w)
SwitchOnTimed(w, what) == Status(1, what, <<>>, w)
SetVariableTimer(w, h, m, s) == DimensionWriting(1, w, 2, <<h, m, s>>)
SetColorTemperature(w, mireds) == DimensionWriting(1, w, 14, <<Clamp(50, 1000, mireds)>>)
SetHsvColor(w, h, s, v) ==
  DimensionWriting(1, w, 12, <<Clamp(0, 359, h), Clamp(0, 100, s), Clamp(0, 100, v)>>)
Step(w, what, delta, speed) == Status(1, what, IF delta = Null THEN <<>> ELSE <<delta, speed>>, w)
GetBrightness(w) == DimensionRequest(1, w, 1)

(* flash: the period in quarters of a second; round() takes a tie to even. *)
(* Mutant: the period is rounded up. *)
RoundUp(n) == n \div 2 + 1
RoundHalf(n) == IF n % 4 = 3 THEN (n + 1) \div 2 ELSE n \div 2
Flash(w, quarters) ==
  LET halves == IF quarters \in 2 .. 20 THEN RoundHalf(quarters) ELSE 1
  IN Status(1, halves + 19, <<>>, w)

(* set_brightness, with coarse given, or looked up when it is Null. *)
(* Mutant: the registry is asked without the gateway. *)
SetBrightnessUnscoped(w, l, speed, forced, key) ==
  IF l <= 0 THEN SwitchOff(w, Null)
  ELSE IF IsCoarse(w, NoGateway) THEN SetBrightnessPreset(w, PercentToPreset(l))
  ELSE DimensionWriting(1, w, 1, <<l + 100, 0>>)
(* Mutant: the level is written without its offset. *)
SetBrightnessBlind(w, l, speed, forced, key) == DimensionWriting(1, w, 1, <<l, speed>>)
SetBrightness(w, l, speed, forced, key) ==
  LET useCoarse  == IF forced = Null THEN IsCoarse(w, key) ELSE forced = 1
      transition == IF speed \in 0 .. 255 THEN speed ELSE 0
  IN IF l <= 0 THEN SwitchOff(w, IF useCoarse \/ transition = 0 THEN Null ELSE transition)
     ELSE IF useCoarse THEN SetBrightnessPreset(w, PercentToPreset(l))
     ELSE DimensionWriting(1, w, 1, <<Clamp(0, 100, l) + 100, transition>>)

(******************************* the lights *******************************)

Want(kind, n) == [kind |-> kind, n |-> n]
NoWant == Want("any", 0)

Speed(d) == IF d \in coarse THEN DIMMER_SPEED_COARSE_ONLY ELSE 2
LevelReport(d, l) == DimensionReply(1, d[2], 1, <<l + 100, Speed(d)>>)

(* The level a light takes from a frame. *)
Obeyed(d, f) ==
  IF f.type = "STATUS"
  THEN CASE f.what = 0 -> 0
         [] f.what \in 2 .. 10 -> IF d \in coarse THEN PresetToPercent[f.what] ELSE 10 * f.what
         [] f.what \in {30, 31} ->
              IF level[d] = 0 THEN 0
              ELSE LET delta == IF f.wpar = <<>> THEN 10 ELSE f.wpar[1]
                   IN Clamp(1, 100, IF f.what = 30 THEN level[d] + delta ELSE level[d] - delta)
         [] OTHER -> 100
  ELSE IF f.type = "DIMENSION_WRITING" /\ f.dim = 1 /\ d \notin coarse THEN f.val[1] - 100
  ELSE level[d]

(* The report it sends, and the truth of it. *)
Report(d, f) ==
  LET l == Obeyed(d, f)
  IN CASE f.type = "STATUS" /\ f.what \in {0} \cup 2 .. 10 -> [f |-> Status(1, f.what, <<>>, d[2]), truth |-> Want("level", l)]
       [] f.type = "STATUS" /\ f.what \in 11 .. 18 -> [f |-> f, truth |-> Want("timer", FixedTimer[f.what])]
       [] f.type = "STATUS" /\ f.what \in 20 .. 29 -> [f |-> f, truth |-> Want("blink", f.what - 19)]
       [] f.type = "DIMENSION_WRITING" /\ f.dim = 2 ->
            [f |-> DimensionReply(1, d[2], 2, f.val), truth |-> Want("time", f.val)]
       [] f.type = "DIMENSION_WRITING" /\ f.dim \in {12, 14} ->
            [f |-> DimensionReply(1, d[2], f.dim, f.val), truth |-> Want("colour", f.val)]
       [] OTHER -> [f |-> LevelReport(d, l), truth |-> Want("level", l)]

(******************************** actions *********************************)

Wire == Len(commands) + Len(reports)

Init ==
  /\ setup \in Setups
  /\ registry = <<>> /\ commands = <<>> /\ reports = <<>>
  /\ coarse \in SUBSET Lights
  /\ level = [d \in Lights |-> 0] /\ learned = [d \in Lights |-> "unknown"]

TypeOf(d) == IF d \in coarse THEN "coarse" ELSE "fine"

Post(d, f, want) ==
  /\ Wire < MaxWire
  /\ commands' = Append(commands, [to |-> d, f |-> f, want |-> want, type |-> TypeOf(d)])
  /\ UNCHANGED <<registry, coarse, level, reports, learned>>

(* A caller dims a light; with its gateway named, and the type of the      *)
(* dimmer learned, it is to be obeyed.                                     *)
Dim(d, l, key) ==
  LET informed == key = d[1] /\ learned[d] = TypeOf(d)
  IN Post(d, SetBrightness(d[2], l, 0, Null, key), IF informed THEN Want("dim", l) ELSE NoWant)

Preset(d, p) == Post(d, SetBrightnessPreset(d[2], p), NoWant)
AskBrightness(d) == Post(d, GetBrightness(d[2]), NoWant)
Command(d) ==
  /\ Others
  /\ \/ \E s \in {Null, 0, 255} : Post(d, SwitchOn(d[2], s), Want("on", 0))
     \/ \E w \in 11 .. 18 : Post(d, SwitchOnTimed(d[2], w), Want("timer", FixedTimer[w]))
     \/ \E q \in {Null, 1, 2, 3, 5, 10, 11, 19, 20, 21} : Post(d, Flash(d[2], q), Want("blink", q))
     \/ \E w \in {30, 31}, n \in {Null, 1, 100} : Post(d, Step(d[2], w, n, 0), NoWant)
     \/ \E h \in {0, 255}, m \in {0, 59}, s \in {0, 59} :
          Post(d, SetVariableTimer(d[2], h, m, s), Want("time", <<h, m, s>>))
     \/ \E n \in {-1, 1, 153, 2000} :
          Post(d, SetColorTemperature(d[2], n), Want("colour", <<Clamp(50, 1000, n)>>))
     \/ \E h \in {0, 360, 511}, s \in {0, 127}, v \in {0, 255} :
          Post(d, SetHsvColor(d[2], h, s, v), Want("colour", <<Clamp(0, 359, h), Clamp(0, 100, s), Clamp(0, 100, v)>>))

(* What may be expected of a command when it arrives: not its level, when  *)
(* a dimmer of the other type has taken the place of the one it was for.   *)
Expected(c) == IF c.want.kind = "dim" /\ c.type # TypeOf(c.to) THEN NoWant ELSE c.want

(* The light carries the frame out and reports. *)
Obey ==
  /\ commands # <<>>
  /\ LET c == Head(commands) d == c.to r == Report(d, c.f)
     IN /\ level' = [level EXCEPT ![d] = Obeyed(d, c.f)]
        /\ reports' = Append(reports, [from |-> d, f |-> r.f, truth |-> r.truth, want |-> Expected(c),
                                       coarse |-> d \in coarse])
        /\ commands' = Tail(commands)
  /\ UNCHANGED <<registry, coarse, learned>>

(* A motion detector, or a fault: the light itself does not change. *)
Sense(d) ==
  /\ Others /\ Wire < MaxWire
  /\ \E f \in {Status(1, w, <<>>, d[2]) : w \in {19, 34, 39, 55}} \cup
              {DimensionReply(1, d[2], dim, <<0, 0, 45>>) : dim \in {5, 6, 7}} :
       reports' = Append(reports, [from |-> d, f |-> f, truth |-> Want("none", 0), want |-> NoWant,
                                   coarse |-> d \in coarse])
  /\ UNCHANGED <<registry, coarse, level, commands, learned>>

(* OWNMessage.parse(frame, gateway=...) by the session of the gateway. *)
Decode ==
  /\ reports # <<>>
  /\ LET r == Head(reports) d == r.from
     IN IF TellsSpeed(r.f)
        THEN /\ registry' = Registered(d[2], d[1], SpeedIsCoarse(r.f))
             /\ learned' = [learned EXCEPT ![d] = IF r.coarse THEN "coarse" ELSE "fine"]
        ELSE UNCHANGED <<registry, learned>>
  /\ reports' = Tail(reports)
  /\ UNCHANGED <<coarse, level, commands>>

(* register_coarse_dimmer_where without a gateway: for every plant. *)
RegisterUnscoped(w, is) ==
  /\ registry' = Registered(w, NoGateway, is)
  /\ UNCHANGED <<coarse, level, commands, reports, learned>>

(* clear_coarse_dimmer_wheres, of one gateway or of all. *)
Clear(key) ==
  LET gone == {e \in DOMAIN registry : key = NoGateway \/ e[1] = key}
  IN /\ registry' = [e \in DOMAIN registry \ gone |-> registry[e]]
     /\ learned' = [d \in Lights |-> IF d \in gone THEN "unknown" ELSE learned[d]]
     /\ UNCHANGED <<coarse, level, commands, reports>>

(* Somebody replaces the dimmer at an address by one of the other type,    *)
(* whatever frames are on the way to it and from it.                       *)
Replace(d) ==
  /\ coarse' = IF d \in coarse THEN coarse \ {d} ELSE coarse \cup {d}
  /\ level' = [level EXCEPT ![d] = 0]
  /\ UNCHANGED <<registry, commands, reports, learned>>

Act ==
  \/ \E d \in Lights :
       \/ \E l \in Levels, key \in Gateways \cup {NoGateway} : Dim(d, l, key)
       \/ \E p \in {2, 5, 10} : Preset(d, p)
       \/ AskBrightness(d) \/ Command(d) \/ Sense(d) \/ Replace(d)
  \/ Obey \/ Decode
  \/ \E w \in Wheres, is \in BOOLEAN : RegisterUnscoped(w, is)
  \/ \E key \in Gateways \cup {NoGateway} : Clear(key)
Next == Act /\ UNCHANGED setup

Spec == Init /\ [][Next]_vars

TypeOK ==
  /\ setup \in Setups /\ DOMAIN registry \subseteq (Gateways \cup {NoGateway}) \X Wheres
  /\ \A e \in DOMAIN registry : registry[e] \in BOOLEAN
  /\ coarse \subseteq Lights /\ level \in [Lights -> 0 .. 100]
  /\ learned \in [Lights -> {"unknown", "coarse", "fine"}]
  /\ Wire <= MaxWire

(* What a plant has reported of a dimmer decides how commands scoped to    *)
(* that plant are built, whatever other plants report of the same address  *)
(* and whatever is registered without a gateway, until it is cleared.      *)
ReportsDecide ==
  \A d \in Lights : learned[d] # "unknown" => IsCoarse(d[2], d[1]) = (learned[d] = "coarse")

(* Every report under way, decoded now, tells the truth about the light:   *)
(* on or off, its level, its timer, its blinking or its colour; and the    *)
(* report of a sensor or of a fault says nothing about on and off.  Only   *)
(* the preset of a fine dimmer taken for a coarse one is read as another   *)
(* level than the dimmer's.                                                *)
Truthful(r, known) ==
  LET t == r.truth e == LightingEvent(r.f, known)
  IN CASE t.kind = "level"  -> /\ IsOn(e) = IF t.n = 0 THEN "off" ELSE "on"
                               /\ e.brightness \in {Null, t.n} \/ (known /\ ~r.coarse)
       [] t.kind = "timer"  -> IsOn(e) = "on" /\ e.timer = t.n
       [] t.kind = "blink"  -> IsOn(e) = "on" /\ e.blinker = t.n
       [] t.kind = "time"   -> e.timer = 2 * (3600 * t.n[1] + 60 * t.n[2] + t.n[3])
       [] t.kind = "colour" -> e.colour = t.n
       [] t.kind = "none"   -> IsOn(e) = "unknown" /\ e.brightness = Null

(* And it is so taken only where the last dimmer that told its speed at    *)
(* that address was a coarse one, which has been replaced since; or where  *)
(* none has told, and the address was registered by hand for every plant.  *)
(* Neither the reports of other plants nor the order of reports does it,   *)
(* and one report of the level ends it.                                    *)
Misplaced(d) ==
  \/ learned[d] = "coarse"
  \/ learned[d] = "unknown" /\ <<NoGateway, d[2]>> \in DOMAIN registry /\ registry[<<NoGateway, d[2]>>]
EventsTellTheTruth ==
  \A i \in DOMAIN reports :
    LET r == reports[i] known == IsCoarse(r.from[2], r.from[1])
    IN Truthful(r, known) /\ (known /\ ~r.coarse => Misplaced(r.from))

(* n is l, or one of the two presets l lies between. *)
Nearby(l, n, isCoarse) ==
  IF ~isCoarse \/ l = 0 THEN n = l
  ELSE \A p \in 2 .. 10 : LET q == PresetToPercent[p]
                           IN ~(l < q /\ q < n) /\ ~(n < q /\ q < l)

(* A command does to the light what its caller asked for, the clamped and  *)
(* rounded arguments included: a dimmer whose type has been learned takes  *)
(* the level, or a preset next to it, and a light asked to blink, to       *)
(* change colour or to go out after a time does so.                        *)
Done(w, t, isCoarse) ==
  CASE w.kind = "dim"   -> t.kind = "level" /\ Nearby(w.n, t.n, isCoarse)
    [] w.kind = "on"    -> t.kind = "level" /\ t.n > 0
    [] w.kind = "blink" -> /\ t.kind = "blink"
                           /\ IF w.n \in 2 .. 20 THEN 2 * t.n - w.n \in -1 .. 1 ELSE t.n = 1
    [] w.kind \in {"timer", "time", "colour"} -> t = w
    [] OTHER -> TRUE
CommandsAreObeyed ==
  \A i \in DOMAIN reports : Done(reports[i].want, reports[i].truth, reports[i].coarse)
=============================================================================

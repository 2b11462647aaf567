---------------------------- MODULE GatewayClock ----------------------------
(***************************************************************************)
(* WHO 13, the gateway's clock: local time with a time zone, set and asked *)
(* for whole (dimension 22) or as time (0) and date (1).  Time is counted  *)
(* in half hours, from the first moment of year 0 in UTC.  The calendar is *)
(* short: months of two days and years of two months.  An offset from UTC  *)
(* is a number of half hours too; a frame's zone has whole hours only.     *)
(***************************************************************************)
EXTENDS OwnFrame

CONSTANTS
  Day,        \* half hours in a day
  Zones,      \* time zones of the consumer
  Before,     \* [Zones -> Int]: the offset of a zone until Switch
  After,      \* [Zones -> Int]: and from then on
  Switch,     \* the moment of the change to or from summer time
  Years,      \* the years a command may write, 2000 to 2099 in the code
  Moments,    \* local times that are written as such, without a zone
  Start,      \* bounds of the model: first and last moment
  End,
  MaxWire     \* bound of the model: frames under way

(* What the constants are. *)
ClockAssumption ==
  /\ Day \in Nat \ {0} /\ Day % 2 = 0
  /\ Before \in [Zones -> -47 .. 47] /\ After \in [Zones -> -47 .. 47] \* as datetime demands
  /\ {Switch, Start, End, MaxWire} \subseteq Nat /\ Start <= End
  /\ Moments \subseteq Nat /\ Years \subseteq Nat

VARIABLES
  now,      \* the moment
  clock,    \* local time of the gateway
  tz,       \* its zone, as frames have it; Unset until its time is set
  late,     \* how far behind the clock was when its time was set
  astray,   \* days between its date, when that was set, and the one of its
            \* time; Null if its time was set alone
  commands, \* frames under way, and what each says: [f, at, said]
  reports   \* frames on the way back: [f, said]
vars == <<now, clock, tz, late, astray, commands, reports>>

Unset == 999
Refuse == [type |-> "refused"]

(***************************** zones of the OS ****************************)

Offset(z, moment) == IF moment < Switch THEN Before[z] ELSE After[z]
(* A local time that comes twice, or not at all, counts as before the change. *)
OffsetOfLocal(z, local) ==
  IF \A o \in {Before[z], After[z]} : local >= Switch + o THEN After[z] ELSE Before[z]

(************************* values of a clock frame ************************)

(* _encode_tz_offset: 0HH or 1HH.  Mutant: the sign is lost. *)
EncodeUnsigned(offset) == IF offset >= 0 THEN offset \div 2 ELSE (-offset) \div 2
Encode(offset) == IF offset >= 0 THEN offset \div 2 ELSE 100 + (-offset) \div 2

TimeValues(local, zone) == <<(local % Day) \div 2, 30 * (local % 2), 0>> \o zone
DateValues(local) ==
  LET n == local \div Day
  IN <<n % 7, (n % 2) + 1, ((n % 4) \div 2) + 1, n \div 4>>
Values(dim, local, zone) ==
  CASE dim = 0 -> TimeValues(local, zone)
    [] dim = 1 -> DateValues(local)
    [] dim = 22 -> TimeValues(local, zone) \o DateValues(local)

(* What the gateway takes a zone for. *)
Means(zone) == IF zone = Unset THEN Null ELSE IF zone < 100 THEN 2 * zone ELSE -2 * (zone - 100)

(***************************** decoding ***********************************)

Required == [d \in {0, 1, 22} |-> CASE d = 0 -> 3 [] d = 1 -> 4 [] d = 22 -> 8]

(* Mutant: an unset zone is UTC. *)
TimezoneUTC(val) ==
  IF Len(val) <= 3 \/ val[4] \in {Null, Unset} THEN 0
  ELSE IF val[4] < 100 THEN 2 * val[4] ELSE -2 * (val[4] - 100)
Timezone(val) ==
  IF Len(val) <= 3 \/ val[4] \in {Null, Unset} THEN Null
  ELSE IF val[4] < 100 THEN 2 * val[4] ELSE -2 * (val[4] - 100)

TimeOf(val) == 2 * val[1] + (val[2] \div 30)
DayOf(d, m, y) == 4 * y + 2 * (m - 1) + d - 1

(* time, date and zone of a message about the clock; the same for an event *)
(* and for a command somebody else has sent.                               *)
Decoded(f) ==
  IF Len(f.val) < Required[f.dim] THEN Refuse
  ELSE CASE f.dim = 0 -> [time |-> TimeOf(f.val), day |-> Null, zone |-> Timezone(f.val)]
         [] f.dim = 1 -> [time |-> Null, day |-> DayOf(f.val[2], f.val[3], f.val[4]), zone |-> Null]
         [] f.dim = 22 -> [time |-> TimeOf(f.val), day |-> DayOf(f.val[6], f.val[7], f.val[8]),
                           zone |-> Timezone(f.val)]

(***************************** builders ***********************************)

(* _normalize_datetime: the year is that of the local time.  Mutant: of UTC. *)
InYearsUTC(local, offset) == (local - offset) \div (4 * Day) \in Years
InYears(local, offset) == local \div (4 * Day) \in Years

(* set_datetime, set_date and set_time: only the date has no zone.         *)
Set(dim, local, offset) ==
  IF ~InYears(local, offset) \/ (dim # 1 /\ offset % 2 # 0) THEN Refuse
  ELSE DimensionWriting(13, Null, dim, Values(dim, local, <<Encode(offset)>>))

Wire == Len(commands) + Len(reports)
Send(f, at, said) ==
  /\ f # Refuse /\ Wire < MaxWire
  /\ commands' = Append(commands, [f |-> f, at |-> at, said |-> said])
  /\ UNCHANGED <<now, clock, tz, late, astray, reports>>
Said(local, offset) == [local |-> local, offset |-> offset]

(***************************** the consumer *******************************)

(* set_datetime_to_now, set_date_to_today and set_time_to_now. *)
SetToNow(dim, z) ==
  LET local == now + Offset(z, now)
  IN Send(Set(dim, local, Offset(z, now)), now, Said(local, Offset(z, now)))

(* set_datetime and set_date of a local time, and a zone. *)
SetLocal(dim, local, z) ==
  LET offset == OffsetOfLocal(z, local)
  IN Send(Set(dim, local, offset), local - offset, Said(local, offset))

(* set_time of a time alone: as if it were that of today's date in UTC.    *)
SetTime(time, z) == SetLocal(0, Day * (now \div Day) + time, z)

Request(dim) == Send(DimensionRequest(13, Null, dim), now, Said(Null, Null))

(***************************** the gateway ********************************)

Tick ==
  /\ now < End
  /\ now' = now + 1 /\ clock' = clock + 1
  /\ UNCHANGED <<tz, late, astray, commands, reports>>

(* report_datetime, report_date and report_time of what the clock shows; a *)
(* gateway without a zone says so, or leaves it out when it tells the time. *)
Report(dim, zone) ==
  [f |-> DimensionReply(13, Null, dim, Values(dim, clock, zone)),
   said |-> Said(clock, IF dim = 1 \/ zone = <<>> THEN Null ELSE Means(zone[1]))]
ZoneTold(dim) == {<<tz>>} \cup (IF dim = 0 /\ tz = Unset THEN {<<>>} ELSE {})

Tell(dim) ==
  /\ Wire < MaxWire
  /\ \E zone \in ZoneTold(dim) : reports' = Append(reports, Report(dim, zone))
  /\ UNCHANGED <<now, clock, tz, late, astray, commands>>

Answer ==
  /\ commands # <<>> /\ Head(commands).f.type = "DIMENSION_REQUEST"
  /\ \E zone \in ZoneTold(Head(commands).f.dim) :
       reports' = Append(reports, Report(Head(commands).f.dim, zone))
  /\ commands' = Tail(commands)
  /\ UNCHANGED <<now, clock, tz, late, astray>>

(* A command is carried out, and shown to everyone. *)
CarryOut ==
  /\ commands # <<>> /\ Head(commands).f.type = "DIMENSION_WRITING"
  /\ LET c == Head(commands)
         d == Decoded(c.f)
     IN /\ clock' = (IF d.day = Null THEN clock \div Day ELSE d.day) * Day
                    + (IF d.time = Null THEN (clock % Day) ELSE d.time)
        /\ IF c.f.dim = 1
           THEN /\ astray' = (IF tz = Unset THEN Null
                              ELSE c.said.local \div Day - (now - late + Means(tz)) \div Day)
                /\ UNCHANGED <<tz, late>>
           ELSE /\ tz' = c.f.val[4] /\ late' = now - c.at
                /\ astray' = (IF c.f.dim = 22 THEN 0 ELSE Null)
        /\ reports' = Append(reports, [f |-> c.f, said |->
             IF c.f.dim = 1 THEN [c.said EXCEPT !.offset = Null] ELSE c.said])
  /\ commands' = Tail(commands)
  /\ UNCHANGED now

Take == reports # <<>> /\ reports' = Tail(reports) /\ UNCHANGED <<now, clock, tz, late, astray, commands>>

Init ==
  /\ now = Start /\ clock = Start /\ tz = Unset
  /\ late = 0 /\ astray = Null
  /\ commands = <<>> /\ reports = <<>>

Next ==
  \/ \E dim \in {0, 1, 22} : Request(dim) \/ Tell(dim) \/ \E z \in Zones : SetToNow(dim, z)
  \/ \E z \in Zones, m \in Moments :
       SetTime(m % Day, z) \/ \E dim \in {1, 22} : SetLocal(dim, m, z)
  \/ Tick \/ Answer \/ CarryOut \/ Take

Spec == Init /\ [][Next]_vars

(***************************** properties *********************************)

(* Besides the bounds: what is written has a year a gateway can have.      *)
TypeOK ==
  /\ now \in Start .. End /\ Wire <= MaxWire
  /\ astray \in Int /\ (astray # Null => tz # Unset)
  /\ \A i \in DOMAIN commands :
       LET f == commands[i].f
       IN f.type = "DIMENSION_WRITING" /\ f.dim \in {1, 22} => f.val[Len(f.val)] \in Years

(* A clock that was set whole shows the moment it was set to and what has  *)
(* passed since, whatever the zone is, on either side of the change to     *)
(* summer time and of midnight.  So does one whose time was set and then   *)
(* the date, if that was still, or already, the date of that time where    *)
(* the gateway is: a midnight between the two frames, or while the second  *)
(* was under way, leaves the clock whole days off, as many as the date was *)
(* then.  A clock of which only the time was set last shows the time of    *)
(* day.                                                                    *)
ClockIsRight ==
  tz # Unset =>
    LET error == clock - Means(tz) - (now - late)
    IN error % Day = 0 /\ (astray # Null => error = Day * astray)

(* A message tells what its sender meant: the local time, the date of the  *)
(* sender and not of UTC, and the sender's zone or that it has none.       *)
EventsTell ==
  \A i \in DOMAIN reports :
    LET f == reports[i].f
        said == reports[i].said
    IN Decoded(f) = [time |-> IF f.dim = 1 THEN Null ELSE said.local % Day,
                     day |-> IF f.dim = 0 THEN Null ELSE said.local \div Day,
                     zone |-> said.offset]
=============================================================================

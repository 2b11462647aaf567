------------------------------- MODULE Energy -------------------------------
(***************************************************************************)
(* WHO 18: energy meters, and the Stop&Go breakers.  A date is a number    *)
(* YYYYMMDD.  Meters answer with a day and a month, or a month alone: the  *)
(* year is deduced from the day the answer is decoded on.  wpar holds the  *)
(* parameters of the DIMENSION here.                                       *)
(***************************************************************************)
EXTENDS Bus

CONSTANTS StartDays, \* the days a run may start on
          MaxTicks,  \* bound of the model: midnights in a run
          Dates,     \* dates asked for
          Numbers    \* readings, durations, days given to the builders

VARIABLES today,  \* datetime.date.today()
          ticks,  \* midnights so far
          breaker \* the Stop&Go breaker of line 1, in the plant
vars == <<commands, reports, today, ticks, breaker>>
own == <<today, ticks, breaker>>

(******************************* calendar *********************************)

Date(y, m, d) == 10000 * y + 100 * m + d
Year(n) == n \div 10000
Month(n) == (n \div 100) % 100
Day(n) == n % 100
IsLeap(y) == y % 4 = 0 /\ (y % 100 # 0 \/ y % 400 = 0)
LastDay(y, m) ==
  IF m = 2 THEN (IF IsLeap(y) THEN 29 ELSE 28) ELSE IF m \in {4, 6, 9, 11} THEN 30 ELSE 31
(* datetime.date raises ValueError on the others. *)
IsDate(n) == Month(n) \in 1 .. 12 /\ Day(n) \in 1 .. LastDay(Year(n), Month(n))
Tomorrow(n) ==
  IF Day(n) < LastDay(Year(n), Month(n)) THEN n + 1
  ELSE IF Month(n) < 12 THEN Date(Year(n), Month(n) + 1, 1)
  ELSE Date(Year(n) + 1, 1, 1)
(* today.replace(year = ...), 29 February becoming the 28th. *)
YearsAgo(n, k) ==
  Date(Year(n) - k, Month(n), IF Month(n) = 2 /\ Day(n) = 29 THEN 28 ELSE Day(n))

(* What the constants are. *)
EnergyAssumption ==
  /\ \A n \in StartDays \cup Dates : n \in Nat /\ IsDate(n)
  /\ Numbers \subseteq Int /\ MaxTicks \in Nat /\ MaxWire \in Nat

(***************************** OWNEnergyEvent *****************************)

NoReading == [type |-> "none", value |-> 0, date |-> Null, hour |-> Null, interval |-> Null,
              energy |-> Null, streaming |-> FALSE]
Reading(type, value) == [NoReading EXCEPT !.type = type, !.value = value]
DatedReading(type, value, date) == [Reading(type, value) EXCEPT !.date = date]
Value(v) == IF v = <<>> \/ v[1] = Null THEN 0 ELSE v[1] \* _integer_value

(* The day of a sample is the last one with its day and month. *)
(* Mutant: the year is always this year. *)
DayOfSampleThisYear(m, d) ==
  LET day == Date(Year(today), m, d) IN IF IsDate(day) THEN day ELSE Null
DayOfSample(m, d) ==
  LET thisYear == Date(Year(today), m, d) lastYear == Date(Year(today) - 1, m, d)
  IN IF ~IsDate(thisYear) THEN Null
     ELSE IF thisYear <= today THEN thisYear
     ELSE IF IsDate(lastYear) THEN lastYear ELSE Null

(* 513 is a month of the last year, 514 one of the year before. *)
DayOfMonth(dim, m, d) ==
  LET ahead == IF Date(Year(today), m, 1) > today THEN 1 ELSE 0
      day == Date(Year(today) - ahead - (IF dim = 514 THEN 1 ELSE 0), m, d)
  IN IF m \in 1 .. 12 /\ IsDate(day) THEN day ELSE Null

Sample(v, day) ==
  IF day = Null \/ Len(v) < 2 THEN NoReading
  ELSE IF v[1] = 25 THEN DatedReading("daily", v[2], day)
  ELSE [DatedReading("hourly", v[2], day) EXCEPT !.hour = v[1] - 1]
DayOfTable(dim, p, v) ==
  IF Len(v) < 2 \/ DayOfMonth(dim, p[1], v[1]) = Null THEN NoReading
  ELSE DatedReading("daily", v[2], DayOfMonth(dim, p[1], v[1]))
(* Without a month the type is set and nothing else. *)
MonthOf(p, v) ==
  IF p = <<>> \/ ~IsDate(Date(2000 + p[1], p[2], 1)) THEN Reading("monthly", 0)
  ELSE DatedReading("monthly", Value(v), Date(2000 + p[1], p[2], 1))
Stream(p, v) ==
  LET n == IF Value(v) > 0 THEN Value(v) ELSE 0
  IN [Reading("stream", 0) EXCEPT !.interval = n, !.streaming = (n > 0),
                                  !.energy = IF p = <<>> THEN Null ELSE p[1]]

EnergyEvent(f) ==
  IF f.where \div 10 \notin {1, 5, 7} THEN NoReading
  ELSE CASE f.dim = 113 -> Reading("power", Value(f.val))
         [] f.dim = 511 -> Sample(f.val, DayOfSample(f.wpar[1], f.wpar[2]))
         [] f.dim \in {513, 514} -> DayOfTable(f.dim, f.wpar, f.val)
         [] f.dim = 51 -> Reading("total", Value(f.val))
         [] f.dim = 54 -> Reading("today", Value(f.val))
         [] f.dim = 53 -> Reading("this_month", Value(f.val))
         [] f.dim = 52 -> MonthOf(f.wpar, f.val)
         [] f.dim = 1200 /\ f.val # <<>> -> Stream(f.wpar, f.val)
         [] OTHER -> NoReading

(***************************** OWNEnergyCommand ***************************)

Ask(w, dim, p) == [DimensionRequest(18, w, dim) EXCEPT !.wpar = p]
Report(w, dim, p, n) ==
  IF n < 0 THEN Refuse ELSE [DimensionReply(18, w, dim, <<n>>) EXCEPT !.wpar = p]
(* The duration is kept between 0 and 255.  Mutant: only from above. *)
ClampAbove(n) == IF n > 255 THEN 255 ELSE n
Clamp(n) == IF n > 255 THEN 255 ELSE IF n < 0 THEN 0 ELSE n
StartPower(w, n, type) ==
  InRange(type, 1, 4, [DimensionWriting(18, w, 1200, <<Clamp(n)>>) EXCEPT !.wpar = <<type>>])
StopPower(w, type) == StartPower(w, 0, type)
AskPower(w) == Ask(w, 113, <<>>)
AskTotal(w) == Ask(w, 51, <<>>)
AskToday(w) == Ask(w, 54, <<>>)
AskThisMonth(w) == Ask(w, 53, <<>>)

(* get_hourly_consumption: no further back than a year; a day to come is   *)
(* asked for like any other.                                               *)
AskDay(w, date) ==
  IF date < YearsAgo(today, 1) THEN Refuse ELSE Ask(w, 511, <<Month(date), Day(date)>>)

(* get_daily_consumption: WHAT 59 for a month of the last year, 510 for    *)
(* one of the year before, the month its parameter.  Mutant: the day a     *)
(* year ago is the last year's.                                            *)
AskDaysFrom(w, y, m) ==
  LET target == Date(y, m, 1)
  IN IF target > today \/ target <= YearsAgo(today, 2) THEN Refuse
     ELSE Status(18, IF target >= YearsAgo(today, 1) THEN 59 ELSE 510, <<m>>, w)
AskDays(w, y, m) ==
  LET target == Date(y, m, 1)
  IN IF target > today \/ target <= YearsAgo(today, 2) THEN Refuse
     ELSE Status(18, IF target > YearsAgo(today, 1) THEN 59 ELSE 510, <<m>>, w)

AskMonth(w, y, m) ==
  InRange(y, 2000, 2099, InRange(m, 1, 12, Ask(w, 52, <<y % 100, m>>)))
ReportMonth(w, n, y, m) ==
  IF (y = Null) # (m = Null) THEN Refuse
  ELSE IF y = Null THEN Report(w, 52, <<>>, n)
  ELSE InRange(y, 2000, 2099, InRange(m, 1, 12, Report(w, 52, <<y % 100, m>>, n)))
ReportPartialMonth(w, n, m) ==
  IF m = Null THEN Report(w, 53, <<>>, n) ELSE InRange(m, 1, 12, Report(w, 53, <<m>>, n))
ReportPartialDay(w, n, d) ==
  IF d = Null THEN Report(w, 54, <<>>, n) ELSE InRange(d, 1, 31, Report(w, 54, <<d>>, n))
ReportStream(w, n, type) == InRange(n, 0, 255, InRange(type, 1, 4, Report(w, 1200, <<type>>, n)))

(********************************* Stop&Go ********************************)

(* The flags of 251..263 that mean something is off or unchecked are read  *)
(* the other way round. *)
Told(open, reset, tracking, test, days) ==
  [open |-> open, reset |-> reset, tracking |-> tracking, test |-> test, days |-> days]
Nothing == Told("?", "?", "?", "?", Null)
Yes(b) == IF b THEN "yes" ELSE "no"
(* Mutant: the flags are read as they stand. *)
BreakerOfFlagPlain(dim, bit) ==
  CASE dim = 251 -> [Nothing EXCEPT !.open = Yes(bit = 1)]
    [] dim = 258 -> [Nothing EXCEPT !.reset = Yes(bit = 1)]
    [] dim = 259 -> [Nothing EXCEPT !.tracking = Yes(bit = 1)]
    [] OTHER -> Nothing
BreakerOfFlag(dim, bit) ==
  CASE dim = 251 -> [Nothing EXCEPT !.open = Yes(bit = 1)]
    [] dim = 258 -> [Nothing EXCEPT !.reset = Yes(bit # 1)]
    [] dim = 259 -> [Nothing EXCEPT !.tracking = Yes(bit # 1)]
    [] OTHER -> Nothing
BreakerOfWhat(what) ==
  CASE what \in {21, 22} -> [Nothing EXCEPT !.open = Yes(what = 21)]
    [] what \in {23, 24} -> [Nothing EXCEPT !.test = Yes(what = 23)]
    [] what \in {26, 27} -> [Nothing EXCEPT !.reset = Yes(what = 26)]
    [] what \in {28, 29} -> [Nothing EXCEPT !.tracking = Yes(what = 28)]
    [] OTHER -> Nothing
StopAndGoEvent(f) ==
  IF f.type = "STATUS" THEN BreakerOfWhat(f.what)
  ELSE IF f.val = <<>> THEN Nothing
  ELSE IF f.dim = 212 THEN [Nothing EXCEPT !.days = Value(f.val)]
  ELSE BreakerOfFlag(f.dim, Value(f.val))
(* _parse_who18_event *)
IsStopAndGo(f) == f.what \in {21, 22, 23, 24, 26, 27, 28, 29} \/ f.dim \in {212} \cup 250 .. 263

(* Lines 1..9 are the addresses 11..19. *)
Line(w) == IF w \in 1 .. 9 THEN 10 + w ELSE IF w \in 11 .. 19 THEN w ELSE Null
Switch(w, what) == IF Line(w) = Null THEN Refuse ELSE Status(18, what, <<>>, Line(w))
OpenBreaker(w) == Switch(w, 21)
CloseBreaker(w) == Switch(w, 22)
TestPositive(w) == Switch(w, 23)
TestNegative(w) == Switch(w, 24)
SetAutoReset(w, on) == Switch(w, IF on THEN 26 ELSE 27)
SetTracking(w, on) == Switch(w, IF on THEN 28 ELSE 29)
SetTestFrequency(w, n) ==
  IF Line(w) = Null THEN Refuse
  ELSE InRange(n, 1, 255, DimensionWriting(18, Line(w), 212, <<n>>))
AskFrequency(w) == IF Line(w) = Null THEN Refuse ELSE Ask(Line(w), 212, <<>>)
AskMask(w) == IF Line(w) = Null THEN Refuse ELSE Ask(Line(w), 250, <<>>)
AskFlag(w, dim) == IF Line(w) = Null THEN Refuse ELSE InRange(dim, 251, 263, Ask(Line(w), dim, <<>>))

(******************************** actions *********************************)

Dated(date) == [date |-> date, on |-> today]

CommandMeter(w) ==
  /\ UNCHANGED own
  /\ \/ Post(AskPower(w), "power", 0) \/ Post(AskTotal(w), "total", 0)
     \/ Post(AskToday(w), "today", 0) \/ Post(AskThisMonth(w), "this_month", 0)
     \/ \E n \in Numbers, type \in {0, 1, 4, 5} :
          \/ Post(StartPower(w, n, type), "stream", <<Clamp(n), type>>)
          \/ Post(StopPower(w, type), "stream", <<0, type>>)
          \/ Post(ReportStream(w, n, type), "stream", <<n, type>>)
     \/ \E n \in Numbers :
          \/ Post(Report(w, 113, <<>>, n), "power", n) \/ Post(Report(w, 51, <<>>, n), "total", n)
          \/ \E m \in {Null, 0, 12, 13} :
               Post(ReportPartialMonth(w, n, m), "this_month", n)
          \/ \E d \in {Null, 0, 31, 32} :
               Post(ReportPartialDay(w, n, d), "today", n)

CommandHistory(w) ==
  /\ UNCHANGED own
  /\ \E date \in Dates :
       \/ Post(AskDay(w, date), "day", Dated(date))
       \/ Post(AskDays(w, Year(date), Month(date)), "table", Dated(date))
       \/ Post(AskMonth(w, Year(date), Month(date)), "month", Dated(Date(Year(date), Month(date), 1)))
       \/ \E y \in {Null, Year(date)}, m \in {Null, Month(date)} :
            Post(ReportMonth(w, 7, y, m), "month", Dated(IF y = Null THEN Null ELSE Date(y, m, 1)))

CommandBreaker(w) ==
  /\ UNCHANGED own
  /\ \/ Post(OpenBreaker(w), "open", "yes") \/ Post(CloseBreaker(w), "open", "no")
     \/ Post(TestPositive(w), "test", "yes") \/ Post(TestNegative(w), "test", "no")
     \/ \E on \in BOOLEAN : \/ Post(SetAutoReset(w, on), "reset", Yes(on))
                            \/ Post(SetTracking(w, on), "tracking", Yes(on))
     \/ \E n \in Numbers : \/ Post(SetTestFrequency(w, n), "days", n)
                           \/ Post(AskFlag(w, n), "flag", n)
     \/ Post(AskFrequency(w), "flag", 0) \/ Post(AskMask(w), "flag", 0)

(* The meter answers with the samples it has of the day or the month asked *)
(* for: an hour or, as hour 25, the total; a day of the month, dimension   *)
(* 513 for WHAT 59 and 514 for WHAT 510.                                   *)
Answers(f) ==
  IF f.what \in {59, 510}
  THEN {DimensionReply(18, f.where, IF f.what = 59 THEN 513 ELSE 514,
                       <<Day(Head(commands).said.n.date), 7>>)}
  ELSE IF f.type # "DIMENSION_REQUEST" THEN {AsReply([f EXCEPT !.wpar = <<>>])}
  ELSE CASE f.dim = 511 -> {[DimensionReply(18, f.where, 511, <<h, 7>>) EXCEPT !.wpar = f.wpar] : h \in {1, 24, 25}}
         [] f.dim = 212 -> {DimensionReply(18, f.where, 212, <<30>>)}
         [] f.dim \in 250 .. 263 -> {DimensionReply(18, f.where, f.dim, <<b>>) : b \in {0, 1}}
         [] OTHER -> {[DimensionReply(18, f.where, f.dim, <<0>>) EXCEPT !.wpar = f.wpar]}
Answer == UNCHANGED own /\ CarryOut({[g EXCEPT !.wpar = First.wpar] : g \in Answers(First)})

(* The breaker trips or is closed, locked or released, by hand, and says   *)
(* so with one of its flags.                                               *)
Trip ==
  \E field \in {"open", "reset", "tracking"}, on \in BOOLEAN :
    /\ breaker' = [breaker EXCEPT ![field] = on]
    /\ LET flag == CASE field = "open" -> 251 [] field = "reset" -> 258 [] OTHER -> 259
           bit == IF (field = "open") = on THEN 1 ELSE 0
       IN Tell(DimensionReply(18, 11, flag, <<bit>>), field, Yes(on))
    /\ UNCHANGED <<today, ticks>>

(* Midnight. *)
Midnight ==
  /\ ticks < MaxTicks /\ ticks' = ticks + 1 /\ today' = Tomorrow(today)
  /\ UNCHANGED <<commands, reports, breaker>>

Read == Take /\ UNCHANGED own

Init == /\ BusInit /\ today \in StartDays /\ ticks = 0
        /\ breaker = [open |-> FALSE, reset |-> TRUE, tracking |-> TRUE]
Next == \/ \E w \in {51, 71, 92} : CommandMeter(w) \/ CommandHistory(w)
        \/ \E w \in {0, 1, 9, 10, 11, 20} : CommandBreaker(w)
        \/ Answer \/ Trip \/ Midnight \/ Read
Spec == Init /\ [][Next]_vars

(* Today is a day of the calendar, and frames carry durations of one byte. *)
TypeOK ==
  /\ Wire <= MaxWire /\ ticks \in 0 .. MaxTicks /\ IsDate(today)
  /\ breaker \in [{"open", "reset", "tracking"} -> BOOLEAN]
  /\ Reported(LAMBDA f, said : f.dim = 1200 => f.val[1] \in 0 .. 255 /\ f.wpar[1] \in 1 .. 4)

Known(f) == f.where \div 10 \in {1, 5, 7}
(* A sample of an hour or a day carries the last day, up to the one it is  *)
(* decoded on, with the day and month asked for: over New Year and in leap *)
(* years the date asked for, whenever that is less than a year old.  A day *)
(* to come, and the anniversary, both accepted by get_hourly_consumption,  *)
(* and a day whose anniversary midnight strikes between the request and    *)
(* the answer, come out as another year's.  29 February is dropped until   *)
(* there is one this year: last year's is.                                 *)
SamplesAreDated ==
  Reported(LAMBDA f, said :
    said.kind = "day" /\ Known(f) =>
      LET e == EnergyEvent(f)
          m == Month(said.n.date)
          d == Day(said.n.date)
      IN \/ /\ Month(e.date) = m /\ Day(e.date) = d
            /\ e.date <= today /\ Date(Year(e.date) + 1, m, d) > today
            /\ said.n.date \in YearsAgo(today, 1) + 1 .. today => e.date = said.n.date
            /\ IF f.val[1] = 25 THEN e.type = "daily" ELSE e.hour \in 0 .. 23
         \/ /\ e = NoReading /\ m = 2 /\ d = 29
            /\ ~IsLeap(Year(today)) \/ Date(Year(today), 2, 29) > today)

(* A day of the daily table carries the year of the month asked for, over  *)
(* New Year, in leap years and for both years the meter keeps; it is one   *)
(* year late for every time the first of that month came round between the *)
(* request and the answer, which the answer cannot tell, and is dropped    *)
(* when that year has no such day.                                         *)
LastFirst(m, day) == Date(IF Date(Year(day), m, 1) > day THEN Year(day) - 1 ELSE Year(day), m, 1)
TablesAreDated ==
  Reported(LAMBDA f, said :
    said.kind = "table" /\ Known(f) =>
      LET m == Month(said.n.date)
          date == said.n.date + (LastFirst(m, today) - LastFirst(m, said.n.on))
      IN IF IsDate(date) THEN EnergyEvent(f).date = date ELSE EnergyEvent(f) = NoReading)

(* A month of 20YY is the one asked for, and none where none is said;      *)
(* readings and streams are what the meter sends; no duration asked for    *)
(* overflows its byte; a breaker's WHATs and flags tell the same state,    *)
(* the negated flags included.                                             *)
ReadingsAreTrue ==
  Reported(LAMBDA f, said :
    IF IsStopAndGo(f)
    THEN said.kind \in {"open", "reset", "tracking", "test", "days"} =>
           StopAndGoEvent(f)[said.kind] = said.n
    ELSE Known(f) =>
      LET e == EnergyEvent(f)
      IN CASE said.kind = "month" -> e.type = "monthly" /\ e.date = said.n.date
           [] said.kind \in {"power", "total", "today", "this_month"} ->
                e.type = said.kind /\ e.value = said.n
           [] said.kind = "stream" -> /\ e.interval = said.n[1] /\ e.energy = said.n[2]
                                      /\ e.streaming = (said.n[1] > 0)
           [] OTHER -> TRUE)
=============================================================================

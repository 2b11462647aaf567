----------------------------- MODULE PlantProofs ----------------------------
(***************************************************************************)
(* What is under way between a builder, a plant and a decoder: of queues   *)
(* and of the bus, then family by family an invariant of the commands and  *)
(* reports under way, for WHO 13, WHO 18, WHO 6 and 8, WHO 16 and 22.      *)
(***************************************************************************)
EXTENDS Families, FiniteSetTheorems, TLAPS

(*************************** what is under way ***************************)

(* What is under way, whatever it is. *)
IsQueue(s) == s \in Seq({s[i] : i \in DOMAIN s})

LEMMA QueueOf ==
  ASSUME NEW T, NEW s \in Seq(T)
  PROVE  IsQueue(s)
<1>1. DOMAIN s = 1 .. Len(s) /\ Len(s) \in Nat /\ s \in [1 .. Len(s) -> {s[i] : i \in DOMAIN s}]
  OBVIOUS
<1> QED
  BY <1>1 DEF IsQueue

LEMMA QueueIs ==
  ASSUME NEW s, IsQueue(s)
  PROVE  DOMAIN s = 1 .. Len(s) /\ Len(s) \in Nat
BY DEF IsQueue

LEMMA QueueEmpty == IsQueue(<<>>) /\ Len(<<>>) = 0 /\ DOMAIN <<>> = {}
<1>1. <<>> \in Seq({}) /\ Len(<<>>) = 0
  OBVIOUS
<1>2. IsQueue(<<>>)
  BY <1>1, QueueOf
<1>3. DOMAIN <<>> = 1 .. Len(<<>>)
  BY <1>2, QueueIs
<1>4. 1 .. 0 = {}
  OBVIOUS
<1> QED
  BY <1>1, <1>2, <1>3, <1>4

(* The queue t is s and then e. *)
IsGrown(s, e, t) ==
  /\ IsQueue(t) /\ Len(s) \in Nat /\ Len(t) = Len(s) + 1
  /\ DOMAIN s = 1 .. Len(s) /\ DOMAIN t = 1 .. Len(s) + 1
  /\ t[Len(s) + 1] = e /\ \A i \in DOMAIN s : t[i] = s[i]

LEMMA QueueGrows ==
  ASSUME NEW s, IsQueue(s), NEW e
  PROVE  IsGrown(s, e, Append(s, e))
<1> DEFINE X == {s[i] : i \in DOMAIN s}
           T == X \cup {e}
           t == Append(s, e)
<1>1. s \in Seq(X)
  BY DEF IsQueue
<1>2. s \in Seq(T) /\ e \in T
  BY <1>1
<1> HIDE DEF X, T
<1>3. /\ t \in Seq(T) /\ Len(s) \in Nat /\ Len(t) = Len(s) + 1
      /\ DOMAIN s = 1 .. Len(s) /\ DOMAIN t = 1 .. Len(s) + 1
      /\ t[Len(s) + 1] = e /\ \A i \in 1 .. Len(s) : t[i] = s[i]
  BY <1>2
<1> HIDE DEF t
<1>4. IsGrown(s, e, t)
  BY <1>3, QueueOf DEF IsGrown
<1> QED
  BY <1>4 DEF t

LEMMA QueueShrinks ==
  ASSUME NEW s, IsQueue(s), s # <<>>, NEW t, t = Tail(s)
  PROVE  /\ IsQueue(t) /\ Len(s) \in Nat /\ Len(s) = Len(t) + 1 /\ Len(t) \in Nat
         /\ DOMAIN s = 1 .. Len(s) /\ DOMAIN t = 1 .. Len(t)
         /\ 1 \in DOMAIN s /\ Head(s) = s[1]
         /\ \A i \in DOMAIN t : t[i] = s[i + 1] /\ i + 1 \in DOMAIN s
<1> DEFINE X == {s[i] : i \in DOMAIN s}
<1>1. s \in Seq(X)
  BY DEF IsQueue
<1> HIDE DEF X
<1>2. /\ t \in Seq(X) /\ Len(s) \in Nat /\ Len(s) = Len(t) + 1 /\ Len(t) \in Nat
      /\ Head(s) = s[1] /\ \A i \in 1 .. Len(t) : t[i] = s[i + 1]
  BY <1>1
<1>3. IsQueue(t)
  BY <1>2, QueueOf
<1>4. DOMAIN s = 1 .. Len(s) /\ DOMAIN t = 1 .. Len(t)
  BY <1>3, QueueIs
<1> QED
  BY <1>2, <1>3, <1>4


(* What is under way is bounded. *)
BusOk(wire) ==
  /\ wire \in Nat /\ IsQueue(commands) /\ IsQueue(reports)
  /\ Len(commands) \in Nat /\ Len(reports) \in Nat /\ Len(commands) + Len(reports) <= wire

(* Every element of t is one of s, or e. *)
Grows(s, e, t) == \A i \in DOMAIN t : t[i] = e \/ \E j \in DOMAIN s : t[i] = s[j]
Shrinks(s, t) == \A i \in DOMAIN t : \E j \in DOMAIN s : t[i] = s[j]

LEMMA GrownLength ==
  ASSUME NEW s, NEW e, NEW t, IsGrown(s, e, t)
  PROVE  IsQueue(t) /\ Len(s) \in Nat /\ Len(t) = Len(s) + 1
BY DEF IsGrown

LEMMA GrownGrows ==
  ASSUME NEW s, NEW e, NEW t, IsGrown(s, e, t)
  PROVE  Grows(s, e, t)
<1> SUFFICES ASSUME NEW i \in DOMAIN t, t[i] # e
             PROVE  \E j \in DOMAIN s : t[i] = s[j]
  BY DEF Grows
<1>1. i \in DOMAIN s /\ t[i] = s[i]
  BY DEF IsGrown
<1> QED
  BY <1>1

LEMMA BusStarts ==
  ASSUME NEW wire \in Nat, commands = <<>>, reports = <<>>
  PROVE  BusOk(wire) /\ DOMAIN commands = {} /\ DOMAIN reports = {}
<1>1. Len(commands) = 0 /\ Len(reports) = 0
  BY QueueEmpty
<1> QED
  BY <1>1, QueueEmpty DEF BusOk

LEMMA BusPosts ==
  ASSUME NEW wire, BusOk(wire), Len(commands) + Len(reports) < wire, NEW c,
         commands' = Append(commands, c), reports' = reports
  PROVE  BusOk(wire)' /\ Grows(commands, c, commands')
<1>1. IsGrown(commands, c, commands')
  BY QueueGrows DEF BusOk
<1> QED
  BY <1>1, GrownLength, GrownGrows DEF BusOk

LEMMA BusTells ==
  ASSUME NEW wire, BusOk(wire), Len(commands) + Len(reports) < wire, NEW r,
         reports' = Append(reports, r), commands' = commands
  PROVE  BusOk(wire)' /\ Grows(reports, r, reports')
<1>1. IsGrown(reports, r, reports')
  BY QueueGrows DEF BusOk
<1> QED
  BY <1>1, GrownLength, GrownGrows DEF BusOk

LEMMA TailShrinks ==
  ASSUME NEW s, IsQueue(s), s # <<>>, NEW t, t = Tail(s)
  PROVE  Shrinks(s, t) /\ 1 \in DOMAIN s /\ Head(s) = s[1]
BY QueueShrinks DEF Shrinks

LEMMA BusAnswers ==
  ASSUME NEW wire, BusOk(wire), NEW r, commands # <<>>, commands' = Tail(commands),
         reports' = Append(reports, r)
  PROVE  /\ BusOk(wire)' /\ Shrinks(commands, commands') /\ Grows(reports, r, reports')
         /\ 1 \in DOMAIN commands /\ Head(commands) = commands[1]
<1>1. IsGrown(reports, r, reports')
  BY QueueGrows DEF BusOk
<1>2. IsQueue(commands') /\ Len(commands) = Len(commands') + 1 /\ Len(commands') \in Nat
  BY QueueShrinks DEF BusOk
<1>3. Shrinks(commands, commands') /\ 1 \in DOMAIN commands /\ Head(commands) = commands[1]
  BY TailShrinks DEF BusOk
<1> QED
  BY <1>1, <1>2, <1>3, GrownLength, GrownGrows DEF BusOk

LEMMA BusTakes ==
  ASSUME NEW wire, BusOk(wire), reports # <<>>, reports' = Tail(reports), commands' = commands
  PROVE  BusOk(wire)' /\ Shrinks(reports, reports')
<1>1. IsQueue(reports') /\ Len(reports) = Len(reports') + 1 /\ Len(reports') \in Nat
  BY QueueShrinks DEF BusOk
<1>2. Shrinks(reports, reports')
  BY TailShrinks DEF BusOk
<1> QED
  BY <1>1, <1>2 DEF BusOk


(***************************** GatewayClock ******************************)

(* Division by a number that is not written out. *)
LEMMA Division ==
  ASSUME NEW x \in Int, NEW m \in Nat \ {0}, NEW q, q = x \div m, NEW r, r = x % m
  PROVE  q \in Int /\ r \in 0 .. m - 1 /\ x = m * q + r
OBVIOUS

LEMMA DivisionIs ==
  ASSUME NEW x \in Int, NEW m \in Nat \ {0}, NEW q \in Int, NEW r \in 0 .. m - 1, x = m * q + r
  PROVE  x \div m = q /\ x % m = r
<1> DEFINE p == x \div m
           s == x % m
<1>0. p = x \div m /\ s = x % m
  OBVIOUS
<1> HIDE DEF p, s
<1>1. p \in Int /\ s \in 0 .. m - 1 /\ x = m * p + s
  BY <1>0, Division
<1>2. p = q
  <2>1. ASSUME NEW a \in Int, NEW b \in Int, a < b PROVE m * a + m <= m * b
    <3> DEFINE k == b - a - 1
    <3>1. k \in Nat /\ b = a + 1 + k
      BY <2>1
    <3> HIDE DEF k
    <3>2. m * b = m * a + m + m * k /\ m * k \in Nat
      BY <3>1
    <3>3. m * a \in Int
      OBVIOUS
    <3> QED
      BY <3>2, <3>3
  <2>2. m * p \in Int /\ m * q \in Int
    BY <1>1
  <2>3. CASE p < q
    BY <1>1, <2>1, <2>2, <2>3
  <2>4. CASE q < p
    BY <1>1, <2>1, <2>2, <2>4
  <2> QED
    BY <1>1, <2>3, <2>4
<1>3. s = r
  BY <1>1, <1>2
<1> QED
  BY <1>0, <1>2, <1>3

(* Half hours make whole days. *)
LEMMA EvenDay ==
  /\ HalfHours \in Nat \ {0}
  /\ \E h \in Nat : HalfHours = 2 * h
<1>1. HalfHours \in Nat \ {0} /\ HalfHours % 2 = 0
  BY FamiliesAssumption DEF C!ClockAssumption
<1> QED
  BY <1>1

LEMMA HalfHourOfDay ==
  ASSUME NEW n \in Int, NEW q, q = n \div HalfHours, NEW r, r = n % HalfHours
  PROVE  /\ q \in Int /\ r \in 0 .. HalfHours - 1 /\ n = HalfHours * q + r
         /\ r % 2 = n % 2
<1>0. HalfHours \in Nat \ {0}
  BY EvenDay
<1>1. q \in Int /\ r \in 0 .. HalfHours - 1 /\ n = HalfHours * q + r
  BY <1>0, Division
<1>2. PICK h \in Nat : HalfHours = 2 * h
  BY EvenDay
<1>3. HalfHours * q = 2 * (h * q) /\ h * q \in Int
  <2>1. (2 * h) * q = 2 * (h * q) /\ h * q \in Int
    BY <1>1
  <2> QED
    BY <1>2, <2>1
<1>4. PICK k \in Int : n = 2 * k + r
  BY <1>1, <1>3
<1>5. r \in Int /\ r % 2 = n % 2
  BY <1>1, <1>4
<1> QED
  BY <1>1, <1>5

(* The year of the day is that of the moment. *)
LEMMA YearOfDay ==
  ASSUME NEW n \in Int
  PROVE  (n \div HalfHours) \div 4 = n \div (4 * HalfHours)
<1> DEFINE q == n \div HalfHours
           r == n % HalfHours
           y == q \div 4
           d == q % 4
           m == 4 * HalfHours
           s == HalfHours * d + r
<1>0. q = n \div HalfHours /\ r = n % HalfHours
  OBVIOUS
<1> HIDE DEF q, r
<1>1. HalfHours \in Nat \ {0} /\ q \in Int /\ r \in 0 .. HalfHours - 1 /\ n = HalfHours * q + r
  <2>1. HalfHours \in Nat \ {0}
    BY EvenDay
  <2> QED
    BY <1>0, <2>1, Division
<1>2. y \in Int /\ d \in 0 .. 3 /\ q = 4 * y + d /\ m \in Nat \ {0}
  BY <1>1
<1> HIDE DEF y, d
<1>3. s \in 0 .. m - 1
  <2>1. HalfHours * d \in {0, HalfHours, 2 * HalfHours, 3 * HalfHours}
    BY <1>1, <1>2
  <2> QED
    BY <1>1, <2>1
<1>4. n = m * y + s
  <2>1. HalfHours * (4 * y + d) = m * y + HalfHours * d
    BY <1>1, <1>2
  <2>2. HalfHours * q = HalfHours * (4 * y + d)
    BY <1>2
  <2> QED
    BY <1>1, <1>2, <2>1, <2>2
<1> HIDE DEF m, s
<1>5. n \div m = y
  BY <1>2, <1>3, <1>4, DivisionIs
<1> QED
  BY <1>0, <1>5 DEF m, y


Time(n) == n % HalfHours
DayOfTime(n) == n \div HalfHours

LEMMA TimeParts ==
  ASSUME NEW n \in Int
  PROVE  /\ Time(n) \in Int /\ Time(n) \in 0 .. HalfHours - 1 /\ Time(n) % 2 = n % 2
         /\ DayOfTime(n) \in Int /\ n = HalfHours * DayOfTime(n) + Time(n)
<1> DEFINE q == DayOfTime(n)
           r == Time(n)
<1>1. q = n \div HalfHours /\ r = n % HalfHours
  BY DEF Time, DayOfTime
<1> HIDE DEF q, r
<1>2. /\ q \in Int /\ r \in 0 .. HalfHours - 1 /\ n = HalfHours * q + r
      /\ r % 2 = n % 2
  BY <1>1, HalfHourOfDay
<1>3. HalfHours \in Nat
  BY EvenDay
<1> QED
  BY <1>2, <1>3 DEF q, r

(* Times and days are read as they are written. *)
LEMMA TimeIsRead ==
  ASSUME NEW n \in Int, NEW v, v[1] = Time(n) \div 2, v[2] = 30 * (n % 2)
  PROVE  C!TimeOf(v) = Time(n)
<1> DEFINE r == Time(n)
<1>1. r \in Int /\ r % 2 = n % 2
  BY TimeParts
<1> HIDE DEF r
<1>2. v[1] = r \div 2 /\ v[2] = 30 * (r % 2)
  BY <1>1 DEF r
<1>3. 2 * (r \div 2) + ((30 * (r % 2)) \div 30) = r
  BY <1>1
<1> QED
  BY <1>2, <1>3 DEF C!TimeOf, r

LEMMA Tuples ==
  ASSUME NEW a, NEW b, NEW c, NEW z, NEW w, NEW d, NEW m, NEW y
  PROVE  /\ \A v : v = <<a, b, c>> \o <<>> => Len(v) = 3 /\ v[1] = a /\ v[2] = b
         /\ \A v : v = <<a, b, c>> \o <<z>> => Len(v) = 4 /\ v[1] = a /\ v[2] = b /\ v[4] = z
         /\ \A v : v = <<w, d, m, y>> => Len(v) = 4 /\ v[2] = d /\ v[3] = m /\ v[4] = y
         /\ \A v : v = (<<a, b, c>> \o <<z>>) \o <<w, d, m, y>> =>
              /\ Len(v) = 8 /\ v[1] = a /\ v[2] = b /\ v[4] = z
              /\ v[6] = d /\ v[7] = m /\ v[8] = y
OBVIOUS

LEMMA DayIsRead ==
  ASSUME NEW n \in Int
  PROVE  C!DayOf((n % 2) + 1, ((n % 4) \div 2) + 1, n \div 4) = n
BY DEF C!DayOf

LEMMA RequiredIs == C!Required[0] = 3 /\ C!Required[1] = 4 /\ C!Required[22] = 8
BY DEF C!Required

LEMMA DecodedIs ==
  ASSUME NEW f, Len(f.val) \in Nat
  PROVE  /\ f.dim = 0 /\ Len(f.val) >= 3 =>
              C!Decoded(f) = [time |-> C!TimeOf(f.val), day |-> C!Null, zone |-> C!Timezone(f.val)]
         /\ f.dim = 1 /\ Len(f.val) >= 4 =>
              C!Decoded(f) = [time |-> C!Null, day |-> C!DayOf(f.val[2], f.val[3], f.val[4]), zone |-> C!Null]
         /\ f.dim = 22 /\ Len(f.val) >= 8 =>
              C!Decoded(f) = [time |-> C!TimeOf(f.val), day |-> C!DayOf(f.val[6], f.val[7], f.val[8]),
                              zone |-> C!Timezone(f.val)]
<1>1. ASSUME f.dim = 0, Len(f.val) >= 3
      PROVE  C!Decoded(f) = [time |-> C!TimeOf(f.val), day |-> C!Null, zone |-> C!Timezone(f.val)]
  <2>1. ~(Len(f.val) < C!Required[f.dim])
    BY <1>1, RequiredIs
  <2> QED
    BY <1>1, <2>1 DEF C!Decoded
<1>2. ASSUME f.dim = 1, Len(f.val) >= 4
      PROVE  C!Decoded(f) = [time |-> C!Null, day |-> C!DayOf(f.val[2], f.val[3], f.val[4]), zone |-> C!Null]
  <2>1. ~(Len(f.val) < C!Required[f.dim])
    BY <1>2, RequiredIs
  <2> QED
    BY <1>2, <2>1 DEF C!Decoded
<1>3. ASSUME f.dim = 22, Len(f.val) >= 8
      PROVE  C!Decoded(f) = [time |-> C!TimeOf(f.val), day |-> C!DayOf(f.val[6], f.val[7], f.val[8]),
                             zone |-> C!Timezone(f.val)]
  <2>1. ~(Len(f.val) < C!Required[f.dim])
    BY <1>3, RequiredIs
  <2> QED
    BY <1>3, <2>1 DEF C!Decoded
<1> QED
  BY <1>1, <1>2, <1>3

LEMMA ZoneIsRead ==
  ASSUME NEW v, Len(v) > 3, v[4] \in Int, v[4] # C!Null
  PROVE  C!Timezone(v) = C!Means(v[4])
BY DEF C!Timezone, C!Means, C!Unset, C!Null

ClockReads(f, time, day, zone) == C!Decoded(f) = [time |-> time, day |-> day, zone |-> zone]

TimeShown(n) == Time(n) \div 2
HalfShown(n) == 30 * (n % 2)
DateShown(d) == <<d % 7, (d % 2) + 1, ((d % 4) \div 2) + 1, d \div 4>>
LEMMA ValuesShown ==
  ASSUME NEW n, NEW zone
  PROVE  /\ C!TimeValues(n, zone) = <<TimeShown(n), HalfShown(n), 0>> \o zone
         /\ C!DateValues(n) = DateShown(DayOfTime(n))
<1>1. C!TimeValues(n, zone) = <<TimeShown(n), HalfShown(n), 0>> \o zone
  BY Zenon DEF C!TimeValues, Time, TimeShown, HalfShown
<1>2. C!DateValues(n) = DateShown(DayOfTime(n))
  BY Zenon DEF C!DateValues, DayOfTime, DateShown
<1> QED
  BY <1>1, <1>2

LEMMA ValuesOf ==
  ASSUME NEW n, NEW zone
  PROVE  /\ C!Values(0, n, zone) = C!TimeValues(n, zone)
         /\ C!Values(1, n, zone) = C!DateValues(n)
         /\ C!Values(22, n, zone) = C!TimeValues(n, zone) \o C!DateValues(n)
BY DEF C!Values

LEMMA TimeFrame ==
  ASSUME NEW n \in Int, NEW z \in Int, z # C!Null, NEW f, f.dim = 0, f.val = C!Values(0, n, <<z>>)
  PROVE  ClockReads(f, Time(n), C!Null, C!Means(z)) /\ f.val[4] = z
<1> DEFINE v == f.val
<1>1. v = <<TimeShown(n), HalfShown(n), 0>> \o <<z>>
  <2>1. C!Values(0, n, <<z>>) = C!TimeValues(n, <<z>>)
    BY ValuesOf
  <2>2. C!TimeValues(n, <<z>>) = <<TimeShown(n), HalfShown(n), 0>> \o <<z>>
    BY ValuesShown
  <2> QED
    BY <2>1, <2>2
<1> HIDE DEF v
<1>2. Len(v) = 4 /\ v[1] = TimeShown(n) /\ v[2] = HalfShown(n) /\ v[4] = z
  BY <1>1, Tuples DEF DateShown
<1>3. C!TimeOf(v) = Time(n)
  BY <1>2, TimeIsRead DEF TimeShown, HalfShown
<1>4. C!Timezone(v) = C!Means(z)
  BY <1>2, ZoneIsRead
<1>5. C!Decoded(f) = [time |-> C!TimeOf(v), day |-> C!Null, zone |-> C!Timezone(v)]
  BY <1>2, DecodedIs DEF v
<1> QED
  BY <1>2, <1>3, <1>4, <1>5 DEF v, ClockReads

LEMMA BareTimeFrame ==
  ASSUME NEW n \in Int, NEW f, f.dim = 0, f.val = C!Values(0, n, <<>>)
  PROVE  ClockReads(f, Time(n), C!Null, C!Null)
<1> DEFINE v == f.val
<1>1. v = <<TimeShown(n), HalfShown(n), 0>> \o <<>>
  <2>1. C!Values(0, n, <<>>) = C!TimeValues(n, <<>>)
    BY ValuesOf
  <2>2. C!TimeValues(n, <<>>) = <<TimeShown(n), HalfShown(n), 0>> \o <<>>
    BY ValuesShown
  <2> QED
    BY <2>1, <2>2
<1> HIDE DEF v
<1>2. Len(v) = 3 /\ v[1] = TimeShown(n) /\ v[2] = HalfShown(n)
  BY <1>1, Tuples DEF DateShown
<1>3. C!TimeOf(v) = Time(n)
  BY <1>2, TimeIsRead DEF TimeShown, HalfShown
<1>4. C!Timezone(v) = C!Null
  BY <1>2 DEF C!Timezone
<1>5. C!Decoded(f) = [time |-> C!TimeOf(v), day |-> C!Null, zone |-> C!Timezone(v)]
  BY <1>2, DecodedIs DEF v
<1> QED
  BY <1>3, <1>4, <1>5 DEF ClockReads

LEMMA DateFrame ==
  ASSUME NEW n \in Int, NEW zone, NEW f, f.dim = 1, f.val = C!Values(1, n, zone)
  PROVE  /\ ClockReads(f, C!Null, DayOfTime(n), C!Null)
         /\ f.val[Len(f.val)] = n \div (4 * HalfHours)
<1> DEFINE v == f.val
           d == DayOfTime(n)
<1>0. d \in Int /\ d \div 4 = n \div (4 * HalfHours)
  BY YearOfDay, TimeParts DEF DayOfTime
<1>1. v = DateShown(d)
  BY ValuesShown, ValuesOf
<1> HIDE DEF v, d
<1>2. Len(v) = 4 /\ v[2] = (d % 2) + 1 /\ v[3] = ((d % 4) \div 2) + 1 /\ v[4] = d \div 4
  BY <1>1, Tuples DEF DateShown
<1>4. C!Decoded(f) = [time |-> C!Null, day |-> C!DayOf(v[2], v[3], v[4]), zone |-> C!Null]
  BY <1>2, DecodedIs DEF v
<1>5. C!DayOf(v[2], v[3], v[4]) = d
  BY <1>0, <1>2, DayIsRead
<1> QED
  BY <1>0, <1>2, <1>4, <1>5 DEF v, d, ClockReads

LEMMA WholeFrame ==
  ASSUME NEW n \in Int, NEW z \in Int, z # C!Null, NEW f, f.dim = 22, f.val = C!Values(22, n, <<z>>)
  PROVE  /\ ClockReads(f, Time(n), DayOfTime(n), C!Means(z)) /\ f.val[4] = z
         /\ f.val[Len(f.val)] = n \div (4 * HalfHours)
<1> DEFINE v == f.val
           d == DayOfTime(n)
<1>0. d \in Int /\ d \div 4 = n \div (4 * HalfHours)
  BY YearOfDay, TimeParts DEF DayOfTime
<1>1. v = (<<TimeShown(n), HalfShown(n), 0>> \o <<z>>)
          \o DateShown(d)
  <2>1. C!Values(22, n, <<z>>) = C!TimeValues(n, <<z>>) \o C!DateValues(n)
    BY ValuesOf
  <2>2. C!TimeValues(n, <<z>>) = <<TimeShown(n), HalfShown(n), 0>> \o <<z>>
    BY ValuesShown
  <2>3. C!DateValues(n) = DateShown(d)
    BY ValuesShown
  <2> QED
    BY <2>1, <2>2, <2>3
<1> HIDE DEF v, d
<1>2. /\ Len(v) = 8 /\ v[1] = TimeShown(n) /\ v[2] = HalfShown(n) /\ v[4] = z
      /\ v[6] = (d % 2) + 1 /\ v[7] = ((d % 4) \div 2) + 1 /\ v[8] = d \div 4
  BY <1>1, Tuples DEF DateShown
<1>4. C!Decoded(f) = [time |-> C!TimeOf(v), day |-> C!DayOf(v[6], v[7], v[8]), zone |-> C!Timezone(v)]
  BY <1>2, DecodedIs DEF v
<1>5. C!DayOf(v[6], v[7], v[8]) = d
  BY <1>0, <1>2, DayIsRead
<1>6. C!TimeOf(v) = Time(n)
  BY <1>2, TimeIsRead DEF TimeShown, HalfShown
<1>7. C!Timezone(v) = C!Means(z)
  BY <1>2, ZoneIsRead
<1> QED
  BY <1>0, <1>2, <1>4, <1>5, <1>6, <1>7 DEF v, d, ClockReads

(* A zone is what it was written as. *)
LEMMA ZoneMeans ==
  ASSUME NEW o \in -47 .. 47, o % 2 = 0
  PROVE  /\ C!Encode(o) \in Int /\ C!Encode(o) # C!Null /\ C!Encode(o) # C!Unset
         /\ C!Means(C!Encode(o)) = o
BY DEF C!Encode, C!Means, C!Null, C!Unset


(* A command that sets the clock carries the local time it stands for. *)
ClockWritten(c) ==
  /\ c.f.type = "DIMENSION_WRITING" /\ c.f.dim \in {0, 1, 22}
  /\ c.said = C!Said(c.said.local, c.said.offset)
  /\ c.said.local \in Int /\ c.said.offset \in -47 .. 47 /\ c.at = c.said.local - c.said.offset
  /\ c.f.val = C!Values(c.f.dim, c.said.local, <<C!Encode(c.said.offset)>>)
  /\ c.f.dim # 1 => c.said.offset % 2 = 0
  /\ C!InYears(c.said.local, c.said.offset)
ClockCommandOk(c) ==
  ClockWritten(c) \/ (c.f.type = "DIMENSION_REQUEST" /\ c.f.dim \in {0, 1, 22})
ClockTold(r) ==
  C!Decoded(r.f) = [time |-> IF r.f.dim = 1 THEN C!Null ELSE r.said.local % HalfHours,
                    day |-> IF r.f.dim = 0 THEN C!Null ELSE r.said.local \div HalfHours,
                    zone |-> r.said.offset]
ClockError == clock - C!Means(tz) - (now - late)
ClockBus ==
  /\ IsQueue(commands) /\ IsQueue(reports) /\ Len(commands) + Len(reports) <= ClockWire
  /\ \A i \in DOMAIN commands : ClockCommandOk(commands[i])
  /\ \A i \in DOMAIN reports : ClockTold(reports[i])
ClockTime ==
  /\ now \in Start .. End /\ now \in Int /\ clock \in Int /\ late \in Int /\ astray \in Int
  /\ tz \in Int /\ tz # C!Null
  /\ astray # C!Null => tz # C!Unset
  /\ tz # C!Unset => /\ C!Means(tz) \in Int /\ \E k \in Int : ClockError = HalfHours * k
                     /\ astray # C!Null => ClockError = HalfHours * astray
ClockInv == ClockBus /\ ClockTime

LEMMA ClockConstants ==
  /\ Start \in Nat /\ End \in Nat /\ Start <= End /\ SwitchMoment \in Nat /\ ClockWire \in Nat
  /\ \A z \in TimeZones : Before[z] \in -47 .. 47 /\ After[z] \in -47 .. 47
  /\ Moments \subseteq Nat /\ Years \subseteq Nat /\ HalfHours \in Nat \ {0}
BY FamiliesAssumption DEF C!ClockAssumption

(* The frame that is built of a local time is a command that is all right. *)
LEMMA SetIsWritten ==
  ASSUME NEW dim \in {0, 1, 22}, NEW local \in Int, NEW offset \in -47 .. 47,
         C!Set(dim, local, offset) # C!Refuse,
         NEW c, c.f = C!Set(dim, local, offset), c.at = local - offset, c.said = C!Said(local, offset)
  PROVE  ClockCommandOk(c)
<1>1. /\ C!InYears(local, offset) /\ (dim # 1 => offset % 2 = 0)
      /\ c.f = C!DimensionWriting(13, C!Null, dim, C!Values(dim, local, <<C!Encode(offset)>>))
  BY DEF C!Set
<1>2. c.f.type = "DIMENSION_WRITING" /\ c.f.dim = dim /\ c.f.val = C!Values(dim, local, <<C!Encode(offset)>>)
  BY <1>1 DEF C!DimensionWriting, C!Frame
<1>3. c.at = local - offset /\ c.said = C!Said(local, offset)
  OBVIOUS
<1>4. c.said.local = local /\ c.said.offset = offset
  BY <1>3 DEF C!Said
<1> QED
  BY <1>1, <1>2, <1>3, <1>4 DEF ClockCommandOk, ClockWritten

LEMMA ClockSends ==
  ASSUME ClockInv, NEW f, NEW at, NEW said, C!Send(f, at, said),
         NEW c, c = [f |-> f, at |-> at, said |-> said], ClockCommandOk(c)
  PROVE  ClockInv'
<1>1. /\ Len(commands) + Len(reports) < ClockWire /\ commands' = Append(commands, c)
      /\ UNCHANGED <<now, clock, tz, late, astray, reports>>
  BY DEF C!Send, C!Wire
<1>2. ClockBus'
  <2>1. IsQueue(commands) /\ IsQueue(reports) /\ ClockWire \in Nat
    BY ClockConstants DEF ClockInv, ClockBus
  <2>2. IsGrown(commands, c, commands')
    BY <1>1, <2>1, QueueGrows
  <2>3. Len(reports) \in Nat
    BY <2>1, QueueIs
  <2>4. \A i \in DOMAIN commands' : ClockCommandOk(commands'[i])
    BY <2>2 DEF ClockInv, ClockBus, IsGrown
  <2> QED
    BY <1>1, <2>1, <2>2, <2>3, <2>4 DEF ClockInv, ClockBus, IsGrown
<1>3. ClockTime'
  BY <1>1 DEF ClockInv, ClockTime, ClockError
<1> QED
  BY <1>2, <1>3 DEF ClockInv

(* A report is appended to what is on the way back. *)
LEMMA ClockShows ==
  ASSUME ClockBus, NEW r, ClockTold(r), reports' = Append(reports, r),
         \/ UNCHANGED commands /\ Len(commands) + Len(reports) < ClockWire
         \/ commands # <<>> /\ commands' = Tail(commands)
  PROVE  ClockBus'
<1>1. IsQueue(commands) /\ IsQueue(reports) /\ ClockWire \in Nat
  BY ClockConstants DEF ClockBus
<1>2. IsGrown(reports, r, reports')
  BY <1>1, QueueGrows
<1>3. \A i \in DOMAIN reports' : ClockTold(reports'[i])
  BY <1>2 DEF ClockBus, IsGrown
<1>4. Len(commands) \in Nat
  BY <1>1, QueueIs
<1>5. CASE UNCHANGED commands /\ Len(commands) + Len(reports) < ClockWire
  BY <1>1, <1>2, <1>3, <1>4, <1>5 DEF ClockBus, IsGrown
<1>6. CASE commands # <<>> /\ commands' = Tail(commands)
  <2>1. /\ IsQueue(commands') /\ Len(commands) = Len(commands') + 1 /\ Len(commands') \in Nat
        /\ \A i \in DOMAIN commands' : commands'[i] = commands[i + 1] /\ i + 1 \in DOMAIN commands
    BY <1>1, <1>6, QueueShrinks
  <2>2. \A i \in DOMAIN commands' : ClockCommandOk(commands'[i])
    BY <2>1 DEF ClockBus
  <2> QED
    BY <1>1, <1>2, <1>3, <2>1, <2>2 DEF ClockBus, IsGrown
<1> QED
  BY <1>5, <1>6


LEMMA NoSuchDay == C!Null < 0 /\ C!Null \in Int
BY DEF C!Null

(* What a command for the clock is decoded to. *)
LEMMA WrittenIsRead ==
  ASSUME NEW c, ClockWritten(c), NEW n, n = c.said.local, NEW d, d = C!Decoded(c.f)
  PROVE  /\ d.time = IF c.f.dim = 1 THEN C!Null ELSE Time(n)
         /\ d.day = IF c.f.dim = 0 THEN C!Null ELSE DayOfTime(n)
         /\ d.zone = IF c.f.dim = 1 THEN C!Null ELSE c.said.offset
         /\ d = [time |-> d.time, day |-> d.day, zone |-> d.zone]
         /\ c.f.dim # 1 => /\ c.f.val[4] \in Int /\ c.f.val[4] # C!Null /\ c.f.val[4] # C!Unset
                           /\ C!Means(c.f.val[4]) = c.said.offset
         /\ DayOfTime(n) >= 0 /\ Time(n) >= 0
         /\ c.f.dim # 0 => c.f.val[Len(c.f.val)] \in Years
<1> DEFINE o == c.said.offset
           z == C!Encode(o)
           f == c.f
<1>1. /\ n \in Int /\ o \in -47 .. 47 /\ f.dim \in {0, 1, 22} /\ f.val = C!Values(f.dim, n, <<z>>)
      /\ f.dim # 1 => o % 2 = 0
      /\ n \div (4 * HalfHours) \in Years
  BY DEF ClockWritten, C!InYears
<1>2. f.dim # 1 => z \in Int /\ z # C!Null /\ z # C!Unset /\ C!Means(z) = o
  BY <1>1, ZoneMeans
<1>3. DayOfTime(n) >= 0 /\ Time(n) >= 0
  <2>1. DayOfTime(n) \in Int /\ Time(n) \in 0 .. HalfHours - 1
    BY <1>1, TimeParts
  <2>2. DayOfTime(n) \div 4 = n \div (4 * HalfHours)
    BY <1>1, YearOfDay DEF DayOfTime
  <2>3. DayOfTime(n) \div 4 \in Nat
    BY <1>1, <2>2, ClockConstants
  <2> QED
    BY <2>1, <2>3, ClockConstants
<1> HIDE DEF o, z, f
<1>4. CASE f.dim = 0
  <2>1. ClockReads(f, Time(n), C!Null, C!Means(z)) /\ f.val[4] = z
    BY <1>1, <1>2, <1>4, TimeFrame
  <2>2. d = [time |-> Time(n), day |-> C!Null, zone |-> o]
    BY <1>2, <1>4, <2>1 DEF ClockReads, f
  <2> QED
    BY <1>2, <1>3, <1>4, <2>1, <2>2 DEF o, f
<1>5. CASE f.dim = 1
  <2>1. ClockReads(f, C!Null, DayOfTime(n), C!Null) /\ f.val[Len(f.val)] = n \div (4 * HalfHours)
    <3>1. f.dim = 1 /\ f.val = C!Values(1, n, <<z>>) /\ n \in Int
      BY <1>1, <1>5
    <3> QED
      BY <3>1, DateFrame
  <2>2. d = [time |-> C!Null, day |-> DayOfTime(n), zone |-> C!Null]
    BY <2>1 DEF ClockReads, f
  <2> QED
    BY <1>1, <1>3, <1>5, <2>1, <2>2 DEF o, f
<1>6. CASE f.dim = 22
  <2>1. /\ ClockReads(f, Time(n), DayOfTime(n), C!Means(z)) /\ f.val[4] = z
        /\ f.val[Len(f.val)] = n \div (4 * HalfHours)
    BY <1>1, <1>2, <1>6, WholeFrame
  <2>2. d = [time |-> Time(n), day |-> DayOfTime(n), zone |-> o]
    BY <1>2, <1>6, <2>1 DEF ClockReads, f
  <2> QED
    BY <1>1, <1>2, <1>3, <1>6, <2>1, <2>2 DEF o, f
<1> QED
  BY <1>1, <1>4, <1>5, <1>6

(* A clock that is set shows the moment it is set to. *)
LEMMA ClockIsSet ==
  ASSUME ClockTime, NEW c, ClockWritten(c), c.f.dim # 1, NEW d, d = C!Decoded(c.f),
         clock' = (IF d.day = C!Null THEN clock \div HalfHours ELSE d.day) * HalfHours
                    + (IF d.time = C!Null THEN (clock % HalfHours) ELSE d.time),
         tz' = c.f.val[4], late' = now - c.at, astray' = (IF c.f.dim = 22 THEN 0 ELSE C!Null), now' = now
  PROVE  ClockTime'
<1> DEFINE n == c.said.local
           o == c.said.offset
           m == C!Means(tz)
<1>1. /\ d.time = Time(n) /\ d.day = (IF c.f.dim = 0 THEN C!Null ELSE DayOfTime(n))
      /\ tz' \in Int /\ tz' # C!Null /\ tz' # C!Unset /\ C!Means(tz') = o
      /\ DayOfTime(n) >= 0 /\ Time(n) >= 0
  BY WrittenIsRead
<1>2. n \in Int /\ o \in Int /\ c.at = n - o /\ c.f.dim \in {0, 22}
  BY DEF ClockWritten
<1>3. now \in Int /\ now \in Start .. End /\ clock \in Int
  BY DEF ClockTime
<1>4. late' = (now - n) + o /\ late' \in Int
  BY <1>2, <1>3
<1>5. C!Means(tz)' = C!Means(tz')
  OBVIOUS
<1>6. HalfHours \in Int /\ DayOfTime(n) \in Int /\ Time(n) \in Int /\ n = HalfHours * DayOfTime(n) + Time(n)
  BY <1>2, EvenDay, TimeParts
<1> DEFINE k == (clock \div HalfHours) - DayOfTime(n)
<1>7. clock \div HalfHours \in Int
  BY <1>3, TimeParts DEF DayOfTime
<1> HIDE DEF n, o
<1>8. CASE c.f.dim = 0
  <2>1. clock' = (clock \div HalfHours) * HalfHours + Time(n) /\ astray' = C!Null
    <3>1. d.day = C!Null
      BY <1>1, <1>8
    <3>2. d.time = Time(n) /\ Time(n) # C!Null
      BY <1>1, <1>6, NoSuchDay
    <3>3. clock' = (clock \div HalfHours) * HalfHours + Time(n)
      BY <3>1, <3>2
    <3>4. c.f.dim # 22
      BY <1>8
    <3>5. astray' = C!Null
      BY <3>4
    <3> QED
      BY <3>3, <3>5
  <2> DEFINE q == clock \div HalfHours
             p == DayOfTime(n)
  <2>2. q \in Int /\ p \in Int
    BY <1>6, <1>7
  <2> HIDE DEF q, p
  <2>3. q * HalfHours + Time(n) - (HalfHours * p + Time(n)) = HalfHours * (q - p)
    <3>1. q * HalfHours = HalfHours * q /\ HalfHours * (q - p) = HalfHours * q - HalfHours * p
      BY <1>6, <2>2
    <3>2. HalfHours * q \in Int /\ HalfHours * p \in Int
      BY <1>6, <2>2
    <3> QED
      BY <1>6, <3>1, <3>2
  <2>4. clock' = q * HalfHours + Time(n) /\ n = HalfHours * p + Time(n)
    BY <1>6, <2>1 DEF q, p
  <2>5. clock' \in Int /\ clock' - n = HalfHours * (q - p) /\ q - p \in Int
    BY <1>2, <1>6, <2>2, <2>3, <2>4
  <2>6. ClockError' = clock' - n
    BY <1>1, <1>2, <1>3, <1>4, <1>5, <2>5 DEF ClockError, n
  <2>7. \E j \in Int : ClockError' = HalfHours * j
    BY <2>5, <2>6
  <2> QED
    BY <1>1, <1>2, <1>3, <1>4, <1>5, <2>1, <2>5, <2>7 DEF ClockTime, ClockError, o, C!Null
<1>9. CASE c.f.dim = 22
  <2>1. clock' = DayOfTime(n) * HalfHours + Time(n)
    BY <1>1, <1>9, NoSuchDay
  <2>2. clock' = n
    BY <1>6, <2>1
  <2>3. ClockError' = 0
    BY <1>1, <1>2, <1>3, <1>4, <1>5, <2>2 DEF ClockError, n
  <2>4. HalfHours * 0 = 0
    BY <1>6
  <2>5. n \in Int /\ o \in Int /\ astray' = 0
    BY <1>2, <1>9 DEF n, o
  <2> QED
    BY <1>1, <1>3, <1>4, <1>5, <2>2, <2>3, <2>4, <2>5 DEF ClockTime, ClockError
<1> QED
  BY <1>2, <1>8, <1>9


(* A clock whose date is set has the date of its time, or not. *)
LEMMA ClockIsDated ==
  ASSUME ClockTime, NEW c, ClockWritten(c), c.f.dim = 1, NEW d, d = C!Decoded(c.f),
         clock' = (IF d.day = C!Null THEN clock \div HalfHours ELSE d.day) * HalfHours
                    + (IF d.time = C!Null THEN (clock % HalfHours) ELSE d.time),
         astray' = (IF tz = C!Unset THEN C!Null
                    ELSE c.said.local \div HalfHours - (now - late + C!Means(tz)) \div HalfHours),
         UNCHANGED <<tz, late, now>>
  PROVE  ClockTime'
<1> DEFINE p == DayOfTime(c.said.local)
           q == DayOfTime(clock)
           t == Time(clock)
<1>1. d.time = C!Null /\ d.day = p /\ p >= 0
  BY WrittenIsRead
<1>2. c.said.local \in Int /\ clock \in Int /\ HalfHours \in Int /\ HalfHours \in Nat \ {0}
  BY EvenDay DEF ClockWritten, ClockTime
<1>3. p \in Int /\ q \in Int /\ t \in Int /\ t \in 0 .. HalfHours - 1 /\ clock = HalfHours * q + t
  BY <1>2, TimeParts
<1>4. clock' = p * HalfHours + t
  <2>1. d.day # C!Null
    BY <1>1, <1>3, NoSuchDay
  <2> QED
    BY <1>1, <2>1 DEF Time
<1> HIDE DEF p, q, t
<1>5. p * HalfHours = HalfHours * p /\ HalfHours * p \in Int /\ HalfHours * q \in Int
  BY <1>2, <1>3
<1>6. clock' \in Int /\ clock' = HalfHours * p + t
  BY <1>3, <1>4, <1>5
<1>7. ASSUME tz # C!Unset
      PROVE  /\ \E k \in Int : ClockError' = HalfHours * k
             /\ ClockError' = HalfHours * astray' /\ astray' \in Int
  <2> DEFINE z == C!Means(tz)
             m == now - late + z
  <2>1. PICK k \in Int : ClockError = HalfHours * k
    BY <1>7 DEF ClockTime
  <2>2. z \in Int /\ now \in Int /\ late \in Int
    BY <1>7 DEF ClockTime
  <2>3. m \in Int /\ ClockError = clock - m /\ ClockError' = clock' - m
    BY <1>2, <1>6, <2>2 DEF ClockError
  <2> DEFINE e == DayOfTime(m)
             s == Time(m)
  <2>4. astray' = p - e
    BY <1>7 DEF DayOfTime, p
  <2> HIDE DEF z
  <2>5. e \in Int /\ s \in Int /\ s \in 0 .. HalfHours - 1 /\ m = HalfHours * e + s
    BY <2>3, TimeParts
  <2> HIDE DEF e, s, m
  <2>6. HalfHours * e \in Int /\ HalfHours * k \in Int /\ clock = m + HalfHours * k
    BY <1>2, <2>1, <2>3, <2>5
  <2>7. HalfHours * (e + k) = HalfHours * e + HalfHours * k /\ e + k \in Int
    BY <1>2, <2>1, <2>5
  <2>8. clock = HalfHours * (e + k) + s
    BY <2>5, <2>6, <2>7
  <2>9. clock % HalfHours = s
    BY <1>2, <2>5, <2>7, <2>8, DivisionIs
  <2>10. t = s
    BY <2>9 DEF t, Time
  <2>11. HalfHours * (p - e) = HalfHours * p - HalfHours * e /\ p - e \in Int
    BY <1>2, <1>3, <2>5
  <2>12. ClockError' = HalfHours * (p - e)
    BY <1>5, <1>6, <2>3, <2>5, <2>6, <2>10, <2>11
  <2> QED
    BY <2>4, <2>11, <2>12
<1>8. astray' \in Int
  BY <1>7 DEF C!Null
<1>9. /\ now' \in Start .. End /\ now' \in Int /\ late' \in Int /\ (astray' # C!Null => tz' # C!Unset)
      /\ tz' \in Int /\ tz' # C!Null
      /\ (tz' # C!Unset => C!Means(tz') \in Int)
  BY DEF ClockTime
<1> QED
  BY <1>6, <1>7, <1>8, <1>9 DEF ClockTime

(* A report tells the clock as it is. *)
LEMMA ReportIsRead ==
  ASSUME clock \in Int, tz \in Int, tz # C!Null, NEW dim \in {0, 1, 22},
         NEW zone \in C!ZoneTold(dim), NEW r, r = C!Report(dim, zone)
  PROVE  ClockTold(r)
<1> DEFINE f == C!DimensionReply(13, C!Null, dim, C!Values(dim, clock, zone))
           s == C!Said(clock, IF dim = 1 \/ zone = <<>> THEN C!Null ELSE C!Means(zone[1]))
<1>1. r = [f |-> f, said |-> s]
  BY DEF C!Report
<1>2. r.f = f /\ r.said = s
  BY <1>1
<1>3. f.dim = dim /\ f.val = C!Values(dim, clock, zone)
  BY DEF C!DimensionReply, C!Frame
<1>4. zone = <<tz>> \/ (dim = 0 /\ zone = <<>>)
  BY DEF C!ZoneTold
<1>5. CASE dim = 1
  <2>1. s.local = clock /\ s.offset = C!Null
    BY <1>5 DEF C!Said
  <2> HIDE DEF f, s
  <2>2. ClockReads(f, C!Null, DayOfTime(clock), C!Null)
    BY <1>3, <1>5, DateFrame
  <2> QED
    BY <1>2, <1>3, <1>5, <2>1, <2>2 DEF ClockTold, ClockReads, DayOfTime
<1>6. CASE dim # 1 /\ zone = <<tz>>
  <2>0. zone # <<>> /\ zone[1] = tz
    BY <1>6
  <2>1. s.local = clock /\ s.offset = C!Means(tz)
    BY <1>6, <2>0 DEF C!Said
  <2> HIDE DEF f, s
  <2>2. CASE dim = 0
    <3>1. ClockReads(f, Time(clock), C!Null, C!Means(tz))
      BY <1>3, <1>6, <2>2, TimeFrame
    <3> QED
      BY <1>2, <1>3, <2>1, <2>2, <3>1 DEF ClockTold, ClockReads, Time
  <2>3. CASE dim = 22
    <3>1. ClockReads(f, Time(clock), DayOfTime(clock), C!Means(tz))
      BY <1>3, <1>6, <2>3, WholeFrame
    <3> QED
      BY <1>2, <1>3, <2>1, <2>3, <3>1 DEF ClockTold, ClockReads, Time, DayOfTime
  <2> QED
    BY <1>6, <2>2, <2>3
<1>7. CASE dim = 0 /\ zone = <<>>
  <2>1. s.local = clock /\ s.offset = C!Null
    BY <1>7 DEF C!Said
  <2> HIDE DEF f, s
  <2>2. ClockReads(f, Time(clock), C!Null, C!Null)
    BY <1>3, <1>7, BareTimeFrame
  <2> QED
    BY <1>2, <1>3, <1>7, <2>1, <2>2 DEF ClockTold, ClockReads, Time
<1> QED
  BY <1>4, <1>5, <1>6, <1>7


(* What is shown of a command. *)
LEMMA CommandIsRead ==
  ASSUME NEW c, ClockWritten(c), NEW r,
         r = [f |-> c.f, said |-> IF c.f.dim = 1 THEN [c.said EXCEPT !.offset = C!Null] ELSE c.said]
  PROVE  ClockTold(r)
<1> DEFINE n == c.said.local
           o == c.said.offset
           d == C!Decoded(c.f)
<1>1. /\ d.time = IF c.f.dim = 1 THEN C!Null ELSE Time(n)
      /\ d.day = IF c.f.dim = 0 THEN C!Null ELSE DayOfTime(n)
      /\ d.zone = IF c.f.dim = 1 THEN C!Null ELSE o
      /\ d = [time |-> d.time, day |-> d.day, zone |-> d.zone]
  BY WrittenIsRead
<1>2. c.said = [local |-> n, offset |-> o]
  BY DEF ClockWritten, C!Said
<1>3. [c.said EXCEPT !.offset = C!Null] = [local |-> n, offset |-> C!Null]
  BY <1>2
<1>4. r.f = c.f
  OBVIOUS
<1>5. r.said.local = n /\ r.said.offset = (IF c.f.dim = 1 THEN C!Null ELSE o)
  <2>1. CASE c.f.dim = 1
    <3>1. r.said = [local |-> n, offset |-> C!Null]
      BY <1>3, <2>1
    <3> QED
      BY <2>1, <3>1
  <2>2. CASE c.f.dim # 1
    BY <2>2
  <2> QED
    BY <2>1, <2>2
<1> HIDE DEF n, o, d
<1>6. C!Decoded(r.f) = d
  BY <1>4 DEF d
<1>7. d = [time |-> IF r.f.dim = 1 THEN C!Null ELSE r.said.local % HalfHours,
           day |-> IF r.f.dim = 0 THEN C!Null ELSE r.said.local \div HalfHours,
           zone |-> r.said.offset]
  BY <1>1, <1>4, <1>5 DEF Time, DayOfTime
<1> QED
  BY <1>6, <1>7 DEF ClockTold

LEMMA ClockCarriesOut ==
  ASSUME ClockInv, C!CarryOut
  PROVE  ClockInv'
<1> DEFINE c == Head(commands)
           d == C!Decoded(c.f)
           r == [f |-> c.f, said |-> IF c.f.dim = 1 THEN [c.said EXCEPT !.offset = C!Null] ELSE c.said]
<1>1. ClockBus /\ ClockTime
  BY DEF ClockInv
<1>2. /\ commands # <<>> /\ c.f.type = "DIMENSION_WRITING" /\ commands' = Tail(commands) /\ now' = now
      /\ reports' = Append(reports, r)
      /\ clock' = (IF d.day = C!Null THEN clock \div HalfHours ELSE d.day) * HalfHours
                    + (IF d.time = C!Null THEN (clock % HalfHours) ELSE d.time)
      /\ c.f.dim = 1 => /\ astray' = (IF tz = C!Unset THEN C!Null
                                     ELSE c.said.local \div HalfHours - (now - late + C!Means(tz)) \div HalfHours)
                        /\ UNCHANGED <<tz, late>>
      /\ c.f.dim # 1 => tz' = c.f.val[4] /\ late' = now - c.at /\ astray' = (IF c.f.dim = 22 THEN 0 ELSE C!Null)
  BY DEF C!CarryOut
<1>3. ClockWritten(c)
  <2>1. IsQueue(commands)
    BY <1>1 DEF ClockBus
  <2>2. c = commands[1] /\ 1 \in DOMAIN commands
    BY <1>2, <2>1, QueueShrinks
  <2>3. ClockCommandOk(c)
    BY <1>1, <2>2 DEF ClockBus
  <2> QED
    BY <1>2, <2>3 DEF ClockCommandOk
<1>4. ClockTold(r)
  BY <1>3, CommandIsRead
<1> HIDE DEF c, r
<1>5. ClockBus'
  BY <1>1, <1>2, <1>4, ClockShows
<1>6. ClockTime'
  <2>1. CASE c.f.dim = 1
    BY <1>1, <1>2, <1>3, <2>1, ClockIsDated
  <2>2. CASE c.f.dim # 1
    BY <1>1, <1>2, <1>3, <2>2, ClockIsSet
  <2> QED
    BY <2>1, <2>2
<1> QED
  BY <1>5, <1>6 DEF ClockInv

LEMMA ClockTicks ==
  ASSUME ClockInv, C!Tick
  PROVE  ClockInv'
<1>1. /\ now < End /\ now' = now + 1 /\ clock' = clock + 1
      /\ UNCHANGED <<tz, late, astray, commands, reports>>
  BY DEF C!Tick
<1>2. ClockBus'
  BY <1>1 DEF ClockInv, ClockBus
<1>3. ClockTime
  BY DEF ClockInv
<1>4. now' \in Start .. End /\ now' \in Int /\ clock' \in Int /\ now \in Int /\ clock \in Int
  BY <1>1, <1>3, ClockConstants DEF ClockTime
<1>5. tz # C!Unset => ClockError' = ClockError
  BY <1>1, <1>3, <1>4 DEF ClockTime, ClockError
<1> QED
  BY <1>1, <1>2, <1>3, <1>4, <1>5 DEF ClockInv, ClockTime

LEMMA ClockTells ==
  ASSUME ClockInv, NEW dim \in {0, 1, 22}, NEW zone \in C!ZoneTold(dim),
         reports' = Append(reports, C!Report(dim, zone)), UNCHANGED <<now, clock, tz, late, astray>>,
         \/ UNCHANGED commands /\ Len(commands) + Len(reports) < ClockWire
         \/ commands # <<>> /\ commands' = Tail(commands)
  PROVE  ClockInv'
<1>1. ClockTold(C!Report(dim, zone))
  BY ReportIsRead DEF ClockInv, ClockTime
<1>2. ClockBus'
  BY <1>1, ClockShows DEF ClockInv
<1>3. ClockTime'
  BY DEF ClockInv, ClockTime, ClockError
<1> QED
  BY <1>2, <1>3 DEF ClockInv

LEMMA ClockTakes ==
  ASSUME ClockInv, C!Take
  PROVE  ClockInv'
<1>1. /\ reports # <<>> /\ reports' = Tail(reports)
      /\ UNCHANGED <<now, clock, tz, late, astray, commands>>
  BY DEF C!Take
<1>2. ClockTime'
  BY <1>1 DEF ClockInv, ClockTime, ClockError
<1>3. IsQueue(commands) /\ IsQueue(reports) /\ ClockWire \in Nat
  BY ClockConstants DEF ClockInv, ClockBus
<1>4. /\ IsQueue(reports') /\ Len(reports) = Len(reports') + 1 /\ Len(reports') \in Nat
      /\ \A i \in DOMAIN reports' : reports'[i] = reports[i + 1] /\ i + 1 \in DOMAIN reports
  BY <1>1, <1>3, QueueShrinks
<1>5. \A i \in DOMAIN reports' : ClockTold(reports'[i])
  BY <1>4 DEF ClockInv, ClockBus
<1>6. Len(commands) \in Nat
  BY <1>3, QueueIs
<1>7. ClockBus'
  BY <1>1, <1>3, <1>4, <1>5, <1>6 DEF ClockInv, ClockBus
<1> QED
  BY <1>2, <1>7 DEF ClockInv

(* A consumer sets the clock. *)
LEMMA ClockSets ==
  ASSUME ClockInv, NEW dim \in {0, 1, 22}, NEW local \in Int, NEW offset \in -47 .. 47, NEW at,
         at = local - offset, C!Send(C!Set(dim, local, offset), at, C!Said(local, offset))
  PROVE  ClockInv'
<1> DEFINE f == C!Set(dim, local, offset)
           said == C!Said(local, offset)
           c == [f |-> f, at |-> at, said |-> said]
<1>1. f # C!Refuse
  BY DEF C!Send
<1> HIDE DEF f, said
<1>2. c.f = f /\ c.at = at /\ c.said = said
  OBVIOUS
<1> HIDE DEF c
<1>3. ClockCommandOk(c)
  BY <1>1, <1>2, SetIsWritten DEF f, said
<1> QED
  BY <1>3, ClockSends DEF c, f, said

LEMMA ClockRequests ==
  ASSUME ClockInv, NEW dim \in {0, 1, 22}, C!Request(dim)
  PROVE  ClockInv'
<1> DEFINE f == C!DimensionRequest(13, C!Null, dim)
           said == C!Said(C!Null, C!Null)
           c == [f |-> f, at |-> now, said |-> said]
<1>1. f.type = "DIMENSION_REQUEST" /\ f.dim = dim
  BY DEF C!DimensionRequest, C!Frame
<1>2. c.f = f
  OBVIOUS
<1>3. ClockCommandOk(c)
  BY <1>1, <1>2 DEF ClockCommandOk
<1>4. C!Send(f, now, said)
  BY DEF C!Request
<1> QED
  BY <1>3, <1>4, ClockSends

LEMMA Offsets ==
  ASSUME NEW z \in TimeZones, NEW n
  PROVE  C!Offset(z, n) \in -47 .. 47 /\ C!OffsetOfLocal(z, n) \in -47 .. 47
BY ClockConstants DEF C!Offset, C!OffsetOfLocal

LEMMA ClockSetsLocal ==
  ASSUME ClockInv, NEW dim \in {0, 1, 22}, NEW n \in Int, NEW z \in TimeZones, C!SetLocal(dim, n, z)
  PROVE  ClockInv'
<1> DEFINE o == C!OffsetOfLocal(z, n)
<1>1. o \in -47 .. 47
  BY Offsets
<1>2. C!Send(C!Set(dim, n, o), n - o, C!Said(n, o))
  BY DEF C!SetLocal
<1> HIDE DEF o
<1> QED
  BY <1>1, <1>2, ClockSets

LEMMA ClockStep ==
  ASSUME ClockInv, C!Next
  PROVE  ClockInv'
<1>1. now \in Int
  BY DEF ClockInv, ClockTime
<1>2. ASSUME NEW dim \in {0, 1, 22}, C!Tell(dim) PROVE ClockInv'
  BY <1>2, ClockTells DEF C!Tell, C!Wire
<1>3. ASSUME NEW dim \in {0, 1, 22}, NEW z \in TimeZones, C!SetToNow(dim, z) PROVE ClockInv'
  <2> DEFINE o == C!Offset(z, now)
             n == now + o
  <2>1. o \in -47 .. 47
    BY Offsets
  <2>2. n \in Int /\ now = n - o
    BY <1>1, <2>1
  <2>3. C!Send(C!Set(dim, n, o), now, C!Said(n, o))
    BY <1>3 DEF C!SetToNow
  <2> HIDE DEF o, n
  <2> QED
    BY <2>1, <2>2, <2>3, ClockSets
<1>4. ASSUME NEW z \in TimeZones, NEW m \in Moments, C!SetTime(m % HalfHours, z) PROVE ClockInv'
  <2> DEFINE n == HalfHours * (now \div HalfHours) + (m % HalfHours)
  <2>1. m \in Int
    BY ClockConstants
  <2>2. Time(m) \in Int /\ DayOfTime(now) \in Int /\ HalfHours \in Int
    BY <1>1, <2>1, TimeParts, ClockConstants
  <2>3. HalfHours * DayOfTime(now) + Time(m) \in Int
    BY <2>2
  <2>4. n \in Int
    BY <2>3 DEF Time, DayOfTime
  <2>5. C!SetLocal(0, n, z)
    BY <1>4 DEF C!SetTime
  <2> HIDE DEF n
  <2> QED
    BY <2>4, <2>5, ClockSetsLocal
<1>5. ASSUME NEW z \in TimeZones, NEW m \in Moments, NEW dim \in {1, 22}, C!SetLocal(dim, m, z)
      PROVE ClockInv'
  BY <1>5, ClockConstants, ClockSetsLocal
<1>6. CASE C!Answer
  <2> DEFINE dim == Head(commands).f.dim
  <2>1. commands # <<>> /\ IsQueue(commands) /\ Head(commands).f.type = "DIMENSION_REQUEST"
    BY <1>6 DEF C!Answer, ClockInv, ClockBus
  <2>2. Head(commands) = commands[1] /\ 1 \in DOMAIN commands
    BY <2>1, QueueShrinks
  <2>3. dim \in {0, 1, 22}
    BY <2>1, <2>2 DEF ClockInv, ClockBus, ClockCommandOk, ClockWritten
  <2>4. PICK zone \in C!ZoneTold(dim) : reports' = Append(reports, C!Report(dim, zone))
    BY <1>6 DEF C!Answer
  <2>5. commands' = Tail(commands) /\ UNCHANGED <<now, clock, tz, late, astray>>
    BY <1>6 DEF C!Answer
  <2> HIDE DEF dim
  <2> QED
    BY <2>1, <2>3, <2>4, <2>5, ClockTells
<1> QED
  BY <1>2, <1>3, <1>4, <1>5, <1>6, ClockRequests, ClockTicks, ClockCarriesOut, ClockTakes DEF C!Next

LEMMA ClockStarts ==
  ASSUME C!Init
  PROVE  ClockInv
<1>1. /\ now = Start /\ clock = Start /\ tz = C!Unset /\ late = 0 /\ astray = C!Null
      /\ commands = <<>> /\ reports = <<>>
  BY DEF C!Init
<1>2. ClockBus
  BY <1>1, QueueEmpty, ClockConstants DEF ClockBus
<1>3. tz \in Int /\ tz # C!Null
  BY <1>1 DEF C!Unset, C!Null
<1>4. now \in Start .. End /\ now \in Int /\ clock \in Int /\ late \in Int
  BY <1>1, ClockConstants
<1>5. astray \in Int /\ astray = C!Null
  BY <1>1 DEF C!Null
<1>6. ClockTime
  BY <1>1, <1>3, <1>4, <1>5 DEF ClockTime
<1> QED
  BY <1>2, <1>6 DEF ClockInv

LEMMA ClockSays ==
  ASSUME ClockInv
  PROVE  C!TypeOK /\ C!ClockIsRight /\ C!EventsTell
<1>1. C!EventsTell
  BY DEF ClockInv, ClockBus, ClockTold, C!EventsTell
<1>2. C!ClockIsRight
  <2> SUFFICES ASSUME tz # C!Unset
               PROVE  ClockError % HalfHours = 0 /\ (astray # C!Null => ClockError = HalfHours * astray)
    BY DEF C!ClockIsRight, ClockError
  <2>1. PICK k \in Int : ClockError = HalfHours * k
    BY DEF ClockInv, ClockTime
  <2>2. HalfHours \in Nat \ {0} /\ 0 \in 0 .. HalfHours - 1
    BY ClockConstants
  <2>3. HalfHours * k \in Int /\ HalfHours * k = HalfHours * k + 0
    BY <2>2
  <2>4. ClockError % HalfHours = 0
    BY <2>1, <2>2, <2>3, DivisionIs
  <2> QED
    BY <2>4 DEF ClockInv, ClockTime
<1>3. C!TypeOK
  <2>1. \A i \in DOMAIN commands :
          LET f == commands[i].f
          IN f.type = "DIMENSION_WRITING" /\ f.dim \in {1, 22} => f.val[Len(f.val)] \in Years
    <3> SUFFICES ASSUME NEW i \in DOMAIN commands, NEW c, c = commands[i],
                        c.f.type = "DIMENSION_WRITING", c.f.dim \in {1, 22}
                 PROVE  c.f.val[Len(c.f.val)] \in Years
      OBVIOUS
    <3>1. ClockWritten(c)
      BY DEF ClockInv, ClockBus, ClockCommandOk
    <3> QED
      BY <3>1, WrittenIsRead
  <2> QED
    BY <2>1 DEF ClockInv, ClockBus, ClockTime, C!TypeOK, C!Wire
<1> QED
  BY <1>1, <1>2, <1>3


(******************************** Energy *********************************)

(* A date is its year, its month and its day. *)
LEMMA DateParts ==
  ASSUME NEW n \in Int
  PROVE  /\ E!Year(n) \in Int /\ E!Month(n) \in 0 .. 99 /\ E!Day(n) \in 0 .. 99
         /\ n = E!Date(E!Year(n), E!Month(n), E!Day(n))
BY DEF E!Year, E!Month, E!Day, E!Date

LEMMA DateIs ==
  ASSUME NEW y \in Int, NEW m \in 0 .. 99, NEW d \in 0 .. 99
  PROVE  /\ E!Date(y, m, d) \in Int /\ E!Year(E!Date(y, m, d)) = y
         /\ E!Month(E!Date(y, m, d)) = m /\ E!Day(E!Date(y, m, d)) = d
<1> DEFINE n == E!Date(y, m, d)
<1>1. n \in Int /\ n = 100 * (100 * y + m) + d
  BY DEF E!Date
<1> HIDE DEF n
<1>2. n \div 100 = 100 * y + m /\ n % 100 = d
  BY <1>1
<1>3. (100 * y + m) % 100 = m
  OBVIOUS
<1>4. n \div 10000 = y
  BY <1>1
<1>5. n \in Int /\ E!Year(n) = y /\ E!Month(n) = m /\ E!Day(n) = d
  BY <1>1, <1>2, <1>3, <1>4 DEF E!Year, E!Month, E!Day
<1> QED
  BY <1>5 DEF n

Earlier(a, b, c, x, y, z) == a < x \/ (a = x /\ (b < y \/ (b = y /\ c <= z)))
LEMMA DateOrder ==
  ASSUME NEW a \in Int, NEW b \in 0 .. 99, NEW c \in 0 .. 99,
         NEW x \in Int, NEW y \in 0 .. 99, NEW z \in 0 .. 99
  PROVE  /\ E!Date(a, b, c) <= E!Date(x, y, z) <=> Earlier(a, b, c, x, y, z)
         /\ E!Date(a, b, c) \in Int /\ E!Date(x, y, z) \in Int
BY DEF E!Date, Earlier

LEMMA MonthsLast ==
  ASSUME NEW y, NEW m
  PROVE  /\ E!LastDay(y, m) \in 28 .. 31
         /\ m # 2 => \A x : E!LastDay(x, m) = E!LastDay(y, m)
         /\ m = 2 => E!LastDay(y, m) = IF E!IsLeap(y) THEN 29 ELSE 28
<1>1. m = 2 => E!LastDay(y, m) = IF E!IsLeap(y) THEN 29 ELSE 28
  BY DEF E!LastDay
<1>2. m # 2 => \A x : E!LastDay(x, m) = E!LastDay(y, m)
  BY DEF E!LastDay
<1>3. E!LastDay(y, m) \in 28 .. 31
  BY DEF E!LastDay
<1> QED
  BY <1>1, <1>2, <1>3

LEMMA LeapYears ==
  ASSUME NEW y \in Int, E!IsLeap(y)
  PROVE  ~E!IsLeap(y - 1)
BY DEF E!IsLeap

LEMMA ADate ==
  ASSUME NEW y \in Int, NEW m \in 1 .. 12, NEW d \in 0 .. 99
  PROVE  E!IsDate(E!Date(y, m, d)) <=> d \in 1 .. E!LastDay(y, m)
<1>1. m \in 0 .. 99
  OBVIOUS
<1>2. E!Year(E!Date(y, m, d)) = y /\ E!Month(E!Date(y, m, d)) = m /\ E!Day(E!Date(y, m, d)) = d
  BY <1>1, DateIs
<1> QED
  BY <1>2 DEF E!IsDate

(* A day of the calendar. *)
IsDay(n, y, m, d) ==
  /\ n \in Int /\ n = E!Date(y, m, d) /\ y = E!Year(n) /\ m = E!Month(n) /\ d = E!Day(n)
  /\ y \in Int /\ m \in 1 .. 12 /\ m \in 0 .. 99 /\ m \in Int
  /\ d \in 0 .. 99 /\ d \in 1 .. E!LastDay(y, m) /\ d \in 1 .. 31 /\ d \in Int
LEMMA DayParts ==
  ASSUME NEW n \in Int, E!IsDate(n)
  PROVE  IsDay(n, E!Year(n), E!Month(n), E!Day(n))
<1> DEFINE y == E!Year(n)
           m == E!Month(n)
           d == E!Day(n)
<1>1. y \in Int /\ m \in 0 .. 99 /\ d \in 0 .. 99 /\ n = E!Date(y, m, d)
  BY DateParts
<1>2. m \in 1 .. 12 /\ d \in 1 .. E!LastDay(y, m)
  BY DEF E!IsDate
<1>3. E!LastDay(y, m) \in 28 .. 31
  BY MonthsLast
<1>4. y = E!Year(n) /\ m = E!Month(n) /\ d = E!Day(n)
  OBVIOUS
<1> HIDE DEF y, m, d
<1>5. d \in 1 .. 31 /\ d \in Int /\ m \in Int
  BY <1>1, <1>2, <1>3
<1>6. IsDay(n, y, m, d)
  BY <1>1, <1>2, <1>4, <1>5 DEF IsDay
<1> QED
  BY <1>6 DEF y, m, d

(* Tomorrow is a day, and later. *)
LEMMA TomorrowIs ==
  ASSUME NEW n \in Int, E!IsDate(n), NEW t, t = E!Tomorrow(n)
  PROVE  t \in Int /\ t > n /\ E!IsDate(t)
<1> DEFINE y == E!Year(n)
           m == E!Month(n)
           d == E!Day(n)
           k == E!LastDay(y, m)
<1>1. IsDay(n, y, m, d)
  BY DayParts
<1>2. k \in 28 .. 31
  BY MonthsLast
<1>3. t = IF d < k THEN n + 1 ELSE IF m < 12 THEN E!Date(y, m + 1, 1) ELSE E!Date(y + 1, 1, 1)
  BY DEF E!Tomorrow
<1>4. d \in 1 .. k
  BY <1>1 DEF IsDay
<1> HIDE DEF y, m, d
<1>5. CASE d < k
  <2>1. t = E!Date(y, m, d + 1) /\ t \in Int /\ t = n + 1
    BY <1>1, <1>3, <1>5 DEF IsDay, E!Date
  <2>2. d + 1 \in 1 .. k /\ d + 1 \in 0 .. 99
    BY <1>1, <1>2, <1>4, <1>5 DEF IsDay
  <2> HIDE DEF k
  <2>3. y \in Int /\ m \in 1 .. 12 /\ n \in Int
    BY <1>1 DEF IsDay
  <2>4. E!IsDate(t)
    BY <2>1, <2>2, <2>3, ADate DEF k
  <2> QED
    BY <2>1, <2>3, <2>4
<1>6. CASE ~(d < k) /\ m < 12
  <2>1. t = E!Date(y, m + 1, 1) /\ m + 1 \in 1 .. 12 /\ y \in Int /\ 1 \in 0 .. 99 /\ 1 \in Int
    BY <1>1, <1>3, <1>6 DEF IsDay
  <2>2. t > n /\ t \in Int
    <3>1. n = 10000 * y + 100 * m + d /\ y \in Int /\ m \in Int /\ d \in 0 .. 99
      BY <1>1 DEF IsDay, E!Date
    <3>2. t = 10000 * y + 100 * (m + 1) + 1
      BY <2>1 DEF E!Date
    <3> QED
      BY <3>1, <3>2
  <2>3. E!LastDay(y, m + 1) \in 28 .. 31
    BY MonthsLast
  <2>4. 1 \in 1 .. E!LastDay(y, m + 1)
    BY <2>3
  <2>5. E!IsDate(t)
    BY <2>1, <2>4, ADate
  <2> QED
    BY <2>2, <2>5
<1>7. CASE ~(d < k) /\ ~(m < 12)
  <2>1. t = E!Date(y + 1, 1, 1) /\ y + 1 \in Int /\ 1 \in 1 .. 12 /\ 1 \in 0 .. 99
    BY <1>1, <1>3, <1>7 DEF IsDay
  <2>2. t > n /\ t \in Int
    BY <1>1, <2>1 DEF IsDay, E!Date
  <2>3. E!LastDay(y + 1, 1) \in 28 .. 31
    BY MonthsLast
  <2>4. 1 \in 1 .. E!LastDay(y + 1, 1)
    BY <2>3
  <2>5. E!IsDate(t)
    BY <2>1, <2>4, ADate
  <2> QED
    BY <2>2, <2>5
<1> QED
  BY <1>5, <1>6, <1>7

(* The same day of an earlier year, with 28 for 29 February. *)
LEMMA YearsAgoIs ==
  ASSUME NEW n, NEW y, NEW m, NEW d, IsDay(n, y, m, d), NEW k \in Int
  PROVE  \E b \in 1 .. 31 : /\ E!YearsAgo(n, k) = E!Date(y - k, m, b) /\ b <= d
                            /\ b = d \/ (m = 2 /\ d = 29 /\ b = 28)
BY DEF IsDay, E!YearsAgo

(* The day a sample is of is the one that was asked for, if that is less    *)
(* than a year ago. *)
LEMMA RecentSampleIsOf ==
  ASSUME today \in Int, E!IsDate(today), NEW date \in Int, E!IsDate(date), date <= today,
         date > E!YearsAgo(today, 1), NEW s, s = E!DayOfSample(E!Month(date), E!Day(date))
  PROVE  \/ s = date
         \/ s = E!Null /\ E!Month(date) = 2 /\ E!Day(date) = 29 /\ ~E!IsLeap(E!Year(today))
<1> DEFINE x == E!Year(today)
           n == E!Month(today)
           e == E!Day(today)
           y == E!Year(date)
           m == E!Month(date)
           d == E!Day(date)
           this == E!Date(x, m, d)
           last == E!Date(x - 1, m, d)
<1>1. IsDay(today, x, n, e) /\ IsDay(date, y, m, d)
  BY DayParts
<1>2. s = IF ~E!IsDate(this) THEN E!Null ELSE IF this <= today THEN this
          ELSE IF E!IsDate(last) THEN last ELSE E!Null
  BY DEF E!DayOfSample
<1>3. PICK b \in 1 .. 31 : /\ E!YearsAgo(today, 1) = E!Date(x - 1, n, b) /\ b <= e
                           /\ b = e \/ (n = 2 /\ e = 29 /\ b = 28)
  BY <1>1, YearsAgoIs
<1> HIDE DEF x, n, e, y, m, d
<1>4. y = x \/ y = x - 1
  <2>1. /\ x \in Int /\ y \in Int /\ m \in 1 .. 12 /\ n \in 1 .. 12 /\ d \in 1 .. 31 /\ e \in 1 .. 31
        /\ date = E!Date(y, m, d) /\ today = E!Date(x, n, e)
    BY <1>1 DEF IsDay
  <2>2. 10000 * y + 100 * m + d <= 10000 * x + 100 * n + e
    BY <2>1 DEF E!Date
  <2>3. 10000 * y + 100 * m + d > 10000 * (x - 1) + 100 * n + b
    BY <1>3, <2>1 DEF E!Date
  <2>4. y <= x
    BY <2>1, <2>2
  <2>5. y >= x - 1
    BY <1>3, <2>1, <2>3
  <2> QED
    BY <2>1, <2>4, <2>5
<1>5. CASE y = x
  <2>1. this = date /\ E!IsDate(this)
    BY <1>1, <1>5 DEF IsDay
  <2> QED
    BY <1>2, <2>1
<1>6. CASE y = x - 1
  <2>1. last = date /\ E!IsDate(last)
    BY <1>1, <1>6 DEF IsDay
  <2>2. CASE E!IsDate(this)
    <3>1. ~(this <= today)
      <4> SUFFICES ASSUME this <= today PROVE FALSE
        OBVIOUS
      <4>0. /\ date > E!YearsAgo(today, 1) /\ date = last
            /\ x \in Int /\ m \in Int /\ n \in Int /\ d \in 0 .. 99 /\ e \in 0 .. 99 /\ today = E!Date(x, n, e)
        BY <1>1, <2>1 DEF IsDay
      <4>4. 10000 * x + 100 * m + d <= 10000 * x + 100 * n + e
        BY <4>0 DEF E!Date
      <4>5. 10000 * (x - 1) + 100 * m + d > 10000 * (x - 1) + 100 * n + b
        BY <1>3, <4>0 DEF E!Date
      <4>6. b # e
        BY <4>0, <4>4, <4>5
      <4>1. m = 2 /\ d = 29 /\ n = 2 /\ e = 29
        BY <1>3, <4>0, <4>4, <4>5, <4>6
      <4>2. 29 \in 1 .. E!LastDay(x, 2) /\ 29 \in 1 .. E!LastDay(x - 1, 2)
        BY <1>1, <1>6, <4>1 DEF IsDay
      <4>3. E!IsLeap(x)
        BY <4>2, MonthsLast
      <4>7. E!IsLeap(x - 1)
        BY <4>2, MonthsLast
      <4> QED
        BY <1>1, <4>3, <4>7, LeapYears DEF IsDay
    <3> QED
      BY <1>2, <2>1, <2>2, <3>1
  <2>3. CASE ~E!IsDate(this)
    <3>1. ~(d \in 1 .. E!LastDay(x, m))
      BY <1>1, <2>3, ADate DEF IsDay
    <3>2. d \in 1 .. E!LastDay(x - 1, m)
      BY <1>1, <1>6 DEF IsDay
    <3>3. m = 2
      BY <3>1, <3>2, MonthsLast
    <3>4. E!LastDay(x, 2) = (IF E!IsLeap(x) THEN 29 ELSE 28) /\ E!LastDay(x - 1, 2) \in {28, 29}
      BY MonthsLast
    <3>6. d \in Int /\ ~(d \in 1 .. E!LastDay(x, 2)) /\ d \in 1 .. E!LastDay(x - 1, 2)
      BY <1>1, <3>1, <3>2, <3>3 DEF IsDay
    <3>5. d = 29 /\ ~E!IsLeap(x)
      BY <3>4, <3>6
    <3> QED
      BY <1>2, <2>3, <3>3, <3>5 DEF m, d, x
  <2> QED
    BY <2>2, <2>3
<1> QED
  BY <1>4, <1>5, <1>6

(* It is the last one with the day and month asked for, whatever was asked. *)
SampleDay(s, m, d) ==
  /\ s # E!Null /\ E!Month(s) = m /\ E!Day(s) = d /\ s <= today /\ E!Date(E!Year(s) + 1, m, d) > today
NotThisYear(m, d) == m = 2 /\ d = 29 /\ (~E!IsLeap(E!Year(today)) \/ E!Date(E!Year(today), 2, 29) > today)

LEMMA ThatDay ==
  ASSUME today \in Int, E!IsDate(today), NEW y \in Int, NEW m, NEW d, NEW s, s = E!Date(y, m, d), E!IsDate(s),
         m \in 1 .. 12, d \in 1 .. 31, s <= today, E!Date(y + 1, m, d) > today
  PROVE  SampleDay(s, m, d)
<1>1. m \in 0 .. 99 /\ d \in 0 .. 99
  OBVIOUS
<1>2. s \in Int
  BY DEF E!Date
<1>3. E!Year(s) = y /\ E!Month(s) = m /\ E!Day(s) = d
  BY <1>1, DateIs
<1>4. IsDay(s, y, m, d)
  BY <1>2, <1>3, DayParts
<1>5. s # E!Null
  BY <1>4 DEF IsDay, E!Date, E!Null
<1> QED
  BY <1>3, <1>5 DEF SampleDay

LEMMA SampleIsOf ==
  ASSUME today \in Int, E!IsDate(today), NEW date \in Int, E!IsDate(date), NEW m, NEW d,
         m = E!Month(date), d = E!Day(date), NEW s, s = E!DayOfSample(m, d)
  PROVE  \/ SampleDay(s, m, d) /\ (date \in E!YearsAgo(today, 1) + 1 .. today => s = date)
         \/ s = E!Null /\ NotThisYear(m, d)
<1> DEFINE x == E!Year(today)
           n == E!Month(today)
           e == E!Day(today)
           y == E!Year(date)
           this == E!Date(x, m, d)
           last == E!Date(x - 1, m, d)
<1>1. IsDay(today, x, n, e) /\ IsDay(date, y, m, d)
  BY DayParts
<1>2. s = IF ~E!IsDate(this) THEN E!Null ELSE IF this <= today THEN this
          ELSE IF E!IsDate(last) THEN last ELSE E!Null
  BY DEF E!DayOfSample
<1>3. PICK b \in 1 .. 31 : E!YearsAgo(today, 1) = E!Date(x - 1, n, b)
  BY <1>1, YearsAgoIs
<1> HIDE DEF x, n, e, y
<1>0. /\ x \in Int /\ m \in 1 .. 12 /\ n \in 1 .. 12 /\ d \in 1 .. 31 /\ e \in 1 .. 31
      /\ x - 1 \in Int /\ m \in 0 .. 99 /\ d \in 0 .. 99 /\ today = E!Date(x, n, e)
  BY <1>1 DEF IsDay
<1>4. E!YearsAgo(today, 1) \in Int
  BY <1>0, <1>3 DEF E!Date
<1>5. date \in E!YearsAgo(today, 1) + 1 .. today => s = date \/ s = E!Null
  <2> SUFFICES ASSUME date \in E!YearsAgo(today, 1) + 1 .. today PROVE s = date \/ s = E!Null
    OBVIOUS
  <2>1. date <= today /\ date > E!YearsAgo(today, 1)
    BY <1>4
  <2> QED
    BY <2>1, RecentSampleIsOf
<1>6. this \in Int /\ last \in Int /\ last <= today /\ E!Date(x + 1, m, d) > today /\ E!Date(x - 1 + 1, m, d) = this
  <2>1. this = 10000 * x + 100 * m + d /\ last = 10000 * (x - 1) + 100 * m + d
    BY DEF E!Date
  <2>2. today = 10000 * x + 100 * n + e /\ E!Date(x + 1, m, d) = 10000 * (x + 1) + 100 * m + d
    BY <1>0 DEF E!Date
  <2>3. x - 1 + 1 = x
    BY <1>0
  <2> QED
    BY <1>0, <2>1, <2>2, <2>3
<1>7. CASE E!IsDate(this) /\ this <= today
  <2>1. s = this
    BY <1>2, <1>7
  <2>2. SampleDay(s, m, d)
    BY <1>0, <1>6, <1>7, <2>1, ThatDay
  <2> QED
    BY <1>5, <2>2 DEF SampleDay
<1>8. CASE E!IsDate(this) /\ ~(this <= today) /\ E!IsDate(last)
  <2>1. s = last /\ this > today
    BY <1>2, <1>6, <1>8
  <2>2. E!Date(x - 1 + 1, m, d) > today
    BY <1>6, <2>1
  <2>3. SampleDay(s, m, d)
    BY <1>0, <1>6, <1>8, <2>1, <2>2, ThatDay
  <2> QED
    BY <1>5, <2>3 DEF SampleDay
<1>9. ASSUME NEW z \in Int, ~E!IsDate(E!Date(z, m, d)) PROVE m = 2 /\ d = 29 /\ ~E!IsLeap(z)
  <2>1. ~(d \in 1 .. E!LastDay(z, m))
    BY <1>0, <1>9, ADate
  <2>2. d \in 1 .. E!LastDay(y, m)
    BY <1>1 DEF IsDay
  <2>3. m = 2
    BY <2>1, <2>2, MonthsLast
  <2>4. E!LastDay(z, 2) = (IF E!IsLeap(z) THEN 29 ELSE 28) /\ E!LastDay(y, 2) \in {28, 29}
    BY MonthsLast
  <2>5. d \in Int /\ ~(d \in 1 .. E!LastDay(z, 2)) /\ d \in 1 .. E!LastDay(y, 2)
    BY <1>0, <2>1, <2>2, <2>3
  <2> QED
    BY <2>3, <2>4, <2>5
<1>10. CASE E!IsDate(this) /\ ~(this <= today) /\ ~E!IsDate(last)
  <2>1. m = 2 /\ d = 29 /\ this > today
    BY <1>0, <1>6, <1>9, <1>10
  <2>2. s = E!Null
    BY <1>2, <1>10
  <2> QED
    BY <2>1, <2>2 DEF NotThisYear, x
<1>11. CASE ~E!IsDate(this)
  <2>1. m = 2 /\ d = 29 /\ ~E!IsLeap(x)
    BY <1>0, <1>9, <1>11
  <2>2. s = E!Null
    BY <1>2, <1>11
  <2> QED
    BY <2>1, <2>2 DEF NotThisYear, x
<1> QED
  BY <1>7, <1>8, <1>10, <1>11

(* The year of a table: this one's last, or the one before it. *)
AskedFor(y, z, w, m, k, b, h, g) ==
  /\ y \in Int /\ z \in Int /\ w \in Int /\ m \in 1 .. 12 /\ k \in 1 .. 12
  /\ b \in 1 .. 31 /\ h \in 1 .. 31 /\ g \in 1 .. 31 /\ b <= g /\ h <= g
  /\ E!Date(z, m, 1) <= E!Date(w, k, g) /\ E!Date(z + 1, m, 1) > E!Date(w, k, g)
  /\ E!Date(y, m, 1) <= E!Date(w, k, g) /\ E!Date(y, m, 1) > E!Date(w - 2, k, h)
LEMMA TableYear ==
  ASSUME NEW y, NEW z, NEW w, NEW m, NEW k, NEW b, NEW h, NEW g, AskedFor(y, z, w, m, k, b, h, g)
  PROVE  /\ E!Date(y, m, 1) > E!Date(w - 1, k, b) => y = z
         /\ ~(E!Date(y, m, 1) > E!Date(w - 1, k, b)) => y = z - 1
<1>0. /\ y \in Int /\ z \in Int /\ w \in Int /\ m \in Int /\ k \in Int /\ b \in 1 .. 31 /\ h \in 1 .. 31
      /\ g \in 1 .. 31 /\ b <= g /\ h <= g
  BY DEF AskedFor
<1>1. /\ 10000 * z + 100 * m + 1 <= 10000 * w + 100 * k + g
      /\ 10000 * z + 10000 + 100 * m + 1 > 10000 * w + 100 * k + g
      /\ 10000 * y + 100 * m + 1 <= 10000 * w + 100 * k + g
  BY DEF AskedFor, E!Date
<1>2. y <= z
  BY <1>0, <1>1
<1>3. ASSUME E!Date(y, m, 1) > E!Date(w - 1, k, b) PROVE y = z
  <2>1. 10000 * y + 10000 + 100 * m + 1 > 10000 * w + 100 * k + b
    BY <1>0, <1>3 DEF E!Date
  <2>2. y >= z
    BY <1>0, <1>1, <2>1
  <2> QED
    BY <1>0, <1>2, <2>2
<1>4. y + 1 >= z
  <2>1. 10000 * y + 100 * m + 1 > 10000 * w - 20000 + 100 * k + h
    BY DEF AskedFor, E!Date
  <2>2. 10000 * y + 20000 + 100 * m + 1 > 10000 * w + 100 * k + h
    BY <1>0, <2>1
  <2> QED
    BY <1>0, <1>1, <2>2
<1>5. ASSUME ~(E!Date(y, m, 1) > E!Date(w - 1, k, b)) PROVE y < z
  <2>1. 10000 * y + 10000 + 100 * m + 1 <= 10000 * w + 100 * k + b
    BY <1>0, <1>5 DEF E!Date
  <2> QED
    BY <1>0, <1>1, <2>1
<1> QED
  BY <1>0, <1>2, <1>3, <1>4, <1>5

LEMMA FirstComesAgain ==
  ASSUME NEW x \in Int, NEW m \in 1 .. 12, NEW n \in 1 .. 12, NEW e \in 1 .. 31,
         NEW z, z = x - (IF E!Date(x, m, 1) > E!Date(x, n, e) THEN 1 ELSE 0)
  PROVE  z \in Int /\ E!Date(z + 1, m, 1) > E!Date(x, n, e)
<1>1. CASE E!Date(x, m, 1) > E!Date(x, n, e)
  <2>1. z = x - 1 /\ z + 1 = x
    BY <1>1
  <2> QED
    BY <1>1, <2>1
<1>2. CASE ~(E!Date(x, m, 1) > E!Date(x, n, e))
  <2>1. z = x
    BY <1>2
  <2> QED
    BY <2>1 DEF E!Date
<1> QED
  BY <1>1, <1>2

LEMMA LastFirstIs ==
  ASSUME NEW on \in Int, E!IsDate(on), NEW m \in 1 .. 12,
         NEW z, z = E!Year(on) - (IF E!Date(E!Year(on), m, 1) > on THEN 1 ELSE 0)
  PROVE  /\ z \in Int /\ E!LastFirst(m, on) = E!Date(z, m, 1)
         /\ E!Date(z, m, 1) <= on /\ E!Date(z + 1, m, 1) > on
<1> DEFINE x == E!Year(on)
           n == E!Month(on)
           e == E!Day(on)
<1>1. IsDay(on, x, n, e)
  BY DayParts
<1>2. E!LastFirst(m, on) = E!Date(z, m, 1)
  BY <1>1 DEF E!LastFirst, IsDay
<1>3. z = x - (IF E!Date(x, m, 1) > on THEN 1 ELSE 0)
  OBVIOUS
<1> HIDE DEF x, n, e
<1>4. x \in Int /\ n \in 1 .. 12 /\ e \in 1 .. 31 /\ on = E!Date(x, n, e)
  BY <1>1 DEF IsDay
<1>5. z \in Int /\ E!Date(z + 1, m, 1) > on
  <2>1. z = x - (IF E!Date(x, m, 1) > E!Date(x, n, e) THEN 1 ELSE 0)
    BY <1>3, <1>4
  <2> QED
    BY <1>4, <2>1, FirstComesAgain
<1>6. E!Date(z, m, 1) <= on
  <2>1. CASE E!Date(x, m, 1) > on
    <3>1. z = x - 1
      BY <1>3, <2>1
    <3> QED
      BY <1>4, <3>1 DEF E!Date
  <2>2. CASE ~(E!Date(x, m, 1) > on)
    <3>1. z = x /\ E!Date(x, m, 1) \in Int
      BY <1>3, <1>4, <2>2 DEF E!Date
    <3> QED
      BY <2>2, <3>1
  <2> QED
    BY <2>1, <2>2
<1> QED
  BY <1>2, <1>5, <1>6

LEMMA YearsShift ==
  ASSUME NEW y \in Int, NEW z \in Int, NEW o \in Int, NEW m \in Int, NEW d \in Int
  PROVE  E!Date(y, m, d) + (E!Date(z, m, 1) - E!Date(o, m, 1)) = E!Date(y + z - o, m, d)
BY DEF E!Date

(* The month of a table is the one that was asked for, a year late for      *)
(* every time the first of that month came round since. *)
LEMMA TableIsOf ==
  ASSUME today \in Int, E!IsDate(today), NEW on \in Int, E!IsDate(on),
         NEW date \in Int, E!IsDate(date), NEW y, NEW m, y = E!Year(date), m = E!Month(date),
         NEW dim \in {513, 514}, NEW target, target = E!Date(y, m, 1),
         target <= on, target > E!YearsAgo(on, 2),
         dim = IF target > E!YearsAgo(on, 1) THEN 513 ELSE 514,
         NEW want, want = date + (E!LastFirst(m, today) - E!LastFirst(m, on))
  PROVE  /\ \E z \in Int : want = E!Date(z, m, E!Day(date))
         /\ E!DayOfMonth(dim, m, E!Day(date)) = IF E!IsDate(want) THEN want ELSE E!Null
<1> DEFINE x == E!Year(today)
           d == E!Day(date)
           w == E!Year(on)
           k == E!Month(on)
           g == E!Day(on)
           z == x - (IF E!Date(x, m, 1) > today THEN 1 ELSE 0)
           o == w - (IF E!Date(w, m, 1) > on THEN 1 ELSE 0)
           day == E!Date(z - (IF dim = 514 THEN 1 ELSE 0), m, d)
<1>1. IsDay(date, y, m, d) /\ IsDay(on, w, k, g)
  BY DayParts
<1>0. /\ y \in Int /\ w \in Int /\ m \in 1 .. 12 /\ k \in 1 .. 12 /\ g \in 1 .. 31
      /\ m \in Int /\ d \in Int /\ on = E!Date(w, k, g) /\ date = E!Date(y, m, d)
  BY <1>1 DEF IsDay
<1>2. PICK b \in 1 .. 31 : E!YearsAgo(on, 1) = E!Date(w - 1, k, b) /\ b <= g
  BY <1>1, YearsAgoIs
<1>3. PICK h \in 1 .. 31 : E!YearsAgo(on, 2) = E!Date(w - 2, k, h) /\ h <= g
  BY <1>1, YearsAgoIs
<1>4. /\ o \in Int /\ E!LastFirst(m, on) = E!Date(o, m, 1)
      /\ E!Date(o, m, 1) <= on /\ E!Date(o + 1, m, 1) > on
  BY <1>0, LastFirstIs
<1>6. z \in Int /\ E!LastFirst(m, today) = E!Date(z, m, 1)
  BY <1>0, LastFirstIs
<1>5. E!DayOfMonth(dim, m, d) = IF m \in 1 .. 12 /\ E!IsDate(day) THEN day ELSE E!Null
  BY DEF E!DayOfMonth
<1> HIDE DEF x, d, w, k, g, z, o
<1>7. day = E!Date(z - (IF dim = 514 THEN 1 ELSE 0), m, d)
  OBVIOUS
<1> HIDE DEF day
<1>10. /\ E!Date(y, m, 1) > E!YearsAgo(on, 1) => y = o
       /\ ~(E!Date(y, m, 1) > E!YearsAgo(on, 1)) => y = o - 1
  <2>1. /\ E!Date(o, m, 1) <= E!Date(w, k, g) /\ E!Date(o + 1, m, 1) > E!Date(w, k, g)
        /\ E!Date(y, m, 1) <= E!Date(w, k, g) /\ E!Date(y, m, 1) > E!Date(w - 2, k, h)
    BY <1>0, <1>3, <1>4
  <2>3. AskedFor(y, o, w, m, k, b, h, g)
    BY <1>0, <1>2, <1>3, <1>4, <2>1 DEF AskedFor
  <2>2. /\ E!Date(y, m, 1) > E!Date(w - 1, k, b) => y = o
        /\ ~(E!Date(y, m, 1) > E!Date(w - 1, k, b)) => y = o - 1
    BY <2>3, TableYear
  <2> QED
    BY <1>2, <2>2
<1>11. o - (IF dim = 514 THEN 1 ELSE 0) = y
  <2>1. CASE E!Date(y, m, 1) > E!YearsAgo(on, 1)
    <3>1. dim = 513 /\ y = o
      BY <1>10, <2>1
    <3> QED
      BY <1>0, <3>1
  <2>2. CASE ~(E!Date(y, m, 1) > E!YearsAgo(on, 1))
    <3>1. dim = 514 /\ y = o - 1
      BY <1>10, <2>2
    <3> QED
      BY <1>0, <1>4, <3>1
  <2> QED
    BY <2>1, <2>2
<1> DEFINE u == z - (IF dim = 514 THEN 1 ELSE 0)
<1>12. u \in Int /\ u = y + z - o
  BY <1>0, <1>4, <1>6, <1>11
<1> HIDE DEF u
<1>13. want = E!Date(u, m, d)
  <2>1. want = E!Date(y, m, d) + (E!Date(z, m, 1) - E!Date(o, m, 1))
    BY <1>0, <1>4, <1>6
  <2>2. y \in Int /\ z \in Int /\ o \in Int /\ m \in Int /\ d \in Int
    BY <1>0, <1>4, <1>6
  <2>3. E!Date(y, m, d) + (E!Date(z, m, 1) - E!Date(o, m, 1)) = E!Date(y + z - o, m, d)
    BY <2>2, YearsShift
  <2>4. want = E!Date(y + z - o, m, d)
    BY <2>1, <2>3, Zenon
  <2> QED
    BY <1>12, <2>4
<1>14. day = want
  BY <1>7, <1>13 DEF u
<1> QED
  BY <1>0, <1>5, <1>12, <1>13, <1>14 DEF d


(* A frame and its parts; E!Frame is OwnFrame's. *)
IsFrame(f) == f = E!Frame(f.type, f.who, f.what, f.wpar, f.where, f.dim, f.val)
FrameIs(f, ty, what, wpar, where, dim, val) ==
  /\ f.type = ty /\ f.what = what /\ f.wpar = wpar /\ f.where = where /\ f.dim = dim /\ f.val = val
  /\ IsFrame(f)

LEMMA FrameParts ==
  ASSUME NEW ty, NEW who, NEW what, NEW wpar, NEW where, NEW dim, NEW val,
         NEW f, f = E!Frame(ty, who, what, wpar, where, dim, val)
  PROVE  FrameIs(f, ty, what, wpar, where, dim, val) /\ f.who = who
BY DEF E!Frame, FrameIs, IsFrame

WithPar(f, p) == [f EXCEPT !.wpar = p]
LEMMA FrameWith ==
  ASSUME NEW f, IsFrame(f), NEW p, NEW g, g = WithPar(f, p)
  PROVE  FrameIs(g, f.type, f.what, p, f.where, f.dim, f.val) /\ g.who = f.who
<1> DEFINE ty == f.type
           who == f.who
           what == f.what
           wpar == f.wpar
           where == f.where
           dim == f.dim
           val == f.val
<1>1. f = [type |-> ty, who |-> who, what |-> what, wpar |-> wpar, where |-> where, dim |-> dim, val |-> val]
  BY DEF IsFrame, E!Frame
<1> HIDE DEF ty, who, what, wpar, where, dim, val
<1>0. g = [f EXCEPT !.wpar = p]
  BY DEF WithPar
<1>2. g = [type |-> ty, who |-> who, what |-> what, wpar |-> p, where |-> where, dim |-> dim, val |-> val]
  BY <1>0, <1>1
<1>3. g = E!Frame(ty, who, what, p, where, dim, val)
  BY <1>2 DEF E!Frame
<1>4. FrameIs(g, ty, what, p, where, dim, val) /\ g.who = who
  BY <1>3, FrameParts
<1> QED
  BY <1>4 DEF ty, who, what, wpar, where, dim, val

(* What the builders make. *)
LEMMA RequestIs ==
  ASSUME NEW w, NEW dim, NEW p, NEW f, f = E!Ask(w, dim, p)
  PROVE  FrameIs(f, "DIMENSION_REQUEST", E!Null, p, w, dim, <<>>)
<1> DEFINE g == E!DimensionRequest(18, w, dim)
<1>1. FrameIs(g, "DIMENSION_REQUEST", E!Null, <<>>, w, dim, <<>>)
  BY FrameParts DEF E!DimensionRequest
<1>2. f = WithPar(g, p)
  BY DEF E!Ask, WithPar
<1> HIDE DEF g
<1> QED
  BY <1>1, <1>2, FrameWith DEF FrameIs

LEMMA ReplyIs ==
  ASSUME NEW w, NEW dim, NEW p, NEW v, NEW f, f = WithPar(E!DimensionReply(18, w, dim, v), p)
  PROVE  FrameIs(f, "DIMENSION_REQUEST_REPLY", E!Null, p, w, dim, v)
<1> DEFINE g == E!DimensionReply(18, w, dim, v)
<1>1. FrameIs(g, "DIMENSION_REQUEST_REPLY", E!Null, <<>>, w, dim, v)
  BY FrameParts DEF E!DimensionReply
<1>2. f = WithPar(g, p)
  OBVIOUS
<1> HIDE DEF g
<1> QED
  BY <1>1, <1>2, FrameWith DEF FrameIs

LEMMA WritingIs ==
  ASSUME NEW w, NEW dim, NEW p, NEW v, NEW f, f = WithPar(E!DimensionWriting(18, w, dim, v), p)
  PROVE  FrameIs(f, "DIMENSION_WRITING", E!Null, p, w, dim, v)
<1> DEFINE g == E!DimensionWriting(18, w, dim, v)
<1>1. FrameIs(g, "DIMENSION_WRITING", E!Null, <<>>, w, dim, v)
  BY FrameParts DEF E!DimensionWriting
<1>2. f = WithPar(g, p)
  OBVIOUS
<1> HIDE DEF g
<1> QED
  BY <1>1, <1>2, FrameWith DEF FrameIs

LEMMA ReportedIs ==
  ASSUME NEW w, NEW dim, NEW p, NEW n \in Int, NEW f, f = E!Report(w, dim, p, n), f # E!Refuse
  PROVE  FrameIs(f, "DIMENSION_REQUEST_REPLY", E!Null, p, w, dim, <<n>>) /\ n \in Nat
<1>1. ~(n < 0) /\ f = WithPar(E!DimensionReply(18, w, dim, <<n>>), p)
  BY DEF E!Report, WithPar
<1>2. n \in Nat
  BY <1>1
<1>3. FrameIs(f, "DIMENSION_REQUEST_REPLY", E!Null, p, w, dim, <<n>>)
  BY <1>1, ReplyIs
<1> QED
  BY <1>2, <1>3

LEMMA StatusIs ==
  ASSUME NEW w, NEW what, NEW p, NEW f, f = E!Status(18, what, p, w)
  PROVE  FrameIs(f, "STATUS", what, p, w, E!Null, <<>>)
BY FrameParts DEF E!Status

(* What a command asks for, with the day it was built on. *)
ReadingDim(kind, dim) ==
  \/ kind = "power" /\ dim = 113
  \/ kind = "total" /\ dim = 51
  \/ kind = "today" /\ dim = 54
  \/ kind = "this_month" /\ dim = 53
Readings(f, said) == ReadingDim(said.kind, f.dim) /\ f.what = E!Null /\ said.n \in Nat
Bytes == 0 .. 255
Channels == 1 .. 4
Streams(f, said) ==
  /\ said.kind = "stream" /\ f.what = E!Null /\ f.dim = 1200
  /\ \E n \in Bytes, t \in Channels : f.val = <<n>> /\ f.wpar = <<t>> /\ said.n = <<n, t>>
DatedOk(n, day) ==
  /\ n.date \in Int /\ n.on \in Int /\ day \in Int /\ E!IsDate(n.date) /\ E!IsDate(n.on)
  /\ n.on <= day
Samples(f, said, day) ==
  /\ said.kind = "day" /\ f.what = E!Null /\ f.dim = 511 /\ DatedOk(said.n, day)
  /\ f.wpar = <<E!Month(said.n.date), E!Day(said.n.date)>>
First(n) == E!Date(E!Year(n), E!Month(n), 1)
OfTables(f, said, day) ==
  /\ said.kind = "table" /\ DatedOk(said.n, day) /\ f.wpar = <<E!Month(said.n.date)>>
  /\ First(said.n.date) <= said.n.on /\ First(said.n.date) > E!YearsAgo(said.n.on, 2)
LastYears(n) == First(n.date) > E!YearsAgo(n.on, 1)
TablesAsked(f, said, day) ==
  /\ OfTables(f, said, day) /\ f.type = "STATUS" /\ f.what = IF LastYears(said.n) THEN 59 ELSE 510
Tables(f, said, day) ==
  /\ OfTables(f, said, day) /\ f.what = E!Null
  /\ f.dim = IF LastYears(said.n) THEN 513 ELSE 514
Century == 2000 .. 2099
MonthNumbers == 1 .. 12
IsMonth(p, date, y, m) == p = <<y % 100, m>> /\ date = E!Date(y, m, 1)
Months(f, said) ==
  /\ said.kind = "month" /\ f.what = E!Null /\ f.dim = 52
  /\ \/ \E y \in Century, m \in MonthNumbers : IsMonth(f.wpar, said.n.date, y, m)
     \/ f.wpar = <<>> /\ said.n.date = E!Null
BreakerKind(k) == k \in {"open", "reset", "tracking", "test"}
Switches(f, said) ==
  /\ BreakerKind(said.kind) /\ f.type = "STATUS" /\ f.dim = E!Null
  /\ f.what \in {21, 22, 23, 24, 26, 27, 28, 29} /\ E!BreakerOfWhat(f.what)[said.kind] = said.n
DayCounts(f, said) == said.kind = "days" /\ f.what = E!Null /\ f.dim = 212 /\ said.n \in Nat
Flags(f, said) == said.kind = "flag" /\ f.what = E!Null /\ f.dim \in {212} \cup 250 .. 263

IsRequest(f) == f.type = "DIMENSION_REQUEST"
IsOther(f) == f.type \in {"DIMENSION_REQUEST_REPLY", "DIMENSION_WRITING"}
MeterAsks(f, said, day) ==
  \/ Readings(f, said) /\ IsRequest(f) /\ said.n = 0
  \/ Readings(f, said) /\ IsOther(f) /\ f.val = <<said.n>>
  \/ Streams(f, said) /\ IsOther(f)
  \/ Samples(f, said, day) /\ IsRequest(f)
  \/ TablesAsked(f, said, day)
  \/ Months(f, said) /\ (IsRequest(f) \/ (IsOther(f) /\ f.val = << 7 >>))
  \/ Switches(f, said)
  \/ DayCounts(f, said) /\ IsOther(f) /\ f.val = <<said.n>>
  \/ Flags(f, said) /\ IsRequest(f)
MeterCommandOk(c, day) == IsFrame(c.f) /\ MeterAsks(c.f, c.said, day)

(* What a report tells. *)
Trips(f, said) ==
  /\ BreakerKind(said.kind) /\ f.what = E!Null
  /\ \E bit \in {0, 1} : f.val = <<bit>> /\ E!BreakerOfFlag(f.dim, bit)[said.kind] = said.n
  /\ f.dim \in {251, 258, 259}
IsReply(f) == f.type = "DIMENSION_REQUEST_REPLY"
MeterTells(f, said, day) ==
  \/ Readings(f, said) /\ f.val = <<said.n>>
  \/ Streams(f, said)
  \/ Samples(f, said, day) /\ \E h \in {1, 24, 25} : f.val = <<h, 7>>
  \/ Tables(f, said, day) /\ f.val = <<E!Day(said.n.date), 7>>
  \/ Months(f, said)
  \/ Switches(f, said)
  \/ DayCounts(f, said) /\ f.val = <<said.n>> /\ IsReply(f)
  \/ Flags(f, said)
  \/ Trips(f, said) /\ IsReply(f)
MeterReportOk(r, day) == MeterTells(r.f, r.said, day) /\ (r.f.type = "STATUS" \/ IsReply(r.f))

MeterPlant ==
  /\ today \in Int /\ E!IsDate(today) /\ ticks \in 0 .. MaxTicks /\ ticks \in Int
  /\ breaker \in [{"open", "reset", "tracking"} -> BOOLEAN]
MeterBus ==
  /\ BusOk(MeterWire)
  /\ \A i \in DOMAIN commands : MeterCommandOk(commands[i], today)
  /\ \A i \in DOMAIN reports : MeterReportOk(reports[i], today)
MeterInv == MeterBus /\ MeterPlant

LEMMA MeterConstants ==
  /\ \A n \in StartDays : n \in Int /\ E!IsDate(n)
  /\ \A n \in Dates : n \in Int /\ E!IsDate(n)
  /\ MeterNumbers \subseteq Int /\ MaxTicks \in Nat /\ MeterWire \in Nat
BY FamiliesAssumption DEF E!EnergyAssumption

(* Days pass. *)
LEMMA MeterStillOk ==
  ASSUME NEW day \in Int, NEW later \in Int, day <= later, NEW x
  PROVE  /\ MeterCommandOk(x, day) => MeterCommandOk(x, later)
         /\ MeterReportOk(x, day) => MeterReportOk(x, later)
<1>1. ASSUME NEW n, DatedOk(n, day) PROVE DatedOk(n, later)
  BY <1>1 DEF DatedOk
<1>2. ASSUME NEW f, NEW said PROVE /\ Samples(f, said, day) => Samples(f, said, later)
                                   /\ Tables(f, said, day) => Tables(f, said, later)
                                   /\ TablesAsked(f, said, day) => TablesAsked(f, said, later)
  BY <1>1 DEF Samples, OfTables, Tables, TablesAsked
<1>3. ASSUME MeterCommandOk(x, day) PROVE MeterCommandOk(x, later)
  BY <1>2, <1>3 DEF MeterCommandOk, MeterAsks
<1>4. ASSUME MeterReportOk(x, day) PROVE MeterReportOk(x, later)
  BY <1>2, <1>4 DEF MeterReportOk, MeterTells
<1> QED
  BY <1>3, <1>4

(* A command that is all right is posted. *)
LEMMA MeterPosts ==
  ASSUME MeterInv, NEW f, NEW kind, NEW n, E!Post(f, kind, n), UNCHANGED <<today, ticks, breaker>>,
         IsFrame(f), MeterAsks(f, E!Said(kind, n), today)
  PROVE  MeterInv'
<1> DEFINE c == [f |-> f, said |-> E!Said(kind, n)]
<1>1. /\ Len(commands) + Len(reports) < MeterWire /\ commands' = Append(commands, c) /\ reports' = reports
      /\ today' = today
  BY DEF E!Post, E!Wire
<1>2. MeterCommandOk(c, today)
  BY DEF MeterCommandOk
<1> HIDE DEF c
<1>3. BusOk(MeterWire)' /\ Grows(commands, c, commands')
  BY <1>1, BusPosts DEF MeterInv, MeterBus
<1>4. \A i \in DOMAIN commands' : MeterCommandOk(commands'[i], today)
  BY <1>2, <1>3 DEF MeterInv, MeterBus, Grows
<1>5. MeterBus'
  BY <1>1, <1>3, <1>4 DEF MeterInv, MeterBus
<1>6. MeterPlant'
  BY DEF MeterInv, MeterPlant
<1> QED
  BY <1>5, <1>6 DEF MeterInv


LEMMA SaidIs ==
  ASSUME NEW kind, NEW n
  PROVE  E!Said(kind, n).kind = kind /\ E!Said(kind, n).n = n
BY DEF E!Said

LEMMA Ranged ==
  ASSUME NEW n, NEW lo, NEW hi, NEW f, E!InRange(n, lo, hi, f) # E!Refuse
  PROVE  E!InRange(n, lo, hi, f) = f /\ n \in lo .. hi
BY DEF E!InRange

LEMMA ReadingAsked ==
  ASSUME NEW w, NEW dim, NEW kind, ReadingDim(kind, dim), NEW day, NEW f, f = E!Ask(w, dim, <<>>)
  PROVE  IsFrame(f) /\ MeterAsks(f, E!Said(kind, 0), day)
<1>1. FrameIs(f, "DIMENSION_REQUEST", E!Null, <<>>, w, dim, <<>>)
  BY RequestIs
<1> QED
  BY <1>1, SaidIs DEF FrameIs, MeterAsks, Readings, IsRequest

LEMMA ReadingReported ==
  ASSUME NEW w, NEW dim, NEW kind, ReadingDim(kind, dim), NEW day, NEW p, NEW n \in Int,
         NEW f, f = E!Report(w, dim, p, n), f # E!Refuse
  PROVE  IsFrame(f) /\ MeterAsks(f, E!Said(kind, n), day)
<1>1. FrameIs(f, "DIMENSION_REQUEST_REPLY", E!Null, p, w, dim, <<n>>) /\ n \in Nat
  BY ReportedIs
<1> QED
  BY <1>1, SaidIs DEF FrameIs, MeterAsks, Readings, IsOther

LEMMA PartialReported ==
  ASSUME NEW w, NEW day, NEW n \in Int, NEW m,
         NEW f, f = E!ReportPartialMonth(w, n, m), f # E!Refuse
  PROVE  IsFrame(f) /\ MeterAsks(f, E!Said("this_month", n), day)
<1>1. \E p : f = E!Report(w, 53, p, n)
  <2>1. CASE m = E!Null
    BY <2>1 DEF E!ReportPartialMonth
  <2>2. CASE m # E!Null
    <3>1. f = E!InRange(m, 1, 12, E!Report(w, 53, <<m>>, n))
      BY <2>2 DEF E!ReportPartialMonth
    <3>2. f = E!Report(w, 53, <<m>>, n)
      BY <3>1, Ranged
    <3> QED
      BY <3>2
  <2> QED
    BY <2>1, <2>2
<1>2. ReadingDim("this_month", 53)
  BY DEF ReadingDim
<1> QED
  BY <1>1, <1>2, ReadingReported

LEMMA PartialDayReported ==
  ASSUME NEW w, NEW day, NEW n \in Int, NEW d,
         NEW f, f = E!ReportPartialDay(w, n, d), f # E!Refuse
  PROVE  IsFrame(f) /\ MeterAsks(f, E!Said("today", n), day)
<1>1. \E p : f = E!Report(w, 54, p, n)
  <2>1. CASE d = E!Null
    BY <2>1 DEF E!ReportPartialDay
  <2>2. CASE d # E!Null
    <3>1. f = E!InRange(d, 1, 31, E!Report(w, 54, <<d>>, n))
      BY <2>2 DEF E!ReportPartialDay
    <3>2. f = E!Report(w, 54, <<d>>, n)
      BY <3>1, Ranged
    <3> QED
      BY <3>2
  <2> QED
    BY <2>1, <2>2
<1>2. ReadingDim("today", 54)
  BY DEF ReadingDim
<1> QED
  BY <1>1, <1>2, ReadingReported

IsStream(f, n, t) ==
  f.what = E!Null /\ f.dim = 1200 /\ IsFrame(f) /\ f.val = <<n>> /\ f.wpar = <<t>>
LEMMA StreamAsked ==
  ASSUME NEW day, NEW n \in Bytes, NEW t \in Channels, NEW f,
         IsStream(f, n, t), IsOther(f)
  PROVE  IsFrame(f) /\ MeterAsks(f, E!Said("stream", <<n, t>>), day)
<1> DEFINE s == E!Said("stream", <<n, t>>)
<1>0. s.kind = "stream" /\ s.n = <<n, t>>
  BY SaidIs
<1>2. f.what = E!Null /\ f.dim = 1200 /\ IsFrame(f)
  BY DEF IsStream
<1>5. f.val = <<n>> /\ f.wpar = <<t>>
  BY DEF IsStream
<1> HIDE DEF s
<1>3. \E a \in Bytes, b \in Channels : f.val = <<a>> /\ f.wpar = <<b>> /\ s.n = <<a, b>>
  BY <1>0, <1>5, Zenon
<1>1. Streams(f, s)
  BY <1>0, <1>2, <1>3 DEF Streams
<1>4. IsFrame(f) /\ MeterAsks(f, s, day)
  BY <1>1, <1>2 DEF MeterAsks
<1> QED
  BY <1>4, Zenon DEF s

LEMMA Clamped ==
  ASSUME NEW n \in Int
  PROVE  E!Clamp(n) \in Bytes /\ E!Clamp(0) = 0
BY DEF E!Clamp, Bytes

LEMMA StreamStarted ==
  ASSUME NEW w, NEW n \in Int, NEW t \in {0, 1, 4, 5}, NEW day,
         NEW f, f = E!StartPower(w, n, t), f # E!Refuse
  PROVE  IsFrame(f) /\ MeterAsks(f, E!Said("stream", <<E!Clamp(n), t>>), day)
<1> DEFINE k == E!Clamp(n)
           g == WithPar(E!DimensionWriting(18, w, 1200, <<k>>), <<t>>)
<1>1. f = E!InRange(t, 1, 4, g)
  BY DEF E!StartPower, WithPar
<1>2. k \in Bytes
  BY Clamped
<1>3. FrameIs(g, "DIMENSION_WRITING", E!Null, <<t>>, w, 1200, <<k>>)
  BY WritingIs
<1> HIDE DEF g, k
<1>4. f = g /\ t \in Channels
  BY <1>1, Ranged DEF Channels
<1>6. IsStream(f, k, t) /\ IsOther(f)
  BY <1>3, <1>4 DEF FrameIs, IsStream, IsOther
<1>5. IsFrame(f) /\ MeterAsks(f, E!Said("stream", <<k, t>>), day)
  BY <1>2, <1>4, <1>6, StreamAsked, Zenon
<1> QED
  BY <1>5 DEF k

LEMMA StreamStopped ==
  ASSUME NEW w, NEW t \in {0, 1, 4, 5}, NEW day, NEW f, f = E!StopPower(w, t), f # E!Refuse
  PROVE  IsFrame(f) /\ MeterAsks(f, E!Said("stream", <<0, t>>), day)
<1>1. f = E!StartPower(w, 0, t)
  BY DEF E!StopPower
<1>2. E!Clamp(0) = 0
  BY Clamped
<1>3. 0 \in Int
  OBVIOUS
<1> QED
  BY <1>1, <1>2, <1>3, StreamStarted, Zenon

LEMMA StreamReported ==
  ASSUME NEW w, NEW n \in Int, NEW t \in {0, 1, 4, 5}, NEW day,
         NEW f, f = E!ReportStream(w, n, t), f # E!Refuse
  PROVE  IsFrame(f) /\ MeterAsks(f, E!Said("stream", <<n, t>>), day)
<1> DEFINE g == E!Report(w, 1200, <<t>>, n)
           h == E!InRange(t, 1, 4, g)
<1>1. f = E!InRange(n, 0, 255, h)
  BY DEF E!ReportStream
<1> HIDE DEF h
<1>2. f = h /\ n \in Bytes
  BY <1>1, Ranged DEF Bytes
<1>3. f = g /\ t \in Channels
  BY <1>2, Ranged DEF h, Channels
<1>4. FrameIs(f, "DIMENSION_REQUEST_REPLY", E!Null, <<t>>, w, 1200, <<n>>)
  BY <1>3, ReportedIs
<1>6. IsStream(f, n, t) /\ IsOther(f)
  BY <1>4 DEF FrameIs, IsStream, IsOther
<1>7. n \in Bytes /\ t \in Channels
  BY <1>2, <1>3
<1> HIDE DEF g
<1> QED
  BY <1>6, <1>7, StreamAsked, Zenon

LEMMA MeterCommands ==
  ASSUME MeterInv, NEW w, E!CommandMeter(w)
  PROVE  MeterInv'
<1>0. /\ UNCHANGED <<today, ticks, breaker>> /\ MeterNumbers \subseteq Int
      /\ ReadingDim("power", 113) /\ ReadingDim("total", 51) /\ ReadingDim("today", 54)
      /\ ReadingDim("this_month", 53)
  BY MeterConstants DEF E!CommandMeter, E!own, ReadingDim
<1>1. ASSUME NEW f, NEW kind, NEW n, E!Post(f, kind, n),
             f # E!Refuse => IsFrame(f) /\ MeterAsks(f, E!Said(kind, n), today)
      PROVE  MeterInv'
  <2>1. f # E!Refuse
    BY <1>1 DEF E!Post
  <2> QED
    BY <1>0, <1>1, <2>1, MeterPosts
<1>2. CASE E!Post(E!AskPower(w), "power", 0)
  <2>1. IsFrame(E!AskPower(w)) /\ MeterAsks(E!AskPower(w), E!Said("power", 0), today)
    BY <1>0, ReadingAsked DEF E!AskPower
  <2> QED
    BY <1>1, <1>2, <2>1
<1>3. CASE E!Post(E!AskTotal(w), "total", 0)
  <2>1. IsFrame(E!AskTotal(w)) /\ MeterAsks(E!AskTotal(w), E!Said("total", 0), today)
    BY <1>0, ReadingAsked DEF E!AskTotal
  <2> QED
    BY <1>1, <1>3, <2>1
<1>4. CASE E!Post(E!AskToday(w), "today", 0)
  <2>1. IsFrame(E!AskToday(w)) /\ MeterAsks(E!AskToday(w), E!Said("today", 0), today)
    BY <1>0, ReadingAsked DEF E!AskToday
  <2> QED
    BY <1>1, <1>4, <2>1
<1>5. CASE E!Post(E!AskThisMonth(w), "this_month", 0)
  <2>1. IsFrame(E!AskThisMonth(w)) /\ MeterAsks(E!AskThisMonth(w), E!Said("this_month", 0), today)
    BY <1>0, ReadingAsked DEF E!AskThisMonth
  <2> QED
    BY <1>1, <1>5, <2>1
<1>6. ASSUME NEW n \in MeterNumbers, NEW t \in {0, 1, 4, 5},
             \/ E!Post(E!StartPower(w, n, t), "stream", <<E!Clamp(n), t>>)
             \/ E!Post(E!StopPower(w, t), "stream", <<0, t>>)
             \/ E!Post(E!ReportStream(w, n, t), "stream", <<n, t>>)
      PROVE  MeterInv'
  <2>0. n \in Int
    BY <1>0
  <2>1. CASE E!Post(E!StartPower(w, n, t), "stream", <<E!Clamp(n), t>>)
    BY <1>1, <2>0, <2>1, StreamStarted
  <2>2. CASE E!Post(E!StopPower(w, t), "stream", <<0, t>>)
    BY <1>1, <2>2, StreamStopped
  <2>3. CASE E!Post(E!ReportStream(w, n, t), "stream", <<n, t>>)
    BY <1>1, <2>0, <2>3, StreamReported
  <2> QED
    BY <1>6, <2>1, <2>2, <2>3
<1>7. ASSUME NEW n \in MeterNumbers, E!Post(E!Report(w, 113, <<>>, n), "power", n) PROVE MeterInv'
  BY <1>0, <1>1, <1>7, ReadingReported
<1>8. ASSUME NEW n \in MeterNumbers, E!Post(E!Report(w, 51, <<>>, n), "total", n) PROVE MeterInv'
  BY <1>0, <1>1, <1>8, ReadingReported
<1>9. ASSUME NEW n \in MeterNumbers, NEW m, E!Post(E!ReportPartialMonth(w, n, m), "this_month", n)
      PROVE MeterInv'
  <2>0. n \in Int
    BY <1>0
  <2> QED
    BY <1>1, <1>9, <2>0, PartialReported
<1>10. ASSUME NEW n \in MeterNumbers, NEW d, E!Post(E!ReportPartialDay(w, n, d), "today", n)
      PROVE MeterInv'
  <2>0. n \in Int
    BY <1>0
  <2> QED
    BY <1>1, <1>10, <2>0, PartialDayReported
<1> QED
  BY <1>2, <1>3, <1>4, <1>5, <1>6, <1>7, <1>8, <1>9, <1>10 DEF E!CommandMeter


LEMMA DatedIs ==
  ASSUME NEW date
  PROVE  E!Dated(date).date = date /\ E!Dated(date).on = today
BY DEF E!Dated

LEMMA DatedToday ==
  ASSUME MeterPlant, NEW date \in Int, E!IsDate(date)
  PROVE  DatedOk(E!Dated(date), today)
BY DatedIs DEF DatedOk, MeterPlant

LEMMA SamplePosted ==
  ASSUME MeterPlant, NEW w, NEW date \in Int, E!IsDate(date), NEW f, f = E!AskDay(w, date), f # E!Refuse
  PROVE  IsFrame(f) /\ MeterAsks(f, E!Said("day", E!Dated(date)), today)
<1> DEFINE p == <<E!Month(date), E!Day(date)>>
           n == E!Dated(date)
           s == E!Said("day", n)
<1>1. f = E!Ask(w, 511, p)
  BY DEF E!AskDay
<1>2. n.date = date /\ n.on = today /\ DatedOk(n, today)
  BY DatedIs, DatedToday
<1>3. p = <<E!Month(date), E!Day(date)>>
  OBVIOUS
<1> HIDE DEF p, n
<1>4. s.kind = "day" /\ s.n = n
  BY SaidIs
<1> HIDE DEF s
<1>5. FrameIs(f, "DIMENSION_REQUEST", E!Null, p, w, 511, <<>>)
  BY <1>1, RequestIs
<1>6. f.wpar = <<E!Month(s.n.date), E!Day(s.n.date)>>
  BY <1>2, <1>3, <1>4, <1>5 DEF FrameIs
<1>7. Samples(f, s, today) /\ IsRequest(f) /\ IsFrame(f)
  BY <1>2, <1>4, <1>5, <1>6 DEF FrameIs, Samples, IsRequest
<1>8. IsFrame(f) /\ MeterAsks(f, s, today)
  BY <1>7 DEF MeterAsks
<1> QED
  BY <1>8 DEF s, n

LEMMA TablePosted ==
  ASSUME MeterPlant, NEW w, NEW date \in Int, E!IsDate(date),
         NEW f, f = E!AskDays(w, E!Year(date), E!Month(date)), f # E!Refuse
  PROVE  IsFrame(f) /\ MeterAsks(f, E!Said("table", E!Dated(date)), today)
<1> DEFINE p == <<E!Month(date)>>
           n == E!Dated(date)
           s == E!Said("table", n)
           k == IF First(date) > E!YearsAgo(today, 1) THEN 59 ELSE 510
<1>1. ~(First(date) > today \/ First(date) <= E!YearsAgo(today, 2)) /\ f = E!Status(18, k, p, w)
  BY DEF E!AskDays, First
<1>2. n.date = date /\ n.on = today /\ DatedOk(n, today)
  BY DatedIs, DatedToday
<1> HIDE DEF n
<1>3. s.kind = "table" /\ s.n = n
  BY SaidIs
<1> HIDE DEF s
<1>4. First(date) \in Int /\ E!YearsAgo(today, 2) \in Int /\ today \in Int
  <2>1. First(date) \in Int
    BY DateParts, SMTT(30) DEF First, E!Date
  <2>2. IsDay(today, E!Year(today), E!Month(today), E!Day(today))
    BY DayParts DEF MeterPlant
  <2>3. PICK b \in 1 .. 31 : E!YearsAgo(today, 2) = E!Date(E!Year(today) - 2, E!Month(today), b)
    BY <2>2, YearsAgoIs
  <2>4. E!YearsAgo(today, 2) \in Int
    BY <2>2, <2>3 DEF IsDay, E!Date
  <2> QED
    BY <2>1, <2>4 DEF MeterPlant
<1>5. First(date) <= today /\ First(date) > E!YearsAgo(today, 2)
  BY <1>1, <1>4
<1>6. k = IF LastYears(s.n) THEN 59 ELSE 510
  BY <1>2, <1>3 DEF LastYears
<1> HIDE DEF k, p
<1>7. FrameIs(f, "STATUS", k, p, w, E!Null, <<>>)
  BY <1>1, StatusIs
<1>8. f.wpar = <<E!Month(s.n.date)>>
  BY <1>2, <1>3, <1>7 DEF FrameIs, p
<1>9. OfTables(f, s, today)
  BY <1>2, <1>3, <1>5, <1>8 DEF OfTables
<1>10. TablesAsked(f, s, today) /\ IsFrame(f)
  BY <1>6, <1>7, <1>9 DEF FrameIs, TablesAsked
<1>11. IsFrame(f) /\ MeterAsks(f, s, today)
  BY <1>10 DEF MeterAsks
<1> QED
  BY <1>11 DEF s, n

LEMMA MonthPosted ==
  ASSUME MeterPlant, NEW w, NEW y \in Int, NEW m \in Int, NEW f, f # E!Refuse,
         f = E!AskMonth(w, y, m) \/ (f = E!ReportMonth(w, 7, y, m) /\ y # E!Null)
  PROVE  IsFrame(f) /\ MeterAsks(f, E!Said("month", E!Dated(E!Date(y, m, 1))), today)
<1> DEFINE p == <<y % 100, m>>
           n == E!Dated(E!Date(y, m, 1))
           s == E!Said("month", n)
<1>1. n.date = E!Date(y, m, 1)
  BY DatedIs
<1> HIDE DEF n
<1>2. s.kind = "month" /\ s.n = n
  BY SaidIs
<1> HIDE DEF s
<1> DEFINE ok == IsFrame(f) /\ MeterAsks(f, s, today)
<1>3. ASSUME NEW g, f = E!InRange(y, 2000, 2099, E!InRange(m, 1, 12, g))
      PROVE  f = g /\ y \in 2000 .. 2099 /\ m \in 1 .. 12
  <2> DEFINE h == E!InRange(m, 1, 12, g)
  <2>1. f = E!InRange(y, 2000, 2099, h)
    BY <1>3
  <2> HIDE DEF h
  <2>2. f = h /\ y \in 2000 .. 2099
    BY <2>1, Ranged
  <2>3. f = g /\ m \in 1 .. 12
    BY <2>2, Ranged DEF h
  <2> QED
    BY <2>2, <2>3
<1>4. ASSUME f.wpar = p, y \in 2000 .. 2099, m \in 1 .. 12, f.what = E!Null, f.dim = 52
      PROVE  Months(f, s)
  <2>1. IsMonth(f.wpar, s.n.date, y, m) /\ y \in Century /\ m \in MonthNumbers
    BY <1>1, <1>2, <1>4 DEF IsMonth, Century, MonthNumbers
  <2>2. s.kind = "month" /\ f.what = E!Null /\ f.dim = 52
    BY <1>2, <1>4
  <2> QED
    BY <2>1, <2>2 DEF Months
<1>5. ASSUME f = E!AskMonth(w, y, m) PROVE ok
  <2>1. f = E!InRange(y, 2000, 2099, E!InRange(m, 1, 12, E!Ask(w, 52, p)))
    BY <1>5 DEF E!AskMonth
  <2>2. f = E!Ask(w, 52, p) /\ y \in 2000 .. 2099 /\ m \in 1 .. 12
    BY <1>3, <2>1
  <2> HIDE DEF p
  <2>3. FrameIs(f, "DIMENSION_REQUEST", E!Null, p, w, 52, <<>>)
    BY <2>2, RequestIs
  <2>4. Months(f, s)
    BY <1>4, <2>2, <2>3 DEF FrameIs
  <2> QED
    BY <2>3, <2>4 DEF FrameIs, MeterAsks, IsRequest
<1>6. ASSUME f = E!ReportMonth(w, 7, y, m), y # E!Null PROVE ok
  <2>1. f = E!InRange(y, 2000, 2099, E!InRange(m, 1, 12, E!Report(w, 52, p, 7)))
    BY <1>6 DEF E!ReportMonth
  <2>2. f = E!Report(w, 52, p, 7) /\ y \in 2000 .. 2099 /\ m \in 1 .. 12
    BY <1>3, <2>1
  <2> HIDE DEF p
  <2>3. FrameIs(f, "DIMENSION_REQUEST_REPLY", E!Null, p, w, 52, << 7 >>)
    BY <2>2, ReportedIs
  <2>4. Months(f, s)
    BY <1>4, <2>2, <2>3 DEF FrameIs
  <2> QED
    BY <2>3, <2>4 DEF FrameIs, MeterAsks, IsOther
<1>7. ok
  BY <1>5, <1>6
<1> QED
  BY <1>7 DEF s, n

(* The month may be left out. *)
LEMMA UndatedPosted ==
  ASSUME NEW w, NEW f, f # E!Refuse, f = E!ReportMonth(w, 7, E!Null, E!Null)
  PROVE  IsFrame(f) /\ MeterAsks(f, E!Said("month", E!Dated(E!Null)), today)
<1> DEFINE n == E!Dated(E!Null)
           s == E!Said("month", n)
<1>1. n.date = E!Null
  BY DatedIs
<1> HIDE DEF n
<1>2. s.kind = "month" /\ s.n = n
  BY SaidIs
<1> HIDE DEF s
<1>3. f = E!Report(w, 52, <<>>, 7)
  BY DEF E!ReportMonth
<1>4. FrameIs(f, "DIMENSION_REQUEST_REPLY", E!Null, <<>>, w, 52, << 7 >>)
  BY <1>3, ReportedIs
<1>5. f.wpar = <<>> /\ s.n.date = E!Null
  BY <1>1, <1>2, <1>4 DEF FrameIs
<1>6. Months(f, s) /\ IsOther(f) /\ f.val = << 7 >> /\ IsFrame(f)
  BY <1>2, <1>4, <1>5 DEF FrameIs, Months, IsOther
<1>7. IsFrame(f) /\ MeterAsks(f, s, today)
  BY <1>6 DEF MeterAsks
<1> QED
  BY <1>7 DEF s, n

LEMMA HistoryCommands ==
  ASSUME MeterInv, NEW w, E!CommandHistory(w)
  PROVE  MeterInv'
<1>0. MeterPlant /\ UNCHANGED <<today, ticks, breaker>>
  BY DEF E!CommandHistory, E!own, MeterInv
<1>1. ASSUME NEW f, NEW kind, NEW n, E!Post(f, kind, n),
             f # E!Refuse => IsFrame(f) /\ MeterAsks(f, E!Said(kind, n), today)
      PROVE  MeterInv'
  <2>1. f # E!Refuse
    BY <1>1 DEF E!Post
  <2> QED
    BY <1>0, <1>1, <2>1, MeterPosts
<1>2. ASSUME NEW date \in Dates PROVE date \in Int /\ E!IsDate(date) /\ E!Year(date) \in Int /\ E!Month(date) \in Int
  BY MeterConstants, DateParts
<1>3. ASSUME NEW date \in Dates, E!Post(E!AskDay(w, date), "day", E!Dated(date)) PROVE MeterInv'
  BY <1>0, <1>1, <1>2, <1>3, SamplePosted
<1>4. ASSUME NEW date \in Dates, E!Post(E!AskDays(w, E!Year(date), E!Month(date)), "table", E!Dated(date))
      PROVE MeterInv'
  BY <1>0, <1>1, <1>2, <1>4, TablePosted
<1>5. ASSUME NEW y \in Int, NEW m \in Int, NEW f, E!Post(f, "month", E!Dated(E!Date(y, m, 1))),
             f = E!AskMonth(w, y, m) \/ (f = E!ReportMonth(w, 7, y, m) /\ y # E!Null)
      PROVE MeterInv'
  BY <1>0, <1>1, <1>5, MonthPosted
<1>6. ASSUME E!Post(E!ReportMonth(w, 7, E!Null, E!Null), "month", E!Dated(E!Null)) PROVE MeterInv'
  BY <1>1, <1>6, UndatedPosted
<1>7. ASSUME NEW date \in Dates, E!Post(E!AskMonth(w, E!Year(date), E!Month(date)), "month",
                                        E!Dated(E!Date(E!Year(date), E!Month(date), 1)))
      PROVE MeterInv'
  BY <1>2, <1>5, <1>7
<1>8. ASSUME NEW date \in Dates, NEW y \in {E!Null, E!Year(date)}, NEW m \in {E!Null, E!Month(date)},
             E!Post(E!ReportMonth(w, 7, y, m), "month", E!Dated(IF y = E!Null THEN E!Null ELSE E!Date(y, m, 1)))
      PROVE MeterInv'
  <2>1. y \in Int /\ m \in Int
    BY <1>2 DEF E!Null
  <2>2. E!ReportMonth(w, 7, y, m) # E!Refuse
    BY <1>8 DEF E!Post
  <2>3. CASE y = E!Null
    <3>1. m = E!Null
      BY <2>2, <2>3 DEF E!ReportMonth
    <3> QED
      BY <1>6, <1>8, <2>3, <3>1
  <2>4. CASE y # E!Null
    BY <1>5, <1>8, <2>1, <2>4
  <2> QED
    BY <2>3, <2>4
<1> QED
  BY <1>3, <1>4, <1>7, <1>8 DEF E!CommandHistory

(* Stop&Go. *)
OpenTold(v) == [E!Nothing EXCEPT !.open = v]
TestTold(v) == [E!Nothing EXCEPT !.test = v]
ResetTold(v) == [E!Nothing EXCEPT !.reset = v]
TrackingTold(v) == [E!Nothing EXCEPT !.tracking = v]
LEMMA ToldIs ==
  ASSUME NEW v
  PROVE  /\ OpenTold(v).open = v /\ TestTold(v).test = v
         /\ ResetTold(v).reset = v /\ TrackingTold(v).tracking = v
BY DEF OpenTold, TestTold, ResetTold, TrackingTold, E!Nothing, E!Told

LEMMA WhatsMean ==
  /\ E!BreakerOfWhat(21).open = "yes" /\ E!BreakerOfWhat(22).open = "no"
  /\ E!BreakerOfWhat(23).test = "yes" /\ E!BreakerOfWhat(24).test = "no"
  /\ E!BreakerOfWhat(26).reset = "yes" /\ E!BreakerOfWhat(27).reset = "no"
  /\ E!BreakerOfWhat(28).tracking = "yes" /\ E!BreakerOfWhat(29).tracking = "no"
<1>1. ASSUME NEW what PROVE what \in {21, 22} => E!BreakerOfWhat(what) = OpenTold(E!Yes(what = 21))
  BY DEF E!BreakerOfWhat, OpenTold
<1>2. ASSUME NEW what PROVE what \in {23, 24} => E!BreakerOfWhat(what) = TestTold(E!Yes(what = 23))
  BY DEF E!BreakerOfWhat, TestTold
<1>3. ASSUME NEW what PROVE what \in {26, 27} => E!BreakerOfWhat(what) = ResetTold(E!Yes(what = 26))
  BY DEF E!BreakerOfWhat, ResetTold
<1>4. ASSUME NEW what PROVE what \in {28, 29} => E!BreakerOfWhat(what) = TrackingTold(E!Yes(what = 28))
  BY DEF E!BreakerOfWhat, TrackingTold
<1>5. E!BreakerOfWhat(21) = OpenTold("yes") /\ E!BreakerOfWhat(22) = OpenTold("no")
  BY <1>1 DEF E!Yes
<1>6. E!BreakerOfWhat(23) = TestTold("yes") /\ E!BreakerOfWhat(24) = TestTold("no")
  BY <1>2 DEF E!Yes
<1>7. E!BreakerOfWhat(26) = ResetTold("yes") /\ E!BreakerOfWhat(27) = ResetTold("no")
  BY <1>3 DEF E!Yes
<1>8. E!BreakerOfWhat(28) = TrackingTold("yes") /\ E!BreakerOfWhat(29) = TrackingTold("no")
  BY <1>4 DEF E!Yes
<1> QED
  BY <1>5, <1>6, <1>7, <1>8, ToldIs

LEMMA SwitchPosted ==
  ASSUME NEW w, NEW what \in {21, 22, 23, 24, 26, 27, 28, 29}, NEW kind, BreakerKind(kind), NEW day,
         NEW f, f = E!Switch(w, what), f # E!Refuse
  PROVE  IsFrame(f) /\ MeterAsks(f, E!Said(kind, E!BreakerOfWhat(what)[kind]), day)
<1> DEFINE n == E!BreakerOfWhat(what)[kind]
           s == E!Said(kind, n)
<1>1. f = E!Status(18, what, <<>>, E!Line(w))
  BY DEF E!Switch
<1>2. FrameIs(f, "STATUS", what, <<>>, E!Line(w), E!Null, <<>>)
  BY <1>1, StatusIs
<1>3. s.kind = kind /\ s.n = n
  BY SaidIs
<1>4. Switches(f, s)
  BY <1>2, <1>3 DEF FrameIs, Switches
<1> QED
  BY <1>2, <1>4 DEF FrameIs, MeterAsks

LEMMA FlagPosted ==
  ASSUME NEW w, NEW dim, dim \in {212} \cup 250 .. 263, NEW day, NEW n,
         NEW f, f = E!Ask(w, dim, <<>>)
  PROVE  IsFrame(f) /\ MeterAsks(f, E!Said("flag", n), day)
<1>1. FrameIs(f, "DIMENSION_REQUEST", E!Null, <<>>, w, dim, <<>>)
  BY RequestIs
<1>2. Flags(f, E!Said("flag", n)) /\ IsRequest(f) /\ IsFrame(f)
  BY <1>1, SaidIs DEF FrameIs, Flags, IsRequest
<1> QED
  BY <1>2 DEF MeterAsks

LEMMA FrequencyPosted ==
  ASSUME NEW w, NEW n \in Int, NEW day, NEW f, f = E!SetTestFrequency(w, n), f # E!Refuse
  PROVE  IsFrame(f) /\ MeterAsks(f, E!Said("days", n), day)
<1> DEFINE g == E!DimensionWriting(18, E!Line(w), 212, <<n>>)
<1>1. f = E!InRange(n, 1, 255, g)
  BY DEF E!SetTestFrequency
<1> HIDE DEF g
<1>2. f = g /\ n \in 1 .. 255
  BY <1>1, Ranged
<1>3. FrameIs(f, "DIMENSION_WRITING", E!Null, <<>>, E!Line(w), 212, <<n>>)
  BY <1>2, FrameParts DEF g, E!DimensionWriting
<1>4. n \in Nat
  BY <1>2
<1>5. DayCounts(f, E!Said("days", n)) /\ IsOther(f) /\ f.val = <<E!Said("days", n).n>> /\ IsFrame(f)
  BY <1>3, <1>4, SaidIs DEF FrameIs, DayCounts, IsOther
<1> QED
  BY <1>5 DEF MeterAsks

LEMMA BreakerCommands ==
  ASSUME MeterInv, NEW w, E!CommandBreaker(w)
  PROVE  MeterInv'
<1>0. MeterPlant /\ UNCHANGED <<today, ticks, breaker>> /\ MeterNumbers \subseteq Int
  BY MeterConstants DEF E!CommandBreaker, E!own, MeterInv
<1>1. ASSUME NEW f, NEW kind, NEW n, E!Post(f, kind, n),
             f # E!Refuse => IsFrame(f) /\ MeterAsks(f, E!Said(kind, n), today)
      PROVE  MeterInv'
  <2>1. f # E!Refuse
    BY <1>1 DEF E!Post
  <2> QED
    BY <1>0, <1>1, <2>1, MeterPosts
<1>2. ASSUME NEW what \in {21, 22, 23, 24, 26, 27, 28, 29}, NEW kind, BreakerKind(kind), NEW n,
             n = E!BreakerOfWhat(what)[kind], E!Post(E!Switch(w, what), kind, n)
      PROVE  MeterInv'
  BY <1>1, <1>2, SwitchPosted
<1>3. BreakerKind("open") /\ BreakerKind("test") /\ BreakerKind("reset") /\ BreakerKind("tracking")
  BY DEF BreakerKind
<1>4. CASE E!Post(E!OpenBreaker(w), "open", "yes") \/ E!Post(E!CloseBreaker(w), "open", "no")
  <2>1. E!BreakerOfWhat(21)["open"] = "yes" /\ E!BreakerOfWhat(22)["open"] = "no"
    BY WhatsMean
  <2> QED
    BY <1>2, <1>3, <1>4, <2>1 DEF E!OpenBreaker, E!CloseBreaker
<1>5. CASE E!Post(E!TestPositive(w), "test", "yes") \/ E!Post(E!TestNegative(w), "test", "no")
  <2>1. E!BreakerOfWhat(23)["test"] = "yes" /\ E!BreakerOfWhat(24)["test"] = "no"
    BY WhatsMean
  <2> QED
    BY <1>2, <1>3, <1>5, <2>1 DEF E!TestPositive, E!TestNegative
<1>6. ASSUME NEW on \in BOOLEAN, E!Post(E!SetAutoReset(w, on), "reset", E!Yes(on)) PROVE MeterInv'
  <2>1. E!BreakerOfWhat(26)["reset"] = "yes" /\ E!BreakerOfWhat(27)["reset"] = "no"
    BY WhatsMean
  <2>2. CASE on
    BY <1>2, <1>3, <1>6, <2>1, <2>2 DEF E!SetAutoReset, E!Yes
  <2>3. CASE ~on
    BY <1>2, <1>3, <1>6, <2>1, <2>3 DEF E!SetAutoReset, E!Yes
  <2> QED
    BY <2>2, <2>3
<1>7. ASSUME NEW on \in BOOLEAN, E!Post(E!SetTracking(w, on), "tracking", E!Yes(on)) PROVE MeterInv'
  <2>1. E!BreakerOfWhat(28)["tracking"] = "yes" /\ E!BreakerOfWhat(29)["tracking"] = "no"
    BY WhatsMean
  <2>2. CASE on
    BY <1>2, <1>3, <1>7, <2>1, <2>2 DEF E!SetTracking, E!Yes
  <2>3. CASE ~on
    BY <1>2, <1>3, <1>7, <2>1, <2>3 DEF E!SetTracking, E!Yes
  <2> QED
    BY <2>2, <2>3
<1>8. ASSUME NEW n \in MeterNumbers, E!Post(E!SetTestFrequency(w, n), "days", n) PROVE MeterInv'
  BY <1>0, <1>1, <1>8, FrequencyPosted
<1>9. ASSUME NEW n \in MeterNumbers, E!Post(E!AskFlag(w, n), "flag", n) PROVE MeterInv'
  <2> DEFINE f == E!AskFlag(w, n)
             g == E!Ask(E!Line(w), n, <<>>)
  <2>1. ASSUME f # E!Refuse PROVE f = g /\ n \in 251 .. 263
    <3>1. f = E!InRange(n, 251, 263, g)
      BY <2>1 DEF E!AskFlag
    <3> HIDE DEF f, g
    <3> QED
      BY <2>1, <3>1, Ranged
  <2>2. ASSUME f # E!Refuse PROVE f = g /\ n \in {212} \cup 250 .. 263
    BY <2>1, <2>2
  <2> HIDE DEF f
  <2>3. f # E!Refuse => IsFrame(f) /\ MeterAsks(f, E!Said("flag", n), today)
    BY <2>2, FlagPosted
  <2> QED
    BY <1>1, <1>9, <2>3 DEF f
<1>10. ASSUME NEW f, E!Post(f, "flag", 0), f = E!AskFrequency(w) \/ f = E!AskMask(w) PROVE MeterInv'
  <2>1. ASSUME f # E!Refuse PROVE \E dim : dim \in {212} \cup 250 .. 263 /\ f = E!Ask(E!Line(w), dim, <<>>)
    <3>1. f = E!Ask(E!Line(w), 212, <<>>) \/ f = E!Ask(E!Line(w), 250, <<>>)
      BY <1>10, <2>1 DEF E!AskFrequency, E!AskMask
    <3>2. 212 \in {212} \cup 250 .. 263 /\ 250 \in {212} \cup 250 .. 263
      OBVIOUS
    <3> QED
      BY <3>1, <3>2
  <2>2. f # E!Refuse => IsFrame(f) /\ MeterAsks(f, E!Said("flag", 0), today)
    BY <2>1, FlagPosted
  <2> QED
    BY <1>1, <1>10, <2>2
<1> QED
  BY <1>4, <1>5, <1>6, <1>7, <1>8, <1>9, <1>10 DEF E!CommandBreaker


(* A frame that is not a request is reported as it is. *)
LEMMA OtherAnswered ==
  ASSUME NEW f, IsFrame(f), IsOther(f) \/ f.type = "STATUS", NEW g \in E!Answers(f), NEW x, x = WithPar(g, f.wpar),
         IsOther(f) => f.what = E!Null, f.what \notin {59, 510}
  PROVE  FrameIs(x, IF f.type = "STATUS" THEN "STATUS" ELSE "DIMENSION_REQUEST_REPLY",
                 f.what, f.wpar, f.where, f.dim, f.val)
<1> DEFINE h == WithPar(f, <<>>)
<1>1. f.type # "DIMENSION_REQUEST"
  BY DEF IsOther
<1>2. g = E!AsReply(h)
  BY <1>1 DEF E!Answers, WithPar
<1>3. FrameIs(h, f.type, f.what, <<>>, f.where, f.dim, f.val)
  BY FrameWith
<1> HIDE DEF h
<1>4. CASE f.type = "DIMENSION_WRITING"
  <2>1. g = E!DimensionReply(h.who, f.where, f.dim, f.val)
    BY <1>2, <1>3, <1>4 DEF E!AsReply, FrameIs
  <2>2. FrameIs(g, "DIMENSION_REQUEST_REPLY", E!Null, <<>>, f.where, f.dim, f.val)
    BY <2>1, FrameParts DEF E!DimensionReply
  <2>3. FrameIs(x, "DIMENSION_REQUEST_REPLY", E!Null, f.wpar, f.where, f.dim, f.val)
    BY <2>2, FrameWith DEF FrameIs
  <2>4. f.type # "STATUS" /\ f.what = E!Null
    BY <1>4 DEF IsOther
  <2> QED
    BY <2>3, <2>4
<1>5. CASE f.type # "DIMENSION_WRITING"
  <2>1. g = h
    BY <1>2, <1>3, <1>5 DEF E!AsReply, FrameIs
  <2>2. FrameIs(x, f.type, f.what, f.wpar, f.where, f.dim, f.val)
    BY <1>3, <2>1, FrameWith DEF FrameIs
  <2>3. f.type = IF f.type = "STATUS" THEN "STATUS" ELSE "DIMENSION_REQUEST_REPLY"
    BY <1>5 DEF IsOther
  <2> QED
    BY <2>2, <2>3
<1> QED
  BY <1>4, <1>5

IsAnswer(x, f) ==
  /\ x.type = "DIMENSION_REQUEST_REPLY" /\ x.what = E!Null /\ x.wpar = f.wpar /\ x.where = f.where
  /\ x.dim = f.dim

LEMMA Replied ==
  ASSUME NEW f, NEW v, NEW p, NEW g, NEW x, x = WithPar(g, f.wpar),
         \/ g = E!DimensionReply(18, f.where, f.dim, v)
         \/ g = WithPar(E!DimensionReply(18, f.where, f.dim, v), p)
  PROVE  IsAnswer(x, f) /\ x.val = v
<1> DEFINE ty == "DIMENSION_REQUEST_REPLY"
<1>1. \E q : FrameIs(g, ty, E!Null, q, f.where, f.dim, v)
  <2>1. FrameIs(E!DimensionReply(18, f.where, f.dim, v), ty, E!Null, <<>>, f.where, f.dim, v)
    BY FrameParts DEF E!DimensionReply
  <2>2. FrameIs(WithPar(E!DimensionReply(18, f.where, f.dim, v), p), ty, E!Null, p, f.where, f.dim, v)
    BY ReplyIs
  <2> QED
    BY <2>1, <2>2
<1>2. FrameIs(x, ty, E!Null, f.wpar, f.where, f.dim, v)
  BY <1>1, FrameWith DEF FrameIs
<1> QED
  BY <1>2 DEF FrameIs, IsAnswer

(* A request is answered with what the meter has. *)
LEMMA RequestAnswered ==
  ASSUME NEW f, IsRequest(f), f.what = E!Null, NEW g \in E!Answers(f), NEW x, x = WithPar(g, f.wpar)
  PROVE  /\ IsAnswer(x, f)
         /\ f.dim = 511 => \E h \in {1, 24, 25} : x.val = <<h, 7>>
         /\ f.dim \in {113, 51, 52, 53, 54} => x.val = <<0>>
<1>0. f.type = "DIMENSION_REQUEST" /\ f.what \notin {59, 510}
  BY DEF IsRequest, E!Null
<1>1. CASE f.dim = 511
  <2>1. PICK h \in {1, 24, 25} : g = WithPar(E!DimensionReply(18, f.where, 511, <<h, 7>>), f.wpar)
    BY <1>0, <1>1 DEF E!Answers, WithPar
  <2> DEFINE v == <<h, 7>>
  <2>2. g = WithPar(E!DimensionReply(18, f.where, f.dim, v), f.wpar)
    BY <1>1, <2>1
  <2> HIDE DEF v
  <2>3. IsAnswer(x, f) /\ x.val = v
    BY <2>2, Replied
  <2>4. x.val = <<h, 7>>
    BY <2>3 DEF v
  <2> QED
    BY <1>1, <2>3, <2>4
<1>2. CASE f.dim = 212
  <2> DEFINE v == << 30 >>
  <2>1. g = E!DimensionReply(18, f.where, f.dim, v)
    BY <1>0, <1>2 DEF E!Answers
  <2> HIDE DEF v
  <2> QED
    BY <1>2, <2>1, Replied
<1>3. CASE f.dim \in 250 .. 263
  <2>1. PICK b \in {0, 1} : g = E!DimensionReply(18, f.where, f.dim, <<b>>)
    BY <1>0, <1>3 DEF E!Answers
  <2>2. IsAnswer(x, f)
    BY <2>1, Replied
  <2> QED
    BY <1>3, <2>2
<1>4. CASE ~(f.dim = 511) /\ ~(f.dim = 212) /\ ~(f.dim \in 250 .. 263)
  <2> DEFINE v == <<0>>
  <2>1. g = WithPar(E!DimensionReply(18, f.where, f.dim, v), f.wpar)
    BY <1>0, <1>4 DEF E!Answers, WithPar
  <2> HIDE DEF v
  <2>2. IsAnswer(x, f) /\ x.val = v
    BY <2>1, Replied
  <2>3. x.val = <<0>>
    BY <2>2 DEF v
  <2> QED
    BY <1>4, <2>2, <2>3
<1> QED
  BY <1>1, <1>2, <1>3, <1>4

(* WHAT 59 is answered with dimension 513, WHAT 510 with 514. *)
LEMMA TableAnswered ==
  ASSUME NEW f, f.what \in {59, 510}, NEW g \in E!Answers(f), NEW x, x = WithPar(g, f.wpar),
         NEW dim, dim = IF f.what = 59 THEN 513 ELSE 514
  PROVE  /\ x.type = "DIMENSION_REQUEST_REPLY" /\ x.what = E!Null /\ x.wpar = f.wpar /\ x.dim = dim
         /\ x.val = <<E!Day(Head(commands).said.n.date), 7>>
<1> DEFINE v == <<E!Day(Head(commands).said.n.date), 7>>
<1>1. g = E!DimensionReply(18, f.where, dim, v)
  BY DEF E!Answers
<1> HIDE DEF v
<1>2. FrameIs(g, "DIMENSION_REQUEST_REPLY", E!Null, <<>>, f.where, dim, v)
  BY <1>1, FrameParts DEF E!DimensionReply
<1>3. FrameIs(x, "DIMENSION_REQUEST_REPLY", E!Null, f.wpar, f.where, dim, v)
  BY <1>2, FrameWith DEF FrameIs
<1> QED
  BY <1>3 DEF FrameIs, v

(* The answer to a command that is all right is all right. *)
LEMMA AnswerTells ==
  ASSUME NEW c, NEW day, MeterCommandOk(c, day), c = Head(commands), NEW g \in E!Answers(c.f),
         NEW x, x = WithPar(g, c.f.wpar)
  PROVE  MeterTells(x, c.said, day) /\ (x.type = "STATUS" \/ IsReply(x))
<1> DEFINE f == c.f
           s == c.said
           ok == MeterTells(x, s, day) /\ (x.type = "STATUS" \/ IsReply(x))
<1>1. IsFrame(f) /\ MeterAsks(f, s, day)
  BY DEF MeterCommandOk
<1>2. g \in E!Answers(f) /\ x = WithPar(g, f.wpar) /\ s = Head(commands).said
  OBVIOUS
<1> HIDE DEF f, s
<1>3. ASSUME IsOther(f), f.what = E!Null PROVE IsAnswer(x, f) /\ x.val = f.val
  <2>1. f.type # "STATUS" /\ f.what \notin {59, 510}
    BY <1>3 DEF IsOther, E!Null
  <2>2. FrameIs(x, "DIMENSION_REQUEST_REPLY", f.what, f.wpar, f.where, f.dim, f.val)
    BY <1>1, <1>2, <1>3, <2>1, OtherAnswered
  <2> QED
    BY <1>3, <2>2 DEF FrameIs, IsAnswer
<1>4. ASSUME Readings(f, s), IsRequest(f), s.n = 0 PROVE ok
  <2>1. f.dim \in {113, 51, 52, 53, 54}
    BY <1>4 DEF Readings, ReadingDim
  <2>2. IsAnswer(x, f) /\ x.val = <<0>>
    BY <1>2, <1>4, <2>1, RequestAnswered DEF Readings
  <2>3. Readings(x, s) /\ x.val = <<s.n>>
    BY <1>4, <2>2 DEF Readings, IsAnswer
  <2> QED
    BY <2>2, <2>3 DEF MeterTells, IsAnswer, IsReply
<1>5. ASSUME Readings(f, s), IsOther(f), f.val = <<s.n>> PROVE ok
  <2>1. IsAnswer(x, f) /\ x.val = <<s.n>>
    BY <1>3, <1>5 DEF Readings
  <2>2. Readings(x, s)
    BY <1>5, <2>1 DEF Readings, IsAnswer
  <2> QED
    BY <2>1, <2>2 DEF MeterTells, IsAnswer, IsReply
<1>6. ASSUME Streams(f, s), IsOther(f) PROVE ok
  <2>1. IsAnswer(x, f) /\ x.val = f.val
    BY <1>3, <1>6 DEF Streams
  <2>2. Streams(x, s)
    BY <1>6, <2>1 DEF Streams, IsAnswer
  <2> QED
    BY <2>1, <2>2 DEF MeterTells, IsAnswer, IsReply
<1>7. ASSUME Samples(f, s, day), IsRequest(f) PROVE ok
  <2>1. f.dim = 511 /\ f.what = E!Null
    BY <1>7 DEF Samples
  <2>2. IsAnswer(x, f)
    BY <1>2, <1>7, <2>1, RequestAnswered
  <2>3. \E h \in {1, 24, 25} : x.val = <<h, 7>>
    BY <1>2, <1>7, <2>1, RequestAnswered
  <2>4. Samples(x, s, day)
    BY <1>7, <2>2 DEF Samples, IsAnswer
  <2> QED
    BY <2>2, <2>3, <2>4 DEF MeterTells, IsAnswer, IsReply
<1>8. ASSUME TablesAsked(f, s, day) PROVE ok
  <2> DEFINE dim == IF f.what = 59 THEN 513 ELSE 514
  <2>1. f.what \in {59, 510} /\ OfTables(f, s, day)
    BY <1>8 DEF TablesAsked
  <2>2. dim = IF LastYears(s.n) THEN 513 ELSE 514
    BY <1>8 DEF TablesAsked
  <2> HIDE DEF dim
  <2>3. /\ x.type = "DIMENSION_REQUEST_REPLY" /\ x.what = E!Null /\ x.wpar = f.wpar /\ x.dim = dim
        /\ x.val = <<E!Day(s.n.date), 7>>
    BY <1>2, <2>1, TableAnswered DEF dim
  <2>4. OfTables(x, s, day)
    BY <2>1, <2>3 DEF OfTables
  <2>5. Tables(x, s, day)
    BY <2>2, <2>3, <2>4 DEF Tables
  <2> QED
    BY <2>3, <2>5 DEF MeterTells, IsReply
<1>9. ASSUME Months(f, s), IsRequest(f) \/ IsOther(f) PROVE ok
  <2>1. IsAnswer(x, f)
    BY <1>2, <1>3, <1>9, RequestAnswered DEF Months
  <2>2. Months(x, s)
    BY <1>9, <2>1 DEF Months, IsAnswer
  <2> QED
    BY <2>1, <2>2 DEF MeterTells, IsAnswer, IsReply
<1>10. ASSUME Switches(f, s) PROVE ok
  <2>0. f.type = "STATUS" /\ ~IsOther(f) /\ f.what \notin {59, 510}
    BY <1>10 DEF Switches, IsOther
  <2>1. FrameIs(x, "STATUS", f.what, f.wpar, f.where, f.dim, f.val)
    BY <1>1, <1>2, <2>0, OtherAnswered
  <2>2. Switches(x, s)
    BY <1>10, <2>1 DEF Switches, FrameIs
  <2> QED
    BY <2>1, <2>2 DEF MeterTells, FrameIs
<1>11. ASSUME DayCounts(f, s), IsOther(f), f.val = <<s.n>> PROVE ok
  <2>1. IsAnswer(x, f) /\ x.val = <<s.n>>
    BY <1>3, <1>11 DEF DayCounts
  <2>2. DayCounts(x, s)
    BY <1>11, <2>1 DEF DayCounts, IsAnswer
  <2> QED
    BY <2>1, <2>2 DEF MeterTells, IsAnswer, IsReply
<1>12. ASSUME Flags(f, s), IsRequest(f) PROVE ok
  <2>1. IsAnswer(x, f)
    BY <1>2, <1>12, RequestAnswered DEF Flags
  <2>2. Flags(x, s)
    BY <1>12, <2>1 DEF Flags, IsAnswer
  <2> QED
    BY <2>1, <2>2 DEF MeterTells, IsAnswer, IsReply
<1>13. ok
  BY <1>1, <1>4, <1>5, <1>6, <1>7, <1>8, <1>9, <1>10, <1>11, <1>12 DEF MeterAsks
<1> QED
  BY <1>13 DEF s

LEMMA MeterAnswers ==
  ASSUME MeterInv, E!Answer
  PROVE  MeterInv'
<1>1. UNCHANGED <<today, ticks, breaker>> /\ commands # <<>> /\ commands' = Tail(commands)
  BY DEF E!Answer, E!CarryOut, E!own
<1>2. PICK g \in E!Answers(Head(commands).f) :
        reports' = Append(reports, [f |-> WithPar(g, Head(commands).f.wpar), said |-> Head(commands).said])
  BY DEF E!Answer, E!CarryOut, E!First, WithPar
<1> DEFINE x == WithPar(g, Head(commands).f.wpar)
           r == [f |-> x, said |-> Head(commands).said]
<1>3. /\ BusOk(MeterWire)' /\ Shrinks(commands, commands') /\ Grows(reports, r, reports')
      /\ 1 \in DOMAIN commands /\ Head(commands) = commands[1]
  BY <1>1, <1>2, BusAnswers DEF MeterInv, MeterBus
<1>4. MeterCommandOk(Head(commands), today)
  BY <1>3 DEF MeterInv, MeterBus
<1>5. MeterTells(x, Head(commands).said, today) /\ (x.type = "STATUS" \/ IsReply(x))
  BY <1>4, AnswerTells
<1>6. r.f = x /\ r.said = Head(commands).said
  OBVIOUS
<1> HIDE DEF x, r
<1>7. MeterReportOk(r, today)
  BY <1>5, <1>6 DEF MeterReportOk
<1>8. \A i \in DOMAIN commands' : MeterCommandOk(commands'[i], today)
  BY <1>3 DEF MeterInv, MeterBus, Shrinks
<1>9. \A i \in DOMAIN reports' : MeterReportOk(reports'[i], today)
  BY <1>3, <1>7 DEF MeterInv, MeterBus, Grows
<1>10. MeterBus'
  BY <1>1, <1>3, <1>8, <1>9 DEF MeterBus
<1>11. MeterPlant'
  BY <1>1 DEF MeterInv, MeterPlant
<1> QED
  BY <1>10, <1>11 DEF MeterInv


(* A breaker that trips says so. *)
FlagBit(b) == IF b THEN 1 ELSE 0
LEMMA FlagsMean ==
  ASSUME NEW on \in BOOLEAN, NEW bit, bit \in {0, 1}
  PROVE  /\ bit = FlagBit(on) => E!BreakerOfFlag(251, bit)["open"] = E!Yes(on)
         /\ bit = FlagBit(~on) => E!BreakerOfFlag(258, bit)["reset"] = E!Yes(on)
         /\ bit = FlagBit(~on) => E!BreakerOfFlag(259, bit)["tracking"] = E!Yes(on)
<1>1. E!BreakerOfFlag(251, bit) = OpenTold(E!Yes(bit = 1))
  BY DEF E!BreakerOfFlag, OpenTold
<1>2. E!BreakerOfFlag(258, bit) = ResetTold(E!Yes(bit # 1))
  BY DEF E!BreakerOfFlag, ResetTold
<1>3. E!BreakerOfFlag(259, bit) = TrackingTold(E!Yes(bit # 1))
  BY DEF E!BreakerOfFlag, TrackingTold
<1>4. bit = FlagBit(on) => E!Yes(bit = 1) = E!Yes(on)
  BY DEF E!Yes, FlagBit
<1>5. bit = FlagBit(~on) => E!Yes(bit # 1) = E!Yes(on)
  BY DEF E!Yes, FlagBit
<1> QED
  BY <1>1, <1>2, <1>3, <1>4, <1>5, ToldIs

LEMMA MeterTellsTrip ==
  ASSUME MeterInv, NEW dim \in {251, 258, 259}, NEW bit \in {0, 1}, NEW kind, BreakerKind(kind), NEW n,
         n = E!BreakerOfFlag(dim, bit)[kind],
         E!Tell(E!DimensionReply(18, 11, dim, <<bit>>), kind, n),
         UNCHANGED <<today, ticks>>, breaker' \in [{"open", "reset", "tracking"} -> BOOLEAN]
  PROVE  MeterInv'
<1> DEFINE f == E!DimensionReply(18, 11, dim, <<bit>>)
           s == E!Said(kind, n)
           r == [f |-> f, said |-> s]
<1>1. FrameIs(f, "DIMENSION_REQUEST_REPLY", E!Null, <<>>, 11, dim, <<bit>>)
  BY FrameParts DEF E!DimensionReply
<1>2. s.kind = kind /\ s.n = n
  BY SaidIs
<1>3. /\ Len(commands) + Len(reports) < MeterWire /\ commands' = commands
      /\ reports' = Append(reports, r)
  BY DEF E!Tell, E!Wire
<1>4. r.f = f /\ r.said = s
  OBVIOUS
<1> HIDE DEF f, s, r
<1>5. Trips(f, s) /\ IsReply(f)
  BY <1>1, <1>2 DEF FrameIs, Trips, IsReply
<1>6. MeterReportOk(r, today)
  BY <1>4, <1>5 DEF MeterReportOk, MeterTells
<1>7. BusOk(MeterWire)' /\ Grows(reports, r, reports')
  BY <1>3, BusTells DEF MeterInv, MeterBus
<1>8. \A i \in DOMAIN reports' : MeterReportOk(reports'[i], today)
  BY <1>6, <1>7 DEF MeterInv, MeterBus, Grows
<1>9. \A i \in DOMAIN commands' : MeterCommandOk(commands'[i], today)
  BY <1>3 DEF MeterInv, MeterBus
<1>10. MeterBus' /\ MeterPlant'
  BY <1>7, <1>8, <1>9 DEF MeterInv, MeterBus, MeterPlant
<1> QED
  BY <1>10 DEF MeterInv

LEMMA BreakerTrips ==
  ASSUME MeterInv, E!Trip
  PROVE  MeterInv'
<1>1. PICK field \in {"open", "reset", "tracking"}, on \in BOOLEAN :
        /\ breaker' = [breaker EXCEPT ![field] = on]
        /\ LET flag == CASE field = "open" -> 251 [] field = "reset" -> 258 [] OTHER -> 259
               bit == IF (field = "open") = on THEN 1 ELSE 0
           IN E!Tell(E!DimensionReply(18, 11, flag, <<bit>>), field, E!Yes(on))
        /\ UNCHANGED <<today, ticks>>
  BY DEF E!Trip
<1> DEFINE bit == IF (field = "open") = on THEN 1 ELSE 0
           B == [{"open", "reset", "tracking"} -> BOOLEAN]
<1>2. breaker' \in B
  <2>1. breaker \in B
    BY DEF MeterInv, MeterPlant
  <2> HIDE DEF bit
  <2> QED
    BY <1>1, <2>1
<1>3. bit \in {0, 1} /\ BreakerKind(field)
  BY DEF BreakerKind
<1>4. CASE field = "open"
  <2>1. E!Tell(E!DimensionReply(18, 11, 251, <<bit>>), field, E!Yes(on))
    BY <1>1, <1>4
  <2>2. bit = FlagBit(on)
    BY <1>4 DEF FlagBit
  <2> HIDE DEF bit
  <2>3. E!Yes(on) = E!BreakerOfFlag(251, bit)[field]
    BY <1>3, <1>4, <2>2, FlagsMean
  <2> QED
    BY <1>1, <1>2, <1>3, <2>1, <2>3, MeterTellsTrip
<1>5. CASE field = "reset"
  <2>1. E!Tell(E!DimensionReply(18, 11, 258, <<bit>>), field, E!Yes(on))
    BY <1>1, <1>5
  <2>2. bit = FlagBit(~on)
    BY <1>5 DEF FlagBit
  <2> HIDE DEF bit
  <2>3. E!Yes(on) = E!BreakerOfFlag(258, bit)[field]
    BY <1>3, <1>5, <2>2, FlagsMean
  <2> QED
    BY <1>1, <1>2, <1>3, <2>1, <2>3, MeterTellsTrip
<1>6. CASE field = "tracking"
  <2>1. E!Tell(E!DimensionReply(18, 11, 259, <<bit>>), field, E!Yes(on))
    BY <1>1, <1>6
  <2>2. bit = FlagBit(~on)
    BY <1>6 DEF FlagBit
  <2> HIDE DEF bit
  <2>3. E!Yes(on) = E!BreakerOfFlag(259, bit)[field]
    BY <1>3, <1>6, <2>2, FlagsMean
  <2> QED
    BY <1>1, <1>2, <1>3, <2>1, <2>3, MeterTellsTrip
<1> QED
  BY <1>4, <1>5, <1>6

LEMMA MidnightPasses ==
  ASSUME MeterInv, E!Midnight
  PROVE  MeterInv'
<1>1. /\ ticks < MaxTicks /\ ticks' = ticks + 1 /\ today' = E!Tomorrow(today)
      /\ UNCHANGED <<commands, reports, breaker>>
  BY DEF E!Midnight
<1>2. today \in Int /\ E!IsDate(today)
  BY DEF MeterInv, MeterPlant
<1>3. today' \in Int /\ today' > today /\ E!IsDate(today')
  BY <1>1, <1>2, TomorrowIs
<1>4. ASSUME NEW x PROVE /\ MeterCommandOk(x, today) => MeterCommandOk(x, today')
                         /\ MeterReportOk(x, today) => MeterReportOk(x, today')
  <2>1. today <= today'
    BY <1>2, <1>3
  <2> QED
    BY <1>2, <1>3, <2>1, MeterStillOk
<1>5. MeterBus'
  BY <1>1, <1>4 DEF MeterInv, MeterBus, BusOk
<1>6. ticks' \in 0 .. MaxTicks /\ ticks' \in Int
  BY <1>1, MeterConstants DEF MeterInv, MeterPlant
<1>7. E!IsDate(today)'
  BY <1>3 DEF E!IsDate
<1>8. MeterPlant'
  BY <1>1, <1>3, <1>6, <1>7 DEF MeterInv, MeterPlant
<1> QED
  BY <1>5, <1>8 DEF MeterInv

LEMMA MeterReads ==
  ASSUME MeterInv, E!Read
  PROVE  MeterInv'
<1>1. /\ reports # <<>> /\ reports' = Tail(reports) /\ commands' = commands
      /\ UNCHANGED <<today, ticks, breaker>>
  BY DEF E!Read, E!Take, E!own
<1>2. BusOk(MeterWire)' /\ Shrinks(reports, reports')
  BY <1>1, BusTakes DEF MeterInv, MeterBus
<1>3. \A i \in DOMAIN reports' : MeterReportOk(reports'[i], today)
  BY <1>2 DEF MeterInv, MeterBus, Shrinks
<1>4. MeterBus' /\ MeterPlant'
  BY <1>1, <1>2, <1>3 DEF MeterInv, MeterBus, MeterPlant
<1> QED
  BY <1>4 DEF MeterInv

LEMMA MeterStep ==
  ASSUME MeterInv, E!Next
  PROVE  MeterInv'
BY MeterCommands, HistoryCommands, BreakerCommands, MeterAnswers, BreakerTrips, MidnightPasses, MeterReads
   DEF E!Next

LEMMA BreakerIs ==
  ASSUME NEW a \in BOOLEAN, NEW b \in BOOLEAN, NEW c \in BOOLEAN
  PROVE  [open |-> a, reset |-> b, tracking |-> c] \in [{"open", "reset", "tracking"} -> BOOLEAN]
OBVIOUS

LEMMA MeterStarts ==
  ASSUME E!Init
  PROVE  MeterInv
<1>1. /\ commands = <<>> /\ reports = <<>> /\ today \in StartDays /\ ticks = 0
      /\ breaker = [open |-> FALSE, reset |-> TRUE, tracking |-> TRUE]
  BY DEF E!Init, E!BusInit
<1>2. MeterBus
  BY <1>1, MeterConstants, BusStarts DEF MeterBus
<1>3. breaker \in [{"open", "reset", "tracking"} -> BOOLEAN]
  <2>1. breaker = [open |-> FALSE, reset |-> TRUE, tracking |-> TRUE]
    BY <1>1
  <2>2. FALSE \in BOOLEAN /\ TRUE \in BOOLEAN
    OBVIOUS
  <2> QED
    BY <2>1, <2>2, BreakerIs, Zenon
<1>4. today \in Int /\ E!IsDate(today) /\ ticks \in 0 .. MaxTicks /\ ticks \in Int
  BY <1>1, MeterConstants
<1> QED
  BY <1>2, <1>3, <1>4 DEF MeterInv, MeterPlant


(* What an event is, dimension by dimension. *)
LEMMA ReadingParts ==
  ASSUME NEW kind, NEW n, NEW d
  PROVE  /\ E!Reading(kind, n).type = kind /\ E!Reading(kind, n).value = n
         /\ E!DatedReading(kind, n, d).type = kind /\ E!DatedReading(kind, n, d).date = d
<1>1. E!Reading(kind, n).type = kind /\ E!Reading(kind, n).value = n
  BY DEF E!Reading, E!NoReading
<1>2. E!DatedReading(kind, n, d).type = kind /\ E!DatedReading(kind, n, d).date = d
  BY DEF E!DatedReading, E!Reading, E!NoReading
<1> QED
  BY <1>1, <1>2

LEMMA EventIs ==
  ASSUME NEW f, E!Known(f)
  PROVE  /\ f.dim = 113 => E!EnergyEvent(f) = E!Reading("power", E!Value(f.val))
         /\ f.dim = 511 => E!EnergyEvent(f) = E!Sample(f.val, E!DayOfSample(f.wpar[1], f.wpar[2]))
         /\ f.dim \in {513, 514} => E!EnergyEvent(f) = E!DayOfTable(f.dim, f.wpar, f.val)
         /\ f.dim = 51 => E!EnergyEvent(f) = E!Reading("total", E!Value(f.val))
         /\ f.dim = 54 => E!EnergyEvent(f) = E!Reading("today", E!Value(f.val))
         /\ f.dim = 53 => E!EnergyEvent(f) = E!Reading("this_month", E!Value(f.val))
         /\ f.dim = 52 => E!EnergyEvent(f) = E!MonthOf(f.wpar, f.val)
         /\ f.dim = 1200 /\ f.val # <<>> => E!EnergyEvent(f) = E!Stream(f.wpar, f.val)
<1>0. ~(f.where \div 10 \notin {1, 5, 7})
  BY DEF E!Known
<1>1. ASSUME f.dim = 113 PROVE E!EnergyEvent(f) = E!Reading("power", E!Value(f.val))
  BY <1>0, <1>1 DEF E!EnergyEvent
<1>2. ASSUME f.dim = 511 PROVE E!EnergyEvent(f) = E!Sample(f.val, E!DayOfSample(f.wpar[1], f.wpar[2]))
  BY <1>0, <1>2 DEF E!EnergyEvent
<1>3. ASSUME f.dim \in {513, 514} PROVE E!EnergyEvent(f) = E!DayOfTable(f.dim, f.wpar, f.val)
  BY <1>0, <1>3 DEF E!EnergyEvent
<1>4. ASSUME f.dim = 51 PROVE E!EnergyEvent(f) = E!Reading("total", E!Value(f.val))
  BY <1>0, <1>4 DEF E!EnergyEvent
<1>5. ASSUME f.dim = 54 PROVE E!EnergyEvent(f) = E!Reading("today", E!Value(f.val))
  BY <1>0, <1>5 DEF E!EnergyEvent
<1>6. ASSUME f.dim = 53 PROVE E!EnergyEvent(f) = E!Reading("this_month", E!Value(f.val))
  BY <1>0, <1>6 DEF E!EnergyEvent
<1>7. ASSUME f.dim = 52 PROVE E!EnergyEvent(f) = E!MonthOf(f.wpar, f.val)
  BY <1>0, <1>7 DEF E!EnergyEvent
<1>8. ASSUME f.dim = 1200, f.val # <<>> PROVE E!EnergyEvent(f) = E!Stream(f.wpar, f.val)
  BY <1>0, <1>8 DEF E!EnergyEvent
<1> QED
  BY <1>1, <1>2, <1>3, <1>4, <1>5, <1>6, <1>7, <1>8

LEMMA ValueIs ==
  ASSUME NEW n \in Nat, NEW v, v = <<n>>
  PROVE  E!Value(v) = n
BY DEF E!Value, E!Null

LEMMA Pairs ==
  ASSUME NEW a, NEW b
  PROVE  /\ Len(<<a, b>>) = 2 /\ <<a, b>>[1] = a /\ <<a, b>>[2] = b
         /\ Len(<<a>>) = 1 /\ <<a>>[1] = a
OBVIOUS

(* What is not a breaker's is the kind it says. *)
LEMMA MeterFrames ==
  ASSUME NEW f, f.what = E!Null, NEW dim, f.dim = dim,
         dim \in {113, 511, 513, 514, 51, 52, 53, 54, 1200}
  PROVE  ~E!IsStopAndGo(f)
BY DEF E!IsStopAndGo, E!Null

(* What SamplesAreDated says of the event e, when date was asked for. *)
SampleSays(e, date, hour) ==
  LET m == E!Month(date)
      d == E!Day(date)
  IN \/ /\ E!Month(e.date) = m /\ E!Day(e.date) = d
        /\ e.date <= today /\ E!Date(E!Year(e.date) + 1, m, d) > today
        /\ date \in E!YearsAgo(today, 1) + 1 .. today => e.date = date
        /\ IF hour = 25 THEN e.type = "daily" ELSE e.hour \in 0 .. 23
     \/ /\ e = E!NoReading /\ m = 2 /\ d = 29
        /\ ~E!IsLeap(E!Year(today)) \/ E!Date(E!Year(today), 2, 29) > today

LEMMA SampleIsDated ==
  ASSUME MeterPlant, NEW f, NEW said, Samples(f, said, today), NEW h \in {1, 24, 25}, f.val = <<h, 7>>,
         E!Known(f), NEW e, e = E!EnergyEvent(f)
  PROVE  SampleSays(e, said.n.date, f.val[1])
<1> DEFINE date == said.n.date
           m == E!Month(date)
           d == E!Day(date)
           s == E!DayOfSample(m, d)
           v == f.val
<1>1. /\ date \in Int /\ E!IsDate(date) /\ today \in Int /\ E!IsDate(today)
  BY DEF Samples, DatedOk, MeterPlant
<1>2. \/ SampleDay(s, m, d) /\ (date \in E!YearsAgo(today, 1) + 1 .. today => s = date)
      \/ s = E!Null /\ NotThisYear(m, d)
  BY <1>1, SampleIsOf
<1>3. f.wpar[1] = m /\ f.wpar[2] = d /\ f.dim = 511
  BY Pairs DEF Samples
<1>4. e = E!Sample(v, s)
  BY <1>3, EventIs
<1>5. Len(v) = 2 /\ v[1] = h /\ v[2] = 7
  BY Pairs
<1> HIDE DEF date, s, v
<1>6. ASSUME SampleDay(s, m, d) PROVE e.date = s /\ (IF h = 25 THEN e.type = "daily" ELSE e.hour \in 0 .. 23)
  <2>0. s # E!Null
    BY <1>6 DEF SampleDay
  <2>1. CASE h = 25
    <3>1. e = E!DatedReading("daily", v[2], s)
      BY <1>4, <1>5, <2>0, <2>1 DEF E!Sample
    <3> QED
      BY <2>1, <3>1, ReadingParts
  <2>2. CASE h # 25
    <3> DEFINE a == E!DatedReading("hourly", v[2], s)
    <3>1. e = [a EXCEPT !.hour = v[1] - 1]
      BY <1>4, <1>5, <2>0, <2>2 DEF E!Sample
    <3>2. a.date = s /\ DOMAIN a = {"type", "value", "date", "hour", "interval", "energy", "streaming"}
      BY ReadingParts DEF E!DatedReading, E!Reading, E!NoReading
    <3> HIDE DEF a
    <3>3. e.date = a.date /\ e.hour = v[1] - 1
      BY <3>1, <3>2
    <3>4. e.hour \in 0 .. 23
      BY <1>5, <2>2, <3>3
    <3> QED
      BY <2>2, <3>2, <3>3, <3>4
  <2> QED
    BY <2>1, <2>2
<1>7. CASE SampleDay(s, m, d) /\ (date \in E!YearsAgo(today, 1) + 1 .. today => s = date)
  <2>1. e.date = s /\ (IF v[1] = 25 THEN e.type = "daily" ELSE e.hour \in 0 .. 23)
    BY <1>5, <1>6, <1>7
  <2>2. /\ E!Month(s) = m /\ E!Day(s) = d /\ s <= today /\ E!Date(E!Year(s) + 1, m, d) > today
    BY <1>7 DEF SampleDay
  <2>3. SampleSays(e, date, v[1])
    BY <1>7, <2>1, <2>2 DEF SampleSays
  <2> QED
    BY <2>3 DEF date, v
<1>8. CASE s = E!Null /\ NotThisYear(m, d)
  <2>1. e = E!NoReading
    BY <1>4, <1>8 DEF E!Sample
  <2>2. SampleSays(e, date, v[1])
    BY <1>8, <2>1 DEF SampleSays, NotThisYear
  <2> QED
    BY <2>2 DEF date, v
<1> QED
  BY <1>2, <1>7, <1>8

(* What TablesAreDated says of the event e. *)
TableSays(e, n) ==
  LET m == E!Month(n.date)
      date == n.date + (E!LastFirst(m, today) - E!LastFirst(m, n.on))
  IN IF E!IsDate(date) THEN e.date = date ELSE e = E!NoReading

LEMMA TableIsDated ==
  ASSUME MeterPlant, NEW f, NEW said, Tables(f, said, today), f.val = <<E!Day(said.n.date), 7>>,
         E!Known(f), NEW e, e = E!EnergyEvent(f)
  PROVE  TableSays(e, said.n)
<1> DEFINE date == said.n.date
           on == said.n.on
           m == E!Month(date)
           d == E!Day(date)
           v == f.val
           p == f.wpar
           t == First(date)
           want == date + (E!LastFirst(m, today) - E!LastFirst(m, on))
           day == E!DayOfMonth(f.dim, m, d)
<1>1. /\ date \in Int /\ E!IsDate(date) /\ on \in Int /\ E!IsDate(on)
      /\ today \in Int /\ E!IsDate(today)
  BY DEF Tables, OfTables, DatedOk, MeterPlant
<1>2. /\ f.dim \in {513, 514} /\ t = E!Date(E!Year(date), m, 1) /\ t <= on /\ t > E!YearsAgo(on, 2)
      /\ f.dim = IF t > E!YearsAgo(on, 1) THEN 513 ELSE 514
  BY DEF Tables, OfTables, LastYears, First
<1>3. /\ \E z \in Int : want = E!Date(z, m, d)
      /\ day = IF E!IsDate(want) THEN want ELSE E!Null
  <2> HIDE DEF t, want
  <2>1. want = date + (E!LastFirst(m, today) - E!LastFirst(m, on))
    BY DEF want
  <2> QED
    BY <1>1, <1>2, <2>1, TableIsOf
<1>4. p[1] = m
  BY Pairs DEF Tables, OfTables
<1>5. Len(v) = 2 /\ v[1] = d
  BY Pairs
<1>6. E!IsDate(want) => want # E!Null
  <2> SUFFICES ASSUME E!IsDate(want) PROVE want # E!Null
    OBVIOUS
  <2>1. m \in 1 .. 12 /\ d \in 0 .. 99
    BY <1>1, DayParts DEF IsDay
  <2> HIDE DEF want, m, d
  <2>2. PICK z \in Int : want = E!Date(z, m, d)
    BY <1>3
  <2>3. want \in Int
    BY <2>1, <2>2 DEF E!Date
  <2>4. IsDay(want, E!Year(want), E!Month(want), E!Day(want))
    BY <2>3, DayParts
  <2> QED
    BY <2>4 DEF IsDay, E!Date, E!Null
<1>7. e = E!DayOfTable(f.dim, p, v)
  BY <1>2, EventIs
<1>9. TableSays(e, said.n) = IF E!IsDate(want) THEN e.date = want ELSE e = E!NoReading
  BY DEF TableSays
<1> HIDE DEF date, on, m, d, v, p, t, want
<1>8. e = IF day = E!Null THEN E!NoReading ELSE E!DatedReading("daily", v[2], day)
  BY <1>4, <1>5, <1>7 DEF E!DayOfTable
<1> HIDE DEF day
<1>10. CASE E!IsDate(want)
  <2>1. e = E!DatedReading("daily", v[2], want)
    BY <1>3, <1>6, <1>8, <1>10
  <2>2. e.date = want
    BY <2>1, ReadingParts
  <2> QED
    BY <1>9, <1>10, <2>2
<1>11. CASE ~E!IsDate(want)
  <2>1. e = E!NoReading
    BY <1>3, <1>8, <1>11
  <2> QED
    BY <1>9, <1>11, <2>1
<1> QED
  BY <1>10, <1>11


(* What ReadingsAreTrue says of one report. *)
TrueOfBreaker(f, said) ==
  said.kind \in {"open", "reset", "tracking", "test", "days"} => E!StopAndGoEvent(f)[said.kind] = said.n
TrueOfMeter(f, said) ==
  LET e == E!EnergyEvent(f)
  IN CASE said.kind = "month" -> e.type = "monthly" /\ e.date = said.n.date
       [] said.kind \in {"power", "total", "today", "this_month"} ->
            e.type = said.kind /\ e.value = said.n
       [] said.kind = "stream" -> /\ e.interval = said.n[1] /\ e.energy = said.n[2]
                                  /\ e.streaming = (said.n[1] > 0)
       [] OTHER -> TRUE
ReadingTrue(f, said) == IF E!IsStopAndGo(f) THEN TrueOfBreaker(f, said) ELSE E!Known(f) => TrueOfMeter(f, said)

LEMMA ReadingIsTrue ==
  ASSUME NEW f, NEW said, Readings(f, said), f.val = <<said.n>>
  PROVE  ReadingTrue(f, said)
<1> DEFINE kind == said.kind
           n == said.n
<1>1. ReadingDim(kind, f.dim) /\ n \in Nat /\ f.what = E!Null
  BY DEF Readings
<1>2. E!Value(f.val) = n
  BY <1>1, ValueIs
<1>3. f.dim \in {113, 51, 54, 53} /\ kind \in {"power", "total", "today", "this_month"}
  BY <1>1 DEF ReadingDim
<1>4. ~E!IsStopAndGo(f)
  BY <1>1, <1>3, MeterFrames
<1>5. ASSUME E!Known(f) PROVE E!EnergyEvent(f) = E!Reading(kind, n)
  BY <1>1, <1>2, <1>5, EventIs DEF ReadingDim
<1>6. E!Reading(kind, n).type = kind /\ E!Reading(kind, n).value = n
  BY ReadingParts
<1>7. ASSUME E!Known(f) PROVE TrueOfMeter(f, said)
  <2> DEFINE e == E!EnergyEvent(f)
  <2>1. e.type = kind /\ e.value = n
    BY <1>5, <1>6, <1>7
  <2> HIDE DEF e
  <2>2. said.kind # "month" /\ said.kind \in {"power", "total", "today", "this_month"}
    BY <1>3
  <2> QED
    BY <2>1, <2>2 DEF TrueOfMeter, e
<1> QED
  BY <1>4, <1>7 DEF ReadingTrue

LEMMA StreamIsTrue ==
  ASSUME NEW f, NEW said, Streams(f, said)
  PROVE  ReadingTrue(f, said) /\ f.val[1] \in 0 .. 255 /\ f.wpar[1] \in 1 .. 4
<1>1. PICK n \in Bytes, t \in Channels : f.val = <<n>> /\ f.wpar = <<t>> /\ said.n = <<n, t>>
  BY DEF Streams
<1>2. said.kind = "stream" /\ f.what = E!Null /\ f.dim = 1200
  BY DEF Streams
<1>3. n \in 0 .. 255 /\ n \in Nat /\ t \in 1 .. 4
  BY DEF Bytes, Channels
<1>4. f.val[1] = n /\ f.wpar[1] = t /\ said.n[1] = n /\ said.n[2] = t /\ Len(f.val) = 1 /\ Len(f.wpar) = 1
  BY <1>1, Pairs
<1>5. E!Value(f.val) = n
  BY <1>1, <1>3, ValueIs
<1>6. Len(<<>>) = 0
  OBVIOUS
<1>7. f.val # <<>> /\ f.wpar # <<>>
  BY <1>4, <1>6
<1>8. ~E!IsStopAndGo(f)
  BY <1>2, MeterFrames
<1>9. ASSUME E!Known(f) PROVE TrueOfMeter(f, said)
  <2> DEFINE e == E!EnergyEvent(f)
             k == IF E!Value(f.val) > 0 THEN E!Value(f.val) ELSE 0
             on == k > 0
             x == IF f.wpar = <<>> THEN E!Null ELSE f.wpar[1]
             a == E!Reading("stream", 0)
  <2>1. e = E!Stream(f.wpar, f.val)
    BY <1>2, <1>7, <1>9, EventIs
  <2>2. k = n /\ x = t
    BY <1>3, <1>4, <1>5, <1>7
  <2>3. e = [a EXCEPT !.interval = k, !.streaming = on, !.energy = x]
    BY <2>1 DEF E!Stream
  <2>4. DOMAIN a = {"type", "value", "date", "hour", "interval", "energy", "streaming"}
    BY DEF E!Reading, E!NoReading
  <2>5. on = (n > 0)
    BY <2>2
  <2> HIDE DEF a, k, x, e, on
  <2>6. e.interval = k /\ e.energy = x /\ e.streaming = on
    BY <2>3, <2>4
  <2>7. e.interval = said.n[1] /\ e.energy = said.n[2] /\ e.streaming = (said.n[1] > 0)
    BY <1>4, <2>2, <2>5, <2>6
  <2>8. TrueOfMeter(f, said) = (/\ E!EnergyEvent(f).interval = said.n[1] /\ E!EnergyEvent(f).energy = said.n[2]
                                /\ E!EnergyEvent(f).streaming = (said.n[1] > 0))
    BY <1>2 DEF TrueOfMeter
  <2> QED
    BY <2>7, <2>8 DEF e
<1> QED
  BY <1>3, <1>4, <1>8, <1>9 DEF ReadingTrue

LEMMA DatedMonthIsTrue ==
  ASSUME NEW f, NEW said, Months(f, said), NEW y \in Century, NEW m \in MonthNumbers,
         IsMonth(f.wpar, said.n.date, y, m)
  PROVE  ReadingTrue(f, said)
<1>1. f.wpar = <<y % 100, m>> /\ said.n.date = E!Date(y, m, 1)
  BY DEF IsMonth
<1>2. said.kind = "month" /\ f.what = E!Null /\ f.dim = 52
  BY DEF Months
<1>3. y \in Int /\ m \in 1 .. 12 /\ 2000 + (y % 100) = y
  BY DEF Century, MonthNumbers
<1>4. f.wpar[1] = y % 100 /\ f.wpar[2] = m /\ Len(f.wpar) = 2
  BY <1>1, Pairs
<1>5. E!IsDate(E!Date(y, m, 1))
  <2>1. E!LastDay(y, m) \in 28 .. 31
    BY MonthsLast
  <2>2. 1 \in 1 .. E!LastDay(y, m) /\ 1 \in 0 .. 99
    BY <2>1
  <2> QED
    BY <1>3, <2>2, ADate, SMTT(30)
<1>6. ~E!IsStopAndGo(f)
  BY <1>2, MeterFrames
<1>7. ASSUME E!Known(f) PROVE TrueOfMeter(f, said)
  <2> DEFINE e == E!EnergyEvent(f)
             p == f.wpar
             date == E!Date(y, m, 1)
  <2>1. e = E!MonthOf(p, f.val)
    BY <1>2, <1>7, EventIs
  <2>2. Len(<<>>) = 0
    OBVIOUS
  <2>3. E!Date(2000 + p[1], p[2], 1) = date
    BY <1>3, <1>4
  <2>4. p # <<>> /\ E!IsDate(E!Date(2000 + p[1], p[2], 1))
    BY <1>4, <1>5, <2>2, <2>3
  <2> HIDE DEF p, date
  <2>5. E!MonthOf(p, f.val) = E!DatedReading("monthly", E!Value(f.val), date)
    BY <2>3, <2>4 DEF E!MonthOf
  <2>6. e.type = "monthly" /\ e.date = date
    BY <2>1, <2>5, ReadingParts
  <2>7. said.n.date = date
    BY <1>1 DEF date
  <2>8. TrueOfMeter(f, said) = (E!EnergyEvent(f).type = "monthly" /\ E!EnergyEvent(f).date = said.n.date)
    BY <1>2 DEF TrueOfMeter
  <2> QED
    BY <2>6, <2>7, <2>8
<1> QED
  BY <1>6, <1>7 DEF ReadingTrue

LEMMA MonthIsTrue ==
  ASSUME NEW f, NEW said, Months(f, said)
  PROVE  ReadingTrue(f, said)
<1>1. CASE \E y \in Century, m \in MonthNumbers : IsMonth(f.wpar, said.n.date, y, m)
  BY <1>1, DatedMonthIsTrue
<1>2. CASE f.wpar = <<>> /\ said.n.date = E!Null
  <2>1. said.kind = "month" /\ f.what = E!Null /\ f.dim = 52
    BY DEF Months
  <2>2. ~E!IsStopAndGo(f)
    BY <2>1, MeterFrames
  <2>3. ASSUME E!Known(f) PROVE TrueOfMeter(f, said)
    <3> DEFINE e == E!EnergyEvent(f)
    <3>1. e = E!MonthOf(f.wpar, f.val)
      BY <2>1, <2>3, EventIs
    <3>2. E!MonthOf(f.wpar, f.val) = E!Reading("monthly", 0)
      BY <1>2 DEF E!MonthOf
    <3>3. e = E!Reading("monthly", 0)
      BY <3>1, <3>2
    <3>4. e.type = "monthly" /\ e.date = E!Null
      BY <3>3 DEF E!Reading, E!NoReading
    <3>5. TrueOfMeter(f, said) = (E!EnergyEvent(f).type = "monthly" /\ E!EnergyEvent(f).date = said.n.date)
      BY <2>1 DEF TrueOfMeter
    <3> QED
      BY <1>2, <3>4, <3>5
  <2> QED
    BY <2>2, <2>3 DEF ReadingTrue
<1> QED
  BY <1>1, <1>2 DEF Months

LEMMA OtherIsTrue ==
  ASSUME NEW f, NEW said, said.kind \in {"day", "table"}, f.what = E!Null, f.dim \in {511, 513, 514}
  PROVE  ReadingTrue(f, said)
<1>1. ~E!IsStopAndGo(f)
  BY MeterFrames
<1>2. TrueOfMeter(f, said)
  BY DEF TrueOfMeter
<1> QED
  BY <1>1, <1>2 DEF ReadingTrue

LEMMA SwitchIsTrue ==
  ASSUME NEW f, NEW said, Switches(f, said)
  PROVE  ReadingTrue(f, said)
<1>1. E!IsStopAndGo(f)
  BY DEF Switches, E!IsStopAndGo
<1>2. E!StopAndGoEvent(f) = E!BreakerOfWhat(f.what)
  BY DEF Switches, E!StopAndGoEvent
<1>3. TrueOfBreaker(f, said)
  BY <1>2 DEF Switches, TrueOfBreaker
<1> QED
  BY <1>1, <1>3 DEF ReadingTrue

LEMMA DayCountIsTrue ==
  ASSUME NEW f, NEW said, DayCounts(f, said), f.val = <<said.n>>, f.type # "STATUS"
  PROVE  ReadingTrue(f, said)
<1>1. E!IsStopAndGo(f)
  BY DEF DayCounts, E!IsStopAndGo
<1>2. Len(<<>>) = 0 /\ Len(f.val) = 1
  BY Pairs
<1>3. f.val # <<>> /\ f.dim = 212
  BY <1>2 DEF DayCounts
<1>4. E!StopAndGoEvent(f) = [E!Nothing EXCEPT !.days = E!Value(f.val)]
  BY <1>3 DEF E!StopAndGoEvent
<1>5. E!Value(f.val) = said.n
  BY ValueIs DEF DayCounts
<1>6. \A v : [E!Nothing EXCEPT !.days = v].days = v
  BY DEF E!Nothing, E!Told
<1>7. E!StopAndGoEvent(f).days = said.n
  BY <1>4, <1>5, <1>6
<1>8. TrueOfBreaker(f, said)
  BY <1>7 DEF DayCounts, TrueOfBreaker
<1> QED
  BY <1>1, <1>8 DEF ReadingTrue

LEMMA FlagIsTrue ==
  ASSUME NEW f, NEW said, Flags(f, said)
  PROVE  ReadingTrue(f, said)
<1>1. E!IsStopAndGo(f)
  BY DEF Flags, E!IsStopAndGo
<1>2. TrueOfBreaker(f, said)
  BY DEF Flags, TrueOfBreaker
<1> QED
  BY <1>1, <1>2 DEF ReadingTrue

LEMMA TripIsTrue ==
  ASSUME NEW f, NEW said, Trips(f, said), IsReply(f)
  PROVE  ReadingTrue(f, said)
<1>1. E!IsStopAndGo(f)
  BY DEF Trips, E!IsStopAndGo
<1>2. PICK bit \in {0, 1} : f.val = <<bit>> /\ E!BreakerOfFlag(f.dim, bit)[said.kind] = said.n
  BY DEF Trips
<1>3. Len(<<>>) = 0 /\ Len(f.val) = 1 /\ E!Value(f.val) = bit
  BY <1>2, Pairs, ValueIs
<1>4. f.val # <<>> /\ f.dim # 212 /\ f.type # "STATUS"
  BY <1>3 DEF Trips, IsReply
<1>5. E!StopAndGoEvent(f) = E!BreakerOfFlag(f.dim, bit)
  BY <1>3, <1>4 DEF E!StopAndGoEvent
<1>6. TrueOfBreaker(f, said)
  BY <1>2, <1>5 DEF Trips, BreakerKind, TrueOfBreaker
<1> QED
  BY <1>1, <1>6 DEF ReadingTrue

(* What is left to say of a report once it is known of which kind it is. *)
ReportSays(f, said, day) ==
  /\ ReadingTrue(f, said)
  /\ f.dim = 1200 => f.val[1] \in 0 .. 255 /\ f.wpar[1] \in 1 .. 4
  /\ said.kind = "day" => Samples(f, said, day) /\ \E h \in {1, 24, 25} : f.val = <<h, 7>>
  /\ said.kind = "table" => Tables(f, said, day) /\ f.val = <<E!Day(said.n.date), 7>>

LEMMA MeterReportSays ==
  ASSUME MeterPlant, NEW r, MeterReportOk(r, today), NEW f, NEW said, f = r.f, said = r.said
  PROVE  ReportSays(f, said, today)
<1>0. MeterTells(f, said, today) /\ (f.type = "STATUS" \/ IsReply(f))
  BY DEF MeterReportOk
<1>1. CASE Readings(f, said) /\ f.val = <<said.n>>
  <2>1. said.kind # "day" /\ said.kind # "table" /\ f.dim # 1200
    BY <1>1 DEF Readings, ReadingDim
  <2>2. ReadingTrue(f, said)
    BY <1>1, ReadingIsTrue
  <2> QED
    BY <2>1, <2>2 DEF ReportSays
<1>2. CASE Streams(f, said)
  <2>1. said.kind # "day" /\ said.kind # "table"
    BY <1>2 DEF Streams
  <2> QED
    BY <1>2, <2>1, StreamIsTrue DEF ReportSays
<1>3. CASE Samples(f, said, today) /\ \E h \in {1, 24, 25} : f.val = <<h, 7>>
  <2>1. said.kind = "day" /\ f.what = E!Null /\ f.dim = 511
    BY <1>3 DEF Samples
  <2> QED
    BY <1>3, <2>1, OtherIsTrue DEF ReportSays
<1>4. CASE Tables(f, said, today) /\ f.val = <<E!Day(said.n.date), 7>>
  <2>1. said.kind = "table" /\ f.what = E!Null /\ f.dim \in {513, 514}
    BY <1>4 DEF Tables, OfTables
  <2> QED
    BY <1>4, <2>1, OtherIsTrue DEF ReportSays
<1>5. CASE Months(f, said)
  <2>1. said.kind = "month" /\ f.dim = 52
    BY <1>5 DEF Months
  <2> QED
    BY <1>5, <2>1, MonthIsTrue DEF ReportSays
<1>6. CASE Switches(f, said)
  BY <1>6, SwitchIsTrue DEF ReportSays, Switches, BreakerKind, E!Null
<1>7. CASE DayCounts(f, said) /\ f.val = <<said.n>> /\ IsReply(f)
  <2>1. said.kind = "days" /\ f.dim # 1200 /\ f.type # "STATUS"
    BY <1>7 DEF DayCounts, IsReply
  <2> QED
    BY <1>7, <2>1, DayCountIsTrue DEF ReportSays
<1>8. CASE Flags(f, said)
  <2>1. said.kind = "flag" /\ f.dim # 1200
    BY <1>8 DEF Flags
  <2> QED
    BY <1>8, <2>1, FlagIsTrue DEF ReportSays
<1>9. CASE Trips(f, said) /\ IsReply(f)
  <2>1. said.kind # "day" /\ said.kind # "table" /\ f.dim # 1200
    BY <1>9 DEF Trips, BreakerKind
  <2> QED
    BY <1>9, <2>1, TripIsTrue DEF ReportSays
<1> QED
  BY <1>0, <1>1, <1>2, <1>3, <1>4, <1>5, <1>6, <1>7, <1>8, <1>9 DEF MeterTells


LEMMA MeterSays ==
  ASSUME MeterInv
  PROVE  E!TypeOK /\ E!SamplesAreDated /\ E!TablesAreDated /\ E!ReadingsAreTrue
<1>1. ASSUME NEW i \in DOMAIN reports, NEW r, r = reports[i], NEW f, NEW said, f = r.f, said = r.said
      PROVE  ReportSays(f, said, today)
  <2>1. MeterReportOk(r, today) /\ MeterPlant
    BY <1>1 DEF MeterInv, MeterBus
  <2> QED
    BY <1>1, <2>1, MeterReportSays
<1>2. MeterPlant
  BY DEF MeterInv
<1>3. E!TypeOK
  <2>1. \A i \in DOMAIN reports : reports[i].f.dim = 1200 =>
          reports[i].f.val[1] \in 0 .. 255 /\ reports[i].f.wpar[1] \in 1 .. 4
    BY <1>1 DEF ReportSays
  <2>2. E!Wire <= MeterWire
    BY DEF MeterInv, MeterBus, BusOk, E!Wire
  <2> QED
    BY <2>1, <2>2 DEF MeterInv, MeterPlant, E!TypeOK, E!Reported
<1>4. E!SamplesAreDated
  <2>1. ASSUME NEW i \in DOMAIN reports, NEW f, NEW said, f = reports[i].f, said = reports[i].said,
               said.kind = "day", E!Known(f)
        PROVE  SampleSays(E!EnergyEvent(f), said.n.date, f.val[1])
    <3>1. ReportSays(f, said, today)
      BY <1>1, <2>1
    <3>2. Samples(f, said, today) /\ \E h \in {1, 24, 25} : f.val = <<h, 7>>
      BY <2>1, <3>1 DEF ReportSays
    <3> QED
      BY <1>2, <2>1, <3>2, SampleIsDated
  <2> QED
    BY <2>1 DEF SampleSays, E!SamplesAreDated, E!Reported
<1>5. E!TablesAreDated
  <2>1. ASSUME NEW i \in DOMAIN reports, NEW f, NEW said, f = reports[i].f, said = reports[i].said,
               said.kind = "table", E!Known(f)
        PROVE  TableSays(E!EnergyEvent(f), said.n)
    <3>1. ReportSays(f, said, today)
      BY <1>1, <2>1
    <3>2. Tables(f, said, today) /\ f.val = <<E!Day(said.n.date), 7>>
      BY <2>1, <3>1 DEF ReportSays
    <3> QED
      BY <1>2, <2>1, <3>2, TableIsDated
  <2> QED
    BY <2>1 DEF TableSays, E!TablesAreDated, E!Reported
<1>6. E!ReadingsAreTrue
  <2>1. \A i \in DOMAIN reports : ReadingTrue(reports[i].f, reports[i].said)
    BY <1>1 DEF ReportSays
  <2> QED
    BY <2>1 DEF ReadingTrue, TrueOfBreaker, TrueOfMeter, E!ReadingsAreTrue, E!Reported
<1> QED
  BY <1>3, <1>4, <1>5, <1>6


(******************************* DoorEntry *******************************)

(* The frame f, in parts. *)
DoorFrame(f, ty, who, what, wpar, where) ==
  f.type = ty /\ f.who = who /\ f.what = what /\ f.wpar = wpar /\ f.where = where

LEMMA DoorStatus ==
  ASSUME NEW who, NEW what, NEW p, NEW w, NEW f, f = D!Status(who, what, p, w)
  PROVE  DoorFrame(f, "STATUS", who, what, p, w) /\ f # D!Refuse
BY DEF D!Status, D!Frame, D!Refuse, DoorFrame

(* What the parts of an event tell of other WHATs: nothing. *)
LEMMA NoActuator ==
  ASSUME NEW f, f.what \notin {19, 20, 21, 22, 63, 64}
  PROVE  D!Actuators(f) = {}
BY DEF D!Actuators, D!If

LEMMA NoCamera ==
  ASSUME NEW f, f.what \in Int, f.what \notin {4, 6, 59, 60, 61, 62}
  PROVE  D!Cameras(f) = {}
BY DEF D!Cameras, D!If

LEMMA NoSession ==
  ASSUME NEW f, f.what \notin {2, 3, 9, 40}
  PROVE  D!Sessions(f) = {}
BY DEF D!Sessions, D!If

LEMMA NoMode ==
  ASSUME NEW f, f.what \in Int, f.what \notin {37, 76, 77, 78, 79}
  PROVE  D!Modes(f) = {}
BY DEF D!Modes, D!If

(* What an event tells, if it is one thing. *)
TellsOf(f, what, detail) == D!Event(f) = {<<what, detail, f.where>>}

LEMMA ActuatorTells ==
  ASSUME NEW f, f.who = 8
  PROVE  /\ f.what = 19 => TellsOf(f, "lock", "open")
         /\ f.what = 20 => TellsOf(f, "lock", "locked")
         /\ f.what = 21 => TellsOf(f, "light", "on")
         /\ f.what = 22 => TellsOf(f, "light", "off")
         /\ f.what = 63 => TellsOf(f, "mute", TRUE)
         /\ f.what = 64 => TellsOf(f, "mute", FALSE)
<1>1. f.what \in {19, 20, 21, 22, 63, 64} => D!Event(f) = D!Actuators(f)
  BY NoCamera, NoSession, NoMode DEF D!Event, D!IntercomEvent
<1>2. f.what = 19 => D!Actuators(f) = {<<"lock", "open", f.where>>}
  BY DEF D!Actuators, D!If
<1>3. f.what = 20 => D!Actuators(f) = {<<"lock", "locked", f.where>>}
  BY DEF D!Actuators, D!If
<1>4. f.what = 21 => D!Actuators(f) = {<<"light", "on", f.where>>}
  BY DEF D!Actuators, D!If
<1>5. f.what = 22 => D!Actuators(f) = {<<"light", "off", f.where>>}
  BY DEF D!Actuators, D!If
<1>6. f.what = 63 => D!Actuators(f) = {<<"mute", TRUE, f.where>>}
  BY DEF D!Actuators, D!If
<1>7. f.what = 64 => D!Actuators(f) = {<<"mute", FALSE, f.where>>}
  BY DEF D!Actuators, D!If
<1> QED
  BY <1>1, <1>2, <1>3, <1>4, <1>5, <1>6, <1>7 DEF TellsOf

LEMMA WayIs ==
  /\ D!Way(59) = "up" /\ D!Way(60) = "down" /\ D!Way(61) = "left" /\ D!Way(62) = "right"
  /\ DOMAIN D!Directions = {"up", "down", "left", "right"}
  /\ D!Directions["up"] = 59 /\ D!Directions["down"] = 60
  /\ D!Directions["left"] = 61 /\ D!Directions["right"] = 62
BY DEF D!Way, D!Directions

LEMMA CameraTells ==
  ASSUME NEW f, f.who = 8, NEW p, p = D!Param(f, 1)
  PROVE  /\ f.what = 4 => TellsOf(f, "switch", p)
         /\ f.what = 6 => TellsOf(f, "cycle", p)
         /\ f.what \in 59 .. 62 /\ p \in {1, D!Null} => TellsOf(f, "move", <<D!Way(f.what), "press">>)
         /\ f.what \in 59 .. 62 /\ p = 2 => TellsOf(f, "move", <<D!Way(f.what), "release">>)
<1>1. f.what \in {4, 6} \cup 59 .. 62 => D!Event(f) = D!Cameras(f)
  BY NoActuator, NoSession, NoMode DEF D!Event, D!IntercomEvent
<1>2. f.what = 4 => D!Cameras(f) = {<<"switch", p, f.where>>}
  BY DEF D!Cameras, D!If
<1>3. f.what = 6 => D!Cameras(f) = {<<"cycle", p, f.where>>}
  BY DEF D!Cameras, D!If
<1>4. f.what \in 59 .. 62 /\ p \in {1, D!Null} => D!Cameras(f) = {<<"move", <<D!Way(f.what), "press">>, f.where>>}
  BY DEF D!Cameras, D!If
<1>5. f.what \in 59 .. 62 /\ p = 2 => D!Cameras(f) = {<<"move", <<D!Way(f.what), "release">>, f.where>>}
  BY DEF D!Cameras, D!If, D!Null
<1> QED
  BY <1>1, <1>2, <1>3, <1>4, <1>5 DEF TellsOf

LEMMA SessionTells ==
  ASSUME NEW f, f.who = 8
  PROVE  /\ f.what = 2 => TellsOf(f, "answer", <<D!Kind(f), D!Type(f)>>)
         /\ f.what = 3 /\ D!Type(f) = 3 => TellsOf(f, "stop_video", D!Kind(f))
         /\ f.what = 3 /\ D!Type(f) # 3 => TellsOf(f, "end", D!Kind(f))
         /\ f.what = 9 => TellsOf(f, "caller", <<D!Kind(f), D!Type(f)>>)
         /\ f.what = 40 => TellsOf(f, "rearm", D!Null)
<1>1. f.what \in {2, 3, 9, 40} => D!Event(f) = D!Sessions(f)
  BY NoActuator, NoCamera, NoMode DEF D!Event, D!IntercomEvent
<1>2. f.what = 2 => D!Sessions(f) = {<<"answer", <<D!Kind(f), D!Type(f)>>, f.where>>}
  BY DEF D!Sessions, D!If
<1>3. f.what = 3 /\ D!Type(f) = 3 => D!Sessions(f) = {<<"stop_video", D!Kind(f), f.where>>}
  BY DEF D!Sessions, D!If
<1>4. f.what = 3 /\ D!Type(f) # 3 => D!Sessions(f) = {<<"end", D!Kind(f), f.where>>}
  BY DEF D!Sessions, D!If
<1>5. f.what = 9 => D!Sessions(f) = {<<"caller", <<D!Kind(f), D!Type(f)>>, f.where>>}
  BY DEF D!Sessions, D!If
<1>6. f.what = 40 => D!Sessions(f) = {<<"rearm", D!Null, f.where>>}
  BY DEF D!Sessions, D!If
<1> QED
  BY <1>1, <1>2, <1>3, <1>4, <1>5, <1>6 DEF TellsOf

LEMMA ModeTells ==
  ASSUME NEW f, f.who = 8
  PROVE  /\ f.what = 37 => TellsOf(f, "vct", D!Param(f, 1))
         /\ f.what = 76 => TellsOf(f, "teleloop", "start")
         /\ f.what = 77 => TellsOf(f, "teleloop", D!Param(f, 1))
         /\ f.what = 78 => TellsOf(f, "teleloop", "timeout")
         /\ f.what = 79 => TellsOf(f, "teleloop", "active")
<1>1. f.what \in {37, 76, 77, 78, 79} => D!Event(f) = D!Modes(f)
  BY NoActuator, NoCamera, NoSession DEF D!Event, D!IntercomEvent
<1>2. f.what = 37 => D!Modes(f) = {<<"vct", D!Param(f, 1), f.where>>}
  BY DEF D!Modes, D!If
<1>3. f.what = 76 => D!Modes(f) = {<<"teleloop", "start", f.where>>}
  BY DEF D!Modes, D!If
<1>4. f.what = 77 => D!Modes(f) = {<<"teleloop", D!Param(f, 1), f.where>>}
  BY DEF D!Modes, D!If
<1>5. f.what = 78 => D!Modes(f) = {<<"teleloop", "timeout", f.where>>}
  BY DEF D!Modes, D!If
<1>6. f.what = 79 => D!Modes(f) = {<<"teleloop", "active", f.where>>}
  BY DEF D!Modes, D!If
<1> QED
  BY <1>1, <1>2, <1>3, <1>4, <1>5, <1>6 DEF TellsOf

LEMMA DoorTells ==
  ASSUME NEW f, f.who = 6
  PROVE  /\ f.what = 6 /\ f.where # D!Everyone => TellsOf(f, "ring", D!Null)
         /\ f.what = 6 /\ f.where = D!Everyone => TellsOf(f, "ring_all", D!Null)
         /\ f.what = 20 => TellsOf(f, "chime", D!Null)
         /\ f.what \in {10, 22} => TellsOf(f, "lock", "open")
         /\ f.what = 12 => TellsOf(f, "light", "on")
         /\ f.what = 11 => TellsOf(f, "light", "off")
         /\ f.what = 0 => TellsOf(f, "camera", "on")
         /\ f.what = 9 => TellsOf(f, "camera", "off")
<1>0. D!Event(f) = D!DoorEntryEvent(f)
  BY DEF D!Event
<1>1. f.what = 6 /\ f.where # D!Everyone => TellsOf(f, "ring", D!Null)
  BY <1>0 DEF D!DoorEntryEvent, D!If, TellsOf
<1>2. f.what = 6 /\ f.where = D!Everyone => TellsOf(f, "ring_all", D!Null)
  BY <1>0 DEF D!DoorEntryEvent, D!If, TellsOf
<1>3. f.what = 20 => TellsOf(f, "chime", D!Null)
  BY <1>0 DEF D!DoorEntryEvent, D!If, TellsOf
<1>4. f.what \in {10, 22} => TellsOf(f, "lock", "open")
  BY <1>0 DEF D!DoorEntryEvent, D!If, TellsOf
<1>5. f.what = 12 => TellsOf(f, "light", "on")
  BY <1>0 DEF D!DoorEntryEvent, D!If, TellsOf
<1>6. f.what = 11 => TellsOf(f, "light", "off")
  BY <1>0 DEF D!DoorEntryEvent, D!If, TellsOf
<1>7. f.what = 0 => TellsOf(f, "camera", "on")
  BY <1>0 DEF D!DoorEntryEvent, D!If, TellsOf
<1>8. f.what = 9 => TellsOf(f, "camera", "off")
  BY <1>0 DEF D!DoorEntryEvent, D!If, TellsOf
<1> QED
  BY <1>1, <1>2, <1>3, <1>4, <1>5, <1>6, <1>7, <1>8


(* A call tells one thing, unless it is of an entrance panel to everyone. *)
LEMMA CallTells ==
  ASSUME NEW f, f.who = 8, f.what = 1, NEW k, k = D!Kind(f), NEW d, d = <<D!Type(f), D!Param(f, 3)>>
  PROVE  /\ k = D!Internal /\ f.where # D!Broadcast => TellsOf(f, "internal", d)
         /\ k = D!Pager => TellsOf(f, "pager", d)
         /\ k = D!External /\ f.where = D!Broadcast => TellsOf(f, "pager", d)
         /\ k = D!External /\ f.where # D!Broadcast => D!Event(f) = {}
         /\ k \in D!PE /\ f.where # D!Broadcast => TellsOf(f, "ring", d)
         /\ k \in D!PE /\ f.where = D!Broadcast =>
              D!Event(f) = {<<"ring", d, f.where>>, <<"pager", d, f.where>>}
<1>0. D!Event(f) = D!Calls(f)
  BY NoActuator, NoCamera, NoSession, NoMode DEF D!Event, D!IntercomEvent
<1>1. k = D!Internal /\ f.where # D!Broadcast => TellsOf(f, "internal", d)
  BY <1>0 DEF D!Calls, D!If, D!IsPager, D!Internal, D!Pager, D!PE, TellsOf
<1>2. k = D!Pager => TellsOf(f, "pager", d)
  BY <1>0 DEF D!Calls, D!If, D!IsPager, D!Internal, D!Pager, D!PE, TellsOf
<1>3. k = D!External => D!Event(f) = IF f.where = D!Broadcast THEN {<<"pager", d, f.where>>} ELSE {}
  BY <1>0 DEF D!Calls, D!If, D!IsPager, D!Internal, D!External, D!Pager, D!PE
<1>4. k \in D!PE /\ f.where # D!Broadcast => TellsOf(f, "ring", d)
  BY <1>0 DEF D!Calls, D!If, D!IsPager, D!Internal, D!Pager, D!PE, TellsOf
<1>5. k \in D!PE /\ f.where = D!Broadcast =>
        D!Event(f) = {<<"ring", d, f.where>>, <<"pager", d, f.where>>}
  BY <1>0 DEF D!Calls, D!If, D!IsPager, D!Internal, D!Pager, D!PE
<1> QED
  BY <1>1, <1>2, <1>3, <1>4, <1>5 DEF TellsOf

(* What is to be so of a report. *)
DoorTold(f, said) ==
  /\ said.kind \notin {"nothing", "external"} => <<said.kind, said.n[1], said.n[2]>> \in D!Event(f)
  /\ Cardinality(D!Event(f)) <= IF f.what = 1 /\ D!Kind(f) \in D!PE /\ f.where = D!Broadcast THEN 2 ELSE 1
(* What is to be so of a command, and of what is told by the plant. *)
DoorSays(f, what, detail) == DoorTold(f, D!Said(what, <<detail, f.where>>))
DoorAsks(f, what, detail) ==
  /\ DoorSays(f, what, detail)
  /\ f.type = "STATUS" /\ f.who \in {6, 8} /\ (f.what = 1 => D!Type(f) \in {D!Audio, D!AudioVideo})

LEMMA Few ==
  ASSUME NEW a, NEW b
  PROVE  Cardinality({a}) = 1 /\ Cardinality({}) = 0 /\ Cardinality({a, b}) <= 2
<1>1. Cardinality({a}) = 1 /\ Cardinality({}) = 0 /\ IsFiniteSet({a})
  BY FS_Singleton, FS_EmptySet
<1>2. {a, b} = {a} \cup {b}
  OBVIOUS
<1>3. Cardinality({a} \cup {b}) = IF b \in {a} THEN Cardinality({a}) ELSE Cardinality({a}) + 1
  BY <1>1, FS_AddElement
<1> QED
  BY <1>1, <1>2, <1>3

LEMMA SaidParts ==
  ASSUME NEW k, NEW d, NEW w, NEW s, s = D!Said(k, <<d, w>>)
  PROVE  s.kind = k /\ s.n[1] = d /\ s.n[2] = w
BY DEF D!Said

LEMMA OneTold ==
  ASSUME NEW f, NEW what, NEW detail, TellsOf(f, what, detail)
  PROVE  DoorSays(f, what, detail)
<1> DEFINE s == D!Said(what, <<detail, f.where>>)
<1>1. s.kind = what /\ s.n[1] = detail /\ s.n[2] = f.where
  BY SaidParts
<1> HIDE DEF s
<1>2. <<s.kind, s.n[1], s.n[2]>> \in D!Event(f)
  BY <1>1 DEF TellsOf
<1>3. Cardinality(D!Event(f)) = 1
  BY Few DEF TellsOf
<1> QED
  BY <1>2, <1>3 DEF DoorTold, DoorSays, s

(* A sentence of the plant, or of a caller, in which the WHAT is no call. *)
LEMMA OneAsked ==
  ASSUME NEW f, NEW who \in {6, 8}, NEW code, NEW p, NEW w, DoorFrame(f, "STATUS", who, code, p, w), code # 1,
         NEW what, NEW detail, TellsOf(f, what, detail)
  PROVE  DoorAsks(f, what, detail)
BY OneTold DEF DoorFrame, DoorAsks

DoorCommanded(c) ==
  \/ \E k, d : c.said = D!Said(k, <<d, c.f.where>>) /\ DoorAsks(c.f, k, d)
  \/ c.said.kind = "nothing" /\ c.f.type = "STATUS_REQUEST" /\ c.f.who = 8

DoorInv ==
  /\ BusOk(DoorWire)
  /\ \A i \in DOMAIN commands : DoorCommanded(commands[i])
  /\ \A i \in DOMAIN reports : DoorTold(reports[i].f, reports[i].said)


LEMMA DoorStarts ==
  ASSUME D!BusInit, FamiliesAssumption
  PROVE  DoorInv
<1>1. DoorWire \in Nat /\ commands = <<>> /\ reports = <<>>
  BY DEF FamiliesAssumption, D!DoorEntryAssumption, D!BusInit
<1>2. BusOk(DoorWire) /\ DOMAIN commands = {} /\ DOMAIN reports = {}
  BY <1>1, BusStarts
<1> QED
  BY <1>2 DEF DoorInv

(* A caller's command. *)
LEMMA DoorPosts ==
  ASSUME DoorInv, NEW f, NEW what, NEW detail, D!Wants(f, what, detail), DoorAsks(f, what, detail)
  PROVE  DoorInv'
<1> DEFINE s == D!Said(what, <<detail, f.where>>)
           c == [f |-> f, said |-> s]
<1>1. commands' = Append(commands, c) /\ reports' = reports /\ Len(commands) + Len(reports) < DoorWire
  BY DEF D!Wants, D!Post, D!Wire
<1>2. c.f = f /\ c.said = s
  OBVIOUS
<1> HIDE DEF c
<1>3. BusOk(DoorWire)' /\ Grows(commands, c, commands')
  BY <1>1, BusPosts DEF DoorInv
<1>4. DoorCommanded(c)
  BY <1>2 DEF DoorCommanded
<1>5. ASSUME NEW i \in DOMAIN commands' PROVE DoorCommanded(commands'[i])
  BY <1>3, <1>4 DEF Grows, DoorInv
<1> QED
  BY <1>1, <1>3, <1>5 DEF DoorInv

(* What the plant tells by itself. *)
LEMMA DoorReports ==
  ASSUME DoorInv, NEW f, NEW what, NEW detail, D!Tells(f, what, detail), DoorSays(f, what, detail)
  PROVE  DoorInv'
<1> DEFINE s == D!Said(what, <<detail, f.where>>)
           r == [f |-> f, said |-> s]
<1>1. reports' = Append(reports, r) /\ commands' = commands /\ Len(commands) + Len(reports) < DoorWire
  BY DEF D!Tells, D!Tell, D!Wire
<1>2. r.f = f /\ r.said = s /\ DoorTold(f, s)
  BY DEF DoorSays
<1> HIDE DEF r, s
<1>3. BusOk(DoorWire)' /\ Grows(reports, r, reports')
  BY <1>1, BusTells DEF DoorInv
<1>4. ASSUME NEW i \in DOMAIN reports' PROVE DoorTold(reports'[i].f, reports'[i].said)
  BY <1>2, <1>3 DEF Grows, DoorInv
<1> QED
  BY <1>1, <1>3, <1>4 DEF DoorInv

LEMMA DoorWants ==
  ASSUME DoorInv, NEW who \in {6, 8}, NEW code, code # 1, NEW p, NEW w,
         NEW f, f = D!Status(who, code, p, w), NEW what, NEW detail, TellsOf(f, what, detail),
         D!Wants(f, what, detail)
  PROVE  DoorInv'
<1>1. DoorFrame(f, "STATUS", who, code, p, w)
  BY DoorStatus
<1>2. DoorAsks(f, what, detail)
  BY <1>1, OneAsked
<1> QED
  BY <1>2, DoorPosts

LEMMA DoorCommands ==
  ASSUME DoorInv, NEW w, D!CommandDoor(w)
  PROVE  DoorInv'
<1>1. ASSUME NEW f, f = D!OpenLock(w), D!Wants(f, "lock", "open") PROVE DoorInv'
  <2>1. f = D!Status(6, 10, <<>>, w)
    BY <1>1 DEF D!OpenLock
  <2>2. f.who = 6 /\ f.what = 10
    BY <2>1, DoorStatus DEF DoorFrame
  <2>3. TellsOf(f, "lock", "open")
    BY <2>2, DoorTells
  <2>4. \A d : D!Wants(f, "lock", d) /\ TellsOf(f, "lock", d) => DoorInv'
    BY <2>1, DoorWants
  <2> QED
    BY <1>1, <2>3, <2>4
<1>2. ASSUME NEW f, f = D!Unlock(w), D!Wants(f, "lock", "open") PROVE DoorInv'
  <2>1. f = D!Status(8, 19, <<>>, w)
    BY <1>2 DEF D!Unlock
  <2>2. f.who = 8 /\ f.what = 19
    BY <2>1, DoorStatus DEF DoorFrame
  <2>3. TellsOf(f, "lock", "open")
    BY <2>2, ActuatorTells
  <2>4. \A d : D!Wants(f, "lock", d) /\ TellsOf(f, "lock", d) => DoorInv'
    BY <2>1, DoorWants
  <2> QED
    BY <1>2, <2>3, <2>4
<1>3. ASSUME NEW f, f = D!Lock(w), D!Wants(f, "lock", "locked") PROVE DoorInv'
  <2>1. f = D!Status(8, 20, <<>>, w)
    BY <1>3 DEF D!Lock
  <2>2. f.who = 8 /\ f.what = 20
    BY <2>1, DoorStatus DEF DoorFrame
  <2>3. TellsOf(f, "lock", "locked")
    BY <2>2, ActuatorTells
  <2>4. \A d : D!Wants(f, "lock", d) /\ TellsOf(f, "lock", d) => DoorInv'
    BY <2>1, DoorWants
  <2> QED
    BY <1>3, <2>3, <2>4
<1>4. ASSUME NEW f, f = D!StaircaseLightOn6(w), D!Wants(f, "light", "on") PROVE DoorInv'
  <2>1. f = D!Status(6, 12, <<>>, w)
    BY <1>4 DEF D!StaircaseLightOn6
  <2>2. f.who = 6 /\ f.what = 12
    BY <2>1, DoorStatus DEF DoorFrame
  <2>3. TellsOf(f, "light", "on")
    BY <2>2, DoorTells
  <2>4. \A d : D!Wants(f, "light", d) /\ TellsOf(f, "light", d) => DoorInv'
    BY <2>1, DoorWants
  <2> QED
    BY <1>4, <2>3, <2>4
<1>5. ASSUME NEW f, f = D!StaircaseLightOn(w), D!Wants(f, "light", "on") PROVE DoorInv'
  <2>1. f = D!Status(8, 21, <<>>, w)
    BY <1>5 DEF D!StaircaseLightOn
  <2>2. f.who = 8 /\ f.what = 21
    BY <2>1, DoorStatus DEF DoorFrame
  <2>3. TellsOf(f, "light", "on")
    BY <2>2, ActuatorTells
  <2>4. \A d : D!Wants(f, "light", d) /\ TellsOf(f, "light", d) => DoorInv'
    BY <2>1, DoorWants
  <2> QED
    BY <1>5, <2>3, <2>4
<1>6. ASSUME NEW f, f = D!StaircaseLightOff6(w), D!Wants(f, "light", "off") PROVE DoorInv'
  <2>1. f = D!Status(6, 11, <<>>, w)
    BY <1>6 DEF D!StaircaseLightOff6
  <2>2. f.who = 6 /\ f.what = 11
    BY <2>1, DoorStatus DEF DoorFrame
  <2>3. TellsOf(f, "light", "off")
    BY <2>2, DoorTells
  <2>4. \A d : D!Wants(f, "light", d) /\ TellsOf(f, "light", d) => DoorInv'
    BY <2>1, DoorWants
  <2> QED
    BY <1>6, <2>3, <2>4
<1>7. ASSUME NEW f, f = D!StaircaseLightOff(w), D!Wants(f, "light", "off") PROVE DoorInv'
  <2>1. f = D!Status(8, 22, <<>>, w)
    BY <1>7 DEF D!StaircaseLightOff
  <2>2. f.who = 8 /\ f.what = 22
    BY <2>1, DoorStatus DEF DoorFrame
  <2>3. TellsOf(f, "light", "off")
    BY <2>2, ActuatorTells
  <2>4. \A d : D!Wants(f, "light", d) /\ TellsOf(f, "light", d) => DoorInv'
    BY <2>1, DoorWants
  <2> QED
    BY <1>7, <2>3, <2>4
<1>8. ASSUME NEW f, f = D!CameraOn(w), D!Wants(f, "camera", "on") PROVE DoorInv'
  <2>1. f = D!Status(6, 0, <<>>, w)
    BY <1>8 DEF D!CameraOn
  <2>2. f.who = 6 /\ f.what = 0
    BY <2>1, DoorStatus DEF DoorFrame
  <2>3. TellsOf(f, "camera", "on")
    BY <2>2, DoorTells
  <2>4. \A d : D!Wants(f, "camera", d) /\ TellsOf(f, "camera", d) => DoorInv'
    BY <2>1, DoorWants
  <2> QED
    BY <1>8, <2>3, <2>4
<1>9. ASSUME NEW f, f = D!CameraOff, D!Wants(f, "camera", "off") PROVE DoorInv'
  <2>1. f = D!Status(6, 9, <<>>, D!Null)
    BY <1>9 DEF D!CameraOff
  <2>2. f.who = 6 /\ f.what = 9
    BY <2>1, DoorStatus DEF DoorFrame
  <2>3. TellsOf(f, "camera", "off")
    BY <2>2, DoorTells
  <2>4. \A d : D!Wants(f, "camera", d) /\ TellsOf(f, "camera", d) => DoorInv'
    BY <2>1, DoorWants
  <2> QED
    BY <1>9, <2>3, <2>4
<1>10. ASSUME NEW f, f = D!MuteAmplifier(w), D!Wants(f, "mute", TRUE) PROVE DoorInv'
  <2>1. f = D!Status(8, 63, <<>>, w)
    BY <1>10 DEF D!MuteAmplifier
  <2>2. f.who = 8 /\ f.what = 63
    BY <2>1, DoorStatus DEF DoorFrame
  <2>3. TellsOf(f, "mute", TRUE)
    BY <2>2, ActuatorTells
  <2>4. \A d : D!Wants(f, "mute", d) /\ TellsOf(f, "mute", d) => DoorInv'
    BY <2>1, DoorWants
  <2> QED
    BY <1>10, <2>3, <2>4
<1>11. ASSUME NEW f, f = D!UnmuteAmplifier(w), D!Wants(f, "mute", FALSE) PROVE DoorInv'
  <2>1. f = D!Status(8, 64, <<>>, w)
    BY <1>11 DEF D!UnmuteAmplifier
  <2>2. f.who = 8 /\ f.what = 64
    BY <2>1, DoorStatus DEF DoorFrame
  <2>3. TellsOf(f, "mute", FALSE)
    BY <2>2, ActuatorTells
  <2>4. \A d : D!Wants(f, "mute", d) /\ TellsOf(f, "mute", d) => DoorInv'
    BY <2>1, DoorWants
  <2> QED
    BY <1>11, <2>3, <2>4
<1> QED
  BY <1>1, <1>2, <1>3, <1>4, <1>5, <1>6, <1>7, <1>8, <1>9, <1>10, <1>11 DEF D!CommandDoor

LEMMA CameraCommands ==
  ASSUME DoorInv, NEW w, NEW camera, D!CommandCamera(w, camera)
  PROVE  DoorInv'
<1>1. ASSUME NEW f, f = D!SwitchCamera(w, camera), D!Wants(f, "switch", w) PROVE DoorInv'
  <2>1. f = D!Status(8, 4, <<w>>, camera)
    BY <1>1 DEF D!SwitchCamera
  <2>2. f.who = 8 /\ f.what = 4 /\ f.wpar = <<w>>
    BY <2>1, DoorStatus DEF DoorFrame
  <2>3. D!Param(f, 1) = w
    BY <2>2 DEF D!Param
  <2>4. TellsOf(f, "switch", w)
    BY <2>2, <2>3, CameraTells
  <2> QED
    BY <1>1, <2>1, <2>4, DoorWants
<1>2. ASSUME NEW f, f = D!CycleCamera(w, camera), D!Wants(f, "cycle", w) PROVE DoorInv'
  <2>1. f = D!Status(8, 6, <<w>>, camera)
    BY <1>2 DEF D!CycleCamera
  <2>2. f.who = 8 /\ f.what = 6 /\ f.wpar = <<w>>
    BY <2>1, DoorStatus DEF DoorFrame
  <2>3. D!Param(f, 1) = w
    BY <2>2 DEF D!Param
  <2>4. TellsOf(f, "cycle", w)
    BY <2>2, <2>3, CameraTells
  <2> QED
    BY <1>2, <2>1, <2>4, DoorWants
<1>3. ASSUME NEW d, NEW a, NEW f, f = D!PtzMove(camera, d, a), f # D!Refuse, D!Wants(f, "move", <<d, a>>)
      PROVE  DoorInv'
  <2>1. d \in DOMAIN D!Directions /\ a \in {"press", "release"}
    BY <1>3 DEF D!PtzMove
  <2> DEFINE code == D!Directions[d]
             n == IF a = "press" THEN 1 ELSE 2
  <2>2. f = D!Status(8, code, <<n>>, camera)
    BY <1>3, <2>1 DEF D!PtzMove
  <2>3. code \in 59 .. 62 /\ D!Way(code) = d
    BY <2>1, WayIs
  <2> HIDE DEF code
  <2>4. f.who = 8 /\ f.what = code /\ f.wpar = <<n>>
    BY <2>2, DoorStatus DEF DoorFrame
  <2>5. D!Param(f, 1) = n
    BY <2>4 DEF D!Param
  <2>6. (n = 1 /\ a = "press") \/ (n = 2 /\ a = "release")
    BY <2>1
  <2> HIDE DEF n
  <2>7. TellsOf(f, "move", <<d, a>>)
    BY <2>3, <2>4, <2>5, <2>6, CameraTells
  <2>8. code # 1
    BY <2>3
  <2> QED
    BY <1>3, <2>2, <2>7, <2>8, DoorWants
<1> QED
  BY <1>1, <1>2, <1>3 DEF D!CommandCamera


(* The two or three parameters of a call and of what follows it. *)
LEMMA CallParts ==
  ASSUME NEW kind, NEW t, NEW caller, NEW w, NEW f, f = D!Status(8, 1, <<kind, t, caller>>, w)
  PROVE  /\ DoorFrame(f, "STATUS", 8, 1, <<kind, t, caller>>, w)
         /\ D!Kind(f) = kind /\ D!Type(f) = t /\ D!Param(f, 3) = caller
<1>1. DoorFrame(f, "STATUS", 8, 1, <<kind, t, caller>>, w)
  BY DoorStatus
<1>2. f.wpar = <<kind, t, caller>>
  BY <1>1 DEF DoorFrame
<1>3. Len(f.wpar) = 3 /\ f.wpar[1] = kind /\ f.wpar[2] = t /\ f.wpar[3] = caller
  BY <1>2
<1> QED
  BY <1>1, <1>3 DEF D!Kind, D!Type, D!Param

LEMMA SessionParts ==
  ASSUME NEW who, NEW code, NEW kind, NEW t, NEW w, NEW f, f = D!Status(who, code, <<kind, t>>, w)
  PROVE  /\ DoorFrame(f, "STATUS", who, code, <<kind, t>>, w)
         /\ D!Kind(f) = kind /\ D!Type(f) = t /\ D!Param(f, 3) = D!Null
<1>1. DoorFrame(f, "STATUS", who, code, <<kind, t>>, w)
  BY DoorStatus
<1>2. f.wpar = <<kind, t>>
  BY <1>1 DEF DoorFrame
<1>3. Len(f.wpar) = 2 /\ f.wpar[1] = kind /\ f.wpar[2] = t
  BY <1>2
<1> QED
  BY <1>1, <1>3 DEF D!Kind, D!Type, D!Param

(* A call of a caller. *)
LEMMA DoorCalls ==
  ASSUME DoorInv, NEW f, f.type = "STATUS", f.who = 8, f.what = 1, D!Type(f) \in {D!Audio, D!AudioVideo},
         NEW what, NEW detail, D!Wants(f, what, detail), DoorSays(f, what, detail)
  PROVE  DoorInv'
<1>1. DoorAsks(f, what, detail)
  BY DEF DoorAsks
<1> QED
  BY <1>1, DoorPosts

LEMMA NobodyTold ==
  ASSUME NEW f, D!Event(f) = {} \/ \E k, d : TellsOf(f, k, d)
  PROVE  DoorSays(f, "external", D!Null)
<1> DEFINE s == D!Said("external", <<D!Null, f.where>>)
<1>1. s.kind = "external"
  BY SaidParts
<1> HIDE DEF s
<1>3. Cardinality(D!Event(f)) <= IF f.what = 1 /\ D!Kind(f) \in D!PE /\ f.where = D!Broadcast THEN 2 ELSE 1
  <2>1. CASE D!Event(f) = {}
    BY <2>1, FS_EmptySet
  <2>2. CASE \E k, d : TellsOf(f, k, d)
    <3>1. PICK k, d : D!Event(f) = {<<k, d, f.where>>}
      BY <2>2 DEF TellsOf
    <3>2. Cardinality({<<k, d, f.where>>}) = 1
      BY Few
    <3> QED
      BY <3>1, <3>2
  <2> QED
    BY <2>1, <2>2
<1> QED
  BY <1>1, <1>3 DEF DoorSays, DoorTold, s

LEMMA CallCommands ==
  ASSUME DoorInv, NEW w, NEW other, D!CommandCall(w, other)
  PROVE  DoorInv'
<1>1. ASSUME NEW video \in BOOLEAN, other # D!Broadcast, NEW t, t = (IF video THEN D!AudioVideo ELSE D!Audio),
             NEW f, f = D!Call(D!Internal, w, other, video), D!Wants(f, "internal", <<t, w>>)
      PROVE  DoorInv'
  <2>1. f = D!Status(8, 1, <<D!Internal, t, w>>, other)
    BY <1>1 DEF D!Call
  <2>2. /\ DoorFrame(f, "STATUS", 8, 1, <<D!Internal, t, w>>, other)
        /\ D!Kind(f) = D!Internal /\ D!Type(f) = t /\ D!Param(f, 3) = w
    BY <2>1, CallParts
  <2>3. f.type = "STATUS" /\ f.who = 8 /\ f.what = 1 /\ f.where # D!Broadcast /\ t \in {D!Audio, D!AudioVideo}
    BY <1>1, <2>2 DEF DoorFrame
  <2>4. TellsOf(f, "internal", <<t, w>>)
    BY <2>2, <2>3, CallTells
  <2>5. DoorSays(f, "internal", <<t, w>>)
    BY <2>4, OneTold
  <2> QED
    BY <1>1, <2>2, <2>3, <2>5, DoorCalls
<1>2. ASSUME NEW video \in BOOLEAN, NEW t, t = (IF video THEN D!AudioVideo ELSE D!Audio),
             NEW f, f = D!Call(D!External, w, other, video), D!Wants(f, "external", D!Null)
      PROVE  DoorInv'
  <2>1. f = D!Status(8, 1, <<D!External, t, w>>, other)
    BY <1>2 DEF D!Call
  <2>2. /\ DoorFrame(f, "STATUS", 8, 1, <<D!External, t, w>>, other)
        /\ D!Kind(f) = D!External /\ D!Type(f) = t /\ D!Param(f, 3) = w
    BY <2>1, CallParts
  <2>3. f.type = "STATUS" /\ f.who = 8 /\ f.what = 1 /\ t \in {D!Audio, D!AudioVideo}
    BY <1>2, <2>2 DEF DoorFrame
  <2>4. D!Event(f) = {} \/ TellsOf(f, "pager", <<t, w>>)
    BY <2>2, <2>3, CallTells
  <2>5. DoorSays(f, "external", D!Null)
    BY <2>4, NobodyTold
  <2> QED
    BY <1>2, <2>2, <2>3, <2>5, DoorCalls
<1>3. ASSUME NEW f, f = D!CallPager(w), D!Wants(f, "pager", <<D!Audio, w>>)
      PROVE  DoorInv'
  <2>1. f = D!Status(8, 1, <<D!Pager, D!Audio, w>>, D!Broadcast)
    BY <1>3 DEF D!Call, D!CallPager
  <2>2. /\ DoorFrame(f, "STATUS", 8, 1, <<D!Pager, D!Audio, w>>, D!Broadcast)
        /\ D!Kind(f) = D!Pager /\ D!Type(f) = D!Audio /\ D!Param(f, 3) = w
    BY <2>1, CallParts
  <2>3. f.type = "STATUS" /\ f.who = 8 /\ f.what = 1
    BY <2>2 DEF DoorFrame
  <2>4. TellsOf(f, "pager", <<D!Audio, w>>)
    BY <2>2, <2>3, CallTells
  <2>5. DoorSays(f, "pager", <<D!Audio, w>>)
    BY <2>4, OneTold
  <2>6. D!Type(f) \in {D!Audio, D!AudioVideo}
    BY <2>2
  <2> QED
    BY <1>3, <2>3, <2>5, <2>6, DoorCalls
<1>4. ASSUME NEW kind, NEW f, f = D!AnswerCall(w, kind, D!Audio), D!Wants(f, "answer", <<kind, D!Audio>>)
      PROVE  DoorInv'
  <2>1. f = D!Status(8, 2, <<kind, D!Audio>>, w)
    BY <1>4 DEF D!AnswerCall
  <2>2. f.who = 8 /\ f.what = 2 /\ D!Kind(f) = kind /\ D!Type(f) = D!Audio
    BY <2>1, SessionParts DEF DoorFrame
  <2>3. TellsOf(f, "answer", <<kind, D!Audio>>)
    BY <2>2, SessionTells
  <2> QED
    BY <1>4, <2>1, <2>3, DoorWants
<1>5. ASSUME NEW kind, NEW at, NEW f, f = D!EndCall(at, kind, D!Audio), D!Wants(f, "end", kind)
      PROVE  DoorInv'
  <2>1. f = D!Status(8, 3, <<kind, D!Audio>>, at)
    BY <1>5 DEF D!EndCall
  <2>2. f.who = 8 /\ f.what = 3 /\ D!Kind(f) = kind /\ D!Type(f) = D!Audio
    BY <2>1, SessionParts DEF DoorFrame
  <2>3. D!Audio # 3
    BY DEF D!Audio
  <2>4. TellsOf(f, "end", kind)
    BY <2>2, <2>3, SessionTells
  <2> QED
    BY <1>5, <2>1, <2>4, DoorWants
<1>6. ASSUME NEW kind, NEW f, f = D!StopVideo(w, kind), D!Wants(f, "stop_video", kind)
      PROVE  DoorInv'
  <2>1. f = D!Status(8, 3, <<kind, 3>>, w)
    BY <1>6 DEF D!StopVideo
  <2>2. f.who = 8 /\ f.what = 3 /\ D!Kind(f) = kind /\ D!Type(f) = 3
    BY <2>1, SessionParts DEF DoorFrame
  <2>3. TellsOf(f, "stop_video", kind)
    BY <2>2, SessionTells
  <2> QED
    BY <1>6, <2>1, <2>3, DoorWants
<1>7. CASE \E video \in BOOLEAN :
             \/ other # D!Broadcast /\ D!Wants(D!Call(D!Internal, w, other, video), "internal",
                                             <<IF video THEN D!AudioVideo ELSE D!Audio, w>>)
             \/ D!Wants(D!Call(D!External, w, other, video), "external", D!Null)
  BY <1>1, <1>2, <1>7
<1>8. CASE D!Wants(D!CallPager(w), "pager", <<D!Audio, w>>)
  BY <1>3, <1>8
<1>9. CASE \E kind \in D!PE \cup {D!Internal} :
             \/ D!Wants(D!AnswerCall(w, kind, D!Audio), "answer", <<kind, D!Audio>>)
             \/ D!Wants(D!EndCall(w, kind, D!Audio), "end", kind)
             \/ D!Wants(D!EndCall(D!Broadcast, kind, D!Audio), "end", kind)
             \/ D!Wants(D!StopVideo(w, kind), "stop_video", kind)
  BY <1>4, <1>5, <1>6, <1>9
<1> QED
  BY <1>7, <1>8, <1>9 DEF D!CommandCall


LEMMA NullIs == D!Null # 3
BY DEF D!Null

LEMMA OneHappens ==
  ASSUME DoorInv, NEW f, NEW what, NEW detail, TellsOf(f, what, detail), D!Tells(f, what, detail)
  PROVE  DoorInv'
BY OneTold, DoorReports

(* A frame without parameters, or with one. *)
LEMMA BareParts ==
  ASSUME NEW who, NEW code, NEW w, NEW f, f = D!Status(who, code, <<>>, w)
  PROVE  /\ f.who = who /\ f.what = code /\ f.where = w
         /\ D!Kind(f) = D!Null /\ D!Type(f) = D!Null /\ D!Param(f, 1) = D!Null
<1>1. f.who = who /\ f.what = code /\ f.where = w /\ f.wpar = <<>>
  BY DoorStatus DEF DoorFrame
<1>2. Len(f.wpar) = 0
  BY <1>1
<1> QED
  BY <1>1, <1>2 DEF D!Kind, D!Type, D!Param

LEMMA OneParts ==
  ASSUME NEW who, NEW code, NEW p, NEW w, NEW f, f = D!Status(who, code, <<p>>, w)
  PROVE  f.who = who /\ f.what = code /\ f.where = w /\ D!Param(f, 1) = p
<1>1. f.who = who /\ f.what = code /\ f.where = w /\ f.wpar = <<p>>
  BY DoorStatus DEF DoorFrame
<1>2. Len(f.wpar) = 1 /\ f.wpar[1] = p
  BY <1>1
<1> QED
  BY <1>1, <1>2 DEF D!Param

(* Somebody rings. *)
LEMMA RingsTold ==
  ASSUME NEW f, f.who = 8, f.what = 1, D!Kind(f) \in D!PE, NEW d, d = <<D!Type(f), D!Param(f, 3)>>
  PROVE  DoorSays(f, "ring", d)
<1>1. CASE f.where # D!Broadcast
  <2>1. TellsOf(f, "ring", d)
    BY <1>1, CallTells
  <2> QED
    BY <2>1, OneTold
<1>2. CASE f.where = D!Broadcast
  <2>1. D!Event(f) = {<<"ring", d, f.where>>, <<"pager", d, f.where>>}
    BY <1>2, CallTells
  <2>2. Cardinality(D!Event(f)) <= 2
    BY <2>1, Few
  <2> DEFINE s == D!Said("ring", <<d, f.where>>)
  <2>3. s.kind = "ring" /\ s.n[1] = d /\ s.n[2] = f.where
    BY SaidParts
  <2> HIDE DEF s
  <2>4. <<s.kind, s.n[1], s.n[2]>> \in D!Event(f)
    BY <2>1, <2>3
  <2> QED
    BY <1>2, <2>2, <2>4 DEF DoorSays, DoorTold, s
<1> QED
  BY <1>1, <1>2

LEMMA DoorHappens ==
  ASSUME DoorInv, FamiliesAssumption, NEW w \in DoorAddresses, NEW other \in DoorAddresses,
         D!Happens(w, other)
  PROVE  DoorInv'
<1>0. w # D!Everyone
  BY DEF FamiliesAssumption, D!DoorEntryAssumption
<1>1. ASSUME NEW f, f = D!Status(6, 6, <<>>, w), D!Tells(f, "ring", D!Null) PROVE DoorInv'
  <2>1. /\ f.who = 6 /\ f.what = 6 /\ f.where = w
        /\ D!Kind(f) = D!Null /\ D!Type(f) = D!Null /\ D!Param(f, 1) = D!Null
    BY <1>1, BareParts
  <2>2. TellsOf(f, "ring", D!Null)
    BY <1>0, <2>1, DoorTells
  <2> QED
    BY <1>1, <2>2, OneHappens
<1>2. ASSUME NEW f, f = D!Status(6, 6, <<>>, D!Everyone), D!Tells(f, "ring_all", D!Null) PROVE DoorInv'
  <2>1. /\ f.who = 6 /\ f.what = 6 /\ f.where = D!Everyone
        /\ D!Kind(f) = D!Null /\ D!Type(f) = D!Null /\ D!Param(f, 1) = D!Null
    BY <1>2, BareParts
  <2>2. TellsOf(f, "ring_all", D!Null)
    BY <1>0, <2>1, DoorTells
  <2> QED
    BY <1>2, <2>2, OneHappens
<1>3. ASSUME NEW f, f = D!Status(6, 20, <<>>, w), D!Tells(f, "chime", D!Null) PROVE DoorInv'
  <2>1. /\ f.who = 6 /\ f.what = 20 /\ f.where = w
        /\ D!Kind(f) = D!Null /\ D!Type(f) = D!Null /\ D!Param(f, 1) = D!Null
    BY <1>3, BareParts
  <2>2. TellsOf(f, "chime", D!Null)
    BY <1>0, <2>1, DoorTells
  <2> QED
    BY <1>3, <2>2, OneHappens
<1>4. ASSUME NEW f, f = D!Status(6, 22, <<>>, w), D!Tells(f, "lock", "open") PROVE DoorInv'
  <2>1. /\ f.who = 6 /\ f.what = 22 /\ f.where = w
        /\ D!Kind(f) = D!Null /\ D!Type(f) = D!Null /\ D!Param(f, 1) = D!Null
    BY <1>4, BareParts
  <2>2. TellsOf(f, "lock", "open")
    BY <1>0, <2>1, DoorTells
  <2> QED
    BY <1>4, <2>2, OneHappens
<1>5. ASSUME NEW kind \in D!PE, NEW mm, NEW f, f = D!Status(8, 1, <<kind, mm, w>>, other),
             D!Tells(f, "ring", <<mm, w>>)
      PROVE  DoorInv'
  <2>1. f.who = 8 /\ f.what = 1 /\ D!Kind(f) = kind /\ D!Type(f) = mm /\ D!Param(f, 3) = w
    BY <1>5, CallParts DEF DoorFrame
  <2>2. DoorSays(f, "ring", <<mm, w>>)
    BY <2>1, RingsTold
  <2> QED
    BY <1>5, <2>2, DoorReports
<1>6. ASSUME NEW kind \in D!PE, NEW mm, NEW f, f = D!Status(8, 1, <<kind, mm>>, other),
             D!Tells(f, "ring", <<mm, D!Null>>)
      PROVE  DoorInv'
  <2>1. f.who = 8 /\ f.what = 1 /\ D!Kind(f) = kind /\ D!Type(f) = mm /\ D!Param(f, 3) = D!Null
    BY <1>6, SessionParts DEF DoorFrame
  <2>2. DoorSays(f, "ring", <<mm, D!Null>>)
    BY <2>1, RingsTold
  <2> QED
    BY <1>6, <2>2, DoorReports
<1>7. ASSUME NEW kind, NEW mm, NEW f, f = D!Status(8, 9, <<kind, mm>>, w),
             D!Tells(f, "caller", <<kind, mm>>)
      PROVE  DoorInv'
  <2>1. f.who = 8 /\ f.what = 9 /\ D!Kind(f) = kind /\ D!Type(f) = mm
    BY <1>7, SessionParts DEF DoorFrame
  <2>2. TellsOf(f, "caller", <<kind, mm>>)
    BY <2>1, SessionTells
  <2> QED
    BY <1>7, <2>2, OneHappens
<1>8. ASSUME NEW d \in DOMAIN D!Directions, NEW f, f = D!Status(8, D!Directions[d], <<>>, w),
             D!Tells(f, "move", <<d, "press">>)
      PROVE  DoorInv'
  <2>1. f.who = 8 /\ f.what = D!Directions[d] /\ D!Param(f, 1) = D!Null
    BY <1>8, BareParts
  <2>2. D!Directions[d] \in 59 .. 62 /\ D!Way(D!Directions[d]) = d
    BY WayIs
  <2>3. TellsOf(f, "move", <<d, "press">>)
    BY <2>1, <2>2, CameraTells
  <2> QED
    BY <1>8, <2>3, OneHappens
<1>9. ASSUME NEW f, f = D!Status(8, 3, <<>>, w), D!Tells(f, "end", D!Null) PROVE DoorInv'
  <2>1. /\ f.who = 8 /\ f.what = 3 /\ f.where = w
        /\ D!Kind(f) = D!Null /\ D!Type(f) = D!Null /\ D!Param(f, 1) = D!Null
    BY <1>9, BareParts
  <2>2. TellsOf(f, "end", D!Null)
    BY <1>0, <2>1, NullIs, SessionTells
  <2> QED
    BY <1>9, <2>2, OneHappens
<1>10. ASSUME NEW f, f = D!Status(8, 37, << 1 >>, w), D!Tells(f, "vct", 1) PROVE DoorInv'
  <2>1. f.who = 8 /\ f.what = 37 /\ D!Param(f, 1) = 1
    BY <1>10, OneParts
  <2>2. TellsOf(f, "vct", 1)
    BY <2>1, ModeTells
  <2> QED
    BY <1>10, <2>2, OneHappens
<1>11. ASSUME NEW f, f = D!Status(8, 77, << 2 >>, w), D!Tells(f, "teleloop", 2) PROVE DoorInv'
  <2>1. f.who = 8 /\ f.what = 77 /\ D!Param(f, 1) = 2
    BY <1>11, OneParts
  <2>2. TellsOf(f, "teleloop", 2)
    BY <2>1, ModeTells
  <2> QED
    BY <1>11, <2>2, OneHappens
<1>12. ASSUME NEW f, f = D!Status(8, 40, <<>>, w), D!Tells(f, "rearm", D!Null) PROVE DoorInv'
  <2>1. /\ f.who = 8 /\ f.what = 40 /\ f.where = w
        /\ D!Kind(f) = D!Null /\ D!Type(f) = D!Null /\ D!Param(f, 1) = D!Null
    BY <1>12, BareParts
  <2>2. TellsOf(f, "rearm", D!Null)
    BY <1>0, <2>1, SessionTells
  <2> QED
    BY <1>12, <2>2, OneHappens
<1>13. ASSUME NEW f, f = D!Status(8, 76, <<>>, w), D!Tells(f, "teleloop", "start") PROVE DoorInv'
  <2>1. /\ f.who = 8 /\ f.what = 76 /\ f.where = w
        /\ D!Kind(f) = D!Null /\ D!Type(f) = D!Null /\ D!Param(f, 1) = D!Null
    BY <1>13, BareParts
  <2>2. TellsOf(f, "teleloop", "start")
    BY <1>0, <2>1, ModeTells
  <2> QED
    BY <1>13, <2>2, OneHappens
<1>14. ASSUME NEW f, f = D!Status(8, 78, <<>>, w), D!Tells(f, "teleloop", "timeout") PROVE DoorInv'
  <2>1. /\ f.who = 8 /\ f.what = 78 /\ f.where = w
        /\ D!Kind(f) = D!Null /\ D!Type(f) = D!Null /\ D!Param(f, 1) = D!Null
    BY <1>14, BareParts
  <2>2. TellsOf(f, "teleloop", "timeout")
    BY <1>0, <2>1, ModeTells
  <2> QED
    BY <1>14, <2>2, OneHappens
<1>15. ASSUME NEW f, f = D!Status(8, 79, <<>>, w), D!Tells(f, "teleloop", "active") PROVE DoorInv'
  <2>1. /\ f.who = 8 /\ f.what = 79 /\ f.where = w
        /\ D!Kind(f) = D!Null /\ D!Type(f) = D!Null /\ D!Param(f, 1) = D!Null
    BY <1>15, BareParts
  <2>2. TellsOf(f, "teleloop", "active")
    BY <1>0, <2>1, ModeTells
  <2> QED
    BY <1>15, <2>2, OneHappens
<1> QED
  BY <1>1, <1>2, <1>3, <1>4, <1>5, <1>6, <1>7, <1>8, <1>9, <1>10, <1>11, <1>12, <1>13, <1>14, <1>15 DEF D!Happens

(* Any state of a device that is asked for may be reported. *)
LEMMA DoorAnswers ==
  ASSUME NEW f, NEW g \in D!Answers(f), NEW said
  PROVE  /\ f.type = "STATUS" => g = f
         /\ f.type # "STATUS" /\ said.kind = "nothing" => DoorTold(g, said)
<1>1. ASSUME f.type # "STATUS", said.kind = "nothing" PROVE DoorTold(g, said)
  <2>1. \E code \in {19, 20, 21, 63} : g = D!Status(8, code, <<>>, f.where)
    BY <1>1 DEF D!Answers, D!Unlock, D!Lock, D!StaircaseLightOn, D!MuteAmplifier
  <2>2. PICK code \in {19, 20, 21, 63} : g.who = 8 /\ g.what = code
    BY <2>1, BareParts
  <2>3. \E k, d : TellsOf(g, k, d)
    BY <2>2, ActuatorTells
  <2>4. PICK k, d : D!Event(g) = {<<k, d, g.where>>}
    BY <2>3 DEF TellsOf
  <2>5. Cardinality({<<k, d, g.where>>}) = 1
    BY Few
  <2> QED
    BY <1>1, <2>4, <2>5 DEF DoorTold
<1> QED
  BY <1>1 DEF D!Answers

LEMMA DoorStep ==
  ASSUME DoorInv, FamiliesAssumption, [D!Next]_<<commands, reports>>
  PROVE  DoorInv'
<1>1. ASSUME NEW w \in DoorAddresses, D!Post(D!StatusOf(w), "nothing", <<D!Null, w>>)
      PROVE  DoorInv'
  <2> DEFINE f == D!StatusOf(w)
             s == D!Said("nothing", <<D!Null, w>>)
             c == [f |-> f, said |-> s]
  <2>1. commands' = Append(commands, c) /\ reports' = reports /\ Len(commands) + Len(reports) < DoorWire
    BY <1>1 DEF D!Post, D!Wire
  <2>2. s.kind = "nothing" /\ f.type = "STATUS_REQUEST" /\ f.who = 8
    BY SaidParts DEF D!StatusOf, D!StatusRequest, D!Frame
  <2>3. c.f = f /\ c.said = s
    OBVIOUS
  <2> HIDE DEF c, f, s
  <2>4. BusOk(DoorWire)' /\ Grows(commands, c, commands')
    BY <2>1, BusPosts DEF DoorInv
  <2>5. DoorCommanded(c)
    BY <2>2, <2>3 DEF DoorCommanded
  <2>6. ASSUME NEW i \in DOMAIN commands' PROVE DoorCommanded(commands'[i])
    BY <2>4, <2>5 DEF Grows, DoorInv
  <2> QED
    BY <2>1, <2>4, <2>6 DEF DoorInv
<1>2. ASSUME NEW r, commands # <<>>, r.f \in D!Answers(Head(commands).f), r.said = Head(commands).said,
             commands' = Tail(commands), reports' = Append(reports, r)
      PROVE  DoorInv'
  <2>1. /\ BusOk(DoorWire)' /\ Shrinks(commands, commands') /\ Grows(reports, r, reports')
        /\ 1 \in DOMAIN commands /\ Head(commands) = commands[1]
    BY <1>2, BusAnswers DEF DoorInv
  <2> DEFINE c == commands[1]
  <2>2. DoorTold(r.f, r.said)
    <3>1. CASE \E k, d : c.said = D!Said(k, <<d, c.f.where>>) /\ DoorAsks(c.f, k, d)
      <4>1. PICK k, d : c.said = D!Said(k, <<d, c.f.where>>) /\ DoorAsks(c.f, k, d)
        BY <3>1
      <4>2. r.f = c.f
        BY <1>2, <2>1, <4>1, DoorAnswers DEF DoorAsks
      <4> QED
        BY <1>2, <2>1, <4>1, <4>2 DEF DoorAsks, DoorSays
    <3>2. CASE c.said.kind = "nothing" /\ c.f.type = "STATUS_REQUEST"
      <4>1. c.f.type # "STATUS"
        BY <3>2
      <4> QED
        BY <1>2, <2>1, <3>2, <4>1, DoorAnswers
    <3> QED
      BY <2>1, <3>1, <3>2 DEF DoorInv, DoorCommanded
  <2>3. \A i \in DOMAIN reports' : DoorTold(reports'[i].f, reports'[i].said)
    BY <2>1, <2>2 DEF Grows, DoorInv
  <2>4. \A i \in DOMAIN commands' : DoorCommanded(commands'[i])
    BY <2>1 DEF DoorInv, Shrinks
  <2> QED
    BY <2>1, <2>3, <2>4 DEF DoorInv
<1>3. CASE D!CarryOut(D!Answers(D!First))
  <2>1. PICK f \in D!Answers(Head(commands).f) :
          reports' = Append(reports, [f |-> f, said |-> Head(commands).said])
    BY <1>3 DEF D!CarryOut, D!First
  <2> DEFINE r == [f |-> f, said |-> Head(commands).said]
  <2>2. r.f = f /\ r.said = Head(commands).said
    OBVIOUS
  <2> HIDE DEF r
  <2> QED
    BY <1>2, <1>3, <2>1, <2>2 DEF D!CarryOut, r
<1>4. CASE D!Take
  <2>1. BusOk(DoorWire)' /\ Shrinks(reports, reports') /\ commands' = commands
    BY <1>4, BusTakes DEF DoorInv, D!Take
  <2> QED
    BY <2>1 DEF DoorInv, Shrinks
<1>5. CASE UNCHANGED <<commands, reports>>
  BY <1>5 DEF DoorInv, BusOk
<1> QED
  BY <1>1, <1>3, <1>4, <1>5, DoorCommands, CameraCommands, CallCommands, DoorHappens DEF D!Next

(* DoorEntry counts with FiniteSets of its own. *)
LEMMA SameCardinality == \A s : D!Cardinality(s) = Cardinality(s)
BY DEF D!Cardinality, Cardinality

LEMMA DoorSaysAll ==
  ASSUME DoorInv
  PROVE  D!TypeOK /\ D!EventsTell /\ D!TellsOneThing
<1>0. \A i \in DOMAIN reports : DoorTold(reports[i].f, reports[i].said)
  BY DEF DoorInv
<1>1. D!EventsTell
  BY <1>0 DEF DoorTold, D!EventsTell, D!Reported
<1>4. D!TellsOneThing
  <2>1. ASSUME NEW i \in DOMAIN reports, NEW f, f = reports[i].f
        PROVE  Cardinality(D!Event(f)) <=
                 IF f.what = 1 /\ D!Kind(f) \in D!PE /\ f.where = D!Broadcast THEN 2 ELSE 1
    BY <1>0, <2>1 DEF DoorTold
  <2> QED
    BY <2>1, SameCardinality DEF D!TellsOneThing, D!Reported
<1>2. D!Wire <= DoorWire
  BY DEF DoorInv, BusOk, D!Wire
<1>3. ASSUME NEW i \in DOMAIN commands, NEW f, f = commands[i].f
      PROVE  f.who \in {6, 8} /\ (f.type = "STATUS" /\ f.what = 1 => D!Type(f) \in {D!Audio, D!AudioVideo})
  BY <1>3 DEF DoorInv, DoorCommanded, DoorAsks
<1> QED
  BY <1>1, <1>2, <1>3, <1>4 DEF D!TypeOK


(********************************* Sound *********************************)

(* An event that tells nothing yet: of a sound system, the address alone.  *)
SoundKeys ==
  {"power", "volume", "louder", "seek", "tracks", "tune", "khz", "track", "text", "blank", "source",
   "asked", "channel", "route", "cleared", "target", "page"}
Hears(e) == DOMAIN e = SoundKeys /\ e.seek = 0 /\ e.tune = 0 /\ e.tracks = 0 /\ ~e.cleared

LEMMA SilentHears == Hears(S!Silent) /\ S!Silent.track = S!Null
BY DEF S!Silent, Hears, SoundKeys

(* An event with its target, and with its source or its route. *)
Placed(x, ta, so, ro) == [x EXCEPT !.target = ta, !.source = so, !.route = ro]
Named(x, ta, ro) == [x EXCEPT !.target = ta, !.route = ro]
Sourced(x, ta, so) == [x EXCEPT !.target = ta, !.source = so]
Targeted(x, ta) == [x EXCEPT !.target = ta]

LEMMA PlacedHears ==
  ASSUME NEW x, Hears(x), NEW ta, NEW so, NEW ro, NEW e, e = Placed(x, ta, so, ro)
  PROVE  Hears(e) /\ e.target = ta /\ e.source = so /\ e.route = ro
BY DEF Hears, SoundKeys, Placed

LEMMA NamedHears ==
  ASSUME NEW x, Hears(x), NEW ta, NEW ro, NEW e, e = Named(x, ta, ro)
  PROVE  Hears(e) /\ e.target = ta /\ e.route = ro
BY DEF Hears, SoundKeys, Named

LEMMA SourcedHears ==
  ASSUME NEW x, Hears(x), NEW ta, NEW so, NEW e, e = Sourced(x, ta, so)
  PROVE  Hears(e) /\ e.target = ta /\ e.source = so
BY DEF Hears, SoundKeys, Sourced

LEMMA TargetedHears ==
  ASSUME NEW x, Hears(x), NEW ta, NEW e, e = Targeted(x, ta)
  PROVE  Hears(e) /\ e.target = ta
BY DEF Hears, SoundKeys, Targeted

LEMMA SubjectHears ==
  ASSUME NEW w, NEW e, e = S!Subject(w), NEW so, so = (IF S!KindOf(w) = "source" THEN w - 100 ELSE S!Null),
         NEW ro, ro = (IF S!KindOf(w) = "routing" THEN <<(w \div 10) % 10, w % 10>> ELSE <<>>)
  PROVE  Hears(e) /\ e.target = S!KindOf(w) /\ e.source = so /\ e.route = ro
<1> DEFINE x == S!Silent
           k == S!KindOf(w)
<1>1. e = Placed(x, k, so, ro)
  BY DEF S!Subject, Placed
<1>2. Hears(x)
  BY SilentHears
<1> HIDE DEF x, k
<1>3. Hears(e) /\ e.target = k /\ e.source = so /\ e.route = ro
  BY <1>1, <1>2, PlacedHears
<1> QED
  BY <1>3 DEF k

LEMMA SubjectIsHeard ==
  ASSUME NEW w
  PROVE  Hears(S!Subject(w))
<1> DEFINE so == IF S!KindOf(w) = "source" THEN w - 100 ELSE S!Null
           ro == IF S!KindOf(w) = "routing" THEN <<(w \div 10) % 10, w % 10>> ELSE <<>>
           e == S!Subject(w)
<1>1. \A a, b, c : a = S!Subject(w) /\ b = so /\ c = ro => Hears(a)
  BY SubjectHears
<1> QED
  BY <1>1

LEMMA TargetHears ==
  ASSUME NEW w
  PROVE  /\ Hears(S!Target(w))
         /\ w[1] = 3 /\ Len(w) >= 3 => S!Target(w).target = "speaker"
         /\ w[1] = 5 /\ w[2] = 3 /\ Len(w) >= 4 => S!Target(w).target = "zone_control"
<1> DEFINE x == S!Silent
<1>0. Hears(x)
  BY SilentHears
<1> HIDE DEF x
<1>1. CASE w[1] = 3 /\ Len(w) >= 3
  <2>1. S!Target(w) = Named(x, "speaker", <<w[2], w[3]>>)
    BY <1>1 DEF S!Target, Named, Sourced, Targeted, x
  <2> QED
    BY <1>0, <1>1, <2>1, NamedHears
<1>2. CASE w[1] = 4 /\ Len(w) >= 2
  <2>1. S!Target(w) = Named(x, "area", << w[2] >>)
    BY <1>2 DEF S!Target, Named, Sourced, Targeted, x
  <2> QED
    BY <1>0, <1>2, <2>1, NamedHears
<1>3. CASE w[1] = 2 /\ Len(w) >= 2
  <2>1. S!Target(w) = Sourced(x, "source", w[2])
    BY <1>3 DEF S!Target, Named, Sourced, Targeted, x
  <2> QED
    BY <1>0, <1>3, <2>1, SourcedHears
<1>4. CASE w[1] = 5 /\ Len(w) >= 3 /\ w[2] = 2
  <2>1. S!Target(w) = Sourced(x, "source", w[3])
    BY <1>4 DEF S!Target, Named, Sourced, Targeted, x
  <2> QED
    BY <1>0, <1>4, <2>1, SourcedHears
<1>5. CASE w[1] = 5 /\ Len(w) >= 4 /\ w[2] = 3
  <2>1. S!Target(w) = Named(x, "zone_control", <<w[3], w[4]>>)
    BY <1>5 DEF S!Target, Named, Sourced, Targeted, x
  <2> QED
    BY <1>0, <1>5, <2>1, NamedHears
<1>6. CASE w[1] = 6
  <2>1. S!Target(w) = Targeted(x, "all_sources")
    BY <1>6 DEF S!Target, Named, Sourced, Targeted, x
  <2> QED
    BY <1>0, <1>6, <2>1, TargetedHears
<1>7. CASE /\ ~(w[1] = 3 /\ Len(w) >= 3) /\ ~(w[1] = 4 /\ Len(w) >= 2) /\ ~(w[1] = 2 /\ Len(w) >= 2)
           /\ ~(w[1] = 5 /\ Len(w) >= 3 /\ w[2] = 2) /\ ~(w[1] = 5 /\ Len(w) >= 4 /\ w[2] = 3)
           /\ w[1] # 6
  <2>1. S!Target(w) = x
    BY <1>7 DEF S!Target, Named, Sourced, Targeted, x
  <2> QED
    BY <1>0, <1>7, <2>1
<1> QED
  BY <1>1, <1>2, <1>3, <1>4, <1>5, <1>6, <1>7

(* One field of it is told. *)
PutPower(x, n) == [x EXCEPT !.power = n]
PutLouder(x, n) == [x EXCEPT !.louder = n]
PutVolume(x, n) == [x EXCEPT !.volume = n]
PutTracks(x, n) == [x EXCEPT !.tracks = n]
PutTrack(x, n) == [x EXCEPT !.track = n]
PutKhz(x, n) == [x EXCEPT !.khz = n]
PutText(x, n) == [x EXCEPT !.text = n]
PutAsked(x, n) == [x EXCEPT !.asked = n]
PutPage(x, n) == [x EXCEPT !.page = n]
PutSeek(x, n) == [x EXCEPT !.seek = n]
PutTune(x, n) == [x EXCEPT !.tune = n]

LEMMA FieldTold ==
  ASSUME NEW x, Hears(x), NEW n
  PROVE
    /\ PutPower(x, n).power = n
    /\ PutLouder(x, n).louder = n
    /\ PutVolume(x, n).volume = n
    /\ PutTracks(x, n).tracks = n
    /\ PutTrack(x, n).track = n
    /\ PutKhz(x, n).khz = n
    /\ PutText(x, n).text = n
    /\ PutAsked(x, n).asked = n
    /\ PutPage(x, n).page = n
    /\ PutSeek(x, n).seek = n
    /\ PutTune(x, n).tune = n
    /\ PutSeek(x, n).tune = 0 /\ PutTune(x, n).seek = 0
BY DEF Hears, SoundKeys, PutPower, PutLouder, PutVolume, PutTracks, PutTrack, PutKhz, PutText, PutAsked, PutPage, PutSeek, PutTune


(* What is to be so of a report: what its event tells, where it is from,   *)
(* and that it is a frame the sound systems know.                          *)
SoundTold(f, said) == S!Truthful(f, said) /\ S!Routed(f, said) /\ S!Legal(f, said)

(* Each kind of thing that is told. *)
LEMMA KindsRead ==
  ASSUME NEW f, NEW n, NEW d, d.n = n
  PROVE  /\ S!Event(f).power = n /\ d.kind = "power" => S!Truthful(f, d)
         /\ S!Event(f).louder = n /\ d.kind = "louder" => S!Truthful(f, d)
         /\ S!Event(f).seek = n /\ S!Event(f).tune = 0 /\ d.kind = "seek" => S!Truthful(f, d)
         /\ S!Event(f).tune = n /\ S!Event(f).seek = 0 /\ d.kind = "tune" => S!Truthful(f, d)
         /\ S!Event(f).tracks = n /\ d.kind = "tracks" => S!Truthful(f, d)
         /\ S!Event(f).volume = n /\ d.kind = "volume" => S!Truthful(f, d)
         /\ S!Event(f).track = n /\ d.kind = "track" => S!Truthful(f, d)
         /\ S!Event(f).text = n /\ d.kind = "text" => S!Truthful(f, d)
         /\ S!Event(f).blank /\ d.kind = "blank" => S!Truthful(f, d)
         /\ S!Event(f).asked = n /\ d.kind = "play" => S!Truthful(f, d)
         /\ S!Event(f).page = n /\ d.kind = "page" => S!Truthful(f, d)
         /\ S!Event(f).tracks = 0 /\ d.kind = "key" => S!Truthful(f, d)
<1> DEFINE e == S!Event(f)
<1>1. e.power = n /\ d.kind = "power" => S!Truthful(f, d)
  BY DEF S!Truthful
<1>2. e.louder = n /\ d.kind = "louder" => S!Truthful(f, d)
  BY DEF S!Truthful
<1>3. e.seek = n /\ e.tune = 0 /\ d.kind = "seek" => S!Truthful(f, d)
  BY DEF S!Truthful
<1>4. e.tune = n /\ e.seek = 0 /\ d.kind = "tune" => S!Truthful(f, d)
  BY DEF S!Truthful
<1>5. e.tracks = n /\ d.kind = "tracks" => S!Truthful(f, d)
  BY DEF S!Truthful
<1>6. e.volume = n /\ d.kind = "volume" => S!Truthful(f, d)
  BY DEF S!Truthful
<1>7. e.track = n /\ d.kind = "track" => S!Truthful(f, d)
  BY DEF S!Truthful
<1>8. e.text = n /\ d.kind = "text" => S!Truthful(f, d)
  BY DEF S!Truthful
<1>9. e.blank /\ d.kind = "blank" => S!Truthful(f, d)
  BY DEF S!Truthful
<1>10. e.asked = n /\ d.kind = "play" => S!Truthful(f, d)
  BY DEF S!Truthful
<1>11. e.page = n /\ d.kind = "page" => S!Truthful(f, d)
  BY DEF S!Truthful
<1>12. e.tracks = 0 /\ d.kind = "key" => S!Truthful(f, d)
  BY DEF S!Truthful
<1> QED
  BY <1>1, <1>2, <1>3, <1>4, <1>5, <1>6, <1>7, <1>8, <1>9, <1>10, <1>11, <1>12

LEMMA StationsRead ==
  ASSUME NEW f, NEW d, NEW n, d.n = n
  PROVE  /\ d.kind = "khz" /\ f.who = 16 /\ S!Event(f).khz = n => S!Truthful(f, d)
         /\ d.kind = "khz" /\ f.who # 16 /\ (S!IsFM(n) => S!Event(f).khz = n - (n % 10))
              => S!Truthful(f, d)
         /\ d.kind \in {"nothing", "source", "route", "amplifier"} => S!Truthful(f, d)
<1>1. d.kind = "khz" /\ f.who = 16 /\ S!Event(f).khz = n => S!Truthful(f, d)
  BY DEF S!Truthful
<1>2. d.kind = "khz" /\ f.who # 16 /\ (S!IsFM(n) => S!Event(f).khz = n - (n % 10))
        => S!Truthful(f, d)
  BY DEF S!Truthful
<1>3. d.kind = "nothing" => S!Truthful(f, d)
  BY DEF S!Truthful
<1>4. d.kind = "source" => S!Truthful(f, d)
  BY DEF S!Truthful
<1>5. d.kind = "route" => S!Truthful(f, d)
  BY DEF S!Truthful
<1>6. d.kind = "amplifier" => S!Truthful(f, d)
  BY DEF S!Truthful
<1> QED
  BY <1>1, <1>2, <1>3, <1>4, <1>5, <1>6

LEMMA PresetsRead ==
  ASSUME NEW f, NEW d, NEW n, NEW t, d.n = <<n, t>>
  PROVE  /\ d.kind = "station" /\ (S!IsFM(n) => S!Event(f).khz = n - (n % 10) /\ S!Event(f).track = t)
              => S!Truthful(f, d)
         /\ d.kind = "tuned" /\ S!Event(f).khz = n /\ S!Event(f).cleared = (t = 0) => S!Truthful(f, d)
<1> DEFINE p == d.n
<1>1. p[1] = n /\ p[2] = t
  OBVIOUS
<1> HIDE DEF p
<1>2. d.kind = "station" /\ (S!IsFM(n) => S!Event(f).khz = n - (n % 10) /\ S!Event(f).track = t)
        => S!Truthful(f, d)
  BY <1>1 DEF S!Truthful, p
<1>3. d.kind = "tuned" /\ S!Event(f).khz = n /\ S!Event(f).cleared = (t = 0) => S!Truthful(f, d)
  BY <1>1 DEF S!Truthful, p
<1> QED
  BY <1>2, <1>3

LEMMA KindsRoute ==
  ASSUME NEW f, NEW d
  PROVE  /\ d.kind \notin {"source", "route", "amplifier"} => S!Routed(f, d)
         /\ d.kind = "source" /\ S!SoundEvent(f).target = "source" /\ S!SoundEvent(f).source = d.n => S!Routed(f, d)
         /\ d.kind = "route" /\ S!SoundEvent(f).target = "routing" /\ S!SoundEvent(f).route = d.n => S!Routed(f, d)
         /\ d.kind = "amplifier" /\ S!SoundEvent(f).target = "zone" /\ S!Amplifier(d.n) = f.where => S!Routed(f, d)
<1>1. d.kind \notin {"source", "route", "amplifier"} => S!Routed(f, d)
  BY DEF S!Routed
<1>2. d.kind = "source" /\ S!SoundEvent(f).target = "source" /\ S!SoundEvent(f).source = d.n => S!Routed(f, d)
  BY DEF S!Routed
<1>3. d.kind = "route" /\ S!SoundEvent(f).target = "routing" /\ S!SoundEvent(f).route = d.n => S!Routed(f, d)
  BY DEF S!Routed
<1>4. d.kind = "amplifier" /\ S!SoundEvent(f).target = "zone" /\ S!Amplifier(d.n) = f.where => S!Routed(f, d)
  BY DEF S!Routed
<1> QED
  BY <1>1, <1>2, <1>3, <1>4

(* The invariant: what is under way tells what it is to tell. *)
SoundCommanded(c) == SoundTold(S!AsReply(c.f), c.said)
SoundInv ==
  /\ BusOk(SoundWire + 1)
  /\ \A i \in DOMAIN commands : SoundCommanded(commands[i])
  /\ \A i \in DOMAIN reports : SoundTold(reports[i].f, reports[i].said)

LEMMA SoundSaysAll ==
  ASSUME SoundInv
  PROVE  S!TypeOK /\ S!EventsTellTheTruth /\ S!RoutesAreRead
<1>1. S!Wire <= SoundWire + 1
  BY DEF SoundInv, BusOk, S!Wire
<1>2. ASSUME NEW i \in DOMAIN reports
      PROVE  /\ S!Legal(reports[i].f, reports[i].said) /\ S!Truthful(reports[i].f, reports[i].said)
             /\ S!Routed(reports[i].f, reports[i].said)
  BY DEF SoundInv, SoundTold
<1> QED
  BY <1>1, <1>2 DEF S!TypeOK, S!EventsTellTheTruth, S!RoutesAreRead, S!Reported


(* The frame f, in parts. *)
SoundStatus(f, who, what, p, w) ==
  f.type = "STATUS" /\ f.who = who /\ f.what = what /\ f.wpar = p /\ f.where = w

LEMMA SoundStatusIs ==
  ASSUME NEW who, NEW what, NEW p, NEW w, NEW f, f = S!Status(who, what, p, w)
  PROVE  SoundStatus(f, who, what, p, w) /\ S!AsReply(f) = f /\ f # S!Refuse
BY DEF S!Status, S!Frame, S!AsReply, S!Refuse, SoundStatus

(* What a WHAT of WHO 16 means. *)
Means16(what, kind, n) ==
  \/ kind = "power" /\ what \in {0, 3} /\ n = "on"
  \/ kind = "power" /\ what \in {10, 13} /\ n = "off"
  \/ kind = "power" /\ what = 100 /\ n = "busy"
  \/ kind = "louder" /\ what \in 1001 .. 1015 /\ n = what - 1000
  \/ kind = "louder" /\ what \in 1101 .. 1115 /\ n = 1100 - what
  \/ kind = "seek" /\ what = 5000 /\ n = 1
  \/ kind = "seek" /\ what = 5100 /\ n = -1
  \/ kind = "tracks" /\ what \in 6001 .. 6015 /\ n = what - 6000
  \/ kind = "tracks" /\ what \in 6101 .. 6115 /\ n = 6100 - what
  \/ kind = "tune" /\ what \in 5001 .. 5015 /\ n = what - 5000
  \/ kind = "tune" /\ what \in 5101 .. 5115 /\ n = 5100 - what

LEMMA Status16 ==
  ASSUME NEW what, NEW w, NEW f, SoundStatus(f, 16, what, <<>>, w)
  PROVE  S!Event(f) = S!SoundOfWhat(what, S!Subject(w))
BY DEF S!Event, S!SoundEvent, SoundStatus

LEMMA What16Tells ==
  ASSUME NEW what, NEW x, Hears(x), NEW e, e = S!SoundOfWhat(what, x), NEW n
  PROVE
    /\ what \in {0, 3} /\ n = "on" => e.power = n
    /\ what \in {10, 13} /\ n = "off" => e.power = n
    /\ what = 100 /\ n = "busy" => e.power = n
    /\ what \in 1001 .. 1015 /\ n = what - 1000 => e.louder = n
    /\ what \in 1101 .. 1115 /\ n = 1100 - what => e.louder = n
    /\ what = 5000 /\ n = 1 => e.seek = n /\ e.tune = 0
    /\ what = 5100 /\ n = -1 => e.seek = n /\ e.tune = 0
    /\ what \in 6001 .. 6015 /\ n = what - 6000 => e.tracks = n
    /\ what \in 6101 .. 6115 /\ n = 6100 - what => e.tracks = n
    /\ what \in 5001 .. 5015 /\ n = what - 5000 => e.tune = n /\ e.seek = 0
    /\ what \in 5101 .. 5115 /\ n = 5100 - what => e.tune = n /\ e.seek = 0
<1>1. what \in {0, 3} /\ n = "on" => e.power = n
  <2> SUFFICES ASSUME what \in {0, 3} /\ n = "on" PROVE e = PutPower(x, n)
    BY FieldTold
  <2> QED
    BY DEF S!SoundOfWhat, PutPower
<1>2. what \in {10, 13} /\ n = "off" => e.power = n
  <2> SUFFICES ASSUME what \in {10, 13} /\ n = "off" PROVE e = PutPower(x, n)
    BY FieldTold
  <2> QED
    BY DEF S!SoundOfWhat, PutPower
<1>3. what = 100 /\ n = "busy" => e.power = n
  <2> SUFFICES ASSUME what = 100 /\ n = "busy" PROVE e = PutPower(x, n)
    BY FieldTold
  <2> QED
    BY DEF S!SoundOfWhat, PutPower
<1>4. what \in 1001 .. 1015 /\ n = what - 1000 => e.louder = n
  <2> SUFFICES ASSUME what \in 1001 .. 1015 /\ n = what - 1000 PROVE e = PutLouder(x, n)
    BY FieldTold
  <2> QED
    BY DEF S!SoundOfWhat, PutLouder
<1>5. what \in 1101 .. 1115 /\ n = 1100 - what => e.louder = n
  <2> SUFFICES ASSUME what \in 1101 .. 1115 /\ n = 1100 - what PROVE e = PutLouder(x, n)
    BY FieldTold
  <2> QED
    BY DEF S!SoundOfWhat, PutLouder
<1>6. what = 5000 /\ n = 1 => e.seek = n /\ e.tune = 0
  <2> SUFFICES ASSUME what = 5000 /\ n = 1 PROVE e = PutSeek(x, n)
    BY FieldTold
  <2> QED
    BY DEF S!SoundOfWhat, PutSeek
<1>7. what = 5100 /\ n = -1 => e.seek = n /\ e.tune = 0
  <2> SUFFICES ASSUME what = 5100 /\ n = -1 PROVE e = PutSeek(x, n)
    BY FieldTold
  <2> QED
    BY DEF S!SoundOfWhat, PutSeek
<1>8. what \in 6001 .. 6015 /\ n = what - 6000 => e.tracks = n
  <2> SUFFICES ASSUME what \in 6001 .. 6015 /\ n = what - 6000 PROVE e = PutTracks(x, n)
    BY FieldTold
  <2> QED
    BY DEF S!SoundOfWhat, PutTracks
<1>9. what \in 6101 .. 6115 /\ n = 6100 - what => e.tracks = n
  <2> SUFFICES ASSUME what \in 6101 .. 6115 /\ n = 6100 - what PROVE e = PutTracks(x, n)
    BY FieldTold
  <2> QED
    BY DEF S!SoundOfWhat, PutTracks
<1>10. what \in 5001 .. 5015 /\ n = what - 5000 => e.tune = n /\ e.seek = 0
  <2> SUFFICES ASSUME what \in 5001 .. 5015 /\ n = what - 5000 PROVE e = PutTune(x, n)
    BY FieldTold
  <2> QED
    BY DEF S!SoundOfWhat, PutTune
<1>11. what \in 5101 .. 5115 /\ n = 5100 - what => e.tune = n /\ e.seek = 0
  <2> SUFFICES ASSUME what \in 5101 .. 5115 /\ n = 5100 - what PROVE e = PutTune(x, n)
    BY FieldTold
  <2> QED
    BY DEF S!SoundOfWhat, PutTune
<1> QED
  BY <1>1, <1>2, <1>3, <1>4, <1>5, <1>6, <1>7, <1>8, <1>9, <1>10, <1>11

LEMMA What16Legal ==
  ASSUME NEW what, NEW kind, NEW n, Means16(what, kind, n)
  PROVE  what % 100 \in 0 .. 15
BY DEF Means16

LEMMA Means16Kinds ==
  ASSUME NEW what, NEW kind, NEW n, Means16(what, kind, n)
  PROVE  kind \in {"power", "louder", "seek", "tracks", "tune"}
BY DEF Means16

LEMMA Means16Told ==
  ASSUME NEW what, NEW w, NEW f, SoundStatus(f, 16, what, <<>>, w), NEW d, Means16(what, d.kind, d.n)
  PROVE  SoundTold(f, d)
<1> DEFINE n == d.n
           kind == d.kind
           e == S!Event(f)
           x == S!Subject(w)
<1>1. Hears(x)
  BY SubjectHears
<1>2. e = S!SoundOfWhat(what, x)
  BY Status16
<1>3. Means16(what, kind, n) /\ d.n = n /\ d.kind = kind
  OBVIOUS
<1> HIDE DEF x, e, n, kind
<1>4. kind = "power" => e.power = n
  BY <1>1, <1>2, <1>3, What16Tells DEF Means16
<1>5. kind = "louder" => e.louder = n
  BY <1>1, <1>2, <1>3, What16Tells DEF Means16
<1>6. kind = "seek" => e.seek = n /\ e.tune = 0
  BY <1>1, <1>2, <1>3, What16Tells DEF Means16
<1>7. kind = "tracks" => e.tracks = n
  BY <1>1, <1>2, <1>3, What16Tells DEF Means16
<1>8. kind = "tune" => e.tune = n /\ e.seek = 0
  BY <1>1, <1>2, <1>3, What16Tells DEF Means16
<1>9. S!Truthful(f, d)
  BY <1>3, <1>4, <1>5, <1>6, <1>7, <1>8, Means16Kinds, KindsRead DEF e
<1>10. S!Routed(f, d)
  BY <1>3, Means16Kinds, KindsRoute
<1>11. S!Legal(f, d)
  BY <1>3, What16Legal DEF S!Legal, SoundStatus
<1> QED
  BY <1>9, <1>10, <1>11 DEF SoundTold


LEMMA SoundStarts ==
  ASSUME S!BusInit, FamiliesAssumption
  PROVE  SoundInv
<1>1. SoundWire + 1 \in Nat /\ commands = <<>> /\ reports = <<>>
  BY DEF FamiliesAssumption, S!SoundAssumption, S!BusInit
<1>2. BusOk(SoundWire + 1) /\ DOMAIN commands = {} /\ DOMAIN reports = {}
  BY <1>1, BusStarts
<1> QED
  BY <1>2 DEF SoundInv

LEMMA SoundSaidIs ==
  ASSUME NEW k, NEW n, NEW d, d = S!Said(k, n)
  PROVE  d.kind = k /\ d.n = n
BY DEF S!Said

LEMMA SoundBound ==
  ASSUME FamiliesAssumption
  PROVE  SoundWire \in Nat \ {0} /\ SoundNumbers \subseteq Nat /\ Frequencies \subseteq Nat
BY DEF FamiliesAssumption, S!SoundAssumption

(* A caller's command. *)
LEMMA SoundPosts ==
  ASSUME SoundInv, FamiliesAssumption, NEW f, NEW kind, NEW n, S!Post(f, kind, n),
         SoundTold(S!AsReply(f), S!Said(kind, n))
  PROVE  SoundInv'
<1> DEFINE c == [f |-> f, said |-> S!Said(kind, n)]
<1>1. commands' = Append(commands, c) /\ reports' = reports /\ Len(commands) + Len(reports) < SoundWire
  BY DEF S!Post, S!Wire
<1>2. c.f = f /\ c.said = S!Said(kind, n)
  OBVIOUS
<1> HIDE DEF c
<1>0. Len(commands) + Len(reports) < SoundWire + 1
  BY <1>1, SoundBound DEF SoundInv, BusOk
<1>3. BusOk(SoundWire + 1)' /\ Grows(commands, c, commands')
  BY <1>0, <1>1, BusPosts DEF SoundInv
<1>4. SoundCommanded(c)
  BY <1>2 DEF SoundCommanded
<1>5. ASSUME NEW i \in DOMAIN commands' PROVE SoundCommanded(commands'[i])
  BY <1>3, <1>4 DEF Grows, SoundInv
<1> QED
  BY <1>1, <1>3, <1>5 DEF SoundInv

(* What the plant tells by itself. *)
LEMMA SoundReports ==
  ASSUME SoundInv, FamiliesAssumption, NEW f, NEW kind, NEW n, S!Tell(f, kind, n),
         SoundTold(f, S!Said(kind, n))
  PROVE  SoundInv'
<1> DEFINE r == [f |-> f, said |-> S!Said(kind, n)]
<1>1. reports' = Append(reports, r) /\ commands' = commands /\ Len(commands) + Len(reports) < SoundWire
  BY DEF S!Tell, S!Wire
<1>2. r.f = f /\ r.said = S!Said(kind, n)
  OBVIOUS
<1> HIDE DEF r
<1>0. Len(commands) + Len(reports) < SoundWire + 1
  BY <1>1, SoundBound DEF SoundInv, BusOk
<1>3. BusOk(SoundWire + 1)' /\ Grows(reports, r, reports')
  BY <1>0, <1>1, BusTells DEF SoundInv
<1>4. ASSUME NEW i \in DOMAIN reports' PROVE SoundTold(reports'[i].f, reports'[i].said)
  BY <1>2, <1>3 DEF Grows, SoundInv
<1> QED
  BY <1>1, <1>3, <1>4 DEF SoundInv

(* The plant answers, and an answer is taken. *)
LEMMA SoundAnswers ==
  ASSUME SoundInv, S!CarryOut({S!AsReply(S!First)})
  PROVE  SoundInv'
<1> DEFINE f == S!AsReply(Head(commands).f)
           r == [f |-> f, said |-> Head(commands).said]
<1>1. commands # <<>> /\ commands' = Tail(commands) /\ reports' = Append(reports, r)
  BY DEF S!CarryOut, S!First
<1>2. r.f = f /\ r.said = Head(commands).said
  OBVIOUS
<1> HIDE DEF r
<1>3. /\ BusOk(SoundWire + 1)' /\ Shrinks(commands, commands') /\ Grows(reports, r, reports')
      /\ 1 \in DOMAIN commands /\ Head(commands) = commands[1]
  BY <1>1, BusAnswers DEF SoundInv
<1>4. SoundTold(r.f, r.said)
  BY <1>2, <1>3 DEF SoundInv, SoundCommanded
<1>5. ASSUME NEW i \in DOMAIN reports' PROVE SoundTold(reports'[i].f, reports'[i].said)
  BY <1>3, <1>4 DEF Grows, SoundInv
<1>6. ASSUME NEW i \in DOMAIN commands' PROVE SoundCommanded(commands'[i])
  BY <1>3 DEF Shrinks, SoundInv
<1> QED
  BY <1>3, <1>5, <1>6 DEF SoundInv

LEMMA SoundTakes ==
  ASSUME SoundInv, S!Take
  PROVE  SoundInv'
<1>1. BusOk(SoundWire + 1)' /\ Shrinks(reports, reports') /\ commands' = commands
  BY BusTakes DEF SoundInv, S!Take
<1> QED
  BY <1>1 DEF SoundInv, Shrinks

(* select_source: two frames at once, when nothing else is under way. *)
LEMMA SoundPostsTwo ==
  ASSUME SoundInv, FamiliesAssumption, S!Wire = 0, NEW c, NEW d,
         commands' = commands \o <<c, d>>, reports' = reports, SoundCommanded(c), SoundCommanded(d)
  PROVE  SoundInv'
<1>1. Len(commands) = 0 /\ Len(reports) = 0 /\ IsQueue(commands)
  BY DEF S!Wire, SoundInv, BusOk
<1>2. /\ Len(commands') = 2 /\ DOMAIN commands' = 1 .. 2 /\ commands'[1] = c /\ commands'[2] = d
      /\ IsQueue(commands')
  <2> DEFINE X == {commands[i] : i \in DOMAIN commands} \cup {c, d}
             s == <<c, d>>
             t == commands \o s
  <2>1. commands \in Seq(X)
    <3>1. commands \in Seq({commands[i] : i \in DOMAIN commands})
      BY <1>1 DEF IsQueue
    <3> QED
      BY <3>1
  <2>2. s \in Seq(X) /\ Len(s) = 2 /\ s[1] = c /\ s[2] = d
    OBVIOUS
  <2> HIDE DEF X, s
  <2>3. t \in Seq(X) /\ Len(t) = 2 /\ t[1] = s[1] /\ t[2] = s[2]
    BY <1>1, <2>1, <2>2
  <2>4. DOMAIN t = 1 .. 2
    BY <2>3
  <2>5. t = commands'
    BY DEF s
  <2> HIDE DEF t
  <2> QED
    BY <2>2, <2>3, <2>4, <2>5, QueueOf
<1>5. BusOk(SoundWire + 1)'
  BY <1>1, <1>2, SoundBound DEF BusOk, SoundInv
<1>6. ASSUME NEW i \in DOMAIN commands' PROVE SoundCommanded(commands'[i])
  BY <1>2
<1> QED
  BY <1>5, <1>6 DEF SoundInv


SoundReply(g, who, dim, v, w) ==
  g.type = "DIMENSION_REQUEST_REPLY" /\ g.who = who /\ g.where = w /\ g.dim = dim /\ g.val = v

LEMMA SoundReplyIs ==
  ASSUME NEW who, NEW dim, NEW v, NEW w
  PROVE  /\ SoundReply(S!DimensionReply(who, w, dim, v), who, dim, v, w)
         /\ SoundReply(S!AsReply(S!DimensionWriting(who, w, dim, v)), who, dim, v, w)
         /\ S!DimensionWriting(who, w, dim, v) # S!Refuse
<1>1. SoundReply(S!DimensionReply(who, w, dim, v), who, dim, v, w)
  BY DEF SoundReply, S!DimensionReply, S!Frame
<1>2. SoundReply(S!AsReply(S!DimensionWriting(who, w, dim, v)), who, dim, v, w)
  BY DEF SoundReply, S!DimensionReply, S!DimensionWriting, S!AsReply, S!Frame
<1>3. S!DimensionWriting(who, w, dim, v) # S!Refuse
  BY DEF S!DimensionWriting, S!Frame, S!Refuse
<1> QED
  BY <1>1, <1>2, <1>3

(* A value that is reported is no step, and is no matter of routes. *)
LEMMA ReplyTold ==
  ASSUME NEW g, NEW who, NEW dim, NEW v, NEW w, SoundReply(g, who, dim, v, w), NEW d,
         d.kind \notin {"source", "route", "amplifier"}, S!Truthful(g, d)
  PROVE  SoundTold(g, d)
<1>1. S!Routed(g, d)
  BY KindsRoute
<1>2. S!Legal(g, d)
  BY DEF S!Legal, SoundReply
<1> QED
  BY <1>1, <1>2 DEF SoundTold

LEMMA Reply16 ==
  ASSUME NEW g, NEW dim, NEW v, NEW w, SoundReply(g, 16, dim, v, w), Len(v) > 0
  PROVE  S!Event(g) = S!SoundOfDimension(dim, v, S!Subject(w))
<1>1. v # <<>>
  <2>1. Len(<<>>) = 0
    OBVIOUS
  <2> QED
    BY <2>1
<1> QED
  BY <1>1 DEF S!Event, S!SoundEvent, SoundReply

LEMMA OneLong ==
  ASSUME NEW a
  PROVE  Len(<<a>>) = 1 /\ <<a>>[1] = a
OBVIOUS
LEMMA TwoLong ==
  ASSUME NEW a, NEW b
  PROVE  Len(<<a, b>>) = 2 /\ <<a, b>>[1] = a /\ <<a, b>>[2] = b
OBVIOUS
LEMMA ThreeLong ==
  ASSUME NEW a, NEW b, NEW c
  PROVE  Len(<<a, b, c>>) = 3 /\ <<a, b, c>>[1] = a /\ <<a, b, c>>[2] = b /\ <<a, b, c>>[3] = c
OBVIOUS

LEMMA Value16Tells ==
  ASSUME NEW x, Hears(x), NEW v, NEW m, Len(v) \in {1, 2}
  PROVE  /\ v[1] = m => S!SoundOfDimension(1, v, x).volume = m
         /\ v[Len(v)] = m /\ m > 0 => S!SoundOfDimension(6, v, x).khz = m
         /\ v[Len(v)] = m /\ m >= 1 => S!SoundOfDimension(7, v, x).track = m
<1>1. v[1] = m => S!SoundOfDimension(1, v, x) = PutVolume(x, m)
  BY DEF S!SoundOfDimension, PutVolume
<1>2. v[Len(v)] = m /\ m > 0 => S!SoundOfDimension(6, v, x) = PutKhz(x, m)
  BY DEF S!SoundOfDimension, PutKhz
<1>3. v[Len(v)] = m /\ m >= 1 => S!SoundOfDimension(7, v, x) = PutTrack(x, m)
  BY DEF S!SoundOfDimension, PutTrack
<1> QED
  BY <1>1, <1>2, <1>3, FieldTold

LEMMA Volume16 ==
  ASSUME NEW g, NEW w, NEW m, SoundReply(g, 16, 1, <<m>>, w)
  PROVE  SoundTold(g, S!Said("volume", m))
<1> DEFINE v == <<m>>
           d == S!Said("volume", m)
<1>1. Len(v) = 1 /\ v[1] = m /\ SoundReply(g, 16, 1, v, w)
  BY OneLong
<1>2. d.kind = "volume" /\ d.n = m
  BY SoundSaidIs
<1> HIDE DEF v, d
<1>0. Hears(S!Subject(w)) /\ S!Event(g) = S!SoundOfDimension(1, v, S!Subject(w))
  BY <1>1, Reply16, SubjectIsHeard
<1>3. S!Event(g).volume = m
  BY <1>0, <1>1, Value16Tells
<1>4. S!Truthful(g, d)
  BY <1>2, <1>3, KindsRead
<1>5. SoundTold(g, d)
  BY <1>1, <1>2, <1>4, ReplyTold
<1> QED
  BY <1>5 DEF d

LEMMA Track16 ==
  ASSUME NEW g, NEW w, NEW m, m >= 1, SoundReply(g, 16, 7, <<m>>, w)
  PROVE  SoundTold(g, S!Said("track", m))
<1> DEFINE v == <<m>>
           d == S!Said("track", m)
<1>1. Len(v) = 1 /\ v[Len(v)] = m /\ SoundReply(g, 16, 7, v, w)
  BY OneLong
<1>2. d.kind = "track" /\ d.n = m
  BY SoundSaidIs
<1> HIDE DEF v, d
<1>0. Hears(S!Subject(w)) /\ S!Event(g) = S!SoundOfDimension(7, v, S!Subject(w))
  BY <1>1, Reply16, SubjectIsHeard
<1>3. S!Event(g).track = m
  BY <1>0, <1>1, Value16Tells
<1>4. S!Truthful(g, d)
  BY <1>2, <1>3, KindsRead
<1>5. SoundTold(g, d)
  BY <1>1, <1>2, <1>4, ReplyTold
<1> QED
  BY <1>5 DEF d

LEMMA Khz16 ==
  ASSUME NEW g, NEW w, NEW m, m > 0, SoundReply(g, 16, 6, <<0, m>>, w)
  PROVE  SoundTold(g, S!Said("khz", m))
<1> DEFINE v == <<0, m>>
           d == S!Said("khz", m)
<1>1. Len(v) = 2 /\ v[Len(v)] = m /\ SoundReply(g, 16, 6, v, w)
  BY TwoLong
<1>2. d.kind = "khz" /\ d.n = m
  BY SoundSaidIs
<1> HIDE DEF v, d
<1>0. Hears(S!Subject(w)) /\ S!Event(g) = S!SoundOfDimension(6, v, S!Subject(w))
  BY <1>1, Reply16, SubjectIsHeard
<1>3. S!Event(g).khz = m
  BY <1>0, <1>1, Value16Tells
<1>6. g.who = 16
  BY DEF SoundReply
<1>4. S!Truthful(g, d)
  BY <1>2, <1>3, <1>6, StationsRead
<1>5. SoundTold(g, d)
  BY <1>1, <1>2, <1>4, ReplyTold
<1> QED
  BY <1>5 DEF d

LEMMA Stored16 ==
  ASSUME NEW g, NEW w, NEW v, NEW m, SoundReply(g, 16, 10, v, w)
  PROVE  SoundTold(g, S!Said("nothing", m))
<1> DEFINE d == S!Said("nothing", m)
<1>1. d.kind = "nothing" /\ d.n = m
  BY SoundSaidIs
<1> HIDE DEF d
<1>2. S!Truthful(g, d)
  BY <1>1, StationsRead
<1>3. SoundTold(g, d)
  BY <1>1, <1>2, ReplyTold
<1> QED
  BY <1>3 DEF d


(* An address that is turned on. *)
LEMMA TurnedOn ==
  ASSUME NEW w, NEW f, f = S!TurnOn(w), NEW so, so = (IF S!KindOf(w) = "source" THEN w - 100 ELSE S!Null),
         NEW ro, ro = (IF S!KindOf(w) = "routing" THEN <<(w \div 10) % 10, w % 10>> ELSE <<>>)
  PROVE  /\ S!SoundEvent(f).target = S!KindOf(w) /\ S!SoundEvent(f).source = so
         /\ S!SoundEvent(f).route = ro /\ f.where = w /\ S!AsReply(f) = f /\ S!Legal(f, 0)
<1> DEFINE x == S!Subject(w)
<1>1. f = S!Status(16, 3, <<>>, w)
  BY DEF S!TurnOn, S!Tell16
<1>2. SoundStatus(f, 16, 3, <<>>, w) /\ S!AsReply(f) = f
  BY <1>1, SoundStatusIs
<1>3. Hears(x) /\ x.target = S!KindOf(w) /\ x.source = so /\ x.route = ro
  BY SubjectHears
<1>4. S!SoundEvent(f) = S!SoundOfWhat(3, x)
  BY <1>2 DEF S!SoundEvent, SoundStatus
<1> HIDE DEF x
<1>5. S!SoundOfWhat(3, x) = PutPower(x, "on")
  BY DEF S!SoundOfWhat, PutPower
<1>6. /\ PutPower(x, "on").target = x.target /\ PutPower(x, "on").source = x.source
      /\ PutPower(x, "on").route = x.route
  BY <1>3 DEF PutPower, Hears, SoundKeys
<1>7. S!Legal(f, 0)
  BY <1>2 DEF S!Legal, SoundStatus
<1> QED
  BY <1>2, <1>3, <1>4, <1>5, <1>6, <1>7 DEF SoundStatus

LEMMA RouteKindTold ==
  ASSUME NEW f, NEW d, d.kind \in {"source", "route", "amplifier"}, S!Routed(f, d), S!Legal(f, 0)
  PROVE  SoundTold(f, d)
<1>1. S!Truthful(f, d)
  BY StationsRead
<1>2. S!Legal(f, d)
  BY DEF S!Legal
<1> QED
  BY <1>1, <1>2 DEF SoundTold

LEMMA SourceTold ==
  ASSUME NEW s \in 1 .. 9, NEW f, f = S!TurnOn(100 + s)
  PROVE  SoundTold(f, S!Said("source", s)) /\ S!AsReply(f) = f
<1> DEFINE w == 100 + s
           d == S!Said("source", s)
<1>1. S!KindOf(w) = "source" /\ w - 100 = s
  BY DEF S!KindOf
<1>2. d.kind = "source" /\ d.n = s
  BY SoundSaidIs
<1> HIDE DEF w, d
<1>3. /\ S!SoundEvent(f).target = "source" /\ S!SoundEvent(f).source = s
      /\ S!AsReply(f) = f /\ S!Legal(f, 0)
  <2> DEFINE ro == IF S!KindOf(w) = "routing" THEN <<(w \div 10) % 10, w % 10>> ELSE <<>>
  <2>1. f = S!TurnOn(w)
    BY DEF w
  <2>2. \A so, r : so = (IF S!KindOf(w) = "source" THEN w - 100 ELSE S!Null) /\ r = ro =>
          /\ S!SoundEvent(f).target = S!KindOf(w) /\ S!SoundEvent(f).source = so
          /\ S!AsReply(f) = f /\ S!Legal(f, 0)
    BY <2>1, TurnedOn
  <2> HIDE DEF ro
  <2> QED
    BY <1>1, <2>2
<1>4. S!Routed(f, d)
  BY <1>2, <1>3, KindsRoute
<1>5. SoundTold(f, d)
  BY <1>2, <1>3, <1>4, RouteKindTold
<1> QED
  BY <1>3, <1>5 DEF d

LEMMA RouteTold ==
  ASSUME NEW en \in 1 .. 9, NEW s \in 0 .. 9, NEW f, f = S!TurnOn(100 + 10 * en + s)
  PROVE  SoundTold(f, S!Said("route", <<en, s>>)) /\ S!AsReply(f) = f
<1> DEFINE w == 100 + 10 * en + s
           d == S!Said("route", <<en, s>>)
<1>1. S!KindOf(w) = "routing"
  BY DEF S!KindOf
<1>2. (w \div 10) % 10 = en /\ w % 10 = s
  OBVIOUS
<1>3. d.kind = "route" /\ d.n = <<en, s>>
  BY SoundSaidIs
<1> HIDE DEF w, d
<1>4. /\ S!SoundEvent(f).target = "routing" /\ S!SoundEvent(f).route = <<en, s>>
      /\ S!AsReply(f) = f /\ S!Legal(f, 0)
  <2> DEFINE so == IF S!KindOf(w) = "source" THEN w - 100 ELSE S!Null
  <2>1. f = S!TurnOn(w)
    BY DEF w
  <2>2. \A z, r : z = so /\ r = (IF S!KindOf(w) = "routing" THEN <<(w \div 10) % 10, w % 10>> ELSE <<>>) =>
          /\ S!SoundEvent(f).target = S!KindOf(w) /\ S!SoundEvent(f).route = r
          /\ S!AsReply(f) = f /\ S!Legal(f, 0)
    BY <2>1, TurnedOn
  <2> HIDE DEF so
  <2> QED
    BY <1>1, <1>2, <2>2
<1>5. S!Routed(f, d)
  BY <1>3, <1>4, KindsRoute
<1>6. SoundTold(f, d)
  BY <1>3, <1>4, <1>5, RouteKindTold
<1> QED
  BY <1>4, <1>6 DEF d

LEMMA AmplifierTold ==
  ASSUME NEW a \in 1 .. 9, NEW p \in 1 .. 9, NEW f, f = S!TurnOn(10 * a + p)
  PROVE  SoundTold(f, S!Said("amplifier", <<3, a, p>>)) /\ S!AsReply(f) = f
<1> DEFINE w == 10 * a + p
           v == <<3, a, p>>
           d == S!Said("amplifier", v)
<1>1. S!KindOf(w) = "zone" /\ w = a * 10 + p
  BY DEF S!KindOf
<1>2. Len(v) = 3 /\ v[1] = 3 /\ v[2] = a /\ v[3] = p
  OBVIOUS
<1>3. d.kind = "amplifier" /\ d.n = v
  BY SoundSaidIs
<1> HIDE DEF v, d
<1>4. S!Amplifier(v) = w
  <2>1. S!Target(v).target = "speaker"
    BY <1>2, TargetHears
  <2> QED
    BY <1>1, <1>2, <2>1 DEF S!Amplifier
<1> HIDE DEF w
<1>5. /\ S!SoundEvent(f).target = "zone" /\ f.where = w /\ S!AsReply(f) = f /\ S!Legal(f, 0)
  <2> DEFINE so == IF S!KindOf(w) = "source" THEN w - 100 ELSE S!Null
             ro == IF S!KindOf(w) = "routing" THEN <<(w \div 10) % 10, w % 10>> ELSE <<>>
  <2>1. f = S!TurnOn(w)
    BY DEF w
  <2>2. \A z, r : z = so /\ r = ro =>
          S!SoundEvent(f).target = S!KindOf(w) /\ f.where = w /\ S!AsReply(f) = f /\ S!Legal(f, 0)
    BY <2>1, TurnedOn
  <2> HIDE DEF so, ro
  <2> QED
    BY <1>1, <2>2
<1>6. S!Routed(f, d)
  BY <1>3, <1>4, <1>5, KindsRoute
<1>7. SoundTold(f, d)
  BY <1>3, <1>5, <1>6, RouteKindTold
<1> QED
  BY <1>5, <1>7 DEF d, v

LEMMA SoundRoute ==
  ASSUME SoundInv, FamiliesAssumption, NEW w \in Int, S!Route(w)
  PROVE  SoundInv'
<1>1. PICK s \in SoundNumbers :
        /\ S!Wire = 0 /\ S!SelectSource(w, s) # <<>>
        /\ commands' = commands \o <<[f |-> S!SelectSource(w, s)[1], said |-> S!Said("source", s)],
                                     [f |-> S!SelectSource(w, s)[2], said |-> S!Said("route", <<w \div 10, s>>)]>>
        /\ reports' = reports
  BY DEF S!Route
<1> DEFINE en == w \div 10
           f == S!TurnOn(100 + s)
           g == S!TurnOn(100 + 10 * en + s)
           c == [f |-> f, said |-> S!Said("source", s)]
           d == [f |-> g, said |-> S!Said("route", <<en, s>>)]
<1>2. s \in 1 .. 9 /\ w \in 11 .. 99 /\ w % 10 # 0
  BY <1>1 DEF S!SelectSource
<1>3. S!SelectSource(w, s) = <<f, g>>
  BY <1>2 DEF S!SelectSource
<1>4. en \in 1 .. 9
  BY <1>2
<1>5. S!SelectSource(w, s)[1] = f /\ S!SelectSource(w, s)[2] = g
  BY <1>3
<1>6. commands' = commands \o <<c, d>>
  BY <1>1, <1>5
<1>7. c.f = f /\ c.said = S!Said("source", s) /\ d.f = g /\ d.said = S!Said("route", <<en, s>>)
  OBVIOUS
<1>8. SoundTold(f, S!Said("source", s)) /\ S!AsReply(f) = f
  BY <1>2, SourceTold
<1> HIDE DEF en
<1> HIDE DEF c, d, f
<1>9. SoundTold(g, S!Said("route", <<en, s>>)) /\ S!AsReply(g) = g
  <2>1. g = S!TurnOn(100 + 10 * en + s) /\ s \in 0 .. 9
    BY <1>2
  <2> HIDE DEF g
  <2> QED
    BY <2>1, <1>4, RouteTold
<1> HIDE DEF g
<1>10. SoundCommanded(c) /\ SoundCommanded(d)
  BY <1>7, <1>8, <1>9 DEF SoundCommanded
<1> QED
  BY <1>1, <1>6, <1>10, SoundPostsTwo


LEMMA SoundWants16 ==
  ASSUME SoundInv, FamiliesAssumption, NEW what, NEW w, NEW f, f = S!Tell16(w, what), NEW kind, NEW n,
         Means16(what, kind, n), S!Post(f, kind, n)
  PROVE  SoundInv'
<1> DEFINE d == S!Said(kind, n)
<1>1. SoundStatus(f, 16, what, <<>>, w) /\ S!AsReply(f) = f
  BY SoundStatusIs DEF S!Tell16
<1>2. d.kind = kind /\ d.n = n
  BY SoundSaidIs
<1> HIDE DEF d
<1>3. SoundTold(f, d)
  BY <1>1, <1>2, Means16Told
<1> QED
  BY <1>1, <1>3, SoundPosts DEF d

(* What is in range is what was to be sent. *)
LEMMA RangeKept ==
  ASSUME NEW n, NEW low, NEW high, NEW f, NEW kind, NEW m, S!Post(S!InRange(n, low, high, f), kind, m)
  PROVE  n \in low .. high /\ S!Post(f, kind, m)
<1>1. S!InRange(n, low, high, f) # S!Refuse
  BY DEF S!Post
<1>2. n \in low .. high /\ S!InRange(n, low, high, f) = f
  BY <1>1 DEF S!InRange
<1> QED
  BY <1>2

LEMMA SoundCommands ==
  ASSUME SoundInv, FamiliesAssumption, NEW w, S!CommandSound(w)
  PROVE  SoundInv'
<1>1. CASE S!Post(S!TurnOn(w), "power", "on")
  <2>1. Means16(3, "power", "on")
    BY DEF Means16
  <2>2. \A n : Means16(3, "power", n) /\ S!Post(S!Tell16(w, 3), "power", n) => SoundInv'
    BY SoundWants16
  <2> QED
    BY <1>1, <2>1, <2>2 DEF S!TurnOn
<1>2. CASE S!Post(S!TurnOff(w), "power", "off")
  <2>1. Means16(13, "power", "off")
    BY DEF Means16
  <2>2. \A n : Means16(13, "power", n) /\ S!Post(S!Tell16(w, 13), "power", n) => SoundInv'
    BY SoundWants16
  <2> QED
    BY <1>2, <2>1, <2>2 DEF S!TurnOff
<1>3. CASE S!Post(S!VolumeUp(w), "louder", 1)
  <2>1. Means16(1001, "louder", 1)
    BY DEF Means16
  <2>2. \A n : Means16(1001, "louder", n) /\ S!Post(S!Tell16(w, 1001), "louder", n) => SoundInv'
    BY SoundWants16
  <2> QED
    BY <1>3, <2>1, <2>2 DEF S!VolumeUp
<1>4. CASE S!Post(S!VolumeDown(w), "louder", -1)
  <2>1. Means16(1101, "louder", -1)
    BY DEF Means16
  <2>2. \A n : Means16(1101, "louder", n) /\ S!Post(S!Tell16(w, 1101), "louder", n) => SoundInv'
    BY SoundWants16
  <2> QED
    BY <1>4, <2>1, <2>2 DEF S!VolumeDown
<1>5. CASE S!Post(S!SeekUp(w), "seek", 1)
  <2>1. Means16(5000, "seek", 1)
    BY DEF Means16
  <2>2. \A n : Means16(5000, "seek", n) /\ S!Post(S!Tell16(w, 5000), "seek", n) => SoundInv'
    BY SoundWants16
  <2> QED
    BY <1>5, <2>1, <2>2 DEF S!SeekUp
<1>6. CASE S!Post(S!SeekDown(w), "seek", -1)
  <2>1. Means16(5100, "seek", -1)
    BY DEF Means16
  <2>2. \A n : Means16(5100, "seek", n) /\ S!Post(S!Tell16(w, 5100), "seek", n) => SoundInv'
    BY SoundWants16
  <2> QED
    BY <1>6, <2>1, <2>2 DEF S!SeekDown
<1>7. ASSUME NEW n \in SoundNumbers, S!Post(S!NextTrack(w, n), "tracks", n) PROVE SoundInv'
  <2>1. n \in 1 .. 15 /\ S!Post(S!Tell16(w, 6000 + n), "tracks", n)
    BY <1>7, RangeKept DEF S!NextTrack
  <2>2. Means16(6000 + n, "tracks", n)
    BY <2>1 DEF Means16
  <2> QED
    BY <2>1, <2>2, SoundWants16
<1>8. ASSUME NEW n \in SoundNumbers, S!Post(S!PreviousTrack(w, n), "tracks", -n) PROVE SoundInv'
  <2>1. n \in 1 .. 15 /\ S!Post(S!Tell16(w, 6100 + n), "tracks", -n)
    BY <1>8, RangeKept DEF S!PreviousTrack
  <2>2. Means16(6100 + n, "tracks", -n)
    BY <2>1 DEF Means16
  <2> QED
    BY <2>1, <2>2, SoundWants16
<1>9. ASSUME NEW n \in SoundNumbers, S!Post(S!StepFrequencyUp(w, n), "tune", n) PROVE SoundInv'
  <2>1. n \in 1 .. 15 /\ S!Post(S!Tell16(w, 5000 + n), "tune", n)
    BY <1>9, RangeKept DEF S!StepFrequencyUp
  <2>2. Means16(5000 + n, "tune", n)
    BY <2>1 DEF Means16
  <2> QED
    BY <2>1, <2>2, SoundWants16
<1>10. ASSUME NEW n \in SoundNumbers, S!Post(S!StepFrequencyDown(w, n), "tune", -n) PROVE SoundInv'
  <2>1. n \in 1 .. 15 /\ S!Post(S!Tell16(w, 5100 + n), "tune", -n)
    BY <1>10, RangeKept DEF S!StepFrequencyDown
  <2>2. Means16(5100 + n, "tune", -n)
    BY <2>1 DEF Means16
  <2> QED
    BY <2>1, <2>2, SoundWants16
<1>11. ASSUME NEW n \in SoundNumbers, S!Post(S!SetVolume(w, n), "volume", n) PROVE SoundInv'
  <2>1. S!Post(S!DimensionWriting(16, w, 1, << n >>), "volume", n)
    BY <1>11, RangeKept DEF S!SetVolume
  <2>2. SoundTold(S!AsReply(S!DimensionWriting(16, w, 1, << n >>)), S!Said("volume", n))
    BY SoundReplyIs, Volume16
  <2> QED
    BY <2>1, <2>2, SoundPosts
<1>12. ASSUME NEW n \in SoundNumbers, S!Post(S!SelectTrack(w, n), "track", n) PROVE SoundInv'
  <2>1. ~(n < 1) /\ S!Post(S!DimensionWriting(16, w, 7, << n >>), "track", n)
    BY <1>12 DEF S!SelectTrack, S!Post
  <2>2. n >= 1
    BY <2>1, SoundBound
  <2>3. SoundTold(S!AsReply(S!DimensionWriting(16, w, 7, << n >>)), S!Said("track", n))
    BY <2>2, SoundReplyIs, Track16
  <2> QED
    BY <2>1, <2>3, SoundPosts
<1>13. ASSUME NEW n \in SoundNumbers, S!Post(S!StoreStation(w, n), "nothing", n) PROVE SoundInv'
  <2>1. S!Post(S!DimensionWriting(16, w, 10, << n >>), "nothing", n)
    BY <1>13, RangeKept DEF S!StoreStation
  <2>2. SoundTold(S!AsReply(S!DimensionWriting(16, w, 10, << n >>)), S!Said("nothing", n))
    BY SoundReplyIs, Stored16
  <2> QED
    BY <2>1, <2>2, SoundPosts
<1>14. ASSUME NEW khz \in Frequencies, S!Post(S!SetFrequency(w, khz), "khz", khz) PROVE SoundInv'
  <2>1. ~(khz <= 0) /\ S!Post(S!DimensionWriting(16, w, 6, <<0, khz>>), "khz", khz)
    BY <1>14 DEF S!SetFrequency, S!Post
  <2>2. khz > 0
    BY <2>1, SoundBound
  <2>3. SoundTold(S!AsReply(S!DimensionWriting(16, w, 6, <<0, khz>>)), S!Said("khz", khz))
    BY <2>2, SoundReplyIs, Khz16
  <2> QED
    BY <2>1, <2>3, SoundPosts
<1> QED
  BY <1>1, <1>2, <1>3, <1>4, <1>5, <1>6, <1>7, <1>8, <1>9, <1>10, <1>11, <1>12, <1>13, <1>14
     DEF S!CommandSound


PutPlay(x, po, so) == [x EXCEPT !.power = po, !.asked = so]
LEMMA PlayTold ==
  ASSUME NEW x, Hears(x), NEW po, NEW so
  PROVE  PutPlay(x, po, so).power = po /\ PutPlay(x, po, so).asked = so
BY DEF PutPlay, Hears, SoundKeys

LEMMA NotEmpty ==
  ASSUME NEW p, Len(p) # 0
  PROVE  p # <<>>
<1>1. Len(<<>>) = 0
  OBVIOUS
<1> QED
  BY <1>1

(* What an event tells of one kind of thing. *)
HasTold(e, kind, n) ==
  /\ kind = "power" => e.power = n
  /\ kind = "louder" => e.louder = n
  /\ kind = "seek" => e.seek = n /\ e.tune = 0
  /\ kind = "tune" => e.tune = n /\ e.seek = 0
  /\ kind = "tracks" => e.tracks = n
  /\ kind = "track" => e.track = n
  /\ kind = "page" => e.page = n
  /\ kind = "play" => e.asked = n
  /\ kind = "key" => e.tracks = 0

(* A WHAT of WHO 22 without parameters. *)
Means22(what, kind, n, ta) ==
  \/ kind = "power" /\ what = 1 /\ n = "on"
  \/ kind = "power" /\ what = 0 /\ n = "off"
  \/ kind = "louder" /\ what = 3 /\ n = 1
  \/ kind = "louder" /\ what = 4 /\ n = -1
  \/ kind = "seek" /\ what = 5 /\ n = 1
  \/ kind = "seek" /\ what = 6 /\ n = -1
  \/ kind = "tracks" /\ what = 9 /\ n = 1 /\ ta # "zone_control"
  \/ kind = "tracks" /\ what \in {10, 12} /\ n = -1
  \/ kind = "tracks" /\ what = 11 /\ n = 1
  \/ kind = "key" /\ what = 9 /\ ta = "zone_control"

LEMMA Bare22Tells ==
  ASSUME NEW x, Hears(x), NEW what, NEW e, e = S!DiffusionOfWhat(what, <<>>, x), NEW n, NEW ta, ta = x.target,
         NEW kind, Means22(what, kind, n, ta)
  PROVE  HasTold(e, kind, n)
<1>1. what = 1 /\ n = "on" => e.power = n
  <2> SUFFICES ASSUME what = 1 /\ n = "on" PROVE e = PutPlay(x, "on", S!Null)
    BY FieldTold, PlayTold DEF Hears
  <2> QED
    BY DEF S!DiffusionOfWhat, PutPlay
<1>2. what = 0 /\ n = "off" => e.power = n
  <2> SUFFICES ASSUME what = 0 /\ n = "off" PROVE e = PutPower(x, "off")
    BY FieldTold, PlayTold DEF Hears
  <2> QED
    BY DEF S!DiffusionOfWhat, PutPower
<1>3. what = 3 /\ n = 1 => e.louder = n
  <2> SUFFICES ASSUME what = 3 /\ n = 1 PROVE e = PutLouder(x, 1)
    BY FieldTold, PlayTold DEF Hears
  <2> QED
    BY DEF S!DiffusionOfWhat, PutLouder
<1>4. what = 4 /\ n = -1 => e.louder = n
  <2> SUFFICES ASSUME what = 4 /\ n = -1 PROVE e = PutLouder(x, -1)
    BY FieldTold, PlayTold DEF Hears
  <2> QED
    BY DEF S!DiffusionOfWhat, PutLouder
<1>5. what = 5 /\ n = 1 => e.seek = n /\ e.tune = 0
  <2> SUFFICES ASSUME what = 5 /\ n = 1 PROVE e = PutSeek(x, 1)
    BY FieldTold, PlayTold DEF Hears
  <2> QED
    BY DEF S!DiffusionOfWhat, PutSeek
<1>6. what = 6 /\ n = -1 => e.seek = n /\ e.tune = 0
  <2> SUFFICES ASSUME what = 6 /\ n = -1 PROVE e = PutSeek(x, -1)
    BY FieldTold, PlayTold DEF Hears
  <2> QED
    BY DEF S!DiffusionOfWhat, PutSeek
<1>7. what = 9 /\ n = 1 /\ ta # "zone_control" => e.tracks = n
  <2> SUFFICES ASSUME what = 9 /\ n = 1 /\ ta # "zone_control" PROVE e = PutTracks(x, 1)
    BY FieldTold, PlayTold DEF Hears
  <2> QED
    BY DEF S!DiffusionOfWhat, PutTracks
<1>8. what \in {10, 12} /\ n = -1 => e.tracks = n
  <2> SUFFICES ASSUME what \in {10, 12} /\ n = -1 PROVE e = PutTracks(x, -1)
    BY FieldTold, PlayTold DEF Hears
  <2> QED
    BY DEF S!DiffusionOfWhat, PutTracks
<1>9. what = 11 /\ n = 1 => e.tracks = n
  <2> SUFFICES ASSUME what = 11 /\ n = 1 PROVE e = PutTracks(x, 1)
    BY FieldTold, PlayTold DEF Hears
  <2> QED
    BY DEF S!DiffusionOfWhat, PutTracks
<1>10. what = 9 /\ ta = "zone_control" => e.tracks = 0
  <2> SUFFICES ASSUME what = 9 /\ ta = "zone_control" PROVE e = x
    BY FieldTold, PlayTold DEF Hears
  <2> QED
    BY DEF S!DiffusionOfWhat
<1> QED
  BY <1>1, <1>2, <1>3, <1>4, <1>5, <1>6, <1>7, <1>8, <1>9, <1>10 DEF Means22, HasTold

(* A WHAT of WHO 22 with parameters. *)
Asks22(what, p, kind, n) ==
  \/ kind = "power" /\ what = 0 /\ n = "off_atomic" /\ Len(p) = 2
  \/ kind = "play" /\ what = 1 /\ Len(p) = 2 /\ n = p[2]
  \/ kind = "play" /\ what = 35 /\ Len(p) = 3 /\ n = p[3]
  \/ kind = "louder" /\ what = 3 /\ Len(p) = 1 /\ n = p[1] /\ n \in 1 .. 31
  \/ kind = "louder" /\ what = 4 /\ Len(p) = 1 /\ n = -p[1] /\ p[1] \in 1 .. 31
  \/ kind = "tune" /\ what = 5 /\ Len(p) = 1 /\ n = p[1] /\ p[1] \in 1 .. 15
  \/ kind = "tune" /\ what = 6 /\ Len(p) = 1 /\ n = -p[1] /\ p[1] \in 1 .. 15
  \/ kind = "page" /\ what \in {19, 20} /\ Len(p) = 1 /\ n = p[1]
  \/ kind = "track" /\ what = 33 /\ Len(p) = 1 /\ n = p[1]

LEMMA Params22Tells ==
  ASSUME NEW x, Hears(x), NEW what, NEW p, NEW e, e = S!DiffusionOfWhat(what, p, x), NEW n, p # <<>>,
         NEW kind, Asks22(what, p, kind, n)
  PROVE  HasTold(e, kind, n)
<1>1. what = 0 /\ n = "off_atomic" /\ Len(p) = 2 => e.power = n
  <2> SUFFICES ASSUME what = 0 /\ n = "off_atomic" /\ Len(p) = 2 PROVE e = PutPower(x, "off_atomic")
    BY FieldTold, PlayTold
  <2> QED
    BY DEF S!DiffusionOfWhat, PutPower
<1>2. what = 1 /\ Len(p) = 2 /\ n = p[2] => e.asked = n
  <2> SUFFICES ASSUME what = 1 /\ Len(p) = 2 /\ n = p[2] PROVE e = PutPlay(x, "on", n)
    BY FieldTold, PlayTold
  <2> QED
    BY DEF S!DiffusionOfWhat, PutPlay
<1>3. what = 35 /\ Len(p) = 3 /\ n = p[3] => e.asked = n
  <2> SUFFICES ASSUME what = 35 /\ Len(p) = 3 /\ n = p[3] PROVE e = PutAsked(x, n)
    BY FieldTold, PlayTold
  <2> QED
    BY DEF S!DiffusionOfWhat, PutAsked
<1>4. what = 3 /\ Len(p) = 1 /\ n = p[1] /\ n \in 1 .. 31 => e.louder = n
  <2> SUFFICES ASSUME what = 3 /\ Len(p) = 1 /\ n = p[1] /\ n \in 1 .. 31 PROVE e = PutLouder(x, n)
    BY FieldTold, PlayTold
  <2>1. p[1] \in 1 .. 31 /\ 1 * p[1] = n
    OBVIOUS
  <2>2. S!DiffusionOfWhat(3, p, x) = PutLouder(x, 1 * p[1])
    BY DEF S!DiffusionOfWhat, PutLouder
  <2> QED
    BY <2>1, <2>2
<1>5. what = 4 /\ Len(p) = 1 /\ n = -p[1] /\ p[1] \in 1 .. 31 => e.louder = n
  <2> SUFFICES ASSUME what = 4 /\ Len(p) = 1 /\ n = -p[1] /\ p[1] \in 1 .. 31 PROVE e = PutLouder(x, n)
    BY FieldTold, PlayTold
  <2>1. (IF 4 \in {3, 5, 9, 11} THEN 1 ELSE -1) * (IF p = <<>> THEN 1 ELSE p[1]) = n
    <3>1. PICK m : m = p[1]
      OBVIOUS
    <3>2. m \in 1 .. 31 /\ n = -m
      BY <3>1
    <3>3. (IF p = <<>> THEN 1 ELSE p[1]) = m
      BY <3>1, Zenon
    <3>4. (IF 4 \in {3, 5, 9, 11} THEN 1 ELSE -1) * m = n
      BY <3>2
    <3> QED
      BY <3>3, <3>4
  <2>2. S!DiffusionOfWhat(4, p, x)
          = PutLouder(x, (IF 4 \in {3, 5, 9, 11} THEN 1 ELSE -1) * (IF p = <<>> THEN 1 ELSE p[1]))
    BY DEF S!DiffusionOfWhat, PutLouder
  <2> QED
    BY <2>1, <2>2
<1>6. what = 5 /\ Len(p) = 1 /\ n = p[1] /\ p[1] \in 1 .. 15 => e.tune = n /\ e.seek = 0
  <2> SUFFICES ASSUME what = 5 /\ Len(p) = 1 /\ n = p[1] /\ p[1] \in 1 .. 15 PROVE e = PutTune(x, n)
    BY FieldTold, PlayTold
  <2> QED
    BY DEF S!DiffusionOfWhat, PutTune
<1>7. what = 6 /\ Len(p) = 1 /\ n = -p[1] /\ p[1] \in 1 .. 15 => e.tune = n /\ e.seek = 0
  <2> SUFFICES ASSUME what = 6 /\ Len(p) = 1 /\ n = -p[1] /\ p[1] \in 1 .. 15 PROVE e = PutTune(x, n)
    BY FieldTold, PlayTold
  <2> QED
    BY DEF S!DiffusionOfWhat, PutTune
<1>8. what \in {19, 20} /\ Len(p) = 1 /\ n = p[1] => e.page = n
  <2> SUFFICES ASSUME what \in {19, 20} /\ Len(p) = 1 /\ n = p[1] PROVE e = PutPage(x, n)
    BY FieldTold, PlayTold
  <2> QED
    BY DEF S!DiffusionOfWhat, PutPage
<1>9. what = 33 /\ Len(p) = 1 /\ n = p[1] => e.track = n
  <2> SUFFICES ASSUME what = 33 /\ Len(p) = 1 /\ n = p[1] PROVE e = PutTrack(x, n)
    BY FieldTold, PlayTold
  <2> QED
    BY DEF S!DiffusionOfWhat, PutTrack
<1> QED
  BY <1>1, <1>2, <1>3, <1>4, <1>5, <1>6, <1>7, <1>8, <1>9 DEF Asks22, HasTold

LEMMA Means22Told ==
  ASSUME NEW what, NEW w, NEW f, SoundStatus(f, 22, what, <<>>, w), NEW d,
         Means22(what, d.kind, d.n, S!Target(w).target)
  PROVE  SoundTold(f, d)
<1> DEFINE n == d.n
           kind == d.kind
           e == S!Event(f)
           x == S!Target(w)
           ta == x.target
<1>1. Hears(x)
  BY TargetHears
<1>2. e = S!DiffusionOfWhat(what, <<>>, x)
  BY DEF S!Event, S!DiffusionEvent, SoundStatus
<1>3. Means22(what, kind, n, ta) /\ d.n = n /\ d.kind = kind /\ ta = x.target
  OBVIOUS
<1> HIDE DEF x, e, n, kind, ta
<1>5. HasTold(e, kind, n)
  BY <1>1, <1>2, <1>3, Bare22Tells
<1>20. kind \in {"power", "louder", "seek", "tracks", "key"}
  BY <1>3 DEF Means22
<1>21. S!Truthful(f, d)
  BY <1>3, <1>20, <1>5, KindsRead DEF e, HasTold
<1>22. S!Routed(f, d)
  BY <1>3, <1>20, KindsRoute
<1>23. S!Legal(f, d)
  BY DEF S!Legal, SoundStatus
<1> QED
  BY <1>21, <1>22, <1>23 DEF SoundTold

LEMMA Asks22Told ==
  ASSUME NEW what, NEW w, NEW p, NEW f, SoundStatus(f, 22, what, p, w), NEW d,
         Asks22(what, p, d.kind, d.n)
  PROVE  SoundTold(f, d)
<1> DEFINE n == d.n
           kind == d.kind
           e == S!Event(f)
           x == S!Target(w)
           ta == x.target
<1>1. Hears(x)
  BY TargetHears
<1>2. e = S!DiffusionOfWhat(what, p, x)
  BY DEF S!Event, S!DiffusionEvent, SoundStatus
<1>3. Asks22(what, p, kind, n) /\ d.n = n /\ d.kind = kind /\ ta = x.target
  OBVIOUS
<1> HIDE DEF x, e, n, kind, ta
<1>4. p # <<>>
  BY <1>3, NotEmpty DEF Asks22
<1>5. HasTold(e, kind, n)
  BY <1>1, <1>2, <1>3, <1>4, Params22Tells
<1>20. kind \in {"power", "play", "louder", "tune", "page", "track"}
  BY <1>3 DEF Asks22
<1>21. S!Truthful(f, d)
  BY <1>3, <1>20, <1>5, KindsRead DEF e, HasTold
<1>22. S!Routed(f, d)
  BY <1>3, <1>20, KindsRoute
<1>23. S!Legal(f, d)
  <2>1. what \in {5, 6} => p[1] \in 1 .. 15
    BY <1>3 DEF Asks22
  <2> QED
    BY <2>1 DEF S!Legal, SoundStatus
<1> QED
  BY <1>21, <1>22, <1>23 DEF SoundTold


(* The unit of a frequency. *)
LEMMA KhzOfTens ==
  ASSUME NEW n \in Nat, S!IsFM(n), NEW q, q = n \div 10
  PROVE  S!Khz(q) = n - (n % 10) /\ S!Khz(q) # 0
<1>1. q \in Int /\ 10 * q = n - (n % 10) /\ n % 10 \in 0 .. 9
  OBVIOUS
<1>2. n >= 87500 /\ n <= 108000
  BY DEF S!IsFM
<1>3. S!IsFM(10 * q) /\ 10 * q # 0
  BY <1>1, <1>2 DEF S!IsFM
<1>4. S!Khz(q) = 10 * q
  BY <1>3 DEF S!Khz
<1> QED
  BY <1>1, <1>3, <1>4

LEMMA KhzOfHundreds ==
  ASSUME NEW q \in Nat, q >= 875, q <= 1080
  PROVE  S!Khz(q) = 100 * q /\ S!Khz(q) # 0
<1>1. ~S!IsFM(10 * q) /\ S!IsFM(100 * q)
  BY DEF S!IsFM
<1>2. S!Khz(q) = 100 * q
  BY <1>1 DEF S!Khz
<1> QED
  BY <1>2

LEMMA TunedTells ==
  ASSUME NEW x, Hears(x), NEW dim, NEW v, NEW khz, khz # 0,
         khz = IF Len(v) = (IF dim = 5 THEN 2 ELSE 3) THEN S!Khz(v[2]) ELSE 0,
         NEW e, e = S!Tuned(dim, v, x)
  PROVE  /\ e.khz = khz /\ e.track = (IF dim = 11 /\ v[3] > 0 THEN v[3] ELSE S!Null)
         /\ e.cleared = (dim = 11 /\ v[3] = 0)
<1>1. e = [x EXCEPT !.khz = khz, !.track = IF dim = 11 /\ v[3] > 0 THEN v[3] ELSE S!Null,
                    !.cleared = (dim = 11 /\ v[3] = 0)]
  BY DEF S!Tuned
<1>2. "khz" \in DOMAIN x /\ "track" \in DOMAIN x /\ "cleared" \in DOMAIN x
  BY DEF Hears, SoundKeys
<1> QED
  BY <1>1, <1>2


LEMMA Reply22 ==
  ASSUME NEW g, NEW dim, NEW v, NEW w, SoundReply(g, 22, dim, v, w), Len(v) > 0
  PROVE  S!Event(g) = S!DiffusionOfDimension(dim, v, S!Target(w))
<1>1. v # <<>>
  BY NotEmpty
<1> QED
  BY <1>1 DEF S!Event, S!DiffusionEvent, SoundReply

LEMMA Value22Tells ==
  ASSUME NEW x, Hears(x), NEW v, NEW m, v[1] = m
  PROVE  /\ m \in 0 .. 31 => S!DiffusionOfDimension(1, v, x).volume = m
         /\ Len(v) = 1 /\ m >= 1 => S!DiffusionOfDimension(6, v, x).track = m
<1>1. m \in 0 .. 31 => S!DiffusionOfDimension(1, v, x) = PutVolume(x, m)
  BY DEF S!DiffusionOfDimension, PutVolume
<1>2. Len(v) = 1 /\ m >= 1 => S!DiffusionOfDimension(6, v, x) = PutTrack(x, m)
  BY DEF S!DiffusionOfDimension, PutTrack
<1> QED
  BY <1>1, <1>2, FieldTold

LEMMA Tuner22Tells ==
  ASSUME NEW x, NEW v, NEW dim \in {5, 11}
  PROVE  S!DiffusionOfDimension(dim, v, x) = S!Tuned(dim, v, x)
<1>1. S!DiffusionOfDimension(5, v, x) = S!Tuned(5, v, x)
  BY DEF S!DiffusionOfDimension
<1>2. S!DiffusionOfDimension(11, v, x) = S!Tuned(11, v, x)
  BY DEF S!DiffusionOfDimension
<1> QED
  BY <1>1, <1>2

LEMMA Volume22 ==
  ASSUME NEW g, NEW w, NEW m \in 0 .. 31, SoundReply(g, 22, 1, <<m>>, w)
  PROVE  SoundTold(g, S!Said("volume", m))
<1> DEFINE v == <<m>>
           d == S!Said("volume", m)
<1>1. Len(v) = 1 /\ v[1] = m /\ SoundReply(g, 22, 1, v, w)
  BY OneLong
<1>2. d.kind = "volume" /\ d.n = m
  BY SoundSaidIs
<1> HIDE DEF v, d
<1>3. Hears(S!Target(w)) /\ S!Event(g) = S!DiffusionOfDimension(1, v, S!Target(w))
  BY <1>1, Reply22, TargetHears
<1>4. S!Event(g).volume = m
  BY <1>1, <1>3, Value22Tells
<1>5. S!Truthful(g, d)
  BY <1>2, <1>4, KindsRead
<1>6. SoundTold(g, d)
  BY <1>1, <1>2, <1>5, ReplyTold
<1> QED
  BY <1>6 DEF d

LEMMA Track22 ==
  ASSUME NEW g, NEW w, NEW m, m >= 1, SoundReply(g, 22, 6, <<m>>, w)
  PROVE  SoundTold(g, S!Said("track", m))
<1> DEFINE v == <<m>>
           d == S!Said("track", m)
<1>1. Len(v) = 1 /\ v[1] = m /\ SoundReply(g, 22, 6, v, w)
  BY OneLong
<1>2. d.kind = "track" /\ d.n = m
  BY SoundSaidIs
<1> HIDE DEF v, d
<1>3. Hears(S!Target(w)) /\ S!Event(g) = S!DiffusionOfDimension(6, v, S!Target(w))
  BY <1>1, Reply22, TargetHears
<1>4. S!Event(g).track = m
  BY <1>1, <1>3, Value22Tells
<1>5. S!Truthful(g, d)
  BY <1>2, <1>4, KindsRead
<1>6. SoundTold(g, d)
  BY <1>1, <1>2, <1>5, ReplyTold
<1> QED
  BY <1>6 DEF d

LEMMA Tuner22 ==
  ASSUME NEW g, NEW w, NEW dim \in {5, 11}, NEW v, SoundReply(g, 22, dim, v, w),
         Len(v) = (IF dim = 5 THEN 2 ELSE 3), NEW khz, khz # 0, khz = S!Khz(v[2])
  PROVE  /\ S!Event(g).khz = khz
         /\ dim = 11 /\ v[3] > 0 => S!Event(g).track = v[3]
         /\ dim = 11 => S!Event(g).cleared = (v[3] = 0)
<1>1. Len(v) > 0
  OBVIOUS
<1>2. Hears(S!Target(w)) /\ S!Event(g) = S!DiffusionOfDimension(dim, v, S!Target(w))
  BY <1>1, Reply22, TargetHears
<1>3. S!Event(g) = S!Tuned(dim, v, S!Target(w))
  BY <1>2, Tuner22Tells
<1>4. khz = IF Len(v) = (IF dim = 5 THEN 2 ELSE 3) THEN S!Khz(v[2]) ELSE 0
  OBVIOUS
<1> QED
  BY <1>2, <1>3, <1>4, TunedTells

LEMMA Khz22 ==
  ASSUME NEW g, NEW w, NEW band, NEW khz \in Nat, SoundReply(g, 22, 5, <<band, khz \div 10>>, w)
  PROVE  SoundTold(g, S!Said("khz", khz))
<1> DEFINE q == khz \div 10
           v == <<band, q>>
           d == S!Said("khz", khz)
<1>1. Len(v) = 2 /\ v[2] = q /\ SoundReply(g, 22, 5, v, w)
  BY TwoLong
<1>2. d.kind = "khz" /\ d.n = khz
  BY SoundSaidIs
<1> HIDE DEF v, d
<1>3. ASSUME S!IsFM(khz) PROVE S!Event(g).khz = khz - (khz % 10)
  <2> DEFINE r == khz - (khz % 10)
  <2>1. S!Khz(q) = r /\ r # 0
    BY <1>3, KhzOfTens
  <2> HIDE DEF q, r
  <2>2. S!Event(g).khz = r
    BY <1>1, <2>1, Tuner22
  <2> QED
    BY <2>2 DEF r
<1>4. g.who # 16
  BY DEF SoundReply
<1>5. S!Truthful(g, d)
  BY <1>2, <1>3, <1>4, StationsRead
<1>6. SoundTold(g, d)
  BY <1>1, <1>2, <1>5, ReplyTold
<1> QED
  BY <1>6 DEF d

LEMMA Station22 ==
  ASSUME NEW g, NEW w, NEW khz \in Nat, NEW p \in Nat, p >= 1,
         SoundReply(g, 22, 11, <<1, khz \div 10, p>>, w)
  PROVE  SoundTold(g, S!Said("station", <<khz, p>>))
<1> DEFINE q == khz \div 10
           v == <<1, q, p>>
           d == S!Said("station", <<khz, p>>)
<1>1. Len(v) = 3 /\ v[2] = q /\ v[3] = p /\ SoundReply(g, 22, 11, v, w)
  BY ThreeLong
<1>2. d.kind = "station" /\ d.n = <<khz, p>>
  BY SoundSaidIs
<1> HIDE DEF v, d
<1>3. ASSUME S!IsFM(khz) PROVE S!Event(g).khz = khz - (khz % 10) /\ S!Event(g).track = p
  <2> DEFINE r == khz - (khz % 10)
  <2>1. S!Khz(q) = r /\ r # 0
    BY <1>3, KhzOfTens
  <2> HIDE DEF q, r
  <2>2. S!Event(g).khz = r /\ S!Event(g).track = p
    BY <1>1, <2>1, Tuner22
  <2> QED
    BY <2>2 DEF r
<1>5. S!Truthful(g, d)
  BY <1>2, <1>3, PresetsRead
<1>6. SoundTold(g, d)
  BY <1>1, <1>2, <1>5, ReplyTold
<1> QED
  BY <1>6 DEF d

LEMMA Tuned22 ==
  ASSUME NEW g, NEW w, NEW khz \in Nat, NEW q, khz = S!Khz(q), khz # 0, NEW p,
         SoundReply(g, 22, 11, <<1, q, p>>, w)
  PROVE  SoundTold(g, S!Said("tuned", <<khz, p>>))
<1> DEFINE v == <<1, q, p>>
           d == S!Said("tuned", <<khz, p>>)
<1>1. Len(v) = 3 /\ v[2] = q /\ v[3] = p /\ SoundReply(g, 22, 11, v, w)
  BY ThreeLong
<1>2. d.kind = "tuned" /\ d.n = <<khz, p>>
  BY SoundSaidIs
<1> HIDE DEF v, d
<1>3. S!Event(g).khz = khz /\ S!Event(g).cleared = (p = 0)
  BY <1>1, Tuner22
<1>5. S!Truthful(g, d)
  BY <1>2, <1>3, PresetsRead
<1>6. SoundTold(g, d)
  BY <1>1, <1>2, <1>5, ReplyTold
<1> QED
  BY <1>6 DEF d


(* Sound counts with FiniteSets of its own. *)
LEMMA SoundCardinality == \A s : S!Cardinality(s) = Cardinality(s)
BY DEF S!Cardinality, Cardinality

(* What is printable of the codes, when it is what is between two of them. *)
Spaced(codes, k, lo, hi) ==
  /\ k \in Nat /\ DOMAIN codes = 1 .. k /\ lo \in 1 .. k /\ hi \in lo .. k
  /\ \A i \in lo .. hi : codes[i] \in 32 .. 126
  /\ codes[lo] # 32 /\ codes[hi] # 32
  /\ \A i \in 1 .. k : i < lo \/ hi < i => codes[i] = 32 \/ codes[i] \notin 32 .. 126

LEMMA PrintableIs ==
  ASSUME NEW codes, NEW k, NEW lo, NEW hi, Spaced(codes, k, lo, hi)
  PROVE  S!Printable(codes) = [n \in 1 .. hi - lo + 1 |-> codes[lo + n - 1]]
<1> DEFINE kept == {i \in DOMAIN codes : codes[i] \in 32 .. 126}
           ink == {i \in kept : codes[i] # 32}
           text == {i \in kept : \E j, m \in ink : j <= i /\ i <= m}
           Nth(n) == CHOOSE i \in text : S!Cardinality({j \in text : j <= i}) = n
<1>0. /\ k \in Nat /\ DOMAIN codes = 1 .. k /\ lo \in 1 .. k /\ hi \in lo .. k
      /\ \A i \in lo .. hi : codes[i] \in 32 .. 126
      /\ codes[lo] # 32 /\ codes[hi] # 32
      /\ \A i \in 1 .. k : i < lo \/ hi < i => codes[i] = 32 \/ codes[i] \notin 32 .. 126
  BY DEF Spaced
<1>1. S!Printable(codes) = [n \in 1 .. S!Cardinality(text) |-> codes[Nth(n)]]
  BY DEF S!Printable
<1>2. text = lo .. hi
  <2>1. lo \in ink /\ hi \in ink
    BY <1>0
  <2>2. \A j \in ink : j \in 1 .. k /\ lo <= j /\ j <= hi
    BY <1>0
  <2>3. \A i \in lo .. hi : i \in kept
    BY <1>0
  <2>4. kept \subseteq 1 .. k
    BY <1>0
  <2> HIDE DEF ink, kept
  <2>5. \A i \in text : i \in lo .. hi
    BY <1>0, <2>2, <2>4
  <2>6. \A i \in lo .. hi : i \in text
    BY <1>0, <2>1, <2>3
  <2> QED
    BY <1>0, <2>5, <2>6
<1> HIDE DEF text
<1>3. S!Cardinality(text) = hi - lo + 1
  BY <1>0, <1>2, FS_Interval, SoundCardinality
<1>4. ASSUME NEW i \in lo .. hi PROVE S!Cardinality({j \in text : j <= i}) = i - lo + 1
  <2> DEFINE s == {j \in text : j <= i}
  <2>1. s = lo .. i
    BY <1>0, <1>2
  <2> HIDE DEF s
  <2>2. Cardinality(s) = i - lo + 1
    BY <1>0, <2>1, FS_Interval
  <2>3. S!Cardinality(s) = i - lo + 1
    BY <1>0, <2>2, SoundCardinality
  <2> QED
    BY <2>3 DEF s
<1>5. ASSUME NEW n \in 1 .. hi - lo + 1 PROVE Nth(n) = lo + n - 1
  <2> DEFINE Upto(i) == S!Cardinality({j \in text : j <= i})
             z == lo + n - 1
  <2>1. \A i \in text : Upto(i) = i - lo + 1 /\ i \in lo .. hi
    BY <1>0, <1>2, <1>4
  <2>2. z \in text
    BY <1>0, <1>2
  <2>3. Nth(n) = CHOOSE i \in text : Upto(i) = n
    OBVIOUS
  <2> HIDE DEF Upto, Nth
  <2>4. Upto(z) = n
    BY <1>0, <2>1, <2>2
  <2>5. ASSUME NEW i \in text, Upto(i) = n PROVE i = z
    <3>1. i - lo + 1 = n /\ i \in Int /\ lo \in Int /\ n \in Int
      BY <1>0, <2>1, <2>5
    <3> QED
      BY <1>0, <3>1
  <2> HIDE DEF z
  <2>6. Nth(n) \in text /\ Upto(Nth(n)) = n
    BY <1>0, <2>2, <2>3, <2>4
  <2> QED
    BY <1>0, <2>5, <2>6 DEF z
<1> HIDE DEF Nth
<1> QED
  BY <1>0, <1>1, <1>3, <1>5

LEMMA NothingPrintable ==
  ASSUME NEW codes, NEW k \in Nat, DOMAIN codes = 1 .. k, \A i \in 1 .. k : codes[i] = 32
  PROVE  S!Printable(codes) = <<>>
<1> DEFINE kept == {i \in DOMAIN codes : codes[i] \in 32 .. 126}
           ink == {i \in kept : codes[i] # 32}
           text == {i \in kept : \E j, m \in ink : j <= i /\ i <= m}
           Nth(n) == CHOOSE i \in text : S!Cardinality({j \in text : j <= i}) = n
<1>1. S!Printable(codes) = [n \in 1 .. S!Cardinality(text) |-> codes[Nth(n)]]
  BY DEF S!Printable
<1>2. text = {}
  <2>1. ink = {}
    OBVIOUS
  <2> HIDE DEF ink
  <2> QED
    BY <2>1
<1> HIDE DEF text, Nth
<1>3. S!Cardinality(text) = 0
  BY <1>2, FS_EmptySet, SoundCardinality
<1>4. 1 .. 0 = {}
  OBVIOUS
<1>5. [n \in {} |-> codes[Nth(n)]] = <<>>
  OBVIOUS
<1> QED
  BY <1>1, <1>3, <1>4, <1>5


LEMMA SeqIs ==
  ASSUME NEW t \in Seq(Int)
  PROVE  t = [n \in 1 .. Len(t) |-> t[n]] /\ Len(t) \in Nat
OBVIOUS

LEMMA PrintableFromFirst ==
  ASSUME NEW codes, NEW k, NEW hi \in Nat, Spaced(codes, k, 1, hi)
  PROVE  S!Printable(codes) = [n \in 1 .. hi |-> codes[n]]
<1>1. \A lo : lo = 1 => S!Printable(codes) = [n \in 1 .. hi - lo + 1 |-> codes[lo + n - 1]]
  BY PrintableIs
<1>2. S!Printable(codes) = [n \in 1 .. hi - 1 + 1 |-> codes[1 + n - 1]]
  BY <1>1
<1>3. hi - 1 + 1 = hi /\ \A n \in 1 .. hi : 1 + n - 1 = n
  OBVIOUS
<1>4. [n \in 1 .. hi |-> codes[1 + n - 1]] = [n \in 1 .. hi |-> codes[n]]
  BY <1>3
<1> QED
  BY <1>2, <1>3, <1>4

(* A text of a caller, filled with spaces. *)
Words(t) ==
  /\ t \in Seq(Int) /\ Len(t) \in 1 .. 8 /\ t[1] # 32 /\ t[Len(t)] # 32
  /\ \A i \in 1 .. Len(t) : t[i] \in 32 .. 126

LEMMA FilledIsRead ==
  ASSUME NEW t, Words(t), NEW v, DOMAIN v = 1 .. 8,
         \A i \in 1 .. 8 : v[i] = IF i <= Len(t) THEN t[i] ELSE 32
  PROVE  S!Printable(v) = t
<1> DEFINE hi == Len(t)
<1>1. DOMAIN v = 1 .. 8 /\ (\A i \in 1 .. 8 : v[i] = IF i <= hi THEN t[i] ELSE 32)
  OBVIOUS
<1>2. /\ hi \in 1 .. 8 /\ t[1] # 32 /\ t[hi] # 32 /\ t = [n \in 1 .. hi |-> t[n]]
      /\ \A i \in 1 .. hi : t[i] \in 32 .. 126
  BY SeqIs DEF Words
<1> HIDE DEF hi
<1>3. \A i \in 1 .. hi : i \in 1 .. 8 /\ v[i] = t[i]
  BY <1>1, <1>2
<1>4. \A i \in 1 .. 8 : i < 1 \/ hi < i => v[i] = 32
  BY <1>1, <1>2
<1>5. 1 \in 1 .. hi /\ hi \in 1 .. hi
  BY <1>2
<1>6. v[1] # 32 /\ v[hi] # 32
  BY <1>2, <1>3, <1>5
<1>7. \A i \in 1 .. hi : v[i] \in 32 .. 126
  BY <1>2, <1>3
<1>8. 8 \in Nat /\ 1 \in 1 .. 8
  OBVIOUS
<1>9. Spaced(v, 8, 1, hi)
  BY <1>1, <1>2, <1>4, <1>6, <1>7, <1>8 DEF Spaced
<1>10. S!Printable(v) = [n \in 1 .. hi |-> v[n]]
  BY <1>2, <1>9, PrintableFromFirst
<1>11. [n \in 1 .. hi |-> v[n]] = [n \in 1 .. hi |-> t[n]]
  BY <1>3
<1> QED
  BY <1>2, <1>10, <1>11

(* The text that the plant reports in between other codes. *)
LEMMA RdsReportIsRead == S!Printable(<<32, 82, 65, 73, 32, 49, 32, 7>>) = <<82, 65, 73, 32, 49>>
<1> DEFINE v == <<32, 82, 65, 73, 32, 49, 32, 7>>
           t == <<82, 65, 73, 32, 49>>
<1>1. DOMAIN v = 1 .. 8
  OBVIOUS
<1>2. v[1] = 32 /\ v[2] = 82 /\ v[3] = 65 /\ v[4] = 73 /\ v[5] = 32 /\ v[6] = 49 /\ v[7] = 32 /\ v[8] = 7
  OBVIOUS
<1>3. t[1] = 82 /\ t[2] = 65 /\ t[3] = 73 /\ t[4] = 32 /\ t[5] = 49 /\ Len(t) = 5 /\ t \in Seq(Int)
  OBVIOUS
<1> HIDE DEF v, t
<1>4. Spaced(v, 8, 2, 6)
  <2>1. \A i \in 2 .. 6 : v[i] \in 32 .. 126
    BY <1>2
  <2>2. \A i \in 1 .. 8 : i < 2 \/ 6 < i => v[i] = 32 \/ v[i] \notin 32 .. 126
    BY <1>2
  <2>3. v[2] # 32 /\ v[6] # 32
    BY <1>2
  <2>4. 8 \in Nat /\ 2 \in 1 .. 8 /\ 6 \in 2 .. 8
    OBVIOUS
  <2> QED
    BY <1>1, <2>1, <2>2, <2>3, <2>4 DEF Spaced
<1>5. S!Printable(v) = [n \in 1 .. 6 - 2 + 1 |-> v[2 + n - 1]]
  <2> DEFINE lo == 2
             hi == 6
  <2>1. Spaced(v, 8, lo, hi)
    BY <1>4
  <2> HIDE DEF lo, hi
  <2>2. S!Printable(v) = [n \in 1 .. hi - lo + 1 |-> v[lo + n - 1]]
    BY <2>1, PrintableIs
  <2> QED
    BY <2>2, Zenon DEF lo, hi
<1>6. \A n \in 1 .. 5 : v[2 + n - 1] = t[n]
  BY <1>2, <1>3
<1>7. [n \in 1 .. 6 - 2 + 1 |-> v[2 + n - 1]] = [n \in 1 .. 5 |-> t[n]]
  BY <1>6
<1>8. t = [n \in 1 .. 5 |-> t[n]]
  BY <1>3, SeqIs
<1> QED
  BY <1>5, <1>7, <1>8 DEF v, t

LEMMA Text22Tells ==
  ASSUME NEW x, Hears(x), NEW v, Len(v) <= 8, NEW t, t = S!Printable(v)
  PROVE  /\ S!DiffusionOfDimension(10, v, x).text = t
         /\ t = <<>> => S!DiffusionOfDimension(10, v, x).blank
<1> DEFINE e == S!DiffusionOfDimension(10, v, x)
<1>1. e = [x EXCEPT !.text = t, !.blank = (t = <<>>)]
  BY DEF S!DiffusionOfDimension
<1>2. "text" \in DOMAIN x /\ "blank" \in DOMAIN x
  BY DEF Hears, SoundKeys
<1> HIDE DEF e
<1>3. e.text = t /\ e.blank = (t = <<>>)
  BY <1>1, <1>2
<1> QED
  BY <1>3 DEF e

LEMMA Text16Tells ==
  ASSUME NEW x, Hears(x), NEW v, Len(v) = 8, NEW t, t = S!Printable(v)
  PROVE  S!SoundOfDimension(8, v, x).text = t
<1>1. S!SoundOfDimension(8, v, x) = PutText(x, t)
  BY DEF S!SoundOfDimension, PutText
<1> QED
  BY <1>1, FieldTold

LEMMA Text22 ==
  ASSUME NEW g, NEW w, NEW v, Len(v) = 8, SoundReply(g, 22, 10, v, w), NEW t, t = S!Printable(v)
  PROVE  /\ SoundTold(g, S!Said("text", t))
         /\ t = <<>> => SoundTold(g, S!Said("blank", 0))
<1>1. Hears(S!Target(w)) /\ S!Event(g) = S!DiffusionOfDimension(10, v, S!Target(w))
  BY Reply22, TargetHears
<1>2. S!Event(g).text = t /\ (t = <<>> => S!Event(g).blank)
  <2> DEFINE x == S!Target(w)
  <2>1. Hears(x) /\ Len(v) <= 8 /\ S!Event(g) = S!DiffusionOfDimension(10, v, x)
    BY <1>1
  <2> HIDE DEF x
  <2>2. S!DiffusionOfDimension(10, v, x).text = t /\ (t = <<>> => S!DiffusionOfDimension(10, v, x).blank)
    BY <2>1, Text22Tells
  <2> QED
    BY <2>1, <2>2
<1>3. ASSUME NEW d, d.kind = "text", d.n = t PROVE SoundTold(g, d)
  <2>1. S!Truthful(g, d)
    BY <1>2, <1>3, KindsRead
  <2> QED
    BY <1>3, <2>1, ReplyTold
<1>4. ASSUME NEW d, d.kind = "blank", d.n = 0, S!Event(g).blank PROVE SoundTold(g, d)
  <2>1. S!Truthful(g, d)
    BY <1>4, KindsRead
  <2> QED
    BY <1>4, <2>1, ReplyTold
<1> QED
  BY <1>2, <1>3, <1>4, SoundSaidIs

LEMMA Text16 ==
  ASSUME NEW g, NEW w, NEW v, Len(v) = 8, SoundReply(g, 16, 8, v, w), NEW t, t = S!Printable(v)
  PROVE  SoundTold(g, S!Said("text", t))
<1>1. Hears(S!Subject(w)) /\ S!Event(g) = S!SoundOfDimension(8, v, S!Subject(w))
  BY Reply16, SubjectIsHeard
<1>2. S!Event(g).text = t
  BY <1>1, Text16Tells
<1>3. ASSUME NEW d, d.kind = "text", d.n = t PROVE SoundTold(g, d)
  <2>1. S!Truthful(g, d)
    BY <1>2, <1>3, KindsRead
  <2> QED
    BY <1>3, <2>1, ReplyTold
<1> QED
  BY <1>3, SoundSaidIs

(* The texts of the callers. *)
LEMMA TextsRead ==
  ASSUME NEW t \in {<<>>, <<82, 65, 73, 32, 49>>, <<65, 66, 67, 68, 69, 70, 71, 72>>},
         NEW v, v = [i \in 1 .. 8 |-> IF i <= Len(t) THEN t[i] ELSE 32]
  PROVE  S!Printable(v) = t /\ Len(v) = 8
<1>0. Len(v) = 8 /\ DOMAIN v = 1 .. 8 /\ \A i \in 1 .. 8 : v[i] = IF i <= Len(t) THEN t[i] ELSE 32
  OBVIOUS
<1>1. CASE t = <<>>
  <2>1. Len(<<>>) = 0
    OBVIOUS
  <2>2. v = [i \in 1 .. 8 |-> IF i <= 0 THEN t[i] ELSE 32]
    BY <1>1, <2>1
  <2>3. DOMAIN v = 1 .. 8 /\ \A i \in 1 .. 8 : v[i] = 32
    BY <2>2
  <2> QED
    BY <1>0, <1>1, <2>3, NothingPrintable
<1>2. CASE t = <<82, 65, 73, 32, 49>>
  <2>1. t[1] = 82 /\ t[2] = 65 /\ t[3] = 73 /\ t[4] = 32 /\ t[5] = 49 /\ Len(t) = 5 /\ t \in Seq(Int)
    BY <1>2
  <2>2. Words(t)
    BY <2>1 DEF Words
  <2> QED
    BY <1>0, <2>2, FilledIsRead
<1>3. CASE t = <<65, 66, 67, 68, 69, 70, 71, 72>>
  <2>1. /\ t[1] = 65 /\ t[2] = 66 /\ t[3] = 67 /\ t[4] = 68 /\ t[5] = 69 /\ t[6] = 70 /\ t[7] = 71 /\ t[8] = 72
        /\ Len(t) = 8 /\ t \in Seq(Int)
    BY <1>3
  <2>2. Words(t)
    BY <2>1 DEF Words
  <2> QED
    BY <1>0, <2>2, FilledIsRead
<1> QED
  BY <1>1, <1>2, <1>3


LEMMA SoundWants22 ==
  ASSUME SoundInv, FamiliesAssumption, NEW what, NEW w, NEW f, f = S!Tell22(w, what, <<>>), NEW kind, NEW n,
         Means22(what, kind, n, S!Target(w).target), S!Post(f, kind, n)
  PROVE  SoundInv'
<1> DEFINE d == S!Said(kind, n)
<1>1. SoundStatus(f, 22, what, <<>>, w) /\ S!AsReply(f) = f
  BY SoundStatusIs DEF S!Tell22
<1>2. d.kind = kind /\ d.n = n
  BY SoundSaidIs
<1> HIDE DEF d
<1>3. SoundTold(f, d)
  BY <1>1, <1>2, Means22Told
<1> QED
  BY <1>1, <1>3, SoundPosts DEF d

LEMMA SoundAsks22 ==
  ASSUME SoundInv, FamiliesAssumption, NEW what, NEW w, NEW p, NEW f, f = S!Tell22(w, what, p), NEW kind, NEW n,
         Asks22(what, p, kind, n), S!Post(f, kind, n)
  PROVE  SoundInv'
<1> DEFINE d == S!Said(kind, n)
<1>1. SoundStatus(f, 22, what, p, w) /\ S!AsReply(f) = f
  BY SoundStatusIs DEF S!Tell22
<1>2. d.kind = kind /\ d.n = n
  BY SoundSaidIs
<1> HIDE DEF d
<1>3. SoundTold(f, d)
  BY <1>1, <1>2, Asks22Told
<1> QED
  BY <1>1, <1>3, SoundPosts DEF d

(* What is not refused. *)
LEMMA NotRefused ==
  ASSUME NEW refused, NEW f, NEW kind, NEW n, S!Post(IF refused THEN S!Refuse ELSE f, kind, n)
  PROVE  ~refused /\ S!Post(f, kind, n)
<1>1. (IF refused THEN S!Refuse ELSE f) # S!Refuse
  BY DEF S!Post
<1>2. ~refused
  BY <1>1
<1>3. (IF refused THEN S!Refuse ELSE f) = f
  BY <1>2
<1> QED
  BY <1>2, <1>3

LEMMA DiffusionKeys ==
  ASSUME SoundInv, FamiliesAssumption, NEW w
  PROVE
    /\ S!Post(S!TurnOn22(w), "power", "on") => SoundInv'
    /\ S!Post(S!TurnOff22(w), "power", "off") => SoundInv'
    /\ S!Post(S!NextTrack22(w), "tracks", 1) => SoundInv'
    /\ S!Post(S!PreviousTrack22(w), "tracks", -1) => SoundInv'
    /\ S!Target(w).target # "zone_control" /\ S!Post(S!NextStation(w), "tracks", 1) => SoundInv'
    /\ S!Post(S!PreviousStation(w), "tracks", -1) => SoundInv'
    /\ S!Post(S!SeekUp22(w), "seek", 1) => SoundInv'
    /\ S!Post(S!SeekDown22(w), "seek", -1) => SoundInv'
<1>1. ASSUME S!Post(S!TurnOn22(w), "power", "on") PROVE SoundInv'
  <2>1. Means22(1, "power", "on", S!Target(w).target)
    BY DEF Means22
  <2>2. \A n : Means22(1, "power", n, S!Target(w).target) /\ S!Post(S!Tell22(w, 1, <<>>), "power", n) => SoundInv'
    BY SoundWants22
  <2> QED
    BY <1>1, <2>1, <2>2 DEF S!TurnOn22
<1>2. ASSUME S!Post(S!TurnOff22(w), "power", "off") PROVE SoundInv'
  <2>1. Means22(0, "power", "off", S!Target(w).target)
    BY DEF Means22
  <2>2. \A n : Means22(0, "power", n, S!Target(w).target) /\ S!Post(S!Tell22(w, 0, <<>>), "power", n) => SoundInv'
    BY SoundWants22
  <2> QED
    BY <1>2, <2>1, <2>2 DEF S!TurnOff22
<1>3. ASSUME S!Post(S!NextTrack22(w), "tracks", 1) PROVE SoundInv'
  <2>1. Means22(11, "tracks", 1, S!Target(w).target)
    BY DEF Means22
  <2>2. \A n : Means22(11, "tracks", n, S!Target(w).target) /\ S!Post(S!Tell22(w, 11, <<>>), "tracks", n) => SoundInv'
    BY SoundWants22
  <2> QED
    BY <1>3, <2>1, <2>2 DEF S!NextTrack22
<1>4. ASSUME S!Post(S!PreviousTrack22(w), "tracks", -1) PROVE SoundInv'
  <2>1. Means22(12, "tracks", -1, S!Target(w).target)
    BY DEF Means22
  <2>2. \A n : Means22(12, "tracks", n, S!Target(w).target) /\ S!Post(S!Tell22(w, 12, <<>>), "tracks", n) => SoundInv'
    BY SoundWants22
  <2> QED
    BY <1>4, <2>1, <2>2 DEF S!PreviousTrack22
<1>5. ASSUME S!Target(w).target # "zone_control", S!Post(S!NextStation(w), "tracks", 1) PROVE SoundInv'
  <2>1. Means22(9, "tracks", 1, S!Target(w).target)
    BY <1>5 DEF Means22
  <2>2. \A n : Means22(9, "tracks", n, S!Target(w).target) /\ S!Post(S!Tell22(w, 9, <<>>), "tracks", n) => SoundInv'
    BY SoundWants22
  <2> QED
    BY <1>5, <2>1, <2>2 DEF S!NextStation
<1>6. ASSUME S!Post(S!PreviousStation(w), "tracks", -1) PROVE SoundInv'
  <2>1. Means22(10, "tracks", -1, S!Target(w).target)
    BY DEF Means22
  <2>2. \A n : Means22(10, "tracks", n, S!Target(w).target) /\ S!Post(S!Tell22(w, 10, <<>>), "tracks", n) => SoundInv'
    BY SoundWants22
  <2> QED
    BY <1>6, <2>1, <2>2 DEF S!PreviousStation
<1>7. ASSUME S!Post(S!SeekUp22(w), "seek", 1) PROVE SoundInv'
  <2>1. Means22(5, "seek", 1, S!Target(w).target)
    BY DEF Means22
  <2>2. \A n : Means22(5, "seek", n, S!Target(w).target) /\ S!Post(S!Tell22(w, 5, <<>>), "seek", n) => SoundInv'
    BY SoundWants22
  <2> QED
    BY <1>7, <2>1, <2>2 DEF S!SeekUp22
<1>8. ASSUME S!Post(S!SeekDown22(w), "seek", -1) PROVE SoundInv'
  <2>1. Means22(6, "seek", -1, S!Target(w).target)
    BY DEF Means22
  <2>2. \A n : Means22(6, "seek", n, S!Target(w).target) /\ S!Post(S!Tell22(w, 6, <<>>), "seek", n) => SoundInv'
    BY SoundWants22
  <2> QED
    BY <1>8, <2>1, <2>2 DEF S!SeekDown22
<1> QED
  BY <1>1, <1>2, <1>3, <1>4, <1>5, <1>6, <1>7, <1>8

LEMMA DiffusionParams ==
  ASSUME SoundInv, FamiliesAssumption, NEW w, NEW n \in SoundNumbers
  PROVE
    /\ \A ty : S!Post(S!TurnOnWithSource(w, n, ty), "play", n) => SoundInv'
    /\ \A ty : S!Post(S!TurnOffAtomic(w, ty), "power", "off_atomic") => SoundInv'
    /\ \A area, ty : S!Post(S!RouteSource(w, n, area, ty), "play", n) => SoundInv'
    /\ S!Post(S!StorePreset(w, n), "track", n) => SoundInv'
    /\ S!Post(S!OpenPaging(w, n), "page", n) => SoundInv'
    /\ S!Post(S!StartPagingVoice(w, n), "page", n) => SoundInv'
    /\ S!Post(S!StepFrequency22(w, 5, n), "tune", n) => SoundInv'
    /\ S!Post(S!StepFrequency22(w, 6, n), "tune", -n) => SoundInv'
    /\ S!Post(S!Louder22(w, 3, n), "louder", n) => SoundInv'
    /\ S!Post(S!Louder22(w, 4, n), "louder", -n) => SoundInv'
<1>1. ASSUME NEW ty, S!Post(S!TurnOnWithSource(w, n, ty), "play", n) PROVE SoundInv'
  <2> DEFINE p == <<ty, n>>
  <2>1. S!Post(S!Tell22(w, 1, p), "play", n)
    BY <1>1, NotRefused DEF S!TurnOnWithSource
  <2>2. Len(p) = 2 /\ p[2] = n
    BY TwoLong
  <2> HIDE DEF p
  <2>3. Asks22(1, p, "play", n)
    BY <2>2 DEF Asks22
  <2> QED
    BY <2>1, <2>3, SoundAsks22
<1>2. ASSUME NEW ty, S!Post(S!TurnOffAtomic(w, ty), "power", "off_atomic") PROVE SoundInv'
  <2> DEFINE p == <<ty, 0>>
  <2>1. S!Post(S!Tell22(w, 0, p), "power", "off_atomic")
    BY <1>2, NotRefused DEF S!TurnOffAtomic
  <2>2. Len(p) = 2
    BY TwoLong
  <2> HIDE DEF p
  <2>3. Asks22(0, p, "power", "off_atomic")
    BY <2>2 DEF Asks22
  <2> QED
    BY <2>1, <2>3, SoundAsks22
<1>3. ASSUME NEW area, NEW ty, S!Post(S!RouteSource(w, n, area, ty), "play", n) PROVE SoundInv'
  <2> DEFINE p == <<ty, area, n>>
  <2>1. S!Post(S!Tell22(w, 35, p), "play", n)
    BY <1>3, NotRefused DEF S!RouteSource
  <2>2. Len(p) = 3 /\ p[3] = n
    BY ThreeLong
  <2> HIDE DEF p
  <2>3. Asks22(35, p, "play", n)
    BY <2>2 DEF Asks22
  <2> QED
    BY <2>1, <2>3, SoundAsks22
<1>4. ASSUME S!Post(S!StorePreset(w, n), "track", n) PROVE SoundInv'
  <2> DEFINE p == << n >>
  <2>1. S!Post(S!Tell22(w, 33, p), "track", n)
    BY <1>4, NotRefused DEF S!StorePreset
  <2>2. Len(p) = 1 /\ p[1] = n
    BY OneLong
  <2> HIDE DEF p
  <2>3. Asks22(33, p, "track", n)
    BY <2>2 DEF Asks22
  <2> QED
    BY <2>1, <2>3, SoundAsks22
<1>5. ASSUME S!Post(S!OpenPaging(w, n), "page", n) PROVE SoundInv'
  <2> DEFINE p == << n >>
  <2>1. S!Post(S!Tell22(w, 19, p), "page", n)
    BY <1>5, NotRefused DEF S!OpenPaging
  <2>2. Len(p) = 1 /\ p[1] = n
    BY OneLong
  <2> HIDE DEF p
  <2>3. Asks22(19, p, "page", n)
    BY <2>2 DEF Asks22
  <2> QED
    BY <2>1, <2>3, SoundAsks22
<1>6. ASSUME S!Post(S!StartPagingVoice(w, n), "page", n) PROVE SoundInv'
  <2> DEFINE p == << n >>
  <2>1. S!Post(S!Tell22(w, 20, p), "page", n)
    BY <1>6, NotRefused DEF S!StartPagingVoice
  <2>2. Len(p) = 1 /\ p[1] = n
    BY OneLong
  <2> HIDE DEF p
  <2>3. Asks22(20, p, "page", n)
    BY <2>2 DEF Asks22
  <2> QED
    BY <2>1, <2>3, SoundAsks22
<1>7. ASSUME S!Post(S!StepFrequency22(w, 5, n), "tune", n) PROVE SoundInv'
  <2> DEFINE p == << n >>
  <2>1. n \in 1 .. 15 /\ S!Post(S!Tell22(w, 5, p), "tune", n)
    BY <1>7, RangeKept DEF S!StepFrequency22
  <2>2. Len(p) = 1 /\ p[1] = n
    BY OneLong
  <2> HIDE DEF p
  <2>3. Asks22(5, p, "tune", n)
    BY <2>1, <2>2 DEF Asks22
  <2> QED
    BY <2>1, <2>3, SoundAsks22
<1>8. ASSUME S!Post(S!StepFrequency22(w, 6, n), "tune", -n) PROVE SoundInv'
  <2> DEFINE p == << n >>
  <2>1. n \in 1 .. 15 /\ S!Post(S!Tell22(w, 6, p), "tune", -n)
    BY <1>8, RangeKept DEF S!StepFrequency22
  <2>2. Len(p) = 1 /\ p[1] = n
    BY OneLong
  <2> HIDE DEF p
  <2>3. Asks22(6, p, "tune", -n)
    BY <2>1, <2>2 DEF Asks22
  <2> QED
    BY <2>1, <2>3, SoundAsks22
<1>9. ASSUME S!Post(S!Louder22(w, 3, n), "louder", n) PROVE SoundInv'
  <2>1. n \in 1 .. 31 /\ S!Post(S!Tell22(w, 3, IF n > 1 THEN << n >> ELSE <<>>), "louder", n)
    BY <1>9, RangeKept DEF S!Louder22
  <2>2. CASE n > 1
    <3> DEFINE p == << n >>
    <3>1. S!Post(S!Tell22(w, 3, p), "louder", n)
      BY <2>1, <2>2
    <3>2. Len(p) = 1 /\ p[1] = n
      BY OneLong
    <3> HIDE DEF p
    <3>3. Asks22(3, p, "louder", n)
      BY <2>1, <3>2 DEF Asks22
    <3> QED
      BY <3>1, <3>3, SoundAsks22
  <2>3. CASE n = 1
    <3>1. S!Post(S!Tell22(w, 3, <<>>), "louder", n)
      BY <2>1, <2>3
    <3>2. Means22(3, "louder", n, S!Target(w).target)
      BY <2>3 DEF Means22
    <3> QED
      BY <3>1, <3>2, SoundWants22
  <2> QED
    BY <2>1, <2>2, <2>3
<1>10. ASSUME S!Post(S!Louder22(w, 4, n), "louder", -n) PROVE SoundInv'
  <2>1. n \in 1 .. 31 /\ S!Post(S!Tell22(w, 4, IF n > 1 THEN << n >> ELSE <<>>), "louder", -n)
    BY <1>10, RangeKept DEF S!Louder22
  <2>2. CASE n > 1
    <3> DEFINE p == << n >>
    <3>1. S!Post(S!Tell22(w, 4, p), "louder", -n)
      BY <2>1, <2>2
    <3>2. Len(p) = 1 /\ p[1] = n
      BY OneLong
    <3> HIDE DEF p
    <3>3. Asks22(4, p, "louder", -n)
      BY <2>1, <3>2 DEF Asks22
    <3> QED
      BY <3>1, <3>3, SoundAsks22
  <2>3. CASE n = 1
    <3>1. S!Post(S!Tell22(w, 4, <<>>), "louder", -n)
      BY <2>1, <2>3
    <3>2. Means22(4, "louder", -n, S!Target(w).target)
      BY <2>3 DEF Means22
    <3> QED
      BY <3>1, <3>2, SoundWants22
  <2> QED
    BY <2>1, <2>2, <2>3
<1> QED
  BY <1>1, <1>2, <1>3, <1>4, <1>5, <1>6, <1>7, <1>8, <1>9, <1>10


LEMMA SoundWrites ==
  ASSUME SoundInv, FamiliesAssumption, NEW who, NEW w, NEW dim, NEW v, NEW kind, NEW n,
         S!Post(S!DimensionWriting(who, w, dim, v), kind, n),
         \A g : SoundReply(g, who, dim, v, w) => SoundTold(g, S!Said(kind, n))
  PROVE  SoundInv'
<1> DEFINE f == S!DimensionWriting(who, w, dim, v)
<1>1. SoundReply(S!AsReply(f), who, dim, v, w)
  BY SoundReplyIs
<1>2. S!Post(f, kind, n)
  OBVIOUS
<1> HIDE DEF f
<1>3. SoundTold(S!AsReply(f), S!Said(kind, n))
  BY <1>1
<1> QED
  BY <1>2, <1>3, SoundPosts

LEMMA DiffusionValues ==
  ASSUME SoundInv, FamiliesAssumption, NEW w
  PROVE  /\ \A n \in SoundNumbers :
              /\ S!Post(S!SetVolume22(w, n), "volume", n) => SoundInv'
              /\ S!Post(S!SetPreset(w, n, S!Null, 1), "track", n) => SoundInv'
              /\ \A khz \in Frequencies : S!Post(S!SetPreset(w, n, khz, 1), "station", <<khz, n>>) => SoundInv'
         /\ \A khz \in Frequencies, band \in {0, 1, 5} :
              S!Post(S!SetFrequency22(w, khz, band), "khz", khz) => SoundInv'
         /\ \A t \in {<<>>, <<82, 65, 73, 32, 49>>, <<65, 66, 67, 68, 69, 70, 71, 72>>} :
              S!Post(S!SendRdsText(w, t), "text", t) => SoundInv'
<1>0. SoundNumbers \subseteq Nat /\ Frequencies \subseteq Nat /\ S!Null \notin Nat
  BY SoundBound DEF S!Null
<1>1. ASSUME NEW n \in SoundNumbers, S!Post(S!SetVolume22(w, n), "volume", n) PROVE SoundInv'
  <2>1. n \in 0 .. 31 /\ S!Post(S!DimensionWriting(22, w, 1, << n >>), "volume", n)
    BY <1>1, RangeKept DEF S!SetVolume22
  <2>2. \A g : SoundReply(g, 22, 1, << n >>, w) => SoundTold(g, S!Said("volume", n))
    BY <2>1, Volume22
  <2> QED
    BY <2>1, <2>2, SoundWrites
<1>2. ASSUME NEW n \in SoundNumbers, S!Post(S!SetPreset(w, n, S!Null, 1), "track", n) PROVE SoundInv'
  <2>1. ~(n < 1) /\ S!Post(S!DimensionWriting(22, w, 6, << n >>), "track", n)
    BY <1>2, NotRefused DEF S!SetPreset
  <2>2. n >= 1
    BY <1>0, <2>1
  <2>3. \A g : SoundReply(g, 22, 6, << n >>, w) => SoundTold(g, S!Said("track", n))
    BY <2>2, Track22
  <2> QED
    BY <2>1, <2>3, SoundWrites
<1>3. ASSUME NEW n \in SoundNumbers, NEW khz \in Frequencies,
             S!Post(S!SetPreset(w, n, khz, 1), "station", <<khz, n>>)
      PROVE  SoundInv'
  <2>0. khz # S!Null
    BY <1>0
  <2> DEFINE v == <<1, khz \div 10, n>>
             rest == IF khz < 10 \/ 1 \notin 1 .. 4 THEN S!Refuse ELSE S!DimensionWriting(22, w, 11, v)
  <2>1. ~(n < 1) /\ S!Post(rest, "station", <<khz, n>>)
    BY <1>3, <2>0, NotRefused DEF S!SetPreset
  <2>2. S!Post(S!DimensionWriting(22, w, 11, v), "station", <<khz, n>>)
    BY <2>1, NotRefused
  <2>3. n >= 1 /\ n \in Nat /\ khz \in Nat
    BY <1>0, <2>1
  <2>4. \A g : SoundReply(g, 22, 11, v, w) => SoundTold(g, S!Said("station", <<khz, n>>))
    BY <2>3, Station22
  <2> HIDE DEF v, rest
  <2> QED
    BY <2>2, <2>4, SoundWrites
<1>4. ASSUME NEW khz \in Frequencies, NEW band \in {0, 1, 5}, S!Post(S!SetFrequency22(w, khz, band), "khz", khz)
      PROVE  SoundInv'
  <2> DEFINE v == <<band, khz \div 10>>
  <2>1. S!Post(S!DimensionWriting(22, w, 5, v), "khz", khz)
    BY <1>4, NotRefused DEF S!SetFrequency22
  <2>2. khz \in Nat
    BY <1>0
  <2>3. \A g : SoundReply(g, 22, 5, v, w) => SoundTold(g, S!Said("khz", khz))
    BY <2>2, Khz22
  <2> HIDE DEF v
  <2> QED
    BY <2>1, <2>3, SoundWrites
<1>5. ASSUME NEW t \in {<<>>, <<82, 65, 73, 32, 49>>, <<65, 66, 67, 68, 69, 70, 71, 72>>},
             S!Post(S!SendRdsText(w, t), "text", t)
      PROVE  SoundInv'
  <2> DEFINE v == [i \in 1 .. 8 |-> IF i <= Len(t) THEN t[i] ELSE 32]
  <2>1. S!Post(S!DimensionWriting(22, w, 10, v), "text", t)
    BY <1>5 DEF S!SendRdsText
  <2>2. S!Printable(v) = t /\ Len(v) = 8
    BY TextsRead
  <2> HIDE DEF v
  <2>3. \A g : SoundReply(g, 22, 10, v, w) => SoundTold(g, S!Said("text", t))
    BY <2>2, Text22
  <2> QED
    BY <2>1, <2>3, SoundWrites
<1> QED
  BY <1>1, <1>2, <1>3, <1>4, <1>5

LEMMA DiffusionCommands ==
  ASSUME SoundInv, FamiliesAssumption, NEW w, S!CommandDiffusion(w)
  PROVE  SoundInv'
<1>1. CASE \/ S!Post(S!TurnOn22(w), "power", "on") \/ S!Post(S!TurnOff22(w), "power", "off")
           \/ S!Post(S!NextTrack22(w), "tracks", 1) \/ S!Post(S!PreviousTrack22(w), "tracks", -1)
           \/ S!Target(w).target # "zone_control" /\ S!Post(S!NextStation(w), "tracks", 1)
           \/ S!Post(S!PreviousStation(w), "tracks", -1)
           \/ S!Post(S!SeekUp22(w), "seek", 1) \/ S!Post(S!SeekDown22(w), "seek", -1)
  BY <1>1, DiffusionKeys
<1>2. ASSUME NEW n \in SoundNumbers,
             \/ \E ty \in {-1, 4} :
                  \/ S!Post(S!TurnOnWithSource(w, n, ty), "play", n)
                  \/ S!Post(S!TurnOffAtomic(w, ty), "power", "off_atomic")
                  \/ \E area \in {-1, 1} : S!Post(S!RouteSource(w, n, area, ty), "play", n)
             \/ S!Post(S!StorePreset(w, n), "track", n)
             \/ S!Post(S!OpenPaging(w, n), "page", n)
             \/ S!Post(S!StartPagingVoice(w, n), "page", n)
             \/ S!Post(S!Louder22(w, 3, n), "louder", n)
             \/ S!Post(S!Louder22(w, 4, n), "louder", -n)
             \/ S!Post(S!StepFrequency22(w, 5, n), "tune", n)
             \/ S!Post(S!StepFrequency22(w, 6, n), "tune", -n)
      PROVE  SoundInv'
  BY <1>2, DiffusionParams
<1>3. ASSUME NEW n \in SoundNumbers,
             \/ S!Post(S!SetPreset(w, n, S!Null, 1), "track", n)
             \/ S!Post(S!SetVolume22(w, n), "volume", n)
             \/ \E khz \in Frequencies : S!Post(S!SetPreset(w, n, khz, 1), "station", <<khz, n>>)
      PROVE  SoundInv'
  BY <1>3, DiffusionValues
<1>4. ASSUME \E khz \in Frequencies, band \in {0, 1, 5} : S!Post(S!SetFrequency22(w, khz, band), "khz", khz)
      PROVE  SoundInv'
  BY <1>4, DiffusionValues
<1>5. ASSUME \E t \in {<<>>, <<82, 65, 73, 32, 49>>, <<65, 66, 67, 68, 69, 70, 71, 72>>} :
               S!Post(S!SendRdsText(w, t), "text", t)
      PROVE  SoundInv'
  BY <1>5, DiffusionValues
<1> QED
  BY <1>1, <1>2, <1>3, <1>4, <1>5 DEF S!CommandDiffusion


LEMMA SoundTells ==
  ASSUME SoundInv, FamiliesAssumption, NEW who, NEW w, NEW dim, NEW v, NEW kind, NEW n,
         S!Tell(S!DimensionReply(who, w, dim, v), kind, n),
         \A g : SoundReply(g, who, dim, v, w) => SoundTold(g, S!Said(kind, n))
  PROVE  SoundInv'
<1> DEFINE f == S!DimensionReply(who, w, dim, v)
<1>1. SoundReply(f, who, dim, v, w)
  BY SoundReplyIs
<1>2. S!Tell(f, kind, n)
  OBVIOUS
<1> HIDE DEF f
<1>3. SoundTold(f, S!Said(kind, n))
  BY <1>1
<1> QED
  BY <1>2, <1>3, SoundReports

(* A frequency in either unit. *)
LEMMA InTens ==
  ASSUME NEW k \in Nat, S!IsFM(k), k % 10 = 0
  PROVE  S!Khz(k \div 10) = k /\ k # 0
<1> DEFINE q == k \div 10
<1>1. S!Khz(q) = k - (k % 10) /\ S!Khz(q) # 0
  BY KhzOfTens
<1> HIDE DEF q
<1>2. S!Khz(q) = k
  BY <1>1
<1> QED
  BY <1>1, <1>2 DEF q

LEMMA InHundreds ==
  ASSUME NEW q \in Nat, q >= 875, q <= 1080, NEW k, k = 100 * q
  PROVE  S!Khz(k \div 100) = k /\ k # 0
<1>1. k \div 100 = q /\ k # 0
  OBVIOUS
<1> QED
  BY <1>1, KhzOfHundreds

LEMMA TunersUnits ==
  ASSUME NEW k \in {87500, 98700, 106500, 108000}, NEW u \in {10, 100}
  PROVE  k \in Nat /\ S!Khz(k \div u) = k /\ k # 0
<1>1. CASE k = 87500
  <2>1. S!IsFM(k) /\ k % 10 = 0 /\ k = 100 * 875
    BY <1>1 DEF S!IsFM
  <2> QED
    BY <1>1, <2>1, InTens, InHundreds
<1>2. CASE k = 98700
  <2>1. S!IsFM(k) /\ k % 10 = 0 /\ k = 100 * 987
    BY <1>2 DEF S!IsFM
  <2> QED
    BY <1>2, <2>1, InTens, InHundreds
<1>3. CASE k = 106500
  <2>1. S!IsFM(k) /\ k % 10 = 0 /\ k = 100 * 1065
    BY <1>3 DEF S!IsFM
  <2> QED
    BY <1>3, <2>1, InTens, InHundreds
<1>4. CASE k = 108000
  <2>1. S!IsFM(k) /\ k % 10 = 0 /\ k = 100 * 1080
    BY <1>4 DEF S!IsFM
  <2> QED
    BY <1>4, <2>1, InTens, InHundreds
<1> QED
  BY <1>1, <1>2, <1>3, <1>4

LEMMA TunerReports ==
  ASSUME SoundInv, FamiliesAssumption, NEW w, NEW k \in {87500, 98700, 106500, 108000}, NEW u \in {10, 100}, NEW p,
         S!Tell(S!DimensionReply(22, w, 11, <<1, k \div u, p>>), "tuned", <<k, p>>)
  PROVE  SoundInv'
<1> DEFINE q == k \div u
           v == <<1, q, p>>
           n == <<k, p>>
<1>1. k \in Nat /\ k = S!Khz(q) /\ k # 0
  BY TunersUnits
<1>2. \A g : SoundReply(g, 22, 11, v, w) => SoundTold(g, S!Said("tuned", n))
  BY <1>1, Tuned22
<1>3. S!Tell(S!DimensionReply(22, w, 11, v), "tuned", n)
  OBVIOUS
<1> HIDE DEF v, n
<1> QED
  BY <1>2, <1>3, SoundTells

(* The state of a speaker. *)
Powered(x, p, q) == [x EXCEPT !.power = p, !.channel = q]

LEMMA PowerTells ==
  ASSUME NEW x, Hears(x), NEW p, NEW q
  PROVE  Powered(x, p, q).power = p
<1>1. "power" \in DOMAIN x /\ "channel" \in DOMAIN x
  BY DEF Hears, SoundKeys
<1> QED
  BY <1>1 DEF Powered

LEMMA Power22Tells ==
  ASSUME NEW x, Hears(x), NEW v, Len(v) = 2
  PROVE  /\ v[1] = 1 => S!DiffusionOfDimension(12, v, x).power = "on"
         /\ v = <<0, 10>> => S!DiffusionOfDimension(12, v, x).power = "standby"
         /\ v[1] = 0 /\ v # <<0, 10>> => S!DiffusionOfDimension(12, v, x).power = "off"
<1> DEFINE e == S!DiffusionOfDimension(12, v, x)
           p == CASE v[1] = 1 -> "on" [] v = <<0, 10>> -> "standby"
                     [] v[1] = 0 /\ v # <<0, 10>> -> "off" [] OTHER -> "none"
           q == IF v[1] = 1 /\ Len(v) > 1 THEN v[2] ELSE S!Null
<1>1. e = Powered(x, p, q)
  BY DEF Powered, S!DiffusionOfDimension
<1>0. v = <<0, 10>> => v[1] = 0
  <2>1. <<0, 10>>[1] = 0
    OBVIOUS
  <2> QED
    BY <2>1
<1>2. /\ v[1] = 1 => p = "on"
      /\ v[1] = 0 /\ v # <<0, 10>> => p = "off"
      /\ v = <<0, 10>> => p = "standby"
  <2> DEFINE s == v = <<0, 10>>
  <2>1. p = CASE v[1] = 1 -> "on" [] s -> "standby" [] v[1] = 0 /\ ~s -> "off" [] OTHER -> "none"
    OBVIOUS
  <2>2. (s => v[1] = 0) /\ s \in BOOLEAN
    BY <1>0
  <2> HIDE DEF s, p
  <2>3. v[1] = 1 => p = "on"
    BY <2>1, <2>2
  <2>4. v[1] = 0 /\ ~s => p = "off"
    BY <2>1
  <2>5. s => p = "standby"
    BY <2>1, <2>2
  <2> QED
    BY <2>3, <2>4, <2>5 DEF s
<1> HIDE DEF e, p, q
<1>4. e.power = p
  BY <1>1, PowerTells
<1>5. /\ v[1] = 1 => e.power = "on"
      /\ v = <<0, 10>> => e.power = "standby"
      /\ v[1] = 0 /\ v # <<0, 10>> => e.power = "off"
  <2> DEFINE s == v = <<0, 10>>
  <2>1. (v[1] = 1 => p = "on") /\ (s => p = "standby") /\ (v[1] = 0 /\ ~s => p = "off")
    BY <1>2
  <2> HIDE DEF s
  <2>2. (v[1] = 1 => e.power = "on") /\ (s => e.power = "standby") /\ (v[1] = 0 /\ ~s => e.power = "off")
    BY <2>1, <1>4
  <2> QED
    BY <2>2 DEF s
<1> QED
  BY <1>5 DEF e

LEMMA Power22 ==
  ASSUME NEW g, NEW w, NEW v, SoundReply(g, 22, 12, v, w), Len(v) = 2
  PROVE  /\ v[1] = 1 => SoundTold(g, S!Said("power", "on"))
         /\ v = <<0, 10>> => SoundTold(g, S!Said("power", "standby"))
         /\ v[1] = 0 /\ v # <<0, 10>> => SoundTold(g, S!Said("power", "off"))
<1> DEFINE x == S!Target(w)
<1>1. Hears(x) /\ S!Event(g) = S!DiffusionOfDimension(12, v, x)
  BY Reply22, TargetHears
<1> HIDE DEF x
<1>2. ASSUME NEW n, S!Event(g).power = n PROVE SoundTold(g, S!Said("power", n))
  <2> DEFINE d == S!Said("power", n)
  <2>1. d.kind = "power" /\ d.n = n
    BY SoundSaidIs
  <2> HIDE DEF d
  <2>2. S!Truthful(g, d)
    BY <1>2, <2>1, KindsRead
  <2>3. SoundTold(g, d)
    BY <2>1, <2>2, ReplyTold
  <2> QED
    BY <2>3 DEF d
<1>3. /\ v[1] = 1 => S!Event(g).power = "on"
      /\ v = <<0, 10>> => S!Event(g).power = "standby"
      /\ v[1] = 0 /\ v # <<0, 10>> => S!Event(g).power = "off"
  BY <1>1, Power22Tells
<1> QED
  BY <1>2, <1>3

LEMMA SpeakerReports ==
  ASSUME SoundInv, FamiliesAssumption, NEW w, NEW v \in {<<1, 2>>, <<0, 10>>, <<0, 1>>},
         S!Tell(S!DimensionReply(22, w, 12, v), "power",
                IF v[1] = 1 THEN "on" ELSE IF v[2] = 10 THEN "standby" ELSE "off")
  PROVE  SoundInv'
<1> DEFINE n == IF v[1] = 1 THEN "on" ELSE IF v[2] = 10 THEN "standby" ELSE "off"
<1>1. Len(v) = 2
  BY TwoLong
<1>2. \/ v[1] = 1 /\ n = "on"
      \/ v = <<0, 10>> /\ n = "standby"
      \/ v[1] = 0 /\ v # <<0, 10>> /\ n = "off"
  <2>1. CASE v = <<1, 2>>
    BY <2>1
  <2>2. CASE v = <<0, 10>>
    BY <2>2
  <2>3. CASE v = <<0, 1>>
    <3>1. v[1] = 0 /\ v[2] = 1
      BY <2>3
    <3>2. <<0, 10>>[2] = 10
      OBVIOUS
    <3>3. v # <<0, 10>>
      BY <3>1, <3>2
    <3>4. n = "off"
      BY <3>1
    <3> QED
      BY <3>1, <3>3, <3>4
  <2> QED
    BY <2>1, <2>2, <2>3
<1>3. S!Tell(S!DimensionReply(22, w, 12, v), "power", n)
  OBVIOUS
<1> HIDE DEF n
<1>4. \A g : SoundReply(g, 22, 12, v, w) => SoundTold(g, S!Said("power", n))
  BY <1>1, <1>2, Power22
<1> QED
  BY <1>3, <1>4, SoundTells

(* A text that is blank, and a text of a source of WHO 16. *)
LEMMA BlankReports ==
  ASSUME SoundInv, FamiliesAssumption, NEW w,
         S!Tell(S!DimensionReply(22, w, 10, [i \in 1 .. 8 |-> 32]), "blank", 0)
  PROVE  SoundInv'
<1> DEFINE v == [i \in 1 .. 8 |-> 32]
<1>1. Len(v) = 8 /\ DOMAIN v = 1 .. 8 /\ \A i \in 1 .. 8 : v[i] = 32
  OBVIOUS
<1>2. S!Tell(S!DimensionReply(22, w, 10, v), "blank", 0)
  OBVIOUS
<1> HIDE DEF v
<1>3. S!Printable(v) = <<>>
  BY <1>1, NothingPrintable
<1>4. \A g : SoundReply(g, 22, 10, v, w) => SoundTold(g, S!Said("blank", 0))
  BY <1>1, <1>3, Text22
<1> QED
  BY <1>2, <1>4, SoundTells

LEMMA TextReports ==
  ASSUME SoundInv, FamiliesAssumption, NEW w,
         S!Tell(S!DimensionReply(16, w, 8, <<32, 82, 65, 73, 32, 49, 32, 7>>), "text", <<82, 65, 73, 32, 49>>)
  PROVE  SoundInv'
<1> DEFINE v == <<32, 82, 65, 73, 32, 49, 32, 7>>
           t == <<82, 65, 73, 32, 49>>
<1>1. Len(v) = 8
  OBVIOUS
<1>2. S!Tell(S!DimensionReply(16, w, 8, v), "text", t) /\ t = S!Printable(v)
  BY RdsReportIsRead
<1> HIDE DEF v, t
<1>3. \A g : SoundReply(g, 16, 8, v, w) => SoundTold(g, S!Said("text", t))
  BY <1>1, <1>2, Text16
<1> QED
  BY <1>2, <1>3, SoundTells

(* A key of a wall unit, and a source that is busy. *)
LEMMA KeyReports ==
  ASSUME SoundInv, FamiliesAssumption, S!Tell(S!Status(22, 9, <<>>, <<5, 3, 1, 2>>), "key", 0)
  PROVE  SoundInv'
<1> DEFINE w == <<5, 3, 1, 2>>
           f == S!Status(22, 9, <<>>, w)
           d == S!Said("key", 0)
<1>1. w[1] = 5 /\ w[2] = 3 /\ Len(w) = 4
  OBVIOUS
<1>2. SoundStatus(f, 22, 9, <<>>, w)
  BY SoundStatusIs
<1>3. d.kind = "key" /\ d.n = 0
  BY SoundSaidIs
<1>4. S!Tell(f, "key", 0)
  OBVIOUS
<1> HIDE DEF w, f, d
<1>5. S!Target(w).target = "zone_control"
  BY <1>1, TargetHears
<1>6. Means22(9, d.kind, d.n, S!Target(w).target)
  BY <1>3, <1>5 DEF Means22
<1>7. SoundTold(f, d)
  BY <1>2, <1>6, Means22Told
<1> QED
  BY <1>4, <1>7, SoundReports DEF d

LEMMA BusyReports ==
  ASSUME SoundInv, FamiliesAssumption, NEW w, S!Tell(S!Status(16, 100, <<>>, w), "power", "busy")
  PROVE  SoundInv'
<1> DEFINE f == S!Status(16, 100, <<>>, w)
           d == S!Said("power", "busy")
<1>1. SoundStatus(f, 16, 100, <<>>, w)
  BY SoundStatusIs
<1>2. d.kind = "power" /\ d.n = "busy"
  BY SoundSaidIs
<1>3. S!Tell(f, "power", "busy")
  OBVIOUS
<1> HIDE DEF f, d
<1>4. Means16(100, d.kind, d.n)
  BY <1>2 DEF Means16
<1>5. SoundTold(f, d)
  BY <1>1, <1>4, Means16Told
<1> QED
  BY <1>3, <1>5, SoundReports DEF d

LEMMA SoundSenses ==
  ASSUME SoundInv, FamiliesAssumption, S!Sense
  PROVE  SoundInv'
<1>1. CASE \E khz \in {87500, 98700, 106500, 108000}, unit \in {10, 100}, preset \in {0, 5} :
             S!Tell(S!DimensionReply(22, <<2, 1>>, 11, <<1, khz \div unit, preset>>), "tuned", <<khz, preset>>)
  BY <1>1, TunerReports
<1>2. CASE \E v \in {<<1, 2>>, <<0, 10>>, <<0, 1>>} :
             S!Tell(S!DimensionReply(22, <<3, 1, 2>>, 12, v), "power",
                    IF v[1] = 1 THEN "on" ELSE IF v[2] = 10 THEN "standby" ELSE "off")
  BY <1>2, SpeakerReports
<1>3. CASE S!Tell(S!DimensionReply(22, <<2, 1>>, 10, [i \in 1 .. 8 |-> 32]), "blank", 0)
  BY <1>3, BlankReports
<1>4. CASE S!Tell(S!DimensionReply(16, 101, 8, <<32, 82, 65, 73, 32, 49, 32, 7>>), "text", <<82, 65, 73, 32, 49>>)
  BY <1>4, TextReports
<1>5. CASE S!Tell(S!Status(22, 9, <<>>, <<5, 3, 1, 2>>), "key", 0)
  BY <1>5, KeyReports
<1>6. CASE S!Tell(S!Status(16, 100, <<>>, 101), "power", "busy")
  BY <1>6, BusyReports
<1>7. CASE \E e \in 1 .. 9, s \in 0 .. 9 : S!Tell(S!TurnOn(100 + 10 * e + s), "route", <<e, s>>)
  BY <1>7, RouteTold, SoundReports
<1>8. CASE \E s \in 1 .. 9 : S!Tell(S!TurnOn(100 + s), "source", s)
  BY <1>8, SourceTold, SoundReports
<1>9. CASE \E a, p \in 1 .. 9 : S!Tell(S!TurnOn(10 * a + p), "amplifier", <<3, a, p>>)
  BY <1>9, AmplifierTold, SoundReports
<1> QED
  BY <1>1, <1>2, <1>3, <1>4, <1>5, <1>6, <1>7, <1>8, <1>9 DEF S!Sense

LEMMA SoundStep ==
  ASSUME SoundInv, FamiliesAssumption, [S!Next]_<<commands, reports>>
  PROVE  SoundInv'
<1>1. ASSUME NEW w \in {1, 10, 23, 99, 100, 102}, S!CommandSound(w) \/ S!Route(w) PROVE SoundInv'
  BY <1>1, SoundCommands, SoundRoute
<1>2. ASSUME NEW w \in S!Addresses22, S!CommandDiffusion(w) PROVE SoundInv'
  BY <1>2, DiffusionCommands
<1>3. CASE S!Next
  <2>1. \/ \E w \in {1, 10, 23, 99, 100, 102} : S!CommandSound(w) \/ S!Route(w)
        \/ \E w \in S!Addresses22 : S!CommandDiffusion(w)
        \/ S!Sense \/ S!CarryOut({S!AsReply(S!First)}) \/ S!Take
    BY <1>3 DEF S!Next
  <2> QED
    BY <2>1, <1>1, <1>2, SoundSenses, SoundAnswers, SoundTakes
<1>4. CASE UNCHANGED <<commands, reports>>
  BY <1>4 DEF SoundInv, BusOk
<1> QED
  BY <1>3, <1>4
=============================================================================

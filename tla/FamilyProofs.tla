---------------------------- MODULE FamilyProofs ----------------------------
(***************************************************************************)
(* What a line is, for every WHO, every number and fields of every kind:   *)
(* it has one of the shapes, and the two readings of it agree.  Then what  *)
(* is under way in WHO 4 and WHO 1, and what follows for the events and    *)
(* commands of all the families (PlantProofs has the others).              *)
(***************************************************************************)
EXTENDS PlantProofs

(* A line has fields, each of some kind; only the acknowledgements have no  *)
(* WHO, and they have one field.                                            *)
LEMMA LineFields ==
  ASSUME NEW l \in Lines
  PROVE  /\ l.fields \in Seq(Kinds) /\ l.hash \in BOOLEAN /\ l.who \in Int
         /\ l.who = NoWho => l.hash /\ l.fields = <<"n">>
         /\ l.who # NoWho => l.who \in Nat
<1>1. CASE l \in [hash : BOOLEAN, who : Whos, number : Numbers,
                  fields : UNION {[1 .. n -> Kinds] : n \in 0 .. MaxFields}]
  <2>1. PICK n \in 0 .. MaxFields : l.fields \in [1 .. n -> Kinds]
    BY <1>1
  <2>2. n \in Nat /\ l.fields \in Seq(Kinds)
    BY <2>1, DispatchAssumption
  <2>3. l.hash \in BOOLEAN /\ l.who \in Nat
    BY <1>1, DispatchAssumption
  <2> QED
    BY <2>2, <2>3 DEF NoWho
<1>2. CASE l \in [hash : {TRUE}, who : {NoWho}, number : {0, 1}, fields : {<<"n">>}]
  <2>1. l.hash = TRUE /\ l.who = NoWho /\ l.fields = <<"n">>
    BY <1>2
  <2>2. <<"n">> \in Seq(Kinds)
    BY DEF Kinds
  <2>3. l.hash \in BOOLEAN /\ l.hash
    BY <2>1
  <2>4. l.who \in Int /\ l.who \notin Nat
    BY <2>1 DEF NoWho
  <2>5. l.fields \in Seq(Kinds)
    BY <2>1, <2>2
  <2> QED
    BY <2>1, <2>3, <2>4, <2>5
<1> QED
  BY <1>1, <1>2 DEF Lines

(* A sequence of one element, or of two, has that length and starts with it. *)
LEMMA Singles ==
  ASSUME NEW x, NEW y
  PROVE  /\ Len(<<x>>) = 1 /\ <<x>>[1] = x
         /\ Len(<<x, y>>) = 2 /\ <<x, y>>[1] = x
         /\ DOMAIN <<x>> = {1} /\ 1 \in DOMAIN <<x, y>>
OBVIOUS

Event(l) == StatusShape(l) \/ AlarmEmptyWhere(l) \/ DoorEntryShort(l)
Signal(l) == Ack(l) \/ Nack(l) \/ Session(l) \/ Nonce(l) \/ Sha(l)

(* The shapes, told apart by the sign, the WHO, the number of fields, and   *)
(* the kinds of the first two. *)
LEMMA EventLooks ==
  ASSUME NEW l \in Lines, Event(l)
  PROVE  /\ ~l.hash /\ l.who # NoWho
         /\ Len(l.fields) \in {2, 3} \/ (Len(l.fields) = 1 /\ l.who = 6)
BY LineFields, Singles DEF Event, StatusShape, AlarmEmptyWhere, DoorEntryShort

LEMMA SignalLooks ==
  ASSUME NEW l \in Lines, Signal(l)
  PROVE  \/ l.who = NoWho /\ Len(l.fields) = 1
         \/ ~l.hash /\ l.who \in {98, 99} /\ Len(l.fields) = 1
         \/ Nonce(l) /\ Len(l.fields) = 0
<1>1. Len(l.fields) = 1 \/ Nonce(l)
  BY LineFields, Singles DEF Signal, Ack, Nack, Session, Sha, NoWho
<1>2. Nonce(l) => Len(l.fields) = 0
  BY DEF Nonce
<1> QED
  BY <1>1, <1>2 DEF Signal, Ack, Nack, Session, Sha

LEMMA RequestLooks ==
  ASSUME NEW l \in Lines, StatusRequestShape(l)
  PROVE  l.hash /\ l.who # NoWho /\ Len(l.fields) \in {0, 1}
BY LineFields, Singles DEF StatusRequestShape

(* Where there are values there are three fields. *)
LEMMA ValuesAreThere ==
  ASSUME NEW l \in Lines, HashValueReply(l)
  PROVE  Len(l.fields) > 2
<1>1. l.fields \in Seq(Kinds)
  BY LineFields
<1>2. Len(Values(l)) # 0
  <2>1. Values(l) \in {<<"t">>, <<"t", "n">>, <<"a">>}
    BY DEF HashValueReply
  <2> QED
    BY <2>1, Singles
<1>3. Len(Values(l)) = IF 3 <= Len(l.fields) THEN Len(l.fields) - 3 + 1 ELSE 0
  BY <1>1 DEF Values
<1> QED
  BY <1>1, <1>2, <1>3

(* The values of a reply with a sharp are not plain ones. *)
LEMMA SharpIsNotPlain ==
  ASSUME NEW l \in Lines, HashValueReply(l)
  PROVE  ~Plain(Values(l))
<1>1. Values(l) \in {<<"t">>, <<"t", "n">>, <<"a">>}
  BY DEF HashValueReply
<1>2. 1 \in DOMAIN Values(l) /\ Values(l)[1] \in {"t", "a"}
  BY <1>1, Singles
<1> QED
  BY <1>2 DEF Plain

LEMMA DimensionLooks ==
  ASSUME NEW l \in Lines, NEW kinds, OfDimension(l, kinds)
  PROVE  l.hash /\ l.who # NoWho /\ Len(l.fields) >= 2 /\ l.fields[2] \in kinds
BY DEF OfDimension

(* Whatever shape a line has, it has no other: but for a nonce, which reads *)
(* as the request of a WHO, too.                                            *)
LEMMA ShapesApart ==
  ASSUME NEW l \in Lines
  PROVE  /\ Event(l) => /\ ~StatusRequestShape(l) /\ ~DimensionRequestShape(l) /\ ~DimensionReplyShape(l)
                        /\ ~DimensionWritingShape(l) /\ ~HashValueReply(l) /\ ~Signal(l)
         /\ StatusRequestShape(l) => /\ ~DimensionRequestShape(l) /\ ~DimensionReplyShape(l)
                                     /\ ~DimensionWritingShape(l) /\ ~HashValueReply(l)
                                     /\ Signal(l) => Nonce(l)
         /\ DimensionRequestShape(l) => /\ ~DimensionReplyShape(l) /\ ~DimensionWritingShape(l)
                                        /\ ~HashValueReply(l) /\ ~Signal(l)
         /\ DimensionReplyShape(l) => ~DimensionWritingShape(l) /\ ~HashValueReply(l) /\ ~Signal(l)
         /\ DimensionWritingShape(l) => ~HashValueReply(l) /\ ~Signal(l)
         /\ HashValueReply(l) => ~Signal(l)
<1>1. Len(l.fields) \in Nat /\ l.hash \in BOOLEAN
  BY LineFields
<1>2. DimensionRequestShape(l) => l.hash /\ l.who # NoWho /\ Len(l.fields) = 2 /\ l.fields[2] \in Digits
  BY DEF DimensionRequestShape, OfDimension
<1>3. DimensionReplyShape(l) =>
        l.hash /\ l.who # NoWho /\ Len(l.fields) > 2 /\ l.fields[2] \in Digits /\ Plain(Values(l))
  BY DEF DimensionReplyShape, OfDimension
<1>4. DimensionWritingShape(l) =>
        l.hash /\ l.who # NoWho /\ Len(l.fields) > 2 /\ l.fields[2] \in Sharp /\ Plain(Values(l))
  BY DEF DimensionWritingShape, OfDimension
<1>5. HashValueReply(l) =>
        l.hash /\ l.who # NoWho /\ Len(l.fields) > 2 /\ l.fields[2] = "n" /\ ~Plain(Values(l))
  BY SharpIsNotPlain, ValuesAreThere DEF HashValueReply, OfDimension
<1>6. Digits \cap Sharp = {} /\ "n" \notin Sharp
  BY DEF Digits, Sharp
<1>7. Event(l) => /\ ~l.hash /\ l.who # NoWho
                  /\ Len(l.fields) \in {2, 3} \/ (Len(l.fields) = 1 /\ l.who = 6)
  BY EventLooks
<1>8. Signal(l) => \/ l.who = NoWho /\ Len(l.fields) = 1
                   \/ ~l.hash /\ l.who \in {98, 99} /\ Len(l.fields) = 1
                   \/ Nonce(l) /\ Len(l.fields) = 0
  BY SignalLooks
<1>9. StatusRequestShape(l) => l.hash /\ l.who # NoWho /\ Len(l.fields) \in {0, 1}
  BY RequestLooks
<1>10. Event(l) => ~Signal(l)
  <2> SUFFICES ASSUME Event(l), Signal(l) PROVE FALSE
    OBVIOUS
  <2>1. Len(l.fields) \in {2, 3} \/ (Len(l.fields) = 1 /\ l.who = 6)
    BY <1>7
  <2>2. Len(l.fields) \in {0, 1}
    BY <1>8
  <2>3. Len(l.fields) = 1 /\ l.who = 6
    BY <2>1, <2>2
  <2>4. l.who = NoWho \/ l.who \in {98, 99}
    BY <1>8, <2>3
  <2> QED
    BY <2>3, <2>4 DEF NoWho
<1>11. ~l.hash \/ l.who = NoWho \/ Nonce(l) \/ ~Signal(l)
  BY <1>8
<1>12. Signal(l) => Len(l.fields) \in {0, 1}
  BY <1>8
<1>13. StatusRequestShape(l) /\ Signal(l) => Nonce(l)
  BY <1>9, <1>11
<1>14. Event(l) => /\ ~StatusRequestShape(l) /\ ~DimensionRequestShape(l) /\ ~DimensionReplyShape(l)
                   /\ ~DimensionWritingShape(l) /\ ~HashValueReply(l)
  BY <1>2, <1>3, <1>4, <1>5, <1>7, <1>9
<1>15. StatusRequestShape(l) => /\ ~DimensionRequestShape(l) /\ ~DimensionReplyShape(l)
                                /\ ~DimensionWritingShape(l) /\ ~HashValueReply(l)
  BY <1>1, <1>2, <1>3, <1>4, <1>5, <1>9
<1>16. DimensionRequestShape(l) => /\ ~DimensionReplyShape(l) /\ ~DimensionWritingShape(l)
                                   /\ ~HashValueReply(l) /\ ~Signal(l)
  <2>1. Len(l.fields) = 2 => ~(Len(l.fields) > 2) /\ Len(l.fields) \notin {0, 1}
    BY <1>1
  <2> QED
    BY <1>2, <1>3, <1>4, <1>5, <1>12, <2>1
<1>17. DimensionReplyShape(l) => ~DimensionWritingShape(l) /\ ~HashValueReply(l) /\ ~Signal(l)
  BY <1>1, <1>3, <1>4, <1>5, <1>6, <1>12
<1>18. DimensionWritingShape(l) => ~HashValueReply(l) /\ ~Signal(l)
  BY <1>1, <1>4, <1>5, <1>6, <1>12
<1>19. HashValueReply(l) => ~Signal(l)
  BY <1>1, <1>5, <1>12
<1> QED
  BY <1>10, <1>13, <1>14, <1>15, <1>16, <1>17, <1>18, <1>19

(* Every line has one reading, of any WHO and any number of fields. *)
LEMMA OneShapeEach ==
  ASSUME line \in Lines
  PROVE  OneShape
<1> DEFINE shapes == <<StatusShape(line) \/ AlarmEmptyWhere(line) \/ DoorEntryShort(line),
                  StatusRequestShape(line) /\ ~Nonce(line), DimensionRequestShape(line),
                  DimensionReplyShape(line), DimensionWritingShape(line),
                  HashValueReply(line), Ack(line) \/ Nack(line) \/ Session(line) \/ Nonce(line)
                                          \/ Sha(line)>>
<1>1. DOMAIN shapes = 1 .. 7
  OBVIOUS
<1>2. /\ shapes[1] = Event(line) /\ shapes[2] = (StatusRequestShape(line) /\ ~Nonce(line))
      /\ shapes[3] = DimensionRequestShape(line) /\ shapes[4] = DimensionReplyShape(line)
      /\ shapes[5] = DimensionWritingShape(line) /\ shapes[6] = HashValueReply(line)
      /\ shapes[7] = Signal(line)
  BY DEF Event, Signal
<1> HIDE DEF shapes
<1>3. \A i, j \in 1 .. 7 : shapes[i] /\ shapes[j] => i = j
  <2> SUFFICES ASSUME NEW i \in 1 .. 7, NEW j \in 1 .. 7, shapes[i], shapes[j], i # j PROVE FALSE
    OBVIOUS
  <2>1. \A k \in 1 .. 7 : k = 1 \/ k = 2 \/ k = 3 \/ k = 4 \/ k = 5 \/ k = 6 \/ k = 7
    OBVIOUS
  <2>2. /\ ~(Event(line) /\ (StatusRequestShape(line) \/ DimensionRequestShape(line)
                              \/ DimensionReplyShape(line) \/ DimensionWritingShape(line)
                              \/ HashValueReply(line) \/ Signal(line)))
        /\ ~(StatusRequestShape(line) /\ (DimensionRequestShape(line) \/ DimensionReplyShape(line)
                              \/ DimensionWritingShape(line) \/ HashValueReply(line)))
        /\ ~(StatusRequestShape(line) /\ ~Nonce(line) /\ Signal(line))
        /\ ~(DimensionRequestShape(line) /\ (DimensionReplyShape(line) \/ DimensionWritingShape(line)
                              \/ HashValueReply(line) \/ Signal(line)))
        /\ ~(DimensionReplyShape(line) /\ (DimensionWritingShape(line) \/ HashValueReply(line)
                              \/ Signal(line)))
        /\ ~(DimensionWritingShape(line) /\ (HashValueReply(line) \/ Signal(line)))
        /\ ~(HashValueReply(line) /\ Signal(line))
    BY ShapesApart
  <2> QED
    BY <1>2, <2>1, <2>2
<1> QED
  BY <1>1, <1>3 DEF OneShape, shapes

(* parse() goes by these shapes, and so does __init__. *)
LEMMA ReadAsEvent ==
  ASSUME NEW l \in Lines
  PROVE  /\ TypeOf(l) \in EventTypes <=>
              Event(l) \/ DimensionReplyShape(l) \/ HashValueReply(l)
         /\ TypeOf(l) \in CommandTypes <=>
              StatusRequestShape(l) \/ DimensionRequestShape(l) \/ DimensionWritingShape(l)
         /\ TypeOf(l) \in EventTypes \cup CommandTypes \cup {"none"}
<1> DEFINE events == Event(l) \/ DimensionReplyShape(l) \/ HashValueReply(l)
           orders == StatusRequestShape(l) \/ DimensionRequestShape(l) \/ DimensionWritingShape(l)
<1>1. ~(events /\ orders)
  BY ShapesApart
<1>2. CASE events
  <2>1. TypeOf(l) \in EventTypes
    BY <1>1, <1>2 DEF TypeOf, Event, EventTypes
  <2> QED
    BY <1>1, <1>2, <2>1 DEF EventTypes, CommandTypes
<1>3. CASE orders
  <2>1. TypeOf(l) \in CommandTypes
    BY <1>1, <1>3 DEF TypeOf, Event, CommandTypes
  <2> QED
    BY <1>1, <1>3, <2>1 DEF EventTypes, CommandTypes
<1>4. CASE ~events /\ ~orders
  <2>1. TypeOf(l) = "none"
    BY <1>4 DEF TypeOf, Event
  <2> QED
    BY <1>4, <2>1 DEF EventTypes, CommandTypes
<1> QED
  BY <1>2, <1>3, <1>4

EventClasses == {"event", "OWNEvent"}
CommandClasses == {"command", "OWNCommand", "OWNStatusRequest"}

LEMMA ReadAsClass ==
  ASSUME NEW l \in Lines
  PROVE  /\ Signal(l) => Parse(l) = "OWNSignaling"
         /\ ~Signal(l) /\ TypeOf(l) \in EventTypes => Parse(l) \in EventClasses
         /\ ~Signal(l) /\ TypeOf(l) \in CommandTypes => Parse(l) \in CommandClasses \cup {"None"}
         /\ ~Signal(l) /\ TypeOf(l) = "none" => Parse(l) = "None"
<1> DEFINE events == Event(l) \/ DimensionReplyShape(l) \/ HashValueReply(l)
           orders == StatusRequestShape(l) \/ DimensionRequestShape(l) \/ DimensionWritingShape(l)
<1>1. /\ TypeOf(l) \in EventTypes <=> events
      /\ TypeOf(l) \in CommandTypes <=> orders
      /\ ~(events /\ orders)
  BY ReadAsEvent, ShapesApart
<1>2. Parse(l) = IF Signal(l) THEN "OWNSignaling"
                 ELSE IF events THEN ParseEvent(l)
                 ELSE IF orders THEN ParseCommand(l) ELSE "None"
  BY DEF Parse, Signal, Event
<1>3. ParseEvent(l) \in EventClasses /\ ParseCommand(l) \in CommandClasses \cup {"None"}
  BY DEF ParseEvent, ParseCommand, EventClasses, CommandClasses
<1>4. TypeOf(l) = "none" => ~events /\ ~orders
  BY <1>1 DEF EventTypes, CommandTypes
<1> HIDE DEF events, orders
<1> QED
  BY <1>1, <1>2, <1>3, <1>4

(* The inductive invariant: what was done with the line. *)
ReadingInv ==
  /\ line \in Lines
  /\ \/ step = "text" /\ class = "None" /\ type = "none"
     \/ /\ step = "parsed" /\ class = Parse(line)
        /\ type = IF class \in {"None", "OWNSignaling"} THEN "none" ELSE TypeOf(line)
     \/ step = "built" /\ class = "OWNStatusRequest" /\ type = TypeOf(line)

LEMMA ReadingInvInit == Init => ReadingInv
BY DEF Init, ReadingInv

LEMMA ReadingInvStep == ReadingInv /\ [Next]_vars => ReadingInv'
BY DEF ReadingInv, Next, ParseLine, RequestStatus, vars

LEMMA ReadOneWay == ReadingInv => LinesReadOneWay
<1>1. ReadingInv => LinesReadOneWay
  <2> SUFFICES ASSUME ReadingInv PROVE LinesReadOneWay
    OBVIOUS
  <2>1. line \in Lines
    BY DEF ReadingInv
  <2>2. /\ TypeOf(line) \in EventTypes \cup CommandTypes \cup {"none"}
        /\ Signal(line) => Parse(line) = "OWNSignaling"
        /\ ~Signal(line) /\ TypeOf(line) \in EventTypes => Parse(line) \in EventClasses
        /\ ~Signal(line) /\ TypeOf(line) \in CommandTypes => Parse(line) \in CommandClasses \cup {"None"}
        /\ ~Signal(line) /\ TypeOf(line) = "none" => Parse(line) = "None"
    BY <2>1, ReadAsEvent, ReadAsClass
  <2>3. Parse(line) \in EventClasses \cup CommandClasses \cup {"None", "OWNSignaling"}
    BY <2>2
  <2>4. TypeOK
    BY <2>1, <2>2, <2>3 DEF ReadingInv, TypeOK, EventClasses, CommandClasses
  <2>5. ClassAgreesWithType
    <3> SUFFICES ASSUME step = "parsed"
                 PROVE  /\ class \in EventClasses <=> type \in EventTypes
                        /\ class \in CommandClasses <=> type \in CommandTypes
                        /\ TypeOf(line) \in EventTypes => class # "None"
      BY DEF ClassAgreesWithType, EventClasses, CommandClasses
    <3>1. class = Parse(line) /\ type = IF class \in {"None", "OWNSignaling"} THEN "none" ELSE TypeOf(line)
      BY DEF ReadingInv
    <3> QED
      BY <2>2, <3>1 DEF EventClasses, CommandClasses, EventTypes, CommandTypes
  <2>6. OneShape
    BY <2>1, OneShapeEach
  <2> QED
    BY <2>4, <2>5, <2>6 DEF LinesReadOneWay
<1> QED
  BY <1>1

(* A line of any WHO, with fields of any kind and number, has one reading: *)
(* the class that the sessions act on and the type that the decoders go by *)
(* are of one sort, and no order of the tests decides what it is.          *)
THEOREM OneReading == Spec => []LinesReadOneWay
BY ReadingInvInit, ReadingInvStep, ReadOneWay, PTL DEF Spec

(* The same where the families are too. *)
THEOREM OneReadingHere == FamiliesSpec => []LinesReadOneWay
<1>1. FamiliesInit => Init
  BY DEF FamiliesInit, LinesRest, OthersRest
<1>2. [FamiliesNext]_familyVars => [Next]_vars
  BY DEF FamiliesNext, Dispatch_Next, Lighting_Next, Heating_Next, Sound_Next, DoorEntry_Next,
       Energy_Next, Clock_Next, Bus_Only, familyVars
<1> QED
  BY <1>1, <1>2, ReadingInvInit, ReadingInvStep, ReadOneWay, PTL DEF FamiliesSpec


(******************************** Heating ********************************)

(* A temperature in the four digits of a frame, with its sign. *)
LEMMA Positive ==
  ASSUME NEW t \in 0 .. 999
  PROVE  H!Temperature(t) = t
BY DEF H!Temperature

LEMMA Signed ==
  ASSUME NEW t \in 1 .. 999
  PROVE  H!Temperature(1000 + t) = -t
<1>1. (1000 + t) % 1000 = t
  OBVIOUS
<1> QED
  BY <1>1 DEF H!Temperature

LEMMA RawIsRead ==
  ASSUME NEW t \in -999 .. 999
  PROVE  H!Temperature(H!Raw(t)) = t
<1>1. CASE t >= 0
  BY <1>1, Positive DEF H!Raw
<1>2. CASE t < 0
  <2> DEFINE m == -t
  <2>1. m \in 1 .. 999 /\ 1000 - t = 1000 + m /\ t = -m
    BY <1>2
  <2> HIDE DEF m
  <2>2. H!Temperature(1000 + m) = -m
    BY <2>1, Signed
  <2> QED
    BY <1>2, <2>1, <2>2 DEF H!Raw
<1> QED
  BY <1>1, <1>2

LEMMA TenthsOf ==
  ASSUME NEW n \in Int, 0 <= n, n <= 9990, NEW k, k = (n + 5) \div 10
  PROVE  k \in Int /\ 0 <= k /\ k <= 999 /\ 10 * k - n <= 5 /\ n - 10 * k <= 5
OBVIOUS

FourDigits(s) == s \in 0 .. 1999
Nearest(r, n) == 10 * r - n \in -5 .. 5

LEMMA EncodedNear ==
  ASSUME NEW n \in Int, -9990 <= n, n <= 9990, NEW c, c = H!EncodeTemperature(n),
         NEW r, r = H!Temperature(c)
  PROVE  FourDigits(c) /\ Nearest(r, n)
<1> DEFINE Told == c \in 0 .. 1999 /\ r \in Int /\ 10 * r - n <= 5 /\ n - 10 * r <= 5
<1>1. ASSUME n >= 0 PROVE Told
  <2> DEFINE k == (n + 5) \div 10
  <2>2. c = k
    BY <1>1 DEF H!EncodeTemperature
  <2>0. k = (n + 5) \div 10
    OBVIOUS
  <2> HIDE DEF k
  <2>1. k \in Int /\ 0 <= k /\ k <= 999 /\ 10 * k - n <= 5 /\ n - 10 * k <= 5
    BY <1>1, <2>0, TenthsOf
  <2>3. H!Temperature(k) = k
    BY <2>1, Positive
  <2> QED
    BY <2>1, <2>2, <2>3
<1>2. ASSUME n < 0 PROVE Told
  <2> DEFINE m == -n
             k == (m + 5) \div 10
  <2>0. m \in Int /\ 0 <= m /\ m <= 9990 /\ n + m = 0
    BY <1>2
  <2>2. c = IF k # 0 THEN 1000 + k ELSE k
    BY <1>2 DEF H!EncodeTemperature
  <2>3. k = (m + 5) \div 10
    OBVIOUS
  <2> HIDE DEF m, k
  <2>1. k \in Int /\ 0 <= k /\ k <= 999 /\ 10 * k - m <= 5 /\ m - 10 * k <= 5
    BY <2>0, <2>3, TenthsOf
  <2>4. CASE k = 0
    <3>1. c = 0 /\ H!Temperature(c) = 0
      BY <2>2, <2>4, Positive
    <3> QED
      BY <2>0, <2>1, <2>4, <3>1
  <2>5. CASE k # 0
    <3>1. c = 1000 + k /\ H!Temperature(1000 + k) = -k
      BY <2>1, <2>2, <2>5, Signed
    <3> QED
      BY <2>0, <2>1, <3>1
  <2> QED
    BY <2>4, <2>5
<1>3. c \in 0 .. 1999 /\ r \in Int /\ 10 * r - n <= 5 /\ n - 10 * r <= 5
  BY <1>1, <1>2
<1>4. 10 * r - n \in -5 .. 5
  BY <1>3
<1> QED
  BY <1>3, <1>4 DEF FourDigits, Nearest

(* A setpoint is within a quarter of a degree of what is asked for. *)
LEMMA HalfSteps ==
  ASSUME NEW q \in Int
  PROVE  \E x \in Int : /\ x = IF q % 4 = 3 THEN (q + 1) \div 2 ELSE q \div 2
                        /\ 2 * x \in q - 1 .. q + 1
<1>1. q \div 2 \in Int /\ 2 * (q \div 2) \in q - 1 .. q
  OBVIOUS
<1>2. (q + 1) \div 2 \in Int /\ 2 * ((q + 1) \div 2) \in q .. q + 1
  OBVIOUS
<1> QED
  BY <1>1, <1>2

LEMMA SetpointIs ==
  ASSUME NEW q \in Int, NEW s, s = H!Setpoint(q)
  PROVE  /\ s \in 50 .. 400 /\ s \in 0 .. 1999 /\ H!Temperature(s) = s
         /\ 2 * s - 5 * H!Clamp(20, 160, q) \in -5 .. 5
<1>1. PICK x \in Int : /\ x = IF q % 4 = 3 THEN (q + 1) \div 2 ELSE q \div 2
                       /\ 2 * x \in q - 1 .. q + 1
  BY HalfSteps
<1>2. s = 5 * H!Clamp(10, 80, x)
  BY <1>1 DEF H!Setpoint
<1>3. H!Clamp(10, 80, x) \in 10 .. 80 /\ 2 * H!Clamp(10, 80, x) - H!Clamp(20, 160, q) \in -1 .. 1
      /\ H!Clamp(20, 160, q) \in Int
  BY <1>1 DEF H!Clamp
<1>4. s \in 50 .. 400 /\ s \in 0 .. 999 /\ 2 * s - 5 * H!Clamp(20, 160, q) \in -5 .. 5
  BY <1>2, <1>3
<1>5. H!Temperature(s) = s
  BY <1>4, Positive
<1> QED
  BY <1>4, <1>5


HeatStatus(f, what, par, w) ==
  f.type = "STATUS" /\ f.what = what /\ f.wpar = par /\ f.where = w /\ f.dim = H!Null
HeatReply(f, dim, v, w) ==
  f.type = "DIMENSION_REQUEST_REPLY" /\ f.what = H!Null /\ f.dim = dim /\ f.val = v /\ f.where = w
HeatWrite(f, dim, v, w) ==
  f.type = "DIMENSION_WRITING" /\ f.what = H!Null /\ f.dim = dim /\ f.val = v /\ f.where = w

LEMMA HeatFrames ==
  ASSUME NEW a, NEW v, NEW w
  PROVE  /\ HeatStatus(H!Status(4, a, v, w), a, v, w) /\ H!Status(4, a, v, w) # H!Refuse
         /\ HeatReply(H!DimensionReply(4, w, a, v), a, v, w) /\ H!DimensionReply(4, w, a, v) # H!Refuse
         /\ HeatWrite(H!DimensionWriting(4, w, a, v), a, v, w) /\ H!DimensionWriting(4, w, a, v) # H!Refuse
BY DEF HeatStatus, HeatReply, HeatWrite, H!Status, H!DimensionReply, H!DimensionWriting, H!Frame, H!Refuse

LEMMA HeatSaidIs ==
  ASSUME NEW k, NEW z, NEW n, NEW t, t = H!Said(k, z, n)
  PROVE  t.kind = k /\ t.zone = z /\ t.n = n
BY DEF H!Said

(* What a report has to tell, kind by kind. *)
LEMMA ModeReadsBack ==
  ASSUME NEW f, NEW t, t.kind = "mode"
  PROVE  /\ t.n = "heat" /\ H!HeatingEvent(f).type = "season" /\ H!HeatingEvent(f).season = "heating" => H!ReadsBack(f, t)
         /\ t.n = "cool" /\ H!HeatingEvent(f).type = "season" /\ H!HeatingEvent(f).season = "conditioning" => H!ReadsBack(f, t)
         /\ t.n = "auto" /\ H!HeatingEvent(f).mode = "auto" => H!ReadsBack(f, t)
         /\ t.n \notin {"heat", "cool", "auto"} /\ H!HeatingEvent(f).mode = "off" => H!ReadsBack(f, t)
<1>1. t.n = "heat" /\ H!HeatingEvent(f).type = "season" /\ H!HeatingEvent(f).season = "heating" => H!ReadsBack(f, t)
  BY DEF H!ReadsBack
<1>2. t.n = "cool" /\ H!HeatingEvent(f).type = "season" /\ H!HeatingEvent(f).season = "conditioning" => H!ReadsBack(f, t)
  BY DEF H!ReadsBack
<1>3. t.n = "auto" /\ H!HeatingEvent(f).mode = "auto" => H!ReadsBack(f, t)
  BY DEF H!ReadsBack
<1>4. t.n \notin {"heat", "cool", "auto"} /\ H!HeatingEvent(f).mode = "off" => H!ReadsBack(f, t)
  BY DEF H!ReadsBack
<1> QED
  BY <1>1, <1>2, <1>3, <1>4

LEMMA KindsReadBack ==
  ASSUME NEW f, NEW t, NEW n, t.n = n
  PROVE  /\ t.kind = "set" /\ 2 * H!HeatingEvent(f).set - 5 * H!Clamp(20, 160, n) \in -5 .. 5 => H!ReadsBack(f, t)
         /\ t.kind = "fan" /\ H!HeatingEvent(f).fan = n /\ H!HeatingEvent(f).active => H!ReadsBack(f, t)
         /\ t.kind = "program" /\ H!HeatingEvent(f).type = "mode" /\ H!HeatingEvent(f).program = n => H!ReadsBack(f, t)
         /\ t.kind = "scenario" /\ H!HeatingEvent(f).type = "mode" /\ H!HeatingEvent(f).scenario = n => H!ReadsBack(f, t)
         /\ t.kind = "span" /\ H!HeatingEvent(f).span = n => H!ReadsBack(f, t)
         /\ t.kind = "report" /\ H!HeatingEvent(f).type = "main" /\ 10 * H!HeatingEvent(f).measured - n \in -5 .. 5
              => H!ReadsBack(f, t)
<1>1. t.kind = "set" /\ 2 * H!HeatingEvent(f).set - 5 * H!Clamp(20, 160, n) \in -5 .. 5 => H!ReadsBack(f, t)
  BY DEF H!ReadsBack
<1>2. t.kind = "fan" /\ H!HeatingEvent(f).fan = n /\ H!HeatingEvent(f).active => H!ReadsBack(f, t)
  BY DEF H!ReadsBack
<1>3. t.kind = "program" /\ H!HeatingEvent(f).type = "mode" /\ H!HeatingEvent(f).program = n => H!ReadsBack(f, t)
  BY DEF H!ReadsBack
<1>4. t.kind = "scenario" /\ H!HeatingEvent(f).type = "mode" /\ H!HeatingEvent(f).scenario = n => H!ReadsBack(f, t)
  BY DEF H!ReadsBack
<1>5. t.kind = "span" /\ H!HeatingEvent(f).span = n => H!ReadsBack(f, t)
  BY DEF H!ReadsBack
<1>6. t.kind = "report" /\ H!HeatingEvent(f).type = "main" /\ 10 * H!HeatingEvent(f).measured - n \in -5 .. 5
        => H!ReadsBack(f, t)
  BY DEF H!ReadsBack
<1> QED
  BY <1>1, <1>2, <1>3, <1>4, <1>5, <1>6

LEMMA HolidayReadsBack ==
  ASSUME NEW f, NEW t, NEW d, NEW p, t.kind = "holiday", t.n = <<d, p>>, H!HeatingEvent(f).type = "mode",
         H!HeatingEvent(f).days = d, H!HeatingEvent(f).program = p
  PROVE  H!ReadsBack(f, t)
BY DEF H!ReadsBack

SensedKinds == {"main", "local", "secondary", "running", "offset", "season", "nothing"}

LEMMA KindsAreTrue ==
  ASSUME NEW f, NEW t, H!ZoneOf(f.where) = t.zone
  PROVE  /\ t.kind = "main" /\ H!HeatingEvent(f).type = "main" /\ H!HeatingEvent(f).measured = t.n => H!Truthful(f, t)
         /\ t.kind = "local" /\ H!HeatingEvent(f).measured = t.n => H!Truthful(f, t)
         /\ t.kind = "offset" /\ H!HeatingEvent(f).offset = t.n => H!Truthful(f, t)
         /\ t.kind = "season" /\ H!HeatingEvent(f).type = "season" /\ H!HeatingEvent(f).mode = "none" => H!Truthful(f, t)
         /\ t.kind = "nothing" /\ H!HeatingEvent(f) = H!NoEvent => H!Truthful(f, t)
         /\ t.kind \notin SensedKinds => H!Truthful(f, t)
<1>1. t.kind = "main" /\ H!HeatingEvent(f).type = "main" /\ H!HeatingEvent(f).measured = t.n => H!Truthful(f, t)
  BY DEF H!Truthful
<1>2. t.kind = "local" /\ H!HeatingEvent(f).measured = t.n => H!Truthful(f, t)
  BY DEF H!Truthful
<1>3. t.kind = "offset" /\ H!HeatingEvent(f).offset = t.n => H!Truthful(f, t)
  BY DEF H!Truthful
<1>4. t.kind = "season" /\ H!HeatingEvent(f).type = "season" /\ H!HeatingEvent(f).mode = "none" => H!Truthful(f, t)
  BY DEF H!Truthful
<1>5. t.kind = "nothing" /\ H!HeatingEvent(f) = H!NoEvent => H!Truthful(f, t)
  BY DEF H!Truthful
<1>6. t.kind \notin SensedKinds => H!Truthful(f, t)
  BY DEF H!Truthful, SensedKinds
<1> QED
  BY <1>1, <1>2, <1>3, <1>4, <1>5, <1>6

LEMMA RunningIsTrue ==
  ASSUME NEW f, NEW t, H!ZoneOf(f.where) = t.zone, t.kind = "running", H!HeatingEvent(f).active = t.n
  PROVE  H!Truthful(f, t)
BY DEF H!Truthful

LEMMA SecondaryIsTrue ==
  ASSUME NEW f, NEW t, NEW s, NEW m, H!ZoneOf(f.where) = t.zone, t.kind = "secondary", t.n = <<s, m>>,
         H!HeatingEvent(f).type = "secondary", H!HeatingEvent(f).sensor = s, H!HeatingEvent(f).measured = m
  PROVE  H!Truthful(f, t)
BY DEF H!Truthful


LEMMA ModesAre ==
  /\ \A what \in {102, 202, 302, 303} : H!ModeOf(what) = "off"
  /\ \A what \in {311, 312, 315} : H!ModeOf(what) = "auto"
BY DEF H!ModeOf

LEMMA CentralModes ==
  ASSUME NEW what \in Int,
         (3101 <= what /\ what <= 3116) \/ (3201 <= what /\ what <= 3216) \/ (33001 <= what /\ what <= 33255)
  PROVE  H!ModeOf(what) = "auto"
<1>1. /\ what \notin {102, 103, 202, 203, 302, 303}
      /\ what \notin {210, 211, 212, 215} \cup 2101 .. 2103 \cup 2201 .. 2216 \cup 23001 .. 23255
      /\ what \notin {110, 111, 112, 115} \cup 1101 .. 1103 \cup 1201 .. 1216 \cup 13001 .. 13255
      /\ what \in {310, 311, 312, 315} \cup 3101 .. 3116 \cup 3201 .. 3216 \cup 33001 .. 33255
  OBVIOUS
<1> QED
  BY <1>1 DEF H!ModeOf

(* A mode, with the days of a holiday, a program or a scenario. *)
ModeEvent(what) ==
  [H!NoEvent EXCEPT !.type = "mode", !.mode = H!ModeOf(what), !.season = H!SeasonOf(what),
     !.days = IF what \in H!Holiday THEN what % 1000 ELSE H!Null,
     !.program = IF what \in H!Programs THEN what % 100 ELSE H!Null,
     !.scenario = IF what \in H!Scenarios THEN what % 100 ELSE H!Null]

LEMMA ModeEventIs ==
  ASSUME NEW what, NEW e, e = ModeEvent(what)
  PROVE  /\ e.type = "mode" /\ e.mode = H!ModeOf(what)
         /\ e.days = IF what \in H!Holiday THEN what % 1000 ELSE H!Null
         /\ e.program = IF what \in H!Programs THEN what % 100 ELSE H!Null
         /\ e.scenario = IF what \in H!Scenarios THEN what % 100 ELSE H!Null
         /\ DOMAIN e = DOMAIN H!NoEvent
BY DEF ModeEvent, H!NoEvent

(* A WHAT without parameters. *)
SeasonEvent(s) == [H!NoEvent EXCEPT !.type = "season", !.season = s]

LEMMA SeasonEventIs ==
  ASSUME NEW s, NEW e, e = SeasonEvent(s)
  PROVE  e.type = "season" /\ e.season = s /\ e.mode = "none"
BY DEF SeasonEvent, H!NoEvent

LEMMA BareWhat ==
  ASSUME NEW what, NEW w, NEW f, HeatStatus(f, what, <<>>, w)
  PROVE  /\ what \notin {0, 1} /\ H!ModeOf(what) # "none" => H!HeatingEvent(f) = ModeEvent(what)
         /\ what \in {0, 1} => /\ H!HeatingEvent(f).type = "season" /\ H!HeatingEvent(f).mode = "none"
                               /\ H!HeatingEvent(f).season = IF what = 1 THEN "heating" ELSE "conditioning"
<1>1. H!HeatingEvent(f) = H!EventOfWhat(what, <<>>)
  BY DEF HeatStatus, H!HeatingEvent
<1>2. what \notin {0, 1} /\ H!ModeOf(what) # "none" => H!EventOfWhat(what, <<>>) = ModeEvent(what)
  BY DEF H!EventOfWhat, ModeEvent
<1>3. what \in {0, 1} => H!EventOfWhat(what, <<>>) = SeasonEvent(IF what = 1 THEN "heating" ELSE "conditioning")
  BY DEF H!EventOfWhat, SeasonEvent
<1> QED
  BY <1>1, <1>2, <1>3, SeasonEventIs

(* A WHAT with a program to resume, or with a setpoint. *)
LEMMA ResumingWhat ==
  ASSUME NEW what, NEW par, NEW w, NEW f, HeatStatus(f, what, par, w), Len(par) > 0,
         what \in H!Holiday \cup {115, 215, 315}, H!ModeOf(what) # "none", what \notin {0, 1}, NEW p, p = par[1] % 100
  PROVE  /\ H!HeatingEvent(f).type = "mode" /\ H!HeatingEvent(f).program = p
         /\ what \in H!Holiday => H!HeatingEvent(f).days = what % 1000
<1>1. par # <<>>
  BY NotEmpty
<1>2. H!HeatingEvent(f) = [ModeEvent(what) EXCEPT !.program = p]
  BY <1>1 DEF HeatStatus, H!HeatingEvent, H!EventOfWhat, ModeEvent
<1>3. "program" \in DOMAIN H!NoEvent
  BY DEF H!NoEvent
<1> DEFINE x == ModeEvent(what)
<1>4. x.type = "mode" /\ DOMAIN x = DOMAIN H!NoEvent /\ (what \in H!Holiday => x.days = what % 1000)
  BY ModeEventIs
<1> HIDE DEF x
<1>5. LET e == [x EXCEPT !.program = p]
      IN e.type = x.type /\ e.program = p /\ e.days = x.days
  BY <1>3, <1>4
<1> QED
  BY <1>2, <1>4, <1>5 DEF x

LEMMA WarmingWhat ==
  ASSUME NEW par, NEW w, NEW f, HeatStatus(f, 312, par, w), Len(par) > 0, NEW s, s = H!Temperature(par[1])
  PROVE  H!HeatingEvent(f).set = s
<1>1. par # <<>>
  BY NotEmpty
<1>2. H!ModeOf(312) # "none" /\ 312 \notin H!Holiday \cup {115, 215, 315}
  BY ModesAre DEF H!Holiday
<1>3. H!HeatingEvent(f) = [ModeEvent(312) EXCEPT !.type = "mode_target", !.set = s]
  BY <1>1, <1>2 DEF HeatStatus, H!HeatingEvent, H!EventOfWhat, ModeEvent
<1>4. "set" \in DOMAIN H!NoEvent
  BY DEF H!NoEvent
<1> DEFINE x == ModeEvent(312)
<1>5. DOMAIN x = DOMAIN H!NoEvent
  BY ModeEventIs
<1> HIDE DEF x
<1>6. [x EXCEPT !.type = "mode_target", !.set = s].set = s
  BY <1>4, <1>5
<1> QED
  BY <1>3, <1>6 DEF x


(* The value of a dimension. *)
LEMMA HeatReplyEvent ==
  ASSUME NEW f, NEW dim, NEW v, NEW w, HeatReply(f, dim, v, w), Len(v) > 0
  PROVE  H!HeatingEvent(f) = H!EventOfDimension(f)
<1>1. v # <<>>
  BY NotEmpty
<1> QED
  BY <1>1 DEF H!HeatingEvent, HeatReply

MeasuredBy(ty, raw, s) == [H!Measured(ty, raw) EXCEPT !.sensor = s]

LEMMA MeasuredIs ==
  ASSUME NEW ty, NEW raw, NEW s
  PROVE  /\ MeasuredBy(ty, raw, s).type = ty /\ MeasuredBy(ty, raw, s).sensor = s
         /\ MeasuredBy(ty, raw, s).measured = H!Temperature(raw)
         /\ H!Measured(ty, raw).measured = H!Temperature(raw)
BY DEF MeasuredBy, H!Measured, H!NoEvent

SettingIs(s) == [H!NoEvent EXCEPT !.type = "target", !.set = s]
FanEvent(n) == [H!NoEvent EXCEPT !.type = "fan_speed", !.active = n < 4, !.fan = IF n < 4 THEN n ELSE H!Null]
Spanning(v) == [H!NoEvent EXCEPT !.span = v]

(* The value of each dimension, as it is read. *)
LEMMA DimensionArms ==
  ASSUME NEW f, f.type # "DIMENSION_WRITING"
  PROVE
    /\ f.dim = 0 => H!EventOfDimension(f) = MeasuredBy(IF H!SensorOf(f.where) = H!Null THEN "main" ELSE "secondary", f.val[1], H!SensorOf(f.where))
    /\ f.dim = 7 => H!EventOfDimension(f) = H!ZoneState(f.val)
    /\ f.dim = 11 => H!EventOfDimension(f) = FanEvent(f.val[1])
    /\ f.dim = 12 => H!EventOfDimension(f) = H!Measured("local_target", f.val[1])
    /\ f.dim = 13 => H!EventOfDimension(f) = H!LocalOffset(f.val[1])
    /\ f.dim = 14 => H!EventOfDimension(f) = SettingIs(H!Temperature(f.val[1]))
    /\ f.dim = 19 /\ Len(f.val) >= 2 => H!EventOfDimension(f) = H!Valves(f.val)
    /\ f.dim = 20 => H!EventOfDimension(f) = H!Actuator(f.val[1])
    /\ f.dim = 15 /\ Len(f.val) >= 2 => H!EventOfDimension(f) = MeasuredBy("secondary", f.val[2], f.val[1])
    /\ f.dim = 30 => H!EventOfDimension(f) = Spanning(f.val)
    /\ f.dim = 31 => H!EventOfDimension(f) = Spanning(f.val)
    /\ f.dim = 32 => H!EventOfDimension(f) = Spanning(f.val)
<1>1. f.dim = 0 => H!EventOfDimension(f) = MeasuredBy(IF H!SensorOf(f.where) = H!Null THEN "main" ELSE "secondary", f.val[1], H!SensorOf(f.where))
  BY DEF H!EventOfDimension, MeasuredBy
<1>2. f.dim = 7 => H!EventOfDimension(f) = H!ZoneState(f.val)
  BY DEF H!EventOfDimension
<1>3. f.dim = 11 => H!EventOfDimension(f) = FanEvent(f.val[1])
  BY DEF H!EventOfDimension, FanEvent
<1>4. f.dim = 12 => H!EventOfDimension(f) = H!Measured("local_target", f.val[1])
  BY DEF H!EventOfDimension
<1>5. f.dim = 13 => H!EventOfDimension(f) = H!LocalOffset(f.val[1])
  BY DEF H!EventOfDimension
<1>6. f.dim = 14 => H!EventOfDimension(f) = SettingIs(H!Temperature(f.val[1]))
  BY DEF H!EventOfDimension, SettingIs
<1>7. f.dim = 19 /\ Len(f.val) >= 2 => H!EventOfDimension(f) = H!Valves(f.val)
  BY DEF H!EventOfDimension
<1>8. f.dim = 20 => H!EventOfDimension(f) = H!Actuator(f.val[1])
  BY DEF H!EventOfDimension
<1>9. f.dim = 15 /\ Len(f.val) >= 2 => H!EventOfDimension(f) = MeasuredBy("secondary", f.val[2], f.val[1])
  BY DEF H!EventOfDimension, MeasuredBy
<1>10. f.dim = 30 => H!EventOfDimension(f) = Spanning(f.val)
  BY DEF H!EventOfDimension, Spanning
<1>11. f.dim = 31 => H!EventOfDimension(f) = Spanning(f.val)
  BY DEF H!EventOfDimension, Spanning
<1>12. f.dim = 32 => H!EventOfDimension(f) = Spanning(f.val)
  BY DEF H!EventOfDimension, Spanning
<1> QED
  BY <1>1, <1>2, <1>3, <1>4, <1>5, <1>6, <1>7, <1>8, <1>9, <1>10, <1>11, <1>12

LEMMA MainTells ==
  ASSUME NEW f, NEW v, NEW w, HeatReply(f, 0, v, w), Len(v) > 0
  PROVE  /\ H!HeatingEvent(f).measured = H!Temperature(v[1])
         /\ H!HeatingEvent(f).sensor = H!SensorOf(w)
         /\ H!HeatingEvent(f).type = IF H!SensorOf(w) = H!Null THEN "main" ELSE "secondary"
<1>1. H!HeatingEvent(f) = MeasuredBy(IF H!SensorOf(w) = H!Null THEN "main" ELSE "secondary", v[1], H!SensorOf(w))
  BY HeatReplyEvent, DimensionArms DEF HeatReply
<1> QED
  BY <1>1, MeasuredIs

LEMMA LocalTells ==
  ASSUME NEW f, NEW v, NEW w, HeatReply(f, 12, v, w), Len(v) > 0
  PROVE  H!HeatingEvent(f).measured = H!Temperature(v[1])
<1>1. H!HeatingEvent(f) = H!Measured("local_target", v[1])
  BY HeatReplyEvent, DimensionArms DEF HeatReply
<1> QED
  BY <1>1, MeasuredIs

LEMMA ProbeTells ==
  ASSUME NEW f, NEW v, NEW w, HeatReply(f, 15, v, w), Len(v) >= 2, Len(v) \in Nat
  PROVE  /\ H!HeatingEvent(f).measured = H!Temperature(v[2]) /\ H!HeatingEvent(f).sensor = v[1]
         /\ H!HeatingEvent(f).type = "secondary"
<1>0. Len(v) > 0
  OBVIOUS
<1>1. H!HeatingEvent(f) = MeasuredBy("secondary", v[2], v[1])
  BY <1>0, HeatReplyEvent, DimensionArms DEF HeatReply
<1> QED
  BY <1>1, MeasuredIs

(* A setpoint, as a target or as the state of a zone. *)
StateIs(c, n, s) == [H!NoEvent EXCEPT !.type = "zone_state", !.context = c, !.state = n, !.set = s]

LEMMA SetTells ==
  ASSUME NEW s, NEW c, NEW n
  PROVE  SettingIs(s).set = s /\ StateIs(c, n, s).set = s
BY DEF SettingIs, StateIs, H!NoEvent

LEMMA TargetTells ==
  ASSUME NEW f, NEW v, NEW w, HeatReply(f, 14, v, w), Len(v) > 0
  PROVE  H!HeatingEvent(f).set = H!Temperature(v[1])
<1>1. H!HeatingEvent(f) = SettingIs(H!Temperature(v[1]))
  BY HeatReplyEvent, DimensionArms DEF HeatReply
<1> QED
  BY <1>1, SetTells

LEMMA ZoneStateTells ==
  ASSUME NEW f, NEW v, NEW w, HeatReply(f, 7, v, w), Len(v) > 0
  PROVE  H!HeatingEvent(f) = H!ZoneState(v)
BY HeatReplyEvent, DimensionArms DEF HeatReply

LEMMA StateTells ==
  ASSUME NEW f, NEW v, NEW w, HeatReply(f, 7, v, w), Len(v) = 3, v[1] \in 0 .. 3, v[2] = 1
  PROVE  H!HeatingEvent(f).set = H!Temperature(v[3])
<1>1. Len(v) > 0
  OBVIOUS
<1>2. H!ZoneState(v) = StateIs(v[1], v[2], H!Temperature(v[3]))
  BY DEF H!ZoneState, StateIs
<1>3. H!HeatingEvent(f) = StateIs(v[1], v[2], H!Temperature(v[3]))
  BY <1>1, <1>2, ZoneStateTells
<1> QED
  BY <1>3, SetTells

(* Fans, valves, actuators. *)
Moves(ty, fan, active) == [H!NoEvent EXCEPT !.type = ty, !.fan = fan, !.active = active]

LEMMA MovesIs ==
  ASSUME NEW ty, NEW fan, NEW active
  PROVE  Moves(ty, fan, active).fan = fan /\ Moves(ty, fan, active).active = active
BY DEF Moves, H!NoEvent

LEMMA FanEventIs ==
  ASSUME NEW n, NEW b, b = (n < 4)
  PROVE  FanEvent(n).active = b /\ (n < 4 => FanEvent(n).fan = n)
BY DEF FanEvent, H!NoEvent

LEMMA FanTells ==
  ASSUME NEW f, NEW v, NEW w, HeatReply(f, 11, v, w), Len(v) > 0, NEW n, v[1] = n, NEW b, b = (n < 4)
  PROVE  /\ H!HeatingEvent(f).active = b
         /\ n < 4 => H!HeatingEvent(f).fan = n
<1>1. H!HeatingEvent(f) = FanEvent(n)
  BY HeatReplyEvent, DimensionArms DEF HeatReply
<1> QED
  BY <1>1, FanEventIs

LEMMA ValvesTell ==
  ASSUME NEW f, NEW v, NEW w, HeatReply(f, 19, v, w), Len(v) = 2, NEW b,
         b = (H!ValveActive(v[1]) \/ H!ValveActive(v[2]) \/ v[1] > 5 \/ v[2] > 5)
  PROVE  H!HeatingEvent(f).active = b
<1>0. Len(v) > 0 /\ Len(f.val) >= 2 /\ f.type # "DIMENSION_WRITING" /\ f.dim = 19 /\ f.val = v
  BY DEF HeatReply
<1>1. H!HeatingEvent(f) = H!Valves(v)
  BY <1>0, HeatReplyEvent, DimensionArms
<1>2. H!Valves(v) = Moves("action", H!FanOf(v[2]), b)
  BY DEF H!Valves, Moves, H!NoEvent
<1> QED
  BY <1>1, <1>2, MovesIs

LEMMA RadiatorTells ==
  ASSUME NEW f, NEW v, NEW w, HeatReply(f, 20, v, w), Len(v) > 0, NEW b, b = (H!ValveActive(v[1]) \/ v[1] > 5)
  PROVE  H!HeatingEvent(f).active = b
<1> DEFINE fan == IF v[1] \in 6 .. 8 THEN v[1] - 5 ELSE H!Null
<1>1. H!HeatingEvent(f) = H!Actuator(v[1])
  BY HeatReplyEvent, DimensionArms DEF HeatReply
<1>2. H!Actuator(v[1]) = Moves("action", fan, b)
  BY DEF H!Actuator, Moves, H!NoEvent
<1> HIDE DEF fan
<1> QED
  BY <1>1, <1>2, MovesIs

(* The offset of a local control. *)
Offsetting(n) == [H!NoEvent EXCEPT !.type = "local_offset", !.offset = n]

LEMMA OffsetTells ==
  ASSUME NEW f, NEW v, NEW w, HeatReply(f, 13, v, w), Len(v) > 0, NEW n, v[1] = n
  PROVE  /\ n \in 0 .. 3 => H!HeatingEvent(f).offset = n
         /\ n \in 11 .. 13 => H!HeatingEvent(f).offset = 10 - n
<1>1. H!HeatingEvent(f) = H!LocalOffset(n)
  BY HeatReplyEvent, DimensionArms DEF HeatReply
<1>2. \A x : Offsetting(x).offset = x
  BY DEF Offsetting, H!NoEvent
<1>3. H!LocalOffset(n) = Offsetting(CASE n \in 0 .. 3 -> n [] n \in 11 .. 13 -> 10 - n [] OTHER -> H!Null)
  BY DEF H!LocalOffset, Offsetting
<1>4. n \in 0 .. 3 => H!LocalOffset(n) = Offsetting(n)
  BY <1>3
<1>5. n \in 11 .. 13 => H!LocalOffset(n) = Offsetting(10 - n)
  BY <1>3
<1> QED
  BY <1>1, <1>2, <1>4, <1>5

(* The end of a holiday or of a time, as a value and as a write. *)
LEMMA SpanTells ==
  ASSUME NEW f, NEW dim \in {30, 31, 32}, NEW v, NEW w, Len(v) > 0
  PROVE  /\ HeatReply(f, dim, v, w) => H!HeatingEvent(f).span = v
         /\ HeatWrite(f, dim, v, w) => H!HeatingEvent(f) = H!NoEvent
<1>0. v # <<>>
  BY NotEmpty
<1>1. Spanning(v).span = v
  BY DEF Spanning, H!NoEvent
<1>2. ASSUME HeatReply(f, dim, v, w) PROVE H!HeatingEvent(f) = Spanning(v)
  BY <1>0, <1>2, HeatReplyEvent, DimensionArms DEF HeatReply
<1>3. ASSUME HeatWrite(f, dim, v, w) PROVE H!HeatingEvent(f) = H!NoEvent
  BY <1>0, <1>3 DEF H!EventOfDimension, HeatWrite, H!HeatingEvent
<1> QED
  BY <1>1, <1>2, <1>3

LEMMA WrittenState ==
  ASSUME NEW f, NEW v, NEW w, HeatWrite(f, 7, v, w), Len(v) > 0
  PROVE  H!HeatingEvent(f) = H!NoEvent
<1>0. v # <<>>
  BY NotEmpty
<1> QED
  BY <1>0 DEF H!EventOfDimension, HeatWrite, H!HeatingEvent


(* A command under way is legal and goes where it is to; whatever the      *)
(* plant replies to it is true and says what the caller had asked.         *)
HeatCommand(f, t) ==
  /\ H!Legal(f) /\ H!Routed(f)
  /\ \A g \in H!Replies(f) : H!Truthful(g, t) /\ H!ReadsBack(g, t)
  /\ f.dim \in {30, 31, 32} => H!Truthful(f, H!Said("nothing", t.zone, 0))
HeatReported(r) == H!Truthful(r.f, r.truth) /\ (r.asked => H!ReadsBack(r.f, r.truth))
HeatInv ==
  /\ BusOk(HeatingWire)
  /\ \A i \in DOMAIN commands : HeatCommand(commands[i].f, commands[i].want)
  /\ \A i \in DOMAIN reports : HeatReported(reports[i])

LEMMA HeatSaysAll ==
  ASSUME HeatInv
  PROVE  H!TypeOK /\ H!CommandsAreRouted /\ H!CommandsReadBack /\ H!EventsTellTheTruth
<1>1. H!Wire <= HeatingWire
  BY DEF HeatInv, BusOk, H!Wire
<1>2. \A i \in DOMAIN commands : H!Legal(commands[i].f) /\ H!Routed(commands[i].f)
  BY DEF HeatInv, HeatCommand
<1>3. \A i \in DOMAIN reports : HeatReported(reports[i])
  BY DEF HeatInv
<1> QED
  BY <1>1, <1>2, <1>3 DEF HeatReported, H!TypeOK, H!CommandsAreRouted, H!CommandsReadBack, H!EventsTellTheTruth

LEMMA HeatStarts ==
  ASSUME H!Init, FamiliesAssumption
  PROVE  HeatInv
<1>1. HeatingWire \in Nat /\ commands = <<>> /\ reports = <<>>
  BY DEF FamiliesAssumption, H!HeatingAssumption, H!Init
<1>2. BusOk(HeatingWire) /\ DOMAIN commands = {} /\ DOMAIN reports = {}
  BY <1>1, BusStarts
<1> QED
  BY <1>2 DEF HeatInv

(* A caller's command. *)
LEMMA HeatPosts ==
  ASSUME HeatInv, NEW f, NEW kind, NEW w, NEW n, H!Post(f, kind, w, n),
         f # H!Refuse => HeatCommand(f, H!Said(kind, H!ZoneAsked(w), n))
  PROVE  HeatInv'
<1> DEFINE t == H!Said(kind, H!ZoneAsked(w), n)
           c == [f |-> f, want |-> t]
<1>1. /\ commands' = Append(commands, c) /\ reports' = reports /\ Len(commands) + Len(reports) < HeatingWire
      /\ HeatCommand(f, t)
  BY DEF H!Post, H!Wire
<1>2. c.f = f /\ c.want = t
  OBVIOUS
<1> HIDE DEF c, t
<1>3. BusOk(HeatingWire)' /\ Grows(commands, c, commands')
  BY <1>1, BusPosts DEF HeatInv
<1>4. ASSUME NEW i \in DOMAIN commands' PROVE HeatCommand(commands'[i].f, commands'[i].want)
  BY <1>1, <1>2, <1>3 DEF Grows, HeatInv
<1> QED
  BY <1>1, <1>3, <1>4 DEF HeatInv

LEMMA HeatAdds ==
  ASSUME HeatInv, NEW r, HeatReported(r), BusOk(HeatingWire)', Grows(reports, r, reports')
  PROVE  \A i \in DOMAIN reports' : HeatReported(reports'[i])
BY DEF HeatInv, Grows

(* What the plant tells by itself. *)
LEMMA HeatTells ==
  ASSUME HeatInv, H!Wire < HeatingWire, NEW f, NEW kind, NEW z, NEW n, H!Tell(f, kind, z, n),
         UNCHANGED commands, H!Truthful(f, H!Said(kind, z, n))
  PROVE  HeatInv'
<1> DEFINE r == [f |-> f, truth |-> H!Said(kind, z, n), asked |-> FALSE]
<1>1. reports' = Append(reports, r) /\ commands' = commands /\ Len(commands) + Len(reports) < HeatingWire
  BY DEF H!Tell, H!Wire
<1>2. HeatReported(r)
  BY DEF HeatReported
<1> HIDE DEF r
<1>3. BusOk(HeatingWire)' /\ Grows(reports, r, reports')
  BY <1>1, BusTells DEF HeatInv
<1> QED
  BY <1>1, <1>2, <1>3, HeatAdds DEF HeatInv

(* The plant carries a command out. *)
LEMMA HeatAnswers ==
  ASSUME HeatInv, H!CarryOut
  PROVE  HeatInv'
<1> DEFINE c == Head(commands)
<1>0. commands # <<>> /\ commands' = Tail(commands)
  BY DEF H!CarryOut
<1>1. c = commands[1] /\ 1 \in DOMAIN commands
  BY <1>0, TailShrinks DEF HeatInv, BusOk
<1>2. HeatCommand(c.f, c.want)
  BY <1>1 DEF HeatInv
<1>3. \E r : HeatReported(r) /\ reports' = Append(reports, r)
  <2>1. CASE \E f \in H!Replies(c.f) : reports' = Append(reports, [f |-> f, truth |-> c.want, asked |-> TRUE])
    <3>1. PICK f \in H!Replies(c.f) : reports' = Append(reports, [f |-> f, truth |-> c.want, asked |-> TRUE])
      BY <2>1
    <3>2. HeatReported([f |-> f, truth |-> c.want, asked |-> TRUE])
      BY <1>2, <3>1 DEF HeatReported, HeatCommand
    <3> QED
      BY <3>1, <3>2
  <2>2. CASE /\ c.f.dim \in {30, 31, 32}
             /\ reports' = Append(reports, [f |-> c.f, truth |-> H!Said("nothing", c.want.zone, 0), asked |-> FALSE])
    <3>1. HeatReported([f |-> c.f, truth |-> H!Said("nothing", c.want.zone, 0), asked |-> FALSE])
      BY <1>2, <2>2 DEF HeatReported, HeatCommand
    <3> QED
      BY <2>2, <3>1
  <2> QED
    BY <2>1, <2>2 DEF H!CarryOut
<1> HIDE DEF c
<1>4. PICK r : HeatReported(r) /\ reports' = Append(reports, r)
  BY <1>3
<1>5. BusOk(HeatingWire)' /\ Shrinks(commands, commands') /\ Grows(reports, r, reports')
  BY <1>0, <1>4, BusAnswers DEF HeatInv
<1>6. \A i \in DOMAIN reports' : HeatReported(reports'[i])
  BY <1>4, <1>5, HeatAdds
<1>7. \A i \in DOMAIN commands' : HeatCommand(commands'[i].f, commands'[i].want)
  BY <1>5 DEF HeatInv, Shrinks
<1> QED
  BY <1>5, <1>6, <1>7 DEF HeatInv

LEMMA HeatTakes ==
  ASSUME HeatInv, H!Decode
  PROVE  HeatInv'
<1>1. BusOk(HeatingWire)' /\ Shrinks(reports, reports') /\ commands' = commands
  BY BusTakes DEF HeatInv, H!Decode
<1> QED
  BY <1>1 DEF HeatInv, Shrinks


(* An address of a caller, and a place that is the zone it names. *)
HeatWhere(w) ==
  /\ w.hash \in BOOLEAN /\ w.n \in 0 .. 99 /\ Len(w.par) \in Nat
  /\ w.par # <<>> => w.par[1] \in 0 .. 99
HeatPlace(x, w) == x.n = w.n /\ (w.n = 0 => x.hash /\ x.par = w.par)

LEMMA WheresAre ==
  ASSUME FamiliesAssumption, NEW w \in HeatingWheres
  PROVE  HeatWhere(w)
<1>1. w.hash \in BOOLEAN /\ w.n \in 0 .. 99 /\ w.par \in Seq(0 .. 99)
  BY DEF FamiliesAssumption, H!HeatingAssumption
<1> DEFINE p == w.par
           T == 0 .. 99
<1>2. p \in Seq(T)
  BY <1>1
<1> HIDE DEF p, T
<1>3. Len(p) \in Nat
  BY <1>2
<1>4. ASSUME p # <<>> PROVE p[1] \in T
  <2>1. 1 \in DOMAIN p
    BY <1>2, <1>4, QueueOf, TailShrinks
  <2> QED
    BY <1>2, <2>1
<1> QED
  BY <1>1, <1>3, <1>4 DEF HeatWhere, p, T

LEMMA AddrIs ==
  ASSUME NEW h, NEW n, NEW p
  PROVE  H!Addr(h, n, p).hash = h /\ H!Addr(h, n, p).n = n /\ H!Addr(h, n, p).par = p
BY DEF H!Addr

LEMMA PlacesZone ==
  ASSUME NEW w, HeatWhere(w), NEW x, HeatPlace(x, w)
  PROVE  H!ZoneOf(x) = H!ZoneAsked(w)
<1> DEFINE b == x.n = 0 /\ x.hash /\ x.par # <<>>
           m == IF b THEN x.par[1] ELSE x.n
<1>1. H!ZoneOf(x) = IF m > 99 THEN m % 100 ELSE m
  BY DEF H!ZoneOf
<1>2. b <=> w.n = 0 /\ w.par # <<>>
  BY DEF HeatPlace
<1>3. b => x.par[1] = w.par[1] /\ w.par[1] \in 0 .. 99
  BY <1>2 DEF HeatPlace, HeatWhere
<1>4. x.n = w.n /\ w.n \in 0 .. 99
  BY DEF HeatPlace, HeatWhere
<1>5. H!ZoneAsked(w) = IF w.n = 0 /\ w.par # <<>> THEN w.par[1] ELSE w.n
  BY DEF H!ZoneAsked
<1> HIDE DEF b
<1>6. CASE b
  <2>1. m = w.par[1] /\ H!ZoneAsked(w) = w.par[1]
    BY <1>2, <1>3, <1>5, <1>6
  <2> HIDE DEF m
  <2> QED
    BY <1>1, <1>3, <1>6, <2>1
<1>7. CASE ~b
  <2>1. m = w.n /\ H!ZoneAsked(w) = w.n
    BY <1>2, <1>4, <1>5, <1>7
  <2> HIDE DEF m
  <2> QED
    BY <1>1, <1>4, <2>1
<1> QED
  BY <1>6, <1>7

(* The bare zone is a place too. *)
LEMMA BarePlace ==
  ASSUME NEW w, NEW x, HeatPlace(x, w), HeatWhere(w), x.n > 0
  PROVE  HeatPlace(H!Addr(FALSE, x.n, <<>>), w)
<1> DEFINE y == H!Addr(FALSE, x.n, <<>>)
<1>1. y.n = x.n
  BY DEF H!Addr
<1> HIDE DEF y
<1>2. x.n = w.n /\ w.n # 0
  BY DEF HeatPlace, HeatWhere
<1>3. HeatPlace(y, w)
  BY <1>1, <1>2 DEF HeatPlace
<1> QED
  BY <1>3 DEF y

LEMMA ReplyPlaces ==
  ASSUME NEW w, HeatWhere(w), NEW f, HeatPlace(f.where, w), NEW y \in H!Places(f)
  PROVE  HeatPlace(y, w)
BY BarePlace DEF H!Places

LEMMA StatusReplies ==
  ASSUME NEW what, NEW par, NEW x, NEW f, f = H!Status(4, what, par, x), NEW g \in H!Replies(f)
  PROVE  \E y \in H!Places(f) : HeatStatus(g, what, par, y)
<1>1. f.type = "STATUS" /\ f.dim # 14
  BY HeatFrames DEF HeatStatus, H!Null
<1>2. H!Replies(f) = {H!MovedTo(f, y) : y \in H!Places(f)}
  BY <1>1 DEF H!Replies
<1>4. PICK y \in H!Places(f) : g = H!MovedTo(f, y)
  BY <1>2
<1>5. HeatStatus(H!MovedTo(f, y), what, par, y)
  BY DEF HeatStatus, H!Status, H!Frame, H!MovedTo
<1> QED
  BY <1>4, <1>5

LEMMA WriteReplies ==
  ASSUME NEW dim, NEW v, NEW x, NEW f, HeatWrite(f, dim, v, x) \/ HeatReply(f, dim, v, x), dim # 14,
         NEW g \in H!Replies(f)
  PROVE  \E y \in H!Places(f) : HeatReply(g, dim, v, y)
<1>1. f.type # "STATUS" /\ f.dim = dim /\ f.val = v
  BY DEF HeatWrite, HeatReply
<1>2. H!Replies(f) = {H!DimensionReply(4, y, f.dim, f.val) : y \in H!Places(f)}
  BY <1>1 DEF H!Replies
<1>3. PICK y \in H!Places(f) : g = H!DimensionReply(4, y, dim, v)
  BY <1>1, <1>2
<1> QED
  BY <1>3, HeatFrames

LEMMA TargetReplies ==
  ASSUME NEW v, NEW x, NEW f, HeatWrite(f, 14, v, x), NEW g \in H!Replies(f)
  PROVE  \E y \in H!Places(f) : \/ HeatReply(g, 14, v, y)
                                \/ HeatReply(g, 7, <<v[2] % 3, 1, v[1]>>, y)
<1>1. f.type # "STATUS" /\ f.dim = 14 /\ f.val = v
  BY DEF HeatWrite
<1> DEFINE Two(y) == {H!DimensionReply(4, y, 14, f.val),
                     H!DimensionReply(4, y, 7, <<f.val[2] % 3, 1, f.val[1]>>)}
<1>2. H!Replies(f) = UNION {Two(y) : y \in H!Places(f)}
  BY <1>1 DEF H!Replies
<1> HIDE DEF Two
<1>3. PICK y \in H!Places(f) : g \in Two(y)
  BY <1>2
<1>4. \/ g = H!DimensionReply(4, y, 14, f.val)
      \/ g = H!DimensionReply(4, y, 7, <<f.val[2] % 3, 1, f.val[1]>>)
  BY <1>3 DEF Two
<1>5. f.val = v
  BY <1>1
<1>6. \/ HeatReply(g, 14, f.val, y)
      \/ HeatReply(g, 7, <<f.val[2] % 3, 1, f.val[1]>>, y)
  BY <1>4, HeatFrames
<1> QED
  BY <1>3, <1>5, <1>6


LEMMA NotCentral ==
  /\ ~H!CentralOnly(H!Null) /\ H!Null # 311
  /\ \A what \in {102, 202, 302, 303, 311, 312} : ~H!CentralOnly(what)
BY DEF H!CentralOnly, H!Null

ShortAddress(x) == Len(x.par) <= 1

(* A WHAT at a place of the zone asked for, whose report reads as asked. *)
LEMMA StatusObeyed ==
  ASSUME NEW w, HeatWhere(w), NEW x, HeatPlace(x, w), Len(x.par) <= 1, NEW what, NEW par, NEW f,
         f = H!Status(4, what, par, x), H!CentralOnly(what) => H!IsCentral(x), what = 311 => x.hash,
         NEW kind, NEW n, kind \notin SensedKinds, NEW t, t = H!Said(kind, H!ZoneAsked(w), n),
         \A g, y : HeatStatus(g, what, par, y) => H!ReadsBack(g, t)
  PROVE  HeatCommand(f, t)
<1>1. HeatStatus(f, what, par, x)
  BY HeatFrames
<1>2. H!Legal(f) /\ H!Routed(f) /\ f.dim \notin {30, 31, 32}
  BY <1>1 DEF HeatStatus, H!Null, H!Legal, H!Routed
<1>3. ASSUME NEW g \in H!Replies(f) PROVE H!Truthful(g, t) /\ H!ReadsBack(g, t)
  <2>1. PICK y \in H!Places(f) : HeatStatus(g, what, par, y)
    BY <1>3, StatusReplies
  <2>2. f.where = x /\ g.where = y
    BY <1>1, <2>1 DEF HeatStatus
  <2>3. HeatPlace(y, w)
    BY <2>2, ReplyPlaces
  <2>4. t.kind = kind /\ t.zone = H!ZoneAsked(w)
    BY HeatSaidIs
  <2>5. H!Truthful(g, t)
    BY <2>2, <2>3, <2>4, PlacesZone, KindsAreTrue
  <2> QED
    BY <2>1, <2>5
<1> QED
  BY <1>2, <1>3 DEF HeatCommand

(* A dimension written, or reported, at a place of the zone. *)
LEMMA WriteObeyed ==
  ASSUME NEW w, HeatWhere(w), NEW x, HeatPlace(x, w), NEW dim, NEW v, NEW f,
         HeatWrite(f, dim, v, x) \/ HeatReply(f, dim, v, x), dim # 14, dim # 0 => Len(x.par) <= 1,
         dim = 0 => FourDigits(v[1]), dim = 11 => ~x.hash /\ x.par = <<>> /\ x.n > 0,
         dim \in {30, 31, 32} => H!HeatingEvent(f) = H!NoEvent,
         NEW kind, NEW n, kind \notin SensedKinds, NEW t, t = H!Said(kind, H!ZoneAsked(w), n),
         \A g, y : HeatReply(g, dim, v, y) /\ HeatPlace(y, w) => H!ReadsBack(g, t)
  PROVE  HeatCommand(f, t)
<1>1. /\ f.type \in {"DIMENSION_WRITING", "DIMENSION_REQUEST_REPLY"} /\ f.what = H!Null
      /\ f.dim = dim /\ f.val = v /\ f.where = x
  BY DEF HeatWrite, HeatReply
<1>2. H!Legal(f)
  BY <1>1 DEF H!Legal, FourDigits
<1>3. H!Routed(f)
  BY <1>1, NotCentral DEF H!Routed
<1>4. t.kind = kind /\ t.zone = H!ZoneAsked(w)
  BY HeatSaidIs
<1>5. ASSUME NEW g \in H!Replies(f) PROVE H!Truthful(g, t) /\ H!ReadsBack(g, t)
  <2>1. PICK y \in H!Places(f) : HeatReply(g, dim, v, y)
    BY <1>5, WriteReplies
  <2>2. HeatPlace(y, w) /\ g.where = y
    BY <1>1, <2>1, ReplyPlaces DEF HeatReply
  <2>3. H!Truthful(g, t)
    BY <1>4, <2>2, PlacesZone, KindsAreTrue
  <2> QED
    BY <2>1, <2>2, <2>3
<1>6. ASSUME f.dim \in {30, 31, 32} PROVE H!Truthful(f, H!Said("nothing", t.zone, 0))
  <2> DEFINE s == H!Said("nothing", t.zone, 0)
  <2>1. s.kind = "nothing" /\ s.zone = t.zone
    BY HeatSaidIs
  <2> HIDE DEF s
  <2>2. H!ZoneOf(f.where) = s.zone
    BY <1>1, <1>4, <2>1, PlacesZone
  <2>3. H!HeatingEvent(f) = H!NoEvent
    BY <1>1, <1>6
  <2>4. H!Truthful(f, s)
    BY <2>1, <2>2, <2>3, KindsAreTrue
  <2> QED
    BY <2>4 DEF s
<1> QED
  BY <1>2, <1>3, <1>5, <1>6 DEF HeatCommand

SetAs(s, q) == 2 * s - 5 * H!Clamp(20, 160, q) \in -5 .. 5
ZoneSet(u, s) == Len(u) = 3 /\ u[1] \in 0 .. 3 /\ u[2] = 1 /\ u[3] = s

LEMMA SetAsAsked ==
  ASSUME NEW q \in Int
  PROVE  /\ FourDigits(H!Setpoint(q)) /\ H!Temperature(H!Setpoint(q)) = H!Setpoint(q)
         /\ SetAs(H!Setpoint(q), q)
BY SetpointIs DEF SetAs, FourDigits

LEMMA ZoneSets ==
  ASSUME NEW s, NEW c \in 1 .. 3, NEW v, v[2] = c, v[1] = s
  PROVE  ZoneSet(<< v[2] % 3, 1, v[1] >>, s)
<1>1. v[2] % 3 \in 0 .. 3
  OBVIOUS
<1> DEFINE m == v[2] % 3
<1> HIDE DEF m
<1>2. ZoneSet(<< m, 1, s >>, s)
  BY <1>1 DEF ZoneSet, m
<1> QED
  BY <1>2 DEF m

LEMMA SetTold ==
  ASSUME NEW g, NEW s, H!Temperature(s) = s, NEW v, Len(v) = 2, v[1] = s, NEW u, NEW y,
         HeatReply(g, 14, v, y) \/ (ZoneSet(u, s) /\ HeatReply(g, 7, u, y))
  PROVE  H!HeatingEvent(g).set = s
<1>1. CASE HeatReply(g, 14, v, y)
  BY <1>1, TargetTells
<1>2. CASE ZoneSet(u, s) /\ HeatReply(g, 7, u, y)
  BY <1>2, StateTells DEF ZoneSet
<1> QED
  BY <1>1, <1>2

TargetTold(f, g, v, s) ==
  \E u : \E y \in H!Places(f) : HeatReply(g, 14, v, y) \/ (ZoneSet(u, s) /\ HeatReply(g, 7, u, y))

LEMMA TargetsTold ==
  ASSUME NEW s, NEW c \in 1 .. 3, NEW v, v[2] = c, v[1] = s, NEW x, NEW f, HeatWrite(f, 14, v, x)
  PROVE  \A g \in H!Replies(f) : TargetTold(f, g, v, s)
<1> DEFINE u == << v[2] % 3, 1, v[1] >>
<1>1. ZoneSet(u, s)
  BY ZoneSets
<1>2. \A g \in H!Replies(f) : \E y \in H!Places(f) : HeatReply(g, 14, v, y) \/ HeatReply(g, 7, u, y)
  BY TargetReplies
<1> HIDE DEF u
<1> QED
  BY <1>1, <1>2 DEF TargetTold

LEMMA TargetLegal ==
  ASSUME NEW x, ShortAddress(x), NEW s, FourDigits(s), NEW v, v[1] = s, NEW f, HeatWrite(f, 14, v, x)
  PROVE  H!Legal(f) /\ H!Routed(f)
<1>1. f.type = "DIMENSION_WRITING" /\ f.what = H!Null /\ f.dim = 14 /\ f.val = v /\ f.where = x
  BY DEF HeatWrite
<1>0. FourDigits(f.val[1])
  BY <1>1, Zenon
<1>2. f.val[1] \in 0 .. 1999
  BY <1>0 DEF FourDigits
<1>3. Len(f.where.par) <= 1
  BY <1>1 DEF ShortAddress
<1>4. H!Legal(f)
  BY <1>1, <1>2, <1>3 DEF H!Legal
<1> QED
  BY <1>1, <1>4, NotCentral DEF H!Routed

(* A setpoint, reported as a target, as a zone state or as a local target. *)
LEMMA TargetObeyed ==
  ASSUME NEW w, HeatWhere(w), NEW x, HeatPlace(x, w), ShortAddress(x), NEW q, NEW s,
         FourDigits(s), H!Temperature(s) = s, SetAs(s, q), NEW v, Len(v) = 2, v[1] = s,
         NEW f, HeatWrite(f, 14, v, x), NEW t, t = H!Said("set", H!ZoneAsked(w), q),
         \A g \in H!Replies(f) : TargetTold(f, g, v, s)
  PROVE  HeatCommand(f, t)
<1>4. f.type = "DIMENSION_WRITING" /\ f.what = H!Null /\ f.dim = 14 /\ f.val = v /\ f.where = x
  BY DEF HeatWrite
<1>5. H!Legal(f) /\ H!Routed(f)
  BY TargetLegal
<1>7. t.kind = "set" /\ t.zone = H!ZoneAsked(w) /\ t.n = q
  BY HeatSaidIs
<1>8. ASSUME NEW g \in H!Replies(f) PROVE H!Truthful(g, t) /\ H!ReadsBack(g, t)
  <2>1. PICK u : \E y \in H!Places(f) : HeatReply(g, 14, v, y) \/ (ZoneSet(u, s) /\ HeatReply(g, 7, u, y))
    BY <1>8 DEF TargetTold
  <2>0. PICK y \in H!Places(f) : HeatReply(g, 14, v, y) \/ (ZoneSet(u, s) /\ HeatReply(g, 7, u, y))
    BY <2>1
  <2>2. HeatPlace(y, w) /\ g.where = y
    BY <1>4, <2>0, ReplyPlaces DEF HeatReply
  <2>3. t.kind \notin SensedKinds
    BY <1>7 DEF SensedKinds
  <2>4. H!Truthful(g, t)
    BY <1>7, <2>2, <2>3, PlacesZone, KindsAreTrue
  <2>5. H!HeatingEvent(g).set = s
    BY <2>0, SetTold
  <2>6. 2 * H!HeatingEvent(g).set - 5 * H!Clamp(20, 160, q) \in -5 .. 5
    BY <2>5 DEF SetAs
  <2>7. H!ReadsBack(g, t)
    BY <1>7, <2>6, KindsReadBack
  <2> QED
    BY <2>4, <2>7
<1> QED
  BY <1>4, <1>5, <1>8 DEF HeatCommand


(* A frame a builder returns, unless it refuses, is a good command. *)
HeatPosted(f, kind, w, n) == f # H!Refuse => HeatCommand(f, H!Said(kind, H!ZoneAsked(w), n))

LEMMA ZonePlace ==
  ASSUME NEW w, HeatWhere(w), H!IsZone(w), NEW alone \in BOOLEAN, NEW x, x = H!ZoneAddress(w, alone)
  PROVE  HeatPlace(x, w) /\ ShortAddress(x) /\ x = H!Addr(x.hash, x.n, x.par)
<1> DEFINE h == w.par # <<>> \/ ~alone \/ w.n = 0
           k == w.n
           p == w.par
<1>0. x = H!Addr(h, k, p) /\ (w.n = 0 => h)
  BY DEF H!ZoneAddress
<1> HIDE DEF h, k, p
<1>2. x = H!Addr(x.hash, x.n, x.par) /\ x.n = k /\ x.par = p /\ x.hash = h
  BY <1>0 DEF H!Addr
<1>1. x.n = w.n /\ x.par = w.par /\ (w.n = 0 => x.hash)
  BY <1>0, <1>2 DEF k, p
<1> QED
  BY <1>1, <1>2 DEF HeatPlace, ShortAddress, H!IsZone

LEMMA CentralPlace ==
  ASSUME NEW w, H!IsCentral(w)
  PROVE  HeatPlace(w, w) /\ ShortAddress(w)
<1>1. w.hash /\ w.n = 0 /\ (w.par = <<>> \/ Len(w.par) = 1)
  BY DEF H!IsCentral
<1>2. Len(w.par) <= 1
  <2> DEFINE p == w.par
  <2>1. p = <<>> \/ Len(p) = 1
    BY <1>1
  <2> HIDE DEF p
  <2>2. Len(p) <= 1
    BY <2>1
  <2> QED
    BY <2>2 DEF p
<1> QED
  BY <1>1, <1>2 DEF HeatPlace, ShortAddress

(* The WHAT of a mode. *)
ModeCode(m, what) ==
  \/ m = "heat" /\ what = 1
  \/ m = "cool" /\ what = 0
  \/ m = "auto" /\ what = 311
  \/ m \notin {"heat", "cool", "auto"} /\ what \in {102, 202, 302, 303}

LEMMA ModesRead ==
  ASSUME NEW m, NEW what, ModeCode(m, what), NEW t, t.kind = "mode", t.n = m,
         NEW g, NEW y, HeatStatus(g, what, <<>>, y)
  PROVE  H!ReadsBack(g, t)
<1>1. CASE m = "heat" /\ what = 1
  BY <1>1, BareWhat, ModeReadsBack
<1>2. CASE m = "cool" /\ what = 0
  BY <1>2, BareWhat, ModeReadsBack
<1>3. CASE m = "auto" /\ what = 311
  <2>1. H!ModeOf(what) = "auto" /\ what \notin {0, 1}
    BY <1>3, ModesAre
  <2>2. H!HeatingEvent(g) = ModeEvent(what)
    BY <2>1, BareWhat
  <2>3. H!HeatingEvent(g).mode = "auto"
    BY <2>1, <2>2, ModeEventIs
  <2> QED
    BY <1>3, <2>3, ModeReadsBack
<1>4. CASE m \notin {"heat", "cool", "auto"} /\ what \in {102, 202, 302, 303}
  <2>1. H!ModeOf(what) = "off" /\ what \notin {0, 1}
    BY <1>4, ModesAre
  <2>2. H!HeatingEvent(g) = ModeEvent(what)
    BY <2>1, BareWhat
  <2>3. H!HeatingEvent(g).mode = "off"
    BY <2>1, <2>2, ModeEventIs
  <2> QED
    BY <1>4, <2>3, ModeReadsBack
<1> QED
  BY <1>1, <1>2, <1>3, <1>4 DEF ModeCode

LEMMA ModePosted ==
  ASSUME NEW w, HeatWhere(w), NEW x, HeatPlace(x, w), ShortAddress(x), NEW m, NEW what, ModeCode(m, what),
         what = 311 => x.hash, H!CentralOnly(what) => H!IsCentral(x), NEW f, f = H!Status(4, what, <<>>, x)
  PROVE  HeatCommand(f, H!Said("mode", H!ZoneAsked(w), m))
<1> DEFINE t == H!Said("mode", H!ZoneAsked(w), m)
<1>1. t.kind = "mode" /\ t.n = m /\ "mode" \notin SensedKinds
  BY HeatSaidIs DEF SensedKinds
<1> HIDE DEF t
<1>2. \A g, y : HeatStatus(g, what, <<>>, y) => H!ReadsBack(g, t)
  BY <1>1, ModesRead
<1>3. Len(x.par) <= 1
  BY DEF ShortAddress
<1>4. t = H!Said("mode", H!ZoneAsked(w), m)
  BY DEF t
<1>5. HeatCommand(f, t)
  BY <1>1, <1>2, <1>3, <1>4, StatusObeyed
<1> QED
  BY <1>5 DEF t

LEMMA ZoneModes ==
  ASSUME NEW w, HeatWhere(w), NEW alone \in BOOLEAN, NEW m
  PROVE  HeatPosted(H!SetMode(w, m, alone), "mode", w, m)
<1> DEFINE codes == [off |-> 303, auto |-> 311, protection |-> 302, antifreeze |-> 102,
                     thermal_protection |-> 202]
           z == H!ZoneAddress(w, alone)
           x == IF m = "auto" THEN [z EXCEPT !.hash = TRUE] ELSE z
           f == H!SetMode(w, m, alone)
<1> SUFFICES ASSUME f # H!Refuse
             PROVE  HeatCommand(f, H!Said("mode", H!ZoneAsked(w), m))
  BY DEF HeatPosted
<1>1. H!IsZone(w) /\ m \in DOMAIN codes /\ f = H!Status(4, codes[m], <<>>, x)
  BY DEF H!SetMode, H!Status4
<1>2. ModeCode(m, codes[m]) /\ (codes[m] = 311 => m = "auto") /\ codes[m] \in {102, 202, 302, 303, 311}
  BY <1>1 DEF ModeCode
<1>3. ~H!CentralOnly(codes[m])
  BY <1>2, NotCentral
<1> DEFINE what == codes[m]
<1>4. ModeCode(m, what) /\ ~H!CentralOnly(what) /\ (what = 311 => m = "auto") /\ f = H!Status(4, what, <<>>, x)
  BY <1>1, <1>2, <1>3
<1> HIDE DEF what, codes, f
<1>5. HeatPlace(z, w) /\ ShortAddress(z) /\ z = H!Addr(z.hash, z.n, z.par)
  BY <1>1, ZonePlace
<1> HIDE DEF z
<1>6. [z EXCEPT !.hash = TRUE].n = z.n /\ [z EXCEPT !.hash = TRUE].par = z.par /\ [z EXCEPT !.hash = TRUE].hash
  BY <1>5 DEF H!Addr
<1>7. HeatPlace(x, w) /\ ShortAddress(x) /\ (what = 311 => x.hash)
  BY <1>4, <1>5, <1>6 DEF HeatPlace, ShortAddress
<1> HIDE DEF x
<1> QED
  BY <1>4, <1>7, ModePosted

LEMMA UnitModes ==
  ASSUME NEW w, HeatWhere(w), NEW m
  PROVE  HeatPosted(H!SetCentralMode(w, m), "mode", w, m)
<1> DEFINE codes == [off |-> 303, heat |-> 1, cool |-> 0, auto |-> 311, antifreeze |-> 102,
                     protection |-> 302]
           f == H!SetCentralMode(w, m)
<1> SUFFICES ASSUME f # H!Refuse
             PROVE  HeatCommand(f, H!Said("mode", H!ZoneAsked(w), m))
  BY DEF HeatPosted
<1>1. H!IsCentral(w) /\ m \in DOMAIN codes /\ f = H!Status(4, codes[m], <<>>, w)
  BY DEF H!SetCentralMode, H!Status4
<1>2. ModeCode(m, codes[m])
  BY <1>1 DEF ModeCode
<1> DEFINE what == codes[m]
<1>4. ModeCode(m, what) /\ f = H!Status(4, what, <<>>, w)
  BY <1>1, <1>2
<1> HIDE DEF what, codes, f
<1>5. HeatPlace(w, w) /\ ShortAddress(w) /\ w.hash
  BY <1>1, CentralPlace DEF H!IsCentral
<1> QED
  BY <1>1, <1>4, <1>5, ModePosted


(* The numbers of programs, scenarios and holidays. *)
LEMMA PlanNumbers ==
  ASSUME NEW p \in Int, 1 <= p, p <= 16
  PROVE  /\ (3100 + p) % 100 = p /\ (3200 + p) % 100 = p
         /\ 3100 + p \in Int /\ 3200 + p \in Int
         /\ 3101 <= 3100 + p /\ 3100 + p <= 3116 /\ 3201 <= 3200 + p /\ 3200 + p <= 3216
OBVIOUS

LEMMA HolidayNumbers ==
  ASSUME NEW d \in Int, 1 <= d, d <= 255
  PROVE  /\ (33000 + d) % 1000 = d /\ 33000 + d \in Int
         /\ 33001 <= 33000 + d /\ 33000 + d <= 33255
OBVIOUS

LEMMA ProgramWhat ==
  ASSUME NEW what \in Int, 3101 <= what, what <= 3116
  PROVE  what \in H!Programs /\ what \notin {0, 1, 311}
BY DEF H!Programs

LEMMA ScenarioWhat ==
  ASSUME NEW what \in Int, 3201 <= what, what <= 3216
  PROVE  what \in H!Scenarios /\ what \notin {0, 1, 311}
BY DEF H!Scenarios

LEMMA HolidayWhat ==
  ASSUME NEW what \in Int, 33001 <= what, what <= 33255
  PROVE  what \in H!Holiday /\ what \notin {0, 1, 311}
BY DEF H!Holiday

(* A WHAT of the central unit. *)
LEMMA UnitPosted ==
  ASSUME NEW w, HeatWhere(w), H!IsCentral(w), NEW what, what # 311, NEW par, NEW f, f = H!Status(4, what, par, w),
         NEW kind, NEW n, kind \notin SensedKinds, NEW t, t = H!Said(kind, H!ZoneAsked(w), n),
         \A g, y : HeatStatus(g, what, par, y) => H!ReadsBack(g, t)
  PROVE  HeatCommand(f, t)
<1>1. HeatPlace(w, w) /\ Len(w.par) <= 1
  BY CentralPlace DEF ShortAddress
<1> QED
  BY <1>1, StatusObeyed

LEMMA UnitPrograms ==
  ASSUME NEW w, HeatWhere(w), NEW p
  PROVE  HeatPosted(H!SetCentralProgram(w, p), "program", w, p)
<1> DEFINE f == H!SetCentralProgram(w, p)
           t == H!Said("program", H!ZoneAsked(w), p)
           what == 3100 + p
<1> SUFFICES ASSUME f # H!Refuse
             PROVE  HeatCommand(f, t)
  BY DEF HeatPosted
<1>1. H!IsCentral(w) /\ p \in 1 .. 16 /\ f = H!Status(4, what, <<>>, w)
  BY DEF H!SetCentralProgram, H!Status4
<1>2. p \in Int /\ 1 <= p /\ p <= 16
  BY <1>1
<1>3. what % 100 = p /\ what \in Int /\ 3101 <= what /\ what <= 3116
  BY <1>2, PlanNumbers
<1>4. t.kind = "program" /\ t.n = p /\ "program" \notin SensedKinds
  BY HeatSaidIs DEF SensedKinds
<1>5. t = H!Said("program", H!ZoneAsked(w), p)
  OBVIOUS
<1> HIDE DEF f, t, what
<1>6. what \in H!Programs /\ what \notin {0, 1, 311} /\ H!ModeOf(what) = "auto"
  BY <1>3, ProgramWhat, CentralModes
<1>7. ASSUME NEW g, NEW y, HeatStatus(g, what, <<>>, y) PROVE H!ReadsBack(g, t)
  <2>1. H!HeatingEvent(g) = ModeEvent(what)
    BY <1>6, <1>7, BareWhat
  <2>2. H!HeatingEvent(g).type = "mode" /\ H!HeatingEvent(g).program = p
    BY <1>3, <1>6, <2>1, ModeEventIs
  <2> QED
    BY <1>4, <2>2, KindsReadBack
<1> QED
  BY <1>1, <1>4, <1>5, <1>6, <1>7, UnitPosted

LEMMA UnitScenarios ==
  ASSUME NEW w, HeatWhere(w), NEW p
  PROVE  HeatPosted(H!SetCentralScenario(w, p), "scenario", w, p)
<1> DEFINE f == H!SetCentralScenario(w, p)
           t == H!Said("scenario", H!ZoneAsked(w), p)
           what == 3200 + p
<1> SUFFICES ASSUME f # H!Refuse
             PROVE  HeatCommand(f, t)
  BY DEF HeatPosted
<1>1. H!IsCentral(w) /\ p \in 1 .. 16 /\ f = H!Status(4, what, <<>>, w)
  BY DEF H!SetCentralScenario, H!Status4
<1>2. p \in Int /\ 1 <= p /\ p <= 16
  BY <1>1
<1>3. what % 100 = p /\ what \in Int /\ 3201 <= what /\ what <= 3216
  BY <1>2, PlanNumbers
<1>4. t.kind = "scenario" /\ t.n = p /\ "scenario" \notin SensedKinds
  BY HeatSaidIs DEF SensedKinds
<1>5. t = H!Said("scenario", H!ZoneAsked(w), p)
  OBVIOUS
<1> HIDE DEF f, t, what
<1>6. what \in H!Scenarios /\ what \notin {0, 1, 311} /\ H!ModeOf(what) = "auto"
  BY <1>3, ScenarioWhat, CentralModes
<1>7. ASSUME NEW g, NEW y, HeatStatus(g, what, <<>>, y) PROVE H!ReadsBack(g, t)
  <2>1. H!HeatingEvent(g) = ModeEvent(what)
    BY <1>6, <1>7, BareWhat
  <2>2. H!HeatingEvent(g).type = "mode" /\ H!HeatingEvent(g).scenario = p
    BY <1>3, <1>6, <2>1, ModeEventIs
  <2> QED
    BY <1>4, <2>2, KindsReadBack
<1> QED
  BY <1>1, <1>4, <1>5, <1>6, <1>7, UnitPosted

LEMMA UnitWeekends ==
  ASSUME NEW w, HeatWhere(w), NEW p
  PROVE  HeatPosted(H!SetCentralWeekend(w, p), "program", w, p)
<1> DEFINE f == H!SetCentralWeekend(w, p)
           t == H!Said("program", H!ZoneAsked(w), p)
           q == 3100 + p
           par == << q >>
<1> SUFFICES ASSUME f # H!Refuse
             PROVE  HeatCommand(f, t)
  BY DEF HeatPosted
<1>1. H!IsCentral(w) /\ p \in 1 .. 16 /\ f = H!Status(4, 315, par, w)
  BY DEF H!SetCentralWeekend, H!Status4
<1>2. p \in Int /\ 1 <= p /\ p <= 16
  BY <1>1
<1>3. p = q % 100
  BY <1>2, PlanNumbers
<1>4. t.kind = "program" /\ t.n = p /\ "program" \notin SensedKinds
  BY HeatSaidIs DEF SensedKinds
<1>5. t = H!Said("program", H!ZoneAsked(w), p)
  OBVIOUS
<1> HIDE DEF f, t, q
<1>6. Len(par) > 0 /\ p = par[1] % 100
  BY <1>3
<1> HIDE DEF par
<1>7. H!ModeOf(315) # "none"
  BY ModesAre
<1>8. ASSUME NEW g, NEW y, HeatStatus(g, 315, par, y) PROVE H!ReadsBack(g, t)
  <2>1. H!HeatingEvent(g).type = "mode" /\ H!HeatingEvent(g).program = p
    BY <1>6, <1>7, <1>8, ResumingWhat
  <2> QED
    BY <1>4, <2>1, KindsReadBack
<1>9. 315 # 311
  OBVIOUS
<1> QED
  BY <1>1, <1>4, <1>5, <1>8, <1>9, UnitPosted

LEMMA UnitHolidays ==
  ASSUME NEW w, HeatWhere(w), NEW d, NEW p
  PROVE  HeatPosted(H!SetCentralHoliday(w, d, p), "holiday", w, << d, p >>)
<1> DEFINE f == H!SetCentralHoliday(w, d, p)
           t == H!Said("holiday", H!ZoneAsked(w), << d, p >>)
           q == 3100 + p
           par == << q >>
           what == 33000 + d
<1> SUFFICES ASSUME f # H!Refuse
             PROVE  HeatCommand(f, t)
  BY DEF HeatPosted
<1>1. H!IsCentral(w) /\ p \in 1 .. 16 /\ d \in 1 .. 255 /\ f = H!Status(4, what, par, w)
  BY DEF H!SetCentralHoliday, H!Status4
<1>2. p \in Int /\ 1 <= p /\ p <= 16 /\ d \in Int /\ 1 <= d /\ d <= 255
  BY <1>1
<1>3. p = q % 100
  BY <1>2, PlanNumbers
<1>a. what % 1000 = d /\ what \in Int /\ 33001 <= what /\ what <= 33255
  BY <1>2, HolidayNumbers
<1>4. t.kind = "holiday" /\ t.n = << d, p >> /\ "holiday" \notin SensedKinds
  BY HeatSaidIs DEF SensedKinds
<1>5. t = H!Said("holiday", H!ZoneAsked(w), << d, p >>)
  OBVIOUS
<1> HIDE DEF f, t, q, what
<1>6. Len(par) > 0 /\ p = par[1] % 100
  BY <1>3
<1> HIDE DEF par
<1>7. what \in H!Holiday /\ what \notin {0, 1} /\ what # 311 /\ H!ModeOf(what) # "none"
  BY <1>a, HolidayWhat, CentralModes
<1>8. ASSUME NEW g, NEW y, HeatStatus(g, what, par, y) PROVE H!ReadsBack(g, t)
  <2>1. H!HeatingEvent(g).type = "mode" /\ H!HeatingEvent(g).program = p /\ H!HeatingEvent(g).days = what % 1000
    BY <1>6, <1>7, <1>8, ResumingWhat
  <2>2. H!HeatingEvent(g).days = d
    BY <1>a, <2>1
  <2> QED
    BY <1>4, <2>1, <2>2, HolidayReadsBack
<1> QED
  BY <1>1, <1>4, <1>5, <1>7, <1>8, UnitPosted


LEMMA SetCommand ==
  ASSUME NEW w, HeatWhere(w), NEW x, HeatPlace(x, w), ShortAddress(x), NEW q \in Int, NEW c \in 1 .. 3,
         NEW f, f = H!DimensionWriting(4, x, 14, << H!Setpoint(q), c >>)
  PROVE  HeatCommand(f, H!Said("set", H!ZoneAsked(w), q))
<1> DEFINE s == H!Setpoint(q)
           v == << s, c >>
           t == H!Said("set", H!ZoneAsked(w), q)
<1>1. FourDigits(s) /\ H!Temperature(s) = s /\ SetAs(s, q)
  BY SetAsAsked
<1> HIDE DEF s
<1>2. Len(v) = 2 /\ v[1] = s /\ v[2] = c
  OBVIOUS
<1>3. f = H!DimensionWriting(4, x, 14, v)
  BY DEF s
<1> HIDE DEF v
<1>4. HeatWrite(f, 14, v, x)
  BY <1>3, HeatFrames
<1>5. \A g \in H!Replies(f) : TargetTold(f, g, v, s)
  BY <1>2, <1>4, TargetsTold
<1>6. t = H!Said("set", H!ZoneAsked(w), q)
  OBVIOUS
<1> HIDE DEF t
<1>7. HeatCommand(f, t)
  BY <1>1, <1>2, <1>4, <1>5, <1>6, TargetObeyed
<1> QED
  BY <1>6, <1>7

LEMMA ZoneTargets ==
  ASSUME NEW w, HeatWhere(w), NEW q \in Int, NEW m, NEW alone \in BOOLEAN
  PROVE  HeatPosted(H!SetTemperature(w, q, m, alone), "set", w, q)
<1> DEFINE f == H!SetTemperature(w, q, m, alone)
           c == H!SeasonCodes[m]
           x == H!ZoneAddress(w, alone)
<1> SUFFICES ASSUME f # H!Refuse
             PROVE  HeatCommand(f, H!Said("set", H!ZoneAsked(w), q))
  BY DEF HeatPosted
<1>1. H!IsZone(w) /\ m \in DOMAIN H!SeasonCodes /\ f = H!DimensionWriting(4, x, 14, << H!Setpoint(q), c >>)
  BY DEF H!SetTemperature
<1>2. c \in 1 .. 3
  BY <1>1 DEF H!SeasonCodes
<1>3. HeatPlace(x, w) /\ ShortAddress(x)
  BY <1>1, ZonePlace
<1> HIDE DEF f, c, x
<1> QED
  BY <1>1, <1>2, <1>3, SetCommand

LEMMA UnitTargets ==
  ASSUME NEW w, HeatWhere(w), NEW q \in Int, NEW m
  PROVE  HeatPosted(H!SetCentralTemperature(w, q, m), "set", w, q)
<1> DEFINE f == H!SetCentralTemperature(w, q, m)
           c == H!SeasonCodes[m]
<1> SUFFICES ASSUME f # H!Refuse
             PROVE  HeatCommand(f, H!Said("set", H!ZoneAsked(w), q))
  BY DEF HeatPosted
<1>1. H!IsCentral(w) /\ m \in DOMAIN H!SeasonCodes /\ f = H!DimensionWriting(4, w, 14, << H!Setpoint(q), c >>)
  BY DEF H!SetCentralTemperature
<1>2. c \in 1 .. 3
  BY <1>1 DEF H!SeasonCodes
<1>3. HeatPlace(w, w) /\ ShortAddress(w)
  BY <1>1, CentralPlace
<1> HIDE DEF f, c
<1> QED
  BY <1>1, <1>2, <1>3, SetCommand

LEMMA ZoneTimed ==
  ASSUME NEW w, HeatWhere(w), NEW q \in Int, NEW h, NEW alone \in BOOLEAN
  PROVE  HeatPosted(H!SetTimedManual(w, q, h, alone), "set", w, q)
<1> DEFINE f == H!SetTimedManual(w, q, h, alone)
           s == H!Setpoint(q)
           par == << s, h >>
           x == H!ZoneAddress(w, alone)
           t == H!Said("set", H!ZoneAsked(w), q)
<1> SUFFICES ASSUME f # H!Refuse
             PROVE  HeatCommand(f, t)
  BY DEF HeatPosted
<1>1. H!IsZone(w) /\ f = H!Status(4, 312, par, x)
  BY DEF H!SetTimedManual, H!Status4
<1>2. H!Temperature(s) = s /\ SetAs(s, q)
  BY SetAsAsked
<1>3. HeatPlace(x, w) /\ ShortAddress(x)
  BY <1>1, ZonePlace
<1>4. t = H!Said("set", H!ZoneAsked(w), q) /\ t.kind = "set" /\ t.n = q /\ "set" \notin SensedKinds
  BY HeatSaidIs DEF SensedKinds
<1> HIDE DEF f, s, x, t
<1>5. Len(par) > 0 /\ s = H!Temperature(par[1])
  BY <1>2
<1> HIDE DEF par
<1>6. ASSUME NEW g, NEW y, HeatStatus(g, 312, par, y) PROVE H!ReadsBack(g, t)
  <2>1. H!HeatingEvent(g).set = s
    BY <1>5, <1>6, WarmingWhat
  <2>2. 2 * H!HeatingEvent(g).set - 5 * H!Clamp(20, 160, q) \in -5 .. 5
    BY <1>2, <2>1 DEF SetAs
  <2> QED
    BY <1>4, <2>2, KindsReadBack
<1>7. ~H!CentralOnly(312) /\ 312 # 311 /\ Len(x.par) <= 1
  BY <1>3, NotCentral DEF ShortAddress
<1> QED
  BY <1>1, <1>3, <1>4, <1>6, <1>7, StatusObeyed

LEMMA ZoneFans ==
  ASSUME NEW w, HeatWhere(w), NEW s
  PROVE  HeatPosted(H!SetFanSpeed(w, s), "fan", w, s)
<1> DEFINE f == H!SetFanSpeed(w, s)
           v == << s >>
           x == H!Addr(FALSE, w.n, <<>>)
           t == H!Said("fan", H!ZoneAsked(w), s)
<1> SUFFICES ASSUME f # H!Refuse
             PROVE  HeatCommand(f, t)
  BY DEF HeatPosted
<1>0. w.n \in 1 .. 99 /\ s \in 0 .. 3
  BY DEF H!SetFanSpeed
<1>1. f = H!DimensionWriting(4, x, 11, v)
  BY DEF H!SetFanSpeed
<1>2. x.hash = FALSE /\ x.n = w.n /\ x.par = <<>>
  BY DEF H!Addr
<1>a. Len(<<>>) = 0
  OBVIOUS
<1>b. Len(x.par) = 0
  BY <1>2, <1>a, Zenon
<1>3. HeatPlace(x, w) /\ ~x.hash /\ x.par = <<>> /\ x.n > 0 /\ Len(x.par) <= 1
  <2> DEFINE p == <<>>
  <2>1. w.n > 0 /\ w.n # 0
    <3> HIDE DEF f
    <3> QED
      BY <1>0
  <2>2. ~x.hash /\ x.n = w.n /\ x.par = p
    BY <1>2
  <2> HIDE DEF p, x
  <2>3. HeatPlace(x, w) /\ ~x.hash /\ x.par = p /\ x.n > 0 /\ Len(x.par) <= 1
    BY <1>b, <2>1, <2>2 DEF HeatPlace
  <2> QED
    BY <2>3 DEF p
<1>4. t = H!Said("fan", H!ZoneAsked(w), s) /\ t.kind = "fan" /\ t.n = s /\ "fan" \notin SensedKinds
  BY HeatSaidIs DEF SensedKinds
<1>5. Len(v) > 0 /\ v[1] = s
  OBVIOUS
<1> HIDE DEF f, x, t, v
<1>6. HeatWrite(f, 11, v, x)
  BY <1>1, HeatFrames
<1>7. ASSUME NEW g, NEW y, HeatReply(g, 11, v, y) PROVE H!ReadsBack(g, t)
  <2> DEFINE b == s < 4
  <2>1. b = TRUE
    BY <1>0
  <2>2. H!HeatingEvent(g).active = b /\ (s < 4 => H!HeatingEvent(g).fan = s)
    BY <1>5, <1>7, FanTells
  <2> HIDE DEF b
  <2>3. H!HeatingEvent(g).active /\ H!HeatingEvent(g).fan = s
    BY <2>1, <2>2 DEF b
  <2> QED
    BY <1>4, <2>3, KindsReadBack
<1> DEFINE dim == 11
<1>8. dim # 14 /\ dim # 0 /\ dim \notin {30, 31, 32} /\ dim = 11
  OBVIOUS
<1>9. HeatWrite(f, dim, v, x) /\ (\A g, y : HeatReply(g, dim, v, y) => H!ReadsBack(g, t))
  BY <1>6, <1>7
<1> HIDE DEF dim
<1> QED
  BY <1>3, <1>4, <1>8, <1>9, WriteObeyed

(* The end of a holiday or of a timed manual. *)
LEMMA SpanCommand ==
  ASSUME NEW w, HeatWhere(w), H!IsCentral(w), NEW dim \in {30, 31, 32}, NEW v, Len(v) > 0,
         NEW f, f = H!DimensionWriting(4, w, dim, v), NEW t, t = H!Said("span", H!ZoneAsked(w), v)
  PROVE  HeatCommand(f, t)
<1>1. HeatWrite(f, dim, v, w)
  BY HeatFrames
<1>2. H!HeatingEvent(f) = H!NoEvent
  BY <1>1, SpanTells
<1>3. HeatPlace(w, w) /\ Len(w.par) <= 1
  BY CentralPlace DEF ShortAddress
<1>4. t.kind = "span" /\ t.n = v /\ "span" \notin SensedKinds
  BY HeatSaidIs DEF SensedKinds
<1>5. ASSUME NEW g, NEW y, HeatReply(g, dim, v, y) PROVE H!ReadsBack(g, t)
  <2>1. H!HeatingEvent(g).span = v
    BY <1>5, SpanTells
  <2> QED
    BY <1>4, <2>1, KindsReadBack
<1>6. dim # 14 /\ dim # 0 /\ dim # 11
  OBVIOUS
<1> QED
  BY <1>1, <1>2, <1>3, <1>4, <1>5, <1>6, WriteObeyed

LEMMA UnitSpans ==
  ASSUME NEW w, HeatWhere(w), NEW a, NEW b, NEW c
  PROVE  /\ HeatPosted(H!SetHolidayEndDate(w, a, b, c), "span", w, << a, b, c >>)
         /\ HeatPosted(H!SetHolidayEndTime(w, a, b), "span", w, << a, b >>)
         /\ HeatPosted(H!SetTimedManualEndTime(w, a, b), "span", w, << a, b >>)
<1> DEFINE u == << a, b, c >>
           v == << a, b >>
<1>1. Len(u) > 0 /\ Len(v) > 0
  OBVIOUS
<1>2. H!SetHolidayEndDate(w, a, b, c) # H!Refuse
        => H!IsCentral(w) /\ H!SetHolidayEndDate(w, a, b, c) = H!DimensionWriting(4, w, 30, u)
  BY DEF H!SetHolidayEndDate
<1>3. H!SetHolidayEndTime(w, a, b) # H!Refuse
        => H!IsCentral(w) /\ H!SetHolidayEndTime(w, a, b) = H!DimensionWriting(4, w, 31, v)
  BY DEF H!SetHolidayEndTime
<1>4. H!SetTimedManualEndTime(w, a, b) # H!Refuse
        => H!IsCentral(w) /\ H!SetTimedManualEndTime(w, a, b) = H!DimensionWriting(4, w, 32, v)
  BY DEF H!SetTimedManualEndTime
<1> HIDE DEF u, v
<1>5. HeatPosted(H!SetHolidayEndDate(w, a, b, c), "span", w, u)
  BY <1>1, <1>2, SpanCommand DEF HeatPosted
<1>6. HeatPosted(H!SetHolidayEndTime(w, a, b), "span", w, v)
  BY <1>1, <1>3, SpanCommand DEF HeatPosted
<1>7. HeatPosted(H!SetTimedManualEndTime(w, a, b), "span", w, v)
  BY <1>1, <1>4, SpanCommand DEF HeatPosted
<1> QED
  BY <1>5, <1>6, <1>7 DEF u, v


(* A temperature announced. *)
LEMMA NoSensor ==
  ASSUME NEW y, y.n \in 0 .. 99
  PROVE  H!SensorOf(y) = H!Null
BY DEF H!SensorOf

LEMMA ReportCommand ==
  ASSUME NEW w, HeatWhere(w), w.n > 0, NEW n, NEW c, FourDigits(c), Nearest(H!Temperature(c), n),
         NEW v, Len(v) > 0, v[1] = c, NEW dim, dim = 0, NEW f, HeatWrite(f, dim, v, w) \/ HeatReply(f, dim, v, w),
         NEW t, t = H!Said("report", H!ZoneAsked(w), n)
  PROVE  HeatCommand(f, t)
<1>1. t.kind = "report" /\ t.n = n /\ "report" \notin SensedKinds
  BY HeatSaidIs DEF SensedKinds
<1>2. HeatPlace(w, w) /\ w.n \in 0 .. 99
  BY DEF HeatPlace, HeatWhere
<1>3. ASSUME NEW g, NEW y, HeatReply(g, dim, v, y), HeatPlace(y, w) PROVE H!ReadsBack(g, t)
  <2>1. H!SensorOf(y) = H!Null
    BY <1>2, <1>3, NoSensor DEF HeatPlace
  <2>2. H!HeatingEvent(g).type = "main" /\ H!HeatingEvent(g).measured = H!Temperature(c)
    BY <1>3, <2>1, MainTells
  <2>3. 10 * H!HeatingEvent(g).measured - n \in -5 .. 5
    BY <2>2 DEF Nearest
  <2> QED
    BY <1>1, <2>2, <2>3, KindsReadBack
<1>4. FourDigits(v[1])
  OBVIOUS
<1>5. dim # 14 /\ dim # 11 /\ dim \notin {30, 31, 32}
  OBVIOUS
<1> QED
  BY <1>1, <1>2, <1>3, <1>4, <1>5, WriteObeyed

(* What is built to announce a temperature, and what it is taken for. *)
Announceable(n) == n \in -9990 .. 9990

LEMMA ReportIsBuilt ==
  ASSUME NEW w, NEW n, NEW f, f = H!ReportTemperature(w, n), f # H!Refuse
  PROVE  Announceable(n) /\ f = H!DimensionReply(4, w, 0, << H!EncodeTemperature(n) >>)
<1>1. ~Announceable(n) => H!ReportTemperature(w, n) = H!Refuse
  BY DEF H!ReportTemperature, Announceable
<1>2. Announceable(n) => H!ReportTemperature(w, n) = H!DimensionReply(4, w, 0, << H!EncodeTemperature(n) >>)
  BY DEF H!ReportTemperature, Announceable
<1> QED
  BY <1>1, <1>2

LEMMA WritingIsBuilt ==
  ASSUME NEW w, NEW n, NEW f, f = H!WriteTemperature(w, n), f # H!Refuse
  PROVE  Announceable(n) /\ f = H!DimensionWriting(4, w, 0, << H!EncodeTemperature(n) >>)
<1>1. ~Announceable(n) => H!WriteTemperature(w, n) = H!Refuse
  BY DEF H!WriteTemperature, Announceable
<1>2. Announceable(n) => H!WriteTemperature(w, n) = H!DimensionWriting(4, w, 0, << H!EncodeTemperature(n) >>)
  BY DEF H!WriteTemperature, Announceable
<1> QED
  BY <1>1, <1>2

LEMMA AnnouncedIs ==
  ASSUME NEW w, HeatWhere(w), w.n > 0, NEW n, Announceable(n), NEW c, c = H!EncodeTemperature(n), NEW f,
         f = H!DimensionReply(4, w, 0, << c >>) \/ f = H!DimensionWriting(4, w, 0, << c >>)
  PROVE  HeatCommand(f, H!Said("report", H!ZoneAsked(w), n))
<1>1. PICK v : v = << c >>
  OBVIOUS
<1>2. Len(v) > 0 /\ v[1] = c
  BY <1>1
<1>3. HeatReply(f, 0, v, w) \/ HeatWrite(f, 0, v, w)
  BY <1>1, HeatFrames
<1>4. n \in Int /\ -9990 <= n /\ n <= 9990
  BY DEF Announceable
<1>5. FourDigits(c) /\ Nearest(H!Temperature(c), n)
  BY <1>4, EncodedNear
<1> QED
  BY <1>2, <1>3, <1>5, ReportCommand

LEMMA TemperaturesPosted ==
  ASSUME NEW w, HeatWhere(w), w.n > 0, NEW n
  PROVE  HeatPosted(H!ReportTemperature(w, n), "report", w, n) /\ HeatPosted(H!WriteTemperature(w, n), "report", w, n)
<1>1. PICK t : t = H!Said("report", H!ZoneAsked(w), n)
  OBVIOUS
<1>2. PICK c : c = H!EncodeTemperature(n)
  OBVIOUS
<1>3. ASSUME NEW f, f = H!ReportTemperature(w, n), f # H!Refuse PROVE HeatCommand(f, t)
  <2>1. Announceable(n) /\ f = H!DimensionReply(4, w, 0, << c >>)
    BY <1>2, <1>3, ReportIsBuilt
  <2> QED
    BY <1>1, <1>2, <2>1, AnnouncedIs
<1>4. ASSUME NEW f, f = H!WriteTemperature(w, n), f # H!Refuse PROVE HeatCommand(f, t)
  <2>1. Announceable(n) /\ f = H!DimensionWriting(4, w, 0, << c >>)
    BY <1>2, <1>4, WritingIsBuilt
  <2> QED
    BY <1>1, <1>2, <2>1, AnnouncedIs
<1> QED
  BY <1>1, <1>3, <1>4 DEF HeatPosted

(* The callers. *)
LEMMA HeatPostsOne ==
  ASSUME HeatInv, NEW f, NEW kind, NEW w, NEW n, HeatPosted(f, kind, w, n), H!Post(f, kind, w, n)
  PROVE  HeatInv'
BY HeatPosts DEF HeatPosted

LEMMA QuartersAre ==
  ASSUME FamiliesAssumption, NEW q \in Quarters
  PROVE  q \in Int
BY DEF FamiliesAssumption, H!HeatingAssumption

LEMMA ZoneCommands ==
  ASSUME FamiliesAssumption, HeatInv, NEW w \in HeatingWheres, H!CommandZone(w)
  PROVE  HeatInv'
<1>0. HeatWhere(w)
  BY WheresAre
<1>1. PICK alone \in BOOLEAN :
        \/ \E m \in H!Modes : H!Post(H!SetMode(w, m, alone), "mode", w, m)
        \/ \E q \in Quarters, m \in H!Modes : H!Post(H!SetTemperature(w, q, m, alone), "set", w, q)
        \/ \E q \in Quarters, h \in H!Bounds : H!Post(H!SetTimedManual(w, q, h, alone), "set", w, q)
        \/ \E s \in -1 .. 4 : H!Post(H!SetFanSpeed(w, s), "fan", w, s)
  BY Zenon DEF H!CommandZone
<1>2. ASSUME NEW m, H!Post(H!SetMode(w, m, alone), "mode", w, m) PROVE HeatInv'
  BY <1>0, <1>2, ZoneModes, HeatPostsOne
<1>3. ASSUME NEW q \in Quarters, NEW m, H!Post(H!SetTemperature(w, q, m, alone), "set", w, q) PROVE HeatInv'
  BY <1>0, <1>3, QuartersAre, ZoneTargets, HeatPostsOne
<1>4. ASSUME NEW q \in Quarters, NEW h, H!Post(H!SetTimedManual(w, q, h, alone), "set", w, q) PROVE HeatInv'
  BY <1>0, <1>4, QuartersAre, ZoneTimed, HeatPostsOne
<1>5. ASSUME NEW s, H!Post(H!SetFanSpeed(w, s), "fan", w, s) PROVE HeatInv'
  BY <1>0, <1>5, ZoneFans, HeatPostsOne
<1> QED
  BY <1>1, <1>2, <1>3, <1>4, <1>5

LEMMA UnitCommands ==
  ASSUME FamiliesAssumption, HeatInv, NEW w \in HeatingWheres, H!CommandCentral(w)
  PROVE  HeatInv'
<1>0. HeatWhere(w)
  BY WheresAre
<1>1. ASSUME NEW m, H!Post(H!SetCentralMode(w, m), "mode", w, m) PROVE HeatInv'
  BY <1>0, <1>1, UnitModes, HeatPostsOne
<1>2. ASSUME NEW q \in Quarters, NEW m, H!Post(H!SetCentralTemperature(w, q, m), "set", w, q) PROVE HeatInv'
  BY <1>0, <1>2, QuartersAre, UnitTargets, HeatPostsOne
<1>3. ASSUME NEW p, H!Post(H!SetCentralProgram(w, p), "program", w, p) PROVE HeatInv'
  BY <1>0, <1>3, UnitPrograms, HeatPostsOne
<1>4. ASSUME NEW p, H!Post(H!SetCentralScenario(w, p), "scenario", w, p) PROVE HeatInv'
  BY <1>0, <1>4, UnitScenarios, HeatPostsOne
<1>5. ASSUME NEW p, H!Post(H!SetCentralWeekend(w, p), "program", w, p) PROVE HeatInv'
  BY <1>0, <1>5, UnitWeekends, HeatPostsOne
<1>6. ASSUME NEW d, NEW p, H!Post(H!SetCentralHoliday(w, d, p), "holiday", w, << d, p >>) PROVE HeatInv'
  BY <1>0, <1>6, UnitHolidays, HeatPostsOne
<1>7. ASSUME NEW d, NEW m, NEW y, H!Post(H!SetHolidayEndDate(w, d, m, y), "span", w, << d, m, y >>) PROVE HeatInv'
  BY <1>0, <1>7, UnitSpans, HeatPostsOne
<1>8. ASSUME NEW e \in H!Endings, \/ H!Post(H!SetHolidayEndTime(w, e[1], e[2]), "span", w, e)
                                  \/ H!Post(H!SetTimedManualEndTime(w, e[1], e[2]), "span", w, e)
      PROVE HeatInv'
  <2>1. e = << e[1], e[2] >>
    BY DEF H!Endings
  <2> DEFINE a == e[1]
             b == e[2]
             v == << a, b >>
  <2>2. \/ H!Post(H!SetHolidayEndTime(w, a, b), "span", w, v)
        \/ H!Post(H!SetTimedManualEndTime(w, a, b), "span", w, v)
    BY <1>8, <2>1
  <2>3. HeatPosted(H!SetHolidayEndTime(w, a, b), "span", w, v) /\ HeatPosted(H!SetTimedManualEndTime(w, a, b), "span", w, v)
    BY <1>0, UnitSpans
  <2> HIDE DEF a, b, v
  <2> QED
    BY <2>2, <2>3, HeatPostsOne
<1> DEFINE P1 == \E m \in H!Modes : H!Post(H!SetCentralMode(w, m), "mode", w, m)
           P2 == \E q \in Quarters, m \in H!Modes : H!Post(H!SetCentralTemperature(w, q, m), "set", w, q)
           P3 == \E p \in H!Bounds :
                   \/ H!Post(H!SetCentralProgram(w, p), "program", w, p)
                   \/ H!Post(H!SetCentralScenario(w, p), "scenario", w, p)
                   \/ H!Post(H!SetCentralWeekend(w, p), "program", w, p)
                   \/ \E d \in H!Bounds : H!Post(H!SetCentralHoliday(w, d, p), "holiday", w, << d, p >>)
           P4 == \E d \in {0, 31, 32}, m \in {1, 12, 13}, y \in {1999, 2000, 2099} :
                   H!Post(H!SetHolidayEndDate(w, d, m, y), "span", w, << d, m, y >>)
           P5 == \E e \in H!Endings : \/ H!Post(H!SetHolidayEndTime(w, e[1], e[2]), "span", w, e)
                                      \/ H!Post(H!SetTimedManualEndTime(w, e[1], e[2]), "span", w, e)
<1>9. P1 \/ P2 \/ P3 \/ P4 \/ P5
  BY DEF H!CommandCentral
<1>10. P1 => HeatInv'
  BY <1>1
<1>11. P2 => HeatInv'
  BY <1>2
<1>12. P3 => HeatInv'
  BY <1>3, <1>4, <1>5, <1>6
<1>13. P4 => HeatInv'
  BY <1>7
<1>14. P5 => HeatInv'
  BY <1>8
<1> QED
  BY <1>9, <1>10, <1>11, <1>12, <1>13, <1>14

LEMMA ZoneAnnounces ==
  ASSUME FamiliesAssumption, HeatInv, NEW w \in HeatingWheres, H!Announce(w)
  PROVE  HeatInv'
<1>0. HeatWhere(w) /\ w.n > 0
  BY WheresAre DEF H!Announce
<1>1. ASSUME NEW n, H!Post(H!ReportTemperature(w, n), "report", w, n) \/ H!Post(H!WriteTemperature(w, n), "report", w, n)
      PROVE  HeatInv'
  BY <1>0, <1>1, TemperaturesPosted, HeatPostsOne
<1> QED
  BY <1>1, Zenon DEF H!Announce


(* What the plant tells is true. *)
ZoneNumber(z) == z \in 1 .. 99
HeatTrue(f, kind, z, n) == H!Truthful(f, H!Said(kind, z, n))
SensorTold(t) == t \in -999 .. 999

LEMMA BareAt ==
  ASSUME NEW z, z \in 0 .. 99, NEW b, b = FALSE, NEW p, NEW x, x = H!Addr(b, z, p)
  PROVE  H!ZoneOf(x) = z /\ H!SensorOf(x) = H!Null
<1>1. x.hash = b /\ x.n = z
  BY AddrIs
<1>2. ~x.hash /\ ~(x.n > 99)
  BY <1>1
<1> QED
  BY <1>1, <1>2 DEF H!ZoneOf, H!SensorOf

ProbeOf(k, z) == k = 300 + z
LEMMA ProbeAt ==
  ASSUME NEW z, ZoneNumber(z), NEW b, b = FALSE, NEW p, NEW k, ProbeOf(k, z), NEW x, x = H!Addr(b, k, p)
  PROVE  H!ZoneOf(x) = z /\ H!SensorOf(x) = 3
<1>0. x.hash = b /\ x.n = k
  BY AddrIs
<1>1. x.hash = b /\ x.n = 300 + z
  BY <1>0 DEF ProbeOf
<1>2. ~x.hash /\ x.n > 99 /\ x.n % 100 = z /\ x.n \div 100 = 3
  BY <1>1 DEF ZoneNumber
<1>3. H!ZoneOf(x) = x.n % 100
  BY <1>2 DEF H!ZoneOf
<1>4. H!SensorOf(x) = x.n \div 100
  BY <1>2 DEF H!SensorOf
<1> QED
  BY <1>2, <1>3, <1>4

LEMMA BareNumber ==
  ASSUME NEW z, ZoneNumber(z), NEW b, b = FALSE, NEW p, NEW x, x = H!Addr(b, z, p)
  PROVE  H!ZoneOf(x) = z /\ H!SensorOf(x) = H!Null
<1>1. z \in 0 .. 99
  BY DEF ZoneNumber
<1> QED
  BY <1>1, BareAt

LEMMA RawRead ==
  ASSUME FamiliesAssumption, NEW t \in Temperatures
  PROVE  H!Temperature(H!Raw(t)) = t
<1>2. H!HeatingAssumption
  BY DEF FamiliesAssumption
<1>3. Temperatures \subseteq -999 .. 999
  BY <1>2, Zenon DEF H!HeatingAssumption
<1>1. t \in -999 .. 999
  BY <1>3
<1> QED
  BY <1>1, RawIsRead

LEMMA MainTrue ==
  ASSUME NEW f, NEW v, NEW x, HeatReply(f, 0, v, x), Len(v) > 0, NEW t, H!Temperature(v[1]) = t,
         NEW z, H!ZoneOf(x) = z, H!SensorOf(x) = H!Null
  PROVE  HeatTrue(f, "main", z, t)
<1> DEFINE s == H!Said("main", z, t)
<1>1. s.kind = "main" /\ s.zone = z /\ s.n = t
  BY HeatSaidIs
<1> HIDE DEF s
<1>2. f.where = x
  BY DEF HeatReply
<1>3. H!HeatingEvent(f).type = "main" /\ H!HeatingEvent(f).measured = t
  BY MainTells
<1>4. H!Truthful(f, s)
  BY <1>1, <1>2, <1>3, KindsAreTrue
<1> QED
  BY <1>4 DEF HeatTrue, s

LEMMA ProbeTrue ==
  ASSUME NEW f, NEW v, NEW x, HeatReply(f, 0, v, x), Len(v) > 0, NEW t, H!Temperature(v[1]) = t,
         NEW z, H!ZoneOf(x) = z, NEW k, H!SensorOf(x) = k, k # H!Null
  PROVE  HeatTrue(f, "secondary", z, << k, t >>)
<1> DEFINE s == H!Said("secondary", z, << k, t >>)
<1>1. s.kind = "secondary" /\ s.zone = z /\ s.n = << k, t >>
  BY HeatSaidIs
<1> HIDE DEF s
<1>2. f.where = x
  BY DEF HeatReply
<1>3. H!HeatingEvent(f).type = "secondary" /\ H!HeatingEvent(f).measured = t /\ H!HeatingEvent(f).sensor = k
  BY MainTells
<1>4. H!Truthful(f, s)
  BY <1>1, <1>2, <1>3, SecondaryIsTrue
<1> QED
  BY <1>4 DEF HeatTrue, s

LEMMA OtherProbeTrue ==
  ASSUME NEW f, NEW v, NEW x, HeatReply(f, 15, v, x), Len(v) = 2, NEW t, H!Temperature(v[2]) = t,
         NEW z, H!ZoneOf(x) = z, NEW k, v[1] = k
  PROVE  HeatTrue(f, "secondary", z, << k, t >>)
<1> DEFINE s == H!Said("secondary", z, << k, t >>)
<1>1. s.kind = "secondary" /\ s.zone = z /\ s.n = << k, t >>
  BY HeatSaidIs
<1> HIDE DEF s
<1>2. f.where = x
  BY DEF HeatReply
<1>3. H!HeatingEvent(f).type = "secondary" /\ H!HeatingEvent(f).measured = t /\ H!HeatingEvent(f).sensor = k
  BY ProbeTells
<1>4. H!Truthful(f, s)
  BY <1>1, <1>2, <1>3, SecondaryIsTrue
<1> QED
  BY <1>4 DEF HeatTrue, s

LEMMA LocalTrue ==
  ASSUME NEW f, NEW v, NEW x, HeatReply(f, 12, v, x), Len(v) > 0, NEW t, H!Temperature(v[1]) = t,
         NEW z, H!ZoneOf(x) = z
  PROVE  HeatTrue(f, "local", z, t)
<1> DEFINE s == H!Said("local", z, t)
<1>1. s.kind = "local" /\ s.zone = z /\ s.n = t
  BY HeatSaidIs
<1> HIDE DEF s
<1>2. f.where = x
  BY DEF HeatReply
<1>3. H!HeatingEvent(f).measured = t
  BY LocalTells
<1>4. H!Truthful(f, s)
  BY <1>1, <1>2, <1>3, KindsAreTrue
<1> QED
  BY <1>4 DEF HeatTrue, s

LEMMA HeatTellsTruth ==
  ASSUME HeatInv, H!Wire < HeatingWire, UNCHANGED commands, NEW f, NEW kind, NEW z, NEW n,
         HeatTrue(f, kind, z, n), H!Tell(f, kind, z, n)
  PROVE  HeatInv'
BY HeatTells DEF HeatTrue

LEMMA ZoneMeasures ==
  ASSUME FamiliesAssumption, HeatInv, H!Wire < HeatingWire, UNCHANGED commands,
         NEW z, ZoneNumber(z), H!Measure(z)
  PROVE  HeatInv'
<1> DEFINE at == H!Addr(FALSE, z, <<>>)
           probe == H!Addr(FALSE, 300 + z, <<>>)
<1>1. H!ZoneOf(at) = z /\ H!SensorOf(at) = H!Null /\ H!ZoneOf(probe) = z /\ H!SensorOf(probe) = 3
  <2> DEFINE b == FALSE
             p == <<>>
             k == 300 + z
  <2>2. b = FALSE /\ ProbeOf(k, z)
    BY DEF ProbeOf
  <2>3. at = H!Addr(b, z, p) /\ probe = H!Addr(b, k, p)
    OBVIOUS
  <2> HIDE DEF b, p, k, at, probe
  <2>4. H!ZoneOf(at) = z /\ H!SensorOf(at) = H!Null
    BY <2>2, <2>3, BareNumber
  <2>5. H!ZoneOf(probe) = z /\ H!SensorOf(probe) = 3
    BY <2>2, <2>3, ProbeAt
  <2> QED
    BY <2>4, <2>5
<1>2. PICK t \in Temperatures :
        \/ H!Tell(H!DimensionReply(4, at, 0, << H!Raw(t) >>), "main", z, t)
        \/ H!Tell(H!DimensionReply(4, probe, 0, << H!Raw(t) >>), "secondary", z, << 3, t >>)
        \/ H!Tell(H!DimensionReply(4, at, 15, << 2, H!Raw(t) >>), "secondary", z, << 2, t >>)
        \/ H!Tell(H!DimensionReply(4, at, 12, << H!Raw(t) >>), "local", z, t)
  BY DEF H!Measure
<1> HIDE DEF at, probe
<1> DEFINE r == H!Raw(t)
           u == << r >>
           v == << 2, r >>
<1>3. H!Temperature(r) = t
  BY RawRead
<1> HIDE DEF r
<1>4. Len(u) > 0 /\ u[1] = r /\ Len(v) = 2 /\ v[1] = 2 /\ v[2] = r
  OBVIOUS
<1>5. \/ H!Tell(H!DimensionReply(4, at, 0, u), "main", z, t)
      \/ H!Tell(H!DimensionReply(4, probe, 0, u), "secondary", z, << 3, t >>)
      \/ H!Tell(H!DimensionReply(4, at, 15, v), "secondary", z, << 2, t >>)
      \/ H!Tell(H!DimensionReply(4, at, 12, u), "local", z, t)
  BY <1>2 DEF r
<1> HIDE DEF u, v
<1>6. HeatTrue(H!DimensionReply(4, at, 0, u), "main", z, t)
  BY <1>1, <1>3, <1>4, HeatFrames, MainTrue
<1>7. HeatTrue(H!DimensionReply(4, probe, 0, u), "secondary", z, << 3, t >>)
  <2>1. 3 # H!Null
    BY DEF H!Null
  <2> QED
    BY <1>1, <1>3, <1>4, <2>1, HeatFrames, ProbeTrue
<1>8. HeatTrue(H!DimensionReply(4, at, 15, v), "secondary", z, << 2, t >>)
  BY <1>1, <1>3, <1>4, HeatFrames, OtherProbeTrue
<1>9. HeatTrue(H!DimensionReply(4, at, 12, u), "local", z, t)
  BY <1>1, <1>3, <1>4, HeatFrames, LocalTrue
<1> QED
  BY <1>5, <1>6, <1>7, <1>8, <1>9, HeatTellsTruth


LEMMA BehavesTrue ==
  ASSUME NEW f, NEW z, H!ZoneOf(f.where) = z, NEW n
  PROVE  /\ H!HeatingEvent(f).active = n => HeatTrue(f, "running", z, n)
         /\ H!HeatingEvent(f).offset = n => HeatTrue(f, "offset", z, n)
         /\ H!HeatingEvent(f).type = "season" /\ H!HeatingEvent(f).mode = "none" => HeatTrue(f, "season", z, n)
         /\ H!HeatingEvent(f) = H!NoEvent => HeatTrue(f, "nothing", z, n)
<1>1. H!HeatingEvent(f).active = n => HeatTrue(f, "running", z, n)
  <2> DEFINE s == H!Said("running", z, n)
  <2>1. s.kind = "running" /\ s.zone = z /\ s.n = n
    BY HeatSaidIs
  <2> HIDE DEF s
  <2> QED
    BY <2>1, RunningIsTrue DEF HeatTrue, s
<1>2. H!HeatingEvent(f).offset = n => HeatTrue(f, "offset", z, n)
  <2> DEFINE s == H!Said("offset", z, n)
  <2>1. s.kind = "offset" /\ s.zone = z /\ s.n = n
    BY HeatSaidIs
  <2> HIDE DEF s
  <2> QED
    BY <2>1, KindsAreTrue DEF HeatTrue, s
<1>3. H!HeatingEvent(f).type = "season" /\ H!HeatingEvent(f).mode = "none" => HeatTrue(f, "season", z, n)
  <2> DEFINE s == H!Said("season", z, n)
  <2>1. s.kind = "season" /\ s.zone = z /\ s.n = n
    BY HeatSaidIs
  <2> HIDE DEF s
  <2> QED
    BY <2>1, KindsAreTrue DEF HeatTrue, s
<1>4. H!HeatingEvent(f) = H!NoEvent => HeatTrue(f, "nothing", z, n)
  <2> DEFINE s == H!Said("nothing", z, n)
  <2>1. s.kind = "nothing" /\ s.zone = z /\ s.n = n
    BY HeatSaidIs
  <2> HIDE DEF s
  <2> QED
    BY <2>1, KindsAreTrue DEF HeatTrue, s
<1> QED
  BY <1>1, <1>2, <1>3, <1>4

(* A valve or an actuator runs. *)
LEMMA RunsIs ==
  ASSUME NEW n \in 0 .. 9
  PROVE  (H!ValveActive(n) \/ n > 5) <=> H!Runs(n)
BY DEF H!ValveActive, H!Runs

LEMMA ValvesTrue ==
  ASSUME NEW c \in 0 .. 8, NEW h \in 0 .. 8, NEW v, Len(v) = 2, v[1] = c, v[2] = h,
         NEW f, NEW x, HeatReply(f, 19, v, x), NEW z, H!ZoneOf(x) = z, NEW b, b = (H!Runs(c) \/ H!Runs(h))
  PROVE  HeatTrue(f, "running", z, b)
<1> DEFINE a == H!ValveActive(v[1]) \/ H!ValveActive(v[2]) \/ v[1] > 5 \/ v[2] > 5
<1>1. a <=> H!Runs(c) \/ H!Runs(h)
  <2>1. (H!ValveActive(c) \/ c > 5) <=> H!Runs(c)
    BY RunsIs
  <2>2. (H!ValveActive(h) \/ h > 5) <=> H!Runs(h)
    BY RunsIs
  <2>3. a <=> (H!ValveActive(c) \/ c > 5) \/ (H!ValveActive(h) \/ h > 5)
    OBVIOUS
  <2> HIDE DEF a
  <2> QED
    BY <2>1, <2>2, <2>3
<1>2. H!Runs(c) \in BOOLEAN /\ H!Runs(h) \in BOOLEAN
  BY DEF H!Runs
<1>3. b = a
  BY <1>1, <1>2
<1>4. f.where = x
  BY DEF HeatReply
<1>5. H!HeatingEvent(f).active = b
  BY <1>3, ValvesTell
<1> QED
  BY <1>4, <1>5, BehavesTrue

LEMMA ActuatorTrue ==
  ASSUME NEW n \in 0 .. 9, NEW v, Len(v) > 0, v[1] = n, NEW f, NEW x, HeatReply(f, 20, v, x),
         NEW z, H!ZoneOf(x) = z, NEW b, b = H!Runs(n)
  PROVE  HeatTrue(f, "running", z, b)
<1>1. (H!ValveActive(n) \/ n > 5) <=> H!Runs(n)
  BY RunsIs
<1>2. b = (H!ValveActive(v[1]) \/ v[1] > 5)
  BY <1>1 DEF H!Runs, H!ValveActive
<1>4. f.where = x
  BY DEF HeatReply
<1>5. H!HeatingEvent(f).active = b
  BY <1>2, RadiatorTells
<1> QED
  BY <1>4, <1>5, BehavesTrue

LEMMA OffsetTrue ==
  ASSUME NEW n \in 0 .. 3, NEW v, Len(v) > 0, v[1] = n, NEW f, NEW x, HeatReply(f, 13, v, x),
         NEW z, H!ZoneOf(x) = z
  PROVE  HeatTrue(f, "offset", z, n)
<1>4. f.where = x
  BY DEF HeatReply
<1>5. H!HeatingEvent(f).offset = n
  BY OffsetTells
<1> QED
  BY <1>4, <1>5, BehavesTrue

LEMMA NegativeOffsetTrue ==
  ASSUME NEW n \in 1 .. 3, NEW k, k = 10 + n, NEW v, Len(v) > 0, v[1] = k, NEW f, NEW x, HeatReply(f, 13, v, x),
         NEW z, H!ZoneOf(x) = z, NEW m, m = -n
  PROVE  HeatTrue(f, "offset", z, m)
<1>1. k \in 11 .. 13 /\ m = 10 - k
  OBVIOUS
<1>4. f.where = x
  BY DEF HeatReply
<1>5. H!HeatingEvent(f).offset = m
  BY <1>1, OffsetTells
<1> QED
  BY <1>4, <1>5, BehavesTrue

LEMMA StoppedFanTrue ==
  ASSUME NEW v, Len(v) > 0, v[1] = 15, NEW f, NEW x, HeatReply(f, 11, v, x), NEW z, H!ZoneOf(x) = z,
         NEW b, b = FALSE
  PROVE  HeatTrue(f, "running", z, b)
<1>1. b = (v[1] < 4)
  <2> DEFINE c == v[1] < 4
  <2>1. ~c /\ c \in BOOLEAN
    OBVIOUS
  <2> HIDE DEF c
  <2>2. b = c
    BY <2>1
  <2> QED
    BY <2>2 DEF c
<1>4. f.where = x
  BY DEF HeatReply
<1>5. H!HeatingEvent(f).active = b
  BY <1>1, FanTells
<1> QED
  BY <1>4, <1>5, BehavesTrue

LEMMA SeasonTrue ==
  ASSUME NEW s \in {0, 1}, NEW f, NEW x, HeatStatus(f, s, <<>>, x), NEW z, H!ZoneOf(x) = z
  PROVE  HeatTrue(f, "season", z, s)
<1>4. f.where = x
  BY DEF HeatStatus
<1>5. H!HeatingEvent(f).type = "season" /\ H!HeatingEvent(f).mode = "none"
  BY BareWhat
<1> QED
  BY <1>4, <1>5, BehavesTrue

(* A half-known zone state, or the write of one, tells nothing. *)
LEMMA HalfStates ==
  /\ H!ZoneState(<< 1 >>) = H!NoEvent
  /\ H!ZoneState(<< 1, 9 >>) = H!NoEvent
  /\ H!ZoneState(<< 7, 1, 200 >>) = H!NoEvent
BY DEF H!ZoneState

HalfState(v) == Len(v) > 0 /\ H!ZoneState(v) = H!NoEvent

LEMMA NothingTrue ==
  ASSUME NEW v, HalfState(v), NEW f, NEW x, HeatReply(f, 7, v, x), NEW z, H!ZoneOf(x) = z, NEW n
  PROVE  HeatTrue(f, "nothing", z, n)
<1>4. f.where = x
  BY DEF HeatReply
<1>5. H!HeatingEvent(f) = H!NoEvent
  BY ZoneStateTells DEF HalfState
<1> QED
  BY <1>4, <1>5, BehavesTrue

LEMMA PassingTrue ==
  ASSUME NEW v, Len(v) > 0, NEW f, NEW x, HeatWrite(f, 7, v, x), NEW z, H!ZoneOf(x) = z, NEW n
  PROVE  HeatTrue(f, "nothing", z, n)
<1>4. f.where = x
  BY DEF HeatWrite
<1>5. H!HeatingEvent(f) = H!NoEvent
  BY WrittenState
<1> QED
  BY <1>4, <1>5, BehavesTrue


(* What the plant does, case by case: at is the bare zone. *)
LEMMA ZoneBehaves ==
  ASSUME HeatInv, H!Wire < HeatingWire, UNCHANGED commands, NEW z, ZoneNumber(z), H!Behave(z)
  PROVE  HeatInv'
<1> DEFINE at == H!Addr(FALSE, z, <<>>)
<1>a. H!ZoneOf(at) = z
  <2> DEFINE b == FALSE
             p == <<>>
  <2>1. b = FALSE
    OBVIOUS
  <2>2. at = H!Addr(b, z, p)
    OBVIOUS
  <2> HIDE DEF b, p, at
  <2> QED
    BY <2>1, <2>2, BareNumber
<1> DEFINE P1 == \E c, h \in 0 .. 8 : H!Tell(H!DimensionReply(4, at, 19, << c, h >>), "running", z, H!Runs(c) \/ H!Runs(h))
           P2 == \E zone \in {0, z}, n \in 0 .. 9 :
                   H!Tell(H!DimensionReply(4, H!Addr(FALSE, zone, << 1 >>), 20, << n >>), "running", zone, H!Runs(n))
           P3 == \E n \in 0 .. 3 : H!Tell(H!DimensionReply(4, at, 13, << n >>), "offset", z, n)
           P4 == \E n \in 1 .. 3 : H!Tell(H!DimensionReply(4, at, 13, << 10 + n >>), "offset", z, -n)
           P5 == H!Tell(H!DimensionReply(4, at, 11, << 15 >>), "running", z, FALSE)
           P6 == \E s \in {0, 1} : H!Tell(H!Status(4, s, <<>>, at), "season", z, s)
           P7 == \E v \in {<< 1 >>, << 1, 9 >>, << 7, 1, 200 >>} :
                   H!Tell(H!DimensionReply(4, at, 7, v), "nothing", z, 0)
           P8 == H!Tell(H!DimensionWriting(4, at, 7, << 1, 1, 200 >>), "nothing", z, 0)
<1>b. P1 \/ P2 \/ P3 \/ P4 \/ P5 \/ P6 \/ P7 \/ P8
  BY DEF H!Behave
<1> HIDE DEF at
<1>1. ASSUME P1 PROVE HeatInv'
  <2>1. PICK c \in 0 .. 8, h \in 0 .. 8 :
          H!Tell(H!DimensionReply(4, at, 19, << c, h >>), "running", z, H!Runs(c) \/ H!Runs(h))
    BY <1>1
  <2> DEFINE v == << c, h >>
             b == H!Runs(c) \/ H!Runs(h)
             f == H!DimensionReply(4, at, 19, v)
  <2>2. Len(v) = 2 /\ v[1] = c /\ v[2] = h
    OBVIOUS
  <2>3. H!Tell(f, "running", z, b)
    BY <2>1
  <2>4. HeatReply(f, 19, v, at)
    BY HeatFrames
  <2>5. b = (H!Runs(c) \/ H!Runs(h))
    OBVIOUS
  <2> HIDE DEF v, b, f
  <2>6. HeatTrue(f, "running", z, b)
    BY <1>a, <2>2, <2>4, <2>5, ValvesTrue
  <2> QED
    BY <2>3, <2>6, HeatTellsTruth
<1>2. ASSUME P2 PROVE HeatInv'
  <2>1. PICK zone \in {0, z}, n \in 0 .. 9 :
          H!Tell(H!DimensionReply(4, H!Addr(FALSE, zone, << 1 >>), 20, << n >>), "running", zone, H!Runs(n))
    BY <1>2
  <2> DEFINE no == FALSE
             p == << 1 >>
             x == H!Addr(no, zone, p)
             v == << n >>
             b == H!Runs(n)
             f == H!DimensionReply(4, x, 20, v)
  <2>2. Len(v) > 0 /\ v[1] = n
    OBVIOUS
  <2>3. H!Tell(f, "running", zone, b)
    BY <2>1
  <2>4. HeatReply(f, 20, v, x)
    BY HeatFrames
  <2>5. b = H!Runs(n) /\ no = FALSE /\ x = H!Addr(no, zone, p)
    OBVIOUS
  <2> HIDE DEF v, b, f, x, no, p
  <2>6. zone \in 0 .. 99
    BY DEF ZoneNumber
  <2>7. H!ZoneOf(x) = zone
    BY <2>5, <2>6, BareAt
  <2>8. HeatTrue(f, "running", zone, b)
    BY <2>2, <2>4, <2>5, <2>7, ActuatorTrue
  <2> QED
    BY <2>3, <2>8, HeatTellsTruth
<1>3. ASSUME P3 PROVE HeatInv'
  <2>1. PICK n \in 0 .. 3 : H!Tell(H!DimensionReply(4, at, 13, << n >>), "offset", z, n)
    BY <1>3
  <2> DEFINE v == << n >>
             f == H!DimensionReply(4, at, 13, v)
  <2>2. Len(v) > 0 /\ v[1] = n
    OBVIOUS
  <2>3. H!Tell(f, "offset", z, n)
    BY <2>1
  <2>4. HeatReply(f, 13, v, at)
    BY HeatFrames
  <2> HIDE DEF v, f
  <2>5. HeatTrue(f, "offset", z, n)
    BY <1>a, <2>2, <2>4, OffsetTrue
  <2> QED
    BY <2>3, <2>5, HeatTellsTruth
<1>4. ASSUME P4 PROVE HeatInv'
  <2>1. PICK n \in 1 .. 3 : H!Tell(H!DimensionReply(4, at, 13, << 10 + n >>), "offset", z, -n)
    BY <1>4
  <2> DEFINE k == 10 + n
             m == -n
             v == << k >>
             f == H!DimensionReply(4, at, 13, v)
  <2>2. Len(v) > 0 /\ v[1] = k
    OBVIOUS
  <2>3. H!Tell(f, "offset", z, m)
    BY <2>1
  <2>4. HeatReply(f, 13, v, at)
    BY HeatFrames
  <2>5. k = 10 + n /\ m = -n
    OBVIOUS
  <2> HIDE DEF v, f, k, m
  <2>6. HeatTrue(f, "offset", z, m)
    BY <1>a, <2>2, <2>4, <2>5, NegativeOffsetTrue
  <2> QED
    BY <2>3, <2>6, HeatTellsTruth
<1>5. ASSUME P5 PROVE HeatInv'
  <2> DEFINE b == FALSE
             v == << 15 >>
             f == H!DimensionReply(4, at, 11, v)
  <2>2. Len(v) > 0 /\ v[1] = 15 /\ b = FALSE
    OBVIOUS
  <2>3. H!Tell(f, "running", z, b)
    BY <1>5
  <2>4. HeatReply(f, 11, v, at)
    BY HeatFrames
  <2> HIDE DEF v, f, b
  <2>5. HeatTrue(f, "running", z, b)
    BY <1>a, <2>2, <2>4, StoppedFanTrue
  <2> QED
    BY <2>3, <2>5, HeatTellsTruth
<1>6. ASSUME P6 PROVE HeatInv'
  <2>1. PICK s \in {0, 1} : H!Tell(H!Status(4, s, <<>>, at), "season", z, s)
    BY <1>6
  <2>2. HeatStatus(H!Status(4, s, <<>>, at), s, <<>>, at)
    BY HeatFrames
  <2>3. HeatTrue(H!Status(4, s, <<>>, at), "season", z, s)
    BY <1>a, <2>2, SeasonTrue
  <2> QED
    BY <2>1, <2>3, HeatTellsTruth
<1>7. ASSUME P7 PROVE HeatInv'
  <2>1. PICK v \in {<< 1 >>, << 1, 9 >>, << 7, 1, 200 >>} : H!Tell(H!DimensionReply(4, at, 7, v), "nothing", z, 0)
    BY <1>7
  <2>2. HalfState(<< 1 >>) /\ HalfState(<< 1, 9 >>) /\ HalfState(<< 7, 1, 200 >>)
    BY HalfStates DEF HalfState
  <2>3. HalfState(v)
    BY <2>2
  <2>4. HeatReply(H!DimensionReply(4, at, 7, v), 7, v, at)
    BY HeatFrames
  <2>5. HeatTrue(H!DimensionReply(4, at, 7, v), "nothing", z, 0)
    BY <1>a, <2>3, <2>4, NothingTrue
  <2> QED
    BY <2>1, <2>5, HeatTellsTruth
<1>8. ASSUME P8 PROVE HeatInv'
  <2> DEFINE v == << 1, 1, 200 >>
             f == H!DimensionWriting(4, at, 7, v)
  <2>2. Len(v) > 0
    OBVIOUS
  <2>3. H!Tell(f, "nothing", z, 0)
    BY <1>8
  <2>4. HeatWrite(f, 7, v, at)
    BY HeatFrames
  <2> HIDE DEF v, f
  <2>5. HeatTrue(f, "nothing", z, 0)
    BY <1>a, <2>2, <2>4, PassingTrue
  <2> QED
    BY <2>3, <2>5, HeatTellsTruth
<1> HIDE DEF P1, P2, P3, P4, P5, P6, P7, P8
<1> QED
  BY <1>b, <1>1, <1>2, <1>3, <1>4, <1>5, <1>6, <1>7, <1>8

LEMMA ZoneSenses ==
  ASSUME FamiliesAssumption, HeatInv, H!Sense
  PROVE  HeatInv'
<1>1. H!Wire < HeatingWire /\ UNCHANGED commands
  BY DEF H!Sense
<1>2. PICK z \in {w.n : w \in HeatingWheres} \ {0} : H!Measure(z) \/ H!Behave(z)
  BY DEF H!Sense
<1>3. PICK w \in HeatingWheres : z = w.n /\ z # 0
  BY <1>2
<1>4. ZoneNumber(z)
  BY <1>3, WheresAre DEF HeatWhere, ZoneNumber
<1> QED
  BY <1>1, <1>2, <1>4, ZoneMeasures, ZoneBehaves

LEMMA HeatStep ==
  ASSUME FamiliesAssumption, HeatInv, H!Next
  PROVE  HeatInv'
<1>1. CASE \E w \in HeatingWheres : H!CommandZone(w) \/ H!CommandCentral(w) \/ H!Announce(w)
  BY <1>1, ZoneCommands, UnitCommands, ZoneAnnounces
<1> QED
  BY <1>1, HeatAnswers, ZoneSenses, HeatTakes DEF H!Next


(******************************* Lighting ********************************)

(* The registry. *)
LEMMA LightIs ==
  ASSUME NEW d \in L!Lights
  PROVE  d = << d[1], d[2] >> /\ d[1] \in L!Gateways /\ d[2] \in LightWheres
BY DEF L!Lights

LEMMA SameLight ==
  ASSUME NEW d \in L!Lights, NEW e, << e[1], e[2] >> = e, e[1] = d[1], e[2] = d[2]
  PROVE  e = d
BY LightIs

(* What the registry holds, and what it says of a dimmer that has reported. *)
LightKeys == (L!Gateways \cup {NoGateway}) \X LightWheres
RegistryOk(r) == DOMAIN r \subseteq LightKeys /\ \A e \in DOMAIN r : r[e] \in BOOLEAN
Taught(r, l, d) ==
  /\ l[d] # "unknown" => d \in DOMAIN r /\ r[d] = (l[d] = "coarse")
  /\ l[d] = "unknown" => d \notin DOMAIN r
Notes == {"unknown", "coarse", "fine"}

LEMMA RegistryStarts == RegistryOk(<<>>)
<1>1. DOMAIN <<>> = {}
  BY QueueEmpty
<1> QED
  BY <1>1 DEF RegistryOk

LEMMA CoarseIsKnown ==
  ASSUME RegistryOk(registry), NEW w, NEW key
  PROVE  L!IsCoarse(w, key) \in BOOLEAN
<1> DEFINE k == << key, w >>
           n == << NoGateway, w >>
<1>1. k \in DOMAIN registry => registry[k] \in BOOLEAN
  BY DEF RegistryOk
<1>2. n \in DOMAIN registry => registry[n] \in BOOLEAN
  BY DEF RegistryOk
<1> DEFINE scoped == {e \in DOMAIN registry : e[1] # NoGateway /\ e[2] = w}
           all == scoped # {} /\ \A e \in scoped : registry[e]
           some == n \in DOMAIN registry /\ registry[n]
<1>3. L!IsCoarse(w, key) = IF k \in DOMAIN registry THEN registry[k]
                           ELSE IF key # NoGateway THEN some ELSE all
  BY DEF L!IsCoarse
<1>4. all \in BOOLEAN
  OBVIOUS
<1>5. some \in BOOLEAN
  OBVIOUS
<1> HIDE DEF all, some, k, n
<1> QED
  BY <1>1, <1>3, <1>4, <1>5

LEMMA CoarseWhenTaught ==
  ASSUME NEW d \in L!Lights, d \in DOMAIN registry
  PROVE  L!IsCoarse(d[2], d[1]) = registry[d]
<1>1. << d[1], d[2] >> = d
  BY LightIs
<1> DEFINE k == << d[1], d[2] >>
           some == << NoGateway, d[2] >> \in DOMAIN registry /\ registry[<< NoGateway, d[2] >>]
           scoped == {e \in DOMAIN registry : e[1] # NoGateway /\ e[2] = d[2]}
           all == scoped # {} /\ \A e \in scoped : registry[e]
<1>2. L!IsCoarse(d[2], d[1]) = IF k \in DOMAIN registry THEN registry[k]
                               ELSE IF d[1] # NoGateway THEN some ELSE all
  BY DEF L!IsCoarse
<1>3. k = d
  BY <1>1
<1> HIDE DEF k, some, all
<1> QED
  BY <1>2, <1>3

(* A dimmer is taken for a coarse one where it told so, or was registered.  *)
LEMMA CoarseIsPlaced ==
  ASSUME NEW d \in L!Lights, NoGateway \notin L!Gateways, Taught(registry, learned, d), learned[d] \in Notes,
         L!IsCoarse(d[2], d[1])
  PROVE  L!Misplaced(d)
<1>1. << d[1], d[2] >> = d /\ d[1] # NoGateway
  BY LightIs
<1> DEFINE k == << d[1], d[2] >>
           some == << NoGateway, d[2] >> \in DOMAIN registry /\ registry[<< NoGateway, d[2] >>]
           scoped == {e \in DOMAIN registry : e[1] # NoGateway /\ e[2] = d[2]}
           all == scoped # {} /\ \A e \in scoped : registry[e]
<1>2. L!IsCoarse(d[2], d[1]) = IF k \in DOMAIN registry THEN registry[k]
                               ELSE IF d[1] # NoGateway THEN some ELSE all
  BY DEF L!IsCoarse
<1>3. k = d
  BY <1>1
<1>4. L!Misplaced(d) = (learned[d] = "coarse" \/ (learned[d] = "unknown" /\ some))
  BY DEF L!Misplaced
<1> HIDE DEF k, some, all
<1>5. CASE learned[d] = "unknown"
  <2>1. d \notin DOMAIN registry
    BY <1>5 DEF Taught
  <2>2. some
    BY <1>1, <1>2, <1>3, <2>1
  <2> QED
    BY <1>4, <1>5, <2>2
<1>6. CASE learned[d] # "unknown"
  <2>1. d \in DOMAIN registry /\ registry[d] = (learned[d] = "coarse")
    BY <1>6 DEF Taught
  <2>2. registry[d]
    BY <1>2, <1>3, <2>1
  <2>3. learned[d] = "coarse"
    BY <2>1, <2>2
  <2> QED
    BY <1>4, <2>3
<1> QED
  BY <1>5, <1>6

LEMMA Registering ==
  ASSUME RegistryOk(registry), NEW w \in LightWheres, NEW key \in L!Gateways \cup {NoGateway}, NEW is \in BOOLEAN,
         NEW r, r = L!Registered(w, key, is)
  PROVE  /\ RegistryOk(r) /\ DOMAIN r = DOMAIN registry \cup {<< key, w >>}
         /\ r[<< key, w >>] = is
         /\ \A e \in DOMAIN registry : e # << key, w >> => r[e] = registry[e]
<1> DEFINE k == << key, w >>
<1>1. r = [e \in DOMAIN registry \cup {k} |-> IF e = k THEN is ELSE registry[e]]
  BY DEF L!Registered
<1>2. k \in LightKeys
  BY DEF LightKeys
<1> HIDE DEF k
<1>3. DOMAIN r = DOMAIN registry \cup {k} /\ r[k] = is /\ \A e \in DOMAIN registry : e # k => r[e] = registry[e]
  BY <1>1
<1>4. RegistryOk(r)
  BY <1>1, <1>2, <1>3 DEF RegistryOk
<1> QED
  BY <1>3, <1>4 DEF k


(* The frames, and what their events say. *)
LightStatus(f, what) == f.type = "STATUS" /\ f.what = what /\ f.dim = L!Null
LightReply(f, dim, v) == f.type = "DIMENSION_REQUEST_REPLY" /\ f.dim = dim /\ f.val = v
LightWrite(f, dim, v) == f.type = "DIMENSION_WRITING" /\ f.dim = dim /\ f.val = v
LightAsk(f) == f.type = "DIMENSION_REQUEST"

LEMMA LightFrames ==
  ASSUME NEW a, NEW v, NEW w
  PROVE  /\ LightStatus(L!Status(1, a, v, w), a)
         /\ LightReply(L!DimensionReply(1, w, a, v), a, v)
         /\ LightWrite(L!DimensionWriting(1, w, a, v), a, v)
         /\ LightAsk(L!DimensionRequest(1, w, a))
BY DEF LightStatus, LightReply, LightWrite, LightAsk, L!Status, L!DimensionReply, L!DimensionWriting,
       L!DimensionRequest, L!Frame

InState(s) == [L!NoEvent EXCEPT !.state = s]
Bright(s, b) == [InState(s) EXCEPT !.brightness = b]
Timed(s, t) == [InState(s) EXCEPT !.timer = t]
Blinking(s, b) == [InState(s) EXCEPT !.blinker = b]
Quiet(s, q) == [InState(s) EXCEPT !.quiet = q]
Silent(q) == [L!NoEvent EXCEPT !.quiet = q]
Level(b, s) == [L!NoEvent EXCEPT !.brightness = b, !.state = s]
Timing(t) == [L!NoEvent EXCEPT !.timer = t]
Coloured(c) == [L!NoEvent EXCEPT !.colour = c]

LEMMA InStateIs ==
  ASSUME NEW s
  PROVE  InState(s).state = s /\ InState(s).brightness = L!Null /\ InState(s).quiet = FALSE
BY DEF InState, L!NoEvent

LEMMA BrightIs ==
  ASSUME NEW s, NEW b
  PROVE  Bright(s, b).state = s /\ Bright(s, b).brightness = b /\ Bright(s, b).quiet = FALSE
BY DEF Bright, InState, L!NoEvent

LEMMA TimedIs ==
  ASSUME NEW s, NEW b
  PROVE  Timed(s, b).state = s /\ Timed(s, b).timer = b /\ Timed(s, b).quiet = FALSE
BY DEF Timed, InState, L!NoEvent

LEMMA BlinkingIs ==
  ASSUME NEW s, NEW b
  PROVE  Blinking(s, b).state = s /\ Blinking(s, b).blinker = b /\ Blinking(s, b).quiet = FALSE
BY DEF Blinking, InState, L!NoEvent

LEMMA QuietIs ==
  ASSUME NEW s, NEW q
  PROVE  Quiet(s, q).quiet = q /\ Quiet(s, q).brightness = L!Null
BY DEF Quiet, InState, L!NoEvent

LEMMA SilentIs ==
  ASSUME NEW q
  PROVE  Silent(q).state = L!Null /\ Silent(q).brightness = L!Null
BY DEF Silent, L!NoEvent

LEMMA LevelIs ==
  ASSUME NEW s, NEW b
  PROVE  Level(b, s).brightness = b /\ Level(b, s).state = s /\ Level(b, s).quiet = FALSE
BY DEF Level, L!NoEvent

LEMMA LightToldIs ==
  ASSUME NEW c
  PROVE  Timing(c).timer = c /\ Coloured(c).colour = c
BY DEF Timing, Coloured, L!NoEvent

LEMMA NothingSaid == L!NoEvent.state = L!Null /\ L!NoEvent.brightness = L!Null
BY DEF L!NoEvent

LEMMA WhatArms ==
  ASSUME NEW k
  PROVE  /\ L!EventOfWhat(0, k) = InState(0)
         /\ \A what \in 2 .. 10 : L!EventOfWhat(what, k) = Bright(what, IF k THEN L!PresetToPercent[what] ELSE L!Null)
         /\ \A what \in 11 .. 18 : L!EventOfWhat(what, k) = Timed(what, L!FixedTimer[what])
         /\ \A what \in 20 .. 29 : L!EventOfWhat(what, k) = Blinking(what, what - 19)
         /\ \A what \in {34, 39} : L!EventOfWhat(what, k) = Quiet(what, TRUE)
         /\ \A what \in {19, 55} : L!EventOfWhat(what, k) = Silent(what = 19)
<1>1. L!EventOfWhat(0, k) = InState(0)
  BY DEF L!EventOfWhat, InState
<1>2. \A what \in 2 .. 10 : L!EventOfWhat(what, k) = Bright(what, IF k THEN L!PresetToPercent[what] ELSE L!Null)
  BY DEF L!EventOfWhat, InState, Bright
<1>3. \A what \in 11 .. 18 : L!EventOfWhat(what, k) = Timed(what, L!FixedTimer[what])
  BY DEF L!EventOfWhat, InState, Timed
<1>4. \A what \in 20 .. 29 : L!EventOfWhat(what, k) = Blinking(what, what - 19)
  BY DEF L!EventOfWhat, InState, Blinking
<1>5. \A what \in {34, 39} : L!EventOfWhat(what, k) = Quiet(what, TRUE)
  BY DEF L!EventOfWhat, InState, Quiet
<1>6. \A what \in {19, 55} : L!EventOfWhat(what, k) = Silent(what = 19)
  BY DEF L!EventOfWhat, Silent
<1> QED
  BY <1>1, <1>2, <1>3, <1>4, <1>5, <1>6

LEMMA OnWhen ==
  ASSUME NEW e
  PROVE  /\ e.state = 0 /\ e.quiet = FALSE => L!IsOn(e) = "off"
         /\ e.state \in 1 .. 31 /\ e.quiet = FALSE => L!IsOn(e) = "on"
         /\ e.state = L!Null \/ e.quiet => L!IsOn(e) = "unknown"
<1>1. e.state = 0 /\ e.quiet = FALSE => L!IsOn(e) = "off"
  BY DEF L!IsOn, L!Null
<1>2. e.state \in 1 .. 31 /\ e.quiet = FALSE => L!IsOn(e) = "on"
  BY DEF L!IsOn, L!Null
<1>3. e.state = L!Null \/ e.quiet => L!IsOn(e) = "unknown"
  BY DEF L!IsOn
<1> QED
  BY <1>1, <1>2, <1>3

LEMMA WhatSays ==
  ASSUME NEW what, NEW k, NEW e, e = L!EventOfWhat(what, k)
  PROVE  /\ what = 0 => L!IsOn(e) = "off" /\ e.brightness = L!Null
         /\ what \in 2 .. 10 => /\ L!IsOn(e) = "on"
                                /\ e.brightness = IF k THEN L!PresetToPercent[what] ELSE L!Null
         /\ what \in 11 .. 18 => L!IsOn(e) = "on" /\ e.timer = L!FixedTimer[what]
         /\ what \in 20 .. 29 => L!IsOn(e) = "on" /\ e.blinker = what - 19
         /\ what \in {19, 34, 39, 55} => L!IsOn(e) = "unknown" /\ e.brightness = L!Null
<1>0. e = L!EventOfWhat(what, k)
  OBVIOUS
<1>1. ASSUME what = 0 PROVE L!IsOn(e) = "off" /\ e.brightness = L!Null
  <2>1. e = InState(0)
    BY <1>0, <1>1, WhatArms
  <2> QED
    BY <2>1, InStateIs, OnWhen
<1>2. ASSUME what \in 2 .. 10
      PROVE  L!IsOn(e) = "on" /\ e.brightness = IF k THEN L!PresetToPercent[what] ELSE L!Null
  <2> DEFINE b == IF k THEN L!PresetToPercent[what] ELSE L!Null
  <2>1. e = Bright(what, b)
    <3>1. L!EventOfWhat(what, k) = Bright(what, b)
      BY <1>2, WhatArms
    <3> QED
      BY <1>0, <3>1
  <2> HIDE DEF b
  <2>2. e.state = what /\ e.quiet = FALSE /\ e.brightness = b
    <3>1. Bright(what, b).state = what /\ Bright(what, b).quiet = FALSE /\ Bright(what, b).brightness = b
      BY BrightIs
    <3> QED
      BY <2>1, <3>1
  <2>3. what \in 1 .. 31
    BY <1>2
  <2> QED
    BY <2>2, <2>3, OnWhen DEF b
<1>3. ASSUME what \in 11 .. 18 PROVE L!IsOn(e) = "on" /\ e.timer = L!FixedTimer[what]
  <2>1. e = Timed(what, L!FixedTimer[what])
    BY <1>0, <1>3, WhatArms
  <2>2. e.state = what /\ e.quiet = FALSE /\ e.timer = L!FixedTimer[what]
    <3> DEFINE b == L!FixedTimer[what]
    <3> HIDE DEF b
    <3>1. Timed(what, b).state = what /\ Timed(what, b).quiet = FALSE /\ Timed(what, b).timer = b
      BY TimedIs
    <3> QED
      BY <2>1, <3>1 DEF b
  <2>3. what \in 1 .. 31
    BY <1>3
  <2> QED
    BY <2>2, <2>3, OnWhen
<1>4. ASSUME what \in 20 .. 29 PROVE L!IsOn(e) = "on" /\ e.blinker = what - 19
  <2> DEFINE b == what - 19
  <2>1. e = Blinking(what, b)
    BY <1>0, <1>4, WhatArms
  <2> HIDE DEF b
  <2>2. e.state = what /\ e.quiet = FALSE /\ e.blinker = b
    <3>1. Blinking(what, b).state = what /\ Blinking(what, b).quiet = FALSE /\ Blinking(what, b).blinker = b
      BY BlinkingIs
    <3> QED
      BY <2>1, <3>1
  <2>3. what \in 1 .. 31
    BY <1>4
  <2> QED
    BY <2>2, <2>3, OnWhen DEF b
<1>5. ASSUME what \in {34, 39} PROVE L!IsOn(e) = "unknown" /\ e.brightness = L!Null
  <2> DEFINE q == TRUE
  <2>1. e = Quiet(what, q)
    BY <1>0, <1>5, WhatArms
  <2>0. q = TRUE
    OBVIOUS
  <2> HIDE DEF q
  <2>2. e.quiet /\ e.brightness = L!Null
    BY <2>0, <2>1, QuietIs
  <2> QED
    BY <2>2, OnWhen
<1>6. ASSUME what \in {19, 55} PROVE L!IsOn(e) = "unknown" /\ e.brightness = L!Null
  <2> DEFINE q == what = 19
  <2>1. e = Silent(q)
    BY <1>0, <1>6, WhatArms
  <2> HIDE DEF q
  <2> QED
    BY <2>1, SilentIs, OnWhen
<1> QED
  BY <1>1, <1>2, <1>3, <1>4, <1>5, <1>6

LEMMA StatusEvent ==
  ASSUME NEW f, NEW what, LightStatus(f, what), NEW k
  PROVE  L!LightingEvent(f, k) = L!EventOfWhat(what, k)
BY DEF L!LightingEvent, LightStatus

LEMMA DimensionSays ==
  ASSUME NEW f, NEW dim, NEW v, LightReply(f, dim, v), NEW k, NEW e, e = L!LightingEvent(f, k)
  PROVE  /\ dim = 1 => e = Level(v[1] - 100, IF v[1] = 100 THEN 0 ELSE 1)
         /\ dim = 2 => e = Timing(2 * (v[1] * 3600 + v[2] * 60 + v[3]))
         /\ dim = 12 => e = Coloured(IF Len(v) >= 3 /\ v[1] \in 0 .. 360 /\ v[2] \in 0 .. 100 /\ v[3] \in 0 .. 100
                                     THEN v ELSE <<>>)
         /\ dim = 14 => e = Coloured(IF v[1] = 1 THEN <<>> ELSE v)
         /\ dim \in {5, 6, 7} => e = L!NoEvent
<1>0. e = L!EventOfDimension(dim, v)
  BY DEF L!LightingEvent, LightReply
<1>1. dim = 1 => e = Level(v[1] - 100, IF v[1] = 100 THEN 0 ELSE 1)
  BY <1>0 DEF L!EventOfDimension, Level
<1>2. dim = 2 => e = Timing(2 * (v[1] * 3600 + v[2] * 60 + v[3]))
  BY <1>0 DEF L!EventOfDimension, Timing
<1>3. dim = 12 => e = Coloured(IF Len(v) >= 3 /\ v[1] \in 0 .. 360 /\ v[2] \in 0 .. 100 /\ v[3] \in 0 .. 100
                               THEN v ELSE <<>>)
  BY <1>0 DEF L!EventOfDimension, Coloured
<1>4. dim = 14 => e = Coloured(IF v[1] = 1 THEN <<>> ELSE v)
  BY <1>0 DEF L!EventOfDimension, Coloured
<1>5. dim \in {5, 6, 7} => e = L!NoEvent
  BY <1>0 DEF L!EventOfDimension
<1> QED
  BY <1>1, <1>2, <1>3, <1>4, <1>5


(* What a report says of a light is true, however it is decoded. *)
IsWant(t, kind, n) == t.kind = kind /\ t.n = n
LightTells(r) ==
  /\ L!TellsSpeed(r.f) => L!SpeedIsCoarse(r.f) = r.coarse
  /\ \A k \in BOOLEAN : L!Truthful(r, k)

LEMMA WantIs ==
  ASSUME NEW kind, NEW n
  PROVE  IsWant(L!Want(kind, n), kind, n)
BY DEF IsWant, L!Want

LEMMA LevelTrue ==
  ASSUME NEW r, NEW k, NEW n, IsWant(r.truth, "level", n),
         n = 0 => L!IsOn(L!LightingEvent(r.f, k)) = "off",
         n # 0 => L!IsOn(L!LightingEvent(r.f, k)) = "on",
         L!LightingEvent(r.f, k).brightness \in {L!Null, n} \/ (k /\ ~r.coarse)
  PROVE  L!Truthful(r, k)
BY DEF L!Truthful, IsWant

LEMMA TimerTrue ==
  ASSUME NEW r, NEW k, NEW n, IsWant(r.truth, "timer", n),
         L!IsOn(L!LightingEvent(r.f, k)) = "on", L!LightingEvent(r.f, k).timer = n
  PROVE  L!Truthful(r, k)
BY DEF L!Truthful, IsWant

LEMMA BlinkTrue ==
  ASSUME NEW r, NEW k, NEW n, IsWant(r.truth, "blink", n),
         L!IsOn(L!LightingEvent(r.f, k)) = "on", L!LightingEvent(r.f, k).blinker = n
  PROVE  L!Truthful(r, k)
BY DEF L!Truthful, IsWant

LEMMA TimeTrue ==
  ASSUME NEW r, NEW k, NEW n, IsWant(r.truth, "time", n),
         L!LightingEvent(r.f, k).timer = 2 * (3600 * n[1] + 60 * n[2] + n[3])
  PROVE  L!Truthful(r, k)
BY DEF L!Truthful, IsWant

LEMMA ColourTrue ==
  ASSUME NEW r, NEW k, NEW n, IsWant(r.truth, "colour", n), L!LightingEvent(r.f, k).colour = n
  PROVE  L!Truthful(r, k)
BY DEF L!Truthful, IsWant

LEMMA NoneTrue ==
  ASSUME NEW r, NEW k, NEW n, IsWant(r.truth, "none", n),
         L!IsOn(L!LightingEvent(r.f, k)) = "unknown", L!LightingEvent(r.f, k).brightness = L!Null
  PROVE  L!Truthful(r, k)
BY DEF L!Truthful, IsWant

LEMMA StatusIsNoSpeed ==
  ASSUME NEW f, NEW what, LightStatus(f, what)
  PROVE  ~L!TellsSpeed(f)
BY DEF LightStatus, L!TellsSpeed, L!Null

LEMMA ReplyIsNoSpeed ==
  ASSUME NEW f, NEW dim, NEW v, LightReply(f, dim, v), dim \notin {1, 4}
  PROVE  ~L!TellsSpeed(f)
BY DEF LightReply, L!TellsSpeed

LEMMA OffTells ==
  ASSUME NEW r, LightStatus(r.f, 0), NEW n, n = 0, IsWant(r.truth, "level", n)
  PROVE  LightTells(r)
<1>1. ASSUME NEW k \in BOOLEAN PROVE L!Truthful(r, k)
  <2>1. L!LightingEvent(r.f, k) = L!EventOfWhat(0, k)
    BY StatusEvent
  <2>2. L!IsOn(L!EventOfWhat(0, k)) = "off" /\ L!EventOfWhat(0, k).brightness = L!Null
    BY WhatSays
  <2> QED
    BY <2>1, <2>2, LevelTrue
<1>2. ~L!TellsSpeed(r.f)
  BY StatusIsNoSpeed
<1> QED
  BY <1>1, <1>2 DEF LightTells

(* The level a preset stands for. *)
PresetLevel(p, co, n) == (co => n = L!PresetToPercent[p]) /\ (~co => n = 10 * p)

LEMMA PresetsArePositive == \A p \in 2 .. 10 : L!PresetToPercent[p] \in 1 .. 100
BY DEF L!PresetToPercent

LEMMA PresetLevelIs ==
  ASSUME NEW p, p \in 2 .. 10, NEW co \in BOOLEAN, NEW n, PresetLevel(p, co, n)
  PROVE  n \in 1 .. 100
BY PresetsArePositive DEF PresetLevel

LEMMA PresetTells ==
  ASSUME NEW r, NEW p, LightStatus(r.f, p), p \in 2 .. 10, r.coarse \in BOOLEAN,
         NEW n, PresetLevel(p, r.coarse, n), IsWant(r.truth, "level", n)
  PROVE  LightTells(r)
<1>0. n # 0
  BY PresetLevelIs
<1>1. ASSUME NEW k \in BOOLEAN PROVE L!Truthful(r, k)
  <2>1. L!LightingEvent(r.f, k) = L!EventOfWhat(p, k)
    BY StatusEvent
  <2>2. /\ L!IsOn(L!EventOfWhat(p, k)) = "on"
        /\ L!EventOfWhat(p, k).brightness = IF k THEN L!PresetToPercent[p] ELSE L!Null
    BY WhatSays
  <2>3. L!EventOfWhat(p, k).brightness \in {L!Null, n} \/ (k /\ ~r.coarse)
    <3>1. CASE ~k
      BY <2>2, <3>1
    <3>2. CASE k /\ r.coarse
      BY <2>2, <3>2 DEF PresetLevel
    <3> QED
      BY <3>1, <3>2
  <2> QED
    BY <1>0, <2>1, <2>2, <2>3, LevelTrue
<1>2. ~L!TellsSpeed(r.f)
  BY StatusIsNoSpeed
<1> QED
  BY <1>1, <1>2 DEF LightTells

LEMMA TimedTells ==
  ASSUME NEW r, NEW p, LightStatus(r.f, p), p \in 11 .. 18, IsWant(r.truth, "timer", L!FixedTimer[p])
  PROVE  LightTells(r)
<1>1. ASSUME NEW k \in BOOLEAN PROVE L!Truthful(r, k)
  <2>1. L!LightingEvent(r.f, k) = L!EventOfWhat(p, k)
    BY StatusEvent
  <2>2. L!IsOn(L!EventOfWhat(p, k)) = "on" /\ L!EventOfWhat(p, k).timer = L!FixedTimer[p]
    BY WhatSays
  <2> QED
    BY <2>1, <2>2, TimerTrue
<1>2. ~L!TellsSpeed(r.f)
  BY StatusIsNoSpeed
<1> QED
  BY <1>1, <1>2 DEF LightTells

LEMMA BlinkTells ==
  ASSUME NEW r, NEW p, LightStatus(r.f, p), p \in 20 .. 29, IsWant(r.truth, "blink", p - 19)
  PROVE  LightTells(r)
<1>1. ASSUME NEW k \in BOOLEAN PROVE L!Truthful(r, k)
  <2>1. L!LightingEvent(r.f, k) = L!EventOfWhat(p, k)
    BY StatusEvent
  <2>2. L!IsOn(L!EventOfWhat(p, k)) = "on" /\ L!EventOfWhat(p, k).blinker = p - 19
    BY WhatSays
  <2> QED
    BY <2>1, <2>2, BlinkTrue
<1>2. ~L!TellsSpeed(r.f)
  BY StatusIsNoSpeed
<1> QED
  BY <1>1, <1>2 DEF LightTells

LEMMA FaultTells ==
  ASSUME NEW r, NEW p, LightStatus(r.f, p), p \in {19, 34, 39, 55}, NEW n, IsWant(r.truth, "none", n)
  PROVE  LightTells(r)
<1>1. ASSUME NEW k \in BOOLEAN PROVE L!Truthful(r, k)
  <2>1. L!LightingEvent(r.f, k) = L!EventOfWhat(p, k)
    BY StatusEvent
  <2>2. L!IsOn(L!EventOfWhat(p, k)) = "unknown" /\ L!EventOfWhat(p, k).brightness = L!Null
    BY WhatSays
  <2> QED
    BY <2>1, <2>2, NoneTrue
<1>2. ~L!TellsSpeed(r.f)
  BY StatusIsNoSpeed
<1> QED
  BY <1>1, <1>2 DEF LightTells

LEMMA SensorTells ==
  ASSUME NEW r, NEW p, NEW v, LightReply(r.f, p, v), p \in {5, 6, 7}, NEW n, IsWant(r.truth, "none", n)
  PROVE  LightTells(r)
<1>1. ASSUME NEW k \in BOOLEAN PROVE L!Truthful(r, k)
  <2>1. L!LightingEvent(r.f, k) = L!NoEvent
    BY DimensionSays
  <2>2. L!IsOn(L!NoEvent) = "unknown" /\ L!NoEvent.brightness = L!Null
    BY NothingSaid, OnWhen
  <2> QED
    BY <2>1, <2>2, NoneTrue
<1>2. ~L!TellsSpeed(r.f)
  BY ReplyIsNoSpeed
<1> QED
  BY <1>1, <1>2 DEF LightTells

LEMMA TimeTells ==
  ASSUME NEW r, NEW v, LightReply(r.f, 2, v), v[1] \in Int, v[2] \in Int, v[3] \in Int, IsWant(r.truth, "time", v)
  PROVE  LightTells(r)
<1>1. ASSUME NEW k \in BOOLEAN PROVE L!Truthful(r, k)
  <2> DEFINE t == 2 * (v[1] * 3600 + v[2] * 60 + v[3])
  <2>1. L!LightingEvent(r.f, k) = Timing(t)
    BY DimensionSays
  <2>2. t = 2 * (3600 * v[1] + 60 * v[2] + v[3])
    OBVIOUS
  <2> HIDE DEF t
  <2>3. Timing(t).timer = t
    BY LightToldIs
  <2>4. L!LightingEvent(r.f, k).timer = t
    BY <2>1, <2>3
  <2> QED
    BY <2>2, <2>4, TimeTrue
<1>2. ~L!TellsSpeed(r.f)
  BY ReplyIsNoSpeed
<1> QED
  BY <1>1, <1>2 DEF LightTells

(* A colour a light may be given. *)
IsHsv(v) == Len(v) = 3 /\ v[1] \in 0 .. 359 /\ v[2] \in 0 .. 100 /\ v[3] \in 0 .. 100
IsMireds(v) == v[1] \in 50 .. 1000

LEMMA ColourTells ==
  ASSUME NEW r, NEW p, NEW v, LightReply(r.f, p, v), (p = 12 /\ IsHsv(v)) \/ (p = 14 /\ IsMireds(v)),
         IsWant(r.truth, "colour", v)
  PROVE  LightTells(r)
<1>1. ASSUME NEW k \in BOOLEAN PROVE L!Truthful(r, k)
  <2>1. L!LightingEvent(r.f, k) = Coloured(v)
    <3>1. CASE p = 12 /\ IsHsv(v)
      <4>1. Len(v) >= 3 /\ v[1] \in 0 .. 360 /\ v[2] \in 0 .. 100 /\ v[3] \in 0 .. 100
        BY <3>1 DEF IsHsv
      <4> QED
        BY <3>1, <4>1, DimensionSays
    <3>2. CASE p = 14 /\ IsMireds(v)
      <4>1. v[1] # 1
        BY <3>2 DEF IsMireds
      <4> QED
        BY <3>2, <4>1, DimensionSays
    <3> QED
      BY <3>1, <3>2
  <2>2. Coloured(v).colour = v
    BY LightToldIs
  <2> QED
    BY <2>1, <2>2, ColourTrue
<1>2. ~L!TellsSpeed(r.f)
  BY ReplyIsNoSpeed
<1> QED
  BY <1>1, <1>2 DEF LightTells

(* The speed a dimmer reports with its level. *)
TheSpeed(s, co) == (co => s = L!DIMMER_SPEED_COARSE_ONLY) /\ (~co => s = 2)
LevelTold(v, n) == Len(v) = 2 /\ v[1] = n + 100

LEMMA LevelTells ==
  ASSUME NEW r, NEW v, LightReply(r.f, 1, v), NEW n, n \in 0 .. 100, LevelTold(v, n), r.coarse \in BOOLEAN,
         TheSpeed(v[2], r.coarse), IsWant(r.truth, "level", n)
  PROVE  LightTells(r)
<1>1. ASSUME NEW k \in BOOLEAN PROVE L!Truthful(r, k)
  <2> DEFINE b == v[1] - 100
             s == IF v[1] = 100 THEN 0 ELSE 1
  <2>1. L!LightingEvent(r.f, k) = Level(b, s)
    BY DimensionSays
  <2>2. b = n /\ (n = 0 => s = 0) /\ (n # 0 => s \in 1 .. 31)
    BY DEF LevelTold
  <2> HIDE DEF b, s
  <2>3. Level(b, s).brightness = b /\ Level(b, s).state = s /\ Level(b, s).quiet = FALSE
    BY LevelIs
  <2>4. /\ n = 0 => L!IsOn(Level(b, s)) = "off"
        /\ n # 0 => L!IsOn(Level(b, s)) = "on"
    BY <2>2, <2>3, OnWhen
  <2> QED
    BY <2>1, <2>2, <2>3, <2>4, LevelTrue
<1>2. L!TellsSpeed(r.f) => L!SpeedIsCoarse(r.f) = r.coarse
  <2>1. r.f.val = v
    BY DEF LightReply
  <2> QED
    BY <2>1 DEF L!SpeedIsCoarse, TheSpeed, L!DIMMER_SPEED_COARSE_ONLY
<1> QED
  BY <1>1, <1>2 DEF LightTells


(* What a light does with a command, sort by sort, and what it reports.    *)
LEMMA ClampIs ==
  ASSUME NEW low, NEW high, low \in Int, high \in Int, low <= high, NEW n, n \in Int
  PROVE  /\ L!Clamp(low, high, n) \in low .. high
         /\ n \in low .. high => L!Clamp(low, high, n) = n
BY DEF L!Clamp

LightCarried(d, f, n) == L!Obeyed(d, f) = n
LightSaid(d, f, g, t) == L!Report(d, f).f = g /\ L!Report(d, f).truth = t

LEMMA Spoken ==
  ASSUME NEW d, NEW f, NEW g, NEW t, L!Report(d, f) = [f |-> g, truth |-> t]
  PROVE  LightSaid(d, f, g, t)
BY DEF LightSaid

LEMMA OffCarried ==
  ASSUME NEW d, NEW f, LightStatus(f, 0)
  PROVE  /\ LightCarried(d, f, 0)
         /\ LightSaid(d, f, L!Status(1, 0, <<>>, d[2]), L!Want("level", 0))
<1>1. f.type = "STATUS" /\ f.what = 0
  BY DEF LightStatus
<1>2. L!Obeyed(d, f) = 0
  BY <1>1 DEF L!Obeyed
<1>3. L!Report(d, f) = [f |-> L!Status(1, f.what, <<>>, d[2]), truth |-> L!Want("level", L!Obeyed(d, f))]
  BY <1>1 DEF L!Report
<1> QED
  BY <1>1, <1>2, <1>3, Spoken DEF LightCarried

LEMMA PresetCarried ==
  ASSUME NEW d, NEW f, NEW p, LightStatus(f, p), p \in 2 .. 10, NEW n, PresetLevel(p, d \in coarse, n)
  PROVE  /\ LightCarried(d, f, n)
         /\ LightSaid(d, f, L!Status(1, p, <<>>, d[2]), L!Want("level", n))
<1>1. f.type = "STATUS" /\ f.what = p
  BY DEF LightStatus
<1>2. L!Obeyed(d, f) = IF d \in coarse THEN L!PresetToPercent[p] ELSE 10 * p
  BY <1>1 DEF L!Obeyed
<1>3. L!Obeyed(d, f) = n
  BY <1>2 DEF PresetLevel
<1>4. f.what \in {0} \cup 2 .. 10 /\ f.what \notin 11 .. 18 /\ f.what \notin 20 .. 29
  BY <1>1
<1>5. L!Report(d, f) = [f |-> L!Status(1, f.what, <<>>, d[2]), truth |-> L!Want("level", L!Obeyed(d, f))]
  BY <1>1, <1>4 DEF L!Report
<1> QED
  BY <1>1, <1>3, <1>5, Spoken DEF LightCarried

LEMMA TimedCarried ==
  ASSUME NEW d, NEW f, NEW p, LightStatus(f, p), p \in 11 .. 18
  PROVE  LightCarried(d, f, 100) /\ LightSaid(d, f, f, L!Want("timer", L!FixedTimer[p]))
<1>1. f.type = "STATUS" /\ f.what = p
  BY DEF LightStatus
<1>4. f.what \notin {0} \cup 2 .. 10 /\ f.what \in 11 .. 18 /\ f.what \notin 20 .. 29
  BY <1>1
<1>3. f.what # 0 /\ f.what \notin 2 .. 10 /\ f.what \notin {30, 31}
  BY <1>4
<1>2. L!Obeyed(d, f) = 100
  BY <1>1, <1>3 DEF L!Obeyed
<1>5. L!Report(d, f) = [f |-> f, truth |-> L!Want("timer", L!FixedTimer[f.what])]
  BY <1>1, <1>4 DEF L!Report
<1> QED
  BY <1>1, <1>2, <1>5, Spoken DEF LightCarried

LEMMA BlinkCarried ==
  ASSUME NEW d, NEW f, NEW p, LightStatus(f, p), p \in 20 .. 29
  PROVE  LightCarried(d, f, 100) /\ LightSaid(d, f, f, L!Want("blink", p - 19))
<1>1. f.type = "STATUS" /\ f.what = p
  BY DEF LightStatus
<1>4. f.what \notin {0} \cup 2 .. 10 /\ f.what \notin 11 .. 18 /\ f.what \in 20 .. 29
  BY <1>1
<1>3. f.what # 0 /\ f.what \notin 2 .. 10 /\ f.what \notin {30, 31}
  BY <1>4
<1>2. L!Obeyed(d, f) = 100
  BY <1>1, <1>3 DEF L!Obeyed
<1>5. L!Report(d, f) = [f |-> f, truth |-> L!Want("blink", f.what - 19)]
  BY <1>1, <1>4 DEF L!Report
<1> QED
  BY <1>1, <1>2, <1>5, Spoken DEF LightCarried

(* The frames that are answered with the level. *)
LEMMA LevelSpoken ==
  ASSUME NEW d, NEW f, NEW n, LightCarried(d, f, n), L!Report(d, f) = [f |-> L!LevelReport(d, L!Obeyed(d, f)),
                                                                       truth |-> L!Want("level", L!Obeyed(d, f))]
  PROVE  \E v : /\ LightSaid(d, f, L!DimensionReply(1, d[2], 1, v), L!Want("level", n))
                /\ LevelTold(v, n) /\ TheSpeed(v[2], d \in coarse)
<1> DEFINE v == << n + 100, L!Speed(d) >>
<1>1. L!LevelReport(d, n) = L!DimensionReply(1, d[2], 1, v)
  BY DEF L!LevelReport
<1>2. Len(v) = 2 /\ v[1] = n + 100 /\ v[2] = L!Speed(d)
  OBVIOUS
<1> HIDE DEF v
<1>3. TheSpeed(v[2], d \in coarse)
  BY <1>2 DEF TheSpeed, L!Speed, L!DIMMER_SPEED_COARSE_ONLY
<1>4. L!Obeyed(d, f) = n
  BY DEF LightCarried
<1>5. LightSaid(d, f, L!DimensionReply(1, d[2], 1, v), L!Want("level", n))
  BY <1>1, <1>4, Spoken
<1> QED
  BY <1>2, <1>3, <1>5 DEF LevelTold

LEMMA OnCarried ==
  ASSUME NEW d, NEW f, LightStatus(f, 1)
  PROVE  /\ LightCarried(d, f, 100)
         /\ L!Report(d, f) = [f |-> L!LevelReport(d, L!Obeyed(d, f)), truth |-> L!Want("level", L!Obeyed(d, f))]
<1>1. f.type = "STATUS" /\ f.what = 1
  BY DEF LightStatus
<1>2. L!Obeyed(d, f) = 100
  BY <1>1 DEF L!Obeyed
<1> QED
  BY <1>1, <1>2 DEF LightCarried, L!Report

(* The step up or down that a frame asks for. *)
Delta(f) == IF f.wpar = <<>> THEN 10 ELSE f.wpar[1]

LEMMA StepCarried ==
  ASSUME NEW d, level[d] \in 0 .. 100, NEW f, NEW p, LightStatus(f, p), p \in {30, 31}, Delta(f) \in Int
  PROVE  \E n \in 0 .. 100 :
           /\ LightCarried(d, f, n)
           /\ L!Report(d, f) = [f |-> L!LevelReport(d, L!Obeyed(d, f)), truth |-> L!Want("level", L!Obeyed(d, f))]
<1>1. f.type = "STATUS" /\ f.what = p /\ f.what \in {30, 31}
  BY DEF LightStatus
<1> DEFINE m == Delta(f)
           u == IF f.what = 30 THEN level[d] + m ELSE level[d] - m
<1>2. L!Obeyed(d, f) = IF level[d] = 0 THEN 0 ELSE L!Clamp(1, 100, u)
  BY <1>1 DEF L!Obeyed, Delta
<1>3. u \in Int
  <2>1. m \in Int
    OBVIOUS
  <2> HIDE DEF m
  <2> QED
    BY <2>1
<1> HIDE DEF u, m
<1>4. L!Clamp(1, 100, u) \in 1 .. 100
  BY <1>3 DEF L!Clamp
<1>5. L!Obeyed(d, f) \in 0 .. 100
  BY <1>2, <1>4
<1>7. f.what \notin {0} \cup 2 .. 10 /\ f.what \notin 11 .. 18 /\ f.what \notin 20 .. 29
  BY <1>1
<1>6. L!Report(d, f) = [f |-> L!LevelReport(d, L!Obeyed(d, f)), truth |-> L!Want("level", L!Obeyed(d, f))]
  BY <1>1, <1>7 DEF L!Report
<1> QED
  BY <1>5, <1>6 DEF LightCarried

LEMMA LevelCarried ==
  ASSUME NEW d, level[d] \in 0 .. 100, NEW f, NEW v, LightWrite(f, 1, v), NEW n, n \in 0 .. 100, v[1] = n + 100
  PROVE  \E m \in 0 .. 100 :
           /\ LightCarried(d, f, m) /\ (d \notin coarse => m = n)
           /\ L!Report(d, f) = [f |-> L!LevelReport(d, L!Obeyed(d, f)), truth |-> L!Want("level", L!Obeyed(d, f))]
<1>1. f.type = "DIMENSION_WRITING" /\ f.dim = 1 /\ f.val = v
  BY DEF LightWrite
<1>2. L!Obeyed(d, f) = IF d \notin coarse THEN v[1] - 100 ELSE level[d]
  BY <1>1 DEF L!Obeyed
<1>3. L!Obeyed(d, f) \in 0 .. 100 /\ (d \notin coarse => L!Obeyed(d, f) = n)
  BY <1>2
<1>6. L!Report(d, f) = [f |-> L!LevelReport(d, L!Obeyed(d, f)), truth |-> L!Want("level", L!Obeyed(d, f))]
  BY <1>1 DEF L!Report
<1> QED
  BY <1>3, <1>6 DEF LightCarried

LEMMA AskCarried ==
  ASSUME NEW d, NEW f, LightAsk(f)
  PROVE  /\ LightCarried(d, f, level[d])
         /\ L!Report(d, f) = [f |-> L!LevelReport(d, L!Obeyed(d, f)), truth |-> L!Want("level", L!Obeyed(d, f))]
BY DEF LightCarried, L!Obeyed, L!Report, LightAsk

LEMMA TimeCarried ==
  ASSUME NEW d, NEW f, NEW v, LightWrite(f, 2, v)
  PROVE  /\ LightCarried(d, f, level[d])
         /\ LightSaid(d, f, L!DimensionReply(1, d[2], 2, v), L!Want("time", v))
<1>1. f.type = "DIMENSION_WRITING" /\ f.dim = 2 /\ f.val = v
  BY DEF LightWrite
<1>2. LightCarried(d, f, level[d])
  BY <1>1 DEF LightCarried, L!Obeyed
<1>3. L!Report(d, f) = [f |-> L!DimensionReply(1, d[2], 2, f.val), truth |-> L!Want("time", f.val)]
  BY <1>1 DEF L!Report
<1> QED
  BY <1>1, <1>2, <1>3, Spoken

LEMMA ColourCarried ==
  ASSUME NEW d, NEW f, NEW p, p \in {12, 14}, NEW v, LightWrite(f, p, v)
  PROVE  /\ LightCarried(d, f, level[d])
         /\ LightSaid(d, f, L!DimensionReply(1, d[2], p, v), L!Want("colour", v))
<1>1. f.type = "DIMENSION_WRITING" /\ f.dim = p /\ f.val = v
  BY DEF LightWrite
<1>2. LightCarried(d, f, level[d])
  BY <1>1 DEF LightCarried, L!Obeyed
<1>3. L!Report(d, f) = [f |-> L!DimensionReply(1, d[2], f.dim, f.val), truth |-> L!Want("colour", f.val)]
  BY <1>1 DEF L!Report
<1> QED
  BY <1>1, <1>2, <1>3, Spoken


(* What was asked for, and what came of it. *)
WantsAny(w) == w.kind = "any"

LEMMA AnyDone ==
  ASSUME NEW w, WantsAny(w), NEW t, NEW co
  PROVE  L!Done(w, t, co)
BY DEF WantsAny, L!Done

LEMMA DimDone ==
  ASSUME NEW w, NEW n, IsWant(w, "dim", n), NEW t, NEW m, IsWant(t, "level", m), NEW co, L!Nearby(n, m, co)
  PROVE  L!Done(w, t, co)
BY DEF IsWant, L!Done

LEMMA OnDone ==
  ASSUME NEW w, w.kind = "on", NEW t, NEW m, IsWant(t, "level", m), m > 0, NEW co
  PROVE  L!Done(w, t, co)
BY DEF IsWant, L!Done

LEMMA SameDone ==
  ASSUME NEW kind, kind \in {"timer", "time", "colour"}, NEW n, NEW w, w = L!Want(kind, n), NEW t, t = w, NEW co
  PROVE  L!Done(w, t, co)
<1>1. w.kind = kind
  BY DEF L!Want
<1> QED
  BY <1>1 DEF L!Done

(* The blinks that a period in quarters of a second asks for. *)
BlinkNear(b, q) == (q \in 2 .. 20 => 2 * b - q \in -1 .. 1) /\ (q \notin 2 .. 20 => b = 1)

LEMMA BlinkDone ==
  ASSUME NEW w, w.kind = "blink", NEW b, BlinkNear(b, w.n), NEW t, IsWant(t, "blink", b), NEW co
  PROVE  L!Done(w, t, co)
<1>1. t.kind = "blink" /\ t.n = b
  BY DEF IsWant
<1>2. IF w.n \in 2 .. 20 THEN 2 * t.n - w.n \in -1 .. 1 ELSE t.n = 1
  BY <1>1 DEF BlinkNear
<1> QED
  BY <1>1, <1>2 DEF L!Done

(* r is the report of a light d that was told f by one who wanted w. *)
Heard(r, d, f, w) ==
  r.f = L!Report(d, f).f /\ r.truth = L!Report(d, f).truth /\ r.want = w /\ r.coarse = (d \in coarse)
LightOutcome(r, d, f) ==
  L!Obeyed(d, f) \in 0 .. 100 /\ LightTells(r) /\ L!Done(r.want, r.truth, r.coarse)

LEMMA HeardIs ==
  ASSUME NEW r, NEW d, NEW f, NEW w, Heard(r, d, f, w), NEW g, NEW kind, NEW n, LightSaid(d, f, g, L!Want(kind, n))
  PROVE  /\ r.f = g /\ IsWant(r.truth, kind, n) /\ r.truth = L!Want(kind, n)
         /\ r.want = w /\ r.coarse = (d \in coarse) /\ r.coarse \in BOOLEAN
<1>1. r.f = g /\ r.truth = L!Want(kind, n)
  BY DEF Heard, LightSaid
<1>2. r.want = w /\ r.coarse = (d \in coarse) /\ r.coarse \in BOOLEAN
  BY DEF Heard
<1> QED
  BY <1>1, <1>2, WantIs

LEMMA OffComesOut ==
  ASSUME NEW d, NEW f, LightStatus(f, 0), NEW w, WantsAny(w) \/ IsWant(w, "dim", 0), NEW r, Heard(r, d, f, w)
  PROVE  LightOutcome(r, d, f)
<1> DEFINE g == L!Status(1, 0, <<>>, d[2])
<1>1. LightCarried(d, f, 0) /\ LightSaid(d, f, g, L!Want("level", 0))
  BY OffCarried
<1>2. LightStatus(g, 0)
  BY LightFrames
<1> HIDE DEF g
<1>3. r.f = g /\ IsWant(r.truth, "level", 0) /\ r.want = w
  BY <1>1, HeardIs
<1>4. LightTells(r)
  BY <1>2, <1>3, OffTells
<1>5. L!Nearby(0, 0, r.coarse)
  BY DEF L!Nearby
<1>6. L!Done(r.want, r.truth, r.coarse)
  BY <1>3, <1>5, AnyDone, DimDone
<1>7. L!Obeyed(d, f) \in 0 .. 100
  BY <1>1 DEF LightCarried
<1> QED
  BY <1>4, <1>6, <1>7 DEF LightOutcome

PresetNear(n, p) == L!Nearby(n, L!PresetToPercent[p], TRUE)

LEMMA PresetComesOut ==
  ASSUME NEW d, NEW f, NEW p, p \in 2 .. 10, LightStatus(f, p), NEW w,
         WantsAny(w) \/ (d \in coarse /\ IsWant(w, "dim", w.n) /\ PresetNear(w.n, p)), NEW r, Heard(r, d, f, w)
  PROVE  LightOutcome(r, d, f)
<1> DEFINE g == L!Status(1, p, <<>>, d[2])
           n == IF d \in coarse THEN L!PresetToPercent[p] ELSE 10 * p
<1>0. PresetLevel(p, d \in coarse, n)
  BY DEF PresetLevel
<1>8. d \in coarse => n = L!PresetToPercent[p]
  OBVIOUS
<1> HIDE DEF n
<1>1. LightCarried(d, f, n) /\ LightSaid(d, f, g, L!Want("level", n))
  BY <1>0, PresetCarried
<1>2. LightStatus(g, p)
  BY LightFrames
<1> HIDE DEF g
<1>3. r.f = g /\ IsWant(r.truth, "level", n) /\ r.want = w /\ r.coarse = (d \in coarse) /\ r.coarse \in BOOLEAN
  BY <1>1, HeardIs
<1>9. PresetLevel(p, r.coarse, n)
  BY <1>0, <1>3
<1>4. LightTells(r)
  BY <1>2, <1>3, <1>9, PresetTells
<1>5. ASSUME d \in coarse, IsWant(w, "dim", w.n), PresetNear(w.n, p) PROVE L!Done(r.want, r.truth, r.coarse)
  <2> DEFINE b == TRUE
  <2>1. r.coarse = b
    BY <1>3, <1>5
  <2>2. L!Nearby(w.n, n, b)
    BY <1>5, <1>8 DEF PresetNear
  <2> HIDE DEF b
  <2>3. L!Nearby(w.n, n, r.coarse)
    BY <2>1, <2>2
  <2> QED
    BY <1>3, <1>5, <2>3, DimDone
<1>6. L!Done(r.want, r.truth, r.coarse)
  BY <1>3, <1>5, AnyDone
<1>7. L!Obeyed(d, f) \in 0 .. 100
  <2>1. n \in 1 .. 100
    BY <1>3, <1>9, PresetLevelIs
  <2> QED
    BY <1>1, <2>1 DEF LightCarried
<1> QED
  BY <1>4, <1>6, <1>7 DEF LightOutcome

LEMMA TimedComesOut ==
  ASSUME NEW d, NEW f, NEW p, p \in 11 .. 18, LightStatus(f, p), NEW w, w = L!Want("timer", L!FixedTimer[p]),
         NEW r, Heard(r, d, f, w)
  PROVE  LightOutcome(r, d, f)
<1>1. LightCarried(d, f, 100) /\ LightSaid(d, f, f, L!Want("timer", L!FixedTimer[p]))
  BY TimedCarried
<1>3. /\ r.f = f /\ IsWant(r.truth, "timer", L!FixedTimer[p]) /\ r.truth = L!Want("timer", L!FixedTimer[p])
      /\ r.want = w
  BY <1>1, HeardIs
<1>4. LightTells(r)
  BY <1>3, TimedTells
<1>6. L!Done(r.want, r.truth, r.coarse)
  BY <1>3, SameDone
<1>7. L!Obeyed(d, f) \in 0 .. 100
  BY <1>1 DEF LightCarried
<1> QED
  BY <1>4, <1>6, <1>7 DEF LightOutcome

LEMMA BlinkComesOut ==
  ASSUME NEW d, NEW f, NEW p, p \in 20 .. 29, LightStatus(f, p), NEW w, w.kind = "blink", BlinkNear(p - 19, w.n),
         NEW r, Heard(r, d, f, w)
  PROVE  LightOutcome(r, d, f)
<1>1. LightCarried(d, f, 100) /\ LightSaid(d, f, f, L!Want("blink", p - 19))
  BY BlinkCarried
<1>3. r.f = f /\ IsWant(r.truth, "blink", p - 19) /\ r.want = w
  BY <1>1, HeardIs
<1>4. LightTells(r)
  BY <1>3, BlinkTells
<1>6. L!Done(r.want, r.truth, r.coarse)
  BY <1>3, BlinkDone
<1>7. L!Obeyed(d, f) \in 0 .. 100
  BY <1>1 DEF LightCarried
<1> QED
  BY <1>4, <1>6, <1>7 DEF LightOutcome

(* What is answered with the level. *)
LEMMA LevelComesOut ==
  ASSUME NEW d, NEW f, NEW n, n \in 0 .. 100, LightCarried(d, f, n),
         L!Report(d, f) = [f |-> L!LevelReport(d, L!Obeyed(d, f)), truth |-> L!Want("level", L!Obeyed(d, f))],
         NEW w, WantsAny(w) \/ (w.kind = "on" /\ n > 0) \/ (d \notin coarse /\ IsWant(w, "dim", n)),
         NEW r, Heard(r, d, f, w)
  PROVE  LightOutcome(r, d, f)
<1>1. PICK v : /\ LightSaid(d, f, L!DimensionReply(1, d[2], 1, v), L!Want("level", n))
               /\ LevelTold(v, n) /\ TheSpeed(v[2], d \in coarse)
  BY LevelSpoken
<1> DEFINE g == L!DimensionReply(1, d[2], 1, v)
<1>2. LightReply(g, 1, v) /\ LightSaid(d, f, g, L!Want("level", n))
  BY <1>1, LightFrames
<1> HIDE DEF g
<1>3. r.f = g /\ IsWant(r.truth, "level", n) /\ r.want = w /\ r.coarse = (d \in coarse) /\ r.coarse \in BOOLEAN
  BY <1>2, HeardIs
<1>8. TheSpeed(v[2], r.coarse)
  BY <1>1, <1>3
<1>4. LightTells(r)
  BY <1>1, <1>2, <1>3, <1>8, LevelTells
<1>5. ASSUME d \notin coarse, IsWant(w, "dim", n) PROVE L!Done(r.want, r.truth, r.coarse)
  <2>1. r.coarse = FALSE
    BY <1>3, <1>5
  <2>2. L!Nearby(n, n, r.coarse)
    BY <2>1 DEF L!Nearby
  <2> QED
    BY <1>3, <1>5, <2>2, DimDone
<1>6. L!Done(r.want, r.truth, r.coarse)
  BY <1>3, <1>5, AnyDone, OnDone
<1>7. L!Obeyed(d, f) \in 0 .. 100
  BY DEF LightCarried
<1> QED
  BY <1>4, <1>6, <1>7 DEF LightOutcome

LEMMA TimeComesOut ==
  ASSUME NEW d, level[d] \in 0 .. 100, NEW f, NEW v, LightWrite(f, 2, v), v[1] \in Int, v[2] \in Int, v[3] \in Int,
         NEW w, w = L!Want("time", v), NEW r, Heard(r, d, f, w)
  PROVE  LightOutcome(r, d, f)
<1> DEFINE g == L!DimensionReply(1, d[2], 2, v)
<1>1. LightCarried(d, f, level[d]) /\ LightSaid(d, f, g, L!Want("time", v))
  BY TimeCarried
<1>2. LightReply(g, 2, v)
  BY LightFrames
<1> HIDE DEF g
<1>3. r.f = g /\ IsWant(r.truth, "time", v) /\ r.truth = L!Want("time", v) /\ r.want = w
  BY <1>1, HeardIs
<1>4. LightTells(r)
  BY <1>2, <1>3, TimeTells
<1>6. L!Done(r.want, r.truth, r.coarse)
  BY <1>3, SameDone
<1>7. L!Obeyed(d, f) \in 0 .. 100
  BY <1>1 DEF LightCarried
<1> QED
  BY <1>4, <1>6, <1>7 DEF LightOutcome

LEMMA ColourComesOut ==
  ASSUME NEW d, level[d] \in 0 .. 100, NEW f, NEW p, NEW v, LightWrite(f, p, v),
         (p = 12 /\ IsHsv(v)) \/ (p = 14 /\ IsMireds(v)),
         NEW w, w = L!Want("colour", v), NEW r, Heard(r, d, f, w)
  PROVE  LightOutcome(r, d, f)
<1>0. p \in {12, 14}
  OBVIOUS
<1> DEFINE g == L!DimensionReply(1, d[2], p, v)
<1>1. LightCarried(d, f, level[d]) /\ LightSaid(d, f, g, L!Want("colour", v))
  BY <1>0, ColourCarried
<1>2. LightReply(g, p, v)
  BY LightFrames
<1> HIDE DEF g
<1>3. r.f = g /\ IsWant(r.truth, "colour", v) /\ r.truth = L!Want("colour", v) /\ r.want = w
  BY <1>1, HeardIs
<1>4. LightTells(r)
  BY <1>2, <1>3, ColourTells
<1>6. L!Done(r.want, r.truth, r.coarse)
  BY <1>3, SameDone
<1>7. L!Obeyed(d, f) \in 0 .. 100
  BY <1>1 DEF LightCarried
<1> QED
  BY <1>4, <1>6, <1>7 DEF LightOutcome


(* The commands a caller sends to a light that is coarse, or is not.       *)
AnyOrDim(w, n) == WantsAny(w) \/ IsWant(w, "dim", n)
OffOrder(f, w) == LightStatus(f, 0) /\ AnyOrDim(w, 0)
PresetOrder(f, w, co, p) ==
  LightStatus(f, p) /\ (WantsAny(w) \/ (co /\ IsWant(w, "dim", w.n) /\ PresetNear(w.n, p)))
TimedOrder(f, w, p) == LightStatus(f, p) /\ w = L!Want("timer", L!FixedTimer[p])
BlinkOrder(f, w, p) == LightStatus(f, p) /\ w.kind = "blink" /\ BlinkNear(p - 19, w.n)
OnOrder(f, w) == LightStatus(f, 1) /\ w.kind = "on"
StepOrder(f, w, p) == LightStatus(f, p) /\ Delta(f) \in Int /\ WantsAny(w)
LevelOrder(f, w, co, n, v) ==
  LightWrite(f, 1, v) /\ v[1] = n + 100 /\ (WantsAny(w) \/ (~co /\ IsWant(w, "dim", n)))
AskOrder(f, w) == LightAsk(f) /\ WantsAny(w)
TimeOrder(f, w, v) ==
  LightWrite(f, 2, v) /\ v[1] \in Int /\ v[2] \in Int /\ v[3] \in Int /\ w = L!Want("time", v)
ColourOrder(f, w, p, v) ==
  LightWrite(f, p, v) /\ ((p = 12 /\ IsHsv(v)) \/ (p = 14 /\ IsMireds(v))) /\ w = L!Want("colour", v)
LightOrder(f, w, co) ==
  \/ OffOrder(f, w)
  \/ \E p \in 2 .. 10 : PresetOrder(f, w, co, p)
  \/ \E p \in 11 .. 18 : TimedOrder(f, w, p)
  \/ \E p \in 20 .. 29 : BlinkOrder(f, w, p)
  \/ OnOrder(f, w)
  \/ \E p \in {30, 31} : StepOrder(f, w, p)
  \/ \E n \in 0 .. 100 : \E v : LevelOrder(f, w, co, n, v)
  \/ AskOrder(f, w)
  \/ \E v : TimeOrder(f, w, v)
  \/ \E p, v : ColourOrder(f, w, p, v)

LEMMA OrderComesOut ==
  ASSUME NEW d, level[d] \in 0 .. 100, NEW f, NEW w, LightOrder(f, w, d \in coarse), NEW r, Heard(r, d, f, w)
  PROVE  LightOutcome(r, d, f)
<1>1. CASE OffOrder(f, w)
  BY <1>1, OffComesOut DEF OffOrder, AnyOrDim
<1>2. ASSUME NEW p \in 2 .. 10, PresetOrder(f, w, d \in coarse, p) PROVE LightOutcome(r, d, f)
  BY <1>2, PresetComesOut DEF PresetOrder
<1>3. ASSUME NEW p \in 11 .. 18, TimedOrder(f, w, p) PROVE LightOutcome(r, d, f)
  BY <1>3, TimedComesOut DEF TimedOrder
<1>4. ASSUME NEW p \in 20 .. 29, BlinkOrder(f, w, p) PROVE LightOutcome(r, d, f)
  BY <1>4, BlinkComesOut DEF BlinkOrder
<1>5. CASE OnOrder(f, w)
  <2>1. LightStatus(f, 1) /\ w.kind = "on"
    BY <1>5 DEF OnOrder
  <2> DEFINE n == 100
  <2>2. n \in 0 .. 100 /\ n > 0
    OBVIOUS
  <2>3. /\ LightCarried(d, f, n)
        /\ L!Report(d, f) = [f |-> L!LevelReport(d, L!Obeyed(d, f)), truth |-> L!Want("level", L!Obeyed(d, f))]
    BY <2>1, OnCarried
  <2> HIDE DEF n
  <2> QED
    BY <2>1, <2>2, <2>3, LevelComesOut
<1>6. ASSUME NEW p \in {30, 31}, StepOrder(f, w, p) PROVE LightOutcome(r, d, f)
  <2>1. LightStatus(f, p) /\ Delta(f) \in Int /\ WantsAny(w)
    BY <1>6 DEF StepOrder
  <2>2. PICK n \in 0 .. 100 :
          /\ LightCarried(d, f, n)
          /\ L!Report(d, f) = [f |-> L!LevelReport(d, L!Obeyed(d, f)), truth |-> L!Want("level", L!Obeyed(d, f))]
    BY <2>1, StepCarried
  <2> QED
    BY <2>1, <2>2, LevelComesOut
<1>7. ASSUME NEW n \in 0 .. 100, NEW v, LevelOrder(f, w, d \in coarse, n, v) PROVE LightOutcome(r, d, f)
  <2>1. LightWrite(f, 1, v) /\ v[1] = n + 100 /\ (WantsAny(w) \/ (d \notin coarse /\ IsWant(w, "dim", n)))
    BY <1>7 DEF LevelOrder
  <2>2. PICK m \in 0 .. 100 :
          /\ LightCarried(d, f, m) /\ (d \notin coarse => m = n)
          /\ L!Report(d, f) = [f |-> L!LevelReport(d, L!Obeyed(d, f)), truth |-> L!Want("level", L!Obeyed(d, f))]
    BY <2>1, LevelCarried
  <2>3. WantsAny(w) \/ (d \notin coarse /\ IsWant(w, "dim", m))
    BY <2>1, <2>2
  <2> QED
    BY <2>2, <2>3, LevelComesOut
<1>8. CASE AskOrder(f, w)
  <2>1. LightAsk(f) /\ WantsAny(w)
    BY <1>8 DEF AskOrder
  <2>2. /\ LightCarried(d, f, level[d])
        /\ L!Report(d, f) = [f |-> L!LevelReport(d, L!Obeyed(d, f)), truth |-> L!Want("level", L!Obeyed(d, f))]
    BY <2>1, AskCarried
  <2>3. PICK n \in 0 .. 100 : n = level[d]
    OBVIOUS
  <2>4. LightCarried(d, f, n)
    BY <2>2, <2>3
  <2> QED
    BY <2>1, <2>2, <2>4, LevelComesOut
<1>9. ASSUME NEW v, TimeOrder(f, w, v) PROVE LightOutcome(r, d, f)
  BY <1>9, TimeComesOut DEF TimeOrder
<1>10. ASSUME NEW p, NEW v, ColourOrder(f, w, p, v) PROVE LightOutcome(r, d, f)
  BY <1>10, ColourComesOut DEF ColourOrder
<1> QED
  BY <1>1, <1>2, <1>3, <1>4, <1>5, <1>6, <1>7, <1>8, <1>9, <1>10 DEF LightOrder

(* The invariant. *)
LightBus == \E house \in Houses : setup = house /\ BusOk(house.wire)
LightState ==
  /\ coarse \subseteq L!Lights /\ level \in [L!Lights -> 0 .. 100] /\ learned \in [L!Lights -> Notes]
  /\ RegistryOk(registry) /\ \A d \in L!Lights : Taught(registry, learned, d)
LightOrdered(c) ==
  c.to \in L!Lights /\ c.type \in {"coarse", "fine"} /\ LightOrder(c.f, c.want, c.type = "coarse")
LightReported(r) ==
  r.from \in L!Lights /\ r.coarse \in BOOLEAN /\ LightTells(r) /\ L!Done(r.want, r.truth, r.coarse)
LightInv ==
  /\ LightBus /\ LightState
  /\ \A i \in DOMAIN commands : LightOrdered(commands[i])
  /\ \A i \in DOMAIN reports : LightReported(reports[i])

LEMMA HouseIs ==
  ASSUME FamiliesAssumption, NEW s \in Houses
  PROVE  NoGateway \notin s.gateways /\ s.levels \subseteq 0 .. 100 /\ s.wire \in Nat
<1>1. L!LightingAssumption
  BY DEF FamiliesAssumption
<1> QED
  BY <1>1 DEF L!LightingAssumption

LEMMA LightSaysAll ==
  ASSUME FamiliesAssumption, LightInv
  PROVE  L!TypeOK /\ L!ReportsDecide /\ L!EventsTellTheTruth /\ L!CommandsAreObeyed
<1>1. L!TypeOK
  <2>1. setup \in Houses /\ L!Wire <= L!MaxWire
    BY DEF LightInv, LightBus, BusOk, L!Wire, L!MaxWire
  <2>2. /\ DOMAIN registry \subseteq (L!Gateways \cup {NoGateway}) \X LightWheres
        /\ \A e \in DOMAIN registry : registry[e] \in BOOLEAN
    BY DEF LightInv, LightState, RegistryOk, LightKeys
  <2>3. /\ coarse \subseteq L!Lights /\ level \in [L!Lights -> 0 .. 100]
        /\ learned \in [L!Lights -> {"unknown", "coarse", "fine"}]
    BY DEF LightInv, LightState, Notes
  <2> QED
    BY <2>1, <2>2, <2>3 DEF L!TypeOK
<1>2. L!ReportsDecide
  <2> SUFFICES ASSUME NEW d \in L!Lights, learned[d] # "unknown"
               PROVE  L!IsCoarse(d[2], d[1]) = (learned[d] = "coarse")
    BY DEF L!ReportsDecide
  <2>1. d \in DOMAIN registry /\ registry[d] = (learned[d] = "coarse")
    BY DEF LightInv, LightState, Taught
  <2> QED
    BY <2>1, CoarseWhenTaught
<1>3. L!EventsTellTheTruth
  <2> SUFFICES ASSUME NEW i \in DOMAIN reports
               PROVE  /\ L!Truthful(reports[i], L!IsCoarse(reports[i].from[2], reports[i].from[1]))
                      /\ L!IsCoarse(reports[i].from[2], reports[i].from[1]) => L!Misplaced(reports[i].from)
    BY DEF L!EventsTellTheTruth
  <2>1. L!IsCoarse(reports[i].from[2], reports[i].from[1]) \in BOOLEAN
    BY CoarseIsKnown DEF LightInv, LightState
  <2>2. \A k \in BOOLEAN : L!Truthful(reports[i], k)
    BY DEF LightInv, LightReported, LightTells
  <2>3. L!Truthful(reports[i], L!IsCoarse(reports[i].from[2], reports[i].from[1]))
    BY <2>1, <2>2
  <2>4. PICK d : d = reports[i].from
    OBVIOUS
  <2>5. d \in L!Lights
    BY <2>4 DEF LightInv, LightReported
  <2>6. Taught(registry, learned, d) /\ learned[d] \in Notes
    BY <2>5 DEF LightInv, LightState
  <2>7. NoGateway \notin L!Gateways
    BY HouseIs DEF LightInv, LightBus, L!Gateways
  <2>8. L!IsCoarse(d[2], d[1]) => L!Misplaced(d)
    BY <2>5, <2>6, <2>7, CoarseIsPlaced
  <2> QED
    BY <2>3, <2>4, <2>8
<1>4. L!CommandsAreObeyed
  BY DEF LightInv, LightReported, L!CommandsAreObeyed
<1> QED
  BY <1>1, <1>2, <1>3, <1>4


(* The preset of a level: the level the preset stands for has no other     *)
(* preset between it and the level asked for.                              *)
LEMMA BoundsAre ==
  /\ DOMAIN L!PresetBounds = 1 .. 8
  /\ L!PresetBounds[1] = 4 /\ L!PresetBounds[2] = 15 /\ L!PresetBounds[3] = 25 /\ L!PresetBounds[4] = 35
  /\ L!PresetBounds[5] = 45 /\ L!PresetBounds[6] = 53 /\ L!PresetBounds[7] = 67 /\ L!PresetBounds[8] = 85
BY DEF L!PresetBounds

LEMMA PercentsAre ==
  /\ L!PresetToPercent[2] = 1 /\ L!PresetToPercent[3] = 10 /\ L!PresetToPercent[4] = 20
  /\ L!PresetToPercent[5] = 30 /\ L!PresetToPercent[6] = 40 /\ L!PresetToPercent[7] = 50
  /\ L!PresetToPercent[8] = 60 /\ L!PresetToPercent[9] = 75 /\ L!PresetToPercent[10] = 100
BY DEF L!PresetToPercent

(* The levels of the preset k + 2, by the bounds on either side. *)
Between(l, k) == (k > 0 => L!PresetBounds[k] < l) /\ (k < 8 => l <= L!PresetBounds[k + 1])

LEMMA SomeBetween ==
  ASSUME NEW l \in 1 .. 100
  PROVE  \E k \in 0 .. 8 : Between(l, k)
<1> USE BoundsAre DEF Between
<1>0. CASE l \in 1 .. 4
  <2>1. Between(l, 0)
    BY <1>0
  <2> QED
    BY <2>1
<1>1. CASE l \in 5 .. 15
  <2>1. Between(l, 1)
    BY <1>1
  <2> QED
    BY <2>1
<1>2. CASE l \in 16 .. 25
  <2>1. Between(l, 2)
    BY <1>2
  <2> QED
    BY <2>1
<1>3. CASE l \in 26 .. 35
  <2>1. Between(l, 3)
    BY <1>3
  <2> QED
    BY <2>1
<1>4. CASE l \in 36 .. 45
  <2>1. Between(l, 4)
    BY <1>4
  <2> QED
    BY <2>1
<1>5. CASE l \in 46 .. 53
  <2>1. Between(l, 5)
    BY <1>5
  <2> QED
    BY <2>1
<1>6. CASE l \in 54 .. 67
  <2>1. Between(l, 6)
    BY <1>6
  <2> QED
    BY <2>1
<1>7. CASE l \in 68 .. 85
  <2>1. Between(l, 7)
    BY <1>7
  <2> QED
    BY <2>1
<1>8. CASE l \in 86 .. 100
  <2>1. Between(l, 8)
    BY <1>8
  <2> QED
    BY <2>1
<1> QED
  BY <1>0, <1>1, <1>2, <1>3, <1>4, <1>5, <1>6, <1>7, <1>8

LEMMA BoundsAreBelow ==
  ASSUME NEW l \in 1 .. 100, NEW k \in 0 .. 8, Between(l, k)
  PROVE  {i \in DOMAIN L!PresetBounds : L!PresetBounds[i] < l} = 1 .. k
<1>1. ASSUME NEW i \in 1 .. 8 PROVE L!PresetBounds[i] < l <=> i <= k
  <2>1. ASSUME i <= k PROVE L!PresetBounds[i] < l
    <3>1. L!PresetBounds[k] < l /\ k > 0
      BY <2>1 DEF Between
    <3>2. L!PresetBounds[i] <= L!PresetBounds[k]
      BY <2>1, BoundsAre
    <3>3. L!PresetBounds[i] \in Int /\ L!PresetBounds[k] \in Int
      BY <3>1, BoundsAre
    <3> QED
      BY <3>1, <3>2, <3>3
  <2>2. ASSUME i > k PROVE ~(L!PresetBounds[i] < l)
    <3>1. l <= L!PresetBounds[k + 1] /\ k < 8
      BY <2>2 DEF Between
    <3>2. L!PresetBounds[k + 1] <= L!PresetBounds[i]
      BY <2>2, BoundsAre
    <3>3. L!PresetBounds[i] \in Int /\ L!PresetBounds[k + 1] \in Int
      BY <3>1, BoundsAre
    <3> QED
      BY <3>1, <3>2, <3>3
  <2> QED
    BY <2>1, <2>2
<1>2. DOMAIN L!PresetBounds = 1 .. 8
  BY BoundsAre
<1> QED
  BY <1>1, <1>2

(* Lighting counts with FiniteSets of its own. *)
LEMMA LightCardinality == \A s : L!Cardinality(s) = Cardinality(s)
BY DEF L!Cardinality, Cardinality

LEMMA PresetOfLevel ==
  ASSUME NEW l \in 1 .. 100, NEW k \in 0 .. 8, Between(l, k)
  PROVE  L!PercentToPreset(l) = k + 2
<1> DEFINE below == {i \in DOMAIN L!PresetBounds : L!PresetBounds[i] < l}
<1>1. below = 1 .. k
  BY BoundsAreBelow
<1>2. Cardinality(1 .. k) = k
  <2>1. Cardinality(1 .. k) = IF 1 > k THEN 0 ELSE k - 1 + 1
    BY FS_Interval
  <2> QED
    BY <2>1
<1>3. L!PercentToPreset(l) = 2 + L!Cardinality(below)
  BY DEF L!PercentToPreset
<1> HIDE DEF below
<1>4. L!Cardinality(below) = k
  BY <1>1, <1>2, LightCardinality
<1> QED
  BY <1>3, <1>4

LEMMA PresetIsNear ==
  ASSUME NEW l \in 1 .. 100, NEW k \in 0 .. 8, Between(l, k)
  PROVE  PresetNear(l, k + 2)
<1> DEFINE n == L!PresetToPercent[k + 2]
<1>1. ASSUME NEW p \in 2 .. 10
      PROVE  ~(l < L!PresetToPercent[p] /\ L!PresetToPercent[p] < n)
  <2>1. CASE p >= k + 2
    <3>1. n <= L!PresetToPercent[p] /\ n \in Int /\ L!PresetToPercent[p] \in Int
      BY <2>1, PercentsAre
    <3> HIDE DEF n
    <3> QED
      BY <3>1
  <2>2. CASE p < k + 2
    <3>1. k > 0 /\ p - 1 \in 1 .. k /\ L!PresetBounds[k] < l
      BY <2>2 DEF Between
    <3>2. L!PresetToPercent[p] <= L!PresetToPercent[k + 1]
      BY <2>2, <3>1, PercentsAre
    <3>3. L!PresetToPercent[k + 1] <= L!PresetBounds[k]
      BY <3>1, PercentsAre, BoundsAre
    <3>4. L!PresetToPercent[p] \in Int /\ L!PresetToPercent[k + 1] \in Int /\ L!PresetBounds[k] \in Int
      BY <3>1, PercentsAre, BoundsAre
    <3>5. L!PresetToPercent[p] <= l
      BY <3>1, <3>2, <3>3, <3>4
    <3> QED
      BY <3>4, <3>5
  <2> QED
    BY <2>1, <2>2
<1>2. ASSUME NEW p \in 2 .. 10
      PROVE  ~(n < L!PresetToPercent[p] /\ L!PresetToPercent[p] < l)
  <2>1. CASE p <= k + 2
    <3>1. L!PresetToPercent[p] <= n /\ n \in Int /\ L!PresetToPercent[p] \in Int
      BY <2>1, PercentsAre
    <3> HIDE DEF n
    <3> QED
      BY <3>1
  <2>2. CASE p > k + 2
    <3>1. k < 8 /\ l <= L!PresetBounds[k + 1]
      BY <2>2 DEF Between
    <3>2. L!PresetToPercent[k + 3] <= L!PresetToPercent[p]
      BY <2>2, <3>1, PercentsAre
    <3>3. L!PresetBounds[k + 1] <= L!PresetToPercent[k + 3]
      BY <3>1, PercentsAre, BoundsAre
    <3>4. /\ L!PresetToPercent[p] \in Int /\ L!PresetToPercent[k + 3] \in Int
          /\ L!PresetBounds[k + 1] \in Int
      BY <3>1, PercentsAre, BoundsAre
    <3>5. l <= L!PresetToPercent[p]
      BY <3>1, <3>2, <3>3, <3>4
    <3> QED
      BY <3>4, <3>5
  <2> QED
    BY <2>1, <2>2
<1>3. l # 0
  OBVIOUS
<1> QED
  BY <1>1, <1>2, <1>3 DEF PresetNear, L!Nearby


(* The commands, as they are built. *)
LEMMA Dimmed ==
  ASSUME NEW w, NEW l \in 0 .. 100, NEW key, NEW f, f = L!SetBrightness(w, l, 0, L!Null, key)
  PROVE  /\ l = 0 => LightStatus(f, 0)
         /\ l > 0 /\ L!IsCoarse(w, key) => LightStatus(f, L!PercentToPreset(l))
         /\ l > 0 /\ ~L!IsCoarse(w, key) => \E v : LightWrite(f, 1, v) /\ v[1] = l + 100
<1> DEFINE t == IF 0 \in 0 .. 255 THEN 0 ELSE 0
           s == IF L!IsCoarse(w, key) \/ t = 0 THEN L!Null ELSE t
           c == L!Clamp(0, 100, l) + 100
           v == << c, t >>
<1>1. f = IF l <= 0 THEN L!SwitchOff(w, s)
          ELSE IF L!IsCoarse(w, key) THEN L!SetBrightnessPreset(w, L!PercentToPreset(l))
          ELSE L!DimensionWriting(1, w, 1, v)
  BY DEF L!SetBrightness
<1>2. v[1] = c
  OBVIOUS
<1>3. c = l + 100
  BY DEF L!Clamp
<1> HIDE DEF t, s, c, v
<1>4. LightStatus(L!SwitchOff(w, s), 0)
  BY LightFrames DEF L!SwitchOff
<1>5. LightStatus(L!SetBrightnessPreset(w, L!PercentToPreset(l)), L!PercentToPreset(l))
  BY LightFrames DEF L!SetBrightnessPreset
<1>6. LightWrite(L!DimensionWriting(1, w, 1, v), 1, v)
  BY LightFrames
<1>7. ASSUME l = 0 PROVE LightStatus(f, 0)
  BY <1>1, <1>4, <1>7
<1>8. ASSUME l > 0, L!IsCoarse(w, key) PROVE LightStatus(f, L!PercentToPreset(l))
  <2>1. ~(l <= 0)
    BY <1>8
  <2> QED
    BY <1>1, <1>5, <1>8, <2>1
<1>9. ASSUME l > 0, ~L!IsCoarse(w, key) PROVE LightWrite(f, 1, v) /\ v[1] = l + 100
  <2>1. ~(l <= 0)
    BY <1>9
  <2> QED
    BY <1>1, <1>2, <1>3, <1>6, <1>9, <2>1
<1> QED
  BY <1>7, <1>8, <1>9

LEMMA NothingWanted == WantsAny(L!NoWant)
BY DEF WantsAny, L!NoWant, L!Want

LEMMA DimIsOrder ==
  ASSUME NEW w, NEW l \in 0 .. 100, NEW key, NEW f, f = L!SetBrightness(w, l, 0, L!Null, key),
         NEW want, NEW co, co \in BOOLEAN,
         WantsAny(want) \/ (want = L!Want("dim", l) /\ L!IsCoarse(w, key) = co)
  PROVE  LightOrder(f, want, co)
<1>1. want = L!Want("dim", l) => IsWant(want, "dim", l) /\ IsWant(want, "dim", want.n)
  BY WantIs DEF IsWant
<1>2. CASE l = 0
  <2>1. LightStatus(f, 0)
    BY <1>2, Dimmed
  <2>2. AnyOrDim(want, 0)
    BY <1>1, <1>2 DEF AnyOrDim
  <2> QED
    BY <2>1, <2>2 DEF LightOrder, OffOrder
<1>3. CASE l > 0 /\ L!IsCoarse(w, key)
  <2>0. l \in 1 .. 100
    BY <1>3
  <2>1. PICK k \in 0 .. 8 : Between(l, k)
    BY <2>0, SomeBetween
  <2> DEFINE p == k + 2
  <2>2. p \in 2 .. 10
    OBVIOUS
  <2>3. LightStatus(f, p)
    BY <1>3, <2>0, <2>1, Dimmed, PresetOfLevel
  <2>4. PresetNear(l, p)
    BY <2>0, <2>1, PresetIsNear
  <2> HIDE DEF p
  <2>5. want = L!Want("dim", l) => want.n = l
    BY DEF L!Want
  <2>6. WantsAny(want) \/ (co /\ IsWant(want, "dim", want.n) /\ PresetNear(want.n, p))
    <3>1. CASE WantsAny(want)
      BY <3>1
    <3>2. CASE want = L!Want("dim", l) /\ L!IsCoarse(w, key) = co
      <4>1. want.n = l
        BY <2>5, <3>2
      <4>2. PresetNear(want.n, p)
        BY <2>4, <4>1
      <4>3. co
        BY <1>3, <3>2
      <4> QED
        BY <1>1, <3>2, <4>2, <4>3
    <3> QED
      BY <3>1, <3>2
  <2>7. PresetOrder(f, want, co, p)
    BY <2>3, <2>6 DEF PresetOrder
  <2> QED
    BY <2>2, <2>7 DEF LightOrder
<1>4. CASE l > 0 /\ ~L!IsCoarse(w, key)
  <2>1. PICK v : LightWrite(f, 1, v) /\ v[1] = l + 100
    BY <1>4, Dimmed
  <2>2. WantsAny(want) \/ (~co /\ IsWant(want, "dim", l))
    BY <1>1, <1>4
  <2>3. LevelOrder(f, want, co, l, v)
    BY <2>1, <2>2 DEF LevelOrder
  <2> QED
    BY <2>3 DEF LightOrder
<1> QED
  BY <1>2, <1>3, <1>4

LEMMA PresetIsOrder ==
  ASSUME NEW w, NEW p \in {2, 5, 10}, NEW f, f = L!SetBrightnessPreset(w, p), NEW co
  PROVE  LightOrder(f, L!NoWant, co)
<1>1. LightStatus(f, p) /\ p \in 2 .. 10
  BY LightFrames DEF L!SetBrightnessPreset
<1>2. PresetOrder(f, L!NoWant, co, p)
  BY <1>1, NothingWanted DEF PresetOrder
<1> QED
  BY <1>1, <1>2 DEF LightOrder

LEMMA AskIsOrder ==
  ASSUME NEW w, NEW f, f = L!GetBrightness(w), NEW co
  PROVE  LightOrder(f, L!NoWant, co)
<1>1. LightAsk(f)
  BY LightFrames DEF L!GetBrightness
<1> QED
  BY <1>1, NothingWanted DEF LightOrder, AskOrder

LEMMA OnIsOrder ==
  ASSUME NEW w, NEW s, NEW f, f = L!SwitchOn(w, s), NEW want, want = L!Want("on", 0), NEW co
  PROVE  LightOrder(f, want, co)
<1>1. LightStatus(f, 1)
  BY LightFrames DEF L!SwitchOn
<1>2. want.kind = "on"
  BY DEF L!Want
<1> QED
  BY <1>1, <1>2 DEF LightOrder, OnOrder

LEMMA TimedIsOrder ==
  ASSUME NEW w, NEW p \in 11 .. 18, NEW f, f = L!SwitchOnTimed(w, p),
         NEW want, want = L!Want("timer", L!FixedTimer[p]), NEW co
  PROVE  LightOrder(f, want, co)
<1>1. LightStatus(f, p)
  BY LightFrames DEF L!SwitchOnTimed
<1>2. TimedOrder(f, want, p)
  BY <1>1 DEF TimedOrder
<1> QED
  BY <1>2 DEF LightOrder

LEMMA HalvesAre ==
  ASSUME NEW q \in Int, NEW b, b = IF q \in 2 .. 20 THEN L!RoundHalf(q) ELSE 1
  PROVE  b \in 1 .. 10 /\ BlinkNear(b, q)
<1>1. CASE q \in 2 .. 20
  <2>1. b = IF q % 4 = 3 THEN (q + 1) \div 2 ELSE q \div 2
    BY <1>1 DEF L!RoundHalf
  <2>2. b \in 1 .. 10 /\ 2 * b - q \in -1 .. 1
    BY <1>1, <2>1
  <2> QED
    BY <1>1, <2>2 DEF BlinkNear
<1>2. CASE q \notin 2 .. 20
  BY <1>2 DEF BlinkNear
<1> QED
  BY <1>1, <1>2

LEMMA FlashIsOrder ==
  ASSUME NEW w, NEW q \in Int, NEW f, f = L!Flash(w, q), NEW want, want = L!Want("blink", q), NEW co
  PROVE  LightOrder(f, want, co)
<1> DEFINE b == IF q \in 2 .. 20 THEN L!RoundHalf(q) ELSE 1
           p == b + 19
<1>1. b \in 1 .. 10 /\ BlinkNear(b, q)
  BY HalvesAre
<1>2. f = L!Status(1, p, <<>>, w)
  BY DEF L!Flash
<1> HIDE DEF b
<1>3. p \in 20 .. 29 /\ p - 19 = b
  BY <1>1
<1> HIDE DEF p
<1>4. LightStatus(f, p)
  BY <1>2, LightFrames
<1>5. want.kind = "blink" /\ want.n = q
  BY DEF L!Want
<1>6. BlinkNear(p - 19, want.n)
  BY <1>1, <1>3, <1>5
<1>7. BlinkOrder(f, want, p)
  BY <1>4, <1>5, <1>6 DEF BlinkOrder
<1> QED
  BY <1>3, <1>7 DEF LightOrder

LEMMA StepIsOrder ==
  ASSUME NEW w, NEW p \in {30, 31}, NEW n \in Int, NEW f, f = L!Step(w, p, n, 0), NEW co
  PROVE  LightOrder(f, L!NoWant, co)
<1> DEFINE u == IF n = L!Null THEN <<>> ELSE << n, 0 >>
<1>1. f = L!Status(1, p, u, w)
  BY DEF L!Step
<1>2. u = <<>> \/ u[1] = n
  OBVIOUS
<1> HIDE DEF u
<1>3. f.wpar = u
  BY <1>1 DEF L!Status, L!Frame
<1>4. Delta(f) \in Int
  BY <1>2, <1>3 DEF Delta
<1>5. LightStatus(f, p)
  BY <1>1, LightFrames
<1>6. StepOrder(f, L!NoWant, p)
  BY <1>4, <1>5, NothingWanted DEF StepOrder
<1> QED
  BY <1>6 DEF LightOrder

LEMMA TimeIsOrder ==
  ASSUME NEW w, NEW h \in Int, NEW m \in Int, NEW s \in Int, NEW f, f = L!SetVariableTimer(w, h, m, s),
         NEW want, want = L!Want("time", << h, m, s >>), NEW co
  PROVE  LightOrder(f, want, co)
<1> DEFINE v == << h, m, s >>
<1>1. v[1] \in Int /\ v[2] \in Int /\ v[3] \in Int
  OBVIOUS
<1>2. f = L!DimensionWriting(1, w, 2, v) /\ want = L!Want("time", v)
  BY DEF L!SetVariableTimer
<1> HIDE DEF v
<1>3. LightWrite(f, 2, v)
  BY <1>2, LightFrames
<1>4. TimeOrder(f, want, v)
  BY <1>1, <1>2, <1>3 DEF TimeOrder
<1> QED
  BY <1>4 DEF LightOrder

LEMMA MiredsIsOrder ==
  ASSUME NEW w, NEW n \in Int, NEW f, f = L!SetColorTemperature(w, n),
         NEW want, want = L!Want("colour", << L!Clamp(50, 1000, n) >>), NEW co
  PROVE  LightOrder(f, want, co)
<1> DEFINE m == L!Clamp(50, 1000, n)
           v == << m >>
<1>1. m \in 50 .. 1000
  BY DEF L!Clamp
<1>2. v[1] = m
  OBVIOUS
<1>3. f = L!DimensionWriting(1, w, 14, v) /\ want = L!Want("colour", v)
  BY DEF L!SetColorTemperature
<1> HIDE DEF v, m
<1>4. LightWrite(f, 14, v)
  BY <1>3, LightFrames
<1>5. ColourOrder(f, want, 14, v)
  BY <1>1, <1>2, <1>3, <1>4 DEF ColourOrder, IsMireds
<1> QED
  BY <1>5 DEF LightOrder

LEMMA HsvIsOrder ==
  ASSUME NEW w, NEW h \in Int, NEW s \in Int, NEW b \in Int, NEW f, f = L!SetHsvColor(w, h, s, b),
         NEW want, want = L!Want("colour", << L!Clamp(0, 359, h), L!Clamp(0, 100, s), L!Clamp(0, 100, b) >>), NEW co
  PROVE  LightOrder(f, want, co)
<1> DEFINE x == L!Clamp(0, 359, h)
           y == L!Clamp(0, 100, s)
           z == L!Clamp(0, 100, b)
           v == << x, y, z >>
<1>1. x \in 0 .. 359 /\ y \in 0 .. 100 /\ z \in 0 .. 100
  BY DEF L!Clamp
<1>2. v[1] = x /\ v[2] = y /\ v[3] = z /\ Len(v) = 3
  OBVIOUS
<1>3. f = L!DimensionWriting(1, w, 12, v) /\ want = L!Want("colour", v)
  BY DEF L!SetHsvColor
<1> HIDE DEF v, x, y, z
<1>4. LightWrite(f, 12, v)
  BY <1>3, LightFrames
<1>5. IsHsv(v)
  BY <1>1, <1>2 DEF IsHsv
<1>6. ColourOrder(f, want, 12, v)
  BY <1>3, <1>4, <1>5 DEF ColourOrder
<1> QED
  BY <1>6 DEF LightOrder


(* The steps. *)
LEMMA LightStarts ==
  ASSUME L!Init, FamiliesAssumption
  PROVE  LightInv
<1>0. /\ setup \in Houses /\ registry = <<>> /\ commands = <<>> /\ reports = <<>>
      /\ coarse \in SUBSET L!Lights /\ level = [d \in L!Lights |-> 0] /\ learned = [d \in L!Lights |-> "unknown"]
  BY DEF L!Init
<1>1. PICK house \in Houses : setup = house
  BY <1>0
<1>2. house.wire \in Nat
  BY HouseIs
<1>3. BusOk(house.wire) /\ DOMAIN commands = {} /\ DOMAIN reports = {}
  BY <1>0, <1>2, BusStarts
<1>4. LightBus
  BY <1>1, <1>3 DEF LightBus
<1>5. RegistryOk(registry)
  BY <1>0, RegistryStarts
<1>6. level \in [L!Lights -> 0 .. 100] /\ learned \in [L!Lights -> Notes]
  BY <1>0 DEF Notes
<1>7. \A d \in L!Lights : Taught(registry, learned, d)
  <2>1. DOMAIN registry = {}
    BY <1>0, QueueEmpty
  <2> QED
    BY <1>0, <2>1 DEF Taught
<1>8. LightState
  BY <1>0, <1>5, <1>6, <1>7 DEF LightState
<1> QED
  BY <1>3, <1>4, <1>8 DEF LightInv

LEMMA LightsStay ==
  ASSUME setup' = setup
  PROVE  L!Lights' = L!Lights /\ L!Gateways' = L!Gateways
BY DEF L!Lights, L!Gateways

(* What is sent, and what comes back. *)
LEMMA OrdersGrow ==
  ASSUME \A i \in DOMAIN commands : LightOrdered(commands[i]), NEW c, LightOrdered(c), Grows(commands, c, commands'),
         setup' = setup
  PROVE  \A i \in DOMAIN commands' : LightOrdered(commands[i])'
<1> SUFFICES ASSUME NEW i \in DOMAIN commands' PROVE LightOrdered(commands[i])'
  OBVIOUS
<1>1. PICK x : x = commands'[i]
  OBVIOUS
<1>2. x = c \/ \E j \in DOMAIN commands : x = commands[j]
  BY <1>1 DEF Grows
<1>3. LightOrdered(x)
  BY <1>2
<1>4. x.to \in L!Lights' /\ x.type \in {"coarse", "fine"} /\ LightOrder(x.f, x.want, x.type = "coarse")
  BY <1>3, LightsStay DEF LightOrdered
<1> QED
  BY <1>1, <1>4 DEF LightOrdered

LEMMA OrdersShrink ==
  ASSUME \A i \in DOMAIN commands : LightOrdered(commands[i]), Shrinks(commands, commands'),
         setup' = setup
  PROVE  \A i \in DOMAIN commands' : LightOrdered(commands[i])'
<1> SUFFICES ASSUME NEW i \in DOMAIN commands' PROVE LightOrdered(commands[i])'
  OBVIOUS
<1>1. PICK x : x = commands'[i]
  OBVIOUS
<1>2. \E j \in DOMAIN commands : x = commands[j]
  BY <1>1 DEF Shrinks
<1>3. LightOrdered(x)
  BY <1>2
<1>4. x.to \in L!Lights' /\ x.type \in {"coarse", "fine"} /\ LightOrder(x.f, x.want, x.type = "coarse")
  BY <1>3, LightsStay DEF LightOrdered
<1> QED
  BY <1>1, <1>4 DEF LightOrdered

LEMMA ReportsGrow ==
  ASSUME \A i \in DOMAIN reports : LightReported(reports[i]), NEW r, LightReported(r), Grows(reports, r, reports'),
         setup' = setup
  PROVE  \A i \in DOMAIN reports' : LightReported(reports[i])'
<1> SUFFICES ASSUME NEW i \in DOMAIN reports' PROVE LightReported(reports[i])'
  OBVIOUS
<1>1. PICK x : x = reports'[i]
  OBVIOUS
<1>2. x = r \/ \E j \in DOMAIN reports : x = reports[j]
  BY <1>1 DEF Grows
<1>3. LightReported(x)
  BY <1>2
<1>4. x.from \in L!Lights' /\ x.coarse \in BOOLEAN /\ LightTells(x) /\ L!Done(x.want, x.truth, x.coarse)
  BY <1>3, LightsStay DEF LightReported
<1> QED
  BY <1>1, <1>4 DEF LightReported

LEMMA ReportsShrink ==
  ASSUME \A i \in DOMAIN reports : LightReported(reports[i]), Shrinks(reports, reports'), setup' = setup
  PROVE  \A i \in DOMAIN reports' : LightReported(reports[i])'
<1> SUFFICES ASSUME NEW i \in DOMAIN reports' PROVE LightReported(reports[i])'
  OBVIOUS
<1>1. PICK x : x = reports'[i]
  OBVIOUS
<1>2. \E j \in DOMAIN reports : x = reports[j]
  BY <1>1 DEF Shrinks
<1>3. LightReported(x)
  BY <1>2
<1>4. x.from \in L!Lights' /\ x.coarse \in BOOLEAN /\ LightTells(x) /\ L!Done(x.want, x.truth, x.coarse)
  BY <1>3, LightsStay DEF LightReported
<1> QED
  BY <1>1, <1>4 DEF LightReported

LEMMA OrdersRest ==
  ASSUME LightInv, commands' = commands, setup' = setup
  PROVE  \A i \in DOMAIN commands' : LightOrdered(commands[i])'
<1>1. Shrinks(commands, commands')
  BY DEF Shrinks
<1> QED
  BY <1>1, OrdersShrink DEF LightInv

LEMMA ReportsRest ==
  ASSUME LightInv, reports' = reports, setup' = setup
  PROVE  \A i \in DOMAIN reports' : LightReported(reports[i])'
<1>1. Shrinks(reports, reports')
  BY DEF Shrinks
<1> QED
  BY <1>1, ReportsShrink DEF LightInv

LEMMA BusRests ==
  ASSUME LightInv, commands' = commands, reports' = reports, setup' = setup
  PROVE  LightBus'
BY DEF LightInv, LightBus, BusOk

LEMMA StateRests ==
  ASSUME LightInv, UNCHANGED << setup, registry, coarse, level, learned >>
  PROVE  LightState'
<1>1. L!Lights' = L!Lights /\ L!Gateways' = L!Gateways
  BY LightsStay
<1> QED
  BY <1>1 DEF LightInv, LightState, RegistryOk, LightKeys, Taught

LEMMA LightPosts ==
  ASSUME LightInv, setup' = setup, NEW d \in L!Lights, NEW f, NEW w,
         LightOrder(f, w, L!TypeOf(d) = "coarse"), L!Post(d, f, w)
  PROVE  LightInv'
<1>1. PICK house \in Houses : setup = house /\ BusOk(house.wire)
  BY DEF LightInv, LightBus
<1>2. PICK c : c = [to |-> d, f |-> f, want |-> w, type |-> L!TypeOf(d)]
  OBVIOUS
<1>3. /\ commands' = Append(commands, c) /\ reports' = reports /\ Len(commands) + Len(reports) < house.wire
      /\ UNCHANGED << registry, coarse, level, learned >>
  BY <1>1, <1>2 DEF L!Post, L!Wire, L!MaxWire
<1>4. BusOk(house.wire)' /\ Grows(commands, c, commands')
  BY <1>1, <1>3, BusPosts
<1>5. LightBus'
  BY <1>1, <1>4 DEF LightBus
<1>6. LightState'
  BY <1>3, StateRests
<1>7. LightOrdered(c)
  <2>1. L!TypeOf(d) \in {"coarse", "fine"}
    BY DEF L!TypeOf
  <2>2. c.to = d /\ c.f = f /\ c.want = w /\ c.type = L!TypeOf(d)
    BY <1>2
  <2> QED
    BY <2>1, <2>2 DEF LightOrdered
<1>8. \A i \in DOMAIN commands' : LightOrdered(commands[i])'
  BY <1>3, <1>4, <1>7, OrdersGrow DEF LightInv
<1>9. \A i \in DOMAIN reports' : LightReported(reports[i])'
  BY <1>3, ReportsRest
<1> QED
  BY <1>5, <1>6, <1>8, <1>9 DEF LightInv

LEMMA LightDims ==
  ASSUME FamiliesAssumption, LightInv, setup' = setup, NEW d \in L!Lights, NEW l \in L!Levels, NEW key,
         L!Dim(d, l, key)
  PROVE  LightInv'
<1> DEFINE informed == key = d[1] /\ learned[d] = L!TypeOf(d)
<1>1. PICK f : f = L!SetBrightness(d[2], l, 0, L!Null, key)
  OBVIOUS
<1>2. PICK w : w = IF informed THEN L!Want("dim", l) ELSE L!NoWant
  OBVIOUS
<1>3. L!Post(d, f, w)
  BY <1>1, <1>2 DEF L!Dim
<1>4. l \in 0 .. 100
  BY HouseIs DEF LightInv, LightBus, L!Levels
<1>5. informed => L!IsCoarse(d[2], key) = (L!TypeOf(d) = "coarse")
  <2> SUFFICES ASSUME informed PROVE L!IsCoarse(d[2], key) = (L!TypeOf(d) = "coarse")
    OBVIOUS
  <2>1. L!ReportsDecide
    BY LightSaysAll
  <2>2. learned[d] # "unknown" /\ learned[d] = L!TypeOf(d) /\ key = d[1]
    BY DEF L!TypeOf
  <2> HIDE DEF informed
  <2> QED
    BY <2>1, <2>2 DEF L!ReportsDecide
<1> HIDE DEF informed
<1>6. WantsAny(w) \/ (w = L!Want("dim", l) /\ L!IsCoarse(d[2], key) = (L!TypeOf(d) = "coarse"))
  BY <1>2, <1>5, NothingWanted
<1>7. LightOrder(f, w, L!TypeOf(d) = "coarse")
  <2> DEFINE co == L!TypeOf(d) = "coarse"
             g == L!SetBrightness(d[2], l, 0, L!Null, key)
  <2>1. co \in BOOLEAN /\ (WantsAny(w) \/ (w = L!Want("dim", l) /\ L!IsCoarse(d[2], key) = co))
    BY <1>6
  <2> HIDE DEF co
  <2>2. LightOrder(g, w, co)
    BY <1>4, <2>1, DimIsOrder
  <2> QED
    BY <1>1, <2>2 DEF co
<1> QED
  BY <1>3, <1>7, LightPosts

LEMMA LightCommands ==
  ASSUME LightInv, setup' = setup, NEW d \in L!Lights, L!Command(d)
  PROVE  LightInv'
<1> DEFINE co == L!TypeOf(d) = "coarse"
<1>0. L!Null \in Int
  BY DEF L!Null
<1>1. ASSUME NEW s, L!Post(d, L!SwitchOn(d[2], s), L!Want("on", 0)) PROVE LightInv'
  <2>1. LightOrder(L!SwitchOn(d[2], s), L!Want("on", 0), co)
    BY OnIsOrder
  <2> QED
    BY <1>1, <2>1, LightPosts
<1>2. ASSUME NEW w \in 11 .. 18, L!Post(d, L!SwitchOnTimed(d[2], w), L!Want("timer", L!FixedTimer[w])) PROVE LightInv'
  <2>1. LightOrder(L!SwitchOnTimed(d[2], w), L!Want("timer", L!FixedTimer[w]), co)
    BY TimedIsOrder
  <2> QED
    BY <1>2, <2>1, LightPosts
<1>3. ASSUME NEW q \in Int, L!Post(d, L!Flash(d[2], q), L!Want("blink", q)) PROVE LightInv'
  <2>1. LightOrder(L!Flash(d[2], q), L!Want("blink", q), co)
    BY FlashIsOrder
  <2> QED
    BY <1>3, <2>1, LightPosts
<1>4. ASSUME NEW w \in {30, 31}, NEW n \in Int, L!Post(d, L!Step(d[2], w, n, 0), L!NoWant) PROVE LightInv'
  <2>1. LightOrder(L!Step(d[2], w, n, 0), L!NoWant, co)
    BY StepIsOrder
  <2> QED
    BY <1>4, <2>1, LightPosts
<1>5. ASSUME NEW h \in Int, NEW m \in Int, NEW s \in Int,
             L!Post(d, L!SetVariableTimer(d[2], h, m, s), L!Want("time", << h, m, s >>))
      PROVE  LightInv'
  <2>1. LightOrder(L!SetVariableTimer(d[2], h, m, s), L!Want("time", << h, m, s >>), co)
    BY TimeIsOrder
  <2> QED
    BY <1>5, <2>1, LightPosts
<1>6. ASSUME NEW n \in Int, L!Post(d, L!SetColorTemperature(d[2], n), L!Want("colour", << L!Clamp(50, 1000, n) >>))
      PROVE  LightInv'
  <2>1. LightOrder(L!SetColorTemperature(d[2], n), L!Want("colour", << L!Clamp(50, 1000, n) >>), co)
    BY MiredsIsOrder
  <2> QED
    BY <1>6, <2>1, LightPosts
<1>7. ASSUME NEW h \in Int, NEW s \in Int, NEW v \in Int,
             L!Post(d, L!SetHsvColor(d[2], h, s, v),
                    L!Want("colour", << L!Clamp(0, 359, h), L!Clamp(0, 100, s), L!Clamp(0, 100, v) >>))
      PROVE  LightInv'
  <2>1. LightOrder(L!SetHsvColor(d[2], h, s, v),
                   L!Want("colour", << L!Clamp(0, 359, h), L!Clamp(0, 100, s), L!Clamp(0, 100, v) >>), co)
    BY HsvIsOrder
  <2> QED
    BY <1>7, <2>1, LightPosts
<1> HIDE DEF co
<1>8. \/ \E s \in {L!Null, 0, 255} : L!Post(d, L!SwitchOn(d[2], s), L!Want("on", 0))
      \/ \E w \in 11 .. 18 : L!Post(d, L!SwitchOnTimed(d[2], w), L!Want("timer", L!FixedTimer[w]))
      \/ \E q \in {L!Null, 1, 2, 3, 5, 10, 11, 19, 20, 21} : L!Post(d, L!Flash(d[2], q), L!Want("blink", q))
      \/ \E w \in {30, 31}, n \in {L!Null, 1, 100} : L!Post(d, L!Step(d[2], w, n, 0), L!NoWant)
      \/ \E h \in {0, 255}, m \in {0, 59}, s \in {0, 59} :
           L!Post(d, L!SetVariableTimer(d[2], h, m, s), L!Want("time", << h, m, s >>))
      \/ \E n \in {-1, 1, 153, 2000} :
           L!Post(d, L!SetColorTemperature(d[2], n), L!Want("colour", << L!Clamp(50, 1000, n) >>))
      \/ \E h \in {0, 360, 511}, s \in {0, 127}, v \in {0, 255} :
           L!Post(d, L!SetHsvColor(d[2], h, s, v),
                  L!Want("colour", << L!Clamp(0, 359, h), L!Clamp(0, 100, s), L!Clamp(0, 100, v) >>))
  BY DEF L!Command
<1>9. /\ {L!Null, 1, 2, 3, 5, 10, 11, 19, 20, 21} \subseteq Int /\ {L!Null, 1, 100} \subseteq Int
      /\ {0, 255} \subseteq Int /\ {0, 59} \subseteq Int /\ {-1, 1, 153, 2000} \subseteq Int
      /\ {0, 360, 511} \subseteq Int /\ {0, 127} \subseteq Int
  BY <1>0
<1>s1. ASSUME NEW q \in {L!Null, 1, 2, 3, 5, 10, 11, 19, 20, 21}, L!Post(d, L!Flash(d[2], q), L!Want("blink", q))
       PROVE  LightInv'
  BY <1>3, <1>9, <1>s1
<1>s2. ASSUME NEW w \in {30, 31}, NEW n \in {L!Null, 1, 100}, L!Post(d, L!Step(d[2], w, n, 0), L!NoWant)
       PROVE  LightInv'
  BY <1>4, <1>9, <1>s2
<1>s3. ASSUME NEW h \in {0, 255}, NEW m \in {0, 59}, NEW s \in {0, 59},
              L!Post(d, L!SetVariableTimer(d[2], h, m, s), L!Want("time", << h, m, s >>))
       PROVE  LightInv'
  <2>1. h \in Int /\ m \in Int /\ s \in Int
    BY <1>9
  <2> QED
    BY <1>5, <1>s3, <2>1
<1>s4. ASSUME NEW n \in {-1, 1, 153, 2000},
              L!Post(d, L!SetColorTemperature(d[2], n), L!Want("colour", << L!Clamp(50, 1000, n) >>))
       PROVE  LightInv'
  <2>1. n \in Int
    BY <1>9
  <2> QED
    BY <1>6, <1>s4, <2>1
<1>s5. ASSUME NEW h \in {0, 360, 511}, NEW s \in {0, 127}, NEW v \in {0, 255},
              L!Post(d, L!SetHsvColor(d[2], h, s, v),
                     L!Want("colour", << L!Clamp(0, 359, h), L!Clamp(0, 100, s), L!Clamp(0, 100, v) >>))
       PROVE  LightInv'
  <2>1. h \in Int /\ s \in Int /\ v \in Int
    BY <1>9
  <2> QED
    BY <1>7, <1>s5, <2>1
<1> DEFINE P1 == \E s \in {L!Null, 0, 255} : L!Post(d, L!SwitchOn(d[2], s), L!Want("on", 0))
           P2 == \E w \in 11 .. 18 : L!Post(d, L!SwitchOnTimed(d[2], w), L!Want("timer", L!FixedTimer[w]))
           P3 == \E q \in {L!Null, 1, 2, 3, 5, 10, 11, 19, 20, 21} : L!Post(d, L!Flash(d[2], q), L!Want("blink", q))
           P4 == \E w \in {30, 31}, n \in {L!Null, 1, 100} : L!Post(d, L!Step(d[2], w, n, 0), L!NoWant)
           P5 == \E h \in {0, 255}, m \in {0, 59}, s \in {0, 59} :
                   L!Post(d, L!SetVariableTimer(d[2], h, m, s), L!Want("time", << h, m, s >>))
           P6 == \E n \in {-1, 1, 153, 2000} :
                   L!Post(d, L!SetColorTemperature(d[2], n), L!Want("colour", << L!Clamp(50, 1000, n) >>))
           P7 == \E h \in {0, 360, 511}, s \in {0, 127}, v \in {0, 255} :
                   L!Post(d, L!SetHsvColor(d[2], h, s, v),
                          L!Want("colour", << L!Clamp(0, 359, h), L!Clamp(0, 100, s), L!Clamp(0, 100, v) >>))
<1>p. P1 \/ P2 \/ P3 \/ P4 \/ P5 \/ P6 \/ P7
  BY <1>8
<1>p1. P1 => LightInv'
  BY <1>1
<1>p2. P2 => LightInv'
  BY <1>2
<1>p3. P3 => LightInv'
  BY <1>s1
<1>p4. P4 => LightInv'
  BY <1>s2
<1>p5. P5 => LightInv'
  BY <1>s3
<1>p6. P6 => LightInv'
  BY <1>s4
<1>p7. P7 => LightInv'
  BY <1>s5
<1> HIDE DEF P1, P2, P3, P4, P5, P6, P7
<1> QED
  BY <1>p, <1>p1, <1>p2, <1>p3, <1>p4, <1>p5, <1>p6, <1>p7


(* What the lights and the decoders do. *)
LEMMA OrderStays ==
  ASSUME NEW f, NEW w, NEW co, NEW after, LightOrder(f, w, co), w.kind # "dim"
  PROVE  LightOrder(f, w, after)
<1>1. ASSUME NEW p \in 2 .. 10, PresetOrder(f, w, co, p) PROVE PresetOrder(f, w, after, p)
  BY <1>1 DEF PresetOrder, IsWant
<1>2. ASSUME NEW n \in 0 .. 100, NEW v, LevelOrder(f, w, co, n, v) PROVE LevelOrder(f, w, after, n, v)
  BY <1>2 DEF LevelOrder, IsWant
<1> QED
  BY <1>1, <1>2 DEF LightOrder

LEMMA OrderForgone ==
  ASSUME NEW f, NEW w, NEW co, NEW after, LightOrder(f, w, co), w.kind = "dim"
  PROVE  LightOrder(f, L!NoWant, after)
<1>1. ASSUME OffOrder(f, w) PROVE OffOrder(f, L!NoWant)
  BY <1>1, NothingWanted DEF OffOrder, AnyOrDim
<1>2. ASSUME NEW p \in 2 .. 10, PresetOrder(f, w, co, p) PROVE PresetOrder(f, L!NoWant, after, p)
  BY <1>2, NothingWanted DEF PresetOrder
<1>3. ASSUME NEW n \in 0 .. 100, NEW v, LevelOrder(f, w, co, n, v) PROVE LevelOrder(f, L!NoWant, after, n, v)
  BY <1>3, NothingWanted DEF LevelOrder
<1>4. ASSUME NEW p, TimedOrder(f, w, p) PROVE FALSE
  BY <1>4 DEF TimedOrder, L!Want
<1>5. ASSUME NEW p, BlinkOrder(f, w, p) PROVE FALSE
  BY <1>5 DEF BlinkOrder
<1>6. ASSUME OnOrder(f, w) PROVE FALSE
  BY <1>6 DEF OnOrder
<1>7. ASSUME NEW p, StepOrder(f, w, p) PROVE FALSE
  BY <1>7 DEF StepOrder, WantsAny
<1>8. ASSUME AskOrder(f, w) PROVE FALSE
  BY <1>8 DEF AskOrder, WantsAny
<1>9. ASSUME NEW v, TimeOrder(f, w, v) PROVE FALSE
  BY <1>9 DEF TimeOrder, L!Want
<1>10. ASSUME NEW p, NEW v, ColourOrder(f, w, p, v) PROVE FALSE
  BY <1>10 DEF ColourOrder, L!Want
<1>11. \/ OffOrder(f, w)
       \/ \E p \in 2 .. 10 : PresetOrder(f, w, co, p)
       \/ \E n \in 0 .. 100 : \E v : LevelOrder(f, w, co, n, v)
  BY <1>4, <1>5, <1>6, <1>7, <1>8, <1>9, <1>10 DEF LightOrder
<1> QED
  BY <1>1, <1>2, <1>3, <1>11 DEF LightOrder

(* An order that arrives, at the dimmer it was for or at the one replacing it. *)
LEMMA OrderArrives ==
  ASSUME NEW c, LightOrdered(c), NEW w, w = L!Expected(c), NEW d, d = c.to, NEW f, f = c.f
  PROVE  LightOrder(f, w, d \in coarse)
<1>0. PICK v : v = c.want
  OBVIOUS
<1>1. c.type \in {"coarse", "fine"} /\ LightOrder(f, v, c.type = "coarse")
  BY <1>0 DEF LightOrdered
<1>2. w = IF v.kind = "dim" /\ c.type # L!TypeOf(d) THEN L!NoWant ELSE v
  BY <1>0 DEF L!Expected
<1>3. (L!TypeOf(d) = "coarse") = (d \in coarse)
  BY DEF L!TypeOf
<1> DEFINE co == c.type = "coarse"
           after == d \in coarse
<1>4. c.type = L!TypeOf(d) => co = after
  BY <1>3
<1>5. LightOrder(f, v, co)
  BY <1>1
<1> HIDE DEF co, after
<1>6. CASE v.kind # "dim"
  <2>1. w = v
    BY <1>2, <1>6
  <2>2. LightOrder(f, v, after)
    BY <1>5, <1>6, OrderStays
  <2> QED
    BY <2>1, <2>2 DEF after
<1>7. CASE v.kind = "dim" /\ c.type # L!TypeOf(d)
  <2>1. w = L!NoWant
    BY <1>2, <1>7
  <2>2. LightOrder(f, L!NoWant, after)
    BY <1>5, <1>7, OrderForgone
  <2> QED
    BY <2>1, <2>2 DEF after
<1>8. CASE c.type = L!TypeOf(d)
  <2>1. w = v /\ co = after
    BY <1>2, <1>4, <1>8
  <2> QED
    BY <1>5, <2>1 DEF after
<1> QED
  BY <1>6, <1>7, <1>8

LEMMA LightObeys ==
  ASSUME LightInv, setup' = setup, L!Obey
  PROVE  LightInv'
<1>1. PICK house \in Houses : setup = house /\ BusOk(house.wire)
  BY DEF LightInv, LightBus
<1>2. PICK c : c = Head(commands)
  OBVIOUS
<1>3. PICK d : d = c.to
  OBVIOUS
<1>4. PICK f : f = c.f
  OBVIOUS
<1>5. PICK r : r = [from |-> d, f |-> L!Report(d, f).f, truth |-> L!Report(d, f).truth, want |-> L!Expected(c),
                    coarse |-> d \in coarse]
  OBVIOUS
<1>6. /\ commands # <<>> /\ commands' = Tail(commands) /\ reports' = Append(reports, r)
      /\ level' = [level EXCEPT ![d] = L!Obeyed(d, f)]
      /\ UNCHANGED << registry, coarse, learned >>
  BY <1>2, <1>3, <1>4, <1>5 DEF L!Obey
<1>7. /\ BusOk(house.wire)' /\ Shrinks(commands, commands') /\ Grows(reports, r, reports')
      /\ 1 \in DOMAIN commands /\ Head(commands) = commands[1]
  BY <1>1, <1>6, BusAnswers
<1>8. LightOrdered(c)
  BY <1>2, <1>7 DEF LightInv
<1>w. PICK w : w = L!Expected(c)
  OBVIOUS
<1>9. d \in L!Lights /\ LightOrder(f, w, d \in coarse) /\ level[d] \in 0 .. 100
  <2>1. d \in L!Lights
    BY <1>3, <1>8 DEF LightOrdered
  <2>2. LightOrder(f, w, d \in coarse)
    BY <1>3, <1>4, <1>8, <1>w, OrderArrives
  <2> QED
    BY <2>1, <2>2 DEF LightInv, LightState
<1>10. Heard(r, d, f, w) /\ r.from = d
  BY <1>5, <1>w DEF Heard
<1>11. LightOutcome(r, d, f)
  BY <1>9, <1>10, OrderComesOut
<1>12. LightReported(r)
  BY <1>9, <1>10, <1>11 DEF LightReported, LightOutcome, Heard
<1>13. LightBus'
  BY <1>1, <1>7 DEF LightBus
<1>14. LightState'
  <2>1. L!Lights' = L!Lights /\ L!Gateways' = L!Gateways
    BY LightsStay
  <2>2. L!Obeyed(d, f) \in 0 .. 100
    BY <1>11 DEF LightOutcome
  <2>3. level' \in [L!Lights -> 0 .. 100]
    BY <1>6, <1>9, <2>2 DEF LightInv, LightState
  <2> QED
    BY <1>6, <2>1, <2>3 DEF LightInv, LightState, RegistryOk, LightKeys, Taught
<1>15. \A i \in DOMAIN commands' : LightOrdered(commands[i])'
  BY <1>6, <1>7, OrdersShrink DEF LightInv
<1>16. \A i \in DOMAIN reports' : LightReported(reports[i])'
  BY <1>7, <1>12, ReportsGrow DEF LightInv
<1> QED
  BY <1>13, <1>14, <1>15, <1>16 DEF LightInv

Sensed(d) == {L!Status(1, w, <<>>, d[2]) : w \in {19, 34, 39, 55}}
             \cup {L!DimensionReply(1, d[2], dim, << 0, 0, 45 >>) : dim \in {5, 6, 7}}

LEMMA SensedTells ==
  ASSUME NEW d, NEW f, f \in Sensed(d),
         NEW r, r.f = f, IsWant(r.truth, "none", 0)
  PROVE  LightTells(r)
<1>1. CASE f \in {L!Status(1, w, <<>>, d[2]) : w \in {19, 34, 39, 55}}
  <2>1. PICK w \in {19, 34, 39, 55} : f = L!Status(1, w, <<>>, d[2])
    BY <1>1
  <2>2. LightStatus(L!Status(1, w, <<>>, d[2]), w)
    BY LightFrames
  <2>3. LightStatus(r.f, w)
    BY <2>1, <2>2
  <2> QED
    BY <2>3, FaultTells
<1>2. CASE f \in {L!DimensionReply(1, d[2], dim, << 0, 0, 45 >>) : dim \in {5, 6, 7}}
  <2> DEFINE v == << 0, 0, 45 >>
  <2>1. PICK dim \in {5, 6, 7} : f = L!DimensionReply(1, d[2], dim, v)
    BY <1>2
  <2> HIDE DEF v
  <2>2. LightReply(L!DimensionReply(1, d[2], dim, v), dim, v)
    BY LightFrames
  <2>3. LightReply(r.f, dim, v)
    BY <2>1, <2>2
  <2> QED
    BY <2>3, SensorTells
<1> QED
  BY <1>1, <1>2 DEF Sensed

LEMMA LightSenses ==
  ASSUME LightInv, setup' = setup, NEW d \in L!Lights, L!Sense(d)
  PROVE  LightInv'
<1>1. PICK house \in Houses : setup = house /\ BusOk(house.wire)
  BY DEF LightInv, LightBus
<1>2. PICK f \in Sensed(d) :
        reports' = Append(reports, [from |-> d, f |-> f, truth |-> L!Want("none", 0), want |-> L!NoWant,
                                    coarse |-> d \in coarse])
  BY DEF L!Sense, Sensed
<1>3. PICK r : r = [from |-> d, f |-> f, truth |-> L!Want("none", 0), want |-> L!NoWant, coarse |-> d \in coarse]
  OBVIOUS
<1>4. /\ reports' = Append(reports, r) /\ commands' = commands /\ Len(commands) + Len(reports) < house.wire
      /\ UNCHANGED << registry, coarse, level, learned >>
  BY <1>1, <1>2, <1>3 DEF L!Sense, L!Wire, L!MaxWire
<1>5. BusOk(house.wire)' /\ Grows(reports, r, reports')
  BY <1>1, <1>4, BusTells
<1>6. r.from = d /\ r.f = f /\ r.truth = L!Want("none", 0) /\ r.want = L!NoWant /\ r.coarse \in BOOLEAN
  BY <1>3
<1>7. LightTells(r)
  <2>1. IsWant(r.truth, "none", 0)
    BY <1>6, WantIs
  <2> QED
    BY <1>6, <2>1, SensedTells
<1>8. LightReported(r)
  BY <1>6, <1>7, NothingWanted, AnyDone DEF LightReported
<1>9. LightBus'
  BY <1>1, <1>5 DEF LightBus
<1>10. LightState'
  BY <1>4, StateRests
<1>11. \A i \in DOMAIN commands' : LightOrdered(commands[i])'
  BY <1>4, OrdersRest
<1>12. \A i \in DOMAIN reports' : LightReported(reports[i])'
  BY <1>5, <1>8, ReportsGrow DEF LightInv
<1> QED
  BY <1>9, <1>10, <1>11, <1>12 DEF LightInv

LEMMA LightDecodes ==
  ASSUME LightInv, setup' = setup, L!Decode
  PROVE  LightInv'
<1>1. PICK house \in Houses : setup = house /\ BusOk(house.wire)
  BY DEF LightInv, LightBus
<1>2. PICK r : r = Head(reports)
  OBVIOUS
<1>3. PICK d : d = r.from
  OBVIOUS
<1>4. /\ reports # <<>> /\ reports' = Tail(reports) /\ UNCHANGED << coarse, level, commands >>
      /\ \/ /\ L!TellsSpeed(r.f) /\ registry' = L!Registered(d[2], d[1], L!SpeedIsCoarse(r.f))
            /\ learned' = [learned EXCEPT ![d] = IF r.coarse THEN "coarse" ELSE "fine"]
         \/ UNCHANGED << registry, learned >>
  BY <1>2, <1>3 DEF L!Decode
<1>5. BusOk(house.wire)' /\ Shrinks(reports, reports')
  BY <1>1, <1>4, BusTakes
<1>6. 1 \in DOMAIN reports /\ Head(reports) = reports[1]
  BY <1>1, <1>4, TailShrinks DEF BusOk
<1>7. LightReported(r)
  BY <1>2, <1>6 DEF LightInv
<1>8. d \in L!Lights /\ r.coarse \in BOOLEAN /\ (L!TellsSpeed(r.f) => L!SpeedIsCoarse(r.f) = r.coarse)
  BY <1>3, <1>7 DEF LightReported, LightTells
<1>9. LightBus'
  BY <1>1, <1>5 DEF LightBus
<1>10. LightState'
  <2>1. CASE UNCHANGED << registry, learned >>
    BY <1>4, <2>1, StateRests
  <2>2. CASE /\ L!TellsSpeed(r.f) /\ registry' = L!Registered(d[2], d[1], L!SpeedIsCoarse(r.f))
             /\ learned' = [learned EXCEPT ![d] = IF r.coarse THEN "coarse" ELSE "fine"]
    <3>0. L!Lights' = L!Lights /\ L!Gateways' = L!Gateways
      BY LightsStay
    <3> DEFINE k == << d[1], d[2] >>
    <3>1. PICK b \in BOOLEAN : b = r.coarse
      BY <1>8
    <3>2. registry' = L!Registered(d[2], d[1], b)
      BY <1>8, <2>2, <3>1
    <3>3. k = d /\ d[1] \in L!Gateways \cup {NoGateway} /\ d[2] \in LightWheres
      BY <1>8, LightIs
    <3>4. RegistryOk(registry)
      BY DEF LightInv, LightState
    <3>5. /\ RegistryOk(registry') /\ DOMAIN registry' = DOMAIN registry \cup {k} /\ registry'[k] = b
          /\ \A e \in DOMAIN registry : e # k => registry'[e] = registry[e]
      BY <3>2, <3>3, <3>4, Registering
    <3> HIDE DEF k
    <3>6. /\ registry'[d] = b /\ DOMAIN registry' = DOMAIN registry \cup {d}
          /\ \A e \in DOMAIN registry : e # d => registry'[e] = registry[e]
      BY <3>3, <3>5
    <3>7. learned \in [L!Lights -> Notes]
      BY DEF LightInv, LightState
    <3> DEFINE note == IF b THEN "coarse" ELSE "fine"
    <3>8. learned' = [learned EXCEPT ![d] = note]
      BY <2>2, <3>1
    <3>9. note \in Notes /\ note # "unknown" /\ (note = "coarse") = b
      BY DEF Notes
    <3> HIDE DEF note
    <3>10. learned' \in [L!Lights -> Notes] /\ learned'[d] = note /\ \A e \in L!Lights \ {d} : learned'[e] = learned[e]
      BY <1>8, <3>7, <3>8, <3>9
    <3>11. ASSUME NEW e \in L!Lights PROVE Taught(registry', learned', e)
      <4>1. CASE e = d
        <5>1. d \in DOMAIN registry' /\ registry'[d] = (note = "coarse") /\ learned'[d] = note
          BY <3>6, <3>9, <3>10
        <5> QED
          BY <3>9, <4>1, <5>1 DEF Taught
      <4>2. CASE e # d
        <5>1. Taught(registry, learned, e)
          BY DEF LightInv, LightState
        <5>2. learned'[e] = learned[e] /\ (e \in DOMAIN registry' <=> e \in DOMAIN registry)
          BY <3>6, <3>10, <4>2
        <5>3. e \in DOMAIN registry => registry'[e] = registry[e]
          BY <3>6, <4>2
        <5> QED
          BY <5>1, <5>2, <5>3 DEF Taught
      <4> QED
        BY <4>1, <4>2
    <3>12. RegistryOk(registry)'
      BY <3>0, <3>5 DEF RegistryOk, LightKeys
    <3>13. \A e \in L!Lights' : Taught(registry, learned, e)'
      BY <3>0, <3>11 DEF Taught
    <3> QED
      BY <1>4, <3>0, <3>10, <3>12, <3>13 DEF LightInv, LightState
  <2> QED
    BY <1>4, <2>1, <2>2
<1>11. \A i \in DOMAIN commands' : LightOrdered(commands[i])'
  BY <1>4, OrdersRest
<1>12. \A i \in DOMAIN reports' : LightReported(reports[i])'
  BY <1>5, ReportsShrink DEF LightInv
<1> QED
  BY <1>9, <1>10, <1>11, <1>12 DEF LightInv

LEMMA LightRegisters ==
  ASSUME FamiliesAssumption, LightInv, setup' = setup, NEW w \in LightWheres, NEW is \in BOOLEAN,
         L!RegisterUnscoped(w, is)
  PROVE  LightInv'
<1>1. registry' = L!Registered(w, NoGateway, is) /\ UNCHANGED << coarse, level, commands, reports, learned >>
  BY DEF L!RegisterUnscoped
<1> DEFINE k == << NoGateway, w >>
<1>2. RegistryOk(registry) /\ \A d \in L!Lights : Taught(registry, learned, d)
  BY DEF LightInv, LightState
<1>3. /\ RegistryOk(registry') /\ DOMAIN registry' = DOMAIN registry \cup {k}
      /\ \A e \in DOMAIN registry : e # k => registry'[e] = registry[e]
  <2> DEFINE key == NoGateway
  <2>1. key \in L!Gateways \cup {NoGateway} /\ registry' = L!Registered(w, key, is) /\ RegistryOk(registry)
    BY <1>1, <1>2
  <2>3. k = << key, w >>
    OBVIOUS
  <2> HIDE DEF key, k
  <2>4. w \in LightWheres /\ is \in BOOLEAN
    OBVIOUS
  <2>2. /\ RegistryOk(registry') /\ DOMAIN registry' = DOMAIN registry \cup {<< key, w >>}
        /\ \A e \in DOMAIN registry : e # << key, w >> => registry'[e] = registry[e]
    <3>1. PICK r : r = registry'
      OBVIOUS
    <3>2. r = L!Registered(w, key, is)
      BY <2>1, <3>1
    <3>3. /\ RegistryOk(r) /\ DOMAIN r = DOMAIN registry \cup {<< key, w >>} /\ r[<< key, w >>] = is
          /\ \A e \in DOMAIN registry : e # << key, w >> => r[e] = registry[e]
      BY <2>1, <2>4, <3>2, Registering
    <3> QED
      BY <3>1, <3>3
  <2> QED
    BY <2>2, <2>3
<1>4. ASSUME NEW d \in L!Lights PROVE d # k
  <2>1. NoGateway \notin L!Gateways
    BY HouseIs DEF LightInv, LightBus, L!Gateways
  <2> QED
    BY <2>1, LightIs
<1> HIDE DEF k
<1>0. L!Lights' = L!Lights /\ L!Gateways' = L!Gateways
  BY LightsStay
<1>5. ASSUME NEW d \in L!Lights PROVE Taught(registry', learned', d)
  <2>1. Taught(registry, learned, d) /\ learned' = learned
    BY <1>1, <1>2
  <2>2. d # k
    BY <1>4
  <2>3. d \in DOMAIN registry' <=> d \in DOMAIN registry
    BY <1>3, <2>2
  <2>4. d \in DOMAIN registry => registry'[d] = registry[d]
    BY <1>3, <2>2
  <2> QED
    BY <2>1, <2>3, <2>4 DEF Taught
<1>6. RegistryOk(registry)'
  BY <1>0, <1>3 DEF RegistryOk, LightKeys
<1>7. \A d \in L!Lights' : Taught(registry, learned, d)'
  BY <1>0, <1>5 DEF Taught
<1>8. LightState'
  BY <1>0, <1>1, <1>6, <1>7 DEF LightInv, LightState
<1>9. LightBus'
  BY <1>1, BusRests
<1> QED
  BY <1>1, <1>8, <1>9, OrdersRest, ReportsRest DEF LightInv

LEMMA LightForgets ==
  ASSUME LightInv, setup' = setup, NEW key, L!Clear(key)
  PROVE  LightInv'
<1> DEFINE gone == {e \in DOMAIN registry : key = NoGateway \/ e[1] = key}
<1>1. /\ registry' = [e \in DOMAIN registry \ gone |-> registry[e]]
      /\ learned' = [d \in L!Lights |-> IF d \in gone THEN "unknown" ELSE learned[d]]
      /\ UNCHANGED << coarse, level, commands, reports >>
  BY DEF L!Clear
<1> HIDE DEF gone
<1>2. RegistryOk(registry) /\ learned \in [L!Lights -> Notes] /\ \A d \in L!Lights : Taught(registry, learned, d)
  BY DEF LightInv, LightState
<1>0. L!Lights' = L!Lights /\ L!Gateways' = L!Gateways
  BY LightsStay
<1>3. DOMAIN registry' \subseteq DOMAIN registry /\ \A e \in DOMAIN registry' : registry'[e] = registry[e]
  BY <1>1
<1>4. RegistryOk(registry)'
  BY <1>0, <1>2, <1>3 DEF RegistryOk, LightKeys
<1>5. learned' \in [L!Lights -> Notes]
  BY <1>1, <1>2 DEF Notes
<1>6. ASSUME NEW d \in L!Lights PROVE Taught(registry', learned', d)
  <2>1. CASE d \in gone
    BY <1>1, <2>1 DEF Taught
  <2>2. CASE d \notin gone
    BY <1>1, <1>2, <2>2 DEF Taught
  <2> QED
    BY <2>1, <2>2
<1>7. \A d \in L!Lights' : Taught(registry, learned, d)'
  BY <1>0, <1>6 DEF Taught
<1>8. LightState'
  BY <1>0, <1>1, <1>4, <1>5, <1>7 DEF LightInv, LightState
<1>9. LightBus'
  BY <1>1, BusRests
<1> QED
  BY <1>1, <1>8, <1>9, OrdersRest, ReportsRest DEF LightInv

LEMMA LightReplaced ==
  ASSUME LightInv, setup' = setup, NEW d \in L!Lights, L!Replace(d)
  PROVE  LightInv'
<1>1. /\ coarse' = (IF d \in coarse THEN coarse \ {d} ELSE coarse \cup {d})
      /\ level' = [level EXCEPT ![d] = 0]
      /\ UNCHANGED << registry, commands, reports, learned >>
  BY DEF L!Replace
<1>0. L!Lights' = L!Lights /\ L!Gateways' = L!Gateways
  BY LightsStay
<1>3. coarse' \subseteq L!Lights /\ level' \in [L!Lights -> 0 .. 100]
  <2>1. coarse \subseteq L!Lights /\ level \in [L!Lights -> 0 .. 100]
    BY DEF LightInv, LightState
  <2>2. coarse' \subseteq L!Lights
    BY <1>1, <2>1
  <2>3. level' \in [L!Lights -> 0 .. 100]
    <3>1. 0 \in 0 .. 100
      OBVIOUS
    <3> QED
      BY <1>1, <2>1, <3>1
  <2> QED
    BY <2>2, <2>3
<1>4. RegistryOk(registry)' /\ \A e \in L!Lights' : Taught(registry, learned, e)'
  BY <1>0, <1>1 DEF LightInv, LightState, RegistryOk, LightKeys, Taught
<1>5. LightState'
  BY <1>0, <1>1, <1>3, <1>4 DEF LightInv, LightState
<1>6. LightBus'
  BY <1>1, BusRests
<1>7. \A i \in DOMAIN commands' : LightOrdered(commands[i])'
  BY <1>1, OrdersRest
<1>8. \A i \in DOMAIN reports' : LightReported(reports[i])'
  BY <1>1, ReportsRest
<1> QED
  BY <1>5, <1>6, <1>7, <1>8 DEF LightInv

LEMMA LightStep ==
  ASSUME FamiliesAssumption, LightInv, L!Next
  PROVE  LightInv'
<1>1. setup' = setup /\ L!Act
  BY DEF L!Next
<1>2. ASSUME NEW d \in L!Lights, L!Preset(d, 2) \/ L!Preset(d, 5) \/ L!Preset(d, 10) PROVE LightInv'
  <2>1. PICK p \in {2, 5, 10} : L!Preset(d, p)
    BY <1>2
  <2>2. LightOrder(L!SetBrightnessPreset(d[2], p), L!NoWant, L!TypeOf(d) = "coarse")
    BY PresetIsOrder
  <2> QED
    BY <1>1, <2>1, <2>2, LightPosts DEF L!Preset
<1>3. ASSUME NEW d \in L!Lights, L!AskBrightness(d) PROVE LightInv'
  <2>1. LightOrder(L!GetBrightness(d[2]), L!NoWant, L!TypeOf(d) = "coarse")
    BY AskIsOrder
  <2> QED
    BY <1>1, <1>3, <2>1, LightPosts DEF L!AskBrightness
<1>4. ASSUME NEW d \in L!Lights, NEW l \in L!Levels, NEW key, L!Dim(d, l, key) PROVE LightInv'
  BY <1>1, <1>4, LightDims
<1>5. ASSUME NEW d \in L!Lights, L!Command(d) \/ L!Sense(d) \/ L!Replace(d) PROVE LightInv'
  BY <1>1, <1>5, LightCommands, LightSenses, LightReplaced
<1>6. ASSUME L!Obey \/ L!Decode PROVE LightInv'
  BY <1>1, <1>6, LightObeys, LightDecodes
<1>7. ASSUME NEW w \in LightWheres, NEW is \in BOOLEAN, L!RegisterUnscoped(w, is) PROVE LightInv'
  BY <1>1, <1>7, LightRegisters
<1>8. ASSUME NEW key, L!Clear(key) PROVE LightInv'
  BY <1>1, <1>8, LightForgets
<1>9. \/ \E d \in L!Lights :
           \/ \E l \in L!Levels, key \in L!Gateways \cup {NoGateway} : L!Dim(d, l, key)
           \/ L!Preset(d, 2) \/ L!Preset(d, 5) \/ L!Preset(d, 10)
           \/ L!AskBrightness(d) \/ L!Command(d) \/ L!Sense(d) \/ L!Replace(d)
      \/ L!Obey \/ L!Decode
      \/ \E w \in LightWheres, is \in BOOLEAN : L!RegisterUnscoped(w, is)
      \/ \E key \in L!Gateways \cup {NoGateway} : L!Clear(key)
  BY <1>1 DEF L!Act
<1> QED
  BY <1>2, <1>3, <1>4, <1>5, <1>6, <1>7, <1>8, <1>9


(************************* the families together *************************)

(* What is under way, in the family this behaviour is about. *)
FamilyInv ==
  /\ about = "meters" => MeterInv
  /\ about = "clock" => ClockInv
  /\ about = "doors" => DoorInv
  /\ about = "sound" => SoundInv
  /\ about = "heating" => HeatInv
  /\ about = "lights" => LightInv

LEMMA FamiliesStart ==
  ASSUME FamiliesInit, FamiliesAssumption
  PROVE  FamilyInv
BY MeterStarts, ClockStarts, DoorStarts, SoundStarts, HeatStarts, LightStarts DEF FamiliesInit, FamilyInv

LEMMA FamiliesRest ==
  ASSUME UNCHANGED familyVars
  PROVE  /\ MeterInv => MeterInv'
         /\ ClockInv => ClockInv'
         /\ DoorInv => DoorInv'
         /\ SoundInv => SoundInv'
         /\ HeatInv => HeatInv'
         /\ LightInv => LightInv'
<1>1. UNCHANGED <<about, commands, reports, today, ticks, breaker, now, clock, tz, late, astray>>
  BY DEF familyVars, meters, clocks
<1>0. UNCHANGED <<setup, registry, coarse, level, learned>>
  BY DEF familyVars, lights
<1>2. MeterInv => MeterInv'
  BY <1>1 DEF MeterInv, MeterBus, MeterPlant, BusOk
<1>3. ClockInv => ClockInv'
  BY <1>1 DEF ClockInv, ClockBus, ClockTime, ClockError
<1>4. DoorInv => DoorInv'
  BY <1>1 DEF DoorInv, BusOk
<1>5. SoundInv => SoundInv'
  BY <1>1 DEF SoundInv, BusOk
<1>6. HeatInv => HeatInv'
  BY <1>1 DEF HeatInv, BusOk
<1>7. LightInv => LightInv'
  BY <1>0, <1>1, BusRests, StateRests, OrdersRest, ReportsRest DEF LightInv
<1> QED
  BY <1>2, <1>3, <1>4, <1>5, <1>6, <1>7

LEMMA FamiliesStep ==
  ASSUME FamilyInv, FamiliesAssumption, [FamiliesNext]_familyVars
  PROVE  FamilyInv'
<1>1. CASE FamiliesNext
  <2>1. /\ about' = about /\ (about = "meters" => E!Next) /\ (about = "clock" => C!Next)
        /\ (about = "doors" => D!Next) /\ (about = "sound" => S!Next)
        /\ (about = "heating" => H!Next) /\ (about = "lights" => L!Next)
    BY <1>1 DEF FamiliesNext, Dispatch_Next, Lighting_Next, Heating_Next, Sound_Next, DoorEntry_Next,
         Energy_Next, Clock_Next, Bus_Only
  <2> QED
    BY <2>1, MeterStep, ClockStep, DoorStep, SoundStep, HeatStep, LightStep DEF FamilyInv
<1>2. CASE UNCHANGED familyVars
  <2>1. about' = about
    BY <1>2 DEF familyVars
  <2> QED
    BY <1>2, <2>1, FamiliesRest DEF FamilyInv
<1> QED
  BY <1>1, <1>2

LEMMA FamiliesHold == FamiliesSpec => []FamilyInv
<1>1. FamiliesInit => FamilyInv
  BY FamiliesStart, FamiliesAssumption
<1>2. FamilyInv /\ [FamiliesNext]_familyVars => FamilyInv'
  BY FamiliesStep, FamiliesAssumption
<1> QED
  BY <1>1, <1>2, PTL DEF FamiliesSpec

(* Samples and tables get the year that SamplesAreDated and TablesAreDated *)
(* say, at New Year, on leap days and over midnight, and the clock is      *)
(* right in every time zone, but for whole days that date and time were    *)
(* set apart.                                                              *)
THEOREM DatesAlwaysRight == FamiliesSpec => []DatesAreRight
<1>1. FamilyInv => DatesAreRight
  BY MeterSays, ClockSays DEF FamilyInv, DatesAreRight
<1> QED
  BY <1>1, FamiliesHold, PTL

(* An event says of the plant what was so when its report left it, and     *)
(* nothing of anything else, in each of the six families.  A preset of a   *)
(* light is misread only where Lighting!Misplaced says.                    *)
THEOREM EventsAlwaysTell == FamiliesSpec => []EventsTellTheTruth
<1>1. FamilyInv => EventsTellTheTruth
  BY FamiliesAssumption, LightSaysAll, HeatSaysAll, SoundSaysAll, MeterSays, DoorSaysAll, ClockSays
     DEF FamilyInv, EventsTellTheTruth
<1> QED
  BY <1>1, FamiliesHold, PTL

(* A command is a legal frame, reaches whom its caller means and has the   *)
(* effect the caller asked for; what a plant has reported of a dimmer      *)
(* decides how it is commanded.                                            *)
THEOREM CommandsAlwaysObeyed == FamiliesSpec => []CommandsAreObeyed
<1>1. FamilyInv => CommandsAreObeyed
  BY FamiliesAssumption, LightSaysAll, HeatSaysAll, SoundSaysAll, DoorSaysAll DEF FamilyInv, CommandsAreObeyed
<1> QED
  BY <1>1, FamiliesHold, PTL
=============================================================================

------------------------------ MODULE Dispatch ------------------------------
(***************************************************************************)
(* Which object a line becomes.  A line is taken apart twice:              *)
(* OWNMessage.parse tries the regular expressions in one order to choose a *)
(* class, and OWNMessage.__init__ tries them in another to fill the object *)
(* in.  Both are modelled over the shape of the text: the leading sign, the *)
(* WHO and the kind of every field between two stars.                      *)
(***************************************************************************)
EXTENDS Integers, Sequences

CONSTANTS Whos,      \* values of the WHO field that occur
          Numbers,   \* values of the WHAT, or of the DIMENSION
          MaxFields  \* bound of the model: fields after WHO

ASSUME DispatchAssumption == Whos \subseteq Nat /\ Numbers \subseteq Nat /\ MaxFields \in Nat

NoWho == -1 \* the frames *#*1## and *#*0##

(* "n" digits, "n#" digits and #-parameters, "#n" the same after a sharp,  *)
(* "" an empty field, "t" a sharp and a temperature, "a" two or more       *)
(* #-separated character codes, "x" anything else.                         *)
Kinds == {"n", "n#", "#n", "", "t", "a", "x"}

Lines ==
  [hash : BOOLEAN, who : Whos, number : Numbers,
   fields : UNION {[1 .. n -> Kinds] : n \in 0 .. MaxFields}]
    \cup [hash : {TRUE}, who : {NoWho}, number : {0, 1}, fields : {<<"n">>}]

VARIABLES line,   \* the text at hand
          step,   \* "text", or what was done with it: "parsed" or "built"
          class,  \* the class OWNMessage.parse gives it
          type    \* _message_type of the object
vars == <<line, step, class, type>>

Digits   == {"n", "n#", "a"}
Sharp    == {"#n", "t"}
Address  == Digits \cup Sharp
Plain(fields) == \A i \in DOMAIN fields : fields[i] \in {"n", ""}
Values(l) == SubSeq(l.fields, 3, Len(l.fields))

(* The regular expressions of OWNMessage. *)
Ack(l)   == l.who = NoWho /\ l.number = 1
Nack(l)  == l.who = NoWho /\ l.number = 0
Session(l) == ~l.hash /\ l.who = 99 /\ l.fields = <<"n">> /\ l.number \in {0, 1}
Sha(l)   == ~l.hash /\ l.who = 98 /\ l.fields = <<"n">> /\ l.number \in 0 .. 9
Nonce(l) == l.hash /\ l.who >= 1000 /\ l.fields = <<>>

StatusShape(l) ==
  /\ ~l.hash
  /\ \/ Len(l.fields) = 2 /\ l.fields[1] \in Digits /\ l.fields[2] \in Address
     \/ /\ Len(l.fields) = 3 /\ l.fields[1] \in Digits
        /\ l.fields[2] = "" /\ l.fields[3] \in Sharp \cup {""}
AlarmEmptyWhere(l) ==
  ~l.hash /\ l.who = 5 /\ Len(l.fields) = 2 /\ l.fields[1] \in Digits /\ l.fields[2] = ""
DoorEntryShort(l) ==
  ~l.hash /\ l.who = 6 /\ l.number = 9 /\ l.fields \in {<<"n">>, <<"n", "">>}
StatusRequestShape(l) ==
  /\ l.hash /\ l.who # NoWho
  /\ \/ l.fields = <<>>
     \/ Len(l.fields) = 1 /\ l.fields[1] \in Address
OfDimension(l, kinds) ==
  /\ l.hash /\ l.who # NoWho /\ Len(l.fields) >= 2
  /\ l.fields[1] \in Address \cup {""} /\ l.fields[2] \in kinds
DimensionRequestShape(l) == OfDimension(l, Digits) /\ Len(l.fields) = 2
(* Mutant: the pattern of a reply also takes a written dimension. *)
DimensionReplyLoose(l) ==
  OfDimension(l, Digits \cup {"#n"}) /\ Len(l.fields) > 2 /\ Plain(Values(l))
DimensionReplyShape(l) ==
  OfDimension(l, Digits) /\ Len(l.fields) > 2 /\ Plain(Values(l))
DimensionWritingShape(l) ==
  OfDimension(l, Sharp) /\ Len(l.fields) > 2 /\ Plain(Values(l))
HashValueReply(l) ==
  /\ OfDimension(l, {"n"})
  /\ \/ /\ l.who = 4 /\ l.number = 14 /\ l.fields[1] # ""
        /\ Values(l) \in {<<"t">>, <<"t", "n">>}
     \/ /\ l.who = 13 /\ l.number = 27 /\ l.fields[1] = ""
        /\ Values(l) = <<"a">>

(* The tables the register_* calls of the WHO modules fill. *)
EventParsers   == {0, 1, 2, 3, 4, 5, 6, 8, 9, 13, 14, 15, 16, 17, 18, 22, 25, 1001, 1004, 1013}
CommandParsers == EventParsers \ {0, 9, 1001}

ParseEvent(l) == IF l.who \in EventParsers THEN "event" ELSE "OWNEvent"
ParseCommand(l) ==
  IF l.who \in CommandParsers THEN "command"
  ELSE IF l.who \in {0, 24} \/ l.who > 1000 THEN "OWNCommand"
  ELSE IF l.who \in {7, 9}
       THEN IF StatusRequestShape(l) THEN "OWNStatusRequest" ELSE "OWNCommand"
  ELSE "None"

(* Mutant: the replies with a sharp in a value are filled in but not parsed. *)
ParseWithoutHash(l) ==
  IF StatusShape(l) \/ AlarmEmptyWhere(l) \/ DoorEntryShort(l) \/ DimensionReplyShape(l)
  THEN ParseEvent(l) ELSE "None"
Parse(l) ==
  IF Ack(l) \/ Nack(l) \/ Session(l) \/ Nonce(l) \/ Sha(l) THEN "OWNSignaling"
  ELSE IF \/ StatusShape(l) \/ AlarmEmptyWhere(l) \/ DoorEntryShort(l)
          \/ DimensionReplyShape(l) \/ HashValueReply(l) THEN ParseEvent(l)
  ELSE IF StatusRequestShape(l) \/ DimensionRequestShape(l) \/ DimensionWritingShape(l)
       THEN ParseCommand(l)
  ELSE "None"

(* OWNMessage.__init__ *)
TypeOf(l) ==
  IF StatusShape(l) \/ AlarmEmptyWhere(l) \/ DoorEntryShort(l) THEN "STATUS"
  ELSE IF StatusRequestShape(l) THEN "STATUS_REQUEST"
  ELSE IF DimensionRequestShape(l) THEN "DIMENSION_REQUEST"
  ELSE IF DimensionReplyShape(l) THEN "DIMENSION_REQUEST_REPLY"
  ELSE IF DimensionWritingShape(l) THEN "DIMENSION_WRITING"
  ELSE IF HashValueReply(l) THEN "DIMENSION_REQUEST_REPLY"
  ELSE "none"

Init == line \in Lines /\ step = "text" /\ class = "None" /\ type = "none"

(* A session hands a received line, or a string given to send(), to parse. *)
(* Mutant: the type is not kept. *)
ParseLineUntyped ==
  /\ step = "text" /\ step' = "parsed" /\ class' = Parse(line)
  /\ type' = "any" /\ UNCHANGED line
ParseLine ==
  /\ step = "text" /\ step' = "parsed"
  /\ class' = Parse(line)
  /\ type' = IF Parse(line) \in {"None", "OWNSignaling"} THEN "none" ELSE TypeOf(line)
  /\ UNCHANGED line

(* OWNStatusRequest.request(who, where) builds an object of its own. *)
RequestStatus ==
  /\ step = "text" /\ step' = "built"
  /\ StatusRequestShape(line)
  /\ class' = "OWNStatusRequest" /\ type' = TypeOf(line)
  /\ UNCHANGED line

Next == ParseLine \/ RequestStatus
Spec == Init /\ [][Next]_vars

EventTypes   == {"STATUS", "DIMENSION_REQUEST_REPLY"}
CommandTypes == {"STATUS_REQUEST", "DIMENSION_REQUEST", "DIMENSION_WRITING"}

TypeOK ==
  /\ line \in Lines /\ step \in {"text", "parsed", "built"}
  /\ class \in {"OWNSignaling", "event", "OWNEvent", "command", "OWNCommand",
                "OWNStatusRequest", "None"}
  /\ type \in EventTypes \cup CommandTypes \cup {"none"}

(* The two readings of one line agree: parse gives an event class exactly  *)
(* to the objects __init__ fills in as events, a command class to the      *)
(* other valid ones, and None or a signalling object to every line that    *)
(* __init__ would leave invalid.  The sessions act on the class, the       *)
(* decoders on the type.                                                   *)
ClassAgreesWithType ==
  step = "parsed" =>
    /\ (class \in {"event", "OWNEvent"}) <=> (type \in EventTypes)
    /\ (class \in {"command", "OWNCommand", "OWNStatusRequest"}) <=> (type \in CommandTypes)
    /\ (TypeOf(line) \in EventTypes) => (class # "None")

(* No line has two of the shapes, so that neither the order of the tests   *)
(* in parse nor the other order in __init__ decides what a line is.  The   *)
(* one exception is a nonce, which is also a status request of a WHO of    *)
(* four digits.                                                            *)
OneShape ==
  LET shapes == <<StatusShape(line) \/ AlarmEmptyWhere(line) \/ DoorEntryShort(line),
                  StatusRequestShape(line) /\ ~Nonce(line), DimensionRequestShape(line),
                  DimensionReplyShape(line), DimensionWritingShape(line),
                  HashValueReply(line), Ack(line) \/ Nack(line) \/ Session(line) \/ Nonce(line)
                                          \/ Sha(line)>>
  IN \A i, j \in DOMAIN shapes : shapes[i] /\ shapes[j] => i = j

(* A line has one reading: the class parse() picks is the one the object   *)
(* is filled in as (base.py:157, 259).                                     *)
LinesReadOneWay == TypeOK /\ ClassAgreesWithType /\ OneShape

(* base.py calls OWNStatusRequest "a status request that may target a      *)
(* whole subsystem", and send() takes a frame as an object or as a string. *)
(* So the request a builder made would be a request when its own text is   *)
(* given to send() instead, or is read back.                               *)
RequestReadsAsRequest ==
  step = "built" => Parse(line) # "OWNSignaling"
=============================================================================

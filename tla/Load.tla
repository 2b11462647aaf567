-------------------------------- MODULE Load --------------------------------
(***************************************************************************)
(* WHO 3: a central unit that sheds loads by priority and may be forced to *)
(* keep one, and its four measurements, told alone or together.            *)
(***************************************************************************)
EXTENDS OwnFrame

CONSTANTS
  Loads,    \* the priorities that have a load
  Tried,    \* priorities and dimensions a caller may try
  Readings, \* what the unit measures
  MaxWire   \* bound of the model: events under way

(* The unit has eight priorities; an unread value is none it measures.     *)
LoadAssumption ==
  Loads \subseteq 1 .. 8 /\ Tried \subseteq Int /\ Readings \subseteq Nat /\ MaxWire \in Nat

Quantities == {"voltage", "current", "power", "energy"}

VARIABLES
  load,  \* of each priority its last state, 0 .. 3
  told,  \* the measurements, as they were last told
  order, \* the command under way, or none
  wire,  \* events under way
  known  \* [load, meter] as the consumer has them
vars == <<load, told, order, wire, known>>

Priority(n) == [hash |-> TRUE, n |-> n]   \* #1 .. #8
General == [hash |-> FALSE, n |-> 0]
ControlUnit == [hash |-> FALSE, n |-> 10]

(***************************** OWNLoadCommand *****************************)

(* Mutant: 0 and 9 are priorities. *)
IsPriorityWide(n) == n \in 0 .. 9
IsPriority(n) == n \in 1 .. 8
Force(n) == Status(3, 2, <<>>, Priority(n))
StatusOf(n) == StatusRequest(3, Priority(n))
RequestMeasurement(d) == DimensionRequest(3, ControlUnit, d)

Order ==
  /\ order = <<>> /\ UNCHANGED <<load, told, wire, known>>
  /\ \E n \in Tried :
       \/ IsPriority(n) /\ \E f \in {Force(n), StatusOf(n)} : order' = <<f>>
       \/ n \in 0 .. 4 /\ order' = <<RequestMeasurement(n)>>

(******************************** the unit ********************************)

Send(f) == Len(wire) < MaxWire /\ wire' = Append(wire, f) /\ UNCHANGED known
StateFrame(n, what) == Status(3, what, <<>>, Priority(n))

(* A forced load is kept until its forcing is removed. *)
Shed ==
  /\ UNCHANGED <<told, order>>
  /\ \/ \E n \in Loads, what \in 0 .. 3 :
          /\ what \in {0, 1} => load[n] # 2
          /\ what = 3 => load[n] = 2
          /\ load' = [load EXCEPT ![n] = what] /\ Send(StateFrame(n, what))
     \/ /\ \A n \in Loads : load[n] # 2
        /\ \E what \in {0, 1} :
             load' = [n \in Loads |-> what] /\ Send(Status(3, what, <<>>, General))

(* The dimensions of the unit: all of them, in this order, or one. *)
AllOrder == <<"voltage", "current", "power", "energy">>
Measure(d) ==
  \E r \in [Quantities -> Readings] :
    LET all == DimensionReply(3, ControlUnit, 0, [i \in 1 .. 4 |-> r[AllOrder[i]]])
        one == DimensionReply(3, ControlUnit, d, <<r[AllOrder[d]]>>)
    IN /\ told' = IF d = 0 THEN r ELSE [told EXCEPT ![AllOrder[d]] = r[AllOrder[d]]]
       /\ Send(IF d = 0 THEN all ELSE one)

Obey ==
  /\ order # <<>> /\ order' = <<>>
  /\ LET f == order[1]
         n == f.where.n
     IN \/ f.where.hash /\ n \notin Loads /\ UNCHANGED <<load, told, wire, known>>
        \/ /\ f.type = "STATUS" /\ n \in Loads
           /\ load' = [load EXCEPT ![n] = 2] /\ UNCHANGED told /\ Send(StateFrame(n, 2))
        \/ /\ f.type = "STATUS_REQUEST" /\ n \in Loads
           /\ Send(StateFrame(n, load[n])) /\ UNCHANGED <<load, told>>
        \/ f.type = "DIMENSION_REQUEST" /\ Measure(f.dim) /\ UNCHANGED load

(****************************** OWNLoadEvent ******************************)

State(f) == IF f.type = "STATUS" /\ f.what \in 0 .. 3 THEN f.what ELSE Null
IsMeasurement(f) == f.type = "DIMENSION_REQUEST_REPLY" /\ f.where = ControlUnit

(* The place of each quantity among all.  Mutant: as in P = V * I. *)
PlaceOfProduct(q) == CASE q = "power" -> 1 [] q = "voltage" -> 2 [] q = "current" -> 3 [] OTHER -> 4
Place(q) == CASE q = "voltage" -> 1 [] q = "current" -> 2 [] q = "power" -> 3 [] OTHER -> 4
Measured(f, q) ==
  CASE f.dim = 0 /\ Len(f.val) >= Place(q) -> f.val[Place(q)]
    [] f.dim = Place(q) /\ f.val # <<>> -> f.val[1]
    [] OTHER -> Null

(* Mutant: an event of all loads is of none. *)
ConcernsOne(f) == {n \in Loads : f.where = Priority(n)}
Concerns(f) == {n \in Loads : f.where \in {Priority(n), General}}

Follow(k, f) ==
  [load |-> [n \in Loads |-> IF n \in Concerns(f) /\ State(f) # Null THEN State(f) ELSE k.load[n]],
   meter |-> [q \in Quantities |-> IF IsMeasurement(f) /\ Measured(f, q) # Null
                                   THEN Measured(f, q) ELSE k.meter[q]]]
Take ==
  /\ wire # <<>> /\ wire' = Tail(wire) /\ UNCHANGED <<load, told, order>>
  /\ known' = Follow(known, Head(wire))

Init ==
  /\ load = [n \in Loads |-> 1] /\ told = [q \in Quantities |-> 0]
  /\ order = <<>> /\ wire = <<>>
  /\ known = [load |-> load, meter |-> told]

Next == Order \/ Shed \/ Obey \/ Take
Spec == Init /\ [][Next]_vars

(******************************* properties *******************************)

(* Besides the bounds: a command names a priority there is.                *)
TypeOK ==
  /\ Len(wire) <= MaxWire /\ Len(order) <= 1
  /\ \A i \in DOMAIN order : order[i].where.hash => order[i].where.n \in 1 .. 8

(* Once every event is taken the consumer has the state of each load: told *)
(* alone, for all at once, or when it was asked, in whatever order.        *)
LoadsKnown == wire = <<>> => known.load = load

(* Once every event is taken the consumer has each measurement as it was   *)
(* last told, alone or with the others, and none under another's name.     *)
MeterKnown == wire = <<>> => known.meter = told
=============================================================================

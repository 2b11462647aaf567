------------------------------ MODULE Shutter ------------------------------
(***************************************************************************)
(* WHO 2 and 14: shutters, and the lock of their actuators.  An advanced   *)
(* actuator reports its level, or that it does not know it, in dimension   *)
(* 10; a basic one only how it moves.  The bus repeats a command as a      *)
(* translation, whether the actuator obeys or is locked.  Two actuators    *)
(* may have one address on two local buses.                                *)
(***************************************************************************)
EXTENDS OwnFrame

CONSTANTS
  Advanced, Basic, \* WHERE of the actuators: [base, bus], the digits of each
  Bases,           \* addresses a caller may try to lock
  Spelled,         \* local buses as they are written
  Levels,          \* levels a caller may ask for
  Unknowns,        \* levels that stand for an unknown one
  MaxWire          \* bound of the model: events under way

Actuators == Advanced \cup Basic
NoBus == <<>>

(* An actuator reports its level or does not, and no unknown level is one. *)
ShutterAssumption ==
  /\ Advanced \cap Basic = {} /\ \A a \in Actuators : a = [base |-> a.base, bus |-> a.bus]
  /\ Unknowns \cap 0 .. 100 = {} /\ MaxWire \in Nat

VARIABLES
  plant,  \* of each shutter: dir (0 stands, 1 up, 2 down), goal, level, and
          \* whether its actuator is sure of the level
  locked, \* the actuators that are locked
  orders, \* commands under way, each with the actuator its caller means
  wire,   \* events under way
  known   \* the consumer: [dir, level, shut] of each, and who is locked
vars == <<plant, locked, orders, wire, known>>

(************************* _format_actuator_where *************************)

NumberOf(digits) ==
  CASE Len(digits) = 1 -> digits[1] [] Len(digits) = 2 -> 10 * digits[1] + digits[2]
    [] OTHER -> Null

(* is_apl_address *)
IsApl(base) ==
  \/ Len(base) = 2 /\ base[2] # 0
  \/ /\ Len(base) = 4
     /\ LET area == NumberOf(SubSeq(base, 1, 2))
            pl == NumberOf(SubSeq(base, 3, 4))
        IN pl \in (IF area \in {0, 10} THEN 1 ELSE 10) .. 15 /\ area <= 10

Refused == [base |-> <<>>, bus |-> NoBus] \* ValueError

(* Mutant: the bus is sent as it is spelled. *)
FormatAsSpelled(where, interface) ==
  LET bus == IF interface # NoBus THEN interface ELSE where.bus
  IN IF ~IsApl(where.base) \/ (bus # NoBus /\ NumberOf(bus) \notin 1 .. 9) THEN Refused
     ELSE [base |-> where.base, bus |-> bus]

(* The bus is written in the WHERE, or given besides. *)
FormatActuatorWhere(where, interface) ==
  LET bus == IF interface # NoBus THEN interface ELSE where.bus
  IN IF \/ where.bus # NoBus /\ interface # NoBus
        \/ ~IsApl(where.base)
        \/ bus # NoBus /\ NumberOf(bus) \notin 1 .. 9
     THEN Refused
     ELSE [base |-> where.base, bus |-> IF bus = NoBus THEN NoBus ELSE <<0, NumberOf(bus)>>]

(************* OWNAutomationCommand, OWNActuatorLockCommand ***************)

StatusOf(a) == StatusRequest(2, a)
GetShutterStatus(a) == DimensionRequest(2, a, 10)
MoveShutter(a, what) == Status(2, what, <<>>, a) \* stop_, raise_, lower_shutter
SetShutterLevel(a, n) == DimensionWriting(2, a, 11, <<n>>)
LockFrame(a, on) == Status(14, IF on THEN 0 ELSE 1, <<>>, a)

(* Mutant: a level that is no percentage is sent. *)
AnyLevel(n) == n >= 0
IsLevel(n) == n \in 0 .. 100

(* The answer of a gateway that is built with this library. *)
ReportShutterLevel(a, n, state) == DimensionReply(2, a, 10, <<state, n, 0, 0>>)

Order(f, a) ==
  /\ orders = <<>> /\ orders' = <<[f |-> f, means |-> a]>>
  /\ UNCHANGED <<plant, locked, wire, known>>

Ask(a) == \E f \in {StatusOf(a), GetShutterStatus(a)} : Order(f, a)
Move(a) == \E what \in 0 .. 2 : Order(MoveShutter(a, what), a)
MoveTo(a) ==
  \E n \in Levels : a \in Advanced /\ IsLevel(n) /\ Order(SetShutterLevel(a, n), a)

(* The caller means the actuator on the bus of that number.                *)
Lock ==
  \E base \in Bases, written, given \in Spelled \cup {NoBus}, on \in BOOLEAN :
    LET target == FormatActuatorWhere([base |-> base, bus |-> written], given)
        bus == IF written = NoBus THEN given ELSE written
    IN /\ target # Refused
       /\ Order(LockFrame(target, on),
                [base |-> base, bus |-> IF bus = NoBus THEN bus ELSE <<0, NumberOf(bus)>>])

(******************************* the plant ********************************)

(* 11, 12: moved by hand; 13, 14: sent to a level. *)
Reports(a, s) ==
  IF a \in Basic THEN {MoveShutter(a, s.dir)}
  ELSE {ReportShutterLevel(a, n, IF s.goal = Null \/ s.dir = 0 THEN 10 + s.dir ELSE 12 + s.dir) :
          n \in IF s.sure THEN {s.level} ELSE Unknowns}

After(s, f) ==
  CASE f.type = "STATUS" -> [s EXCEPT !.dir = f.what, !.goal = Null]
    [] f.type = "DIMENSION_WRITING" /\ s.sure ->
         [s EXCEPT !.goal = f.val[1],
                   !.dir = CASE f.val[1] > s.level -> 1 [] f.val[1] < s.level -> 2 [] OTHER -> 0]
    [] OTHER -> s

Send(frames) == Len(wire) + Len(frames) <= MaxWire /\ wire' = wire \o frames
Translation(f) ==
  IF f.type = "STATUS" THEN <<Status(f.who, 1000, <<f.what>>, f.where)>> ELSE <<>>

Obey ==
  /\ orders # <<>> /\ orders' = <<>> /\ UNCHANGED known
  /\ LET f == orders[1].f
         a == f.where
         heeded == a \notin locked \/ f.type \in {"STATUS_REQUEST", "DIMENSION_REQUEST"}
     IN CASE a \notin Actuators -> UNCHANGED <<plant, locked, wire>>
          [] f.who = 14 /\ a \in Actuators ->
               /\ UNCHANGED plant
               /\ \/ /\ locked' = IF f.what = 0 THEN locked \cup {a} ELSE locked \ {a}
                     /\ Send(Translation(f) \o <<f>>)
                  \/ UNCHANGED locked /\ Send(Translation(f)) \* it knows no lock
          [] f.who = 2 /\ a \in Actuators /\ heeded ->
               /\ UNCHANGED locked
               /\ plant' = [plant EXCEPT ![a] = After(@, f)]
               /\ \E r \in Reports(a, plant'[a])
                       \cup (IF f.type = "STATUS_REQUEST" THEN {MoveShutter(a, plant[a].dir)}
                            ELSE {}) :
                    Send(Translation(f) \o <<r>>)
          [] OTHER -> Send(Translation(f)) /\ UNCHANGED <<plant, locked>>

(* A shutter passes 50 and reaches an end, where its actuator knows it.    *)
(* The level of a basic one, which nobody tells, is left alone.            *)
Travel(a) ==
  LET s == plant[a]
      there == IF s.level = 50 THEN (IF s.dir = 1 THEN 100 ELSE 0)
               ELSE IF a \in Advanced /\ (s.level = 0) = (s.dir = 1) THEN 50 ELSE s.level
      end == there # 50
  IN /\ s.dir # 0
     /\ plant' = [plant EXCEPT ![a] =
                    [dir |-> IF end \/ there = s.goal THEN 0 ELSE @.dir,
                     goal |-> IF end \/ there = s.goal THEN Null ELSE @.goal,
                     level |-> there, sure |-> @.sure \/ end]]
     /\ IF plant'[a].dir = 0 THEN \E r \in Reports(a, plant'[a]) : Send(<<r>>)
        ELSE UNCHANGED wire
     /\ UNCHANGED <<locked, orders, known>>

(* An advanced actuator comes back from a power cut. *)
PowerBack(a) ==
  /\ a \in Advanced
  /\ plant' = [plant EXCEPT ![a] = [dir |-> 0, goal |-> Null, level |-> @.level, sure |-> FALSE]]
  /\ \E r \in Reports(a, plant'[a]) : Send(<<r>>)
  /\ UNCHANGED <<locked, orders, known>>

(**************** OWNAutomationEvent, OWNActuatorLockEvent ****************)

(* OWNMessage.interface.  Mutant: WHO 14 is forgotten. *)
InterfaceOfShutters(f) == IF f.who = 2 THEN f.where.bus ELSE NoBus
Interface(f) == IF f.who \in {0, 1, 2, 14, 15, 1001} THEN f.where.bus ELSE NoBus
UniqueId(f) == [base |-> f.where.base, bus |-> Interface(f)]

(* Mutant: a translation is taken for the state. *)
StateOfAny(f) == IF f.dim = 10 THEN f.val[1] ELSE EffectiveWhat(f)
State(f) == IF f.dim = 10 THEN f.val[1] ELSE IF f.what # 1000 THEN f.what ELSE Null

PositionUnknown(f) == f.dim = 10 /\ f.val[2] \notin 0 .. 100

IsOpening(f) == State(f) \in {1, 11, 13}
IsClosing(f) == State(f) \in {2, 12, 14}
IsStopped(f) == State(f) \in {0, 10} \* neither of them, both known
IsClosed(f) ==
  CASE State(f) = 10 /\ ~PositionUnknown(f) -> IF f.val[2] = 0 THEN "closed" ELSE "open"
    [] State(f) \in 11 .. 14 -> "open"
    [] OTHER -> "none"

(* The consumer keeps what an event says nothing of. *)
Follow(k, f) ==
  LET a == UniqueId(f) IN
  IF f.who = 14
  THEN [k EXCEPT !.locked = CASE State(f) = 0 -> @ \cup {a} [] State(f) = 1 -> @ \ {a} [] OTHER -> @]
  ELSE [k EXCEPT
         !.dir[a] = CASE IsOpening(f) -> 1 [] IsClosing(f) -> 2 [] IsStopped(f) -> 0 [] OTHER -> @,
         !.level[a] = CASE PositionUnknown(f) -> Null
                        [] f.dim = 10 /\ ~PositionUnknown(f) -> f.val[2] [] OTHER -> @,
         !.shut[a] = CASE IsClosed(f) # "none" -> IsClosed(f)
                       [] IsClosed(f) = "none" /\ PositionUnknown(f) -> "none"
                       [] OTHER -> @]
Take ==
  /\ wire # <<>> /\ wire' = Tail(wire) /\ UNCHANGED <<plant, locked, orders>>
  /\ known' = Follow(known, Head(wire))

Init ==
  /\ plant = [a \in Actuators |-> [dir |-> 0, goal |-> Null, level |-> 0, sure |-> TRUE]]
  /\ locked = {} /\ orders = <<>> /\ wire = <<>>
  /\ known = [dir |-> [a \in Actuators |-> 0], locked |-> {},
              level |-> [a \in Actuators |-> IF a \in Basic THEN Null ELSE 0],
              shut |-> [a \in Actuators |-> IF a \in Basic THEN "none" ELSE "closed"]]

Next ==
  \/ \E a \in Actuators : Ask(a) \/ Move(a) \/ MoveTo(a) \/ Travel(a) \/ PowerBack(a)
  \/ Lock \/ Obey \/ Take
Spec == Init /\ [][Next]_vars

(******************************* properties *******************************)

(* Besides the bounds: no shutter is sent to a level there is not, and the *)
(* consumer believes in none.                                              *)
TypeOK ==
  /\ Len(wire) <= MaxWire /\ Len(orders) <= 1
  /\ \A a \in Actuators :
       plant[a].goal \in 0 .. 100 \cup {Null} /\ known.level[a] \in 0 .. 100 \cup {Null}

(* Once every event is taken the consumer has each shutter as it stands or *)
(* moves, whether a command was obeyed, echoed by the bus only, or cut off *)
(* by a power cut: no level it lost, and never closed while it moves.      *)
ShutterKnown ==
  wire = <<>> =>
    \A a \in Actuators :
      LET s == plant[a] IN
      /\ known.dir[a] = s.dir
      /\ a \in Basic => known.level[a] = Null /\ known.shut[a] = "none"
      /\ a \in Advanced /\ s.dir = 0 =>
           /\ known.level[a] = (IF s.sure THEN s.level ELSE Null)
           /\ known.shut[a] = (CASE ~s.sure -> "none" [] s.sure /\ s.level = 0 -> "closed"
                                 [] OTHER -> "open")
      /\ a \in Advanced /\ s.dir # 0 => known.shut[a] = "open"

(* A lock reaches the actuator its caller means, and no other of the same  *)
(* address on another bus, however the bus is spelled.                     *)
LockReaches == \A i \in DOMAIN orders : orders[i].f.where = orders[i].means

(* Once every event is taken the consumer knows which actuators of which   *)
(* bus are locked.                                                         *)
LocksKnown == wire = <<>> => known.locked = locked
=============================================================================

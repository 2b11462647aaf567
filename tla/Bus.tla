--------------------------------- MODULE Bus ---------------------------------
(***************************************************************************)
(* The way of a frame from a command builder to an event, shared by the    *)
(* modules of the WHO families: a command is built with something its      *)
(* caller wants, the plant carries it out and reports, or reports by       *)
(* itself with something it has to tell, and the event is decoded.         *)
(***************************************************************************)
EXTENDS OwnFrame

CONSTANT MaxWire \* bound of the model: frames under way

VARIABLES commands, \* frames built, each with what its caller wants
          reports   \* frames on the way back, each with what they have to tell
busVars == <<commands, reports>>

Refuse == [type |-> "refused"] \* the builder raised ValueError
Said(kind, n) == [kind |-> kind, n |-> n]
InRange(n, low, high, f) == IF n \in low .. high THEN f ELSE Refuse

Wire == Len(commands) + Len(reports)
BusInit == commands = <<>> /\ reports = <<>>

(* A caller builds f; a refused call sends nothing. *)
Post(f, kind, n) ==
  /\ Wire < MaxWire /\ f # Refuse
  /\ commands' = Append(commands, [f |-> f, said |-> Said(kind, n)])
  /\ UNCHANGED reports

(* The plant carries the first command out and reports one of its replies. *)
First == Head(commands).f
CarryOut(replies) ==
  /\ commands # <<>>
  /\ \E f \in replies :
       reports' = Append(reports, [f |-> f, said |-> Head(commands).said])
  /\ commands' = Tail(commands)

(* The plant reports by itself. *)
Tell(f, kind, n) ==
  /\ Wire < MaxWire
  /\ reports' = Append(reports, [f |-> f, said |-> Said(kind, n)])
  /\ UNCHANGED commands

(* The event is decoded, and taken. *)
Take == reports # <<>> /\ reports' = Tail(reports) /\ UNCHANGED commands

(* A dimension written is reported as its value. *)
AsReply(f) ==
  IF f.type = "DIMENSION_WRITING" THEN DimensionReply(f.who, f.where, f.dim, f.val) ELSE f

(* Every event under way is what Tells says of it. *)
Reported(Tells(_, _)) ==
  \A i \in DOMAIN reports : Tells(reports[i].f, reports[i].said)
=============================================================================

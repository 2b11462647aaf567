------------------------------ MODULE Scenario ------------------------------
(***************************************************************************)
(* WHO 0 and 17: the scenario modules of the bus, which are launched and   *)
(* programmed, and the scenes of an MH200, which run and are enabled.  One *)
(* WHAT carries two things at once in both families: a launch or a step of *)
(* programming, and whether a scene runs or whether it may.                *)
(***************************************************************************)
EXTENDS OwnFrame

CONSTANTS
  Modules, Numbers, \* WHERE of the scenario modules, their scenarios (1 .. 31)
  Scenes,           \* WHERE of the scenes
  MaxWire,          \* bounds of the model: events under way,
  MaxLaunch         \* and launches of a module

(* A scenario is no WHAT of programming, and no missing one.               *)
ScenarioAssumption == Numbers \subseteq 1 .. 31 /\ MaxWire \in Nat

VARIABLES
  module, \* of each module: saved scenarios, the one being programmed, locked
  starts, \* and how often it launched one
  on, enabled, \* the scenes that run, and those that may
  wire,   \* events under way
  known   \* [module, starts, on, enabled] as the consumer has them
vars == <<module, starts, on, enabled, wire, known>>

(***************************** OWNSceneCommand ****************************)

SceneFrame(s, what) == Status(17, what, <<>>, s) \* start, stop, enable, disable
StatusOf(s) == StatusRequest(17, s)

(********************* OWNScenarioEvent, OWNSceneEvent ********************)

(* The WHATs 40 .. 46.  Mutant: the two of the lock are swapped. *)
EventSwapped(f) ==
  CASE f.what = 40 -> "started" [] f.what = 41 -> "stopped" [] f.what = 42 -> "deleted"
    [] f.what = 43 -> "unlocked" [] f.what = 44 -> "locked"
    [] f.what = 45 -> "unavailable" [] f.what = 46 -> "full"
    [] f.what = Null -> "none" [] OTHER -> "launched"
Event(f) ==
  CASE f.what = 40 -> "started" [] f.what = 41 -> "stopped" [] f.what = 42 -> "deleted"
    [] f.what = 43 -> "locked" [] f.what = 44 -> "unlocked"
    [] f.what = 45 -> "unavailable" [] f.what = 46 -> "full"
    [] f.what = Null -> "none" [] OTHER -> "launched"

(* A launched scenario, and the one that is programmed.  Mutants: the      *)
(* refusals of programming are scenarios, the WHAT names the scenario.     *)
ScenarioUnlessDone(f) == IF f.what \in 40 .. 44 THEN Null ELSE f.what
Scenario(f) == IF f.what \in 40 .. 46 THEN Null ELSE f.what
ProgrammingWhat(f) == IF f.what \in 40 .. 46 THEN f.what ELSE Null
ProgrammingScenario(f) ==
  IF f.what \in 40 .. 46 /\ f.wpar # <<>> THEN f.wpar[1] ELSE Null

(* Mutant: whatever is no start is a stop. *)
IsOnElseOff(f) == IF f.what = 1 THEN "yes" ELSE "no"
IsOn(f) == CASE f.what = 1 -> "yes" [] f.what = 2 -> "no" [] OTHER -> "none"
IsEnabled(f) == CASE f.what = 3 -> "yes" [] f.what = 4 -> "no" [] OTHER -> "none"

(******************************* the plant ********************************)

Send(f) == Len(wire) < MaxWire /\ wire' = Append(wire, f) /\ UNCHANGED known
Tell(m, what, wpar) == Send(Status(0, what, wpar, m)) /\ UNCHANGED <<on, enabled>>

Launch(m) ==
  \E n \in module[m].saved :
    /\ starts[m] < MaxLaunch /\ starts' = [starts EXCEPT ![m] = @ + 1]
    /\ Tell(m, n, <<>>) /\ UNCHANGED module

Program(m) ==
  \E n \in Numbers :
    /\ UNCHANGED starts
    /\ \/ /\ module[m].busy = Null /\ ~module[m].locked
          /\ module' = [module EXCEPT ![m].busy = n] /\ Tell(m, 40, <<n>>)
       \/ UNCHANGED module /\ Tell(m, 46, <<n>>) \* memory full
       \/ UNCHANGED module /\ Tell(m, 45, <<>>)  \* unavailable

ProgramDone(m) ==
  LET n == module[m].busy IN
  /\ n # Null /\ UNCHANGED starts
  /\ module' = [module EXCEPT ![m].busy = Null, ![m].saved = @ \cup {n}]
  /\ Tell(m, 41, <<n>>)

Erase(m) ==
  /\ UNCHANGED starts /\ ~module[m].locked /\ module[m].busy = Null
  /\ \/ \E n \in Numbers :
          /\ module' = [module EXCEPT ![m].saved = @ \ {n}]
          /\ Tell(m, 42, <<n>>)
     \/ module' = [module EXCEPT ![m].saved = {}] /\ Tell(m, 42, <<>>)

Protect(m) ==
  /\ UNCHANGED starts /\ module[m].busy = Null
  /\ \E b \in BOOLEAN :
       /\ module' = [module EXCEPT ![m].locked = b]
       /\ Tell(m, IF b THEN 43 ELSE 44, <<>>)

(* A disabled scene does not start, and goes on if it runs. *)
Command(s) ==
  \E f \in {SceneFrame(s, what) : what \in 1 .. 4} :
    /\ f.what = 1 => s \in enabled
    /\ on' = CASE f.what = 1 -> on \cup {s} [] f.what = 2 -> on \ {s} [] OTHER -> on
    /\ enabled' = CASE f.what = 3 -> enabled \cup {s} [] f.what = 4 -> enabled \ {s}
                    [] OTHER -> enabled
    /\ Send(f) /\ UNCHANGED <<module, starts>>

Ask(s) ==
  /\ UNCHANGED <<module, starts, on, enabled>>
  /\ \E f \in {StatusOf(s)} :
       \/ Send(SceneFrame(f.where, IF s \in on THEN 1 ELSE 2))
       \/ Send(SceneFrame(f.where, IF s \in enabled THEN 3 ELSE 4))
       \/ Send(DimensionReply(17, f.where, 40, <<1>>))

(* The consumer keeps what an event says nothing of. *)
Kept(set, x, says) ==
  CASE says = "yes" -> set \cup {x} [] says = "no" -> set \ {x} [] OTHER -> set

FollowModule(k, f) ==
  LET m == f.where
      n == ProgrammingScenario(f)
      e == Event(f)
      s == k.module[m]
  IN [k EXCEPT
       !.starts[m] = @ + (IF Scenario(f) # Null THEN 1 ELSE 0),
       !.module[m] =
         [saved |-> CASE e = "stopped" -> s.saved \cup {n}
                      [] e = "deleted" -> IF n = Null THEN {} ELSE s.saved \ {n}
                      [] OTHER -> s.saved,
          busy |-> CASE e = "started" -> n [] e = "stopped" -> Null [] OTHER -> s.busy,
          locked |-> CASE e = "locked" -> TRUE [] e = "unlocked" -> FALSE [] OTHER -> s.locked]]

Follow(k, f) ==
  IF f.who = 0 THEN FollowModule(k, f)
  ELSE [k EXCEPT !.on = Kept(@, f.where, IsOn(f)), !.enabled = Kept(@, f.where, IsEnabled(f))]
Take ==
  /\ wire # <<>> /\ wire' = Tail(wire) /\ UNCHANGED <<module, starts, on, enabled>>
  /\ known' = Follow(known, Head(wire))

Init ==
  /\ module = [m \in Modules |-> [saved |-> {}, busy |-> Null, locked |-> FALSE]]
  /\ starts = [m \in Modules |-> 0] /\ on = {} /\ enabled = {} /\ wire = <<>>
  /\ known = [module |-> module, starts |-> starts, on |-> on, enabled |-> enabled]

Next ==
  \/ \E m \in Modules : Launch(m) \/ Program(m) \/ ProgramDone(m) \/ Erase(m) \/ Protect(m)
  \/ \E s \in Scenes : Command(s) \/ Ask(s)
  \/ Take
Spec == Init /\ [][Next]_vars

(******************************* properties *******************************)

(* Besides the bound: the consumer has no scenario there is not.           *)
TypeOK ==
  /\ Len(wire) <= MaxWire /\ known.on \cup known.enabled \subseteq Scenes
  /\ \A m \in Modules : known.module[m].saved \subseteq Numbers

(* Once every event is taken each launch is counted once; what becomes of  *)
(* a module's programming is never taken for a launch, at any time.        *)
LaunchesCounted ==
  /\ wire = <<>> => known.starts = starts
  /\ \A m \in Modules : known.starts[m] <= starts[m]

(* Once every event is taken the consumer has the scenarios of a module,   *)
(* one deleted or all, the one being programmed, and its lock.             *)
ModulesKnown == wire = <<>> => known.module = module

(* Once every event is taken the consumer has what runs and what may: an   *)
(* event about one of the two says nothing of the other.                   *)
ScenesKnown == wire = <<>> => known.on = on /\ known.enabled = enabled
=============================================================================

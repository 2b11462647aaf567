---------------------------- MODULE Diagnostics ----------------------------
(***************************************************************************)
(* WHO 1004, what is wrong with the devices of a heating plant.  All kinds *)
(* of devices share the numbers of the zones, and only the whole WHERE     *)
(* tells them apart: #0 and #0#2, #66, 66, 66#1, 166.  An address is its   *)
(* sharp, its digits and its parameter; a mask its length and the places   *)
(* of its zeros, which are the faults.                                     *)
(***************************************************************************)
EXTENDS OwnFrame, SequencesExt

CONSTANTS
  Devices,   \* [kind, n, zone, unit], unused ones Null
  Faults,    \* places in the masks
  Asked,     \* addresses a caller may try
  MaxFaulty, \* bounds of the model: devices with a fault,
  MaxWire    \* and events under way

VARIABLES
  faulty, \* of each device the faults
  wire,   \* events under way, with the device they are from and whether asked for
  known   \* the faults of each unique id, as the consumer has them
vars == <<faulty, wire, known>>

(* The devices of a plant, numbered as their addresses allow.              *)
DiagnosticsAssumption ==
  LET Numbered(kind, n, zone, unit) == [kind : {kind}, n : n, zone : zone, unit : unit]
      Units == {Null} \cup 1 .. 99
  IN /\ IsFiniteSet(Devices) /\ MaxWire \in Nat
     /\ Devices \subseteq
          Numbered("central", {Null}, {Null}, Units) \cup Numbered("zone", {Null}, 1 .. 99, Units)
          \cup Numbered("probe", {Null}, 1 .. 99, {Null})
          \cup Numbered("slave_probe", 1 .. 8, 1 .. 99, {Null})
          \cup Numbered("external_probe", 1 .. 9, {Null}, {Null})
          \cup Numbered("actuator", 1 .. 9, 1 .. 99, {Null})

Address(hash, digits, par) == [hash |-> hash, digits |-> digits, par |-> par]
DigitsOf(n) ==
  IF n < 10 THEN <<n>> ELSE IF n < 100 THEN <<n \div 10, n % 10>>
  ELSE <<n \div 100, (n \div 10) % 10, n % 10>>

AddressOf(d) ==
  CASE d.kind = "central" -> Address(TRUE, <<0>>, d.unit)
    [] d.kind = "zone" -> Address(TRUE, DigitsOf(d.zone), d.unit)
    [] d.kind = "probe" -> Address(FALSE, DigitsOf(d.zone), Null)
    [] d.kind = "slave_probe" -> Address(FALSE, DigitsOf(100 * d.n + d.zone), Null)
    [] d.kind = "external_probe" -> Address(FALSE, DigitsOf(100 * d.n), Null)
    [] d.kind = "actuator" -> Address(FALSE, DigitsOf(d.zone), d.n)

(********************* OWNHeatingDiagnosticCommand ************************)

Refused == Address(FALSE, <<>>, Null)
Zone(digits) == \* [1-9][0-9]?
  Len(digits) \in {1, 2} /\ digits[1] # 0
Slave(digits) == \* [1-8](0[1-9]|[1-9][0-9])
  Len(digits) = 3 /\ digits[1] \in 1 .. 8 /\ Tail(digits) # <<0, 0>>
External(digits) == \* [1-9]00
  Len(digits) = 3 /\ digits[1] # 0 /\ Tail(digits) = <<0, 0>>

IsCentral(w) == w.hash /\ w.digits = <<0>> /\ w.par \in {Null} \cup 1 .. 99
IsCentralZone(w) == w.hash /\ Zone(w.digits) /\ w.par \in {Null} \cup 1 .. 99
IsActuator(w) == ~w.hash /\ Zone(w.digits) /\ w.par \in 1 .. 9
IsExternal(w) == ~w.hash /\ External(w.digits) /\ w.par = Null
IsSlave(w) == ~w.hash /\ Slave(w.digits) /\ w.par = Null
IsProbe(w) == ~w.hash /\ Zone(w.digits) /\ w.par = Null

DeviceWhere(w) ==
  IF IsProbe(w) \/ IsActuator(w) \/ IsSlave(w) \/ IsExternal(w) THEN w ELSE Refused
(* Mutant: a bare zone stays the probe of that number. *)
ZoneWhereBare(w) == IF IsProbe(w) \/ IsCentral(w) \/ IsCentralZone(w) THEN w ELSE Refused
ZoneWhere(w) ==
  CASE IsProbe(w) -> Address(TRUE, w.digits, Null)
    [] IsCentral(w) \/ IsCentralZone(w) -> w
    [] OTHER -> Refused

Requests(w) ==
  {r \in {DimensionRequest(1004, DeviceWhere(w), dim) : dim \in {7, 11}}
         \cup {DimensionRequest(1004, ZoneWhere(w), 21)} : r.where # Refused}
  \cup (IF IsCentral(w) THEN {DimensionRequest(1004, w, dim) : dim \in {7, 11, 20, 23}} ELSE {})

(*********************** OWNHeatingDiagnosticEvent ************************)

Number(digits) == \* of one digit or two
  IF Len(digits) = 1 THEN digits[1] ELSE 10 * digits[1] + digits[2]
Told(scope, zone, n) == [scope |-> scope, zone |-> zone, n |-> n]

(* Mutant: what begins like a slave probe is one. *)
ScopeSlaveFirst(w) ==
  CASE ~w.hash /\ Len(w.digits) = 3 -> Told("slave_probe", Number(Tail(w.digits)), w.digits[1])
    [] IsCentral(w) -> Told("central", Null, Null)
    [] IsCentralZone(w) -> Told("zone", Number(w.digits), Null)
    [] IsActuator(w) -> Told("actuator", Number(w.digits), w.par)
    [] IsProbe(w) -> Told("probe", Number(w.digits), Null)
    [] OTHER -> Told("none", Null, Null)
Scope(w) ==
  CASE IsCentral(w) -> Told("central", Null, Null)
    [] IsCentralZone(w) -> Told("zone", Number(w.digits), Null)
    [] IsActuator(w) -> Told("actuator", Number(w.digits), w.par)
    [] IsExternal(w) -> Told("external_probe", Null, Null)
    [] IsSlave(w) -> Told("slave_probe", Number(Tail(w.digits)), w.digits[1])
    [] IsProbe(w) -> Told("probe", Number(w.digits), Null)
    [] OTHER -> Told("none", Null, Null)

MaskLength(f) ==
  CASE f.dim \in {7, 8, 11, 12} /\ Scope(f.where).scope \notin {"zone", "none"} -> 24
    [] f.dim \in {21, 22} /\ Scope(f.where).scope = "zone" -> 16
    [] OTHER -> Null

None == [len |-> Null, zeros |-> {}]
(* Mutant: the length of a mask is left unchecked. *)
MaskOfAnyLength(f) ==
  IF MaskLength(f) # Null /\ f.val # <<>> THEN f.val[1] ELSE None
DiagnosticMask(f) ==
  IF MaskLength(f) # Null /\ Len(f.val) = 1 /\ f.val[1].len = MaskLength(f)
  THEN f.val[1] ELSE None
HasCounts(f) == f.dim = 23 /\ Scope(f.where).scope = "central" /\ Len(f.val) = 2

(* _who1004_unique_id.  Mutant: OWNMessage.unique_id, without parameters.  *)
InheritedId(f) == [f.where EXCEPT !.par = Null]
UniqueId(f) == f.where

(******************************* the plant ********************************)

Reply(d, dim, val, asked) ==
  [f |-> DimensionReply(1004, AddressOf(d), dim, val), from |-> d, asked |-> asked]
MaskOf(d, faults) == [len |-> IF d.kind = "zone" THEN 16 ELSE 24, zeros |-> faults]
Counts == \* of the devices that are no central unit
  LET bad == {e \in Devices : e.kind # "central" /\ faulty[e] # {}}
  IN <<0, Cardinality(bad)>>

Send(events) == Len(wire) + Len(events) <= MaxWire /\ wire' = wire \o events /\ UNCHANGED known

(* A device fails or is mended, and says so. *)
Change(d) ==
  \E faults \in SUBSET Faults :
    /\ faults # faulty[d]
    /\ faulty' = [faulty EXCEPT ![d] = faults]
    /\ Cardinality({e \in Devices : faulty'[e] # {}}) <= MaxFaulty
    /\ Send(<<Reply(d, IF d.kind = "zone" THEN 22 ELSE 11, <<MaskOf(d, faults)>>, FALSE)>>)

(* A frame that is damaged: no mask is as long, or another value follows.  *)
Damage(d) ==
  /\ UNCHANGED faulty
  /\ \E val \in {<<[len |-> 8, zeros |-> Faults]>>,
                 <<MaskOf(d, Faults), MaskOf(d, Faults)>>} :
       Send(<<Reply(d, IF d.kind = "zone" THEN 22 ELSE 11, val, FALSE)>>)

(* Answers: of the zones of a central unit, of one device, of the counts.  *)
Answers(r) ==
  LET of(d) == Reply(d, IF r.dim = 20 THEN 21 ELSE r.dim, <<MaskOf(d, faulty[d])>>, TRUE)
      zones == {d \in Devices : d.kind = "zone" /\ d.unit = r.where.par
                                /\ (r.dim = 20 => faulty[d] # {})}
  IN CASE IsCentral(r.where) /\ r.dim \in {20, 21} -> SetToSeq({of(d) : d \in zones})
       [] r.dim = 23 -> <<Reply(CHOOSE d \in Devices : AddressOf(d) = r.where, 23, Counts, TRUE)>>
       [] OTHER -> <<of(CHOOSE d \in Devices : AddressOf(d) = r.where)>>

Ask ==
  /\ Len(wire) < MaxWire /\ UNCHANGED faulty
  /\ \E w \in Asked : \E r \in Requests(w) :
       /\ \E d \in Devices : AddressOf(d) = r.where
       /\ Send(Answers(r))

Follow(k, f) ==
  IF DiagnosticMask(f) = None THEN k
  ELSE [w \in DOMAIN k \cup {UniqueId(f)} |->
          IF w = UniqueId(f) THEN DiagnosticMask(f).zeros ELSE k[w]]
Take ==
  /\ wire # <<>> /\ wire' = Tail(wire) /\ UNCHANGED faulty
  /\ known' = Follow(known, Head(wire).f)

Init ==
  /\ faulty = [d \in Devices |-> {}] /\ wire = <<>>
  /\ known = [w \in {AddressOf(d) : d \in Devices} |-> {}]

Next == (\E d \in Devices : Change(d) \/ Damage(d)) \/ Ask \/ Take
Spec == Init /\ [][Next]_vars

(******************************* properties *******************************)

(* Besides the bound: no device is known that there is not.                *)
TypeOK ==
  /\ Len(wire) <= MaxWire
  /\ DOMAIN known = {AddressOf(d) : d \in Devices}
  /\ \A w \in DOMAIN known : known[w] \subseteq Faults

(* Once every event is taken the consumer has the faults of each device,   *)
(* and not those of another of the same numbers or of a damaged frame.     *)
FaultsKnown == wire = <<>> => \A d \in Devices : known[AddressOf(d)] = faulty[d]

(* An event names the device it is from.                                   *)
ScopesAreTrue ==
  \A i \in DOMAIN wire :
    LET d == wire[i].from
        s == Scope(wire[i].f.where)
    IN /\ s.scope = d.kind
       /\ d.kind \notin {"central", "external_probe"} => s.zone = d.zone
       /\ d.kind \in {"slave_probe", "actuator"} => s.n = d.n

(* Whatever a request builder lets through is answered with something the  *)
(* decoder reads: builders and decoder agree on which device has what.     *)
RequestsAreReadable ==
  \A i \in DOMAIN wire :
    wire[i].asked => DiagnosticMask(wire[i].f) # None \/ HasCounts(wire[i].f)
=============================================================================

-------------------------------- MODULE Cen --------------------------------
(***************************************************************************)
(* WHO 15 and 25: the buttons of scenario controllers, CEN and CEN+, and   *)
(* dry contacts.  What a user does with a button is a gesture of several   *)
(* frames, other ones in the two families; the consumer follows every      *)
(* button, and every contact, by the properties of the events.  A WHERE is *)
(* the sequence of its digits.                                             *)
(***************************************************************************)
EXTENDS OwnFrame, TLC

CONSTANTS
  Points,   \* WHERE of the CEN controllers
  Objects,  \* numbers of the CEN+ ones, without the 2 before them
  Sensors,  \* numbers of the contacts, without the 3 before them
  Buttons,  \* 0 .. 31
  MaxWire,  \* bounds of the model: frames under way,
  MaxPress  \* and short presses of a button

(* A number is written after the digit of its family, and is not empty.    *)
CenAssumption ==
  /\ Objects \subseteq Seq(0 .. 9) \ {<<>>} /\ Sensors \subseteq Seq(0 .. 9) \ {<<>>}
  /\ Buttons \subseteq 0 .. 31 /\ MaxWire \in Nat

Keys == {[plus |-> FALSE, at |-> p, button |-> b] : p \in Points, b \in Buttons}
        \cup {[plus |-> TRUE, at |-> o, button |-> b] : o \in Objects, b \in Buttons}

VARIABLES
  phase,    \* what each key is: "up", "down", "held"
  presses,  \* how often it was pressed for short
  closed,   \* the contacts that are closed
  wire,     \* frames under way
  known     \* [phase, presses, closed] as the consumer has them
vars == <<phase, presses, closed, wire, known>>

(**************** OWNCenCommand, OWNCenPlusCommand, plant ****************)

CenFrame(k, mark) == Status(15, k.button, mark, k.at)
PlusFrame(k, what) == Status(25, what, <<k.button>>, <<2>> \o k.at)

Press(k) == IF k.plus THEN PlusFrame(k, 21) ELSE CenFrame(k, <<>>)
ReleaseShortPress(k) == CenFrame(k, <<1>>)
StartLongPress(k) == IF k.plus THEN PlusFrame(k, 22) ELSE CenFrame(k, <<3>>)
StillHeld(k) == IF k.plus THEN PlusFrame(k, 23) ELSE CenFrame(k, <<3>>)
Release(k) == IF k.plus THEN PlusFrame(k, 24) ELSE CenFrame(k, <<2>>)
StatusOf(s) == StatusRequest(25, <<3>> \o s)
ContactFrame(s, on, detected) == Status(25, IF on THEN 31 ELSE 32, <<detected>>, <<3>> \o s)

(********* OWNCENEvent, OWNCENPlusEvent, OWNDryContactEvent, parser *******)

(* _parse_who25_event *)
Class(f) ==
  CASE f.who = 15 -> "cen"
    [] f.who = 25 /\ (f.type = "STATUS_REQUEST" \/ f.what \in {31, 32}) -> "contact"
    [] f.who = 25 /\ f.what \in 21 .. 28 -> "plus"
    [] f.who = 25 /\ f.what \in 11 .. 15 -> "scenario"
    [] OTHER -> "none"

(* The digit of the family is no part of the number.  Mutant: wherever it  *)
(* is found.                                                               *)
NumberAll(where, digit) == SelectSeq(where, LAMBDA d : d # digit)
Number(where, digit) ==
  IF Len(where) > 1 /\ where[1] = digit THEN Tail(where) ELSE where

Key(f) ==
  IF Class(f) = "plus"
  THEN [plus |-> TRUE, at |-> Number(f.where, 2),
        button |-> IF f.wpar # <<>> /\ f.wpar[1] \in 0 .. 31 THEN f.wpar[1] ELSE 0]
  ELSE [plus |-> FALSE, at |-> f.where, button |-> f.what]

Mark(f) == IF f.wpar = <<>> THEN Null ELSE f.wpar[1]
IsPressed(f) == Class(f) = "cen" /\ Mark(f) = Null
IsHeld(f) == (Class(f) = "cen" /\ Mark(f) = 3) \/ (Class(f) = "plus" /\ f.what \in {22, 23})
(* Mutant: a short press of CEN is told when it begins. *)
IsShortAtOnce(f) == (Class(f) = "cen" /\ Mark(f) \in {Null, 1}) \/ (Class(f) = "plus" /\ f.what = 21)
IsShort(f) == (Class(f) = "cen" /\ Mark(f) = 1) \/ (Class(f) = "plus" /\ f.what = 21)
(* Mutant: the release of the other family is not known. *)
IsReleasedCen(f) == Class(f) = "cen" /\ Mark(f) = 2
IsReleased(f) == (Class(f) = "cen" /\ Mark(f) = 2) \/ (Class(f) = "plus" /\ f.what = 24)
(* Mutant: only a change that was detected tells the state. *)
IsOnDetected(f) == f.what = 31 /\ Mark(f) = 1
IsOn(f) == f.what = 31

(******************************** the user ********************************)

Send(f) == Len(wire) < MaxWire /\ wire' = Append(wire, f) /\ UNCHANGED known
Moves(k, to) == phase' = [phase EXCEPT ![k] = to] /\ UNCHANGED closed
Counted(k) == presses[k] < MaxPress /\ presses' = [presses EXCEPT ![k] = @ + 1]

(* A CEN+ key tells of a press when it is over, or when it is a long one.  *)
Down(k) ==
  /\ phase[k] = "up" /\ Moves(k, "down") /\ UNCHANGED presses
  /\ IF k.plus THEN UNCHANGED <<wire, known>> ELSE Send(Press(k))
UpSoon(k) ==
  /\ phase[k] = "down" /\ Moves(k, "up") /\ Counted(k)
  /\ Send(IF k.plus THEN Press(k) ELSE ReleaseShortPress(k))
Hold(k) ==
  /\ phase[k] = "down" /\ Moves(k, "held") /\ UNCHANGED presses
  /\ Send(StartLongPress(k))
HoldOn(k) ==
  /\ phase[k] = "held" /\ UNCHANGED <<phase, presses, closed>>
  /\ Send(StillHeld(k))
UpLate(k) ==
  /\ phase[k] = "held" /\ Moves(k, "up") /\ UNCHANGED presses
  /\ Send(Release(k))

Toggle(s) ==
  /\ closed' = IF s \in closed THEN closed \ {s} ELSE closed \cup {s}
  /\ Send(ContactFrame(s, s \notin closed, 1))
  /\ UNCHANGED <<phase, presses>>
(* A contact that is asked, OWNDryContactCommand.status, tells its state.  *)
Asked(s) ==
  /\ \E f \in {StatusOf(s)} : Send(ContactFrame(Number(f.where, 3), s \in closed, 0))
  /\ UNCHANGED <<phase, presses, closed>>

(****************************** the consumer ******************************)

To(f, before) ==
  CASE IsPressed(f) -> "down" [] IsHeld(f) -> "held"
    [] IsShort(f) \/ IsReleased(f) -> "up" [] OTHER -> before
Follow(has, f) ==
  LET k == Key(f)
      s == Number(f.where, 3)
  IN CASE Class(f) \in {"cen", "plus"} ->
            LET old == IF k \in DOMAIN has.phase THEN has
                       ELSE [has EXCEPT !.phase = @ @@ (k :> "up"), !.presses = @ @@ (k :> 0)]
            IN [old EXCEPT !.phase[k] = To(f, @),
                           !.presses[k] = @ + IF IsShort(f) THEN 1 ELSE 0]
       [] Class(f) = "contact" ->
            [has EXCEPT !.closed = IF IsOn(f) THEN @ \cup {s} ELSE @ \ {s}]
       [] OTHER -> has
Take ==
  /\ wire # <<>> /\ known' = Follow(known, Head(wire))
  /\ wire' = Tail(wire) /\ UNCHANGED <<phase, presses, closed>>

Init ==
  /\ phase = [k \in Keys |-> "up"] /\ presses = [k \in Keys |-> 0] /\ closed = {}
  /\ wire = <<>>
  /\ known = [phase |-> phase, presses |-> presses, closed |-> closed]

Next ==
  \/ \E k \in Keys : Down(k) \/ UpSoon(k) \/ Hold(k) \/ HoldOn(k) \/ UpLate(k)
  \/ \E s \in Sensors : Toggle(s) \/ Asked(s)
  \/ Take
Spec == Init /\ [][Next]_vars

(******************************* properties *******************************)

(* Besides the bound: the consumer hears of no key that is not there.      *)
TypeOK ==
  /\ Len(wire) <= MaxWire
  /\ DOMAIN known.phase = Keys /\ known.closed \subseteq Sensors

(* Once every frame is taken the consumer has each key as it is, but for a *)
(* CEN+ key that is down and tells nothing yet.                            *)
KeysKnown ==
  wire = <<>> =>
    \A k \in Keys :
      known.phase[k] = IF k.plus /\ phase[k] = "down" THEN "up" ELSE phase[k]

(* No press is told twice or lost, and one that turns out long is no short *)
(* one, at any time.                                                       *)
PressesCounted ==
  /\ wire = <<>> => known.presses = presses
  /\ \A k \in Keys : known.presses[k] <= presses[k]

(* Once every frame is taken the consumer has each contact as it is.       *)
ContactsKnown == wire = <<>> => known.closed = closed
=============================================================================

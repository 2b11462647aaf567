----------------------------- MODULE DoorEntry -----------------------------
(***************************************************************************)
(* WHO 6, door entry, and WHO 8, the intercom: two dialects of one plant   *)
(* that use the same numbers for other things.  An address is its number.  *)
(* What an event tells is a set of statements <<what, detail, where>>:     *)
(* one for each of its properties that a consumer would act upon.          *)
(***************************************************************************)
EXTENDS Bus, FiniteSets

CONSTANTS Addresses \* entrance panels, handsets, consoles, cameras, locks

vars == busVars

Everyone == 4100 \* the WHERE of a broadcast call of WHO 6
Broadcast == 4   \* BROADCAST_WHERE and END_ALL_CALLS of WHO 8
PE == 1 .. 4     \* KIND_PE1 to KIND_PE4
Internal == 6
External == 7
Pager == 14
Audio == 2
AudioVideo == 4
Directions == [up |-> 59, down |-> 60, left |-> 61, right |-> 62]

(* What the constants are. *)
DoorEntryAssumption == Addresses \subseteq Nat \ {Everyone} /\ MaxWire \in Nat

Param(f, i) == IF i <= Len(f.wpar) THEN f.wpar[i] ELSE Null
(* A statement of an event, if it holds. *)
If(holds, what, detail, where) == IF holds THEN {<<what, detail, where>>} ELSE {}

(*************************** OWNDoorEntryEvent ****************************)

DoorEntryEvent(f) ==
  LET is(what) == f.what \in what
  IN If(is({6}) /\ f.where # Everyone, "ring", Null, f.where)
     \cup If(is({6}) /\ f.where = Everyone, "ring_all", Null, f.where)
     \cup If(is({20}), "chime", Null, f.where)
     \cup If(is({10, 22}), "lock", "open", f.where)
     \cup If(is({12}), "light", "on", f.where) \cup If(is({11}), "light", "off", f.where)
     \cup If(is({0}), "camera", "on", f.where) \cup If(is({9}), "camera", "off", f.where)

(**************************** OWNIntercomEvent ****************************)

(* kind and type are read from two parameters or not at all; a caller from *)
(* the third.  A call to everyone is a pager's, whatever its kind.         *)
Kind(f) == IF Len(f.wpar) >= 2 THEN f.wpar[1] ELSE Null
Type(f) == IF Len(f.wpar) >= 2 THEN f.wpar[2] ELSE Null
IsPager(f) == Kind(f) = Pager \/ f.where = Broadcast

(* Mutant: any call is a ring. *)
CallsRing(f) ==
  If(TRUE, "ring", <<Type(f), Param(f, 3)>>, f.where)
  \cup If(Kind(f) = Internal /\ ~IsPager(f), "internal", <<Type(f), Param(f, 3)>>, f.where)
  \cup If(IsPager(f), "pager", <<Type(f), Param(f, 3)>>, f.where)
Calls(f) ==
  If(Kind(f) \in PE, "ring", <<Type(f), Param(f, 3)>>, f.where)
  \cup If(Kind(f) = Internal /\ ~IsPager(f), "internal", <<Type(f), Param(f, 3)>>, f.where)
  \cup If(IsPager(f), "pager", <<Type(f), Param(f, 3)>>, f.where)

(* The second parameter of an end is the type: 3 stops the picture only.   *)
Sessions(f) ==
  If(f.what = 2, "answer", <<Kind(f), Type(f)>>, f.where)
  \cup If(f.what = 3, IF Type(f) = 3 THEN "stop_video" ELSE "end", Kind(f), f.where)
  \cup If(f.what = 9, "caller", <<Kind(f), Type(f)>>, f.where)
  \cup If(f.what = 40, "rearm", Null, f.where)

Way(what) == CHOOSE d \in DOMAIN Directions : Directions[d] = what
(* A movement without an action is a press.  Mutant: it is a release. *)
CamerasReleased(f) ==
  If(f.what = 4, "switch", Param(f, 1), f.where)
  \cup If(f.what = 6, "cycle", Param(f, 1), f.where)
  \cup (IF f.what \in 59 .. 62
        THEN If(TRUE, "move", <<Way(f.what), IF Param(f, 1) = 1 THEN "press" ELSE "release">>, f.where)
        ELSE {})
Cameras(f) ==
  If(f.what = 4, "switch", Param(f, 1), f.where)
  \cup If(f.what = 6, "cycle", Param(f, 1), f.where)
  \cup (IF f.what \in 59 .. 62
        THEN If(TRUE, "move", <<Way(f.what), IF Param(f, 1) \in {1, Null} THEN "press" ELSE "release">>, f.where)
        ELSE {})
Actuators(f) ==
  If(f.what = 19, "lock", "open", f.where) \cup If(f.what = 20, "lock", "locked", f.where)
  \cup If(f.what = 21, "light", "on", f.where) \cup If(f.what = 22, "light", "off", f.where)
  \cup If(f.what = 63, "mute", TRUE, f.where) \cup If(f.what = 64, "mute", FALSE, f.where)
Modes(f) ==
  If(f.what = 37, "vct", Param(f, 1), f.where)
  \cup If(f.what \in 76 .. 79, "teleloop",
          CASE f.what = 76 -> "start" [] f.what = 77 -> Param(f, 1) [] f.what = 78 -> "timeout"
            [] OTHER -> "active", f.where)
IntercomEvent(f) ==
  Actuators(f) \cup Cameras(f) \cup Sessions(f) \cup Modes(f) \cup (IF f.what = 1 THEN Calls(f) ELSE {})

Event(f) == IF f.who = 6 THEN DoorEntryEvent(f) ELSE IntercomEvent(f)

(*************************** OWNDoorEntryCommand **************************)

OpenLock(w) == Status(6, 10, <<>>, w)
StaircaseLightOn6(w) == Status(6, 12, <<>>, w)
StaircaseLightOff6(w) == Status(6, 11, <<>>, w)
CameraOn(w) == Status(6, 0, <<>>, w)
CameraOff == Status(6, 9, <<>>, Null) \* *6*9##, without an address

(*************************** OWNIntercomCommand ***************************)

Unlock(w) == Status(8, 19, <<>>, w)
Lock(w) == Status(8, 20, <<>>, w)
StaircaseLightOn(w) == Status(8, 21, <<>>, w)
StaircaseLightOff(w) == Status(8, 22, <<>>, w)
SwitchCamera(caller, camera) == Status(8, 4, <<caller>>, camera)
CycleCamera(caller, master) == Status(8, 6, <<caller>>, master)
PtzMove(camera, direction, action) ==
  IF direction \notin DOMAIN Directions \/ action \notin {"press", "release"} THEN Refuse
  ELSE Status(8, Directions[direction], <<IF action = "press" THEN 1 ELSE 2>>, camera)
(* Mutant: with the picture only. *)
CallSilent(kind, caller, callee, video) ==
  Status(8, 1, <<kind, IF video THEN 3 ELSE Audio, caller>>, callee)
Call(kind, caller, callee, video) ==
  Status(8, 1, <<kind, IF video THEN AudioVideo ELSE Audio, caller>>, callee)
CallPager(caller) == Call(Pager, caller, Broadcast, FALSE)
AnswerCall(w, kind, mm) == Status(8, 2, <<kind, mm>>, w)
EndCall(w, kind, mm) == Status(8, 3, <<kind, mm>>, w)
StopVideo(w, kind) == Status(8, 3, <<kind, 3>>, w)
MuteAmplifier(w) == Status(8, 63, <<>>, w)
UnmuteAmplifier(w) == Status(8, 64, <<>>, w)
StatusOf(w) == StatusRequest(8, w)

(******************************** actions *********************************)

Wants(f, what, detail) == Post(f, what, <<detail, f.where>>)

CommandDoor(w) ==
  \/ Wants(OpenLock(w), "lock", "open") \/ Wants(Unlock(w), "lock", "open")
  \/ Wants(Lock(w), "lock", "locked")
  \/ Wants(StaircaseLightOn6(w), "light", "on") \/ Wants(StaircaseLightOn(w), "light", "on")
  \/ Wants(StaircaseLightOff6(w), "light", "off") \/ Wants(StaircaseLightOff(w), "light", "off")
  \/ Wants(CameraOn(w), "camera", "on") \/ Wants(CameraOff, "camera", "off")
  \/ Wants(MuteAmplifier(w), "mute", TRUE) \/ Wants(UnmuteAmplifier(w), "mute", FALSE)

CommandCamera(w, camera) ==
  \/ Wants(SwitchCamera(w, camera), "switch", w)
  \/ Wants(CycleCamera(w, camera), "cycle", w)
  \/ \E d \in DOMAIN Directions \cup {"in"}, a \in {"press", "release", "hold"} :
       PtzMove(camera, d, a) # Refuse /\ Wants(PtzMove(camera, d, a), "move", <<d, a>>)

CommandCall(w, other) ==
  \/ \E video \in BOOLEAN :
       \/ other # Broadcast /\ Wants(Call(Internal, w, other, video), "internal",
                                     <<IF video THEN AudioVideo ELSE Audio, w>>)
       \/ Wants(Call(External, w, other, video), "external", Null)
  \/ Wants(CallPager(w), "pager", <<Audio, w>>)
  \/ \E kind \in PE \cup {Internal} :
       \/ Wants(AnswerCall(w, kind, Audio), "answer", <<kind, Audio>>)
       \/ Wants(EndCall(w, kind, Audio), "end", kind)
       \/ Wants(EndCall(Broadcast, kind, Audio), "end", kind)
       \/ Wants(StopVideo(w, kind), "stop_video", kind)

(* Someone rings, or is called; the plant tells what its devices do. *)
Tells(f, what, detail) == Tell(f, what, <<detail, f.where>>)
Happens(w, other) ==
  \/ Tells(Status(6, 6, <<>>, w), "ring", Null)
  \/ Tells(Status(6, 6, <<>>, Everyone), "ring_all", Null)
  \/ Tells(Status(6, 20, <<>>, w), "chime", Null)
  \/ Tells(Status(6, 22, <<>>, w), "lock", "open")
  \/ \E kind \in PE, mm \in {Audio, AudioVideo} :
       \/ Tells(Status(8, 1, <<kind, mm, w>>, other), "ring", <<mm, w>>)
       \/ Tells(Status(8, 1, <<kind, mm>>, other), "ring", <<mm, Null>>)
       \/ Tells(Status(8, 9, <<kind, mm>>, w), "caller", <<kind, mm>>)
  \/ \E d \in DOMAIN Directions : Tells(Status(8, Directions[d], <<>>, w), "move", <<d, "press">>)
  \/ Tells(Status(8, 3, <<>>, w), "end", Null)
  \/ Tells(Status(8, 37, <<1>>, w), "vct", 1)
  \/ Tells(Status(8, 40, <<>>, w), "rearm", Null)
  \/ Tells(Status(8, 76, <<>>, w), "teleloop", "start")
  \/ Tells(Status(8, 77, <<2>>, w), "teleloop", 2)
  \/ Tells(Status(8, 78, <<>>, w), "teleloop", "timeout")
  \/ Tells(Status(8, 79, <<>>, w), "teleloop", "active")

(* The state of a device is reported as if it had just changed. *)
Answers(f) ==
  IF f.type = "STATUS" THEN {f}
  ELSE {Unlock(f.where), Lock(f.where), StaircaseLightOn(f.where), MuteAmplifier(f.where)}

Next ==
  \/ \E w, other \in Addresses :
       CommandDoor(w) \/ CommandCamera(w, other) \/ CommandCall(w, other) \/ Happens(w, other)
  \/ \E w \in Addresses : Post(StatusOf(w), "nothing", <<Null, w>>)
  \/ CarryOut(Answers(First)) \/ Take
Spec == BusInit /\ [][Next]_vars

(* Besides the bound: what is called is called with sound, or with both.   *)
TypeOK ==
  /\ Wire <= MaxWire
  /\ \A i \in DOMAIN commands :
       LET f == commands[i].f
       IN f.who \in {6, 8} /\ (f.type = "STATUS" /\ f.what = 1 => Type(f) \in {Audio, AudioVideo})

(* An event tells what was asked for, or what happened, in the dialect it   *)
(* comes in: what opens a lock in one locks it, lights the stairs or rings  *)
(* in the other.  A call to an entrance panel is told as nothing a consumer *)
(* knows, and a kind of 1 to 4 as a ring.                                   *)
EventsTell ==
  Reported(LAMBDA f, said :
    said.kind \notin {"nothing", "external"} => <<said.kind, said.n[1], said.n[2]>> \in Event(f))

(* An event tells one thing only: no internal call and no pager rings at    *)
(* the door, no camera moves when a lock opens.  Only a call to everyone is *)
(* a pager's and of its kind, both.                                         *)
TellsOneThing ==
  Reported(LAMBDA f, said :
    Cardinality(Event(f)) <= IF f.what = 1 /\ Kind(f) \in PE /\ f.where = Broadcast THEN 2 ELSE 1)
=============================================================================

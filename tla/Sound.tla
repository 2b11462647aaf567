-------------------------------- MODULE Sound --------------------------------
(***************************************************************************)
(* WHO 16, the sound system, and WHO 22, the sound diffusion.  An address  *)
(* of WHO 16 is its number; of WHO 22, the sequence of its fields.         *)
(***************************************************************************)
EXTENDS Bus, FiniteSets

CONSTANTS Numbers,    \* steps, volumes, sources, stations given to the builders
          Frequencies \* frequencies in kHz

vars == busVars

(* What the constants are. *)
SoundAssumption == Numbers \subseteq Nat /\ Frequencies \subseteq Nat /\ MaxWire \in Nat \ {0}

(* The printable characters of some codes, without spaces around them.     *)
Printable(codes) ==
  LET kept == {i \in DOMAIN codes : codes[i] \in 32 .. 126}
      ink == {i \in kept : codes[i] # 32}
      text == {i \in kept : \E j, k \in ink : j <= i /\ i <= k}
      Nth(n) == CHOOSE i \in text : Cardinality({j \in text : j <= i}) = n
  IN [n \in 1 .. Cardinality(text) |-> codes[Nth(n)]]

(***************************** OWNSoundEvent ******************************)

Silent == [power |-> "none", volume |-> Null, louder |-> 0, seek |-> 0, tracks |-> 0,
           tune |-> 0, khz |-> Null, track |-> Null, text |-> <<>>, blank |-> FALSE,
           source |-> Null, asked |-> Null, channel |-> Null, route |-> <<>>, cleared |-> FALSE, target |-> "none", page |-> Null]

(* 10S is source S, 1ES the route of environment E to source S, anything   *)
(* else an amplifier or a zone.                                            *)
KindOf(w) ==
  IF w \in 101 .. 109 THEN "source" ELSE IF w \in 110 .. 199 THEN "routing" ELSE "zone"
Subject(w) ==
  [Silent EXCEPT !.target = KindOf(w), !.source = IF KindOf(w) = "source" THEN w - 100 ELSE Null,
                 !.route = IF KindOf(w) = "routing" THEN <<(w \div 10) % 10, w % 10>> ELSE <<>>]

SoundOfWhat(what, e) ==
  CASE what \in {0, 3}   -> [e EXCEPT !.power = "on"]
    [] what \in {10, 13} -> [e EXCEPT !.power = "off"]
    [] what = 100        -> [e EXCEPT !.power = "busy"]
    [] what \in 1001 .. 1015 -> [e EXCEPT !.louder = what - 1000]
    [] what \in 1101 .. 1115 -> [e EXCEPT !.louder = 1100 - what]
    [] what = 5000           -> [e EXCEPT !.seek = 1]
    [] what = 5100           -> [e EXCEPT !.seek = -1]
    [] what \in 6001 .. 6015 -> [e EXCEPT !.tracks = what - 6000]
    [] what \in 6101 .. 6115 -> [e EXCEPT !.tracks = 6100 - what]
    [] what \in 5001 .. 5015 -> [e EXCEPT !.tune = what - 5000]
    [] what \in 5101 .. 5115 -> [e EXCEPT !.tune = 5100 - what]
    [] OTHER -> e
SoundOfDimension(dim, v, e) ==
  CASE dim = 1 -> [e EXCEPT !.volume = v[1]]
    [] dim = 6 /\ v[Len(v)] > 0  -> [e EXCEPT !.khz = v[Len(v)]]
    [] dim = 7 /\ v[Len(v)] >= 1 -> [e EXCEPT !.track = v[Len(v)]]
    [] dim = 8 /\ Len(v) = 8     -> [e EXCEPT !.text = Printable(v)]
    [] OTHER -> e
SoundEvent(f) ==
  IF f.type = "STATUS" THEN SoundOfWhat(f.what, Subject(f.where))
  ELSE IF f.val = <<>> THEN Subject(f.where)
  ELSE SoundOfDimension(f.dim, f.val, Subject(f.where))

(************************ OWNSoundDiffusionEvent **************************)

Target(w) ==
  CASE w[1] = 3 /\ Len(w) >= 3 -> [Silent EXCEPT !.target = "speaker", !.route = <<w[2], w[3]>>]
    [] w[1] = 4 /\ Len(w) >= 2 -> [Silent EXCEPT !.target = "area", !.route = <<w[2]>>]
    [] w[1] = 2 /\ Len(w) >= 2 -> [Silent EXCEPT !.target = "source", !.source = w[2]]
    [] w[1] = 5 /\ Len(w) >= 3 /\ w[2] = 2 -> [Silent EXCEPT !.target = "source", !.source = w[3]]
    [] w[1] = 5 /\ Len(w) >= 4 /\ w[2] = 3 ->
         [Silent EXCEPT !.target = "zone_control", !.route = <<w[3], w[4]>>]
    [] w[1] = 6 -> [Silent EXCEPT !.target = "all_sources"]
    [] OTHER -> Silent
(* equivalent_who16_where *)
Amplifier(w) == IF Target(w).target = "speaker" THEN w[2] * 10 + w[3] ELSE Null

DiffusionOfWhat(what, p, e) ==
  LET sign == IF what \in {3, 5, 9, 11} THEN 1 ELSE -1
  IN CASE what \in {1, 2} -> [e EXCEPT !.power = "on", !.asked = IF what = 1 /\ Len(p) >= 2 THEN p[2] ELSE Null]
       [] what = 0  -> [e EXCEPT !.power = IF p = <<>> THEN "off" ELSE "off_atomic"]
       [] what \in {3, 4} -> [e EXCEPT !.louder = sign * (IF p = <<>> THEN 1 ELSE p[1])]
       [] what \in {5, 6} /\ p = <<>> -> [e EXCEPT !.seek = sign]
       [] what \in {5, 6} /\ Len(p) = 1 /\ p[1] \in 1 .. 15 -> [e EXCEPT !.tune = sign * p[1]]
       [] what \in 9 .. 12 /\ ~(what = 9 /\ e.target = "zone_control") -> [e EXCEPT !.tracks = sign]
       [] what \in {19, 20} /\ p # <<>> -> [e EXCEPT !.page = p[1]]
       [] what = 33 /\ p # <<>>  -> [e EXCEPT !.track = p[1]]
       [] what = 35 /\ Len(p) >= 3 -> [e EXCEPT !.asked = p[3]]
       [] OTHER -> e

(* The unit of a frequency is 10 kHz, or 100 kHz on some gateways; only    *)
(* the FM band is told.                                                    *)
IsFM(khz) == 87500 <= khz /\ khz <= 108000
(* Mutant: one unit for all gateways. *)
KhzTens(n) == IF IsFM(10 * n) THEN 10 * n ELSE 0
Khz(n) == IF IsFM(10 * n) THEN 10 * n ELSE IF IsFM(100 * n) THEN 100 * n ELSE 0

Tuned(dim, v, e) ==
  LET khz == IF Len(v) = (IF dim = 5 THEN 2 ELSE 3) THEN Khz(v[2]) ELSE 0
  IN IF khz = 0 THEN e
     ELSE [e EXCEPT !.khz = khz, !.track = IF dim = 11 /\ v[3] > 0 THEN v[3] ELSE Null,
                    !.cleared = (dim = 11 /\ v[3] = 0)]
DiffusionOfDimension(dim, v, e) ==
  CASE dim = 1 /\ v[1] \in 0 .. 31 -> [e EXCEPT !.volume = v[1]]
    [] dim = 12 -> [e EXCEPT !.power = CASE v[1] = 1 -> "on" [] v = <<0, 10>> -> "standby"
                                               [] v[1] = 0 /\ v # <<0, 10>> -> "off" [] OTHER -> "none",
                             !.channel = IF v[1] = 1 /\ Len(v) > 1 THEN v[2] ELSE Null]
    [] dim \in {5, 11} -> Tuned(dim, v, e)
    [] dim = 6 /\ Len(v) = 1 /\ v[1] >= 1 -> [e EXCEPT !.track = v[1]]
    [] dim = 10 /\ Len(v) <= 8 -> [e EXCEPT !.text = Printable(v), !.blank = Printable(v) = <<>>]
    [] OTHER -> e
DiffusionEvent(f) ==
  IF f.type = "STATUS" THEN DiffusionOfWhat(f.what, f.wpar, Target(f.where))
  ELSE IF f.val = <<>> THEN Target(f.where)
  ELSE DiffusionOfDimension(f.dim, f.val, Target(f.where))

(**************************** OWNSoundCommand *****************************)

Tell16(w, what) == Status(16, what, <<>>, w)
TurnOn(w) == Tell16(w, 3)
TurnOff(w) == Tell16(w, 13)

(* Only amplifiers EA with E and A from 1 to 9 can be routed.  Mutant: the *)
(* amplifier is taken for the environment.                                 *)
SelectSourceSwapped(w, s) == <<TurnOn(100 + s), TurnOn(100 + 10 * (w % 10) + s)>>
SelectSource(w, s) ==
  IF s \notin 1 .. 9 \/ w \notin 11 .. 99 \/ w % 10 = 0 THEN <<>>
  ELSE <<TurnOn(100 + s), TurnOn(100 + 10 * (w \div 10) + s)>>

VolumeUp(w) == Tell16(w, 1001)
VolumeDown(w) == Tell16(w, 1101)
SetVolume(w, n) == InRange(n, 0, 100, DimensionWriting(16, w, 1, <<n>>))
(* Mutant: any number of steps. *)
NextTrackFree(w, s) == Tell16(w, 6000 + s)
NextTrack(w, s) == InRange(s, 1, 15, Tell16(w, 6000 + s))
PreviousTrack(w, s) == InRange(s, 1, 15, Tell16(w, 6100 + s))
SeekUp(w) == Tell16(w, 5000)
SeekDown(w) == Tell16(w, 5100)
StepFrequencyUp(w, s) == InRange(s, 1, 15, Tell16(w, 5000 + s))
StepFrequencyDown(w, s) == InRange(s, 1, 15, Tell16(w, 5100 + s))
SelectTrack(w, t) == IF t < 1 THEN Refuse ELSE DimensionWriting(16, w, 7, <<t>>)
SetFrequency(w, khz) == IF khz <= 0 THEN Refuse ELSE DimensionWriting(16, w, 6, <<0, khz>>)
StoreStation(w, s) == InRange(s, 1, 5, DimensionWriting(16, w, 10, <<s>>))

(*********************** OWNSoundDiffusionCommand *************************)

Tell22(w, what, p) == Status(22, what, p, w)
TurnOn22(w) == Tell22(w, 1, <<>>)
TurnOff22(w) == Tell22(w, 0, <<>>)
NextTrack22(w) == Tell22(w, 11, <<>>)
PreviousTrack22(w) == Tell22(w, 12, <<>>)
NextStation(w) == Tell22(w, 9, <<>>)
PreviousStation(w) == Tell22(w, 10, <<>>)
SeekUp22(w) == Tell22(w, 5, <<>>)
SeekDown22(w) == Tell22(w, 6, <<>>)
TurnOnWithSource(w, s, type) == IF s < 1 \/ type < 0 THEN Refuse ELSE Tell22(w, 1, <<type, s>>)
TurnOffAtomic(w, type) == IF type < 0 THEN Refuse ELSE Tell22(w, 0, <<type, 0>>)
RouteSource(w, s, area, type) ==
  IF s < 1 \/ area < 0 \/ type < 0 THEN Refuse ELSE Tell22(w, 35, <<type, area, s>>)
SetFrequency22(w, khz, band) ==
  IF khz < 10 \/ band \notin 1 .. 4 THEN Refuse
  ELSE DimensionWriting(22, w, 5, <<band, khz \div 10>>)
SetPreset(w, p, khz, band) ==
  IF p < 1 THEN Refuse
  ELSE IF khz = Null THEN DimensionWriting(22, w, 6, <<p>>)
  ELSE IF khz < 10 \/ band \notin 1 .. 4 THEN Refuse
  ELSE DimensionWriting(22, w, 11, <<band, khz \div 10, p>>)
StorePreset(w, p) == IF p < 1 THEN Refuse ELSE Tell22(w, 33, <<p>>)
(* Eight characters, filled with spaces. *)
SendRdsText(w, text) ==
  DimensionWriting(22, w, 10, [i \in 1 .. 8 |-> IF i <= Len(text) THEN text[i] ELSE 32])
OpenPaging(w, c) == IF c < 1 THEN Refuse ELSE Tell22(w, 19, <<c>>)
StartPagingVoice(w, c) == IF c < 1 THEN Refuse ELSE Tell22(w, 20, <<c>>)
Louder22(w, what, s) == InRange(s, 1, 31, Tell22(w, what, IF s > 1 THEN <<s>> ELSE <<>>))
SetVolume22(w, n) == InRange(n, 0, 31, DimensionWriting(22, w, 1, <<n>>))
StepFrequency22(w, what, s) == InRange(s, 1, 15, Tell22(w, what, <<s>>))

(******************************** actions *********************************)

Addresses22 == {<<3, 1, 2>>, <<3, 9, 9>>, <<4, 1>>, <<2, 1>>, <<5, 2, 3>>, <<5, 3, 0, 0>>, <<6>>}

CommandSound(w) ==
  \/ Post(TurnOn(w), "power", "on")
  \/ Post(TurnOff(w), "power", "off")
  \/ Post(VolumeUp(w), "louder", 1)
  \/ Post(VolumeDown(w), "louder", -1)
  \/ Post(SeekUp(w), "seek", 1)
  \/ Post(SeekDown(w), "seek", -1)
  \/ \E n \in Numbers :
       \/ Post(SetVolume(w, n), "volume", n)
       \/ Post(NextTrack(w, n), "tracks", n)
       \/ Post(PreviousTrack(w, n), "tracks", -n)
       \/ Post(StepFrequencyUp(w, n), "tune", n)
       \/ Post(StepFrequencyDown(w, n), "tune", -n)
       \/ Post(SelectTrack(w, n), "track", n)
       \/ Post(StoreStation(w, n), "nothing", n)
  \/ \E khz \in Frequencies : Post(SetFrequency(w, khz), "khz", khz)

(* select_source: two frames, sent one after the other on an idle bus. *)
Route(w) ==
  \E s \in Numbers :
    /\ Wire = 0 /\ SelectSource(w, s) # <<>>
    /\ commands' = commands \o <<[f |-> SelectSource(w, s)[1], said |-> Said("source", s)],
                                 [f |-> SelectSource(w, s)[2], said |-> Said("route", <<w \div 10, s>>)]>>
    /\ UNCHANGED reports

CommandDiffusion(w) ==
  \/ Post(TurnOn22(w), "power", "on")
  \/ Post(TurnOff22(w), "power", "off")
  \/ Post(NextTrack22(w), "tracks", 1)
  \/ Post(PreviousTrack22(w), "tracks", -1)
  \/ Target(w).target # "zone_control" /\ Post(NextStation(w), "tracks", 1)
  \/ Post(PreviousStation(w), "tracks", -1)
  \/ Post(SeekUp22(w), "seek", 1)
  \/ Post(SeekDown22(w), "seek", -1)
  \/ \E n \in Numbers :
       \/ \E type \in {-1, 4} :
            \/ Post(TurnOnWithSource(w, n, type), "play", n)
            \/ Post(TurnOffAtomic(w, type), "power", "off_atomic")
            \/ \E area \in {-1, 1} : Post(RouteSource(w, n, area, type), "play", n)
       \/ Post(SetPreset(w, n, Null, 1), "track", n)
       \/ Post(StorePreset(w, n), "track", n)
       \/ Post(OpenPaging(w, n), "page", n)
       \/ Post(StartPagingVoice(w, n), "page", n)
       \/ Post(Louder22(w, 3, n), "louder", n)
       \/ Post(Louder22(w, 4, n), "louder", -n)
       \/ Post(SetVolume22(w, n), "volume", n)
       \/ Post(StepFrequency22(w, 5, n), "tune", n)
       \/ Post(StepFrequency22(w, 6, n), "tune", -n)
       \/ \E khz \in Frequencies : Post(SetPreset(w, n, khz, 1), "station", <<khz, n>>)
  \/ \E khz \in Frequencies, band \in {0, 1, 5} : Post(SetFrequency22(w, khz, band), "khz", khz)
  \/ \E text \in {<<>>, <<82, 65, 73, 32, 49>>, <<65, 66, 67, 68, 69, 70, 71, 72>>} :
       Post(SendRdsText(w, text), "text", text)

(* A device of the plant reports: its tuner in either unit, its presets,   *)
(* its text, its state; a wall unit's key; and a source that is busy.      *)
Sense ==
  \/ \E khz \in {87500, 98700, 106500, 108000}, unit \in {10, 100}, preset \in {0, 5} :
       Tell(DimensionReply(22, <<2, 1>>, 11, <<1, khz \div unit, preset>>), "tuned", <<khz, preset>>)
  \/ \E v \in {<<1, 2>>, <<0, 10>>, <<0, 1>>} :
       Tell(DimensionReply(22, <<3, 1, 2>>, 12, v), "power", IF v[1] = 1 THEN "on" ELSE IF v[2] = 10 THEN "standby" ELSE "off")
  \/ Tell(DimensionReply(22, <<2, 1>>, 10, [i \in 1 .. 8 |-> 32]), "blank", 0)
  \/ Tell(DimensionReply(16, 101, 8, <<32, 82, 65, 73, 32, 49, 32, 7>>), "text", <<82, 65, 73, 32, 49>>)
  \/ Tell(Status(22, 9, <<>>, <<5, 3, 1, 2>>), "key", 0)
  \/ Tell(Status(16, 100, <<>>, 101), "power", "busy")
  \/ \E e \in 1 .. 9, s \in 0 .. 9 : Tell(TurnOn(100 + 10 * e + s), "route", <<e, s>>)
  \/ \E s \in 1 .. 9 : Tell(TurnOn(100 + s), "source", s)
  \/ \E a, p \in 1 .. 9 : Tell(TurnOn(10 * a + p), "amplifier", <<3, a, p>>)

Next == \/ \E w \in {1, 10, 23, 99, 100, 102} : CommandSound(w) \/ Route(w)
        \/ \E w \in Addresses22 : CommandDiffusion(w)
        \/ Sense \/ CarryOut({AsReply(First)}) \/ Take
Spec == BusInit /\ [][Next]_vars

Event(f) == IF f.who = 16 THEN SoundEvent(f) ELSE DiffusionEvent(f)

(* Every frame is one the sound systems know: a WHAT of WHO 16 has its     *)
(* number of steps in range, a WHAT of WHO 22 a step of one nibble.        *)
Legal(f, said) ==
  /\ f.who = 16 /\ f.type = "STATUS" => f.what % 100 \in 0 .. 15
  /\ f.who = 22 /\ f.type = "STATUS" /\ f.what \in {5, 6} /\ f.wpar # <<>> => f.wpar[1] \in 1 .. 15
TypeOK == Wire <= MaxWire + 1 /\ Reported(Legal)

(* What a command asked for is what its event tells: steps with their      *)
(* direction, levels, stations, sources, text; a step of the tuner is no   *)
(* automatic seek; an FM frequency is kept to its ten kHz, in whatever     *)
(* unit the gateway reports it.                                            *)
Truthful(f, said) ==
  LET e == Event(f) n == said.n kind == said.kind
  IN CASE kind = "power"  -> e.power = n
       [] kind = "louder" -> e.louder = n
       [] kind = "seek"   -> e.seek = n /\ e.tune = 0
       [] kind = "tune"   -> e.tune = n /\ e.seek = 0
       [] kind = "tracks" -> e.tracks = n
       [] kind = "volume" -> e.volume = n
       [] kind = "track"  -> e.track = n
       [] kind = "khz"    -> IF f.who = 16 THEN e.khz = n
                             ELSE IsFM(n) => e.khz = n - (n % 10)
       [] kind = "station" -> IsFM(n[1]) => e.khz = n[1] - (n[1] % 10) /\ e.track = n[2]
       [] kind = "tuned"  -> e.khz = n[1] /\ e.cleared = (n[2] = 0)
       [] kind = "text"   -> e.text = n
       [] kind = "blank"  -> e.blank
       [] kind = "play"   -> e.asked = n
       [] kind = "page"   -> e.page = n
       [] kind = "key"    -> e.tracks = 0
       [] OTHER -> TRUE
EventsTellTheTruth == Reported(Truthful)

(* The three kinds of address of WHO 16 stay apart, and the two frames of  *)
(* select_source start the source asked for and route the environment of   *)
(* the amplifier to it; a speaker of WHO 22 is that amplifier of WHO 16.   *)
Routed(f, said) ==
  CASE said.kind = "source" -> SoundEvent(f).target = "source" /\ SoundEvent(f).source = said.n
    [] said.kind = "route"  -> SoundEvent(f).target = "routing" /\ SoundEvent(f).route = said.n
    [] said.kind = "amplifier" -> SoundEvent(f).target = "zone" /\ Amplifier(said.n) = f.where
    [] OTHER -> TRUE
RoutesAreRead == Reported(Routed)
=============================================================================

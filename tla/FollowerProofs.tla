---------------------------- MODULE FollowerProofs ----------------------------
(***************************************************************************)
(* The consumers of Followers: what each knows once it has taken all that  *)
(* is under way is what the plant is, for any plant, any sequence of acts  *)
(* and any number of events under way.                                     *)
(***************************************************************************)
EXTENDS Followers, FiniteSetTheorems, TLAPS

-----------------------------------------------------------------------------
(* The consumer knows a, and takes the events of w one after the other by   *)
(* follow: it will know b, and only what is in X meanwhile.                 *)
Leads(follow, X, w, a, b) ==
  \E h \in [0 .. Len(w) -> X] :
    /\ h[0] = a /\ h[Len(w)] = b
    /\ \A i \in 1 .. Len(w) : h[i] = follow[<<h[i - 1], w[i]>>]

LEMMA LeadsNowhere ==
  ASSUME NEW follow, NEW X, NEW a \in X, NEW E, NEW w \in Seq(E), Len(w) = 0
  PROVE  Leads(follow, X, w, a, a)
<1> DEFINE h == [i \in 0 .. 0 |-> a]
<1>1. h \in [0 .. 0 -> X] /\ h[0] = a
  OBVIOUS
<1>2. 1 .. Len(w) = {}
  OBVIOUS
<1> HIDE DEF h
<1> QED
  BY <1>1, <1>2 DEF Leads

LEMMA LeadsEnds ==
  ASSUME NEW follow, NEW X, NEW E, NEW w \in Seq(E), NEW a, NEW b, Leads(follow, X, w, a, b)
  PROVE  a \in X /\ b \in X /\ (Len(w) = 0 => a = b)
BY DEF Leads

LEMMA LeadsWider ==
  ASSUME NEW follow, NEW X, NEW T, X \subseteq T, NEW E, NEW w \in Seq(E), NEW a, NEW b,
         Leads(follow, X, w, a, b)
  PROVE  Leads(follow, T, w, a, b)
<1>1. PICK h \in [0 .. Len(w) -> X] : /\ h[0] = a /\ h[Len(w)] = b
                                      /\ \A i \in 1 .. Len(w) : h[i] = follow[<<h[i - 1], w[i]>>]
  BY DEF Leads
<1>2. h \in [0 .. Len(w) -> T]
  OBVIOUS
<1> QED
  BY <1>1, <1>2 DEF Leads

(* One event more. *)
LEMMA LeadsOn ==
  ASSUME NEW follow, NEW X, NEW E, NEW w \in Seq(E), NEW e \in E, NEW a, NEW b,
         Leads(follow, X, w, a, b), follow[<<b, e>>] \in X
  PROVE  Append(w, e) \in Seq(E) /\ Leads(follow, X, Append(w, e), a, follow[<<b, e>>])
<1>1. PICK h \in [0 .. Len(w) -> X] : /\ h[0] = a /\ h[Len(w)] = b
                                      /\ \A i \in 1 .. Len(w) : h[i] = follow[<<h[i - 1], w[i]>>]
  BY DEF Leads
<1> DEFINE v == Append(w, e)
           n == Len(w)
           k == [i \in 0 .. n + 1 |-> IF i = n + 1 THEN follow[<<b, e>>] ELSE h[i]]
<1>2. v \in Seq(E) /\ Len(v) = n + 1 /\ n \in Nat /\ v[n + 1] = e /\ \A i \in 1 .. n : v[i] = w[i]
  OBVIOUS
<1>3. k \in [0 .. n + 1 -> X] /\ k[0] = a /\ k[n + 1] = follow[<<b, e>>]
  BY <1>1, <1>2
<1>4. ASSUME NEW i \in 1 .. n + 1 PROVE k[i] = follow[<<k[i - 1], v[i]>>]
  <2>1. CASE i = n + 1
    <3>1. k[i] = follow[<<b, e>>] /\ k[i - 1] = h[n] /\ v[i] = e
      BY <1>1, <1>2, <2>1
    <3> QED
      BY <1>1, <3>1
  <2>2. CASE i # n + 1
    <3>1. i \in 1 .. n /\ i - 1 \in 0 .. n /\ i \in 0 .. n
      BY <1>2, <2>2
    <3>2. k[i] = h[i] /\ k[i - 1] = h[i - 1] /\ v[i] = w[i]
      BY <1>2, <3>1
    <3> QED
      BY <1>1, <3>1, <3>2
  <2> QED
    BY <2>1, <2>2
<1> HIDE DEF k, v, n
<1> QED
  BY <1>2, <1>3, <1>4 DEF Leads, v

(* The first event is taken. *)
LEMMA LeadsFrom ==
  ASSUME NEW follow, NEW X, NEW E, NEW w \in Seq(E), w # <<>>, NEW a, NEW b,
         Leads(follow, X, w, a, b)
  PROVE  /\ Head(w) \in E /\ Tail(w) \in Seq(E) /\ follow[<<a, Head(w)>>] \in X
         /\ Leads(follow, X, Tail(w), follow[<<a, Head(w)>>], b)
<1>1. PICK h \in [0 .. Len(w) -> X] : /\ h[0] = a /\ h[Len(w)] = b
                                      /\ \A i \in 1 .. Len(w) : h[i] = follow[<<h[i - 1], w[i]>>]
  BY DEF Leads
<1> DEFINE v == Tail(w)
           n == Len(v)
           k == [i \in 0 .. n |-> h[i + 1]]
<1>2. /\ v \in Seq(E) /\ Len(w) = n + 1 /\ n \in Nat /\ Head(w) = w[1] /\ Head(w) \in E
      /\ \A i \in 1 .. n : v[i] = w[i + 1]
  OBVIOUS
<1>3. h[1] = follow[<<a, Head(w)>>] /\ h[1] \in X
  BY <1>1, <1>2
<1>4. k \in [0 .. n -> X] /\ k[0] = follow[<<a, Head(w)>>] /\ k[n] = b
  BY <1>1, <1>2, <1>3
<1>5. ASSUME NEW i \in 1 .. n PROVE k[i] = follow[<<k[i - 1], v[i]>>]
  <2>1. i + 1 \in 1 .. Len(w) /\ i \in 0 .. n /\ i - 1 \in 0 .. n /\ (i + 1) - 1 = i
    BY <1>2
  <2>2. k[i] = h[i + 1] /\ k[i - 1] = h[i] /\ v[i] = w[i + 1]
    BY <1>2, <2>1
  <2>3. h[i + 1] = follow[<<h[(i + 1) - 1], w[i + 1]>>]
    BY <1>1, <2>1
  <2> QED
    BY <2>1, <2>2, <2>3
<1> HIDE DEF k, v, n
<1> QED
  BY <1>2, <1>3, <1>4, <1>5 DEF Leads, v, n

(******************************* the loads ********************************)

StateFrames == {L!StateFrame(n, what) : n \in Loads, what \in 0 .. 3}
AllFrames == {L!Status(3, what, <<>>, L!General) : what \in {0, 1}}
MeterFrames == {L!DimensionReply(3, L!ControlUnit, 0, v) : v \in [1 .. 4 -> Readings]}
ReadingFrames == {L!DimensionReply(3, L!ControlUnit, d, <<r>>) : d \in 1 .. 4, r \in Readings}
LoadFrames == StateFrames \cup AllFrames \cup MeterFrames \cup ReadingFrames
LoadOrders == {L!Force(n) : n \in 1 .. 8} \cup {L!StatusOf(n) : n \in 1 .. 8}
              \cup {L!RequestMeasurement(n) : n \in 0 .. 4}
LoadKnown == [load : [Loads -> 0 .. 3], meter : [L!Quantities -> Nat]]
LoadFollow == [x \in LoadKnown \X LoadFrames |-> L!Follow(x[1], x[2])]
LoadView == [load |-> load, meter |-> told]
LoadInv ==
  /\ LoadView \in LoadKnown
  /\ order \in Seq(LoadOrders) /\ Len(order) <= 1
  /\ wire \in Seq(LoadFrames) /\ Len(wire) <= LoadWire
  /\ Leads(LoadFollow, LoadKnown, wire, known, LoadView)

(* An event of one load sets its state and leaves the rest.                *)
LEMMA StateIsTold ==
  ASSUME NEW k \in LoadKnown, NEW n \in Loads, NEW what \in 0 .. 3
  PROVE  L!Follow(k, L!StateFrame(n, what)) = [k EXCEPT !.load[n] = what]
<1> DEFINE f == L!StateFrame(n, what)
<1>1. L!State(f) = what /\ what # L!Null /\ ~L!IsMeasurement(f)
  BY DEF L!State, L!IsMeasurement, L!StateFrame, L!Status, L!Frame, L!Null
<1>2. \A m \in Loads : m \in L!Concerns(f) <=> m = n
  BY DEF L!Concerns, L!StateFrame, L!Status, L!Frame, L!Priority, L!General
<1> HIDE DEF f
<1>3. L!Follow(k, f).load = [k.load EXCEPT ![n] = what]
  BY <1>1, <1>2 DEF L!Follow, LoadKnown
<1>4. L!Follow(k, f).meter = k.meter
  BY <1>1 DEF L!Follow, LoadKnown
<1> QED
  BY <1>3, <1>4 DEF f, L!Follow, LoadKnown

LEMMA AllAreTold ==
  ASSUME NEW k \in LoadKnown, NEW what \in {0, 1}
  PROVE  L!Follow(k, L!Status(3, what, <<>>, L!General)) = [k EXCEPT !.load = [n \in Loads |-> what]]
<1> DEFINE f == L!Status(3, what, <<>>, L!General)
<1>1. L!State(f) = what /\ what # L!Null /\ ~L!IsMeasurement(f)
  BY DEF L!State, L!IsMeasurement, L!Status, L!Frame, L!Null
<1>2. \A m \in Loads : m \in L!Concerns(f)
  BY DEF L!Concerns, L!Status, L!Frame
<1> HIDE DEF f
<1>3. L!Follow(k, f).load = [n \in Loads |-> what]
  BY <1>1, <1>2 DEF L!Follow, LoadKnown
<1>4. L!Follow(k, f).meter = k.meter
  BY <1>1 DEF L!Follow, LoadKnown
<1> QED
  BY <1>3, <1>4 DEF f, L!Follow, LoadKnown

LEMMA Places ==
  /\ \A d \in 1 .. 4 : L!AllOrder[d] \in L!Quantities /\ L!Place(L!AllOrder[d]) = d
  /\ \A q \in L!Quantities : L!Place(q) \in 1 .. 4 /\ L!AllOrder[L!Place(q)] = q
BY DEF L!AllOrder, L!Quantities, L!Place

(* All measurements together, each at its place.                           *)
LEMMA MeterIsTold ==
  ASSUME NEW k \in LoadKnown, NEW r \in [L!Quantities -> Readings], L!LoadAssumption
  PROVE  L!Follow(k, L!DimensionReply(3, L!ControlUnit, 0, [i \in 1 .. 4 |-> r[L!AllOrder[i]]]))
           = [k EXCEPT !.meter = r]
<1> DEFINE v == [i \in 1 .. 4 |-> r[L!AllOrder[i]]]
           f == L!DimensionReply(3, L!ControlUnit, 0, v)
<1>1. L!State(f) = L!Null /\ L!IsMeasurement(f) /\ f.dim = 0 /\ f.val = v
  BY DEF L!State, L!IsMeasurement, L!DimensionReply, L!Frame
<1>2. Len(v) = 4 /\ \A q \in L!Quantities : v[L!Place(q)] = r[q]
  BY Places
<1>3. \A q \in L!Quantities : L!Place(q) \in 1 .. 4 /\ r[q] \in Nat
  BY Places DEF L!LoadAssumption
<1> HIDE DEF f, v
<1>4. \A q \in L!Quantities : L!Measured(f, q) = r[q] /\ r[q] # L!Null
  BY <1>1, <1>2, <1>3 DEF L!Measured, L!Null
<1>5. L!Follow(k, f).load = k.load
  BY <1>1 DEF L!Follow, LoadKnown
<1>6. L!Follow(k, f).meter = r
  BY <1>1, <1>4 DEF L!Follow, LoadKnown
<1> QED
  BY <1>5, <1>6 DEF f, v, L!Follow, LoadKnown

LEMMA OneIsTold ==
  ASSUME NEW k \in LoadKnown, NEW x \in Readings, NEW d \in 1 .. 4, L!LoadAssumption
  PROVE  L!Follow(k, L!DimensionReply(3, L!ControlUnit, d, <<x>>)) = [k EXCEPT !.meter[L!AllOrder[d]] = x]
<1> DEFINE f == L!DimensionReply(3, L!ControlUnit, d, <<x>>)
<1>1. L!State(f) = L!Null /\ L!IsMeasurement(f) /\ f.dim = d /\ f.val = <<x>>
  BY DEF L!State, L!IsMeasurement, L!DimensionReply, L!Frame
<1>2. x \in Nat /\ x # L!Null
  BY DEF L!LoadAssumption, L!Null
<1> HIDE DEF f
<1>3. \A q \in L!Quantities : L!Measured(f, q) = IF q = L!AllOrder[d] THEN x ELSE L!Null
  BY <1>1, Places DEF L!Measured
<1>5. L!Follow(k, f).load = k.load
  BY <1>1 DEF L!Follow, LoadKnown
<1>6. L!Follow(k, f).meter = [k.meter EXCEPT ![L!AllOrder[d]] = x]
  BY <1>1, <1>2, <1>3 DEF L!Follow, LoadKnown
<1> QED
  BY <1>5, <1>6 DEF f, L!Follow, LoadKnown

LEMMA LoadFollows ==
  ASSUME NEW k \in LoadKnown, NEW f \in LoadFrames, L!LoadAssumption
  PROVE  L!Follow(k, f) \in LoadKnown /\ LoadFollow[<<k, f>>] = L!Follow(k, f)
<1>1. CASE \E n \in Loads, what \in 0 .. 3 : f = L!StateFrame(n, what)
  <2>1. PICK n \in Loads, what \in 0 .. 3 : f = L!StateFrame(n, what)
    BY <1>1
  <2>2. L!Follow(k, f) = [k EXCEPT !.load[n] = what]
    BY <2>1, StateIsTold
  <2>3. [k EXCEPT !.load[n] = what] \in LoadKnown
    BY DEF LoadKnown
  <2> QED
    BY <2>2, <2>3 DEF LoadFollow
<1>2. CASE \E what \in {0, 1} : f = L!Status(3, what, <<>>, L!General)
  <2>1. PICK what \in {0, 1} : f = L!Status(3, what, <<>>, L!General)
    BY <1>2
  <2>2. L!Follow(k, f) = [k EXCEPT !.load = [n \in Loads |-> what]]
    BY <2>1, AllAreTold
  <2>3. [k EXCEPT !.load = [n \in Loads |-> what]] \in LoadKnown
    BY DEF LoadKnown
  <2> QED
    BY <2>2, <2>3 DEF LoadFollow
<1>3. CASE \E v \in [1 .. 4 -> Readings] : f = L!DimensionReply(3, L!ControlUnit, 0, v)
  <2>1. PICK v \in [1 .. 4 -> Readings] : f = L!DimensionReply(3, L!ControlUnit, 0, v)
    BY <1>3
  <2> DEFINE r == [q \in L!Quantities |-> v[L!Place(q)]]
  <2>2. r \in [L!Quantities -> Readings] /\ v = [i \in 1 .. 4 |-> r[L!AllOrder[i]]]
    BY Places
  <2> HIDE DEF r
  <2>3. L!Follow(k, f) = [k EXCEPT !.meter = r]
    BY <2>1, <2>2, MeterIsTold
  <2>4. [k EXCEPT !.meter = r] \in LoadKnown
    BY <2>2 DEF LoadKnown, L!LoadAssumption
  <2> QED
    BY <2>3, <2>4 DEF LoadFollow
<1>4. CASE \E d \in 1 .. 4, x \in Readings : f = L!DimensionReply(3, L!ControlUnit, d, <<x>>)
  <2>1. PICK d \in 1 .. 4, x \in Readings : f = L!DimensionReply(3, L!ControlUnit, d, <<x>>)
    BY <1>4
  <2>2. L!Follow(k, f) = [k EXCEPT !.meter[L!AllOrder[d]] = x]
    BY <2>1, OneIsTold
  <2>3. [k EXCEPT !.meter[L!AllOrder[d]] = x] \in LoadKnown
    BY Places DEF LoadKnown, L!LoadAssumption
  <2> QED
    BY <2>2, <2>3 DEF LoadFollow
<1>5. f \in StateFrames => \E n \in Loads, what \in 0 .. 3 : f = L!StateFrame(n, what)
  BY DEF StateFrames
<1>6. f \in AllFrames => \E what \in {0, 1} : f = L!Status(3, what, <<>>, L!General)
  BY DEF AllFrames
<1>7. f \in MeterFrames => \E v \in [1 .. 4 -> Readings] : f = L!DimensionReply(3, L!ControlUnit, 0, v)
  BY DEF MeterFrames
<1>8. f \in ReadingFrames => \E d \in 1 .. 4, x \in Readings : f = L!DimensionReply(3, L!ControlUnit, d, <<x>>)
  BY DEF ReadingFrames
<1> QED
  BY <1>1, <1>2, <1>3, <1>4, <1>5, <1>6, <1>7, <1>8 DEF LoadFrames

(* What an event sent says becomes part of what the consumer will know.    *)
LEMMA LoadSent ==
  ASSUME LoadInv, L!LoadAssumption, NEW f \in LoadFrames, L!Send(f), LoadView' = L!Follow(LoadView, f)
  PROVE  /\ LoadView' \in LoadKnown /\ wire' \in Seq(LoadFrames) /\ Len(wire') <= LoadWire
         /\ Leads(LoadFollow, LoadKnown, wire', known', LoadView')
<1>1. L!Follow(LoadView, f) \in LoadKnown /\ LoadFollow[<<LoadView, f>>] = L!Follow(LoadView, f)
  BY LoadFollows DEF LoadInv
<1>2. wire' = Append(wire, f) /\ known' = known /\ Len(wire) < LoadWire
  BY DEF L!Send
<1>3. /\ Append(wire, f) \in Seq(LoadFrames)
      /\ Leads(LoadFollow, LoadKnown, Append(wire, f), known, LoadFollow[<<LoadView, f>>])
  BY <1>1, LeadsOn DEF LoadInv
<1> QED
  BY <1>1, <1>2, <1>3 DEF LoadInv, L!LoadAssumption

LEMMA LoadOrderKept ==
  ASSUME LoadInv, L!LoadAssumption, L!Order
  PROVE  LoadInv'
<1>1. UNCHANGED <<load, told, wire, known>> /\ order = <<>>
  BY DEF L!Order
<1>2. \E f \in LoadOrders : order' = <<f>>
  <2>1. PICK n \in LoadsTried :
          \/ L!IsPriority(n) /\ \E f \in {L!Force(n), L!StatusOf(n)} : order' = <<f>>
          \/ n \in 0 .. 4 /\ order' = <<L!RequestMeasurement(n)>>
    BY DEF L!Order
  <2>2. L!IsPriority(n) => n \in 1 .. 8
    BY DEF L!IsPriority
  <2> QED
    BY <2>1, <2>2 DEF LoadOrders
<1>3. order' \in Seq(LoadOrders) /\ Len(order') <= 1
  BY <1>2
<1> QED
  BY <1>1, <1>3 DEF LoadInv, LoadView

(* A load is shed, or all are.                                             *)
LEMMA LoadStateSent ==
  ASSUME LoadInv, L!LoadAssumption, NEW n \in Loads, NEW what \in 0 .. 3,
         load' = [load EXCEPT ![n] = what], told' = told, L!Send(L!StateFrame(n, what)),
         order' \in Seq(LoadOrders), Len(order') <= 1
  PROVE  LoadInv'
<1>1. L!StateFrame(n, what) \in LoadFrames
  BY DEF LoadFrames, StateFrames
<1>2. LoadView \in LoadKnown
  BY DEF LoadInv
<1>3. L!Follow(LoadView, L!StateFrame(n, what)) = [LoadView EXCEPT !.load[n] = what]
  BY <1>2, StateIsTold
<1>4. LoadView' = L!Follow(LoadView, L!StateFrame(n, what))
  BY <1>3 DEF LoadView
<1> QED
  BY <1>1, <1>4, LoadSent DEF LoadInv

LEMMA LoadShedKept ==
  ASSUME LoadInv, L!LoadAssumption, L!Shed
  PROVE  LoadInv'
<1>1. told' = told /\ order' = order /\ order \in Seq(LoadOrders) /\ Len(order) <= 1
  BY DEF L!Shed, LoadInv
<1>2. CASE \E n \in Loads, what \in 0 .. 3 :
             load' = [load EXCEPT ![n] = what] /\ L!Send(L!StateFrame(n, what))
  BY <1>1, <1>2, LoadStateSent
<1>3. CASE \E what \in {0, 1} :
             load' = [n \in Loads |-> what] /\ L!Send(L!Status(3, what, <<>>, L!General))
  <2>1. PICK what \in {0, 1} :
             load' = [n \in Loads |-> what] /\ L!Send(L!Status(3, what, <<>>, L!General))
    BY <1>3
  <2> DEFINE f == L!Status(3, what, <<>>, L!General)
  <2>2. f \in LoadFrames
    BY DEF LoadFrames, AllFrames
  <2>3. LoadView' = L!Follow(LoadView, f)
    BY <1>1, <2>1, AllAreTold DEF LoadInv, LoadView
  <2> HIDE DEF f
  <2>4. L!Send(f)
    BY <2>1 DEF f
  <2> QED
    BY <1>1, <2>2, <2>3, <2>4, LoadSent DEF LoadInv
<1> QED
  BY <1>2, <1>3 DEF L!Shed

LEMMA LoadMeasureKept ==
  ASSUME LoadInv, L!LoadAssumption, NEW d \in 0 .. 4, L!Measure(d), load' = load,
         order' \in Seq(LoadOrders), Len(order') <= 1
  PROVE  LoadInv'
<1>1. PICK r \in [L!Quantities -> Readings] :
        LET all == L!DimensionReply(3, L!ControlUnit, 0, [i \in 1 .. 4 |-> r[L!AllOrder[i]]])
            one == L!DimensionReply(3, L!ControlUnit, d, <<r[L!AllOrder[d]]>>)
        IN /\ told' = IF d = 0 THEN r ELSE [told EXCEPT ![L!AllOrder[d]] = r[L!AllOrder[d]]]
           /\ L!Send(IF d = 0 THEN all ELSE one)
  BY DEF L!Measure
<1>2. CASE d = 0
  <2> DEFINE v == [i \in 1 .. 4 |-> r[L!AllOrder[i]]]
             f == L!DimensionReply(3, L!ControlUnit, 0, v)
  <2>1. told' = r /\ L!Send(f)
    BY <1>1, <1>2
  <2>2. v \in [1 .. 4 -> Readings]
    BY Places
  <2> HIDE DEF v
  <2>3. f \in LoadFrames
    BY <2>2 DEF LoadFrames, MeterFrames
  <2>4. L!Follow(LoadView, f) = [LoadView EXCEPT !.meter = r]
    BY MeterIsTold DEF LoadInv, v
  <2> HIDE DEF f
  <2>5. LoadView' = L!Follow(LoadView, f)
    BY <2>1, <2>4 DEF LoadView
  <2> QED
    BY <2>1, <2>3, <2>5, LoadSent DEF LoadInv
<1>3. CASE d # 0
  <2> DEFINE x == r[L!AllOrder[d]]
             f == L!DimensionReply(3, L!ControlUnit, d, <<x>>)
  <2>1. told' = [told EXCEPT ![L!AllOrder[d]] = x] /\ L!Send(f)
    BY <1>1, <1>3
  <2>2. d \in 1 .. 4 /\ x \in Readings
    BY <1>3, Places
  <2>3. f \in LoadFrames
    BY <2>2 DEF LoadFrames, ReadingFrames
  <2>4. L!Follow(LoadView, f) = [LoadView EXCEPT !.meter[L!AllOrder[d]] = x]
    BY <2>2, OneIsTold DEF LoadInv
  <2> HIDE DEF f, x
  <2>5. LoadView' = L!Follow(LoadView, f)
    BY <2>1, <2>4 DEF LoadView
  <2> QED
    BY <2>1, <2>3, <2>5, LoadSent DEF LoadInv
<1> QED
  BY <1>2, <1>3

LEMMA LoadObeyKept ==
  ASSUME LoadInv, L!LoadAssumption, L!Obey
  PROVE  LoadInv'
<1> DEFINE f == order[1]
<1>1. order' = <<>> /\ f \in LoadOrders /\ order' \in Seq(LoadOrders) /\ Len(order') <= 1
  BY DEF L!Obey, LoadInv
<1>2. CASE f.where.hash /\ f.where.n \notin Loads
  <2>0. f.type # "DIMENSION_REQUEST"
    BY <1>1, <1>2 DEF LoadOrders, L!Force, L!StatusOf, L!RequestMeasurement, L!Status,
                      L!StatusRequest, L!DimensionRequest, L!Frame, L!ControlUnit
  <2>1. load' = load /\ told' = told /\ wire' = wire /\ known' = known
    BY <1>2, <2>0 DEF L!Obey
  <2>2. LoadView' = LoadView /\ wire' = wire /\ known' = known
    BY <2>1 DEF LoadView
  <2> QED
    BY <1>1, <2>2 DEF LoadInv
<1>3. CASE ~(f.where.hash /\ f.where.n \notin Loads) /\ f \in {L!Force(n) : n \in 1 .. 8}
  <2>1. PICK n \in 1 .. 8 : f = L!Force(n)
    BY <1>3
  <2>2. f.type = "STATUS" /\ f.where.hash /\ f.where.n = n
    BY <2>1 DEF L!Force, L!Status, L!Frame, L!Priority
  <2>3. n \in Loads /\ load' = [load EXCEPT ![n] = 2] /\ told' = told /\ L!Send(L!StateFrame(n, 2))
    BY <1>3, <2>2 DEF L!Obey
  <2>4. 2 \in 0 .. 3
    OBVIOUS
  <2> QED
    BY <1>1, <2>3, <2>4, LoadStateSent
<1>4. CASE ~(f.where.hash /\ f.where.n \notin Loads) /\ f \in {L!StatusOf(n) : n \in 1 .. 8}
  <2>1. PICK n \in 1 .. 8 : f = L!StatusOf(n)
    BY <1>4
  <2>2. f.type = "STATUS_REQUEST" /\ f.where.hash /\ f.where.n = n
    BY <2>1 DEF L!StatusOf, L!StatusRequest, L!Frame, L!Priority
  <2>3. n \in Loads /\ load' = load /\ told' = told /\ L!Send(L!StateFrame(n, load[n]))
    BY <1>4, <2>2 DEF L!Obey
  <2>4. load[n] \in 0 .. 3 /\ load' = [load EXCEPT ![n] = load[n]]
    BY <2>3 DEF LoadInv, LoadView, LoadKnown
  <2> QED
    BY <1>1, <2>3, <2>4, LoadStateSent
<1>5. CASE f \in {L!RequestMeasurement(n) : n \in 0 .. 4}
  <2>1. PICK n \in 0 .. 4 : f = L!RequestMeasurement(n)
    BY <1>5
  <2>2. f.type = "DIMENSION_REQUEST" /\ ~f.where.hash /\ f.dim = n
    BY <2>1 DEF L!RequestMeasurement, L!DimensionRequest, L!Frame, L!ControlUnit
  <2>3. L!Measure(n) /\ load' = load
    BY <2>2 DEF L!Obey
  <2> QED
    BY <1>1, <2>3, LoadMeasureKept
<1> QED
  BY <1>1, <1>2, <1>3, <1>4, <1>5 DEF LoadOrders

LEMMA LoadTakeKept ==
  ASSUME LoadInv, L!LoadAssumption, L!Take
  PROVE  LoadInv'
<1> DEFINE f == Head(wire)
<1>1. wire # <<>> /\ wire' = Tail(wire) /\ UNCHANGED <<load, told, order>> /\ known' = L!Follow(known, f)
  BY DEF L!Take
<1>2. known \in LoadKnown
  BY LeadsEnds DEF LoadInv
<1>3. /\ f \in LoadFrames /\ Tail(wire) \in Seq(LoadFrames)
      /\ Leads(LoadFollow, LoadKnown, Tail(wire), LoadFollow[<<known, f>>], LoadView)
  BY <1>1, LeadsFrom DEF LoadInv
<1>4. LoadFollow[<<known, f>>] = known'
  BY <1>1, <1>2, <1>3, LoadFollows
<1>5. Len(wire') <= LoadWire
  BY <1>1 DEF LoadInv, L!LoadAssumption
<1>6. LoadView' = LoadView /\ order' = order
  BY <1>1 DEF LoadView
<1> QED
  BY <1>1, <1>3, <1>4, <1>5, <1>6 DEF LoadInv

LEMMA LoadStep ==
  ASSUME LoadInv, L!LoadAssumption, L!Next
  PROVE  LoadInv'
BY LoadOrderKept, LoadShedKept, LoadObeyKept, LoadTakeKept DEF L!Next

LEMMA LoadStart ==
  ASSUME L!Init, L!LoadAssumption
  PROVE  LoadInv
<1>1. LoadView \in LoadKnown /\ known = LoadView
  BY DEF L!Init, LoadView, LoadKnown
<1>2. order \in Seq(LoadOrders) /\ Len(order) <= 1 /\ wire \in Seq(LoadFrames) /\ Len(wire) = 0
  BY DEF L!Init
<1>3. Leads(LoadFollow, LoadKnown, wire, known, LoadView)
  BY <1>1, <1>2, LeadsNowhere
<1> QED
  BY <1>1, <1>2, <1>3 DEF LoadInv, L!LoadAssumption

LEMMA LoadKnows ==
  ASSUME LoadInv, L!LoadAssumption
  PROVE  L!TypeOK /\ L!LoadsKnown /\ L!MeterKnown
<1>1. wire = <<>> => known = LoadView
  <2>1. wire \in Seq(LoadFrames) /\ Leads(LoadFollow, LoadKnown, wire, known, LoadView)
    BY DEF LoadInv
  <2>2. Len(wire) = 0 => known = LoadView
    BY <2>1, LeadsEnds
  <2> QED
    BY <2>2
<1>2. \A f \in LoadOrders : f.where.hash => f.where.n \in 1 .. 8
  BY DEF LoadOrders, L!Force, L!StatusOf, L!RequestMeasurement, L!Status, L!StatusRequest,
         L!DimensionRequest, L!Frame, L!Priority, L!ControlUnit
<1>3. L!TypeOK
  BY <1>2 DEF L!TypeOK, LoadInv
<1> QED
  BY <1>1, <1>3 DEF L!LoadsKnown, L!MeterKnown, LoadView

(*************************** modules and scenes ***************************)

ModuleStates == [saved : SUBSET Scenarios, busy : Scenarios \cup {P!Null}, locked : BOOLEAN]
SceneFrames ==
  {P!Status(0, n, <<>>, m) : n \in Scenarios \cup 42 .. 45, m \in Modules}
  \cup {P!Status(0, what, <<n>>, m) : what \in {40, 41, 42, 46}, n \in Scenarios, m \in Modules}
  \cup {P!SceneFrame(s, what) : s \in Scenes, what \in 1 .. 4}
  \cup {P!DimensionReply(17, s, 40, <<1>>) : s \in Scenes}
SceneKnown == [module : [Modules -> ModuleStates], starts : [Modules -> Nat],
               on : SUBSET Scenes, enabled : SUBSET Scenes]
(* Nothing is launched that was not. *)
SceneSeen(so) == {k \in SceneKnown : \A m \in Modules : k.starts[m] <= so[m]}
SceneFollow == [x \in SceneKnown \X SceneFrames |-> P!Follow(x[1], x[2])]
SceneView == [module |-> module, starts |-> starts, on |-> on, enabled |-> enabled]
SceneInv ==
  /\ SceneView \in SceneKnown
  /\ wire \in Seq(SceneFrames) /\ Len(wire) <= SceneWire
  /\ Leads(SceneFollow, SceneSeen(starts), wire, known, SceneView)

(* What an event of a module may change, in a module of that state.        *)
Moved(k, m, state, launched) ==
  [k EXCEPT !.starts[m] = @ + launched, !.module[m] = state]
StateAfter(s, e, n) ==
  [saved |-> CASE e = "stopped" -> s.saved \cup {n}
               [] e = "deleted" -> IF n = P!Null THEN {} ELSE s.saved \ {n}
               [] OTHER -> s.saved,
   busy |-> CASE e = "started" -> n [] e = "stopped" -> P!Null [] OTHER -> s.busy,
   locked |-> CASE e = "locked" -> TRUE [] e = "unlocked" -> FALSE [] OTHER -> s.locked]

Started(s, n) == [s EXCEPT !.busy = n]
Stopped(s, n) == [s EXCEPT !.busy = P!Null, !.saved = @ \cup {n}]
Deleted(s, n) == [s EXCEPT !.saved = IF n = P!Null THEN {} ELSE @ \ {n}]
Locked(s) == [s EXCEPT !.locked = TRUE]
Unlocked(s) == [s EXCEPT !.locked = FALSE]

LEMMA StatesAfter ==
  ASSUME NEW s \in ModuleStates, NEW n
  PROVE  /\ StateAfter(s, "started", n) = Started(s, n)
         /\ StateAfter(s, "stopped", n) = Stopped(s, n)
         /\ StateAfter(s, "deleted", n) = Deleted(s, n)
         /\ StateAfter(s, "locked", n) = Locked(s)
         /\ StateAfter(s, "unlocked", n) = Unlocked(s)
         /\ \A e \in {"launched", "unavailable", "full"} : StateAfter(s, e, n) = s
<1> DEFINE saved(e) == CASE e = "stopped" -> s.saved \cup {n}
                         [] e = "deleted" -> IF n = P!Null THEN {} ELSE s.saved \ {n}
                         [] OTHER -> s.saved
           busy(e) == CASE e = "started" -> n [] e = "stopped" -> P!Null [] OTHER -> s.busy
           shut(e) == CASE e = "locked" -> TRUE [] e = "unlocked" -> FALSE [] OTHER -> s.locked
<1>1. \A e : StateAfter(s, e, n) = [saved |-> saved(e), busy |-> busy(e), locked |-> shut(e)]
  BY DEF StateAfter
<1>2. saved("stopped") = s.saved \cup {n}
  OBVIOUS
<1>3. saved("deleted") = IF n = P!Null THEN {} ELSE s.saved \ {n}
  OBVIOUS
<1>4. \A e \in {"started", "locked", "unlocked", "launched", "unavailable", "full"} : saved(e) = s.saved
  OBVIOUS
<1>5. busy("started") = n /\ busy("stopped") = P!Null
  OBVIOUS
<1>6. \A e \in {"deleted", "locked", "unlocked", "launched", "unavailable", "full"} : busy(e) = s.busy
  OBVIOUS
<1>7. shut("locked") = TRUE /\ shut("unlocked") = FALSE
  OBVIOUS
<1>8. \A e \in {"started", "stopped", "deleted", "launched", "unavailable", "full"} : shut(e) = s.locked
  OBVIOUS
<1> HIDE DEF saved, busy, shut
<1>9. s = [saved |-> s.saved, busy |-> s.busy, locked |-> s.locked]
  BY DEF ModuleStates
<1> DEFINE a == s.saved
           b == s.busy
           c == s.locked
<1>10. StateAfter(s, "started", n) = [saved |-> a, busy |-> n, locked |-> c]
  BY <1>1, <1>4, <1>5, <1>8
<1>11. StateAfter(s, "stopped", n) = [saved |-> a \cup {n}, busy |-> P!Null, locked |-> c]
  BY <1>1, <1>2, <1>5, <1>8
<1>12. StateAfter(s, "deleted", n) = [saved |-> IF n = P!Null THEN {} ELSE a \ {n}, busy |-> b, locked |-> c]
  BY <1>1, <1>3, <1>6, <1>8
<1>13. StateAfter(s, "locked", n) = [saved |-> a, busy |-> b, locked |-> TRUE]
  BY <1>1, <1>4, <1>6, <1>7
<1>14. StateAfter(s, "unlocked", n) = [saved |-> a, busy |-> b, locked |-> FALSE]
  BY <1>1, <1>4, <1>6, <1>7
<1>15. \A e \in {"launched", "unavailable", "full"} : StateAfter(s, e, n) = [saved |-> a, busy |-> b, locked |-> c]
  BY <1>1, <1>4, <1>6, <1>8
<1> HIDE DEF a, b, c
<1>16. DOMAIN s = {"saved", "busy", "locked"}
  BY DEF ModuleStates
<1>17. s = [saved |-> a, busy |-> b, locked |-> c]
  BY <1>9 DEF a, b, c
<1>18. [s EXCEPT !.busy = n] = [saved |-> a, busy |-> n, locked |-> c]
  BY DEF a, b, c, ModuleStates
<1>19. [s EXCEPT !.busy = P!Null, !.saved = @ \cup {n}] = [saved |-> a \cup {n}, busy |-> P!Null, locked |-> c]
  <2> DEFINE t == [s EXCEPT !.busy = P!Null]
  <2>1. t = [saved |-> a, busy |-> P!Null, locked |-> c]
    BY DEF a, b, c, ModuleStates
  <2>2. [t EXCEPT !.saved = a \cup {n}] = [saved |-> a \cup {n}, busy |-> P!Null, locked |-> c]
    <3> HIDE DEF t
    <3> QED
      BY <2>1
  <2> QED
    BY <2>2 DEF a
<1>20. [s EXCEPT !.saved = IF n = P!Null THEN {} ELSE @ \ {n}]
            = [saved |-> IF n = P!Null THEN {} ELSE a \ {n}, busy |-> b, locked |-> c]
  BY DEF a, b, c, ModuleStates
<1>21. \A x \in BOOLEAN : [s EXCEPT !.locked = x] = [saved |-> a, busy |-> b, locked |-> x]
  BY DEF a, b, c, ModuleStates
<1>22. TRUE \in BOOLEAN /\ FALSE \in BOOLEAN
  OBVIOUS
<1> QED
  <2>1. StateAfter(s, "started", n) = [s EXCEPT !.busy = n]
    BY <1>10, <1>18
  <2>2. StateAfter(s, "stopped", n) = [s EXCEPT !.busy = P!Null, !.saved = @ \cup {n}]
    BY <1>11, <1>19
  <2>3. StateAfter(s, "deleted", n) = [s EXCEPT !.saved = IF n = P!Null THEN {} ELSE @ \ {n}]
    BY <1>12, <1>20
  <2>4. StateAfter(s, "locked", n) = [s EXCEPT !.locked = TRUE]
    BY <1>13, <1>21, <1>22
  <2>5. StateAfter(s, "unlocked", n) = [s EXCEPT !.locked = FALSE]
    BY <1>14, <1>21, <1>22
  <2>6. \A e \in {"launched", "unavailable", "full"} : StateAfter(s, e, n) = s
    BY <1>15, <1>17
  <2> QED
    BY <2>1, <2>2, <2>3, <2>4, <2>5, <2>6 DEF Started, Stopped, Deleted, Locked, Unlocked

LEMMA ModuleFollows ==
  ASSUME NEW k, NEW f, f.who = 0
  PROVE  P!Follow(k, f) = Moved(k, f.where,
                                StateAfter(k.module[f.where], P!Event(f), P!ProgrammingScenario(f)),
                                IF P!Scenario(f) # P!Null THEN 1 ELSE 0)
BY DEF P!Follow, P!FollowModule, Moved, StateAfter

(* What the frames of a module say. *)
LEMMA LaunchFrame ==
  ASSUME NEW m, NEW n \in Scenarios, P!ScenarioAssumption, NEW f, f = P!Status(0, n, <<>>, m)
  PROVE  f.who = 0 /\ f.where = m /\ P!Event(f) = "launched" /\ P!Scenario(f) # P!Null
<1>1. n \in 1 .. 31 /\ n # P!Null
  BY DEF P!ScenarioAssumption, P!Null
<1>2. f.who = 0 /\ f.where = m /\ f.what = n
  BY DEF P!Status, P!Frame
<1>3. P!Event(f) = "launched"
  <2>1. f.what \notin 40 .. 46 /\ f.what # P!Null
    BY <1>1, <1>2
  <2> QED
    BY <2>1 DEF P!Event
<1>4. P!Scenario(f) # P!Null
  BY <1>1, <1>2 DEF P!Scenario
<1> QED
  BY <1>2, <1>3, <1>4

LEMMA ProgrammingFrame ==
  ASSUME NEW m, NEW w, NEW what \in 40 .. 46, NEW f, f = P!Status(0, what, w, m)
  PROVE  /\ f.who = 0 /\ f.where = m /\ P!Scenario(f) = P!Null
         /\ P!ProgrammingScenario(f) = IF w = <<>> THEN P!Null ELSE w[1]
         /\ what = 40 => P!Event(f) = "started"
         /\ what = 41 => P!Event(f) = "stopped"
         /\ what = 42 => P!Event(f) = "deleted"
         /\ what = 43 => P!Event(f) = "locked"
         /\ what = 44 => P!Event(f) = "unlocked"
         /\ what = 45 => P!Event(f) = "unavailable"
         /\ what = 46 => P!Event(f) = "full"
<1>1. f.who = 0 /\ f.where = m /\ f.what = what /\ f.wpar = w
  BY DEF P!Status, P!Frame
<1>2. P!Scenario(f) = P!Null
  BY <1>1 DEF P!Scenario
<1>3. P!ProgrammingScenario(f) = IF w = <<>> THEN P!Null ELSE w[1]
  BY <1>1 DEF P!ProgrammingScenario
<1>4. what = 40 => P!Event(f) = "started"
  BY <1>1 DEF P!Event, P!Null
<1>5. what = 41 => P!Event(f) = "stopped"
  BY <1>1 DEF P!Event, P!Null
<1>6. what = 42 => P!Event(f) = "deleted"
  BY <1>1 DEF P!Event, P!Null
<1>7. what = 43 => P!Event(f) = "locked"
  BY <1>1 DEF P!Event, P!Null
<1>8. what = 44 => P!Event(f) = "unlocked"
  BY <1>1 DEF P!Event, P!Null
<1>9. what = 45 => P!Event(f) = "unavailable"
  BY <1>1 DEF P!Event, P!Null
<1>10. what = 46 => P!Event(f) = "full"
  BY <1>1 DEF P!Event, P!Null
<1> QED
  BY <1>1, <1>2, <1>3, <1>4, <1>5, <1>6, <1>7, <1>8, <1>9, <1>10

(* What becomes of a module, event by event. *)
LEMMA LaunchIsTold ==
  ASSUME NEW k \in SceneKnown, NEW m \in Modules, NEW n \in Scenarios, P!ScenarioAssumption
  PROVE  P!Follow(k, P!Status(0, n, <<>>, m)) = Moved(k, m, k.module[m], 1)
<1> DEFINE f == P!Status(0, n, <<>>, m)
<1>1. f.who = 0 /\ f.where = m /\ P!Event(f) = "launched" /\ P!Scenario(f) # P!Null
  BY LaunchFrame
<1>2. k.module[m] \in ModuleStates
  BY DEF SceneKnown
<1> HIDE DEF f
<1>3. P!Follow(k, f) = Moved(k, m, StateAfter(k.module[m], "launched", P!ProgrammingScenario(f)), 1)
  BY <1>1, ModuleFollows
<1> QED
  BY <1>2, <1>3, StatesAfter DEF f

LEMMA ProgrammingIsTold ==
  ASSUME NEW k \in SceneKnown, NEW m \in Modules, NEW w, NEW what \in 40 .. 46,
         w # <<>> => w[1] # P!Null
  PROVE  LET s == k.module[m]
             to(state) == P!Follow(k, P!Status(0, what, w, m)) = Moved(k, m, state, 0)
         IN /\ what = 40 /\ w # <<>> => to(Started(s, w[1]))
            /\ what = 41 /\ w # <<>> => to(Stopped(s, w[1]))
            /\ what = 42 => to(Deleted(s, IF w = <<>> THEN P!Null ELSE w[1]))
            /\ what = 43 => to(Locked(s))
            /\ what = 44 => to(Unlocked(s))
            /\ what \in {45, 46} => to(s)
<1> DEFINE f == P!Status(0, what, w, m)
           s == k.module[m]
           e == P!Event(f)
           n == IF w = <<>> THEN P!Null ELSE w[1]
<1>1. /\ f.who = 0 /\ f.where = m /\ P!Scenario(f) = P!Null /\ P!ProgrammingScenario(f) = n
      /\ what = 40 => e = "started"
      /\ what = 41 => e = "stopped"
      /\ what = 42 => e = "deleted"
      /\ what = 43 => e = "locked"
      /\ what = 44 => e = "unlocked"
      /\ what = 45 => e = "unavailable"
      /\ what = 46 => e = "full"
  BY ProgrammingFrame
<1>2. s \in ModuleStates
  BY DEF SceneKnown
<1>3. (n = P!Null <=> w = <<>>) /\ (w # <<>> => n = w[1])
  OBVIOUS
<1> HIDE DEF f, e, n, s
<1>4. P!Follow(k, f) = Moved(k, m, StateAfter(s, e, n), 0)
  BY <1>1, ModuleFollows DEF s, e
<1> DEFINE to(state) == P!Follow(k, f) = Moved(k, m, state, 0)
<1>5. what = 40 /\ w # <<>> => to(Started(s, w[1]))
  BY <1>1, <1>2, <1>3, <1>4, StatesAfter
<1>6. what = 41 /\ w # <<>> => to(Stopped(s, w[1]))
  BY <1>1, <1>2, <1>3, <1>4, StatesAfter
<1>7. what = 42 => to(Deleted(s, IF w = <<>> THEN P!Null ELSE w[1]))
  BY <1>1, <1>2, <1>4, StatesAfter DEF n
<1>8. what = 43 => to(Locked(s))
  BY <1>1, <1>2, <1>4, StatesAfter
<1>9. what = 44 => to(Unlocked(s))
  BY <1>1, <1>2, <1>4, StatesAfter
<1>10. what \in {45, 46} => to(s)
  BY <1>1, <1>2, <1>4, StatesAfter
<1> QED
  BY <1>5, <1>6, <1>7, <1>8, <1>9, <1>10 DEF f, s

LEMMA MovedIsKnown ==
  ASSUME NEW k \in SceneKnown, NEW m \in Modules, NEW state \in ModuleStates, NEW c \in {0, 1}
  PROVE  Moved(k, m, state, c) \in SceneKnown
<1> DEFINE l == [k EXCEPT !.starts[m] = @ + c]
<1>1. l \in SceneKnown
  BY DEF SceneKnown
<1>2. Moved(k, m, state, c) = [l EXCEPT !.module[m] = state]
  BY DEF Moved
<1> HIDE DEF l
<1> QED
  BY <1>1, <1>2 DEF SceneKnown

LEMMA StatesStay ==
  ASSUME NEW s \in ModuleStates
  PROVE  /\ \A n \in Scenarios :
              /\ Started(s, n) \in ModuleStates
              /\ Stopped(s, n) \in ModuleStates
              /\ Deleted(s, n) \in ModuleStates
         /\ Deleted(s, P!Null) \in ModuleStates
         /\ Locked(s) \in ModuleStates
         /\ Unlocked(s) \in ModuleStates
BY DEF ModuleStates, Started, Stopped, Deleted, Locked, Unlocked

(* An event of a scene. *)
SceneAfter(k, s, what) ==
  [k EXCEPT !.on = CASE what = 1 -> @ \cup {s} [] what = 2 -> @ \ {s} [] OTHER -> @,
            !.enabled = CASE what = 3 -> @ \cup {s} [] what = 4 -> @ \ {s} [] OTHER -> @]
LEMMA SceneIsTold ==
  ASSUME NEW k \in SceneKnown, NEW s \in Scenes, NEW what \in 1 .. 4
  PROVE  P!Follow(k, P!SceneFrame(s, what)) = SceneAfter(k, s, what)
<1> DEFINE f == P!SceneFrame(s, what)
<1>1. f.who # 0 /\ f.where = s /\ f.what = what
  BY DEF P!SceneFrame, P!Status, P!Frame
<1> HIDE DEF f
<1>2. P!Follow(k, f) = [k EXCEPT !.on = P!Kept(@, s, P!IsOn(f)), !.enabled = P!Kept(@, s, P!IsEnabled(f))]
  BY <1>1 DEF P!Follow
<1>3. P!Kept(k.on, s, P!IsOn(f)) = CASE what = 1 -> k.on \cup {s} [] what = 2 -> k.on \ {s} [] OTHER -> k.on
  <2>1. what = 1 => P!IsOn(f) = "yes"
    BY <1>1 DEF P!IsOn
  <2>2. what = 2 => P!IsOn(f) = "no"
    BY <1>1 DEF P!IsOn
  <2>3. what \in {3, 4} => P!IsOn(f) = "none"
    BY <1>1 DEF P!IsOn
  <2> QED
    BY <2>1, <2>2, <2>3 DEF P!Kept
<1>4. P!Kept(k.enabled, s, P!IsEnabled(f))
        = CASE what = 3 -> k.enabled \cup {s} [] what = 4 -> k.enabled \ {s} [] OTHER -> k.enabled
  <2>1. what = 3 => P!IsEnabled(f) = "yes"
    BY <1>1 DEF P!IsEnabled
  <2>2. what = 4 => P!IsEnabled(f) = "no"
    BY <1>1 DEF P!IsEnabled
  <2>3. what \in {1, 2} => P!IsEnabled(f) = "none"
    BY <1>1 DEF P!IsEnabled
  <2> QED
    BY <2>1, <2>2, <2>3 DEF P!Kept
<1> QED
  BY <1>2, <1>3, <1>4 DEF f, SceneAfter

LEMMA RunIsTold ==
  ASSUME NEW k \in SceneKnown, NEW s \in Scenes
  PROVE  P!Follow(k, P!DimensionReply(17, s, 40, <<1>>)) = k
<1> DEFINE f == P!DimensionReply(17, s, 40, <<1>>)
<1>1. f.who # 0 /\ f.where = s /\ f.what = P!Null
  BY DEF P!DimensionReply, P!Frame
<1> HIDE DEF f
<1>2. P!IsOn(f) = "none" /\ P!IsEnabled(f) = "none"
  BY <1>1 DEF P!IsOn, P!IsEnabled, P!Null
<1>3. P!Follow(k, f) = [k EXCEPT !.on = k.on, !.enabled = k.enabled]
  BY <1>1, <1>2 DEF P!Follow, P!Kept
<1> QED
  BY <1>3 DEF f, SceneKnown

LEMMA SceneFollows ==
  ASSUME NEW k \in SceneKnown, NEW f \in SceneFrames, P!ScenarioAssumption
  PROVE  P!Follow(k, f) \in SceneKnown /\ SceneFollow[<<k, f>>] = P!Follow(k, f)
<1>1. CASE \E n \in Scenarios, m \in Modules : f = P!Status(0, n, <<>>, m)
  <2>1. PICK n \in Scenarios, m \in Modules : f = P!Status(0, n, <<>>, m)
    BY <1>1
  <2>2. P!Follow(k, f) = Moved(k, m, k.module[m], 1)
    BY <2>1, LaunchIsTold
  <2>3. k.module[m] \in ModuleStates
    BY DEF SceneKnown
  <2> QED
    BY <2>2, <2>3, MovedIsKnown DEF SceneFollow
<1>2. ASSUME NEW m \in Modules, NEW what \in 40 .. 46, NEW w,
             \/ what \in 42 .. 45 /\ w = <<>>
             \/ what \in {40, 41, 42, 46} /\ \E n \in Scenarios : w = <<n>>,
             f = P!Status(0, what, w, m)
      PROVE  P!Follow(k, f) \in SceneKnown
  <2> DEFINE s == k.module[m]
  <2>1. s \in ModuleStates
    BY DEF SceneKnown
  <2>2. w # <<>> => w[1] \in Scenarios /\ w[1] # P!Null
    BY <1>2 DEF P!ScenarioAssumption, P!Null
  <2>3. \E state \in ModuleStates : P!Follow(k, f) = Moved(k, m, state, 0)
    <3>1. CASE what = 40
      BY <1>2, <2>1, <2>2, <3>1, ProgrammingIsTold, StatesStay
    <3>2. CASE what = 41
      BY <1>2, <2>1, <2>2, <3>2, ProgrammingIsTold, StatesStay
    <3>3. CASE what = 42
      BY <1>2, <2>1, <2>2, <3>3, ProgrammingIsTold, StatesStay
    <3>4. CASE what = 43
      BY <1>2, <2>1, <2>2, <3>4, ProgrammingIsTold, StatesStay
    <3>5. CASE what = 44
      BY <1>2, <2>1, <2>2, <3>5, ProgrammingIsTold, StatesStay
    <3>6. CASE what \in {45, 46}
      BY <1>2, <2>1, <2>2, <3>6, ProgrammingIsTold
    <3> QED
      BY <3>1, <3>2, <3>3, <3>4, <3>5, <3>6
  <2> QED
    BY <2>3, MovedIsKnown
<1>3. CASE \E s \in Scenes, what \in 1 .. 4 : f = P!SceneFrame(s, what)
  <2>1. PICK s \in Scenes, what \in 1 .. 4 : f = P!SceneFrame(s, what)
    BY <1>3
  <2> DEFINE a == CASE what = 1 -> k.on \cup {s} [] what = 2 -> k.on \ {s} [] OTHER -> k.on
             b == CASE what = 3 -> k.enabled \cup {s} [] what = 4 -> k.enabled \ {s} [] OTHER -> k.enabled
  <2>2. P!Follow(k, f) = [k EXCEPT !.on = a, !.enabled = b]
    <3>1. P!Follow(k, f) = SceneAfter(k, s, what)
      BY <2>1, SceneIsTold
    <3>2. SceneAfter(k, s, what) = [k EXCEPT !.on = a, !.enabled = b]
      BY DEF SceneAfter
    <3> QED
      BY <3>1, <3>2
  <2>3. a \in SUBSET Scenes /\ b \in SUBSET Scenes
    <3>1. k.on \in SUBSET Scenes /\ k.enabled \in SUBSET Scenes
      BY DEF SceneKnown
    <3>2. a \in SUBSET Scenes
      BY <3>1
    <3>3. b \in SUBSET Scenes
      BY <3>1
    <3> QED
      BY <3>2, <3>3
  <2> HIDE DEF a, b
  <2> QED
    BY <2>2, <2>3 DEF SceneKnown, SceneFollow
<1>4. CASE \E s \in Scenes : f = P!DimensionReply(17, s, 40, <<1>>)
  BY <1>4, RunIsTold DEF SceneFollow
<1>5. CASE \E what \in 42 .. 45, m \in Modules : f = P!Status(0, what, <<>>, m)
  BY <1>2, <1>5 DEF SceneFollow
<1>6. CASE \E what \in {40, 41, 42, 46}, n \in Scenarios, m \in Modules : f = P!Status(0, what, <<n>>, m)
  BY <1>2, <1>6 DEF SceneFollow
<1> QED
  BY <1>1, <1>3, <1>4, <1>5, <1>6 DEF SceneFrames

LEMMA SceneSent ==
  ASSUME SceneInv, P!ScenarioAssumption, NEW f \in SceneFrames, P!Send(f),
         SceneView' = P!Follow(SceneView, f), \A m \in Modules : starts[m] <= starts'[m]
  PROVE  SceneInv'
<1> DEFINE X == SceneSeen(starts)
           T == SceneSeen(starts')
<1>1. SceneView \in SceneKnown /\ SceneView' \in SceneKnown /\ SceneFollow[<<SceneView, f>>] = SceneView'
  BY SceneFollows DEF SceneInv
<1>2. starts \in [Modules -> Nat] /\ starts' \in [Modules -> Nat]
  BY <1>1 DEF SceneKnown, SceneView
<1>3. X \subseteq T
  BY <1>2 DEF SceneSeen, SceneKnown
<1>4. SceneView' \in T
  BY <1>1, <1>2 DEF SceneSeen, SceneView
<1>5. wire \in Seq(SceneFrames) /\ Leads(SceneFollow, X, wire, known, SceneView)
  BY DEF SceneInv
<1> HIDE DEF X, T
<1>6. Leads(SceneFollow, T, wire, known, SceneView)
  BY <1>3, <1>5, LeadsWider
<1>7. /\ Append(wire, f) \in Seq(SceneFrames)
      /\ Leads(SceneFollow, T, Append(wire, f), known, SceneView')
  BY <1>1, <1>4, <1>5, <1>6, LeadsOn
<1>8. wire' = Append(wire, f) /\ known' = known /\ Len(wire) < SceneWire /\ Len(wire') = Len(wire) + 1
  BY <1>5 DEF P!Send
<1>9. Len(wire') <= SceneWire
  BY <1>5, <1>8 DEF P!ScenarioAssumption
<1> QED
  BY <1>1, <1>7, <1>8, <1>9 DEF SceneInv, T

(* An event of a module that told what became of it. *)
LEMMA ModuleSent ==
  ASSUME SceneInv, P!ScenarioAssumption, NEW m \in Modules, NEW state, NEW c \in {0, 1},
         NEW f \in SceneFrames, P!Send(f), UNCHANGED <<on, enabled>>,
         P!Follow(SceneView, f) = Moved(SceneView, m, state, c),
         module' = [module EXCEPT ![m] = state], starts' = [starts EXCEPT ![m] = @ + c]
  PROVE  SceneInv'
<1>1. SceneView \in SceneKnown
  BY DEF SceneInv
<1>2. SceneView' = Moved(SceneView, m, state, c)
  BY DEF Moved, SceneView
<1>3. starts \in [Modules -> Nat]
  BY <1>1 DEF SceneKnown, SceneView
<1>4. \A o \in Modules : starts[o] <= starts'[o]
  BY <1>3
<1> QED
  BY <1>2, <1>4, SceneSent

LEMMA SceneViews ==
  ASSUME SceneInv
  PROVE  /\ SceneView \in SceneKnown /\ module \in [Modules -> ModuleStates] /\ SceneView.module = module
         /\ starts \in [Modules -> Nat] /\ on \subseteq Scenes /\ enabled \subseteq Scenes
         /\ \A m \in Modules : starts = [starts EXCEPT ![m] = @ + 0] /\ module = [module EXCEPT ![m] = @]
<1>1. /\ SceneView \in SceneKnown /\ module \in [Modules -> ModuleStates] /\ SceneView.module = module
      /\ starts \in [Modules -> Nat] /\ on \subseteq Scenes /\ enabled \subseteq Scenes
  BY DEF SceneInv, SceneView, SceneKnown
<1> QED
  BY <1>1

LEMMA LaunchKept ==
  ASSUME SceneInv, P!ScenarioAssumption, NEW m \in Modules, P!Launch(m)
  PROVE  SceneInv'
<1>1. PICK n \in module[m].saved :
        /\ starts' = [starts EXCEPT ![m] = @ + 1]
        /\ P!Tell(m, n, <<>>) /\ UNCHANGED module
  BY DEF P!Launch
<1> DEFINE f == P!Status(0, n, <<>>, m)
<1>2. n \in Scenarios
  BY SceneViews DEF ModuleStates
<1>3. f \in SceneFrames
  BY <1>2 DEF SceneFrames
<1>4. P!Follow(SceneView, f) = Moved(SceneView, m, module[m], 1)
  BY <1>2, SceneViews, LaunchIsTold
<1>5. P!Send(f) /\ UNCHANGED <<on, enabled>>
  BY <1>1 DEF P!Tell
<1>6. module' = [module EXCEPT ![m] = module[m]]
  BY <1>1, SceneViews
<1> HIDE DEF f
<1> QED
  BY <1>1, <1>3, <1>4, <1>5, <1>6, ModuleSent

(* Every other event of a module counts no launch. *)
LEMMA NumberIsTold ==
  ASSUME NEW k \in SceneKnown, NEW m \in Modules, NEW n \in Scenarios, P!ScenarioAssumption
  PROVE  /\ P!Follow(k, P!Status(0, 40, <<n>>, m)) = Moved(k, m, Started(k.module[m], n), 0)
         /\ P!Follow(k, P!Status(0, 41, <<n>>, m)) = Moved(k, m, Stopped(k.module[m], n), 0)
         /\ P!Follow(k, P!Status(0, 42, <<n>>, m)) = Moved(k, m, Deleted(k.module[m], n), 0)
         /\ P!Follow(k, P!Status(0, 46, <<n>>, m)) = Moved(k, m, k.module[m], 0)
         /\ \A what \in {40, 41, 42, 46} : P!Status(0, what, <<n>>, m) \in SceneFrames
<1> DEFINE w == <<n>>
<1>1. w # <<>> /\ w[1] = n /\ n # P!Null
  BY DEF P!ScenarioAssumption, P!Null
<1>2. \A what \in {40, 41, 42, 46} : P!Status(0, what, w, m) \in SceneFrames
  BY DEF SceneFrames
<1> HIDE DEF w
<1>3. \A what \in 40 .. 46 :
        LET s == k.module[m]
            to(state) == P!Follow(k, P!Status(0, what, w, m)) = Moved(k, m, state, 0)
        IN /\ what = 40 => to(Started(s, n))
           /\ what = 41 => to(Stopped(s, n))
           /\ what = 42 => to(Deleted(s, n))
           /\ what = 46 => to(s)
  BY <1>1, ProgrammingIsTold
<1> QED
  BY <1>2, <1>3 DEF w

LEMMA BareIsTold ==
  ASSUME NEW k \in SceneKnown, NEW m \in Modules
  PROVE  /\ P!Follow(k, P!Status(0, 42, <<>>, m)) = Moved(k, m, Deleted(k.module[m], P!Null), 0)
         /\ P!Follow(k, P!Status(0, 43, <<>>, m)) = Moved(k, m, Locked(k.module[m]), 0)
         /\ P!Follow(k, P!Status(0, 44, <<>>, m)) = Moved(k, m, Unlocked(k.module[m]), 0)
         /\ P!Follow(k, P!Status(0, 45, <<>>, m)) = Moved(k, m, k.module[m], 0)
         /\ \A what \in 42 .. 45 : P!Status(0, what, <<>>, m) \in SceneFrames
<1> DEFINE w == <<>>
<1>1. w = <<>>
  OBVIOUS
<1>2. \A what \in 42 .. 45 : P!Status(0, what, w, m) \in SceneFrames
  BY DEF SceneFrames
<1> HIDE DEF w
<1>3. \A what \in 40 .. 46 :
        LET s == k.module[m]
            to(state) == P!Follow(k, P!Status(0, what, w, m)) = Moved(k, m, state, 0)
        IN /\ what = 42 => to(Deleted(s, P!Null))
           /\ what = 43 => to(Locked(s))
           /\ what = 44 => to(Unlocked(s))
           /\ what = 45 => to(s)
  BY <1>1, ProgrammingIsTold
<1> QED
  BY <1>2, <1>3 DEF w

LEMMA ProgrammingKept ==
  ASSUME SceneInv, P!ScenarioAssumption, NEW m \in Modules, NEW what, NEW w, NEW state,
         P!Status(0, what, w, m) \in SceneFrames,
         P!Follow(SceneView, P!Status(0, what, w, m)) = Moved(SceneView, m, state, 0),
         P!Tell(m, what, w), starts' = starts, module' = [module EXCEPT ![m] = state]
  PROVE  SceneInv'
<1> DEFINE f == P!Status(0, what, w, m)
<1>1. f \in SceneFrames /\ P!Follow(SceneView, f) = Moved(SceneView, m, state, 0)
  OBVIOUS
<1>2. P!Send(f) /\ UNCHANGED <<on, enabled>>
  BY DEF P!Tell
<1>3. starts' = [starts EXCEPT ![m] = @ + 0]
  BY SceneViews
<1> HIDE DEF f
<1>4. 0 \in {0, 1}
  OBVIOUS
<1> QED
  BY <1>1, <1>2, <1>3, <1>4, ModuleSent

LEMMA ProgramKept ==
  ASSUME SceneInv, P!ScenarioAssumption, NEW m \in Modules, P!Program(m)
  PROVE  SceneInv'
<1>1. PICK n \in Scenarios :
        /\ UNCHANGED starts
        /\ \/ module' = [module EXCEPT ![m].busy = n] /\ P!Tell(m, 40, <<n>>)
           \/ UNCHANGED module /\ P!Tell(m, 46, <<n>>)
           \/ UNCHANGED module /\ P!Tell(m, 45, <<>>)
  BY DEF P!Program
<1>2. module = [module EXCEPT ![m] = module[m]] /\ SceneView.module[m] = module[m] /\ SceneView \in SceneKnown
  BY SceneViews
<1>3. CASE module' = [module EXCEPT ![m].busy = n] /\ P!Tell(m, 40, <<n>>)
  <2> DEFINE state == Started(module[m], n)
  <2>1. module' = [module EXCEPT ![m] = state]
    BY <1>3 DEF Started
  <2>2. /\ P!Status(0, 40, <<n>>, m) \in SceneFrames
        /\ P!Follow(SceneView, P!Status(0, 40, <<n>>, m)) = Moved(SceneView, m, state, 0)
    BY SceneViews, NumberIsTold
  <2>3. P!Tell(m, 40, <<n>>) /\ starts' = starts
    BY <1>1, <1>3
  <2> HIDE DEF state
  <2> QED
    BY <2>1, <2>2, <2>3, ProgrammingKept
<1>4. CASE UNCHANGED module /\ P!Tell(m, 46, <<n>>)
  BY <1>1, <1>2, <1>4, NumberIsTold, ProgrammingKept
<1>5. CASE UNCHANGED module /\ P!Tell(m, 45, <<>>)
  BY <1>1, <1>2, <1>5, BareIsTold, ProgrammingKept
<1> QED
  BY <1>1, <1>3, <1>4, <1>5

LEMMA ProgramDoneKept ==
  ASSUME SceneInv, P!ScenarioAssumption, NEW m \in Modules, P!ProgramDone(m)
  PROVE  SceneInv'
<1> DEFINE n == module[m].busy
<1>1. n \in Scenarios /\ starts' = starts /\ P!Tell(m, 41, <<n>>)
  BY SceneViews DEF P!ProgramDone, ModuleStates
<1> DEFINE state == Stopped(module[m], n)
<1>2. module' = [module EXCEPT ![m] = state]
  BY DEF P!ProgramDone, Stopped
<1> HIDE DEF n
<1>3. /\ P!Status(0, 41, <<n>>, m) \in SceneFrames
      /\ P!Follow(SceneView, P!Status(0, 41, <<n>>, m)) = Moved(SceneView, m, state, 0)
  BY <1>1, SceneViews, NumberIsTold
<1> HIDE DEF state
<1> QED
  BY <1>1, <1>2, <1>3, ProgrammingKept

LEMMA EraseKept ==
  ASSUME SceneInv, P!ScenarioAssumption, NEW m \in Modules, P!Erase(m)
  PROVE  SceneInv'
<1>1. starts' = starts
  BY DEF P!Erase
<1>2. CASE \E n \in Scenarios :
             module' = [module EXCEPT ![m].saved = @ \ {n}] /\ P!Tell(m, 42, <<n>>)
  <2>1. PICK n \in Scenarios :
             module' = [module EXCEPT ![m].saved = @ \ {n}] /\ P!Tell(m, 42, <<n>>)
    BY <1>2
  <2>2. n # P!Null
    BY DEF P!ScenarioAssumption, P!Null
  <2> DEFINE state == Deleted(module[m], n)
  <2>3. module' = [module EXCEPT ![m] = state]
    BY <2>1, <2>2 DEF Deleted
  <2>4. /\ P!Status(0, 42, <<n>>, m) \in SceneFrames
        /\ P!Follow(SceneView, P!Status(0, 42, <<n>>, m)) = Moved(SceneView, m, state, 0)
    BY SceneViews, NumberIsTold
  <2> HIDE DEF state
  <2> QED
    BY <1>1, <2>1, <2>3, <2>4, ProgrammingKept
<1>3. CASE module' = [module EXCEPT ![m].saved = {}] /\ P!Tell(m, 42, <<>>)
  <2> DEFINE state == Deleted(module[m], P!Null)
  <2>1. module' = [module EXCEPT ![m] = state]
    BY <1>3 DEF Deleted
  <2>2. /\ P!Status(0, 42, <<>>, m) \in SceneFrames
        /\ P!Follow(SceneView, P!Status(0, 42, <<>>, m)) = Moved(SceneView, m, state, 0)
    BY SceneViews, BareIsTold
  <2>3. P!Tell(m, 42, <<>>) /\ starts' = starts
    BY <1>1, <1>3
  <2> HIDE DEF state
  <2> QED
    BY <2>1, <2>2, <2>3, ProgrammingKept
<1> QED
  BY <1>2, <1>3 DEF P!Erase

LEMMA ProtectKept ==
  ASSUME SceneInv, P!ScenarioAssumption, NEW m \in Modules, P!Protect(m)
  PROVE  SceneInv'
<1>1. starts' = starts
  BY DEF P!Protect
<1>2. CASE module' = [module EXCEPT ![m].locked = TRUE] /\ P!Tell(m, 43, <<>>)
  <2> DEFINE state == Locked(module[m])
  <2>1. module' = [module EXCEPT ![m] = state]
    BY <1>2 DEF Locked
  <2>2. /\ P!Status(0, 43, <<>>, m) \in SceneFrames
        /\ P!Follow(SceneView, P!Status(0, 43, <<>>, m)) = Moved(SceneView, m, state, 0)
    BY SceneViews, BareIsTold
  <2>3. P!Tell(m, 43, <<>>) /\ starts' = starts
    BY <1>1, <1>2
  <2> HIDE DEF state
  <2> QED
    BY <2>1, <2>2, <2>3, ProgrammingKept
<1>3. CASE module' = [module EXCEPT ![m].locked = FALSE] /\ P!Tell(m, 44, <<>>)
  <2> DEFINE state == Unlocked(module[m])
  <2>1. module' = [module EXCEPT ![m] = state]
    BY <1>3 DEF Unlocked
  <2>2. /\ P!Status(0, 44, <<>>, m) \in SceneFrames
        /\ P!Follow(SceneView, P!Status(0, 44, <<>>, m)) = Moved(SceneView, m, state, 0)
    BY SceneViews, BareIsTold
  <2>3. P!Tell(m, 44, <<>>) /\ starts' = starts
    BY <1>1, <1>3
  <2> HIDE DEF state
  <2> QED
    BY <2>1, <2>2, <2>3, ProgrammingKept
<1> QED
  BY <1>2, <1>3, Zenon DEF P!Protect

LEMMA SceneCommandKept ==
  ASSUME SceneInv, P!ScenarioAssumption, NEW s \in Scenes, P!Command(s)
  PROVE  SceneInv'
<1>1. PICK what \in 1 .. 4 :
        LET f == P!SceneFrame(s, what) IN
        /\ on' = CASE f.what = 1 -> on \cup {s} [] f.what = 2 -> on \ {s} [] OTHER -> on
        /\ enabled' = CASE f.what = 3 -> enabled \cup {s} [] f.what = 4 -> enabled \ {s} [] OTHER -> enabled
        /\ P!Send(f) /\ UNCHANGED <<module, starts>>
  BY DEF P!Command
<1> DEFINE f == P!SceneFrame(s, what)
<1>2. f.what = what /\ f \in SceneFrames
  BY DEF P!SceneFrame, P!Status, P!Frame, SceneFrames
<1>3. P!Follow(SceneView, f) = SceneAfter(SceneView, s, what)
  BY SceneViews, SceneIsTold
<1> HIDE DEF f
<1> DEFINE a == CASE what = 1 -> on \cup {s} [] what = 2 -> on \ {s} [] OTHER -> on
           b == CASE what = 3 -> enabled \cup {s} [] what = 4 -> enabled \ {s} [] OTHER -> enabled
<1>4. on' = a /\ enabled' = b /\ P!Send(f) /\ module' = module /\ starts' = starts
  BY <1>1, <1>2 DEF f
<1>5. P!Follow(SceneView, f) = [SceneView EXCEPT !.on = a, !.enabled = b]
  BY <1>3 DEF SceneView, SceneAfter
<1> HIDE DEF a, b
<1>6. SceneView' = P!Follow(SceneView, f)
  BY <1>4, <1>5 DEF SceneView
<1>7. \A m \in Modules : starts[m] <= starts'[m]
  BY <1>4, SceneViews
<1> QED
  BY <1>2, <1>4, <1>6, <1>7, SceneSent

LEMMA SceneAskKept ==
  ASSUME SceneInv, P!ScenarioAssumption, NEW s \in Scenes, P!Ask(s)
  PROVE  SceneInv'
<1>1. /\ UNCHANGED <<module, starts, on, enabled>>
      /\ LET f == P!StatusOf(s) IN
         \/ P!Send(P!SceneFrame(f.where, IF s \in on THEN 1 ELSE 2))
         \/ P!Send(P!SceneFrame(f.where, IF s \in enabled THEN 3 ELSE 4))
         \/ P!Send(P!DimensionReply(17, f.where, 40, <<1>>))
  BY DEF P!Ask
<1>2. P!StatusOf(s).where = s
  BY DEF P!StatusOf, P!StatusRequest, P!Frame
<1>3. SceneView' = SceneView /\ \A m \in Modules : starts[m] <= starts'[m]
  BY <1>1, SceneViews DEF SceneView
<1>4. ASSUME NEW what \in 1 .. 4, P!Send(P!SceneFrame(s, what)),
             what = 1 => s \in on, what = 2 => s \notin on,
             what = 3 => s \in enabled, what = 4 => s \notin enabled
      PROVE  SceneInv'
  <2> DEFINE f == P!SceneFrame(s, what)
             a == CASE what = 1 -> on \cup {s} [] what = 2 -> on \ {s} [] OTHER -> on
             b == CASE what = 3 -> enabled \cup {s} [] what = 4 -> enabled \ {s} [] OTHER -> enabled
  <2>1. P!Follow(SceneView, f) = SceneAfter(SceneView, s, what)
    BY SceneViews, SceneIsTold
  <2>2. P!Follow(SceneView, f) = [SceneView EXCEPT !.on = a, !.enabled = b]
    BY <2>1 DEF SceneView, SceneAfter
  <2>3. a = on /\ b = enabled
    BY <1>4
  <2>4. f \in SceneFrames
    BY DEF SceneFrames
  <2> HIDE DEF a, b, f
  <2>5. P!Follow(SceneView, f) = SceneView
    BY <2>2, <2>3 DEF SceneView
  <2>6. P!Send(f)
    BY <1>4 DEF f
  <2> QED
    BY <1>3, <2>4, <2>5, <2>6, SceneSent
<1>5. CASE P!Send(P!DimensionReply(17, s, 40, <<1>>))
  <2> DEFINE f == P!DimensionReply(17, s, 40, <<1>>)
  <2>1. f \in SceneFrames /\ P!Follow(SceneView, f) = SceneView
    BY RunIsTold, SceneViews DEF SceneFrames
  <2>2. P!Send(f)
    BY <1>5
  <2> HIDE DEF f
  <2> QED
    BY <1>3, <2>1, <2>2, SceneSent
<1>6. CASE P!Send(P!SceneFrame(s, IF s \in on THEN 1 ELSE 2))
  BY <1>4, <1>6
<1>7. CASE P!Send(P!SceneFrame(s, IF s \in enabled THEN 3 ELSE 4))
  BY <1>4, <1>7
<1> QED
  BY <1>1, <1>2, <1>5, <1>6, <1>7

LEMMA SceneTakeKept ==
  ASSUME SceneInv, P!ScenarioAssumption, P!Take
  PROVE  SceneInv'
<1> DEFINE f == Head(wire)
           X == SceneSeen(starts)
<1>1. wire # <<>> /\ wire' = Tail(wire) /\ UNCHANGED <<module, starts, on, enabled>>
      /\ known' = P!Follow(known, f)
  BY DEF P!Take
<1>2. wire \in Seq(SceneFrames) /\ Leads(SceneFollow, X, wire, known, SceneView) /\ Len(wire) <= SceneWire
  BY DEF SceneInv
<1>3. X \subseteq SceneKnown
  BY DEF SceneSeen
<1> HIDE DEF X
<1>4. known \in SceneKnown
  BY <1>2, <1>3, LeadsEnds
<1>5. /\ f \in SceneFrames /\ Tail(wire) \in Seq(SceneFrames)
      /\ Leads(SceneFollow, X, Tail(wire), SceneFollow[<<known, f>>], SceneView)
  BY <1>1, <1>2, LeadsFrom
<1>6. SceneFollow[<<known, f>>] = known'
  BY <1>1, <1>4, <1>5, SceneFollows
<1>7. Len(wire') <= SceneWire
  BY <1>1, <1>2 DEF P!ScenarioAssumption
<1>8. SceneView' = SceneView /\ X' = X /\ SceneView \in SceneKnown
  BY <1>1 DEF SceneView, SceneInv, X
<1> QED
  BY <1>1, <1>5, <1>6, <1>7, <1>8 DEF SceneInv, X

LEMMA SceneStep ==
  ASSUME SceneInv, P!ScenarioAssumption, P!Next
  PROVE  SceneInv'
BY LaunchKept, ProgramKept, ProgramDoneKept, EraseKept, ProtectKept, SceneCommandKept, SceneAskKept,
   SceneTakeKept DEF P!Next

LEMMA SceneStart ==
  ASSUME P!Init, P!ScenarioAssumption
  PROVE  SceneInv
<1>1. SceneView \in SceneKnown /\ known = SceneView /\ SceneView \in SceneSeen(starts)
  BY DEF P!Init, SceneView, SceneKnown, SceneSeen, ModuleStates
<1>2. wire \in Seq(SceneFrames) /\ Len(wire) = 0
  BY DEF P!Init
<1>3. Leads(SceneFollow, SceneSeen(starts), wire, known, SceneView)
  BY <1>1, <1>2, LeadsNowhere
<1> QED
  BY <1>1, <1>2, <1>3 DEF SceneInv, P!ScenarioAssumption

LEMMA SceneKnows ==
  ASSUME SceneInv, P!ScenarioAssumption
  PROVE  P!TypeOK /\ P!ModulesKnown /\ P!ScenesKnown /\ P!LaunchesCounted
<1>1. wire \in Seq(SceneFrames) /\ Leads(SceneFollow, SceneSeen(starts), wire, known, SceneView)
  BY DEF SceneInv
<1>2. known \in SceneSeen(starts) /\ (Len(wire) = 0 => known = SceneView)
  BY <1>1, LeadsEnds
<1>3. wire = <<>> => known = SceneView
  BY <1>2
<1>4. known \in SceneKnown /\ \A m \in Modules : known.starts[m] <= starts[m]
  BY <1>2 DEF SceneSeen
<1>5. P!TypeOK
  BY <1>4 DEF P!TypeOK, SceneInv, SceneKnown, ModuleStates
<1> QED
  BY <1>3, <1>4, <1>5 DEF P!ModulesKnown, P!ScenesKnown, P!LaunchesCounted, SceneView

(******************************** the keys ********************************)

Phases == {"up", "down", "held"}
PlusKeys == {k \in C!Keys : k.plus}
CenKeyFrames == {C!CenFrame(k, mark) : k \in C!Keys \ PlusKeys, mark \in {<<>>, <<1>>, <<2>>, <<3>>}}
PlusKeyFrames == {C!PlusFrame(k, what) : k \in PlusKeys, what \in 21 .. 24}
ContactFrames == {C!ContactFrame(s, closes, d) : s \in KeySensors, closes \in BOOLEAN, d \in {0, 1}}
CenFrames == CenKeyFrames \cup PlusKeyFrames \cup ContactFrames
CenKnown == [phase : [C!Keys -> Phases], presses : [C!Keys -> Nat], closed : SUBSET KeySensors]
CenSeen(most) == {x \in CenKnown : \A k \in C!Keys : x.presses[k] <= most[k]}
CenFollow == [x \in CenKnown \X CenFrames |-> C!Follow(x[1], x[2])]
(* A CEN+ key that is down has told nothing yet. *)
Told(k) == IF k.plus /\ phase[k] = "down" THEN "up" ELSE phase[k]
CenView == [phase |-> [k \in C!Keys |-> Told(k)], presses |-> presses, closed |-> closed]
CenInv ==
  /\ phase \in [C!Keys -> Phases] /\ CenView \in CenKnown
  /\ wire \in Seq(CenFrames) /\ Len(wire) <= KeyWire
  /\ Leads(CenFollow, CenSeen(presses), wire, known, CenView)

(* A key does what an event of it says, and c short presses more.          *)
KeyMoved(x, k, to, c) ==
  [phase |-> [x.phase EXCEPT ![k] = to], presses |-> [x.presses EXCEPT ![k] = @ + c], closed |-> x.closed]
ContactMoved(x, s, closes) ==
  [phase |-> x.phase, presses |-> x.presses, closed |-> IF closes THEN x.closed \cup {s} ELSE x.closed \ {s}]

LEMMA KeysAre ==
  /\ \A k \in C!Keys : k = [plus |-> k.plus, at |-> k.at, button |-> k.button] /\ k.plus \in BOOLEAN
                       /\ k.button \in KeyButtons
  /\ \A k \in PlusKeys : k \in C!Keys /\ k.plus /\ k.at \in KeyObjects
  /\ \A k \in C!Keys \ PlusKeys : ~k.plus
<1>1. ASSUME NEW k \in C!Keys
      PROVE  /\ k = [plus |-> k.plus, at |-> k.at, button |-> k.button]
             /\ k.plus \in BOOLEAN /\ k.button \in KeyButtons
             /\ k.plus => k.at \in KeyObjects
  <2>1. CASE \E p \in KeyPoints, b \in KeyButtons : k = [plus |-> FALSE, at |-> p, button |-> b]
    BY <2>1
  <2>2. CASE \E o \in KeyObjects, b \in KeyButtons : k = [plus |-> TRUE, at |-> o, button |-> b]
    BY <2>2
  <2> QED
    BY <2>1, <2>2 DEF C!Keys
<1> QED
  BY <1>1 DEF PlusKeys

LEMMA NumberIsRead ==
  ASSUME NEW at \in Seq(0 .. 9) \ {<<>>}, NEW d \in {2, 3}
  PROVE  C!Number(<<d>> \o at, d) = at
<1>1. Len(at) > 0
  OBVIOUS
<1> DEFINE w == <<d>> \o at
<1>2. w \in Seq(0 .. 9) /\ Len(w) = Len(at) + 1 /\ w[1] = d
  BY <1>1
<1>3. Tail(w) = at
  OBVIOUS
<1> HIDE DEF w
<1>4. C!Number(w, d) = Tail(w)
  BY <1>1, <1>2 DEF C!Number
<1> QED
  BY <1>3, <1>4 DEF w

LEMMA KeyFollows ==
  ASSUME NEW x \in CenKnown, NEW k \in C!Keys, NEW f, C!Class(f) \in {"cen", "plus"}, C!Key(f) = k
  PROVE  C!Follow(x, f) = KeyMoved(x, k, C!To(f, x.phase[k]), IF C!IsShort(f) THEN 1 ELSE 0)
<1> DEFINE to == C!To(f, x.phase[k])
           c == IF C!IsShort(f) THEN 1 ELSE 0
<1>1. k \in DOMAIN x.phase
  BY DEF CenKnown
<1>2. C!Follow(x, f) = [x EXCEPT !.phase[k] = to, !.presses[k] = @ + c]
  BY <1>1 DEF C!Follow
<1> HIDE DEF to, c
<1> DEFINE y == [x EXCEPT !.phase[k] = to]
<1>3. y = [phase |-> [x.phase EXCEPT ![k] = to], presses |-> x.presses, closed |-> x.closed]
  BY DEF CenKnown
<1>4. [y EXCEPT !.presses[k] = @ + c] = KeyMoved(x, k, to, c)
  <2> HIDE DEF y
  <2> QED
    BY <1>3 DEF KeyMoved
<1> QED
  BY <1>2, <1>4 DEF to, c

LEMMA CenIsTold ==
  ASSUME NEW x \in CenKnown, NEW k \in C!Keys \ PlusKeys
  PROVE  /\ C!Follow(x, C!CenFrame(k, <<>>)) = KeyMoved(x, k, "down", 0)
         /\ C!Follow(x, C!CenFrame(k, <<1>>)) = KeyMoved(x, k, "up", 1)
         /\ C!Follow(x, C!CenFrame(k, <<2>>)) = KeyMoved(x, k, "up", 0)
         /\ C!Follow(x, C!CenFrame(k, <<3>>)) = KeyMoved(x, k, "held", 0)
<1>1. ASSUME NEW mark
      PROVE  LET f == C!CenFrame(k, mark) IN
             /\ C!Class(f) = "cen" /\ C!Key(f) = k /\ f.wpar = mark
             /\ C!Mark(f) = IF mark = <<>> THEN C!Null ELSE mark[1]
  <2> DEFINE f == C!CenFrame(k, mark)
  <2>1. f.who = 15 /\ f.where = k.at /\ f.what = k.button /\ f.wpar = mark
    BY DEF C!CenFrame, C!Status, C!Frame
  <2> HIDE DEF f
  <2>2. C!Class(f) = "cen"
    BY <2>1 DEF C!Class
  <2>3. C!Key(f) = k
    BY <2>1, <2>2, KeysAre DEF C!Key
  <2>4. C!Mark(f) = IF mark = <<>> THEN C!Null ELSE mark[1]
    BY <2>1 DEF C!Mark
  <2> QED
    BY <2>1, <2>2, <2>3, <2>4 DEF f
<1>2. ASSUME NEW f, C!Class(f) = "cen", C!Key(f) = k
      PROVE  /\ C!Mark(f) = C!Null => C!Follow(x, f) = KeyMoved(x, k, "down", 0)
             /\ C!Mark(f) = 1 => C!Follow(x, f) = KeyMoved(x, k, "up", 1)
             /\ C!Mark(f) = 2 => C!Follow(x, f) = KeyMoved(x, k, "up", 0)
             /\ C!Mark(f) = 3 => C!Follow(x, f) = KeyMoved(x, k, "held", 0)
  <2> DEFINE before == x.phase[k]
  <2>1. C!Follow(x, f) = KeyMoved(x, k, C!To(f, before), IF C!IsShort(f) THEN 1 ELSE 0)
    BY <1>2, KeyFollows
  <2> HIDE DEF before
  <2>2. C!Mark(f) = C!Null => C!To(f, before) = "down" /\ ~C!IsShort(f)
    BY <1>2 DEF C!To, C!IsPressed, C!IsHeld, C!IsShort, C!IsReleased, C!Null
  <2>3. C!Mark(f) = 1 => C!To(f, before) = "up" /\ C!IsShort(f)
    BY <1>2 DEF C!To, C!IsPressed, C!IsHeld, C!IsShort, C!IsReleased, C!Null
  <2>4. C!Mark(f) = 2 => C!To(f, before) = "up" /\ ~C!IsShort(f)
    BY <1>2 DEF C!To, C!IsPressed, C!IsHeld, C!IsShort, C!IsReleased, C!Null
  <2>5. C!Mark(f) = 3 => C!To(f, before) = "held" /\ ~C!IsShort(f)
    BY <1>2 DEF C!To, C!IsPressed, C!IsHeld, C!IsShort, C!IsReleased, C!Null
  <2> QED
    BY <2>1, <2>2, <2>3, <2>4, <2>5
<1>3. \A i \in 1 .. 3 : <<i>> # <<>> /\ <<i>>[1] = i
  OBVIOUS
<1>4. C!Mark(C!CenFrame(k, <<>>)) = C!Null
  BY <1>1
<1>5. \A i \in 1 .. 3 : C!Mark(C!CenFrame(k, <<i>>)) = i
  BY <1>1, <1>3
<1>6. \A mark : C!Class(C!CenFrame(k, mark)) = "cen" /\ C!Key(C!CenFrame(k, mark)) = k
  BY <1>1
<1> QED
  BY <1>2, <1>4, <1>5, <1>6

LEMMA PlusIsTold ==
  ASSUME NEW x \in CenKnown, NEW k \in PlusKeys, C!CenAssumption
  PROVE  /\ C!Follow(x, C!PlusFrame(k, 21)) = KeyMoved(x, k, "up", 1)
         /\ C!Follow(x, C!PlusFrame(k, 22)) = KeyMoved(x, k, "held", 0)
         /\ C!Follow(x, C!PlusFrame(k, 23)) = KeyMoved(x, k, "held", 0)
         /\ C!Follow(x, C!PlusFrame(k, 24)) = KeyMoved(x, k, "up", 0)
<1>1. ASSUME NEW what \in 21 .. 24, NEW f, f = C!PlusFrame(k, what)
      PROVE  C!Class(f) = "plus" /\ C!Key(f) = k /\ f.what = what
  <2> DEFINE b == <<k.button>>
  <2>1. f.type = "STATUS" /\ f.who = 25 /\ f.where = <<2>> \o k.at /\ f.what = what /\ f.wpar = b
    BY <1>1 DEF C!PlusFrame, C!Status, C!Frame
  <2>2. C!Class(f) = "plus"
    BY <2>1 DEF C!Class
  <2>3. b # <<>> /\ b[1] = k.button /\ k.button \in 0 .. 31
    BY KeysAre DEF C!CenAssumption
  <2>4. k.at \in Seq(0 .. 9) \ {<<>>}
    BY KeysAre DEF C!CenAssumption
  <2>5. C!Number(f.where, 2) = k.at
    BY <2>1, <2>4, NumberIsRead
  <2> HIDE DEF b
  <2>6. C!Key(f) = [plus |-> TRUE, at |-> k.at, button |-> k.button]
    BY <2>1, <2>2, <2>3, <2>5 DEF C!Key
  <2> QED
    BY <2>1, <2>2, <2>6, KeysAre
<1>2. ASSUME NEW f, C!Class(f) = "plus", C!Key(f) = k
      PROVE  /\ f.what = 21 => C!Follow(x, f) = KeyMoved(x, k, "up", 1)
             /\ f.what \in {22, 23} => C!Follow(x, f) = KeyMoved(x, k, "held", 0)
             /\ f.what = 24 => C!Follow(x, f) = KeyMoved(x, k, "up", 0)
  <2> DEFINE before == x.phase[k]
  <2>1. C!Follow(x, f) = KeyMoved(x, k, C!To(f, before), IF C!IsShort(f) THEN 1 ELSE 0)
    BY <1>2, KeysAre, KeyFollows
  <2> HIDE DEF before
  <2>2. f.what = 21 => C!To(f, before) = "up" /\ C!IsShort(f)
    BY <1>2 DEF C!To, C!IsPressed, C!IsHeld, C!IsShort, C!IsReleased
  <2>3. f.what \in {22, 23} => C!To(f, before) = "held" /\ ~C!IsShort(f)
    BY <1>2 DEF C!To, C!IsPressed, C!IsHeld, C!IsShort, C!IsReleased
  <2>4. f.what = 24 => C!To(f, before) = "up" /\ ~C!IsShort(f)
    BY <1>2 DEF C!To, C!IsPressed, C!IsHeld, C!IsShort, C!IsReleased
  <2> QED
    BY <2>1, <2>2, <2>3, <2>4
<1>3. \A what \in 21 .. 24 : LET f == C!PlusFrame(k, what) IN
                             C!Class(f) = "plus" /\ C!Key(f) = k /\ f.what = what
  BY <1>1
<1> QED
  BY <1>2, <1>3

LEMMA ContactIsTold ==
  ASSUME NEW x \in CenKnown, NEW s \in KeySensors, NEW closes \in BOOLEAN, NEW d, C!CenAssumption
  PROVE  C!Follow(x, C!ContactFrame(s, closes, d)) = ContactMoved(x, s, closes)
<1> DEFINE f == C!ContactFrame(s, closes, d)
<1>1. f.who = 25 /\ f.type = "STATUS" /\ f.where = <<3>> \o s /\ f.what = IF closes THEN 31 ELSE 32
  BY DEF C!ContactFrame, C!Status, C!Frame
<1> HIDE DEF f
<1>2. C!Class(f) = "contact" /\ (C!IsOn(f) <=> closes)
  BY <1>1 DEF C!Class, C!IsOn
<1>3. C!Number(f.where, 3) = s
  BY <1>1, NumberIsRead DEF C!CenAssumption
<1>4. C!Follow(x, f) = [x EXCEPT !.closed = IF closes THEN @ \cup {s} ELSE @ \ {s}]
  BY <1>2, <1>3 DEF C!Follow
<1> QED
  BY <1>4 DEF f, ContactMoved, CenKnown

LEMMA MovesAreKnown ==
  ASSUME NEW x \in CenKnown
  PROVE  /\ \A k \in C!Keys, to \in Phases, c \in {0, 1} : KeyMoved(x, k, to, c) \in CenKnown
         /\ \A s \in KeySensors, closes \in BOOLEAN : ContactMoved(x, s, closes) \in CenKnown
BY DEF CenKnown, KeyMoved, ContactMoved

(* Each event moves a key, or a contact, and nothing else.                 *)
LEMMA CenMoves ==
  ASSUME NEW f \in CenFrames, C!CenAssumption
  PROVE  \/ \E k \in C!Keys, to \in Phases, c \in {0, 1} : \A y \in CenKnown : C!Follow(y, f) = KeyMoved(y, k, to, c)
         \/ \E s \in KeySensors, closes \in BOOLEAN : \A y \in CenKnown : C!Follow(y, f) = ContactMoved(y, s, closes)
<1>1. CASE f \in CenKeyFrames
  <2>1. PICK k \in C!Keys \ PlusKeys, mark \in {<<>>, <<1>>, <<2>>, <<3>>} : f = C!CenFrame(k, mark)
    BY <1>1 DEF CenKeyFrames
  <2>2. {"up", "down", "held"} = Phases
    BY DEF Phases
  <2>3. mark = <<>> => \A y \in CenKnown : C!Follow(y, f) = KeyMoved(y, k, "down", 0)
    BY <2>1, CenIsTold
  <2>4. mark = <<1>> => \A y \in CenKnown : C!Follow(y, f) = KeyMoved(y, k, "up", 1)
    BY <2>1, CenIsTold
  <2>5. mark = <<2>> => \A y \in CenKnown : C!Follow(y, f) = KeyMoved(y, k, "up", 0)
    BY <2>1, CenIsTold
  <2>6. mark = <<3>> => \A y \in CenKnown : C!Follow(y, f) = KeyMoved(y, k, "held", 0)
    BY <2>1, CenIsTold
  <2>7. \E to \in Phases, c \in {0, 1} : \A y \in CenKnown : C!Follow(y, f) = KeyMoved(y, k, to, c)
    BY <2>2, <2>3, <2>4, <2>5, <2>6
  <2> QED
    BY <2>7
<1>2. CASE f \in PlusKeyFrames
  <2>1. PICK k \in PlusKeys, what \in 21 .. 24 : f = C!PlusFrame(k, what)
    BY <1>2 DEF PlusKeyFrames
  <2>2. {"up", "held"} \subseteq Phases /\ k \in C!Keys
    BY DEF Phases, PlusKeys
  <2>3. what = 21 => \A y \in CenKnown : C!Follow(y, f) = KeyMoved(y, k, "up", 1)
    BY <2>1, PlusIsTold
  <2>4. what = 22 => \A y \in CenKnown : C!Follow(y, f) = KeyMoved(y, k, "held", 0)
    BY <2>1, PlusIsTold
  <2>5. what = 23 => \A y \in CenKnown : C!Follow(y, f) = KeyMoved(y, k, "held", 0)
    BY <2>1, PlusIsTold
  <2>6. what = 24 => \A y \in CenKnown : C!Follow(y, f) = KeyMoved(y, k, "up", 0)
    BY <2>1, PlusIsTold
  <2>7. what = 21 \/ what = 22 \/ what = 23 \/ what = 24
    OBVIOUS
  <2>8. \E to \in Phases, c \in {0, 1} : \A y \in CenKnown : C!Follow(y, f) = KeyMoved(y, k, to, c)
    BY <2>2, <2>3, <2>4, <2>5, <2>6, <2>7
  <2> QED
    BY <2>2, <2>8
<1>3. CASE f \in ContactFrames
  <2>1. PICK s \in KeySensors, closes \in BOOLEAN, d \in {0, 1} : f = C!ContactFrame(s, closes, d)
    BY <1>3 DEF ContactFrames
  <2>2. \A y \in CenKnown : C!Follow(y, f) = ContactMoved(y, s, closes)
    BY <2>1, ContactIsTold
  <2> QED
    BY <2>2
<1> QED
  BY <1>1, <1>2, <1>3 DEF CenFrames

LEMMA CenFollows ==
  ASSUME NEW x \in CenKnown, NEW f \in CenFrames, C!CenAssumption
  PROVE  C!Follow(x, f) \in CenKnown /\ CenFollow[<<x, f>>] = C!Follow(x, f)
<1>1. C!Follow(x, f) \in CenKnown
  BY CenMoves, MovesAreKnown
<1> QED
  BY <1>1 DEF CenFollow

LEMMA CenSent ==
  ASSUME CenInv, C!CenAssumption, NEW f \in CenFrames, C!Send(f), CenView' = C!Follow(CenView, f),
         phase' \in [C!Keys -> Phases], \A k \in C!Keys : presses[k] <= presses'[k]
  PROVE  CenInv'
<1> DEFINE may == CenSeen(presses')
<1>1. C!Follow(CenView, f) \in CenKnown /\ CenFollow[<<CenView, f>>] = C!Follow(CenView, f)
  BY CenFollows DEF CenInv
<1>2. wire' = Append(wire, f) /\ known' = known /\ Len(wire) < KeyWire
  BY DEF C!Send
<1>3. CenView' \in CenKnown /\ CenView'.presses = presses' /\ CenView.presses = presses
  BY <1>1 DEF CenView
<1>4. presses' \in [C!Keys -> Nat] /\ presses \in [C!Keys -> Nat]
  BY <1>3 DEF CenKnown, CenInv
<1>5. C!Follow(CenView, f) \in may
  BY <1>1, <1>3, <1>4 DEF CenSeen
<1>6. CenSeen(presses) \subseteq may
  BY <1>4 DEF CenSeen, CenKnown
<1> HIDE DEF may
<1>7. wire \in Seq(CenFrames) /\ Leads(CenFollow, may, wire, known, CenView)
  BY <1>6, LeadsWider DEF CenInv
<1>8. /\ Append(wire, f) \in Seq(CenFrames)
      /\ Leads(CenFollow, may, Append(wire, f), known, CenFollow[<<CenView, f>>])
  BY <1>1, <1>5, <1>7, LeadsOn
<1>9. Len(wire') <= KeyWire
  BY <1>2, <1>7 DEF C!CenAssumption
<1>10. Leads(CenFollow, CenSeen(presses)', wire', known', CenView')
  BY <1>1, <1>2, <1>8 DEF may
<1> QED
  BY <1>1, <1>2, <1>3, <1>8, <1>9, <1>10 DEF CenInv

LEMMA CenViews ==
  ASSUME CenInv
  PROVE  /\ CenView \in CenKnown /\ phase \in [C!Keys -> Phases] /\ presses \in [C!Keys -> Nat]
         /\ closed \subseteq KeySensors
         /\ CenView = [phase |-> CenView.phase, presses |-> presses, closed |-> closed]
         /\ CenView.phase = [k \in C!Keys |-> Told(k)]
BY DEF CenInv, CenView, CenKnown

(* A key moves and tells so. *)
LEMMA KeySent ==
  ASSUME CenInv, C!CenAssumption, NEW k \in C!Keys, NEW to \in Phases, NEW shown \in Phases,
         NEW c \in {0, 1}, NEW f \in CenFrames, C!Send(f),
         \A y \in CenKnown : C!Follow(y, f) = KeyMoved(y, k, shown, c),
         phase' = [phase EXCEPT ![k] = to], closed' = closed, presses' = [presses EXCEPT ![k] = @ + c],
         shown = IF k.plus /\ to = "down" THEN "up" ELSE to
  PROVE  CenInv'
<1>1. C!Follow(CenView, f) = KeyMoved(CenView, k, shown, c)
  BY CenViews
<1>2. phase' \in [C!Keys -> Phases] /\ \A o \in C!Keys : presses[o] <= presses'[o]
  BY CenViews
<1>3. [o \in C!Keys |-> Told(o)]' = [[o \in C!Keys |-> Told(o)] EXCEPT ![k] = shown]
  <2>1. \A o \in C!Keys : phase'[o] = IF o = k THEN to ELSE phase[o]
    BY CenViews
  <2> QED
    BY <2>1 DEF Told
<1>4. CenView' = KeyMoved(CenView, k, shown, c)
  BY <1>3 DEF CenView, KeyMoved
<1> QED
  BY <1>1, <1>2, <1>4, CenSent

LEMMA QuietKept ==
  ASSUME CenInv, C!CenAssumption, phase' \in [C!Keys -> Phases], CenView' = CenView,
         UNCHANGED <<presses, wire, known>>
  PROVE  CenInv'
BY DEF CenInv, CenSeen

LEMMA KeyKept ==
  ASSUME CenInv, C!CenAssumption, NEW k \in C!Keys,
         C!Down(k) \/ C!UpSoon(k) \/ C!Hold(k) \/ C!HoldOn(k) \/ C!UpLate(k)
  PROVE  CenInv'
<1>0. /\ presses = [presses EXCEPT ![k] = @ + 0] /\ phase = [phase EXCEPT ![k] = @] /\ 0 \in {0, 1} /\ 1 \in {0, 1}
      /\ "up" \in Phases /\ "down" \in Phases /\ "held" \in Phases
  BY CenViews DEF Phases
<1>1. CASE C!Down(k) /\ k.plus
  <2>1. phase[k] = "up" /\ phase' = [phase EXCEPT ![k] = "down"] /\ UNCHANGED <<presses, wire, known, closed>>
    BY <1>1 DEF C!Down, C!Moves
  <2>2. phase' \in [C!Keys -> Phases] /\ \A o \in C!Keys : phase'[o] = IF o = k THEN "down" ELSE phase[o]
    BY <1>0, <2>1, CenViews
  <2>3. [o \in C!Keys |-> Told(o)]' = [o \in C!Keys |-> Told(o)]
    BY <1>1, <2>1, <2>2 DEF Told
  <2>4. CenView' = CenView
    BY <2>1, <2>3 DEF CenView
  <2> QED
    BY <2>1, <2>2, <2>4, QuietKept
<1>2. CASE C!Down(k) /\ ~k.plus
  <2> DEFINE f == C!CenFrame(k, <<>>)
  <2>1. /\ phase' = [phase EXCEPT ![k] = "down"] /\ closed' = closed /\ presses' = presses
        /\ C!Send(f) /\ k \in C!Keys \ PlusKeys
    BY <1>2 DEF C!Down, C!Moves, C!Press, PlusKeys
  <2>2. f \in CenFrames /\ \A y \in CenKnown : C!Follow(y, f) = KeyMoved(y, k, "down", 0)
    BY <2>1, CenIsTold DEF CenFrames, CenKeyFrames
  <2> HIDE DEF f
  <2> QED
    BY <1>0, <1>2, <2>1, <2>2, KeySent
<1>3. CASE C!UpSoon(k) /\ k.plus
  <2> DEFINE f == C!PlusFrame(k, 21)
  <2>1. /\ phase' = [phase EXCEPT ![k] = "up"] /\ closed' = closed /\ presses' = [presses EXCEPT ![k] = @ + 1]
        /\ C!Send(f) /\ k \in PlusKeys
    BY <1>3 DEF C!UpSoon, C!Moves, C!Counted, C!Press, PlusKeys
  <2>2. f \in CenFrames /\ \A y \in CenKnown : C!Follow(y, f) = KeyMoved(y, k, "up", 1)
    BY <2>1, PlusIsTold DEF CenFrames, PlusKeyFrames
  <2> HIDE DEF f
  <2> QED
    BY <1>0, <2>1, <2>2, KeySent
<1>4. CASE C!UpSoon(k) /\ ~k.plus
  <2> DEFINE f == C!CenFrame(k, <<1>>)
  <2>1. /\ phase' = [phase EXCEPT ![k] = "up"] /\ closed' = closed /\ presses' = [presses EXCEPT ![k] = @ + 1]
        /\ C!Send(f) /\ k \in C!Keys \ PlusKeys
    BY <1>4 DEF C!UpSoon, C!Moves, C!Counted, C!ReleaseShortPress, PlusKeys
  <2>2. f \in CenFrames /\ \A y \in CenKnown : C!Follow(y, f) = KeyMoved(y, k, "up", 1)
    BY <2>1, CenIsTold DEF CenFrames, CenKeyFrames
  <2> HIDE DEF f
  <2> QED
    BY <1>0, <2>1, <2>2, KeySent
<1>5. CASE C!Hold(k) /\ k.plus
  <2> DEFINE f == C!PlusFrame(k, 22)
  <2>1. /\ phase' = [phase EXCEPT ![k] = "held"] /\ closed' = closed /\ presses' = presses
        /\ C!Send(f) /\ k \in PlusKeys
    BY <1>5 DEF C!Hold, C!Moves, C!StartLongPress, PlusKeys
  <2>2. f \in CenFrames /\ \A y \in CenKnown : C!Follow(y, f) = KeyMoved(y, k, "held", 0)
    BY <2>1, PlusIsTold DEF CenFrames, PlusKeyFrames
  <2> HIDE DEF f
  <2> QED
    BY <1>0, <2>1, <2>2, KeySent
<1>6. CASE C!Hold(k) /\ ~k.plus
  <2> DEFINE f == C!CenFrame(k, <<3>>)
  <2>1. /\ phase' = [phase EXCEPT ![k] = "held"] /\ closed' = closed /\ presses' = presses
        /\ C!Send(f) /\ k \in C!Keys \ PlusKeys
    BY <1>6 DEF C!Hold, C!Moves, C!StartLongPress, PlusKeys
  <2>2. f \in CenFrames /\ \A y \in CenKnown : C!Follow(y, f) = KeyMoved(y, k, "held", 0)
    BY <2>1, CenIsTold DEF CenFrames, CenKeyFrames
  <2> HIDE DEF f
  <2> QED
    BY <1>0, <2>1, <2>2, KeySent
<1>7. CASE C!HoldOn(k) /\ k.plus
  <2> DEFINE f == C!PlusFrame(k, 23)
  <2>1. /\ phase' = [phase EXCEPT ![k] = "held"] /\ closed' = closed /\ presses' = presses
        /\ C!Send(f) /\ k \in PlusKeys
    BY <1>0, <1>7 DEF C!HoldOn, C!StillHeld, PlusKeys
  <2>2. f \in CenFrames /\ \A y \in CenKnown : C!Follow(y, f) = KeyMoved(y, k, "held", 0)
    BY <2>1, PlusIsTold DEF CenFrames, PlusKeyFrames
  <2> HIDE DEF f
  <2> QED
    BY <1>0, <2>1, <2>2, KeySent
<1>8. CASE C!HoldOn(k) /\ ~k.plus
  <2> DEFINE f == C!CenFrame(k, <<3>>)
  <2>1. /\ phase' = [phase EXCEPT ![k] = "held"] /\ closed' = closed /\ presses' = presses
        /\ C!Send(f) /\ k \in C!Keys \ PlusKeys
    BY <1>0, <1>8 DEF C!HoldOn, C!StillHeld, PlusKeys
  <2>2. f \in CenFrames /\ \A y \in CenKnown : C!Follow(y, f) = KeyMoved(y, k, "held", 0)
    BY <2>1, CenIsTold DEF CenFrames, CenKeyFrames
  <2> HIDE DEF f
  <2> QED
    BY <1>0, <2>1, <2>2, KeySent
<1>9. CASE C!UpLate(k) /\ k.plus
  <2> DEFINE f == C!PlusFrame(k, 24)
  <2>1. /\ phase' = [phase EXCEPT ![k] = "up"] /\ closed' = closed /\ presses' = presses
        /\ C!Send(f) /\ k \in PlusKeys
    BY <1>9 DEF C!UpLate, C!Moves, C!Release, PlusKeys
  <2>2. f \in CenFrames /\ \A y \in CenKnown : C!Follow(y, f) = KeyMoved(y, k, "up", 0)
    BY <2>1, PlusIsTold DEF CenFrames, PlusKeyFrames
  <2> HIDE DEF f
  <2> QED
    BY <1>0, <2>1, <2>2, KeySent
<1>10. CASE C!UpLate(k) /\ ~k.plus
  <2> DEFINE f == C!CenFrame(k, <<2>>)
  <2>1. /\ phase' = [phase EXCEPT ![k] = "up"] /\ closed' = closed /\ presses' = presses
        /\ C!Send(f) /\ k \in C!Keys \ PlusKeys
    BY <1>10 DEF C!UpLate, C!Moves, C!Release, PlusKeys
  <2>2. f \in CenFrames /\ \A y \in CenKnown : C!Follow(y, f) = KeyMoved(y, k, "up", 0)
    BY <2>1, CenIsTold DEF CenFrames, CenKeyFrames
  <2> HIDE DEF f
  <2> QED
    BY <1>0, <2>1, <2>2, KeySent
<1> QED
  BY <1>1, <1>2, <1>3, <1>4, <1>5, <1>6, <1>7, <1>8, <1>9, <1>10

LEMMA ContactSent ==
  ASSUME CenInv, C!CenAssumption, NEW s \in KeySensors, NEW closes \in BOOLEAN, NEW d \in {0, 1},
         C!Send(C!ContactFrame(s, closes, d)), UNCHANGED <<phase, presses>>,
         closed' = IF closes THEN closed \cup {s} ELSE closed \ {s}
  PROVE  CenInv'
<1> DEFINE f == C!ContactFrame(s, closes, d)
<1>1. f \in CenFrames
  BY DEF CenFrames, ContactFrames
<1>2. C!Follow(CenView, f) = ContactMoved(CenView, s, closes)
  BY CenViews, ContactIsTold
<1>3. CenView' = ContactMoved(CenView, s, closes)
  BY DEF CenView, ContactMoved, Told
<1>4. phase' \in [C!Keys -> Phases] /\ \A k \in C!Keys : presses[k] <= presses'[k]
  BY CenViews
<1> HIDE DEF f
<1>5. C!Send(f)
  BY DEF f
<1> QED
  BY <1>1, <1>2, <1>3, <1>4, <1>5, CenSent

LEMMA ContactKept ==
  ASSUME CenInv, C!CenAssumption, NEW s \in KeySensors, C!Toggle(s) \/ C!Asked(s)
  PROVE  CenInv'
<1> DEFINE is == s \in closed
           isnt == s \notin closed
<1>0. 0 \in {0, 1} /\ 1 \in {0, 1} /\ is \in BOOLEAN /\ isnt \in BOOLEAN
  OBVIOUS
<1>1. CASE C!Toggle(s)
  <2>1. /\ closed' = IF isnt THEN closed \cup {s} ELSE closed \ {s}
        /\ C!Send(C!ContactFrame(s, isnt, 1)) /\ UNCHANGED <<phase, presses>>
    BY <1>1 DEF C!Toggle
  <2> HIDE DEF isnt
  <2> QED
    BY <1>0, <2>1, ContactSent
<1>2. CASE C!Asked(s)
  <2>1. C!StatusOf(s).where = <<3>> \o s
    BY DEF C!StatusOf, C!StatusRequest, C!Frame
  <2>2. C!Number(C!StatusOf(s).where, 3) = s
    BY <2>1, NumberIsRead DEF C!CenAssumption
  <2>3. C!Send(C!ContactFrame(s, is, 0)) /\ UNCHANGED <<phase, presses, closed>>
    BY <1>2, <2>2 DEF C!Asked
  <2>4. closed = IF is THEN closed \cup {s} ELSE closed \ {s}
    OBVIOUS
  <2> HIDE DEF is
  <2> QED
    BY <1>0, <2>3, <2>4, ContactSent
<1> QED
  BY <1>1, <1>2

LEMMA CenTakeKept ==
  ASSUME CenInv, C!CenAssumption, C!Take
  PROVE  CenInv'
<1> DEFINE f == Head(wire)
           may == CenSeen(presses)
<1>1. wire # <<>> /\ wire' = Tail(wire) /\ UNCHANGED <<phase, presses, closed>>
      /\ known' = C!Follow(known, f)
  BY DEF C!Take
<1>2. wire \in Seq(CenFrames) /\ Leads(CenFollow, may, wire, known, CenView) /\ Len(wire) <= KeyWire
  BY DEF CenInv
<1>3. may \subseteq CenKnown
  BY DEF CenSeen
<1> HIDE DEF may
<1>4. known \in CenKnown
  BY <1>2, <1>3, LeadsEnds
<1>5. /\ f \in CenFrames /\ Tail(wire) \in Seq(CenFrames)
      /\ Leads(CenFollow, may, Tail(wire), CenFollow[<<known, f>>], CenView)
  BY <1>1, <1>2, LeadsFrom
<1>6. CenFollow[<<known, f>>] = known'
  BY <1>1, <1>4, <1>5, CenFollows
<1>7. Len(wire') <= KeyWire
  BY <1>1, <1>2 DEF C!CenAssumption
<1>8. CenView' = CenView /\ may' = may /\ CenView \in CenKnown /\ phase' \in [C!Keys -> Phases]
  BY <1>1 DEF CenView, CenInv, may, Told
<1> QED
  BY <1>1, <1>5, <1>6, <1>7, <1>8 DEF CenInv, may

LEMMA CenStep ==
  ASSUME CenInv, C!CenAssumption, C!Next
  PROVE  CenInv'
BY KeyKept, ContactKept, CenTakeKept DEF C!Next

LEMMA CenStart ==
  ASSUME C!Init, C!CenAssumption
  PROVE  CenInv
<1>1. phase = [k \in C!Keys |-> "up"] /\ presses = [k \in C!Keys |-> 0] /\ closed = {}
      /\ known = [phase |-> phase, presses |-> presses, closed |-> closed]
  BY DEF C!Init
<1>2. [k \in C!Keys |-> Told(k)] = phase
  BY <1>1 DEF Told
<1>3. phase \in [C!Keys -> Phases] /\ CenView \in CenKnown /\ known = CenView /\ CenView \in CenSeen(presses)
  BY <1>1, <1>2 DEF CenView, CenKnown, CenSeen, Phases
<1>4. wire \in Seq(CenFrames) /\ Len(wire) = 0
  BY DEF C!Init
<1>5. Leads(CenFollow, CenSeen(presses), wire, known, CenView)
  BY <1>3, <1>4, LeadsNowhere
<1> QED
  BY <1>3, <1>4, <1>5 DEF CenInv, C!CenAssumption

LEMMA CenKnows ==
  ASSUME CenInv, C!CenAssumption
  PROVE  C!TypeOK /\ C!KeysKnown /\ C!ContactsKnown /\ C!PressesCounted
<1>1. wire \in Seq(CenFrames) /\ Leads(CenFollow, CenSeen(presses), wire, known, CenView)
  BY DEF CenInv
<1>2. known \in CenSeen(presses) /\ (Len(wire) = 0 => known = CenView)
  BY <1>1, LeadsEnds
<1>3. wire = <<>> => known = CenView
  BY <1>2
<1>4. known \in CenKnown /\ \A k \in C!Keys : known.presses[k] <= presses[k]
  BY <1>2 DEF CenSeen
<1>5. C!TypeOK
  BY <1>4 DEF C!TypeOK, CenInv, CenKnown
<1>6. wire = <<>> => \A k \in C!Keys : known.phase[k] = Told(k)
  BY <1>3, CenViews
<1> QED
  BY <1>3, <1>4, <1>5, <1>6 DEF C!KeysKnown, C!ContactsKnown, C!PressesCounted, CenView, Told

(******************************* the alarm ********************************)

LEMMA OneByOne ==
  ASSUME NEW X, NEW f, IsFiniteSet(X), \A x, y \in X : f[x] = f[y] => x = y
  PROVE  Cardinality({f[x] : x \in X}) = Cardinality(X)
<1> DEFINE T == {f[x] : x \in X}
           g == [x \in X |-> f[x]]
<1>1. g \in Injection(X, T)
  BY DEF Injection, IsInjective
<1>2. g \in Surjection(X, T)
  BY DEF Surjection
<1>3. ExistsBijection(X, T)
  BY <1>1, <1>2 DEF ExistsBijection, Bijection
<1> HIDE DEF T, g
<1>4. Cardinality(T) = Cardinality(X)
  BY <1>3, FS_Bijection
<1> QED
  BY <1>4 DEF T

LEMMA SameCardinality == ASSUME NEW X PROVE A!Cardinality(X) = Cardinality(X)
BY DEF A!Cardinality, Cardinality

(* Whom an event is about: each zone, each sensor and the panel have a      *)
(* name of their own.                                                       *)
ZoneName(z) ==
  IF Tail(z) = <<1, 2>> THEN <<112>> ELSE IF Tail(z) = <<1, 5>> THEN <<115>> ELSE Tail(z)

LEMMA AboutZone ==
  ASSUME A!AlarmAssumption, NEW z \in AlarmZones
  PROVE  /\ A!About(z) = [system |-> FALSE, zone |-> ZoneName(z), sensor |-> A!Null]
         /\ z \in Seq({-1} \cup 0 .. 9) /\ Len(z) > 1 /\ z[1] = -1
<1>1. z \in Seq({-1} \cup 0 .. 9) /\ Len(z) > 1 /\ z[1] = -1
  BY DEF A!AlarmAssumption, A!Hash, A!Digits
<1>2. z # A!System
  BY <1>1 DEF A!System
<1>3. z[1] = A!Hash
  BY <1>1 DEF A!Hash
<1> DEFINE t == Tail(z)
           name == CASE t = <<1, 2>> -> <<A!C>> [] t = <<1, 5>> -> <<A!F>> [] OTHER -> t
<1>4. A!About(z) = [system |-> FALSE, sensor |-> A!Null, zone |-> name]
  <2> HIDE DEF name
  <2>1. A!About(z) = [system |-> FALSE, sensor |-> A!Null, zone |-> name]
    BY <1>2, <1>3 DEF A!About, name
  <2> QED
    BY <2>1
<1>5. name = ZoneName(z)
  <2>1. <<1, 2>> # <<1, 5>>
    OBVIOUS
  <2> QED
    BY <2>1 DEF ZoneName, A!C, A!F
<1> QED
  BY <1>1, <1>4, <1>5

LEMMA ZoneNames ==
  ASSUME A!AlarmAssumption, NEW y \in AlarmZones, NEW z \in AlarmZones, ZoneName(y) = ZoneName(z)
  PROVE  y = z
<1>1. /\ y \in Seq({-1} \cup 0 .. 9) /\ Len(y) > 1 /\ y[1] = -1
      /\ z \in Seq({-1} \cup 0 .. 9) /\ Len(z) > 1 /\ z[1] = -1
  BY AboutZone
<1> DEFINE s == Tail(y)
           t == Tail(z)
<1>2. s \in Seq({-1} \cup 0 .. 9) /\ t \in Seq({-1} \cup 0 .. 9) /\ Len(s) > 0 /\ Len(t) > 0
  BY <1>1
<1>3. s # <<112>> /\ s # <<115>> /\ t # <<112>> /\ t # <<115>>
  <2>1. s[1] \in {-1} \cup 0 .. 9 /\ t[1] \in {-1} \cup 0 .. 9
    BY <1>2
  <2>2. <<112>>[1] = 112 /\ <<115>>[1] = 115
    OBVIOUS
  <2> HIDE DEF s, t
  <2>3. s[1] # 112 /\ s[1] # 115 /\ t[1] # 112 /\ t[1] # 115
    BY <2>1
  <2> QED
    BY <2>2, <2>3
<1>4. <<112>> # <<115>>
  OBVIOUS
<1>5. s = t
  <2> HIDE DEF s, t
  <2> QED
    BY <1>3, <1>4 DEF ZoneName, s, t
<1>6. Len(y) = Len(z) /\ \A i \in 1 .. Len(y) : y[i] = z[i]
  <2>1. Len(y) = Len(s) + 1 /\ Len(z) = Len(t) + 1
    BY <1>1
  <2>2. \A i \in 2 .. Len(y) : y[i] = s[i - 1]
    BY <1>1
  <2>3. \A i \in 2 .. Len(z) : z[i] = t[i - 1]
    BY <1>1
  <2> HIDE DEF s, t
  <2> QED
    BY <1>1, <1>5, <2>1, <2>2, <2>3
<1> QED
  BY <1>1, <1>6

SensorName(s) == IF Len(s) = 2 THEN s[2] ELSE 10 * s[2] + s[3]
LEMMA AboutSensor ==
  ASSUME A!AlarmAssumption, NEW s \in AlarmSensors
  PROVE  /\ A!About(s) = [system |-> FALSE, zone |-> <<0, s[1]>>, sensor |-> SensorName(s)]
         /\ s \in Seq(0 .. 9) /\ Len(s) \in {2, 3} /\ (Len(s) = 3 => s[2] # 0)
         /\ SensorName(s) \in Nat
<1>1. s \in Seq(0 .. 9) /\ Len(s) \in {2, 3} /\ (Len(s) = 3 => s[2] # 0)
  BY DEF A!AlarmAssumption, A!Digits
<1>2. s # A!System
  <2>1. Len(A!System) = 0
    BY DEF A!System
  <2>2. Len(s) \in {2, 3}
    BY <1>1
  <2>3. Len(s) # 0
    BY <2>2
  <2> QED
    BY <2>1, <2>3
<1>3. s[1] \in 0 .. 9 /\ s[2] \in 0 .. 9 /\ (Len(s) = 3 => s[3] \in 0 .. 9)
  BY <1>1
<1>4. s[1] # A!Hash /\ Len(s) > 1
  BY <1>1, <1>3 DEF A!Hash
<1>5. A!About(s) = [system |-> FALSE, zone |-> <<A!Number, s[1]>>, sensor |-> SensorName(s)]
  BY <1>2, <1>4 DEF A!About, SensorName
<1>6. SensorName(s) \in Nat
  BY <1>1, <1>3 DEF SensorName
<1> QED
  BY <1>1, <1>5, <1>6 DEF A!Number

LEMMA SensorNames ==
  ASSUME A!AlarmAssumption, NEW r \in AlarmSensors, NEW s \in AlarmSensors, r[1] = s[1],
         SensorName(r) = SensorName(s)
  PROVE  r = s
<1>1. /\ r \in Seq(0 .. 9) /\ Len(r) \in {2, 3} /\ (Len(r) = 3 => r[2] # 0)
      /\ s \in Seq(0 .. 9) /\ Len(s) \in {2, 3} /\ (Len(s) = 3 => s[2] # 0)
  BY AboutSensor
<1>2. /\ r[2] \in 0 .. 9 /\ (Len(r) = 3 => r[3] \in 0 .. 9)
      /\ s[2] \in 0 .. 9 /\ (Len(s) = 3 => s[3] \in 0 .. 9)
  BY <1>1
<1>3. Len(r) = Len(s) /\ r[2] = s[2] /\ (Len(r) = 3 => r[3] = s[3])
  <2>1. \A a, b, c, d \in 0 .. 9 : /\ 10 * a + b = 10 * c + d => a = c /\ b = d
                                  /\ a # 0 => 10 * a + b # c
    OBVIOUS
  <2>2. SensorName(r) = IF Len(r) = 2 THEN r[2] ELSE 10 * r[2] + r[3]
    BY DEF SensorName
  <2>3. SensorName(s) = IF Len(s) = 2 THEN s[2] ELSE 10 * s[2] + s[3]
    BY DEF SensorName
  <2> DEFINE m == Len(r)
             n == Len(s)
             a == r[2]
             b == r[3]
             c == s[2]
             d == s[3]
             x == SensorName(r)
             y == SensorName(s)
  <2>4. /\ m \in {2, 3} /\ n \in {2, 3} /\ a \in 0 .. 9 /\ c \in 0 .. 9 /\ x = y
        /\ m = 3 => a # 0 /\ b \in 0 .. 9 /\ x = 10 * a + b
        /\ m = 2 => x = a
        /\ n = 3 => c # 0 /\ d \in 0 .. 9 /\ y = 10 * c + d
        /\ n = 2 => y = c
    <3>1. m \in {2, 3} /\ n \in {2, 3} /\ (m = 3 => a # 0) /\ (n = 3 => c # 0)
      BY <1>1
    <3>2. a \in 0 .. 9 /\ c \in 0 .. 9 /\ (m = 3 => b \in 0 .. 9) /\ (n = 3 => d \in 0 .. 9)
      BY <1>2
    <3>3. x = y
      OBVIOUS
    <3>4. x = (IF m = 2 THEN a ELSE 10 * a + b) /\ y = (IF n = 2 THEN c ELSE 10 * c + d)
      BY <2>2, <2>3
    <3> HIDE DEF m, n, a, b, c, d, x, y
    <3>5. m \in Int /\ n \in Int
      BY <3>1
    <3>6. (m = 3 => x = 10 * a + b) /\ (m = 2 => x = a)
      BY <3>4, <3>5
    <3>7. (n = 3 => y = 10 * c + d) /\ (n = 2 => y = c)
      BY <3>4, <3>5
    <3> QED
      BY <3>1, <3>2, <3>3, <3>6, <3>7
  <2> HIDE DEF m, n, a, b, c, d, x, y
  <2>5. CASE m = 2 /\ n = 2
    BY <2>4, <2>5 DEF m, n, a, b, c, d
  <2>6. CASE m = 3 /\ n = 3
    <3>1. a = c /\ b = d
      BY <2>1, <2>4, <2>6
    <3> QED
      BY <2>6, <3>1 DEF m, n, a, b, c, d
  <2>7. ~(m = 3 /\ n = 2) /\ ~(m = 2 /\ n = 3)
    BY <2>1, <2>4
  <2> QED
    BY <2>4, <2>5, <2>6, <2>7
<1>4. \A i \in 1 .. Len(r) : r[i] = s[i]
  BY <1>1, <1>3
<1> QED
  BY <1>1, <1>3, <1>4

LEMMA AboutPanel ==
  /\ A!About(A!Central) = [system |-> TRUE, zone |-> A!Null, sensor |-> A!Null]
  /\ A!About(A!System) = [system |-> TRUE, zone |-> A!Null, sensor |-> A!Null]
<1>1. A!Central # A!System /\ A!Central[1] = 0 /\ ~(Len(A!Central) > 1)
  BY DEF A!Central, A!System
<1>2. A!About(A!Central) = [system |-> TRUE, zone |-> A!Null, sensor |-> A!Null]
  BY <1>1 DEF A!About, A!Hash
<1>3. A!About(A!System) = [system |-> TRUE, zone |-> A!Null, sensor |-> A!Null]
  BY DEF A!About
<1> QED
  BY <1>2, <1>3

AlarmPlaces == AlarmZones \cup AlarmSensors \cup {A!Central}
LEMMA AboutTellsApart ==
  ASSUME A!AlarmAssumption, NEW v \in AlarmPlaces, NEW w \in AlarmPlaces, A!About(v) = A!About(w)
  PROVE  v = w
<1>1. \A z \in AlarmZones : ~A!About(z).system /\ A!About(z).sensor = A!Null /\ A!About(z).zone = ZoneName(z)
  BY AboutZone
<1>2. \A s \in AlarmSensors : /\ ~A!About(s).system /\ A!About(s).sensor = SensorName(s)
                              /\ SensorName(s) \in Nat /\ A!About(s).zone = <<0, s[1]>>
  BY AboutSensor
<1>3. A!About(A!Central).system
  BY AboutPanel
<1>4. \A s \in AlarmSensors : A!About(s).sensor # A!Null
  BY <1>2 DEF A!Null
<1>5. CASE v \in AlarmZones /\ w \in AlarmZones
  BY <1>1, <1>5, ZoneNames
<1>6. CASE v \in AlarmSensors /\ w \in AlarmSensors
  <2>1. <<0, v[1]>> = <<0, w[1]>> /\ SensorName(v) = SensorName(w)
    BY <1>2, <1>6
  <2>2. v[1] = w[1]
    BY <2>1
  <2> QED
    BY <1>6, <2>1, <2>2, SensorNames
<1> QED
  BY <1>1, <1>2, <1>3, <1>4, <1>5, <1>6 DEF AlarmPlaces

Raised(alarm) == <<alarm[1], A!About(alarm[2])>>
AlarmKnown ==
  [armed : BOOLEAN, active : SUBSET {ZoneName(z) : z \in AlarmZones},
   raised : SUBSET {Raised(a) : a \in A!Alarms \X AlarmPlaces}]
(* What is known of the panel, and whether it was armed when it reported.   *)
AlarmState(armed, active, raised) ==
  [known |-> [armed |-> armed, active |-> active, raised |-> raised], told |-> armed]
AlarmStates == {AlarmState(k.armed, k.active, k.raised) : k \in AlarmKnown}
AlarmWhats == {0, 1, 2, 8, 9, 11, 18} \cup A!Alarms \cup AlarmNotices
AlarmEvent(what, w, armed) == [f |-> A!Status(5, what, <<>>, w), armed |-> armed]
AlarmEvents == {AlarmEvent(what, w, armed) : what \in AlarmWhats, w \in AlarmPlaces \cup {A!System}, armed \in BOOLEAN}
AlarmFollow ==
  [x \in AlarmStates \X AlarmEvents |-> [known |-> A!Follow(x[1].known, x[2].f), told |-> x[2].armed]]
AlarmTaken == [known |-> known, told |-> told]
AlarmView ==
  AlarmState(panel.armed, {ZoneName(z) : z \in panel.active}, {Raised(a) : a \in panel.raised})
PanelState == [armed : BOOLEAN, active : SUBSET AlarmZones, raised : SUBSET (A!Alarms \X AlarmPlaces)]
AlarmInv ==
  /\ panel \in PanelState /\ IsFiniteSet(panel.active) /\ IsFiniteSet(panel.raised)
  /\ command # <<>> => command[1].where \in AlarmZones \cup {A!System, A!Central}
  /\ wire \in Seq(AlarmEvents) /\ Len(wire) <= AlarmWire
  /\ Leads(AlarmFollow, AlarmStates, wire, AlarmTaken, AlarmView)

PanelPlaces == {A!System, A!Central}
Flags == BOOLEAN \* under a name of its own, for the provers
(* What a report does to what is known, by its WHAT and whom it is about.   *)
ArmedAfter(p, what) == IF what \in {0, 2, 9} THEN FALSE ELSE IF what = 8 THEN TRUE ELSE p
RaisedBy(what, w) == IF what \in A!Alarms THEN {Raised(<<what, w>>)} ELSE {}
ActiveAfter(q, what, z) ==
  IF what = 11 THEN q \cup {ZoneName(z)} ELSE IF what = 18 THEN q \ {ZoneName(z)} ELSE q

LEMMA RaisedIs == \A what, w : Raised(<<what, w>>) = <<what, A!About(w)>>
BY DEF Raised

LEMMA StatesAre ==
  \A p \in Flags, q \in SUBSET {ZoneName(z) : z \in AlarmZones},
     r \in SUBSET {Raised(a) : a \in A!Alarms \X AlarmPlaces} : AlarmState(p, q, r) \in AlarmStates
<1> SUFFICES ASSUME NEW p \in Flags, NEW q \in SUBSET {ZoneName(z) : z \in AlarmZones},
                    NEW r \in SUBSET {Raised(a) : a \in A!Alarms \X AlarmPlaces}
             PROVE  AlarmState(p, q, r) \in AlarmStates
  OBVIOUS
<1> DEFINE k == [armed |-> p, active |-> q, raised |-> r]
<1>1. k \in AlarmKnown
  BY DEF AlarmKnown, Flags
<1>2. AlarmState(k.armed, k.active, k.raised) = AlarmState(p, q, r)
  OBVIOUS
<1> HIDE DEF k
<1> QED
  BY <1>1, <1>2 DEF AlarmStates

LEMMA EventIs ==
  ASSUME NEW what, NEW w, NEW armed
  PROVE  LET e == AlarmEvent(what, w, armed) IN e.f.what = what /\ e.f.where = w /\ e.armed = armed
BY DEF AlarmEvent, A!Status, A!Frame

LEMMA PanelFollows ==
  ASSUME NEW p \in Flags, NEW q, NEW r, NEW what \in AlarmWhats, NEW w \in PanelPlaces,
         NEW f, f.what = what, f.where = w
  PROVE  A!Follow([armed |-> p, active |-> q, raised |-> r], f)
           = [armed |-> ArmedAfter(p, what), active |-> q, raised |-> r \cup RaisedBy(what, w)]
<1>1. A!About(w).system
  BY AboutPanel DEF PanelPlaces
<1>2. ~A!IsZoneActive(f) /\ ~A!IsZoneInactive(f)
  BY <1>1 DEF A!IsZoneActive, A!IsZoneInactive
<1>3. /\ A!IsDisarmed(f) <=> what \in {0, 2, 9}
      /\ A!IsArmedAway(f) <=> what = 8
      /\ A!IsAlarm(f) <=> what \in A!Alarms
  BY <1>1 DEF A!IsDisarmed, A!IsArmedAway, A!IsAlarm, A!Deactivation, A!Disengaged, A!Engaged
<1> DEFINE k == [armed |-> p, active |-> q, raised |-> r]
<1>4. k.armed = p /\ k.active = q /\ k.raised = r
  OBVIOUS
<1> HIDE DEF k
<1>5. (IF A!IsDisarmed(f) THEN FALSE ELSE k.armed \/ A!IsArmedAway(f)) = ArmedAfter(p, what)
  BY <1>3, <1>4 DEF ArmedAfter, Flags
<1>6. (IF A!IsAlarm(f) THEN {<<f.what, A!About(f.where)>>} ELSE {}) = RaisedBy(what, w)
  BY <1>3, RaisedIs DEF RaisedBy
<1>7. (CASE A!IsZoneActive(f) -> k.active \cup {A!About(f.where).zone}
         [] A!IsZoneInactive(f) -> k.active \ {A!About(f.where).zone}
         [] OTHER -> k.active) = q
  BY <1>2, <1>4
<1>8. A!Follow(k, f) = [armed |-> ArmedAfter(p, what), active |-> q, raised |-> r \cup RaisedBy(what, w)]
  BY <1>4, <1>5, <1>6, <1>7 DEF A!Follow
<1> QED
  BY <1>8 DEF k

LEMMA OthersFollow ==
  ASSUME A!AlarmAssumption, NEW p \in Flags, NEW q, NEW r, NEW what \in AlarmWhats,
         NEW w \in AlarmZones \cup AlarmSensors, w \in AlarmSensors => what \notin {11, 18},
         NEW f, f.what = what, f.where = w
  PROVE  A!Follow([armed |-> p, active |-> q, raised |-> r], f)
           = [armed |-> p, active |-> ActiveAfter(q, what, w), raised |-> r \cup RaisedBy(what, w)]
<1>1. ~A!About(w).system /\ (w \in AlarmZones => A!About(w).zone = ZoneName(w))
  BY AboutZone, AboutSensor
<1>2. ~A!IsDisarmed(f) /\ ~A!IsArmedAway(f)
  BY <1>1 DEF A!IsDisarmed, A!IsArmedAway
<1>3. /\ A!IsZoneActive(f) <=> what = 11
      /\ A!IsZoneInactive(f) <=> what = 18
      /\ A!IsAlarm(f) <=> what \in A!Alarms
  BY <1>1 DEF A!IsZoneActive, A!IsZoneInactive, A!IsAlarm, A!ActiveZone, A!NonActiveZone
<1> DEFINE k == [armed |-> p, active |-> q, raised |-> r]
<1>4. k.armed = p /\ k.active = q /\ k.raised = r
  OBVIOUS
<1> HIDE DEF k
<1>5. (IF A!IsDisarmed(f) THEN FALSE ELSE k.armed \/ A!IsArmedAway(f)) = p
  BY <1>2, <1>4 DEF Flags
<1>6. (IF A!IsAlarm(f) THEN {<<f.what, A!About(f.where)>>} ELSE {}) = RaisedBy(what, w)
  BY <1>3, RaisedIs DEF RaisedBy
<1>7. (CASE A!IsZoneActive(f) -> k.active \cup {A!About(f.where).zone}
         [] A!IsZoneInactive(f) -> k.active \ {A!About(f.where).zone}
         [] OTHER -> k.active) = ActiveAfter(q, what, w)
  BY <1>1, <1>3, <1>4 DEF ActiveAfter
<1>8. A!Follow(k, f) = [armed |-> p, active |-> ActiveAfter(q, what, w), raised |-> r \cup RaisedBy(what, w)]
  BY <1>4, <1>5, <1>6, <1>7 DEF A!Follow
<1> QED
  BY <1>8 DEF k

(* A report is one event of the sequence. *)
LEMMA ReportsOne ==
  ASSUME NEW what, NEW w, wire \in Seq(AlarmEvents), A!Reports(<<what>>, w)
  PROVE  wire' = Append(wire, AlarmEvent(what, w, panel'.armed))
<1> DEFINE e == AlarmEvent(what, w, panel'.armed)
           g == [i \in DOMAIN <<what>> |-> [f |-> A!Status(5, <<what>>[i], <<>>, w), armed |-> panel'.armed]]
<1>1. g = <<e>>
  BY DEF AlarmEvent
<1>2. wire' = wire \o g
  BY DEF A!Reports
<1> HIDE DEF e, g
<1>3. wire' = Append(wire, e)
  BY <1>1, <1>2
<1> QED
  BY <1>3 DEF e

LEMMA ReportsTwo ==
  ASSUME NEW a, NEW b, NEW w, wire \in Seq(AlarmEvents), A!Reports(<<a, b>>, w)
  PROVE  wire' = Append(Append(wire, AlarmEvent(a, w, panel'.armed)), AlarmEvent(b, w, panel'.armed))
<1> DEFINE d == AlarmEvent(a, w, panel'.armed)
           e == AlarmEvent(b, w, panel'.armed)
           g == [i \in DOMAIN <<a, b>> |-> [f |-> A!Status(5, <<a, b>>[i], <<>>, w), armed |-> panel'.armed]]
<1>1. g = <<d, e>>
  BY DEF AlarmEvent
<1>2. wire' = wire \o g
  BY DEF A!Reports
<1> HIDE DEF d, e, g
<1>3. wire' = Append(Append(wire, d), e)
  BY <1>1, <1>2
<1> QED
  BY <1>3 DEF d, e

LEMMA ReportsThree ==
  ASSUME NEW a, NEW b, NEW c, NEW w, wire \in Seq(AlarmEvents), A!Reports(<<a, b, c>>, w)
  PROVE  wire' = Append(Append(Append(wire, AlarmEvent(a, w, panel'.armed)),
                               AlarmEvent(b, w, panel'.armed)), AlarmEvent(c, w, panel'.armed))
<1> DEFINE d == AlarmEvent(a, w, panel'.armed)
           e == AlarmEvent(b, w, panel'.armed)
           h == AlarmEvent(c, w, panel'.armed)
           g == [i \in DOMAIN <<a, b, c>> |->
                   [f |-> A!Status(5, <<a, b, c>>[i], <<>>, w), armed |-> panel'.armed]]
<1>1. g = <<d, e, h>>
  BY DEF AlarmEvent
<1>2. wire' = wire \o g
  BY DEF A!Reports
<1> HIDE DEF d, e, g, h
<1>3. wire' = Append(Append(Append(wire, d), e), h)
  BY <1>1, <1>2
<1> QED
  BY <1>3 DEF d, e, h

Names == SUBSET {ZoneName(z) : z \in AlarmZones}
Alerts == SUBSET {Raised(a) : a \in A!Alarms \X AlarmPlaces}
LEMMA AlarmFollows ==
  ASSUME NEW x \in AlarmStates, NEW e \in AlarmEvents, NEW p, NEW q, NEW r, e.armed = p,
         A!Follow(x.known, e.f) = [armed |-> p, active |-> q, raised |-> r]
  PROVE  AlarmFollow[<<x, e>>] = AlarmState(p, q, r)
<1>1. AlarmFollow[<<x, e>>] = [known |-> A!Follow(x.known, e.f), told |-> e.armed]
  BY DEF AlarmFollow
<1> QED
  BY <1>1 DEF AlarmState

LEMMA PanelTells ==
  ASSUME NEW p \in Flags, NEW q \in Names, NEW r \in Alerts, NEW what \in AlarmWhats,
         NEW w \in PanelPlaces
  PROVE  /\ AlarmEvent(what, w, ArmedAfter(p, what)) \in AlarmEvents
         /\ AlarmFollow[<<AlarmState(p, q, r), AlarmEvent(what, w, ArmedAfter(p, what))>>]
              = AlarmState(ArmedAfter(p, what), q, r \cup RaisedBy(what, w))
<1> DEFINE e == AlarmEvent(what, w, ArmedAfter(p, what))
           x == AlarmState(p, q, r)
<1>1. e.f.what = what /\ e.f.where = w /\ e.armed = ArmedAfter(p, what)
  BY EventIs
<1>2. e \in AlarmEvents
  <2>1. ArmedAfter(p, what) \in Flags /\ w \in AlarmPlaces \cup {A!System}
    BY DEF ArmedAfter, AlarmPlaces, Flags, PanelPlaces
  <2> QED
    BY <2>1 DEF AlarmEvents, Flags
<1>3. x \in AlarmStates /\ x.known = [armed |-> p, active |-> q, raised |-> r]
  BY StatesAre DEF AlarmState, Names, Alerts
<1> HIDE DEF e, x
<1>4. A!Follow([armed |-> p, active |-> q, raised |-> r], e.f)
        = [armed |-> ArmedAfter(p, what), active |-> q, raised |-> r \cup RaisedBy(what, w)]
  BY <1>1, PanelFollows
<1> DEFINE a == ArmedAfter(p, what)
           b == r \cup RaisedBy(what, w)
<1>5. e.armed = a /\ A!Follow(x.known, e.f) = [armed |-> a, active |-> q, raised |-> b]
  BY <1>1, <1>3, <1>4
<1> HIDE DEF a, b
<1>6. AlarmFollow[<<x, e>>] = AlarmState(a, q, b)
  BY <1>2, <1>3, <1>5, AlarmFollows
<1> QED
  BY <1>2, <1>6 DEF e, x, a, b

LEMMA OthersTell ==
  ASSUME A!AlarmAssumption, NEW p \in Flags, NEW q \in Names, NEW r \in Alerts, NEW what \in AlarmWhats,
         NEW w \in AlarmZones \cup AlarmSensors, w \in AlarmSensors => what \notin {11, 18}
  PROVE  /\ AlarmEvent(what, w, p) \in AlarmEvents
         /\ AlarmFollow[<<AlarmState(p, q, r), AlarmEvent(what, w, p)>>]
              = AlarmState(p, ActiveAfter(q, what, w), r \cup RaisedBy(what, w))
<1> DEFINE e == AlarmEvent(what, w, p)
           x == AlarmState(p, q, r)
<1>1. e.f.what = what /\ e.f.where = w /\ e.armed = p
  BY EventIs
<1>2. e \in AlarmEvents
  BY DEF AlarmEvents, AlarmPlaces, Flags
<1>3. x \in AlarmStates /\ x.known = [armed |-> p, active |-> q, raised |-> r]
  BY StatesAre DEF AlarmState, Names, Alerts
<1> HIDE DEF e, x
<1>4. A!Follow([armed |-> p, active |-> q, raised |-> r], e.f)
        = [armed |-> p, active |-> ActiveAfter(q, what, w), raised |-> r \cup RaisedBy(what, w)]
  BY <1>1, OthersFollow
<1> DEFINE a == ActiveAfter(q, what, w)
           b == r \cup RaisedBy(what, w)
<1>5. e.armed = p /\ A!Follow(x.known, e.f) = [armed |-> p, active |-> a, raised |-> b]
  BY <1>1, <1>3, <1>4
<1> HIDE DEF a, b
<1>6. AlarmFollow[<<x, e>>] = AlarmState(p, a, b)
  BY <1>2, <1>3, <1>5, AlarmFollows
<1> QED
  BY <1>2, <1>6 DEF e, x, a, b

(* How the panel moves. *)
Active(z) == {ZoneName(y) : y \in z}
Raises(r) == {Raised(a) : a \in r}
LEMMA ViewIs ==
  ASSUME AlarmInv
  PROVE  /\ AlarmView = AlarmState(panel.armed, Active(panel.active), Raises(panel.raised))
         /\ panel.armed \in Flags /\ Active(panel.active) \in Names /\ Raises(panel.raised) \in Alerts
         /\ AlarmView \in AlarmStates
<1>1. AlarmView = AlarmState(panel.armed, Active(panel.active), Raises(panel.raised))
  BY DEF AlarmView, Active, Raises
<1>2. panel.armed \in Flags /\ Active(panel.active) \in Names /\ Raises(panel.raised) \in Alerts
  BY DEF AlarmInv, PanelState, Active, Raises, Names, Alerts, Flags
<1>3. AlarmView \in AlarmStates
  BY <1>1, <1>2, StatesAre DEF Names, Alerts
<1> QED
  BY <1>1, <1>2, <1>3

LEMMA PanelMoves ==
  ASSUME panel \in PanelState
  PROVE  /\ \A x \in BOOLEAN : LET t == [panel EXCEPT !.armed = x] IN
              t \in PanelState /\ t.armed = x /\ t.active = panel.active /\ t.raised = panel.raised
         /\ \A x \in SUBSET AlarmZones : LET t == [panel EXCEPT !.active = x] IN
              t \in PanelState /\ t.armed = panel.armed /\ t.active = x /\ t.raised = panel.raised
         /\ \A x \in SUBSET (A!Alarms \X AlarmPlaces) : LET t == [panel EXCEPT !.raised = x] IN
              t \in PanelState /\ t.armed = panel.armed /\ t.active = panel.active /\ t.raised = x
BY DEF PanelState

Command(c) == c # <<>> => c[1].where \in AlarmZones \cup {A!System, A!Central}

LEMMA AlarmSent ==
  ASSUME AlarmInv, A!AlarmAssumption, NEW e \in AlarmEvents, wire' = Append(wire, e), Len(wire) + 3 <= AlarmWire,
         AlarmFollow[<<AlarmView, e>>] = AlarmView', AlarmView' \in AlarmStates, UNCHANGED <<known, told>>,
         panel' \in PanelState, IsFiniteSet(panel'.active), IsFiniteSet(panel'.raised), Command(command')
  PROVE  AlarmInv'
<1>1. wire \in Seq(AlarmEvents) /\ Leads(AlarmFollow, AlarmStates, wire, AlarmTaken, AlarmView)
  BY DEF AlarmInv
<1>2. /\ Append(wire, e) \in Seq(AlarmEvents)
      /\ Leads(AlarmFollow, AlarmStates, Append(wire, e), AlarmTaken, AlarmFollow[<<AlarmView, e>>])
  BY <1>1, LeadsOn
<1>3. AlarmTaken' = AlarmTaken
  BY DEF AlarmTaken
<1>4. Leads(AlarmFollow, AlarmStates, wire', AlarmTaken', AlarmView')
  BY <1>2, <1>3
<1>5. wire' \in Seq(AlarmEvents) /\ Len(wire') <= AlarmWire
  BY <1>1, <1>2 DEF A!AlarmAssumption
<1> QED
  BY <1>4, <1>5 DEF AlarmInv, Command

(* The panel reports on itself. *)
LEMMA PanelSent ==
  ASSUME AlarmInv, A!AlarmAssumption, Len(wire) + 3 <= AlarmWire, UNCHANGED <<known, told>>, Command(command'),
         NEW what \in AlarmWhats, NEW w \in PanelPlaces, A!Reports(<<what>>, w),
         panel' \in PanelState, panel'.armed = ArmedAfter(panel.armed, what), panel'.active = panel.active,
         Raises(panel'.raised) = Raises(panel.raised) \cup RaisedBy(what, w), IsFiniteSet(panel'.raised)
  PROVE  AlarmInv'
<1> DEFINE p == panel.armed
           q == Active(panel.active)
           r == Raises(panel.raised)
           e == AlarmEvent(what, w, ArmedAfter(p, what))
<1>1. p \in Flags /\ q \in Names /\ r \in Alerts /\ AlarmView = AlarmState(p, q, r) /\ AlarmView \in AlarmStates
  BY ViewIs
<1>2. wire' = Append(wire, e)
  BY ReportsOne DEF AlarmInv
<1>3. AlarmView' = AlarmState(ArmedAfter(p, what), q, r \cup RaisedBy(what, w))
  BY DEF AlarmView, Active, Raises
<1>4. Raises(panel'.raised) \in Alerts /\ ArmedAfter(p, what) \in Flags
  BY DEF PanelState, Raises, Alerts, ArmedAfter, Flags
<1> HIDE DEF p, q, r
<1>5. e \in AlarmEvents
      /\ AlarmFollow[<<AlarmState(p, q, r), e>>] = AlarmState(ArmedAfter(p, what), q, r \cup RaisedBy(what, w))
  BY <1>1, PanelTells
<1>6. AlarmView' \in AlarmStates
  <2>1. r \cup RaisedBy(what, w) \in Alerts
    BY <1>4 DEF r
  <2> QED
    BY <1>1, <1>3, <1>4, <2>1, StatesAre DEF Names, Alerts
<1>7. IsFiniteSet(panel'.active)
  BY DEF AlarmInv
<1> HIDE DEF e
<1> QED
  BY <1>1, <1>2, <1>3, <1>5, <1>6, <1>7, AlarmSent

LEMMA OtherSent ==
  ASSUME AlarmInv, A!AlarmAssumption, Len(wire) + 3 <= AlarmWire, UNCHANGED <<known, told>>, Command(command'),
         NEW what \in AlarmWhats, NEW w \in AlarmZones \cup AlarmSensors, w \in AlarmSensors => what \notin {11, 18},
         A!Reports(<<what>>, w), panel' \in PanelState, panel'.armed = panel.armed,
         Active(panel'.active) = ActiveAfter(Active(panel.active), what, w), IsFiniteSet(panel'.active),
         Raises(panel'.raised) = Raises(panel.raised) \cup RaisedBy(what, w), IsFiniteSet(panel'.raised)
  PROVE  AlarmInv'
<1> DEFINE p == panel.armed
           q == Active(panel.active)
           r == Raises(panel.raised)
           e == AlarmEvent(what, w, p)
<1>1. p \in Flags /\ q \in Names /\ r \in Alerts /\ AlarmView = AlarmState(p, q, r) /\ AlarmView \in AlarmStates
  BY ViewIs
<1>2. wire' = Append(wire, e)
  BY ReportsOne DEF AlarmInv
<1>3. AlarmView' = AlarmState(p, ActiveAfter(q, what, w), r \cup RaisedBy(what, w))
  BY DEF AlarmView, Active, Raises
<1>4. Raises(panel'.raised) \in Alerts /\ Active(panel'.active) \in Names
  BY DEF PanelState, Raises, Alerts, Active, Names
<1> HIDE DEF p, q, r
<1>5. e \in AlarmEvents
      /\ AlarmFollow[<<AlarmState(p, q, r), e>>] = AlarmState(p, ActiveAfter(q, what, w), r \cup RaisedBy(what, w))
  BY <1>1, OthersTell
<1>6. AlarmView' \in AlarmStates
  <2>1. r \cup RaisedBy(what, w) \in Alerts /\ ActiveAfter(q, what, w) \in Names
    BY <1>4 DEF r, q
  <2> QED
    BY <1>1, <1>3, <2>1, StatesAre DEF Names, Alerts
<1> HIDE DEF e
<1> QED
  BY <1>1, <1>2, <1>3, <1>5, <1>6, AlarmSent

LEMMA NamesMove ==
  /\ \A r, a : Raises(r \cup {a}) = Raises(r) \cup {Raised(a)}
  /\ \A q, z : Active(q \cup {z}) = Active(q) \cup {ZoneName(z)}
  /\ A!AlarmAssumption => \A q \in SUBSET AlarmZones, z \in AlarmZones :
       /\ Active(q \ {z}) = Active(q) \ {ZoneName(z)}
       /\ z \in q => Active(q) = Active(q) \cup {ZoneName(z)}
       /\ z \notin q => Active(q) = Active(q) \ {ZoneName(z)}
<1>1. \A r, a : Raises(r \cup {a}) = Raises(r) \cup {Raised(a)}
  BY DEF Raises
<1>2. \A q, z : Active(q \cup {z}) = Active(q) \cup {ZoneName(z)}
  BY DEF Active
<1>3. ASSUME A!AlarmAssumption, NEW q \in SUBSET AlarmZones, NEW z \in AlarmZones
      PROVE  /\ Active(q \ {z}) = Active(q) \ {ZoneName(z)}
             /\ z \in q => Active(q) = Active(q) \cup {ZoneName(z)}
             /\ z \notin q => Active(q) = Active(q) \ {ZoneName(z)}
  <2>1. \A y \in q : ZoneName(y) = ZoneName(z) => y = z
    BY <1>3, ZoneNames
  <2>2. Active(q \ {z}) = Active(q) \ {ZoneName(z)}
    BY <2>1 DEF Active
  <2>3. z \in q => Active(q) = Active(q) \cup {ZoneName(z)}
    BY DEF Active
  <2>4. z \notin q => Active(q) = Active(q) \ {ZoneName(z)}
    BY <2>1 DEF Active
  <2> QED
    BY <2>2, <2>3, <2>4
<1> QED
  BY <1>1, <1>2, <1>3

LEMMA WhatsAre ==
  /\ {0, 1, 2, 8, 9, 11, 18, 12, 15, 16, 17, 31} \subseteq AlarmWhats /\ AlarmNotices \subseteq AlarmWhats
  /\ A!Alarms = {12, 15, 16, 17, 31}
  /\ A!AlarmAssumption => AlarmNotices \cap {0, 1, 2, 8, 9, 11, 18, 12, 15, 16, 17, 31} = {}
BY DEF AlarmWhats, A!Alarms, A!AlarmAssumption, A!Activation, A!Deactivation, A!Engaged, A!Disengaged,
       A!ActiveZone, A!NonActiveZone

LEMMA PanelFinite ==
  ASSUME AlarmInv
  PROVE  /\ panel \in PanelState /\ IsFiniteSet(panel.active) /\ IsFiniteSet(panel.raised)
         /\ A!Central \in PanelPlaces /\ A!System \in PanelPlaces
         /\ panel.active \in SUBSET AlarmZones /\ panel.raised \in SUBSET (A!Alarms \X AlarmPlaces)
BY DEF AlarmInv, PanelPlaces, PanelState

(* Arming, and what else the panel says of itself in one report. *)
LEMMA ArmKept ==
  ASSUME AlarmInv, A!AlarmAssumption, Len(wire) + 3 <= AlarmWire, UNCHANGED <<known, told>>, Command(command'),
         A!Arm
  PROVE  AlarmInv'
<1> DEFINE t == [panel EXCEPT !.armed = TRUE]
<1>1. panel' = t /\ A!Reports(<<8>>, A!Central)
  BY DEF A!Arm, A!Engaged
<1>2. TRUE \in BOOLEAN
  OBVIOUS
<1>3. t \in PanelState /\ t.armed = TRUE /\ t.active = panel.active /\ t.raised = panel.raised
  BY <1>2, PanelFinite, PanelMoves
<1> HIDE DEF t
<1>4. ArmedAfter(panel.armed, 8) = TRUE /\ RaisedBy(8, A!Central) = {} /\ 8 \in AlarmWhats
  BY WhatsAre DEF ArmedAfter, RaisedBy
<1>5. /\ panel' \in PanelState /\ panel'.armed = ArmedAfter(panel.armed, 8) /\ panel'.active = panel.active
      /\ Raises(panel'.raised) = Raises(panel.raised) \cup RaisedBy(8, A!Central) /\ IsFiniteSet(panel'.raised)
  BY <1>1, <1>3, <1>4, PanelFinite
<1> QED
  BY <1>1, <1>4, <1>5, PanelFinite, PanelSent

LEMMA MaintenanceKept ==
  ASSUME AlarmInv, A!AlarmAssumption, Len(wire) + 3 <= AlarmWire, UNCHANGED <<known, told>>, Command(command'),
         panel' = [panel EXCEPT !.armed = FALSE], A!Reports(<< 0 >>, A!System)
  PROVE  AlarmInv'
<1> DEFINE t == [panel EXCEPT !.armed = FALSE]
<1>1. panel' = t /\ A!Reports(<<0>>, A!System)
  OBVIOUS
<1>2. FALSE \in BOOLEAN
  OBVIOUS
<1>3. t \in PanelState /\ t.armed = FALSE /\ t.active = panel.active /\ t.raised = panel.raised
  BY <1>2, PanelFinite, PanelMoves
<1> HIDE DEF t
<1>4. ArmedAfter(panel.armed, 0) = FALSE /\ RaisedBy(0, A!System) = {} /\ 0 \in AlarmWhats
  BY WhatsAre DEF ArmedAfter, RaisedBy
<1>5. /\ panel' \in PanelState /\ panel'.armed = ArmedAfter(panel.armed, 0) /\ panel'.active = panel.active
      /\ Raises(panel'.raised) = Raises(panel.raised) \cup RaisedBy(0, A!System) /\ IsFiniteSet(panel'.raised)
  BY <1>1, <1>3, <1>4, PanelFinite
<1> QED
  BY <1>1, <1>4, <1>5, PanelFinite, PanelSent

LEMMA NoticeKept ==
  ASSUME AlarmInv, A!AlarmAssumption, Len(wire) + 3 <= AlarmWire, UNCHANGED <<known, told>>, Command(command'),
         NEW what \in AlarmWhats, what \notin {0, 2, 9} \cup A!Alarms, what = 8 => panel.armed,
         NEW w \in PanelPlaces, UNCHANGED panel, A!Reports(<<what>>, w)
  PROVE  AlarmInv'
<1>1. ArmedAfter(panel.armed, what) = panel.armed /\ RaisedBy(what, w) = {}
  <2>1. panel.armed \in BOOLEAN
    BY PanelFinite DEF PanelState
  <2> QED
    BY <2>1 DEF ArmedAfter, RaisedBy
<1>2. /\ panel' \in PanelState /\ panel'.armed = ArmedAfter(panel.armed, what) /\ panel'.active = panel.active
      /\ Raises(panel'.raised) = Raises(panel.raised) \cup RaisedBy(what, w) /\ IsFiniteSet(panel'.raised)
  BY <1>1, PanelFinite
<1> QED
  BY <1>2, PanelSent

(* The panel is not armed after any of these three, or two. *)
LEMMA DisarmedKept ==
  ASSUME AlarmInv, A!AlarmAssumption, Len(wire) + 3 <= AlarmWire, UNCHANGED <<known, told>>, Command(command'),
         panel' \in PanelState, panel'.armed = FALSE, panel'.active = panel.active, panel'.raised = panel.raised,
         \/ A!Reports(<<2, 1, 9>>, A!Central)
         \/ panel.armed = FALSE /\ A!Reports(<<1, 9>>, A!Central)
  PROVE  AlarmInv'
<1> DEFINE p == panel.armed
           q == Active(panel.active)
           r == Raises(panel.raised)
           c == A!Central
           no == FALSE
           e(what) == AlarmEvent(what, c, no)
           w2 == Append(wire, e(2))
           F(w, b) == w \in Seq(AlarmEvents) /\ Leads(AlarmFollow, AlarmStates, w, AlarmTaken, b)
<1>1. p \in Flags /\ q \in Names /\ r \in Alerts /\ AlarmView = AlarmState(p, q, r) /\ AlarmView \in AlarmStates
  BY ViewIs
<1>2. c \in PanelPlaces /\ 1 \in AlarmWhats /\ 2 \in AlarmWhats /\ 9 \in AlarmWhats
  BY PanelFinite, WhatsAre
<1>3. F(wire, AlarmState(p, q, r))
  BY <1>1 DEF AlarmInv
<1>4. no \in Flags /\ ArmedAfter(p, 2) = no /\ ArmedAfter(no, 1) = no /\ ArmedAfter(no, 9) = no
  BY DEF Flags, ArmedAfter
<1>5. \A what : what \in {1, 2, 9} => r \cup RaisedBy(what, c) = r
  BY WhatsAre DEF RaisedBy
<1>6. panel'.armed = no /\ wire \in Seq(AlarmEvents)
  BY DEF AlarmInv
<1>7. AlarmView' = AlarmState(no, q, r)
  BY DEF AlarmView, Active, Raises
<1>8. panel.armed = FALSE => p = no
  OBVIOUS
<1> HIDE DEF p, q, r, c, no
<1>9. e(2) \in AlarmEvents /\ AlarmFollow[<<AlarmState(p, q, r), e(2)>>] = AlarmState(no, q, r)
  <2>1. /\ AlarmEvent(2, c, ArmedAfter(p, 2)) \in AlarmEvents
        /\ AlarmFollow[<<AlarmState(p, q, r), AlarmEvent(2, c, ArmedAfter(p, 2))>>]
             = AlarmState(ArmedAfter(p, 2), q, r \cup RaisedBy(2, c))
    BY <1>1, <1>2, PanelTells
  <2> QED
    BY <1>4, <1>5, <2>1
<1>10. ASSUME NEW what \in {1, 9}
      PROVE  e(what) \in AlarmEvents /\ AlarmFollow[<<AlarmState(no, q, r), e(what)>>] = AlarmState(no, q, r)
  <2>1. /\ AlarmEvent(what, c, ArmedAfter(no, what)) \in AlarmEvents
        /\ AlarmFollow[<<AlarmState(no, q, r), AlarmEvent(what, c, ArmedAfter(no, what))>>]
             = AlarmState(ArmedAfter(no, what), q, r \cup RaisedBy(what, c))
    BY <1>1, <1>2, <1>4, PanelTells
  <2> QED
    BY <1>4, <1>5, <2>1
<1>11. AlarmState(no, q, r) \in AlarmStates
  BY <1>1, <1>4, StatesAre DEF Names, Alerts
<1>12. ASSUME NEW w, F(w, AlarmState(no, q, r)), NEW what \in {1, 9}
      PROVE  F(Append(w, e(what)), AlarmState(no, q, r))
  <2> HIDE DEF e
  <2> QED
    BY <1>10, <1>12, <1>11, LeadsOn
<1>13. F(w2, AlarmState(no, q, r))
  <2> HIDE DEF e
  <2> QED
    BY <1>3, <1>9, <1>11, LeadsOn
<1>14. CASE A!Reports(<<2, 1, 9>>, A!Central)
  <2>1. wire' = Append(Append(Append(wire, AlarmEvent(2, c, panel'.armed)), AlarmEvent(1, c, panel'.armed)),
                       AlarmEvent(9, c, panel'.armed))
    BY <1>6, <1>14, ReportsThree DEF c
  <2>2. wire' = Append(Append(w2, e(1)), e(9))
    BY <1>6, <2>1
  <2>3. Len(wire') = Len(wire) + 3
    BY <1>6, <2>1
  <2> HIDE DEF e, w2, F
  <2>4. F(wire', AlarmState(no, q, r))
    BY <1>12, <1>13, <2>2
  <2> QED
    BY <1>7, <2>3, <2>4, PanelFinite DEF AlarmInv, F, Command, AlarmTaken
<1>15. CASE panel.armed = FALSE /\ A!Reports(<<1, 9>>, A!Central)
  <2>1. wire' = Append(Append(wire, AlarmEvent(1, c, panel'.armed)), AlarmEvent(9, c, panel'.armed))
    BY <1>6, <1>15, ReportsTwo DEF c
  <2>2. wire' = Append(Append(wire, e(1)), e(9))
    BY <1>6, <2>1
  <2>3. Len(wire') = Len(wire) + 2
    BY <1>6, <2>1
  <2>4. F(wire, AlarmState(no, q, r))
    BY <1>8, <1>3, <1>15
  <2> HIDE DEF e, w2, F
  <2>5. F(wire', AlarmState(no, q, r))
    BY <1>12, <2>2, <2>4
  <2>6. Len(wire') <= AlarmWire
    BY <1>6, <2>3 DEF A!AlarmAssumption
  <2> QED
    BY <1>7, <2>5, <2>6, PanelFinite DEF AlarmInv, F, Command, AlarmTaken
<1> QED
  BY <1>14, <1>15

LEMMA StandDownKept ==
  ASSUME AlarmInv, A!AlarmAssumption, Len(wire) + 3 <= AlarmWire, UNCHANGED <<known, told>>, Command(command'),
         A!StandDown
  PROVE  AlarmInv'
<1> DEFINE t == [panel EXCEPT !.armed = FALSE]
<1>1. panel' = t /\ A!Reports(<<2, 1, 9>>, A!Central)
  BY DEF A!StandDown, A!Deactivation, A!Activation, A!Disengaged
<1>2. FALSE \in BOOLEAN
  OBVIOUS
<1>3. t \in PanelState /\ t.armed = FALSE /\ t.active = panel.active /\ t.raised = panel.raised
  BY <1>2, PanelFinite, PanelMoves
<1> HIDE DEF t
<1>4. panel' \in PanelState /\ panel'.armed = FALSE /\ panel'.active = panel.active /\ panel'.raised = panel.raised
  BY <1>1, <1>3
<1> QED
  BY <1>1, <1>4, DisarmedKept

LEMMA RaiseKept ==
  ASSUME AlarmInv, A!AlarmAssumption, Len(wire) + 3 <= AlarmWire, UNCHANGED <<known, told>>, Command(command'),
         NEW what \in A!Alarms, NEW w \in AlarmPlaces, A!Raise(what, w)
  PROVE  AlarmInv'
<1> DEFINE alarm == <<what, w>>
           more == panel.raised \cup {alarm}
           t == [panel EXCEPT !.raised = more]
<1>1. panel' = t /\ A!Reports(<<what>>, w)
  BY DEF A!Raise
<1>2. alarm \in A!Alarms \X AlarmPlaces
  OBVIOUS
<1> HIDE DEF alarm
<1>3. more \in SUBSET (A!Alarms \X AlarmPlaces) /\ IsFiniteSet(more)
  BY <1>2, PanelFinite, FS_AddElement
<1>4. Raises(more) = Raises(panel.raised) \cup {Raised(alarm)}
  BY NamesMove
<1> HIDE DEF more
<1>5. t \in PanelState /\ t.armed = panel.armed /\ t.active = panel.active /\ t.raised = more
  BY <1>3, PanelFinite, PanelMoves
<1> HIDE DEF t
<1>6. RaisedBy(what, w) = {Raised(alarm)}
  BY DEF RaisedBy, alarm
<1>7. /\ panel' \in PanelState /\ panel'.armed = panel.armed /\ panel'.active = panel.active
      /\ Raises(panel'.raised) = Raises(panel.raised) \cup RaisedBy(what, w) /\ IsFiniteSet(panel'.raised)
      /\ IsFiniteSet(panel'.active)
  BY <1>1, <1>3, <1>4, <1>5, <1>6, PanelFinite
<1>8. what \in AlarmWhats /\ what \notin {0, 2, 8, 9, 11, 18}
  BY WhatsAre
<1>9. CASE w = A!Central
  <2>1. ArmedAfter(panel.armed, what) = panel.armed
    BY <1>8 DEF ArmedAfter
  <2>2. panel'.armed = ArmedAfter(panel.armed, what) /\ w \in PanelPlaces
    BY <1>7, <1>9, <2>1, PanelFinite
  <2> QED
    BY <1>1, <1>7, <1>8, <2>2, PanelSent
<1>10. CASE w \in AlarmZones \cup AlarmSensors
  <2>1. ActiveAfter(Active(panel.active), what, w) = Active(panel.active)
    BY <1>8 DEF ActiveAfter
  <2>2. Active(panel'.active) = ActiveAfter(Active(panel.active), what, w)
    BY <1>7, <2>1
  <2> QED
    BY <1>1, <1>7, <1>8, <1>10, <2>2, OtherSent
<1> QED
  BY <1>9, <1>10 DEF AlarmPlaces

(* A zone says that it is active, or not; a partition that it is engaged.   *)
LEMMA ZoneKept ==
  ASSUME AlarmInv, A!AlarmAssumption, Len(wire) + 3 <= AlarmWire, UNCHANGED <<known, told>>, Command(command'),
         NEW z \in AlarmZones, NEW what \in {1, 8, 9, 11, 18}, NEW more \in SUBSET AlarmZones, IsFiniteSet(more),
         panel' = [panel EXCEPT !.active = more], Active(more) = ActiveAfter(Active(panel.active), what, z),
         A!Reports(<<what>>, z)
  PROVE  AlarmInv'
<1> DEFINE t == [panel EXCEPT !.active = more]
<1>1. panel' = t
  OBVIOUS
<1>2. t \in PanelState /\ t.armed = panel.armed /\ t.active = more /\ t.raised = panel.raised
  BY PanelFinite, PanelMoves
<1> HIDE DEF t
<1>3. RaisedBy(what, z) = {} /\ what \in AlarmWhats
  BY WhatsAre DEF RaisedBy
<1>4. /\ panel' \in PanelState /\ panel'.armed = panel.armed /\ panel'.active = more
      /\ Raises(panel'.raised) = Raises(panel.raised) \cup RaisedBy(what, z) /\ IsFiniteSet(panel'.raised)
  BY <1>1, <1>2, <1>3, PanelFinite
<1>5. Active(panel'.active) = ActiveAfter(Active(panel.active), what, z) /\ IsFiniteSet(panel'.active)
  BY <1>4
<1>6. z \in AlarmZones \cup AlarmSensors /\ (z \in AlarmSensors => what \notin {11, 18})
  <2>1. \A s \in AlarmSensors : s \notin AlarmZones
    <3> SUFFICES ASSUME NEW s \in AlarmSensors, s \in AlarmZones PROVE FALSE
      OBVIOUS
    <3>1. s[1] = -1 /\ Len(s) > 1
      BY AboutZone
    <3>2. s \in Seq(0 .. 9)
      BY AboutSensor
    <3>3. s[1] \in 0 .. 9
      BY <3>1, <3>2
    <3> QED
      BY <3>1, <3>3
  <2> QED
    BY <2>1
<1> QED
  BY <1>3, <1>4, <1>5, <1>6, OtherSent

LEMMA DumpKept ==
  ASSUME AlarmInv, A!AlarmAssumption, Len(wire) + 3 <= AlarmWire, UNCHANGED <<known, told>>, Command(command'),
         NEW w, A!Dump(w)
  PROVE  AlarmInv'
<1>1. UNCHANGED panel
  BY DEF A!Dump
<1>2. panel = [panel EXCEPT !.active = @] /\ panel.armed \in BOOLEAN
  BY PanelFinite DEF PanelState
<1>3. CASE w \in AlarmZones
  <2>1. CASE w \in panel.active
    <3>1. A!Reports(<<11>>, w)
      BY <1>3, <2>1 DEF A!Dump, A!ActiveZone
    <3>2. Active(panel.active) = ActiveAfter(Active(panel.active), 11, w)
      BY <1>3, <2>1, PanelFinite, NamesMove DEF ActiveAfter
    <3> QED
      BY <1>1, <1>2, <1>3, <3>1, <3>2, PanelFinite, ZoneKept
  <2>2. CASE w \notin panel.active
    <3>1. A!Reports(<<18>>, w)
      BY <1>3, <2>2 DEF A!Dump, A!NonActiveZone
    <3>2. Active(panel.active) = ActiveAfter(Active(panel.active), 18, w)
      BY <1>3, <2>2, PanelFinite, NamesMove DEF ActiveAfter
    <3> QED
      BY <1>1, <1>2, <1>3, <3>1, <3>2, PanelFinite, ZoneKept
  <2> QED
    BY <2>1, <2>2
<1>4. CASE w \notin AlarmZones /\ panel.armed
  <2>1. A!Reports(<<8>>, A!Central)
    BY <1>4 DEF A!Dump, A!Engaged
  <2>2. 8 \in AlarmWhats /\ 8 \notin {0, 2, 9} \cup A!Alarms
    BY WhatsAre
  <2> QED
    BY <1>1, <1>4, <2>1, <2>2, PanelFinite, NoticeKept
<1>5. CASE w \notin AlarmZones /\ ~panel.armed
  <2>1. A!Reports(<<1, 9>>, A!Central)
    BY <1>5 DEF A!Dump, A!Activation, A!Disengaged
  <2>2. panel.armed = FALSE
    BY <1>2, <1>5
  <2> QED
    BY <1>1, <2>1, <2>2, PanelFinite, DisarmedKept
<1> QED
  BY <1>3, <1>4, <1>5

(* Whom a request is about.                                                *)
LEMMA StatusReaches ==
  ASSUME A!AlarmAssumption
  PROVE  /\ \A w : w = A!System \/ w = A!Central => A!StatusOf(w).where = w
         /\ \A z \in AlarmZones : A!StatusOf(z).where = z /\ A!StatusOf(Tail(z)).where \in {z, A!Central}
<1>1. ASSUME NEW w, w = A!System \/ w = A!Central PROVE A!StatusOf(w).where = w
  <2>1. A!System # A!Central
    BY DEF A!System, A!Central
  <2>2. A!StatusOf(w) = A!StatusRequest(5, w)
    BY <1>1, <2>1 DEF A!StatusOf
  <2> QED
    BY <2>2 DEF A!StatusRequest, A!Frame
<1>2. ASSUME NEW z \in AlarmZones PROVE A!StatusOf(z).where = z
  <2>1. z \in Seq({-1} \cup 0 .. 9) /\ Len(z) > 1 /\ z[1] = -1
    BY AboutZone
  <2>2. Len(A!System) = 0 /\ Len(A!Central) = 1
    BY DEF A!System, A!Central
  <2>3. z # A!System /\ z # A!Central
    <3> DEFINE n == Len(z)
    <3>1. n \in Nat /\ n > 1
      BY <2>1
    <3> HIDE DEF n
    <3>2. n # 0 /\ n # 1
      BY <3>1
    <3> QED
      BY <2>2, <3>2 DEF n
  <2>4. A!StatusOf(z) = A!StatusRequest(5, z)
    BY <2>1, <2>3 DEF A!StatusOf, A!Hash
  <2> QED
    BY <2>4 DEF A!StatusRequest, A!Frame
<1>3. ASSUME NEW z \in AlarmZones PROVE A!StatusOf(Tail(z)).where \in {z, A!Central}
  <2> DEFINE t == Tail(z)
  <2>1. z \in Seq({-1} \cup 0 .. 9) /\ Len(z) > 1 /\ z[1] = -1 /\ \A i \in 2 .. Len(z) : z[i] # -1
    BY AboutZone DEF A!AlarmAssumption, A!Hash
  <2>2. Len(t) > 0 /\ t \in Seq({-1} \cup 0 .. 9) /\ t[1] = z[2] /\ z[2] # -1
    BY <2>1
  <2>3. <<-1>> \o t = z
    BY <2>1
  <2>4. Len(A!System) = 0
    BY DEF A!System
  <2> HIDE DEF t
  <2>5. t # A!System
    BY <2>2, <2>4
  <2>6. CASE t = A!Central
    BY <1>1, <2>6 DEF t
  <2>7. CASE t # A!Central
    <3>1. A!StatusOf(t) = A!StatusRequest(5, <<A!Hash>> \o t)
      BY <2>2, <2>5, <2>7 DEF A!StatusOf, A!Hash
    <3>2. <<A!Hash>> \o t = z
      BY <2>3 DEF A!Hash
    <3> HIDE DEF t
    <3>3. A!StatusOf(t).where = z
      BY <3>1, <3>2 DEF A!StatusRequest, A!Frame
    <3> QED
      BY <3>3 DEF t
  <2> QED
    BY <2>6, <2>7
<1> QED
  BY <1>1, <1>2, <1>3

LEMMA AlarmSendKept ==
  ASSUME AlarmInv, A!AlarmAssumption, A!Send
  PROVE  AlarmInv'
<1>1. UNCHANGED <<panel, wire, known, told>>
  BY DEF A!Send
<1>2. PICK f \in {A!StatusOf(w) : w \in AlarmZones \cup {Tail(z) : z \in AlarmZones} \cup {A!System, A!Central}}
               \cup {A!Disarm(A!Central), A!ArmAway(A!Central), A!Trigger(A!Central), A!Engage(A!Central),
                     A!Disengage(A!Central)} : command' = <<f>>
  BY DEF A!Send
<1>3. f.where \in AlarmZones \cup {A!System, A!Central}
  <2>4. A!Disarm(A!Central).where = A!Central /\ A!ArmAway(A!Central).where = A!Central
        /\ A!Trigger(A!Central).where = A!Central /\ A!Engage(A!Central).where = A!Central
        /\ A!Disengage(A!Central).where = A!Central
    BY DEF A!Disarm, A!ArmAway, A!Trigger, A!Engage, A!Disengage, A!Status, A!Frame
  <2>5. CASE f \in {A!StatusOf(w) : w \in AlarmZones \cup {Tail(z) : z \in AlarmZones} \cup {A!System, A!Central}}
    <3>1. PICK w \in AlarmZones \cup {Tail(z) : z \in AlarmZones} \cup {A!System, A!Central} : f = A!StatusOf(w)
      BY <2>5
    <3>2. CASE w \in AlarmZones
      BY <3>1, <3>2, StatusReaches
    <3>3. CASE \E z \in AlarmZones : w = Tail(z)
      BY <3>1, <3>3, StatusReaches
    <3>4. CASE w = A!System \/ w = A!Central
      BY <3>1, <3>4, StatusReaches
    <3> QED
      BY <3>1, <3>2, <3>3, <3>4
  <2> QED
    BY <1>2, <2>4, <2>5
<1>4. Command(command')
  BY <1>2, <1>3 DEF Command
<1>5. AlarmTaken' = AlarmTaken /\ AlarmView' = AlarmView
  BY <1>1 DEF AlarmTaken, AlarmView
<1> QED
  BY <1>1, <1>4, <1>5 DEF AlarmInv, Command

LEMMA CarryOutKept ==
  ASSUME AlarmInv, A!AlarmAssumption, A!CarryOut
  PROVE  AlarmInv'
<1> DEFINE f == command[1]
<1>1. /\ UNCHANGED <<known, told>> /\ Command(command') /\ Len(wire) + 3 <= AlarmWire
      /\ A!Obey(f) \/ UNCHANGED <<panel, wire>>
  BY DEF A!CarryOut, A!Room, Command
<1>2. CASE UNCHANGED <<panel, wire>>
  <2>1. AlarmTaken' = AlarmTaken /\ AlarmView' = AlarmView
    BY <1>1, <1>2 DEF AlarmTaken, AlarmView
  <2> QED
    BY <1>1, <1>2, <2>1 DEF AlarmInv, Command
<1>3. CASE A!Obey(f)
  <2> HIDE DEF f
  <2>1. CASE A!Dump(f.where)
    BY <1>1, <2>1, DumpKept
  <2>2. CASE A!Arm
    BY <1>1, <2>2, ArmKept
  <2>3. CASE A!StandDown
    BY <1>1, <2>3, StandDownKept
  <2>4. CASE A!Raise(17, A!Central)
    <3>1. 17 \in A!Alarms /\ A!Central \in AlarmPlaces
      BY DEF A!Alarms, AlarmPlaces
    <3> QED
      BY <1>1, <2>4, <3>1, RaiseKept
  <2> QED
    BY <1>3, <2>1, <2>2, <2>3, <2>4 DEF A!Obey
<1> QED
  BY <1>1, <1>2, <1>3

LEMMA HappensKept ==
  ASSUME AlarmInv, A!AlarmAssumption, A!Happens
  PROVE  AlarmInv'
<1>1. UNCHANGED <<known, told>> /\ Len(wire) + 3 <= AlarmWire /\ command' = command
  BY DEF A!Happens, A!Room
<1>2. Command(command')
  BY <1>1 DEF AlarmInv, Command
<1>3. CASE A!Arm \/ A!StandDown
  BY <1>1, <1>2, <1>3, ArmKept, StandDownKept
<1>4. CASE panel' = [panel EXCEPT !.armed = FALSE] /\ A!Reports(<<0>>, A!System)
  BY <1>1, <1>2, <1>4, MaintenanceKept
<1>5. ASSUME NEW z \in AlarmZones, panel' = [panel EXCEPT !.active = @ \cup {z}] /\ A!Reports(<< 11 >>, z)
      PROVE  AlarmInv'
  <2> DEFINE more == panel.active \cup {z}
  <2>1. more \in SUBSET AlarmZones /\ IsFiniteSet(more)
    BY PanelFinite, FS_AddElement
  <2>2. Active(more) = ActiveAfter(Active(panel.active), 11, z)
    BY NamesMove DEF ActiveAfter
  <2>3. panel' = [panel EXCEPT !.active = more] /\ A!Reports(<<11>>, z)
    BY <1>5
  <2> HIDE DEF more
  <2> QED
    BY <1>1, <1>2, <2>1, <2>2, <2>3, ZoneKept
<1>6. ASSUME NEW z \in AlarmZones, panel' = [panel EXCEPT !.active = @ \ {z}] /\ A!Reports(<< 18 >>, z)
      PROVE  AlarmInv'
  <2> DEFINE more == panel.active \ {z}
  <2>1. more \in SUBSET AlarmZones /\ IsFiniteSet(more)
    BY PanelFinite, FS_RemoveElement
  <2>2. Active(more) = ActiveAfter(Active(panel.active), 18, z)
    BY NamesMove, PanelFinite DEF ActiveAfter
  <2>3. panel' = [panel EXCEPT !.active = more] /\ A!Reports(<<18>>, z)
    BY <1>6
  <2> HIDE DEF more
  <2> QED
    BY <1>1, <1>2, <2>1, <2>2, <2>3, ZoneKept
<1>7. ASSUME NEW w \in AlarmZones \cup AlarmSensors, NEW what \in {12, 15, 16, 31}, A!Raise(what, w)
      PROVE  AlarmInv'
  <2>1. what \in A!Alarms /\ w \in AlarmPlaces
    BY DEF A!Alarms, AlarmPlaces
  <2> QED
    BY <1>1, <1>2, <1>7, <2>1, RaiseKept
<1>8. ASSUME NEW what \in AlarmNotices, UNCHANGED panel, A!Reports(<<what>>, A!System)
      PROVE  AlarmInv'
  <2>1. what \in AlarmWhats /\ what \notin {0, 2, 9} \cup A!Alarms /\ what # 8
    BY WhatsAre
  <2> QED
    BY <1>1, <1>2, <1>8, <2>1, PanelFinite, NoticeKept
<1>9. ASSUME NEW z \in AlarmZones, NEW what \in {8, 9, 1}, UNCHANGED panel, A!Reports(<<what>>, z)
      PROVE  AlarmInv'
  <2>1. panel' = [panel EXCEPT !.active = panel.active]
    BY <1>9, PanelFinite DEF PanelState
  <2>2. Active(panel.active) = ActiveAfter(Active(panel.active), what, z)
    BY DEF ActiveAfter
  <2> QED
    BY <1>1, <1>2, <1>9, <2>1, <2>2, PanelFinite, ZoneKept
<1>10. /\ A!ActiveZone = 11 /\ A!NonActiveZone = 18 /\ A!Engaged = 8 /\ A!Disengaged = 9 /\ A!Activation = 1
       /\ \A what : what \in {12, 15, 16, 31} <=> what = 12 \/ what = 15 \/ what = 16 \/ what = 31
  BY DEF A!ActiveZone, A!NonActiveZone, A!Engaged, A!Disengaged, A!Activation
<1> QED
  BY <1>3, <1>4, <1>5, <1>6, <1>7, <1>8, <1>9, <1>10 DEF A!Happens

LEMMA AlarmTakeKept ==
  ASSUME AlarmInv, A!AlarmAssumption, A!Take
  PROVE  AlarmInv'
<1> DEFINE e == Head(wire)
<1>1. wire # <<>> /\ wire' = Tail(wire) /\ UNCHANGED <<panel, command>>
      /\ known' = A!Follow(known, e.f) /\ told' = e.armed
  BY DEF A!Take
<1>2. wire \in Seq(AlarmEvents) /\ Leads(AlarmFollow, AlarmStates, wire, AlarmTaken, AlarmView) /\ Len(wire) <= AlarmWire
  BY DEF AlarmInv
<1>3. AlarmTaken \in AlarmStates
  BY <1>2, LeadsEnds
<1>4. /\ e \in AlarmEvents /\ Tail(wire) \in Seq(AlarmEvents)
      /\ Leads(AlarmFollow, AlarmStates, Tail(wire), AlarmFollow[<<AlarmTaken, e>>], AlarmView)
  BY <1>1, <1>2, LeadsFrom
<1>5. AlarmFollow[<<AlarmTaken, e>>] = [known |-> A!Follow(AlarmTaken.known, e.f), told |-> e.armed]
  BY <1>3, <1>4 DEF AlarmFollow
<1>6. AlarmTaken' = AlarmFollow[<<AlarmTaken, e>>]
  BY <1>1, <1>5 DEF AlarmTaken
<1>7. Len(wire') <= AlarmWire
  BY <1>1, <1>2 DEF A!AlarmAssumption
<1>8. AlarmView' = AlarmView
  BY <1>1 DEF AlarmView
<1> QED
  BY <1>1, <1>4, <1>6, <1>7, <1>8 DEF AlarmInv

LEMMA AlarmStep ==
  ASSUME AlarmInv, A!AlarmAssumption, A!Next
  PROVE  AlarmInv'
BY AlarmSendKept, CarryOutKept, HappensKept, AlarmTakeKept DEF A!Next

LEMMA AlarmStart ==
  ASSUME A!Init, A!AlarmAssumption
  PROVE  AlarmInv
<1>1. panel = [armed |-> FALSE, active |-> {}, raised |-> {}] /\ known = panel /\ told = FALSE
  BY DEF A!Init
<1>2. panel \in PanelState /\ IsFiniteSet(panel.active) /\ IsFiniteSet(panel.raised)
  BY <1>1, FS_EmptySet DEF PanelState
<1>3. Active(panel.active) = {} /\ Raises(panel.raised) = {} /\ {} \in Names /\ {} \in Alerts
  BY <1>1 DEF Active, Raises, Names, Alerts
<1>4. AlarmView = AlarmState(FALSE, {}, {})
  BY <1>1, <1>3 DEF AlarmView, Active, Raises
<1>5. AlarmTaken = AlarmState(FALSE, {}, {})
  BY <1>1 DEF AlarmTaken, AlarmState
<1>6. AlarmView \in AlarmStates
  <2>1. panel.armed \in Flags /\ AlarmView = AlarmState(panel.armed, {}, {})
    BY <1>1, <1>4 DEF Flags
  <2> QED
    BY <1>3, <2>1, StatesAre DEF Names, Alerts
<1>7. wire \in Seq(AlarmEvents) /\ Len(wire) = 0 /\ Command(command)
  BY DEF A!Init, Command
<1>8. Leads(AlarmFollow, AlarmStates, wire, AlarmTaken, AlarmView)
  BY <1>4, <1>5, <1>6, <1>7, LeadsNowhere
<1> QED
  BY <1>2, <1>7, <1>8 DEF AlarmInv, A!AlarmAssumption, Command

LEMMA AlarmKnows ==
  ASSUME AlarmInv, A!AlarmAssumption
  PROVE  A!TypeOK /\ A!PanelKnown /\ A!ZonesKnown /\ A!AlarmsKnown
<1>1. wire \in Seq(AlarmEvents) /\ Leads(AlarmFollow, AlarmStates, wire, AlarmTaken, AlarmView)
  BY DEF AlarmInv
<1>2. AlarmTaken \in AlarmStates /\ (Len(wire) = 0 => AlarmTaken = AlarmView)
  BY <1>1, LeadsEnds
<1>3. known.armed \in BOOLEAN /\ known.armed = told
  <2>1. PICK k \in AlarmKnown : AlarmTaken = AlarmState(k.armed, k.active, k.raised)
    BY <1>2 DEF AlarmStates
  <2>2. AlarmTaken.known.armed = k.armed /\ AlarmTaken.told = k.armed /\ k.armed \in BOOLEAN
    BY <2>1 DEF AlarmState, AlarmKnown
  <2> QED
    BY <2>2 DEF AlarmTaken
<1>4. ASSUME wire = <<>>
      PROVE  known = [armed |-> panel.armed, active |-> Active(panel.active), raised |-> Raises(panel.raised)]
  <2>1. AlarmTaken = AlarmView
    BY <1>2, <1>4
  <2> QED
    BY <2>1, ViewIs DEF AlarmTaken, AlarmState
<1>5. Active(panel.active) = {A!About(z).zone : z \in panel.active}
  <2>1. \A z \in panel.active : A!About(z).zone = ZoneName(z)
    BY PanelFinite, AboutZone
  <2> QED
    BY <2>1 DEF Active
<1>6. Raises(panel.raised) = {<<alarm[1], A!About(alarm[2])>> : alarm \in panel.raised}
  BY DEF Raises, Raised
<1>7. Cardinality(Active(panel.active)) = Cardinality(panel.active)
  <2> DEFINE f == [z \in panel.active |-> ZoneName(z)]
  <2>1. \A y, z \in panel.active : f[y] = f[z] => y = z
    BY PanelFinite, ZoneNames
  <2>2. Active(panel.active) = {f[z] : z \in panel.active}
    BY DEF Active
  <2> HIDE DEF f
  <2> QED
    BY <2>1, <2>2, PanelFinite, OneByOne
<1>8. Cardinality(Raises(panel.raised)) = Cardinality(panel.raised)
  <2> DEFINE f == [a \in panel.raised |-> Raised(a)]
  <2>1. ASSUME NEW a \in panel.raised, NEW b \in panel.raised, f[a] = f[b]
        PROVE  a = b
    <3>1. a = <<a[1], a[2]>> /\ b = <<b[1], b[2]>> /\ a[2] \in AlarmPlaces /\ b[2] \in AlarmPlaces
      BY PanelFinite
    <3>2. a[1] = b[1] /\ A!About(a[2]) = A!About(b[2])
      BY <2>1 DEF Raised
    <3>3. a[2] = b[2]
      BY <3>1, <3>2, AboutTellsApart
    <3> QED
      BY <3>1, <3>2, <3>3
  <2>2. Raises(panel.raised) = {f[a] : a \in panel.raised}
    BY DEF Raises
  <2> HIDE DEF f
  <2> QED
    BY <2>1, <2>2, PanelFinite, OneByOne
<1>9. A!TypeOK
  BY <1>3 DEF A!TypeOK, AlarmInv
<1>10. A!PanelKnown
  BY <1>3, <1>4 DEF A!PanelKnown
<1>11. wire = <<>> => known.active = Active(panel.active) /\ known.raised = Raises(panel.raised)
  BY <1>4
<1>12. A!ZonesKnown
  <2>1. A!Cardinality(Active(panel.active)) = A!Cardinality(panel.active)
    BY <1>7, SameCardinality
  <2> QED
    BY <1>5, <1>11, <2>1 DEF A!ZonesKnown
<1>13. A!AlarmsKnown
  <2>1. A!Cardinality(Raises(panel.raised)) = A!Cardinality(panel.raised)
    BY <1>8, SameCardinality
  <2> QED
    BY <1>6, <1>11, <2>1 DEF A!AlarmsKnown
<1> QED
  BY <1>9, <1>10, <1>12, <1>13

(****************************** the shutters ******************************)

Shuts == {"open", "closed", "none"}
KnownLevels == 0 .. 100 \cup {S!Null}
ShutterKnown ==
  [dir : [S!Actuators -> 0 .. 2], locked : SUBSET S!Actuators,
   level : [S!Actuators -> KnownLevels], shut : [S!Actuators -> Shuts]]
PlantState == [dir : 0 .. 2, goal : 0 .. 100 \cup {S!Null}, level : 0 .. 100, sure : BOOLEAN]
MoveFrames == {S!MoveShutter(a, d) : a \in S!Actuators, d \in 0 .. 2}
LevelFrames ==
  {S!ReportShutterLevel(a, n, state) : a \in Advanced, n \in 0 .. 100 \cup Unknowns, state \in 10 .. 14}
EchoFrames == {S!Status(who, 1000, <<what>>, a) : who \in {2, 14}, what \in 0 .. 2, a \in S!Actuators}
LockFrames == {S!LockFrame(a, shuts) : a \in S!Actuators, shuts \in BOOLEAN}
ShutterFrames == MoveFrames \cup LevelFrames \cup EchoFrames \cup LockFrames
ShutterFollow == [x \in ShutterKnown \X ShutterFrames |-> S!Follow(x[1], x[2])]

(* What the consumer knows of a: it goes to d, is at n, and is shut or not. *)
Seen(k, a, d, n, shut) ==
  [dir |-> [k.dir EXCEPT ![a] = d], locked |-> k.locked,
   level |-> [k.level EXCEPT ![a] = n], shut |-> [k.shut EXCEPT ![a] = shut]]
LockSeen(k, a, shuts) ==
  [dir |-> k.dir, locked |-> IF shuts THEN k.locked \cup {a} ELSE k.locked \ {a}, level |-> k.level, shut |-> k.shut]
DirOf(state) == IF state \in {11, 13} THEN 1 ELSE IF state \in {12, 14} THEN 2 ELSE 0
LevelOf(n) == IF n \in 0 .. 100 THEN n ELSE S!Null
ShutOf(state, n) ==
  IF state # 10 THEN "open" ELSE IF n \notin 0 .. 100 THEN "none" ELSE IF n = 0 THEN "closed" ELSE "open"

AllSeen(k, a, d, n, shut) == [k EXCEPT !.dir[a] = d, !.level[a] = n, !.shut[a] = shut]

LEMMA SeenIs ==
  ASSUME NEW k \in ShutterKnown, NEW a \in S!Actuators, NEW d, NEW n, NEW shut
  PROVE  AllSeen(k, a, d, n, shut) = Seen(k, a, d, n, shut)
<1> DEFINE x == [k EXCEPT !.dir[a] = d]
           y == [x EXCEPT !.level[a] = n]
<1>1. x = [dir |-> [k.dir EXCEPT ![a] = d], locked |-> k.locked, level |-> k.level, shut |-> k.shut]
  BY DEF ShutterKnown
<1>2. y = [dir |-> [k.dir EXCEPT ![a] = d], locked |-> k.locked, level |-> [k.level EXCEPT ![a] = n],
           shut |-> k.shut]
  <2> HIDE DEF x
  <2> QED
    BY <1>1
<1>3. [y EXCEPT !.shut[a] = shut] = Seen(k, a, d, n, shut)
  <2> HIDE DEF x, y
  <2> QED
    BY <1>2 DEF Seen
<1> QED
  BY <1>3 DEF AllSeen

LEMMA ShutterId ==
  ASSUME NEW a \in S!Actuators, S!ShutterAssumption, NEW f, f.where = a, f.who \in {2, 14}
  PROVE  S!UniqueId(f) = a
<1>1. S!Interface(f) = a.bus
  BY DEF S!Interface
<1> QED
  BY <1>1 DEF S!UniqueId, S!ShutterAssumption

(* What an event of WHO 2 says, by what the decoder makes of it. *)
LEMMA ShutterFollows ==
  ASSUME NEW k \in ShutterKnown, NEW a \in S!Actuators, NEW f, f.who = 2, S!UniqueId(f) = a,
         NEW d, NEW n, NEW shut,
         d = CASE S!IsOpening(f) -> 1 [] S!IsClosing(f) -> 2 [] S!IsStopped(f) -> 0 [] OTHER -> k.dir[a],
         n = CASE S!PositionUnknown(f) -> S!Null
               [] f.dim = 10 /\ ~S!PositionUnknown(f) -> f.val[2] [] OTHER -> k.level[a],
         shut = CASE S!IsClosed(f) # "none" -> S!IsClosed(f)
                  [] S!IsClosed(f) = "none" /\ S!PositionUnknown(f) -> "none" [] OTHER -> k.shut[a]
  PROVE  S!Follow(k, f) = Seen(k, a, d, n, shut)
<1>1. S!Follow(k, f) = AllSeen(k, a, d, n, shut)
  BY DEF S!Follow, AllSeen
<1> QED
  BY <1>1, SeenIs

LEMMA MoveIsSeen ==
  ASSUME NEW k \in ShutterKnown, NEW a \in S!Actuators, NEW d \in 0 .. 2, S!ShutterAssumption
  PROVE  S!Follow(k, S!MoveShutter(a, d)) = Seen(k, a, d, k.level[a], k.shut[a])
<1> DEFINE f == S!MoveShutter(a, d)
<1>1. f.who = 2 /\ f.where = a /\ f.what = d /\ f.dim = S!Null
  BY DEF S!MoveShutter, S!Status, S!Frame
<1> HIDE DEF f
<1>2. f.dim # 10 /\ S!State(f) = d /\ ~S!PositionUnknown(f) /\ S!UniqueId(f) = a
  BY <1>1, ShutterId DEF S!State, S!Null, S!PositionUnknown
<1>3. S!IsClosed(f) = "none"
  BY <1>2 DEF S!IsClosed
<1>4. d = CASE S!IsOpening(f) -> 1 [] S!IsClosing(f) -> 2 [] S!IsStopped(f) -> 0 [] OTHER -> k.dir[a]
  BY <1>2 DEF S!IsOpening, S!IsClosing, S!IsStopped
<1>5. k.level[a] = CASE S!PositionUnknown(f) -> S!Null
                     [] f.dim = 10 /\ ~S!PositionUnknown(f) -> f.val[2] [] OTHER -> k.level[a]
  BY <1>2
<1>6. k.shut[a] = CASE S!IsClosed(f) # "none" -> S!IsClosed(f)
                    [] S!IsClosed(f) = "none" /\ S!PositionUnknown(f) -> "none" [] OTHER -> k.shut[a]
  BY <1>2, <1>3
<1>7. S!Follow(k, f) = Seen(k, a, d, k.level[a], k.shut[a])
  BY <1>1, <1>2, <1>4, <1>5, <1>6, ShutterFollows
<1> QED
  BY <1>7 DEF f

LEMMA LevelIsSeen ==
  ASSUME NEW k \in ShutterKnown, NEW a \in S!Actuators, NEW n \in 0 .. 100 \cup Unknowns, NEW state \in 10 .. 14,
         S!ShutterAssumption
  PROVE  S!Follow(k, S!ReportShutterLevel(a, n, state)) = Seen(k, a, DirOf(state), LevelOf(n), ShutOf(state, n))
<1> DEFINE f == S!ReportShutterLevel(a, n, state)
           v == <<state, n, 0, 0>>
<1>1. f.who = 2 /\ f.where = a /\ f.dim = 10 /\ f.val = v
  BY DEF S!ReportShutterLevel, S!DimensionReply, S!Frame
<1>2. v[1] = state /\ v[2] = n
  OBVIOUS
<1> HIDE DEF f, v
<1>3. S!State(f) = state /\ (S!PositionUnknown(f) <=> n \notin 0 .. 100) /\ S!UniqueId(f) = a
  BY <1>1, <1>2, ShutterId DEF S!State, S!PositionUnknown
<1>4. DirOf(state) = CASE S!IsOpening(f) -> 1 [] S!IsClosing(f) -> 2 [] S!IsStopped(f) -> 0 [] OTHER -> k.dir[a]
  BY <1>3 DEF S!IsOpening, S!IsClosing, S!IsStopped, DirOf
<1>5. LevelOf(n) = CASE S!PositionUnknown(f) -> S!Null
                     [] f.dim = 10 /\ ~S!PositionUnknown(f) -> f.val[2] [] OTHER -> k.level[a]
  BY <1>1, <1>2, <1>3 DEF LevelOf
<1>6. ShutOf(state, n) = CASE S!IsClosed(f) # "none" -> S!IsClosed(f)
                    [] S!IsClosed(f) = "none" /\ S!PositionUnknown(f) -> "none" [] OTHER -> k.shut[a]
  <2>1. CASE state = 10 /\ n \in 0 .. 100
    <3>1. S!IsClosed(f) = IF n = 0 THEN "closed" ELSE "open"
      BY <1>1, <1>2, <1>3, <2>1 DEF S!IsClosed
    <3> QED
      BY <2>1, <3>1 DEF ShutOf
  <2>2. CASE state = 10 /\ n \notin 0 .. 100
    <3>1. S!IsClosed(f) = "none"
      BY <1>3, <2>2 DEF S!IsClosed
    <3> QED
      BY <1>3, <2>2, <3>1 DEF ShutOf
  <2>3. CASE state # 10
    <3>1. S!IsClosed(f) = "open"
      BY <1>3, <2>3 DEF S!IsClosed
    <3> QED
      BY <2>3, <3>1 DEF ShutOf
  <2> QED
    BY <2>1, <2>2, <2>3
<1>7. S!Follow(k, f) = Seen(k, a, DirOf(state), LevelOf(n), ShutOf(state, n))
  BY <1>1, <1>3, <1>4, <1>5, <1>6, ShutterFollows
<1> QED
  BY <1>7 DEF f

LEMMA EchoIsNothing ==
  ASSUME NEW k \in ShutterKnown, NEW a \in S!Actuators, NEW who \in {2, 14}, NEW what, S!ShutterAssumption
  PROVE  S!Follow(k, S!Status(who, 1000, <<what>>, a)) = k
<1> DEFINE f == S!Status(who, 1000, <<what>>, a)
<1>1. f.who = who /\ f.where = a /\ f.what = 1000 /\ f.dim = S!Null
  BY DEF S!Status, S!Frame
<1> HIDE DEF f
<1>2. f.dim # 10 /\ S!State(f) = S!Null /\ ~S!PositionUnknown(f) /\ S!UniqueId(f) = a
  BY <1>1, ShutterId DEF S!State, S!Null, S!PositionUnknown
<1>3. CASE who = 2
  <2>1. S!IsClosed(f) = "none"
    BY <1>2 DEF S!IsClosed, S!Null
  <2>2. k.dir[a] = CASE S!IsOpening(f) -> 1 [] S!IsClosing(f) -> 2 [] S!IsStopped(f) -> 0 [] OTHER -> k.dir[a]
    BY <1>2 DEF S!IsOpening, S!IsClosing, S!IsStopped, S!Null
  <2>3. k.level[a] = CASE S!PositionUnknown(f) -> S!Null
                       [] f.dim = 10 /\ ~S!PositionUnknown(f) -> f.val[2] [] OTHER -> k.level[a]
    BY <1>2
  <2>4. k.shut[a] = CASE S!IsClosed(f) # "none" -> S!IsClosed(f)
                      [] S!IsClosed(f) = "none" /\ S!PositionUnknown(f) -> "none" [] OTHER -> k.shut[a]
    BY <1>2, <2>1
  <2>5. S!Follow(k, f) = Seen(k, a, k.dir[a], k.level[a], k.shut[a])
    BY <1>1, <1>2, <1>3, <2>2, <2>3, <2>4, ShutterFollows
  <2>6. Seen(k, a, k.dir[a], k.level[a], k.shut[a]) = k
    BY DEF Seen, ShutterKnown
  <2> QED
    BY <2>5, <2>6 DEF f
<1>4. CASE who = 14
  <2>1. S!Follow(k, f) = [k EXCEPT !.locked = @]
    BY <1>1, <1>2, <1>4 DEF S!Follow, S!Null
  <2> QED
    BY <2>1 DEF f, ShutterKnown
<1> QED
  BY <1>3, <1>4

LEMMA LockIsSeen ==
  ASSUME NEW k \in ShutterKnown, NEW a \in S!Actuators, NEW shuts \in BOOLEAN, S!ShutterAssumption
  PROVE  S!Follow(k, S!LockFrame(a, shuts)) = LockSeen(k, a, shuts)
<1> DEFINE f == S!LockFrame(a, shuts)
<1>1. f.who = 14 /\ f.where = a /\ f.what = (IF shuts THEN 0 ELSE 1) /\ f.dim = S!Null
  BY DEF S!LockFrame, S!Status, S!Frame
<1> HIDE DEF f
<1>2. S!State(f) = (IF shuts THEN 0 ELSE 1) /\ S!UniqueId(f) = a
  BY <1>1, ShutterId DEF S!State, S!Null
<1>3. S!Follow(k, f) = [k EXCEPT !.locked = IF shuts THEN @ \cup {a} ELSE @ \ {a}]
  BY <1>1, <1>2 DEF S!Follow
<1> QED
  BY <1>3 DEF f, LockSeen, ShutterKnown

-----------------------------------------------------------------------------
(* What x has of a is what s is. *)
ShownAs(x, a, d, n) ==
  /\ x.dir[a] = d
  /\ a \in Basic => x.level[a] = S!Null /\ x.shut[a] = "none"
  /\ a \in Advanced /\ d = 0 => x.level[a] = n /\ x.shut[a] = ShutOf(10, n)
  /\ a \in Advanced /\ d # 0 => x.shut[a] = "open"
SureLevel(s) == IF s.sure THEN s.level ELSE S!Null
Shows(x, a, s) == ShownAs(x, a, s.dir, SureLevel(s))
ShowsAll(x) == x \in ShutterKnown /\ x.locked = locked /\ \A a \in S!Actuators : Shows(x, a, plant[a])

OrderIs(f) ==
  \/ \E a, shuts : shuts \in BOOLEAN /\ f = S!LockFrame(a, shuts)
  \/ \E a \in S!Actuators :
       \/ f = S!StatusOf(a) \/ f = S!GetShutterStatus(a)
       \/ \E d \in 0 .. 2 : f = S!MoveShutter(a, d)
       \/ a \in Advanced /\ \E n \in 0 .. 100 : f = S!SetShutterLevel(a, n)
Ordered(f, a) == <<[f |-> f, means |-> a]>>
OrdersKept == orders = <<>> \/ \E f : OrderIs(f) /\ orders = Ordered(f, f.where)

ShutterInv ==
  /\ plant \in [S!Actuators -> PlantState] /\ locked \subseteq S!Actuators /\ OrdersKept
  /\ wire \in Seq(ShutterFrames) /\ Len(wire) <= ShutterWire
  /\ \E x : ShowsAll(x) /\ Leads(ShutterFollow, ShutterKnown, wire, known, x)

(* y knows of a what an event told, and of the others what k knows.        *)
KnowsAs(y, k, a, d, n, shut) ==
  /\ y \in ShutterKnown /\ y.locked = k.locked /\ y.dir[a] = d /\ y.level[a] = n /\ y.shut[a] = shut
  /\ \A b \in S!Actuators \ {a} : y.dir[b] = k.dir[b] /\ y.level[b] = k.level[b] /\ y.shut[b] = k.shut[b]

LEMMA SeenKnown ==
  ASSUME NEW k \in ShutterKnown, NEW a \in S!Actuators, NEW d \in 0 .. 2, NEW n \in KnownLevels,
         NEW shut \in Shuts
  PROVE  KnowsAs(Seen(k, a, d, n, shut), k, a, d, n, shut)
<1> DEFINE y == Seen(k, a, d, n, shut)
<1>1. /\ y.dir = [k.dir EXCEPT ![a] = d] /\ y.locked = k.locked
      /\ y.level = [k.level EXCEPT ![a] = n] /\ y.shut = [k.shut EXCEPT ![a] = shut]
      /\ y = [dir |-> y.dir, locked |-> y.locked, level |-> y.level, shut |-> y.shut]
  BY DEF Seen
<1> HIDE DEF y
<1>2. y \in ShutterKnown
  BY <1>1 DEF ShutterKnown
<1>3. y.dir[a] = d /\ y.level[a] = n /\ y.shut[a] = shut
  BY <1>1 DEF ShutterKnown
<1>4. \A b \in S!Actuators \ {a} : y.dir[b] = k.dir[b] /\ y.level[b] = k.level[b] /\ y.shut[b] = k.shut[b]
  BY <1>1 DEF ShutterKnown
<1>5. KnowsAs(y, k, a, d, n, shut)
  BY <1>1, <1>2, <1>3, <1>4 DEF KnowsAs
<1> QED
  BY <1>5 DEF y

(* The others are shown as they were. *)
LEMMA OthersShown ==
  ASSUME NEW x, NEW y, NEW a, NEW s, x \in ShutterKnown, y \in ShutterKnown,
         \A b \in S!Actuators \ {a} : y.dir[b] = x.dir[b] /\ y.level[b] = x.level[b] /\ y.shut[b] = x.shut[b]
  PROVE  \A b \in S!Actuators \ {a} : \A t : Shows(x, b, t) => Shows(y, b, t)
BY DEF Shows, ShownAs

LEMMA ReportIsSeen ==
  ASSUME NEW x \in ShutterKnown, NEW a \in S!Actuators, NEW s \in PlantState, NEW r \in S!Reports(a, s),
         S!ShutterAssumption, a \in Basic => x.level[a] = S!Null /\ x.shut[a] = "none"
  PROVE  /\ r \in ShutterFrames /\ S!Follow(x, r) \in ShutterKnown
         /\ S!Follow(x, r).locked = x.locked /\ Shows(S!Follow(x, r), a, s)
         /\ \A b \in S!Actuators \ {a} : /\ S!Follow(x, r).dir[b] = x.dir[b]
                                         /\ S!Follow(x, r).level[b] = x.level[b]
                                         /\ S!Follow(x, r).shut[b] = x.shut[b]
<1>0. s.dir \in 0 .. 2 /\ s.level \in 0 .. 100 /\ s.sure \in BOOLEAN
  BY DEF PlantState
<1>1. CASE a \in Basic
  <2>1. r = S!MoveShutter(a, s.dir) /\ a \notin Advanced
    BY <1>1 DEF S!Reports, S!ShutterAssumption
  <2> DEFINE d == s.dir
             n == x.level[a]
             shut == x.shut[a]
  <2>2. r \in MoveFrames
    BY <1>0, <2>1 DEF MoveFrames
  <2>3. S!Follow(x, r) = Seen(x, a, d, n, shut)
    BY <1>0, <2>1, MoveIsSeen
  <2>4. d \in 0 .. 2 /\ n \in KnownLevels /\ shut \in Shuts /\ n = S!Null
        /\ shut = "none" /\ d = s.dir
    BY <1>0, <1>1 DEF ShutterKnown
  <2> HIDE DEF d, n, shut
  <2> DEFINE y == S!Follow(x, r)
  <2>8. y = Seen(x, a, d, n, shut)
    BY <2>3
  <2> HIDE DEF y
  <2>5. /\ y \in ShutterKnown /\ y.locked = x.locked /\ y.dir[a] = d /\ y.level[a] = n /\ y.shut[a] = shut
        /\ \A b \in S!Actuators \ {a} : y.dir[b] = x.dir[b] /\ y.level[b] = x.level[b] /\ y.shut[b] = x.shut[b]
    <3>1. KnowsAs(y, x, a, d, n, shut)
      BY <2>4, <2>8, SeenKnown
    <3> QED
      BY <3>1 DEF KnowsAs
  <2>6. Shows(y, a, s)
    BY <1>1, <2>1, <2>4, <2>5 DEF Shows, ShownAs
  <2>7. r \in ShutterFrames
    BY <2>2 DEF ShutterFrames
  <2> QED
    BY <2>5, <2>6, <2>7 DEF y
<1>2. CASE a \in Advanced
  <2>1. a \notin Basic
    BY <1>2 DEF S!ShutterAssumption
  <2>2. PICK n : /\ n \in IF s.sure THEN {s.level} ELSE Unknowns
                 /\ r = S!ReportShutterLevel(a, n, IF s.goal = S!Null \/ s.dir = 0 THEN 10 + s.dir ELSE 12 + s.dir)
    BY <2>1 DEF S!Reports
  <2> DEFINE state == IF s.goal = S!Null \/ s.dir = 0 THEN 10 + s.dir ELSE 12 + s.dir
             l == LevelOf(n)
             shut == ShutOf(state, n)
             d == s.dir
  <2>3. state \in 10 .. 14 /\ DirOf(state) = d /\ (state = 10 <=> d = 0) /\ d \in 0 .. 2
    BY <1>0 DEF DirOf
  <2>4. n \in 0 .. 100 \cup Unknowns /\ l = SureLevel(s) /\ (s.sure => n \in 0 .. 100) /\ (~s.sure => n \notin 0 .. 100)
    BY <1>0, <2>2 DEF S!ShutterAssumption, LevelOf, SureLevel
  <2>5. l \in KnownLevels /\ (n \in 0 .. 100 => l = n) /\ (n \notin 0 .. 100 => l = S!Null)
    BY DEF LevelOf, KnownLevels
  <2>6. r = S!ReportShutterLevel(a, n, state)
    BY <2>2
  <2>7. r \in ShutterFrames
    <3> HIDE DEF state, l, shut
    <3> QED
      BY <1>2, <2>3, <2>4, <2>6 DEF ShutterFrames, LevelFrames
  <2>8. shut \in Shuts /\ (d = 0 => shut = ShutOf(10, l)) /\ (d # 0 => shut = "open")
    <3> HIDE DEF state, l
    <3> QED
      BY <2>3, <2>5 DEF ShutOf, Shuts, S!Null
  <2>9. S!Follow(x, r) = Seen(x, a, d, l, shut)
    <3> HIDE DEF state
    <3>1. S!Follow(x, S!ReportShutterLevel(a, n, state)) = Seen(x, a, DirOf(state), LevelOf(n), ShutOf(state, n))
      BY <2>3, <2>4, LevelIsSeen
    <3> QED
      BY <2>3, <2>6, <3>1
  <2> HIDE DEF state, l, shut, d
  <2> DEFINE y == S!Follow(x, r)
  <2>12. y = Seen(x, a, d, l, shut)
    BY <2>9
  <2> HIDE DEF y
  <2>10. /\ y \in ShutterKnown /\ y.locked = x.locked /\ y.dir[a] = d /\ y.level[a] = l /\ y.shut[a] = shut
         /\ \A b \in S!Actuators \ {a} : y.dir[b] = x.dir[b] /\ y.level[b] = x.level[b] /\ y.shut[b] = x.shut[b]
    <3>1. d \in 0 .. 2
      BY <2>3
    <3>2. KnowsAs(y, x, a, d, l, shut)
      BY <2>5, <2>8, <2>12, <3>1, SeenKnown
    <3> QED
      BY <3>2 DEF KnowsAs
  <2>11. Shows(y, a, s)
    BY <2>1, <2>4, <2>8, <2>10 DEF Shows, ShownAs, d
  <2> QED
    BY <2>7, <2>10, <2>11 DEF y
<1> QED
  BY <1>1, <1>2 DEF S!Actuators

LEMMA EchoIs ==
  ASSUME NEW x \in ShutterKnown, NEW t \in EchoFrames, S!ShutterAssumption
  PROVE  t \in ShutterFrames /\ S!Follow(x, t) = x
<1>1. PICK who \in {2, 14}, what \in 0 .. 2, a \in S!Actuators : t = S!Status(who, 1000, <<what>>, a)
  BY DEF EchoFrames
<1>2. S!Follow(x, S!Status(who, 1000, <<what>>, a)) = x
  BY EchoIsNothing
<1> QED
  BY <1>1, <1>2 DEF ShutterFrames

(* Events that are sent after a translation or none. *)
LEMMA ShutterSent ==
  ASSUME NEW x \in ShutterKnown, S!ShutterAssumption, wire \in Seq(ShutterFrames),
         Leads(ShutterFollow, ShutterKnown, wire, known, x), UNCHANGED known,
         NEW r \in ShutterFrames, S!Follow(x, r) \in ShutterKnown,
         NEW frames, frames = <<r>> \/ \E t \in EchoFrames : frames = <<t>> \o <<r>>,
         S!Send(frames)
  PROVE  /\ wire' \in Seq(ShutterFrames) /\ Len(wire') <= ShutterWire
         /\ Leads(ShutterFollow, ShutterKnown, wire', known', S!Follow(x, r))
<1>1. ASSUME NEW k \in ShutterKnown, NEW e \in ShutterFrames
      PROVE  ShutterFollow[<<k, e>>] = S!Follow(k, e)
  BY DEF ShutterFollow
<1>4. ShutterFollow[<<x, r>>] = S!Follow(x, r)
  BY <1>1
<1>2. CASE frames = <<r>>
  <2>1. wire' = Append(wire, r)
    BY <1>2 DEF S!Send
  <2>2. /\ Append(wire, r) \in Seq(ShutterFrames)
        /\ Leads(ShutterFollow, ShutterKnown, Append(wire, r), known, S!Follow(x, r))
    BY <1>4, LeadsOn
  <2>3. Len(wire') <= ShutterWire
    BY <1>2 DEF S!Send, S!ShutterAssumption
  <2> QED
    BY <2>1, <2>2, <2>3
<1>3. CASE \E t \in EchoFrames : frames = <<t>> \o <<r>>
  <2>1. PICK t \in EchoFrames : frames = <<t>> \o <<r>>
    BY <1>3
  <2>2. t \in ShutterFrames /\ S!Follow(x, t) = x
    BY EchoIs
  <2> DEFINE w == Append(wire, t)
  <2>6. ShutterFollow[<<x, t>>] = x
    BY <1>1, <2>2
  <2>3. w \in Seq(ShutterFrames) /\ Leads(ShutterFollow, ShutterKnown, w, known, x)
    BY <2>2, <2>6, LeadsOn
  <2>4. wire' = Append(w, r) /\ Len(wire') <= ShutterWire
    BY <2>1, <2>2 DEF S!Send, S!ShutterAssumption
  <2> HIDE DEF w
  <2>5. Append(w, r) \in Seq(ShutterFrames) /\ Leads(ShutterFollow, ShutterKnown, Append(w, r), known, S!Follow(x, r))
    BY <1>4, <2>3, LeadsOn
  <2> QED
    BY <2>4, <2>5
<1> QED
  BY <1>2, <1>3

(* The bus repeats an order, and no actuator answers. *)
LEMMA EchoSent ==
  ASSUME NEW x \in ShutterKnown, S!ShutterAssumption, wire \in Seq(ShutterFrames), Len(wire) <= ShutterWire,
         Leads(ShutterFollow, ShutterKnown, wire, known, x), UNCHANGED known,
         NEW frames, frames = <<>> \/ \E t \in EchoFrames : frames = <<t>>,
         S!Send(frames)
  PROVE  /\ wire' \in Seq(ShutterFrames) /\ Len(wire') <= ShutterWire
         /\ Leads(ShutterFollow, ShutterKnown, wire', known', x)
<1>1. CASE frames = <<>>
  <2>1. wire' = wire
    BY <1>1 DEF S!Send
  <2> QED
    BY <2>1
<1>2. CASE \E t \in EchoFrames : frames = <<t>>
  <2>1. PICK t \in EchoFrames : frames = <<t>>
    BY <1>2
  <2>2. t \in ShutterFrames /\ S!Follow(x, t) = x
    BY EchoIs
  <2> QED
    BY <2>1, <2>2, ShutterSent
<1> QED
  BY <1>1, <1>2

-----------------------------------------------------------------------------
(* A shutter comes to s and its actuator reports it. *)
LEMMA PlantTold ==
  ASSUME ShutterInv, S!ShutterAssumption, NEW a \in S!Actuators, NEW s \in PlantState,
         plant' = [plant EXCEPT ![a] = s], UNCHANGED <<locked, known>>, OrdersKept', NEW r \in S!Reports(a, s),
         NEW frames, frames = <<r>> \/ \E t \in EchoFrames : frames = <<t>> \o <<r>>, S!Send(frames)
  PROVE  ShutterInv'
<1>1. PICK x : ShowsAll(x) /\ Leads(ShutterFollow, ShutterKnown, wire, known, x)
  BY DEF ShutterInv
<1> DEFINE y == S!Follow(x, r)
<1>2. x \in ShutterKnown /\ x.locked = locked /\ \A b \in S!Actuators : Shows(x, b, plant[b])
  BY <1>1 DEF ShowsAll
<1>3. a \in Basic => x.level[a] = S!Null /\ x.shut[a] = "none"
  BY <1>2 DEF Shows, ShownAs
<1>4. /\ r \in ShutterFrames /\ y \in ShutterKnown /\ y.locked = x.locked /\ Shows(y, a, s)
      /\ \A b \in S!Actuators \ {a} : y.dir[b] = x.dir[b] /\ y.level[b] = x.level[b] /\ y.shut[b] = x.shut[b]
  BY <1>2, <1>3, ReportIsSeen
<1>5. wire' \in Seq(ShutterFrames) /\ Len(wire') <= ShutterWire
      /\ Leads(ShutterFollow, ShutterKnown, wire', known', y)
  BY <1>1, <1>2, <1>4, ShutterSent DEF ShutterInv
<1> HIDE DEF y
<1>6. plant \in [S!Actuators -> PlantState] /\ locked \subseteq S!Actuators
  BY DEF ShutterInv
<1>7. plant' \in [S!Actuators -> PlantState] /\ plant'[a] = s /\ \A b \in S!Actuators \ {a} : plant'[b] = plant[b]
  BY <1>6
<1>8. \A b \in S!Actuators \ {a} : Shows(y, b, plant'[b])
  BY <1>2, <1>4, <1>7, OthersShown
<1>9. ShowsAll(y)'
  BY <1>2, <1>4, <1>7, <1>8 DEF ShowsAll
<1> QED
  BY <1>5, <1>6, <1>7, <1>9 DEF ShutterInv

(* No shutter of which the consumer would have to hear moves. *)
LEMMA PlantQuiet ==
  ASSUME ShutterInv, S!ShutterAssumption, NEW a \in S!Actuators, NEW s \in PlantState,
         s.dir = plant[a].dir, s.dir # 0, plant' = [plant EXCEPT ![a] = s], UNCHANGED <<locked, known, wire>>,
         OrdersKept'
  PROVE  ShutterInv'
<1>1. PICK x : ShowsAll(x) /\ Leads(ShutterFollow, ShutterKnown, wire, known, x)
  BY DEF ShutterInv
<1>2. plant \in [S!Actuators -> PlantState]
  BY DEF ShutterInv
<1>3. plant' \in [S!Actuators -> PlantState] /\ plant'[a] = s /\ \A b \in S!Actuators \ {a} : plant'[b] = plant[b]
  BY <1>2
<1>4. Shows(x, a, plant[a])
  BY <1>1 DEF ShowsAll
<1>5. Shows(x, a, s)
  BY <1>4 DEF Shows, ShownAs
<1>6. ShowsAll(x)'
  BY <1>1, <1>3, <1>5 DEF ShowsAll
<1> QED
  BY <1>1, <1>3, <1>6 DEF ShutterInv

(* Only the orders change. *)
LEMMA PlantIdle ==
  ASSUME ShutterInv, UNCHANGED <<plant, locked, known, wire>>, OrdersKept'
  PROVE  ShutterInv'
BY DEF ShutterInv, ShowsAll

LEMMA ShutterOrdered ==
  ASSUME ShutterInv, NEW f, OrderIs(f), NEW a, a = f.where, S!Order(f, a)
  PROVE  ShutterInv'
<1>1. orders' = Ordered(f, f.where) /\ UNCHANGED <<plant, locked, known, wire>>
  BY DEF S!Order, Ordered
<1>2. OrdersKept'
  BY <1>1 DEF OrdersKept
<1> QED
  BY <1>1, <1>2, PlantIdle

LEMMA ShutterOrders ==
  ASSUME NEW a
  PROVE  /\ S!StatusOf(a).where = a /\ S!StatusOf(a).type = "STATUS_REQUEST" /\ S!StatusOf(a).who = 2
         /\ S!GetShutterStatus(a).where = a /\ S!GetShutterStatus(a).type = "DIMENSION_REQUEST"
         /\ S!GetShutterStatus(a).who = 2
         /\ \A d : /\ S!MoveShutter(a, d).where = a /\ S!MoveShutter(a, d).type = "STATUS"
                   /\ S!MoveShutter(a, d).who = 2 /\ S!MoveShutter(a, d).what = d
         /\ \A n : /\ S!SetShutterLevel(a, n).where = a /\ S!SetShutterLevel(a, n).type = "DIMENSION_WRITING"
                   /\ S!SetShutterLevel(a, n).who = 2 /\ S!SetShutterLevel(a, n).val[1] = n
         /\ \A shuts : /\ S!LockFrame(a, shuts).where = a /\ S!LockFrame(a, shuts).type = "STATUS"
                       /\ S!LockFrame(a, shuts).who = 14
                       /\ S!LockFrame(a, shuts).what = IF shuts THEN 0 ELSE 1
BY DEF S!StatusOf, S!GetShutterStatus, S!MoveShutter, S!SetShutterLevel, S!LockFrame, S!Status, S!StatusRequest,
       S!DimensionRequest, S!DimensionWriting, S!Frame

LEMMA ShutterCalls ==
  ASSUME ShutterInv, NEW a \in S!Actuators, S!Ask(a) \/ S!Move(a) \/ S!MoveTo(a)
  PROVE  ShutterInv'
<1>1. CASE S!Ask(a)
  <2>1. PICK f \in {S!StatusOf(a), S!GetShutterStatus(a)} : S!Order(f, a)
    BY <1>1 DEF S!Ask
  <2>2. OrderIs(f) /\ f.where = a
    BY ShutterOrders DEF OrderIs
  <2> QED
    BY <2>1, <2>2, ShutterOrdered
<1>2. CASE S!Move(a)
  <2>1. PICK d \in 0 .. 2 : S!Order(S!MoveShutter(a, d), a)
    BY <1>2 DEF S!Move
  <2> DEFINE f == S!MoveShutter(a, d)
  <2>2. f.where = a /\ S!Order(f, a)
    BY <2>1 DEF S!MoveShutter, S!Status, S!Frame
  <2>3. OrderIs(f)
    BY DEF OrderIs
  <2> HIDE DEF f
  <2> QED
    BY <2>2, <2>3, ShutterOrdered
<1>3. CASE S!MoveTo(a)
  <2>1. PICK n \in 0 .. 100 : a \in Advanced /\ S!Order(S!SetShutterLevel(a, n), a)
    BY <1>3 DEF S!MoveTo, S!IsLevel
  <2> DEFINE f == S!SetShutterLevel(a, n)
  <2>2. S!Order(f, a) /\ f.where = a
    BY <2>1 DEF S!SetShutterLevel, S!DimensionWriting, S!Frame
  <2>3. OrderIs(f)
    BY <2>1 DEF OrderIs
  <2> HIDE DEF f
  <2> QED
    BY <2>2, <2>3, ShutterOrdered
<1> QED
  BY <1>1, <1>2, <1>3

(* The WHERE of a lock names the actuator its caller means. *)
LEMMA LockIsMeant ==
  ASSUME NEW base, NEW written, NEW given,
         S!FormatActuatorWhere([base |-> base, bus |-> written], given) # S!Refused
  PROVE  LET bus == IF written = S!NoBus THEN given ELSE written IN
         S!FormatActuatorWhere([base |-> base, bus |-> written], given)
           = [base |-> base, bus |-> IF bus = S!NoBus THEN bus ELSE <<0, S!NumberOf(bus)>>]
<1>1. CASE written = S!NoBus
  BY <1>1 DEF S!FormatActuatorWhere
<1>2. CASE written # S!NoBus
  BY <1>2 DEF S!FormatActuatorWhere
<1> QED
  BY <1>1, <1>2

LEMMA ShutterLocks ==
  ASSUME ShutterInv, S!Lock
  PROVE  ShutterInv'
<1>1. PICK base \in LockBases, written \in BusSpelled \cup {S!NoBus}, given \in BusSpelled \cup {S!NoBus},
           shuts \in BOOLEAN :
        LET target == S!FormatActuatorWhere([base |-> base, bus |-> written], given)
            bus == IF written = S!NoBus THEN given ELSE written
        IN /\ target # S!Refused
           /\ S!Order(S!LockFrame(target, shuts),
                      [base |-> base, bus |-> IF bus = S!NoBus THEN bus ELSE <<0, S!NumberOf(bus)>>])
  BY DEF S!Lock
<1> DEFINE target == S!FormatActuatorWhere([base |-> base, bus |-> written], given)
           f == S!LockFrame(target, shuts)
<1>2. S!Order(f, target)
  BY <1>1, LockIsMeant
<1> HIDE DEF target
<1>3. f.where = target
  BY ShutterOrders
<1>4. OrderIs(f)
  BY DEF OrderIs
<1> HIDE DEF f
<1> QED
  BY <1>2, <1>3, <1>4, ShutterOrdered

-----------------------------------------------------------------------------
LEMMA TranslationIs ==
  ASSUME NEW f, OrderIs(f), f.where \in S!Actuators
  PROVE  S!Translation(f) = <<>> \/ \E t \in EchoFrames : S!Translation(f) = <<t>>
<1>1. CASE f.type # "STATUS"
  BY <1>1 DEF S!Translation
<1>2. CASE f.type = "STATUS"
  <2> DEFINE t == S!Status(f.who, 1000, <<f.what>>, f.where)
  <2>1. S!Translation(f) = <<t>>
    BY <1>2 DEF S!Translation
  <2>2. f.who \in {2, 14} /\ f.what \in 0 .. 2
    <3>1. CASE \E a, shuts : shuts \in BOOLEAN /\ f = S!LockFrame(a, shuts)
      BY <3>1, ShutterOrders
    <3>2. CASE \E a \in S!Actuators, d \in 0 .. 2 : f = S!MoveShutter(a, d)
      BY <3>2, ShutterOrders
    <3>3. ASSUME NEW a, f = S!StatusOf(a) \/ f = S!GetShutterStatus(a) PROVE FALSE
      BY <1>2, <3>3, ShutterOrders
    <3>4. ASSUME NEW a, NEW n, f = S!SetShutterLevel(a, n) PROVE FALSE
      <4>1. f.type = "DIMENSION_WRITING"
        BY <3>4 DEF S!SetShutterLevel, S!DimensionWriting, S!Frame
      <4> QED
        BY <1>2, <4>1
    <3> QED
      BY <3>1, <3>2, <3>3, <3>4 DEF OrderIs
  <2>3. t \in EchoFrames
    BY <2>2 DEF EchoFrames
  <2> HIDE DEF t
  <2> QED
    BY <2>1, <2>3
<1> QED
  BY <1>1, <1>2

LEMMA AfterIs ==
  ASSUME NEW f, OrderIs(f), f.who = 2, NEW s \in PlantState
  PROVE  S!After(s, f) \in PlantState /\ (f.type = "STATUS_REQUEST" => S!After(s, f) = s)
<1>0. /\ s.dir \in 0 .. 2 /\ s.goal \in 0 .. 100 \cup {S!Null} /\ s.level \in 0 .. 100 /\ s.sure \in BOOLEAN
      /\ s = [dir |-> s.dir, goal |-> s.goal, level |-> s.level, sure |-> s.sure]
  BY DEF PlantState
<1>1. CASE \E a \in S!Actuators, d \in 0 .. 2 : f = S!MoveShutter(a, d)
  <2>1. f.type = "STATUS" /\ f.what \in 0 .. 2
    BY <1>1, ShutterOrders
  <2>2. S!After(s, f) = [s EXCEPT !.dir = f.what, !.goal = S!Null]
    BY <2>1 DEF S!After
  <2>3. S!After(s, f) = [dir |-> f.what, goal |-> S!Null, level |-> s.level, sure |-> s.sure]
    BY <1>0, <2>2
  <2> QED
    BY <1>0, <2>1, <2>3 DEF PlantState
<1>2. CASE f.type # "STATUS" /\ f.type # "DIMENSION_WRITING"
  BY <1>2 DEF S!After
<1>3. CASE \E a, n : n \in 0 .. 100 /\ f = S!SetShutterLevel(a, n)
  <2>1. PICK a, n : n \in 0 .. 100 /\ f = S!SetShutterLevel(a, n)
    BY <1>3
  <2>2. f.type = "DIMENSION_WRITING" /\ f.val = <<n>>
    BY <2>1 DEF S!SetShutterLevel, S!DimensionWriting, S!Frame
  <2> DEFINE d == CASE f.val[1] > s.level -> 1 [] f.val[1] < s.level -> 2 [] OTHER -> 0
  <2>3. f.val[1] = n /\ d \in 0 .. 2
    BY <2>2
  <2>4. CASE s.sure
    <3>1. S!After(s, f) = [s EXCEPT !.goal = f.val[1], !.dir = d]
      BY <2>2, <2>4 DEF S!After
    <3> HIDE DEF d
    <3>2. S!After(s, f) = [dir |-> d, goal |-> n, level |-> s.level, sure |-> s.sure]
      BY <1>0, <2>3, <3>1
    <3> QED
      BY <1>0, <2>1, <2>2, <2>3, <3>2 DEF PlantState
  <2>5. CASE ~s.sure
    BY <2>2, <2>5 DEF S!After
  <2> QED
    BY <2>4, <2>5
<1>4. CASE \E a : f = S!StatusOf(a) \/ f = S!GetShutterStatus(a)
  BY <1>2, <1>4, ShutterOrders
<1>5. ASSUME NEW a, NEW shuts, f = S!LockFrame(a, shuts) PROVE FALSE
  BY <1>5 DEF S!LockFrame, S!Status, S!Frame
<1> QED
  BY <1>1, <1>3, <1>4, <1>5 DEF OrderIs

LEMMA LockOrder ==
  ASSUME NEW a, NEW shuts \in BOOLEAN, NEW f, f = S!LockFrame(a, shuts)
  PROVE  f.where = a /\ (f.what = 0 <=> shuts) /\ f.type = "STATUS" /\ f.who = 14 /\ f.what \in 0 .. 2
BY DEF S!LockFrame, S!Status, S!Frame

LEMMA OrderOfWho ==
  ASSUME NEW f, OrderIs(f)
  PROVE  f.who \in {2, 14} /\ (f.who = 14 => \E a : \E shuts \in BOOLEAN : f = S!LockFrame(a, shuts))
<1>1. CASE \E a, shuts : shuts \in BOOLEAN /\ f = S!LockFrame(a, shuts)
  BY <1>1, LockOrder
<1>2. CASE \E a : f = S!StatusOf(a) \/ f = S!GetShutterStatus(a)
  BY <1>2, ShutterOrders
<1>3. CASE \E a, d : f = S!MoveShutter(a, d)
  BY <1>3, ShutterOrders
<1>4. CASE \E a, n : f = S!SetShutterLevel(a, n)
  BY <1>4 DEF S!SetShutterLevel, S!DimensionWriting, S!Frame
<1> QED
  BY <1>1, <1>2, <1>3, <1>4 DEF OrderIs

(* An actuator is locked or freed, and says so. *)
LEMMA LocksTold ==
  ASSUME ShutterInv, S!ShutterAssumption, NEW a \in S!Actuators, NEW shuts \in BOOLEAN,
         locked' = IF shuts THEN locked \cup {a} ELSE locked \ {a}, UNCHANGED <<plant, known>>, OrdersKept',
         NEW frames, \E t \in EchoFrames : frames = <<t>> \o <<S!LockFrame(a, shuts)>>, S!Send(frames)
  PROVE  ShutterInv'
<1>1. PICK x : ShowsAll(x) /\ Leads(ShutterFollow, ShutterKnown, wire, known, x)
  BY DEF ShutterInv
<1> DEFINE r == S!LockFrame(a, shuts)
           y == S!Follow(x, r)
<1>2. x \in ShutterKnown /\ x.locked = locked /\ \A b \in S!Actuators : Shows(x, b, plant[b])
  BY <1>1 DEF ShowsAll
<1>3. y = LockSeen(x, a, shuts)
  BY <1>2, LockIsSeen
<1>4. y \in ShutterKnown /\ y.locked = locked' /\ y.dir = x.dir /\ y.level = x.level /\ y.shut = x.shut
  BY <1>2, <1>3 DEF LockSeen, ShutterKnown
<1>5. r \in ShutterFrames
  BY DEF ShutterFrames, LockFrames
<1>6. frames = <<r>> \/ \E t \in EchoFrames : frames = <<t>> \o <<r>>
  OBVIOUS
<1> HIDE DEF r
<1>7. wire' \in Seq(ShutterFrames) /\ Len(wire') <= ShutterWire
      /\ Leads(ShutterFollow, ShutterKnown, wire', known', y)
  BY <1>1, <1>2, <1>4, <1>5, <1>6, ShutterSent DEF ShutterInv
<1> HIDE DEF y
<1>8. ShowsAll(y)'
  BY <1>2, <1>4 DEF ShowsAll, Shows, ShownAs
<1> QED
  BY <1>2, <1>4, <1>7, <1>8 DEF ShutterInv, ShutterKnown

(* What the bus does with an order, in the words of Obey. *)
LEMMA ObeyIs ==
  ASSUME S!Obey, NEW f, orders = Ordered(f, f.where)
  PROVE  /\ orders' = <<>> /\ UNCHANGED known
         /\ f.where \notin S!Actuators => UNCHANGED <<plant, locked, wire>>
         /\ f.where \in S!Actuators /\ f.who = 14 =>
              /\ UNCHANGED plant
              /\ \/ /\ locked' = IF f.what = 0 THEN locked \cup {f.where} ELSE locked \ {f.where}
                    /\ S!Send(S!Translation(f) \o <<f>>)
                 \/ UNCHANGED locked /\ S!Send(S!Translation(f))
         /\ f.where \in S!Actuators /\ f.who = 2 =>
              \/ /\ UNCHANGED locked
                 /\ plant' = [plant EXCEPT ![f.where] = S!After(@, f)]
                 /\ \E r \in S!Reports(f.where, plant'[f.where])
                         \cup (IF f.type = "STATUS_REQUEST" THEN {S!MoveShutter(f.where, plant[f.where].dir)}
                              ELSE {}) :
                      S!Send(S!Translation(f) \o <<r>>)
              \/ S!Send(S!Translation(f)) /\ UNCHANGED <<plant, locked>>
<1>1. orders[1].f = f
  BY DEF Ordered
<1> DEFINE a == f.where
           heeded == a \notin locked \/ f.type \in {"STATUS_REQUEST", "DIMENSION_REQUEST"}
           one == UNCHANGED <<plant, locked, wire>>
           two == /\ UNCHANGED plant
                  /\ \/ /\ locked' = IF f.what = 0 THEN locked \cup {a} ELSE locked \ {a}
                        /\ S!Send(S!Translation(f) \o <<f>>)
                     \/ UNCHANGED locked /\ S!Send(S!Translation(f))
           three == /\ UNCHANGED locked
                    /\ plant' = [plant EXCEPT ![a] = S!After(@, f)]
                    /\ \E r \in S!Reports(a, plant'[a])
                            \cup (IF f.type = "STATUS_REQUEST" THEN {S!MoveShutter(a, plant[a].dir)} ELSE {}) :
                         S!Send(S!Translation(f) \o <<r>>)
           four == S!Send(S!Translation(f)) /\ UNCHANGED <<plant, locked>>
<1>2. /\ orders' = <<>> /\ UNCHANGED known
      /\ CASE a \notin S!Actuators -> one
           [] f.who = 14 /\ a \in S!Actuators -> two
           [] f.who = 2 /\ a \in S!Actuators /\ heeded -> three
           [] OTHER -> four
  BY <1>1 DEF S!Obey
<1> HIDE DEF one, two, three, four, heeded
<1>3. a \notin S!Actuators => one
  BY <1>2
<1>4. a \in S!Actuators /\ f.who = 14 => two
  BY <1>2
<1>5. a \in S!Actuators /\ f.who = 2 => three \/ four
  BY <1>2
<1> QED
  BY <1>2, <1>3, <1>4, <1>5 DEF one, two, three, four

LEMMA ShutterObeys ==
  ASSUME ShutterInv, S!ShutterAssumption, S!Obey
  PROVE  ShutterInv'
<1>1. PICK f : OrderIs(f) /\ orders = Ordered(f, f.where)
  BY DEF ShutterInv, OrdersKept, S!Obey
<1> DEFINE a == f.where
<1>2. orders' = <<>> /\ UNCHANGED known /\ OrdersKept'
  BY <1>1, ObeyIs DEF OrdersKept
<1>3. CASE a \notin S!Actuators
  BY <1>1, <1>2, <1>3, ObeyIs, PlantIdle
<1>4. a \in S!Actuators => S!Translation(f) = <<>> \/ \E t \in EchoFrames : S!Translation(f) = <<t>>
  BY <1>1, TranslationIs
<1>5. ASSUME a \in S!Actuators, S!Send(S!Translation(f)), UNCHANGED <<plant, locked>>
      PROVE  ShutterInv'
  <2>1. PICK x : ShowsAll(x) /\ Leads(ShutterFollow, ShutterKnown, wire, known, x)
    BY DEF ShutterInv
  <2>2. wire' \in Seq(ShutterFrames) /\ Len(wire') <= ShutterWire
        /\ Leads(ShutterFollow, ShutterKnown, wire', known', x)
    BY <1>2, <1>4, <1>5, <2>1, EchoSent DEF ShutterInv, ShowsAll
  <2>3. ShowsAll(x)'
    BY <1>5, <2>1 DEF ShowsAll
  <2> QED
    BY <1>2, <1>5, <2>2, <2>3 DEF ShutterInv
<1>6. CASE a \in S!Actuators /\ f.who = 14
  <2>1. PICK b : \E shuts \in BOOLEAN : f = S!LockFrame(b, shuts)
    BY <1>1, <1>6, OrderOfWho
  <2>5. PICK shuts \in BOOLEAN : f = S!LockFrame(b, shuts)
    BY <2>1
  <2>2. b = a /\ (f.what = 0 <=> shuts) /\ f.type = "STATUS" /\ f.who = 14 /\ f.what \in 0 .. 2
    BY <2>5, LockOrder
  <2>3. CASE S!Send(S!Translation(f)) /\ UNCHANGED <<plant, locked>>
    BY <1>5, <1>6, <2>3
  <2>4. CASE /\ locked' = IF f.what = 0 THEN locked \cup {a} ELSE locked \ {a}
             /\ S!Send(S!Translation(f) \o <<f>>) /\ UNCHANGED plant
    <3>1. locked' = IF shuts THEN locked \cup {a} ELSE locked \ {a}
      BY <2>2, <2>4
    <3>2. S!Translation(f) = <<S!Status(14, 1000, <<f.what>>, a)>> /\ S!Status(14, 1000, <<f.what>>, a) \in EchoFrames
      BY <1>6, <2>2 DEF S!Translation, EchoFrames
    <3>3. f = S!LockFrame(a, shuts)
      BY <2>2, <2>5
    <3> DEFINE frames == S!Translation(f) \o <<f>>
    <3>4. \E t \in EchoFrames : frames = <<t>> \o <<S!LockFrame(a, shuts)>>
      BY <3>2, <3>3
    <3>5. S!Send(frames)
      BY <2>4
    <3> HIDE DEF frames
    <3> QED
      BY <1>2, <1>6, <2>4, <3>1, <3>4, <3>5, LocksTold
  <2> QED
    BY <1>1, <1>6, <2>3, <2>4, ObeyIs
<1>7. CASE a \in S!Actuators /\ f.who = 2
  <2>1. CASE S!Send(S!Translation(f)) /\ UNCHANGED <<plant, locked>>
    BY <1>5, <1>7, <2>1
  <2>2. CASE /\ UNCHANGED locked
             /\ plant' = [plant EXCEPT ![a] = S!After(@, f)]
             /\ \E r \in S!Reports(a, plant'[a])
                     \cup (IF f.type = "STATUS_REQUEST" THEN {S!MoveShutter(a, plant[a].dir)} ELSE {}) :
                  S!Send(S!Translation(f) \o <<r>>)
    <3> DEFINE s == S!After(plant[a], f)
    <3>1. plant \in [S!Actuators -> PlantState]
      BY DEF ShutterInv
    <3>2. plant[a] \in PlantState
      BY <1>7, <3>1
    <3>3. s \in PlantState /\ (f.type = "STATUS_REQUEST" => s = plant[a])
      BY <1>1, <1>7, <3>2, AfterIs
    <3>4. plant' = [plant EXCEPT ![a] = s] /\ plant'[a] = s
      BY <1>7, <2>2, <3>1
    <3> HIDE DEF s
    <3>5. PICK r \in S!Reports(a, s)
                     \cup (IF f.type = "STATUS_REQUEST" THEN {S!MoveShutter(a, plant[a].dir)} ELSE {}) :
            S!Send(S!Translation(f) \o <<r>>)
      BY <2>2, <3>4
    <3> DEFINE frames == S!Translation(f) \o <<r>>
    <3>6. frames = <<r>> \/ \E t \in EchoFrames : frames = <<t>> \o <<r>>
      <4>1. CASE S!Translation(f) = <<>>
        BY <4>1
      <4>2. CASE \E t \in EchoFrames : S!Translation(f) = <<t>>
        BY <4>2
      <4> QED
        BY <1>4, <1>7, <4>1, <4>2
    <3>7. S!Send(frames)
      BY <3>5
    <3> HIDE DEF frames
    <3>8. CASE r \in S!Reports(a, s)
      BY <1>2, <1>7, <2>2, <3>3, <3>4, <3>6, <3>7, <3>8, PlantTold
    <3>9. CASE f.type = "STATUS_REQUEST" /\ r = S!MoveShutter(a, plant[a].dir)
      <4>1. UNCHANGED <<plant, locked, known>>
        BY <1>2, <2>2, <3>1, <3>3, <3>4, <3>9
      <4>2. PICK x : ShowsAll(x) /\ Leads(ShutterFollow, ShutterKnown, wire, known, x)
        BY DEF ShutterInv
      <4> DEFINE d == plant[a].dir
      <4>3. d \in 0 .. 2 /\ x \in ShutterKnown /\ x.dir[a] = d
        BY <1>7, <3>2, <4>2 DEF PlantState, ShowsAll, Shows, ShownAs
      <4>4. r = S!MoveShutter(a, d)
        BY <3>9
      <4> HIDE DEF d
      <4>5. S!Follow(x, r) = Seen(x, a, d, x.level[a], x.shut[a])
        BY <1>7, <4>3, <4>4, MoveIsSeen
      <4>6. Seen(x, a, d, x.level[a], x.shut[a]) = x
        BY <1>7, <4>3 DEF Seen, ShutterKnown
      <4>7. r \in ShutterFrames
        BY <1>7, <4>3, <4>4 DEF ShutterFrames, MoveFrames
      <4>8. S!Follow(x, r) = x
        BY <4>5, <4>6
      <4>9. wire' \in Seq(ShutterFrames) /\ Len(wire') <= ShutterWire
            /\ Leads(ShutterFollow, ShutterKnown, wire', known', x)
        BY <3>6, <3>7, <4>1, <4>2, <4>3, <4>7, <4>8, ShutterSent DEF ShutterInv
      <4>10. ShowsAll(x)'
        BY <4>1, <4>2 DEF ShowsAll
      <4> QED
        BY <1>2, <4>1, <4>9, <4>10 DEF ShutterInv
    <3> QED
      BY <3>5, <3>8, <3>9
  <2> QED
    BY <1>1, <1>7, <2>1, <2>2, ObeyIs
<1>8. f.who \in {2, 14}
  BY <1>1, OrderOfWho
<1> QED
  BY <1>3, <1>6, <1>7, <1>8

LEMMA ShutterTravels ==
  ASSUME ShutterInv, S!ShutterAssumption, NEW a \in S!Actuators, S!Travel(a)
  PROVE  ShutterInv'
<1> DEFINE s == plant[a]
           there == IF s.level = 50 THEN (IF s.dir = 1 THEN 100 ELSE 0)
                    ELSE IF a \in Advanced /\ (s.level = 0) = (s.dir = 1) THEN 50 ELSE s.level
           end == there # 50
           stops == end \/ there = s.goal
           d == IF stops THEN 0 ELSE s.dir
           g == IF stops THEN S!Null ELSE s.goal
           u == s.sure \/ end
           t == [dir |-> d, goal |-> g, level |-> there, sure |-> u]
<1>1. plant \in [S!Actuators -> PlantState] /\ OrdersKept
  BY DEF ShutterInv
<1>2. s.dir \in 0 .. 2 /\ s.goal \in 0 .. 100 \cup {S!Null} /\ s.level \in 0 .. 100 /\ s.sure \in BOOLEAN
  BY <1>1 DEF PlantState
<1>3. s.dir # 0 /\ UNCHANGED <<locked, orders, known>> /\ plant' = [plant EXCEPT ![a] = t]
  BY DEF S!Travel
<1>4. IF plant'[a].dir = 0 THEN \E r \in S!Reports(a, plant'[a]) : S!Send(<<r>>) ELSE UNCHANGED wire
  BY DEF S!Travel
<1> HIDE DEF s
<1>5. there \in 0 .. 100
  BY <1>2
<1>6. u \in BOOLEAN
  OBVIOUS
<1> HIDE DEF there
<1>7. d \in 0 .. 2 /\ g \in 0 .. 100 \cup {S!Null} /\ (d = 0 \/ d = s.dir)
  BY <1>2
<1> HIDE DEF d, g, u
<1>8. t \in PlantState /\ t.dir = d
  BY <1>5, <1>6, <1>7 DEF PlantState
<1>9. plant'[a] = t
  BY <1>1, <1>3
<1> HIDE DEF t
<1>10. OrdersKept'
  BY <1>1, <1>3 DEF OrdersKept
<1>11. CASE d = 0
  <2>1. PICK r \in S!Reports(a, t) : S!Send(<<r>>)
    BY <1>4, <1>8, <1>9, <1>11
  <2> DEFINE frames == <<r>>
  <2>2. frames = <<r>> \/ \E e \in EchoFrames : frames = <<e>> \o <<r>>
    OBVIOUS
  <2>3. S!Send(frames)
    BY <2>1
  <2> HIDE DEF frames
  <2> QED
    BY <1>3, <1>8, <1>10, <2>2, <2>3, PlantTold
<1>12. CASE d # 0
  <2>1. UNCHANGED wire
    BY <1>4, <1>8, <1>9, <1>12
  <2> QED
    BY <1>3, <1>7, <1>8, <1>10, <1>12, <2>1, PlantQuiet DEF s
<1> QED
  BY <1>11, <1>12

LEMMA PowerIsBack ==
  ASSUME ShutterInv, S!ShutterAssumption, NEW a \in S!Actuators, S!PowerBack(a)
  PROVE  ShutterInv'
<1> DEFINE no == FALSE
           t == [dir |-> 0, goal |-> S!Null, level |-> plant[a].level, sure |-> no]
<1>1. plant \in [S!Actuators -> PlantState] /\ OrdersKept
  BY DEF ShutterInv
<1>2. /\ UNCHANGED <<locked, orders, known>> /\ plant' = [plant EXCEPT ![a] = t]
      /\ \E r \in S!Reports(a, plant'[a]) : S!Send(<<r>>)
  BY DEF S!PowerBack
<1>3. no \in BOOLEAN
  OBVIOUS
<1> HIDE DEF no
<1>4. t \in PlantState
  BY <1>1, <1>3 DEF PlantState
<1>5. plant'[a] = t
  BY <1>1, <1>2
<1> HIDE DEF t
<1>6. OrdersKept'
  BY <1>1, <1>2 DEF OrdersKept
<1>7. PICK r \in S!Reports(a, t) : S!Send(<<r>>)
  BY <1>2, <1>5
<1> DEFINE frames == <<r>>
<1>8. frames = <<r>> \/ \E e \in EchoFrames : frames = <<e>> \o <<r>>
  OBVIOUS
<1>9. S!Send(frames)
  BY <1>7
<1> HIDE DEF frames
<1> QED
  BY <1>2, <1>4, <1>6, <1>8, <1>9, PlantTold

(* What each event leads to is something the consumer may know. *)
LEMMA ShutterTakeKept ==
  ASSUME ShutterInv, S!ShutterAssumption, S!Take
  PROVE  ShutterInv'
<1> DEFINE f == Head(wire)
<1>1. wire # <<>> /\ wire' = Tail(wire) /\ UNCHANGED <<plant, locked, orders>> /\ known' = S!Follow(known, f)
  BY DEF S!Take
<1>2. PICK x : ShowsAll(x) /\ Leads(ShutterFollow, ShutterKnown, wire, known, x)
  BY DEF ShutterInv
<1>3. wire \in Seq(ShutterFrames) /\ Len(wire) <= ShutterWire /\ OrdersKept
  BY DEF ShutterInv
<1>4. known \in ShutterKnown
  BY <1>2, <1>3, LeadsEnds
<1>5. /\ f \in ShutterFrames /\ Tail(wire) \in Seq(ShutterFrames)
      /\ Leads(ShutterFollow, ShutterKnown, Tail(wire), ShutterFollow[<<known, f>>], x)
  BY <1>1, <1>2, <1>3, LeadsFrom
<1>6. ShutterFollow[<<known, f>>] = known'
  BY <1>1, <1>4, <1>5 DEF ShutterFollow
<1>7. Len(wire') <= ShutterWire
  BY <1>1, <1>3 DEF S!ShutterAssumption
<1>8. ShowsAll(x)' /\ OrdersKept'
  BY <1>1, <1>2, <1>3 DEF ShowsAll, OrdersKept
<1> QED
  BY <1>1, <1>5, <1>6, <1>7, <1>8 DEF ShutterInv

LEMMA ShutterStep ==
  ASSUME ShutterInv, S!ShutterAssumption, S!Next
  PROVE  ShutterInv'
BY ShutterCalls, ShutterTravels, PowerIsBack, ShutterLocks, ShutterObeys, ShutterTakeKept DEF S!Next

LEMMA ShutterStart ==
  ASSUME S!Init, S!ShutterAssumption
  PROVE  ShutterInv
<1> DEFINE yes == TRUE
           s == [dir |-> 0, goal |-> S!Null, level |-> 0, sure |-> yes]
<1>0. yes \in BOOLEAN /\ yes
  OBVIOUS
<1>1. /\ plant = [a \in S!Actuators |-> s] /\ locked = {} /\ orders = <<>> /\ wire = <<>>
      /\ known = [dir |-> [a \in S!Actuators |-> 0], locked |-> {},
                  level |-> [a \in S!Actuators |-> IF a \in Basic THEN S!Null ELSE 0],
                  shut |-> [a \in S!Actuators |-> IF a \in Basic THEN "none" ELSE "closed"]]
  BY DEF S!Init
<1> HIDE DEF yes
<1>2. s \in PlantState /\ s.dir = 0 /\ SureLevel(s) = 0
  BY <1>0 DEF PlantState, SureLevel
<1> HIDE DEF s
<1>3. known \in ShutterKnown
  BY <1>1 DEF ShutterKnown, KnownLevels, Shuts
<1>4. known.locked = locked
  BY <1>1
<1>5. ASSUME NEW a \in S!Actuators PROVE Shows(known, a, plant[a])
  <2>1. plant[a] = s /\ known.dir[a] = 0 /\ known.level[a] = (IF a \in Basic THEN S!Null ELSE 0)
        /\ known.shut[a] = (IF a \in Basic THEN "none" ELSE "closed")
    BY <1>1
  <2>2. ShutOf(10, 0) = "closed" /\ (a \in Advanced => a \notin Basic)
    BY DEF ShutOf, S!ShutterAssumption
  <2> QED
    BY <1>2, <2>1, <2>2 DEF Shows, ShownAs
<1>6. ShowsAll(known)
  BY <1>3, <1>4, <1>5 DEF ShowsAll
<1>7. wire \in Seq(ShutterFrames) /\ Len(wire) = 0
  BY <1>1
<1>8. Leads(ShutterFollow, ShutterKnown, wire, known, known)
  BY <1>3, <1>7, LeadsNowhere
<1>9. plant \in [S!Actuators -> PlantState] /\ locked \subseteq S!Actuators /\ OrdersKept
  BY <1>1, <1>2 DEF OrdersKept
<1> QED
  BY <1>6, <1>7, <1>8, <1>9 DEF ShutterInv, S!ShutterAssumption

LEMMA ShutterKnows ==
  ASSUME ShutterInv, S!ShutterAssumption
  PROVE  S!TypeOK /\ S!ShutterKnown /\ S!LocksKnown /\ S!LockReaches
<1>1. PICK x : ShowsAll(x) /\ Leads(ShutterFollow, ShutterKnown, wire, known, x)
  BY DEF ShutterInv
<1>2. known \in ShutterKnown /\ (Len(wire) = 0 => known = x)
  BY <1>1, LeadsEnds DEF ShutterInv
<1>3. wire = <<>> => known = x
  BY <1>2
<1>4. plant \in [S!Actuators -> PlantState]
  BY DEF ShutterInv
<1>5. ASSUME NEW a \in S!Actuators
      PROVE  plant[a].goal \in 0 .. 100 \cup {S!Null} /\ known.level[a] \in 0 .. 100 \cup {S!Null}
             /\ plant[a].level \in 0 .. 100 /\ plant[a].sure \in BOOLEAN
  BY <1>2, <1>4 DEF PlantState, ShutterKnown, KnownLevels
<1>6. orders = <<>> \/ \E f : orders = Ordered(f, f.where)
  BY DEF ShutterInv, OrdersKept
<1>7. Len(orders) <= 1 /\ S!LockReaches
  <2>1. CASE orders = <<>>
    BY <2>1 DEF S!LockReaches
  <2>2. CASE \E f : orders = Ordered(f, f.where)
    BY <2>2 DEF S!LockReaches, Ordered
  <2> QED
    BY <1>6, <2>1, <2>2
<1>8. S!TypeOK
  BY <1>5, <1>7 DEF S!TypeOK, ShutterInv
<1>9. S!LocksKnown
  BY <1>1, <1>3 DEF S!LocksKnown, ShowsAll
<1>10. ASSUME wire = <<>>, NEW a \in S!Actuators
       PROVE  LET s == plant[a] IN
              /\ known.dir[a] = s.dir
              /\ a \in Basic => known.level[a] = S!Null /\ known.shut[a] = "none"
              /\ a \in Advanced /\ s.dir = 0 =>
                   /\ known.level[a] = (IF s.sure THEN s.level ELSE S!Null)
                   /\ known.shut[a] = (CASE ~s.sure -> "none" [] s.sure /\ s.level = 0 -> "closed"
                                         [] OTHER -> "open")
              /\ a \in Advanced /\ s.dir # 0 => known.shut[a] = "open"
  <2> DEFINE s == plant[a]
             n == SureLevel(s)
  <2>1. ShownAs(known, a, s.dir, n)
    BY <1>1, <1>3, <1>10 DEF ShowsAll, Shows
  <2>2. n = (IF s.sure THEN s.level ELSE S!Null)
    BY DEF SureLevel
  <2>3. s.level \in 0 .. 100 /\ s.sure \in BOOLEAN
    BY <1>5
  <2> HIDE DEF s
  <2>4. ShutOf(10, n) = (CASE ~s.sure -> "none" [] s.sure /\ s.level = 0 -> "closed" [] OTHER -> "open")
    <3>1. CASE s.sure
      BY <2>2, <2>3, <3>1 DEF ShutOf
    <3>2. CASE ~s.sure
      BY <2>2, <2>3, <3>2 DEF ShutOf, S!Null
    <3> QED
      BY <3>1, <3>2
  <2> HIDE DEF n
  <2> QED
    BY <2>1, <2>2, <2>4 DEF ShownAs, s
<1>11. S!ShutterKnown
  BY <1>10 DEF S!ShutterKnown
<1> QED
  BY <1>7, <1>8, <1>9, <1>11

(****************************** the devices *******************************)

Addresses == {G!AddressOf(d) : d \in Devices}
Pars == {G!Null} \cup 1 .. 99

(* What the devices of each kind are numbered with.                        *)
LEMMA DevicesAre ==
  ASSUME NEW d \in Devices, G!DiagnosticsAssumption
  PROVE  /\ d = [kind |-> d.kind, n |-> d.n, zone |-> d.zone, unit |-> d.unit]
         /\ \/ d.kind = "central" /\ d.n = G!Null /\ d.zone = G!Null /\ d.unit \in Pars
            \/ d.kind = "zone" /\ d.n = G!Null /\ d.zone \in 1 .. 99 /\ d.unit \in Pars
            \/ d.kind = "probe" /\ d.n = G!Null /\ d.zone \in 1 .. 99 /\ d.unit = G!Null
            \/ d.kind = "slave_probe" /\ d.n \in 1 .. 8 /\ d.zone \in 1 .. 99 /\ d.unit = G!Null
            \/ d.kind = "external_probe" /\ d.n \in 1 .. 9 /\ d.zone = G!Null /\ d.unit = G!Null
            \/ d.kind = "actuator" /\ d.n \in 1 .. 9 /\ d.zone \in 1 .. 99 /\ d.unit = G!Null
<1> DEFINE Numbered(kind, n, zone, unit) == [kind : {kind}, n : n, zone : zone, unit : unit]
<1>1. \/ d \in Numbered("central", {G!Null}, {G!Null}, Pars) \/ d \in Numbered("zone", {G!Null}, 1 .. 99, Pars)
      \/ d \in Numbered("probe", {G!Null}, 1 .. 99, {G!Null})
      \/ d \in Numbered("slave_probe", 1 .. 8, 1 .. 99, {G!Null})
      \/ d \in Numbered("external_probe", 1 .. 9, {G!Null}, {G!Null})
      \/ d \in Numbered("actuator", 1 .. 9, 1 .. 99, {G!Null})
  BY DEF G!DiagnosticsAssumption, Pars
<1> QED
  BY <1>1

LEMMA Digits ==
  ASSUME NEW z \in 0 .. 99
  PROVE  z = 10 * (z \div 10) + (z % 10) /\ (z >= 10 => z \div 10 >= 1) /\ z \div 10 \in Int /\ z % 10 \in 0 .. 9
OBVIOUS

LEMMA TwoDigits ==
  ASSUME NEW z \in 1 .. 99
  PROVE  /\ G!Zone(G!DigitsOf(z)) /\ G!Number(G!DigitsOf(z)) = z
         /\ G!DigitsOf(z) # <<0>> /\ Len(G!DigitsOf(z)) \in {1, 2}
<1>1. CASE z < 10
  <2> DEFINE w == <<z>>
  <2>1. G!DigitsOf(z) = w
    BY <1>1 DEF G!DigitsOf
  <2>2. Len(w) = 1 /\ w[1] = z /\ w # <<0>>
    OBVIOUS
  <2> HIDE DEF w
  <2> QED
    BY <2>1, <2>2 DEF G!Zone, G!Number
<1>2. CASE z >= 10
  <2> DEFINE w == <<z \div 10, z % 10>>
  <2>1. G!DigitsOf(z) = w
    BY <1>2 DEF G!DigitsOf
  <2>2. Len(w) = 2 /\ w[1] = z \div 10 /\ w[2] = z % 10 /\ w # <<0>>
    OBVIOUS
  <2> HIDE DEF w
  <2>3. 10 * (z \div 10) + (z % 10) = z /\ z \div 10 # 0
    BY <1>2, Digits
  <2> QED
    BY <2>1, <2>2, <2>3 DEF G!Zone, G!Number
<1> QED
  BY <1>1, <1>2

Hundreds(n, z) == 100 * n + z
OfThree(digits) == Len(digits) = 3

LEMMA ThreeDigits ==
  ASSUME NEW n \in 1 .. 9, NEW z \in 0 .. 99, NEW digits, digits = G!DigitsOf(Hundreds(n, z))
  PROVE  /\ OfThree(digits) /\ digits[1] = n /\ G!Number(Tail(digits)) = z
         /\ (Tail(digits) = <<0, 0>> <=> z = 0)
<1> DEFINE m == 100 * n + z
           w == <<m \div 100, (m \div 10) % 10, m % 10>>
           t == <<(m \div 10) % 10, m % 10>>
<1>1. G!DigitsOf(m) = w
  BY DEF G!DigitsOf
<1>2. m \div 100 = n
  OBVIOUS
<1>3. m \div 10 = 10 * n + z \div 10 /\ m % 10 = z % 10
  OBVIOUS
<1>4. (10 * n + z \div 10) % 10 = z \div 10
  OBVIOUS
<1>5. Len(w) = 3 /\ w[1] = n /\ Tail(w) = t
  BY <1>2
<1>6. t = <<z \div 10, z % 10>>
  BY <1>3, <1>4
<1>7. Len(t) = 2 /\ t[1] = z \div 10 /\ t[2] = z % 10
  BY <1>6
<1>8. 10 * (z \div 10) + (z % 10) = z
  BY Digits
<1>9. G!Number(t) = z
  BY <1>7, <1>8 DEF G!Number
<1>10. t = <<0, 0>> <=> z = 0
  BY <1>6, <1>8
<1> HIDE DEF w, t
<1> QED
  BY <1>1, <1>5, <1>7, <1>9, <1>10 DEF m, Hundreds, OfThree

(* What the address of a device is, kind by kind.                          *)
LEMMA AddressesAre ==
  ASSUME NEW d \in Devices, G!DiagnosticsAssumption, NEW w, w = G!AddressOf(d)
  PROVE  /\ d.kind = "central" => w.hash = TRUE /\ w.digits = <<0>> /\ w.par = d.unit /\ d.unit \in Pars
         /\ d.kind = "zone" => /\ w.hash = TRUE /\ G!Zone(w.digits) /\ w.digits # <<0>>
                               /\ G!Number(w.digits) = d.zone /\ w.par = d.unit /\ d.unit \in Pars
         /\ d.kind = "probe" => /\ w.hash = FALSE /\ G!Zone(w.digits) /\ G!Number(w.digits) = d.zone
                                /\ w.par = G!Null
         /\ d.kind = "slave_probe" =>
              /\ w.hash = FALSE /\ w.par = G!Null /\ Len(w.digits) = 3 /\ w.digits[1] = d.n /\ d.n \in 1 .. 8
              /\ Tail(w.digits) # <<0, 0>> /\ G!Number(Tail(w.digits)) = d.zone
         /\ d.kind = "external_probe" =>
              /\ w.hash = FALSE /\ w.par = G!Null /\ Len(w.digits) = 3 /\ w.digits[1] = d.n /\ d.n \in 1 .. 9
              /\ Tail(w.digits) = <<0, 0>>
         /\ d.kind = "actuator" => /\ w.hash = FALSE /\ G!Zone(w.digits) /\ G!Number(w.digits) = d.zone
                                   /\ w.par = d.n /\ d.n \in 1 .. 9
<1>1. CASE d.kind = "central"
  BY <1>1, DevicesAre DEF G!AddressOf, G!Address
<1>2. CASE d.kind = "zone"
  <2>1. d.zone \in 1 .. 99 /\ d.unit \in Pars
    BY <1>2, DevicesAre
  <2>2. w = G!Address(TRUE, G!DigitsOf(d.zone), d.unit)
    BY <1>2 DEF G!AddressOf
  <2>3. w.hash = TRUE /\ w.digits = G!DigitsOf(d.zone) /\ w.par = d.unit
    BY <2>2 DEF G!Address
  <2> QED
    BY <1>2, <2>1, <2>3, TwoDigits
<1>3. CASE d.kind = "probe"
  <2>1. d.zone \in 1 .. 99
    BY <1>3, DevicesAre
  <2>2. w = G!Address(FALSE, G!DigitsOf(d.zone), G!Null)
    BY <1>3 DEF G!AddressOf
  <2>3. w.hash = FALSE /\ w.digits = G!DigitsOf(d.zone) /\ w.par = G!Null
    BY <2>2 DEF G!Address
  <2> QED
    BY <1>3, <2>1, <2>3, TwoDigits
<1>4. CASE d.kind = "slave_probe"
  <2>1. d.zone \in 0 .. 99 /\ d.n \in 1 .. 9 /\ d.n \in 1 .. 8 /\ d.zone # 0
    BY <1>4, DevicesAre
  <2>2. w = G!Address(FALSE, G!DigitsOf(100 * d.n + d.zone), G!Null)
    BY <1>4 DEF G!AddressOf
  <2>3. w.hash = FALSE /\ w.digits = G!DigitsOf(100 * d.n + d.zone) /\ w.par = G!Null
    BY <2>2 DEF G!Address
  <2> QED
    <3> DEFINE digits == w.digits
    <3>1. PICK n \in 1 .. 9, z \in 0 .. 99 : n = d.n /\ z = d.zone
      BY <2>1
    <3>2. digits = G!DigitsOf(Hundreds(n, z))
      BY <2>3, <3>1 DEF Hundreds
    <3> HIDE DEF digits
    <3>8. OfThree(digits)
      BY <3>2, ThreeDigits
    <3>4. Len(digits) = 3
      BY <3>8 DEF OfThree
    <3>7. digits[1] = n
      BY <3>2, ThreeDigits
    <3>5. G!Number(Tail(digits)) = z
      BY <3>2, ThreeDigits
    <3>6. Tail(digits) = <<0, 0>> <=> z = 0
      BY <3>2, ThreeDigits
    <3>3. /\ Len(digits) = 3 /\ digits[1] = n /\ G!Number(Tail(digits)) = z
          /\ (Tail(digits) = <<0, 0>> <=> z = 0)
      BY <3>4, <3>5, <3>6, <3>7
    <3> QED
      BY <1>4, <2>1, <2>3, <3>1, <3>3 DEF digits
<1>5. CASE d.kind = "external_probe"
  <2>1. 0 \in 0 .. 99 /\ d.n \in 1 .. 9
    BY <1>5, DevicesAre
  <2>2. w = G!Address(FALSE, G!DigitsOf(100 * d.n), G!Null)
    BY <1>5 DEF G!AddressOf
  <2>3. 100 * d.n = 100 * d.n + 0
    BY <2>1
  <2>4. w.hash = FALSE /\ w.digits = G!DigitsOf(100 * d.n + 0) /\ w.par = G!Null
    BY <2>2, <2>3 DEF G!Address
  <2> QED
    <3> DEFINE digits == w.digits
    <3>1. digits = G!DigitsOf(Hundreds(d.n, 0))
      BY <2>4 DEF Hundreds
    <3> HIDE DEF digits
    <3>3. OfThree(digits) /\ digits[1] = d.n /\ Tail(digits) = <<0, 0>>
      BY <2>1, <3>1, ThreeDigits
    <3>2. Len(digits) = 3 /\ digits[1] = d.n /\ Tail(digits) = <<0, 0>>
      BY <3>3 DEF OfThree
    <3> QED
      BY <1>5, <2>1, <2>4, <3>2 DEF digits
<1>6. CASE d.kind = "actuator"
  <2>1. d.zone \in 1 .. 99 /\ d.n \in 1 .. 9
    BY <1>6, DevicesAre
  <2>2. w = G!Address(FALSE, G!DigitsOf(d.zone), d.n)
    BY <1>6 DEF G!AddressOf
  <2>3. w.hash = FALSE /\ w.digits = G!DigitsOf(d.zone) /\ w.par = d.n
    BY <2>2 DEF G!Address
  <2> QED
    BY <1>6, <2>1, <2>3, TwoDigits
<1> QED
  BY <1>1, <1>2, <1>3, <1>4, <1>5, <1>6, DevicesAre

LEMMA ZoneLen == ASSUME NEW w, G!Zone(w) PROVE Len(w) # 3 /\ w # <<0>>
<1>1. <<0>>[1] = 0
  OBVIOUS
<1> QED
  BY <1>1 DEF G!Zone

(* The decoder reads the address as the device it is of.                   *)
LEMMA ScopeIs ==
  ASSUME NEW d \in Devices, G!DiagnosticsAssumption
  PROVE  LET s == G!Scope(G!AddressOf(d)) IN
         /\ s.scope = d.kind
         /\ d.kind \notin {"central", "external_probe"} => s.zone = d.zone
         /\ d.kind \in {"slave_probe", "actuator"} => s.n = d.n
<1> DEFINE w == G!AddressOf(d)
           s == G!Scope(w)
<1>1. G!Null \notin 1 .. 9 /\ G!Null \notin 1 .. 99
  BY DEF G!Null
<1>2. ASSUME NEW v PROVE G!Zone(v) => Len(v) # 3 /\ v # <<0>>
  BY ZoneLen
<1> HIDE DEF w
<1>3. CASE d.kind = "central"
  <2>1. G!IsCentral(w)
    BY <1>3, AddressesAre DEF G!IsCentral, w, Pars
  <2>2. ~G!IsCentralZone(w) /\ ~G!IsActuator(w) /\ ~G!IsExternal(w) /\ ~G!IsSlave(w) /\ ~G!IsProbe(w)
    BY <1>2, <2>1 DEF G!IsCentral, G!IsCentralZone, G!IsActuator, G!IsExternal, G!IsSlave, G!IsProbe
  <2>3. s = G!Told("central", G!Null, G!Null)
    BY <2>1, <2>2 DEF G!Scope
  <2> QED
    BY <1>3, <2>3 DEF w, G!Told
<1>4. CASE d.kind = "zone"
  <2>0. /\ w.hash = TRUE /\ G!Zone(w.digits) /\ w.digits # <<0>> /\ G!Number(w.digits) = d.zone
        /\ w.par = d.unit /\ d.unit \in Pars
    BY <1>4, AddressesAre DEF w
  <2>1. G!IsCentralZone(w)
    BY <2>0 DEF G!IsCentralZone, Pars
  <2>2. ~G!IsCentral(w) /\ ~G!IsActuator(w) /\ ~G!IsExternal(w) /\ ~G!IsSlave(w) /\ ~G!IsProbe(w)
    BY <2>0 DEF G!IsCentral, G!IsActuator, G!IsExternal, G!IsSlave, G!IsProbe
  <2>3. s = G!Told("zone", G!Number(w.digits), G!Null)
    BY <2>1, <2>2 DEF G!Scope
  <2> QED
    BY <1>4, <2>0, <2>3 DEF w, G!Told
<1>5. CASE d.kind = "probe"
  <2>0. w.hash = FALSE /\ G!Zone(w.digits) /\ G!Number(w.digits) = d.zone /\ w.par = G!Null
    BY <1>5, AddressesAre DEF w
  <2>1. G!IsProbe(w)
    BY <2>0 DEF G!IsProbe
  <2>2. ~G!IsCentral(w) /\ ~G!IsCentralZone(w) /\ ~G!IsActuator(w) /\ ~G!IsExternal(w) /\ ~G!IsSlave(w)
    BY <1>1, <1>2, <2>0 DEF G!IsCentral, G!IsCentralZone, G!IsActuator, G!IsExternal, G!IsSlave, G!External, G!Slave
  <2>3. s = G!Told("probe", G!Number(w.digits), G!Null)
    BY <2>1, <2>2 DEF G!Scope
  <2> QED
    BY <1>5, <2>0, <2>3 DEF w, G!Told
<1>6. CASE d.kind = "slave_probe"
  <2>0. /\ w.hash = FALSE /\ w.par = G!Null /\ Len(w.digits) = 3 /\ w.digits[1] = d.n /\ d.n \in 1 .. 8
        /\ Tail(w.digits) # <<0, 0>> /\ G!Number(Tail(w.digits)) = d.zone
    BY <1>6, AddressesAre DEF w
  <2>1. G!IsSlave(w)
    BY <2>0 DEF G!IsSlave, G!Slave
  <2>2. ~G!IsCentral(w) /\ ~G!IsCentralZone(w) /\ ~G!IsActuator(w) /\ ~G!IsExternal(w) /\ ~G!IsProbe(w)
    BY <1>2, <2>0 DEF G!IsCentral, G!IsCentralZone, G!IsActuator, G!IsExternal, G!IsProbe, G!External
  <2>3. s = G!Told("slave_probe", G!Number(Tail(w.digits)), w.digits[1])
    BY <2>1, <2>2 DEF G!Scope
  <2> QED
    BY <1>6, <2>0, <2>3 DEF w, G!Told
<1>7. CASE d.kind = "external_probe"
  <2>0. /\ w.hash = FALSE /\ w.par = G!Null /\ Len(w.digits) = 3 /\ w.digits[1] = d.n /\ d.n \in 1 .. 9
        /\ Tail(w.digits) = <<0, 0>>
    BY <1>7, AddressesAre DEF w
  <2>1. G!IsExternal(w)
    BY <2>0 DEF G!IsExternal, G!External
  <2>2. ~G!IsCentral(w) /\ ~G!IsCentralZone(w) /\ ~G!IsActuator(w) /\ ~G!IsSlave(w) /\ ~G!IsProbe(w)
    BY <1>2, <2>0 DEF G!IsCentral, G!IsCentralZone, G!IsActuator, G!IsSlave, G!IsProbe, G!Slave
  <2>3. s = G!Told("external_probe", G!Null, G!Null)
    BY <2>1, <2>2 DEF G!Scope
  <2> QED
    BY <1>7, <2>3 DEF w, G!Told
<1>8. CASE d.kind = "actuator"
  <2>0. /\ w.hash = FALSE /\ G!Zone(w.digits) /\ G!Number(w.digits) = d.zone
        /\ w.par = d.n /\ d.n \in 1 .. 9
    BY <1>8, AddressesAre DEF w
  <2>1. G!IsActuator(w)
    BY <2>0 DEF G!IsActuator
  <2>2. ~G!IsCentral(w) /\ ~G!IsCentralZone(w) /\ ~G!IsExternal(w) /\ ~G!IsSlave(w) /\ ~G!IsProbe(w)
    BY <1>1, <2>0 DEF G!IsCentral, G!IsCentralZone, G!IsExternal, G!IsSlave, G!IsProbe
  <2>3. s = G!Told("actuator", G!Number(w.digits), w.par)
    BY <2>1, <2>2 DEF G!Scope
  <2> QED
    BY <1>8, <2>0, <2>3 DEF w, G!Told
<1> QED
  BY <1>3, <1>4, <1>5, <1>6, <1>7, <1>8, DevicesAre

(* No two devices have one address. *)
LEMMA AddressIsOwn ==
  ASSUME NEW d \in Devices, NEW e \in Devices, G!AddressOf(d) = G!AddressOf(e), G!DiagnosticsAssumption
  PROVE  d = e
<1> DEFINE w == G!AddressOf(d)
           s == G!Scope(w)
<1>1. s.scope = d.kind /\ s.scope = e.kind
  BY ScopeIs
<1>2. d.kind \notin {"central", "external_probe"} => s.zone = d.zone /\ s.zone = e.zone
  BY <1>1, ScopeIs
<1>3. d.kind \in {"slave_probe", "actuator"} => s.n = d.n /\ s.n = e.n
  BY <1>1, ScopeIs
<1>0. w = G!AddressOf(d) /\ w = G!AddressOf(e)
  OBVIOUS
<1> HIDE DEF w, s
<1>4. d.kind \in {"central", "zone"} => d.unit = w.par
  BY <1>0, AddressesAre
<1>5. e.kind \in {"central", "zone"} => e.unit = w.par
  BY <1>0, AddressesAre
<1>6. d.kind = "external_probe" => d.n = w.digits[1]
  BY <1>0, AddressesAre
<1>7. e.kind = "external_probe" => e.n = w.digits[1]
  BY <1>0, AddressesAre
<1>8. d.kind = e.kind
  BY <1>1
<1>9. d.n = e.n
  BY <1>3, <1>6, <1>7, <1>8, DevicesAre
<1>10. d.zone = e.zone
  BY <1>2, <1>8, DevicesAre
<1>11. d.unit = e.unit
  BY <1>4, <1>5, <1>8, DevicesAre
<1>12. d = [kind |-> d.kind, n |-> d.n, zone |-> d.zone, unit |-> d.unit]
       /\ e = [kind |-> e.kind, n |-> e.n, zone |-> e.zone, unit |-> e.unit]
  BY DevicesAre
<1> QED
  BY <1>8, <1>9, <1>10, <1>11, <1>12

-----------------------------------------------------------------------------
(* The events: a mask of a zone or of another device, one that is damaged,  *)
(* and the counts.                                                          *)
Zones == {d \in Devices : d.kind = "zone"}
Others == {d \in Devices : d.kind # "zone"}
Centrals == {d \in Devices : d.kind = "central"}
DamagedMasks == {<<[len |-> 8, zeros |-> Faults]>>}
                \cup {<<m, m>> : m \in {[len |-> 16, zeros |-> Faults], [len |-> 24, zeros |-> Faults]}}
MaskEvent(d, dim, zeros, asked) == G!Reply(d, dim, <<G!MaskOf(d, zeros)>>, asked)
DamagedEvent(d, dim, val) == G!Reply(d, dim, val, FALSE)
CountEvent(d, bad) == G!Reply(d, 23, <<0, G!Cardinality(bad)>>, TRUE)
ZoneMasks == {MaskEvent(d, dim, zeros, asked) : d \in Zones, dim \in {21, 22}, zeros \in SUBSET Faults, asked \in Flags}
OtherMasks == {MaskEvent(d, dim, zeros, asked) : d \in Others, dim \in {7, 11}, zeros \in SUBSET Faults, asked \in Flags}
DamagedEvents == {DamagedEvent(d, dim, val) : d \in Devices, dim \in {11, 22}, val \in DamagedMasks}
CountEvents == {CountEvent(d, bad) : d \in Centrals, bad \in SUBSET Devices}
DeviceEvents == ZoneMasks \cup OtherMasks \cup DamagedEvents \cup CountEvents
DeviceKnown == [Addresses -> SUBSET Faults]
DeviceFollow == [x \in DeviceKnown \X DeviceEvents |-> G!Follow(x[1], x[2].f)]

LEMMA ReplyIs ==
  ASSUME NEW d, NEW dim, NEW val, NEW asked, NEW e, e = G!Reply(d, dim, val, asked)
  PROVE  /\ e.from = d /\ e.asked = asked /\ e.f.where = G!AddressOf(d) /\ e.f.dim = dim /\ e.f.val = val
BY DEF G!Reply, G!DimensionReply, G!Frame

LEMMA DamagedEventIs ==
  ASSUME NEW d, NEW dim, NEW val, NEW e, e = DamagedEvent(d, dim, val)
  PROVE  e.from = d /\ e.f.where = G!AddressOf(d) /\ e.f.val = val
BY DEF DamagedEvent, G!Reply, G!DimensionReply, G!Frame

LEMMA CountEventIs ==
  ASSUME NEW d, NEW bad, NEW e, e = CountEvent(d, bad)
  PROVE  e.from = d /\ e.f.where = G!AddressOf(d) /\ e.f.dim = 23 /\ e.f.val = <<0, G!Cardinality(bad)>>
BY DEF CountEvent, G!Reply, G!DimensionReply, G!Frame

(* The decoder reads the mask of a device, whole.                          *)
LEMMA MaskIsRead ==
  ASSUME NEW d \in Devices, NEW zeros, NEW f, f.where = G!AddressOf(d), f.val = <<G!MaskOf(d, zeros)>>,
         (d.kind = "zone" /\ f.dim \in {21, 22}) \/ (d.kind # "zone" /\ f.dim \in {7, 11}),
         G!DiagnosticsAssumption
  PROVE  /\ G!DiagnosticMask(f) # G!None /\ G!DiagnosticMask(f).zeros = zeros
<1> DEFINE m == G!MaskOf(d, zeros)
           v == <<m>>
<1>1. m.len = (IF d.kind = "zone" THEN 16 ELSE 24) /\ m.zeros = zeros
  BY DEF G!MaskOf
<1>2. m # G!None
  BY <1>1 DEF G!None, G!Null
<1>3. G!Scope(f.where).scope = d.kind /\ d.kind # "none"
  BY ScopeIs, DevicesAre
<1>4. G!MaskLength(f) = m.len /\ m.len # G!Null
  <2>1. CASE d.kind = "zone"
    BY <1>1, <1>3, <2>1 DEF G!MaskLength, G!Null
  <2>2. CASE d.kind # "zone"
    BY <1>1, <1>3, <2>2 DEF G!MaskLength, G!Null
  <2> QED
    BY <2>1, <2>2
<1> HIDE DEF m
<1>5. Len(v) = 1 /\ v[1] = m
  OBVIOUS
<1>6. f.val = v
  BY DEF m
<1> HIDE DEF v
<1>7. G!DiagnosticMask(f) = m
  BY <1>4, <1>5, <1>6 DEF G!DiagnosticMask
<1> QED
  BY <1>1, <1>2, <1>7

LEMMA DamageIsNone ==
  ASSUME NEW d \in Devices, NEW f, f.where = G!AddressOf(d), f.val \in DamagedMasks
  PROVE  G!DiagnosticMask(f) = G!None
<1>1. G!MaskLength(f) \in {24, 16, G!Null}
  <2> DEFINE one == f.dim \in {7, 8, 11, 12} /\ G!Scope(f.where).scope \notin {"zone", "none"}
             two == f.dim \in {21, 22} /\ G!Scope(f.where).scope = "zone"
  <2>1. G!MaskLength(f) = CASE one -> 24 [] two -> 16 [] OTHER -> G!Null
    BY DEF G!MaskLength
  <2>2. ~(one /\ two)
    OBVIOUS
  <2> HIDE DEF one, two
  <2> QED
    BY <2>1, <2>2
<1>2. CASE f.val = <<[len |-> 8, zeros |-> Faults]>>
  <2> DEFINE m == [len |-> 8, zeros |-> Faults]
             v == <<m>>
  <2>1. m.len = 8 /\ v[1] = m /\ f.val = v
    BY <1>2
  <2> HIDE DEF v, m
  <2> QED
    BY <1>1, <2>1 DEF G!DiagnosticMask, G!Null
<1>3. CASE \E m : f.val = <<m, m>>
  <2>1. PICK m : f.val = <<m, m>>
    BY <1>3
  <2> DEFINE v == <<m, m>>
  <2>2. Len(v) = 2 /\ f.val = v
    BY <2>1
  <2> HIDE DEF v
  <2> QED
    BY <2>2 DEF G!DiagnosticMask
<1> QED
  BY <1>2, <1>3 DEF DamagedMasks

LEMMA CountsAreRead ==
  ASSUME NEW d \in Centrals, NEW f, NEW n, f.where = G!AddressOf(d), f.val = <<0, n>>, f.dim = 23,
         G!DiagnosticsAssumption
  PROVE  G!DiagnosticMask(f) = G!None /\ G!HasCounts(f)
<1>1. G!MaskLength(f) = G!Null
  BY DEF G!MaskLength
<1>2. G!DiagnosticMask(f) = G!None
  BY <1>1 DEF G!DiagnosticMask
<1>3. G!Scope(f.where).scope = "central"
  BY ScopeIs DEF Centrals
<1> DEFINE v == <<0, n>>
<1>4. Len(v) = 2 /\ f.val = v
  OBVIOUS
<1> HIDE DEF v
<1> QED
  BY <1>2, <1>3, <1>4 DEF G!HasCounts

-----------------------------------------------------------------------------
(* What the consumer has of each device is what its faults are.            *)
DeviceShown(x) == x \in DeviceKnown /\ \A d \in Devices : x[G!AddressOf(d)] = faulty[d]
DeviceInv ==
  /\ faulty \in [Devices -> SUBSET Faults]
  /\ wire \in Seq(DeviceEvents) /\ Len(wire) <= DeviceWire
  /\ \E x : DeviceShown(x) /\ Leads(DeviceFollow, DeviceKnown, wire, known, x)

(* Events that say nothing new. *)
LEMMA LeadsStay ==
  ASSUME NEW follow, NEW X, NEW E, NEW w \in Seq(E), NEW a, NEW b, Leads(follow, X, w, a, b),
         NEW s \in Seq(E), \A i \in 1 .. Len(s) : follow[<<b, s[i]>>] = b
  PROVE  w \o s \in Seq(E) /\ Leads(follow, X, w \o s, a, b)
<1>1. PICK h \in [0 .. Len(w) -> X] : /\ h[0] = a /\ h[Len(w)] = b
                                      /\ \A i \in 1 .. Len(w) : h[i] = follow[<<h[i - 1], w[i]>>]
  BY DEF Leads
<1> DEFINE v == w \o s
           n == Len(w)
           m == Len(v)
           k == [i \in 0 .. m |-> IF i <= n THEN h[i] ELSE b]
<1>2. /\ v \in Seq(E) /\ m = n + Len(s) /\ n \in Nat /\ m \in Nat /\ Len(s) \in Nat
      /\ \A i \in 1 .. n : v[i] = w[i]
      /\ \A i \in 1 .. Len(s) : v[n + i] = s[i]
  OBVIOUS
<1>3. ASSUME NEW i \in 1 .. m, i > n PROVE i - n \in 1 .. Len(s) /\ v[i] = s[i - n]
  <2>1. i - n \in 1 .. Len(s) /\ n + (i - n) = i
    BY <1>2, <1>3
  <2> QED
    BY <1>2, <2>1
<1>4. h[n] = b /\ b \in X /\ h[0] = a
  BY <1>1
<1> HIDE DEF v, m, n
<1>5. ASSUME NEW i \in 0 .. m PROVE k[i] \in X /\ (i <= n => k[i] = h[i]) /\ (i >= n => k[i] = b)
  <2>1. k[i] = IF i <= n THEN h[i] ELSE b
    OBVIOUS
  <2>2. i <= n => h[i] \in X
    BY <1>1, <1>2 DEF n
  <2> HIDE DEF k
  <2> QED
    BY <1>2, <1>4, <2>1, <2>2
<1>6. k \in [0 .. m -> X] /\ k[0] = a /\ k[m] = b
  BY <1>2, <1>4, <1>5
<1>7. ASSUME NEW i \in 1 .. m PROVE k[i] = follow[<<k[i - 1], v[i]>>]
  <2>0. i \in 0 .. m /\ i - 1 \in 0 .. m
    BY <1>2
  <2>1. CASE i <= n
    <3>1. i \in 1 .. n /\ i - 1 <= n
      BY <1>2, <2>1
    <3>2. h[i] = follow[<<h[i - 1], w[i]>>]
      BY <1>1, <3>1 DEF n
    <3> QED
      BY <1>2, <1>5, <2>0, <2>1, <3>1, <3>2
  <2>2. CASE i > n
    <3>1. i >= n /\ i - 1 >= n
      BY <1>2, <2>2
    <3>2. k[i] = b /\ k[i - 1] = b
      BY <1>5, <2>0, <3>1
    <3>3. v[i] = s[i - n] /\ i - n \in 1 .. Len(s)
      BY <1>3, <2>2
    <3> QED
      BY <3>2, <3>3
  <2> QED
    BY <1>2, <2>1, <2>2
<1> HIDE DEF k
<1>8. Leads(follow, X, v, a, b)
  BY <1>6, <1>7 DEF Leads, m
<1> QED
  BY <1>2, <1>8 DEF v

LEMMA AddressIn == ASSUME NEW d \in Devices PROVE G!AddressOf(d) \in Addresses
BY DEF Addresses

LEMMA NothingIsTold ==
  ASSUME NEW x, NEW f, G!DiagnosticMask(f) = G!None
  PROVE  G!Follow(x, f) = x
BY DEF G!Follow

LEMMA MaskIsTold ==
  ASSUME NEW x \in DeviceKnown, NEW d \in Devices, NEW zeros \in SUBSET Faults, NEW f, f.where = G!AddressOf(d),
         G!DiagnosticMask(f) # G!None, G!DiagnosticMask(f).zeros = zeros
  PROVE  G!Follow(x, f) = [x EXCEPT ![G!AddressOf(d)] = zeros]
<1> DEFINE w == G!AddressOf(d)
<1>1. w \in Addresses /\ G!UniqueId(f) = w /\ DOMAIN x = Addresses
  BY AddressIn DEF G!UniqueId, DeviceKnown
<1> HIDE DEF w
<1>2. G!Follow(x, f) = [v \in DOMAIN x \cup {w} |-> IF v = w THEN zeros ELSE x[v]]
  BY <1>1 DEF G!Follow
<1>3. DOMAIN x \cup {w} = Addresses
  BY <1>1
<1>4. [x EXCEPT ![w] = zeros] = [v \in Addresses |-> IF v = w THEN zeros ELSE x[v]]
  BY <1>1 DEF DeviceKnown
<1> QED
  BY <1>2, <1>3, <1>4 DEF w

(* What is under way is from the device its WHERE names, and what was      *)
(* asked for can be read.                                                  *)
Named(e) == e.from \in Devices /\ e.f.where = G!AddressOf(e.from)
Readable(e) == G!DiagnosticMask(e.f) # G!None \/ G!HasCounts(e.f)
MaskIsGood(e) == G!DiagnosticMask(e.f) = G!None \/ G!DiagnosticMask(e.f).zeros \in SUBSET Faults

LEMMA DeviceEventIs ==
  ASSUME NEW e \in DeviceEvents, G!DiagnosticsAssumption
  PROVE  Named(e) /\ MaskIsGood(e) /\ (e.asked = FALSE \/ Readable(e))
<1>1. CASE e \in ZoneMasks
  <2>1. PICK d \in Zones, dim \in {21, 22}, zeros \in SUBSET Faults, asked \in Flags : e = MaskEvent(d, dim, zeros, asked)
    BY <1>1 DEF ZoneMasks
  <2>2. e.from = d /\ e.f.where = G!AddressOf(d) /\ e.f.dim = dim /\ e.f.val = <<G!MaskOf(d, zeros)>>
    BY <2>1, ReplyIs DEF MaskEvent
  <2>3. d \in Devices /\ d.kind = "zone" /\ e.f.dim \in {21, 22}
    BY <2>1, <2>2 DEF Zones
  <2>4. G!DiagnosticMask(e.f) # G!None /\ G!DiagnosticMask(e.f).zeros = zeros
    BY <2>2, <2>3, MaskIsRead
  <2> QED
    BY <2>2, <2>3, <2>4 DEF Named, MaskIsGood, Readable
<1>2. CASE e \in OtherMasks
  <2>1. PICK d \in Others, dim \in {7, 11}, zeros \in SUBSET Faults, asked \in Flags : e = MaskEvent(d, dim, zeros, asked)
    BY <1>2 DEF OtherMasks
  <2>2. e.from = d /\ e.f.where = G!AddressOf(d) /\ e.f.dim = dim /\ e.f.val = <<G!MaskOf(d, zeros)>>
    BY <2>1, ReplyIs DEF MaskEvent
  <2>3. d \in Devices /\ d.kind # "zone" /\ e.f.dim \in {7, 11}
    BY <2>1, <2>2 DEF Others
  <2>4. G!DiagnosticMask(e.f) # G!None /\ G!DiagnosticMask(e.f).zeros = zeros
    BY <2>2, <2>3, MaskIsRead
  <2> QED
    BY <2>2, <2>3, <2>4 DEF Named, MaskIsGood, Readable
<1>3. CASE e \in DamagedEvents
  <2>1. PICK d \in Devices, dim \in {11, 22}, val \in DamagedMasks : e = DamagedEvent(d, dim, val)
    BY <1>3 DEF DamagedEvents
  <2>2. e.from = d /\ e.f.where = G!AddressOf(d) /\ e.f.val = val
    BY <2>1, DamagedEventIs
  <2>4. e.asked = FALSE
    BY <2>1 DEF DamagedEvent, G!Reply
  <2>3. G!DiagnosticMask(e.f) = G!None
    BY <2>2, DamageIsNone
  <2> QED
    BY <2>2, <2>3, <2>4 DEF Named, MaskIsGood, Readable
<1>4. CASE e \in CountEvents
  <2>1. PICK d \in Centrals, bad \in SUBSET Devices : e = CountEvent(d, bad)
    BY <1>4 DEF CountEvents
  <2> DEFINE n == G!Cardinality(bad)
  <2>2. e.from = d /\ e.f.where = G!AddressOf(d) /\ e.f.dim = 23 /\ e.f.val = <<0, n>>
    BY <2>1, CountEventIs
  <2> HIDE DEF n
  <2>3. G!DiagnosticMask(e.f) = G!None /\ G!HasCounts(e.f)
    BY <2>2, CountsAreRead
  <2> QED
    BY <2>2, <2>3 DEF Centrals, Named, MaskIsGood, Readable
<1> QED
  BY <1>1, <1>2, <1>3, <1>4 DEF DeviceEvents

LEMMA EventFollows ==
  ASSUME NEW e \in DeviceEvents, NEW x \in DeviceKnown, G!DiagnosticsAssumption
  PROVE  G!Follow(x, e.f) \in DeviceKnown /\ DeviceFollow[<<x, e>>] = G!Follow(x, e.f)
<1>1. CASE G!DiagnosticMask(e.f) = G!None
  BY <1>1, NothingIsTold DEF DeviceFollow
<1>2. CASE G!DiagnosticMask(e.f) # G!None /\ G!DiagnosticMask(e.f).zeros \in SUBSET Faults
  <2> DEFINE zeros == G!DiagnosticMask(e.f).zeros
             d == e.from
             f == e.f
             w == G!AddressOf(d)
  <2>1. d \in Devices /\ f.where = G!AddressOf(d) /\ w \in Addresses
    BY DeviceEventIs, AddressIn DEF Named
  <2>2. G!DiagnosticMask(f) # G!None /\ G!DiagnosticMask(f).zeros = zeros /\ zeros \in SUBSET Faults
    BY <1>2
  <2> HIDE DEF zeros, d, f
  <2>3. G!Follow(x, f) = [x EXCEPT ![w] = zeros]
    BY <2>1, <2>2, MaskIsTold
  <2> HIDE DEF w
  <2>4. [x EXCEPT ![w] = zeros] \in DeviceKnown
    BY <2>1, <2>2 DEF DeviceKnown
  <2> QED
    BY <2>3, <2>4 DEF DeviceFollow, f
<1> QED
  BY <1>1, <1>2, DeviceEventIs DEF MaskIsGood

-----------------------------------------------------------------------------
LEMMA SeqOfSet ==
  ASSUME NEW T, IsFiniteSet(T)
  PROVE  G!SetToSeq(T) \in Seq(T)
<1> DEFINE n == Cardinality(T)
           F == {f \in [1 .. n -> T] : G!IsInjective(f)}
<1>1. n \in Nat /\ ExistsBijection(1 .. n, T)
  BY FS_CardinalityType
<1>2. G!Cardinality(T) = n
  BY DEF G!Cardinality, Cardinality
<1> HIDE DEF n
<1>3. PICK f : f \in Bijection(1 .. n, T)
  BY <1>1 DEF ExistsBijection
<1>4. f \in [1 .. n -> T] /\ G!IsInjective(f)
  BY <1>3 DEF Bijection, Injection, IsInjective, G!IsInjective
<1>5. G!SetToSeq(T) = CHOOSE g \in [1 .. n -> T] : G!IsInjective(g)
  BY <1>2 DEF G!SetToSeq
<1>6. G!SetToSeq(T) \in [1 .. n -> T]
  BY <1>4, <1>5
<1> QED
  BY <1>1, <1>6

(* Answers tell of each device what is true of it.                         *)
TrueMask(d, dim) == G!Reply(d, dim, <<G!MaskOf(d, faulty[d])>>, TRUE)
TrueEvents == {TrueMask(d, 21) : d \in Zones} \cup {TrueMask(d, dim) : d \in Others, dim \in {7, 11}} \cup CountEvents

LEMMA TrueMaskIs ==
  ASSUME NEW d \in Devices, NEW dim
  PROVE  LET e == TrueMask(d, dim) IN
         e.from = d /\ e.f.where = G!AddressOf(d) /\ e.f.dim = dim /\ e.f.val = <<G!MaskOf(d, faulty[d])>>
BY DEF TrueMask, G!Reply, G!DimensionReply, G!Frame

LEMMA TrueIsEvent ==
  ASSUME faulty \in [Devices -> SUBSET Faults]
  PROVE  TrueEvents \subseteq DeviceEvents
<1> DEFINE yes == TRUE
<1>1. yes \in Flags
  BY DEF Flags
<1>2. \A d, dim : TrueMask(d, dim) = MaskEvent(d, dim, faulty[d], yes)
  BY DEF TrueMask, MaskEvent
<1> HIDE DEF yes
<1>3. ASSUME NEW d \in Zones PROVE TrueMask(d, 21) \in ZoneMasks
  <2>1. faulty[d] \in SUBSET Faults
    BY <1>3 DEF Zones
  <2> QED
    BY <1>1, <1>2, <2>1 DEF ZoneMasks
<1>4. ASSUME NEW d \in Others, NEW dim \in {7, 11} PROVE TrueMask(d, dim) \in OtherMasks
  <2>1. faulty[d] \in SUBSET Faults
    BY <1>4 DEF Others
  <2> QED
    BY <1>1, <1>2, <2>1 DEF OtherMasks
<1> QED
  BY <1>3, <1>4 DEF TrueEvents, DeviceEvents

LEMMA TrueIsKnown ==
  ASSUME NEW e \in TrueEvents, NEW x, DeviceShown(x), G!DiagnosticsAssumption
  PROVE  G!Follow(x, e.f) = x
<1>0. x \in DeviceKnown /\ \A d \in Devices : x[G!AddressOf(d)] = faulty[d]
  BY DEF DeviceShown
<1>1. ASSUME NEW d \in Devices, NEW f, f.where = G!AddressOf(d), f.val = <<G!MaskOf(d, faulty[d])>>,
             (d.kind = "zone" /\ f.dim \in {21, 22}) \/ (d.kind # "zone" /\ f.dim \in {7, 11})
      PROVE  G!Follow(x, f) = x
  <2> DEFINE zeros == faulty[d]
             w == G!AddressOf(d)
  <2>1. x[w] = zeros /\ w \in Addresses
    BY <1>0, AddressIn
  <2>2. zeros \in SUBSET Faults
    BY <1>0, <2>1 DEF DeviceKnown
  <2>3. G!DiagnosticMask(f) # G!None /\ G!DiagnosticMask(f).zeros = zeros
    BY <1>1, MaskIsRead
  <2> HIDE DEF zeros
  <2>4. G!Follow(x, f) = [x EXCEPT ![w] = zeros]
    BY <1>0, <1>1, <2>2, <2>3, MaskIsTold
  <2> HIDE DEF w
  <2>5. [x EXCEPT ![w] = zeros] = x
    BY <1>0, <2>1 DEF DeviceKnown
  <2> QED
    BY <2>4, <2>5
<1>2. CASE \E d \in Zones : e = TrueMask(d, 21)
  <2>1. PICK d \in Zones : e = TrueMask(d, 21)
    BY <1>2
  <2>2. d \in Devices /\ d.kind = "zone"
    BY DEF Zones
  <2>3. e.f.where = G!AddressOf(d) /\ e.f.dim = 21 /\ e.f.val = <<G!MaskOf(d, faulty[d])>>
    BY <2>1, <2>2, TrueMaskIs
  <2> QED
    BY <1>1, <2>2, <2>3
<1>3. CASE \E d \in Others, dim \in {7, 11} : e = TrueMask(d, dim)
  <2>1. PICK d \in Others, dim \in {7, 11} : e = TrueMask(d, dim)
    BY <1>3
  <2>2. d \in Devices /\ d.kind # "zone"
    BY DEF Others
  <2>3. e.f.where = G!AddressOf(d) /\ e.f.dim \in {7, 11} /\ e.f.val = <<G!MaskOf(d, faulty[d])>>
    BY <2>1, <2>2, TrueMaskIs
  <2> QED
    BY <1>1, <2>2, <2>3
<1>4. CASE e \in CountEvents
  <2>1. PICK d \in Centrals, bad \in SUBSET Devices : e = CountEvent(d, bad)
    BY <1>4 DEF CountEvents
  <2> DEFINE n == G!Cardinality(bad)
  <2>2. e.f.where = G!AddressOf(d) /\ e.f.dim = 23 /\ e.f.val = <<0, n>>
    BY <2>1, CountEventIs
  <2> HIDE DEF n
  <2>3. G!DiagnosticMask(e.f) = G!None
    BY <2>2, CountsAreRead
  <2> QED
    BY <2>3, NothingIsTold
<1> QED
  BY <1>2, <1>3, <1>4 DEF TrueEvents

(* The requests that are sent, by what may answer them.                    *)
LEMMA RequestIs ==
  ASSUME NEW w, NEW r \in G!Requests(w)
  PROVE  \/ r.dim \in {7, 11} /\ (~r.where.hash \/ G!IsCentral(r.where))
         \/ r.dim = 21 /\ r.where.hash
         \/ r.dim \in {20, 23} /\ G!IsCentral(r.where)
<1>1. ASSUME NEW dim, r = G!DimensionRequest(1004, G!DeviceWhere(w), dim), r.where # G!Refused, dim \in {7, 11}
      PROVE  r.dim \in {7, 11} /\ ~r.where.hash
  <2>1. r.where = G!DeviceWhere(w) /\ r.dim = dim
    BY <1>1 DEF G!DimensionRequest, G!Frame
  <2>2. G!DeviceWhere(w) = w /\ ~w.hash
    BY <1>1, <2>1 DEF G!DeviceWhere, G!IsProbe, G!IsActuator, G!IsSlave, G!IsExternal
  <2> QED
    BY <1>1, <2>1, <2>2
<1>2. ASSUME r = G!DimensionRequest(1004, G!ZoneWhere(w), 21), r.where # G!Refused
      PROVE  r.dim = 21 /\ r.where.hash
  <2>1. r.where = G!ZoneWhere(w) /\ r.dim = 21
    BY <1>2 DEF G!DimensionRequest, G!Frame
  <2>2. CASE G!IsProbe(w)
    <3>1. ~G!IsCentral(w) /\ ~G!IsCentralZone(w)
      BY <2>2 DEF G!IsProbe, G!IsCentral, G!IsCentralZone
    <3>2. G!ZoneWhere(w) = G!Address(TRUE, w.digits, G!Null)
      BY <2>2, <3>1 DEF G!ZoneWhere
    <3> QED
      BY <2>1, <3>2 DEF G!Address
  <2>3. CASE ~G!IsProbe(w) /\ (G!IsCentral(w) \/ G!IsCentralZone(w))
    <3>1. G!ZoneWhere(w) = w /\ w.hash
      BY <2>3 DEF G!ZoneWhere, G!IsCentral, G!IsCentralZone
    <3> QED
      BY <2>1, <3>1
  <2>4. CASE ~G!IsProbe(w) /\ ~G!IsCentral(w) /\ ~G!IsCentralZone(w)
    BY <1>2, <2>1, <2>4 DEF G!ZoneWhere
  <2> QED
    BY <2>2, <2>3, <2>4
<1>3. ASSUME NEW dim \in {7, 11, 20, 23}, r = G!DimensionRequest(1004, w, dim), G!IsCentral(w)
      PROVE  r.dim \in {7, 11, 20, 23} /\ G!IsCentral(r.where)
  BY <1>3 DEF G!DimensionRequest, G!Frame
<1>4. \/ \E dim \in {7, 11} : r = G!DimensionRequest(1004, G!DeviceWhere(w), dim) /\ r.where # G!Refused
      \/ r = G!DimensionRequest(1004, G!ZoneWhere(w), 21) /\ r.where # G!Refused
      \/ \E dim \in {7, 11, 20, 23} : r = G!DimensionRequest(1004, w, dim) /\ G!IsCentral(w)
  BY DEF G!Requests
<1> QED
  BY <1>1, <1>2, <1>3, <1>4

LEMMA CentralIs ==
  ASSUME NEW d \in Devices, NEW w, w = G!AddressOf(d), G!DiagnosticsAssumption
  PROVE  /\ (G!IsCentral(w) => d.kind = "central") /\ (d.kind = "central" => G!IsCentral(w))
         /\ (w.hash => d.kind \in {"central", "zone"}) /\ (d.kind = "zone" => w.hash)
<1>1. CASE d.kind = "central"
  <2>1. w.hash = TRUE /\ w.digits = <<0>> /\ w.par = d.unit /\ d.unit \in Pars
    BY <1>1, AddressesAre
  <2> QED
    BY <1>1, <2>1 DEF G!IsCentral, Pars
<1>2. CASE d.kind = "zone"
  <2>1. w.hash = TRUE /\ w.digits # <<0>>
    BY <1>2, AddressesAre
  <2> QED
    BY <1>2, <2>1 DEF G!IsCentral
<1>3. CASE d.kind \notin {"central", "zone"}
  <2>1. w.hash = FALSE
    BY <1>3, AddressesAre, DevicesAre
  <2> QED
    BY <1>3, <2>1 DEF G!IsCentral
<1> QED
  BY <1>1, <1>2, <1>3

LEMMA AnswersAreTrue ==
  ASSUME NEW w, NEW r \in G!Requests(w), NEW d \in Devices, G!AddressOf(d) = r.where, G!DiagnosticsAssumption,
         faulty \in [Devices -> SUBSET Faults]
  PROVE  G!Answers(r) \in Seq(TrueEvents)
<1> DEFINE of(e) == G!Reply(e, IF r.dim = 20 THEN 21 ELSE r.dim, <<G!MaskOf(e, faulty[e])>>, TRUE)
           asked == {e \in Devices : e.kind = "zone" /\ e.unit = r.where.par /\ (r.dim = 20 => faulty[e] # {})}
           one == CHOOSE e \in Devices : G!AddressOf(e) = r.where
           all == G!IsCentral(r.where) /\ r.dim \in {20, 21}
           T == {of(e) : e \in asked}
           counts == G!Reply(one, 23, G!Counts, TRUE)
<1>1. one = d
  BY AddressIsOwn
<1>2. G!Answers(r) = CASE all -> G!SetToSeq(T) [] r.dim = 23 -> <<counts>> [] OTHER -> <<of(one)>>
  BY DEF G!Answers
<1> HIDE DEF one
<1>0. /\ (G!IsCentral(r.where) => d.kind = "central") /\ (d.kind = "central" => G!IsCentral(r.where))
      /\ (r.where.hash => d.kind \in {"central", "zone"}) /\ (d.kind = "zone" => r.where.hash)
  BY CentralIs
<1>3. CASE all
  <2>1. r.dim # 23
    BY <1>3
  <2>2. G!Answers(r) = G!SetToSeq(T)
    <3> HIDE DEF all, T, of, counts
    <3> QED
      BY <1>2, <1>3, <2>1
  <2>3. \A e : of(e) = TrueMask(e, 21)
    BY <1>3 DEF TrueMask
  <2>4. asked \subseteq Zones /\ asked \subseteq Devices
    BY DEF Zones
  <2>5. T \subseteq TrueEvents
    <3> HIDE DEF of, asked
    <3> QED
      BY <2>3, <2>4 DEF TrueEvents
  <2>6. IsFiniteSet(asked)
    <3>1. IsFiniteSet(Devices)
      BY DEF G!DiagnosticsAssumption, G!IsFiniteSet, IsFiniteSet
    <3> HIDE DEF asked
    <3> QED
      BY <2>4, <3>1, FS_Subset
  <2>7. IsFiniteSet(T)
    <3> DEFINE g == [e \in asked |-> of(e)]
    <3> HIDE DEF of, asked
    <3>1. g \in Surjection(asked, T)
      BY DEF Surjection
    <3> HIDE DEF g, T
    <3> QED
      BY <2>6, <3>1, FS_Surjection
  <2> HIDE DEF T
  <2>8. G!SetToSeq(T) \in Seq(T)
    BY <2>7, SeqOfSet
  <2> QED
    BY <2>2, <2>5, <2>8
<1>4. CASE r.dim = 23
  <2>1. ~all
    BY <1>4
  <2>2. G!Answers(r) = <<counts>>
    <3> HIDE DEF all, T, of, counts
    <3> QED
      BY <1>2, <1>4, <2>1
  <2>3. d.kind = "central"
    BY <1>0, <1>4, RequestIs
  <2> DEFINE bad == {e \in Devices : e.kind # "central" /\ faulty[e] # {}}
  <2>4. G!Counts = <<0, G!Cardinality(bad)>>
    BY DEF G!Counts
  <2>5. bad \in SUBSET Devices
    OBVIOUS
  <2> HIDE DEF bad
  <2>6. counts = CountEvent(d, bad) /\ d \in Centrals
    BY <1>1, <2>3, <2>4 DEF CountEvent, Centrals
  <2>7. counts \in TrueEvents
    <3> HIDE DEF counts
    <3> QED
      BY <2>5, <2>6 DEF TrueEvents, CountEvents
  <2> HIDE DEF counts
  <2> QED
    BY <2>2, <2>7
<1>5. CASE ~all /\ r.dim # 23
  <2>1. G!Answers(r) = <<of(one)>>
    <3> HIDE DEF all, T, of, counts
    <3> QED
      BY <1>2, <1>5
  <2>2. (r.dim \in {7, 11} /\ d.kind # "zone") \/ (r.dim = 21 /\ d.kind = "zone")
    <3>1. CASE r.dim \in {7, 11} /\ (~r.where.hash \/ G!IsCentral(r.where))
      <4>1. d.kind = "zone" => r.where.hash /\ d.kind # "central"
        BY <1>0
      <4>2. d.kind # "zone"
        BY <1>0, <3>1, <4>1
      <4> QED
        BY <3>1, <4>2
    <3>2. CASE r.dim = 21 /\ r.where.hash
      BY <1>0, <1>5, <3>2
    <3>3. CASE r.dim \in {20, 23} /\ G!IsCentral(r.where)
      BY <1>5, <3>3
    <3> QED
      BY <3>1, <3>2, <3>3, RequestIs
  <2>3. of(one) = TrueMask(d, r.dim)
    <3>1. (IF r.dim = 20 THEN 21 ELSE r.dim) = r.dim
      BY <2>2
    <3>2. of(d) = TrueMask(d, r.dim)
      BY <3>1, Zenon DEF TrueMask
    <3> HIDE DEF of
    <3> QED
      BY <1>1, <3>2
  <2>4. TrueMask(d, r.dim) \in TrueEvents
    BY <2>2 DEF TrueEvents, Zones, Others
  <2> HIDE DEF of
  <2> QED
    BY <2>1, <2>3, <2>4
<1> QED
  BY <1>3, <1>4, <1>5

LEMMA DeviceAsks ==
  ASSUME DeviceInv, G!Ask, G!DiagnosticsAssumption
  PROVE  DeviceInv'
<1>1. PICK w \in DevicesAsked : \E r \in G!Requests(w) :
        (\E d \in Devices : G!AddressOf(d) = r.where) /\ G!Send(G!Answers(r))
  BY DEF G!Ask
<1>2. PICK r \in G!Requests(w) : (\E d \in Devices : G!AddressOf(d) = r.where) /\ G!Send(G!Answers(r))
  BY <1>1
<1>3. PICK d \in Devices : G!AddressOf(d) = r.where
  BY <1>2
<1>4. UNCHANGED faulty
  BY DEF G!Ask
<1> DEFINE s == G!Answers(r)
<1>5. faulty \in [Devices -> SUBSET Faults] /\ wire \in Seq(DeviceEvents)
  BY DEF DeviceInv
<1>6. s \in Seq(TrueEvents)
  BY <1>3, <1>5, AnswersAreTrue
<1>7. G!Send(s)
  BY <1>2
<1> HIDE DEF s
<1>8. wire' = wire \o s /\ Len(wire) + Len(s) <= DeviceWire /\ UNCHANGED known
  BY <1>7 DEF G!Send
<1>9. PICK x : DeviceShown(x) /\ Leads(DeviceFollow, DeviceKnown, wire, known, x)
  BY DEF DeviceInv
<1>10. s \in Seq(DeviceEvents) /\ Len(s) \in Nat
  BY <1>5, <1>6, TrueIsEvent
<1>11. ASSUME NEW i \in 1 .. Len(s) PROVE DeviceFollow[<<x, s[i]>>] = x
  <2> DEFINE e == s[i]
  <2>1. e \in TrueEvents
    BY <1>6
  <2> HIDE DEF e
  <2>2. e \in DeviceEvents /\ x \in DeviceKnown
    BY <1>5, <1>9, <2>1, TrueIsEvent DEF DeviceShown
  <2>3. G!Follow(x, e.f) = x
    BY <1>9, <2>1, TrueIsKnown
  <2>4. DeviceFollow[<<x, e>>] = x
    BY <2>2, <2>3, EventFollows
  <2> QED
    BY <2>4 DEF e
<1>12. wire \o s \in Seq(DeviceEvents) /\ Leads(DeviceFollow, DeviceKnown, wire \o s, known, x)
  BY <1>5, <1>9, <1>10, <1>11, LeadsStay
<1>13. Len(wire') <= DeviceWire
  BY <1>5, <1>8, <1>10
<1>14. DeviceShown(x)'
  BY <1>4, <1>9 DEF DeviceShown
<1> QED
  BY <1>4, <1>5, <1>8, <1>12, <1>13, <1>14 DEF DeviceInv

(* One event is sent, after which the consumer knows what is.              *)
LEMMA DeviceSent ==
  ASSUME DeviceInv, G!DiagnosticsAssumption, NEW x, DeviceShown(x),
         Leads(DeviceFollow, DeviceKnown, wire, known, x), NEW e \in DeviceEvents, G!Send(<<e>>),
         faulty' \in [Devices -> SUBSET Faults], NEW y, y = G!Follow(x, e.f), DeviceShown(y)'
  PROVE  DeviceInv'
<1>1. wire \in Seq(DeviceEvents)
  BY DEF DeviceInv
<1>2. wire' = Append(wire, e) /\ Len(wire) + 1 <= DeviceWire /\ UNCHANGED known
  BY <1>1 DEF G!Send
<1>3. x \in DeviceKnown
  BY DEF DeviceShown
<1>4. DeviceFollow[<<x, e>>] = y /\ y \in DeviceKnown
  BY <1>3, EventFollows
<1>5. Append(wire, e) \in Seq(DeviceEvents) /\ Leads(DeviceFollow, DeviceKnown, Append(wire, e), known, y)
  BY <1>1, <1>4, LeadsOn
<1>6. Len(wire') <= DeviceWire
  BY <1>1, <1>2
<1> QED
  BY <1>2, <1>5, <1>6 DEF DeviceInv

LEMMA DeviceChanges ==
  ASSUME DeviceInv, G!DiagnosticsAssumption, NEW d \in Devices, G!Change(d)
  PROVE  DeviceInv'
<1>1. PICK zeros \in SUBSET Faults :
        /\ faulty' = [faulty EXCEPT ![d] = zeros]
        /\ G!Send(<<G!Reply(d, IF d.kind = "zone" THEN 22 ELSE 11, <<G!MaskOf(d, zeros)>>, FALSE)>>)
  BY DEF G!Change
<1> DEFINE no == FALSE
           dim == IF d.kind = "zone" THEN 22 ELSE 11
           e == MaskEvent(d, dim, zeros, no)
<1>2. G!Send(<<e>>)
  BY <1>1 DEF MaskEvent
<1>3. no \in Flags
  BY DEF Flags
<1> HIDE DEF no
<1>4. (d.kind = "zone" /\ dim \in {21, 22}) \/ (d.kind # "zone" /\ dim \in {7, 11})
  OBVIOUS
<1> HIDE DEF dim
<1>5. e \in DeviceEvents
  <2>1. CASE d.kind = "zone" /\ dim \in {21, 22}
    BY <1>3, <2>1 DEF DeviceEvents, ZoneMasks, Zones
  <2>2. CASE d.kind # "zone" /\ dim \in {7, 11}
    BY <1>3, <2>2 DEF DeviceEvents, OtherMasks, Others
  <2> QED
    BY <1>4, <2>1, <2>2
<1>6. e.f.where = G!AddressOf(d) /\ e.f.dim = dim /\ e.f.val = <<G!MaskOf(d, zeros)>>
  BY ReplyIs DEF MaskEvent
<1> HIDE DEF e
<1>7. G!DiagnosticMask(e.f) # G!None /\ G!DiagnosticMask(e.f).zeros = zeros
  BY <1>4, <1>6, MaskIsRead
<1>8. PICK x : DeviceShown(x) /\ Leads(DeviceFollow, DeviceKnown, wire, known, x)
  BY DEF DeviceInv
<1> DEFINE w == G!AddressOf(d)
           y == G!Follow(x, e.f)
<1>9. x \in DeviceKnown /\ \A o \in Devices : x[G!AddressOf(o)] = faulty[o]
  BY <1>8 DEF DeviceShown
<1>10. y = [x EXCEPT ![w] = zeros]
  BY <1>6, <1>7, <1>9, MaskIsTold
<1>11. w \in Addresses
  BY AddressIn
<1>12. ASSUME NEW o \in Devices, o # d PROVE G!AddressOf(o) # w
  BY <1>12, AddressIsOwn
<1>13. faulty \in [Devices -> SUBSET Faults]
  BY DEF DeviceInv
<1>14. /\ faulty' \in [Devices -> SUBSET Faults] /\ faulty'[d] = zeros
       /\ \A o \in Devices : o # d => faulty'[o] = faulty[o]
  BY <1>1, <1>13
<1>15. y \in DeviceKnown /\ y[w] = zeros /\ \A v \in Addresses : v # w => y[v] = x[v]
  <2> HIDE DEF w, y
  <2> QED
    BY <1>9, <1>10, <1>11 DEF DeviceKnown
<1> HIDE DEF y
<1>16. ASSUME NEW o \in Devices PROVE y[G!AddressOf(o)] = faulty'[o]
  <2>1. CASE o = d
    BY <1>14, <1>15, <2>1
  <2>2. CASE o # d
    <3>1. G!AddressOf(o) # w /\ G!AddressOf(o) \in Addresses
      BY <1>12, <2>2, AddressIn
    <3> HIDE DEF w
    <3> QED
      BY <1>9, <1>14, <1>15, <2>2, <3>1
  <2> QED
    BY <2>1, <2>2
<1>17. DeviceShown(y)'
  BY <1>15, <1>16 DEF DeviceShown
<1>18. y = G!Follow(x, e.f)
  BY DEF y
<1> QED
  BY <1>2, <1>5, <1>8, <1>14, <1>17, <1>18, DeviceSent

LEMMA DeviceDamages ==
  ASSUME DeviceInv, G!DiagnosticsAssumption, NEW d \in Devices, G!Damage(d)
  PROVE  DeviceInv'
<1> DEFINE dim == IF d.kind = "zone" THEN 22 ELSE 11
           m == G!MaskOf(d, Faults)
<1>1. UNCHANGED faulty
  BY DEF G!Damage
<1>2. PICK val : /\ val = <<[len |-> 8, zeros |-> Faults]>> \/ val = <<m, m>>
                 /\ G!Send(<<G!Reply(d, dim, val, FALSE)>>)
  BY DEF G!Damage
<1>3. m \in {[len |-> 16, zeros |-> Faults], [len |-> 24, zeros |-> Faults]}
  BY DEF G!MaskOf
<1>4. val \in DamagedMasks
  <2> HIDE DEF m
  <2> QED
    BY <1>2, <1>3 DEF DamagedMasks
<1>5. dim \in {11, 22}
  OBVIOUS
<1> HIDE DEF dim, m
<1> DEFINE e == DamagedEvent(d, dim, val)
<1>6. e \in DeviceEvents
  BY <1>4, <1>5 DEF DeviceEvents, DamagedEvents
<1>7. e.f.where = G!AddressOf(d) /\ e.f.val = val
  BY DamagedEventIs
<1>8. G!Send(<<e>>)
  BY <1>2 DEF DamagedEvent
<1> HIDE DEF e
<1>9. PICK x : DeviceShown(x) /\ Leads(DeviceFollow, DeviceKnown, wire, known, x)
  BY DEF DeviceInv
<1>10. x = G!Follow(x, e.f)
  BY <1>4, <1>7, DamageIsNone, NothingIsTold
<1>11. faulty' \in [Devices -> SUBSET Faults] /\ DeviceShown(x)'
  BY <1>1, <1>9 DEF DeviceInv, DeviceShown
<1> QED
  BY <1>6, <1>8, <1>9, <1>10, <1>11, DeviceSent

LEMMA DeviceTakes ==
  ASSUME DeviceInv, G!DiagnosticsAssumption, G!Take
  PROVE  DeviceInv'
<1> DEFINE e == Head(wire)
<1>1. wire # <<>> /\ wire' = Tail(wire) /\ UNCHANGED faulty /\ known' = G!Follow(known, e.f)
  BY DEF G!Take
<1>2. PICK x : DeviceShown(x) /\ Leads(DeviceFollow, DeviceKnown, wire, known, x)
  BY DEF DeviceInv
<1>3. wire \in Seq(DeviceEvents) /\ Len(wire) <= DeviceWire
  BY DEF DeviceInv
<1>4. known \in DeviceKnown
  BY <1>2, <1>3, LeadsEnds
<1>5. /\ e \in DeviceEvents /\ Tail(wire) \in Seq(DeviceEvents)
      /\ Leads(DeviceFollow, DeviceKnown, Tail(wire), DeviceFollow[<<known, e>>], x)
  BY <1>1, <1>2, <1>3, LeadsFrom
<1> HIDE DEF e
<1>6. DeviceFollow[<<known, e>>] = known'
  BY <1>1, <1>4, <1>5, EventFollows
<1>7. Len(wire') <= DeviceWire
  BY <1>1, <1>3 DEF G!DiagnosticsAssumption
<1>8. DeviceShown(x)' /\ faulty' \in [Devices -> SUBSET Faults]
  BY <1>1, <1>2 DEF DeviceShown, DeviceInv
<1> QED
  BY <1>1, <1>5, <1>6, <1>7, <1>8 DEF DeviceInv

LEMMA DeviceStep ==
  ASSUME DeviceInv, G!DiagnosticsAssumption, G!Next
  PROVE  DeviceInv'
BY DeviceChanges, DeviceDamages, DeviceAsks, DeviceTakes DEF G!Next

LEMMA DeviceStart ==
  ASSUME G!Init, G!DiagnosticsAssumption
  PROVE  DeviceInv
<1>1. faulty = [d \in Devices |-> {}] /\ wire = <<>> /\ known = [w \in Addresses |-> {}]
  BY DEF G!Init, Addresses
<1>2. known \in DeviceKnown
  BY <1>1 DEF DeviceKnown
<1>3. \A d \in Devices : known[G!AddressOf(d)] = faulty[d]
  BY <1>1, AddressIn
<1>4. wire \in Seq(DeviceEvents) /\ Len(wire) = 0
  BY <1>1
<1>5. Leads(DeviceFollow, DeviceKnown, wire, known, known)
  BY <1>2, <1>4, LeadsNowhere
<1>6. faulty \in [Devices -> SUBSET Faults]
  BY <1>1
<1>7. Len(wire) <= DeviceWire
  <2>1. DeviceWire \in Nat
    BY DEF G!DiagnosticsAssumption
  <2> QED
    BY <1>4, <2>1
<1>8. DeviceShown(known)
  BY <1>2, <1>3 DEF DeviceShown
<1> QED
  BY <1>4, <1>5, <1>6, <1>7, <1>8 DEF DeviceInv

LEMMA DeviceKnows ==
  ASSUME DeviceInv, G!DiagnosticsAssumption
  PROVE  G!TypeOK /\ G!FaultsKnown /\ G!ScopesAreTrue /\ G!RequestsAreReadable
<1>1. PICK x : DeviceShown(x) /\ Leads(DeviceFollow, DeviceKnown, wire, known, x)
  BY DEF DeviceInv
<1>2. wire \in Seq(DeviceEvents) /\ Len(wire) <= DeviceWire
  BY DEF DeviceInv
<1>3. known \in DeviceKnown /\ (Len(wire) = 0 => known = x)
  BY <1>1, <1>2, LeadsEnds
<1>4. wire = <<>> => known = x
  BY <1>3
<1>5. G!TypeOK
  <2>1. DOMAIN known = Addresses /\ \A w \in Addresses : known[w] \in SUBSET Faults
    BY <1>3 DEF DeviceKnown
  <2> QED
    BY <1>2, <2>1 DEF G!TypeOK, Addresses
<1>6. G!FaultsKnown
  BY <1>1, <1>4 DEF G!FaultsKnown, DeviceShown
<1>7. ASSUME NEW i \in DOMAIN wire
      PROVE  wire[i] \in DeviceEvents /\ Named(wire[i]) /\ (wire[i].asked = FALSE \/ Readable(wire[i]))
  <2>1. wire[i] \in DeviceEvents
    BY <1>2
  <2> QED
    BY <2>1, DeviceEventIs
<1>8. G!ScopesAreTrue
  BY <1>7, ScopeIs DEF G!ScopesAreTrue, Named
<1>9. G!RequestsAreReadable
  BY <1>7 DEF G!RequestsAreReadable, Readable
<1> QED
  BY <1>5, <1>6, <1>8, <1>9

(*************************** the six, side by side ************************)

(* Of the family a behaviour is about, what its consumer knows is led by   *)
(* the events under way to what the plant is.                              *)
FollowersInv ==
  /\ about = "alarm" => AlarmInv
  /\ about = "keys" => CenInv
  /\ about = "shutters" => ShutterInv
  /\ about = "scenes" => SceneInv
  /\ about = "loads" => LoadInv
  /\ about = "devices" => DeviceInv

LEMMA FollowersStart ==
  ASSUME FollowersAssumption, Init
  PROVE  FollowersInv
<1>1. CASE about = "alarm" /\ A!Init
  BY <1>1, AlarmStart DEF FollowersInv, FollowersAssumption
<1>2. CASE about = "keys" /\ C!Init
  BY <1>2, CenStart DEF FollowersInv, FollowersAssumption
<1>3. CASE about = "shutters" /\ S!Init
  BY <1>3, ShutterStart DEF FollowersInv, FollowersAssumption
<1>4. CASE about = "scenes" /\ P!Init
  BY <1>4, SceneStart DEF FollowersInv, FollowersAssumption
<1>5. CASE about = "loads" /\ L!Init
  BY <1>5, LoadStart DEF FollowersInv, FollowersAssumption
<1>6. CASE about = "devices" /\ G!Init
  BY <1>6, DeviceStart DEF FollowersInv, FollowersAssumption
<1> QED
  BY <1>1, <1>2, <1>3, <1>4, <1>5, <1>6 DEF Init

LEMMA FollowersRest ==
  ASSUME FollowersInv, UNCHANGED vars
  PROVE  FollowersInv'
<1>1. /\ UNCHANGED <<about, wire, known, told>>
      /\ UNCHANGED <<panel, command>>
      /\ UNCHANGED <<phase, presses, closed>>
      /\ UNCHANGED <<plant, locked, orders>>
      /\ UNCHANGED <<module, starts, on, enabled>>
      /\ UNCHANGED <<load, order, faulty>>
  BY DEF vars, panels, keys, shutters, scenes, loads
<1>2. ASSUME AlarmInv PROVE AlarmInv'
  <2>1. AlarmTaken' = AlarmTaken /\ AlarmView' = AlarmView
    BY <1>1 DEF AlarmTaken, AlarmView
  <2> QED
    BY <1>1, <1>2, <2>1 DEF AlarmInv
<1>3. ASSUME CenInv PROVE CenInv'
  <2>1. CenView' = CenView
    BY <1>1 DEF CenView, Told
  <2> QED
    BY <1>1, <1>3, <2>1 DEF CenInv
<1>4. ASSUME ShutterInv PROVE ShutterInv'
  <2>1. OrdersKept' /\ \A x : ShowsAll(x)' <=> ShowsAll(x)
    BY <1>1, <1>4 DEF OrdersKept, ShowsAll, ShutterInv
  <2> QED
    BY <1>1, <1>4, <2>1 DEF ShutterInv
<1>5. ASSUME SceneInv PROVE SceneInv'
  BY <1>1, <1>5 DEF SceneInv, SceneView
<1>6. ASSUME LoadInv PROVE LoadInv'
  BY <1>1, <1>6 DEF LoadInv, LoadView
<1>7. ASSUME DeviceInv PROVE DeviceInv'
  BY <1>1, <1>7 DEF DeviceInv, DeviceShown
<1> QED
  BY <1>1, <1>2, <1>3, <1>4, <1>5, <1>6, <1>7 DEF FollowersInv

LEMMA FollowersStep ==
  ASSUME FollowersAssumption, FollowersInv, [Next]_vars
  PROVE  FollowersInv'
<1>1. CASE Alarm_Next
  BY <1>1, AlarmStep DEF FollowersInv, FollowersAssumption, Alarm_Next
<1>2. CASE Cen_Next
  BY <1>2, CenStep DEF FollowersInv, FollowersAssumption, Cen_Next
<1>3. CASE Shutter_Next
  BY <1>3, ShutterStep DEF FollowersInv, FollowersAssumption, Shutter_Next
<1>4. CASE Scenario_Next
  BY <1>4, SceneStep DEF FollowersInv, FollowersAssumption, Scenario_Next
<1>5. CASE Load_Next
  BY <1>5, LoadStep DEF FollowersInv, FollowersAssumption, Load_Next
<1>6. CASE Diagnostics_Next
  BY <1>6, DeviceStep DEF FollowersInv, FollowersAssumption, Diagnostics_Next
<1>7. CASE UNCHANGED vars
  BY <1>7, FollowersRest
<1> QED
  BY <1>1, <1>2, <1>3, <1>4, <1>5, <1>6, <1>7 DEF Next

LEMMA FollowersKnow ==
  ASSUME FollowersAssumption, FollowersInv
  PROVE  ConsumerKnows /\ ActsArriveOnce
<1> USE DEF FollowersInv, FollowersAssumption
<1>1. about = "alarm" => A!TypeOK /\ A!PanelKnown /\ A!ZonesKnown /\ A!AlarmsKnown
  BY AlarmKnows
<1>2. about = "keys" => C!TypeOK /\ C!KeysKnown /\ C!ContactsKnown /\ C!PressesCounted
  BY CenKnows
<1>3. about = "shutters" => S!TypeOK /\ S!ShutterKnown /\ S!LocksKnown /\ S!LockReaches
  BY ShutterKnows
<1>4. about = "scenes" => P!TypeOK /\ P!ModulesKnown /\ P!ScenesKnown /\ P!LaunchesCounted
  BY SceneKnows
<1>5. about = "loads" => L!TypeOK /\ L!LoadsKnown /\ L!MeterKnown
  BY LoadKnows
<1>6. about = "devices" => G!TypeOK /\ G!FaultsKnown /\ G!ScopesAreTrue /\ G!RequestsAreReadable
  BY DeviceKnows
<1> QED
  BY <1>1, <1>2, <1>3, <1>4, <1>5, <1>6 DEF ConsumerKnows, ActsArriveOnce

(* A consumer that takes every event of the alarm, the keys and contacts,  *)
(* the shutters and locks, the scenarios, the loads or the devices knows   *)
(* its plant as it is whenever no event is under way, whatever the plant   *)
(* is made of and however many events are under way at once: the events    *)
(* (OWNAlarmEvent, OWNCENPlusEvent and their kind) leave nothing out and   *)
(* say nothing twice.                                                      *)
THEOREM PlantIsKnown == Spec => []ConsumerKnows
<1>1. Init => FollowersInv
  BY FollowersAssumption, FollowersStart
<1>2. FollowersInv /\ [Next]_vars => FollowersInv'
  BY FollowersAssumption, FollowersStep
<1>3. FollowersInv => ConsumerKnows
  BY FollowersAssumption, FollowersKnow
<1> QED
  BY <1>1, <1>2, <1>3, PTL DEF Spec

(* At any time, with any events still under way: no key is seen pressed    *)
(* and no module seen launched more often than it was, and as often once   *)
(* every event is taken; a lock is carried out at the address its caller   *)
(* meant, the answer of a device tells which device it is from, and what a *)
(* request builder asks for is answered with something the decoder reads   *)
(* (cen.py, scenario.py, actuator_lock.py, heating.py).                    *)
THEOREM ActsOnce == Spec => []ActsArriveOnce
<1>1. Init => FollowersInv
  BY FollowersAssumption, FollowersStart
<1>2. FollowersInv /\ [Next]_vars => FollowersInv'
  BY FollowersAssumption, FollowersStep
<1>3. FollowersInv => ActsArriveOnce
  BY FollowersAssumption, FollowersKnow
<1> QED
  BY <1>1, <1>2, <1>3, PTL DEF Spec
=============================================================================

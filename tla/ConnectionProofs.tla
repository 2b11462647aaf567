--------------------------- MODULE ConnectionProofs --------------------------
(***************************************************************************)
(* What is proved of the parts around the two sessions: the password, a    *)
(* session that several tasks use, the TCP transport, the profile of a     *)
(* gateway and how it is found.                                            *)
(***************************************************************************)
EXTENDS Auth, SessionOverlap, TcpTransport, GatewayProfile, Discovery, SequenceTheorems, TLAPS

(* The bits that a shift to the right loses are those that the other       *)
(* register shifts in: together they turn the word round by k places.      *)
LEMMA RightShiftsRotate ==
  ASSUME NEW n \in Words, NEW k \in 1 .. 31
  PROVE  Or(Shr(Mask(n, k, 31), k), Shl(n, 32 - k)) = Rotated(n, k)
<1> DEFINE a == Shr(Mask(n, k, 31), k)
           b == Shl(n, 32 - k)
<1>1. \A i \in Bits : n[i] = 0 \/ n[i] = 1
  BY DEF Words
<1>2. \A i \in Bits : a[i] = IF i + k <= 31 THEN n[i + k] ELSE 0
  BY DEF Shr, Mask, Bits
<1>3. \A i \in Bits : b[i] = IF i >= 32 - k THEN n[i + k - 32] ELSE 0
  <2> SUFFICES ASSUME NEW i \in Bits
               PROVE  b[i] = IF i >= 32 - k THEN n[i + k - 32] ELSE 0
    OBVIOUS
  <2>1. i - (32 - k) = i + k - 32
    BY DEF Bits
  <2> QED
    BY <2>1 DEF Shl
<1>4. ASSUME NEW i \in Bits
      PROVE  (IF a[i] = 1 \/ b[i] = 1 THEN 1 ELSE 0) = n[(i + k) % 32]
  <2>1. CASE i + k <= 31
    <3>1. (i + k) % 32 = i + k /\ i + k \in Bits /\ ~(i >= 32 - k)
      BY <2>1 DEF Bits
    <3> HIDE DEF a, b
    <3> QED
      BY <1>1, <1>2, <1>3, <2>1, <3>1
  <2>2. CASE ~(i + k <= 31)
    <3>1. (i + k) % 32 = i + k - 32 /\ i + k - 32 \in Bits /\ i >= 32 - k
      BY <2>2 DEF Bits
    <3> HIDE DEF a, b
    <3> QED
      BY <1>1, <1>2, <1>3, <2>2, <3>1
  <2> QED
    BY <2>1, <2>2
<1> HIDE DEF a, b
<1>5. Or(a, b) = [i \in Bits |-> n[(i + k) % 32]]
  BY <1>4 DEF Or
<1> QED
  BY <1>5 DEF Rotated, a, b

(* The same to the left. *)
LEMMA LeftShiftsRotate ==
  ASSUME NEW n \in Words, NEW k \in 1 .. 31
  PROVE  Or(Shl(n, k), Shr(n, 32 - k)) = Rotated(n, 32 - k)
<1> DEFINE a == Shl(n, k)
           b == Shr(n, 32 - k)
<1>1. \A i \in Bits : n[i] = 0 \/ n[i] = 1
  BY DEF Words
<1>2. \A i \in Bits : a[i] = IF i >= k THEN n[i - k] ELSE 0
  BY DEF Shl
<1>3. \A i \in Bits : b[i] = IF i + (32 - k) <= 31 THEN n[i + (32 - k)] ELSE 0
  BY DEF Shr
<1>4. ASSUME NEW i \in Bits
      PROVE  (IF a[i] = 1 \/ b[i] = 1 THEN 1 ELSE 0) = n[(i + (32 - k)) % 32]
  <2>1. CASE i >= k
    <3>1. (i + (32 - k)) % 32 = i - k /\ i - k \in Bits /\ ~(i + (32 - k) <= 31)
      BY <2>1 DEF Bits
    <3> HIDE DEF a, b
    <3> QED
      BY <1>1, <1>2, <1>3, <2>1, <3>1
  <2>2. CASE ~(i >= k)
    <3>1. (i + (32 - k)) % 32 = i + (32 - k) /\ i + (32 - k) \in Bits /\ i + (32 - k) <= 31
      BY <2>2 DEF Bits
    <3> HIDE DEF a, b
    <3> QED
      BY <1>1, <1>2, <1>3, <2>2, <3>1
  <2> QED
    BY <2>1, <2>2
<1> HIDE DEF a, b
<1>5. Or(a, b) = [i \in Bits |-> n[(i + (32 - k)) % 32]]
  BY <1>4 DEF Or
<1> QED
  BY <1>5 DEF Rotated, a, b

(* The digits that turn the word round, 1 to 6: one row of the two tables   *)
(* each.                                                                    *)
LEMMA RotatingDigits ==
  ASSUME NEW n \in Words, NEW d \in {1, 2, 3, 4, 5, 6}
  PROVE  Together(d, n) = Meaning(d, n)
<1>1. CASE d = 1
  <2>1. Registers(1, n) = <<Shr(Mask(n, 7, 31), 7), Shl(n, 32 - 7)>>
    BY 32 - 7 = 25 DEF Registers, RegisterTable
  <2>2. Meaning(1, n) = Rotated(n, 7)
    BY 32 - 7 = 25 DEF Meaning, Meanings
  <2>3. Or(Registers(1, n)[1], Registers(1, n)[2]) = Rotated(n, 7)
    BY <2>1, RightShiftsRotate, 7 \in 1 .. 31
  <2> QED
    BY <1>1, <2>2, <2>3 DEF Together
<1>2. CASE d = 2
  <2>1. Registers(2, n) = <<Shr(Mask(n, 4, 31), 4), Shl(n, 32 - 4)>>
    BY 32 - 4 = 28 DEF Registers, RegisterTable
  <2>2. Meaning(2, n) = Rotated(n, 4)
    BY 32 - 4 = 28 DEF Meaning, Meanings
  <2>3. Or(Registers(2, n)[1], Registers(2, n)[2]) = Rotated(n, 4)
    BY <2>1, RightShiftsRotate, 4 \in 1 .. 31
  <2> QED
    BY <1>2, <2>2, <2>3 DEF Together
<1>3. CASE d = 3
  <2>1. Registers(3, n) = <<Shr(Mask(n, 3, 31), 3), Shl(n, 32 - 3)>>
    BY 32 - 3 = 29 DEF Registers, RegisterTable
  <2>2. Meaning(3, n) = Rotated(n, 3)
    BY 32 - 3 = 29 DEF Meaning, Meanings
  <2>3. Or(Registers(3, n)[1], Registers(3, n)[2]) = Rotated(n, 3)
    BY <2>1, RightShiftsRotate, 3 \in 1 .. 31
  <2> QED
    BY <1>3, <2>2, <2>3 DEF Together
<1>4. CASE d = 4
  <2>1. Registers(4, n) = <<Shl(n, 1), Shr(n, 32 - 1)>>
    BY 32 - 1 = 31 DEF Registers, RegisterTable
  <2>2. Meaning(4, n) = Rotated(n, 32 - 1)
    BY 32 - 1 = 31 DEF Meaning, Meanings
  <2>3. Or(Registers(4, n)[1], Registers(4, n)[2]) = Rotated(n, 32 - 1)
    BY <2>1, LeftShiftsRotate, 1 \in 1 .. 31
  <2> QED
    BY <1>4, <2>2, <2>3 DEF Together
<1>5. CASE d = 5
  <2>1. Registers(5, n) = <<Shl(n, 5), Shr(n, 32 - 5)>>
    BY 32 - 5 = 27 DEF Registers, RegisterTable
  <2>2. Meaning(5, n) = Rotated(n, 32 - 5)
    BY 32 - 5 = 27 DEF Meaning, Meanings
  <2>3. Or(Registers(5, n)[1], Registers(5, n)[2]) = Rotated(n, 32 - 5)
    BY <2>1, LeftShiftsRotate, 5 \in 1 .. 31
  <2> QED
    BY <1>5, <2>2, <2>3 DEF Together
<1>6. CASE d = 6
  <2>1. Registers(6, n) = <<Shl(n, 12), Shr(n, 32 - 12)>>
    BY 32 - 12 = 20 DEF Registers, RegisterTable
  <2>2. Meaning(6, n) = Rotated(n, 32 - 12)
    BY 32 - 12 = 20 DEF Meaning, Meanings
  <2>3. Or(Registers(6, n)[1], Registers(6, n)[2]) = Rotated(n, 32 - 12)
    BY <2>1, LeftShiftsRotate, 12 \in 1 .. 31
  <2> QED
    BY <1>6, <2>2, <2>3 DEF Together
<1> QED
  BY <1>1, <1>2, <1>3, <1>4, <1>5, <1>6

(* Digit 7 turns the lower three bytes round and leaves none twice: the     *)
(* bytes, from the top, are those numbered 0, 3, 1 and 2.                   *)
LEMMA Digit7 ==
  ASSUME NEW n \in Words
  PROVE  Together(7, n) = Meaning(7, n)
<1> DEFINE a == Or(Mask(n, 8, 15), Or(Shl(Mask(n, 0, 7), 24), Shr(Mask(n, 16, 23), 16)))
           b == Shr(Mask(n, 24, 31), 8)
           from(i) == (8 * <<0, 3, 1, 2>>[4 - (i \div 8)]) + (i % 8)
<1>1. \A i \in Bits : n[i] = 0 \/ n[i] = 1
  BY DEF Words
<1>2. Together(7, n) = Or(a, b)
  <2>1. Registers(7, n) = <<a, b>>
    BY DEF Registers, RegisterTable
  <2> HIDE DEF a, b
  <2> QED
    BY <2>1 DEF Together
<1>3. Meaning(7, n) = [i \in Bits |-> n[from(i)]]
  BY DEF Meaning, Meanings, Bytes
<1>4. ASSUME NEW i \in Bits
      PROVE  (IF a[i] = 1 \/ b[i] = 1 THEN 1 ELSE 0) = n[from(i)]
  <2>1. CASE i \in 0 .. 7
    <3>1. from(i) = i + 16 /\ i + 16 \in Bits
      BY <2>1 DEF Bits
    <3>2. a[i] = n[i + 16] /\ b[i] = 0
      BY <1>1, <2>1 DEF Or, Shl, Shr, Mask, Bits
    <3> HIDE DEF a, b, from
    <3> QED
      BY <1>1, <3>1, <3>2
  <2>2. CASE i \in 8 .. 15
    <3>1. from(i) = i /\ i \in Bits
      BY <2>2 DEF Bits
    <3>2. a[i] = n[i] /\ b[i] = 0
      BY <1>1, <2>2 DEF Or, Shl, Shr, Mask, Bits
    <3> HIDE DEF a, b, from
    <3> QED
      BY <1>1, <3>1, <3>2
  <2>3. CASE i \in 16 .. 23
    <3>1. from(i) = i + 8 /\ i + 8 \in Bits
      BY <2>3 DEF Bits
    <3>2. a[i] = 0 /\ b[i] = n[i + 8]
      BY <1>1, <2>3 DEF Or, Shl, Shr, Mask, Bits
    <3> HIDE DEF a, b, from
    <3> QED
      BY <1>1, <3>1, <3>2
  <2>4. CASE i \in 24 .. 31
    <3>1. from(i) = i - 24 /\ i - 24 \in Bits
      BY <2>4 DEF Bits
    <3>2. a[i] = n[i - 24] /\ b[i] = 0
      BY <1>1, <2>4 DEF Or, Shl, Shr, Mask, Bits
    <3> HIDE DEF a, b, from
    <3> QED
      BY <1>1, <3>1, <3>2
  <2> QED
    BY <2>1, <2>2, <2>3, <2>4 DEF Bits
<1>5. Or(a, b) = [i \in Bits |-> n[from(i)]]
  <2> HIDE DEF a, b, from
  <2> QED
    BY <1>4 DEF Or
<1> QED
  BY <1>2, <1>3, <1>5

(* Digit 8 brings the lower half to the top and swaps the bytes of the      *)
(* upper one.                                                               *)
LEMMA Digit8 ==
  ASSUME NEW n \in Words
  PROVE  Together(8, n) = Meaning(8, n)
<1> DEFINE a == Or(Shl(Mask(n, 0, 15), 16), Shr(n, 24))
           b == Shr(Mask(n, 16, 23), 8)
           from(i) == (8 * <<1, 0, 2, 3>>[4 - (i \div 8)]) + (i % 8)
<1>1. \A i \in Bits : n[i] = 0 \/ n[i] = 1
  BY DEF Words
<1>2. Together(8, n) = Or(a, b)
  <2>1. Registers(8, n) = <<a, b>>
    BY DEF Registers, RegisterTable
  <2> HIDE DEF a, b
  <2> QED
    BY <2>1 DEF Together
<1>3. Meaning(8, n) = [i \in Bits |-> n[from(i)]]
  BY DEF Meaning, Meanings, Bytes
<1>4. ASSUME NEW i \in Bits
      PROVE  (IF a[i] = 1 \/ b[i] = 1 THEN 1 ELSE 0) = n[from(i)]
  <2>1. CASE i \in 0 .. 7
    <3>1. from(i) = i + 24 /\ i + 24 \in Bits
      BY <2>1 DEF Bits
    <3>2. a[i] = n[i + 24] /\ b[i] = 0
      BY <1>1, <2>1 DEF Or, Shl, Shr, Mask, Bits
    <3> HIDE DEF a, b, from
    <3> QED
      BY <1>1, <3>1, <3>2
  <2>2. CASE i \in 8 .. 15
    <3>1. from(i) = i + 8 /\ i + 8 \in Bits
      BY <2>2 DEF Bits
    <3>2. a[i] = 0 /\ b[i] = n[i + 8]
      BY <1>1, <2>2 DEF Or, Shl, Shr, Mask, Bits
    <3> HIDE DEF a, b, from
    <3> QED
      BY <1>1, <3>1, <3>2
  <2>3. CASE i \in 16 .. 23
    <3>1. from(i) = i - 16 /\ i - 16 \in Bits
      BY <2>3 DEF Bits
    <3>2. a[i] = n[i - 16] /\ b[i] = 0
      BY <1>1, <2>3 DEF Or, Shl, Shr, Mask, Bits
    <3> HIDE DEF a, b, from
    <3> QED
      BY <1>1, <3>1, <3>2
  <2>4. CASE i \in 24 .. 31
    <3>1. from(i) = i - 16 /\ i - 16 \in Bits
      BY <2>4 DEF Bits
    <3>2. a[i] = n[i - 16] /\ b[i] = 0
      BY <1>1, <2>4 DEF Or, Shl, Shr, Mask, Bits
    <3> HIDE DEF a, b, from
    <3> QED
      BY <1>1, <3>1, <3>2
  <2> QED
    BY <2>1, <2>2, <2>3, <2>4 DEF Bits
<1>5. Or(a, b) = [i \in Bits |-> n[from(i)]]
  <2> HIDE DEF a, b, from
  <2> QED
    BY <1>4 DEF Or
<1> QED
  BY <1>2, <1>3, <1>5

(* What a digit does to a word of 32 bits is what the digit means, and a    *)
(* word of 32 bits again.                                                   *)
THEOREM DigitsMean ==
  ASSUME NEW n \in Words, NEW d \in 0 .. 9
  PROVE  Together(d, n) = Meaning(d, n) /\ Together(d, n) \in Words
<1>1. CASE d \in {1, 2, 3, 4, 5, 6}
  <2>1. Together(d, n) = Meaning(d, n)
    BY <1>1, RotatingDigits
  <2>2. Together(d, n) = Or(Registers(d, n)[1], Registers(d, n)[2])
    BY <1>1 DEF Together
  <2> QED
    BY <2>1, <2>2 DEF Or, Words
<1>2. CASE d \in {7, 8}
  <2>1. Together(d, n) = Meaning(d, n)
    BY <1>2, Digit7, Digit8
  <2>2. Together(d, n) = Or(Registers(d, n)[1], Registers(d, n)[2])
    BY <1>2 DEF Together
  <2> QED
    BY <2>1, <2>2 DEF Or, Words
<1>3. CASE d = 9
  <2>1. Together(9, n) = Not(n) /\ Meaning(9, n) = Not(n)
    BY DEF Together, Registers, RegisterTable, Meaning, Meanings
  <2>2. Not(n) \in Words
    BY DEF Not, Words
  <2> QED
    BY <1>3, <2>1, <2>2
<1>4. CASE d = 0
  BY <1>4 DEF Together, Registers, Meaning
<1> QED
  BY <1>1, <1>2, <1>3, <1>4

(* The registers agree after every digit; before the first digit that is    *)
(* not a zero they are empty and the meaning is the password itself.        *)
RegistersStart ==
  /\ start = AllZeros
  /\ num2 = num1
  /\ start => num1 = Zero /\ meant = password

AuthInv == AuthTypeOK /\ RegistersStart /\ AnswerIsMeant

LEMMA AuthInvInit == AuthInit => AuthInv
<1> SUFFICES ASSUME AuthInit PROVE AuthInv
  OBVIOUS
<1>1. password \in Words /\ Zero \in Words
  BY AuthAssumption DEF AuthInit, Zero, Words
<1>2. AuthTypeOK
  BY <1>1, AuthAssumption DEF AuthInit, AuthTypeOK
<1>3. RegistersStart /\ AnswerIsMeant
  BY DEF AuthInit, RegistersStart, AnswerIsMeant, AllZeros
<1> QED
  BY <1>2, <1>3 DEF AuthInv

LEMMA AuthInvStep == AuthInv /\ [AuthNext]_authVars => AuthInv'
<1> SUFFICES ASSUME AuthInv, [AuthNext]_authVars PROVE AuthInv'
  OBVIOUS
<1>1. CASE UNCHANGED authVars
  BY <1>1 DEF AuthInv, AuthTypeOK, RegistersStart, AnswerIsMeant, AllZeros, authVars
<1>2. ASSUME NEW d \in 0 .. 9, Digit(d) PROVE AuthInv'
  <2> DEFINE w == IF d # 0 /\ start THEN password ELSE num2
  <2>1. password \in Words
    BY AuthAssumption DEF AuthInv, AuthTypeOK
  <2>2. w \in Words
    BY <2>1 DEF AuthInv, AuthTypeOK, RegistersStart
  <2>3. num1' = Together(d, w) /\ num2' = num1' /\ meant' = Meaning(d, meant)
    BY <1>2 DEF Digit
  <2>4. nonce' = Append(nonce, d) /\ start' = (start /\ d = 0) /\ password' = password
    BY <1>2 DEF Digit
  <2> HIDE DEF w
  <2>5. Together(d, w) = Meaning(d, w) /\ Together(d, w) \in Words
    BY <2>2, DigitsMean
  <2>6. Together(d, meant) = Meaning(d, meant) /\ Together(d, meant) \in Words
    BY DigitsMean DEF AuthInv, AuthTypeOK
  <2>7. AuthTypeOK'
    <3>1. nonce' \in Seq(0 .. 9) /\ Len(nonce') = Len(nonce) + 1
      BY <2>4 DEF AuthInv, AuthTypeOK
    <3>2. Len(nonce') <= MaxDigits
      <4>1. Len(nonce) < MaxDigits /\ Len(nonce) \in Nat
        BY <1>2 DEF Digit, AuthInv, AuthTypeOK
      <4> QED
        BY <3>1, <4>1, AuthAssumption
    <3>3. num1' \in Words /\ num2' \in Words /\ meant' \in Words
      BY <2>3, <2>5, <2>6
    <3>4. start' \in BOOLEAN /\ password' \in Passwords
      BY <2>4 DEF AuthInv, AuthTypeOK
    <3> QED
      BY <3>1, <3>2, <3>3, <3>4 DEF AuthTypeOK
  <2>8. AllZeros' <=> AllZeros /\ d = 0
    <3>1. nonce \in Seq(0 .. 9)
      BY DEF AuthInv, AuthTypeOK
    <3> QED
      BY <2>4, <3>1 DEF AllZeros
  <2>9. d = 0 => num1' = w /\ meant' = meant
    BY <2>3 DEF Together, Registers, Meaning
  <2>10. CASE start
    <3>1. d # 0 => w = meant
      BY <2>10 DEF w, AuthInv, RegistersStart
    <3>2. d = 0 => w = Zero
      BY <2>10 DEF w, AuthInv, RegistersStart
    <3> QED
      BY <2>3, <2>4, <2>5, <2>7, <2>8, <2>9, <2>10, <3>1, <3>2
      DEF AuthInv, RegistersStart, AnswerIsMeant
  <2>11. CASE ~start
    <3>1. w = meant
      BY <2>11 DEF w, AuthInv, RegistersStart, AnswerIsMeant
    <3> QED
      BY <2>3, <2>4, <2>5, <2>7, <2>8, <2>11, <3>1 DEF AuthInv, RegistersStart, AnswerIsMeant
  <2> QED
    BY <2>10, <2>11 DEF AuthInv, AuthTypeOK
<1> QED
  BY <1>1, <1>2 DEF AuthNext

(* Whatever the password and the digits, the registers stay words of 32     *)
(* bits.                                                                    *)
THEOREM RegistersAreWords == AuthSpec => []AuthTypeOK
<1>1. AuthInv => AuthTypeOK
  BY DEF AuthInv
<1> QED
  BY AuthInvInit, AuthInvStep, <1>1, PTL DEF AuthSpec

(* The answer is the password, moved and turned as the digits of the nonce  *)
(* mean, for every password below 2^32 and every nonce of decimal digits.   *)
THEOREM AuthAnswerIsMeant == AuthSpec => []AnswerIsMeant
<1>1. AuthInv => AnswerIsMeant
  BY DEF AuthInv
<1> QED
  BY AuthInvInit, AuthInvStep, <1>1, PTL DEF AuthSpec

-----------------------------------------------------------------------------
(* connect() and send() of tasks that share a command session. *)

Places == Connecting \cup {"idle", "queued", "holding", "answer", "ok", "failed", "crashed"}

OverlapTypes ==
  /\ pc \in [Tasks -> Places] /\ inSend \in [Tasks -> BOOLEAN] /\ limit \in [Tasks -> Nat]
  /\ lock \in Tasks \cup {Nobody} /\ override \in {0, 1} /\ cooling \in BOOLEAN
  /\ failed \in Nat /\ begun \in Nat

(* t is in a connect() that its own send() has called. *)
Reconnects(t) == inSend[t]
HoldsLock(t) == pc[t] \in {"holding", "answer"} \/ Reconnects(t)

(* The failures that the consumer's connect()s allow, and the one that      *)
(* began the cooldown.                                                      *)
Allowed == failed <= begun + IF cooling THEN 1 ELSE 0

(* A task that reconnects does it with the lock, with a single attempt, and *)
(* not within the cooldown: so at most one does.                            *)
OverlapInv ==
  /\ OverlapTypes
  /\ \A t \in Tasks : lock = t <=> HoldsLock(t)
  /\ OverrideIsScoped
  /\ Allowed
  /\ \A t \in Tasks : Reconnects(t) => pc[t] \in Connecting /\ limit[t] = 1 /\ ~cooling

(* What a step of t may do: to t alone, to the lock as its owner or as the  *)
(* one that is granted it, and to what belongs to the owner of the lock.    *)
OwnStep(t) ==
  /\ \A u \in Tasks \ {t} : pc'[u] = pc[u] /\ inSend'[u] = inSend[u] /\ limit'[u] = limit[u]
  /\ \/ lock' = lock
     \/ lock = t /\ lock' = Nobody
     \/ lock = Nobody /\ lock' = t
  /\ lock' = t <=> HoldsLock(t)'
  /\ IF lock = t \/ lock' = t THEN override' = 1 <=> Reconnects(t)' ELSE override' = override
  /\ Allowed'
  /\ cooling' => cooling \/ lock = t
  /\ Reconnects(t)' => pc'[t] \in Connecting /\ limit'[t] = 1 /\ ~cooling'

LEMMA OwnStepKeeps ==
  ASSUME OverlapInv, NEW t \in Tasks, OwnStep(t), OverlapTypes'
  PROVE  OverlapInv'
<1>1. \A u \in Tasks \ {t} : HoldsLock(u)' = HoldsLock(u) /\ Reconnects(u)' = Reconnects(u)
  BY DEF OwnStep, HoldsLock, Reconnects
<1>2. \A u \in Tasks \ {t} : lock' = u <=> lock = u
  BY OverlapAssumption DEF OwnStep, Tasks
<1>3. \A u \in Tasks : lock' = u <=> HoldsLock(u)'
  BY <1>1, <1>2 DEF OwnStep, OverlapInv
<1>4. OverrideIsScoped <=> ((override = 1) <=> \E u \in Tasks : Reconnects(u))
  BY DEF OverrideIsScoped, Reconnects
<1>5. OverrideIsScoped' <=> ((override' = 1) <=> \E u \in Tasks : Reconnects(u)')
  BY DEF OverrideIsScoped, Reconnects
<1>6. OverrideIsScoped'
  <2>1. CASE lock = t \/ lock' = t
    <3>1. \A u \in Tasks \ {t} : ~Reconnects(u)
      BY <2>1, OverlapAssumption DEF OverlapInv, OwnStep, HoldsLock, Tasks
    <3> QED
      BY <1>1, <1>5, <2>1, <3>1 DEF OwnStep
  <2>2. CASE ~(lock = t \/ lock' = t)
    <3>1. ~Reconnects(t) /\ ~Reconnects(t)' /\ override' = override
      BY <1>3, <2>2 DEF OverlapInv, OwnStep, HoldsLock
    <3> QED
      BY <1>1, <1>4, <1>5, <3>1 DEF OverlapInv
  <2> QED
    BY <2>1, <2>2
<1>7. \A u \in Tasks : Reconnects(u)' => pc'[u] \in Connecting /\ limit'[u] = 1 /\ ~cooling'
  <2> SUFFICES ASSUME NEW u \in Tasks \ {t}, Reconnects(u)'
               PROVE  pc'[u] \in Connecting /\ limit'[u] = 1 /\ ~cooling'
    BY DEF OwnStep
  <2>1. Reconnects(u) /\ pc[u] \in Connecting /\ limit[u] = 1 /\ ~cooling
    BY <1>1 DEF OverlapInv
  <2>2. lock # t
    BY <2>1 DEF OverlapInv, HoldsLock
  <2> QED
    BY <2>1, <2>2 DEF OwnStep
<1> QED
  BY <1>3, <1>6, <1>7 DEF OverlapInv, OwnStep

(* t goes on, with the lock or without it as before. *)
Walks(t, to) ==
  /\ pc' = [pc EXCEPT ![t] = to]
  /\ UNCHANGED <<inSend, limit, lock, override, cooling, failed, begun>>
(* The consumer's own connect() is left. *)
Departs(t, to) ==
  /\ pc' = [pc EXCEPT ![t] = to]
  /\ inSend' = [inSend EXCEPT ![t] = FALSE] /\ limit' = [limit EXCEPT ![t] = 0]
  /\ UNCHANGED <<lock, override, cooling, failed, begun>>
(* send() returns, or it gives up its own connect(). *)
Leaves(t, to) ==
  /\ pc' = [pc EXCEPT ![t] = to] /\ lock' = Nobody
  /\ UNCHANGED <<inSend, limit, override, cooling, failed, begun>>
GivesUp(t) ==
  /\ pc' = [pc EXCEPT ![t] = "failed"] /\ lock' = Nobody
  /\ inSend' = [inSend EXCEPT ![t] = FALSE] /\ limit' = [limit EXCEPT ![t] = 0]
  /\ override' = 0 /\ cooling' = TRUE /\ failed' = failed + 1 /\ UNCHANGED begun

(* The override belongs to the task with the lock. *)
LEMMA OverrideOfHolder ==
  ASSUME OverlapInv, NEW t \in Tasks, lock = t
  PROVE  override = 1 <=> Reconnects(t)
<1>1. (override = 1) = \E u \in Tasks : Reconnects(u)
  BY DEF OverlapInv, OverrideIsScoped, Reconnects
<1>2. ASSUME NEW u \in Tasks, Reconnects(u) PROVE u = t
  BY <1>2 DEF OverlapInv, HoldsLock
<1> QED
  BY <1>1, <1>2

LEMMA WalkStep ==
  ASSUME OverlapInv, NEW t \in Tasks, NEW to \in Places, Walks(t, to),
         \/ pc[t] \in Connecting /\ to \in Connecting
         \/ pc[t] \in {"holding", "answer"} /\ to \in {"holding", "answer"}
         \/ ~HoldsLock(t) /\ to \in {"queued", "failed"}
  PROVE  OverlapTypes' /\ OwnStep(t)
<1>1. pc'[t] = to /\ \A u \in Tasks \ {t} : pc'[u] = pc[u]
  BY DEF Walks, OverlapInv, OverlapTypes
<1>2. OverlapTypes'
  BY DEF Walks, OverlapInv, OverlapTypes
<1>3. UNCHANGED <<inSend, limit, lock, override, cooling, failed, begun>>
  BY DEF Walks
<1>4. HoldsLock(t)' = HoldsLock(t) /\ Reconnects(t)' = Reconnects(t)
  BY <1>1, <1>3 DEF HoldsLock, Reconnects, Connecting
<1>5. Reconnects(t) => pc'[t] \in Connecting /\ limit'[t] = 1 /\ ~cooling'
  BY <1>1, <1>3 DEF OverlapInv, Reconnects, HoldsLock, Connecting
<1>6. Allowed' /\ (lock' = t <=> HoldsLock(t)')
  BY <1>3, <1>4 DEF OverlapInv, Allowed
<1>7. lock = t => (override = 1 <=> Reconnects(t))
  BY OverrideOfHolder
<1> QED
  BY <1>1, <1>2, <1>3, <1>4, <1>5, <1>6, <1>7 DEF OwnStep

LEMMA DepartStep ==
  ASSUME OverlapInv, NEW t \in Tasks, NEW to \in {"queued", "failed"}, Departs(t, to),
         pc[t] \in Connecting, ~inSend[t]
  PROVE  OverlapTypes' /\ OwnStep(t)
<1>1. /\ pc'[t] = to /\ ~inSend'[t]
      /\ \A u \in Tasks \ {t} : pc'[u] = pc[u] /\ inSend'[u] = inSend[u] /\ limit'[u] = limit[u]
  BY DEF Departs, OverlapInv, OverlapTypes
<1>2. OverlapTypes'
  BY DEF Departs, OverlapInv, OverlapTypes, Places
<1>3. ~HoldsLock(t) /\ ~HoldsLock(t)' /\ ~Reconnects(t)'
  BY <1>1 DEF HoldsLock, Reconnects, Connecting
<1>4. UNCHANGED <<lock, override, cooling, failed, begun>>
  BY DEF Departs
<1>5. lock # t /\ Allowed'
  BY <1>3, <1>4 DEF OverlapInv, Allowed
<1> QED
  BY <1>1, <1>2, <1>3, <1>4, <1>5 DEF OwnStep

LEMMA LeaveStep ==
  ASSUME OverlapInv, NEW t \in Tasks, NEW to \in {"ok", "failed"}, Leaves(t, to),
         pc[t] \in {"holding", "answer"}
  PROVE  OverlapTypes' /\ OwnStep(t)
<1>1. pc'[t] = to /\ \A u \in Tasks \ {t} : pc'[u] = pc[u]
  BY DEF Leaves, OverlapInv, OverlapTypes
<1>2. OverlapTypes'
  BY DEF Leaves, OverlapInv, OverlapTypes, Places
<1>3. UNCHANGED <<inSend, limit, override, cooling, failed, begun>> /\ lock' = Nobody
  BY DEF Leaves
<1>4. ~inSend[t]
  BY DEF OverlapInv, Reconnects, Connecting
<1>5. ~HoldsLock(t)' /\ ~Reconnects(t)' /\ HoldsLock(t) /\ ~Reconnects(t)
  BY <1>1, <1>3, <1>4 DEF HoldsLock, Reconnects
<1>6. lock = t /\ Nobody # t
  BY <1>5, OverlapAssumption DEF OverlapInv, Tasks
<1>7. override # 1
  BY <1>5, <1>6, OverrideOfHolder
<1>8. Allowed'
  BY <1>3 DEF OverlapInv, Allowed
<1> QED
  BY <1>1, <1>2, <1>3, <1>5, <1>6, <1>7, <1>8 DEF OwnStep

LEMMA GiveUpStep ==
  ASSUME OverlapInv, NEW t \in Tasks, Reconnects(t), GivesUp(t)
  PROVE  OverlapTypes' /\ OwnStep(t)
<1>1. /\ pc'[t] = "failed" /\ ~inSend'[t]
      /\ \A u \in Tasks \ {t} : pc'[u] = pc[u] /\ inSend'[u] = inSend[u] /\ limit'[u] = limit[u]
  BY DEF GivesUp, OverlapInv, OverlapTypes
<1>2. OverlapTypes'
  BY DEF GivesUp, OverlapInv, OverlapTypes, Places
<1>3. ~HoldsLock(t)' /\ ~Reconnects(t)' /\ HoldsLock(t)
  BY <1>1 DEF HoldsLock, Reconnects
<1>4. lock = t /\ lock' = Nobody /\ Nobody # t
  BY <1>3, OverlapAssumption DEF OverlapInv, GivesUp, Tasks
<1>5. Allowed'
  BY DEF GivesUp, OverlapInv, OverlapTypes, Allowed
<1>6. override' = 0 /\ cooling'
  BY DEF GivesUp
<1> QED
  BY <1>1, <1>2, <1>3, <1>4, <1>5, <1>6 DEF OwnStep

(* Every step of a task is one of its own. *)
LEMMA OwnSteps ==
  ASSUME OverlapInv, NEW t \in Tasks, Step(t)
  PROVE  OverlapTypes' /\ OwnStep(t)
<1> USE DEF Go, flags, connectCall
<1>1. CASE Connect(t)
  <2> DEFINE attempts == IF override = 1 THEN 1 ELSE MaxConnectAttempts
  <2>1. /\ pc[t] = "idle" /\ pc' = [pc EXCEPT ![t] = "opening"]
        /\ inSend' = [inSend EXCEPT ![t] = FALSE] /\ limit' = [limit EXCEPT ![t] = attempts]
        /\ cooling' = FALSE /\ begun' = begun + 1 /\ UNCHANGED <<lock, override, failed>>
    BY <1>1 DEF Connect, Begin
  <2>2. attempts \in Nat
    BY OverlapAssumption
  <2> HIDE DEF attempts
  <2>3. OverlapTypes'
    <3>1. pc' \in [Tasks -> Places] /\ inSend' \in [Tasks -> BOOLEAN] /\ limit' \in [Tasks -> Nat]
      BY <2>1, <2>2 DEF OverlapInv, OverlapTypes, Places, Connecting
    <3>2. cooling' \in BOOLEAN /\ UNCHANGED <<lock, override, failed>>
      BY <2>1
    <3>3. begun' = begun + 1
      BY <2>1
    <3>4. begun' \in Nat
      BY <3>3 DEF OverlapInv, OverlapTypes
    <3> QED
      BY <3>1, <3>2, <3>4 DEF OverlapInv, OverlapTypes
  <2>4. /\ pc'[t] = "opening" /\ ~inSend'[t]
        /\ \A u \in Tasks \ {t} : pc'[u] = pc[u] /\ inSend'[u] = inSend[u] /\ limit'[u] = limit[u]
    BY <2>1 DEF OverlapInv, OverlapTypes
  <2>5. ~HoldsLock(t) /\ ~HoldsLock(t)' /\ ~Reconnects(t)' /\ lock # t
    BY <2>1, <2>4 DEF HoldsLock, Reconnects, Connecting, OverlapInv
  <2>6. Allowed'
    BY <2>1 DEF OverlapInv, OverlapTypes, Allowed
  <2>7. ~cooling' /\ lock' = lock /\ override' = override
    BY <2>1
  <2> HIDE <2>1
  <2> QED
    BY <2>3, <2>4, <2>5, <2>6, <2>7 DEF OwnStep
<1>2. CASE Reopen(t)
  <2>1. /\ pc[t] = "holding" /\ pc' = [pc EXCEPT ![t] = "opening"] /\ ~cooling
        /\ inSend' = [inSend EXCEPT ![t] = TRUE] /\ limit' = [limit EXCEPT ![t] = 1]
        /\ cooling' = FALSE /\ override' = 1 /\ UNCHANGED <<lock, failed, begun>>
    BY <1>2 DEF Reopen, Begin
  <2>2. OverlapTypes'
    BY <2>1 DEF OverlapInv, OverlapTypes, Places, Connecting
  <2>3. /\ pc'[t] = "opening" /\ inSend'[t] /\ limit'[t] = 1
        /\ \A u \in Tasks \ {t} : pc'[u] = pc[u] /\ inSend'[u] = inSend[u] /\ limit'[u] = limit[u]
    BY <2>1 DEF OverlapInv, OverlapTypes
  <2>4. HoldsLock(t) /\ HoldsLock(t)' /\ Reconnects(t)' /\ lock = t /\ pc'[t] \in Connecting
    BY <2>1, <2>3 DEF HoldsLock, Reconnects, Connecting, OverlapInv
  <2>5. Allowed'
    BY <2>1 DEF OverlapInv, OverlapTypes, Allowed
  <2>6. ~cooling' /\ lock' = lock /\ override' = 1
    BY <2>1
  <2> HIDE <2>1
  <2> QED
    BY <2>2, <2>3, <2>4, <2>5, <2>6 DEF OwnStep
<1>3. CASE StreamsOpened(t) \/ Fails(t) \/ Hello(t)
  <2>1. pc[t] \in Connecting /\ \E to \in {"hello", "failing", "session"} : Walks(t, to)
    BY <1>3 DEF StreamsOpened, Fails, Hello, TakesHello, Walks, Connecting
  <2> QED
    BY <2>1, WalkStep DEF Places, Connecting
<1>4. CASE Negotiated(t)
  <2>1. CASE ~inSend[t]
    <3>1. pc[t] = "session" /\ Departs(t, "queued")
      BY <1>4, <2>1 DEF Negotiated, Return, Leave, Departs
    <3> QED
      BY <2>1, <3>1, DepartStep DEF Connecting
  <2>2. CASE inSend[t]
    <3>1. /\ pc[t] = "session" /\ pc' = [pc EXCEPT ![t] = "holding"]
          /\ inSend' = [inSend EXCEPT ![t] = FALSE] /\ limit' = [limit EXCEPT ![t] = 0]
          /\ override' = 0 /\ cooling' = FALSE /\ failed' = 0 /\ begun' = 0 /\ UNCHANGED lock
      BY <1>4, <2>2 DEF Negotiated, Return, Leave
    <3>2. /\ pc'[t] = "holding" /\ ~inSend'[t]
          /\ \A u \in Tasks \ {t} : pc'[u] = pc[u] /\ inSend'[u] = inSend[u] /\ limit'[u] = limit[u]
      BY <3>1 DEF OverlapInv, OverlapTypes
    <3>3. HoldsLock(t) /\ HoldsLock(t)' /\ ~Reconnects(t)'
      BY <2>2, <3>2 DEF HoldsLock, Reconnects
    <3>4. OverlapTypes' /\ lock = t
      BY <3>1, <3>3 DEF OverlapInv, OverlapTypes, Places
    <3>5. Allowed'
      BY <3>1 DEF Allowed
    <3> QED
      BY <3>1, <3>2, <3>3, <3>4, <3>5 DEF OwnStep
  <2> QED
    BY <2>1, <2>2
<1>5. CASE NegotiatedTooLate(t)
  <2>1. Reconnects(t) /\ GivesUp(t)
    BY <1>5 DEF NegotiatedTooLate, GiveUp, GivesUp, Leave, Reconnects
  <2> QED
    BY <2>1, GiveUpStep
<1>6. CASE AfterFailure(t)
  <2>1. pc[t] = "failing"
    BY <1>6 DEF AfterFailure
  <2>2. \/ Walks(t, "opening")
        \/ ~inSend[t] /\ Departs(t, "failed")
        \/ inSend[t] /\ GivesUp(t)
    BY <1>6 DEF AfterFailure, Walks, Departs, GiveUp, GivesUp, Leave
  <2>3. CASE Walks(t, "opening")
    BY <2>1, <2>3, WalkStep DEF Places, Connecting
  <2>4. CASE ~inSend[t] /\ Departs(t, "failed")
    BY <2>1, <2>4, DepartStep DEF Connecting
  <2>5. CASE inSend[t] /\ GivesUp(t)
    BY <2>5, GiveUpStep DEF Reconnects
  <2> QED
    BY <2>2, <2>3, <2>4, <2>5
<1>7. CASE Crash(t)
  <2>1. /\ pc[t] = "hello" /\ pc' = [pc EXCEPT ![t] = "crashed"]
        /\ inSend' = [inSend EXCEPT ![t] = FALSE] /\ limit' = [limit EXCEPT ![t] = 0]
        /\ lock' = IF lock = t THEN Nobody ELSE lock
        /\ override' = IF inSend[t] THEN 0 ELSE override
        /\ UNCHANGED <<cooling, failed, begun>>
    BY <1>7 DEF Crash, TakesHello, Leave
  <2>2. /\ pc'[t] = "crashed" /\ ~inSend'[t]
        /\ \A u \in Tasks \ {t} : pc'[u] = pc[u] /\ inSend'[u] = inSend[u] /\ limit'[u] = limit[u]
    BY <2>1 DEF OverlapInv, OverlapTypes
  <2>3. /\ ~HoldsLock(t)' /\ ~Reconnects(t)' /\ HoldsLock(t) = inSend[t]
    BY <2>1, <2>2 DEF HoldsLock, Reconnects, OverlapInv, OverlapTypes
  <2>4. lock' # t /\ (lock = t <=> inSend[t])
    BY <2>1, <2>3, OverlapAssumption DEF OverlapInv, Tasks
  <2>5. OverlapTypes'
    BY <2>1 DEF OverlapInv, OverlapTypes, Places
  <2>6. Allowed'
    BY <2>1 DEF OverlapInv, Allowed
  <2> QED
    BY <2>1, <2>2, <2>3, <2>4, <2>5, <2>6 DEF OwnStep
<1>8. CASE CallSend(t)
  <2>1. pc[t] = "idle" /\ Walks(t, "queued")
    BY <1>8 DEF CallSend, Walks
  <2>2. ~HoldsLock(t)
    BY <2>1 DEF OverlapInv, HoldsLock, Reconnects, Connecting
  <2> QED
    BY <2>1, <2>2, WalkStep DEF Places
<1>9. CASE LockGranted(t)
  <2>1. /\ pc[t] = "queued" /\ pc' = [pc EXCEPT ![t] = "holding"] /\ lock = Nobody /\ lock' = t
        /\ UNCHANGED <<inSend, limit, override, cooling, failed, begun>>
    BY <1>9 DEF LockGranted
  <2>2. pc'[t] = "holding" /\ \A u \in Tasks \ {t} : pc'[u] = pc[u]
    BY <2>1 DEF OverlapInv, OverlapTypes
  <2>3. \A u \in Tasks : ~HoldsLock(u) /\ ~Reconnects(u)
    BY <2>1, OverlapAssumption DEF OverlapInv, HoldsLock, Tasks
  <2>4. HoldsLock(t)' /\ ~Reconnects(t)'
    BY <2>1, <2>2, <2>3 DEF HoldsLock, Reconnects
  <2>5. override # 1
    BY <2>3 DEF OverlapInv, OverrideIsScoped, Reconnects
  <2>6. OverlapTypes'
    BY <2>1 DEF OverlapInv, OverlapTypes, Places
  <2>7. Allowed'
    BY <2>1 DEF OverlapInv, Allowed
  <2> QED
    BY <2>1, <2>2, <2>4, <2>5, <2>6, <2>7 DEF OwnStep
<1>10. CASE FailFast(t) \/ CloseAndLeave(t) \/ Answered(t)
  <2>1. pc[t] \in {"holding", "answer"} /\ \E to \in {"ok", "failed"} : Leaves(t, to)
    BY <1>10 DEF FailFast, CloseAndLeave, Answered, Leaves
  <2> QED
    BY <2>1, LeaveStep
<1>11. CASE Write(t)
  <2>1. pc[t] = "holding" /\ Walks(t, "answer")
    BY <1>11 DEF Write, Walks
  <2> QED
    BY <2>1, WalkStep DEF Places
<1>12. CASE DataRead(t)
  <2>1. pc[t] = "answer" /\ UNCHANGED <<pc, inSend, limit, lock, override, cooling, failed, begun>>
    BY <1>12 DEF DataRead, TakesData
  <2>2. pc' = [pc EXCEPT ![t] = "answer"]
    BY <2>1 DEF OverlapInv, OverlapTypes
  <2>3. Walks(t, "answer")
    BY <2>1, <2>2 DEF Walks
  <2> QED
    BY <2>1, <2>3, WalkStep DEF Places
<1>13. CASE ConnectionLost(t)
  <2>1. pc[t] = "answer" /\ (Walks(t, "holding") \/ Leaves(t, "failed"))
    BY <1>13 DEF ConnectionLost, Walks, Leaves
  <2> QED
    BY <2>1, WalkStep, LeaveStep DEF Places
<1> QED
  BY <1>1, <1>2, <1>3, <1>4, <1>5, <1>6, <1>7, <1>8, <1>9, <1>10, <1>11, <1>12, <1>13 DEF Step

LEMMA OverlapInvInit == OverlapInit => OverlapInv
<1> SUFFICES ASSUME OverlapInit PROVE OverlapInv
  OBVIOUS
<1>1. OverlapTypes
  BY DEF OverlapInit, OverlapTypes, Places
<1>2. \A t \in Tasks : ~HoldsLock(t) /\ ~Reconnects(t) /\ lock # t
  BY OverlapAssumption DEF OverlapInit, HoldsLock, Reconnects, Connecting, Tasks
<1>3. OverrideIsScoped
  <2>1. ~(override = 1) /\ ~ \E t \in Tasks : inSend[t]
    BY DEF OverlapInit
  <2> QED
    BY <2>1, Zenon DEF OverrideIsScoped
<1>4. Allowed
  BY DEF OverlapInit, Allowed
<1> QED
  BY <1>1, <1>2, <1>3, <1>4 DEF OverlapInv

LEMMA OverlapInvStep == OverlapInv /\ [OverlapNext]_overlapVars => OverlapInv'
<1> SUFFICES ASSUME OverlapInv, [OverlapNext]_overlapVars PROVE OverlapInv'
  OBVIOUS
<1>1. ASSUME NEW t \in Tasks, Step(t) PROVE OverlapInv'
  BY <1>1, OwnSteps, OwnStepKeeps
<1>2. CASE UNCHANGED <<pc, inSend, limit, lock, override, cooling, failed, begun>>
  BY <1>2 DEF OverlapInv, OverlapTypes, HoldsLock, Reconnects, OverrideIsScoped, Allowed
<1>3. CASE CooldownEnds
  <2>1. /\ cooling' = FALSE /\ failed' = 0 /\ begun' = 0
        /\ UNCHANGED <<pc, inSend, limit, lock, override>>
    BY <1>3 DEF CooldownEnds, connectCall
  <2>2. OverlapTypes'
    <3>1. UNCHANGED <<pc, inSend, limit, lock, override>> /\ failed' = 0 /\ begun' = 0
      BY <2>1
    <3>2. cooling' \in BOOLEAN
      BY <2>1
    <3> QED
      BY <3>1, <3>2 DEF OverlapInv, OverlapTypes
  <2>4. OverrideIsScoped'
    BY <2>1 DEF OverlapInv, OverrideIsScoped
  <2>5. Allowed'
    <3>1. failed' = 0 /\ begun' = 0
      BY <2>1
    <3> QED
      BY <3>1 DEF Allowed
  <2>3. \A t \in Tasks : (lock' = t <=> HoldsLock(t)') /\ Reconnects(t)' = Reconnects(t)
    BY <2>1 DEF OverlapInv, HoldsLock, Reconnects
  <2> QED
    BY <2>1, <2>2, <2>3, <2>4, <2>5 DEF OverlapInv
<1>4. CASE \E s \in Sockets : Drop(s)
  BY <1>2, <1>4 DEF Drop, connectCall, flags
<1>5. CASE UNCHANGED overlapVars
  BY <1>2, <1>5 DEF overlapVars
<1> QED
  BY <1>1, <1>3, <1>4, <1>5 DEF OverlapNext

(* What is under way. *)
WireTypes ==
  /\ pc \in [Tasks -> Places] /\ reading \in [Tasks -> Sockets \cup {Nobody}]
  /\ stream \in Sockets \cup {Nobody}
  /\ sockets \in [Sockets -> [state : {"unused", "open", "closed"}, due : Seq(Frames), mixed : BOOLEAN]]

(* t is the one that reads from s, and what is due there is for t. *)
ReaderOf(t, s) == pc[t] \in Reads /\ reading[t] = s
DueTo(t, due) ==
  /\ \A i \in 1 .. Len(due) : due[i].of = t
  /\ pc[t] = "hello" => Len(due) \in {1, 2}
  /\ pc[t] = "session" => Len(due) \in {0, 1}
  /\ pc[t] = "answer" =>
       /\ Len(due) \in {0, 1, 2}
       /\ Len(due) = 1 => due[1].kind = "end"
       /\ Len(due) = 2 => due[1].kind = "data" /\ due[2].kind = "end"
Clean(s) == sockets[s].state = "open" /\ ~sockets[s].mixed

(* Nobody reads from a connection that is still to be opened; no two read   *)
(* from the same one; where no other negotiation wrote, a reader finds its  *)
(* own frames, and nothing is left on the streams for the next.             *)
WireInv ==
  /\ WireTypes
  /\ \A t \in Tasks, s \in Sockets : sockets[s].state = "unused" => ~ReaderOf(t, s) /\ stream # s
  /\ \A t, u \in Tasks, s \in Sockets : ReaderOf(t, s) /\ ReaderOf(u, s) => t = u
  /\ \A t \in Tasks, s \in Sockets : ReaderOf(t, s) /\ Clean(s) => DueTo(t, sockets[s].due)
  /\ \A s \in Sockets :
       Clean(s) /\ stream = s /\ (\A t \in Tasks : ~ReaderOf(t, s)) => Len(sockets[s].due) = 0
  /\ \A t \in Tasks : pc[t] \in Reads => reading[t] \in Sockets

(* A step of t: the others read what they read, t reads from a connection   *)
(* that is its own, or from none, and a connection is as clean as it was.   *)
WireStep(t) ==
  /\ WireTypes'
  /\ \A u \in Tasks \ {t} : pc'[u] = pc[u] /\ reading'[u] = reading[u]
  /\ \A s \in Sockets : sockets[s].state # "unused" => sockets'[s].state # "unused"
  /\ stream' # Nobody => sockets'[stream'].state # "unused"
  /\ pc'[t] \in Reads =>
       /\ reading'[t] \in Sockets /\ sockets'[reading'[t]].state # "unused"
       /\ \A u \in Tasks \ {t} : ~ReaderOf(u, reading'[t])
  /\ \A s \in Sockets : Clean(s)' =>
       /\ ReaderOf(t, s)' => DueTo(t, sockets[s].due)'
       /\ \A u \in Tasks \ {t} : ReaderOf(u, s) => Clean(s) /\ sockets'[s].due = sockets[s].due
       /\ stream' = s /\ (\A u \in Tasks : ~ReaderOf(u, s)') => Len(sockets'[s].due) = 0

LEMMA WireStepKeeps ==
  ASSUME WireInv, NEW t \in Tasks, WireStep(t)
  PROVE  WireInv'
<1>1. \A u \in Tasks \ {t}, s \in Sockets : ReaderOf(u, s)' = ReaderOf(u, s)
  BY DEF WireStep, ReaderOf
<1>2. \A u \in Tasks, s \in Sockets : sockets'[s].state = "unused" => ~ReaderOf(u, s)' /\ stream' # s
  <2> SUFFICES ASSUME NEW u \in Tasks, NEW s \in Sockets, sockets'[s].state = "unused"
               PROVE  ~ReaderOf(u, s)' /\ stream' # s
    OBVIOUS
  <2>1. stream' # s
    BY OverlapAssumption DEF WireStep
  <2>2. CASE u = t
    BY <2>1, <2>2 DEF WireStep, ReaderOf
  <2>3. CASE u # t
    BY <1>1, <2>1, <2>3 DEF WireStep, WireInv
  <2> QED
    BY <2>2, <2>3
<1>3. \A u, v \in Tasks, s \in Sockets : ReaderOf(u, s)' /\ ReaderOf(v, s)' => u = v
  <2>1. ASSUME NEW u \in Tasks \ {t}, NEW s \in Sockets, ReaderOf(u, s)', ReaderOf(t, s)' PROVE FALSE
    BY <1>1, <2>1 DEF WireStep, ReaderOf
  <2> QED
    BY <1>1, <2>1 DEF WireInv
<1>4. \A u \in Tasks, s \in Sockets : ReaderOf(u, s)' /\ Clean(s)' => DueTo(u, sockets[s].due)'
  <2> SUFFICES ASSUME NEW u \in Tasks \ {t}, NEW s \in Sockets, ReaderOf(u, s)', Clean(s)'
               PROVE  DueTo(u, sockets[s].due)'
    BY DEF WireStep
  <2>1. ReaderOf(u, s) /\ Clean(s) /\ sockets'[s].due = sockets[s].due /\ pc'[u] = pc[u]
    BY <1>1 DEF WireStep
  <2>2. DueTo(u, sockets[s].due)
    BY <2>1 DEF WireInv
  <2> QED
    BY <2>1, <2>2 DEF DueTo
<1>5. \A u \in Tasks : pc'[u] \in Reads => reading'[u] \in Sockets
  BY DEF WireStep, WireInv
<1> QED
  BY <1>2, <1>3, <1>4, <1>5 DEF WireInv, WireStep

LEMMA WireInvInit == OverlapInit => WireInv
<1> SUFFICES ASSUME OverlapInit PROVE WireInv
  OBVIOUS
<1>1. WireTypes
  <2>1. pc \in [Tasks -> Places] /\ reading \in [Tasks -> Sockets \cup {Nobody}] /\ stream = Nobody
    BY DEF OverlapInit, Places
  <2>2. sockets = [s \in Sockets |-> [state |-> "unused", due |-> <<>>, mixed |-> FALSE]]
    BY DEF OverlapInit
  <2>3. sockets \in [Sockets -> [state : {"unused", "open", "closed"}, due : Seq(Frames), mixed : BOOLEAN]]
    BY <2>2
  <2> QED
    BY <2>1, <2>3 DEF WireTypes
<1>2. \A t \in Tasks : pc[t] \notin Reads
  BY DEF OverlapInit, Reads
<1>3. \A s \in Sockets : ~Clean(s) /\ stream # s
  BY OverlapAssumption DEF OverlapInit, Clean
<1> QED
  BY <1>1, <1>2, <1>3 DEF WireInv, ReaderOf

(* t does not read, before or after. *)
LEMMA RestKeeps ==
  ASSUME WireInv, NEW t \in Tasks, NEW to \in Places \ Reads, pc[t] \notin Reads,
         pc' = [pc EXCEPT ![t] = to],
         reading' = reading \/ reading' = [reading EXCEPT ![t] = Nobody],
         UNCHANGED <<stream, sockets>>
  PROVE  WireStep(t)
<1>1. WireTypes'
  BY DEF WireInv, WireTypes
<1>2. /\ pc'[t] = to /\ \A u \in Tasks \ {t} : pc'[u] = pc[u] /\ reading'[u] = reading[u]
      /\ \A u \in Tasks, s \in Sockets : ReaderOf(u, s)' = ReaderOf(u, s) /\ Clean(s)' = Clean(s)
  BY DEF WireInv, WireTypes, ReaderOf, Clean
<1>3. ~ \E s \in Sockets : ReaderOf(t, s)'
  BY <1>2 DEF ReaderOf
<1>4. stream # Nobody => sockets[stream].state # "unused"
  BY DEF WireInv, WireTypes
<1> QED
  BY <1>1, <1>2, <1>3, <1>4 DEF WireInv, WireStep

(* t closes the streams, and reads from none. *)
LEMMA CloseKeeps ==
  ASSUME WireInv, NEW t \in Tasks, NEW to \in Places \ Reads, pc' = [pc EXCEPT ![t] = to],
         reading' = [reading EXCEPT ![t] = Nobody], CloseStreams
  PROVE  WireStep(t)
<1>1. /\ pc'[t] = to /\ reading'[t] = Nobody
      /\ \A u \in Tasks \ {t} : pc'[u] = pc[u] /\ reading'[u] = reading[u]
  BY DEF WireInv, WireTypes
<1>2. /\ sockets' \in [Sockets -> [state : {"unused", "open", "closed"}, due : Seq(Frames), mixed : BOOLEAN]]
      /\ \A s \in Sockets : \/ sockets'[s] = sockets[s]
                            \/ sockets'[s].state = "closed"
  <2>1. CASE stream = Nobody
    BY <2>1 DEF CloseStreams, WireInv, WireTypes
  <2>2. CASE stream # Nobody
    BY <2>2 DEF CloseStreams, WireInv, WireTypes
  <2> QED
    BY <2>1, <2>2
<1>3. stream' = Nobody /\ Nobody \notin Sockets
  BY OverlapAssumption DEF CloseStreams
<1>4. WireTypes'
  BY <1>2, <1>3 DEF WireInv, WireTypes
<1>5. \A s \in Sockets : Clean(s)' => Clean(s) /\ sockets'[s].due = sockets[s].due
  BY <1>2 DEF Clean
<1>6. \A s \in Sockets : ~ReaderOf(t, s)'
  BY <1>1 DEF ReaderOf
<1> QED
  BY <1>1, <1>2, <1>3, <1>4, <1>5, <1>6 DEF WireStep

(* A frame taken from the connection t reads from. *)
LEMMA TakenIs ==
  ASSUME WireInv, NEW t \in Tasks, pc[t] \in Reads, Arrived(t)
  PROVE  /\ reading[t] \in Sockets /\ ReaderOf(t, reading[t])
         /\ Len(sockets[reading[t]].due) > 0
         /\ Taken(t) \in [Sockets -> [state : {"unused", "open", "closed"}, due : Seq(Frames), mixed : BOOLEAN]]
         /\ \A s \in Sockets : /\ Taken(t)[s].state = sockets[s].state
                               /\ Taken(t)[s].mixed = sockets[s].mixed
                               /\ s # reading[t] => Taken(t)[s] = sockets[s]
         /\ Taken(t)[reading[t]].due = Tail(sockets[reading[t]].due)
         /\ \A u \in Tasks \ {t}, s \in Sockets : ReaderOf(u, s) => s # reading[t]
<1>1. reading[t] \in Sockets /\ ReaderOf(t, reading[t])
  BY DEF WireInv, ReaderOf
<1> DEFINE due == sockets[reading[t]].due
<1>2. due \in Seq(Frames) /\ due # <<>>
  BY <1>1 DEF WireInv, WireTypes, Arrived
<1>3. Len(due) > 0 /\ Tail(due) \in Seq(Frames)
  BY <1>2
<1> DEFINE S == [state : {"unused", "open", "closed"}, due : Seq(Frames), mixed : BOOLEAN]
           r == [sockets[reading[t]] EXCEPT !.due = Tail(due)]
<1>4. Taken(t) = [sockets EXCEPT ![reading[t]] = r]
  BY DEF Taken
<1>6. sockets \in [Sockets -> S] /\ sockets[reading[t]] \in S
  BY <1>1 DEF WireInv, WireTypes
<1>7. /\ r \in S /\ r.due = Tail(due)
      /\ r.state = sockets[reading[t]].state /\ r.mixed = sockets[reading[t]].mixed
  BY <1>3, <1>6
<1>5. /\ Taken(t) \in [Sockets -> [state : {"unused", "open", "closed"}, due : Seq(Frames), mixed : BOOLEAN]]
      /\ \A s \in Sockets : /\ Taken(t)[s].state = sockets[s].state
                            /\ Taken(t)[s].mixed = sockets[s].mixed
                            /\ s # reading[t] => Taken(t)[s] = sockets[s]
      /\ Taken(t)[reading[t]].due = Tail(due)
  <2> HIDE DEF due, r, S
  <2>1. Taken(t) \in [Sockets -> S] /\ Taken(t)[reading[t]] = r
    BY <1>1, <1>4, <1>6, <1>7
  <2>2. \A s \in Sockets : s # reading[t] => Taken(t)[s] = sockets[s]
    BY <1>1, <1>4, <1>6
  <2> QED
    BY <1>7, <2>1, <2>2 DEF due, S
<1> QED
  BY <1>1, <1>3, <1>5 DEF WireInv

(* Where another reads from the streams, t does not. *)
LEMMA UnreadableIsAnothers ==
  ASSUME WireInv, NEW t \in Tasks, pc[t] \in Reads, Unreadable(t)
  PROVE  reading[t] # stream
BY OverlapAssumption DEF WireInv, Unreadable, ReaderOf

(* t takes the last frame it waits for, or leaves the streams to another. *)
LEMMA LastTakenKeeps ==
  ASSUME WireInv, NEW t \in Tasks, NEW to \in Places \ Reads, pc[t] \in Reads, Arrived(t),
         pc' = [pc EXCEPT ![t] = to], reading' = [reading EXCEPT ![t] = Nobody],
         sockets' = Taken(t), UNCHANGED stream,
         reading[t] = stream /\ Clean(stream) => Len(sockets[stream].due) = 1
  PROVE  WireStep(t)
<1>1. /\ pc'[t] = to /\ reading'[t] = Nobody
      /\ \A u \in Tasks \ {t} : pc'[u] = pc[u] /\ reading'[u] = reading[u]
  BY DEF WireInv, WireTypes
<1>2. WireTypes'
  BY TakenIs DEF WireInv, WireTypes
<1>3. /\ \A s \in Sockets : Clean(s)' = Clean(s) /\ sockets'[s].state = sockets[s].state
      /\ \A s \in Sockets : s # reading[t] => sockets'[s].due = sockets[s].due
      /\ \A u \in Tasks \ {t}, s \in Sockets : ReaderOf(u, s) => s # reading[t]
  BY TakenIs DEF Clean
<1>4. \A u \in Tasks, s \in Sockets : ReaderOf(u, s)' = (u # t /\ ReaderOf(u, s))
  BY <1>1 DEF ReaderOf
<1>5. ASSUME NEW s \in Sockets, Clean(s), stream = s, \A u \in Tasks : ~ReaderOf(u, s)'
      PROVE  Len(sockets'[s].due) = 0
  <2>1. CASE s = reading[t]
    <3>1. sockets'[s].due = Tail(sockets[s].due) /\ Len(sockets[s].due) = 1
      BY <1>5, <2>1, TakenIs
    <3>2. sockets[s].due \in Seq(Frames)
      BY <1>5 DEF WireInv, WireTypes
    <3> QED
      BY <3>1, <3>2
  <2>2. CASE s # reading[t]
    <3>1. \A u \in Tasks : ~ReaderOf(u, s)
      BY <1>4, <1>5, <2>2 DEF ReaderOf
    <3> QED
      BY <1>3, <1>5, <2>2, <3>1 DEF WireInv
  <2> QED
    BY <2>1, <2>2
<1>6. stream' # Nobody => sockets'[stream'].state # "unused"
  BY <1>3 DEF WireInv, WireTypes
<1> QED
  BY <1>1, <1>2, <1>3, <1>4, <1>5, <1>6 DEF WireStep

LEMMA TailOfTwo ==
  ASSUME NEW S, NEW q \in Seq(S), Len(q) = 2
  PROVE  Len(Tail(q)) = 1 /\ Tail(q)[1] = q[2]
<1>1. q # <<>>
  OBVIOUS
<1> QED
  BY <1>1, HeadTailProperties

LEMMA AppendToNone ==
  ASSUME NEW S, NEW q \in Seq(S), Len(q) = 1, NEW f \in S
  PROVE  Len(Append(Tail(q), f)) = 1 /\ Append(Tail(q), f)[1] = f
<1>1. q # <<>>
  OBVIOUS
<1> DEFINE r == Tail(q)
<1>2. r \in Seq(S) /\ Len(r) = 0
  BY <1>1, HeadTailProperties
<1> HIDE DEF r
<1>3. Len(Append(r, f)) = 1 /\ Append(r, f)[1] = f
  BY <1>2, AppendProperties
<1> QED
  BY <1>3 DEF r

LEMMA NextAskedIs ==
  ASSUME WireInv, NEW t \in Tasks, pc[t] \in Reads, Arrived(t), stream # Nobody
  PROVE  /\ NextAsked(t) \in [Sockets -> [state : {"unused", "open", "closed"}, due : Seq(Frames), mixed : BOOLEAN]]
         /\ \A s \in Sockets : /\ NextAsked(t)[s].state = sockets[s].state
                               /\ sockets[s].mixed => NextAsked(t)[s].mixed
                               /\ s \notin {reading[t], stream} => NextAsked(t)[s] = sockets[s]
         /\ stream # reading[t] => NextAsked(t)[stream].mixed
         /\ stream = reading[t] =>
              NextAsked(t)[stream].due = Append(Tail(sockets[stream].due), Frame("session", t))
<1> DEFINE S == [state : {"unused", "open", "closed"}, due : Seq(Frames), mixed : BOOLEAN]
           f == Frame("session", t)
           m == Taken(t)[stream].mixed \/ stream # reading[t]
           r == [Taken(t)[stream] EXCEPT !.due = Append(@, f), !.mixed = m]
<1>1. stream \in Sockets /\ reading[t] \in Sockets /\ Taken(t) \in [Sockets -> S]
  BY TakenIs DEF WireInv, WireTypes
<1>2. NextAsked(t) = [Taken(t) EXCEPT ![stream] = r]
  BY <1>1 DEF NextAsked
<1>3. f \in Frames
  BY DEF Frame, Frames
<1>4. Taken(t)[stream] \in S /\ m \in BOOLEAN
  BY <1>1
<1>5. /\ r \in S /\ r.state = Taken(t)[stream].state
      /\ r.due = Append(Taken(t)[stream].due, f)
      /\ r.mixed = m
  <2> DEFINE d == Append(Taken(t)[stream].due, f)
  <2> HIDE DEF f, m
  <2>1. d \in Seq(Frames)
    BY <1>3, <1>4
  <2>2. r = [Taken(t)[stream] EXCEPT !.due = d, !.mixed = m]
    BY <1>4
  <2> HIDE DEF d, r
  <2>3. r \in S /\ r.due = d /\ r.mixed = m /\ r.state = Taken(t)[stream].state
    BY <1>4, <2>1, <2>2
  <2> QED
    BY <2>3 DEF d
<1> HIDE DEF r, S, f, m
<1>6. /\ NextAsked(t) \in [Sockets -> S] /\ NextAsked(t)[stream] = r
      /\ \A s \in Sockets : s # stream => NextAsked(t)[s] = Taken(t)[s]
  BY <1>1, <1>2, <1>5
<1>7. \A s \in Sockets : /\ NextAsked(t)[s].state = sockets[s].state
                         /\ sockets[s].mixed => NextAsked(t)[s].mixed
                         /\ s \notin {reading[t], stream} => NextAsked(t)[s] = sockets[s]
  <2>1. \A s \in Sockets : s # stream => NextAsked(t)[s] = Taken(t)[s]
    BY <1>6
  <2>2. \A s \in Sockets : NextAsked(t)[s].state = sockets[s].state
    <3>1. \A s \in Sockets : Taken(t)[s].state = sockets[s].state
      BY TakenIs
    <3>2. NextAsked(t)[stream].state = Taken(t)[stream].state
      BY <1>5, <1>6
    <3> QED
      BY <2>1, <3>1, <3>2
  <2>3. \A s \in Sockets : sockets[s].mixed => NextAsked(t)[s].mixed
    <3>1. \A s \in Sockets : Taken(t)[s].mixed = sockets[s].mixed
      BY TakenIs
    <3>2. NextAsked(t)[stream].mixed = m
      BY <1>5, <1>6
    <3>3. Taken(t)[stream].mixed => m
      BY DEF m
    <3> QED
      BY <2>1, <3>1, <3>2, <3>3
  <2>4. \A s \in Sockets : s \notin {reading[t], stream} => NextAsked(t)[s] = sockets[s]
    BY <2>1, TakenIs
  <2> QED
    BY <2>2, <2>3, <2>4
<1>9. stream # reading[t] => m
  BY DEF m
<1>8. stream = reading[t] => NextAsked(t)[stream].due = Append(Tail(sockets[stream].due), f)
  BY <1>5, <1>6, TakenIs
<1> QED
  BY <1>1, <1>5, <1>6, <1>7, <1>8, <1>9 DEF S, f

(* t goes on to read from the streams, and no other does. *)
LEMMA MoveKeeps ==
  ASSUME WireInv, NEW t \in Tasks, NEW to \in Reads, pc' = [pc EXCEPT ![t] = to],
         reading' = [reading EXCEPT ![t] = stream], UNCHANGED stream, ~Unreadable(t), WireTypes',
         \A s \in Sockets : /\ sockets'[s].state = sockets[s].state
                            /\ sockets[s].mixed => sockets'[s].mixed,
         \A u \in Tasks \ {t}, s \in Sockets : ReaderOf(u, s) => sockets'[s].due = sockets[s].due,
         Clean(stream)' => DueTo(t, sockets[stream].due)'
  PROVE  WireStep(t)
<1>1. stream \in Sockets /\ \A u \in Tasks \ {t} : ~ReaderOf(u, stream)
  BY DEF Unreadable, ReaderOf, WireInv, WireTypes
<1>2. /\ pc'[t] = to /\ reading'[t] = stream
      /\ \A u \in Tasks \ {t} : pc'[u] = pc[u] /\ reading'[u] = reading[u]
  BY DEF WireInv, WireTypes
<1>3. \A s \in Sockets : Clean(s)' => Clean(s)
  BY DEF Clean
<1>4. \A s \in Sockets : ReaderOf(t, s)' <=> s = stream
  BY <1>2 DEF ReaderOf
<1>5. sockets[stream].state # "unused"
  BY <1>1 DEF WireInv
<1> QED
  BY <1>1, <1>2, <1>3, <1>4, <1>5 DEF WireStep

(* What is due on the streams once another, and not t, may read from them. *)
LEMMA NothingIsDue ==
  ASSUME WireInv, NEW t \in Tasks, stream # Nobody, ~Unreadable(t), ~ReaderOf(t, stream), Clean(stream)
  PROVE  Len(sockets[stream].due) = 0
<1>1. stream \in Sockets
  BY DEF WireInv, WireTypes
<1>2. \A u \in Tasks : ~ReaderOf(u, stream)
  BY DEF Unreadable, ReaderOf
<1> QED
  BY <1>1, <1>2 DEF WireInv

LEMMA HelloKeeps ==
  ASSUME WireInv, NEW t \in Tasks, Hello(t)
  PROVE  WireStep(t)
<1>1. /\ pc[t] = "hello" /\ Arrived(t) /\ ~Unreadable(t) /\ stream # Nobody /\ UNCHANGED stream
      /\ pc' = [pc EXCEPT ![t] = "session"] /\ reading' = [reading EXCEPT ![t] = stream]
      /\ IF Len(sockets[reading[t]].due) > 1 THEN sockets' = Taken(t) ELSE sockets' = NextAsked(t)
  BY DEF Hello, TakesHello, Unreadable, Go
<1>2. pc[t] \in Reads /\ stream \in Sockets /\ reading[t] \in Sockets /\ pc'[t] = "session"
  BY <1>1 DEF Reads, WireInv, WireTypes
<1>3. \A u \in Tasks \ {t}, s \in Sockets : ReaderOf(u, s) => s \notin {reading[t], stream}
  BY <1>1, <1>2, TakenIs DEF Unreadable, ReaderOf
<1>4. WireTypes'
  <2>1. sockets' \in [Sockets -> [state : {"unused", "open", "closed"}, due : Seq(Frames), mixed : BOOLEAN]]
    BY <1>1, <1>2, TakenIs, NextAskedIs
  <2> QED
    BY <1>1, <1>2, <2>1 DEF WireInv, WireTypes, Places, Connecting
<1>5. \A s \in Sockets : /\ sockets'[s].state = sockets[s].state
                         /\ sockets[s].mixed => sockets'[s].mixed
                         /\ s \notin {reading[t], stream} => sockets'[s].due = sockets[s].due
  BY <1>1, <1>2, TakenIs, NextAskedIs
<1>6. ASSUME Clean(stream)' PROVE DueTo(t, sockets[stream].due)'
  <2>0. stream' = stream
    BY <1>1
  <2>1. Clean(stream)
    BY <2>0, <1>2, <1>5, <1>6 DEF Clean
  <2>2. CASE reading[t] = stream
    <3> DEFINE due == sockets[stream].due
    <3>1. due \in Seq(Frames) /\ Len(due) \in {1, 2} /\ \A i \in 1 .. Len(due) : due[i].of = t
      BY <1>1, <1>2, <2>1, <2>2 DEF WireInv, WireTypes, DueTo, ReaderOf
    <3>2. CASE Len(due) = 2
      <4>1. sockets'[stream].due = Tail(due)
        BY <1>1, <1>2, <2>2, <3>2, TakenIs
      <4> HIDE DEF due
      <4>2. Len(Tail(due)) = 1 /\ Tail(due)[1] = due[2]
        BY <3>1, <3>2, TailOfTwo
      <4>3. due[2].of = t
        BY <3>1, <3>2
      <4> DEFINE q == sockets[stream].due
      <4>4. (Len(q) = 1 /\ q[1].of = t)'
        BY <2>0, <4>1, <4>2, <4>3
      <4> HIDE DEF q
      <4>5. DueTo(t, q)'
        BY <1>2, <4>4 DEF DueTo
      <4> QED
        BY <4>5 DEF q
    <3>3. CASE Len(due) = 1
      <4>1. sockets'[stream].due = Append(Tail(due), Frame("session", t))
        BY <1>1, <1>2, <2>2, <3>3, NextAskedIs
      <4> DEFINE f == Frame("session", t)
      <4>2. f \in Frames /\ f.of = t
        BY DEF Frame, Frames
      <4> HIDE DEF due, f
      <4>3. Len(Append(Tail(due), f)) = 1 /\ Append(Tail(due), f)[1] = f
        BY <3>1, <3>3, <4>2, AppendToNone
      <4> DEFINE q == sockets[stream].due
      <4>4. (Len(q) = 1 /\ q[1].of = t)'
        BY <2>0, <4>1, <4>2, <4>3 DEF f
      <4> HIDE DEF q
      <4>5. DueTo(t, q)'
        BY <1>2, <4>4 DEF DueTo
      <4> QED
        BY <4>5 DEF q
    <3>4. Len(due) = 1 \/ Len(due) = 2
      BY <3>1
    <3> QED
      BY <3>2, <3>3, <3>4
  <2>3. CASE reading[t] # stream
    <3>1. sockets' = Taken(t)
      BY <1>1, <1>2, <1>6, <2>3, NextAskedIs DEF Clean
    <3>2. sockets'[stream].due = sockets[stream].due
      BY <1>1, <1>2, <2>3, <3>1, TakenIs
    <3>3. Len(sockets'[stream].due) = 0
      BY <1>1, <2>1, <2>3, <3>2, NothingIsDue DEF ReaderOf
    <3> DEFINE q == sockets[stream].due
    <3> HIDE DEF q
    <3>4. (Len(q) = 0)'
      BY <2>0, <3>3 DEF q
    <3>5. DueTo(t, q)'
      BY <1>2, <3>4 DEF DueTo
    <3> QED
      BY <3>5 DEF q
  <2> QED
    BY <2>2, <2>3
<1>7. \A u \in Tasks \ {t}, s \in Sockets : ReaderOf(u, s) => sockets'[s].due = sockets[s].due
  BY <1>3, <1>5
<1>8. "session" \in Reads
  BY DEF Reads
<1> QED
  BY <1>1, <1>4, <1>5, <1>6, <1>7, <1>8, MoveKeeps

LEMMA WriteKeeps ==
  ASSUME WireInv, NEW t \in Tasks, Write(t)
  PROVE  WireStep(t)
<1>1. /\ pc[t] = "holding" /\ stream # Nobody /\ ~Unreadable(t) /\ UNCHANGED stream
      /\ pc' = [pc EXCEPT ![t] = "answer"] /\ reading' = [reading EXCEPT ![t] = stream]
  BY DEF Write, Go
<1>2. PICK answer \in {<<Frame("end", t)>>, <<Frame("data", t), Frame("end", t)>>} :
        sockets' = [sockets EXCEPT ![stream].due = @ \o answer]
  BY DEF Write
<1>3. stream \in Sockets /\ pc'[t] = "answer" /\ ~ReaderOf(t, stream)
  BY <1>1 DEF WireInv, WireTypes, ReaderOf, Reads
<1>4. /\ answer \in Seq(Frames) /\ Len(answer) \in {1, 2} /\ \A i \in 1 .. Len(answer) : answer[i].of = t
      /\ Len(answer) = 1 => answer[1].kind = "end"
      /\ Len(answer) = 2 => answer[1].kind = "data" /\ answer[2].kind = "end"
  <2> DEFINE e == Frame("end", t)
             d == Frame("data", t)
  <2>1. e \in Frames /\ e.of = t /\ e.kind = "end" /\ d \in Frames /\ d.of = t /\ d.kind = "data"
    BY DEF Frame, Frames
  <2> HIDE DEF e, d
  <2>2. CASE answer = << e >>
    BY <2>1, <2>2
  <2>3. CASE answer = << d, e >>
    BY <2>1, <2>3
  <2> QED
    BY <1>2, <2>2, <2>3 DEF e, d
<1> DEFINE S == [state : {"unused", "open", "closed"}, due : Seq(Frames), mixed : BOOLEAN]
           due == sockets[stream].due
           r == [sockets[stream] EXCEPT !.due = due \o answer]
<1>5. sockets[stream] \in S /\ due \in Seq(Frames)
  BY <1>3 DEF WireInv, WireTypes
<1>6. /\ r \in S /\ r.due = due \o answer
      /\ r.state = sockets[stream].state /\ r.mixed = sockets[stream].mixed
  <2> HIDE <1>2
  <2>1. due \o answer \in Seq(Frames)
    BY <1>4, <1>5
  <2> QED
    BY <1>5, <2>1
<1>7. sockets' = [sockets EXCEPT ![stream] = r]
  BY <1>2
<1> HIDE DEF r, due, S
<1>8. sockets \in [Sockets -> S]
  BY DEF WireInv, WireTypes, S
<1>9. /\ sockets' \in [Sockets -> S] /\ sockets'[stream] = r
      /\ \A s \in Sockets : s # stream => sockets'[s] = sockets[s]
  BY <1>3, <1>6, <1>7, <1>8
<1>10. WireTypes'
  BY <1>1, <1>3, <1>9 DEF WireInv, WireTypes, Places, S
<1>11. \A s \in Sockets : /\ sockets'[s].state = sockets[s].state
                          /\ sockets[s].mixed => sockets'[s].mixed
  BY <1>6, <1>9
<1>12. \A u \in Tasks \ {t}, s \in Sockets : ReaderOf(u, s) => sockets'[s].due = sockets[s].due
  BY <1>1, <1>9 DEF Unreadable, ReaderOf
<1>13. ASSUME Clean(stream)' PROVE DueTo(t, sockets[stream].due)'
  <2>0. stream' = stream
    BY <1>1
  <2>1. Clean(stream)
    BY <2>0, <1>3, <1>6, <1>9, <1>13 DEF Clean
  <2>2. Len(due) = 0
    BY <1>1, <1>3, <2>1, NothingIsDue DEF due
  <2>3. sockets'[stream].due = answer
    BY <1>4, <1>5, <1>6, <1>9, <2>2
  <2> HIDE <1>2
  <2>4. DueTo(t, answer)'
    BY <1>3, <1>4 DEF DueTo
  <2> QED
    BY <2>0, <2>3, <2>4
<1>14. "answer" \in Reads
  BY DEF Reads
<1> QED
  BY <1>1, <1>10, <1>11, <1>12, <1>13, <1>14, MoveKeeps

LEMMA DataReadKeeps ==
  ASSUME WireInv, NEW t \in Tasks, DataRead(t)
  PROVE  WireStep(t)
<1>1. /\ pc[t] = "answer" /\ Arrived(t) /\ ~Unreadable(t) /\ stream # Nobody /\ UNCHANGED <<pc, stream>>
      /\ reading' = [reading EXCEPT ![t] = stream] /\ sockets' = Taken(t)
      /\ Head(sockets[reading[t]].due).kind = "data"
  BY DEF DataRead, TakesData, Unreadable
<1>2. /\ pc[t] \in Reads /\ stream \in Sockets /\ reading[t] \in Sockets /\ "answer" \in Reads
      /\ pc' = [pc EXCEPT ![t] = "answer"] /\ stream' = stream
  BY <1>1 DEF Reads, WireInv, WireTypes
<1>3. WireTypes'
  <2>1. sockets' \in [Sockets -> [state : {"unused", "open", "closed"}, due : Seq(Frames), mixed : BOOLEAN]]
    BY <1>1, <1>2, TakenIs
  <2> QED
    BY <1>1, <1>2, <2>1 DEF WireInv, WireTypes
<1>4. /\ \A s \in Sockets : sockets'[s].state = sockets[s].state
      /\ \A s \in Sockets : sockets[s].mixed => sockets'[s].mixed
      /\ \A s \in Sockets : s # reading[t] => sockets'[s].due = sockets[s].due
      /\ \A u \in Tasks \ {t}, s \in Sockets : ReaderOf(u, s) => s # reading[t]
  BY <1>1, <1>2, TakenIs
<1>5. ASSUME Clean(stream)' PROVE DueTo(t, sockets[stream].due)'
  <2>1. Clean(stream)
    BY <1>2, <1>4, <1>5 DEF Clean
  <2> DEFINE q == sockets[stream].due
  <2>2. pc'[t] = "answer"
    BY <1>1
  <2>3. CASE reading[t] = stream
    <3> DEFINE due == sockets[stream].due
    <3>1. due \in Seq(Frames) /\ due # <<>> /\ DueTo(t, due) /\ due[1].kind = "data"
      BY <1>1, <1>2, <2>1, <2>3 DEF WireInv, WireTypes, ReaderOf, Arrived
    <3>2. sockets'[stream].due = Tail(due)
      BY <1>1, <1>2, <2>3, TakenIs
    <3> HIDE DEF due
    <3>3. Len(due) \in {1, 2} /\ Len(due) # 1
      BY <1>1, <3>1 DEF DueTo
    <3>4. Len(due) = 2 /\ due[2].of = t /\ due[2].kind = "end"
      BY <1>1, <3>1, <3>3 DEF DueTo
    <3>5. Len(Tail(due)) = 1 /\ Tail(due)[1] = due[2]
      BY <3>1, <3>4, TailOfTwo
    <3>6. (Len(q) = 1 /\ q[1].of = t /\ q[1].kind = "end")'
      BY <1>2, <3>2, <3>4, <3>5
    <3> HIDE DEF q
    <3>7. DueTo(t, q)'
      BY <2>2, <3>6 DEF DueTo
    <3> QED
      BY <3>7 DEF q
  <2>4. CASE reading[t] # stream
    <3>1. (Len(q) = 0)'
      BY <1>1, <1>2, <1>4, <2>1, <2>4, NothingIsDue DEF ReaderOf
    <3> HIDE DEF q
    <3>2. DueTo(t, q)'
      BY <2>2, <3>1 DEF DueTo
    <3> QED
      BY <3>2 DEF q
  <2> QED
    BY <2>3, <2>4
<1>6. \A u \in Tasks \ {t}, s \in Sockets : ReaderOf(u, s) => sockets'[s].due = sockets[s].due
  BY <1>4
<1> QED
  BY <1>1, <1>2, <1>3, <1>4, <1>5, <1>6, MoveKeeps

LEMMA StreamsOpenedKeeps ==
  ASSUME WireInv, NEW t \in Tasks, StreamsOpened(t)
  PROVE  WireStep(t)
<1>1. pc[t] = "opening" /\ pc' = [pc EXCEPT ![t] = "hello"]
  BY DEF StreamsOpened, Go
<1>2. PICK s \in Sockets, due \in {<<Frame("hello", t)>>, <<Frame("hello", t), Frame("session", t)>>} :
        /\ sockets[s].state = "unused" /\ stream' = s /\ reading' = [reading EXCEPT ![t] = s]
        /\ sockets' = [sockets EXCEPT ![s] = [state |-> "open", due |-> due, mixed |-> FALSE]]
  BY DEF StreamsOpened
<1>3. due \in Seq(Frames) /\ Len(due) \in {1, 2} /\ \A i \in 1 .. Len(due) : due[i].of = t
  <2> DEFINE h == Frame("hello", t)
             f == Frame("session", t)
  <2>1. h \in Frames /\ h.of = t /\ f \in Frames /\ f.of = t
    BY DEF Frame, Frames
  <2> HIDE DEF h, f
  <2>2. CASE due = << h >>
    BY <2>1, <2>2
  <2>3. CASE due = << h, f >>
    BY <2>1, <2>3
  <2> QED
    BY <1>2, <2>2, <2>3 DEF h, f
<1> DEFINE S == [state : {"unused", "open", "closed"}, due : Seq(Frames), mixed : BOOLEAN]
           r == [state |-> "open", due |-> due, mixed |-> FALSE]
<1>4. sockets \in [Sockets -> S]
  BY DEF WireInv, WireTypes
<1>5. r \in S /\ r.state = "open" /\ r.due = due
  BY <1>3
<1>6. sockets' = [sockets EXCEPT ![s] = r]
  BY <1>2
<1> HIDE DEF S, r
<1>7. /\ sockets' \in [Sockets -> S] /\ sockets'[s] = r
      /\ \A c \in Sockets : c # s => sockets'[c] = sockets[c]
  BY <1>4, <1>5, <1>6
<1>8. /\ stream' = s /\ sockets[s].state = "unused" /\ pc'[t] = "hello" /\ reading'[t] = s
      /\ \A u \in Tasks \ {t} : pc'[u] = pc[u] /\ reading'[u] = reading[u]
  BY <1>1, <1>2 DEF WireInv, WireTypes
<1>9. WireTypes'
  <2>1. pc' \in [Tasks -> Places]
    BY <1>1 DEF WireInv, WireTypes, Places, Connecting
  <2>2. reading' \in [Tasks -> Sockets \cup {Nobody}]
    BY <1>2 DEF WireInv, WireTypes
  <2> QED
    BY <1>7, <1>8, <2>1, <2>2 DEF WireTypes, S
<1>10. \A u \in Tasks : ~ReaderOf(u, s)
  BY <1>8 DEF WireInv
<1>11. \A c \in Sockets : ReaderOf(t, c)' <=> c = s
  BY <1>8 DEF ReaderOf, Reads
<1>12. (DueTo(t, sockets[s].due))'
  <2>1. sockets'[s].due = due
    BY <1>5, <1>7
  <2>2. DueTo(t, due)'
    BY <1>3, <1>8 DEF DueTo
  <2> QED
    BY <2>1, <2>2
<1>13. \A c \in Sockets : c # s => (Clean(c)' <=> Clean(c)) /\ sockets'[c].due = sockets[c].due
  BY <1>7 DEF Clean
<1>14. \A c \in Sockets : sockets[c].state # "unused" => sockets'[c].state # "unused"
  BY <1>7, <1>8
<1>15. sockets'[s].state = "open"
  BY <1>5, <1>7
<1> HIDE <1>2
<1> QED
  BY <1>8, <1>9, <1>10, <1>11, <1>12, <1>13, <1>14, <1>15 DEF WireStep

LEMMA CrashKeeps ==
  ASSUME WireInv, NEW t \in Tasks, Crash(t)
  PROVE  WireStep(t)
<1>0. IF Len(sockets[reading[t]].due) > 1 \/ stream = Nobody THEN sockets' = Taken(t)
      ELSE sockets' = NextAsked(t)
  BY DEF Crash, TakesHello
<1>1. /\ pc[t] = "hello" /\ Arrived(t) /\ Unreadable(t) /\ stream' = stream
      /\ pc' = [pc EXCEPT ![t] = "crashed"] /\ reading' = [reading EXCEPT ![t] = Nobody]
      /\ sockets' = Taken(t) \/ (stream # Nobody /\ sockets' = NextAsked(t))
  <2>1. sockets' = Taken(t) \/ (stream # Nobody /\ sockets' = NextAsked(t))
    BY <1>0
  <2> QED
    BY <2>1 DEF Crash, TakesHello, Leave, Go
<1>2. pc[t] \in Reads /\ reading[t] # stream /\ "crashed" \in Places \ Reads /\ reading[t] \in Sockets
  BY <1>1, UnreadableIsAnothers DEF Reads, Places, Connecting, WireInv
<1>3. CASE sockets' = Taken(t)
  BY <1>1, <1>2, <1>3, LastTakenKeeps
<1>4. CASE stream # Nobody /\ sockets' = NextAsked(t)
  <2>1. stream \in Sockets
    BY <1>4 DEF WireInv, WireTypes
  <2>2. WireTypes'
    <3>1. sockets' \in [Sockets -> [state : {"unused", "open", "closed"}, due : Seq(Frames), mixed : BOOLEAN]]
      BY <1>1, <1>2, <1>4, NextAskedIs
    <3> QED
      BY <1>1, <1>2, <3>1 DEF WireInv, WireTypes
  <2>3. /\ \A s \in Sockets : sockets'[s].state = sockets[s].state
        /\ \A s \in Sockets : sockets[s].mixed => sockets'[s].mixed
        /\ sockets'[stream].mixed
        /\ \A s \in Sockets : s \notin {reading[t], stream} => sockets'[s] = sockets[s]
    BY <1>1, <1>2, <1>4, NextAskedIs
  <2>4. \A u \in Tasks \ {t}, s \in Sockets : ReaderOf(u, s) => s # reading[t]
    BY <1>1, <1>2, TakenIs
  <2>5. /\ pc'[t] = "crashed" /\ \A u \in Tasks \ {t} : pc'[u] = pc[u] /\ reading'[u] = reading[u]
    BY <1>1 DEF WireInv, WireTypes
  <2>6. ~Clean(stream)' /\ \A s \in Sockets : Clean(s)' => Clean(s) /\ s # stream
    BY <1>1, <2>3 DEF Clean
  <2>7. \A s \in Sockets : ~ReaderOf(t, s)'
    BY <1>2, <2>5 DEF ReaderOf
  <2>8. sockets[stream].state # "unused"
    BY <2>1 DEF WireInv
  <2> QED
    BY <1>1, <1>2, <2>1, <2>2, <2>3, <2>4, <2>5, <2>6, <2>7, <2>8 DEF WireStep
<1> QED
  BY <1>1, <1>3, <1>4

LEMMA AnsweredKeeps ==
  ASSUME WireInv, NEW t \in Tasks, Answered(t) \/ Negotiated(t)
  PROVE  WireStep(t)
<1>1. /\ pc[t] \in {"answer", "session"} /\ Arrived(t) /\ sockets' = Taken(t) /\ stream' = stream
      /\ pc[t] = "answer" => Head(sockets[reading[t]].due).kind # "data"
      /\ \E to \in Places \ Reads : pc' = [pc EXCEPT ![t] = to]
      /\ reading' = [reading EXCEPT ![t] = Nobody]
  BY DEF Answered, TakesData, Negotiated, Return, Leave, Go, Places, Reads
<1>2. ASSUME reading[t] = stream, Clean(stream) PROVE Len(sockets[stream].due) = 1
  <2>1. stream \in Sockets /\ ReaderOf(t, stream)
    BY <1>1, <1>2 DEF WireInv, ReaderOf, Reads
  <2> DEFINE due == sockets[stream].due
  <2>2. due \in Seq(Frames) /\ due # <<>> /\ DueTo(t, due)
    BY <1>1, <1>2, <2>1 DEF WireInv, WireTypes, Arrived
  <2>3. pc[t] = "answer" => due[1].kind # "data"
    BY <1>1, <1>2, <2>2
  <2> HIDE DEF due
  <2>4. Len(due) # 0
    BY <2>2
  <2>5. Len(due) = 1
    BY <1>1, <2>2, <2>3, <2>4 DEF DueTo
  <2> QED
    BY <2>5 DEF due
<1>3. pc[t] \in Reads
  BY <1>1 DEF Reads
<1> QED
  BY <1>1, <1>2, <1>3, LastTakenKeeps

LEMMA ClosingSteps ==
  ASSUME WireInv, NEW t \in Tasks,
         \/ Fails(t) \/ NegotiatedTooLate(t) \/ CloseAndLeave(t) \/ ConnectionLost(t)
         \/ AfterFailure(t) /\ GiveUp(t)
  PROVE  WireStep(t)
<1>1. /\ reading' = [reading EXCEPT ![t] = Nobody] /\ CloseStreams
      /\ \E to \in Places \ Reads : pc' = [pc EXCEPT ![t] = to]
  BY DEF Fails, NegotiatedTooLate, GiveUp, Leave, CloseAndLeave, ConnectionLost, Go,
         Places, Connecting, Reads
<1> QED
  BY <1>1, CloseKeeps

LEMMA RestingSteps ==
  ASSUME WireInv, NEW t \in Tasks,
         \/ Connect(t) \/ CallSend(t) \/ LockGranted(t) \/ FailFast(t) \/ Reopen(t)
         \/ AfterFailure(t) /\ ~GiveUp(t)
  PROVE  WireStep(t)
<1>1. /\ pc[t] \notin Reads /\ UNCHANGED <<stream, sockets>>
      /\ reading' = reading \/ reading' = [reading EXCEPT ![t] = Nobody]
      /\ \E to \in Places \ Reads : pc' = [pc EXCEPT ![t] = to]
  BY DEF Connect, Begin, CallSend, LockGranted, FailFast, Reopen, AfterFailure, Leave, Go,
         Places, Connecting, Reads
<1> QED
  BY <1>1, RestKeeps

LEMMA WireInvStep == WireInv /\ [OverlapNext]_overlapVars => WireInv'
<1> SUFFICES ASSUME WireInv, [OverlapNext]_overlapVars PROVE WireInv'
  OBVIOUS
<1>1. ASSUME NEW t \in Tasks, Step(t) PROVE WireInv'
  <2>1. CASE \/ Fails(t) \/ NegotiatedTooLate(t) \/ CloseAndLeave(t) \/ ConnectionLost(t)
             \/ AfterFailure(t) /\ GiveUp(t)
    BY <2>1, ClosingSteps, WireStepKeeps
  <2>2. CASE \/ Connect(t) \/ CallSend(t) \/ LockGranted(t) \/ FailFast(t) \/ Reopen(t)
             \/ AfterFailure(t) /\ ~GiveUp(t)
    BY <2>2, RestingSteps, WireStepKeeps
  <2>3. CASE Answered(t) \/ Negotiated(t)
    BY <2>3, AnsweredKeeps, WireStepKeeps
  <2>4. CASE StreamsOpened(t)
    BY <2>4, StreamsOpenedKeeps, WireStepKeeps
  <2>5. CASE Hello(t)
    BY <2>5, HelloKeeps, WireStepKeeps
  <2>6. CASE Crash(t)
    BY <2>6, CrashKeeps, WireStepKeeps
  <2>7. CASE Write(t)
    BY <2>7, WriteKeeps, WireStepKeeps
  <2>8. CASE DataRead(t)
    BY <2>8, DataReadKeeps, WireStepKeeps
  <2> QED
    BY <1>1, <2>1, <2>2, <2>3, <2>4, <2>5, <2>6, <2>7, <2>8 DEF Step
<1>2. ASSUME NEW s \in Sockets, Drop(s) PROVE WireInv'
  <2> DEFINE S == [state : {"unused", "open", "closed"}, due : Seq(Frames), mixed : BOOLEAN]
             r == [sockets[s] EXCEPT !.state = "closed"]
  <2>1. sockets \in [Sockets -> S] /\ sockets[s] \in S
    BY DEF WireInv, WireTypes
  <2>2. r \in S /\ r.state = "closed" /\ sockets[s].state = "open"
    BY <1>2, <2>1 DEF Drop
  <2>3. sockets' = [sockets EXCEPT ![s] = r] /\ UNCHANGED <<pc, reading, stream>>
    BY <1>2 DEF Drop
  <2> HIDE DEF S, r
  <2>4. /\ sockets' \in [Sockets -> S] /\ sockets'[s] = r
        /\ \A c \in Sockets : c # s => sockets'[c] = sockets[c]
    BY <2>1, <2>2, <2>3
  <2>5. WireTypes'
    BY <2>3, <2>4 DEF WireInv, WireTypes, S
  <2>6. \A c \in Sockets : /\ sockets'[c].state = "unused" => sockets[c].state = "unused"
                           /\ Clean(c)' => Clean(c) /\ sockets'[c] = sockets[c]
    BY <2>2, <2>4 DEF Clean
  <2>7. \A t \in Tasks, c \in Sockets : ReaderOf(t, c)' = ReaderOf(t, c)
    BY <2>3 DEF ReaderOf
  <2>8. \A t \in Tasks, c \in Sockets : ReaderOf(t, c)' /\ Clean(c)' => DueTo(t, sockets[c].due)'
    <3> SUFFICES ASSUME NEW t \in Tasks, NEW c \in Sockets, ReaderOf(t, c)', Clean(c)'
                 PROVE  DueTo(t, sockets[c].due)'
      OBVIOUS
    <3>1. DueTo(t, sockets[c].due) /\ sockets'[c] = sockets[c]
      BY <2>6, <2>7 DEF WireInv
    <3> QED
      BY <2>3, <3>1 DEF DueTo
  <2> QED
    BY <2>3, <2>5, <2>6, <2>7, <2>8 DEF WireInv
<1>3. CASE UNCHANGED <<pc, reading, stream, sockets>>
  BY <1>3 DEF WireInv, WireTypes, ReaderOf, Clean, DueTo
<1>4. CASE CooldownEnds
  BY <1>3, <1>4 DEF CooldownEnds
<1>5. CASE UNCHANGED overlapVars
  BY <1>3, <1>5 DEF overlapVars
<1> QED
  BY <1>1, <1>2, <1>4, <1>5 DEF OverlapNext

(* However many workers call connect() and send() on one session, and take  *)
(* and close each other's streams: a send() that reconnects makes one       *)
(* attempt, and its override ends with it, the cooldown is kept but for     *)
(* the connect()s the consumer begins, and a call reads its own answer from *)
(* every connection that no other negotiation has written on.               *)
THEOREM OverlapIsContained == OverlapSpec => []OverlapContained
<1>1. OverlapInv /\ WireInv => OverlapContained
  <2> SUFFICES ASSUME OverlapInv, WireInv PROVE OverlapContained
    OBVIOUS
  <2>1. FailuresAreAllowed
    BY DEF OverlapInv, OverlapTypes, Allowed, FailuresAreAllowed
  <2>2. SendDoesNotStall
    BY DEF OverlapInv, SendDoesNotStall, HoldsLock, Reconnects
  <2>3. AnswerIsOwn
    <3> SUFFICES ASSUME NEW t \in Tasks, pc[t] = "answer", Clean(reading[t]),
                        sockets[reading[t]].due # <<>>
                 PROVE  Head(sockets[reading[t]].due).of = t
      BY DEF AnswerIsOwn, Clean
    <3>1. reading[t] \in Sockets /\ ReaderOf(t, reading[t])
      BY DEF WireInv, ReaderOf, Reads
    <3> DEFINE due == sockets[reading[t]].due
    <3>2. due \in Seq(Frames) /\ \A i \in 1 .. Len(due) : due[i].of = t
      BY <3>1 DEF WireInv, WireTypes, DueTo
    <3> QED
      BY <3>2
  <2> QED
    BY <2>1, <2>2, <2>3 DEF OverlapInv, OverlapContained
<1> QED
  BY OverlapInvInit, OverlapInvStep, WireInvInit, WireInvStep, <1>1, PTL DEF OverlapSpec

-----------------------------------------------------------------------------
(* The pairs of sessions of a transport, with one task that opens and       *)
(* closes it.                                                               *)
OneOwner == \A o, p \in Owners : o = p

Active(g) == listener[g] \notin Ended
FromSession == {"reading", "recycling", "opening", "shaking"}
OwnersIdle == \A o \in Owners : op[o] = "idle"

TransportTypes ==
  /\ op \in [Owners -> Opening \cup Closing \cup {"idle", "join"}]
  /\ why \in [Owners -> {"none", "connect", "failed", "disconnect"}]
  /\ mine \in [Owners -> 0 .. MaxPairs] /\ taken \in [Owners -> 0 .. MaxPairs]
  /\ made \in 0 .. MaxPairs /\ held \in 0 .. made /\ task \in 0 .. made /\ stopping \in BOOLEAN
  /\ listener \in [Pairs -> Ended \cup {"top"} \cup FromSession]
  /\ reads \in [Pairs -> 0 .. MaxPairs] /\ cancelled \subseteq Pairs
  /\ call \in [Senders -> Sending \cup {"idle", "done", "raised"}]
  /\ using \in [Senders -> 0 .. MaxPairs]
  /\ sock \subseteq Sessions /\ spoiled \subseteq Pairs

(* A pair that is being opened is held, and has no listener yet; a pair     *)
(* that is being closed is held no more; without a call at work, what is    *)
(* held has its listener, or its connect() was cancelled.                   *)
OwnerInv ==
  /\ \A o \in Owners :
       /\ op[o] \in Opening =>
            mine[o] = held /\ held # None /\ task = None /\ ~stopping /\ listener[held] = "none"
       /\ op[o] = "join" => taken[o] = held /\ held # None /\ task = None /\ stopping
       /\ op[o] \in Closing => taken[o] # None /\ held = None /\ task = None
  /\ OwnersIdle /\ held # None => task = held \/ held \in abandoned

(* The listener task is that of the pair that is held; only that one, or    *)
(* the one that a disconnect() waits for, runs, and it reads its own pair.  *)
TaskInv ==
  /\ task # None => /\ task = held /\ ~stopping /\ OwnersIdle
                    /\ listener[task] \notin {"none", "ended"} /\ task \notin cancelled
  /\ \A g \in Pairs : Active(g) => /\ g = held
                                   /\ g = task \/ \E o \in Owners : op[o] = "join"
                                   /\ listener[g] \in FromSession => reads[g] = g
  /\ \A g \in Pairs : g > made => listener[g] = "none"
  /\ \A g \in cancelled : listener[g] # "none"

(* A send() at work uses the pair that is held, or one taken from it.       *)
SenderInv ==
  \A s \in Senders :
    call[s] \in Sending => using[s] \in Pairs /\ (using[s] = held \/ using[s] \in spoiled)

(* The inductive invariant behind OnePairInUse. *)
TransportInv == TransportTypes /\ OwnerInv /\ TaskInv /\ SenderInv /\ NoOrphan

(* What is held is a pair that was made. *)
LEMMA HeldIsMade ==
  ASSUME TransportInv
  PROVE  made \in Nat /\ made <= MaxPairs /\ (held # None => held \in Pairs /\ held <= made)
<1>1. made \in Nat /\ made <= MaxPairs /\ held \in 0 .. made
  BY TransportAssumption DEF TransportInv, TransportTypes
<1> QED
  BY <1>1, TransportAssumption DEF Pairs, None

(* A pair that is held, or was taken from a call, may have one socket more. *)
LEMMA SocketsKept ==
  ASSUME NoOrphan, NEW n \in Sessions, n[2] = held \/ n[2] \in spoiled, sock' \subseteq sock \cup {n},
         UNCHANGED <<op, taken, held, spoiled>>
  PROVE  NoOrphan'
<1> SUFFICES ASSUME NEW k \in {"event", "command"}, NEW g \in Pairs \ spoiled, <<k, g>> \in sock'
             PROVE  \/ g = held
                    \/ \E o \in Owners : /\ taken[o] = g
                                         /\ op[o] \in IF k = "event" THEN {"stopKeepalive"}
                                                      ELSE {"stopKeepalive", "closeEvent"}
  BY DEF NoOrphan
<1>1. CASE <<k, g>> \in sock
  BY <1>1 DEF NoOrphan
<1>2. CASE <<k, g>> = n
  BY <1>2
<1> QED
  BY <1>1, <1>2

(* What a listener may do: go on with its own pair, and lose or open the    *)
(* streams of its event session; the one of the transport does not end.     *)
ListenerStep(g) ==
  /\ UNCHANGED <<op, why, mine, taken, made, held, task, stopping, call, using, spoiled, abandoned>>
  /\ Active(g) /\ \A h \in Pairs \ {g} : listener'[h] = listener[h] /\ reads'[h] = reads[h]
  /\ listener'[g] # "none" /\ (task = g => listener'[g] # "ended")
  /\ listener'[g] \in FromSession => reads'[g] = g
  /\ cancelled' \subseteq cancelled
  /\ sock' \subseteq sock \cup {Event(g)}

LEMMA ListenerStepKeeps ==
  ASSUME TransportInv, NEW g \in Pairs, ListenerStep(g), TransportTypes'
  PROVE  TransportInv'
<1>1. g = held /\ held # None
  BY TransportAssumption DEF TransportInv, TaskInv, ListenerStep, Pairs, None
<1>2. OwnerInv'
  BY <1>1 DEF TransportInv, OwnerInv, OwnersIdle, ListenerStep, Active, Ended, Opening, Closing
<1>3. TaskInv'
  <2>1. /\ g = task \/ \E o \in Owners : op[o] = "join"
        /\ task = held \/ task = None
    BY DEF TransportInv, TaskInv, ListenerStep
  <2>2. (task # None => /\ task = held /\ ~stopping /\ OwnersIdle
                        /\ listener[task] \notin {"none", "ended"} /\ task \notin cancelled)'
    BY <1>1 DEF TransportInv, TaskInv, OwnersIdle, ListenerStep
  <2>3. ASSUME NEW h \in Pairs, Active(h)'
        PROVE  (/\ h = held
                /\ h = task \/ \E o \in Owners : op[o] = "join"
                /\ listener[h] \in FromSession => reads[h] = h)'
    <3>1. CASE h = g
      BY <1>1, <2>1, <3>1 DEF ListenerStep
    <3>2. CASE h # g
      BY <2>3, <3>2 DEF ListenerStep, TransportInv, TaskInv, Active
    <3> QED
      BY <3>1, <3>2
  <2>4. \A h \in Pairs : h > made => listener'[h] = "none"
    <3>1. ~(g > made)
      BY <1>1 DEF TransportInv, TransportTypes
    <3> QED
      BY <3>1 DEF TransportInv, TaskInv, ListenerStep
  <2>5. \A h \in cancelled' : listener'[h] # "none"
    BY DEF TransportInv, TransportTypes, TaskInv, ListenerStep
  <2> QED
    BY <2>2, <2>3, <2>4, <2>5 DEF TaskInv, ListenerStep
<1>4. SenderInv'
  BY DEF TransportInv, SenderInv, ListenerStep
<1>5. NoOrphan'
  <2>1. Event(g) \in Sessions /\ Event(g)[2] = g
    BY DEF Event, Sessions
  <2> QED
    BY <1>1, <2>1, SocketsKept DEF TransportInv, ListenerStep
<1> QED
  BY <1>2, <1>3, <1>4, <1>5 DEF TransportInv

LEMMA ListenerSteps ==
  ASSUME TransportInv, NEW g \in Pairs, Listener(g)
  PROVE  TransportTypes' /\ ListenerStep(g)
<1> USE DEF Listens, owners, transport, senders, sessions, ghosts
<1>1. /\ listener \in [Pairs -> Ended \cup {"top"} \cup FromSession] /\ reads \in [Pairs -> 0 .. MaxPairs]
      /\ cancelled \subseteq Pairs /\ sock \subseteq Sessions /\ held \in 0 .. MaxPairs
      /\ listener[g] \in FromSession => reads[g] = g
      /\ task = g => ~stopping /\ held = g /\ g \notin cancelled
      /\ Active(g) => held = g
      /\ g # None /\ Event(g) \in Sessions
  BY TransportAssumption DEF TransportInv, TransportTypes, TaskInv, Pairs, None, Active, Ended, FromSession, Event, Sessions
<1>2. /\ UNCHANGED <<op, why, mine, taken, tries, made, held, task, stopping, call, using, spoiled, abandoned>>
  BY DEF Listener, Listen, Heard, Lost, Recycled, Reopened, Reconnected, ReconnectFails, ListenerCrashes,
     ListenerCancelled
<1>3. Active(g)
  BY DEF Listener, Listen, Heard, Lost, Recycled, Reopened, Reconnected, ReconnectFails, ListenerCrashes,
     ListenerCancelled, Active, Ended
<1>4. PICK x \in {"top", "ended", "crashed"} \cup FromSession : listener' = [listener EXCEPT ![g] = x]
  BY DEF Listener, Listen, Heard, Lost, Recycled, Reopened, Reconnected, ReconnectFails, ListenerCrashes,
     ListenerCancelled, FromSession
<1>5. /\ reads' = reads \/ reads' = [reads EXCEPT ![g] = held]
      /\ x \in FromSession => reads' = [reads EXCEPT ![g] = g]
  BY <1>1, <1>3, <1>4 DEF Listener, Listen, Heard, Lost, Recycled, Reopened, Reconnected, ReconnectFails,
     ListenerCrashes, ListenerCancelled, FromSession
<1>6. cancelled' \subseteq cancelled
  BY DEF Listener, Listen, Heard, Lost, Recycled, Reopened, Reconnected, ReconnectFails, ListenerCrashes,
     ListenerCancelled
<1>7. sock' \subseteq sock \cup {Event(g)}
  BY <1>1 DEF Listener, Listen, Heard, Lost, Recycled, Reopened, Reconnected, ReconnectFails,
     ListenerCrashes, ListenerCancelled, FromSession
<1>8. task = g => x # "ended"
  BY <1>1, <1>4 DEF Listener, Listen, Heard, Lost, Recycled, Reopened, Reconnected, ReconnectFails,
     ListenerCrashes, ListenerCancelled
<1>9. listener'[g] = x /\ \A h \in Pairs \ {g} : listener'[h] = listener[h]
  BY <1>1, <1>4
<1>10. /\ \A h \in Pairs \ {g} : reads'[h] = reads[h]
       /\ x \in FromSession => reads'[g] = g
  BY <1>1, <1>5
<1>11. TransportTypes'
  <2>1. listener' \in [Pairs -> Ended \cup {"top"} \cup FromSession] /\ reads' \in [Pairs -> 0 .. MaxPairs]
    BY <1>1, <1>4, <1>5 DEF Ended, FromSession
  <2>2. cancelled' \subseteq Pairs /\ sock' \subseteq Sessions
    BY <1>1, <1>6, <1>7
  <2> QED
    BY <1>2, <2>1, <2>2 DEF TransportInv, TransportTypes
<1>12. x # "none"
  BY DEF FromSession
<1> QED
  BY <1>2, <1>3, <1>6, <1>7, <1>8, <1>9, <1>10, <1>11, <1>12 DEF ListenerStep

(* What a send() may do: take the pair that is held, and lose or open the   *)
(* streams of the command session of the pair it has taken.                 *)
SenderStep(s) ==
  /\ UNCHANGED <<op, why, mine, taken, made, held, task, stopping, listener, reads, cancelled, spoiled,
                 abandoned>>
  /\ \A t \in Senders \ {s} : call'[t] = call[t] /\ using'[t] = using[t]
  /\ call'[s] \in Sending =>
       \/ using'[s] = held /\ held # None
       \/ call[s] \in Sending /\ using'[s] = using[s]
  /\ \/ sock' \subseteq sock
     \/ call[s] \in Sending /\ sock' = sock \cup {Command(using[s])}

LEMMA SenderStepKeeps ==
  ASSUME TransportInv, NEW s \in Senders, SenderStep(s), TransportTypes'
  PROVE  TransportInv'
<1>1. OwnerInv' /\ TaskInv'
  BY DEF TransportInv, OwnerInv, TaskInv, OwnersIdle, SenderStep, Active
<1>2. held # None => held \in Pairs
  BY HeldIsMade
<1>3. SenderInv'
  <2>1. \A t \in Senders \ {s} : (call[t] \in Sending => using[t] \in Pairs
                                     /\ (using[t] = held \/ using[t] \in spoiled))'
    BY DEF TransportInv, SenderInv, SenderStep
  <2>2. (call[s] \in Sending => using[s] \in Pairs /\ (using[s] = held \/ using[s] \in spoiled))'
    BY <1>2 DEF TransportInv, SenderInv, SenderStep
  <2> QED
    BY <2>1, <2>2 DEF SenderInv
<1>4. NoOrphan'
  <2>1. CASE sock' \subseteq sock
    BY <2>1 DEF TransportInv, SenderStep, NoOrphan
  <2>2. CASE call[s] \in Sending /\ sock' = sock \cup {Command(using[s])}
    <3>1. using[s] \in Pairs /\ (using[s] = held \/ using[s] \in spoiled)
      BY <2>2 DEF TransportInv, SenderInv
    <3>2. Command(using[s]) \in Sessions /\ Command(using[s])[2] = using[s]
      BY <3>1 DEF Command, Sessions
    <3> QED
      BY <2>2, <3>1, <3>2, SocketsKept DEF TransportInv, SenderStep
  <2> QED
    BY <2>1, <2>2 DEF SenderStep
<1> QED
  BY <1>1, <1>3, <1>4 DEF TransportInv

LEMMA SenderSteps ==
  ASSUME TransportInv, NEW s \in Senders, Sender(s)
  PROVE  TransportTypes' /\ SenderStep(s)
<1> USE DEF Calls, owners, transport, listeners, sessions, ghosts
<1>1. /\ call \in [Senders -> Sending \cup {"idle", "done", "raised"}]
      /\ using \in [Senders -> 0 .. MaxPairs] /\ sock \subseteq Sessions /\ held \in 0 .. MaxPairs
      /\ call[s] \in Sending => Command(using[s]) \in Sessions
  BY TransportAssumption DEF TransportInv, TransportTypes, SenderInv, Command, Sessions
<1>2. /\ UNCHANGED <<op, why, mine, taken, made, held, task, stopping, listener, reads, cancelled, spoiled,
                     abandoned>>
  BY DEF Sender, Send, Granted, SendOpens, SendConnects, Sent, SendAgain, SendFails
<1>3. PICK x \in Sending \cup {"done", "raised"} : call' = [call EXCEPT ![s] = x]
  BY DEF Sender, Send, Granted, SendOpens, SendConnects, Sent, SendAgain, SendFails, Sending
<1>4. \/ held # None /\ using' = [using EXCEPT ![s] = held]
      \/ using' = using /\ (x \in Sending => call[s] \in Sending)
  BY <1>1, <1>3 DEF Sender, Send, Granted, SendOpens, SendConnects, Sent, SendAgain, SendFails, Sending
<1>5. \/ sock' \subseteq sock
      \/ call[s] \in Sending /\ sock' = sock \cup {Command(using[s])}
  BY DEF Sender, Send, Granted, SendOpens, SendConnects, Sent, SendAgain, SendFails, Sending
<1>6. call'[s] = x /\ \A t \in Senders \ {s} : call'[t] = call[t] /\ using'[t] = using[t]
  BY <1>1, <1>3, <1>4
<1>7. TransportTypes'
  <2>1. call' \in [Senders -> Sending \cup {"idle", "done", "raised"}] /\ using' \in [Senders -> 0 .. MaxPairs]
    BY <1>1, <1>3, <1>4
  <2>2. sock' \subseteq Sessions
    BY <1>1, <1>5
  <2> QED
    BY <1>2, <2>1, <2>2 DEF TransportInv, TransportTypes
<1>8. x \in Sending => \/ using'[s] = held /\ held # None
                       \/ call[s] \in Sending /\ using'[s] = using[s]
  BY <1>1, <1>4
<1> QED
  BY <1>2, <1>5, <1>6, <1>7, <1>8 DEF SenderStep

(* What every step of the owner leaves alone. *)
OwnerMoves(o, place) ==
  /\ op' = [op EXCEPT ![o] = place]
  /\ UNCHANGED <<reads, call, using>>

(* connect() goes on with the pair that is held. *)
LEMMA OpeningKeeps ==
  ASSUME OneOwner, TransportInv, NEW o \in Owners, NEW place \in Opening, OwnerMoves(o, place),
         op[o] \in Opening, sock' \subseteq sock \cup {At(o)},
         UNCHANGED <<why, mine, taken, transport, listener, cancelled, ghosts>>
  PROVE  TransportInv'
<1> USE DEF OwnerMoves, transport, ghosts
<1>1. \A p \in Owners : p = o
  BY DEF OneOwner
<1>2. /\ op \in [Owners -> Opening \cup Closing \cup {"idle", "join"}]
      /\ op' \in [Owners -> Opening \cup Closing \cup {"idle", "join"}]
      /\ op'[o] = place
  BY DEF TransportInv, TransportTypes
<1>3. place \notin Closing \cup {"idle", "join"} /\ op[o] \notin Closing \cup {"idle", "join"}
  BY DEF Opening, Closing
<1>4. mine[o] = held /\ held \in Pairs
  BY HeldIsMade DEF TransportInv, OwnerInv
<1>5. At(o) \in Sessions /\ At(o)[2] = held
  BY <1>4 DEF At, Event, Command, Sessions
<1>6. TransportTypes'
  BY <1>2, <1>5 DEF TransportInv, TransportTypes
<1>7. OwnerInv'
  BY <1>1, <1>2, <1>3 DEF TransportInv, OwnerInv, OwnersIdle
<1>8. TaskInv'
  BY <1>1, <1>2, <1>3 DEF TransportInv, TaskInv, OwnersIdle, Active
<1>9. SenderInv'
  BY DEF TransportInv, SenderInv
<1>10. NoOrphan'
  <2>1. \A p \in Owners : op[p] \notin {"stopKeepalive", "closeEvent"}
    BY <1>1, <1>3 DEF Closing
  <2>2. \A k \in {"event", "command"}, g \in Pairs \ spoiled : <<k, g>> \in sock' => g = held
    <3> SUFFICES ASSUME NEW k \in {"event", "command"}, NEW g \in Pairs \ spoiled, <<k, g>> \in sock'
                 PROVE  g = held
      OBVIOUS
    <3>1. CASE <<k, g>> \in sock
      BY <2>1, <3>1 DEF TransportInv, NoOrphan
    <3>2. CASE <<k, g>> = At(o)
      BY <1>5, <3>2
    <3> QED
      BY <3>1, <3>2
  <2> QED
    BY <2>2 DEF NoOrphan
<1> QED
  BY <1>6, <1>7, <1>8, <1>9, <1>10 DEF TransportInv

(* connect() returns, with a listener for the pair, or is abandoned. *)
LEMMA UpKeeps ==
  ASSUME OneOwner, TransportInv, NEW o \in Owners, OwnerMoves(o, "idle"), op[o] \in Opening,
         \/ /\ task' = mine[o] /\ listener' = [listener EXCEPT ![mine[o]] = "top"]
            /\ abandoned' = abandoned
         \/ task' = task /\ listener' = listener /\ abandoned' = abandoned \cup {mine[o]},
         UNCHANGED <<why, mine, taken, made, held, stopping, cancelled, sock, spoiled>>
  PROVE  TransportInv'
<1> USE DEF OwnerMoves
<1>1. \A p \in Owners : p = o
  BY DEF OneOwner
<1>2. /\ op \in [Owners -> Opening \cup Closing \cup {"idle", "join"}]
      /\ op' \in [Owners -> Opening \cup Closing \cup {"idle", "join"}]
      /\ op'[o] = "idle"
  BY DEF TransportInv, TransportTypes
<1>3. "idle" \notin Opening \cup Closing \cup {"join"} /\ op[o] \notin Closing \cup {"idle", "join"}
  BY DEF Opening, Closing
<1>4. /\ mine[o] = held /\ held \in Pairs /\ held <= made /\ held # None /\ task = None /\ ~stopping
      /\ listener[held] = "none" /\ held \notin cancelled
  BY HeldIsMade DEF TransportInv, OwnerInv, TaskInv
<1>5. /\ listener \in [Pairs -> Ended \cup {"top"} \cup FromSession]
      /\ task' \in {None, held}
      /\ task' = held => listener' = [listener EXCEPT ![held] = "top"]
      /\ task' = None => listener' = listener /\ held \in abandoned'
  BY <1>4 DEF TransportInv, TransportTypes
<1>6. TransportTypes'
  <2>1. task' \in 0 .. made
    BY <1>4, <1>5 DEF TransportInv, TransportTypes, None
  <2>2. listener' \in [Pairs -> Ended \cup {"top"} \cup FromSession]
    BY <1>4, <1>5
  <2> QED
    BY <1>2, <2>1, <2>2 DEF TransportInv, TransportTypes
<1>7. OwnerInv'
  BY <1>1, <1>2, <1>3, <1>4, <1>5 DEF TransportInv, OwnerInv, OwnersIdle
<1>8. \A g \in Pairs : ~Active(g)
  BY <1>1, <1>3, <1>4 DEF TransportInv, TaskInv, Active, Ended
<1>9. TaskInv'
  <2>1. \A g \in Pairs : Active(g)' => g = held /\ task' = held /\ listener'[g] = "top"
    BY <1>4, <1>5, <1>8 DEF Active
  <2>2. (task # None => /\ task = held /\ ~stopping /\ OwnersIdle
                        /\ listener[task] \notin {"none", "ended"} /\ task \notin cancelled)'
    BY <1>1, <1>2, <1>4, <1>5 DEF OwnersIdle
  <2>3. \A g \in Pairs : g > made => listener'[g] = "none"
    <3>1. ~(held > made)
      BY <1>4, HeldIsMade DEF Pairs
    <3> QED
      BY <1>4, <1>5, <3>1 DEF TransportInv, TaskInv
  <2>4. \A g \in cancelled : listener'[g] # "none"
    BY <1>4, <1>5 DEF TransportInv, TransportTypes, TaskInv
  <2> QED
    BY <2>1, <2>2, <2>3, <2>4 DEF TaskInv, FromSession
<1>10. SenderInv'
  BY DEF TransportInv, SenderInv
<1>11. NoOrphan'
  BY <1>1, <1>3 DEF TransportInv, NoOrphan, Closing
<1> QED
  BY <1>6, <1>7, <1>9, <1>10, <1>11 DEF TransportInv

(* disconnect() cancels the listener, and waits for it. *)
LEMMA JoinKeeps ==
  ASSUME OneOwner, TransportInv, NEW o \in Owners, OwnerMoves(o, "join"), task # None,
         taken' = [taken EXCEPT ![o] = task], task' = None, stopping' = TRUE,
         cancelled' \subseteq cancelled \cup {task}, sock' \subseteq sock,
         why' \in [Owners -> {"none", "connect", "failed", "disconnect"}],
         UNCHANGED <<mine, made, held, listener, spoiled, abandoned>>
  PROVE  TransportInv'
<1> USE DEF OwnerMoves
<1>1. \A p \in Owners : p = o
  BY DEF OneOwner
<1>2. /\ op \in [Owners -> Opening \cup Closing \cup {"idle", "join"}]
      /\ op' \in [Owners -> Opening \cup Closing \cup {"idle", "join"}]
      /\ op'[o] = "join"
      /\ taken \in [Owners -> 0 .. MaxPairs]
  BY DEF TransportInv, TransportTypes
<1>3. "join" \notin Opening \cup Closing \cup {"idle"} /\ "idle" \notin Opening \cup Closing \cup {"join"}
  BY DEF Opening, Closing
<1>4. /\ task = held /\ held # None /\ held \in Pairs /\ op[o] = "idle"
      /\ listener[held] # "none"
  BY HeldIsMade DEF TransportInv, TaskInv, OwnersIdle
<1>5. taken' \in [Owners -> 0 .. MaxPairs] /\ taken'[o] = held
  BY <1>2, <1>4 DEF Pairs
<1>6. TransportTypes'
  <2>1. task' \in 0 .. made /\ stopping' \in BOOLEAN
    BY HeldIsMade DEF None
  <2>2. cancelled' \subseteq Pairs /\ sock' \subseteq Sessions
    BY <1>4 DEF TransportInv, TransportTypes
  <2> QED
    BY <1>2, <1>5, <2>1, <2>2 DEF TransportInv, TransportTypes
<1>7. OwnerInv'
  BY <1>1, <1>2, <1>3, <1>4, <1>5 DEF OwnerInv, OwnersIdle
<1>8. TaskInv'
  BY <1>1, <1>2, <1>3, <1>4 DEF TransportInv, TaskInv, OwnersIdle, Active
<1>9. SenderInv'
  BY DEF TransportInv, SenderInv
<1>10. NoOrphan'
  <2>1. \A p \in Owners : op[p] \notin {"stopKeepalive", "closeEvent"}
    BY <1>1, <1>4
  <2>2. \A k \in {"event", "command"}, g \in Pairs \ spoiled : <<k, g>> \in sock' => g = held
    BY <2>1 DEF TransportInv, NoOrphan
  <2> QED
    BY <2>2 DEF NoOrphan
<1> QED
  BY <1>6, <1>7, <1>8, <1>9, <1>10 DEF TransportInv

(* It takes the pair from the transport, when nobody listens to it. *)
LEMMA TakeKeeps ==
  ASSUME OneOwner, TransportInv, NEW o \in Owners, TakeSessions(o), UNCHANGED <<reads, call, using>>,
         op[o] \notin Closing, task = None, held \in Pairs => ~Active(held),
         task' = None, sock' \subseteq sock, cancelled' = cancelled, stopping' \in BOOLEAN,
         why' \in [Owners -> {"none", "connect", "failed", "disconnect"}],
         UNCHANGED <<mine, made, listener, abandoned>>
  PROVE  TransportInv'
<1>1. \A p \in Owners : p = o
  BY DEF OneOwner
<1>2. /\ op \in [Owners -> Opening \cup Closing \cup {"idle", "join"}]
      /\ op' = [op EXCEPT ![o] = "stopKeepalive"]
      /\ taken \in [Owners -> 0 .. MaxPairs]
      /\ taken' = [taken EXCEPT ![o] = held]
      /\ held # None /\ held' = None
      /\ spoiled' = IF InUse(o, held) THEN spoiled \cup {held} ELSE spoiled
  BY DEF TransportInv, TransportTypes, TakeSessions, Goes
<1>3. /\ op' \in [Owners -> Opening \cup Closing \cup {"idle", "join"}]
      /\ op'[o] = "stopKeepalive" /\ op'[o] \in Closing /\ op'[o] \notin Opening \cup {"idle", "join"}
  BY <1>2 DEF Opening, Closing
<1>4. held \in Pairs /\ taken' \in [Owners -> 0 .. MaxPairs] /\ taken'[o] = held
  BY <1>2, HeldIsMade DEF Pairs
<1>5. TransportTypes'
  <2>1. task' \in 0 .. made /\ held' \in 0 .. made'
    BY <1>2, HeldIsMade DEF None
  <2>2. spoiled' \subseteq Pairs /\ sock' \subseteq Sessions
    BY <1>2, <1>4 DEF TransportInv, TransportTypes
  <2> QED
    BY <1>3, <1>4, <2>1, <2>2 DEF TransportInv, TransportTypes
<1>6. OwnerInv'
  BY <1>1, <1>2, <1>3, <1>4 DEF OwnerInv, OwnersIdle
<1>7. TaskInv'
  <2>1. \A g \in Pairs : ~Active(g)'
    BY <1>4 DEF TransportInv, TaskInv, Active
  <2> QED
    BY <2>1 DEF TransportInv, TaskInv
<1>8. SenderInv'
  <2> SUFFICES ASSUME NEW s \in Senders, call[s] \in Sending
               PROVE  using[s] \in Pairs /\ using[s] \in spoiled'
    BY DEF SenderInv
  <2>1. using[s] \in Pairs /\ (using[s] = held \/ using[s] \in spoiled)
    BY DEF TransportInv, SenderInv
  <2>2. CASE using[s] = held
    BY <1>2, <2>1, <2>2 DEF InUse
  <2> QED
    BY <1>2, <2>1, <2>2
<1>9. NoOrphan'
  <2>1. \A p \in Owners : op[p] \notin {"stopKeepalive", "closeEvent"}
    BY <1>1 DEF Closing
  <2>2. \A k \in {"event", "command"}, g \in Pairs \ spoiled : <<k, g>> \in sock' => g = held
    BY <2>1 DEF TransportInv, NoOrphan
  <2>3. \A k \in {"event", "command"}, g \in Pairs \ spoiled' : <<k, g>> \in sock' => taken'[o] = g
    BY <1>2, <1>4, <2>2
  <2> QED
    BY <1>3, <2>3 DEF NoOrphan
<1> QED
  BY <1>5, <1>6, <1>7, <1>8, <1>9 DEF TransportInv

(* A new pair: the one before it was closed, and nobody listens. *)
LEMMA MakeKeeps ==
  ASSUME OneOwner, TransportInv, NEW o \in Owners, Make(o), UNCHANGED <<reads, call, using>>,
         op[o] \in {"idle", "closeCommand"}, held = None, sock' = sock,
         UNCHANGED <<why, taken, task, listener, cancelled, spoiled, abandoned>>
  PROVE  TransportInv'
<1>1. \A p \in Owners : p = o
  BY DEF OneOwner
<1>2. /\ op \in [Owners -> Opening \cup Closing \cup {"idle", "join"}]
      /\ op' = [op EXCEPT ![o] = "openEvent"]
      /\ mine \in [Owners -> 0 .. MaxPairs] /\ mine' = [mine EXCEPT ![o] = made + 1]
      /\ made < MaxPairs /\ made' = made + 1 /\ held' = made + 1 /\ stopping' = FALSE
  BY DEF TransportInv, TransportTypes, Make, Goes
<1>3. /\ op' \in [Owners -> Opening \cup Closing \cup {"idle", "join"}]
      /\ op'[o] = "openEvent" /\ op'[o] \in Opening /\ op'[o] \notin Closing \cup {"idle", "join"}
  BY <1>2 DEF Opening, Closing
<1>4. /\ made \in Nat /\ made + 1 \in Pairs /\ made + 1 # None /\ made + 1 \in 0 .. made'
      /\ task = None /\ made' \in 0 .. MaxPairs
  BY <1>2, HeldIsMade, TransportAssumption DEF TransportInv, TaskInv, Pairs, None
<1>5. mine' \in [Owners -> 0 .. MaxPairs] /\ mine'[o] = held'
  BY <1>2, <1>4 DEF Pairs
<1>6. listener[held'] = "none"
  BY <1>2, <1>4 DEF TransportInv, TaskInv
<1>7. TransportTypes'
  <2>1. task' \in 0 .. made' /\ held' \in 0 .. made'
    BY <1>2, <1>4 DEF None
  <2> QED
    BY <1>2, <1>3, <1>4, <1>5, <2>1 DEF TransportInv, TransportTypes
<1>8. OwnerInv'
  BY <1>1, <1>2, <1>3, <1>4, <1>5, <1>6 DEF OwnerInv, OwnersIdle
<1>9. \A g \in Pairs : g # None
  BY TransportAssumption DEF Pairs, None
<1>10. TaskInv'
  <2>1. \A g \in Pairs : ~Active(g)'
    BY <1>9 DEF TransportInv, TaskInv, Active
  <2>2. \A g \in Pairs : g > made' => listener'[g] = "none"
    <3>1. \A g \in Pairs : g > made' => g > made
      BY <1>2, <1>4, TransportAssumption DEF Pairs
    <3> QED
      BY <3>1 DEF TransportInv, TaskInv
  <2> QED
    BY <1>4, <2>1, <2>2 DEF TransportInv, TaskInv
<1>11. SenderInv'
  BY <1>9 DEF TransportInv, SenderInv
<1>12. NoOrphan'
  <2>1. \A p \in Owners : op[p] \notin {"stopKeepalive", "closeEvent"}
    BY <1>1
  <2>2. \A k \in {"event", "command"}, g \in Pairs \ spoiled : <<k, g>> \notin sock
    BY <1>9, <2>1 DEF TransportInv, NoOrphan
  <2> QED
    BY <2>2 DEF NoOrphan
<1> QED
  BY <1>7, <1>8, <1>10, <1>11, <1>12 DEF TransportInv

(* Closing goes on, ends, or is cancelled: with every step it has passed,   *)
(* a session of the pair has lost its streams.                              *)
LEMMA ClosingKeeps ==
  ASSUME OneOwner, TransportInv, NEW o \in Owners, NEW place \in Closing \cup {"idle"},
         OwnerMoves(o, place), op[o] \in Closing, sock' \subseteq sock,
         \/ /\ spoiled' = spoiled
            /\ place # "stopKeepalive" /\ Event(taken[o]) \notin sock'
            /\ place # "closeEvent" => Command(taken[o]) \notin sock'
         \/ spoiled' = spoiled \cup {taken[o]},
         UNCHANGED <<why, mine, taken, transport, listener, cancelled>>
  PROVE  TransportInv'
<1> USE DEF OwnerMoves, transport
<1>1. \A p \in Owners : p = o
  BY DEF OneOwner
<1>2. /\ op \in [Owners -> Opening \cup Closing \cup {"idle", "join"}]
      /\ op' \in [Owners -> Opening \cup Closing \cup {"idle", "join"}]
      /\ op'[o] = place
  BY DEF TransportInv, TransportTypes
<1>3. place \notin Opening \cup {"join"} /\ op[o] \notin Opening \cup {"idle", "join"}
  BY DEF Opening, Closing
<1>4. /\ taken[o] # None /\ held = None /\ task = None /\ taken[o] \in 0 .. MaxPairs
      /\ \A g \in Pairs : g # None
  BY TransportAssumption DEF TransportInv, TransportTypes, OwnerInv, Pairs, None
<1>5. taken[o] \in Pairs
  BY <1>4, TransportAssumption DEF Pairs, None
<1>6. TransportTypes'
  BY <1>2, <1>5 DEF TransportInv, TransportTypes
<1>7. OwnerInv'
  BY <1>1, <1>2, <1>3, <1>4 DEF OwnerInv, OwnersIdle
<1>8. TaskInv'
  BY <1>4 DEF TransportInv, TaskInv, Active
<1>9. SenderInv'
  BY DEF TransportInv, SenderInv
<1>10. NoOrphan'
  <2> SUFFICES ASSUME NEW k \in {"event", "command"}, NEW g \in Pairs \ spoiled', <<k, g>> \in sock'
               PROVE  /\ taken[o] = g
                      /\ op'[o] \in IF k = "event" THEN {"stopKeepalive"}
                                    ELSE {"stopKeepalive", "closeEvent"}
    BY DEF NoOrphan
  <2>1. g \notin spoiled /\ <<k, g>> \in sock
    OBVIOUS
  <2>2. taken[o] = g
    BY <1>1, <1>4, <2>1 DEF TransportInv, NoOrphan
  <2>3. spoiled' = spoiled /\ <<k, g>> # Event(g) /\ <<k, g>> \in sock'
    BY <2>2
  <2>4. k = "command" /\ place = "closeEvent"
    BY <2>2, <2>3 DEF Event, Command
  <2> QED
    BY <1>2, <2>2, <2>4
<1> QED
  BY <1>6, <1>7, <1>8, <1>9, <1>10 DEF TransportInv

(* A disconnect() that is called by its user, by connect(), or because a    *)
(* session did not open.                                                    *)
LEMMA DisconnectKeeps ==
  ASSUME OneOwner, TransportInv, NEW o \in Owners, NEW reason \in {"connect", "failed", "disconnect"},
         Disconnect(o, reason), op[o] \in Opening \cup {"idle"}, sock' \subseteq sock,
         UNCHANGED <<listener, reads, call, using, abandoned>>
  PROVE  TransportInv'
<1>1. /\ why' \in [Owners -> {"none", "connect", "failed", "disconnect"}]
      /\ stopping' = TRUE /\ task' = None /\ UNCHANGED <<mine, made>>
  BY DEF TransportInv, TransportTypes, Disconnect
<1>2. CASE task # None
  <2>1. /\ OwnerMoves(o, "join") /\ taken' = [taken EXCEPT ![o] = task]
        /\ cancelled' \subseteq cancelled \cup {task} /\ UNCHANGED <<held, spoiled>>
    BY <1>2 DEF Disconnect, OwnerMoves, Goes
  <2> QED
    BY <1>1, <1>2, <2>1, JoinKeeps
<1>3. CASE task = None /\ TakeSessions(o) /\ cancelled' = cancelled
  <2>1. op[o] \notin Closing \cup {"join"}
    BY DEF Opening, Closing
  <2>2. held \in Pairs => ~Active(held)
    <3>1. \A p \in Owners : op[p] # "join"
      BY <2>1 DEF OneOwner
    <3>2. \A g \in Pairs : g # task
      BY <1>3, TransportAssumption DEF Pairs, None
    <3> QED
      BY <3>1, <3>2 DEF TransportInv, TaskInv
  <2> QED
    BY <1>1, <1>3, <2>1, <2>2, TakeKeeps
<1>4. CASE /\ task = None /\ held = None /\ op' = [op EXCEPT ![o] = "idle"]
           /\ UNCHANGED <<taken, held, spoiled, cancelled>>
  <2>1. op[o] = "idle"
    BY <1>4 DEF TransportInv, OwnerInv
  <2>2. op' = op
    BY <1>4, <2>1 DEF TransportInv, TransportTypes
  <2>3. \A g \in Pairs : g # None
    BY TransportAssumption DEF Pairs, None
  <2>4. TransportTypes'
    BY <1>1, <1>4, <2>2 DEF TransportInv, TransportTypes
  <2>5. OwnerInv'
    BY <1>1, <1>4, <2>1, <2>2 DEF TransportInv, OwnerInv, OwnersIdle, OneOwner, Opening, Closing
  <2>6. TaskInv' /\ SenderInv'
    BY <1>1, <1>4, <2>2, <2>3 DEF TransportInv, TaskInv, SenderInv, Active
  <2>7. NoOrphan'
    BY <1>4, <2>2 DEF TransportInv, NoOrphan
  <2> QED
    BY <2>4, <2>5, <2>6, <2>7 DEF TransportInv
<1> QED
  BY <1>2, <1>3, <1>4 DEF Disconnect, Goes

LEMMA ClosedSoFar ==
  ASSUME OneOwner, TransportInv, NEW o \in Owners, op[o] \in Closing
  PROVE  \/ taken[o] \in spoiled
         \/ /\ op[o] # "stopKeepalive" => Event(taken[o]) \notin sock
            /\ op[o] = "closeCommand" => Command(taken[o]) \notin sock
<1>1. \A p \in Owners : p = o
  BY DEF OneOwner
<1>2. taken[o] \in Pairs /\ held \notin Pairs
  BY TransportAssumption DEF TransportInv, TransportTypes, OwnerInv, Pairs, None
<1>3. ASSUME taken[o] \notin spoiled, NEW k \in {"event", "command"}, <<k, taken[o]>> \in sock
      PROVE  op[o] \in IF k = "event" THEN {"stopKeepalive"} ELSE {"stopKeepalive", "closeEvent"}
  BY <1>1, <1>2, <1>3 DEF TransportInv, NoOrphan
<1> QED
  BY <1>3 DEF Event, Command

LEMMA OwnerStepsKeep ==
  ASSUME OneOwner, TransportInv, NEW o \in Owners, OwnerWorks(o) \/ OwnerCalls(o)
  PROVE  TransportInv'
<1> USE DEF owners, transport, listeners, senders, sessions, ghosts
<1>1. CASE Joined(o)
  <2>1. /\ op[o] = "join" /\ taken[o] = held /\ held # None /\ task = None /\ listener[held] \in Ended
        /\ TakeSessions(o)
        /\ UNCHANGED <<made, stopping, mine, why, task, listeners, senders, sessions, abandoned>>
    BY <1>1 DEF Joined, TransportInv, OwnerInv
  <2>2. op[o] \notin Closing /\ ~Active(held) /\ task' = None
    BY <2>1 DEF Closing, Active
  <2>3. stopping' \in BOOLEAN /\ why' \in [Owners -> {"none", "connect", "failed", "disconnect"}]
    BY <2>1 DEF TransportInv, TransportTypes
  <2> QED
    BY <2>1, <2>2, <2>3, TakeKeeps
<1>2. CASE CloseEvent(o)
  <2>1. /\ OwnerMoves(o, "closeEvent") /\ op[o] \in Closing
        /\ sock' = sock \ {Event(taken[o])}
        /\ UNCHANGED <<why, mine, taken, transport, listener, cancelled, spoiled>>
    BY <1>2 DEF CloseEvent, OwnerMoves, Goes, Closing
  <2>2. "closeEvent" \in Closing \cup {"idle"}
    BY DEF Closing
  <2> QED
    BY <2>1, <2>2, ClosingKeeps
<1>3. CASE CloseCommand(o)
  <2>1. /\ OwnerMoves(o, "closeCommand") /\ op[o] = "closeEvent" /\ op[o] \in Closing
        /\ sock' = sock \ {Command(taken[o])}
        /\ UNCHANGED <<why, mine, taken, transport, listener, cancelled, spoiled>>
    BY <1>3 DEF CloseCommand, OwnerMoves, Goes, Closing
  <2>2. "closeCommand" \in Closing \cup {"idle"}
    BY DEF Closing
  <2>3. CASE taken[o] \in spoiled
    <3>1. spoiled' = spoiled \cup {taken[o]} /\ sock' \subseteq sock
      BY <2>1, <2>3
    <3> QED
      BY <2>1, <2>2, <3>1, ClosingKeeps
  <2>4. CASE taken[o] \notin spoiled
    <3>1. Event(taken[o]) \notin sock' /\ Command(taken[o]) \notin sock' /\ sock' \subseteq sock
      BY <2>1, <2>4, ClosedSoFar
    <3> QED
      BY <2>1, <2>2, <3>1, ClosingKeeps
  <2> QED
    BY <2>3, <2>4
<1>4. CASE Closed(o)
  <2>1. /\ op[o] = "closeCommand" /\ op[o] \in Closing
        /\ UNCHANGED <<why, taken, task, listener, cancelled, reads, call, using, sock, spoiled, abandoned>>
    BY <1>4 DEF Closed, Closing
  <2>2. held = None
    BY <2>1 DEF TransportInv, OwnerInv
  <2>3. CASE Make(o)
    BY <2>1, <2>2, <2>3, MakeKeeps
  <2>4. CASE OwnerMoves(o, "idle") /\ UNCHANGED <<made, held, stopping, mine>>
    <3>1. UNCHANGED transport
      BY <2>1, <2>4
    <3>2. CASE taken[o] \in spoiled
      <4>1. spoiled' = spoiled \cup {taken[o]} /\ sock' \subseteq sock
        BY <2>1, <3>2
      <4> QED
        BY <2>1, <2>4, <3>1, <4>1, ClosingKeeps
    <3>3. CASE taken[o] \notin spoiled
      <4>1. Event(taken[o]) \notin sock' /\ Command(taken[o]) \notin sock' /\ sock' \subseteq sock
        BY <2>1, <3>3, ClosedSoFar
      <4> QED
        BY <2>1, <2>4, <3>1, <4>1, ClosingKeeps
    <3> QED
      BY <3>2, <3>3
  <2> QED
    BY <1>4, <2>1, <2>3, <2>4 DEF Closed, Disconnected, OwnerMoves, Goes
<1>5. CASE CancelClosing(o)
  <2>1. /\ OwnerMoves(o, "idle") /\ op[o] \in Closing /\ sock' = sock
        /\ spoiled' = spoiled \cup {taken[o]}
        /\ UNCHANGED <<why, mine, taken, transport, listener, cancelled>>
    BY <1>5 DEF CancelClosing, OwnerMoves, Goes
  <2> QED
    BY <2>1, ClosingKeeps
<1>6. CASE Opened(o) \/ Retries(o) \/ EventIsUp(o)
  <2>1. /\ op[o] \in Opening /\ sock' \subseteq sock \cup {At(o)}
        /\ UNCHANGED <<why, mine, taken, transport, listener, cancelled, ghosts>>
    BY <1>6 DEF Opened, Retries, EventIsUp, IsOpening, IsShaking, Opening
  <2>2. \E place \in Opening : OwnerMoves(o, place)
    BY <1>6 DEF Opened, Retries, EventIsUp, OwnerMoves, Goes, Opening
  <2> QED
    BY <2>1, <2>2, OpeningKeeps
<1>7. CASE CommandIsUp(o)
  <2>1. op[o] \in Opening /\ OwnerMoves(o, "idle")
    BY <1>7 DEF CommandIsUp, Opening, OwnerMoves, Goes
  <2> QED
    BY <1>7, <2>1, UpKeeps DEF CommandIsUp
<1>8. CASE Abandons(o)
  <2>1. op[o] \in Opening /\ OwnerMoves(o, "idle")
    BY <1>8 DEF Abandons, IsOpening, IsShaking, Opening, OwnerMoves, Goes
  <2> QED
    BY <1>8, <2>1, UpKeeps DEF Abandons
<1>9. CASE ConnectFails(o)
  <2>1. op[o] \in Opening /\ sock' \subseteq sock /\ Disconnect(o, "failed")
    BY <1>9 DEF ConnectFails, IsOpening, IsShaking, Opening
  <2> QED
    BY <1>9, <2>1, DisconnectKeeps DEF ConnectFails
<1>10. CASE CallDisconnect(o)
  BY <1>10, DisconnectKeeps DEF CallDisconnect
<1>11. CASE CallConnect(o)
  <2>1. CASE held # None
    BY <1>11, <2>1, DisconnectKeeps DEF CallConnect
  <2>2. CASE held = None
    BY <1>11, <2>2, MakeKeeps DEF CallConnect
  <2> QED
    BY <2>1, <2>2
<1> QED
  BY <1>1, <1>2, <1>3, <1>4, <1>5, <1>6, <1>7, <1>8, <1>9, <1>10, <1>11 DEF OwnerWorks, OwnerCalls

LEMMA TransportInvInit == Init => TransportInv
<1> SUFFICES ASSUME Init PROVE TransportInv
  OBVIOUS
<1>1. TransportTypes
  <2>1. 0 \in 0 .. MaxPairs /\ 0 \in 0 .. 0
    BY TransportAssumption
  <2>2. /\ op \in [Owners -> Opening \cup Closing \cup {"idle", "join"}]
        /\ why \in [Owners -> {"none", "connect", "failed", "disconnect"}]
        /\ call \in [Senders -> Sending \cup {"idle", "done", "raised"}]
        /\ listener \in [Pairs -> Ended \cup {"top"} \cup FromSession]
    BY DEF Init, Ended
  <2>3. /\ mine \in [Owners -> 0 .. MaxPairs] /\ taken \in [Owners -> 0 .. MaxPairs]
        /\ reads \in [Pairs -> 0 .. MaxPairs] /\ using \in [Senders -> 0 .. MaxPairs]
    BY <2>1 DEF Init, None
  <2>4. /\ made \in 0 .. MaxPairs /\ held \in 0 .. made /\ task \in 0 .. made /\ stopping \in BOOLEAN
        /\ cancelled \subseteq Pairs /\ sock \subseteq Sessions /\ spoiled \subseteq Pairs
    BY <2>1 DEF Init, None
  <2> QED
    BY <2>2, <2>3, <2>4 DEF TransportTypes
<1>2. OwnerInv
  BY DEF Init, OwnerInv, Opening, Closing
<1>3. TaskInv
  BY DEF Init, TaskInv, Active, Ended
<1>4. SenderInv /\ NoOrphan
  BY DEF Init, SenderInv, NoOrphan, Sending
<1> QED
  BY <1>1, <1>2, <1>3, <1>4 DEF TransportInv

LEMMA TransportInvStep == ASSUME OneOwner PROVE TransportInv /\ [Next]_vars => TransportInv'
<1> SUFFICES ASSUME TransportInv, [Next]_vars PROVE TransportInv'
  OBVIOUS
<1>1. ASSUME NEW o \in Owners, OwnerWorks(o) \/ OwnerCalls(o) PROVE TransportInv'
  BY <1>1, OwnerStepsKeep
<1>2. ASSUME NEW g \in Pairs, Listener(g) PROVE TransportInv'
  BY <1>2, ListenerSteps, ListenerStepKeeps
<1>3. ASSUME NEW s \in Senders, Sender(s) PROVE TransportInv'
  BY <1>3, SenderSteps, SenderStepKeeps
<1>4. CASE UNCHANGED vars
  BY <1>4 DEF vars, owners, transport, listeners, senders, sessions, ghosts, TransportInv, TransportTypes,
     OwnerInv, OwnersIdle, TaskInv, SenderInv, NoOrphan, Active
<1> QED
  BY <1>1, <1>2, <1>3, <1>4 DEF Next

(* However often a task opens and closes the transport, whatever fails      *)
(* half-way, and with any number of calls of send() beside it: no session   *)
(* that a disconnect() closed keeps its streams, a connected transport is   *)
(* listened to, and by one listener only.                                   *)
THEOREM OnePair == ASSUME OneOwner PROVE Spec => []OnePairInUse
<1>1. TransportInv => OnePairInUse
  <2> SUFFICES ASSUME TransportInv PROVE OnePairInUse
    OBVIOUS
  <2>1. OneListener
    BY DEF TransportInv, TaskInv, OneListener, Active
  <2>2. ConnectedIsHeard
    <3> SUFFICES ASSUME held # None, OwnersIdle, held \notin abandoned
                 PROVE  /\ task = held /\ listener[held] \notin {"none", "ended"}
                        /\ listener[held] \in FromSession => reads[held] = held
      BY DEF ConnectedIsHeard, IsConnected, Quiet, OwnersIdle, FromSession
    <3>1. task = held /\ held \in Pairs /\ listener[held] \notin {"none", "ended"}
      BY HeldIsMade DEF TransportInv, OwnerInv, TaskInv
    <3> QED
      BY <3>1 DEF TransportInv, TaskInv, Active, Ended, FromSession
  <2> QED
    BY <2>1, <2>2 DEF TransportInv, OnePairInUse
<1>2. TransportInv /\ [Next]_vars => TransportInv'
  BY TransportInvStep
<1> QED
  BY TransportInvInit, <1>1, <1>2, PTL DEF Spec

(*************************** the gateway ************************************)

(* A version is compared with one of three numbers as if it had three: its *)
(* first that differs decides.                                             *)
Reaches(v, a, b, c) ==
  \/ Part(v, 1) > a
  \/ Part(v, 1) = a /\ Part(v, 2) > b
  \/ Part(v, 1) = a /\ Part(v, 2) = b /\ Part(v, 3) >= c

LEMMA AtLeastReaches ==
  ASSUME NEW v \in Seq(Nat), NEW a \in Nat, NEW b \in Nat, NEW c \in Nat
  PROVE  AtLeast(Padded(v), <<a, b, c>>) <=> Reaches(v, a, b, c)
<1> DEFINE p == Padded(v)
           n == IF Len(v) < 3 THEN 3 ELSE Len(v)
           w == <<a, b, c>>
<1>1. n \in Nat /\ n >= 3 /\ Len(v) \in Nat /\ DOMAIN v = 1 .. Len(v)
  OBVIOUS
<1>2. p = [i \in 1 .. n |-> Part(v, i)]
  BY <1>1 DEF Padded, Part
<1>3. \A i \in 1 .. n : Part(v, i) \in Nat
  BY DEF Part
<1>4. p \in Seq(Nat) /\ Len(p) = n /\ DOMAIN p = 1 .. n
  <2> HIDE DEF n, p
  <2> QED
    BY <1>1, <1>2, <1>3
<1>5. p[1] = Part(v, 1) /\ p[2] = Part(v, 2) /\ p[3] = Part(v, 3)
  <2> HIDE DEF n, p
  <2> QED
    BY <1>1, <1>2
<1>6. DOMAIN w = {1, 2, 3} /\ Len(w) = 3 /\ w[1] = a /\ w[2] = b /\ w[3] = c
  OBVIOUS
<1>7. DOMAIN p \cap DOMAIN w = {1, 2, 3} /\ Len(p) >= Len(w)
  <2> HIDE DEF n, p, w
  <2> QED
    BY <1>1, <1>4, <1>6
<1>8. AtLeast(p, w) <=> \/ \E i \in {1, 2, 3} : p[i] > w[i] /\ \A j \in 1 .. i - 1 : p[j] = w[j]
                        \/ \A i \in {1, 2, 3} : p[i] = w[i]
  <2> HIDE DEF n, p, w
  <2> QED
    BY <1>6, <1>7 DEF AtLeast
<1>9. \A f : /\ (\A j \in 1 .. 1 - 1 : f[j] = w[j]) <=> TRUE
             /\ (\A j \in 1 .. 2 - 1 : f[j] = w[j]) <=> f[1] = w[1]
             /\ (\A j \in 1 .. 3 - 1 : f[j] = w[j]) <=> f[1] = w[1] /\ f[2] = w[2]
  <2> HIDE DEF w
  <2> QED
    OBVIOUS
<1>10. p[1] \in Nat /\ p[2] \in Nat /\ p[3] \in Nat
  BY <1>1, <1>3, <1>5
<1> HIDE DEF n, p, w
<1>11. AtLeast(p, w) <=> \/ p[1] > a
                         \/ p[2] > b /\ p[1] = a
                         \/ p[3] > c /\ p[1] = a /\ p[2] = b
                         \/ p[1] = a /\ p[2] = b /\ p[3] = c
  BY <1>6, <1>8, <1>9
<1>12. AtLeast(p, w) <=> Reaches(v, a, b, c)
  BY <1>5, <1>10, <1>11 DEF Reaches
<1> QED
  BY <1>12 DEF p, w

LEMMA SameReaches ==
  ASSUME NEW v \in Seq(Nat), NEW w \in Seq(Nat), NEW a \in Nat, NEW b \in Nat, NEW c \in Nat,
         SameVersion(v, w)
  PROVE  Reaches(v, a, b, c) <=> Reaches(w, a, b, c)
<1>1. \A i \in {1, 2, 3} : Part(v, i) = Part(w, i)
  BY DEF SameVersion, Part
<1> QED
  BY <1>1 DEF Reaches

LEMMA PartIsNat ==
  ASSUME NEW v \in Seq(Nat), NEW i \in Nat
  PROVE  Part(v, i) \in Nat
  BY DEF Part

LEMMA LaterReaches ==
  ASSUME NEW v \in Seq(Nat), NEW w \in Seq(Nat), NEW a \in Nat, NEW b \in Nat, NEW c \in Nat,
         Later(v, w), Reaches(w, a, b, c)
  PROVE  Reaches(v, a, b, c)
<1>1. PICK i \in DOMAIN v : v[i] > Part(w, i) /\ \A j \in 1 .. i - 1 : v[j] = Part(w, j)
  BY DEF Later
<1>2. /\ Part(v, 1) \in Nat /\ Part(v, 2) \in Nat /\ Part(v, 3) \in Nat
      /\ Part(w, 1) \in Nat /\ Part(w, 2) \in Nat /\ Part(w, 3) \in Nat
  BY PartIsNat
<1>3. i \in Nat /\ i >= 1 /\ Part(v, i) > Part(w, i)
  <2>1. i \in Nat /\ i >= 1
    BY <1>1
  <2>2. Part(v, i) = v[i]
    BY <1>1 DEF Part
  <2> QED
    BY <1>1, <2>1, <2>2
<1>4. \A j \in 1 .. i - 1 : Part(v, j) = Part(w, j)
  <2>1. ASSUME NEW j \in 1 .. i - 1
        PROVE  Part(v, j) = Part(w, j)
    <3>1. j \in DOMAIN v
      BY <1>1
    <3> QED
      BY <1>1, <3>1 DEF Part
  <2> QED
    BY <2>1
<1>5. CASE i = 1
  <2>1. Part(v, 1) > Part(w, 1)
    BY <1>3, <1>5
  <2> QED
    BY <1>2, <2>1 DEF Reaches
<1>6. CASE i = 2
  <2>1. Part(v, 1) = Part(w, 1) /\ Part(v, 2) > Part(w, 2)
    BY <1>3, <1>4, <1>6
  <2> QED
    BY <1>2, <2>1 DEF Reaches
<1>7. CASE i = 3
  <2>1. Part(v, 1) = Part(w, 1) /\ Part(v, 2) = Part(w, 2) /\ Part(v, 3) > Part(w, 3)
    BY <1>3, <1>4, <1>7
  <2> QED
    BY <1>2, <2>1 DEF Reaches
<1>8. CASE i > 3
  <2>1. Part(v, 1) = Part(w, 1) /\ Part(v, 2) = Part(w, 2) /\ Part(v, 3) = Part(w, 3)
    BY <1>3, <1>4, <1>8
  <2> QED
    BY <2>1 DEF Reaches
<1> QED
  BY <1>3, <1>5, <1>6, <1>7, <1>8

(* Only two models depend on the firmware, each on one version it reaches. *)
LEMMA ProfileOfVersion ==
  ASSUME NEW model, NEW v \in Seq(Nat), NEW w \in Seq(Nat), SameVersion(v, w)
  PROVE  GetGatewayProfile(model, v) = GetGatewayProfile(model, w)
<1>1. AtLeast(Padded(v), <<2, 1, 7>>) <=> AtLeast(Padded(w), <<2, 1, 7>>)
  BY AtLeastReaches, SameReaches
<1>2. AtLeast(Padded(v), <<6, 0, 0>>) <=> AtLeast(Padded(w), <<6, 0, 0>>)
  BY AtLeastReaches, SameReaches
<1>3. F453AV(v) = F453AV(w) /\ H4684(v) = H4684(w)
  BY <1>1, <1>2 DEF F453AV, H4684
<1> QED
  BY <1>3 DEF GetGatewayProfile, Profiles

LEMMA LaterHasMore ==
  ASSUME NEW model \in Models, NEW v \in Seq(Nat), NEW w \in Seq(Nat), Later(v, w)
  PROVE  GetGatewayProfile(model, w).who \subseteq GetGatewayProfile(model, v).who
<1>1. AtLeast(Padded(w), <<2, 1, 7>>) => AtLeast(Padded(v), <<2, 1, 7>>)
  BY AtLeastReaches, LaterReaches
<1>2. AtLeast(Padded(w), <<6, 0, 0>>) => AtLeast(Padded(v), <<6, 0, 0>>)
  BY AtLeastReaches, LaterReaches
<1>3. F453AV(w).who \subseteq F453AV(v).who
  BY <1>1 DEF F453AV, F453, Base, WithoutCenPlus
<1>4. H4684(w).who \subseteq H4684(v).who
  BY <1>2 DEF H4684, Base
<1> QED
  BY <1>3, <1>4 DEF GetGatewayProfile, Profiles, Models

(* Every gateway has the profile of its model and its firmware.             *)
ProfileInv ==
  /\ gateways = [g \in Gateways |-> Described(gateways[g].model, gateways[g].firmware)]
  /\ \A g \in Gateways : gateways[g].model \in Models /\ gateways[g].firmware \in Firmwares

LEMMA ProfileInvInit == ProfileInit => ProfileInv
  BY DEF ProfileInit, ProfileInv, Described

LEMMA ProfileInvStep == ProfileInv /\ [ProfileNext]_gateways => ProfileInv'
<1> SUFFICES ASSUME ProfileInv, [ProfileNext]_gateways PROVE ProfileInv'
  OBVIOUS
<1>1. CASE UNCHANGED gateways
  BY <1>1 DEF ProfileInv
<1>2. ASSUME NEW g \in Gateways, NEW fw \in Firmwares, SetFirmware(g, fw)
      PROVE  ProfileInv'
  <2>1. \A h \in Gateways : gateways[h] = Described(gateways[h].model, gateways[h].firmware)
    BY DEF ProfileInv
  <2>2. gateways' = [h \in Gateways |->
                       IF h = g THEN Described(gateways[g].model, fw) ELSE gateways[h]]
    BY <1>2 DEF SetFirmware, ProfileInv
  <2>3. \A h \in Gateways :
          /\ gateways'[h].model = gateways[h].model
          /\ gateways'[h].firmware = IF h = g THEN fw ELSE gateways[h].firmware
    BY <2>2 DEF Described
  <2>4. \A h \in Gateways : gateways'[h] = Described(gateways'[h].model, gateways'[h].firmware)
    BY <2>1, <2>2, <2>3
  <2> QED
    BY <2>2, <2>3, <2>4 DEF ProfileInv
<1> QED
  BY <1>1, <1>2 DEF ProfileNext

LEMMA ModelKept ==
  ASSUME ProfileInv, NEW g \in Gateways, NEW h \in Gateways, NEW fw \in Firmwares, SetFirmware(h, fw)
  PROVE  gateways'[g].model = gateways[g].model
<1>1. CASE g = h
  <2>1. gateways'[g] = Described(gateways[g].model, fw)
    BY <1>1 DEF SetFirmware, ProfileInv
  <2> QED
    BY <2>1 DEF Described
<1>2. CASE g # h
  BY <1>2 DEF SetFirmware, ProfileInv
<1> QED
  BY <1>1, <1>2

(* Gateways of one model with the same version have the same profile, for   *)
(* firmwares of any length and any order in which they are set.             *)
THEOREM ProfilesSameVersion == ProfileSpec => []SameVersionSameProfile
<1>1. ProfileInv => SameVersionSameProfile
  <2> SUFFICES ASSUME ProfileInv, NEW g \in Gateways, NEW h \in Gateways,
                      gateways[g].model = gateways[h].model,
                      SameVersion(gateways[g].firmware, gateways[h].firmware)
               PROVE  gateways[g].profile = gateways[h].profile
    BY DEF SameVersionSameProfile
  <2>1. gateways[g].profile = GetGatewayProfile(gateways[g].model, gateways[g].firmware)
    BY DEF ProfileInv, Described
  <2>2. gateways[h].profile = GetGatewayProfile(gateways[h].model, gateways[h].firmware)
    BY DEF ProfileInv, Described
  <2>3. gateways[g].firmware \in Seq(Nat) /\ gateways[h].firmware \in Seq(Nat)
    BY ProfileAssumption DEF ProfileInv
  <2> QED
    BY <2>1, <2>2, <2>3, ProfileOfVersion
<1> QED
  BY ProfileInvInit, ProfileInvStep, <1>1, PTL DEF ProfileSpec

(* A gateway never loses a subsystem when its firmware is set to a later    *)
(* one.                                                                     *)
THEOREM ProfilesUpdate == ProfileSpec => UpdateAddsOnly
<1>1. ProfileInv /\ ProfileInv' /\ [ProfileNext]_gateways => [AddsOnly]_gateways
  <2> SUFFICES ASSUME ProfileInv, ProfileInv', [ProfileNext]_gateways, gateways' # gateways, NEW g \in Gateways,
                      Later(gateways'[g].firmware, gateways[g].firmware)
               PROVE  gateways[g].profile.who \subseteq gateways'[g].profile.who
    BY DEF AddsOnly
  <2>1. gateways[g].profile = GetGatewayProfile(gateways[g].model, gateways[g].firmware)
    BY DEF ProfileInv, Described
  <2>2. gateways'[g].profile = GetGatewayProfile(gateways'[g].model, gateways'[g].firmware)
    BY DEF ProfileInv, Described
  <2>3. gateways'[g].model = gateways[g].model
    <3>1. PICK h \in Gateways, fw \in Firmwares : SetFirmware(h, fw)
      BY DEF ProfileNext
    <3> QED
      BY <3>1, ModelKept
  <2>4. gateways[g].firmware \in Seq(Nat) /\ gateways'[g].firmware \in Seq(Nat)
    BY ProfileAssumption DEF ProfileInv
  <2>5. gateways[g].model \in Models
    BY DEF ProfileInv
  <2> QED
    BY <2>1, <2>2, <2>3, <2>4, <2>5, LaterHasMore
<1> QED
  BY ProfileInvInit, ProfileInvStep, <1>1, PTL DEF ProfileSpec, UpdateAddsOnly

-----------------------------------------------------------------------------
(* Discovery. *)

(* Where the search has not begun, and where it has read its answers. *)
Direct == {"idle", "port", "lookup", "lookup_port"}
Reading == {"next", "details", "details_port"}

DiscoveryTypes ==
  /\ net \in [Hosts -> Devices] /\ asked \in Infos
  /\ stage \in Requests \cup {"idle", "window", "next", "built", "bound", "raised", "cancelled"}
  /\ endpoint \in {"none", "open", "closed"}
  /\ recvq \in Seq(Answers) /\ announced \in Seq(Answers) /\ found \in Seq(Infos)
  /\ stage \in Requests => url \in Hosts
  /\ gateway \in Infos \cup {Null}

(* A request goes to the device that is asked for. *)
AskedInv ==
  /\ stage = "port" => asked.location = url
  /\ stage \in {"lookup", "lookup_port"} => asked.address = url

(* The endpoint is open in the window, and only there. *)
EndpointInv ==
  /\ stage \in Direct => endpoint = "none"
  /\ stage = "window" <=> endpoint = "open"
  /\ stage \in Reading => endpoint = "closed"

(* e is what an answer tells of a device, and what the device at the        *)
(* location in it told of itself, or a part of it.                          *)
IsOwn(e) ==
  /\ e.address \in Hosts /\ e.location \in Hosts
  /\ e.port \in {Absent, DefaultPort, net[e.location].port}
  /\ e.serial \in {Null, e.location} /\ e.model \in {Null, net[e.location].model}
Answer(e) == [address |-> e.address, location |-> e.location]

(* The gateways that have answered are those found and those whose answers  *)
(* wait, in this order; requests go to the location in the first of these.  *)
AnswersInv ==
  /\ \A i \in DOMAIN found : IsOwn(found[i])
  /\ stage \in Direct => Len(found) = 0 /\ Len(recvq) = 0 /\ Len(announced) = 0
  /\ stage \in {"window"} \cup Reading =>
       /\ Len(announced) = Len(found) + Len(recvq)
       /\ \A i \in 1 .. Len(found) : announced[i] = Answer(found[i])
       /\ \A i \in 1 .. Len(recvq) : announced[Len(found) + i] = recvq[i]
  /\ stage \in {"details", "details_port"} => Len(recvq) > 0 /\ url = recvq[1].location

(* The inductive invariant behind GatewayIsFound. *)
DiscoveryInv ==
  /\ DiscoveryTypes /\ AskedInv /\ EndpointInv /\ AnswersInv
  /\ IsTheOneAskedFor /\ SearchIsComplete

(* OWNGateway() gives a port to a gateway and changes nothing else of it. *)
LEMMA OWNGatewayFields ==
  ASSUME NEW e \in Infos, NEW g, g = OWNGateway(e)
  PROVE  /\ g \in Infos
         /\ g.address = e.address /\ g.location = e.location
         /\ g.serial = e.serial /\ g.model = e.model
         /\ g.port \in {DefaultPort, e.port}
         /\ e.port \in {Absent, Unset} => g.port = DefaultPort
BY DEF OWNGateway, Infos, Ports

(* What a device tells of itself is a part of what it is. *)
LEMMA DetailsFields ==
  ASSUME DiscoveryTypes, NEW a \in Answers, NEW p \in {DefaultPort, PortOf(a.location)},
         NEW e, e = Details(Entry(a), a.location, p)
  PROVE  /\ e \in Infos /\ IsOwn(e) /\ Answer(e) = a
         /\ net[a.location].named => e.serial = a.location
<1> DEFINE h == a.location
<1>1. net[h] \in Devices /\ p \in Ports /\ h \in Hosts /\ a.address \in Hosts
  BY DEF DiscoveryTypes, PortOf, Devices, Ports, Answers
<1>2. /\ DOMAIN e = {"address", "location", "port", "password", "serial", "model"}
      /\ e.address = a.address /\ e.location = h /\ e.port = p /\ e.password = Null
      /\ e.serial = (IF net[h].named THEN h ELSE Null) /\ e.model = net[h].model
  BY DEF Details, Entry
<1>3. e \in Infos
  <2>1. net[h].model \in {"F454", Null}
    BY <1>1 DEF Devices
  <2> QED
    BY <1>1, <2>1 DEF Infos, Details, Entry
<1>4. IsOwn(e)
  BY <1>1, <1>2 DEF IsOwn, PortOf
<1>5. Answer(e) = a
  BY <1>2 DEF Answer, Answers
<1> QED
  BY <1>2, <1>3, <1>4, <1>5

(* The answer itself is a part of it, too. *)
LEMMA EntryFields ==
  ASSUME NEW a \in Answers
  PROVE  Entry(a) \in Infos /\ IsOwn(Entry(a)) /\ Answer(Entry(a)) = a
BY DEF Entry, Infos, IsOwn, Ports, Answers, Answer

(* get_port() answers with the port of the device, or with the default. *)
LEMMA PortsAnswered ==
  ASSUME NEW phase, NEW p \in GetPort(phase)
  PROVE  p \in Ports /\ p \in {DefaultPort, PortOf(url)}
BY DEF GetPort

(* Nothing is said of a search that has not returned. *)
LEMMA NotReturned ==
  ASSUME stage' # "built", stage' # "bound"
  PROVE  IsTheOneAskedFor' /\ SearchIsComplete'
BY DEF IsTheOneAskedFor, SearchIsComplete, Returned

(* Nothing is found before the window of the search, nor in one that opens. *)
LEMMA NothingFound ==
  ASSUME found' \in Seq(Infos), Len(found') = 0, Len(recvq') = 0, Len(announced') = 0,
         stage' # "details", stage' # "details_port"
  PROVE  AnswersInv'
<1>1. \A i \in DOMAIN found' : IsOwn(found[i])'
  OBVIOUS
<1> QED
  BY <1>1 DEF AnswersInv

(* build_from_discovery_info() with what it is given: no one is asked. *)
LEMMA BuildAsGivenStep ==
  ASSUME DiscoveryInv, BuildAsGiven
  PROVE  DiscoveryInv'
<1> DEFINE info == Located(asked)
<1>1. /\ stage = "idle" /\ asked.port # Null /\ stage' = "built" /\ gateway' = OWNGateway(info)
      /\ UNCHANGED <<net, asked, url, direct, endpoint, search, session>>
  BY DEF BuildAsGiven, Deliver
<1>2. asked \in Infos
  BY DEF DiscoveryInv, DiscoveryTypes
<1>3. /\ info \in Infos
      /\ info.location = asked.location /\ info.port = asked.port
      /\ info.serial = asked.serial /\ info.model = asked.model
      /\ asked.address \in {Null, info.address}
  BY <1>2 DEF Located, Infos, DiscoveryInv, AskedInv
<1>4. IsTheOneAskedFor'
  <2> HIDE DEF info
  <2> QED
    BY <1>1, <1>3, OWNGatewayFields DEF IsTheOneAskedFor
<1>5. DiscoveryTypes'
  <2> HIDE DEF info
  <2> QED
    BY <1>1, <1>3, OWNGatewayFields DEF DiscoveryInv, DiscoveryTypes, Requests, search
<1>6. endpoint' = "none"
  BY <1>1 DEF DiscoveryInv, EndpointInv, Direct
<1>7. AskedInv' /\ EndpointInv' /\ SearchIsComplete'
  BY <1>1, <1>6 DEF DiscoveryInv, AskedInv, EndpointInv, SearchIsComplete, Direct, Reading
<1>8. AnswersInv'
  BY <1>1 DEF DiscoveryInv, AnswersInv, IsOwn, Direct, Reading, search
<1> QED
  BY <1>4, <1>5, <1>7, <1>8 DEF DiscoveryInv

(* The ways in which build_from_discovery_info() goes on to ask somebody. *)
LEMMA BuildStep ==
  ASSUME DiscoveryInv, BuildFromLocation \/ BuildFromAddress \/ BuildFromSearch
  PROVE  DiscoveryInv'
<1>1. /\ stage = "idle" /\ stage' \in {"port", "lookup", "window"}
      /\ stage' \in {"port", "lookup"} => url' \in Hosts
      /\ UNCHANGED <<net, recvq, found, announced, gateway>>
  BY DEF BuildFromLocation, BuildFromAddress, BuildFromSearch, Await, Search, search,
     DiscoveryInv, DiscoveryTypes, Infos
<1>2. Len(found) = 0 /\ Len(recvq) = 0 /\ Len(announced) = 0 /\ endpoint = "none"
  BY <1>1 DEF DiscoveryInv, AnswersInv, EndpointInv, Direct
<1>3. asked \in Infos /\ asked' = [asked EXCEPT !.address = asked'.address] /\ asked' \in Infos
  <2>1. CASE BuildFromLocation
    BY <2>1 DEF BuildFromLocation, Located, DiscoveryInv, DiscoveryTypes, Infos
  <2>2. CASE BuildFromAddress \/ BuildFromSearch
    BY <2>2 DEF BuildFromAddress, BuildFromSearch, DiscoveryInv, DiscoveryTypes, Infos
  <2> QED
    BY <2>1, <2>2
<1>8. AskedInv'
  <2>1. CASE BuildFromLocation
    <3>1. stage' = "port" /\ url' = asked.location /\ asked'.location = asked.location
      BY <2>1, <1>3 DEF BuildFromLocation, Located, Await, Infos
    <3> QED
      BY <3>1 DEF AskedInv
  <2>2. CASE BuildFromAddress
    BY <2>2 DEF BuildFromAddress, Await, DiscoveryInv, AskedInv
  <2>3. CASE BuildFromSearch
    BY <2>3 DEF BuildFromSearch, Search, DiscoveryInv, AskedInv
  <2> QED
    BY <2>1, <2>2, <2>3
<1>9. endpoint' = IF stage' = "window" THEN "open" ELSE "none"
  BY <1>2 DEF BuildFromLocation, BuildFromAddress, BuildFromSearch, Await, Search
<1>4. DiscoveryTypes'
  BY <1>1, <1>2, <1>3, <1>9 DEF DiscoveryInv, DiscoveryTypes, Requests
<1>5. EndpointInv'
  BY <1>1, <1>9 DEF EndpointInv, Direct, Reading
<1>6. AnswersInv'
  BY <1>1, <1>2, NothingFound
<1>7. IsTheOneAskedFor' /\ SearchIsComplete'
  BY <1>1, NotReturned
<1> QED
  BY <1>4, <1>5, <1>6, <1>7, <1>8 DEF DiscoveryInv

(* The port of the gateway that was asked for. *)
LEMMA PortKnownStep ==
  ASSUME DiscoveryInv, PortKnown
  PROVE  DiscoveryInv'
<1>1. PICK p \in GetPort("port") : gateway' = OWNGateway([asked EXCEPT !.port = p])
  BY DEF PortKnown, Deliver
<1>2. /\ stage = "port" /\ stage' = "built"
      /\ UNCHANGED <<net, asked, url, direct, endpoint, search, session>>
  BY DEF PortKnown, Deliver, GetPort, Replied, Ends
<1>3. /\ p \in Ports /\ p \in {DefaultPort, net[url].port}
      /\ asked \in Infos /\ asked.location = url /\ url \in Hosts
  BY <1>1, <1>2, PortsAnswered DEF DiscoveryInv, DiscoveryTypes, AskedInv, PortOf, Requests
<1> DEFINE info == [asked EXCEPT !.port = p]
<1>4. /\ info \in Infos
      /\ info.address = asked.address /\ info.location = url /\ info.port = p
      /\ info.serial = asked.serial /\ info.model = asked.model
  BY <1>3 DEF Infos
<1>5. IsTheOneAskedFor'
  <2>1. gateway' = OWNGateway(info)
    BY <1>1
  <2> HIDE DEF info
  <2> QED
    BY <2>1, <1>2, <1>3, <1>4, OWNGatewayFields, DiscoveryAssumption DEF IsTheOneAskedFor
<1>6. DiscoveryTypes'
  <2>1. gateway' = OWNGateway(info)
    BY <1>1
  <2> HIDE DEF info
  <2> QED
    BY <2>1, <1>2, <1>4, OWNGatewayFields DEF DiscoveryInv, DiscoveryTypes, Requests, search
<1>7. endpoint' = "none"
  BY <1>2 DEF DiscoveryInv, EndpointInv, Direct
<1>8. AskedInv' /\ EndpointInv' /\ SearchIsComplete'
  BY <1>2, <1>7 DEF DiscoveryInv, AskedInv, EndpointInv, SearchIsComplete, Direct, Reading
<1>9. AnswersInv'
  BY <1>2 DEF DiscoveryInv, AnswersInv, IsOwn, Direct, Reading, search
<1> QED
  BY <1>5, <1>6, <1>8, <1>9 DEF DiscoveryInv

(* After a lookup that found nothing: another one, or the search. *)
LEMMA NextLookupStep ==
  ASSUME DiscoveryInv, stage = "lookup" \/ stage = "lookup_port", NextLookup,
         UNCHANGED <<net, asked, url, search, gateway>>
  PROVE  DiscoveryInv'
<1>1. Len(found) = 0 /\ Len(recvq) = 0 /\ Len(announced) = 0 /\ endpoint = "none"
  BY DEF DiscoveryInv, AnswersInv, EndpointInv, Direct
<1>7. /\ stage' \in {"lookup", "window"}
      /\ endpoint' = IF stage' = "window" THEN "open" ELSE "none"
  <2>1. CASE direct = 49153 /\ stage' = "lookup" /\ direct' = 80 /\ UNCHANGED endpoint
    BY <1>1, <2>1
  <2>2. CASE direct = 80 /\ Search /\ direct' = Null
    BY <1>1, <2>2 DEF Search
  <2> QED
    BY <2>1, <2>2 DEF NextLookup
<1>2. DiscoveryTypes'
  BY <1>1, <1>7 DEF DiscoveryInv, DiscoveryTypes, Requests, search
<1>3. AskedInv'
  BY <1>7 DEF DiscoveryInv, AskedInv
<1>4. EndpointInv'
  BY <1>7 DEF EndpointInv, Direct, Reading
<1>5. AnswersInv'
  BY <1>1, <1>7, NothingFound DEF search
<1>6. IsTheOneAskedFor' /\ SearchIsComplete'
  BY <1>7, NotReturned
<1> QED
  BY <1>2, <1>3, <1>4, <1>5, <1>6 DEF DiscoveryInv

LEMMA LookupFailsStep ==
  ASSUME DiscoveryInv, LookupFails
  PROVE  DiscoveryInv'
BY NextLookupStep DEF LookupFails, Ends, PortRaises, Replied

LEMMA LookupAnswersStep ==
  ASSUME DiscoveryInv, LookupAnswers
  PROVE  DiscoveryInv'
<1>1. /\ stage = "lookup" /\ stage' = "lookup_port"
      /\ UNCHANGED <<net, asked, url, direct, endpoint, search, gateway, session>>
  BY DEF LookupAnswers, Replied
<1>2. DiscoveryTypes'
  BY <1>1 DEF DiscoveryInv, DiscoveryTypes, Requests, search
<1>3. AskedInv' /\ EndpointInv'
  BY <1>1 DEF DiscoveryInv, AskedInv, EndpointInv, Direct, Reading
<1>4. AnswersInv'
  BY <1>1 DEF DiscoveryInv, AnswersInv, IsOwn, Direct, Reading, search
<1>5. IsTheOneAskedFor' /\ SearchIsComplete'
  BY <1>1, NotReturned
<1> QED
  BY <1>2, <1>3, <1>4, <1>5 DEF DiscoveryInv

(* A descriptor on the gateway itself: trusted when it has a serial number. *)
LEMMA LookupPortStep ==
  ASSUME DiscoveryInv, LookupPort
  PROVE  DiscoveryInv'
<1>1. /\ stage = "lookup_port" /\ url \in Hosts
      /\ UNCHANGED <<net, asked, url, search, session>>
  BY DEF LookupPort, GetPort, Replied, Ends, DiscoveryInv, DiscoveryTypes, Requests
<1>2. CASE ~net[url].named
  BY <1>1, <1>2, NextLookupStep DEF LookupPort
<1>3. CASE net[url].named
  <2>1. PICK p \in GetPort("lookup_port") :
          /\ gateway' = OWNGateway(Details(Entry(Self(url)), url, p)) /\ stage' = "built"
          /\ UNCHANGED endpoint
    BY <1>3 DEF LookupPort, Deliver
  <2> DEFINE a == Self(url)
  <2> DEFINE info == Details(Entry(a), a.location, p)
  <2>9. /\ p \in {DefaultPort, PortOf(url)}
        /\ a \in Answers /\ a.location = url /\ a.address = url
    BY <1>1, PortsAnswered DEF Self, Answers
  <2>2. info \in Infos /\ IsOwn(info) /\ info.address = url /\ info.location = url /\ info.serial = url
    <3> HIDE DEF a
    <3>1. info \in Infos /\ IsOwn(info) /\ Answer(info) = a /\ info.serial = url
      BY <1>3, <2>9, DetailsFields DEF DiscoveryInv
    <3> QED
      BY <2>9, <3>1 DEF Answer
  <2>3. asked.address = url /\ endpoint = "none" /\ Len(found) = 0 /\ Len(recvq) = 0 /\ Len(announced) = 0
    BY <1>1 DEF DiscoveryInv, AskedInv, EndpointInv, AnswersInv, Direct
  <2>4. gateway' = OWNGateway(info)
    BY <2>1, <2>9
  <2> HIDE DEF info, a
  <2>5. IsTheOneAskedFor'
    BY <1>1, <2>1, <2>2, <2>3, <2>4, OWNGatewayFields DEF IsTheOneAskedFor, IsOwn
  <2>6. DiscoveryTypes'
    BY <1>1, <2>1, <2>2, <2>4, OWNGatewayFields DEF DiscoveryInv, DiscoveryTypes, Requests, search
  <2>7. AskedInv' /\ EndpointInv' /\ SearchIsComplete'
    BY <1>1, <2>1, <2>3 DEF DiscoveryInv, AskedInv, EndpointInv, SearchIsComplete, Direct, Reading
  <2>8. AnswersInv'
    BY <1>1, <2>1, <2>3, NothingFound DEF search
  <2> QED
    BY <2>5, <2>6, <2>7, <2>8 DEF DiscoveryInv
<1> QED
  BY <1>2, <1>3

(* A datagram is taken in as an answer, or it changes nothing. *)
LEMMA DatagramStep ==
  ASSUME DiscoveryInv, NEW sender \in Hosts, NEW location \in Hosts, NEW form,
         Datagram(sender, location, form)
  PROVE  DiscoveryInv'
<1>9. PICK h : h = [address |-> sender, location |-> location]
  OBVIOUS
<1>0. h \in Answers
  BY <1>9 DEF Answers
<1>1. /\ endpoint = "open" /\ UNCHANGED <<net, stage, asked, url, direct, endpoint, found, gateway, session>>
      /\ \/ recvq' = Append(recvq, h) /\ announced' = Append(announced, h)
         \/ UNCHANGED <<recvq, announced>>
  BY <1>9 DEF Datagram, Usable
<1>2. stage = "window" /\ stage' = "window"
  BY <1>1 DEF DiscoveryInv, EndpointInv
<1>3. recvq \in Seq(Answers) /\ announced \in Seq(Answers) /\ found \in Seq(Infos)
  BY DEF DiscoveryInv, DiscoveryTypes
<1>8. recvq' \in Seq(Answers) /\ announced' \in Seq(Answers)
  <2>1. Append(recvq, h) \in Seq(Answers) /\ Append(announced, h) \in Seq(Answers)
    BY <1>0, <1>3
  <2> QED
    BY <1>1, <1>3, <2>1
<1>4. DiscoveryTypes'
  <2> HIDE <1>1
  <2> QED
    BY <1>1, <1>8 DEF DiscoveryInv, DiscoveryTypes
<1>5. AskedInv' /\ EndpointInv'
  BY <1>1 DEF DiscoveryInv, AskedInv, EndpointInv
<1>6. AnswersInv'
  <2>1. \A i \in DOMAIN found' : IsOwn(found[i])'
    BY <1>1 DEF DiscoveryInv, AnswersInv, IsOwn
  <2>2. /\ Len(announced) = Len(found) + Len(recvq)
        /\ \A i \in 1 .. Len(found) : announced[i] = Answer(found[i])
        /\ \A i \in 1 .. Len(recvq) : announced[Len(found) + i] = recvq[i]
    BY <1>2, <1>3 DEF DiscoveryInv, AnswersInv
  <2>3. /\ Len(announced') = Len(found) + Len(recvq')
        /\ \A i \in 1 .. Len(found) : announced'[i] = Answer(found[i])
        /\ \A i \in 1 .. Len(recvq') : announced'[Len(found) + i] = recvq'[i]
    <3>1. CASE UNCHANGED <<recvq, announced>>
      BY <2>2, <3>1
    <3>2. CASE recvq' = Append(recvq, h) /\ announced' = Append(announced, h)
      <4>1. /\ Len(recvq') = Len(recvq) + 1 /\ recvq'[Len(recvq) + 1] = h
            /\ \A i \in 1 .. Len(recvq) : recvq'[i] = recvq[i]
        BY <1>0, <1>3, <3>2
      <4>2. /\ Len(announced') = Len(announced) + 1 /\ announced'[Len(announced) + 1] = h
            /\ \A i \in 1 .. Len(announced) : announced'[i] = announced[i]
        BY <1>0, <1>3, <3>2
      <4>3. Len(found) \in Nat /\ Len(recvq) \in Nat /\ Len(announced) \in Nat
        BY <1>3
      <4>4. \A i \in 1 .. Len(recvq) : announced'[Len(found) + i] = recvq'[i]
        BY <2>2, <4>1, <4>2, <4>3
      <4>5. Len(announced') = Len(found) + Len(recvq')
        BY <2>2, <4>1, <4>2, <4>3
      <4>6. \A i \in 1 .. Len(found) : announced'[i] = Answer(found[i])
        BY <2>2, <4>2, <4>3
      <4>7. announced'[Len(found) + Len(recvq')] = recvq'[Len(recvq')]
        BY <4>1, <4>2, <4>5
      <4>8. \A i \in 1 .. Len(recvq') : i \in 1 .. Len(recvq) \/ i = Len(recvq')
        BY <4>1, <4>3
      <4> QED
        BY <4>4, <4>5, <4>6, <4>7, <4>8
    <3> QED
      BY <1>1, <3>1, <3>2
  <2> QED
    BY <1>1, <1>2, <1>3, <2>1, <2>3 DEF AnswersInv, Direct
<1>7. IsTheOneAskedFor' /\ SearchIsComplete'
  BY <1>2, NotReturned
<1> QED
  BY <1>4, <1>5, <1>6, <1>7 DEF DiscoveryInv

(* The end of the window, and an answer to the request for the details. *)
LEMMA WaitingStep ==
  ASSUME DiscoveryInv, WindowEnds \/ DetailsAnswer
  PROVE  DiscoveryInv'
<1>1. /\ UNCHANGED <<net, asked, url, direct, search, gateway, session>>
      /\ \/ stage = "window" /\ stage' = "next" /\ endpoint' = "closed"
         \/ stage = "details" /\ stage' = "details_port" /\ UNCHANGED endpoint
  BY DEF WindowEnds, DetailsAnswer, Replied
<1>3. DiscoveryTypes'
  BY <1>1 DEF DiscoveryInv, DiscoveryTypes, Requests, search
<1>4. AskedInv' /\ EndpointInv'
  BY <1>1 DEF DiscoveryInv, AskedInv, EndpointInv, Direct, Reading
<1>5. AnswersInv'
  BY <1>1 DEF DiscoveryInv, AnswersInv, IsOwn, Direct, Reading, search
<1>6. IsTheOneAskedFor' /\ SearchIsComplete'
  BY <1>1, NotReturned
<1> QED
  BY <1>3, <1>4, <1>5, <1>6 DEF DiscoveryInv

(* The details of the next answer are asked for. *)
LEMMA DescribeStep ==
  ASSUME DiscoveryInv, Describe
  PROVE  DiscoveryInv'
<1>1. /\ stage = "next" /\ stage' = "details" /\ url' = Head(recvq).location
      /\ UNCHANGED <<net, asked, direct, endpoint, search, gateway, session>>
  BY DEF Describe, Await
<1>2. recvq \in Seq(Answers) /\ Len(recvq) > 0 /\ Head(recvq) = recvq[1] /\ recvq[1] \in Answers
  BY DEF Describe, DiscoveryInv, DiscoveryTypes
<1>3. recvq[1].location \in Hosts
  BY <1>2 DEF Answers
<1>4. DiscoveryTypes'
  BY <1>1, <1>2, <1>3 DEF DiscoveryInv, DiscoveryTypes, Requests, search
<1>5. AskedInv' /\ EndpointInv'
  BY <1>1 DEF DiscoveryInv, AskedInv, EndpointInv, Direct, Reading
<1>6. AnswersInv'
  BY <1>1, <1>2 DEF DiscoveryInv, AnswersInv, IsOwn, Direct, Reading, search
<1>7. IsTheOneAskedFor' /\ SearchIsComplete'
  BY <1>1, NotReturned
<1> QED
  BY <1>4, <1>5, <1>6, <1>7 DEF DiscoveryInv

(* What is known of the next answer is found. *)
LEMMA FoundStep ==
  ASSUME DiscoveryInv, stage \in {"details", "details_port"},
         NEW e \in Infos, IsOwn(e), Answer(e) = recvq[1], Listed(e)
  PROVE  DiscoveryInv'
<1>0. /\ stage' = "next" /\ found' = Append(found, e) /\ recvq' = Tail(recvq)
      /\ UNCHANGED <<net, asked, url, direct, endpoint, announced, gateway, session>>
  BY DEF Listed
<1>1. recvq \in Seq(Answers) /\ announced \in Seq(Answers) /\ found \in Seq(Infos) /\ Len(recvq) > 0
  BY DEF DiscoveryInv, DiscoveryTypes, AnswersInv
<1>2. /\ Len(recvq') = Len(recvq) - 1 /\ recvq' \in Seq(Answers) /\ Len(recvq) \in Nat
      /\ \A i \in 1 .. Len(recvq) - 1 : recvq'[i] = recvq[i + 1]
  <2>1. recvq # << >>
    BY <1>1
  <2> QED
    BY <1>0, <1>1, <2>1
<1>3. /\ Len(found) \in Nat /\ Len(found') = Len(found) + 1 /\ found' \in Seq(Infos)
      /\ found'[Len(found) + 1] = e
      /\ \A i \in 1 .. Len(found) : found'[i] = found[i]
      /\ DOMAIN found = 1 .. Len(found) /\ DOMAIN found' = 1 .. Len(found) + 1
  BY <1>0, <1>1
<1>4. DiscoveryTypes'
  BY <1>0, <1>2, <1>3 DEF DiscoveryInv, DiscoveryTypes, Requests
<1>5. AskedInv' /\ EndpointInv'
  BY <1>0 DEF DiscoveryInv, AskedInv, EndpointInv, Direct, Reading
<1>6. AnswersInv'
  <2>1. \A i \in DOMAIN found' : IsOwn(found[i])'
    <3>1. \A i \in 1 .. Len(found) : IsOwn(found[i])
      BY <1>3 DEF DiscoveryInv, AnswersInv
    <3> QED
      BY <1>0, <1>3, <3>1 DEF IsOwn
  <2>2. /\ Len(announced) = Len(found) + Len(recvq)
        /\ \A i \in 1 .. Len(found) : announced[i] = Answer(found[i])
        /\ \A i \in 1 .. Len(recvq) : announced[Len(found) + i] = recvq[i]
    BY DEF DiscoveryInv, AnswersInv, Reading
  <2>3. announced[Len(found) + 1] = Answer(e)
    BY <1>1, <1>2, <2>2
  <2>4. \A i \in 1 .. Len(found') : announced[i] = Answer(found'[i])
    <3> SUFFICES ASSUME NEW i \in 1 .. Len(found') PROVE announced[i] = Answer(found'[i])
      OBVIOUS
    <3>1. i \in 1 .. Len(found) \/ i = Len(found) + 1
      BY <1>3
    <3> QED
      BY <1>3, <2>2, <2>3, <3>1
  <2>5. Len(announced) = Len(found') + Len(recvq')
    BY <1>2, <1>3, <2>2
  <2>6. \A i \in 1 .. Len(recvq') : announced[Len(found') + i] = recvq'[i]
    <3> SUFFICES ASSUME NEW i \in 1 .. Len(recvq') PROVE announced[Len(found') + i] = recvq'[i]
      OBVIOUS
    <3>1. i + 1 \in 1 .. Len(recvq) /\ recvq'[i] = recvq[i + 1]
      BY <1>2
    <3>2. announced[Len(found) + (i + 1)] = recvq[i + 1]
      BY <2>2, <3>1
    <3>3. Len(found') + i = Len(found) + (i + 1)
      BY <1>2, <1>3
    <3> QED
      BY <3>1, <3>2, <3>3
  <2> QED
    BY <1>0, <2>1, <2>4, <2>5, <2>6 DEF AnswersInv, Direct
<1>7. IsTheOneAskedFor' /\ SearchIsComplete'
  BY <1>0, NotReturned
<1> QED
  BY <1>4, <1>5, <1>6, <1>7 DEF DiscoveryInv

(* With its details, or without. *)
LEMMA DetailsStep ==
  ASSUME DiscoveryInv, DetailsFail \/ DetailsPort
  PROVE  DiscoveryInv'
<1>1. stage \in {"details", "details_port"}
  BY DEF DetailsFail, DetailsPort, Ends, GetPort, Replied
<1>2. recvq \in Seq(Answers) /\ Len(recvq) > 0 /\ url = recvq[1].location
  BY <1>1 DEF DiscoveryInv, DiscoveryTypes, AnswersInv
<1>3. recvq[1] \in Answers /\ Head(recvq) = recvq[1]
  BY <1>2
<1>4. CASE DetailsFail
  BY <1>1, <1>3, <1>4, EntryFields, FoundStep DEF DetailsFail
<1>5. CASE DetailsPort
  <2>1. PICK p \in GetPort("details_port") : Listed(Details(Entry(recvq[1]), url, p))
    BY <1>3, <1>5 DEF DetailsPort
  <2>2. p \in {DefaultPort, PortOf(url)}
    BY PortsAnswered
  <2> DEFINE e == Details(Entry(recvq[1]), recvq[1].location, p)
  <2>3. e \in Infos /\ IsOwn(e) /\ Answer(e) = recvq[1]
    BY <1>2, <1>3, <2>2, DetailsFields DEF DiscoveryInv
  <2>4. Listed(e)
    BY <1>2, <2>1
  <2> HIDE DEF e
  <2> QED
    BY <1>1, <2>3, <2>4, FoundStep
<1> QED
  BY <1>4, <1>5

(* What is left when a search has returned: the answers, all of them found. *)
LEMMA AllFound ==
  ASSUME DiscoveryInv, stage = "next", recvq = <<>>
  PROVE  /\ Len(found) = Len(announced) /\ DOMAIN found = DOMAIN announced
         /\ \A i \in DOMAIN found : IsOwn(found[i]) /\ announced[i] = Answer(found[i])
         /\ asked \in Infos /\ found \in Seq(Infos) /\ endpoint = "closed"
<1>1. /\ recvq \in Seq(Answers) /\ announced \in Seq(Answers) /\ found \in Seq(Infos) /\ asked \in Infos
  BY DEF DiscoveryInv, DiscoveryTypes
<1>2. Len(recvq) = 0
  OBVIOUS
<1>3. /\ Len(announced) = Len(found) + Len(recvq)
      /\ \A i \in 1 .. Len(found) : announced[i] = Answer(found[i])
      /\ \A i \in DOMAIN found : IsOwn(found[i])
      /\ endpoint = "closed"
  BY DEF DiscoveryInv, AnswersInv, EndpointInv, Reading
<1>4. /\ Len(found) = Len(announced)
      /\ DOMAIN found = 1 .. Len(found) /\ DOMAIN announced = 1 .. Len(announced)
  BY <1>1, <1>2, <1>3
<1> QED
  BY <1>1, <1>3, <1>4

(* The first gateway that fits is returned, or none. *)
LEMMA SearchEndsStep ==
  ASSUME DiscoveryInv, SearchEnds
  PROVE  DiscoveryInv'
<1>1. /\ stage = "next" /\ recvq = <<>> /\ stage' = "built"
      /\ UNCHANGED <<net, asked, url, direct, endpoint, search, session>>
  BY DEF SearchEnds, Deliver
<1>2. /\ Len(found) = Len(announced) /\ DOMAIN found = DOMAIN announced
      /\ \A i \in DOMAIN found : IsOwn(found[i]) /\ announced[i] = Answer(found[i])
      /\ asked \in Infos /\ found \in Seq(Infos) /\ endpoint = "closed"
  BY <1>1, AllFound
<1>3. AskedInv' /\ EndpointInv'
  BY <1>1, <1>2 DEF DiscoveryInv, AskedInv, EndpointInv, Direct, Reading
<1>4. AnswersInv'
  BY <1>1, <1>2 DEF AnswersInv, IsOwn, Direct, Reading, search
<1>5. CASE (\A i \in DOMAIN found : ~Fits(found[i])) /\ Deliver(Null)
  <2>1. gateway' = Null
    BY <1>5 DEF Deliver
  <2>2. \A i \in DOMAIN announced : asked.address \notin {Null, announced[i].address}
    BY <1>2, <1>5 DEF Fits, Answer
  <2>3. DiscoveryTypes'
    BY <1>1, <2>1 DEF DiscoveryInv, DiscoveryTypes, Requests, search
  <2>4. IsTheOneAskedFor'
    BY <2>1 DEF IsTheOneAskedFor
  <2>5. SearchIsComplete'
    BY <1>1, <1>2, <2>1, <2>2 DEF SearchIsComplete, search, Answer
  <2> QED
    BY <1>3, <1>4, <2>3, <2>4, <2>5 DEF DiscoveryInv
<1>6. ASSUME NEW i \in DOMAIN found, Fits(found[i]), Deliver(Chosen(found[i]))
      PROVE  DiscoveryInv'
  <2> DEFINE e == found[i]
  <2> DEFINE info == IF asked.address = Null THEN [e EXCEPT !.password = asked.password] ELSE e
  <2>1. e \in Infos /\ IsOwn(e) /\ announced[i] = Answer(e) /\ asked.address \in {Null, e.address}
    BY <1>2, <1>6 DEF Fits
  <2>2. gateway' = OWNGateway(info)
    BY <1>6 DEF Deliver, Chosen
  <2>3. /\ info \in Infos
        /\ info.address = e.address /\ info.location = e.location /\ info.port = e.port
        /\ info.serial = e.serial /\ info.model = e.model
    <3> HIDE DEF e
    <3> QED
      BY <1>2, <2>1 DEF Infos
  <2> HIDE DEF e, info
  <2>4. /\ gateway' \in Infos /\ gateway' # Null
        /\ gateway'.address = e.address /\ gateway'.location = e.location
        /\ gateway'.serial = e.serial /\ gateway'.model = e.model
        /\ gateway'.port \in {DefaultPort, e.port}
        /\ e.port = Absent => gateway'.port = DefaultPort
    BY <2>2, <2>3, OWNGatewayFields, DiscoveryAssumption
  <2>5. DiscoveryTypes'
    BY <1>1, <2>4 DEF DiscoveryInv, DiscoveryTypes, Requests, search
  <2>6. IsTheOneAskedFor'
    <3>1. announced' = announced /\ i \in DOMAIN announced /\ announced[i] = [address |-> gateway'.address, location |-> gateway'.location]
      BY <1>1, <1>2, <2>1, <2>4 DEF Answer, search
    <3>2. gateway'.location # Null /\ asked' = asked /\ net' = net
      BY <1>1, <2>1, <2>4, DiscoveryAssumption DEF IsOwn
    <3>3. \E k \in DOMAIN announced' : announced'[k] = [address |-> gateway'.address, location |-> gateway'.location]
      BY <3>1
    <3>4. /\ gateway'.port \in {DefaultPort, asked.port, net[gateway'.location].port}
          /\ gateway'.serial \in {Null, asked.serial, gateway'.location}
          /\ gateway'.model \in {Null, asked.model, net[gateway'.location].model}
          /\ asked.address \in {Null, gateway'.address}
      BY <2>1, <2>4 DEF IsOwn
    <3> QED
      BY <3>2, <3>3, <3>4 DEF IsTheOneAskedFor
  <2>7. SearchIsComplete'
    <3>1. ~ \A j \in DOMAIN announced : asked.address \notin {Null, announced[j].address}
      BY <1>2, <1>6, <2>1 DEF Answer
    <3> QED
      BY <1>1, <1>2, <2>4, <3>1 DEF SearchIsComplete, search, Answer
  <2> QED
    BY <1>3, <1>4, <2>5, <2>6, <2>7 DEF DiscoveryInv
<1> QED
  BY <1>5, <1>6 DEF SearchEnds

(* A cancelled task returns nothing, nor one that raises; the search closes *)
(* its endpoint.                                                            *)
LEMMA CancelStep ==
  ASSUME DiscoveryInv, Cancel \/ BuildRaises \/ DetailsRaise
  PROVE  DiscoveryInv'
<1>1. /\ stage' \in {"cancelled", "raised"} /\ endpoint' = (IF stage = "window" THEN "closed" ELSE endpoint)
      /\ UNCHANGED <<net, asked, url, direct, search, gateway, session>>
  BY DEF Cancel, BuildRaises, DetailsRaise, PortRaises, Replied
<1>2. DiscoveryTypes'
  BY <1>1 DEF DiscoveryInv, DiscoveryTypes, Requests, search
<1>3. AskedInv' /\ EndpointInv'
  BY <1>1 DEF DiscoveryInv, AskedInv, EndpointInv, Direct, Reading
<1>4. AnswersInv'
  BY <1>1 DEF DiscoveryInv, AnswersInv, IsOwn, Direct, Reading, search
<1>5. IsTheOneAskedFor' /\ SearchIsComplete'
  BY <1>1, NotReturned
<1> QED
  BY <1>2, <1>3, <1>4, <1>5 DEF DiscoveryInv

(* A session takes the gateway as it is. *)
LEMMA BindStep ==
  ASSUME DiscoveryInv, BindLater \/ BindFirst
  PROVE  DiscoveryInv'
<1>1. /\ stage = "built" /\ stage' = "bound"
      /\ UNCHANGED <<net, asked, url, direct, endpoint, search, gateway>>
  BY DEF BindLater, BindFirst
<1>2. DiscoveryTypes'
  BY <1>1 DEF DiscoveryInv, DiscoveryTypes, Requests, search
<1>3. AskedInv' /\ EndpointInv'
  BY <1>1 DEF DiscoveryInv, AskedInv, EndpointInv, Direct, Reading
<1>4. AnswersInv'
  BY <1>1 DEF DiscoveryInv, AnswersInv, IsOwn, Direct, Reading, search
<1>5. IsTheOneAskedFor' /\ SearchIsComplete'
  BY <1>1 DEF DiscoveryInv, IsTheOneAskedFor, SearchIsComplete, Returned, search
<1> QED
  BY <1>2, <1>3, <1>4, <1>5 DEF DiscoveryInv

LEMMA DiscoveryInvInit == DiscoveryInit => DiscoveryInv
<1> SUFFICES ASSUME DiscoveryInit PROVE DiscoveryInv
  OBVIOUS
<1>1. net \in [Hosts -> Devices] /\ asked \in Infos
  BY DiscoveryAssumption DEF DiscoveryInit
<1>2. /\ stage = "idle" /\ endpoint = "none" /\ gateway = Null
      /\ recvq \in Seq(Answers) /\ announced \in Seq(Answers) /\ found \in Seq(Infos)
      /\ Len(found) = 0 /\ Len(recvq) = 0 /\ Len(announced) = 0
  BY DEF DiscoveryInit
<1>3. DiscoveryTypes
  BY <1>1, <1>2 DEF DiscoveryTypes, Requests
<1>4. AskedInv
  BY <1>2 DEF AskedInv
<1>5. EndpointInv /\ AnswersInv
  BY <1>2 DEF EndpointInv, AnswersInv, Direct, Reading
<1>6. IsTheOneAskedFor /\ SearchIsComplete
  BY <1>2 DEF IsTheOneAskedFor, SearchIsComplete, Returned
<1> QED
  BY <1>3, <1>4, <1>5, <1>6 DEF DiscoveryInv

LEMMA DiscoveryInvStep == DiscoveryInv /\ [DiscoveryNext]_discoveryVars => DiscoveryInv'
<1> SUFFICES ASSUME DiscoveryInv, [DiscoveryNext]_discoveryVars PROVE DiscoveryInv'
  OBVIOUS
<1>1. CASE UNCHANGED discoveryVars
  BY <1>1 DEF discoveryVars, search, DiscoveryInv, DiscoveryTypes, AskedInv, EndpointInv, AnswersInv, IsOwn,
     IsTheOneAskedFor, SearchIsComplete, Returned
<1>2. CASE DiscoveryStep
  <2>1. CASE BuildAsGiven \/ BuildFromLocation \/ BuildFromAddress \/ BuildFromSearch
    BY <2>1, BuildAsGivenStep, BuildStep
  <2>2. CASE PortKnown \/ LookupFails \/ LookupAnswers \/ LookupPort
    BY <2>2, PortKnownStep, LookupFailsStep, LookupAnswersStep, LookupPortStep
  <2>4. CASE BuildRaises \/ DetailsRaise
    BY <2>4, CancelStep
  <2>3. CASE WindowEnds \/ Describe \/ DetailsAnswer \/ DetailsFail \/ DetailsPort \/ SearchEnds
    BY <2>3, WaitingStep, DescribeStep, DetailsStep, SearchEndsStep
  <2> QED
    BY <1>2, <2>1, <2>2, <2>3, <2>4 DEF DiscoveryStep
<1>3. CASE Cancel \/ BindLater \/ BindFirst
  BY <1>3, CancelStep, BindStep
<1>4. CASE \E h, location \in Hosts, form \in Forms : Datagram(h, location, form)
  BY <1>4, DatagramStep
<1> QED
  BY <1>1, <1>2, <1>3, <1>4 DEF DiscoveryNext

(* What discovery returns is the one gateway that was asked for, from all   *)
(* that answered and in the order in which they did; and the datagram       *)
(* endpoint is open in the window of the search only: for networks of any   *)
(* size, and however many datagrams of whatever kind arrive.                *)
THEOREM TheOneAskedFor == DiscoverySpec => []GatewayIsFound
<1>1. DiscoveryInv => GatewayIsFound
  BY DEF DiscoveryInv, EndpointInv, GatewayIsFound, EndpointReleased
<1> QED
  BY DiscoveryInvInit, DiscoveryInvStep, <1>1, PTL DEF DiscoverySpec
=============================================================================

-------------------------------- MODULE Auth --------------------------------
(***************************************************************************)
(* calculate_open_password(): the answer to a numeric OPEN challenge, read *)
(* digit by digit.  A number of 32 bits is a function from the positions   *)
(* of its bits; the code masks its registers to 32 bits after each digit,  *)
(* and a shift is masked here at once.                                     *)
(***************************************************************************)
EXTENDS Integers, Sequences

CONSTANTS Passwords, \* the passwords, numbers below 2^32
          MaxDigits  \* bound of the model: digits of a nonce

Bits == 0 .. 31
Words == [Bits -> {0, 1}]
ASSUME AuthAssumption == Passwords \subseteq Words /\ MaxDigits \in Nat

VARIABLES password, nonce, \* what the gateway object and the gateway give
          start,           \* no digit but zeros so far
          num1, num2,      \* the registers
          meant            \* what the digits so far mean: bits of the password
authVars == <<password, nonce, start, num1, num2, meant>>

Zero == [i \in Bits |-> 0]
Shl(v, k) == [i \in Bits |-> IF i >= k THEN v[i - k] ELSE 0]
Shr(v, k) == [i \in Bits |-> IF i + k <= 31 THEN v[i + k] ELSE 0]
Or(v, w) == [i \in Bits |-> IF v[i] = 1 \/ w[i] = 1 THEN 1 ELSE 0]
(* Mutant: the sign is left in. *)
NotSigned(v) == [i \in Bits |-> -v[i] - 1]
Not(v) == [i \in Bits |-> 1 - v[i]]
(* v with the bits from low to high only: the mask of the code. *)
Mask(v, low, high) == [i \in Bits |-> IF i \in low .. high THEN v[i] ELSE 0]

(* The two registers after a digit, before they are put together. *)
RegisterTable(n) ==
  << <<Shr(Mask(n, 7, 31), 7), Shl(n, 25)>>,
     <<Shr(Mask(n, 4, 31), 4), Shl(n, 28)>>,
     <<Shr(Mask(n, 3, 31), 3), Shl(n, 29)>>,
     <<Shl(n, 1), Shr(n, 31)>>,
     <<Shl(n, 5), Shr(n, 27)>>,
     <<Shl(n, 12), Shr(n, 20)>>,
     <<Or(Mask(n, 8, 15), Or(Shl(Mask(n, 0, 7), 24), Shr(Mask(n, 16, 23), 16))),
       Shr(Mask(n, 24, 31), 8)>>,
     <<Or(Shl(Mask(n, 0, 15), 16), Shr(n, 24)), Shr(Mask(n, 16, 23), 8)>>,
     <<Not(n), n>> >>
(* Mutant: the mask of digit 3 is that of digit 2. *)
RegistersMasked(d, n) ==
  IF d = 3 THEN <<Shr(Mask(n, 4, 31), 3), Shl(n, 29)>>
  ELSE IF d = 0 THEN <<n, n>> ELSE RegisterTable(n)[d]
Registers(d, n) == IF d = 0 THEN <<n, n>> ELSE RegisterTable(n)[d]

(* What each digit means: the bits of a word are moved round, the bytes    *)
(* change places, or all bits are turned.                                  *)
Rotated(v, k) == [i \in Bits |-> v[(i + k) % 32]] \* k places to the right
Bytes(v, order) == [i \in Bits |-> v[(8 * order[4 - (i \div 8)]) + (i % 8)]]
Meanings(v) ==
  <<Rotated(v, 7), Rotated(v, 4), Rotated(v, 3), Rotated(v, 31), Rotated(v, 27),
    Rotated(v, 20), Bytes(v, <<0, 3, 1, 2>>), Bytes(v, <<1, 0, 2, 3>>), Not(v)>>
Meaning(d, v) == IF d = 0 THEN v ELSE Meanings(v)[d]

AuthInit == /\ password \in Passwords /\ nonce = <<>> /\ start = TRUE
        /\ num1 = Zero /\ num2 = Zero /\ meant = password

(* The registers put together; 0 and 9 leave the second one out. *)
Together(d, n) ==
  LET r == Registers(d, n) IN IF d \in {0, 9} THEN r[1] ELSE Or(r[1], r[2])

(* One turn of the loop. *)
Digit(d) ==
  /\ Len(nonce) < MaxDigits /\ nonce' = Append(nonce, d)
  /\ start' = (start /\ d = 0)
  /\ num1' = Together(d, IF d # 0 /\ start THEN password ELSE num2)
  /\ num2' = num1'
  /\ meant' = Meaning(d, meant)
  /\ UNCHANGED password

AuthNext == \E d \in 0 .. 9 : Digit(d)
AuthSpec == AuthInit /\ [][AuthNext]_authVars

AuthTypeOK ==
  /\ password \in Passwords /\ nonce \in Seq(0 .. 9) /\ Len(nonce) <= MaxDigits
  /\ start \in BOOLEAN /\ num1 \in Words /\ num2 \in Words /\ meant \in Words

(* The answer is the password with its bits moved and turned as the digits *)
(* of the nonce say, in order, whatever zeros are among them: no digit     *)
(* loses a bit, sets one twice or depends on the register of another.  A   *)
(* nonce of zeros answers 0.                                               *)
AllZeros == \A i \in DOMAIN nonce : nonce[i] = 0
AnswerIsMeant == num1 = IF AllZeros THEN Zero ELSE meant
=============================================================================

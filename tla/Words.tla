------------------------------- MODULE Words -------------------------------
(***************************************************************************)
(* What C does with a uint32_t.  A word is kept as the integer between     *)
(* -2^31 and 2^31-1 that has its bits, so that 0xFFFFFFFF is -1; the       *)
(* operators below read it as the unsigned number it is for the code.      *)
(***************************************************************************)
EXTENDS Integers, FiniteSetsExt

Bit(w, b) == (w \div 2^b) % 2 = 1

\* The bits of w; bit 31 is the sign.
BitsOf(w) == {b \in 0 .. 31 : IF b = 31 THEN w < 0 ELSE Bit(w, b)}

SetBit(w, b) == IF Bit(w, b) THEN w ELSE w + 2^b

ClearBit(w, b) == IF Bit(w, b) THEN w - 2^b ELSE w

(* The word that has the bits in B, none of them bit 31.                   *)
FromBits(B) == MapThenSumSet(LAMBDA b : 2^b, B)

(* w & (2^n - 1), and (w >> low) & (2^n - 1).                              *)
LowBits(w, n) == w % 2^n

Field(w, low, n) == (w \div 2^low) % 2^n

(* 1 << 31 *)
TopBit == -(2^30) - 2^30

(* a < b as unsigned numbers *)
Below(a, b) == IF (a < 0) = (b < 0) THEN a < b ELSE b < 0

(* w % m as unsigned numbers, for m below 2^29; 2^32 is 4 * 2^30.          *)
Rem(w, m) == IF w >= 0 THEN w % m ELSE ((w % m) + (2^30 % m) * 4) % m

(* (uint32_t) (250e6 / rate), a rate above 2^31 being above 250e6.         *)
PerSecond(rate) == IF rate < 0 THEN 0 ELSE 250000000 \div rate

(* What an addition that carries out of bit 31 leaves.                     *)
Plus(a, b) == IF a > 0 /\ b > 2147483647 - a THEN (a - 2147483647) + (b - 2147483647) - 2
              ELSE IF a < 0 /\ b < TopBit - a THEN (a + 2147483647) + (b + 2147483647) + 2 ELSE a + b

Minus(a, b) == Plus(Plus(a, -1 - b), 1)
=============================================================================

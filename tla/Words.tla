------------------------------- MODULE Words --------------------------------
(***************************************************************************)
(* Numbers as C and the PLCs hold them.                                    *)
(***************************************************************************)
EXTENDS Integers, Sequences

Word(v) == v % 2^16
Signed(w) == IF w >= 2^15 THEN w - 2^16 ELSE w

\* Two bytes, the low one first.
Bytes(w) == <<w % 256, (w \div 256) % 256>>
OfBytes(lo, hi) == lo + 256 * hi

Bit(v, n) == (Word(v) \div 2^n) % 2
BitsOf(v) == {n \in 0 .. 15 : Bit(v, n) = 1}
OfBits(S) == LET bit(n) == IF n \in S THEN 2^n ELSE 0
                 four(n) == bit(n) + bit(n + 1) + bit(n + 2) + bit(n + 3) IN
             four(0) + four(4) + four(8) + four(12)

\* The number of 32 bits that two words make.
Double(hi, lo) == Signed(hi) * 2^16 + lo

\* Half way between two multiples of the step, the even one.
Nearest(m, step) == LET q == m \div step
                        r == m % step IN
                    IF 2 * r < step \/ (2 * r = step /\ q % 2 = 0) THEN q * step ELSE (q + 1) * step

\* A float has 24 bits: an integer beyond them is rounded to the nearest
\* multiple of the step between two floats.
Step(m) == 2^(CHOOSE e \in 0 .. 104 : m \div 2^e < 2^24 /\ (e = 0 \/ m \div 2^(e - 1) >= 2^24))
Float(v) == IF v \in -(2^24) .. 2^24 THEN v
            ELSE IF v > 0 THEN Nearest(v, Step(v)) ELSE -Nearest(-v, Step(-v))

\* A negative float as an unsigned integer is undefined: a build keeps the
\* bits or makes 0 of it.
Unsigned(v, range) == IF v >= 0 THEN {v % range} ELSE {v % range, 0}
=============================================================================

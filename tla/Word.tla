-------------------------------- MODULE Word --------------------------------
(***************************************************************************)
(* 64-bit words as the sets of the positions of their bits: what C's       *)
(* operators on uint64_t do, and the helpers of lcca.h and risc1.c.        *)
(***************************************************************************)
EXTENDS Integers, FiniteSetsExt

Bits == 0..63
Word64 == SUBSET Bits
Ones == Bits
Sign == 63
Negative(x) == Sign \in x

\* The word of a number, of either sign, by halving it bit by bit; and the number of a
\* word, by doubling from its highest bit.
Halve(h, b) ==
    IF h.rest = 0 THEN h
    ELSE [rest |-> h.rest \div 2, word |-> h.word \cup IF h.rest % 2 = 1 THEN {b} ELSE {}]
Halves(n) ==
    LET upTo[b \in 0..64] ==
            IF b = 0 THEN [rest |-> n, word |-> {}] ELSE Halve(upTo[b - 1], b - 1)
    IN  upTo
Num(n) == Halves(n)[64].word

Double(x, b, n) == 2 * n + IF b \in x THEN 1 ELSE 0
Doubles(x) ==
    LET from[b \in 0..64] == IF x \cap b..63 = {} THEN 0 ELSE Double(x, b, from[b + 1])
    IN  from
ToNat(x) == Doubles(x)[0]

\* A word as C converts it to int.
ToInt(x) == IF 31 \in x THEN -ToNat((0..30) \ x) - 1 ELSE ToNat(x \cap (0..30))

(* Fields of a word.                                                        *)
Get(x, at, n) == {b - at : b \in x \cap at..(at + n - 1)}
Field(x, at, n) == {b + at : b \in x \cap 0..(n - 1)}

\* EXTn: the sign of an n-bit field, extended.
Ext(x, n) == IF n - 1 \in x THEN x \cup n..63 ELSE x

(* Shifts, of a word and an amount below 64 or not.                         *)
Left(x, k) == {b + k : b \in x} \cap Bits
Right(x, k) == {b - k : b \in {c \in x : c >= k}}
\* shl, shr, sar: an amount of 64 clears the word, a larger one is ignored.
Amount(x, k, shifted) == IF k = 64 THEN {} ELSE IF k < 64 THEN shifted ELSE x
Shl(x, k) == Amount(x, k, Left(x, k))
Shr(x, k) == Amount(x, k, Right(x, k))
Sar(x, k) ==
    Amount(x, k, Right(x, k) \cup IF Negative(x) THEN (64 - k)..63 ELSE {})
\* sh and sha: a negative amount shifts right.
Sh(x, k) == IF k < 0 THEN Shr(x, -k) ELSE Shl(x, k)
Sha(x, k) == IF k < 0 THEN Sar(x, -k) ELSE Shl(x, k)

Xor(x, y) == (x \ y) \cup (y \ x)
Not(x) == Ones \ x

(* Arithmetic, in n bits.  A bit gets a carry from a lower one that is in   *)
(* both summands, over bits that are in one at least.                       *)
Carry(x, y, b) == \E c \in x : c \in y /\ c < b /\ (c + 1)..(b - 1) \subseteq x \cup y
PlusIn(n, x, y) == {b \in 0..n-1 : ((b \in x) # (b \in y)) # Carry(x, y, b)}
Plus(x, y) == PlusIn(64, x, y)
Neg(x) == Plus(Not(x), {0})
Minus(x, y) == Plus(x, Neg(y))

\* x > y, as unsigned numbers: x has the highest of the bits in which they differ.
Above(x, y) == x # y /\ Max(Xor(x, y)) \in x
=============================================================================

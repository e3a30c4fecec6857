--------------------------- MODULE AssemblerProofs ---------------------------
(***************************************************************************)
(* The assembler and the machine agree on where the operands of an         *)
(* instruction are and how they are scaled and extended: for every operand *)
(* that fits, what the assembler encodes is what the machine decodes.      *)
(* The two passes of the assembler agree on where the statements are, and  *)
(* what they write is what main loads and the machine finds in its memory. *)
(***************************************************************************)
EXTENDS Toolchain, SequenceTheorems, WellFoundedInduction, TLAPS

(* Words are numbers.                                                       *)

LEMMA Least ==
    ASSUME NEW T, T \subseteq Nat, T # {}
    PROVE  \E x \in T : \A y \in T : x <= y
<1> DEFINE Order == OpToRel(<, Nat)
<1>1. \A x, y \in Nat : y < x => <<y, x>> \in Order
  BY DEF OpToRel
<1>2. IsWellFoundedOn(Order, Nat)
  BY NatLessThanWellFounded
<1> HIDE DEF Order
<1>3. PICK x \in T : \A y \in T : ~ (<<y, x>> \in Order)
  BY <1>2, WFMin
<1>4. \A y \in T : ~ (y < x)
  BY <1>1, <1>3, Zenon
<1>5. \A y \in T : x <= y
  BY <1>4
<1> QED BY <1>5

\* A set of bits that is closed upward, or downward.
LEMMA Upward ==
    ASSUME NEW N \in Nat, NEW T, 0 \in T, \A b \in 0..N : b < N /\ b \in T => b + 1 \in T
    PROVE  \A b \in 0..N : b \in T
<1> SUFFICES ASSUME NEW c \in 0..N, c \notin T PROVE FALSE
  OBVIOUS
<1> DEFINE S == {b \in 0..N : b \notin T}
<1>1. PICK b \in S : \A d \in S : b <= d
  <2>1. S \subseteq Nat /\ S # {}
    OBVIOUS
  <2> QED BY <2>1, Least
<1>2. b # 0 /\ b - 1 \in 0..N /\ b - 1 < N /\ b - 1 \notin S
  BY <1>1
<1>3. b - 1 \in T
  BY <1>2
<1> QED BY <1>1, <1>2, <1>3

LEMMA Downward ==
    ASSUME NEW N \in Nat, NEW T, N \in T, \A b \in 0..N : b < N /\ b + 1 \in T => b \in T
    PROVE  \A b \in 0..N : b \in T
<1> DEFINE S == {c \in 0..N : N - c \in T}
<1>1. 0 \in S
  OBVIOUS
<1>2. ASSUME NEW c \in 0..N, c < N, c \in S PROVE c + 1 \in S
  <2> DEFINE b == N - c - 1
  <2>1. b \in 0..N /\ b < N /\ b + 1 = N - c /\ N - (c + 1) = b
    BY <1>2
  <2>2. b + 1 \in T
    BY <1>2, <2>1
  <2>3. b \in T
    BY <2>1, <2>2
  <2> QED BY <1>2, <2>1, <2>3
<1> HIDE DEF S
<1>3. \A c \in 0..N : c \in S
  BY <1>1, <1>2, Upward
<1>4. ASSUME NEW b \in 0..N PROVE b \in T
  <2>1. N - b \in S
    BY <1>3
  <2> QED BY <2>1 DEF S
<1> QED BY <1>4

\* What the recursive definitions say.
LEMMA HalvesDef ==
    ASSUME NEW n
    PROVE  /\ Halves(n)[0] = [rest |-> n, word |-> {}]
           /\ \A b \in 0..63 : Halves(n)[b + 1] = Halve(Halves(n)[b], b)
<1> DEFINE z == [rest |-> n, word |-> {}]
           Is(f, k) == f = [b \in 0..k |-> IF b = 0 THEN z ELSE Halve(f[b - 1], b - 1)]
           T == {k \in 0..64 : \E f : Is(f, k)}
<1> HIDE DEF z
<1>1. 0 \in T
  <2> DEFINE g == [b \in 0..0 |-> z]
  <2>1. Is(g, 0)
    OBVIOUS
  <2> HIDE DEF Is, g
  <2>2. \E f2 : Is(f2, 0)
    BY <2>1
  <2> QED BY <2>2
<1>2. ASSUME NEW k \in 0..63, k \in T PROVE k + 1 \in T
  <2>1. PICK f : Is(f, k)
    BY <1>2
  <2> DEFINE g == [b \in 0..(k + 1) |-> IF b <= k THEN f[b] ELSE Halve(f[k], k)]
  <2>2. \A b \in 0..k : f[b] = IF b = 0 THEN z ELSE Halve(f[b - 1], b - 1)
    BY <2>1
  <2>3. ASSUME NEW b \in 0..(k + 1)
        PROVE  g[b] = IF b = 0 THEN z ELSE Halve(g[b - 1], b - 1)
    <3>1. CASE b <= k
      BY <2>2, <3>1
    <3>2. CASE b = k + 1
      BY <3>2
    <3> QED BY <3>1, <3>2
  <2>4. Is(g, k + 1)
    BY <2>3
  <2> HIDE DEF Is, g
  <2>5. \E f2 : Is(f2, k + 1)
    BY <2>4
  <2> QED BY <2>5
<1> HIDE DEF T
<1>3. 64 \in T
  BY <1>1, <1>2, Upward
<1>4. Halves(n) = CHOOSE f : Is(f, 64)
  BY SMTT(30) DEF Halves, z
<1>5. Is(Halves(n), 64)
  BY <1>3, <1>4, ZenonT(30) DEF T
<1>6. \A b \in 0..64 : Halves(n)[b] = IF b = 0 THEN z ELSE Halve(Halves(n)[b - 1], b - 1)
  BY <1>5
<1>7. \A b \in 0..63 : Halves(n)[b + 1] = Halve(Halves(n)[b], b)
  BY <1>6
<1> QED BY <1>6, <1>7 DEF z

LEMMA DoublesDef ==
    ASSUME NEW x
    PROVE  /\ Doubles(x)[64] = 0
           /\ \A b \in 0..63 : Doubles(x)[b] = Double(x, b, Doubles(x)[b + 1])
<1> DEFINE Is(f, k) == f = [b \in k..64 |->
                               IF x \cap b..63 = {} THEN 0 ELSE Double(x, b, f[b + 1])]
           T == {k \in 0..64 : \E f : Is(f, k)}
<1>1. 64 \in T
  <2> DEFINE g == [b \in 64..64 |-> 0]
  <2>1. Is(g, 64)
    <3>1. \A b \in 64..64 : x \cap b..63 = {}
      OBVIOUS
    <3> QED BY <3>1
  <2> HIDE DEF Is, g
  <2>2. \E f2 : Is(f2, 64)
    BY <2>1
  <2> QED BY <2>2
<1>2. ASSUME NEW k \in 0..64, k < 64, k + 1 \in T PROVE k \in T
  <2>1. PICK f : Is(f, k + 1)
    BY <1>2
  <2> DEFINE g == [b \in k..64 |->
                     IF b = k THEN (IF x \cap b..63 = {} THEN 0 ELSE Double(x, k, f[k + 1]))
                     ELSE f[b]]
  <2>2. \A b \in (k + 1)..64 : f[b] = IF x \cap b..63 = {} THEN 0 ELSE Double(x, b, f[b + 1])
    BY <2>1
  <2>3. ASSUME NEW b \in k..64
        PROVE  g[b] = IF x \cap b..63 = {} THEN 0 ELSE Double(x, b, g[b + 1])
    <3>1. CASE b = k
      BY <3>1
    <3>2. CASE b # k /\ b # 64
      <4>1. g[b + 1] = f[b + 1] /\ g[b] = f[b]
        BY <3>2
      <4> QED BY <2>2, <3>2, <4>1
    <3>3. CASE b = 64 /\ b # k
      <4>1. x \cap b..63 = {}
        BY <3>3
      <4>2. g[b] = f[b]
        BY <3>3
      <4> HIDE DEF g
      <4> QED BY <2>2, <3>3, <4>1, <4>2
    <3> QED BY <3>1, <3>2, <3>3
  <2>4. Is(g, k)
    BY <2>3
  <2> HIDE DEF Is, g
  <2>5. \E f2 : Is(f2, k)
    BY <2>4
  <2> QED BY <2>5
<1> HIDE DEF T
<1>3. \A b \in 0..64 : b \in T
  BY <1>1, <1>2, Downward
<1>4. Doubles(x) = CHOOSE f : Is(f, 0)
  BY DEF Doubles
<1>5. Is(Doubles(x), 0)
  <2>1. 0 \in T
    BY <1>3
  <2> HIDE DEF Is
  <2>2. \E f : Is(f, 0)
    BY <2>1 DEF T
  <2> QED BY <1>4, <2>2
<1> DEFINE d == Doubles(x)
<1>6. \A b \in 0..64 : d[b] = IF x \cap b..63 = {} THEN 0 ELSE Double(x, b, d[b + 1])
  BY <1>5
<1> HIDE DEF d
<1>7. d[64] = 0
  <2>1. x \cap 64..63 = {}
    OBVIOUS
  <2> QED BY <1>6, <2>1
<1>8. ASSUME NEW b \in 0..63 PROVE d[b] = Double(x, b, d[b + 1])
  <2>1. CASE x \cap b..63 = {}
    <3>1. b \notin x /\ x \cap (b + 1)..63 = {}
      BY <2>1
    <3>2. d[b] = 0 /\ d[b + 1] = 0
      <4>1. b \in 0..64 /\ b + 1 \in 0..64
        OBVIOUS
      <4> QED BY <1>6, <2>1, <3>1, <4>1
    <3> QED BY <3>1, <3>2 DEF Double
  <2>2. CASE x \cap b..63 # {}
    BY <1>6, <2>2
  <2> QED BY <2>1, <2>2
<1> QED BY <1>7, <1>8 DEF d

\* The halves of a number, and the bits of its word.
Rest(n, b) == Halves(n)[b].rest
One(x, b) == IF b \in x THEN 1 ELSE 0

LEMMA HalveParts ==
    ASSUME NEW h, NEW b
    PROVE  /\ Halve(h, b).rest = h.rest \div 2
           /\ Halve(h, b).word = h.word \cup IF h.rest % 2 = 1 THEN {b} ELSE {}
BY DEF Halve

LEMMA HalvesNum ==
    ASSUME NEW n \in Int
    PROVE  /\ Rest(n, 0) = n
           /\ \A b \in 0..64 : Rest(n, b) \in Int
           /\ \A b \in 0..63 : Rest(n, b + 1) = Rest(n, b) \div 2
           /\ \A b \in 0..63 : Rest(n, b) = 2 * Rest(n, b + 1) + One(Num(n), b)
           /\ Num(n) \in Word64
<1> DEFINE h == Halves(n)
<1>1. h[0] = [rest |-> n, word |-> {}] /\ \A b \in 0..63 : h[b + 1] = Halve(h[b], b)
  BY HalvesDef
<1> HIDE DEF h
<1>2. h[0].rest = n /\ h[0].word = {}
  BY <1>1
<1>3. ASSUME NEW b \in 0..63
      PROVE  /\ h[b + 1].rest = h[b].rest \div 2
             /\ h[b + 1].word = h[b].word \cup IF h[b].rest % 2 = 1 THEN {b} ELSE {}
  <2>1. h[b + 1] = Halve(h[b], b)
    BY <1>1
  <2> QED BY <2>1, HalveParts
<1> DEFINE r(b) == h[b].rest
           w(b) == {c \in 0..(b - 1) : r(c) % 2 = 1}
           T == {b \in 0..64 : r(b) \in Int /\ h[b].word = w(b)}
<1>4. 0 \in T
  BY <1>2
<1>5. ASSUME NEW b \in 0..64, b < 64, b \in T PROVE b + 1 \in T
  <2>1. r(b) \in Int /\ h[b].word = w(b)
    BY <1>5, SMTT(30)
  <2>2. r(b + 1) = r(b) \div 2 /\ h[b + 1].word = h[b].word \cup IF r(b) % 2 = 1 THEN {b} ELSE {}
    <3>1. b \in 0..63
      BY <1>5
    <3> QED BY <1>3, <3>1, ZenonT(30)
  <2>3. w(b + 1) = w(b) \cup IF r(b) % 2 = 1 THEN {b} ELSE {}
    <3> HIDE DEF r
    <3>1. \A c \in Int : c \in 0..b <=> c \in 0..(b - 1) \/ c = b
      OBVIOUS
    <3>2. \A c : c \in w(b + 1) <=> c \in w(b) \cup IF r(b) % 2 = 1 THEN {b} ELSE {}
      BY <3>1
    <3> QED BY <3>2
  <2> HIDE DEF w, r, T
  <2>4. r(b + 1) \in Int
    BY <2>1, <2>2
  <2>5. h[b + 1].word = w(b + 1)
    BY <2>1, <2>2, <2>3
  <2> QED BY <1>5, <2>4, <2>5 DEF T
<1> HIDE DEF T, r, w
<1>6. \A b \in 0..64 : b \in T
  BY <1>4, <1>5, Upward
<1>7. \A b \in 0..64 : r(b) \in Int
  BY <1>6 DEF T
<1>8. Num(n) = w(64)
  <2>1. 64 \in T
    BY <1>6
  <2>2. h[64].word = w(64)
    BY <2>1 DEF T
  <2> QED BY <2>2 DEF Num, h
<1>9. ASSUME NEW b \in 0..63
      PROVE  r(b + 1) = r(b) \div 2 /\ r(b) = 2 * r(b + 1) + One(Num(n), b)
  <2>1. r(b) \in Int
    BY <1>7
  <2>2. r(b + 1) = r(b) \div 2
    BY <1>3, ZenonT(30) DEF r
  <2>3. b \in Num(n) <=> r(b) % 2 = 1
    BY <1>8 DEF w
  <2> QED BY <2>1, <2>2, <2>3, SMTT(30) DEF One
<1>10. Num(n) \in Word64
  BY <1>8 DEF Word64, Bits, w
<1>11. r(0) = n
  BY <1>2 DEF r
<1>12. \A b \in 0..64 : Rest(n, b) = r(b)
  BY DEF Rest, h, r
<1> QED BY <1>7, <1>9, <1>10, <1>11, <1>12

LEMMA SameHalf ==
    ASSUME NEW u \in Int, NEW v \in Int, NEW p \in {0, 1}, NEW q \in {0, 1},
           2 * u + p = 2 * v + q
    PROVE  u = v /\ p = q
OBVIOUS

\* The halves are the only numbers that go on like that, which is how a word is known
\* to be a number's.
LEMMA WordOfNumber ==
    ASSUME NEW x \in Word64, NEW f, NEW n \in Int, f[0] = n,
           \A b \in 0..64 : f[b] \in Int,
           \A b \in 0..63 : f[b] = 2 * f[b + 1] + One(x, b)
    PROVE  Num(n) = x /\ \A b \in 0..64 : Rest(n, b) = f[b]
<1> DEFINE r(b) == Rest(n, b)
           T == {b \in 0..64 : r(b) = f[b]}
<1>1. /\ r(0) = n /\ \A b \in 0..64 : r(b) \in Int
      /\ \A b \in 0..63 : r(b) = 2 * r(b + 1) + One(Num(n), b)
      /\ Num(n) \in Word64
  BY HalvesNum
<1> HIDE DEF r, T
<1>2. 0 \in T
  BY <1>1 DEF T
<1>3. ASSUME NEW b \in 0..64, b < 64, r(b) = f[b]
      PROVE  r(b + 1) = f[b + 1] /\ (b \in Num(n) <=> b \in x)
  <2>1. r(b) = 2 * r(b + 1) + One(Num(n), b) /\ f[b] = 2 * f[b + 1] + One(x, b)
    BY <1>1, <1>3
  <2>2. r(b + 1) \in Int /\ f[b + 1] \in Int
    BY <1>1, <1>3
  <2>3. One(Num(n), b) \in {0, 1} /\ One(x, b) \in {0, 1}
    BY DEF One
  <2>4. r(b + 1) = f[b + 1] /\ One(Num(n), b) = One(x, b)
    <3>1. 2 * r(b + 1) + One(Num(n), b) = 2 * f[b + 1] + One(x, b)
      BY <1>3, <2>1
    <3> QED BY <2>2, <2>3, <3>1, SameHalf
  <2> QED BY <2>4 DEF One
<1>4. \A b \in 0..64 : b \in T
  <2>1. \A b \in 0..64 : b < 64 /\ b \in T => b + 1 \in T
    BY <1>3 DEF T
  <2> QED BY <1>2, <2>1, Upward
<1>5. \A b \in 0..64 : r(b) = f[b]
  BY <1>4 DEF T
<1>6. \A b \in Bits : b \in Num(n) <=> b \in x
  BY <1>3, <1>5 DEF Bits
<1> QED BY <1>1, <1>5, <1>6 DEF r, Word64

\* A word is the word of its number.
LEMMA DoublesNat ==
    ASSUME NEW x
    PROVE  /\ \A b \in 0..64 : Doubles(x)[b] \in Nat
           /\ \A b \in 0..63 : Doubles(x)[b] = 2 * Doubles(x)[b + 1] + One(x, b)
<1> DEFINE d(b) == Doubles(x)[b]
           T == {b \in 0..64 : d(b) \in Nat}
<1>1. d(64) = 0 /\ \A b \in 0..63 : d(b) = Double(x, b, d(b + 1))
  BY DoublesDef
<1>2. \A b \in 0..63 : d(b) = 2 * d(b + 1) + One(x, b)
  BY <1>1 DEF Double, One
<1> HIDE DEF d
<1>3. ASSUME NEW b \in 0..63, d(b + 1) \in Nat PROVE d(b) \in Nat
  <2>1. One(x, b) \in {0, 1}
    BY DEF One
  <2> QED BY <1>2, <1>3, <2>1
<1>4. \A b \in 0..64 : b \in T
  <2>1. \A b \in 0..64 : b < 64 /\ b + 1 \in T => b \in T
    <3> SUFFICES ASSUME NEW b \in 0..64, b < 64, b + 1 \in T PROVE b \in T
      OBVIOUS
    <3>1. b \in 0..63 /\ d(b + 1) \in Nat
      OBVIOUS
    <3>2. d(b) \in Nat
      BY <1>3, <3>1
    <3> QED BY <3>2
  <2>2. 64 \in T
    BY <1>1
  <2> HIDE DEF T
  <2> QED BY <2>1, <2>2, Downward
<1>5. \A b \in 0..64 : d(b) \in Nat
  BY <1>4
<1> QED BY <1>2, <1>5 DEF d

LEMMA NumToNat ==
    ASSUME NEW x \in Word64
    PROVE  ToNat(x) \in Nat /\ Num(ToNat(x)) = x
<1> DEFINE f == Doubles(x)
<1>1. /\ \A b \in 0..64 : f[b] \in Nat
      /\ \A b \in 0..63 : f[b] = 2 * f[b + 1] + One(x, b)
  BY DoublesNat
<1>2. ToNat(x) = f[0]
  BY DEF ToNat
<1> HIDE DEF f
<1>3. /\ \A b \in 0..64 : f[b] \in Int
      /\ \A b \in 0..63 : f[b] = 2 * f[b + 1] + One(x, b)
      /\ f[0] \in Int /\ f[0] \in Nat
  BY <1>1
<1>4. Num(f[0]) = x
  BY <1>3, WordOfNumber
<1> QED BY <1>2, <1>3, <1>4

\* A carry into a bit is one out of the bit below.
LEMMA CarryStep ==
    ASSUME NEW x, x \subseteq Int, NEW y, y \subseteq Int, NEW b \in Nat
    PROVE  Carry(x, y, b + 1) <=> \/ b \in x /\ b \in y
                                  \/ (b \in x \/ b \in y) /\ Carry(x, y, b)
<1>1. ASSUME b \in x, b \in y PROVE Carry(x, y, b + 1)
  <2>1. b \in x \cap y /\ b < b + 1 /\ (b + 1)..((b + 1) - 1) \subseteq x \cup y
    BY <1>1
  <2> QED BY <2>1, Zenon DEF Carry
<1>2. ASSUME b \in x \/ b \in y, Carry(x, y, b) PROVE Carry(x, y, b + 1)
  <2>1. PICK c \in x \cap y : c < b /\ (c + 1)..(b - 1) \subseteq x \cup y
    BY <1>2 DEF Carry
  <2>2. c < b + 1 /\ (c + 1)..((b + 1) - 1) \subseteq x \cup y
    BY <1>2, <2>1
  <2> QED BY <2>2, Zenon DEF Carry
<1>3. ASSUME Carry(x, y, b + 1)
      PROVE  (b \in x /\ b \in y) \/ ((b \in x \/ b \in y) /\ Carry(x, y, b))
  <2>1. PICK c \in x \cap y : c < b + 1 /\ (c + 1)..((b + 1) - 1) \subseteq x \cup y
    BY <1>3 DEF Carry
  <2>2. CASE c = b
    <3>1. b \in x \cap y
      BY <2>2
    <3> QED BY <3>1, Zenon
  <2>3. CASE c # b
    <3>1. c < b /\ (c + 1)..(b - 1) \subseteq x \cup y /\ (b \in x \/ b \in y)
      BY <2>1, <2>3
    <3>2. Carry(x, y, b)
      BY <3>1, Zenon DEF Carry
    <3> QED BY <3>1, <3>2
  <2> QED BY <2>2, <2>3
<1> QED BY <1>1, <1>2, <1>3

LEMMA SumBit ==
    ASSUME NEW x, NEW y, NEW b \in Bits
    PROVE  b \in Plus(x, y) <=> ~ ((b \in x <=> b \in y) <=> ~Carry(x, y, b))
<1>1. b \in 0..(64 - 1)
  BY DEF Bits
<1>2. ((b \in x) # (b \in y)) <=> ~ (b \in x <=> b \in y)
  OBVIOUS
<1>3. ((b \in x) # (b \in y)) \in BOOLEAN /\ Carry(x, y, b) \in BOOLEAN
  BY DEF Carry
<1>4. b \in PlusIn(64, x, y) <=> (((b \in x) # (b \in y)) # Carry(x, y, b))
  BY <1>1, Zenon DEF PlusIn
<1>5. (((b \in x) # (b \in y)) # Carry(x, y, b))
        <=> ~ (((b \in x) # (b \in y)) <=> Carry(x, y, b))
  BY <1>3
<1>6. b \in Plus(x, y) <=> ~ (((b \in x) # (b \in y)) <=> Carry(x, y, b))
  BY <1>4, <1>5, Zenon DEF Plus
<1> QED BY <1>2, <1>6, Zenon

LEMMA PlusWord == ASSUME NEW x, NEW y PROVE Plus(x, y) \in Word64
BY DEF Plus, PlusIn, Word64, Bits

LEMMA SumOfBits ==
    ASSUME NEW u \in Int, NEW v \in Int, NEW c \in Int, NEW u2 \in Int, NEW v2 \in Int,
           NEW c2 \in Int, NEW p \in Int, NEW q \in Int, NEW s \in Int,
           u = 2 * u2 + p, v = 2 * v2 + q, p + q + c = 2 * c2 + s
    PROVE  u + v + c = 2 * (u2 + v2 + c2) + s
OBVIOUS

\* The addition of bits, with the carries (lcca.h) or of the numbers.
LEMMA NumSum ==
    ASSUME NEW n \in Int, NEW k \in Int
    PROVE  Num(n + k) = Plus(Num(n), Num(k))
<1> DEFINE x == Num(n)
           y == Num(k)
           z == Plus(x, y)
           Carried(b) == IF Carry(x, y, b) THEN 1 ELSE 0
           f == [b \in 0..64 |-> Rest(n, b) + Rest(k, b) + Carried(b)]
<1>1. /\ x \in Word64 /\ y \in Word64 /\ z \in Word64
      /\ x \subseteq Int /\ y \subseteq Int
  <2>1. x \in Word64 /\ y \in Word64 /\ z \in Word64
    BY HalvesNum, PlusWord
  <2> HIDE DEF x, y, z
  <2> QED BY <2>1 DEF Word64, Bits
<1>2. /\ Rest(n, 0) = n /\ Rest(k, 0) = k
      /\ \A b \in 0..64 : Rest(n, b) \in Int /\ Rest(k, b) \in Int
      /\ \A b \in 0..63 : Rest(n, b) = 2 * Rest(n, b + 1) + One(x, b)
      /\ \A b \in 0..63 : Rest(k, b) = 2 * Rest(k, b + 1) + One(y, b)
  BY HalvesNum
<1>3. Carried(0) = 0
  <2>1. ~Carry(x, y, 0)
    BY <1>1 DEF Carry, Word64, Bits
  <2> QED BY <2>1
<1>4. \A b : Carried(b) \in {0, 1}
  OBVIOUS
<1>5. ASSUME NEW b \in 0..63
      PROVE  One(x, b) + One(y, b) + Carried(b) = 2 * Carried(b + 1) + One(z, b)
  <2>1. Carry(x, y, b + 1) <=> \/ b \in x /\ b \in y
                               \/ (b \in x \/ b \in y) /\ Carry(x, y, b)
    BY <1>1, CarryStep
  <2>2. b \in z <=> ~ ((b \in x <=> b \in y) <=> ~Carry(x, y, b))
    BY SumBit DEF Bits
  <2> HIDE DEF x, y, z
  <2> QED BY <2>1, <2>2 DEF One
<1> HIDE DEF x, y, z, Carried
<1>6. /\ f[0] = n + k /\ \A b \in 0..64 : f[b] \in Int
  <2>1. f[0] = Rest(n, 0) + Rest(k, 0) + Carried(0)
    OBVIOUS
  <2>2. \A b \in 0..64 : f[b] \in Int
    BY <1>2, <1>4
  <2> QED BY <1>2, <1>3, <2>1, <2>2
<1>7. ASSUME NEW b \in 0..63 PROVE f[b] = 2 * f[b + 1] + One(z, b)
  <2>1. b \in 0..64 /\ b + 1 \in 0..64
    OBVIOUS
  <2>2. /\ f[b] = Rest(n, b) + Rest(k, b) + Carried(b)
        /\ f[b + 1] = Rest(n, b + 1) + Rest(k, b + 1) + Carried(b + 1)
    BY <2>1
  <2>3. /\ Rest(n, b) \in Int /\ Rest(k, b) \in Int /\ Carried(b) \in Int
        /\ Rest(n, b + 1) \in Int /\ Rest(k, b + 1) \in Int /\ Carried(b + 1) \in Int
        /\ One(x, b) \in Int /\ One(y, b) \in Int /\ One(z, b) \in Int
    BY <1>2, <1>4, <2>1 DEF One
  <2>4. /\ Rest(n, b) = 2 * Rest(n, b + 1) + One(x, b)
        /\ Rest(k, b) = 2 * Rest(k, b + 1) + One(y, b)
    BY <1>2
  <2> HIDE DEF f
  <2>5. One(x, b) + One(y, b) + Carried(b) = 2 * Carried(b + 1) + One(z, b)
    BY <1>5
  <2> QED BY <2>2, <2>3, <2>4, <2>5, SumOfBits
<1> HIDE DEF f
<1>8. Num(n + k) = z
  <2>1. n + k \in Int
    OBVIOUS
  <2> QED BY <1>1, <1>6, <1>7, <2>1, WordOfNumber
<1> QED BY <1>8 DEF x, y, z

LEMMA NumZero == Num(0) = {}
<1> DEFINE f == [b \in 0..64 |-> 0]
<1>1. f[0] = 0 /\ \A b \in 0..64 : f[b] \in Int
  OBVIOUS
<1>2. \A b \in 0..63 : f[b] = 2 * f[b + 1] + One({}, b)
  BY DEF One
<1>3. {} \in Word64
  BY DEF Word64
<1> HIDE DEF f
<1>4. 0 \in Int
  OBVIOUS
<1> QED BY <1>1, <1>2, <1>3, <1>4, WordOfNumber, Zenon

LEMMA NumBit0 == Num(1) = {0}
<1> DEFINE f == [b \in 0..64 |-> IF b = 0 THEN 1 ELSE 0]
<1>1. f[0] = 1 /\ \A b \in 0..64 : f[b] \in Int
  OBVIOUS
<1>2. \A b \in 0..63 : f[b] = 2 * f[b + 1] + One({0}, b)
  BY DEF One
<1>3. {0} \in Word64
  BY DEF Word64, Bits
<1> HIDE DEF f
<1>4. 1 \in Int
  OBVIOUS
<1> QED BY <1>1, <1>2, <1>3, <1>4, WordOfNumber, Zenon

\* What C's ~ and - do to a number.
LEMMA NumNot ==
    ASSUME NEW n \in Int
    PROVE  Num(-n - 1) = Not(Num(n))
<1> DEFINE x == Num(n)
           f == [b \in 0..64 |-> -Rest(n, b) - 1]
<1>1. /\ x \in Word64 /\ Not(x) \in Word64
      /\ Rest(n, 0) = n /\ \A b \in 0..64 : Rest(n, b) \in Int
      /\ \A b \in 0..63 : Rest(n, b) = 2 * Rest(n, b + 1) + One(x, b)
  BY HalvesNum DEF Not, Word64, Ones
<1> HIDE DEF x
<1>2. f[0] = -n - 1 /\ \A b \in 0..64 : f[b] \in Int
  BY <1>1
<1>3. ASSUME NEW b \in 0..63 PROVE f[b] = 2 * f[b + 1] + One(Not(x), b)
  <2>1. One(Not(x), b) = 1 - One(x, b) /\ One(x, b) \in Int
    BY DEF One, Not, Ones, Bits
  <2>2. b \in 0..64 /\ b + 1 \in 0..64
    OBVIOUS
  <2>3. f[b] = -Rest(n, b) - 1 /\ f[b + 1] = -Rest(n, b + 1) - 1
    BY <2>2
  <2>4. /\ Rest(n, b) \in Int /\ Rest(n, b + 1) \in Int
        /\ Rest(n, b) = 2 * Rest(n, b + 1) + One(x, b)
    BY <1>1, <2>2
  <2> HIDE DEF f
  <2> QED BY <2>1, <2>3, <2>4
<1> HIDE DEF f
<1>4. -n - 1 \in Int
  OBVIOUS
<1> QED BY <1>1, <1>2, <1>3, <1>4, WordOfNumber DEF x

LEMMA NumNeg ==
    ASSUME NEW n \in Int
    PROVE  Neg(Num(n)) = Num(-n)
<1>1. Neg(Num(n)) = Plus(Num(-n - 1), Num(1))
  BY NumNot, NumBit0 DEF Neg
<1>2. -n - 1 \in Int /\ (-n - 1) + 1 = -n
  OBVIOUS
<1> QED BY <1>1, <1>2, NumSum

\* What + and - of uint64_t do (lcca.h, risc2.c), as far as the bits of the carries
\* tell: they add and subtract the numbers, modulo the word.
THEOREM WordArithmetic ==
    /\ \A n, k \in Int : Num(n + k) = Plus(Num(n), Num(k))
    /\ \A n, k \in Int : Num(n - k) = Minus(Num(n), Num(k))
    /\ \A x \in Word64 : ToNat(x) \in Nat /\ Num(ToNat(x)) = x
<1>1. ASSUME NEW n \in Int, NEW k \in Int PROVE Num(n - k) = Minus(Num(n), Num(k))
  <2>1. -k \in Int /\ n + (-k) = n - k
    OBVIOUS
  <2> QED BY <2>1, NumNeg, NumSum DEF Minus
<1> QED BY <1>1, NumSum, NumToNat

\* Words are a group.
LEMMA PlusCommutes ==
    ASSUME NEW x \in Word64, NEW y \in Word64
    PROVE  Plus(x, y) = Plus(y, x)
<1> DEFINE n == ToNat(x)
           k == ToNat(y)
<1>1. n \in Int /\ k \in Int /\ x = Num(n) /\ y = Num(k)
  BY NumToNat
<1> HIDE DEF n, k
<1>2. n + k = k + n
  BY <1>1
<1> QED BY <1>1, <1>2, NumSum

LEMMA PlusAssociates ==
    ASSUME NEW x \in Word64, NEW y \in Word64, NEW z \in Word64
    PROVE  Plus(Plus(x, y), z) = Plus(x, Plus(y, z))
<1> DEFINE n == ToNat(x)
           k == ToNat(y)
           l == ToNat(z)
<1>1. n \in Int /\ k \in Int /\ l \in Int /\ x = Num(n) /\ y = Num(k) /\ z = Num(l)
  BY NumToNat
<1> HIDE DEF n, k, l
<1>2. n + k \in Int /\ k + l \in Int /\ (n + k) + l = n + (k + l)
  BY <1>1
<1>3. Plus(Plus(x, y), z) = Num((n + k) + l)
  BY <1>1, <1>2, NumSum
<1>4. Plus(x, Plus(y, z)) = Num(n + (k + l))
  BY <1>1, <1>2, NumSum
<1> QED BY <1>2, <1>3, <1>4

LEMMA PlusNothing ==
    ASSUME NEW x \in Word64
    PROVE  Plus(x, {}) = x
<1> DEFINE n == ToNat(x)
<1>1. n \in Int /\ x = Num(n)
  BY NumToNat
<1> HIDE DEF n
<1>2. n + 0 = n
  BY <1>1
<1>3. Num(n + 0) = Plus(Num(n), Num(0))
  BY <1>1, NumSum
<1> QED BY <1>1, <1>2, <1>3, NumZero

LEMMA MinusPlus ==
    ASSUME NEW x \in Word64, NEW y \in Word64
    PROVE  /\ Plus(y, Minus(x, y)) = x
           /\ Minus(x, y) \in Word64
           /\ Minus(Plus(x, y), y) = x
<1> DEFINE n == ToNat(x)
           k == ToNat(y)
<1>1. n \in Int /\ k \in Int /\ x = Num(n) /\ y = Num(k)
  BY NumToNat
<1> HIDE DEF n, k
<1>2. n - k \in Int /\ k + (n - k) = n /\ n + k \in Int /\ (n + k) - k = n
  BY <1>1
<1>3. Plus(y, Minus(x, y)) = Num(k + (n - k))
  BY <1>1, <1>2, NumSum, WordArithmetic
<1>4. Minus(Plus(x, y), y) = Num((n + k) - k)
  BY <1>1, <1>2, NumSum, WordArithmetic
<1>5. Minus(x, y) \in Word64
  BY PlusWord DEF Minus
<1> QED BY <1>1, <1>2, <1>3, <1>4, <1>5

\* A number below 2^17, as the addresses of a program are, is the number of its word.
Near(n) == n < 131072
LEMMA RestIsNothing ==
    ASSUME NEW n \in Nat, Near(n), NEW b \in 17..64
    PROVE  Rest(n, b) = 0
<1> DEFINE r(i) == Rest(n, i)
<1>1. r(0) = n /\ n \in Int /\ \A i \in 0..63 : r(i + 1) = r(i) \div 2
  BY HalvesNum
<1> HIDE DEF r
<1>2. \A i \in 0..63, k \in 1..64 : k = i + 1 => r(k) = r(i) \div 2
  BY <1>1, SMT
<1>3. r(1) \in Nat /\ r(1) < 65536
  BY <1>1, <1>2, SMT DEF Near
<1>4. r(2) \in Nat /\ r(2) < 32768
  BY <1>1, <1>2, <1>3, SMT
<1>5. r(3) \in Nat /\ r(3) < 16384
  BY <1>1, <1>2, <1>4, SMT
<1>6. r(4) \in Nat /\ r(4) < 8192
  BY <1>1, <1>2, <1>5, SMT
<1>7. r(5) \in Nat /\ r(5) < 4096
  BY <1>1, <1>2, <1>6, SMT
<1>8. r(6) \in Nat /\ r(6) < 2048
  BY <1>1, <1>2, <1>7, SMT
<1>9. r(7) \in Nat /\ r(7) < 1024
  BY <1>1, <1>2, <1>8, SMT
<1>10. r(8) \in Nat /\ r(8) < 512
  BY <1>1, <1>2, <1>9, SMT
<1>11. r(9) \in Nat /\ r(9) < 256
  BY <1>1, <1>2, <1>10, SMT
<1>12. r(10) \in Nat /\ r(10) < 128
  BY <1>1, <1>2, <1>11, SMT
<1>13. r(11) \in Nat /\ r(11) < 64
  BY <1>1, <1>2, <1>12, SMT
<1>14. r(12) \in Nat /\ r(12) < 32
  BY <1>1, <1>2, <1>13, SMT
<1>15. r(13) \in Nat /\ r(13) < 16
  BY <1>1, <1>2, <1>14, SMT
<1>16. r(14) \in Nat /\ r(14) < 8
  BY <1>1, <1>2, <1>15, SMT
<1>17. r(15) \in Nat /\ r(15) < 4
  BY <1>1, <1>2, <1>16, SMT
<1>18. r(16) \in Nat /\ r(16) < 2
  BY <1>1, <1>2, <1>17, SMT
<1>19. r(17) \in Nat /\ r(17) < 1
  BY <1>1, <1>2, <1>18, SMT
<1> DEFINE T == {c \in 0..64 : c < 17 \/ r(c) = 0}
<1>20. ASSUME NEW c \in 0..64, c < 64, c \in T PROVE c + 1 \in T
  <2>1. CASE c < 16
    BY <2>1
  <2>2. CASE c = 16
    BY <1>19, <2>2, SMT
  <2>3. CASE c > 16
    <3>1. c \in 0..63 /\ r(c) = 0
      BY <1>20, <2>3
    <3>2. r(c + 1) = 0 \div 2
      BY <1>1, <3>1
    <3> QED BY <3>1, <3>2
  <2> QED BY <2>1, <2>2, <2>3
<1>21. 0 \in T
  OBVIOUS
<1> HIDE DEF T
<1>22. \A c \in 0..64 : c \in T
  BY <1>20, <1>21, Upward
<1>23. b \in 0..64 /\ ~ (b < 17)
  OBVIOUS
<1> QED BY <1>22, <1>23 DEF T, r

LEMMA ToNatNum ==
    ASSUME NEW n \in Nat, Near(n)
    PROVE  ToNat(Num(n)) = n
<1> DEFINE x == Num(n)
           d(b) == Doubles(x)[b]
           r(b) == Rest(n, b)
           T == {b \in 0..64 : d(b) = r(b)}
<1>1. n \in Int /\ r(0) = n /\ \A b \in 0..63 : r(b) = 2 * r(b + 1) + One(x, b)
  BY HalvesNum
<1>2. r(64) = 0
  BY RestIsNothing
<1>3. d(64) = 0 /\ \A b \in 0..63 : d(b) = 2 * d(b + 1) + One(x, b)
  BY DoublesDef, DoublesNat
<1>4. ToNat(x) = d(0)
  BY DEF ToNat
<1> HIDE DEF x, d, r
<1>5. 64 \in T
  BY <1>2, <1>3
<1>6. ASSUME NEW b \in 0..64, b < 64, b + 1 \in T PROVE b \in T
  <2>1. b \in 0..63 /\ d(b + 1) = r(b + 1)
    BY <1>6
  <2>2. d(b) = 2 * d(b + 1) + One(x, b) /\ r(b) = 2 * r(b + 1) + One(x, b)
    BY <1>1, <1>3, <2>1
  <2>3. d(b) = r(b)
    BY <2>1, <2>2
  <2> QED BY <2>3
<1> HIDE DEF T
<1>7. \A b \in 0..64 : b \in T
  <2>1. \A b \in 0..64 : b < 64 /\ b + 1 \in T => b \in T
    BY <1>6
  <2>2. 64 \in Nat
    OBVIOUS
  <2> QED BY <1>5, <2>1, <2>2, Downward, Zenon
<1>8. d(0) = r(0)
  BY <1>7 DEF T
<1> QED BY <1>1, <1>4, <1>8 DEF x
-----------------------------------------------------------------------------
(* Fields.                                                                  *)

\* Sets of positions with the same members.
LEMMA SameBits ==
    ASSUME NEW S, NEW T, S \subseteq Int, T \subseteq Int, \A b \in Int : b \in S <=> b \in T
    PROVE  S = T
OBVIOUS

\* The bits of a field, and those of a union of fields.
LEMMA FieldBits ==
    ASSUME NEW v, v \subseteq Int, NEW pos \in Nat, NEW n \in Nat, NEW b \in Int
    PROVE  b \in Field(v, pos, n) <=> b - pos \in v /\ b \in pos..(pos + n - 1)
BY DEF Field

LEMMA GetBits ==
    ASSUME NEW w, w \subseteq Int, NEW pos \in Nat, NEW n \in Nat, NEW b \in Int
    PROVE  b \in Get(w, pos, n) <=> b + pos \in w /\ b \in 0..(n - 1)
BY DEF Get

\* A field that nothing else is in is read as it was written.
Exclusive(w, v, pos, n) == \A b \in pos..(pos + n - 1) : b \in w <=> b \in Field(v, pos, n)
Low(v, n) == v \cap 0..(n - 1)
LEMMA FieldRead ==
    ASSUME NEW v, v \subseteq Int, NEW pos \in Nat, NEW n \in Nat, NEW w, w \subseteq Int,
           Exclusive(w, v, pos, n)
    PROVE  Get(w, pos, n) = Low(v, n)
<1>1. ASSUME NEW b \in Int PROVE b \in Get(w, pos, n) <=> b \in Low(v, n)
  <2>1. b \in Get(w, pos, n) <=> b + pos \in w /\ b \in 0..(n - 1)
    BY GetBits
  <2>2. b \in 0..(n - 1) => (b + pos \in w <=> b + pos \in Field(v, pos, n))
    BY DEF Exclusive
  <2>3. b + pos \in Field(v, pos, n) <=> b \in v /\ b \in 0..(n - 1)
    <3> DEFINE c == b + pos
    <3>1. c \in Int /\ c - pos = b
      OBVIOUS
    <3> HIDE DEF c
    <3>2. c \in Field(v, pos, n) <=> c - pos \in v /\ c \in pos..(pos + n - 1)
      BY <3>1, FieldBits
    <3>3. c \in pos..(pos + n - 1) <=> b \in 0..(n - 1)
      BY DEF c
    <3> QED BY <3>1, <3>2, <3>3 DEF c
  <2> QED BY <2>1, <2>2, <2>3 DEF Low
<1>2. Get(w, pos, n) \subseteq Int /\ Low(v, n) \subseteq Int
  BY DEF Get, Low
<1> QED BY <1>1, <1>2, SameBits

LEMMA LowRegister ==
    ASSUME NEW r, r \subseteq 0..4
    PROVE  Low(r, 5) = r
<1>1. \A b \in Int : b \in Low(r, 5) <=> b \in r
  BY DEF Low
<1>2. Low(r, 5) \subseteq Int /\ r \subseteq Int
  BY DEF Low
<1> QED BY <1>1, <1>2, SameBits

\* The sign of a number that fits, extended, gives it back.
LEMMA ExtFits ==
    ASSUME NEW v \in Word64, NEW n \in 1..63, Fits(v, n)
    PROVE  Ext(v \cap 0..(n - 1), n) = v
<1> DEFINE c == v \cap 0..(n - 1)
<1>0. v \subseteq 0..63
  BY DEF Word64, Bits
<1>1. CASE v \subseteq 0..(n - 2)
  <2>1. \A b \in Int : b \in v <=> b \in c
    BY <1>1
  <2>2. n - 1 \notin c
    BY <1>1
  <2>3. c \subseteq Int /\ v \subseteq Int
    BY <1>0
  <2> HIDE DEF c
  <2>4. v = c
    BY <2>1, <2>3, SameBits
  <2> QED BY <2>2, <2>4 DEF Ext, c
<1>2. CASE (n - 1)..63 \subseteq v
  <2>1. n - 1 \in c
    BY <1>2
  <2>2. \A b \in Int : b \in v <=> b \in c \cup n..63
    BY <1>0, <1>2
  <2> HIDE DEF c
  <2>3. Ext(c, n) = c \cup n..63
    BY <2>1 DEF Ext
  <2>4. c \cup n..63 \subseteq Int /\ v \subseteq Int
    BY <1>0 DEF c
  <2>5. c \cup n..63 = v
    BY <1>0, <2>2, <2>4, SameBits
  <2> QED BY <2>3, <2>5 DEF c
<1> QED BY <1>1, <1>2 DEF Fits

\* Multiples of a power of 2: shifted down, cut to a field, extended and shifted up.
LEMMA ScaledFits ==
    ASSUME NEW v \in Word64, NEW k \in 0..3, NEW n \in 4..24,
           Fits(v, n + k), Multiple(v, k)
    PROVE  Left(Ext(Right(v, k) \cap 0..(n - 1), n), k) = v
<1>1. CASE v \subseteq 0..(n + k - 2)
  <2>1. Right(v, k) \subseteq 0..(n - 2)
    BY <1>1 DEF Right
  <2>2. Ext(Right(v, k) \cap 0..(n - 1), n) = Right(v, k)
    BY <2>1 DEF Ext
  <2>3. Left(Right(v, k), k) = v
    <3>1. \A b \in Bits : b \in Left(Right(v, k), k) <=> b \in v /\ b >= k
      <4> DEFINE r == Right(v, k)
      <4>1. \A b \in Int : b \in r <=> b >= 0 /\ b + k \in v
        BY DEF Right, Word64, Bits
      <4>2. r \subseteq Int
        BY DEF Right, Word64, Bits
      <4> HIDE DEF r
      <4>3. \A b \in Bits : b \in Left(r, k) <=> b - k \in r
        BY <4>2 DEF Left, Bits
      <4> QED BY <4>1, <4>3 DEF Bits, r
    <3>2. \A b \in Bits : b \in v => b >= k
      BY DEF Multiple, Bits
    <3>3. Left(Right(v, k), k) \subseteq Bits
      BY DEF Left
    <3> QED BY <3>1, <3>2, <3>3 DEF Word64
  <2> QED BY <2>2, <2>3
<1>2. CASE (n + k - 1)..63 \subseteq v
  <2> DEFINE r == Right(v, k)
             e == Ext(r \cap 0..(n - 1), n)
  <2>1. \A b \in Int : b \in r <=> b >= 0 /\ b + k \in v
    BY <1>2 DEF Right, Word64, Bits
  <2>2. n - 1 \in r
    BY <1>2, <2>1
  <2> HIDE DEF r
  <2>3. \A b \in Int : b \in e <=> (b \in r /\ b \in 0..(n - 1)) \/ b \in n..63
    BY <2>2 DEF Ext
  <2>4. e \subseteq Int
    BY <2>2 DEF Ext
  <2> HIDE DEF e
  <2>5. \A b \in Bits : b \in Left(e, k) <=> b - k \in e
    BY <2>4 DEF Left, Bits
  <2>6. \A b \in Bits : b \in v <=> b - k \in e
    <3>1. ASSUME NEW b \in Bits, b < k PROVE b \in v <=> b - k \in e
      BY <1>2, <2>1, <2>3, <3>1 DEF Multiple, Bits
    <3>2. ASSUME NEW b \in Bits, b >= k, b - k <= n - 1 PROVE b \in v <=> b - k \in e
      BY <1>2, <2>1, <2>3, <3>2 DEF Bits
    <3>3. ASSUME NEW b \in Bits, b - k > n - 1 PROVE b \in v <=> b - k \in e
      BY <1>2, <2>1, <2>3, <3>3 DEF Bits
    <3> QED BY <3>1, <3>2, <3>3 DEF Bits
  <2>7. Left(e, k) \subseteq Bits
    BY DEF Left
  <2> QED BY <2>5, <2>6, <2>7 DEF Word64, r, e
<1> QED BY <1>1, <1>2 DEF Fits
-----------------------------------------------------------------------------
(* The encodings.                                                           *)

LEMMA PlacedOnce ==
    ASSUME NEW v, NEW from, NEW width, NEW to
    PROVE  Placed(v, {<<from, width, to>>}) = Field(Right(v, from), to, width)
BY DEF Placed

LEMMA PlacedTwice ==
    ASSUME NEW v, NEW from, NEW width, NEW to, NEW from2, NEW width2, NEW to2
    PROVE  Placed(v, {<<from, width, to>>, <<from2, width2, to2>>})
             = Field(Right(v, from), to, width) \cup Field(Right(v, from2), to2, width2)
BY DEF Placed

LEMMA RightNone ==
    ASSUME NEW v, v \subseteq Nat
    PROVE  Right(v, 0) = v
<1>1. \A b \in Int : b \in Right(v, 0) <=> b \in v
  BY DEF Right
<1>2. Right(v, 0) \subseteq Int /\ v \subseteq Int
  BY DEF Right
<1> QED BY <1>1, <1>2, SameBits

LEMMA RightIsNat ==
    ASSUME NEW v \in Word64, NEW k \in Nat
    PROVE  Right(v, k) \subseteq Nat
BY DEF Right, Word64, Bits

\* A register's number in one place.
LEMMA RegisterPlaced ==
    ASSUME NEW r, r \subseteq 0..4, NEW to \in Nat
    PROVE  Placed(r, InRegister({to}).fields) = Field(r, to, 5)
<1>1. InRegister({to}).fields = {<<0, 5, to>>}
  BY DEF InRegister, Operand
<1>2. Right(r, 0) = r
  <2>1. r \subseteq Nat
    OBVIOUS
  <2> QED BY <2>1, RightNone
<1>3. Placed(r, {<<0, 5, to>>}) = Field(Right(r, 0), to, 5)
  BY PlacedOnce
<1> QED BY <1>1, <1>2, <1>3, Zenon

\* What comes before the operands lies in the opcode and the function.
LEMMA FixedBits ==
    ASSUME NEW d, d.form \in {"ls", "br", "im"}, NEW b \in 0..31, b \in Fixed(d)
    PROVE  b \in 28..31 \/ b \in 20..22
<1>1. InstructionSize(d) = 4
  BY DEF InstructionSize
<1>2. b \in Field(Num(d.op), 28, 4) \/ b \in Field(Num(d.fn), 20, 3)
  BY <1>1 DEF Fixed
<1> QED BY <1>2 DEF Field

(* Loads and stores: for every displacement that is a multiple of the datum *)
(* and fits, the machine (LS_DISP, shifted as Storage says) adds what the   *)
(* source gives, and finds the registers where it looks for them.           *)
THEOREM LoadStoreCoding ==
    ASSUME NEW d, d.form = "ls", d.shamt \in 0..3,
           NEW a, a \subseteq 0..4, NEW c, c \subseteq 0..4,
           NEW v \in Word64, Fits(v, 15 + d.shamt), Multiple(v, d.shamt)
    PROVE  LET x == Encoded(d, <<A, C, Number(15, d.shamt, 15, 5)>>, <<a, c, v>>) IN
           /\ <<A, C, Number(15, d.shamt, 15, 5)>> \in Forms(d)
           /\ Get(x, 23, 5) = a /\ Get(x, 0, 5) = c
           /\ Left(LS_DISP(x), d.shamt) = v
<1> DEFINE k == d.shamt
           x == Encoded(d, <<A, C, Number(15, k, 15, 5)>>, <<a, c, v>>)
           r == Right(v, k)
<1>1. x = Fixed(d) \cup Field(a, 23, 5) \cup Field(c, 0, 5) \cup Field(r, 5, 15)
  <2>1. Placed(a, A.fields) = Field(a, 23, 5) /\ Placed(c, C.fields) = Field(c, 0, 5)
    BY RegisterPlaced DEF A, C
  <2>2. Number(15, k, 15, 5).fields = {<<k, 15, 5>>}
    BY DEF Number, Operand
  <2>3. Placed(v, Number(15, k, 15, 5).fields) = Field(r, 5, 15)
    BY <2>2, PlacedOnce
  <2>4. Encoded(d, <<A, C, Number(15, k, 15, 5)>>, <<a, c, v>>)
          = Fixed(d) \cup Placed(a, A.fields) \cup Placed(c, C.fields)
              \cup Placed(v, Number(15, k, 15, 5).fields)
    BY DEF Encoded
  <2> QED BY <2>1, <2>3, <2>4
<1>2. x \subseteq Int
  <2>1. Fixed(d) \subseteq Int
    BY DEF Fixed, Field, InstructionSize
  <2> QED BY <1>1, <2>1 DEF Field
<1>3. r \subseteq Nat /\ k \in Nat
  BY RightIsNat
<1> HIDE DEF x, r
<1>4. ASSUME NEW b \in 0..27 \ 20..22
      PROVE  /\ b \in 23..27 => (b \in x <=> b \in Field(a, 23, 5))
             /\ b \in 0..4   => (b \in x <=> b \in Field(c, 0, 5))
             /\ b \in 5..19  => (b \in x <=> b \in Field(r, 5, 15))
  <2>1. b \notin Fixed(d)
    BY FixedBits
  <2>2. b \in x <=> b \in Field(a, 23, 5) \/ b \in Field(c, 0, 5) \/ b \in Field(r, 5, 15)
    BY <1>1, <2>1
  <2>3. b \in Field(a, 23, 5) => b \in 23..27
    BY DEF Field
  <2>4. b \in Field(c, 0, 5) => b \in 0..4
    BY DEF Field
  <2>5. b \in Field(r, 5, 15) => b \in 5..19
    BY DEF Field
  <2> QED BY <2>2, <2>3, <2>4, <2>5
<1>5. Exclusive(x, a, 23, 5) /\ Exclusive(x, c, 0, 5) /\ Exclusive(x, r, 5, 15)
  BY <1>4 DEF Exclusive
<1>6. Get(x, 23, 5) = Low(a, 5) /\ Get(x, 0, 5) = Low(c, 5) /\ Get(x, 5, 15) = Low(r, 15)
  <2>1. a \subseteq Int /\ c \subseteq Int /\ r \subseteq Int
    BY <1>3
  <2> QED BY <1>2, <1>5, <2>1, FieldRead
<1>7. Left(LS_DISP(x), k) = v
  <2>1. Left(Ext(Low(r, 15), 15), k) = v
    <3> DEFINE n == 15
    <3>1. n \in 4..24 /\ k \in 0..3 /\ Fits(v, n + k) /\ Multiple(v, k)
      OBVIOUS
    <3> HIDE DEF n
    <3>2. Left(Ext(Right(v, k) \cap 0..(n - 1), n), k) = v
      BY <3>1, ScaledFits
    <3> QED BY <3>2 DEF r, n, Low
  <2> QED BY <1>6, <2>1 DEF LS_DISP
<1>8. Low(a, 5) = a /\ Low(c, 5) = c
  BY LowRegister
<1>9. <<A, C, Number(15, k, 15, 5)>> \in Forms(d)
  BY DEF Forms
<1>10. Get(x, 23, 5) = a /\ Get(x, 0, 5) = c /\ Left(LS_DISP(x), k) = v
  BY <1>6, <1>7, <1>8
<1> QED BY <1>9, <1>10, Zenon DEF x

(* Branches: for every distance that is a multiple of 4 and fits, what the  *)
(* machine adds to the program counter (BR_DISP, times 4) is the distance.  *)
THEOREM BranchCoding ==
    ASSUME NEW d, d.form = "br", NEW a, a \subseteq 0..4,
           NEW v \in Word64, Fits(v, 22), Multiple(v, 2)
    PROVE  \E rel :
           LET x == Encoded(d, <<A, rel>>, <<a, v>>) IN
           /\ rel.kind = "rel" /\ <<A, rel>> \in Forms(d)
           /\ Get(x, 23, 5) = a
           /\ Left(BR_DISP(x), 2) = v
<1> DEFINE rel == Operand("rel", 22, {<<2, 20, 0>>})
           x == Encoded(d, <<A, rel>>, <<a, v>>)
           r == Right(v, 2)
<1>1. x = Fixed(d) \cup Field(a, 23, 5) \cup Field(r, 0, 20)
  <2>1. Placed(a, A.fields) = Field(a, 23, 5)
    BY RegisterPlaced DEF A
  <2>2. rel.fields = {<<2, 20, 0>>}
    BY DEF Operand
  <2>3. Placed(v, rel.fields) = Field(r, 0, 20)
    BY <2>2, PlacedOnce
  <2>4. x = Fixed(d) \cup Placed(a, A.fields) \cup Placed(v, rel.fields)
    BY DEF Encoded
  <2> QED BY <2>1, <2>3, <2>4
<1>2. x \subseteq Int
  <2>1. Fixed(d) \subseteq Int
    BY DEF Fixed, Field, InstructionSize
  <2> QED BY <1>1, <2>1 DEF Field
<1>3. r \subseteq Nat
  BY RightIsNat
<1>4. rel.kind = "rel" /\ <<A, rel>> \in Forms(d)
  BY DEF Forms, Operand
<1> HIDE DEF x, r, rel
<1>5. ASSUME NEW b \in 0..27 \ 20..22
      PROVE  /\ b \in 23..27 => (b \in x <=> b \in Field(a, 23, 5))
             /\ b \in 0..19  => (b \in x <=> b \in Field(r, 0, 20))
  <2>1. b \notin Fixed(d)
    BY FixedBits
  <2>2. b \in x <=> b \in Field(a, 23, 5) \/ b \in Field(r, 0, 20)
    BY <1>1, <2>1
  <2>3. b \in Field(a, 23, 5) => b \in 23..27
    BY DEF Field
  <2>4. b \in Field(r, 0, 20) => b \in 0..19
    BY DEF Field
  <2> QED BY <2>2, <2>3, <2>4
<1>6. Exclusive(x, a, 23, 5) /\ Exclusive(x, r, 0, 20)
  BY <1>5 DEF Exclusive
<1>7. Get(x, 23, 5) = a /\ Get(x, 0, 20) = Low(r, 20)
  <2>1. a \subseteq Int /\ r \subseteq Int
    BY <1>3
  <2>2. Get(x, 23, 5) = Low(a, 5) /\ Get(x, 0, 20) = Low(r, 20)
    BY <1>2, <1>6, <2>1, FieldRead
  <2> QED BY <2>2, LowRegister
<1>8. Left(BR_DISP(x), 2) = v
  <2>1. Left(Ext(Low(r, 20), 20), 2) = v
    <3> DEFINE n == 20
               k == 2
    <3>1. n \in 4..24 /\ k \in 0..3 /\ Fits(v, n + k) /\ Multiple(v, k)
      OBVIOUS
    <3> HIDE DEF n, k
    <3>2. Left(Ext(Right(v, k) \cap 0..(n - 1), n), k) = v
      BY <3>1, ScaledFits
    <3> QED BY <3>2 DEF r, n, k, Low
  <2> QED BY <1>7, <2>1 DEF BR_DISP
<1> QED BY <1>4, <1>7, <1>8, Zenon DEF x

LEMMA LongPlaced ==
    ASSUME NEW v
    PROVE  /\ Placed(v, {<<0, 5, 23>>, <<0, 5, 55>>})
                = Field(Right(v, 0), 23, 5) \cup Field(Right(v, 0), 55, 5)
           /\ Placed(v, {<<0, 23, 0>>, <<23, 27, 28>>})
                = Field(Right(v, 0), 0, 23) \cup Field(Right(v, 23), 28, 27)
<1> DEFINE f(x, y, z, p, q, o) ==
               Placed(v, {<<x, y, z>>, <<p, q, o>>}) = Field(Right(v, x), z, y) \cup Field(Right(v, p), o, q)
<1>1. \A x, y, z, p, q, o : f(x, y, z, p, q, o)
  BY PlacedTwice
<1> HIDE DEF f
<1>2. f(0, 5, 23, 0, 5, 55) /\ f(0, 23, 0, 23, 27, 28)
  BY <1>1
<1> QED BY <1>2, Zenon DEF f

\* What is to be found in the two words of a long immediate.
LongCoded(d, long, a, v) ==
    LET x == Encoded(d, <<InRegister({23, 55}), long>>, <<a, v>>)
        first == Get(x, 32, 32)
        second == Get(x, 0, 32)
    IN  /\ first \subseteq 0..31 /\ second \subseteq 0..31
        /\ Get(first, 28, 4) = Low(Num(d.op), 4)
        /\ Get(first, 23, 5) = a /\ Get(second, 23, 5) = a
        /\ Left(IM_IMM(first), 41) \cup Left(LGISL2_IMM(second), 14) = Left(v, 14)

(* Long immediates: whatever the value, what the machine makes of the two   *)
(* words that the assembler writes is the value, shifted by 14, and both    *)
(* words name the register; the first has the operation.                    *)
THEOREM LongImmediateCoding ==
    ASSUME NEW d, d.form = "lgisl", d.op \in Int, Num(d.fn) = {},
           NEW a, a \subseteq 0..4, NEW v \in Word64
    PROVE  \E long : <<InRegister({23, 55}), long>> \in Forms(d) /\ LongCoded(d, long, a, v)
<1> DEFINE reg == InRegister({23, 55})
           long == Operand("num", 50, {<<0, 23, 0>>, <<23, 27, 28>>})
           x == Encoded(d, <<reg, long>>, <<a, v>>)
           first == Get(x, 32, 32)
           second == Get(x, 0, 32)
           r == Right(v, 23)
<1>1. x = Fixed(d) \cup Field(a, 23, 5) \cup Field(a, 55, 5) \cup Field(v, 0, 23) \cup Field(r, 28, 27)
  <2>1. reg.fields = {<<0, 5, 23>>, <<0, 5, 55>>} /\ long.fields = {<<0, 23, 0>>, <<23, 27, 28>>}
    BY DEF InRegister, Operand
  <2>2. Right(a, 0) = a /\ Right(v, 0) = v
    <3>1. a \subseteq Nat /\ v \subseteq Nat
      BY DEF Word64, Bits
    <3> QED BY <3>1, RightNone
  <2>3. Placed(a, reg.fields) = Field(a, 23, 5) \cup Field(a, 55, 5)
    BY <2>1, <2>2, LongPlaced
  <2>4. Placed(v, long.fields) = Field(v, 0, 23) \cup Field(r, 28, 27)
    BY <2>1, <2>2, LongPlaced
  <2>5. x = Fixed(d) \cup Placed(a, reg.fields) \cup Placed(v, long.fields)
    BY DEF Encoded
  <2> QED BY <2>3, <2>4, <2>5
<1>2. <<reg, long>> \in Forms(d)
  BY DEF Forms
<1>3. Fixed(d) \subseteq 60..63
  <2>1. InstructionSize(d) = 8
    BY DEF InstructionSize
  <2>2. Fixed(d) \subseteq Field(Num(d.op), 60, 4)
    BY <2>1 DEF Fixed, Field
  <2> QED BY <2>2 DEF Field
<1>17. Fixed(d) = Field(Num(d.op), 60, 4)
  <2>1. InstructionSize(d) = 8 /\ 8 * 8 - 4 = 60
    BY DEF InstructionSize
  <2>2. Field({}, 20, 3) = {}
    BY DEF Field
  <2> QED BY <2>1, <2>2, Zenon DEF Fixed
<1>4. x \subseteq Int
  BY <1>1, <1>3 DEF Field
<1>5. v \subseteq Int /\ r \subseteq Int
  BY RightIsNat DEF Word64, Bits
<1>6. \A b \in Int : b \in r <=> b >= 0 /\ b + 23 \in v
  BY DEF Right, Word64, Bits
<1> HIDE DEF x, first, second, r, long, reg
<1>7. ASSUME NEW b \in 0..59
      PROVE  /\ b \in 0..22  => (b \in x <=> b \in v)
             /\ b \in 23..27 => (b \in x <=> b - 23 \in a)
             /\ b \in 28..54 => (b \in x <=> b - 5 \in v)
             /\ b \in 55..59 => (b \in x <=> b - 55 \in a)
  <2>1. b \in x <=> \/ b \in Field(a, 23, 5) \/ b \in Field(a, 55, 5)
                    \/ b \in Field(v, 0, 23) \/ b \in Field(r, 28, 27)
    BY <1>1, <1>3
  <2>2. b \in Field(a, 23, 5) <=> b - 23 \in a /\ b \in 23..27
    BY DEF Field
  <2>3. b \in Field(a, 55, 5) <=> b - 55 \in a /\ b \in 55..59
    BY DEF Field
  <2>4. b \in Field(v, 0, 23) <=> b \in v /\ b \in 0..22
    BY <1>5 DEF Field
  <2>5. b \in Field(r, 28, 27) <=> b - 28 \in r /\ b \in 28..54
    BY <1>5 DEF Field
  <2>6. b \in 28..54 => (b - 28 \in r <=> b - 5 \in v)
    BY <1>6
  <2> QED BY <2>1, <2>2, <2>3, <2>4, <2>5, <2>6
<1>21. Num(d.op) \subseteq Int
  <2>1. Num(d.op) \in Word64
    BY HalvesNum
  <2> QED BY <2>1 DEF Word64, Bits
<1>18. ASSUME NEW b \in 60..63 PROVE b \in x <=> b - 60 \in Num(d.op)
  <2>1. b \in x <=> \/ b \in Fixed(d) \/ b \in Field(a, 23, 5) \/ b \in Field(a, 55, 5)
                    \/ b \in Field(v, 0, 23) \/ b \in Field(r, 28, 27)
    BY <1>1
  <2>2. /\ b \notin Field(a, 23, 5) /\ b \notin Field(a, 55, 5)
        /\ b \notin Field(v, 0, 23) /\ b \notin Field(r, 28, 27)
    BY DEF Field
  <2>3. Num(d.op) \subseteq Int
    BY <1>21
  <2>4. b \in Fixed(d) <=> b - 60 \in Num(d.op)
    BY <1>17, <2>3 DEF Field
  <2> QED BY <2>1, <2>2, <2>4
<1>8. \A b \in 0..31 : (b \in first <=> b + 32 \in x) /\ (b \in second <=> b \in x)
  BY <1>4 DEF Get, first, second
<1>9. first \subseteq Int /\ second \subseteq Int
  BY <1>4 DEF Get, first, second
<1>10. Get(first, 23, 5) = a /\ Get(second, 23, 5) = a
  <2>1. ASSUME NEW b \in 23..27
        PROVE  (b \in first <=> b \in Field(a, 23, 5)) /\ (b \in second <=> b \in Field(a, 23, 5))
    <3>1. b \in Field(a, 23, 5) <=> b - 23 \in a
      BY DEF Field
    <3>2. (b + 32 \in x <=> b - 23 \in a) /\ (b \in x <=> b - 23 \in a)
      BY <1>7
    <3> QED BY <1>8, <3>1, <3>2
  <2>2. Exclusive(first, a, 23, 5) /\ Exclusive(second, a, 23, 5)
    BY <2>1 DEF Exclusive
  <2>3. a \subseteq Int
    OBVIOUS
  <2>4. Get(first, 23, 5) = Low(a, 5) /\ Get(second, 23, 5) = Low(a, 5)
    BY <1>9, <2>2, <2>3, FieldRead
  <2> QED BY <2>4, LowRegister
<1>19. first \subseteq 0..31 /\ second \subseteq 0..31
  BY <1>4 DEF Get, first, second
<1>20. Get(first, 28, 4) = Low(Num(d.op), 4)
  <2>1. ASSUME NEW b \in 28..31 PROVE b \in first <=> b \in Field(Num(d.op), 28, 4)
    <3>1. b + 32 \in 60..63 /\ b + 32 - 60 = b - 28
      OBVIOUS
    <3>2. b \in first <=> b - 28 \in Num(d.op)
      BY <1>8, <1>18, <3>1
    <3>3. b \in Field(Num(d.op), 28, 4) <=> b - 28 \in Num(d.op) /\ b \in 28..(28 + 4 - 1)
      BY <1>21, FieldBits
    <3> QED BY <3>2, <3>3
  <2>2. Exclusive(first, Num(d.op), 28, 4)
    BY <2>1 DEF Exclusive
  <2> QED BY <1>9, <1>21, <2>2, FieldRead
<1> DEFINE high == IM_IMM(first)
           low == LGISL2_IMM(second)
<1>11. \A b \in 0..22 : b \in high <=> b + 27 \in v
  <2>1. \A b \in 0..22 : b \in Get(first, 0, 23) <=> b \in first
    BY <1>9 DEF Get
  <2>2. \A b \in 0..22 : b \in high <=> b \in Get(first, 0, 23)
    BY DEF IM_IMM, Ext
  <2>3. \A b \in 0..22 : b \in first <=> b + 27 \in v
    BY <1>7, <1>8
  <2> QED BY <2>1, <2>2, <2>3
<1>12. high \subseteq Nat
  BY DEF IM_IMM, Ext, Get
<1>13. \A b \in Int : b \in low <=> b \in 0..26 /\ b \in v
  <2>1. ASSUME NEW b \in Int
        PROVE  b \in low <=> (b \in 0..22 /\ b \in second) \/ (b + 5 \in 28..31 /\ b + 5 \in second)
    BY <1>9 DEF LGISL2_IMM
  <2>2. ASSUME NEW b \in 0..22 PROVE b \in second <=> b \in v
    BY <1>7, <1>8
  <2>3. ASSUME NEW b \in 23..26 PROVE b + 5 \in second <=> b \in v
    BY <1>7, <1>8
  <2> QED BY <2>1, <2>2, <2>3
<1>14. low \subseteq Int
  BY <1>9 DEF LGISL2_IMM
<1> HIDE DEF high, low
<1>15. ASSUME NEW b \in Bits
       PROVE  b \in Left(high, 41) \cup Left(low, 14) <=> b \in Left(v, 14)
  <2>1. (b \in Left(high, 41) <=> b - 41 \in high) /\ (b \in Left(low, 14) <=> b - 14 \in low)
    BY <1>12, <1>14 DEF Left, Bits
  <2>2. b \in Left(v, 14) <=> b - 14 \in v
    BY <1>5 DEF Left, Bits
  <2>3. b - 14 \in low <=> b - 14 \in 0..26 /\ b - 14 \in v
    BY <1>13 DEF Bits
  <2>4. b - 41 \in high <=> b \in 41..63 /\ b - 14 \in v
    BY <1>11, <1>12 DEF Bits
  <2>5. b - 14 \in v => b >= 14
    BY DEF Word64, Bits
  <2> QED BY <2>1, <2>2, <2>3, <2>4, <2>5 DEF Bits
<1>16. Left(high, 41) \cup Left(low, 14) = Left(v, 14)
  <2>1. Left(high, 41) \subseteq Bits /\ Left(low, 14) \subseteq Bits /\ Left(v, 14) \subseteq Bits
    BY DEF Left
  <2> QED BY <1>15, <2>1
<1>22. LongCoded(d, long, a, v)
  BY <1>10, <1>16, <1>19, <1>20, Zenon DEF x, first, second, high, low, reg, LongCoded
<1> QED BY <1>2, <1>22, Zenon DEF reg
-----------------------------------------------------------------------------
(* The two passes of the assembler come to the same places.                 *)

\* g has what f has, and maybe more: labels are added, never changed.
Extends(f, g) == DOMAIN f \subseteq DOMAIN g /\ \A x \in DOMAIN f : g[x] = f[x]

\* A pass that comes to a statement at p with no error pending leaves it at q: the
\* second pass will, with these labels or more.  A directive that sizes something
\* must know its label for that; one without a value stops that pass.
Passed(s, p, q, ls) ==
    IF "label" \in DOMAIN s THEN q = p
    ELSE LET r == Assemble(s, p, "none", ls) IN
         IF s.op \in Sizing
           THEN /\ r.err = "none" => r.pc = q
                /\ IsLabel(Last(s.args)) => r.err = "none"
           ELSE r.pc = q

\* The labels that the first pass came to are registered where it did.
Registered ==
    \A j \in 1..Len(firsts) :
        "label" \in DOMAIN src[j] => /\ src[j].label \in DOMAIN labels
                                     /\ labels[src[j].label] = firsts[j]

FirstInv ==
    /\ err \in {"none", "unresolved"}
    /\ Len(firsts) = at - 1
    /\ (IF at = 1 THEN pc ELSE firsts[1]) = START
    /\ \A j \in 1..(at - 1) :
         Passed(src[j], firsts[j], IF j = at - 1 THEN pc ELSE firsts[j + 1], labels)
    /\ Registered

SecondInv ==
    /\ err = "none"
    /\ Len(firsts) = Len(src)
    /\ Len(src) > 0 => firsts[1] = START
    /\ \A j \in 1..(Len(src) - 1) : Passed(src[j], firsts[j], firsts[j + 1], labels)
    /\ Registered
    /\ at <= Len(src) => pc = firsts[at]

IsList(s) == s \in Seq({s[i] : i \in 1..Len(s)})

\* The inductive invariant behind LabelsAgree: the statements so far, and where the
\* first pass found them.
PassInv ==
    /\ src \in Sources
    /\ at \in 1..(Len(src) + 1)
    /\ IsList(firsts)
    /\ ~misled /\ phase = "first" => FirstInv
    /\ ~misled /\ phase = "second" => SecondInv

\* The kinds of directives that size something, and what is none of them.
LEMMA SizingKinds ==
    ASSUME NEW op \in Sizing
    PROVE  op \notin DOMAIN Opcodes /\ op \notin DOMAIN Data /\ op # "define"
BY DEF Sizing, Opcodes, Data, I, LsRow, LssRow

LEMMA ExtendsItself ==
    ASSUME NEW f
    PROVE  Extends(f, f)
BY DEF Extends

LEMMA ExtendsMore ==
    ASSUME NEW f, NEW x, NEW y, x \notin DOMAIN f
    PROVE  /\ Extends(f, Labelled(f, x, y))
           /\ x \in DOMAIN Labelled(f, x, y) /\ Labelled(f, x, y)[x] = y
BY DEF Extends, Labelled

\* A statement adds labels or leaves them.
LEMMA LabelsGrow ==
    ASSUME NEW s, NEW p, NEW e, NEW ls
    PROVE  Extends(ls, Assemble(s, p, e, ls).labels)
<1> DEFINE r == Assemble(s, p, e, ls)
<1>1. Extends(ls, ls)
  BY ExtendsItself
<1>2. Extends(ls, Define(s.args, p, e, ls).labels)
  <2> DEFINE x == s.args[1].name
             v == Value(s.args, ls)
  <2>1. x \notin DOMAIN ls => Extends(ls, Labelled(ls, x, v))
    BY ExtendsMore
  <2> QED BY <1>1, <2>1 DEF Define, Result
<1>3. r = Define(s.args, p, e, ls) \/ r.labels = ls
  BY DEF Assemble, Instruction, DataItem, Align, Zero, Origin, Text, Result
<1> QED BY <1>1, <1>2, <1>3

\* What moves pc elsewhere than by a directive that sizes is the statement alone.
LEMMA PcAlone ==
    ASSUME NEW s, NEW p, NEW e, NEW ls, NEW f, NEW ms, s.op \notin Sizing
    PROVE  Assemble(s, p, e, ls).pc = Assemble(s, p, f, ms).pc
BY DEF Sizing, Assemble, Instruction, DataItem, Define, Text, Result

\* The value of the last operand, for a label by more labels than it needs.
LEMMA ValueKept ==
    ASSUME NEW args, NEW ls, NEW ms, Extends(ls, ms)
    PROVE  /\ IsNum(Last(args)) =>
                /\ WithValue(args, 1, 64, ms, "none") = WithValue(args, 1, 64, ls, "none")
                /\ Value(args, ms) = Value(args, ls)
           /\ WithValue(args, 1, 64, ls, "none") = "none" =>
                /\ WithValue(args, 1, 64, ms, "none") = "none"
                /\ Value(args, ms) = Value(args, ls)
           /\ ~IsNum(Last(args)) /\ ~IsLabel(Last(args)) =>
                WithValue(args, 1, 64, ms, "none") # "none"
<1> DEFINE x == Last(args)
           o == Operand("num", 64, {})
<1>1. o.kind = "num" /\ o.bits = 64
  BY DEF Operand
<1> HIDE DEF o, x
<1>2. IsNum(x) => ErrorAfter(o, x, ms, "none") = ErrorAfter(o, x, ls, "none")
                  /\ ValueOf(o, x, ms, {}) = ValueOf(o, x, ls, {})
  BY DEF ErrorAfter, ValueOf
<1>3. ASSUME ~IsNum(x)
      PROVE  /\ \A ns : ErrorAfter(o, x, ns, "none") = LabelError(x, ns, "none")
             /\ \A ns : ValueOf(o, x, ns, {}) = LabelValue(x, ns)
  BY <1>1, <1>3 DEF ErrorAfter, ValueOf
<1>4. ASSUME LabelError(x, ls, "none") = "none"
      PROVE  LabelError(x, ms, "none") = "none" /\ LabelValue(x, ms) = LabelValue(x, ls)
  <2>1. IsLabel(x) /\ x.name \in DOMAIN ls /\ x.part \in {"", "gh", "gl", "h", "l"} \cup DOMAIN ls
    BY <1>4 DEF LabelError
  <2>2. x.name \in DOMAIN ms /\ ms[x.name] = ls[x.name]
    BY <2>1 DEF Extends
  <2>3. x.part \in DOMAIN ls => x.part \in DOMAIN ms /\ ms[x.part] = ls[x.part]
    BY DEF Extends
  <2>4. LabelError(x, ms, "none") = "none"
    BY <2>1, <2>2, <2>3 DEF LabelError
  <2>5. CASE x.part \in {"", "gh", "gl", "h", "l"}
    BY <2>2, <2>4, <2>5 DEF LabelValue
  <2>6. CASE x.part \notin {"", "gh", "gl", "h", "l"}
    BY <2>1, <2>2, <2>3, <2>4, <2>6 DEF LabelValue
  <2> QED BY <2>5, <2>6
<1>5. ~IsLabel(x) => LabelError(x, ms, "none") # "none"
  BY DEF LabelError
<1> USE DEF o, x
<1> QED BY <1>2, <1>3, <1>4, <1>5, Zenon DEF WithValue, Value

\* A directive that sizes something, by the error and the value of its operand.
LEMMA Sized ==
    ASSUME NEW s, NEW p, NEW e, NEW ls, NEW f, NEW ms, s.op \in Sizing,
           WithValue(s.args, 1, 64, ls, e) = WithValue(s.args, 1, 64, ms, f),
           Value(s.args, ls) = Value(s.args, ms)
    PROVE  /\ Assemble(s, p, e, ls).pc = Assemble(s, p, f, ms).pc
           /\ Assemble(s, p, e, ls).err = Assemble(s, p, f, ms).err
<1>1. s.op \notin DOMAIN Opcodes /\ s.op \notin DOMAIN Data /\ s.op # "define"
  BY SizingKinds
<1> QED BY <1>1 DEF Sizing, Assemble, Align, Zero, Origin, Result

\* It fails if its operand does, and leaves the labels.
LEMMA SizedError ==
    ASSUME NEW s, NEW p, NEW e, NEW ls, s.op \in Sizing
    PROVE  /\ WithValue(s.args, 1, 64, ls, e) # "none"
                => Assemble(s, p, e, ls).err = WithValue(s.args, 1, 64, ls, e)
           /\ Assemble(s, p, e, ls).err \in {"none", "syntax", WithValue(s.args, 1, 64, ls, e)}
           /\ Assemble(s, p, e, ls).labels = ls
<1>1. s.op \notin DOMAIN Opcodes /\ s.op \notin DOMAIN Data /\ s.op # "define"
  BY SizingKinds
<1> QED BY <1>1 DEF Sizing, Assemble, Align, Zero, Origin, Result

\* What the first pass went over stays so, with more labels.
LEMMA PassedKept ==
    ASSUME NEW s, NEW p, NEW q, NEW ls, NEW ms, Extends(ls, ms), Passed(s, p, q, ls)
    PROVE  Passed(s, p, q, ms)
<1>1. CASE "label" \in DOMAIN s
  BY <1>1 DEF Passed
<1>2. CASE "label" \notin DOMAIN s /\ s.op \notin Sizing
  BY <1>2, PcAlone DEF Passed
<1>3. CASE "label" \notin DOMAIN s /\ s.op \in Sizing
  <2> DEFINE r == Assemble(s, p, "none", ls)
             t == Assemble(s, p, "none", ms)
  <2>1. /\ r.err = "none" => r.pc = q
        /\ IsLabel(Last(s.args)) => r.err = "none"
    BY <1>3 DEF Passed
  <2>2. SUFFICES /\ t.err = "none" => t.pc = q
                 /\ IsLabel(Last(s.args)) => t.err = "none"
    BY <1>3 DEF Passed
  <2>3. CASE IsNum(Last(s.args)) \/ r.err = "none"
    <3>1. r.err = "none" => WithValue(s.args, 1, 64, ls, "none") = "none"
      BY <1>3, SizedError
    <3>2. /\ WithValue(s.args, 1, 64, ls, "none") = WithValue(s.args, 1, 64, ms, "none")
          /\ Value(s.args, ls) = Value(s.args, ms)
      BY <2>3, <3>1, ValueKept
    <3>3. r.pc = t.pc /\ r.err = t.err
      BY <1>3, <3>2, Sized
    <3> QED BY <2>1, <3>3
  <2>4. CASE ~IsNum(Last(s.args)) /\ r.err # "none"
    <3>1. ~IsLabel(Last(s.args))
      BY <2>1, <2>4
    <3>2. WithValue(s.args, 1, 64, ms, "none") # "none"
      BY <2>4, <3>1, ValueKept
    <3>3. t.err # "none"
      BY <1>3, <3>2, SizedError
    <3> QED BY <3>1, <3>3
  <2> QED BY <2>3, <2>4
<1> QED BY <1>1, <1>2, <1>3

\* The first pass, with an error pending, leaves pc where the second will.
LEMMA PassedOver ==
    ASSUME NEW s, NEW p, NEW e \in {"none", "unresolved"}, NEW ls, "label" \notin DOMAIN s,
           Assemble(s, p, e, ls).err # "syntax",
           ~(/\ s.op \in Sizing /\ Assemble(s, p, e, ls).err = "unresolved"
             /\ IsLabel(Last(s.args)))
    PROVE  Passed(s, p, Assemble(s, p, e, ls).pc, ls)
<1> DEFINE r == Assemble(s, p, e, ls)
           t == Assemble(s, p, "none", ls)
           x == Last(s.args)
<1>1. CASE s.op \notin Sizing
  <2>1. r.pc = t.pc
    BY <1>1, PcAlone
  <2> QED BY <1>1, <2>1 DEF Passed
<1>2. CASE s.op \in Sizing
  <2>1. SUFFICES /\ t.err = "none" => t.pc = r.pc
                 /\ IsLabel(x) => t.err = "none"
    BY <1>2 DEF Passed
  <2>2. WithValue(s.args, 1, 64, ls, e) \in {"none", "syntax", e, "unresolved"}
    BY DEF WithValue, ErrorAfter, LabelError, Operand
  <2>3. r.err \in {"none", "unresolved"}
    BY <1>2, <2>2, SizedError
  <2>4. CASE r.err = "none"
    <3>1. WithValue(s.args, 1, 64, ls, e) = "none"
      BY <1>2, <2>4, SizedError
    <3>2. WithValue(s.args, 1, 64, ls, "none") = "none"
      BY <3>1 DEF WithValue, ErrorAfter, LabelError, Operand
    <3>3. r.pc = t.pc /\ r.err = t.err
      BY <1>2, <3>1, <3>2, Sized
    <3> QED BY <2>4, <3>3
  <2>5. CASE r.err = "unresolved"
    <3>1. ~IsLabel(x)
      BY <1>2, <2>5
    <3>2. WithValue(s.args, 1, 64, ls, e) # "none"
      BY <1>2, <2>5, SizedError
    <3>3. ~IsNum(x)
      <4>1. WithValue(s.args, 1, 64, ls, e) = "unresolved"
        BY <1>2, <2>5, <3>2, SizedError
      <4> QED BY <4>1 DEF WithValue, ErrorAfter
    <3>4. WithValue(s.args, 1, 64, ls, "none") # "none"
      BY <3>1, <3>3, ValueKept, ExtendsItself
    <3>5. t.err # "none"
      BY <1>2, <3>4, SizedError
    <3> QED BY <3>1, <3>5
  <2> QED BY <2>3, <2>4, <2>5
<1> QED BY <1>1, <1>2
-----------------------------------------------------------------------------
LEMMA PassInit ==
    ASSUME ToolchainInit
    PROVE  PassInv
<1>1. /\ src \in Sources /\ phase = "first" /\ at = 1 /\ pc = START /\ err = "none"
      /\ firsts = <<>>
  BY DEF ToolchainInit, AsmInit
<1>2. Len(src) \in Nat
  BY <1>1, SourcesAssumption DEF IsFile
<1>3. IsList(firsts) /\ Len(firsts) = 0
  BY <1>1, EmptySeq DEF IsList
<1> QED BY <1>1, <1>2, <1>3 DEF PassInv, FirstInv, Registered

\* A list with an element more.
LEMMA ListGrows ==
    ASSUME NEW f, NEW q, IsList(f)
    PROVE  /\ IsList(Append(f, q))
           /\ Len(f) \in Nat /\ Len(Append(f, q)) = Len(f) + 1
           /\ \A i \in 1..Len(f) : Append(f, q)[i] = f[i]
           /\ Append(f, q)[Len(f) + 1] = q
<1> DEFINE S == {f[i] : i \in 1..Len(f)}
           T == S \cup {q}
           g == Append(f, q)
<1>1. f \in Seq(T)
  BY SeqMonotonic DEF IsList
<1>2. /\ g \in Seq(T) /\ Len(f) \in Nat /\ Len(g) = Len(f) + 1
      /\ \A i \in 1..Len(f) : g[i] = f[i]
      /\ g[Len(f) + 1] = q
  BY <1>1
<1>3. T \subseteq {g[i] : i \in 1..Len(g)}
  BY <1>2
<1> HIDE DEF T
<1>4. g \in Seq({g[i] : i \in 1..Len(g)})
  BY <1>2, <1>3, SeqMonotonic, Zenon
<1>5. IsList(g)
  BY <1>4 DEF IsList
<1> QED BY <1>2, <1>5

LEMMA PassRegister ==
    ASSUME PassInv, RegisterLabel
    PROVE  PassInv'
<1> DEFINE x == src[at].label
<1>1. /\ phase = "first" /\ at <= Len(src) /\ "label" \in DOMAIN src[at]
      /\ src' = src /\ phase' = phase /\ pc' = pc /\ err' = err /\ firsts' = Append(firsts, pc)
  BY DEF RegisterLabel, More, IsLabelHere
<1>2. src \in Sources /\ Len(src) \in Nat /\ at \in 1..(Len(src) + 1)
  BY SourcesAssumption DEF PassInv, IsFile
<1>3. /\ IsList(firsts')
      /\ Len(firsts) \in Nat /\ Len(firsts') = Len(firsts) + 1
      /\ \A i \in 1..Len(firsts) : firsts'[i] = firsts[i]
      /\ firsts'[Len(firsts) + 1] = pc
  BY <1>1, ListGrows DEF PassInv
<1>4. CASE x \in DOMAIN labels
  <2>1. at' = Len(src) + 1 /\ misled' = TRUE
    BY <1>4 DEF RegisterLabel
  <2> QED BY <1>1, <1>2, <1>3, <2>1 DEF PassInv
<1>5. CASE x \notin DOMAIN labels /\ ~misled
  <2>1. at' = at + 1 /\ labels' = Labelled(labels, x, pc)
    BY <1>5 DEF RegisterLabel
  <2>2. Extends(labels, labels') /\ x \in DOMAIN labels' /\ labels'[x] = pc
    BY <1>5, <2>1, ExtendsMore
  <2>3. /\ err \in {"none", "unresolved"} /\ Len(firsts) = at - 1
        /\ (IF at = 1 THEN pc ELSE firsts[1]) = START
        /\ \A j \in 1..(at - 1) :
             Passed(src[j], firsts[j], IF j = at - 1 THEN pc ELSE firsts[j + 1], labels)
        /\ Registered
    BY <1>1, <1>5 DEF PassInv, FirstInv
  <2>4. firsts'[1] = START
    BY <1>2, <1>3, <2>3
  <2>5. ASSUME NEW j \in 1..at
        PROVE  Passed(src[j], firsts'[j], IF j = at THEN pc ELSE firsts'[j + 1], labels')
    <3>1. CASE j = at
      BY <1>1, <1>2, <1>3, <2>3, <3>1 DEF Passed
    <3>2. CASE j # at
      <4>1. Passed(src[j], firsts[j], IF j = at - 1 THEN pc ELSE firsts[j + 1], labels)
        BY <1>2, <2>3, <3>2
      <4>2. firsts'[j] = firsts[j]
            /\ firsts'[j + 1] = IF j = at - 1 THEN pc ELSE firsts[j + 1]
        BY <1>2, <1>3, <2>3, <3>2
      <4> QED BY <2>2, <3>2, <4>1, <4>2, PassedKept
    <3> QED BY <3>1, <3>2
  <2>6. Registered'
    <3> SUFFICES ASSUME NEW j \in 1..Len(firsts'), "label" \in DOMAIN src[j]
                 PROVE  src[j].label \in DOMAIN labels' /\ labels'[src[j].label] = firsts'[j]
      BY <1>1 DEF Registered
    <3>1. CASE j = at
      BY <1>2, <1>3, <2>2, <2>3, <3>1
    <3>2. CASE j # at
      BY <1>2, <1>3, <2>2, <2>3, <3>2 DEF Registered, Extends
    <3> QED BY <3>1, <3>2
  <2>7. FirstInv'
    BY <1>1, <1>2, <1>3, <2>1, <2>3, <2>4, <2>5, <2>6 DEF FirstInv
  <2> QED BY <1>1, <1>2, <1>3, <2>1, <2>7 DEF PassInv
<1>6. CASE x \notin DOMAIN labels /\ misled
  <2>1. at' = at + 1 /\ misled' = misled
    BY <1>6 DEF RegisterLabel
  <2> QED BY <1>1, <1>2, <1>3, <1>6, <2>1 DEF PassInv
<1> QED BY <1>4, <1>5, <1>6

\* The errors that statements leave.
LEMMA ErrorKinds ==
    ASSUME NEW s, NEW p, NEW e \in {"none", "unresolved"}, NEW ls
    PROVE  Assemble(s, p, e, ls).err \in {"none", "unresolved", "syntax"}
<1> DEFINE Errors == {"none", "unresolved", "syntax"}
<1>1. \A o, x : ErrorAfter(o, x, ls, e) \in Errors /\ ErrorAfter(o, x, ls, "none") \in Errors
  BY DEF ErrorAfter, LabelError
<1>2. ASSUME NEW n, NEW b PROVE WithValue(s.args, n, b, ls, e) \in Errors
  BY <1>1 DEF WithValue
<1>3. ASSUME NEW os, NEW xs, \E n \in Nat : Len(os) = n
      PROVE  Evaluated(os, xs, ls, e) \in Errors
  BY <1>1, <1>3 DEF Evaluated
<1> QED BY <1>1, <1>2, <1>3 DEF Assemble, Instruction, DataItem, Define, Align, Zero, Origin, Text, Result

LEMMA PassFirst ==
    ASSUME PassInv, FirstPass
    PROVE  PassInv'
<1> DEFINE r == Assemble(src[at], pc, err, labels)
<1>1. /\ phase = "first" /\ at <= Len(src) /\ "label" \notin DOMAIN src[at]
      /\ src' = src /\ pc' = r.pc /\ err' = r.err /\ labels' = r.labels
      /\ phase' = (IF r.err = "syntax" THEN "failed" ELSE "first")
      /\ misled' = (misled \/ (/\ src[at].op \in Sizing /\ r.err = "unresolved"
                               /\ IsLabel(Last(src[at].args))))
      /\ at' = at + 1 /\ firsts' = Append(firsts, pc)
  BY DEF FirstPass, More, IsLabelHere
<1> HIDE DEF r
<1>2. src \in Sources /\ Len(src) \in Nat /\ at \in 1..(Len(src) + 1)
  BY SourcesAssumption DEF PassInv, IsFile
<1>3. /\ IsList(firsts')
      /\ Len(firsts) \in Nat /\ Len(firsts') = Len(firsts) + 1
      /\ \A i \in 1..Len(firsts) : firsts'[i] = firsts[i]
      /\ firsts'[Len(firsts) + 1] = pc
  BY <1>1, ListGrows DEF PassInv
<1>4. ASSUME ~misled', phase' = "first"
      PROVE  FirstInv'
  <2>1. /\ ~misled /\ r.err # "syntax"
        /\ ~(/\ src[at].op \in Sizing /\ r.err = "unresolved" /\ IsLabel(Last(src[at].args)))
    BY <1>1, <1>4
  <2>2. /\ err \in {"none", "unresolved"} /\ Len(firsts) = at - 1
        /\ (IF at = 1 THEN pc ELSE firsts[1]) = START
        /\ \A j \in 1..(at - 1) :
             Passed(src[j], firsts[j], IF j = at - 1 THEN pc ELSE firsts[j + 1], labels)
        /\ Registered
    BY <1>1, <2>1 DEF PassInv, FirstInv
  <2>3. Passed(src[at], pc, r.pc, labels)
    BY <1>1, <2>1, <2>2, PassedOver DEF r
  <2>4. Extends(labels, labels')
    BY <1>1, LabelsGrow DEF r
  <2>5. err' \in {"none", "unresolved"}
    BY <1>1, <2>1, <2>2, ErrorKinds DEF r
  <2>6. firsts'[1] = START
    BY <1>2, <1>3, <2>2
  <2>7. ASSUME NEW j \in 1..at
        PROVE  Passed(src[j], firsts'[j], IF j = at THEN pc' ELSE firsts'[j + 1], labels')
    <3>1. CASE j = at
      <4>1. firsts'[j] = pc
        BY <1>2, <1>3, <2>2, <3>1
      <4> QED BY <1>1, <2>3, <2>4, <3>1, <4>1, PassedKept
    <3>2. CASE j # at
      <4>1. Passed(src[j], firsts[j], IF j = at - 1 THEN pc ELSE firsts[j + 1], labels)
        BY <1>2, <2>2, <3>2
      <4>2. firsts'[j] = firsts[j]
            /\ firsts'[j + 1] = IF j = at - 1 THEN pc ELSE firsts[j + 1]
        BY <1>2, <1>3, <2>2, <3>2
      <4> QED BY <2>4, <3>2, <4>1, <4>2, PassedKept
    <3> QED BY <3>1, <3>2
  <2>8. Registered'
    <3> SUFFICES ASSUME NEW j \in 1..Len(firsts'), "label" \in DOMAIN src[j]
                 PROVE  src[j].label \in DOMAIN labels' /\ labels'[src[j].label] = firsts'[j]
      BY <1>1 DEF Registered
    <3>1. j # at /\ j \in 1..Len(firsts)
      BY <1>1, <1>2, <1>3, <2>2
    <3> QED BY <1>3, <2>2, <2>4, <3>1 DEF Registered, Extends
  <2> QED BY <1>1, <1>2, <1>3, <2>2, <2>5, <2>6, <2>7, <2>8 DEF FirstInv
<1>5. phase' # "second"
  BY <1>1
<1> QED BY <1>1, <1>2, <1>3, <1>4, <1>5 DEF PassInv

LEMMA PassSecond ==
    ASSUME PassInv, SecondPass
    PROVE  PassInv'
<1> DEFINE r == Assemble(src[at], pc, err, labels)
<1>1. /\ phase = "second" /\ at <= Len(src) /\ "label" \notin DOMAIN src[at]
      /\ src' = src /\ pc' = r.pc /\ err' = r.err /\ labels' = r.labels
      /\ phase' = (IF r.err = "none" THEN "second" ELSE "written")
      /\ at' = at + 1 /\ misled' = misled /\ firsts' = firsts
  BY DEF SecondPass, More, IsLabelHere
<1> HIDE DEF r
<1>2. src \in Sources /\ Len(src) \in Nat /\ at \in 1..(Len(src) + 1)
  BY SourcesAssumption DEF PassInv, IsFile
<1>3. ASSUME ~misled', phase' = "second"
      PROVE  SecondInv'
  <2>1. /\ err = "none" /\ Len(firsts) = Len(src)
        /\ Len(src) > 0 => firsts[1] = START
        /\ \A j \in 1..(Len(src) - 1) : Passed(src[j], firsts[j], firsts[j + 1], labels)
        /\ Registered /\ pc = firsts[at]
    BY <1>1, <1>3 DEF PassInv, SecondInv
  <2>2. r.err = "none"
    BY <1>1, <1>3
  <2>3. Extends(labels, labels')
    BY <1>1, LabelsGrow DEF r
  <2>4. ASSUME NEW j \in 1..(Len(src) - 1)
        PROVE  Passed(src[j], firsts[j], firsts[j + 1], labels')
    BY <2>1, <2>3, PassedKept
  <2>5. ASSUME at + 1 <= Len(src) PROVE r.pc = firsts[at + 1]
    <3>1. Passed(src[at], pc, firsts[at + 1], labels)
      BY <1>2, <2>1, <2>5
    <3> QED BY <1>1, <2>1, <2>2, <3>1 DEF Passed, r
  <2>6. Registered'
    BY <1>1, <2>1, <2>3 DEF Registered, Extends
  <2> QED BY <1>1, <2>1, <2>2, <2>4, <2>5, <2>6 DEF SecondInv
<1>4. phase' # "first"
  BY <1>1
<1> QED BY <1>1, <1>2, <1>3, <1>4 DEF PassInv

LEMMA PassRest ==
    ASSUME PassInv, Rewind \/ SkipLabel \/ Close \/ UNCHANGED asmVars
    PROVE  PassInv'
<1>1. src \in Sources /\ Len(src) \in Nat /\ at \in 1..(Len(src) + 1)
  BY SourcesAssumption DEF PassInv, IsFile
<1>2. CASE Rewind
  <2>1. /\ phase = "first" /\ at > Len(src) /\ phase' = "second" /\ at' = 1
        /\ pc' = START /\ err' = "none"
        /\ UNCHANGED <<src, labels, misled, firsts>>
    BY <1>2 DEF Rewind
  <2>2. ASSUME ~misled
        PROVE  SecondInv'
    <3>1. FirstInv /\ at = Len(src) + 1
      BY <1>1, <2>1, <2>2 DEF PassInv
    <3>2. Len(firsts) = Len(src) /\ Registered'
      BY <1>1, <2>1, <3>1 DEF FirstInv, Registered
    <3>3. Len(src) > 0 => firsts[1] = START
      BY <1>1, <3>1 DEF FirstInv
    <3>4. ASSUME NEW j \in 1..(Len(src) - 1)
          PROVE  Passed(src[j], firsts[j], firsts[j + 1], labels)
      BY <1>1, <3>1 DEF FirstInv
    <3> QED BY <1>1, <2>1, <3>2, <3>3, <3>4 DEF SecondInv
  <2> QED BY <1>1, <2>1, <2>2 DEF PassInv
<1>3. CASE SkipLabel
  <2>1. /\ phase = "second" /\ at <= Len(src) /\ "label" \in DOMAIN src[at]
        /\ at' = at + 1 /\ UNCHANGED <<src, phase, pc, err, labels, misled, firsts>>
    BY <1>3 DEF SkipLabel, More, IsLabelHere
  <2>2. ASSUME ~misled
        PROVE  SecondInv'
    <3>1. SecondInv
      BY <2>1, <2>2 DEF PassInv
    <3>2. at + 1 <= Len(src) => Passed(src[at], firsts[at], firsts[at + 1], labels)
      BY <1>1, <3>1 DEF SecondInv
    <3>3. at + 1 <= Len(src) => pc = firsts[at + 1]
      BY <2>1, <3>1, <3>2 DEF SecondInv, Passed
    <3> QED BY <1>1, <2>1, <3>1, <3>3 DEF SecondInv, Registered
  <2> QED BY <1>1, <2>1, <2>2 DEF PassInv
<1>4. CASE Close
  BY <1>4 DEF Close, PassInv
<1>5. CASE UNCHANGED asmVars
  BY <1>5 DEF asmVars, PassInv, FirstInv, SecondInv, Registered
<1> QED BY <1>2, <1>3, <1>4, <1>5

\* The emulator leaves the assembler alone.
LEMMA EitherRuns ==
    ASSUME [ToolchainNext]_vars
    PROVE  AsmNext \/ UNCHANGED asmVars
<1>1. Load \/ Step => UNCHANGED asmVars
  <2>1. UNCHANGED <<asmVars, steps, begun>> => UNCHANGED asmVars
    OBVIOUS
  <2>2. Load => UNCHANGED <<asmVars, steps, begun>>
    BY DEF Load
  <2>3. Step => UNCHANGED asmVars
    BY DEF Step
  <2> QED BY <2>1, <2>2, <2>3
<1> QED BY <1>1, Zenon DEF ToolchainNext, Assembling, vars

LEMMA PassStep ==
    ASSUME PassInv, [ToolchainNext]_vars
    PROVE  PassInv'
BY EitherRuns, PassRegister, PassFirst, PassSecond, PassRest DEF AsmNext

\* Every label stands in the second pass where the first pass registered it, in any
\* source file, as far as the first pass was not misled (asm/asminst.c: label_cmd and the
\* two passes of main; asm/asmlabel.c: register_label): the second pass comes to each
\* statement with the pc that the first had there, though the first one had errors
\* pending and labels missing.
THEOREM LabelsStand == ToolchainSpec => []LabelsAgree
<1>1. PassInv => LabelsAgree
  <2> SUFFICES ASSUME PassInv, phase = "second", at <= Len(src),
                      "label" \in DOMAIN src[at], ~misled
               PROVE  src[at].label \in DOMAIN labels /\ labels[src[at].label] = pc
    BY DEF LabelsAgree, More, IsLabelHere
  <2>1. SecondInv /\ at \in 1..Len(src)
    BY SourcesAssumption DEF PassInv, IsFile
  <2> QED BY <2>1 DEF SecondInv, Registered
<1> QED BY <1>1, PassInit, PassStep, PTL DEF ToolchainSpec
-----------------------------------------------------------------------------
(* What is written, and where it gets to.                                   *)

IsArgs(args) == Len(args) \in Nat /\ \A i \in 1..Len(args) : IsOperand(args[i])
HasOp(s, ops) == "op" \in DOMAIN s /\ s.op \in ops
AreWords(ls) == \A x \in DOMAIN ls : ls[x] \in Word64

LEMMA WordParts ==
    ASSUME NEW v \in Word64, NEW k \in Nat, NEW S
    PROVE  Right(v, k) \in Word64 /\ v \cap S \in Word64 /\ v \ S \in Word64
<1>1. v \subseteq 0..63
  BY DEF Word64, Bits
<1>2. Right(v, k) \subseteq 0..63
  BY <1>1 DEF Right
<1>3. v \cap S \subseteq 0..63 /\ v \ S \subseteq 0..63
  BY <1>1
<1> QED BY <1>2, <1>3 DEF Word64, Bits

LEMMA LabelWord ==
    ASSUME NEW x, NEW ls, AreWords(ls), NEW e, LabelError(x, ls, e) = "none"
    PROVE  LabelValue(x, ls) \in Word64
<1>1. x.name \in DOMAIN ls /\ x.part \in {"", "gh", "gl", "h", "l"} \cup DOMAIN ls
  BY DEF LabelError
<1>2. ls[x.name] \in Word64
  BY <1>1 DEF AreWords
<1>3. x.part \in DOMAIN ls => Minus(ls[x.name], ls[x.part]) \in Word64
  BY PlusWord DEF Minus
<1>4. Right(ls[x.name], 14) \in Word64 /\ Right(ls[x.name], 9) \in Word64
  BY <1>2, WordParts
<1>5. ls[x.name] \cap 0..13 \in Word64 /\ ls[x.name] \cap 0..8 \in Word64
  BY <1>2, WordParts
<1> QED BY <1>1, <1>2, <1>3, <1>4, <1>5 DEF LabelValue

\* The value of a directive is a word, if it has one.
LEMMA ValueWord ==
    ASSUME NEW args, IsArgs(args), NEW ls, AreWords(ls), NEW n \in {1, 2}, NEW bits, NEW e,
           WithValue(args, n, bits, ls, e) = "none"
    PROVE  Value(args, ls) \in Word64
<1> DEFINE x == Last(args)
           o == Operand("num", bits, {})
<1>1. ErrorAfter(o, x, ls, e) = "none" /\ Len(args) = n
  BY DEF WithValue
<1>2. x = args[n]
  BY <1>1 DEF Last
<1>3. IsOperand(x)
  BY <1>1, <1>2 DEF IsArgs
<1>4. o.kind = "num" /\ Operand("num", 64, {}).kind = "num"
  BY DEF Operand
<1> HIDE DEF x, o
<1>5. CASE IsNum(x)
  <2>1. ValueOf(Operand("num", 64, {}), x, ls, {}) = x.num
    BY <1>5 DEF ValueOf
  <2> QED BY <1>3, <1>5, <2>1 DEF IsOperand, IsNum, Value, x
<1>6. CASE ~IsNum(x)
  <2>1. LabelError(x, ls, e) = "none"
    BY <1>1, <1>4, <1>6 DEF ErrorAfter
  <2>2. ValueOf(Operand("num", 64, {}), x, ls, {}) = LabelValue(x, ls)
    BY <1>4, <1>6 DEF ValueOf
  <2> QED BY <2>1, <2>2, LabelWord DEF Value, x
<1> QED BY <1>5, <1>6

\* Zeroes and what emit writes are bytes.
LEMMA BytesWritten ==
    ASSUME NEW v, NEW n \in Nat
    PROVE  /\ Emit(v, n) \in Seq(Byte) /\ Len(Emit(v, n)) = n
           /\ \A i \in 1..n : Emit(v, n)[i] = Get(v, 8 * (n - i), 8)
           /\ Zeroes(n) \in Seq(Byte) /\ Len(Zeroes(n)) = n
<1>1. ASSUME NEW i \in 1..n PROVE Get(v, 8 * (n - i), 8) \in Byte
  BY DEF Get, Byte
<1>2. Emit(v, n) \in [1..n -> Byte]
  BY <1>1 DEF Emit
<1>3. Zeroes(n) \in [1..n -> Byte]
  BY DEF Zeroes, Byte
<1>4. \A i \in 1..n : Emit(v, n)[i] = Get(v, 8 * (n - i), 8)
  BY DEF Emit
<1> HIDE DEF Byte
<1>5. \A s \in [1..n -> Byte] : s \in Seq(Byte) /\ Len(s) = n
  OBVIOUS
<1> QED BY <1>2, <1>3, <1>4, <1>5

LEMMA NothingWritten ==
    ASSUME NEW p \in Word64
    PROVE  /\ <<>> \in Seq(Byte) /\ Len(<<>>) = 0
           /\ Plus(p, Num(0)) = p
<1>1. <<>> \in Seq(Byte) /\ Len(<<>>) = 0
  BY EmptySeq
<1> QED BY <1>1, NumZero, PlusNothing

\* What a statement leaves is made of words.
LEMMA StatementWords ==
    ASSUME NEW s, IsArgs(s.args), NEW p \in Word64, NEW ls, AreWords(ls), NEW e
    PROVE  /\ Assemble(s, p, e, ls).pc \in Word64
           /\ AreWords(Assemble(s, p, e, ls).labels)
<1> DEFINE args == s.args
           v == Value(args, ls)
           r == Assemble(s, p, e, ls)
           with(n) == WithValue(args, n, 64, ls, e)
<1>1. \A n : Plus(p, n) \in Word64
  BY PlusWord
<1>2. \A n \in {1, 2} : with(n) = "none" => v \in Word64
  BY ValueWord
<1> HIDE DEF v, with
<1>3. AreWords(Define(args, p, e, ls).labels) /\ Define(args, p, e, ls).pc = p
  <2>1. v \in Word64 => AreWords(Labelled(ls, args[1].name, v))
    BY DEF AreWords, Labelled
  <2>2. AreWords(IF with(2) # "none" \/ args[1].name \in DOMAIN ls THEN ls
                 ELSE Labelled(ls, args[1].name, v))
    BY <1>2, <2>1
  <2> QED BY <2>2 DEF Define, Result, with, v
<1>4. Align(args, p, e, ls).pc \in Word64
  <2> DEFINE next == Plus(p, v) \ 0..(Min(v) - 1)
  <2>1. next \in Word64
    BY <1>1, WordParts
  <2>2. Align(args, p, e, ls).pc \in {p, next}
    BY DEF Align, Result, v
  <2> QED BY <2>1, <2>2
<1>5. Zero(args, p, e, ls).pc \in Word64
  <2>1. Zero(args, p, e, ls).pc \in {p, Plus(p, v)}
    BY DEF Zero, Result, v
  <2> QED BY <1>1, <2>1
<1>6. Origin(args, p, e, ls).pc \in Word64
  <2>1. Origin(args, p, e, ls).pc = IF with(1) = "none" THEN v ELSE p
    BY DEF Origin, Result, v, with
  <2> QED BY <1>2, <2>1
<1>7. \A d : Instruction(d, args, p, e, ls).pc \in Word64
  BY <1>1 DEF Instruction, Result
<1>8. \A d : DataItem(d, args, p, e, ls).pc \in Word64
  BY <1>1 DEF DataItem, Result
<1>9. \A d : Text(args, d, p, e, ls).pc \in Word64
  BY <1>1 DEF Text, Result
<1>10. r.pc \in Word64
  BY <1>3, <1>4, <1>5, <1>6, <1>7, <1>8, <1>9, Zenon DEF Assemble, Result
<1>11. r = Define(args, p, e, ls) \/ r.labels = ls
  BY DEF Assemble, Instruction, DataItem, Align, Zero, Origin, Text, Result
<1> QED BY <1>3, <1>10, <1>11

\* What the second pass writes for a statement that does not fail, by its kind: pc goes
\* on by as many bytes, except at an origin.
Follows(r, p) == r.bytes \in Seq(Byte) /\ r.pc = Plus(p, Num(Len(r.bytes)))

LEMMA InstructionWritten ==
    ASSUME NEW d, NEW args, NEW p, NEW ls
    PROVE  Follows(Instruction(d, args, p, "none", ls), p)
<1> DEFINE r == Instruction(d, args, p, "none", ls)
           size == InstructionSize(d)
<1>1. size \in Nat
  BY DEF InstructionSize
<1>2. \E v : r.bytes = Emit(v, size)
  BY DEF Instruction, Result
<1>3. r.pc = Plus(p, Num(size))
  BY DEF Instruction, Result
<1> HIDE DEF r, size
<1>4. r.bytes \in Seq(Byte) /\ Len(r.bytes) = size
  BY <1>1, <1>2, BytesWritten
<1> QED BY <1>3, <1>4 DEF Follows, r

LEMMA DataWritten ==
    ASSUME NEW size \in Nat, NEW args, NEW p, NEW ls,
           DataItem(size, args, p, "none", ls).err = "none"
    PROVE  LET r == DataItem(size, args, p, "none", ls) IN
           /\ Follows(r, p)
           /\ WithValue(args, 1, 8 * size, ls, "none") = "none"
           /\ r.bytes = Emit(Value(args, ls), size)
<1> DEFINE r == DataItem(size, args, p, "none", ls)
<1>1. WithValue(args, 1, 8 * size, ls, "none") = "none"
  BY DEF DataItem, Result
<1>2. r.bytes = Emit(Value(args, ls), size) /\ r.pc = Plus(p, Num(size))
  BY <1>1 DEF DataItem, Result
<1> HIDE DEF r
<1>3. r.bytes \in Seq(Byte) /\ Len(r.bytes) = size
  BY <1>2, BytesWritten
<1> QED BY <1>1, <1>2, <1>3 DEF Follows, r

LEMMA AlignWritten ==
    ASSUME NEW args, IsArgs(args), NEW p \in Word64, NEW ls, AreWords(ls),
           Align(args, p, "none", ls).err = "none"
    PROVE  Follows(Align(args, p, "none", ls), p)
<1> DEFINE r == Align(args, p, "none", ls)
           d == Value(args, ls)
           next == Plus(p, d) \ 0..(Min(d) - 1)
           more == Minus(next, p)
<1>1. next \in Word64
  <2>1. Plus(p, d) \in Word64
    BY PlusWord
  <2> QED BY <2>1, WordParts
<1>2. ToNat(more) \in Nat /\ Num(ToNat(more)) = more /\ Plus(p, more) = next
  BY <1>1, MinusPlus, NumToNat
<1>3. \/ r.pc = p /\ r.bytes = <<>>
      \/ r.pc = next /\ r.bytes = Zeroes(ToNat(more))
  BY DEF Align, Result
<1> HIDE DEF r, next, more
<1>4. CASE r.pc = p /\ r.bytes = <<>>
  BY <1>4, NothingWritten DEF Follows, r
<1>5. CASE r.pc = next /\ r.bytes = Zeroes(ToNat(more))
  <2>1. r.bytes \in Seq(Byte) /\ Len(r.bytes) = ToNat(more)
    BY <1>2, <1>5, BytesWritten
  <2> QED BY <1>2, <1>5, <2>1 DEF Follows, r
<1> QED BY <1>3, <1>4, <1>5

LEMMA ZeroWritten ==
    ASSUME NEW args, IsArgs(args), NEW p \in Word64, NEW ls, AreWords(ls),
           Zero(args, p, "none", ls).err = "none"
    PROVE  Follows(Zero(args, p, "none", ls), p)
<1> DEFINE r == Zero(args, p, "none", ls)
           d == Value(args, ls)
<1>1. WithValue(args, 1, 64, ls, "none") = "none"
  BY DEF Zero, Result
<1>2. r.pc = Plus(p, d) /\ r.bytes = Zeroes(ToNat(d))
  BY <1>1 DEF Zero, Result
<1>3. d \in Word64
  BY <1>1, ValueWord
<1> HIDE DEF r, d
<1>4. ToNat(d) \in Nat /\ Num(ToNat(d)) = d
  BY <1>3, NumToNat
<1>5. r.bytes \in Seq(Byte) /\ Len(r.bytes) = ToNat(d)
  BY <1>2, <1>4, BytesWritten
<1> QED BY <1>2, <1>4, <1>5 DEF Follows, r

LEMMA TextWritten ==
    ASSUME NEW args, IsArgs(args), NEW zeroes \in {0, 1}, NEW p \in Word64, NEW ls,
           Text(args, zeroes, p, "none", ls).err = "none"
    PROVE  Follows(Text(args, zeroes, p, "none", ls), p)
<1> DEFINE r == Text(args, zeroes, p, "none", ls)
           text == args[1].text
<1>1. Len(args) = 1 /\ "text" \in DOMAIN args[1]
  BY DEF Text, Result
<1>2. text \in Seq(Byte)
  BY <1>1 DEF IsArgs, IsOperand, Byte
<1>3. r.pc = Plus(p, Num(Len(r.bytes)))
      /\ r.bytes = IF text = <<>> THEN <<>> ELSE text \o Zeroes(zeroes)
  BY <1>1 DEF Text, Result
<1> HIDE DEF r, text
<1>4. Zeroes(zeroes) \in Seq(Byte)
  BY BytesWritten
<1>5. text \o Zeroes(zeroes) \in Seq(Byte)
  BY <1>2, <1>4, ConcatProperties
<1>6. r.bytes \in Seq(Byte)
  BY <1>3, <1>5, NothingWritten, EmptySeq
<1> QED BY <1>3, <1>6 DEF Follows, r

\* The operand of an origin and of an item of data has a value.
Certain(s, ls) ==
    /\ HasOp(s, {"origin"}) => WithValue(s.args, 1, 64, ls, "none") = "none"
    /\ HasOp(s, DOMAIN Data) => WithValue(s.args, 1, 8 * Data[s.op], ls, "none") = "none"

LEMMA CertainKept ==
    ASSUME NEW s, NEW ls, NEW ms, Extends(ls, ms), Certain(s, ls)
    PROVE  /\ Certain(s, ms)
           /\ HasOp(s, {"origin"} \cup DOMAIN Data) => Value(s.args, ms) = Value(s.args, ls)
<1> DEFINE x == Last(s.args)
<1>1. ASSUME NEW bits, WithValue(s.args, 1, bits, ls, "none") = "none"
      PROVE  /\ WithValue(s.args, 1, bits, ms, "none") = "none"
             /\ Value(s.args, ms) = Value(s.args, ls)
  <2>1. Len(s.args) = 1 /\ ErrorAfter(Operand("num", bits, {}), x, ls, "none") = "none"
    BY <1>1 DEF WithValue
  <2>2. CASE IsNum(x)
    <3>1. ErrorAfter(Operand("num", bits, {}), x, ms, "none") = "none"
      BY <2>1, <2>2 DEF ErrorAfter
    <3> QED BY <2>1, <2>2, <3>1, ValueKept DEF WithValue
  <2>3. CASE ~IsNum(x)
    <3>1. /\ ErrorAfter(Operand("num", bits, {}), x, ls, "none")
               = ErrorAfter(Operand("num", 64, {}), x, ls, "none")
          /\ ErrorAfter(Operand("num", bits, {}), x, ms, "none")
               = ErrorAfter(Operand("num", 64, {}), x, ms, "none")
      BY <2>3 DEF ErrorAfter, Operand
    <3>2. WithValue(s.args, 1, 64, ls, "none") = "none"
      BY <2>1, <3>1 DEF WithValue
    <3>3. /\ WithValue(s.args, 1, 64, ms, "none") = "none"
          /\ Value(s.args, ms) = Value(s.args, ls)
      BY <3>2, ValueKept
    <3> QED BY <2>1, <3>1, <3>3 DEF WithValue
  <2> QED BY <2>2, <2>3
<1> QED BY <1>1 DEF Certain, HasOp

LEMMA DataSizes ==
    ASSUME NEW op \in DOMAIN Data
    PROVE  /\ Data[op] \in {1, 2, 4, 8} /\ op \notin DOMAIN Opcodes
           /\ ~ op \in {"define", "align", "zero", "origin", "asciz", "ascii"}
BY DEF Data, Opcodes, I, LsRow, LssRow

LEMMA StatementWritten ==
    ASSUME NEW s, IsArgs(s.args), NEW p \in Word64, NEW ls, AreWords(ls),
           Assemble(s, p, "none", ls).err = "none", "op" \in DOMAIN s
    PROVE  LET r == Assemble(s, p, "none", ls) IN
           /\ r.bytes \in Seq(Byte)
           /\ s.op # "origin" \/ Value(s.args, ls) = p => r.pc = Plus(p, Num(Len(r.bytes)))
           /\ Certain(s, ls)
           /\ s.op \in DOMAIN Data => r.bytes = Emit(Value(s.args, ls), Data[s.op])
<1> DEFINE r == Assemble(s, p, "none", ls)
<1>1. CASE s.op \in DOMAIN Opcodes
  <2>1. s.op \notin DOMAIN Data /\ ~ s.op \in {"define", "align", "zero", "origin", "asciz", "ascii"}
    BY <1>1 DEF Data, Opcodes, I, LsRow, LssRow
  <2>2. r = Instruction(Opcodes[s.op], s.args, p, "none", ls)
    BY <1>1, <2>1 DEF Assemble
  <2>3. Follows(r, p)
    BY <2>2, InstructionWritten
  <2> QED BY <2>1, <2>3 DEF Follows, Certain, HasOp
<1>2. CASE s.op \in DOMAIN Data
  <2>1. /\ Data[s.op] \in Nat /\ s.op \notin DOMAIN Opcodes
        /\ ~ s.op \in {"define", "align", "zero", "origin", "asciz", "ascii"}
    BY <1>2, DataSizes
  <2>2. r = DataItem(Data[s.op], s.args, p, "none", ls)
    BY <1>2, <2>1 DEF Assemble
  <2>3. /\ Follows(r, p)
        /\ WithValue(s.args, 1, 8 * Data[s.op], ls, "none") = "none"
        /\ r.bytes = Emit(Value(s.args, ls), Data[s.op])
    BY <2>1, <2>2, DataWritten
  <2> QED BY <1>2, <2>1, <2>3 DEF Follows, Certain, HasOp
<1>3. CASE s.op \notin DOMAIN Opcodes /\ s.op \notin DOMAIN Data /\ s.op = "origin"
  <2>1. r = Origin(s.args, p, "none", ls)
    BY <1>3 DEF Assemble
  <2>2. WithValue(s.args, 1, 64, ls, "none") = "none"
    BY <2>1 DEF Origin, Result
  <2>3. r.pc = Value(s.args, ls) /\ r.bytes = <<>>
    BY <2>1, <2>2 DEF Origin, Result
  <2> QED BY <1>3, <2>2, <2>3, NothingWritten DEF Certain, HasOp
<1>4. CASE s.op \notin DOMAIN Opcodes /\ s.op \notin DOMAIN Data /\ s.op # "origin"
  <2>1. Follows(r, p)
    <3>1. Follows(Define(s.args, p, "none", ls), p)
      BY NothingWritten DEF Define, Result, Follows
    <3>2. s.op \in {"define", "align", "zero", "asciz", "ascii"}
      BY <1>4 DEF Assemble, Result
    <3>3. CASE s.op = "define"
      BY <1>4, <3>1, <3>3 DEF Assemble
    <3>4. CASE s.op = "align"
      BY <1>4, <3>4, AlignWritten DEF Assemble
    <3>5. CASE s.op = "zero"
      BY <1>4, <3>5, ZeroWritten DEF Assemble
    <3>6. CASE s.op = "asciz"
      BY <1>4, <3>6, TextWritten DEF Assemble
    <3>7. CASE s.op = "ascii"
      BY <1>4, <3>7, TextWritten DEF Assemble
    <3> QED BY <3>2, <3>3, <3>4, <3>5, <3>6, <3>7
  <2> QED BY <1>4, <2>1 DEF Follows, Certain, HasOp
<1> QED BY <1>1, <1>2, <1>3, <1>4

\* The bytes of an item of data are in the file, as far from its beginning as the item is
\* from where the file is loaded.
Lies(i) ==
    LET size == Data[src[i].op] IN
    \E o \in 0..Len(file) :
        /\ places[i] = Plus(START, Num(o)) /\ o + size <= Len(file)
        /\ \A k \in 1..size : file[o + k] = Emit(Value(src[i].args, labels), size)[k]

WrittenInv ==
    /\ file \in Seq(Byte)
    /\ IsList(places) /\ Len(places) = at - 1
    /\ \A j \in 1..(at - 1) : Certain(src[j], labels)
    /\ Straight(at) => pc = Plus(START, Num(Len(file)))
    /\ \A i \in 1..(at - 1) : HasOp(src[i], DOMAIN Data) /\ Straight(i) => Lies(i)

\* The inductive invariant behind FileFollowsPc and DataArrives: what the statements so
\* far wrote, and that their operands will not change.
FileInv ==
    /\ src \in Sources /\ at \in 1..(Len(src) + 1)
    /\ pc \in Word64 /\ AreWords(labels)
    /\ phase = "first" => file = <<>> /\ places = <<>>
    /\ phase = "second" => err = "none"
    /\ phase = "second" \/ (phase = "written" /\ err = "none") => WrittenInv

\* A statement of the second pass that does not fail.
LEMMA WriteMore ==
    ASSUME FileInv, phase = "second", at <= Len(src), NEW bytes \in Seq(Byte),
           src' = src, at' = at + 1, file' = file \o bytes, places' = Append(places, pc),
           Extends(labels, labels'), Certain(src[at], labels'),
           (HasOp(src[at], {"origin"}) => Value(src[at].args, labels') = pc)
             => pc' = Plus(pc, Num(Len(bytes))),
           HasOp(src[at], DOMAIN Data)
             => bytes = Emit(Value(src[at].args, labels'), Data[src[at].op])
    PROVE  WrittenInv'
<1>1. WrittenInv /\ at \in Nat /\ at >= 1 /\ pc \in Word64
  BY DEF FileInv
<1>2. /\ IsList(places') /\ Len(places') = at
      /\ \A i \in 1..(at - 1) : places'[i] = places[i]
      /\ places'[at] = pc
  <2>1. IsList(places) /\ Len(places) = at - 1
    BY <1>1 DEF WrittenInv
  <2>2. /\ IsList(places') /\ Len(places') = Len(places) + 1
        /\ \A i \in 1..Len(places) : places'[i] = places[i]
        /\ places'[Len(places) + 1] = pc
    BY <2>1, ListGrows
  <2> QED BY <1>1, <2>1, <2>2
<1>3. /\ file' \in Seq(Byte) /\ Len(file) \in Nat /\ Len(bytes) \in Nat
      /\ Len(file') = Len(file) + Len(bytes)
      /\ \A i \in 1..Len(file) : file'[i] = file[i]
      /\ \A i \in 1..Len(bytes) : file'[Len(file) + i] = bytes[i]
  <2>1. file \in Seq(Byte)
    BY <1>1 DEF WrittenInv
  <2>2. Len(file) \in Nat /\ Len(bytes) \in Nat
    BY <2>1, LenProperties
  <2> QED BY <2>1, <2>2, ConcatProperties
<1>4. ASSUME NEW j \in 1..(at - 1)
      PROVE  /\ Certain(src[j], labels')
             /\ HasOp(src[j], {"origin"} \cup DOMAIN Data)
                  => Value(src[j].args, labels') = Value(src[j].args, labels)
  <2>1. Certain(src[j], labels)
    BY <1>1 DEF WrittenInv
  <2> QED BY <2>1, CertainKept
<1>5. ASSUME NEW j \in 1..at PROVE Certain(src'[j], labels')
  BY <1>1, <1>4
<1>6. ASSUME NEW i \in 1..at, Straight(i)' PROVE Straight(i)
  <2>1. ASSUME NEW j \in 1..(i - 1), "op" \in DOMAIN src[j], src[j].op = "origin"
        PROVE  Value(src[j].args, labels) = places[j]
    <3>1. j \in 1..(at - 1)
      BY <1>1
    <3>2. Value(src[j].args, labels') = places'[j]
      BY <1>6, <2>1 DEF Straight
    <3>3. Value(src[j].args, labels') = Value(src[j].args, labels)
      BY <1>4, <2>1, <3>1 DEF HasOp
    <3> QED BY <1>2, <3>1, <3>2, <3>3
  <2> QED BY <2>1 DEF Straight
<1>7. ASSUME Straight(at)' PROVE pc' = Plus(START, Num(Len(file')))
  <2> PICK last \in Nat : last = at
    BY <1>1
  <2>0. at' - 1 = last /\ src' = src /\ 1..(last - 1) \subseteq 1..last
    BY <1>1
  <2>1. \A j \in 1..last : "op" \in DOMAIN src[j] /\ src[j].op = "origin"
                           => Value(src[j].args, labels') = places'[j]
    BY <1>7, <2>0 DEF Straight
  <2>2. pc = Plus(START, Num(Len(file)))
    <3>1. Straight(last)'
      BY <2>0, <2>1 DEF Straight
    <3>2. Straight(at)
      BY <1>1, <1>6, <3>1
    <3> QED BY <1>1, <3>2 DEF WrittenInv
  <2>3. HasOp(src[at], {"origin"}) => Value(src[at].args, labels') = pc
    BY <1>1, <1>2, <2>1 DEF HasOp
  <2>4. pc' = Plus(pc, Num(Len(bytes)))
    BY <2>3
  <2>5. Num(Len(file)) \in Word64 /\ Num(Len(bytes)) \in Word64 /\ START \in Word64
    <3>1. Len(file) \in Int /\ Len(bytes) \in Int
      BY <1>3
    <3>2. START \in Word64
      BY DEF START, Word64, Bits
    <3> QED BY <3>1, <3>2, HalvesNum
  <2>6. pc' = Plus(START, Plus(Num(Len(file)), Num(Len(bytes))))
    BY <2>2, <2>4, <2>5, PlusAssociates
  <2>7. Num(Len(file) + Len(bytes)) = Plus(Num(Len(file)), Num(Len(bytes)))
    BY <1>3, NumSum
  <2> QED BY <1>3, <2>6, <2>7
<1>8. ASSUME NEW i \in 1..at, HasOp(src[i], DOMAIN Data), Straight(i)' PROVE Lies(i)'
  <2> DEFINE size == Data[src[i].op]
             v == Value(src[i].args, labels')
  <2>1. size \in Nat
    <3>1. src[i].op \in DOMAIN Data
      BY <1>8 DEF HasOp
    <3>2. Data[src[i].op] \in {1, 2, 4, 8}
      BY <3>1, DataSizes, Zenon
    <3> QED BY <3>2
  <2>2. SUFFICES \E o \in 0..Len(file') :
                   /\ places'[i] = Plus(START, Num(o)) /\ o + size <= Len(file')
                   /\ \A k \in 1..size : file'[o + k] = Emit(v, size)[k]
    BY DEF Lies
  <2>3. Straight(i)
    BY <1>6, <1>8
  <2>4. CASE i = at
    <3>1. bytes = Emit(v, size)
      BY <1>8, <2>4
    <3>2. Len(bytes) = size
      BY <2>1, <3>1, BytesWritten
    <3>3. places'[i] = Plus(START, Num(Len(file)))
      BY <1>1, <1>2, <2>3, <2>4 DEF WrittenInv
    <3> HIDE DEF size, v
    <3>4. \A k \in 1..size : file'[Len(file) + k] = Emit(v, size)[k]
      BY <1>3, <3>1, <3>2
    <3>5. Len(file) \in 0..Len(file') /\ Len(file) + size <= Len(file')
      BY <1>3, <3>2
    <3> QED BY <3>3, <3>4, <3>5
  <2>5. CASE i # at
    <3>1. i \in 1..(at - 1)
      BY <1>1, <2>5
    <3>2. Value(src[i].args, labels) = v
      BY <1>4, <1>8, <3>1 DEF HasOp
    <3>3. PICK o \in 0..Len(file) :
            /\ places[i] = Plus(START, Num(o)) /\ o + size <= Len(file)
            /\ \A k \in 1..size : file[o + k] = Emit(v, size)[k]
      <4>1. Lies(i)
        BY <1>1, <1>8, <2>3, <3>1 DEF WrittenInv
      <4> QED BY <3>2, <4>1 DEF Lies
    <3> HIDE DEF size, v
    <3>4. ASSUME NEW k \in 1..size PROVE file'[o + k] = Emit(v, size)[k]
      <4>1. o + k \in 1..Len(file)
        BY <1>3, <2>1, <3>3
      <4> QED BY <1>3, <3>3, <4>1
    <3>5. o \in 0..Len(file') /\ o + size <= Len(file')
      BY <1>3, <2>1, <3>3
    <3> QED BY <1>2, <3>1, <3>3, <3>4, <3>5
  <2> QED BY <2>4, <2>5
<1>9. at' - 1 = at /\ src' = src
  BY <1>1
<1> QED BY <1>2, <1>3, <1>5, <1>7, <1>8, <1>9 DEF WrittenInv

\* The statement that is next.
LEMMA StatementHere ==
    ASSUME FileInv, at <= Len(src)
    PROVE  /\ Len(src) \in Nat /\ at \in Nat /\ at >= 1
           /\ "label" \in DOMAIN src[at] => ~("op" \in DOMAIN src[at])
           /\ "label" \notin DOMAIN src[at] => "op" \in DOMAIN src[at] /\ IsArgs(src[at].args)
<1>1. src \in Sources /\ at \in 1..(Len(src) + 1)
  BY DEF FileInv
<1>2. IsFile(src)
  BY <1>1, SourcesAssumption
<1>3. Len(src) \in Nat /\ at \in 1..Len(src)
  BY <1>1, <1>2 DEF IsFile
<1>4. IsStatement(src[at])
  BY <1>2, <1>3 DEF IsFile
<1> QED BY <1>3, <1>4 DEF IsStatement, IsArgs

LEMMA StartWord == START \in Word64
BY DEF START, Word64, Bits

LEMMA FileInit ==
    ASSUME ToolchainInit
    PROVE  FileInv
<1>1. /\ src \in Sources /\ phase = "first" /\ at = 1 /\ pc = START /\ labels = <<>>
      /\ file = <<>> /\ places = <<>>
  BY DEF ToolchainInit, AsmInit, NoLabels
<1>2. Len(src) \in Nat
  BY <1>1, SourcesAssumption DEF IsFile
<1>3. AreWords(labels)
  BY <1>1 DEF AreWords
<1> QED BY <1>1, <1>2, <1>3, StartWord DEF FileInv

LEMMA FileRegister ==
    ASSUME FileInv, RegisterLabel
    PROVE  FileInv'
<1>1. /\ phase = "first" /\ at <= Len(src)
      /\ UNCHANGED <<src, phase, pc, err, file, places>>
  BY DEF RegisterLabel, More
<1>2. Len(src) \in Nat /\ at \in Nat /\ at >= 1
  BY <1>1, StatementHere
<1>3. at' \in 1..(Len(src) + 1)
  BY <1>1, <1>2 DEF RegisterLabel
<1>4. AreWords(labels')
  <2>1. AreWords(labels) /\ pc \in Word64
    BY DEF FileInv
  <2>2. labels' = labels \/ labels' = Labelled(labels, src[at].label, pc)
    BY DEF RegisterLabel
  <2> QED BY <2>1, <2>2 DEF AreWords, Labelled
<1> QED BY <1>1, <1>3, <1>4 DEF FileInv

LEMMA FileFirst ==
    ASSUME FileInv, FirstPass
    PROVE  FileInv'
<1> DEFINE r == Assemble(src[at], pc, err, labels)
<1>1. /\ phase = "first" /\ at <= Len(src) /\ "label" \notin DOMAIN src[at]
      /\ pc' = r.pc /\ labels' = r.labels /\ at' = at + 1
      /\ phase' \in {"failed", "first"} /\ UNCHANGED <<src, file, places>>
  BY DEF FirstPass, More, IsLabelHere
<1>2. Len(src) \in Nat /\ at \in Nat /\ at >= 1 /\ IsArgs(src[at].args)
  BY <1>1, StatementHere
<1>3. at' \in 1..(Len(src) + 1)
  BY <1>1, <1>2
<1>4. pc \in Word64 /\ AreWords(labels)
  BY DEF FileInv
<1>5. pc' \in Word64 /\ AreWords(labels')
  <2>1. r.pc \in Word64 /\ AreWords(r.labels)
    BY <1>2, <1>4, StatementWords
  <2> HIDE DEF r
  <2>2. labels' = r.labels
    BY <1>1
  <2> QED BY <1>1, <2>1, <2>2 DEF AreWords
<1> HIDE DEF r
<1> QED BY <1>1, <1>3, <1>5 DEF FileInv

LEMMA FileRewind ==
    ASSUME FileInv, Rewind
    PROVE  FileInv'
<1>1. /\ phase = "first" /\ phase' = "second" /\ at' = 1 /\ pc' = START /\ err' = "none"
      /\ UNCHANGED <<src, labels, file, places>>
  BY DEF Rewind
<1>2. /\ src \in Sources /\ AreWords(labels) /\ file = <<>> /\ places = <<>>
  BY <1>1 DEF FileInv
<1>3. Len(src) \in Nat
  BY <1>2, SourcesAssumption DEF IsFile
<1>4. file' = <<>> /\ Len(file') = 0 /\ file' \in Seq(Byte)
  BY <1>1, <1>2, EmptySeq
<1>5. IsList(places') /\ Len(places') = 0
  BY <1>1, <1>2, EmptySeq DEF IsList
<1>6. pc' = Plus(START, Num(0))
  BY <1>1, StartWord, NothingWritten
<1>7. WrittenInv'
  BY <1>1, <1>4, <1>5, <1>6 DEF WrittenInv
<1>8. AreWords(labels')
  BY <1>1, <1>2
<1> QED BY <1>1, <1>2, <1>3, <1>7, <1>8, StartWord DEF FileInv

LEMMA FileSkip ==
    ASSUME FileInv, SkipLabel
    PROVE  FileInv'
<1>1. /\ phase = "second" /\ at <= Len(src) /\ "label" \in DOMAIN src[at]
      /\ at' = at + 1 /\ places' = Append(places, pc)
      /\ UNCHANGED <<src, phase, pc, err, labels, file>>
  BY DEF SkipLabel, More, IsLabelHere
<1>2. /\ Len(src) \in Nat /\ at \in Nat /\ at >= 1 /\ ~("op" \in DOMAIN src[at])
  BY <1>1, StatementHere
<1>3. src \in Sources /\ pc \in Word64 /\ AreWords(labels) /\ err = "none" /\ WrittenInv
  BY <1>1 DEF FileInv
<1>4. <<>> \in Seq(Byte) /\ Len(<<>>) = 0 /\ Plus(pc, Num(0)) = pc
  BY <1>3, NothingWritten
<1>5. file' = file \o <<>>
  <2>1. file \in Seq(Byte)
    BY <1>3 DEF WrittenInv
  <2> QED BY <1>1, <2>1, ConcatEmptySeq
<1>6. Extends(labels, labels')
  BY <1>1, ExtendsItself
<1>7. Certain(src[at], labels') /\ ~HasOp(src[at], DOMAIN Data)
  BY <1>2 DEF Certain, HasOp
<1>8. pc' = Plus(pc, Num(Len(<<>>)))
  BY <1>1, <1>4
<1>9. WrittenInv'
  BY <1>1, <1>4, <1>5, <1>6, <1>7, <1>8, WriteMore
<1>10. AreWords(labels')
  BY <1>1, <1>3
<1> QED BY <1>1, <1>2, <1>3, <1>9, <1>10 DEF FileInv

LEMMA FileSecond ==
    ASSUME FileInv, SecondPass
    PROVE  FileInv'
<1> DEFINE s == src[at]
           r == Assemble(s, pc, "none", labels)
<1>1. phase = "second" /\ at <= Len(src) /\ "label" \notin DOMAIN s
  BY DEF SecondPass, More, IsLabelHere
<1>2. src \in Sources /\ pc \in Word64 /\ AreWords(labels) /\ err = "none" /\ WrittenInv
  BY <1>1 DEF FileInv
<1>3. /\ pc' = r.pc /\ err' = r.err /\ labels' = r.labels /\ file' = file \o r.bytes
      /\ phase' = (IF r.err = "none" THEN "second" ELSE "written")
      /\ at' = at + 1 /\ places' = Append(places, pc) /\ src' = src
  BY <1>2 DEF SecondPass
<1>4. /\ Len(src) \in Nat /\ at \in Nat /\ at >= 1 /\ "op" \in DOMAIN s /\ IsArgs(s.args)
  BY <1>1, StatementHere
<1>5. r.pc \in Word64 /\ AreWords(r.labels)
  BY <1>2, <1>4, StatementWords
<1>6. Extends(labels, r.labels)
  BY LabelsGrow
<1>7. ASSUME r.err = "none"
      PROVE  WrittenInv'
  <2>1. /\ r.bytes \in Seq(Byte)
        /\ s.op # "origin" \/ Value(s.args, labels) = pc => r.pc = Plus(pc, Num(Len(r.bytes)))
        /\ Certain(s, labels)
        /\ s.op \in DOMAIN Data => r.bytes = Emit(Value(s.args, labels), Data[s.op])
    BY <1>2, <1>4, <1>7, StatementWritten
  <2> HIDE DEF r, s
  <2>2. /\ Certain(s, r.labels)
        /\ HasOp(s, {"origin"} \cup DOMAIN Data)
             => Value(s.args, r.labels) = Value(s.args, labels)
    BY <1>6, <2>1, CertainKept
  <2>3. (HasOp(s, {"origin"}) => Value(s.args, r.labels) = pc)
          => pc' = Plus(pc, Num(Len(r.bytes)))
    BY <1>3, <1>4, <2>1, <2>2 DEF HasOp
  <2>4. HasOp(s, DOMAIN Data) => r.bytes = Emit(Value(s.args, r.labels), Data[s.op])
    BY <2>1, <2>2 DEF HasOp
  <2>5. /\ Extends(labels, labels') /\ Certain(src[at], labels')
        /\ (HasOp(src[at], {"origin"}) => Value(src[at].args, labels') = pc)
             => pc' = Plus(pc, Num(Len(r.bytes)))
        /\ HasOp(src[at], DOMAIN Data)
             => r.bytes = Emit(Value(src[at].args, labels'), Data[src[at].op])
    BY <1>3, <1>6, <2>2, <2>3, <2>4 DEF s
  <2> QED BY <1>1, <1>3, <2>1, <2>5, WriteMore
<1> HIDE DEF r
<1>8. AreWords(labels')
  BY <1>3, <1>5 DEF AreWords
<1> QED BY <1>1, <1>2, <1>3, <1>4, <1>5, <1>7, <1>8 DEF FileInv

LEMMA FileRest ==
    ASSUME FileInv, Close \/ UNCHANGED asmVars
    PROVE  FileInv'
<1>1. UNCHANGED <<src, at, pc, err, labels, file, places>>
  BY DEF Close, asmVars
<1>2. phase' = phase \/ (phase = "second" /\ phase' = "written")
  BY DEF Close, asmVars
<1>3. WrittenInv' <=> WrittenInv
  BY <1>1 DEF WrittenInv, Lies, Straight
<1>4. AreWords(labels') <=> AreWords(labels)
  BY <1>1
<1> QED BY <1>1, <1>2, <1>3, <1>4 DEF FileInv

LEMMA FileStep ==
    ASSUME FileInv, [ToolchainNext]_vars
    PROVE  FileInv'
BY EitherRuns, FileRegister, FileFirst, FileRewind, FileSkip, FileSecond, FileRest DEF AsmNext

\* In the second pass, as long as no origin moved pc, the byte that is written next is
\* the one that the emulator loads at pc (asm/asminst.c: emit and the pc of asm_any;
\* cpu/risc1.c: main, which loads the file at 0x10000): for every source file, whatever
\* its statements write.
THEOREM FileFollows == ToolchainSpec => []FileFollowsPc
<1>1. FileInv => FileFollowsPc
  BY DEF FileInv, WrittenInv, FileFollowsPc
<1> QED BY <1>1, FileInit, FileStep, PTL DEF ToolchainSpec
-----------------------------------------------------------------------------
(* What the emulator loads.                                                 *)

\* START is 0x10000, where main loads the file.
LEMMA StartNumber == START = Num(65536)
<1> DEFINE d(b) == Doubles(START)[b]
<1>1. d(64) = 0 /\ \A b \in 0..63 : d(b) = 2 * d(b + 1) + One(START, b)
  BY DoublesDef, DoublesNat
<1>2. \A b \in 0..63 : One(START, b) = IF b = 16 THEN 1 ELSE 0
  BY DEF One, START
<1>3. \A b \in 0..63, k \in 1..64 : k = b + 1 => d(b) = 2 * d(k) + One(START, b)
  BY <1>1
<1>4. ToNat(START) = d(0)
  BY DEF ToNat
<1> HIDE DEF d
<1> DEFINE T == {b \in 0..64 : b < 17 \/ d(b) = 0}
<1>5. d(17) = 0
  <2>1. ASSUME NEW b \in 0..64, b < 64, b + 1 \in T PROVE b \in T
    <3>1. CASE b < 17
      BY <3>1
    <3>2. CASE b >= 17
      <4>1. b \in 0..63 /\ d(b + 1) = 0 /\ One(START, b) = 0
        BY <1>2, <2>1, <3>2
      <4>2. d(b) = 2 * 0 + 0
        BY <1>1, <4>1
      <4> QED BY <4>2
    <3> QED BY <3>1, <3>2
  <2>2. 64 \in T
    BY <1>1
  <2> HIDE DEF T
  <2>3. \A b \in 0..64 : b \in T
    BY <2>1, <2>2, Downward
  <2>4. 17 \in 0..64 /\ ~(17 < 17)
    OBVIOUS
  <2> QED BY <2>3, <2>4 DEF T
<1>6. d(16) = 1
  BY <1>2, <1>3, <1>5, SMT
<1>7. d(15) = 2
  BY <1>2, <1>3, <1>6, SMT
<1>8. d(14) = 4
  BY <1>2, <1>3, <1>7, SMT
<1>9. d(13) = 8
  BY <1>2, <1>3, <1>8, SMT
<1>10. d(12) = 16
  BY <1>2, <1>3, <1>9, SMT
<1>11. d(11) = 32
  BY <1>2, <1>3, <1>10, SMT
<1>12. d(10) = 64
  BY <1>2, <1>3, <1>11, SMT
<1>13. d(9) = 128
  BY <1>2, <1>3, <1>12, SMT
<1>14. d(8) = 256
  BY <1>2, <1>3, <1>13, SMT
<1>15. d(7) = 512
  BY <1>2, <1>3, <1>14, SMT
<1>16. d(6) = 1024
  BY <1>2, <1>3, <1>15, SMT
<1>17. d(5) = 2048
  BY <1>2, <1>3, <1>16, SMT
<1>18. d(4) = 4096
  BY <1>2, <1>3, <1>17, SMT
<1>19. d(3) = 8192
  BY <1>2, <1>3, <1>18, SMT
<1>20. d(2) = 16384
  BY <1>2, <1>3, <1>19, SMT
<1>21. d(1) = 32768
  BY <1>2, <1>3, <1>20, SMT
<1>22. d(0) = 65536
  BY <1>2, <1>3, <1>21, SMT
<1> QED BY <1>4, <1>22, StartWord, NumToNat

\* The address of a byte that the emulator loads.
LEMMA LoadedAddress ==
    ASSUME NEW o \in Nat, o < 65536
    PROVE  ToNat(Plus(START, Num(o))) = 65536 + o
<1>1. Plus(START, Num(o)) = Num(65536 + o)
  BY StartNumber, NumSum
<1>2. 65536 + o \in Nat /\ Near(65536 + o)
  BY SMT DEF Near
<1> HIDE DEF Near
<1> QED BY <1>1, <1>2, ToNatNum

\* Bytes, the highest first, are read as the number that they are of.
HoldsBytes(mem, n, size, v) ==
    \A j \in 0..(size - 1) : MemByte(mem, n + j) = Get(v, 8 * (size - 1 - j), 8)
LEMMA BytesRead ==
    ASSUME NEW mem, NEW n \in Nat, NEW size \in 1..8, NEW v \in Word64,
           HoldsBytes(mem, n, size, v)
    PROVE  MemRead(mem, n, size) = v \cap 0..(8 * size - 1)
<1> DEFINE low(j) == 8 * (size - 1 - j)
           part(j) == Left(Get(v, low(j), 8), low(j))
<1>1. v \subseteq 0..63
  BY DEF Word64, Bits
<1>2. MemRead(mem, n, size) = UNION {part(j) : j \in 0..(size - 1)}
  BY DEF MemRead, HoldsBytes
<1>3. ASSUME NEW j \in 0..(size - 1), NEW b \in Int
      PROVE  b \in part(j) <=> b \in v /\ b \in low(j)..(low(j) + 7)
  <2>1. low(j) \in 0..56
    OBVIOUS
  <2> HIDE DEF low
  <2>2. Get(v, low(j), 8) \subseteq Int
    BY <1>1, <2>1 DEF Get
  <2>3. \A c \in Int : c \in Get(v, low(j), 8) <=> c + low(j) \in v /\ c \in 0..7
    BY <1>1, <2>1 DEF Get
  <2>4. b \in part(j) <=> b - low(j) \in Get(v, low(j), 8) /\ b \in 0..63
    BY <2>1, <2>2 DEF Left, Bits
  <2> QED BY <1>1, <2>1, <2>3, <2>4
<1>4. ASSUME NEW b \in 0..(8 * size - 1)
      PROVE  \E j \in 0..(size - 1) : b \in low(j)..(low(j) + 7)
  <2> DEFINE q == b \div 8
  <2>1. q \in 0..(size - 1) /\ b \in (8 * q)..(8 * q + 7)
    BY SMT
  <2> HIDE DEF q
  <2>2. size - 1 - q \in 0..(size - 1) /\ low(size - 1 - q) = 8 * q
    BY <2>1
  <2> QED BY <2>1, <2>2
<1>5. ASSUME NEW j \in 0..(size - 1), NEW b \in low(j)..(low(j) + 7)
      PROVE  b \in 0..(8 * size - 1)
  OBVIOUS
<1>6. part(0) \subseteq Int /\ \A j \in 0..(size - 1) : part(j) \subseteq Int
  BY DEF Left, Bits
<1> HIDE DEF low, part
<1>7. ASSUME NEW b \in Int
      PROVE  b \in MemRead(mem, n, size) <=> b \in v \cap 0..(8 * size - 1)
  BY <1>2, <1>3, <1>4, <1>5
<1>8. MemRead(mem, n, size) \subseteq Int
  BY <1>2, <1>6
<1> QED BY <1>1, <1>7, <1>8, SameBits

\* The store read back.
ReadBack(mem, n, size, v) ==
    MemRead(MemWrite(mem, n, size, v), n, size) = v \cap 0..(8 * size - 1)
LEMMA StoredBack ==
    ASSUME NEW mem, NEW n \in Nat, NEW size \in 1..8, NEW v \in Word64
    PROVE  ReadBack(mem, n, size, v)
<1> DEFINE after == MemWrite(mem, n, size, v)
<1>1. ASSUME NEW j \in 0..(size - 1)
      PROVE  MemByte(after, n + j) = Get(v, 8 * (size - 1 - j), 8)
  <2>1. n + j \in n..(n + size - 1) /\ n + size - 1 - (n + j) = size - 1 - j
    OBVIOUS
  <2>2. n + j \in DOMAIN after /\ after[n + j] = Get(v, 8 * (n + size - 1 - (n + j)), 8)
    BY <2>1 DEF MemWrite
  <2> QED BY <2>1, <2>2 DEF MemByte
<1> HIDE DEF after
<1>2. HoldsBytes(after, n, size, v)
  BY <1>1 DEF HoldsBytes
<1>3. MemRead(after, n, size) = v \cap 0..(8 * size - 1)
  BY <1>2, BytesRead, SMTT(30)
<1> QED BY <1>3 DEF after, ReadBack

\* What is stored is what is loaded from there, and the rest of the memory stays as it was
\* (cpu/mmio.c: write_1b to write_8b, read_u1b to read_8b).
THEOREM StoredIsLoaded ==
    ASSUME NEW mem, NEW n \in Nat, NEW size \in 1..8, NEW v \in Word64
    PROVE  /\ MemRead(MemWrite(mem, n, size, v), n, size) = v \cap 0..(8 * size - 1)
           /\ \A k \in Nat \ n..(n + size - 1) :
                MemByte(MemWrite(mem, n, size, v), k) = MemByte(mem, k)
<1>1. ReadBack(mem, n, size, v)
  BY StoredBack
<1>2. ASSUME NEW k \in Nat \ n..(n + size - 1)
      PROVE  MemByte(MemWrite(mem, n, size, v), k) = MemByte(mem, k)
  BY DEF MemByte, MemWrite
<1> QED BY <1>1, <1>2 DEF ReadBack

\* The inductive invariant behind DataArrives, together with FileInv: before it executes
\* anything, the machine is as main loaded it, from a file assembled to its end.
LoadInv ==
    /\ steps \in Nat
    /\ m # Off /\ steps = 0 =>
         phase = "written" /\ err = "none" /\ \E start \in Machines : m = Loaded(start)

LEMMA LoadLimit == LOAD_MAX \in Int /\ LOAD_MAX <= 65536
  BY LoadAssumption

LEMMA SameFile ==
    ASSUME file' = file, NEW start
    PROVE  Loaded(start)' = Loaded(start)
BY DEF Loaded, Image

LEMMA ImageByte ==
    ASSUME NEW mem, NEW size \in Nat, NEW n \in Nat, n >= 65536, n <= 65535 + size
    PROVE  n \in DOMAIN Image(mem, size) /\ Image(mem, size)[n] = file[n - 65535]
BY SMT DEF Image

LEMMA LoadStep ==
    ASSUME LoadInv, [ToolchainNext]_vars
    PROVE  LoadInv'
<1>1. CASE Assembling
  <2>1. AsmNext /\ UNCHANGED <<m, steps>>
    BY <1>1 DEF Assembling
  <2>2. phase \in {"first", "second"}
    BY <2>1 DEF AsmNext, RegisterLabel, FirstPass, Rewind, SkipLabel, SecondPass, Close, More
  <2> QED BY <2>1, <2>2 DEF LoadInv
<1>2. CASE Load
  <2>1. /\ phase = "written" /\ err = "none" /\ \E start \in Machines : m' = Loaded(start)
        /\ UNCHANGED <<asmVars, steps>>
    BY <1>2 DEF Load
  <2>2. phase' = phase /\ err' = err /\ file' = file
    BY <2>1 DEF asmVars
  <2>3. \A start : Loaded(start)' = Loaded(start)
    BY <2>2, SameFile
  <2> QED BY <2>1, <2>2, <2>3 DEF LoadInv
<1>3. CASE Step
  <2>1. steps \in Nat /\ steps' = steps + 1
    BY <1>3 DEF LoadInv, Step
  <2>2. steps' \in Nat /\ steps' # 0
    BY <2>1
  <2> QED BY <2>2 DEF LoadInv
<1>4. CASE UNCHANGED vars
  <2>1. UNCHANGED <<phase, err, file, m, steps>>
    BY <1>4 DEF vars, asmVars
  <2>2. \A start : Loaded(start)' = Loaded(start)
    BY <2>1, SameFile
  <2> QED BY <2>1, <2>2 DEF LoadInv
<1> QED BY <1>1, <1>2, <1>3, <1>4 DEF ToolchainNext

\* An item of data is what the machine reads at the address that the assembler has for
\* it (asm/asminst.c: dw_cmd and emit; cpu/risc1.c: main; cpu/mmio.c: read_u1b to read_8b),
\* whatever the file and the machine, if the file is one that main loads to its end.
THEOREM DataIsLoaded == ToolchainSpec => []DataArrives
<1>1. ASSUME FileInv, LoadInv PROVE DataArrives
  <2> DEFINE size(i) == Data[src[i].op]
             v(i) == Value(src[i].args, labels)
  <2> SUFFICES ASSUME m # Off, Whole, steps = 0, NEW i \in 1..Len(places),
                      "op" \in DOMAIN src[i], src[i].op \in DOMAIN Data, Straight(i)
               PROVE  MemRead(m.mem, ToNat(places[i]), size(i)) = v(i) \cap 0..(8 * size(i) - 1)
    BY DEF DataArrives
  <2>1. phase = "written" /\ err = "none" /\ WrittenInv
    BY <1>1 DEF FileInv, LoadInv
  <2>2. PICK start \in Machines : m = Loaded(start)
    BY <1>1 DEF LoadInv
  <2>3. Len(file) \in Nat /\ Len(file) <= 65536
    <3>1. Len(file) \in Nat
      <4>1. file \in Seq(Byte)
        BY <2>1 DEF WrittenInv
      <4> HIDE DEF size, v
      <4> QED BY <4>1, LenProperties
    <3>2. Len(file) <= LOAD_MAX
      BY DEF Whole
    <3> HIDE DEF size, v
    <3> QED BY <3>1, <3>2, LoadLimit, SMT
  <2>4. m.mem = Image(start.mem, Len(file))
    <3>1. start = [regs |-> start.regs, cr |-> start.cr, pc |-> start.pc, mem |-> start.mem, io |-> start.io]
      BY <2>2, MachinesAssumption DEF IsMachine
    <3>2. "mem" \in DOMAIN start
      BY <3>1
    <3> QED BY <2>2, <3>2 DEF Loaded, Whole
  <2>5. i \in 1..(at - 1) /\ Lies(i) /\ Certain(src[i], labels)
    BY <2>1 DEF WrittenInv, HasOp
  <2>6. size(i) \in {1, 2, 4, 8}
    BY DataSizes
  <2>7. v(i) \in Word64
    <3>1. /\ src \in Sources /\ AreWords(labels) /\ i \in 1..Len(src)
      BY <1>1, <2>5, SourcesAssumption DEF FileInv, IsFile
    <3>2. IsStatement(src[i])
      BY <3>1, SourcesAssumption DEF IsFile
    <3>3. IsArgs(src[i].args)
      BY <3>2 DEF IsStatement, IsArgs
    <3>4. WithValue(src[i].args, 1, 8 * size(i), labels, "none") = "none"
      BY <2>5 DEF Certain, HasOp
    <3> QED BY <3>1, <3>3, <3>4, ValueWord
  <2>8. PICK o \in 0..Len(file) :
          /\ places[i] = Plus(START, Num(o)) /\ o + size(i) <= Len(file)
          /\ \A k \in 1..size(i) : file[o + k] = Emit(v(i), size(i))[k]
    BY <2>5 DEF Lies
  <2> HIDE DEF size, v
  <2>9. o \in Nat /\ o < 65536
    BY <2>3, <2>6, <2>8
  <2> DEFINE base == 65536 + o
  <2>10. ToNat(places[i]) = base
    BY <2>8, <2>9, LoadedAddress
  <2>11. base \in Nat /\ size(i) \in 1..8
    BY <2>6, <2>9
  <2>12. ASSUME NEW k \in 1..size(i)
         PROVE  /\ base + k - 1 \in Nat /\ base + k - 1 >= 65536
                /\ base + k - 1 <= 65535 + Len(file) /\ base + k - 1 - 65535 = o + k
    BY <2>3, <2>6, <2>8, SMT
  <2>13. ASSUME NEW k \in 1..size(i)
         PROVE  /\ base + k - 1 \in DOMAIN m.mem
                /\ m.mem[base + k - 1] = Get(v(i), 8 * (size(i) - k), 8)
    <3> DEFINE n == base + k - 1
    <3>1. n \in Nat /\ n >= 65536 /\ n <= 65535 + Len(file) /\ n - 65535 = o + k
      BY <2>12
    <3>2. file[o + k] = Emit(v(i), size(i))[k]
      BY <2>8
    <3> HIDE DEF n, base
    <3>3. Emit(v(i), size(i))[k] = Get(v(i), 8 * (size(i) - k), 8)
      <4>1. size(i) \in Nat
        BY <2>6
      <4> QED BY <4>1, BytesWritten
    <3>4. n \in DOMAIN m.mem /\ m.mem[n] = file[n - 65535]
      BY <2>3, <2>4, <3>1, ImageByte
    <3>5. n \in DOMAIN m.mem /\ m.mem[n] = Get(v(i), 8 * (size(i) - k), 8)
      BY <3>1, <3>2, <3>3, <3>4
    <3> QED BY <3>5 DEF n
  <2> HIDE DEF base
  <2>14. ASSUME NEW j \in 0..(size(i) - 1)
         PROVE  MemByte(m.mem, base + j) = Get(v(i), 8 * (size(i) - 1 - j), 8)
    <3>1. /\ j + 1 \in 1..size(i) /\ size(i) - (j + 1) = size(i) - 1 - j
          /\ base + (j + 1) - 1 = base + j
      BY <2>11, SMTT(60)
    <3> QED BY <2>13, <3>1 DEF MemByte
  <2>15. HoldsBytes(m.mem, base, size(i), v(i))
    BY <2>14 DEF HoldsBytes
  <2>16. MemRead(m.mem, base, size(i)) = v(i) \cap 0..(8 * size(i) - 1)
    BY <2>7, <2>11, <2>15, BytesRead
  <2> QED BY <2>10, <2>16
<1>2. ToolchainInit => LoadInv
  BY DEF ToolchainInit, LoadInv
<1> QED BY <1>1, <1>2, LoadStep, FileInit, FileStep, PTL DEF ToolchainSpec
-----------------------------------------------------------------------------
(* Sums of words, and what is lost of them.                                 *)

\* The lowest bits of a sum come from those of the summands.
SameLow(x, y) == \A b \in Bits : b \in x <=> b \in y
LEMMA LowCarry ==
    ASSUME NEW x, NEW y, NEW u, NEW v, SameLow(x, u), SameLow(y, v), NEW b \in Bits,
           x \subseteq Nat, Carry(x, y, b)
    PROVE  Carry(u, v, b)
<1>1. PICK c \in x : c \in y /\ c < b /\ (c + 1)..(b - 1) \subseteq x \cup y
  BY DEF Carry
<1>2. c \in Bits /\ c \in u /\ c \in v
  BY <1>1 DEF Bits, SameLow
<1>3. (c + 1)..(b - 1) \subseteq Bits
  BY <1>1 DEF Bits
<1>4. (c + 1)..(b - 1) \subseteq u \cup v
  BY <1>1, <1>3 DEF SameLow
<1> QED BY <1>1, <1>2, <1>4 DEF Carry

LEMMA LowSum ==
    ASSUME NEW x, x \subseteq Nat, NEW y, y \subseteq Nat, NEW u, u \subseteq Nat, NEW v, v \subseteq Nat,
           SameLow(x, u), SameLow(y, v)
    PROVE  WideSum(x, y) \cap Bits = Plus(u, v)
<1>1. SameLow(u, x) /\ SameLow(v, y)
  BY DEF SameLow
<1>2. \A b \in Bits : Carry(x, y, b) <=> Carry(u, v, b)
  BY <1>1, LowCarry
<1>3. ASSUME NEW b \in Bits PROVE b \in WideSum(x, y) <=> b \in Plus(u, v)
  <2>1. b \in 0..(67 - 1) /\ b \in 0..(64 - 1)
    BY DEF Bits
  <2>2. b \in WideSum(x, y) <=> (((b \in x) # (b \in y)) # Carry(x, y, b))
    BY <2>1, Zenon DEF WideSum, PlusIn
  <2>3. b \in Plus(u, v) <=> (((b \in u) # (b \in v)) # Carry(u, v, b))
    BY <2>1, Zenon DEF Plus, PlusIn
  <2>4. (b \in x <=> b \in u) /\ (b \in y <=> b \in v) /\ (Carry(x, y, b) <=> Carry(u, v, b))
    BY <1>2 DEF SameLow
  <2>5. ((b \in x) # (b \in y)) <=> ((b \in u) # (b \in v))
    BY <2>4
  <2>6. (((b \in x) # (b \in y)) # Carry(x, y, b)) <=> (((b \in u) # (b \in v)) # Carry(u, v, b))
    <3>1. Carry(x, y, b) \in BOOLEAN /\ Carry(u, v, b) \in BOOLEAN
      BY DEF Carry
    <3> QED BY <2>4, <2>5, <3>1
  <2> QED BY <2>2, <2>3, <2>6, Zenon
<1>4. Plus(u, v) \subseteq Bits
  BY PlusWord DEF Word64
<1> QED BY <1>3, <1>4

\* A word with its sign in 67 bits.
LEMMA WideBits ==
    ASSUME NEW x \in Word64
    PROVE  /\ Wide(x) \subseteq 0..66 /\ Wide(x) \cap Bits = x /\ SameLow(Wide(x), x)
           /\ \A b \in 63..66 : b \in Wide(x) <=> 63 \in x
           /\ FitsWord(Wide(x))
<1>1. x \subseteq 0..63
  BY DEF Word64, Bits
<1>2. \A b \in Int : b \in Wide(x) <=> b \in x \/ (b \in 64..66 /\ 63 \in x)
  BY DEF Wide, Negative, Sign
<1>3. Wide(x) \subseteq 0..66
  BY <1>1 DEF Wide
<1>4. \A b \in 63..66 : b \in Wide(x) <=> 63 \in x
  BY <1>1, <1>2
<1>5. SameLow(Wide(x), x)
  BY <1>2 DEF SameLow, Bits
<1>6. Wide(x) \cap Bits = x
  BY <1>1, <1>5 DEF SameLow, Bits
<1>7. FitsWord(Wide(x))
  BY <1>4 DEF FitsWord
<1> QED BY <1>3, <1>4, <1>5, <1>6, <1>7

LEMMA WideIs ==
    ASSUME NEW w, w \subseteq 0..66, FitsWord(w)
    PROVE  w = Wide(w \cap Bits) /\ w \cap Bits \in Word64
<1> DEFINE x == w \cap Bits
<1>1. x \in Word64
  BY DEF Word64
<1>2. \A b \in Bits : b \in w <=> b \in Wide(x)
  BY <1>1, WideBits
<1>3. 63 \in x <=> 63 \in w
  BY DEF Bits
<1>4. \A b \in 63..66 : b \in w <=> 63 \in w
  <2>1. CASE 63..66 \subseteq w
    BY <2>1
  <2>2. CASE 63..66 \cap w = {}
    BY <2>2
  <2> QED BY <2>1, <2>2 DEF FitsWord
<1>5. \A b \in 63..66 : b \in Wide(x) <=> 63 \in x
  BY <1>1, WideBits
<1>6. Wide(x) \subseteq 0..66
  BY <1>1, WideBits
<1>7. \A b \in 0..66 : b \in w <=> b \in Wide(x)
  <2> SUFFICES ASSUME NEW b \in 0..66 PROVE b \in w <=> b \in Wide(x)
    OBVIOUS
  <2> HIDE DEF x
  <2>1. b \in Bits \/ b \in 63..66
    BY DEF Bits
  <2> QED BY <1>2, <1>3, <1>4, <1>5, <2>1
<1> HIDE DEF x
<1>8. w = Wide(x)
  BY <1>6, <1>7
<1> QED BY <1>1, <1>8 DEF x

LEMMA WideBit ==
    ASSUME NEW x, NEW y, NEW b \in 0..66
    PROVE  b \in WideSum(x, y) <=> ~ ((b \in x <=> b \in y) <=> ~Carry(x, y, b))
<1>1. b \in 0..(67 - 1)
  OBVIOUS
<1>2. ((b \in x) # (b \in y)) <=> ~ (b \in x <=> b \in y)
  OBVIOUS
<1>3. ((b \in x) # (b \in y)) \in BOOLEAN /\ Carry(x, y, b) \in BOOLEAN
  BY DEF Carry
<1>4. b \in WideSum(x, y) <=> (((b \in x) # (b \in y)) # Carry(x, y, b))
  BY <1>1, Zenon DEF WideSum, PlusIn
<1>5. (((b \in x) # (b \in y)) # Carry(x, y, b))
        <=> ~ (((b \in x) # (b \in y)) <=> Carry(x, y, b))
  BY <1>3
<1> QED BY <1>2, <1>4, <1>5, Zenon

\* The sum of two signed words is one unless the test for overflow (cpu/risc2.c) says no.
LEMMA WideFits ==
    ASSUME NEW x \in Word64, NEW y \in Word64
    PROVE  LET z == WideSum(Wide(x), Wide(y)) IN
           /\ z \subseteq 0..66 /\ z \cap Bits = Plus(x, y)
           /\ FitsWord(z) <=> ~Overflows(x, y)
<1> DEFINE u == Wide(x)
           v == Wide(y)
           z == WideSum(u, v)
<1>1. /\ u \subseteq 0..66 /\ v \subseteq 0..66 /\ SameLow(u, x) /\ SameLow(v, y)
      /\ \A b \in 63..66 : (b \in u <=> 63 \in x) /\ (b \in v <=> 63 \in y)
  BY WideBits
<1>2. x \subseteq Nat /\ y \subseteq Nat
  BY DEF Word64, Bits
<1> HIDE DEF u, v
<1>3. z \cap Bits = Plus(x, y)
  <2>1. u \subseteq Nat /\ v \subseteq Nat
    BY <1>1
  <2> QED BY <1>1, <1>2, <2>1, LowSum
<1>4. z \subseteq 0..66
  BY DEF WideSum, PlusIn
<1>5. \A b \in {63, 64, 65, 66} :
        b \in z <=> ~ ((63 \in x <=> 63 \in y) <=> ~Carry(u, v, b))
  <2> SUFFICES ASSUME NEW b \in {63, 64, 65, 66}
               PROVE  b \in z <=> ~ ((63 \in x <=> 63 \in y) <=> ~Carry(u, v, b))
    OBVIOUS
  <2>1. b \in 0..66 /\ b \in 63..66
    OBVIOUS
  <2>2. b \in z <=> ~ ((b \in u <=> b \in v) <=> ~Carry(u, v, b))
    BY <2>1, WideBit
  <2>3. (b \in u <=> 63 \in x) /\ (b \in v <=> 63 \in y)
    BY <1>1, <2>1
  <2> QED BY <2>2, <2>3, Zenon
<1>6. \A b \in {63, 64, 65} :
        Carry(u, v, b + 1) <=> \/ 63 \in x /\ 63 \in y
                               \/ (63 \in x \/ 63 \in y) /\ Carry(u, v, b)
  <2> SUFFICES ASSUME NEW b \in {63, 64, 65}
               PROVE  Carry(u, v, b + 1) <=> \/ 63 \in x /\ 63 \in y
                                             \/ (63 \in x \/ 63 \in y) /\ Carry(u, v, b)
    OBVIOUS
  <2>1. b \in Nat /\ b \in 63..66 /\ u \subseteq Int /\ v \subseteq Int
    BY <1>1
  <2>2. Carry(u, v, b + 1) <=> \/ b \in u /\ b \in v
                               \/ (b \in u \/ b \in v) /\ Carry(u, v, b)
    BY <2>1, CarryStep
  <2>3. (b \in u <=> 63 \in x) /\ (b \in v <=> 63 \in y)
    BY <1>1, <2>1
  <2> QED BY <2>2, <2>3, Zenon
<1>7. /\ Carry(u, v, 64) <=> (63 \in x /\ 63 \in y) \/ ((63 \in x \/ 63 \in y) /\ Carry(u, v, 63))
      /\ Carry(u, v, 65) <=> (63 \in x /\ 63 \in y) \/ ((63 \in x \/ 63 \in y) /\ Carry(u, v, 64))
      /\ Carry(u, v, 66) <=> (63 \in x /\ 63 \in y) \/ ((63 \in x \/ 63 \in y) /\ Carry(u, v, 65))
  <2>1. 63 + 1 = 64 /\ 64 + 1 = 65 /\ 65 + 1 = 66
    OBVIOUS
  <2> QED BY <1>6, <2>1
<1>8. 63 \in z <=> Negative(Plus(x, y))
  BY <1>3 DEF Negative, Sign, Bits
<1>9. FitsWord(z) <=> /\ 64 \in z <=> 63 \in z
                      /\ 65 \in z <=> 63 \in z
                      /\ 66 \in z <=> 63 \in z
  <2>1. \A b \in Int : b \in 63..66 <=> b = 63 \/ b = 64 \/ b = 65 \/ b = 66
    OBVIOUS
  <2> HIDE DEF z
  <2>2. 63..66 \subseteq z <=> 63 \in z /\ 64 \in z /\ 65 \in z /\ 66 \in z
    BY <2>1
  <2>3. 63..66 \cap z = {} <=> 63 \notin z /\ 64 \notin z /\ 65 \notin z /\ 66 \notin z
    BY <2>1
  <2> QED BY <2>2, <2>3 DEF FitsWord
<1>10. Overflows(x, y) <=> /\ 63 \in x <=> 63 \in y
                           /\ ~ (63 \in z <=> 63 \in x)
  <2>1. /\ Negative(x) <=> 63 \in x
        /\ Negative(y) <=> 63 \in y
        /\ Negative(Plus(x, y)) <=> 63 \in z
    BY <1>8 DEF Negative, Sign
  <2>2. Negative(x) \in BOOLEAN /\ Negative(y) \in BOOLEAN /\ Negative(Plus(x, y)) \in BOOLEAN
    BY DEF Negative
  <2> HIDE DEF z
  <2>3. Overflows(x, y) <=> (Negative(x) <=> Negative(y)) /\ ~(Negative(Plus(x, y)) <=> Negative(x))
    BY <2>2 DEF Overflows
  <2> QED BY <2>1, <2>3, Zenon
<1>11. /\ 63 \in z <=> ~ ((63 \in x <=> 63 \in y) <=> ~Carry(u, v, 63))
       /\ 64 \in z <=> ~ ((63 \in x <=> 63 \in y) <=> ~Carry(u, v, 64))
       /\ 65 \in z <=> ~ ((63 \in x <=> 63 \in y) <=> ~Carry(u, v, 65))
       /\ 66 \in z <=> ~ ((63 \in x <=> 63 \in y) <=> ~Carry(u, v, 66))
  BY <1>5
<1> HIDE DEF z
<1>12. FitsWord(z) <=> ~Overflows(x, y)
  BY <1>7, <1>9, <1>10, <1>11, Zenon
<1> QED BY <1>3, <1>4, <1>12, Zenon DEF z, u, v

\* The negation of a signed word is one, but for the least.
LEMMA NegNegative ==
    ASSUME NEW s \in Word64, Negative(s), Negative(Neg(s))
    PROVE  s = {Sign}
<1> DEFINE n == Not(s)
<1>1. s \subseteq 0..63
  BY DEF Word64, Bits
<1>2. \A b \in 0..63 : b \in n <=> b \notin s
  BY DEF Not, Ones, Bits
<1>3. 63 \in s /\ 63 \notin n
  BY DEF Negative, Sign, Not
<1>4. Carry(n, {0}, 63)
  <2>1. 63 \in Bits /\ 63 \in Plus(n, {0})
    BY DEF Bits, Negative, Neg, Sign
  <2>2. 63 \in Plus(n, {0}) <=> ~ ((63 \in n <=> 63 \in {0}) <=> ~Carry(n, {0}, 63))
    BY <2>1, SumBit
  <2>3. 63 \notin {0}
    OBVIOUS
  <2> HIDE DEF n
  <2> QED BY <1>3, <2>1, <2>2, <2>3, Zenon
<1> HIDE DEF n
<1>5. 0 \in n /\ (0 + 1)..(63 - 1) \subseteq n \cup {0}
  <2>1. PICK c \in n : c \in {0} /\ c < 63 /\ (c + 1)..(63 - 1) \subseteq n \cup {0}
    BY <1>4 DEF Carry
  <2> QED BY <2>1
<1>6. \A b \in 0..62 : b \in n
  <2>1. \A b \in 1..62 : b \in n
    BY <1>5
  <2> QED BY <1>5, <2>1
<1>7. \A b \in 0..62 : b \notin s
  BY <1>2, <1>6
<1>8. \A b \in 0..63 : b \in s <=> b = 63
  BY <1>3, <1>7
<1> HIDE DEF n
<1>9. s = {63}
  <2>1. \A b \in s : b = 63
    BY <1>1, <1>8, Zenon
  <2> QED BY <1>3, <2>1, Zenon
<1> QED BY <1>9 DEF Sign

LEMMA WideNegates ==
    ASSUME NEW s \in Word64
    PROVE  /\ WideNeg(Wide(s)) \subseteq 0..66
           /\ WideNeg(Wide(s)) \cap Bits = Neg(s)
           /\ s # {Sign} => WideNeg(Wide(s)) = Wide(Neg(s))
<1>1. Not(s) \in Word64 /\ {0} \in Word64 /\ Neg(s) \in Word64
  BY PlusWord DEF Not, Ones, Word64, Bits, Neg
<1>2. 0..66 \ Wide(s) = Wide(Not(s))
  <2>1. \A b \in 0..63 : b \in Not(s) <=> b \notin s
    BY DEF Not, Ones, Bits
  <2>2. Wide(s) \subseteq 0..66 /\ Wide(Not(s)) \subseteq 0..66
    BY <1>1, WideBits
  <2>3. /\ \A b \in 63..66 : (b \in Wide(s) <=> 63 \in s) /\ (b \in Wide(Not(s)) <=> 63 \in Not(s))
        /\ SameLow(Wide(s), s) /\ SameLow(Wide(Not(s)), Not(s))
    BY <1>1, WideBits
  <2>4. ASSUME NEW b \in 0..66 PROVE b \in Wide(Not(s)) <=> b \notin Wide(s)
    <3>1. CASE b \in 0..63
      <4>1. (b \in Wide(s) <=> b \in s) /\ (b \in Wide(Not(s)) <=> b \in Not(s))
        BY <2>3, <3>1, Zenon DEF SameLow, Bits
      <4> QED BY <2>1, <3>1, <4>1, Zenon
    <3>2. CASE b \in 64..66
      <4>1. (b \in Wide(s) <=> 63 \in s) /\ (b \in Wide(Not(s)) <=> 63 \in Not(s))
        BY <2>3, <3>2
      <4>2. 63 \in Not(s) <=> 63 \notin s
        BY <2>1
      <4> QED BY <4>1, <4>2, Zenon
    <3> QED BY <3>1, <3>2
  <2> QED BY <2>2, <2>4
<1>3. Wide({0}) = {0}
  BY DEF Wide, Negative, Sign
<1> DEFINE z == WideSum(Wide(Not(s)), Wide({0}))
<1>4. WideNeg(Wide(s)) = z
  BY <1>2, <1>3 DEF WideNeg
<1>5. z \subseteq 0..66 /\ z \cap Bits = Neg(s) /\ (FitsWord(z) <=> ~Overflows(Not(s), {0}))
  BY <1>1, WideFits DEF Neg
<1> HIDE DEF z
<1>6. ASSUME s # {Sign} PROVE z = Wide(Neg(s))
  <2>1. ~Overflows(Not(s), {0})
    <3>1. ~Negative({0}) /\ (Negative(Not(s)) <=> ~Negative(s))
      BY DEF Negative, Sign, Not, Ones, Bits
    <3>2. Plus(Not(s), {0}) = Neg(s)
      BY DEF Neg
    <3>3. ~(Negative(s) /\ Negative(Neg(s)))
      BY <1>6, NegNegative
    <3>4. ASSUME Overflows(Not(s), {0}) PROVE FALSE
      <4>1. Negative(Not(s)) = Negative({0}) /\ Negative(Neg(s)) # Negative(Not(s))
        BY <3>2, <3>4 DEF Overflows
      <4>2. ~Negative(Not(s))
        BY <3>1, <4>1
      <4>3. Negative(Neg(s))
        BY <4>1, <4>2 DEF Negative
      <4> QED BY <3>1, <3>3, <4>2, <4>3
    <3> QED BY <3>4
  <2> QED BY <1>5, <2>1, WideIs
<1> QED BY <1>4, <1>5, <1>6
-----------------------------------------------------------------------------
LEMMA SumMeans ==
    ASSUME NEW b \in Word64, NEW c \in Word64, NEW d \in Word64, NEW subtract \in BOOLEAN
    PROVE  LET two == WideSum(Wide(c), Wide(d))
               all == WideSum(Wide(b), IF subtract THEN WideNeg(two) ELSE two)
               s == Plus(c, d)
               t == IF subtract THEN Neg(s) ELSE s
           IN  /\ all \cap Bits = Plus(b, t)
               /\ FitsWord(two) /\ ~(subtract /\ two \cap Bits = {Sign})
                    => (FitsWord(all) <=> ~Overflows(b, t))
<1> DEFINE two == WideSum(Wide(c), Wide(d))
           s == Plus(c, d)
           t == IF subtract THEN Neg(s) ELSE s
           term == IF subtract THEN WideNeg(two) ELSE two
           all == WideSum(Wide(b), term)
<1>1. two \subseteq 0..66 /\ two \cap Bits = s /\ s \in Word64
  BY WideFits, PlusWord
<1>2. t \in Word64
  BY <1>1, PlusWord DEF Neg
<1>3. /\ Wide(b) \subseteq 0..66 /\ SameLow(Wide(b), b) /\ b \subseteq 0..63
  BY WideBits DEF Word64, Bits
<1> HIDE DEF two, s
<1>4. term \subseteq 0..66 /\ SameLow(term, t)
  <2>1. CASE ~subtract
    <3>1. SameLow(two, s)
      BY <1>1 DEF SameLow
    <3> QED BY <1>1, <2>1, <3>1
  <2>2. CASE subtract
    <3> DEFINE x == 0..66 \ two
               n == Not(s)
    <3>1. SameLow(x, n)
      <4>1. \A e \in Bits : e \in two <=> e \in s
        BY <1>1
      <4> QED BY <4>1 DEF SameLow, Not, Ones, Bits
    <3>2. SameLow({0}, {0})
      BY DEF SameLow
    <3>3. x \subseteq Nat /\ n \subseteq Nat /\ {0} \subseteq Nat
      BY DEF Not, Ones, Bits
    <3>4. WideNeg(two) = WideSum(x, {0}) /\ Neg(s) = Plus(n, {0})
      BY DEF WideNeg, Neg
    <3> HIDE DEF x, n
    <3>5. WideSum(x, {0}) \cap Bits = Plus(n, {0})
      BY <3>1, <3>2, <3>3, LowSum
    <3>6. WideSum(x, {0}) \subseteq 0..66
      BY DEF WideSum, PlusIn
    <3>7. WideNeg(two) \cap Bits = Neg(s) /\ WideNeg(two) \subseteq 0..66
      BY <3>4, <3>5, <3>6
    <3>8. SameLow(WideNeg(two), Neg(s))
      BY <3>7 DEF SameLow
    <3> QED BY <2>2, <3>7, <3>8
  <2> QED BY <2>1, <2>2
<1>5. all \cap Bits = Plus(b, t)
  <2>1. Wide(b) \subseteq Nat /\ b \subseteq Nat /\ term \subseteq Nat /\ t \subseteq Nat
    BY <1>2, <1>3, <1>4 DEF Word64, Bits
  <2> HIDE DEF t, term
  <2> QED BY <1>3, <1>4, <2>1, LowSum
<1>6. ASSUME FitsWord(two), ~(subtract /\ two \cap Bits = {Sign})
      PROVE  FitsWord(all) <=> ~Overflows(b, t)
  <2>1. two = Wide(s)
    BY <1>1, <1>6, WideIs
  <2>2. term = Wide(t)
    <3>1. CASE subtract
      <4>1. s # {Sign}
        BY <1>1, <1>6, <3>1
      <4> QED BY <1>1, <2>1, <3>1, <4>1, WideNegates
    <3>2. CASE ~subtract
      BY <2>1, <3>2
    <3> QED BY <3>1, <3>2
  <2> HIDE DEF t, term
  <2> QED BY <1>2, <2>2, WideFits
<1> QED BY <1>5, <1>6, Zenon DEF two, s, t, term, all
-----------------------------------------------------------------------------
(* Machines.                                                                *)

\* The machine that goes on at p.
At(k, p) == [k EXCEPT !.pc = p]

LEMMA AtMachine ==
    ASSUME NEW k, IsMachine(k), NEW p \in Word64
    PROVE  /\ IsMachine(At(k, p)) /\ At(k, p).pc = p
           /\ At(k, p).regs = k.regs /\ At(k, p).cr = k.cr
           /\ At(k, p).mem = k.mem /\ At(k, p).io = k.io
<1>1. At(k, p) = [regs |-> k.regs, cr |-> k.cr, pc |-> p, mem |-> k.mem, io |-> k.io]
  BY DEF At, IsMachine
<1> HIDE DEF At
<1> QED BY <1>1 DEF IsMachine

LEMMA RegAt ==
    ASSUME NEW k, IsMachine(k), NEW p \in Word64, NEW r \in 0..31
    PROVE  Reg(At(k, p), r) = Reg(k, r) /\ Reg(k, r) \in Word64
<1>1. {} \in Word64
  BY DEF Word64
<1> QED BY <1>1, AtMachine DEF Reg, IsMachine

LEMMA SetRegAt ==
    ASSUME NEW k, IsMachine(k), NEW p \in Word64, NEW r \in 0..31, NEW v
    PROVE  /\ SetReg(At(k, p), r, v) = [SetReg(k, r, v) EXCEPT !.pc = p]
           /\ [SetReg(At(k, p), r, v) EXCEPT !.pc = p] = SetReg(At(k, p), r, v)
<1>1. CASE r = 0
  <2>1. SetReg(At(k, p), r, v) = At(k, p) /\ SetReg(k, r, v) = k
    BY <1>1 DEF SetReg
  <2>2. At(k, p) = [regs |-> k.regs, cr |-> k.cr, pc |-> p, mem |-> k.mem, io |-> k.io]
    BY DEF At, IsMachine
  <2>3. [At(k, p) EXCEPT !.pc = p] = At(k, p)
    BY <2>2
  <2> QED BY <2>1, <2>3 DEF At
<1>2. CASE r # 0
  <2> DEFINE g == [k.regs EXCEPT ![r] = v]
  <2>1. At(k, p) = [regs |-> k.regs, cr |-> k.cr, pc |-> p, mem |-> k.mem, io |-> k.io]
    BY DEF At, IsMachine
  <2>2. SetReg(k, r, v) = [regs |-> g, cr |-> k.cr, pc |-> k.pc, mem |-> k.mem, io |-> k.io]
    <3>1. SetReg(k, r, v) = [k EXCEPT !.regs = g]
      BY <1>2 DEF SetReg
    <3> HIDE DEF g
    <3> QED BY <3>1 DEF IsMachine
  <2>3. SetReg(At(k, p), r, v) = [regs |-> g, cr |-> k.cr, pc |-> p, mem |-> k.mem, io |-> k.io]
    <3>1. SetReg(At(k, p), r, v) = [At(k, p) EXCEPT !.regs = [At(k, p).regs EXCEPT ![r] = v]]
      BY <1>2 DEF SetReg
    <3>2. At(k, p).regs = k.regs
      BY <2>1
    <3>3. SetReg(At(k, p), r, v) = [At(k, p) EXCEPT !.regs = g]
      BY <3>1, <3>2
    <3> HIDE DEF g
    <3> QED BY <2>1, <3>3
  <2> HIDE DEF g
  <2> QED BY <2>2, <2>3
<1> QED BY <1>1, <1>2

\* An instruction that writes a register goes on behind itself.
LEMMA ToMeans ==
    ASSUME NEW k, IsMachine(k), NEW p \in Word64, NEW r \in 0..31, NEW v
    PROVE  Goes(SetReg(k, r, v), SetReg(At(k, p), r, v), p)
BY SetRegAt DEF Goes

\* A trap.
LEMMA ErrorTraps ==
    ASSUME NEW k, IsMachine(k), NEW p \in Word64, NEW e, NEW fi, NEW fa
    PROVE  Trapped(k, Error(At(k, p), e, fi, fa), e, p)
<1> DEFINE m0 == At(k, p)
           which == ErrorNumber(e)
<1>1. IsMachine(m0) /\ m0.pc = p /\ m0.regs = k.regs /\ m0.cr = k.cr /\ m0.mem = k.mem /\ m0.io = k.io
  BY AtMachine
<1>2. PICK gi, ga : Error(m0, e, fi, fa) = Interrupt(m0, which, gi, ga)
  BY Zenon DEF Error
<1> HIDE DEF m0, which
<1> DEFINE swapped == IF AE \notin m0.cr[PSQ] THEN m0.regs
                      ELSE [m0.regs EXCEPT ![X8] = m0.regs[SP], ![X9] = m0.regs[LR],
                                           ![SP] = m0.cr[ASP]]
           to == Plus(m0.cr[IA], Num(64 * which))
           cr == [m0.cr EXCEPT ![APC] = m0.pc, ![APSQ] = m0.cr[PSQ],
                               ![PSQ] = m0.cr[PSQ] \ EntryClears, ![FI] = gi, ![FA] = ga]
           after == Interrupt(m0, which, gi, ga)
<1>3. after = [m0 EXCEPT !.regs = swapped, !.pc = to, !.cr = cr]
  BY DEF Interrupt
<1>4. cr[APC] = m0.pc /\ cr[APSQ] = m0.cr[PSQ]
  BY <1>1 DEF IsMachine, APC, APSQ, PSQ, FI, FA
<1>5. AE \notin m0.cr[PSQ] => swapped = m0.regs
  OBVIOUS
<1> HIDE DEF swapped, to, cr, after
<1>6. after.regs = swapped /\ after.pc = to /\ after.cr = cr /\ after.mem = m0.mem /\ after.io = m0.io
  BY <1>1, <1>3 DEF IsMachine
<1>7. /\ after.pc = Plus(k.cr[IA], Num(64 * which))
      /\ after.cr[APC] = p /\ after.cr[APSQ] = k.cr[PSQ]
      /\ AE \notin k.cr[PSQ] => after.regs = k.regs
      /\ after.mem = k.mem /\ after.io = k.io
  BY <1>1, <1>4, <1>5, <1>6 DEF to
<1> QED BY <1>2, <1>7 DEF Trapped, after, m0, which

\* An addition or a subtraction, with its trap.
LEMMA AddsMean ==
    ASSUME NEW k, IsMachine(k), NEW p \in Word64, NEW r \in 0..31,
           NEW b \in Word64, NEW c \in Word64, NEW d \in Word64, NEW subtract \in BOOLEAN,
           NEW after,
           LET s == Plus(c, d)
               t == IF subtract THEN Neg(s) ELSE s
           IN  after = IF OC \in k.cr[PSQ] /\ Overflows(b, t) THEN Error(At(k, p), "OVRF", {}, {})
                       ELSE SetReg(At(k, p), r, Plus(b, t))
    PROVE  Adds(b, c, d, subtract, r, k, after, p)
<1> DEFINE s == Plus(c, d)
           t == IF subtract THEN Neg(s) ELSE s
           two == WideSum(Wide(c), Wide(d))
           all == WideSum(Wide(b), IF subtract THEN WideNeg(two) ELSE two)
           sum == SetReg(At(k, p), r, Plus(b, t))
<1>1. /\ all \cap Bits = Plus(b, t)
      /\ FitsWord(two) /\ ~(subtract /\ two \cap Bits = {Sign}) => (FitsWord(all) <=> ~Overflows(b, t))
  BY SumMeans
<1>2. after = IF OC \in k.cr[PSQ] /\ Overflows(b, t) THEN Error(At(k, p), "OVRF", {}, {}) ELSE sum
  BY Zenon
<1> DEFINE told == FitsWord(two) /\ ~(subtract /\ two \cap Bits = {Sign})
<1>3. ASSUME OC \notin k.cr[PSQ] => after = [SetReg(k, r, all \cap Bits) EXCEPT !.pc = p],
             OC \in k.cr[PSQ] /\ told /\ FitsWord(all)
               => after = [SetReg(k, r, all \cap Bits) EXCEPT !.pc = p],
             OC \in k.cr[PSQ] /\ told /\ ~FitsWord(all) => Trapped(k, after, "OVRF", p)
      PROVE  Adds(b, c, d, subtract, r, k, after, p)
  <2>1. CASE OC \notin k.cr[PSQ]
    BY <1>3, <2>1 DEF Adds
  <2>2. CASE OC \in k.cr[PSQ] /\ ~told
    BY <2>2 DEF Adds
  <2>3. CASE OC \in k.cr[PSQ] /\ told /\ FitsWord(all)
    BY <1>3, <2>3 DEF Adds
  <2>4. CASE OC \in k.cr[PSQ] /\ told /\ ~FitsWord(all)
    BY <1>3, <2>4 DEF Adds
  <2> QED BY <2>1, <2>2, <2>3, <2>4
<1> HIDE DEF s, t, two, all
<1>4. sum = [SetReg(k, r, all \cap Bits) EXCEPT !.pc = p]
  <2>1. sum = SetReg(At(k, p), r, all \cap Bits)
    BY <1>1, Zenon
  <2> DEFINE v == all \cap Bits
  <2> HIDE DEF v, sum
  <2>2. SetReg(At(k, p), r, v) = [SetReg(k, r, v) EXCEPT !.pc = p]
    BY SetRegAt
  <2> QED BY <2>1, <2>2 DEF v
<1>5. Trapped(k, Error(At(k, p), "OVRF", {}, {}), "OVRF", p)
  BY ErrorTraps
<1> HIDE DEF sum, told
<1>6. OC \notin k.cr[PSQ] => after = [SetReg(k, r, all \cap Bits) EXCEPT !.pc = p]
  BY <1>2, <1>4, Zenon
<1>7. told => (FitsWord(all) <=> ~Overflows(b, t))
  BY <1>1 DEF told
<1>8. OC \in k.cr[PSQ] /\ told /\ FitsWord(all)
        => after = [SetReg(k, r, all \cap Bits) EXCEPT !.pc = p]
  BY <1>2, <1>4, <1>7, Zenon
<1>9. OC \in k.cr[PSQ] /\ told /\ ~FitsWord(all) => Trapped(k, after, "OVRF", p)
  BY <1>2, <1>5, <1>7, Zenon
<1> QED BY <1>3, <1>6, <1>8, <1>9, Zenon
-----------------------------------------------------------------------------
(* Words of instructions.                                                   *)

\* Bits above what the halves come to an end at.
LEMMA NothingAbove ==
    ASSUME NEW n \in Int, NEW k \in 0..64, Rest(n, k) = 0
    PROVE  Num(n) \subseteq 0..(k - 1)
<1> DEFINE x == Num(n)
           r(b) == Rest(n, b)
           T == {b \in 0..64 : b < k \/ r(b) = 0}
<1>1. /\ \A b \in 0..64 : r(b) \in Int
      /\ \A b \in 0..63 : r(b) = 2 * r(b + 1) + One(x, b)
      /\ x \in Word64
  BY HalvesNum
<1>2. \A b : One(x, b) \in {0, 1}
  BY DEF One
<1>0. r(k) = 0
  OBVIOUS
<1> HIDE DEF x, r
<1>3. 0 \in T
  BY <1>0
<1>4. ASSUME NEW b \in 0..64, b < 64, b \in T PROVE b + 1 \in T
  <2>1. CASE b < k - 1
    BY <2>1
  <2>2. CASE b = k - 1
    BY <1>0, <2>2
  <2>3. CASE b >= k
    <3>1. b \in 0..63 /\ r(b) = 0
      BY <1>4, <2>3
    <3>2. 0 = 2 * r(b + 1) + One(x, b) /\ r(b + 1) \in Int /\ One(x, b) \in {0, 1}
      BY <1>1, <1>2, <3>1
    <3> DEFINE y == r(b + 1)
               o == One(x, b)
    <3>3. 0 = 2 * y + o /\ y \in Int /\ o \in {0, 1}
      BY <3>2
    <3> HIDE DEF y, o
    <3>4. y = 0
      BY <3>3
    <3>5. b + 1 \in 0..64 /\ r(b + 1) = 0
      BY <3>1, <3>4 DEF y
    <3> QED BY <3>5
  <2> QED BY <2>1, <2>2, <2>3
<1> HIDE DEF T
<1>5. \A b \in 0..64 : b \in T
  BY <1>3, <1>4, Upward
<1>6. ASSUME NEW b \in x PROVE b \in 0..(k - 1)
  <2>1. b \in 0..63
    BY <1>1, <1>6 DEF Word64, Bits
  <2>2. CASE b >= k
    <3>1. r(b) = 0 /\ r(b + 1) = 0 /\ One(x, b) = 1
      BY <1>5, <1>6, <2>1, <2>2 DEF T, One
    <3>2. r(b) = 2 * r(b + 1) + One(x, b)
      BY <1>1, <2>1
    <3> QED BY <3>1, <3>2
  <2> QED BY <2>1, <2>2
<1> QED BY <1>6 DEF x

\* A number of six bits.
LEMMA SixBits ==
    ASSUME NEW n \in 0..63
    PROVE  Num(n) \subseteq 0..5
<1> DEFINE r(i) == Rest(n, i)
<1>1. r(0) = n /\ n \in Int /\ \A i \in 0..63 : r(i + 1) = r(i) \div 2
  <2>1. n \in Int
    OBVIOUS
  <2> QED BY <2>1, HalvesNum
<1> HIDE DEF r
<1>2. \A i \in 0..63, k \in 1..64 : k = i + 1 => r(k) = r(i) \div 2
  BY <1>1, SMT
<1>3. r(1) \in Nat /\ r(1) < 32
  BY <1>1, <1>2, SMT
<1>4. r(2) \in Nat /\ r(2) < 16
  BY <1>2, <1>3, SMT
<1>5. r(3) \in Nat /\ r(3) < 8
  BY <1>2, <1>4, SMT
<1>6. r(4) \in Nat /\ r(4) < 4
  BY <1>2, <1>5, SMT
<1>7. r(5) \in Nat /\ r(5) < 2
  BY <1>2, <1>6, SMT
<1>8. r(6) \in Nat /\ r(6) < 1
  BY <1>2, <1>7, SMT
<1> DEFINE six == 6
           five == 5
<1>9. six \in 0..64 /\ Rest(n, six) = 0 /\ six - 1 = five
  BY <1>8 DEF r
<1> HIDE DEF six, five
<1>10. Num(n) \subseteq 0..(six - 1)
  BY <1>1, <1>9, NothingAbove
<1> QED BY <1>9, <1>10 DEF five

\* The lowest bits of a small number, and that there are no others.
LEMMA SmallBits ==
    ASSUME NEW n \in 0..31
    PROVE  LET x == Num(n) IN
           /\ x \subseteq 0..4
           /\ n = One(x, 0) + 2 * One(x, 1) + 4 * One(x, 2) + 8 * One(x, 3) + 16 * One(x, 4)
           /\ n < 16 => x \subseteq 0..3
           /\ n < 8 => x \subseteq 0..2
<1> DEFINE x == Num(n)
           r(b) == Rest(n, b)
<1>1. /\ r(0) = n /\ \A b \in 0..64 : r(b) \in Int
      /\ \A b \in 0..63 : r(b) = 2 * r(b + 1) + One(x, b)
      /\ x \in Word64
  <2>1. n \in Int
    OBVIOUS
  <2> QED BY <2>1, HalvesNum
<1>2. \A b : One(x, b) \in {0, 1}
  BY DEF One
<1> HIDE DEF x, r
<1>3. \A b \in 0..63, k \in 1..64 : k = b + 1 => r(b) = 2 * r(k) + One(x, b)
  BY <1>1
<1>4. /\ r(0) = 2 * r(1) + One(x, 0) /\ r(1) = 2 * r(2) + One(x, 1)
      /\ r(2) = 2 * r(3) + One(x, 2) /\ r(3) = 2 * r(4) + One(x, 3)
      /\ r(4) = 2 * r(5) + One(x, 4)
  BY <1>3
<1>5. /\ r(1) \in Int /\ r(2) \in Int /\ r(3) \in Int /\ r(4) \in Int /\ r(5) \in Int
      /\ One(x, 0) \in {0, 1} /\ One(x, 1) \in {0, 1} /\ One(x, 2) \in {0, 1}
      /\ One(x, 3) \in {0, 1} /\ One(x, 4) \in {0, 1}
  BY <1>1, <1>2
<1>6. r(5) = 0 /\ (n < 16 => r(4) = 0) /\ (n < 8 => r(3) = 0)
      /\ n = One(x, 0) + 2 * One(x, 1) + 4 * One(x, 2) + 8 * One(x, 3) + 16 * One(x, 4)
  <2>1. r(0) = n
    BY <1>1
  <2> DEFINE q1 == r(1)
             q2 == r(2)
             q3 == r(3)
             q4 == r(4)
             q5 == r(5)
             p0 == One(x, 0)
             p1 == One(x, 1)
             p2 == One(x, 2)
             p3 == One(x, 3)
             p4 == One(x, 4)
  <2>2. /\ n = 2 * q1 + p0 /\ q1 = 2 * q2 + p1 /\ q2 = 2 * q3 + p2 /\ q3 = 2 * q4 + p3
        /\ q4 = 2 * q5 + p4
        /\ q1 \in Int /\ q2 \in Int /\ q3 \in Int /\ q4 \in Int /\ q5 \in Int
        /\ p0 \in {0, 1} /\ p1 \in {0, 1} /\ p2 \in {0, 1} /\ p3 \in {0, 1} /\ p4 \in {0, 1}
    BY <1>4, <1>5, <2>1
  <2> HIDE DEF q1, q2, q3, q4, q5, p0, p1, p2, p3, p4
  <2>3. /\ q5 = 0 /\ (n < 16 => q4 = 0) /\ (n < 8 => q3 = 0)
        /\ n = p0 + 2 * p1 + 4 * p2 + 8 * p3 + 16 * p4
    <3>1. n = 2 * q1 + p0 /\ q1 \in 0..15
      BY <2>2
    <3>2. q1 = 2 * q2 + p1 /\ q2 \in 0..7
      BY <2>2, <3>1
    <3>3. q2 = 2 * q3 + p2 /\ q3 \in 0..3
      BY <2>2, <3>2
    <3>4. q3 = 2 * q4 + p3 /\ q4 \in 0..1
      BY <2>2, <3>3
    <3>5. q5 = 0
      BY <2>2, <3>4
    <3>6. n < 16 => q1 < 8 /\ q2 < 4 /\ q3 < 2 /\ q4 = 0
      <4>1. n < 16 => q1 < 8
        BY <2>2, <3>1
      <4>2. q1 < 8 => q2 < 4
        BY <2>2, <3>1, <3>2
      <4>3. q2 < 4 => q3 < 2
        BY <2>2, <3>2, <3>3
      <4>4. q3 < 2 => q4 = 0
        BY <2>2, <3>3, <3>4
      <4> QED BY <4>1, <4>2, <4>3, <4>4
    <3>7. n < 8 => q3 = 0
      <4>1. n < 8 => q1 < 4
        BY <2>2, <3>1
      <4>2. q1 < 4 => q2 < 2
        BY <2>2, <3>1, <3>2
      <4>3. q2 < 2 => q3 = 0
        BY <2>2, <3>2, <3>3
      <4> QED BY <4>1, <4>2, <4>3
    <3>8. q4 = p4 /\ q3 = 2 * p4 + p3 /\ q2 = 4 * p4 + 2 * p3 + p2
      BY <2>2, <3>3, <3>4, <3>5
    <3>9. q1 = 8 * p4 + 4 * p3 + 2 * p2 + p1
      BY <2>2, <3>2, <3>8
    <3>10. n = 16 * p4 + 8 * p3 + 4 * p2 + 2 * p1 + p0
      BY <2>2, <3>1, <3>9
    <3> QED BY <2>2, <3>5, <3>6, <3>7, <3>10
  <2> QED BY <2>3 DEF q3, q4, q5, p0, p1, p2, p3, p4
<1>9. ASSUME NEW k \in 3..5, r(k) = 0, NEW j, j = k - 1 PROVE x \subseteq 0..j
  <2>1. k \in 0..64 /\ n \in Int
    BY <1>9
  <2> QED BY <1>9, <2>1, NothingAbove DEF x, r
<1>10. x \subseteq 0..4 /\ (n < 16 => x \subseteq 0..3) /\ (n < 8 => x \subseteq 0..2)
  BY <1>6, <1>9
<1> QED BY <1>6, <1>10 DEF x

\* The number of a word of five bits.
LEMMA FiveBits ==
    ASSUME NEW x, x \subseteq 0..4
    PROVE  ToNat(x) \in 0..31 /\ Num(ToNat(x)) = x
<1> DEFINE d(b) == Doubles(x)[b]
<1>1. d(64) = 0 /\ \A b \in 0..63 : d(b) = 2 * d(b + 1) + One(x, b)
  BY DoublesDef, DoublesNat
<1>2. ToNat(x) = d(0)
  BY DEF ToNat
<1>3. \A b : One(x, b) \in {0, 1}
  BY DEF One
<1>4. \A b \in 5..63 : One(x, b) = 0
  BY DEF One
<1> HIDE DEF d
<1>5. d(5) = 0
  <2> DEFINE T == {b \in 0..64 : b < 5 \/ d(b) = 0}
  <2>1. ASSUME NEW b \in 0..64, b < 64, b + 1 \in T PROVE b \in T
    <3>1. CASE b < 5
      BY <3>1
    <3>2. CASE b >= 5
      <4>1. b \in 0..63 /\ d(b + 1) = 0 /\ One(x, b) = 0
        BY <1>4, <2>1, <3>2
      <4>2. d(b) = 2 * 0 + 0
        BY <1>1, <4>1
      <4> QED BY <4>2
    <3> QED BY <3>1, <3>2
  <2>2. 64 \in T
    BY <1>1
  <2> HIDE DEF T
  <2>3. \A b \in 0..64 : b \in T
    BY <2>1, <2>2, Downward
  <2>4. 5 \in 0..64 /\ ~(5 < 5)
    OBVIOUS
  <2> QED BY <2>3, <2>4 DEF T
<1>6. \A b \in 0..63, k \in 1..64 : k = b + 1 => d(b) = 2 * d(k) + One(x, b)
  BY <1>1
<1>7. /\ d(0) = 2 * d(1) + One(x, 0) /\ d(1) = 2 * d(2) + One(x, 1)
      /\ d(2) = 2 * d(3) + One(x, 2) /\ d(3) = 2 * d(4) + One(x, 3)
      /\ d(4) = 2 * d(5) + One(x, 4)
  BY <1>6
<1>8. /\ One(x, 0) \in {0, 1} /\ One(x, 1) \in {0, 1} /\ One(x, 2) \in {0, 1}
      /\ One(x, 3) \in {0, 1} /\ One(x, 4) \in {0, 1}
  BY <1>3
<1>9. d(0) \in 0..31
  BY <1>5, <1>7, <1>8, SMT
<1>10. x \in Word64
  BY DEF Word64, Bits
<1> QED BY <1>2, <1>9, <1>10, NumToNat

LEMMA FieldIn ==
    ASSUME NEW v, NEW pos \in Nat, NEW n \in Nat
    PROVE  Field(v, pos, n) \subseteq pos..(pos + n - 1)
BY DEF Field

\* What the machine finds in a word: the opcode and the function of its row, the first
\* register, and below them what is there.
IsWord(w, o, f, a, low) ==
    /\ o \in 0..15 /\ f \in 0..7 /\ a \subseteq 0..4
    /\ low \subseteq 0..19 \/ (f = 0 /\ low \subseteq 0..22)
    /\ w = Field(Num(o), 28, 4) \cup Field(Num(f), 20, 3) \cup Field(a, 23, 5) \cup low
IsRead(w, o, f, a, low) ==
    /\ w \subseteq 0..31
    /\ OPCODE(w) = o /\ RA(w) = ToNat(a)
    /\ low \subseteq 0..19 => FN(w) = f
    /\ \A b \in 0..19 : b \in w <=> b \in low
    /\ f = 0 => \A b \in 0..22 : b \in w <=> b \in low
LEMMA WordRead ==
    ASSUME NEW w, NEW o, NEW f, NEW a, NEW low, IsWord(w, o, f, a, low)
    PROVE  IsRead(w, o, f, a, low)
<1>0. /\ o \in 0..15 /\ f \in 0..7 /\ a \subseteq 0..4
      /\ low \subseteq 0..19 \/ (f = 0 /\ low \subseteq 0..22)
      /\ w = Field(Num(o), 28, 4) \cup Field(Num(f), 20, 3) \cup Field(a, 23, 5) \cup low
  BY DEF IsWord
<1> DEFINE x == Num(o)
           y == Num(f)
<1>1. /\ x \subseteq 0..3 /\ o = One(x, 0) + 2 * One(x, 1) + 4 * One(x, 2) + 8 * One(x, 3)
      /\ y \subseteq 0..2 /\ f = One(y, 0) + 2 * One(y, 1) + 4 * One(y, 2)
  <2>1. o \in 0..31 /\ o < 16 /\ f \in 0..31 /\ f < 16 /\ f < 8
    BY <1>0
  <2>2. /\ x \subseteq 0..3 /\ y \subseteq 0..2
        /\ o = One(x, 0) + 2 * One(x, 1) + 4 * One(x, 2) + 8 * One(x, 3) + 16 * One(x, 4)
        /\ f = One(y, 0) + 2 * One(y, 1) + 4 * One(y, 2) + 8 * One(y, 3) + 16 * One(y, 4)
    BY <2>1, SmallBits
  <2> HIDE DEF x, y
  <2>3. One(x, 4) = 0 /\ One(y, 3) = 0 /\ One(y, 4) = 0
    BY <2>2 DEF One
  <2>4. \A b : One(x, b) \in {0, 1} /\ One(y, b) \in {0, 1}
    BY DEF One
  <2> QED BY <2>2, <2>3, <2>4
<1>2. f = 0 => y = {}
  BY NumZero
<1> HIDE DEF x, y
<1>3. \A b \in Int : b \in Field(x, 28, 4) <=> b - 28 \in x
  BY <1>1 DEF Field
<1>4. \A b \in Int : b \in Field(y, 20, 3) <=> b - 20 \in y
  BY <1>1 DEF Field
<1>5. \A b \in Int : b \in Field(a, 23, 5) <=> b - 23 \in a
  BY <1>0 DEF Field
<1>6. w = Field(x, 28, 4) \cup Field(y, 20, 3) \cup Field(a, 23, 5) \cup low
  BY <1>0 DEF x, y
<1>7. /\ Field(x, 28, 4) \subseteq 28..31 /\ Field(y, 20, 3) \subseteq 20..22
      /\ Field(a, 23, 5) \subseteq 23..27
  BY DEF Field
<1>8. w \subseteq 0..31
  BY <1>0, <1>6, <1>7
<1>9. ASSUME NEW b \in Int
      PROVE  b \in w <=> b - 28 \in x \/ b - 20 \in y \/ b - 23 \in a \/ b \in low
  BY <1>3, <1>4, <1>5, <1>6
<1>10. \A b \in Int : b \in low => b \in 0..22
  BY <1>0
<1>11. /\ 28 \in w <=> 0 \in x
       /\ 29 \in w <=> 1 \in x
       /\ 30 \in w <=> 2 \in x
       /\ 31 \in w <=> 3 \in x
  <2>1. ASSUME NEW b \in 28..31 PROVE b \in w <=> b - 28 \in x
    <3>1. b \notin low /\ b - 20 \notin y /\ b - 23 \notin a
      BY <1>0, <1>1, <1>10
    <3> QED BY <1>9, <3>1
  <2> QED BY <2>1
<1>12. OPCODE(w) = o
  BY <1>1, <1>11 DEF OPCODE, Three, Bit, One
<1>13. ASSUME low \subseteq 0..19 PROVE FN(w) = f
  <2>1. ASSUME NEW b \in 20..22 PROVE b \in w <=> b - 20 \in y
    <3>1. b \notin low /\ b - 28 \notin x /\ b - 23 \notin a
      BY <1>0, <1>1, <1>13
    <3> QED BY <1>9, <3>1
  <2>2. (20 \in w <=> 0 \in y) /\ (21 \in w <=> 1 \in y) /\ (22 \in w <=> 2 \in y)
    BY <2>1
  <2> QED BY <1>1, <2>2 DEF FN, Three, Bit, One
<1>14. Get(w, 23, 5) = a
  <2>1. ASSUME NEW b \in 23..27 PROVE b \in w <=> b \in Field(a, 23, 5)
    <3>1. b \notin low /\ b - 28 \notin x /\ b - 20 \notin y
      BY <1>0, <1>1, <1>10
    <3> QED BY <1>5, <1>9, <3>1
  <2>2. Exclusive(w, a, 23, 5)
    BY <2>1 DEF Exclusive
  <2>3. a \subseteq Int /\ w \subseteq Int
    BY <1>0, <1>8
  <2>4. Get(w, 23, 5) = Low(a, 5)
    BY <2>2, <2>3, FieldRead
  <2> QED BY <1>0, <2>4, LowRegister
<1>15. \A b \in 0..19 : b \in w <=> b \in low
  <2> SUFFICES ASSUME NEW b \in 0..19 PROVE b \in w <=> b \in low
    OBVIOUS
  <2>1. b - 28 \notin x /\ b - 20 \notin y /\ b - 23 \notin a
    BY <1>0, <1>1
  <2> QED BY <1>9, <2>1
<1>16. ASSUME f = 0, NEW b \in 0..22 PROVE b \in w <=> b \in low
  <2>1. b - 28 \notin x /\ b - 20 \notin y /\ b - 23 \notin a
    BY <1>0, <1>1, <1>2, <1>16
  <2> QED BY <1>9, <2>1
<1> QED BY <1>8, <1>12, <1>13, <1>14, <1>15, <1>16 DEF RA, IsRead
-----------------------------------------------------------------------------
(* Instructions in memory.                                                  *)

IsRegister(x) ==
    IF IsNum(x) THEN x.num \subseteq 0..4 ELSE "reg" \in DOMAIN x /\ x.reg \in 0..31

\* What the assembler expects of the operands of a statement, and the word it makes of them
\* before an address, with the labels of the second pass.
Row(s) == Opcodes[s.op]
Operands(s) ==
    CHOOSE os \in {os \in Forms(Row(s)) : Len(os) = Len(Ordered(Row(s), s.args))} : TRUE
Values(s, next) ==
    [i \in 1..Len(Operands(s)) |-> ValueOf(Operands(s)[i], Ordered(Row(s), s.args)[i], labels, next)]
WordOf(s, next) == Encoded(Row(s), Operands(s), Values(s, next))

\* A statement's instruction is in memory where the machine is about to fetch.
Assembled(s, k) == Instruction(Row(s), s.args, k.pc, "none", labels)
Stands(s, k) ==
    LET a == Translate(k, k.pc) IN
    /\ Assembled(s, k).err = "none"
    /\ LG \notin k.cr[PSQ]
    /\ BusFault(a, 2, Readable) = "none" /\ ~InMmio(a)
    /\ \A j \in 0..3 : MemByte(k.mem, ToNat(a) + j) = Assembled(s, k).bytes[j + 1]

LEMMA AssembledIs ==
    ASSUME NEW s, NEW k, Assembled(s, k).err = "none"
    PROVE  /\ {os \in Forms(Row(s)) : Len(os) = Len(Ordered(Row(s), s.args))} # {}
           /\ Evaluated(Operands(s), Ordered(Row(s), s.args), labels, "none") = "none"
           /\ Assembled(s, k).bytes = Emit(WordOf(s, After(s, k)), InstructionSize(Row(s)))
<1> DEFINE fits == {os \in Forms(Row(s)) : Len(os) = Len(Ordered(Row(s), s.args))}
           err2 == IF fits = {} THEN "syntax"
                   ELSE Evaluated(Operands(s), Ordered(Row(s), s.args), labels, "none")
<1>1. Assembled(s, k).err = err2
  BY DEF Assembled, Instruction, Result, Operands
<1>2. Assembled(s, k).bytes
        = Emit(IF err2 = "none" THEN WordOf(s, After(s, k)) ELSE {}, InstructionSize(Row(s)))
  BY DEF Assembled, Instruction, Result, Operands, WordOf, Values, After, Row
<1>3. fits # {} /\ Evaluated(Operands(s), Ordered(Row(s), s.args), labels, "none") = "none"
  BY <1>1
<1> QED BY <1>1, <1>2, <1>3

LEMMA NumFour == Num(4) = {2}
<1> DEFINE x == Num(4)
<1>1. /\ x \subseteq 0..4
      /\ 4 = One(x, 0) + 2 * One(x, 1) + 4 * One(x, 2) + 8 * One(x, 3) + 16 * One(x, 4)
  BY SmallBits
<1> HIDE DEF x
<1>2. 0 \notin x /\ 1 \notin x /\ 2 \in x /\ 3 \notin x /\ 4 \notin x
  BY <1>1 DEF One
<1>3. \A b \in x : b = 2
  BY <1>1, <1>2
<1>4. x = {2}
  BY <1>2, <1>3
<1> QED BY <1>4 DEF x

LEMMA WordFetched ==
    ASSUME NEW mem, NEW a, NEW x, x \subseteq 0..31,
           BusFault(a, 2, Readable) = "none", ~InMmio(a), HoldsBytes(mem, ToNat(a), 4, x)
    PROVE  FetchWord(mem, a).e = "none" /\ FetchWord(mem, a).v = x
<1> DEFINE n == ToNat(a)
<1>1. n \in Nat
  BY DoublesNat DEF ToNat
<1>2. x \in Word64
  BY DEF Word64, Bits
<1> HIDE DEF n
<1>3. MemRead(mem, n, 4) = x \cap 0..(8 * 4 - 1)
  BY <1>1, <1>2, BytesRead DEF n
<1>4. FetchWord(mem, a).e = "none" /\ FetchWord(mem, a).v = MemRead(mem, n, 2^2) \cap 0..31
  BY DEF FetchWord, ReadValue, n
<1>5. 2^2 = 4 /\ 8 * 4 - 1 = 31
  OBVIOUS
<1>6. x \cap 0..31 \cap 0..31 = x
  OBVIOUS
<1> QED BY <1>3, <1>4, <1>5, <1>6

LEMMA StandsFetched ==
    ASSUME NEW s, NEW k, IsMachine(k), Stands(s, k), InstructionSize(Row(s)) = 4,
           WordOf(s, After(s, k)) \subseteq 0..31
    PROVE  LET a == Translate(k, k.pc) IN
           FetchWord(k.mem, a).e = "none" /\ FetchWord(k.mem, a).v = WordOf(s, After(s, k))
<1> DEFINE a == Translate(k, k.pc)
           n == ToNat(a)
           w == WordOf(s, After(s, k))
<1>1. BusFault(a, 2, Readable) = "none" /\ ~InMmio(a)
  BY DEF Stands
<1>2. Assembled(s, k).bytes = Emit(w, 4)
  BY AssembledIs DEF Stands
<1>3. \A j \in 0..3 : MemByte(k.mem, n + j) = Assembled(s, k).bytes[j + 1]
  BY DEF Stands
<1>4. n \in Nat
  BY DoublesNat DEF ToNat
<1> HIDE DEF a, n, w
<1>5. ASSUME NEW j \in 0..(4 - 1) PROVE MemByte(k.mem, n + j) = Get(w, 8 * (4 - 1 - j), 8)
  <2>1. j + 1 \in 1..4 /\ 4 - (j + 1) = 4 - 1 - j
    OBVIOUS
  <2>2. Emit(w, 4)[j + 1] = Get(w, 8 * (4 - (j + 1)), 8)
    BY <2>1 DEF Emit
  <2> QED BY <1>2, <1>3, <2>1, <2>2
<1>6. HoldsBytes(k.mem, n, 4, w)
  BY <1>5 DEF HoldsBytes
<1>7. w \subseteq 0..31
  BY DEF w
<1> QED BY <1>1, <1>6, <1>7, WordFetched DEF a, n, w

\* The round of lcca_run that fetches it.
LEMMA Executes ==
    ASSUME NEW s, NEW k, IsMachine(k), Stands(s, k), InstructionSize(Row(s)) = 4,
           WordOf(s, After(s, k)) \subseteq 0..31,
           OPCODE(WordOf(s, After(s, k))) \notin {8, 9, 13, 15}
    PROVE  /\ Execute(k) = Operation(At(k, After(s, k)), WordOf(s, After(s, k)))
           /\ After(s, k) \in Word64
<1> DEFINE f == FetchWord(k.mem, Translate(k, k.pc))
           w == WordOf(s, After(s, k))
<1>1. f.e = "none" /\ f.v = w
  BY StandsFetched
<1>2. Num(4) = {2}
  BY NumFour
<1>3. Plus(k.pc, {2}) = After(s, k)
  BY <1>2 DEF After, Row
<1>4. [k EXCEPT !.pc = Plus(@, {2})] = At(k, After(s, k))
  BY <1>3 DEF At
<1>5. LG \notin k.cr[PSQ]
  BY DEF Stands
<1> HIDE DEF f, w
<1>6. Execute(k) = IF f.e # "none" THEN Error(k, f.e, {}, Translate(k, k.pc))
                   ELSE IF LG \in k.cr[PSQ] THEN LongImmediate(At(k, After(s, k)), f.v)
                   ELSE IF OPCODE(f.v) \in {8, 9, 13, 15} THEN Error(k, "EMLT", f.v, k.pc)
                   ELSE Operation(At(k, After(s, k)), f.v)
  BY <1>4, Zenon DEF Execute, f
<1>7. Execute(k) = Operation(At(k, After(s, k)), w)
  <2>1. OPCODE(w) \notin {8, 9, 13, 15}
    BY DEF w
  <2> QED BY <1>1, <1>5, <1>6, <2>1, Zenon
<1>8. After(s, k) \in Word64
  BY PlusWord DEF After
<1> QED BY <1>7, <1>8 DEF w
-----------------------------------------------------------------------------
(* Rows and operands.                                                       *)

LEMMA Rows ==
    ASSUME NEW o \in DOMAIN Opcodes
    PROVE  /\ Opcodes[o].op \in (0..15) \ {8, 9, 13, 15}
           /\ Opcodes[o].fn \in 0..7 /\ Opcodes[o].shamt \in 0..3
BY SMTT(60) DEF Opcodes, I, LsRow, LssRow

LEMMA ArithmeticNames ==
    ASSUME NEW o \in DOMAIN Opcodes
    PROVE  /\ Opcodes[o].form = "rr" => o \in {"add", "sub", "and", "or", "xor", "shl", "sal", "setxc",
                                       "moveq", "movne", "movgt", "movle"}
           /\ Opcodes[o].form = "mv" => o = "mov"
           /\ Opcodes[o].form = "id" => o \in {"inc", "dec"}
           /\ Opcodes[o].form = "mcom" => o = "mcom"
           /\ Opcodes[o].form = "mneg" => o = "mneg"
           /\ Opcodes[o].form = "im" => o \in {"ldi", "ldis"}
BY SMTT(60) DEF Opcodes, I, LsRow, LssRow
\* The operands that the length of the list decides on.
LEMMA Chosen ==
    ASSUME NEW s, NEW os \in Forms(Row(s)),
           \A p \in Forms(Row(s)) : Len(p) = Len(os) => p = os,
           Len(Ordered(Row(s), s.args)) = Len(os)
    PROVE  Operands(s) = os
BY DEF Operands

\* Each operand was taken without an error.
LEMMA Taken ==
    ASSUME NEW s, NEW k, Assembled(s, k).err = "none",
           Len(Operands(s)) \in Nat, NEW i \in 1..Len(Operands(s))
    PROVE  ErrorAfter(Operands(s)[i], Ordered(Row(s), s.args)[i], labels, "none") = "none"
<1> DEFINE os == Operands(s)
           xs == Ordered(Row(s), s.args)
           after(j) == ErrorAfter(os[j], xs[j], labels, IF j = 1 THEN "none" ELSE "none")
           bad == {j \in 1..Len(os) : after(j) # "none"}
<1>1. Evaluated(os, xs, labels, "none") = "none"
  BY AssembledIs
<1>2. (IF os = <<>> THEN "none" ELSE IF bad = {} THEN "none" ELSE after(Min(bad))) = "none"
  BY <1>1 DEF Evaluated
<1>3. os # <<>>
  <2>1. Len(os) # 0
    OBVIOUS
  <2> QED BY <2>1
<1>4. ASSUME bad # {} PROVE FALSE
  <2>1. bad \subseteq Nat
    OBVIOUS
  <2> HIDE DEF bad
  <2>2. \E j \in bad : \A l \in bad : j <= l
    BY <1>4, <2>1, Least
  <2>3. Min(bad) \in bad
    BY <2>2 DEF Min
  <2> QED BY <1>2, <1>3, <1>4, <2>3 DEF bad
<1>5. after(i) = "none"
  BY <1>4
<1> QED BY <1>5

\* The labels are words, and a number is one.
LabelsAreWords == \A x \in DOMAIN labels : labels[x] \in Word64

\* What a form's operand takes, of what the assembler lets pass: not a number below zero
\* for a register, and not one of any kind for a control register, which 48 are.
Fitting(o, x) ==
    /\ IsNum(x) => x.num \in Word64
    /\ o.kind = "reg" => IsRegister(x)
    /\ o.kind = "cr" => ~IsNum(x) /\ x.cr \in 0..47
    /\ o.kind = "lit" => IsNum(x)

LEMMA RegisterTaken ==
    ASSUME NEW o, o.kind = "reg", NEW x, Fitting(o, x), NEW p
    PROVE  LET v == ValueOf(o, x, labels, p) IN
           v \subseteq 0..4 /\ ToNat(v) = RegNo(x) /\ RegNo(x) \in 0..31
<1>1. CASE IsNum(x)
  <2>1. x.num \subseteq 0..4
    BY <1>1 DEF Fitting, IsRegister
  <2>2. ValueOf(o, x, labels, p) = x.num /\ RegNo(x) = ToNat(x.num)
    BY <1>1 DEF ValueOf, RegNo
  <2>3. ToNat(x.num) \in 0..31
    BY <2>1, FiveBits
  <2> QED BY <2>1, <2>2, <2>3
<1>2. CASE ~IsNum(x)
  <2>1. x.reg \in 0..31
    BY <1>2 DEF Fitting, IsRegister
  <2>2. ValueOf(o, x, labels, p) = Num(x.reg) /\ RegNo(x) = x.reg
    BY <1>2 DEF ValueOf, RegNo
  <2> DEFINE n == x.reg
  <2> HIDE DEF n
  <2>3. n \in 0..31
    BY <2>1 DEF n
  <2>4. n \in Nat /\ Near(n)
    BY <2>3 DEF Near
  <2>5. ToNat(Num(n)) = n
    BY <2>4, ToNatNum
  <2>6. Num(n) \subseteq 0..4
    BY <2>3, SmallBits
  <2> QED BY <2>2, <2>3, <2>5, <2>6 DEF n
<1> QED BY <1>1, <1>2

LEMMA LabelIsWord ==
    ASSUME NEW x, LabelsAreWords, LabelError(x, labels, "none") = "none"
    PROVE  LabelValue(x, labels) \in Word64
<1>1. x.name \in DOMAIN labels
  BY DEF LabelError
<1> DEFINE v == labels[x.name]
<1>2. v \in Word64
  BY <1>1 DEF LabelsAreWords
<1>3. \A n \in Nat : Right(v, n) \in Word64
  BY <1>2 DEF Right, Word64, Bits
<1>4. v \cap 0..13 \in Word64 /\ v \cap 0..8 \in Word64
  BY <1>2 DEF Word64
<1>5. \A y : Minus(v, y) \in Word64
  BY PlusWord DEF Minus
<1>6. LabelValue(x, labels) \in {v, Right(v, 14), v \cap 0..13, Right(v, 9), v \cap 0..8}
        \/ \E y : LabelValue(x, labels) = Minus(v, y)
  BY DEF LabelValue
<1> HIDE DEF v
<1> QED BY <1>2, <1>3, <1>4, <1>5, <1>6

LEMMA NumberTaken ==
    ASSUME NEW o, o.kind \in {"num", "lit"}, NEW x, Fitting(o, x), NEW p,
           LabelsAreWords, ErrorAfter(o, x, labels, "none") = "none"
    PROVE  ValueOf(o, x, labels, p) = Given(x) /\ Given(x) \in Word64
<1>1. CASE IsNum(x)
  BY <1>1 DEF Fitting, ValueOf, Given
<1>2. CASE ~IsNum(x)
  <2>1. o.kind = "num"
    BY <1>2 DEF Fitting
  <2>2. LabelError(x, labels, "none") = "none"
    BY <1>2, <2>1 DEF ErrorAfter
  <2>3. ValueOf(o, x, labels, p) = LabelValue(x, labels) /\ Given(x) = LabelValue(x, labels)
    BY <1>2, <2>1 DEF ValueOf, Given
  <2> QED BY <2>2, <2>3, LabelIsWord
<1> QED BY <1>1, <1>2

LEMMA RelTaken ==
    ASSUME NEW o, o.kind = "rel", NEW x, Fitting(o, x), NEW p \in Word64,
           LabelsAreWords, ErrorAfter(o, x, labels, "none") = "none"
    PROVE  LET v == ValueOf(o, x, labels, p)
               there == IF IsNum(x) THEN Plus(p, Given(x)) ELSE Given(x)
           IN  v \in Word64 /\ there \in Word64 /\ Plus(p, v) = there /\ Minus(there, p) = v
<1>1. CASE IsNum(x)
  <2> DEFINE v == x.num
  <2>1. v \in Word64 /\ ValueOf(o, x, labels, p) = v /\ Given(x) = v
    BY <1>1 DEF Fitting, ValueOf, Given
  <2> HIDE DEF v
  <2>2. Plus(p, v) = Plus(v, p) /\ Minus(Plus(v, p), p) = v /\ Plus(p, v) \in Word64
    BY <2>1, PlusCommutes, MinusPlus, PlusWord
  <2> QED BY <1>1, <2>1, <2>2
<1>2. CASE ~IsNum(x)
  <2> DEFINE l == LabelValue(x, labels)
  <2>1. LabelError(x, labels, "none") = "none"
    BY <1>2 DEF ErrorAfter
  <2>2. l \in Word64
    BY <2>1, LabelIsWord
  <2>3. ValueOf(o, x, labels, p) = Minus(l, p) /\ Given(x) = l
    BY <1>2 DEF ValueOf, Given
  <2> HIDE DEF l
  <2>4. Plus(p, Minus(l, p)) = l /\ Minus(l, p) \in Word64
    BY <2>2, MinusPlus
  <2> QED BY <1>2, <2>2, <2>3, <2>4
<1> QED BY <1>1, <1>2
-----------------------------------------------------------------------------
(* Words with registers at 23, 5 and 0 and ten bits more.                   *)

Reads(w, o, f, a, b, c, e) ==
    /\ w \subseteq 0..31 /\ OPCODE(w) = o /\ FN(w) = f
    /\ RA(w) = ToNat(a) /\ RB(w) = ToNat(b) /\ RC(w) = ToNat(c) /\ RR_IMM(w) = Ext(e, 10)

LEMMA LowTen ==
    ASSUME NEW e, e \subseteq 0..9
    PROVE  Low(e, 10) = e
<1>1. 10 - 1 = 9
  OBVIOUS
<1>2. e \cap 0..9 = e
  OBVIOUS
<1> QED BY <1>1, <1>2 DEF Low

LEMMA RrReads ==
    ASSUME NEW o \in 0..15, NEW f \in 0..7,
           NEW a, a \subseteq 0..4, NEW b, b \subseteq 0..4, NEW c, c \subseteq 0..4,
           NEW e, e \subseteq 0..9,
           NEW low, low = Field(b, 5, 5) \cup Field(c, 0, 5) \cup Field(e, 10, 10),
           NEW w, w = Field(Num(o), 28, 4) \cup Field(Num(f), 20, 3) \cup Field(a, 23, 5) \cup low
    PROVE  Reads(w, o, f, a, b, c, e)
<1>1. low \subseteq 0..19
  BY DEF Field
<1>3. \A j \in Int : j \in low <=> j \in Field(b, 5, 5) \/ j \in Field(c, 0, 5) \/ j \in Field(e, 10, 10)
  OBVIOUS
<1>4. /\ Field(b, 5, 5) \subseteq 5..9 /\ Field(c, 0, 5) \subseteq 0..4
      /\ Field(e, 10, 10) \subseteq 10..19
  BY DEF Field
<1>5. /\ w \subseteq 0..31 /\ OPCODE(w) = o /\ RA(w) = ToNat(a) /\ FN(w) = f
      /\ \A j \in 0..19 : j \in w <=> j \in low
  <2>1. IsWord(w, o, f, a, low)
    BY <1>1 DEF IsWord
  <2>2. IsRead(w, o, f, a, low)
    BY <2>1, WordRead
  <2> QED BY <1>1, <2>2 DEF IsRead
<1>6. a \subseteq Int /\ b \subseteq Int /\ c \subseteq Int /\ e \subseteq Int /\ w \subseteq Int
  BY <1>5
<1>7. Get(w, 5, 5) = b
  <2>1. Exclusive(w, b, 5, 5)
    <3>1. ASSUME NEW j \in 5..9 PROVE j \in w <=> j \in Field(b, 5, 5)
      <4>1. j \in w <=> j \in low
        BY <1>5
      <4>2. j \notin Field(c, 0, 5) /\ j \notin Field(e, 10, 10)
        BY <1>4
      <4> QED BY <1>3, <4>1, <4>2
    <3> QED BY <3>1 DEF Exclusive
  <2>2. Get(w, 5, 5) = Low(b, 5)
    BY <1>6, <2>1, FieldRead, ZenonT(60)
  <2> QED BY <2>2, LowRegister
<1>8. Get(w, 0, 5) = c
  <2>1. Exclusive(w, c, 0, 5)
    <3>1. ASSUME NEW j \in 0..4 PROVE j \in w <=> j \in Field(c, 0, 5)
      <4>1. j \in w <=> j \in low
        BY <1>5
      <4>2. j \notin Field(b, 5, 5) /\ j \notin Field(e, 10, 10)
        BY <1>4
      <4> QED BY <1>3, <4>1, <4>2
    <3> QED BY <3>1 DEF Exclusive
  <2>2. Get(w, 0, 5) = Low(c, 5)
    BY <1>6, <2>1, FieldRead, ZenonT(60)
  <2> QED BY <2>2, LowRegister
<1>9. Get(w, 10, 10) = e
  <2>1. Exclusive(w, e, 10, 10)
    <3>1. ASSUME NEW j \in 10..19 PROVE j \in w <=> j \in Field(e, 10, 10)
      <4>1. j \in w <=> j \in low
        BY <1>5
      <4>2. j \notin Field(b, 5, 5) /\ j \notin Field(c, 0, 5)
        BY <1>4
      <4> QED BY <1>3, <4>1, <4>2
    <3> QED BY <3>1 DEF Exclusive
  <2>2. Get(w, 10, 10) = Low(e, 10)
    BY <1>6, <2>1, FieldRead, ZenonT(60)
  <2>3. Low(e, 10) = e
    BY LowTen
  <2> QED BY <2>2, <2>3
<1> QED BY <1>5, <1>7, <1>8, <1>9 DEF Reads, RB, RC, RR_IMM

\* What the operands add to a word.
LEMMA EncodedIs ==
    ASSUME NEW d, NEW os, NEW vs
    PROVE  LET p(i) == Placed(vs[i], os[i].fields) IN
           /\ Len(os) = 0 => Encoded(d, os, vs) = Fixed(d)
           /\ Len(os) = 1 => Encoded(d, os, vs) = Fixed(d) \cup p(1)
           /\ Len(os) = 2 => Encoded(d, os, vs) = Fixed(d) \cup p(1) \cup p(2)
           /\ Len(os) = 3 => Encoded(d, os, vs) = Fixed(d) \cup p(1) \cup p(2) \cup p(3)
           /\ Len(os) = 4 => Encoded(d, os, vs) = Fixed(d) \cup p(1) \cup p(2) \cup p(3) \cup p(4)
<1> DEFINE p(i) == Placed(vs[i], os[i].fields)
           F == Fixed(d)
<1>1. Encoded(d, os, vs) = F \cup UNION {p(i) : i \in 1..Len(os)}
  BY DEF Encoded
<1> HIDE DEF p, F
<1>2. Len(os) = 0 => UNION {p(i) : i \in 1..Len(os)} = {}
  OBVIOUS
<1>3. Len(os) = 1 => UNION {p(i) : i \in 1..Len(os)} = p(1)
  <2>1. Len(os) = 1 => 1..Len(os) = {1}
    OBVIOUS
  <2> QED BY <2>1
<1>4. Len(os) = 2 => UNION {p(i) : i \in 1..Len(os)} = p(1) \cup p(2)
  <2>1. Len(os) = 2 => 1..Len(os) = {1, 2}
    OBVIOUS
  <2> QED BY <2>1
<1>5. Len(os) = 3 => UNION {p(i) : i \in 1..Len(os)} = p(1) \cup p(2) \cup p(3)
  <2>1. Len(os) = 3 => 1..Len(os) = {1, 2, 3}
    OBVIOUS
  <2> QED BY <2>1
<1>6. Len(os) = 4 => UNION {p(i) : i \in 1..Len(os)} = p(1) \cup p(2) \cup p(3) \cup p(4)
  <2>1. Len(os) = 4 => 1..Len(os) = {1, 2, 3, 4}
    OBVIOUS
  <2> QED BY <2>1
<1>7. /\ Len(os) = 0 => Encoded(d, os, vs) = F
      /\ Len(os) = 1 => Encoded(d, os, vs) = F \cup p(1)
      /\ Len(os) = 2 => Encoded(d, os, vs) = F \cup p(1) \cup p(2)
      /\ Len(os) = 3 => Encoded(d, os, vs) = F \cup p(1) \cup p(2) \cup p(3)
      /\ Len(os) = 4 => Encoded(d, os, vs) = F \cup p(1) \cup p(2) \cup p(3) \cup p(4)
  BY <1>1, <1>2, <1>3, <1>4, <1>5, <1>6
<1> QED BY <1>7 DEF p, F

LEMMA FixedIs ==
    ASSUME NEW d, d.form \notin {"tr", "ret", "lgisl"}
    PROVE  Fixed(d) = Field(Num(d.op), 28, 4) \cup Field(Num(d.fn), 20, 3)
                        \cup Field(IF d.form \in {"mcom", "id"} THEN {0} ELSE {}, 10, 10)
<1>1. InstructionSize(d) = 4 /\ 8 * 4 - 4 = 28
  BY DEF InstructionSize
<1>2. Field({0}, 10, 10) = {10} /\ Field({}, 10, 10) = {}
  BY DEF Field
<1> DEFINE o == Field(Num(d.op), 28, 4)
           f == Field(Num(d.fn), 20, 3)
<1>3. Fixed(d) = o \cup f \cup (IF d.form \in {"mcom", "id"} THEN {10} ELSE {})
  <2>1. 8 * InstructionSize(d) - 4 = 28
    BY <1>1
  <2>2. Fixed(d) = Field(Num(d.op), 28, 4) \cup f \cup (IF d.form \in {"mcom", "id"} THEN {10} ELSE {}) \cup {}
    BY <2>1 DEF Fixed
  <2> QED BY <2>2
<1> HIDE DEF o, f
<1> QED BY <1>2, <1>3 DEF o, f

\* A register's number in two places, and the ten bits of a number.
LEMMA RegistersPlaced ==
    ASSUME NEW r, r \subseteq 0..4
    PROVE  /\ Placed(r, A.fields) = Field(r, 23, 5)
           /\ Placed(r, B.fields) = Field(r, 5, 5)
           /\ Placed(r, C.fields) = Field(r, 0, 5)
           /\ Placed(r, AandB.fields) = Field(r, 23, 5) \cup Field(r, 5, 5)
<1>1. /\ Placed(r, A.fields) = Field(r, 23, 5)
      /\ Placed(r, B.fields) = Field(r, 5, 5)
      /\ Placed(r, C.fields) = Field(r, 0, 5)
  BY RegisterPlaced DEF A, B, C
<1>2. AandB.fields = {<<0, 5, 23>>, <<0, 5, 5>>}
  BY DEF AandB, InRegister, Operand
<1>3. Right(r, 0) = r
  <2>1. r \subseteq Nat
    OBVIOUS
  <2> QED BY <2>1, RightNone
<1>4. Placed(r, {<<0, 5, 23>>, <<0, 5, 5>>}) = Field(Right(r, 0), 23, 5) \cup Field(Right(r, 0), 5, 5)
  BY DEF Placed
<1> QED BY <1>1, <1>2, <1>3, <1>4

LEMMA TenPlaced ==
    ASSUME NEW v \in Word64
    PROVE  Placed(v, Number(10, 0, 10, 10).fields) = Field(v \cap 0..9, 10, 10)
<1>1. Number(10, 0, 10, 10).fields = {<<0, 10, 10>>}
  BY DEF Number, Operand
<1>2. v \subseteq Nat
  BY DEF Word64, Bits
<1>3. Placed(v, {<<0, 10, 10>>}) = Field(v, 10, 10)
  <2>1. Placed(v, {<<0, 10, 10>>}) = Field(Right(v, 0), 10, 10)
    BY PlacedOnce, Zenon
  <2> QED BY <1>2, <2>1, RightNone
<1>4. Field(v, 10, 10) = Field(v \cap 0..9, 10, 10)
  <2>1. v \cap 0..9 \cap 0..(10 - 1) = v \cap 0..(10 - 1)
    OBVIOUS
  <2> QED BY <2>1 DEF Field
<1> QED BY <1>1, <1>3, <1>4
-----------------------------------------------------------------------------
(* The words of the instructions on registers.                              *)

\* An instruction's operands, as the machine finds them.
Decodes(w, s, a, b, c, e) ==
    /\ w \subseteq 0..31 /\ OPCODE(w) = Row(s).op /\ FN(w) = Row(s).fn
    /\ RA(w) = a /\ RB(w) = b /\ RC(w) = c /\ RR_IMM(w) = Ext(e, 10)
    /\ a \in 0..31 /\ b \in 0..31 /\ c \in 0..31 /\ e \subseteq 0..9

\* A statement that the assembler takes, with operands as its form asks for them.
Proper(s, k) ==
    /\ s.op \in DOMAIN Opcodes /\ Len(s.args) \in Nat /\ LabelsAreWords
    /\ Assembled(s, k).err = "none"
    /\ \A i \in 1..Len(Operands(s)) : Fitting(Operands(s)[i], Ordered(Row(s), s.args)[i])

LEMMA Filled ==
    ASSUME NEW s, s.op \in DOMAIN Opcodes,
           NEW a, a \subseteq 0..4, NEW b, b \subseteq 0..4, NEW c, c \subseteq 0..4,
           NEW e, e \subseteq 0..9, NEW w,
           w = Field(Num(Row(s).op), 28, 4) \cup Field(Num(Row(s).fn), 20, 3) \cup Field(a, 23, 5)
                 \cup (Field(b, 5, 5) \cup Field(c, 0, 5) \cup Field(e, 10, 10))
    PROVE  Decodes(w, s, ToNat(a), ToNat(b), ToNat(c), e)
<1> DEFINE low == Field(b, 5, 5) \cup Field(c, 0, 5) \cup Field(e, 10, 10)
           o == Row(s).op
           f == Row(s).fn
<1>1. o \in 0..15 /\ f \in 0..7
  BY Rows DEF Row
<1>2. ToNat(a) \in 0..31 /\ ToNat(b) \in 0..31 /\ ToNat(c) \in 0..31
  BY FiveBits
<1>3. w = Field(Num(o), 28, 4) \cup Field(Num(f), 20, 3) \cup Field(a, 23, 5) \cup low
  OBVIOUS
<1>4. low = Field(b, 5, 5) \cup Field(c, 0, 5) \cup Field(e, 10, 10)
  OBVIOUS
<1> HIDE DEF low, o, f
<1>5. Reads(w, o, f, a, b, c, e)
  BY <1>1, <1>3, <1>4, RrReads
<1> QED BY <1>2, <1>5 DEF Reads, Decodes, o, f

LEMMA NothingPlaced ==
    ASSUME NEW pos, NEW n
    PROVE  Field({}, pos, n) = {}
BY DEF Field

\* The value of an operand, for a register or for a number.
LEMMA ValueTaken ==
    ASSUME NEW s, NEW k, Proper(s, k), Len(Operands(s)) \in Nat, NEW i \in 1..Len(Operands(s)),
           NEW next
    PROVE  LET o == Operands(s)[i]
               x == Ordered(Row(s), s.args)[i]
               v == Values(s, next)[i]
           IN  /\ o.kind = "reg" => v \subseteq 0..4 /\ ToNat(v) = RegNo(x) /\ RegNo(x) \in 0..31
               /\ o.kind \in {"num", "lit"} => v = Given(x) /\ v \in Word64
<1> DEFINE o == Operands(s)[i]
           x == Ordered(Row(s), s.args)[i]
           v == Values(s, next)[i]
<1>1. v = ValueOf(o, x, labels, next)
  BY DEF Values
<1>2. Fitting(o, x) /\ ErrorAfter(o, x, labels, "none") = "none" /\ LabelsAreWords
  BY Taken DEF Proper
<1> HIDE DEF o, x, v
<1>3. o.kind = "reg" => v \subseteq 0..4 /\ ToNat(v) = RegNo(x) /\ RegNo(x) \in 0..31
  BY <1>1, <1>2, RegisterTaken
<1>4. o.kind \in {"num", "lit"} => v = Given(x) /\ v \in Word64
  BY <1>1, <1>2, NumberTaken
<1> QED BY <1>3, <1>4 DEF o, x, v

LEMMA Kinds ==
    /\ A.kind = "reg" /\ B.kind = "reg" /\ C.kind = "reg" /\ AandB.kind = "reg"
    /\ \A bits, from, width, to : Number(bits, from, width, to).kind = "num"
BY DEF A, B, C, AandB, InRegister, Operand, Number

LEMMA Distinct ==
    ASSUME NEW x, NEW y, NEW z, Len(x) = 2, Len(y) = 3, Len(z) = 4, NEW o \in {x, y, z}
    PROVE  \A p \in {x, y, z} : Len(p) = Len(o) => p = o
<1>1. Len(x) # Len(y) /\ Len(x) # Len(z) /\ Len(y) # Len(z)
  OBVIOUS
<1>2. \A p \in {x, y, z} : p = x \/ p = y \/ p = z
  OBVIOUS
<1>3. o = x \/ o = y \/ o = z
  OBVIOUS
<1>4. ASSUME NEW p \in {x, y, z}, Len(p) = Len(o) PROVE p = o
  <2>1. p = x \/ p = y \/ p = z
    OBVIOUS
  <2>2. CASE o = x
    BY <1>1, <1>4, <2>1, <2>2
  <2>3. CASE o = y
    BY <1>1, <1>4, <2>1, <2>3
  <2>4. CASE o = z
    BY <1>1, <1>4, <2>1, <2>4
  <2> QED BY <1>3, <2>2, <2>3, <2>4
<1> QED BY <1>4

LEMMA RrWord ==
    ASSUME NEW s, NEW k, NEW next, Proper(s, k), Row(s).form = "rr"
    PROVE  LET n == Len(s.args)
               w == WordOf(s, next)
           IN  /\ n \in {2, 3, 4}
               /\ n = 2 => Decodes(w, s, R(s, 1), R(s, 1), R(s, 2), {})
               /\ n = 3 => Decodes(w, s, R(s, 1), R(s, 2), R(s, 3), {})
               /\ n = 4 => /\ Decodes(w, s, R(s, 1), R(s, 2), R(s, 3), V(s, 4) \cap 0..9)
                           /\ V(s, 4) \in Word64
<1> DEFINE n == Len(s.args)
           w == WordOf(s, next)
           d == Number(10, 0, 10, 10)
           two == <<AandB, C>>
           three == <<A, B, C>>
           four == <<A, B, C, d>>
           v(i) == Values(s, next)[i]
           os == Operands(s)
           O == Field(Num(Row(s).op), 28, 4)
           F == Field(Num(Row(s).fn), 20, 3)
<1>1. Forms(Row(s)) = {two, three, four}
  BY DEF Forms
<1>2. Ordered(Row(s), s.args) = s.args
  BY DEF Ordered
<1>3. Len(two) = 2 /\ Len(three) = 3 /\ Len(four) = 4
  OBVIOUS
<1>4. two[1] = AandB /\ two[2] = C /\ three[1] = A /\ three[2] = B /\ three[3] = C
      /\ four[1] = A /\ four[2] = B /\ four[3] = C /\ four[4] = d
  OBVIOUS
<1>5. Assembled(s, k).err = "none" /\ s.op \in DOMAIN Opcodes
  BY DEF Proper
<1> HIDE DEF two, three, four, d
<1>6. n \in {2, 3, 4}
  <2>1. \E p \in Forms(Row(s)) : Len(p) = Len(s.args)
    BY <1>2, <1>5, AssembledIs
  <2> QED BY <1>1, <1>3, <2>1
<1>7. (n = 2 => os = two) /\ (n = 3 => os = three) /\ (n = 4 => os = four)
  <2>1. ASSUME NEW o \in {two, three, four}, n = Len(o) PROVE os = o
    <3>1. o \in Forms(Row(s))
      BY <1>1, <2>1
    <3>3. \A p \in {two, three, four} : Len(p) = Len(o) => p = o
      BY <1>3, <2>1, Distinct
    <3>4. \A p \in Forms(Row(s)) : Len(p) = Len(o) => p = o
      BY <1>1, <3>3
    <3>2. Len(Ordered(Row(s), s.args)) = Len(o)
      BY <1>2, <2>1
    <3> QED BY <3>1, <3>2, <3>4, Chosen
  <2> QED BY <1>3, <2>1
<1>8. Len(os) = n
  BY <1>3, <1>6, <1>7
<1>9. w = Encoded(Row(s), os, Values(s, next))
  BY DEF WordOf
<1>10. Fixed(Row(s)) = O \cup F
  <2>1. Fixed(Row(s)) = O \cup F \cup Field({}, 10, 10)
    BY FixedIs
  <2> QED BY <2>1, NothingPlaced
<1>11. ASSUME NEW i \in 1..n
       PROVE  /\ os[i].kind = "reg" => v(i) \subseteq 0..4 /\ ToNat(v(i)) = R(s, i) /\ R(s, i) \in 0..31
              /\ os[i].kind = "num" => v(i) = V(s, i) /\ v(i) \in Word64
  <2> DEFINE x == Ordered(Row(s), s.args)[i]
  <2>1. i \in 1..Len(os) /\ Len(os) \in Nat
    BY <1>6, <1>8, <1>11
  <2>2. /\ os[i].kind = "reg" => v(i) \subseteq 0..4 /\ ToNat(v(i)) = RegNo(x) /\ RegNo(x) \in 0..31
        /\ os[i].kind \in {"num", "lit"} => v(i) = Given(x) /\ v(i) \in Word64
    BY <2>1, ValueTaken
  <2>3. RegNo(x) = R(s, i) /\ Given(x) = V(s, i)
    BY <1>2 DEF R, V
  <2> HIDE DEF x, v, os, n
  <2> QED BY <2>2, <2>3
<1> HIDE DEF n, w, v, os, O, F
<1>12. CASE n = 2
  <2>1. os[1] = AandB /\ os[2] = C
    BY <1>4, <1>7, <1>12
  <2>2. /\ v(1) \subseteq 0..4 /\ ToNat(v(1)) = R(s, 1)
        /\ v(2) \subseteq 0..4 /\ ToNat(v(2)) = R(s, 2)
    BY <1>11, <1>12, <2>1, Kinds
  <2>3. w = O \cup F \cup Placed(v(1), AandB.fields) \cup Placed(v(2), C.fields)
    BY <1>8, <1>9, <1>10, <1>12, <2>1, EncodedIs DEF v
  <2>4. w = O \cup F \cup Field(v(1), 23, 5) \cup (Field(v(1), 5, 5) \cup Field(v(2), 0, 5) \cup Field({}, 10, 10))
    BY <2>2, <2>3, RegistersPlaced, NothingPlaced
  <2>5. Decodes(w, s, ToNat(v(1)), ToNat(v(1)), ToNat(v(2)), {})
    BY <1>5, <2>2, <2>4, Filled DEF O, F
  <2> QED BY <1>6, <1>12, <2>2, <2>5 DEF n, w
<1>13. CASE n = 3
  <2>1. os[1] = A /\ os[2] = B /\ os[3] = C
    BY <1>4, <1>7, <1>13
  <2>2. /\ v(1) \subseteq 0..4 /\ ToNat(v(1)) = R(s, 1)
        /\ v(2) \subseteq 0..4 /\ ToNat(v(2)) = R(s, 2)
        /\ v(3) \subseteq 0..4 /\ ToNat(v(3)) = R(s, 3)
    BY <1>11, <1>13, <2>1, Kinds
  <2>3. w = O \cup F \cup Placed(v(1), A.fields) \cup Placed(v(2), B.fields) \cup Placed(v(3), C.fields)
    BY <1>8, <1>9, <1>10, <1>13, <2>1, EncodedIs DEF v
  <2>4. w = O \cup F \cup Field(v(1), 23, 5) \cup (Field(v(2), 5, 5) \cup Field(v(3), 0, 5) \cup Field({}, 10, 10))
    BY <2>2, <2>3, RegistersPlaced, NothingPlaced
  <2>5. Decodes(w, s, ToNat(v(1)), ToNat(v(2)), ToNat(v(3)), {})
    BY <1>5, <2>2, <2>4, Filled DEF O, F
  <2> QED BY <1>6, <1>13, <2>2, <2>5 DEF n, w
<1>14. CASE n = 4
  <2>1. os[1] = A /\ os[2] = B /\ os[3] = C /\ os[4] = d
    BY <1>4, <1>7, <1>14
  <2>2. /\ v(1) \subseteq 0..4 /\ ToNat(v(1)) = R(s, 1)
        /\ v(2) \subseteq 0..4 /\ ToNat(v(2)) = R(s, 2)
        /\ v(3) \subseteq 0..4 /\ ToNat(v(3)) = R(s, 3)
    BY <1>11, <1>14, <2>1, Kinds
  <2>3. v(4) = V(s, 4) /\ v(4) \in Word64
    BY <1>11, <1>14, <2>1, Kinds DEF d
  <2>4. w = O \cup F \cup Placed(v(1), A.fields) \cup Placed(v(2), B.fields) \cup Placed(v(3), C.fields)
              \cup Placed(v(4), d.fields)
    BY <1>8, <1>9, <1>10, <1>14, <2>1, EncodedIs DEF v
  <2> DEFINE e == v(4) \cap 0..9
  <2>5. Placed(v(4), d.fields) = Field(e, 10, 10)
    BY <2>3, TenPlaced DEF d
  <2>6. e \subseteq 0..9
    OBVIOUS
  <2> HIDE DEF e
  <2>7. w = O \cup F \cup Field(v(1), 23, 5) \cup (Field(v(2), 5, 5) \cup Field(v(3), 0, 5) \cup Field(e, 10, 10))
    BY <2>2, <2>4, <2>5, RegistersPlaced
  <2>8. Decodes(w, s, ToNat(v(1)), ToNat(v(2)), ToNat(v(3)), e)
    BY <1>5, <2>2, <2>6, <2>7, Filled DEF O, F
  <2> QED BY <1>6, <1>14, <2>2, <2>3, <2>8 DEF n, w, e
<1> QED BY <1>6, <1>12, <1>13, <1>14
=============================================================================

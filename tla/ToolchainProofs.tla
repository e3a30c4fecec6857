--------------------------- MODULE ToolchainProofs ---------------------------
(***************************************************************************)
(* What the assembler and the machine make together: a statement,          *)
(* assembled, loaded and executed, does what it says.  First each kind of  *)
(* statement by itself, then the machine, which stays one whatever it      *)
(* executes, and the programs of a file.                                   *)
(***************************************************************************)
EXTENDS AssemblerProofs

(* What arithmetic says, statement by statement.                            *)

\* The statements that have two or three operands, and a number.
RrSays(s, before, after, b, c, d) ==
    LET k == ToInt(Plus(c, d))
        to(v) == To(s, before, after, v)
        sum(subtract) == Adds(b, c, d, subtract, R(s, 1), before, after, After(s, before))
        moved == IF k >= 0 THEN Left(b, k) ELSE Right(b, -k)
        If(p) == IF p THEN to(c) ELSE Goes(before, after, After(s, before))
        says == MeansArithmetic(s, before, after)
    IN  /\ s.op = "add" => ((Fits(d, 10) => sum(FALSE)) => says)
        /\ s.op = "sub" => ((Fits(d, 10) => sum(TRUE)) => says)
        /\ s.op = "and" => ((Fits(d, 10) => to(b \cap (c \cup d))) => says)
        /\ s.op = "or" => ((Fits(d, 10) => to(UNION {b, c, d})) => says)
        /\ s.op = "xor" => ((Fits(d, 10) => to(Xor(Xor(b, c), d))) => says)
        /\ s.op = "setxc" => ((Fits(d, 10) => to(IF Above(b, Plus(c, d)) THEN {0} ELSE {})) => says)
        /\ s.op = "shl" => ((Fits(d, 10) /\ k \in -63..63 => to(moved)) => says)
        /\ s.op = "sal" =>
             ((Fits(d, 10) /\ k \in -63..63
                 => to(moved \cup IF Negative(b) THEN (64 + k)..63 ELSE {})) => says)
        /\ s.op = "moveq" => ((Fits(d, 10) => If(b = d)) => says)
        /\ s.op = "movne" => ((Fits(d, 10) => If(b # d)) => says)
        /\ s.op = "movgt" => ((Fits(d, 10) => If(Above(b, d))) => says)
        /\ s.op = "movle" => ((Fits(d, 10) => If(b = d \/ Above(d, b))) => says)
LEMMA RrSaid ==
    ASSUME NEW s, NEW before, NEW after
    PROVE  LET n == Len(s.args)
               x(i) == X(s, i, before)
           IN  RrSays(s, before, after, IF n = 2 THEN x(1) ELSE x(2), IF n = 2 THEN x(2) ELSE x(3),
                      Last0(s, 3))
BY ZenonT(30) DEF MeansArithmetic, RrSays
-----------------------------------------------------------------------------
(* The operations on registers, of what was found in the word.              *)

\* The round: its word is in memory, and is an operation.
LEMMA Round ==
    ASSUME NEW s, NEW k, IsMachine(k), Stands(s, k), Proper(s, k), InstructionSize(Row(s)) = 4,
           WordOf(s, After(s, k)) \subseteq 0..31,
           OPCODE(WordOf(s, After(s, k))) = Row(s).op
    PROVE  /\ Execute(k) = Operation(At(k, After(s, k)), WordOf(s, After(s, k)))
           /\ After(s, k) \in Word64
<1>1. Row(s).op \notin {8, 9, 13, 15}
  BY Rows DEF Proper, Row
<1> QED BY <1>1, Executes

LEMMA ExtWord ==
    ASSUME NEW e, e \subseteq 0..9
    PROVE  Ext(e, 10) \in Word64
BY DEF Ext, Word64, Bits

\* What they make of the machine: b, c and the immediate d are the terms.
Summed(k, p, a, b, t) ==
    IF OC \in k.cr[PSQ] /\ Overflows(b, t) THEN Error(At(k, p), "OVRF", {}, {})
    ELSE SetReg(At(k, p), a, Plus(b, t))
Rr0Result(f, k, p, a, b, c, d, after) ==
    LET t == Plus(c, d)
        to(v) == SetReg(At(k, p), a, v)
    IN  /\ b \in Word64 /\ c \in Word64 /\ d \in Word64 /\ a \in 0..31
        /\ f = 0 => after = Summed(k, p, a, b, t)
        /\ f = 1 => after = Summed(k, p, a, b, Neg(t))
        /\ f = 2 => after = to(b \cap (c \cup d))
        /\ f = 3 => after = to(b \cup c \cup d)
        /\ f = 4 => after = to(Xor(b, Xor(c, d)))
        /\ f = 5 => after = to(Sh(b, ToInt(t)))
        /\ f = 6 => after = to(Sha(b, ToInt(t)))
        /\ f = 7 => after = to(IF Above(b, t) THEN {0} ELSE {})
RrCResult(f, k, p, a, b, c, d, after) ==
    LET If(q) == IF q THEN SetReg(At(k, p), a, c) ELSE At(k, p) IN
    /\ b \in Word64 /\ d \in Word64 /\ a \in 0..31
    /\ f = 0 => after = If(b = d)
    /\ f = 1 => after = If(b # d)
    /\ f = 2 => after = If(Above(b, d))
    /\ f = 3 => after = If(~Above(b, d))

LEMMA Rr0Does ==
    ASSUME NEW s, NEW k, IsMachine(k), NEW p \in Word64, Row(s).op = 0,
           NEW w, NEW ra, NEW rb, NEW rc, NEW e, Decodes(w, s, ra, rb, rc, e)
    PROVE  Rr0Result(Row(s).fn, k, p, ra, Reg(k, rb), Reg(k, rc), Ext(e, 10),
                     Operation(At(k, p), w))
<1> DEFINE b == Reg(k, rb)
           c == Reg(k, rc)
           d == Ext(e, 10)
           t == Plus(c, d)
           f == Row(s).fn
           after == Operation(At(k, p), w)
<1>1. /\ OPCODE(w) = 0 /\ FN(w) = f /\ RA(w) = ra /\ RB(w) = rb /\ RC(w) = rc /\ RR_IMM(w) = d
      /\ ra \in 0..31 /\ rb \in 0..31 /\ rc \in 0..31 /\ e \subseteq 0..9
  BY DEF Decodes
<1>2. /\ Reg(At(k, p), rb) = b /\ b \in Word64 /\ Reg(At(k, p), rc) = c /\ c \in Word64
      /\ At(k, p).cr = k.cr
  BY <1>1, RegAt, AtMachine
<1>3. d \in Word64
  BY <1>1, ExtWord
<1>4. after = Rr0(At(k, p), w)
  BY <1>1 DEF Operation
<1> HIDE DEF b, c, d, f, after
<1> DEFINE to(v) == SetReg(At(k, p), ra, v)
           trap == Error(At(k, p), "OVRF", {}, {})
<1>5. f = 0 => after = IF OC \in k.cr[PSQ] /\ Overflows(b, t) THEN trap ELSE to(Plus(b, t))
  BY <1>1, <1>2, <1>4 DEF Rr0
<1>6. /\ f = 1 => after = IF OC \in k.cr[PSQ] /\ Overflows(b, Neg(t)) THEN trap ELSE to(Minus(b, t))
  BY <1>1, <1>2, <1>4 DEF Rr0
<1>7. f = 2 => after = to(b \cap (c \cup d))
  BY <1>1, <1>2, <1>4 DEF Rr0
<1>8. f = 3 => after = to(b \cup c \cup d)
  BY <1>1, <1>2, <1>4 DEF Rr0
<1>9. f = 4 => after = to(Xor(b, Xor(c, d)))
  BY <1>1, <1>2, <1>4 DEF Rr0
<1>10. f = 5 => after = to(Sh(b, ToInt(t)))
  BY <1>1, <1>2, <1>4 DEF Rr0
<1>11. f = 6 => after = to(Sha(b, ToInt(t)))
  BY <1>1, <1>2, <1>4 DEF Rr0
<1>12. f = 7 => after = to(IF Above(b, t) THEN {0} ELSE {})
  BY <1>1, <1>2, <1>4 DEF Rr0
<1>13. Minus(b, t) = Plus(b, Neg(t))
  BY DEF Minus
<1> HIDE DEF t, to, trap
<1>14. /\ f = 0 => after = IF OC \in k.cr[PSQ] /\ Overflows(b, t) THEN trap ELSE to(Plus(b, t))
       /\ f = 1 => after = IF OC \in k.cr[PSQ] /\ Overflows(b, Neg(t)) THEN trap
                           ELSE to(Plus(b, Neg(t)))
  BY <1>5, <1>6, <1>13
<1> QED BY <1>1, <1>2, <1>3, <1>7, <1>8, <1>9, <1>10, <1>11, <1>12, <1>14
        DEF b, c, d, f, after, t, to, trap, Rr0Result, Summed

LEMMA RrCDoes ==
    ASSUME NEW s, NEW k, IsMachine(k), NEW p \in Word64, Row(s).op = 12,
           NEW w, NEW ra, NEW rb, NEW rc, NEW e, Decodes(w, s, ra, rb, rc, e)
    PROVE  RrCResult(Row(s).fn, k, p, ra, Reg(k, rb), Reg(k, rc), Ext(e, 10),
                     Operation(At(k, p), w))
<1> DEFINE b == Reg(k, rb)
           c == Reg(k, rc)
           d == Ext(e, 10)
           f == Row(s).fn
           after == Operation(At(k, p), w)
<1>1. /\ OPCODE(w) = 12 /\ FN(w) = f /\ RA(w) = ra /\ RB(w) = rb /\ RC(w) = rc /\ RR_IMM(w) = d
      /\ ra \in 0..31 /\ rb \in 0..31 /\ rc \in 0..31 /\ e \subseteq 0..9
  BY DEF Decodes
<1>2. /\ Reg(At(k, p), rb) = b /\ b \in Word64 /\ Reg(At(k, p), rc) = c
  BY <1>1, RegAt
<1>3. d \in Word64
  BY <1>1, ExtWord
<1>4. after = RrC(At(k, p), w)
  BY <1>1 DEF Operation
<1> HIDE DEF b, c, d, f, after
<1> DEFINE If(q) == IF q THEN SetReg(At(k, p), ra, c) ELSE At(k, p)
<1>5. /\ f = 0 => after = If(b = d)
      /\ f = 1 => after = If(b # d)
      /\ f = 2 => after = If(Above(b, d))
      /\ f = 3 => after = If(~Above(b, d))
  BY <1>1, <1>2, <1>4 DEF RrC
<1> QED BY <1>1, <1>2, <1>3, <1>5 DEF b, c, d, f, after, RrCResult

\* Shifts by less than the word.
LEMMA Shifts ==
    ASSUME NEW b, NEW j \in -63..63
    PROVE  LET moved == IF j >= 0 THEN Left(b, j) ELSE Right(b, -j) IN
           /\ Sh(b, j) = moved
           /\ Sha(b, j) = moved \cup IF Negative(b) THEN (64 + j)..63 ELSE {}
<1>1. CASE j >= 0
  <2>1. (64 + j)..63 = {}
    BY <1>1
  <2>2. Sh(b, j) = Left(b, j) /\ Sha(b, j) = Left(b, j)
    BY <1>1 DEF Sh, Sha, Shl, Amount
  <2> QED BY <1>1, <2>1, <2>2
<1>2. CASE j < 0
  <2> DEFINE i == -j
  <2>1. i \in 1..63 /\ 64 - i = 64 + j /\ ~(j >= 0)
    BY <1>2
  <2> HIDE DEF i
  <2>2. Shr(b, i) = Right(b, i)
    BY <2>1 DEF Shr, Amount
  <2>3. Sar(b, i) = Right(b, i) \cup IF Negative(b) THEN (64 - i)..63 ELSE {}
    BY <2>1 DEF Sar, Amount
  <2>4. Sh(b, j) = Shr(b, i) /\ Sha(b, j) = Sar(b, i)
    BY <1>2 DEF Sh, Sha, i
  <2> QED BY <2>1, <2>2, <2>3, <2>4 DEF i
<1> QED BY <1>1, <1>2

\* One of two words that are not the same is above the other.
LEMMA AboveIsTotal ==
    ASSUME NEW b \in Word64, NEW d \in Word64
    PROVE  ~Above(b, d) <=> b = d \/ Above(d, b)
<1>1. Xor(b, d) = Xor(d, b)
  BY DEF Xor
<1> DEFINE x == Xor(b, d)
<1>2. ASSUME b # d PROVE Max(x) \in x
  <2> DEFINE T == {63 - j : j \in x}
  <2>1. x # {} /\ x \subseteq 0..63
    BY <1>2 DEF Xor, Word64, Bits
  <2> HIDE DEF x
  <2>2. T \subseteq Nat /\ T # {}
    <3>1. \A j \in x : 63 - j \in Nat
      BY <2>1
    <3> QED BY <2>1, <3>1
  <2>3. PICK u \in T : \A y \in T : u <= y
    BY <2>2, Least
  <2>4. PICK j \in x : u = 63 - j
    OBVIOUS
  <2>5. \A i \in x : 63 - j <= 63 - i
    BY <2>3, <2>4
  <2>6. \A i \in x : j >= i
    BY <2>1, <2>5
  <2>7. \E q \in x : \A y \in x : q >= y
    BY <2>6
  <2> QED BY <2>7 DEF Max
<1>3. b # d => Max(x) \in x /\ (Max(x) \in b <=> Max(x) \notin d)
  BY <1>2 DEF Xor
<1> QED BY <1>1, <1>3 DEF Above, x
-----------------------------------------------------------------------------
Ready(s, k) == IsMachine(k) /\ Stands(s, k) /\ Proper(s, k)

\* The same, of the words of a statement with three operands or what stands for them.
LEMMA RrRound ==
    ASSUME NEW s, NEW k, Ready(s, k), Row(s).form = "rr"
    PROVE  LET n == Len(s.args)
               p == After(s, k)
               w == WordOf(s, p)
               rb == IF n = 2 THEN R(s, 1) ELSE R(s, 2)
               rc == IF n = 2 THEN R(s, 2) ELSE R(s, 3)
               d == Last0(s, 3)
           IN  /\ Decodes(w, s, R(s, 1), rb, rc, d \cap 0..9)
               /\ d \in Word64 /\ p \in Word64
               /\ Execute(k) = Operation(At(k, p), w)
<1> DEFINE n == Len(s.args)
           p == After(s, k)
           w == WordOf(s, p)
           rb == IF n = 2 THEN R(s, 1) ELSE R(s, 2)
           rc == IF n = 2 THEN R(s, 2) ELSE R(s, 3)
           d == Last0(s, 3)
<1>1. /\ n \in {2, 3, 4}
      /\ n = 2 => Decodes(w, s, R(s, 1), R(s, 1), R(s, 2), {})
      /\ n = 3 => Decodes(w, s, R(s, 1), R(s, 2), R(s, 3), {})
      /\ n = 4 => Decodes(w, s, R(s, 1), R(s, 2), R(s, 3), V(s, 4) \cap 0..9) /\ V(s, 4) \in Word64
  BY RrWord DEF Ready
<1>2. /\ n \in {2, 3} => d = {}
      /\ n = 4 => d = V(s, 4)
  <2>1. d = IF n > 3 THEN V(s, n) ELSE {}
    BY DEF Last0
  <2> HIDE DEF n, d
  <2>2. n \in {2, 3} => ~(n > 3)
    OBVIOUS
  <2>3. n = 4 => n > 3
    OBVIOUS
  <2> QED BY <2>1, <2>2, <2>3
<1>3. {} \in Word64 /\ {} \cap 0..9 = {}
  BY DEF Word64
<1> HIDE DEF w, d, n
<1>4. Decodes(w, s, R(s, 1), rb, rc, d \cap 0..9) /\ d \in Word64
  <2>1. CASE n = 2
    <3>1. rb = R(s, 1) /\ rc = R(s, 2) /\ d \cap 0..9 = {}
      BY <1>2, <1>3, <2>1
    <3> QED BY <1>1, <1>2, <1>3, <2>1, <3>1
  <2>2. CASE n = 3
    <3>1. rb = R(s, 2) /\ rc = R(s, 3) /\ d \cap 0..9 = {}
      BY <1>2, <1>3, <2>2
    <3> QED BY <1>1, <1>2, <1>3, <2>2, <3>1
  <2>3. CASE n = 4
    <3>1. rb = R(s, 2) /\ rc = R(s, 3) /\ d = V(s, 4)
      BY <1>2, <2>3
    <3> QED BY <1>1, <2>3, <3>1
  <2> QED BY <1>1, <2>1, <2>2, <2>3
<1>5. w \subseteq 0..31 /\ OPCODE(w) = Row(s).op
  BY <1>4 DEF Decodes
<1>6. InstructionSize(Row(s)) = 4
  BY DEF InstructionSize
<1>7. Execute(k) = Operation(At(k, p), w) /\ p \in Word64
  BY <1>5, <1>6, Round, SMTT(30) DEF Ready, w
<1> QED BY <1>4, <1>7 DEF w, d, n

LEMMA RrRows ==
    /\ Opcodes["add"].fn = 0 /\ Opcodes["sub"].fn = 1 /\ Opcodes["and"].fn = 2
    /\ Opcodes["or"].fn = 3 /\ Opcodes["xor"].fn = 4 /\ Opcodes["shl"].fn = 5
    /\ Opcodes["sal"].fn = 6 /\ Opcodes["setxc"].fn = 7
BY DEF Opcodes, I

LEMMA Rr0Means ==
    ASSUME NEW s, NEW k, Ready(s, k), Row(s).form = "rr", Row(s).op = 0
    PROVE  MeansArithmetic(s, k, Execute(k))
<1> DEFINE n == Len(s.args)
           p == After(s, k)
           w == WordOf(s, p)
           a == R(s, 1)
           rb == IF n = 2 THEN R(s, 1) ELSE R(s, 2)
           rc == IF n = 2 THEN R(s, 2) ELSE R(s, 3)
           x(i) == X(s, i, k)
           b == IF n = 2 THEN x(1) ELSE x(2)
           c == IF n = 2 THEN x(2) ELSE x(3)
           d == Last0(s, 3)
           e == Ext(d \cap 0..9, 10)
           after == Execute(k)
           says == MeansArithmetic(s, k, after)
<1>1. Decodes(w, s, a, rb, rc, d \cap 0..9) /\ d \in Word64 /\ p \in Word64
      /\ after = Operation(At(k, p), w) /\ IsMachine(k) /\ s.op \in DOMAIN Opcodes
  BY RrRound DEF Ready, Proper
<1>2. Fits(d, 10) => e = d
  <2>1. 10 \in 1..63 /\ 10 - 1 = 9
    OBVIOUS
  <2> HIDE DEF d, p, w
  <2>2. Fits(d, 10) => Ext(d \cap 0..(10 - 1), 10) = d
    BY <1>1, <2>1, ExtFits
  <2> QED BY <2>1, <2>2
<1>3. Reg(k, rb) = b /\ Reg(k, rc) = c
  BY DEF X
<1> HIDE DEF n, p, w, a, rb, rc, d, e
<1> DEFINE f == Row(s).fn
<1>4. Rr0Result(f, k, p, a, b, c, e, after)
  <2> HIDE DEF b, c, after
  <2>1. after = Operation(At(k, p), w) /\ Decodes(w, s, a, rb, rc, d \cap 0..9) /\ IsMachine(k)
        /\ p \in Word64 /\ Row(s).op = 0
    BY <1>1
  <2>2. Rr0Result(f, k, p, a, Reg(k, rb), Reg(k, rc), Ext(d \cap 0..9, 10), Operation(At(k, p), w))
    BY <2>1, Rr0Does
  <2> QED BY <1>3, <2>1, <2>2 DEF e
<1> DEFINE t == Plus(c, e)
           set(v) == SetReg(At(k, p), a, v)
<1>5. /\ b \in Word64 /\ c \in Word64 /\ e \in Word64 /\ a \in 0..31
      /\ f = 0 => after = Summed(k, p, a, b, t)
      /\ f = 1 => after = Summed(k, p, a, b, Neg(t))
      /\ f = 2 => after = set(b \cap (c \cup e))
      /\ f = 3 => after = set(b \cup c \cup e)
      /\ f = 4 => after = set(Xor(b, Xor(c, e)))
      /\ f = 5 => after = set(Sh(b, ToInt(t)))
      /\ f = 6 => after = set(Sha(b, ToInt(t)))
      /\ f = 7 => after = set(IF Above(b, t) THEN {0} ELSE {})
  <2> HIDE DEF b, c, after
  <2> QED BY <1>4 DEF Rr0Result
<1> HIDE DEF b, c, after, f
<1>6. ASSUME NEW v, after = set(v) PROVE To(s, k, after, v)
  <2>1. Goes(SetReg(k, a, v), set(v), p)
    BY <1>1, <1>5, ToMeans
  <2> QED BY <1>6, <2>1 DEF To, p, a
<1>7. after = Summed(k, p, a, b, t) => Adds(b, c, e, FALSE, a, k, after, p)
  BY <1>1, <1>5, AddsMean DEF Summed
<1>8. after = Summed(k, p, a, b, Neg(t)) => Adds(b, c, e, TRUE, a, k, after, p)
  BY <1>1, <1>5, AddsMean DEF Summed
<1>9. /\ s.op = "add" => f = 0
      /\ s.op = "sub" => f = 1
      /\ s.op = "and" => f = 2
      /\ s.op = "or" => f = 3
      /\ s.op = "xor" => f = 4
      /\ s.op = "shl" => f = 5
      /\ s.op = "sal" => f = 6
      /\ s.op = "setxc" => f = 7
  BY RrRows DEF Row, f
<1>10. s.op \in {"add", "sub", "and", "or", "xor", "shl", "sal", "setxc"}
  <2>1. s.op \in {"add", "sub", "and", "or", "xor", "shl", "sal", "setxc", "moveq", "movne",
                  "movgt", "movle"}
    BY <1>1, ArithmeticNames DEF Row
  <2>2. s.op \notin {"moveq", "movne", "movgt", "movle"}
    BY DEF Row, Opcodes, I
  <2> QED BY <2>1, <2>2
<1>11. RrSays(s, k, after, b, c, d)
  BY RrSaid DEF b, c, d, n, x, after
<1>12. ASSUME Fits(d, 10) PROVE e = d
  BY <1>2, <1>12
<1> DEFINE j == ToInt(t)
           moved == IF j >= 0 THEN Left(b, j) ELSE Right(b, -j)
<1>13. j \in -63..63 => /\ Sh(b, j) = moved
                        /\ Sha(b, j) = moved \cup IF Negative(b) THEN (64 + j)..63 ELSE {}
  BY Shifts
<1>14. t = Plus(c, e)
  BY DEF t
<1> HIDE DEF t, set
<1>15. MeansArithmetic(s, k, after)
  <2>1. CASE s.op = "add"
    BY <1>5, <1>7, <1>9, <1>11, <1>12, <2>1 DEF RrSays, p, a
  <2>2. CASE s.op = "sub"
    BY <1>5, <1>8, <1>9, <1>11, <1>12, <2>2 DEF RrSays, p, a
  <2>3. CASE s.op = "and"
    BY <1>5, <1>6, <1>9, <1>11, <1>12, <2>3 DEF RrSays
  <2>4. CASE s.op = "or"
    <3>1. UNION {b, c, d} = b \cup c \cup d
      OBVIOUS
    <3> QED BY <1>5, <1>6, <1>9, <1>11, <1>12, <2>4, <3>1 DEF RrSays
  <2>5. CASE s.op = "xor"
    <3>1. Xor(Xor(b, c), d) = Xor(b, Xor(c, d))
      BY DEF Xor
    <3> QED BY <1>5, <1>6, <1>9, <1>11, <1>12, <2>5, <3>1 DEF RrSays
  <2>6. CASE s.op = "shl"
    BY <1>5, <1>6, <1>9, <1>11, <1>12, <1>13, <1>14, <2>6 DEF RrSays
  <2>7. CASE s.op = "sal"
    <3> DEFINE up == moved \cup IF Negative(b) THEN (64 + j)..63 ELSE {}
    <3>1. ASSUME Fits(d, 10) PROVE ToInt(Plus(c, d)) = j
      BY <1>12, <1>14, <3>1
    <3>2. (Fits(d, 10) /\ j \in -63..63 => To(s, k, after, up)) => MeansArithmetic(s, k, after)
      BY <1>11, <2>7, <3>1 DEF RrSays
    <3>3. f = 6 /\ after = set(Sha(b, j))
      BY <1>5, <1>9, <2>7
    <3>4. j \in -63..63 => Sha(b, j) = up
      BY <1>13
    <3> HIDE DEF j, up
    <3>5. j \in -63..63 => To(s, k, after, up)
      BY <1>6, <3>3, <3>4
    <3> QED BY <3>2, <3>5
  <2>8. CASE s.op = "setxc"
    BY <1>5, <1>6, <1>9, <1>11, <1>12, <1>14, <2>8 DEF RrSays
  <2> QED BY <1>10, <2>1, <2>2, <2>3, <2>4, <2>5, <2>6, <2>7, <2>8
<1> QED BY <1>15 DEF after

LEMMA RrCMeans ==
    ASSUME NEW s, NEW k, Ready(s, k), Row(s).form = "rr", Row(s).op = 12
    PROVE  MeansArithmetic(s, k, Execute(k))
<1> DEFINE n == Len(s.args)
           p == After(s, k)
           w == WordOf(s, p)
           a == R(s, 1)
           rb == IF n = 2 THEN R(s, 1) ELSE R(s, 2)
           rc == IF n = 2 THEN R(s, 2) ELSE R(s, 3)
           x(i) == X(s, i, k)
           b == IF n = 2 THEN x(1) ELSE x(2)
           c == IF n = 2 THEN x(2) ELSE x(3)
           d == Last0(s, 3)
           e == Ext(d \cap 0..9, 10)
           after == Execute(k)
           f == Row(s).fn
<1>1. Decodes(w, s, a, rb, rc, d \cap 0..9) /\ d \in Word64 /\ p \in Word64
      /\ after = Operation(At(k, p), w) /\ IsMachine(k) /\ s.op \in DOMAIN Opcodes
  BY RrRound DEF Ready, Proper
<1>2. Fits(d, 10) => e = d
  <2>1. 10 \in 1..63 /\ 10 - 1 = 9
    OBVIOUS
  <2> HIDE DEF d, p, w
  <2>2. Fits(d, 10) => Ext(d \cap 0..(10 - 1), 10) = d
    BY <1>1, <2>1, ExtFits
  <2> QED BY <2>1, <2>2
<1>3. Reg(k, rb) = b /\ Reg(k, rc) = c
  BY DEF X
<1>4. RrSays(s, k, after, b, c, d)
  BY RrSaid
<1> HIDE DEF n, p, w, a, rb, rc, d, e, b, c, after, f
<1>5. RrCResult(f, k, p, a, b, c, e, after)
  <2>1. RrCResult(f, k, p, a, Reg(k, rb), Reg(k, rc), Ext(d \cap 0..9, 10), Operation(At(k, p), w))
    BY <1>1, RrCDoes DEF f
  <2> QED BY <1>1, <1>3, <2>1 DEF e
<1>6. a \in 0..31 /\ b \in Word64 /\ e \in Word64
  BY <1>5 DEF RrCResult
<1>7. after = SetReg(At(k, p), a, c) => To(s, k, after, c)
  <2>1. Goes(SetReg(k, a, c), SetReg(At(k, p), a, c), p)
    BY <1>1, <1>6, ToMeans
  <2> QED BY <2>1 DEF To, p, a
<1>8. after = At(k, p) => Goes(k, after, After(s, k))
  BY DEF At, Goes, p
<1> DEFINE If(q) == IF q THEN To(s, k, after, c) ELSE Goes(k, after, After(s, k))
<1>9. /\ f = 0 => If(b = e)
      /\ f = 1 => If(b # e)
      /\ f = 2 => If(Above(b, e))
      /\ f = 3 => If(b = e \/ Above(e, b))
  <2>1. ~Above(b, e) <=> b = e \/ Above(e, b)
    BY <1>6, AboveIsTotal, SMTT(30)
  <2> QED BY <1>5, <1>7, <1>8, <2>1 DEF RrCResult
<1>10. /\ s.op = "moveq" => f = 0
       /\ s.op = "movne" => f = 1
       /\ s.op = "movgt" => f = 2
       /\ s.op = "movle" => f = 3
  BY DEF Row, Opcodes, I, f
<1>11. s.op \in {"moveq", "movne", "movgt", "movle"}
  <2>1. s.op \in {"add", "sub", "and", "or", "xor", "shl", "sal", "setxc", "moveq", "movne",
                  "movgt", "movle"}
    BY <1>1, ArithmeticNames DEF Row
  <2>2. s.op \notin {"add", "sub", "and", "or", "xor", "shl", "sal", "setxc"}
    BY DEF Row, Opcodes, I
  <2> QED BY <2>1, <2>2
<1>12. ASSUME Fits(d, 10) PROVE e = d
  BY <1>2, <1>12
<1>13. MeansArithmetic(s, k, after)
  <2>1. CASE s.op = "moveq"
    BY <1>4, <1>9, <1>10, <1>12, <2>1 DEF RrSays
  <2>2. CASE s.op = "movne"
    BY <1>4, <1>9, <1>10, <1>12, <2>2 DEF RrSays
  <2>3. CASE s.op = "movgt"
    BY <1>4, <1>9, <1>10, <1>12, <2>3 DEF RrSays
  <2>4. CASE s.op = "movle"
    BY <1>4, <1>9, <1>10, <1>12, <2>4 DEF RrSays
  <2> QED BY <1>11, <2>1, <2>2, <2>3, <2>4
<1> QED BY <1>13 DEF after
-----------------------------------------------------------------------------
(* Statements with a register or two, and with an immediate.                *)

\* The operands of a form that has no choice of them.
LEMMA OneForm ==
    ASSUME NEW s, NEW k, Assembled(s, k).err = "none", NEW os, Forms(Row(s)) = {os}
    PROVE  Operands(s) = os /\ Len(Ordered(Row(s), s.args)) = Len(os)
<1>1. \E p \in Forms(Row(s)) : Len(p) = Len(Ordered(Row(s), s.args))
  BY AssembledIs
<1>2. Len(Ordered(Row(s), s.args)) = Len(os)
  BY <1>1
<1> QED BY <1>2, Chosen

LEMMA NumberOfNothing == ToNat({}) = 0
<1>1. 0 \in Nat /\ Near(0)
  BY DEF Near
<1> QED BY <1>1, ToNatNum, NumZero

LEMMA UnaryWord ==
    ASSUME NEW s, NEW k, NEW next, Proper(s, k), Row(s).form \in {"mv", "id", "mcom", "mneg"}
    PROVE  LET w == WordOf(s, next) IN
           /\ Row(s).form = "mv" => Decodes(w, s, R(s, 1), R(s, 2), 0, {})
           /\ Row(s).form = "id" => Decodes(w, s, R(s, 1), R(s, 1), 0, {0})
           /\ Row(s).form = "mcom" => Decodes(w, s, R(s, 1), 0, R(s, 2), {0})
           /\ Row(s).form = "mneg" => Decodes(w, s, R(s, 1), 0, R(s, 2), {})
<1> DEFINE w == WordOf(s, next)
           v(i) == Values(s, next)[i]
           os == Operands(s)
           O == Field(Num(Row(s).op), 28, 4)
           F == Field(Num(Row(s).fn), 20, 3)
           form == Row(s).form
           e == IF form \in {"mcom", "id"} THEN {0} ELSE {}
           mine == IF form = "mv" THEN <<A, B>> ELSE IF form = "id" THEN <<AandB>> ELSE <<A, C>>
<1>1. Forms(Row(s)) = {mine}
  BY DEF Forms
<1>2. Ordered(Row(s), s.args) = s.args
  BY DEF Ordered
<1>3. Assembled(s, k).err = "none" /\ s.op \in DOMAIN Opcodes
  BY DEF Proper
<1>4. os = mine /\ Len(s.args) = Len(mine)
  BY <1>1, <1>2, <1>3, OneForm
<1>5. w = Encoded(Row(s), os, Values(s, next))
  BY DEF WordOf
<1>6. Fixed(Row(s)) = O \cup F \cup Field(e, 10, 10)
  BY FixedIs
<1>7. ASSUME NEW i \in 1..Len(os), Len(os) \in Nat, os[i].kind = "reg"
      PROVE  v(i) \subseteq 0..4 /\ ToNat(v(i)) = R(s, i)
  BY <1>2, <1>7, ValueTaken DEF R
<1>8. e \subseteq 0..9 /\ {} \subseteq 0..4
  OBVIOUS
<1> HIDE DEF w, v, os, O, F, e
<1>9. CASE form = "mv"
  <2>1. Len(os) = 2 /\ os[1] = A /\ os[2] = B
    BY <1>4, <1>9
  <2>2. v(1) \subseteq 0..4 /\ ToNat(v(1)) = R(s, 1) /\ v(2) \subseteq 0..4 /\ ToNat(v(2)) = R(s, 2)
    BY <1>7, <2>1, Kinds
  <2>3. w = O \cup F \cup Field(e, 10, 10) \cup Placed(v(1), A.fields) \cup Placed(v(2), B.fields)
    BY <1>5, <1>6, <2>1, EncodedIs DEF v
  <2>4. w = O \cup F \cup Field(v(1), 23, 5) \cup (Field(v(2), 5, 5) \cup Field({}, 0, 5) \cup Field(e, 10, 10))
    BY <2>2, <2>3, RegistersPlaced, NothingPlaced
  <2>5. Decodes(w, s, ToNat(v(1)), ToNat(v(2)), ToNat({}), e)
    BY <1>3, <1>8, <2>2, <2>4, Filled DEF O, F
  <2> QED BY <1>9, <2>2, <2>5, NumberOfNothing DEF e, w
<1>10. CASE form = "id"
  <2>1. Len(os) = 1 /\ os[1] = AandB
    BY <1>4, <1>10
  <2>2. v(1) \subseteq 0..4 /\ ToNat(v(1)) = R(s, 1)
    BY <1>7, <2>1, Kinds
  <2>3. w = O \cup F \cup Field(e, 10, 10) \cup Placed(v(1), AandB.fields)
    BY <1>5, <1>6, <2>1, EncodedIs DEF v
  <2>4. w = O \cup F \cup Field(v(1), 23, 5) \cup (Field(v(1), 5, 5) \cup Field({}, 0, 5) \cup Field(e, 10, 10))
    BY <2>2, <2>3, RegistersPlaced, NothingPlaced
  <2>5. Decodes(w, s, ToNat(v(1)), ToNat(v(1)), ToNat({}), e)
    BY <1>3, <1>8, <2>2, <2>4, Filled DEF O, F
  <2> QED BY <1>10, <2>2, <2>5, NumberOfNothing DEF e, w
<1>11. CASE form \in {"mcom", "mneg"}
  <2>1. Len(os) = 2 /\ os[1] = A /\ os[2] = C
    BY <1>4, <1>11
  <2>2. v(1) \subseteq 0..4 /\ ToNat(v(1)) = R(s, 1) /\ v(2) \subseteq 0..4 /\ ToNat(v(2)) = R(s, 2)
    BY <1>7, <2>1, Kinds
  <2>3. w = O \cup F \cup Field(e, 10, 10) \cup Placed(v(1), A.fields) \cup Placed(v(2), C.fields)
    BY <1>5, <1>6, <2>1, EncodedIs DEF v
  <2>4. w = O \cup F \cup Field(v(1), 23, 5) \cup (Field({}, 5, 5) \cup Field(v(2), 0, 5) \cup Field(e, 10, 10))
    BY <2>2, <2>3, RegistersPlaced, NothingPlaced
  <2>5. Decodes(w, s, ToNat(v(1)), ToNat({}), ToNat(v(2)), e)
    BY <1>3, <1>8, <2>2, <2>4, Filled, ZenonT(30) DEF O, F
  <2> QED BY <1>11, <2>2, <2>5, NumberOfNothing DEF e, w
<1> QED BY <1>9, <1>10, <1>11

LEMMA UnarySaid ==
    ASSUME NEW s, NEW before, NEW after
    PROVE  LET x(i) == X(s, i, before)
               to(v) == To(s, before, after, v)
               sum(p, q, t, subtract) == Adds(p, q, t, subtract, R(s, 1), before, after, After(s, before))
               says == MeansArithmetic(s, before, after)
           IN  /\ s.op = "mov" => (to(x(2)) => says)
               /\ s.op = "inc" => (sum(x(1), {}, {0}, FALSE) => says)
               /\ s.op = "dec" => (sum(x(1), {}, {0}, TRUE) => says)
               /\ s.op = "mneg" => (sum({}, x(2), {}, TRUE) => says)
               /\ s.op = "mcom" => ((OC \notin before.cr[PSQ] => to(Not(x(2)))) => says)
               /\ s.op = "ldi" => ((Fits(V(s, 2), 23) => to(Left(V(s, 2), 0))) => says)
               /\ s.op = "ldis" => ((Fits(V(s, 2), 23) => to(Left(V(s, 2), 9))) => says)
               /\ s.op = "ldgis" => ((Fits(V(s, 2), 50) => to(Left(V(s, 2), 14))) => says)
BY ZenonT(30) DEF MeansArithmetic

\* The complement, by the machine's subtraction of a sum from nothing.
LEMMA Complements ==
    ASSUME NEW c \in Word64
    PROVE  Plus({}, Neg(Plus(c, {0}))) = Not(c)
<1> DEFINE n == ToNat(c)
<1>1. n \in Nat /\ Num(n) = c
  BY NumToNat
<1> HIDE DEF n
<1>2. n \in Int /\ 1 \in Int /\ n + 1 \in Int /\ -(n + 1) = -n - 1
  BY <1>1
<1>3. Plus(c, {0}) = Num(n + 1)
  BY <1>1, <1>2, NumSum, NumBit0
<1>4. Neg(Num(n + 1)) = Num(-n - 1)
  BY <1>2, NumNeg
<1>5. Num(-n - 1) = Not(c)
  BY <1>1, <1>2, NumNot
<1>6. Not(c) \in Word64 /\ {} \in Word64
  BY DEF Not, Ones, Word64
<1>7. Plus({}, Not(c)) = Not(c)
  BY <1>6, PlusCommutes, PlusNothing
<1> QED BY <1>3, <1>4, <1>5, <1>7
-----------------------------------------------------------------------------
LEMMA NoDigits ==
    /\ Ext({}, 10) = {} /\ Ext({0}, 10) = {0} /\ {} \in Word64 /\ {0} \in Word64
    /\ \A b \in Word64 : Plus(b, {}) = b /\ Plus({}, b) = b
    /\ \A b \in Word64 : ~Overflows(b, {})
<1>1. Ext({}, 10) = {} /\ Ext({0}, 10) = {0}
  BY DEF Ext
<1>2. {} \in Word64 /\ {0} \in Word64
  BY DEF Word64, Bits
<1>3. ASSUME NEW b \in Word64 PROVE Plus(b, {}) = b /\ Plus({}, b) = b
  BY <1>2, PlusNothing, PlusCommutes
<1>4. ASSUME NEW b \in Word64 PROVE ~Overflows(b, {})
  BY <1>3, SMTT(30) DEF Overflows, Negative
<1> QED BY <1>1, <1>2, <1>3, <1>4

LEMMA UnaryRows ==
    /\ Opcodes["mov"].fn = 0 /\ Opcodes["inc"].fn = 0 /\ Opcodes["dec"].fn = 1
    /\ Opcodes["mcom"].fn = 1 /\ Opcodes["mneg"].fn = 1
    /\ Opcodes["mov"].form = "mv" /\ Opcodes["inc"].form = "id" /\ Opcodes["dec"].form = "id"
    /\ Opcodes["mcom"].form = "mcom" /\ Opcodes["mneg"].form = "mneg"
    /\ Opcodes["mov"].op = 0 /\ Opcodes["inc"].op = 0 /\ Opcodes["dec"].op = 0
    /\ Opcodes["mcom"].op = 0 /\ Opcodes["mneg"].op = 0
BY ZenonT(30) DEF Opcodes, I

LEMMA UnaryNames ==
    ASSUME NEW s, s.op \in DOMAIN Opcodes, Row(s).form \in {"mv", "id", "mcom", "mneg"}
    PROVE  Row(s).op = 0 /\ s.op \in {"mov", "inc", "dec", "mcom", "mneg"}
BY ArithmeticNames, UnaryRows DEF Row

LEMMA UnaryRound ==
    ASSUME NEW s, NEW k, Ready(s, k), Row(s).form \in {"mv", "id", "mcom", "mneg"},
           NEW ra, NEW rb, NEW rc, NEW e, Decodes(WordOf(s, After(s, k)), s, ra, rb, rc, e)
    PROVE  /\ Rr0Result(Row(s).fn, k, After(s, k), ra, Reg(k, rb), Reg(k, rc), Ext(e, 10), Execute(k))
           /\ After(s, k) \in Word64 /\ IsMachine(k)
<1> DEFINE p == After(s, k)
           w == WordOf(s, p)
<1>1. InstructionSize(Row(s)) = 4
  BY DEF InstructionSize
<1>2. w \subseteq 0..31 /\ OPCODE(w) = Row(s).op
  BY DEF Decodes
<1>3. Execute(k) = Operation(At(k, p), w) /\ p \in Word64
  BY <1>1, <1>2, Round DEF Ready
<1>4. Row(s).op = 0
  BY UnaryNames DEF Ready, Proper
<1> HIDE DEF p, w
<1>5. Decodes(w, s, ra, rb, rc, e)
  BY DEF p, w
<1>6. Rr0Result(Row(s).fn, k, p, ra, Reg(k, rb), Reg(k, rc), Ext(e, 10), Operation(At(k, p), w))
  BY <1>3, <1>4, <1>5, Rr0Does DEF Ready
<1> QED BY <1>3, <1>6 DEF p, Ready

LEMMA UnaryMeans ==
    ASSUME NEW s, NEW k, Ready(s, k), Row(s).form \in {"mv", "id", "mcom", "mneg"}
    PROVE  MeansArithmetic(s, k, Execute(k))
<1> DEFINE p == After(s, k)
           w == WordOf(s, p)
           a == R(s, 1)
           x(i) == X(s, i, k)
           after == Execute(k)
           f == Row(s).fn
<1>1. /\ Row(s).form = "mv" => Decodes(w, s, a, R(s, 2), 0, {})
      /\ Row(s).form = "id" => Decodes(w, s, a, R(s, 1), 0, {0})
      /\ Row(s).form = "mcom" => Decodes(w, s, a, 0, R(s, 2), {0})
      /\ Row(s).form = "mneg" => Decodes(w, s, a, 0, R(s, 2), {})
  BY UnaryWord DEF Ready
<1>2. Reg(k, 0) = {} /\ Reg(k, R(s, 1)) = x(1) /\ Reg(k, R(s, 2)) = x(2)
  BY DEF Reg, X
<1>3. /\ Row(s).form = "mv" => Rr0Result(f, k, p, a, x(2), {}, {}, after)
      /\ Row(s).form = "id" => Rr0Result(f, k, p, a, x(1), {}, {0}, after)
      /\ Row(s).form = "mcom" => Rr0Result(f, k, p, a, {}, x(2), {0}, after)
      /\ Row(s).form = "mneg" => Rr0Result(f, k, p, a, {}, x(2), {}, after)
  <2>1. Ext({}, 10) = {} /\ Ext({0}, 10) = {0}
    BY NoDigits
  <2> HIDE DEF x, f, after, a
  <2>2. ASSUME NEW rb, NEW rc, NEW e, Decodes(w, s, a, rb, rc, e)
        PROVE  Rr0Result(f, k, p, a, Reg(k, rb), Reg(k, rc), Ext(e, 10), after)
    BY <2>2, UnaryRound DEF f, after
  <2> HIDE DEF p, w
  <2> QED BY <1>1, <1>2, <2>1, <2>2
<1>4. p \in Word64 /\ IsMachine(k)
  BY <1>1, UnaryRound
<1>5. s.op \in {"mov", "inc", "dec", "mcom", "mneg"}
  BY UnaryNames DEF Ready, Proper
<1>6. /\ s.op = "mov" => f = 0 /\ Row(s).form = "mv"
      /\ s.op = "inc" => f = 0 /\ Row(s).form = "id"
      /\ s.op = "dec" => f = 1 /\ Row(s).form = "id"
      /\ s.op = "mcom" => f = 1 /\ Row(s).form = "mcom"
      /\ s.op = "mneg" => f = 1 /\ Row(s).form = "mneg"
  BY UnaryRows DEF Row
<1> HIDE DEF p, w, a, x, after, f
<1>7. ASSUME NEW b, NEW c, NEW d, Rr0Result(f, k, p, a, b, c, d, after)
      PROVE  /\ b \in Word64 /\ c \in Word64 /\ d \in Word64 /\ a \in 0..31
             /\ f = 0 => after = Summed(k, p, a, b, Plus(c, d)) /\ Adds(b, c, d, FALSE, a, k, after, p)
             /\ f = 1 => after = Summed(k, p, a, b, Neg(Plus(c, d))) /\ Adds(b, c, d, TRUE, a, k, after, p)
  <2>1. /\ b \in Word64 /\ c \in Word64 /\ d \in Word64 /\ a \in 0..31
        /\ f = 0 => after = Summed(k, p, a, b, Plus(c, d))
        /\ f = 1 => after = Summed(k, p, a, b, Neg(Plus(c, d)))
    BY <1>7 DEF Rr0Result
  <2>2. after = Summed(k, p, a, b, Plus(c, d)) => Adds(b, c, d, FALSE, a, k, after, p)
    BY <1>4, <2>1, AddsMean DEF Summed
  <2>3. after = Summed(k, p, a, b, Neg(Plus(c, d))) => Adds(b, c, d, TRUE, a, k, after, p)
    BY <1>4, <2>1, AddsMean DEF Summed
  <2> QED BY <2>1, <2>2, <2>3
<1>8. ASSUME NEW v, after = SetReg(At(k, p), a, v), a \in 0..31 PROVE To(s, k, after, v)
  <2>1. Goes(SetReg(k, a, v), SetReg(At(k, p), a, v), p)
    BY <1>4, <1>8, ToMeans
  <2> QED BY <1>8, <2>1 DEF To, p, a
<1>9. MeansArithmetic(s, k, after)
  <2>1. CASE s.op = "mov"
    <3>1. x(2) \in Word64 /\ a \in 0..31 /\ after = Summed(k, p, a, x(2), Plus({}, {}))
      BY <1>3, <1>6, <1>7, <2>1
    <3>2. Plus({}, {}) = {} /\ Plus(x(2), {}) = x(2) /\ ~Overflows(x(2), {})
      BY <3>1, NoDigits
    <3>3. after = SetReg(At(k, p), a, x(2))
      BY <3>1, <3>2 DEF Summed
    <3>4. To(s, k, after, x(2))
      BY <1>8, <3>1, <3>3
    <3> QED BY <2>1, <3>4, UnarySaid DEF x
  <2>2. CASE s.op = "inc"
    <3>1. Adds(x(1), {}, {0}, FALSE, a, k, after, p)
      BY <1>3, <1>6, <1>7, <2>2
    <3> QED BY <2>2, <3>1, UnarySaid DEF x, a, p
  <2>3. CASE s.op = "dec"
    <3>1. Adds(x(1), {}, {0}, TRUE, a, k, after, p)
      BY <1>3, <1>6, <1>7, <2>3
    <3> QED BY <2>3, <3>1, UnarySaid DEF x, a, p
  <2>4. CASE s.op = "mneg"
    <3>1. Adds({}, x(2), {}, TRUE, a, k, after, p)
      BY <1>3, <1>6, <1>7, <2>4
    <3> QED BY <2>4, <3>1, UnarySaid DEF x, a, p
  <2>5. CASE s.op = "mcom"
    <3>1. /\ x(2) \in Word64 /\ a \in 0..31
          /\ after = Summed(k, p, a, {}, Neg(Plus(x(2), {0})))
      BY <1>3, <1>6, <1>7, <2>5
    <3>2. Plus({}, Neg(Plus(x(2), {0}))) = Not(x(2))
      BY <3>1, Complements
    <3>3. OC \notin k.cr[PSQ] => after = SetReg(At(k, p), a, Not(x(2)))
      BY <3>1, <3>2 DEF Summed
    <3>4. OC \notin k.cr[PSQ] => To(s, k, after, Not(x(2)))
      BY <1>8, <3>1, <3>3
    <3> QED BY <2>5, <3>4, UnarySaid DEF x
  <2> QED BY <1>5, <2>1, <2>2, <2>3, <2>4, <2>5
<1> QED BY <1>9 DEF after
-----------------------------------------------------------------------------
(* Immediates.                                                              *)

LEMMA ImmediateRows ==
    /\ Opcodes["ldi"].fn = 0 /\ Opcodes["ldi"].op = 4
    /\ Opcodes["ldis"].fn = 0 /\ Opcodes["ldis"].op = 5
BY DEF Opcodes, I

LEMMA MovedNowhere ==
    ASSUME NEW t, t \subseteq Int
    PROVE  {b + 0 : b \in t} = t
<1>1. \A b \in Int : b \in {c + 0 : c \in t} <=> b \in t
  OBVIOUS
<1>2. {c + 0 : c \in t} \subseteq Int
  OBVIOUS
<1> QED BY <1>1, <1>2, SameBits

\* A number that starts at bit 0 of the word: the field below, of as many bits.
LEMMA LowNumber ==
    ASSUME NEW v \in Word64, NEW n \in Nat, NEW fields, fields = {<<0, n, 0>>}
    PROVE  Placed(v, fields) = v \cap 0..(n - 1)
<1>1. v \subseteq Nat
  BY DEF Word64, Bits
<1>2. Right(v, 0) = v
  BY <1>1, RightNone
<1>3. Placed(v, {<<0, n, 0>>}) = Field(Right(v, 0), 0, n)
  BY PlacedOnce, Zenon
<1> DEFINE t == v \cap 0..(n - 1)
<1>4. t \subseteq Int
  BY <1>1
<1>5. Field(v, 0, n) = {b + 0 : b \in t}
  BY DEF Field
<1> HIDE DEF t
<1>6. {b + 0 : b \in t} = t
  BY <1>4, MovedNowhere
<1> QED BY <1>2, <1>3, <1>5, <1>6 DEF t

LEMMA ImmediateWord ==
    ASSUME NEW s, NEW k, NEW next, Proper(s, k), Row(s).form = "im"
    PROVE  LET w == WordOf(s, next) IN
           /\ V(s, 2) \in Word64 /\ R(s, 1) \in 0..31
           /\ w \subseteq 0..31 /\ OPCODE(w) = Row(s).op /\ RA(w) = R(s, 1)
           /\ IM_IMM(w) = Ext(V(s, 2) \cap 0..22, 23)
<1> DEFINE w == WordOf(s, next)
           v(i) == Values(s, next)[i]
           d == Number(23, 0, 23, 0)
           os == Operands(s)
           O == Field(Num(Row(s).op), 28, 4)
           F == Field(Num(Row(s).fn), 20, 3)
           mine == <<A, d>>
<1>1. Forms(Row(s)) = {mine} /\ Ordered(Row(s), s.args) = s.args
  BY DEF Forms, Ordered
<1>2. Assembled(s, k).err = "none" /\ s.op \in DOMAIN Opcodes
  BY DEF Proper
<1>3. os = mine /\ Len(os) = 2
  BY <1>1, <1>2, OneForm
<1>4. os[1] = A /\ os[2] = d
  BY <1>3
<1> HIDE DEF mine, d, os
<1>5. v(1) \subseteq 0..4 /\ ToNat(v(1)) = R(s, 1) /\ R(s, 1) \in 0..31
  <2>1. 1 \in 1..Len(Operands(s)) /\ Len(Operands(s)) \in Nat /\ Operands(s)[1].kind = "reg"
    BY <1>3, <1>4, Kinds DEF os
  <2> QED BY <1>1, <2>1, ValueTaken, ZenonT(60) DEF R
<1>6. v(2) = V(s, 2) /\ v(2) \in Word64
  <2>1. 2 \in 1..Len(Operands(s)) /\ Len(Operands(s)) \in Nat /\ Operands(s)[2].kind = "num"
    BY <1>3, <1>4, Kinds DEF os, d
  <2> QED BY <1>1, <2>1, ValueTaken DEF V
<1>7. w = O \cup F \cup Placed(v(1), A.fields) \cup Placed(v(2), d.fields)
  <2>1. w = Encoded(Row(s), os, Values(s, next))
    BY DEF WordOf, os
  <2>2. Fixed(Row(s)) = O \cup F
    <3>1. Fixed(Row(s)) = O \cup F \cup Field({}, 10, 10)
      BY FixedIs
    <3> QED BY <3>1, NothingPlaced
  <2> HIDE DEF w, O, F
  <2> QED BY <1>3, <1>4, <2>1, <2>2, EncodedIs
<1> DEFINE low == v(2) \cap 0..22
<1>8. Placed(v(2), d.fields) = low
  <2> DEFINE n == 23
             value == v(2)
  <2>1. d.fields = {<<0, n, 0>>} /\ n \in Nat /\ n - 1 = 22
    BY DEF d, Number, Operand
  <2>2. value \in Word64
    BY <1>6
  <2> HIDE DEF n, value
  <2>3. Placed(value, d.fields) = value \cap 0..(n - 1)
    BY <2>1, <2>2, LowNumber
  <2> QED BY <2>1, <2>3 DEF value
<1>9. Placed(v(1), A.fields) = Field(v(1), 23, 5)
  BY <1>5, RegistersPlaced
<1>10. low \subseteq 0..22
  OBVIOUS
<1> HIDE DEF w, v, low
<1>11. Row(s).op \in 0..15 /\ Row(s).fn = 0
  BY <1>2, Rows, ArithmeticNames, ImmediateRows DEF Row
<1>12. IsWord(w, Row(s).op, Row(s).fn, v(1), low)
  BY <1>5, <1>7, <1>8, <1>9, <1>10, <1>11 DEF IsWord, O, F
<1>13. IsRead(w, Row(s).op, Row(s).fn, v(1), low)
  BY <1>12, WordRead
<1>14. /\ w \subseteq 0..31 /\ OPCODE(w) = Row(s).op /\ RA(w) = ToNat(v(1))
       /\ \A b \in 0..22 : b \in w <=> b \in low
  BY <1>11, <1>13 DEF IsRead
<1>15. Get(w, 0, 23) = low
  <2>1. ASSUME NEW b \in Int PROVE b \in Get(w, 0, 23) <=> b \in low
    <3>1. w \subseteq Int
      BY <1>14
    <3>2. b \in Get(w, 0, 23) <=> b + 0 \in w /\ b \in 0..(23 - 1)
      BY <3>1, GetBits
    <3> QED BY <1>10, <1>14, <3>2
  <2>2. Get(w, 0, 23) \subseteq Int /\ low \subseteq Int
    BY <1>10 DEF Get
  <2> QED BY <2>1, <2>2, SameBits
<1> QED BY <1>5, <1>6, <1>14, <1>15 DEF IM_IMM, low, w

LEMMA LeftNothing ==
    ASSUME NEW v \in Word64
    PROVE  Left(v, 0) = v
<1>1. v \subseteq 0..63 /\ v \subseteq Int
  BY DEF Word64, Bits
<1>2. {b + 0 : b \in v} = v
  BY <1>1, MovedNowhere
<1> QED BY <1>1, <1>2 DEF Left, Bits

LEMMA ImmediateMeans ==
    ASSUME NEW s, NEW k, Ready(s, k), Row(s).form = "im"
    PROVE  MeansArithmetic(s, k, Execute(k))
<1> DEFINE p == After(s, k)
           w == WordOf(s, p)
           a == R(s, 1)
           v == V(s, 2)
           after == Execute(k)
<1>1. /\ v \in Word64 /\ a \in 0..31
      /\ w \subseteq 0..31 /\ OPCODE(w) = Row(s).op /\ RA(w) = a
      /\ IM_IMM(w) = Ext(v \cap 0..22, 23)
  BY ImmediateWord DEF Ready
<1>2. InstructionSize(Row(s)) = 4
  BY DEF InstructionSize
<1>3. after = Operation(At(k, p), w) /\ p \in Word64 /\ IsMachine(k)
  BY <1>1, <1>2, Round DEF Ready
<1>4. s.op \in {"ldi", "ldis"}
  BY ArithmeticNames DEF Ready, Proper, Row
<1>5. Fits(v, 23) => IM_IMM(w) = v
  <2> HIDE DEF v, p, w, a
  <2> DEFINE n == 23
  <2>1. n \in 1..63 /\ n - 1 = 22
    OBVIOUS
  <2> HIDE DEF n
  <2>2. Fits(v, n) => Ext(v \cap 0..(n - 1), n) = v
    BY <1>1, <2>1, ExtFits
  <2> QED BY <1>1, <2>1, <2>2 DEF n
<1> HIDE DEF w, p, a, v, after
<1>6. ASSUME NEW u, after = SetReg(At(k, p), a, u) PROVE To(s, k, after, u)
  <2>1. Goes(SetReg(k, a, u), SetReg(At(k, p), a, u), p)
    BY <1>1, <1>3, ToMeans
  <2> QED BY <1>6, <2>1 DEF To, p, a
<1>7. CASE s.op = "ldi"
  <2>1. OPCODE(w) = 4
    BY <1>1, <1>7, ImmediateRows DEF Row
  <2>2. after = SetReg(At(k, p), a, IM_IMM(w))
    BY <1>1, <1>3, <2>1 DEF Operation, Im4
  <2>3. Left(v, 0) = v
    BY <1>1, LeftNothing
  <2>4. Fits(v, 23) => To(s, k, after, Left(v, 0))
    BY <1>5, <1>6, <2>2, <2>3
  <2> QED BY <1>7, <2>4, UnarySaid DEF v, after
<1>8. CASE s.op = "ldis"
  <2>1. OPCODE(w) = 5
    BY <1>1, <1>8, ImmediateRows DEF Row
  <2>2. after = SetReg(At(k, p), a, Left(IM_IMM(w), 9))
    BY <1>1, <1>3, <2>1 DEF Operation, Im5
  <2>4. Fits(v, 23) => To(s, k, after, Left(v, 9))
    BY <1>5, <1>6, <2>2
  <2> QED BY <1>8, <2>4, UnarySaid DEF v, after
<1> QED BY <1>4, <1>7, <1>8

\* What becomes of a statement that is not of loads, stores or the system.
LEMMA StorageForms ==
    ASSUME NEW o \in {"svc", "ldca", "ldcas"} \cup DOMAIN Loads \cup DOMAIN Stores
    PROVE  Opcodes[o].form \in {"ls", "lss"}
BY SMTT(60) DEF Opcodes, Loads, Stores, LsRow, LssRow

LEMMA MeansIs ==
    ASSUME NEW s, NEW before, NEW after
    PROVE  LET form == Row(s).form IN
           /\ form \in {"rr", "mv", "id", "mcom", "mneg", "im", "lgisl"}
                => (MeansArithmetic(s, before, after) => Means(s, before, after))
           /\ form = "bifn" => (MeansField(s, before, after) => Means(s, before, after))
           /\ form \in {"br", "j", "ret"} => (MeansControl(s, before, after) => Means(s, before, after))
           /\ form \in {"cr", "rex"} => (MeansSystem(s, before, after) => Means(s, before, after))
<1> DEFINE form == Opcodes[s.op].form
           stored == {"ldca", "ldcas"} \cup DOMAIN Loads \cup DOMAIN Stores
<1>1. form \notin {"ls", "lss"} => s.op # "svc" /\ s.op \notin stored
  BY StorageForms
<1> HIDE DEF stored
<1>2. Means(s, before, after) =
    CASE form \in {"rr", "mv", "id", "mcom", "mneg", "im", "lgisl"} ->
           MeansArithmetic(s, before, after)
      [] form = "bifn" -> MeansField(s, before, after)
      [] form \in {"br", "j", "ret"} -> MeansControl(s, before, after)
      [] form \in {"cr", "rex"} \/ s.op = "svc" -> MeansSystem(s, before, after)
      [] s.op \in stored -> MeansMemory(s, before, after)
      [] OTHER -> TRUE
  BY DEF Means, stored
<1> HIDE DEF form
<1>3. form \in {"rr", "mv", "id", "mcom", "mneg", "im", "lgisl"}
        => (MeansArithmetic(s, before, after) => Means(s, before, after))
  BY <1>1, <1>2
<1>4. form = "bifn" => (MeansField(s, before, after) => Means(s, before, after))
  BY <1>1, <1>2
<1>5. form \in {"br", "j", "ret"} => (MeansControl(s, before, after) => Means(s, before, after))
  BY <1>1, <1>2
<1>6. form \in {"cr", "rex"} => (MeansSystem(s, before, after) => Means(s, before, after))
  BY <1>1, <1>2
<1> QED BY <1>3, <1>4, <1>5, <1>6 DEF form, Row

\* A statement of arithmetic in one word makes of the machine what it says.
THEOREM ArithmeticMeans ==
    ASSUME NEW s, NEW k, Ready(s, k), Row(s).form \in {"rr", "mv", "id", "mcom", "mneg", "im"}
    PROVE  Means(s, k, Execute(k))
<1>1. CASE Row(s).form = "rr"
  <2>1. s.op \in {"add", "sub", "and", "or", "xor", "shl", "sal", "setxc", "moveq", "movne",
                  "movgt", "movle"}
    BY <1>1, ArithmeticNames DEF Ready, Proper, Row
  <2>2. Row(s).op \in {0, 12}
    BY <2>1 DEF Row, Opcodes, I
  <2>3. MeansArithmetic(s, k, Execute(k))
    BY <1>1, <2>2, Rr0Means, RrCMeans
  <2> QED BY <1>1, <2>3, MeansIs
<1>2. CASE Row(s).form \in {"mv", "id", "mcom", "mneg"}
  <2>1. MeansArithmetic(s, k, Execute(k))
    BY <1>2, UnaryMeans
  <2> QED BY <1>2, <2>1, MeansIs
<1>3. CASE Row(s).form = "im"
  <2>1. MeansArithmetic(s, k, Execute(k))
    BY <1>3, ImmediateMeans
  <2> QED BY <1>3, <2>1, MeansIs
<1> QED BY <1>1, <1>2, <1>3
-----------------------------------------------------------------------------
(* The words of the other instructions of one word.                         *)

\* A word with a register, and twenty bits below its function.
LEMMA WordAbove ==
    ASSUME NEW s, s.op \in DOMAIN Opcodes, Row(s).form \notin {"tr", "ret", "lgisl", "mcom", "id"},
           NEW a, a \subseteq 0..4, NEW low, low \subseteq 0..19,
           NEW w, w = Fixed(Row(s)) \cup Field(a, 23, 5) \cup low
    PROVE  IsRead(w, Row(s).op, Row(s).fn, a, low)
<1> DEFINE O == Field(Num(Row(s).op), 28, 4)
           F == Field(Num(Row(s).fn), 20, 3)
<1>1. Fixed(Row(s)) = O \cup F
  <2>1. Fixed(Row(s)) = O \cup F \cup Field({}, 10, 10)
    BY FixedIs
  <2> QED BY <2>1, NothingPlaced
<1>2. Row(s).op \in 0..15 /\ Row(s).fn \in 0..7
  BY Rows DEF Row
<1>3. IsWord(w, Row(s).op, Row(s).fn, a, low)
  BY <1>1, <1>2 DEF IsWord
<1> QED BY <1>3, WordRead

\* A field of the twenty bits.
Shows(w, low) == w \subseteq Int /\ low \subseteq 0..19 /\ \A b \in 0..19 : b \in w <=> b \in low
LiesAt(low, v, pos, n) ==
    /\ pos \in Nat /\ n \in Nat /\ pos + n <= 20 /\ v \subseteq Int
    /\ \A b \in pos..(pos + n - 1) : b \in low <=> b \in Field(v, pos, n)
LEMMA LowField ==
    ASSUME NEW w, NEW low, Shows(w, low), NEW v, NEW pos, NEW n, LiesAt(low, v, pos, n)
    PROVE  Get(w, pos, n) = Low(v, n)
<1>0. pos \in Nat /\ n \in Nat /\ pos + n <= 20 /\ v \subseteq Int
  BY DEF LiesAt
<1>1. w \subseteq Int /\ \A b \in 0..19 : b \in w <=> b \in low
  BY DEF Shows
<1>2. \A b \in pos..(pos + n - 1) : b \in 0..19
  BY <1>0
<1>3. Exclusive(w, v, pos, n)
  BY <1>1, <1>2 DEF Exclusive, LiesAt
<1> QED BY <1>0, <1>1, <1>3, FieldRead

\* The lowest bits of a sum, when those of one summand are none.
LEMMA LowPair ==
    ASSUME NEW x \in Word64, NEW y \in Word64, x \cap 0..1 = {}, NEW b \in 0..1
    PROVE  b \in Plus(x, y) <=> b \in y
<1>1. b \notin x /\ b \in 0..(64 - 1)
  OBVIOUS
<1>2. ~Carry(x, y, b)
  <2>1. \A c \in x : c < b => c \in 0..1
    BY DEF Word64, Bits
  <2> QED BY <2>1 DEF Carry
<1>3. b \in Plus(x, y) <=> (((b \in x) # (b \in y)) # Carry(x, y, b))
  BY <1>1, Zenon DEF Plus, PlusIn
<1>4. Carry(x, y, b) \in BOOLEAN
  BY DEF Carry
<1> QED BY <1>1, <1>2, <1>3, <1>4

\* What is fetched lies at a multiple of 4, and so does what comes next.
LEMMA NextAligned ==
    ASSUME NEW s, NEW k, IsMachine(k), Stands(s, k), InstructionSize(Row(s)) = 4
    PROVE  After(s, k) \cap 0..1 = {}
<1> DEFINE a == Translate(k, k.pc)
           base == k.cr[OB0 + ToNat(Get(k.pc, 60, 4))] \ 0..9
           four == {2}
<1>1. a \cap 0..(2 - 1) = {}
  BY DEF Stands, BusFault
<1>2. k.pc \in Word64 /\ four \in Word64
  BY DEF IsMachine, Word64, Bits
<1>3. k.pc \cap 0..1 = {}
  <2>1. CASE k.cr[PSQ] \cap PageGroup = {}
    BY <1>1, <2>1 DEF Translate
  <2>2. CASE k.cr[PSQ] \cap PageGroup # {}
    <3> DEFINE low == k.pc \cap 0..59
    <3>1. a = Plus(base, low)
      BY <2>2 DEF Translate
    <3>2. base \cap 0..1 = {}
      OBVIOUS
    <3>3. base \in Word64
      <4>1. Get(k.pc, 60, 4) \subseteq 0..4
        BY DEF Get
      <4>2. Get(k.pc, 60, 4) \subseteq 0..3
        BY DEF Get
      <4>3. ToNat(Get(k.pc, 60, 4)) \in 0..31
        BY <4>1, FiveBits
      <4>4. OB0 + ToNat(Get(k.pc, 60, 4)) \in 0..47
        BY <4>3 DEF OB0
      <4>5. k.cr[OB0 + ToNat(Get(k.pc, 60, 4))] \in Word64
        BY <4>4 DEF IsMachine
      <4> QED BY <4>5 DEF Word64
    <3>4. low \in Word64
      BY <1>2 DEF Word64
    <3> HIDE DEF a, base, low
    <3>5. \A b \in 0..1 : b \in a <=> b \in low
      BY <3>1, <3>2, <3>3, <3>4, LowPair
    <3>6. \A b \in 0..1 : b \in low <=> b \in k.pc
      BY DEF low
    <3> QED BY <1>1, <3>5, <3>6
  <2> QED BY <2>1, <2>2
<1>4. After(s, k) = Plus(k.pc, four)
  BY NumFour DEF After, Row
<1> HIDE DEF four
<1>5. \A b \in 0..1 : b \in After(s, k) <=> b \in four
  BY <1>2, <1>3, <1>4, LowPair
<1> QED BY <1>5 DEF four
-----------------------------------------------------------------------------
(* The words of branches and jumps.                                         *)

\* What the machine finds in one: a register, and a distance in words.
BranchReads(w, s, ra, v) ==
    /\ w \subseteq 0..31 /\ OPCODE(w) = Row(s).op /\ FN(w) = Row(s).fn
    /\ RA(w) = ra /\ ra \in 0..31 /\ BR_DISP(w) = Ext(Right(v, 2) \cap 0..19, 20)

LEMMA BranchFilled ==
    ASSUME NEW s, s.op \in DOMAIN Opcodes, Row(s).form \in {"br", "j"},
           NEW a, a \subseteq 0..4, NEW v \in Word64,
           NEW w, w = Fixed(Row(s)) \cup Field(a, 23, 5) \cup Field(Right(v, 2), 0, 20)
    PROVE  BranchReads(w, s, ToNat(a), v)
<1> DEFINE low == Field(Right(v, 2), 0, 20)
           r == Right(v, 2)
<1>1. low \subseteq 0..19
  BY DEF Field
<1>2. r \subseteq Int
  BY RightIsNat
<1>3. low = Field(r, 0, 20)
  OBVIOUS
<1> HIDE DEF low, r
<1>4. IsRead(w, Row(s).op, Row(s).fn, a, low)
  BY <1>1, WordAbove DEF low
<1>8. Shows(w, low)
  BY <1>1, <1>4 DEF IsRead, Shows
<1>5. Get(w, 0, 20) = Low(r, 20)
  <2>1. LiesAt(low, r, 0, 20)
    BY <1>2, <1>3 DEF LiesAt
  <2> QED BY <1>8, <2>1, LowField
<1>6. ToNat(a) \in 0..31
  BY FiveBits
<1>7. BR_DISP(w) = Ext(Right(v, 2) \cap 0..19, 20)
  BY <1>5, SMTT(30) DEF BR_DISP, Low, r
<1> QED BY <1>1, <1>4, <1>6, <1>7 DEF IsRead, BranchReads

LEMMA WordsPlaced ==
    ASSUME NEW v, NEW kind
    PROVE  Placed(v, Operand(kind, 22, {<<2, 20, 0>>}).fields) = Field(Right(v, 2), 0, 20)
<1>1. Operand(kind, 22, {<<2, 20, 0>>}).fields = {<<2, 20, 0>>}
  BY DEF Operand
<1>2. Placed(v, {<<2, 20, 0>>}) = Field(Right(v, 2), 0, 20)
  BY PlacedOnce, Zenon
<1> QED BY <1>1, <1>2

LEMMA NothingRight ==
    /\ {} \subseteq 0..4 /\ ToNat({}) = 0 /\ Field({}, 23, 5) = {}
    /\ Right({}, 2) = {} /\ Field({}, 0, 20) = {} /\ {} \in Word64
BY NumberOfNothing DEF Right, Field, Word64

\* The operands of a form with two choices.
LEMMA EitherForm ==
    ASSUME NEW s, NEW k, Assembled(s, k).err = "none", NEW short, NEW long,
           Forms(Row(s)) = {short, long}, Len(short) # Len(long)
    PROVE  LET n == Len(Ordered(Row(s), s.args)) IN
           /\ n = Len(short) \/ n = Len(long)
           /\ n = Len(short) => Operands(s) = short
           /\ n = Len(long) => Operands(s) = long
<1> DEFINE n == Len(Ordered(Row(s), s.args))
<1>1. \E p \in Forms(Row(s)) : Len(p) = n
  BY AssembledIs
<1>2. \A p \in Forms(Row(s)) : p = short \/ p = long
  OBVIOUS
<1>3. n = Len(short) => Operands(s) = short
  BY <1>2, Chosen
<1>4. n = Len(long) => Operands(s) = long
  BY <1>2, Chosen
<1> QED BY <1>1, <1>2, <1>3, <1>4

There(s, next) ==
    LET n == Len(s.args) IN IF IsNum(s.args[n]) THEN Plus(next, V(s, n)) ELSE V(s, n)

\* A branch: with a register or not, and the distance of where it goes.
LEMMA BranchWord ==
    ASSUME NEW s, NEW k, NEW next \in Word64, Proper(s, k), Row(s).form = "br"
    PROVE  LET n == Len(s.args)
               there == There(s, next)
           IN  /\ n \in {1, 2} /\ there \in Word64
               /\ \E v \in Word64 :
                     /\ Plus(next, v) = there /\ Minus(there, next) = v
                     /\ BranchReads(WordOf(s, next), s, IF n = 2 THEN R(s, 1) ELSE 0, v)
<1> DEFINE n == Len(s.args)
           w == WordOf(s, next)
           rel == Operand("rel", 22, {<<2, 20, 0>>})
           short == <<rel>>
           long == <<A, rel>>
           v(i) == Values(s, next)[i]
           os == Operands(s)
           there == There(s, next)
<1>1. Forms(Row(s)) = {short, long} /\ Ordered(Row(s), s.args) = s.args
  BY DEF Forms, Ordered
<1>2. Assembled(s, k).err = "none" /\ s.op \in DOMAIN Opcodes /\ LabelsAreWords
  BY DEF Proper
<1>3. Len(short) = 1 /\ Len(long) = 2 /\ short[1] = rel /\ long[1] = A /\ long[2] = rel
  OBVIOUS
<1>4. rel.kind = "rel"
  BY DEF Operand
<1> HIDE DEF short, long, rel
<1>5. /\ n \in {1, 2} /\ Len(os) = n
      /\ n = 1 => os[1] = rel
      /\ n = 2 => os[1] = A /\ os[2] = rel
  <2>1. Len(short) # Len(long)
    BY <1>3
  <2>2. /\ n = Len(short) \/ n = Len(long)
        /\ n = Len(short) => Operands(s) = short
        /\ n = Len(long) => Operands(s) = long
    BY <1>1, <1>2, <2>1, EitherForm
  <2> QED BY <1>3, <2>2
<1>6. w = Encoded(Row(s), os, Values(s, next))
  BY DEF WordOf
<1>7. ASSUME os[n].kind = "rel"
      PROVE  v(n) \in Word64 /\ there \in Word64 /\ Plus(next, v(n)) = there /\ Minus(there, next) = v(n)
  <2> DEFINE o == Operands(s)[n]
             x == Ordered(Row(s), s.args)[n]
  <2>1. n \in 1..Len(Operands(s)) /\ Len(Operands(s)) \in Nat
    BY <1>5
  <2>2. Fitting(o, x) /\ ErrorAfter(o, x, labels, "none") = "none"
    BY <1>2, <2>1, Taken DEF Proper
  <2>3. v(n) = ValueOf(o, x, labels, next)
    BY <2>1 DEF Values
  <2>4. there = IF IsNum(x) THEN Plus(next, Given(x)) ELSE Given(x)
    BY <1>1 DEF There, V
  <2>5. o.kind = "rel"
    BY <1>7
  <2> HIDE DEF o, x, v, there
  <2> QED BY <1>2, <2>2, <2>3, <2>4, <2>5, RelTaken
<1>8. ASSUME n = 2 PROVE v(1) \subseteq 0..4 /\ ToNat(v(1)) = R(s, 1)
  <2>1. 1 \in 1..Len(Operands(s)) /\ Len(Operands(s)) \in Nat /\ Operands(s)[1].kind = "reg"
    BY <1>5, <1>8, Kinds
  <2> QED BY <1>1, <2>1, ValueTaken DEF R
<1> HIDE DEF n, w, v, os, there
<1>9. CASE n = 1
  <2>1. v(1) \in Word64 /\ there \in Word64 /\ Plus(next, v(1)) = there /\ Minus(there, next) = v(1)
    BY <1>4, <1>5, <1>7, <1>9
  <2>2. w = Fixed(Row(s)) \cup Placed(v(1), rel.fields)
    BY <1>5, <1>6, <1>9, EncodedIs DEF v
  <2>3. w = Fixed(Row(s)) \cup Field({}, 23, 5) \cup Field(Right(v(1), 2), 0, 20)
    BY <2>2, WordsPlaced, NothingRight DEF rel
  <2>4. BranchReads(w, s, 0, v(1))
    BY <1>2, <2>1, <2>3, BranchFilled, NothingRight
  <2> QED BY <1>5, <1>9, <2>1, <2>4 DEF n, w, there
<1>10. CASE n = 2
  <2>1. v(2) \in Word64 /\ there \in Word64 /\ Plus(next, v(2)) = there /\ Minus(there, next) = v(2)
    BY <1>4, <1>5, <1>7, <1>10
  <2>2. w = Fixed(Row(s)) \cup Placed(v(1), A.fields) \cup Placed(v(2), rel.fields)
    BY <1>5, <1>6, <1>10, EncodedIs DEF v
  <2>3. w = Fixed(Row(s)) \cup Field(v(1), 23, 5) \cup Field(Right(v(2), 2), 0, 20)
    BY <1>8, <1>10, <2>2, WordsPlaced, RegistersPlaced DEF rel
  <2>4. BranchReads(w, s, R(s, 1), v(2))
    BY <1>2, <1>8, <1>10, <2>1, <2>3, BranchFilled
  <2> QED BY <1>5, <1>10, <2>1, <2>4 DEF n, w, there
<1> QED BY <1>5, <1>9, <1>10
-----------------------------------------------------------------------------
(* What branches and jumps make of the machine.                             *)

\* The machine goes on at q, with the next address in the link register or not.
Jumps(k, after, q) == after = [k EXCEPT !.pc = q]
Links(k, p, after, q) == after = [SetReg(k, LR, p) EXCEPT !.pc = q]
BranchResult(f, k, p, a, v, after) ==
    LET far == Plus(p, Plus(a, v))
        If(q) == Jumps(k, after, IF q THEN Plus(p, v) ELSE p)
    IN  /\ f = 0 => Jumps(k, after, far)
        /\ f = 1 => Jumps(k, after, Plus(a, v))
        /\ f = 2 => Links(k, p, after, far)
        /\ f = 3 => Links(k, p, after, Plus(a, v))
        /\ f = 4 => If(a = {})
        /\ f = 5 => If(a # {})
        /\ f = 6 => If(a # {} /\ ~Negative(a))
        /\ f = 7 => If(a = {} \/ Negative(a))

LEMMA JumpAt ==
    ASSUME NEW k, IsMachine(k), NEW p \in Word64, NEW q
    PROVE  /\ [At(k, p) EXCEPT !.pc = q] = [k EXCEPT !.pc = q]
           /\ [SetReg(At(k, p), LR, p) EXCEPT !.pc = q] = [SetReg(k, LR, p) EXCEPT !.pc = q]
<1>1. [At(k, p) EXCEPT !.pc = q] = [k EXCEPT !.pc = q]
  <2>1. At(k, p) = [regs |-> k.regs, cr |-> k.cr, pc |-> p, mem |-> k.mem, io |-> k.io]
    BY DEF At, IsMachine
  <2>2. [k EXCEPT !.pc = q] = [regs |-> k.regs, cr |-> k.cr, pc |-> q, mem |-> k.mem, io |-> k.io]
    BY DEF IsMachine
  <2> QED BY <2>1, <2>2
<1>2. [SetReg(At(k, p), LR, p) EXCEPT !.pc = q] = [SetReg(k, LR, p) EXCEPT !.pc = q]
  <2> DEFINE g == [k.regs EXCEPT ![LR] = p]
  <2>1. LR # 0
    BY DEF LR
  <2>2. At(k, p) = [regs |-> k.regs, cr |-> k.cr, pc |-> p, mem |-> k.mem, io |-> k.io]
    BY DEF At, IsMachine
  <2>3. SetReg(k, LR, p) = [k EXCEPT !.regs = g]
    BY <2>1 DEF SetReg
  <2>4. SetReg(At(k, p), LR, p) = [At(k, p) EXCEPT !.regs = g]
    <3>1. At(k, p).regs = k.regs
      BY <2>2
    <3>2. SetReg(At(k, p), LR, p) = [At(k, p) EXCEPT !.regs = [At(k, p).regs EXCEPT ![LR] = p]]
      BY <2>1 DEF SetReg
    <3> QED BY <3>1, <3>2
  <2> HIDE DEF g
  <2>5. SetReg(k, LR, p) = [regs |-> g, cr |-> k.cr, pc |-> k.pc, mem |-> k.mem, io |-> k.io]
    BY <2>3 DEF IsMachine
  <2>6. SetReg(At(k, p), LR, p) = [regs |-> g, cr |-> k.cr, pc |-> p, mem |-> k.mem, io |-> k.io]
    BY <2>2, <2>4
  <2> QED BY <2>5, <2>6
<1> QED BY <1>1, <1>2

LEMMA BranchDoes ==
    ASSUME NEW s, NEW k, IsMachine(k), NEW p \in Word64, Row(s).op = 1, Row(s).fn \in 0..7,
           NEW w, NEW ra, NEW v \in Word64, BranchReads(w, s, ra, v), Fits(v, 22), v \cap 0..1 = {}
    PROVE  BranchResult(Row(s).fn, k, p, Reg(k, ra), v, Operation(At(k, p), w))
<1> DEFINE m0 == At(k, p)
           a == Reg(k, ra)
           f == Row(s).fn
           d == Left(BR_DISP(w), 2)
           after == Operation(m0, w)
           linked == IF f \in {2, 3} THEN SetReg(m0, LR, p) ELSE m0
           taken == CASE f < 4  -> TRUE
                      [] f = 4 -> a = {}
                      [] f = 5 -> a # {}
                      [] f = 6 -> a # {} /\ ~Negative(a)
                      [] f = 7 -> a = {} \/ Negative(a)
           target == CASE f \in {0, 2} -> Plus(p, Plus(a, d))
                       [] f \in {1, 3} -> Plus(a, d)
                       [] OTHER -> Plus(p, d)
<1>1. OPCODE(w) = 1 /\ FN(w) = f /\ RA(w) = ra /\ ra \in 0..31
  BY DEF BranchReads
<1>2. Reg(m0, ra) = a /\ a \in Word64 /\ m0.pc = p
  BY <1>1, RegAt, AtMachine
<1>3. d = v
  <2> DEFINE n == 20
             j == 2
  <2>1. n \in 4..24 /\ j \in 0..3 /\ Fits(v, n + j) /\ Multiple(v, j)
    BY DEF Multiple
  <2> HIDE DEF n, j
  <2>2. Left(Ext(Right(v, j) \cap 0..(n - 1), n), j) = v
    BY <2>1, ScaledFits
  <2> QED BY <2>2 DEF n, j, BranchReads
<1>4. after = Br1(m0, w)
  BY <1>1 DEF Operation
<1>5. after = IF taken THEN [linked EXCEPT !.pc = target] ELSE m0
  BY <1>1, <1>2, <1>4 DEF Br1
<1>6. f \in 0..7
  OBVIOUS
<1>7. \A q : /\ [m0 EXCEPT !.pc = q] = [k EXCEPT !.pc = q]
             /\ [SetReg(m0, LR, p) EXCEPT !.pc = q] = [SetReg(k, LR, p) EXCEPT !.pc = q]
  BY JumpAt
<1>8. m0 = [k EXCEPT !.pc = p]
  BY DEF At
<1> HIDE DEF m0, a, f, d, after
<1>9. ASSUME f \in {0, 1, 2, 3} PROVE after = [linked EXCEPT !.pc = target]
  <2>1. f < 4
    BY <1>9
  <2>2. f # 4 /\ f # 5 /\ f # 6 /\ f # 7
    BY <1>9
  <2>3. taken <=> TRUE
    BY <2>1, <2>2
  <2> QED BY <1>5, <2>3
<1>20. /\ f = 0 => linked = m0 /\ target = Plus(p, Plus(a, v))
       /\ f = 1 => linked = m0 /\ target = Plus(a, v)
       /\ f = 2 => linked = SetReg(m0, LR, p) /\ target = Plus(p, Plus(a, v))
       /\ f = 3 => linked = SetReg(m0, LR, p) /\ target = Plus(a, v)
  BY <1>3
<1>10. /\ f = 0 => Jumps(k, after, Plus(p, Plus(a, v)))
       /\ f = 1 => Jumps(k, after, Plus(a, v))
       /\ f = 2 => Links(k, p, after, Plus(p, Plus(a, v)))
       /\ f = 3 => Links(k, p, after, Plus(a, v))
  <2> HIDE DEF linked, target
  <2> QED BY <1>7, <1>9, <1>20 DEF Jumps, Links
<1> DEFINE If(q) == Jumps(k, after, IF q THEN Plus(p, v) ELSE p)
<1>11. ASSUME f \in {4, 5, 6, 7}
       PROVE  linked = m0 /\ target = Plus(p, v)
  BY <1>3, <1>11
<1>12. ASSUME f \in {4, 5, 6, 7}, NEW q \in BOOLEAN, taken <=> q PROVE If(q)
  BY <1>5, <1>7, <1>8, <1>11, <1>12 DEF Jumps
<1>13. f = 4 => If(a = {})
  <2>1. f = 4 => (taken <=> a = {})
    OBVIOUS
  <2> QED BY <1>12, <2>1
<1>14. f = 5 => If(a # {})
  <2>1. f = 5 => (taken <=> a # {})
    OBVIOUS
  <2> QED BY <1>12, <2>1
<1>15. f = 6 => If(a # {} /\ ~Negative(a))
  <2>1. f = 6 => (taken <=> a # {} /\ ~Negative(a))
    OBVIOUS
  <2> QED BY <1>12, <2>1
<1>16. f = 7 => If(a = {} \/ Negative(a))
  <2>1. f = 7 => (taken <=> a = {} \/ Negative(a))
    OBVIOUS
  <2> QED BY <1>12, <2>1
<1> QED BY <1>10, <1>13, <1>14, <1>15, <1>16 DEF BranchResult, a, f, after, m0

LEMMA ControlRows ==
    /\ Opcodes["br"].fn = 0 /\ Opcodes["call"].fn = 2 /\ Opcodes["bez"].fn = 4
    /\ Opcodes["bnz"].fn = 5 /\ Opcodes["bgz"].fn = 6 /\ Opcodes["blez"].fn = 7
    /\ Opcodes["jmp"].fn = 1 /\ Opcodes["callf"].fn = 3 /\ Opcodes["ret"].fn = 1
BY ZenonT(60) DEF Opcodes, I

LEMMA ControlRow ==
    /\ Opcodes["br"].op = 1 /\ Opcodes["call"].op = 1 /\ Opcodes["bez"].op = 1
    /\ Opcodes["bnz"].op = 1 /\ Opcodes["bgz"].op = 1 /\ Opcodes["blez"].op = 1
    /\ Opcodes["jmp"].op = 1 /\ Opcodes["callf"].op = 1 /\ Opcodes["ret"].op = 1
BY ZenonT(30) DEF Opcodes, I

LEMMA ControlNames ==
    ASSUME NEW o \in DOMAIN Opcodes
    PROVE  /\ Opcodes[o].form = "br" => o \in {"br", "call", "bez", "bnz", "bgz", "blez"}
           /\ Opcodes[o].form = "j" => o \in {"jmp", "callf"}
           /\ Opcodes[o].form = "ret" => o = "ret"
BY SMTT(60) DEF Opcodes, I, LsRow, LssRow

LEMMA ControlSaid ==
    ASSUME NEW s, NEW before, NEW after
    PROVE  LET next == After(s, before)
               n == Len(s.args)
               there == There(s, next)
               x == IF n = 2 THEN X(s, 1, before) ELSE {}
               j == Plus(X(s, 1, before), Last0(s, 1))
               near == Fits(Minus(there, next), 22) /\ there \cap 0..1 = {}
               word == Last0(s, 1)
               fine == Fits(word, 22) /\ word \cap 0..1 = {}
               If(q) == Jumps(before, after, IF q THEN there ELSE next)
               says == MeansControl(s, before, after)
           IN  /\ s.op = "br" => ((near => Jumps(before, after, Plus(there, x))) => says)
               /\ s.op = "call" => ((near => Links(before, next, after, Plus(there, x))) => says)
               /\ s.op = "bez" => ((near => If(x = {})) => says)
               /\ s.op = "bnz" => ((near => If(x # {})) => says)
               /\ s.op = "bgz" => ((near => If(x # {} /\ ~Negative(x))) => says)
               /\ s.op = "blez" => ((near => If(x = {} \/ Negative(x))) => says)
               /\ s.op = "jmp" => ((fine => Jumps(before, after, j)) => says)
               /\ s.op = "callf" => ((fine => Links(before, next, after, j)) => says)
               /\ s.op = "ret" => (Jumps(before, after, Reg(before, LR)) => says)
BY DEF MeansControl, There, Jumps, Links, Goes

LEMMA FarFrom ==
    ASSUME NEW p \in Word64, NEW a \in Word64, NEW v \in Word64
    PROVE  Plus(p, Plus(a, v)) = Plus(Plus(p, v), a)
<1>1. Plus(a, v) = Plus(v, a)
  BY PlusCommutes
<1> QED BY <1>1, PlusAssociates

LEMMA BranchMeans ==
    ASSUME NEW s, NEW k, Ready(s, k), Row(s).form = "br"
    PROVE  MeansControl(s, k, Execute(k))
<1> DEFINE n == Len(s.args)
           p == After(s, k)
           w == WordOf(s, p)
           there == There(s, p)
           x == IF n = 2 THEN X(s, 1, k) ELSE {}
           ra == IF n = 2 THEN R(s, 1) ELSE 0
           after == Execute(k)
           f == Row(s).fn
           near == Fits(Minus(there, p), 22) /\ there \cap 0..1 = {}
<1>1. InstructionSize(Row(s)) = 4
  BY DEF InstructionSize
<1>2. p \cap 0..1 = {} /\ IsMachine(k) /\ p \in Word64
  BY <1>1, NextAligned, PlusWord DEF Ready, After
<1>3. there \in Word64 /\ \E v \in Word64 :
         Plus(p, v) = there /\ Minus(there, p) = v /\ BranchReads(w, s, ra, v)
  BY <1>2, BranchWord DEF Ready
<1>4. PICK v \in Word64 : Plus(p, v) = there /\ Minus(there, p) = v /\ BranchReads(w, s, ra, v)
  BY <1>3
<1>5. w \subseteq 0..31 /\ OPCODE(w) = Row(s).op
  BY <1>4 DEF BranchReads
<1>6. after = Operation(At(k, p), w)
  BY <1>1, <1>5, Round DEF Ready
<1>7. s.op \in {"br", "call", "bez", "bnz", "bgz", "blez"}
  BY ControlNames DEF Ready, Proper, Row
<1>8. Row(s).op = 1 /\ f \in 0..7
  BY <1>7, ControlRows, ControlRow DEF Row
<1>9. Reg(k, ra) = x
  BY DEF X, Reg
<1> HIDE DEF there, w, p, after, ra
<1>10. there \cap 0..1 = {} => v \cap 0..1 = {}
  <2>1. \A b \in 0..1 : b \in there <=> b \in v
    BY <1>2, <1>4, LowPair
  <2> QED BY <2>1
<1>11. near => BranchResult(f, k, p, x, v, after)
  <2>1. ASSUME near PROVE BranchResult(f, k, p, Reg(k, ra), v, Operation(At(k, p), w))
    <3>1. Fits(v, 22) /\ v \cap 0..1 = {}
      BY <1>4, <1>10, <2>1
    <3> QED BY <1>2, <1>4, <1>8, <3>1, BranchDoes
  <2> QED BY <1>6, <1>9, <2>1
<1>12. x \in Word64
  <2>1. ra \in 0..31
    BY <1>4 DEF BranchReads
  <2> QED BY <1>2, <1>9, <2>1, RegAt
<1> HIDE DEF x, f, near, n
<1>13. Plus(p, Plus(x, v)) = Plus(there, x)
  BY <1>2, <1>4, <1>12, FarFrom
<1>14. /\ s.op = "br" => f = 0
       /\ s.op = "call" => f = 2
       /\ s.op = "bez" => f = 4
       /\ s.op = "bnz" => f = 5
       /\ s.op = "bgz" => f = 6
       /\ s.op = "blez" => f = 7
  BY ControlRows DEF Row, f
<1> DEFINE If(q) == Jumps(k, after, IF q THEN there ELSE p)
<1>15. /\ near /\ f = 0 => Jumps(k, after, Plus(there, x))
       /\ near /\ f = 2 => Links(k, p, after, Plus(there, x))
       /\ near /\ f = 4 => If(x = {})
       /\ near /\ f = 5 => If(x # {})
       /\ near /\ f = 6 => If(x # {} /\ ~Negative(x))
       /\ near /\ f = 7 => If(x = {} \/ Negative(x))
  BY <1>4, <1>11, <1>13 DEF BranchResult
<1>16. /\ s.op = "br" => ((near => Jumps(k, after, Plus(there, x))) => MeansControl(s, k, after))
       /\ s.op = "call" => ((near => Links(k, p, after, Plus(there, x))) => MeansControl(s, k, after))
       /\ s.op = "bez" => ((near => If(x = {})) => MeansControl(s, k, after))
       /\ s.op = "bnz" => ((near => If(x # {})) => MeansControl(s, k, after))
       /\ s.op = "bgz" => ((near => If(x # {} /\ ~Negative(x))) => MeansControl(s, k, after))
       /\ s.op = "blez" => ((near => If(x = {} \/ Negative(x))) => MeansControl(s, k, after))
  BY ControlSaid DEF near, there, x, p, n
<1>17. MeansControl(s, k, after)
  BY <1>7, <1>14, <1>15, <1>16
<1> QED BY <1>17 DEF after
-----------------------------------------------------------------------------
LEMMA Reversed ==
    ASSUME NEW x, Len(x) \in Nat
    PROVE  /\ Len(Reverse(x)) = Len(x)
           /\ Len(x) = 1 => Reverse(x)[1] = x[1]
           /\ Len(x) = 2 => Reverse(x)[1] = x[2] /\ Reverse(x)[2] = x[1]
<1>1. Reverse(x) = [i \in 1..Len(x) |-> x[(Len(x) - i) + 1]]
  BY DEF Reverse
<1>2. Len(Reverse(x)) = Len(x)
  BY <1>1
<1>3. Len(x) = 1 => Reverse(x)[1] = x[1]
  BY <1>1
<1>4. Len(x) = 2 => Reverse(x)[1] = x[2] /\ Reverse(x)[2] = x[1]
  BY <1>1
<1> QED BY <1>2, <1>3, <1>4

\* A jump: the register, and a distance from what it holds.
LEMMA JumpWord ==
    ASSUME NEW s, NEW k, NEW next \in Word64, Proper(s, k), Row(s).form = "j"
    PROVE  Last0(s, 1) \in Word64 /\ BranchReads(WordOf(s, next), s, R(s, 1), Last0(s, 1))
<1> DEFINE n == Len(s.args)
           w == WordOf(s, next)
           num == Number(22, 2, 20, 0)
           short == <<A>>
           long == <<num, A>>
           v(i) == Values(s, next)[i]
           os == Operands(s)
           xs == Ordered(Row(s), s.args)
<1>1. Forms(Row(s)) = {short, long} /\ xs = Reverse(s.args)
  BY DEF Forms, Ordered
<1>2. Assembled(s, k).err = "none" /\ s.op \in DOMAIN Opcodes /\ n \in Nat
  BY DEF Proper
<1>3. Len(short) = 1 /\ Len(long) = 2 /\ short[1] = A /\ long[1] = num /\ long[2] = A
  OBVIOUS
<1>4. num.kind = "num" /\ num = Operand("num", 22, {<<2, 20, 0>>})
  BY DEF Number, Operand
<1>5. /\ Len(xs) = n
      /\ n = 1 => xs[1] = s.args[1]
      /\ n = 2 => xs[1] = s.args[2] /\ xs[2] = s.args[1]
  BY <1>1, <1>2, Reversed
<1> HIDE DEF short, long, num
<1>6. /\ n \in {1, 2} /\ Len(os) = n
      /\ n = 1 => os[1] = A
      /\ n = 2 => os[1] = num /\ os[2] = A
  <2>1. Len(short) # Len(long)
    BY <1>3
  <2>2. /\ Len(xs) = Len(short) \/ Len(xs) = Len(long)
        /\ Len(xs) = Len(short) => Operands(s) = short
        /\ Len(xs) = Len(long) => Operands(s) = long
    BY <1>1, <1>2, <2>1, EitherForm
  <2> QED BY <1>3, <1>5, <2>2
<1>7. w = Encoded(Row(s), os, Values(s, next))
  BY DEF WordOf
<1>8. ASSUME NEW i \in 1..n
      PROVE  /\ os[i].kind = "reg" => v(i) \subseteq 0..4 /\ ToNat(v(i)) = RegNo(xs[i])
             /\ os[i].kind = "num" => v(i) = Given(xs[i]) /\ v(i) \in Word64
  BY <1>6, ValueTaken
<1>9. /\ n = 1 => Last0(s, 1) = {}
      /\ n = 2 => Last0(s, 1) = Given(s.args[2])
  BY DEF Last0, V
<1> HIDE DEF n, w, v, os, xs
<1>10. CASE n = 1
  <2>1. v(1) \subseteq 0..4 /\ ToNat(v(1)) = R(s, 1)
    BY <1>5, <1>6, <1>8, <1>10, Kinds DEF R
  <2>2. w = Fixed(Row(s)) \cup Placed(v(1), A.fields)
    BY <1>6, <1>7, <1>10, EncodedIs DEF v
  <2>3. w = Fixed(Row(s)) \cup Field(v(1), 23, 5) \cup Field(Right({}, 2), 0, 20)
    BY <2>1, <2>2, RegistersPlaced, NothingRight
  <2>4. BranchReads(w, s, ToNat(v(1)), {})
    BY <1>2, <2>1, <2>3, BranchFilled, NothingRight
  <2> QED BY <1>9, <1>10, <2>1, <2>4, NothingRight DEF w
<1>11. CASE n = 2
  <2>1. v(2) \subseteq 0..4 /\ ToNat(v(2)) = R(s, 1)
    BY <1>5, <1>6, <1>8, <1>11, Kinds DEF R
  <2>2. v(1) = Last0(s, 1) /\ v(1) \in Word64
    BY <1>4, <1>5, <1>6, <1>8, <1>9, <1>11
  <2>3. w = Fixed(Row(s)) \cup Placed(v(1), num.fields) \cup Placed(v(2), A.fields)
    BY <1>6, <1>7, <1>11, EncodedIs DEF v
  <2>4. w = Fixed(Row(s)) \cup Field(v(2), 23, 5) \cup Field(Right(v(1), 2), 0, 20)
    BY <1>4, <2>1, <2>3, RegistersPlaced, WordsPlaced
  <2>5. BranchReads(w, s, ToNat(v(2)), v(1))
    BY <1>2, <2>1, <2>2, <2>4, BranchFilled
  <2> QED BY <2>1, <2>2, <2>5 DEF w
<1> QED BY <1>6, <1>10, <1>11

\* A return is a jump to the link register.
LEMMA ReturnWord ==
    ASSUME NEW s, NEW k, NEW next \in Word64, Proper(s, k), Row(s).form = "ret"
    PROVE  BranchReads(WordOf(s, next), s, LR, {})
<1> DEFINE w == WordOf(s, next)
           os == Operands(s)
           all == 0..4
           O == Field(Num(Row(s).op), 28, 4)
           F == Field(Num(Row(s).fn), 20, 3)
<1>1. Forms(Row(s)) = {<<>>}
  BY DEF Forms
<1>2. Assembled(s, k).err = "none" /\ s.op = "ret"
  BY ControlNames DEF Proper, Row
<1>3. Len(os) = 0
  BY <1>1, <1>2, OneForm
<1>4. w = Fixed(Row(s))
  BY <1>3, EncodedIs DEF WordOf
<1>5. Row(s).op = 1 /\ Row(s).fn = 1
  BY <1>2, ControlRows, ControlRow DEF Row
<1>6. Field(all, 23, 5) = 23..27
  <2>1. \A b \in Int : b \in Field(all, 23, 5) <=> b \in 23..27
    BY DEF Field
  <2>2. Field(all, 23, 5) \subseteq Int /\ 23..27 \subseteq Int
    BY DEF Field
  <2> QED BY <2>1, <2>2, SameBits
<1>7. Fixed(Row(s)) = O \cup F \cup 23..27
  <2>1. 8 * InstructionSize(Row(s)) - 4 = 28
    BY DEF InstructionSize
  <2>2. Fixed(Row(s)) = Field(Num(Row(s).op), 8 * InstructionSize(Row(s)) - 4, 4) \cup F \cup 23..27
    BY DEF Fixed
  <2> QED BY <2>1, <2>2
<1>8. all \subseteq 0..4 /\ ToNat(all) = LR
  <2> DEFINE x == Num(31)
  <2>1. /\ x \subseteq 0..4
        /\ 31 = One(x, 0) + 2 * One(x, 1) + 4 * One(x, 2) + 8 * One(x, 3) + 16 * One(x, 4)
    BY SmallBits
  <2>2. ToNat(x) = 31
    <3>1. 31 \in Nat /\ Near(31)
      BY DEF Near
    <3> QED BY <3>1, ToNatNum
  <2> HIDE DEF x
  <2>3. 0 \in x /\ 1 \in x /\ 2 \in x /\ 3 \in x /\ 4 \in x
    BY <2>1 DEF One
  <2>5. \A b \in all : b \in x
    <3>1. \A b \in 0..4 : b = 0 \/ b = 1 \/ b = 2 \/ b = 3 \/ b = 4
      OBVIOUS
    <3> QED BY <2>3, <3>1
  <2>4. x = all
    BY <2>1, <2>5
  <2> QED BY <2>2, <2>4 DEF LR
<1> HIDE DEF w, all
<1>9. w = O \cup F \cup Field(all, 23, 5) \cup {}
  BY <1>4, <1>6, <1>7
<1>10. IsWord(w, Row(s).op, Row(s).fn, all, {})
  BY <1>5, <1>8, <1>9 DEF IsWord
<1>11. IsRead(w, Row(s).op, Row(s).fn, all, {})
  BY <1>10, WordRead
<1>12. /\ w \subseteq 0..31 /\ OPCODE(w) = Row(s).op /\ FN(w) = Row(s).fn /\ RA(w) = LR
       /\ \A b \in 0..19 : b \notin w
  BY <1>8, <1>11 DEF IsRead
<1>13. BR_DISP(w) = Ext(Right({}, 2) \cap 0..19, 20)
  <2>1. Get(w, 0, 20) = {}
    <3>1. w \cap 0..(0 + 20 - 1) = {}
      BY <1>12
    <3> QED BY <3>1 DEF Get
  <2>2. Right({}, 2) \cap 0..19 = {}
    BY DEF Right
  <2> QED BY <2>1, <2>2 DEF BR_DISP
<1> QED BY <1>12, <1>13 DEF BranchReads, w, LR

LEMMA JumpMeans ==
    ASSUME NEW s, NEW k, Ready(s, k), Row(s).form = "j"
    PROVE  MeansControl(s, k, Execute(k))
<1> DEFINE p == After(s, k)
           w == WordOf(s, p)
           v == Last0(s, 1)
           x == X(s, 1, k)
           after == Execute(k)
           f == Row(s).fn
           fine == Fits(v, 22) /\ v \cap 0..1 = {}
<1>1. InstructionSize(Row(s)) = 4
  BY DEF InstructionSize
<1>2. IsMachine(k) /\ p \in Word64
  BY PlusWord DEF Ready, After
<1>3. v \in Word64 /\ BranchReads(w, s, R(s, 1), v)
  BY <1>2, JumpWord DEF Ready
<1>4. w \subseteq 0..31 /\ OPCODE(w) = Row(s).op
  BY <1>3 DEF BranchReads
<1>5. after = Operation(At(k, p), w)
  BY <1>1, <1>4, Round DEF Ready
<1>6. s.op \in {"jmp", "callf"}
  BY ControlNames DEF Ready, Proper, Row
<1>7. Row(s).op = 1 /\ f \in 0..7
  BY <1>6, ControlRows, ControlRow DEF Row
<1> HIDE DEF p, w, after, v
<1>8. fine => BranchResult(f, k, p, x, v, after)
  BY <1>2, <1>3, <1>5, <1>7, BranchDoes DEF X
<1>9. /\ s.op = "jmp" => ((fine => Jumps(k, after, Plus(x, v))) => MeansControl(s, k, after))
      /\ s.op = "callf" => ((fine => Links(k, p, after, Plus(x, v))) => MeansControl(s, k, after))
  BY ControlSaid DEF v, p
<1>10. /\ s.op = "jmp" => f = 1
       /\ s.op = "callf" => f = 3
  BY ControlRows DEF Row
<1> HIDE DEF f, x, fine
<1>11. MeansControl(s, k, after)
  BY <1>6, <1>8, <1>9, <1>10 DEF BranchResult
<1> QED BY <1>11 DEF after

LEMMA ReturnMeans ==
    ASSUME NEW s, NEW k, Ready(s, k), Row(s).form = "ret"
    PROVE  MeansControl(s, k, Execute(k))
<1> DEFINE p == After(s, k)
           w == WordOf(s, p)
           none == {}
           after == Execute(k)
           f == Row(s).fn
<1>1. InstructionSize(Row(s)) = 4
  BY DEF InstructionSize
<1>2. IsMachine(k) /\ p \in Word64
  BY PlusWord DEF Ready, After
<1>3. BranchReads(w, s, LR, none)
  BY <1>2, ReturnWord DEF Ready
<1>4. w \subseteq 0..31 /\ OPCODE(w) = Row(s).op
  BY <1>3 DEF BranchReads
<1>5. after = Operation(At(k, p), w)
  BY <1>1, <1>4, Round DEF Ready
<1>6. s.op = "ret"
  BY ControlNames DEF Ready, Proper, Row
<1>7. Row(s).op = 1 /\ f = 1
  BY <1>6, ControlRows, ControlRow DEF Row
<1>8. none \in Word64 /\ Fits(none, 22) /\ none \cap 0..1 = {}
  BY DEF Word64, Fits
<1> HIDE DEF p, w, after, none
<1>9. BranchResult(f, k, p, Reg(k, LR), none, after)
  BY <1>2, <1>3, <1>5, <1>7, <1>8, BranchDoes
<1>10. Jumps(k, after, Plus(Reg(k, LR), none))
  BY <1>7, <1>9 DEF BranchResult
<1>11. Reg(k, LR) \in Word64
  BY <1>2, RegAt DEF LR
<1>12. Plus(Reg(k, LR), none) = Reg(k, LR)
  BY <1>11, NoDigits DEF none
<1>13. MeansControl(s, k, after)
  BY <1>6, <1>10, <1>12, ControlSaid
<1> QED BY <1>13 DEF after

\* A branch, a call, a jump or a return goes where it says, and links if it says so.
THEOREM ControlMeans ==
    ASSUME NEW s, NEW k, Ready(s, k), Row(s).form \in {"br", "j", "ret"}
    PROVE  Means(s, k, Execute(k))
<1>1. MeansControl(s, k, Execute(k))
  BY BranchMeans, JumpMeans, ReturnMeans
<1> QED BY <1>1, MeansIs
-----------------------------------------------------------------------------
(* The words with fifteen bits between their registers.                     *)

StorageReads(w, s, ra, rc, e) ==
    /\ w \subseteq 0..31 /\ OPCODE(w) = Row(s).op /\ FN(w) = Row(s).fn
    /\ RA(w) = ra /\ RC(w) = rc /\ ra \in 0..31 /\ rc \in 0..31
    /\ Get(w, 5, 15) = e /\ e \subseteq 0..14

LEMMA FifteenBits ==
    ASSUME NEW e, e \subseteq 0..14
    PROVE  Low(e, 15) = e
<1>1. \A b \in Int : b \in Low(e, 15) <=> b \in e
  BY DEF Low
<1>2. Low(e, 15) \subseteq Int /\ e \subseteq Int
  BY DEF Low
<1> QED BY <1>1, <1>2, SameBits

LEMMA StorageFilled ==
    ASSUME NEW s, s.op \in DOMAIN Opcodes, Row(s).form \in {"ls", "lss", "cr", "rex", "bifn"},
           NEW a, a \subseteq 0..4, NEW c, c \subseteq 0..4, NEW e, e \subseteq 0..14,
           NEW w, w = Fixed(Row(s)) \cup Field(a, 23, 5) \cup (Field(c, 0, 5) \cup Field(e, 5, 15))
    PROVE  StorageReads(w, s, ToNat(a), ToNat(c), e)
<1> DEFINE low == Field(c, 0, 5) \cup Field(e, 5, 15)
<1>1. Field(c, 0, 5) \subseteq 0..4 /\ Field(e, 5, 15) \subseteq 5..19
  BY DEF Field
<1>2. low \subseteq 0..19
  BY <1>1
<1>3. /\ \A b \in 0..4 : b \in low <=> b \in Field(c, 0, 5)
      /\ \A b \in 5..19 : b \in low <=> b \in Field(e, 5, 15)
  BY <1>1
<1>4. w = Fixed(Row(s)) \cup Field(a, 23, 5) \cup low
  OBVIOUS
<1>5. Row(s).form \notin {"tr", "ret", "lgisl", "mcom", "id"}
  OBVIOUS
<1> HIDE DEF low
<1>6. IsRead(w, Row(s).op, Row(s).fn, a, low)
  BY <1>2, <1>4, <1>5, WordAbove
<1>7. Shows(w, low)
  BY <1>2, <1>6 DEF IsRead, Shows
<1>8. LiesAt(low, c, 0, 5) /\ LiesAt(low, e, 5, 15)
  BY <1>3 DEF LiesAt
<1>9. Get(w, 0, 5) = Low(c, 5) /\ Get(w, 5, 15) = Low(e, 15)
  BY <1>7, <1>8, LowField
<1>10. ToNat(a) \in 0..31 /\ ToNat(c) \in 0..31
  BY FiveBits
<1>11. Low(c, 5) = c /\ Low(e, 15) = e
  BY LowRegister, FifteenBits
<1> QED BY <1>2, <1>6, <1>9, <1>10, <1>11 DEF IsRead, StorageReads, RC

\* The fifteen bits of a number.
LEMMA FifteenPlaced ==
    ASSUME NEW v, NEW from, NEW kind
    PROVE  Placed(v, Operand(kind, 15, {<<from, 15, 5>>}).fields) = Field(Right(v, from) \cap 0..14, 5, 15)
<1>1. Operand(kind, 15, {<<from, 15, 5>>}).fields = {<<from, 15, 5>>}
  BY DEF Operand
<1>2. Placed(v, {<<from, 15, 5>>}) = Field(Right(v, from), 5, 15)
  BY PlacedOnce, Zenon
<1>3. Field(Right(v, from), 5, 15) = Field(Right(v, from) \cap 0..14, 5, 15)
  <2> DEFINE r == Right(v, from)
  <2>1. r \cap 0..14 \cap 0..(15 - 1) = r \cap 0..(15 - 1)
    OBVIOUS
  <2> HIDE DEF r
  <2>2. Field(r, 5, 15) = Field(r \cap 0..14, 5, 15)
    BY <2>1 DEF Field
  <2> QED BY <2>2 DEF r
<1> QED BY <1>1, <1>2, <1>3

LEMMA NothingFifteen ==
    {} \subseteq 0..14 /\ Field({}, 5, 15) = {} /\ Field({}, 0, 5) = {} /\ Right({}, 0) = {}
BY DEF Field, Right

\* What the values of the operands are, of a form that keeps their order.
LEMMA ValuesTaken ==
    ASSUME NEW s, NEW k, Proper(s, k), Ordered(Row(s), s.args) = s.args, NEW next,
           Len(Operands(s)) \in Nat, NEW i \in 1..Len(Operands(s))
    PROVE  LET v == Values(s, next)[i]
               kind == Operands(s)[i].kind
           IN  /\ kind = "reg" => v \subseteq 0..4 /\ ToNat(v) = R(s, i) /\ R(s, i) \in 0..31
               /\ kind \in {"num", "lit"} => v = V(s, i) /\ v \in Word64
               /\ kind = "cr" => v = Num(s.args[i].cr) /\ s.args[i].cr \in 0..47
<1> DEFINE v == Values(s, next)[i]
           o == Operands(s)[i]
           x == Ordered(Row(s), s.args)[i]
<1>1. /\ o.kind = "reg" => v \subseteq 0..4 /\ ToNat(v) = RegNo(x) /\ RegNo(x) \in 0..31
      /\ o.kind \in {"num", "lit"} => v = Given(x) /\ v \in Word64
  BY ValueTaken
<1>2. x = s.args[i]
  OBVIOUS
<1>3. RegNo(x) = R(s, i) /\ Given(x) = V(s, i)
  BY <1>2 DEF R, V
<1>4. o.kind = "cr" => v = Num(x.cr) /\ x.cr \in 0..47
  <2>1. Fitting(o, x)
    BY DEF Proper
  <2>2. v = ValueOf(o, x, labels, next)
    BY DEF Values
  <2> HIDE DEF o, x, v
  <2>3. o.kind = "cr" => ~IsNum(x) /\ x.cr \in 0..47
    BY <2>1 DEF Fitting
  <2>4. o.kind = "cr" => o.kind # "reg" /\ o.kind # "num" /\ o.kind # "rel"
    OBVIOUS
  <2> QED BY <2>2, <2>3, <2>4 DEF ValueOf
<1> HIDE DEF o, v, x
<1>5. /\ o.kind = "reg" => v \subseteq 0..4 /\ ToNat(v) = R(s, i) /\ R(s, i) \in 0..31
      /\ o.kind \in {"num", "lit"} => v = V(s, i) /\ v \in Word64
      /\ o.kind = "cr" => v = Num(s.args[i].cr) /\ s.args[i].cr \in 0..47
  BY <1>1, <1>2, <1>3, <1>4
<1> QED BY <1>5 DEF o, v

\* A load or a store without a selector.
LEMMA LsWord ==
    ASSUME NEW s, NEW k, NEW next, Proper(s, k), Row(s).form = "ls"
    PROVE  LET n == Len(s.args) IN
           /\ n \in {2, 3} /\ Last0(s, 2) \in Word64
           /\ StorageReads(WordOf(s, next), s, R(s, 1), R(s, 2),
                           Right(Last0(s, 2), Row(s).shamt) \cap 0..14)
<1> DEFINE n == Len(s.args)
           w == WordOf(s, next)
           sh == Row(s).shamt
           disp == Number(15, sh, 15, 5)
           short == <<A, C>>
           long == <<A, C, disp>>
           v(i) == Values(s, next)[i]
           os == Operands(s)
<1>1. Forms(Row(s)) = {short, long} /\ Ordered(Row(s), s.args) = s.args
  BY DEF Forms, Ordered
<1>2. Assembled(s, k).err = "none" /\ s.op \in DOMAIN Opcodes
  BY DEF Proper
<1>3. Len(short) = 2 /\ Len(long) = 3 /\ short[1] = A /\ short[2] = C
      /\ long[1] = A /\ long[2] = C /\ long[3] = disp
  OBVIOUS
<1>4. disp.kind = "num" /\ disp = Operand("num", 15, {<<sh, 15, 5>>})
  BY DEF Number, Operand
<1> HIDE DEF short, long, disp
<1>5. /\ n \in {2, 3} /\ Len(os) = n /\ os[1] = A /\ os[2] = C
      /\ n = 3 => os[3] = disp
  <2>1. Len(short) # Len(long)
    BY <1>3
  <2>2. /\ n = Len(short) \/ n = Len(long)
        /\ n = Len(short) => Operands(s) = short
        /\ n = Len(long) => Operands(s) = long
    BY <1>1, <1>2, <2>1, EitherForm
  <2> QED BY <1>3, <2>2
<1>6. w = Encoded(Row(s), os, Values(s, next))
  BY DEF WordOf
<1>7. v(1) \subseteq 0..4 /\ ToNat(v(1)) = R(s, 1) /\ v(2) \subseteq 0..4 /\ ToNat(v(2)) = R(s, 2)
  <2>1. 1 \in 1..Len(os) /\ 2 \in 1..Len(os) /\ Len(os) \in Nat
    BY <1>5
  <2>2. os[1].kind = "reg" /\ os[2].kind = "reg"
    BY <1>5, Kinds
  <2> QED BY <1>1, <2>1, <2>2, ValuesTaken
<1>8. n = 3 => v(3) = V(s, 3) /\ v(3) \in Word64
  <2>1. n = 3 => 3 \in 1..Len(os) /\ Len(os) \in Nat /\ os[3].kind = "num"
    BY <1>4, <1>5
  <2> QED BY <1>1, <2>1, ValuesTaken
<1>9. /\ n = 2 => Last0(s, 2) = {}
      /\ n = 3 => Last0(s, 2) = V(s, 3)
  <2>1. Last0(s, 2) = IF n > 2 THEN V(s, n) ELSE {}
    BY DEF Last0
  <2> HIDE DEF n
  <2>2. n = 2 => ~(n > 2)
    OBVIOUS
  <2>3. n = 3 => n > 2
    OBVIOUS
  <2> QED BY <2>1, <2>2, <2>3
<1>10. sh \in Nat
  BY <1>2, Rows DEF Row
<1> HIDE DEF n, w, v, os, sh
<1> DEFINE e == Right(Last0(s, 2), sh) \cap 0..14
<1>11. Last0(s, 2) \in Word64 /\ w = Fixed(Row(s)) \cup Field(v(1), 23, 5) \cup (Field(v(2), 0, 5) \cup Field(e, 5, 15))
  <2>1. CASE n = 2
    <3>1. w = Fixed(Row(s)) \cup Placed(v(1), A.fields) \cup Placed(v(2), C.fields)
      BY <1>5, <1>6, <2>1, EncodedIs DEF v
    <3>2. e = {} /\ {} \in Word64
      BY <1>9, <2>1 DEF Right, Word64
    <3> QED BY <1>7, <1>9, <2>1, <3>1, <3>2, RegistersPlaced, NothingFifteen
  <2>2. CASE n = 3
    <3>1. w = Fixed(Row(s)) \cup Placed(v(1), A.fields) \cup Placed(v(2), C.fields) \cup Placed(v(3), disp.fields)
      BY <1>5, <1>6, <2>2, EncodedIs DEF v
    <3>2. Placed(v(3), disp.fields) = Field(e, 5, 15)
      BY <1>4, <1>8, <1>9, <2>2, FifteenPlaced
    <3> QED BY <1>7, <1>8, <1>9, <2>2, <3>1, <3>2, RegistersPlaced
  <2> QED BY <1>5, <2>1, <2>2
<1>12. e \subseteq 0..14
  OBVIOUS
<1> HIDE DEF e
<1>13. StorageReads(w, s, ToNat(v(1)), ToNat(v(2)), e)
  BY <1>2, <1>7, <1>11, <1>12, StorageFilled
<1> QED BY <1>5, <1>7, <1>11, <1>13 DEF n, w, e, sh

\* A move from or to a control register: its number, and a mask or none.
LEMMA CrWord ==
    ASSUME NEW s, NEW k, NEW next, Proper(s, k), Row(s).form = "cr"
    PROVE  LET n == Len(s.args)
               c == s.args[n].cr
           IN  /\ n \in {2, 3} /\ c \in 0..47
               /\ StorageReads(WordOf(s, next), s, R(s, 1), IF n = 3 THEN R(s, 2) ELSE 0, Num(c))
<1> DEFINE n == Len(s.args)
           w == WordOf(s, next)
           cr == Operand("cr", 15, {<<0, 15, 5>>})
           short == <<A, cr>>
           long == <<A, C, cr>>
           v(i) == Values(s, next)[i]
           os == Operands(s)
           e == Num(s.args[n].cr)
<1>1. Forms(Row(s)) = {short, long} /\ Ordered(Row(s), s.args) = s.args
  BY DEF Forms, Ordered
<1>2. Assembled(s, k).err = "none" /\ s.op \in DOMAIN Opcodes
  BY DEF Proper
<1>3. Len(short) = 2 /\ Len(long) = 3 /\ short[1] = A /\ short[2] = cr
      /\ long[1] = A /\ long[2] = C /\ long[3] = cr
  OBVIOUS
<1>4. cr.kind = "cr"
  BY DEF Operand
<1> HIDE DEF short, long, cr
<1>5. /\ n \in {2, 3} /\ Len(os) = n /\ os[1] = A /\ os[n] = cr
      /\ n = 3 => os[2] = C
  <2>1. Len(short) # Len(long)
    BY <1>3
  <2>2. /\ n = Len(short) \/ n = Len(long)
        /\ n = Len(short) => Operands(s) = short
        /\ n = Len(long) => Operands(s) = long
    BY <1>1, <1>2, <2>1, EitherForm
  <2> QED BY <1>3, <2>2
<1>6. w = Encoded(Row(s), os, Values(s, next))
  BY DEF WordOf
<1>7. v(1) \subseteq 0..4 /\ ToNat(v(1)) = R(s, 1)
  <2>1. 1 \in 1..Len(os) /\ Len(os) \in Nat /\ os[1].kind = "reg"
    BY <1>5, Kinds
  <2> QED BY <1>1, <2>1, ValuesTaken
<1>8. n = 3 => v(2) \subseteq 0..4 /\ ToNat(v(2)) = R(s, 2)
  <2>1. n = 3 => 2 \in 1..Len(os) /\ Len(os) \in Nat /\ os[2].kind = "reg"
    BY <1>5, Kinds
  <2> QED BY <1>1, <2>1, ValuesTaken
<1>9. v(n) = e /\ s.args[n].cr \in 0..47
  <2>1. n \in 1..Len(os) /\ Len(os) \in Nat /\ os[n].kind = "cr"
    BY <1>4, <1>5
  <2> QED BY <1>1, <2>1, ValuesTaken
<1>10. e \subseteq 0..14
  <2>1. s.args[n].cr \in 0..63
    BY <1>9
  <2>2. e \subseteq 0..5
    BY <2>1, SixBits
  <2> QED BY <2>2
<1>11. Placed(e, cr.fields) = Field(e, 5, 15)
  <2>1. Right(e, 0) = e
    <3>1. e \subseteq Nat
      BY <1>10
    <3> QED BY <3>1, RightNone
  <2>2. e \cap 0..14 = e
    BY <1>10
  <2>3. Placed(e, cr.fields) = Field(Right(e, 0) \cap 0..14, 5, 15)
    BY FifteenPlaced DEF cr
  <2> QED BY <2>1, <2>2, <2>3
<1> HIDE DEF w, v, os, e
<1>12. CASE n = 2
  <2>1. w = Fixed(Row(s)) \cup Placed(v(1), A.fields) \cup Placed(v(2), cr.fields)
    BY <1>5, <1>6, <1>12, EncodedIs DEF v
  <2>2. w = Fixed(Row(s)) \cup Field(v(1), 23, 5) \cup (Field({}, 0, 5) \cup Field(e, 5, 15))
    BY <1>7, <1>9, <1>11, <1>12, <2>1, RegistersPlaced, NothingFifteen
  <2>3. StorageReads(w, s, ToNat(v(1)), ToNat({}), e)
    BY <1>2, <1>7, <1>10, <2>2, StorageFilled, NothingRight
  <2> QED BY <1>5, <1>7, <1>9, <1>12, <2>3, NothingRight DEF w, e
<1>13. CASE n = 3
  <2>1. w = Fixed(Row(s)) \cup Placed(v(1), A.fields) \cup Placed(v(2), C.fields) \cup Placed(v(3), cr.fields)
    BY <1>5, <1>6, <1>13, EncodedIs DEF v
  <2>2. w = Fixed(Row(s)) \cup Field(v(1), 23, 5) \cup (Field(v(2), 0, 5) \cup Field(e, 5, 15))
    BY <1>7, <1>8, <1>9, <1>11, <1>13, <2>1, RegistersPlaced
  <2>3. StorageReads(w, s, ToNat(v(1)), ToNat(v(2)), e)
    BY <1>2, <1>7, <1>8, <1>10, <1>13, <2>2, StorageFilled
  <2> QED BY <1>5, <1>7, <1>8, <1>9, <1>13, <2>3 DEF w, e
<1> QED BY <1>5, <1>12, <1>13
-----------------------------------------------------------------------------
(* The statements of the system.                                            *)

LEMMA SystemSaid ==
    ASSUME NEW s, NEW before, NEW after
    PROVE  LET n == Len(s.args)
               mask == IF n = 3 THEN X(s, 2, before) ELSE {}
               which == s.args[n].cr
               words == IF n = 2 THEN {} ELSE Left(V(s, n), 2)
               next == After(s, before)
               held == PL \in before.cr[PSQ]
               says == MeansSystem(s, before, after)
           IN  /\ s.op = "svc" => (Trapped(before, after, "SVCT", next) => says)
               /\ s.op # "svc" /\ held => (Trapped(before, after, "IPLT", next) => says)
               /\ s.op = "mfcr" /\ ~held =>
                    (To(s, before, after, before.cr[which] \ mask) => says)
               /\ s.op = "mtcr" /\ ~held =>
                    (Goes([before EXCEPT !.cr[which] = X(s, 1, before) \cup mask], after, next) => says)
               /\ s.op = "rex" /\ ~held =>
                    (((n # 2 => Fits(V(s, n), 15))
                        => /\ after.pc = Plus(before.cr[APC], words)
                           /\ after.cr[PSQ] = before.cr[APSQ]) => says)
BY DEF MeansSystem

LEMMA SystemRows ==
    /\ Opcodes["svc"].fn = 0 /\ Opcodes["mfcr"].fn = 3 /\ Opcodes["mtcr"].fn = 4
    /\ Opcodes["rex"].fn = 5
BY DEF Opcodes, I, LsRow

LEMMA SystemRow ==
    /\ Opcodes["svc"].op = 14 /\ Opcodes["mfcr"].op = 14 /\ Opcodes["mtcr"].op = 14
    /\ Opcodes["rex"].op = 14 /\ Opcodes["svc"].form = "ls"
BY DEF Opcodes, I, LsRow

LEMMA SystemNames ==
    ASSUME NEW o \in DOMAIN Opcodes
    PROVE  /\ Opcodes[o].form = "cr" => o \in {"mfcr", "mtcr"}
           /\ Opcodes[o].form = "rex" => o = "rex"
BY SMTT(30) DEF Opcodes, I, LsRow, LssRow

\* The number of a control register, in a field of fifteen bits.
LEMMA ControlNumber ==
    ASSUME NEW c \in 0..47
    PROVE  Ext(Num(c), 15) = Num(c) /\ ToInt(Num(c)) = c
<1> DEFINE e == Num(c)
<1>1. c \in 0..63 /\ c \in Nat
  OBVIOUS
<1>2. e \subseteq 0..5
  BY <1>1, SixBits
<1>3. ToNat(e) = c
  <2>1. Near(c)
    BY DEF Near
  <2> QED BY <1>1, <2>1, ToNatNum
<1> HIDE DEF e
<1>4. 15 - 1 \notin e /\ 31 \notin e
  BY <1>2
<1>5. e \cap (0..30) = e
  <2>1. \A b \in e : b \in 0..30
    BY <1>2
  <2> QED BY <2>1
<1>6. Ext(e, 15) = e
  BY <1>4 DEF Ext
<1>7. ToInt(e) = ToNat(e)
  BY <1>4, <1>5 DEF ToInt
<1> QED BY <1>3, <1>6, <1>7 DEF e

\* What the instructions of lcca64_ls_e make of the machine.
SystemResult(f, k, p, ra, rc, e, after) ==
    LET held == PL \in k.cr[PSQ] IN
    /\ f = 0 => Trapped(k, after, "SVCT", p)
    /\ f # 0 /\ held => Trapped(k, after, "IPLT", p)
    /\ f = 3 /\ ~held =>
         \A c \in 0..47 : e = Num(c) => after = SetReg(At(k, p), ra, k.cr[c] \ Reg(k, rc))
    /\ f = 4 /\ ~held =>
         \A c \in 0..47 : e = Num(c) =>
            after = [At(k, p) EXCEPT !.cr[c] = Reg(k, ra) \cup Reg(k, rc)]
    /\ f = 5 /\ ~held =>
         /\ after.pc = Plus(k.cr[APC], Left(Ext(e, 15), 2))
         /\ after.cr[PSQ] = k.cr[APSQ]

LEMMA Restored ==
    ASSUME NEW k, IsMachine(k), NEW p \in Word64, NEW d, NEW r \in 0..31, NEW v
    PROVE  LET after == SetReg(Restore(At(k, p), d), r, v) IN
           after.pc = Plus(k.cr[APC], d) /\ after.cr[PSQ] = k.cr[APSQ]
<1> DEFINE m0 == At(k, p)
           m1 == Restore(m0, d)
           cr1 == [k.cr EXCEPT ![PSQ] = k.cr[APSQ],
                               ![ASP] = IF AE \in k.cr[APSQ] THEN m0.regs[SP] ELSE k.cr[ASP]]
<1>1. IsMachine(m0) /\ m0.cr = k.cr
  BY AtMachine
<1>2. m0 = [regs |-> m0.regs, cr |-> m0.cr, pc |-> m0.pc, mem |-> m0.mem, io |-> m0.io]
  BY <1>1 DEF IsMachine
<1> HIDE DEF m0
<1>3. m1.pc = Plus(k.cr[APC], d) /\ m1.cr = cr1
  BY <1>1, <1>2 DEF Restore
<1>4. cr1[PSQ] = k.cr[APSQ]
  BY DEF IsMachine, PSQ, ASP
<1>5. SetReg(m1, r, v).pc = m1.pc /\ SetReg(m1, r, v).cr = m1.cr
  BY <1>2 DEF SetReg, Restore
<1> QED BY <1>3, <1>4, <1>5 DEF m0

LEMMA SystemDoes ==
    ASSUME NEW s, NEW k, IsMachine(k), NEW p \in Word64, Row(s).op = 14,
           NEW w, NEW ra, NEW rc, NEW e, StorageReads(w, s, ra, rc, e)
    PROVE  SystemResult(Row(s).fn, k, p, ra, rc, e, Operation(At(k, p), w))
<1> DEFINE m0 == At(k, p)
           f == Row(s).fn
           disp == Ext(e, 15)
           d == ToInt(disp)
           after == Operation(m0, w)
           held == PL \in k.cr[PSQ]
<1>1. OPCODE(w) = 14 /\ FN(w) = f /\ RA(w) = ra /\ ra \in 0..31 /\ RC(w) = rc /\ rc \in 0..31
      /\ LS_DISP(w) = disp
  BY DEF StorageReads, LS_DISP
<1>2. Reg(m0, ra) = Reg(k, ra) /\ Reg(m0, rc) = Reg(k, rc) /\ m0.cr = k.cr
  BY <1>1, RegAt, AtMachine
<1>3. after = LsE(m0, w)
  BY <1>1 DEF Operation
<1> DEFINE c == Reg(k, rc)
<1>4. after = IF f # 0 /\ held THEN Error(m0, "IPLT", w, {})
        ELSE CASE f = 0 -> Error(m0, "SVCT", w, {})
               [] f \in {1, 2} -> SetReg(m0, ra, Garbage)
               [] f = 3 -> IF d \notin 0..CR_MAX THEN Error(m0, "EMLT", w, {})
                            ELSE SetReg(m0, ra, GetCr(m0, d) \ c)
               [] f = 4 -> IF d \notin 0..CR_MAX THEN Error(m0, "EMLT", w, {})
                            ELSE SetCr(m0, d, Reg(k, ra) \cup c)
               [] f = 5 -> SetReg(Restore(m0, Left(disp, 2)), ra, c)
               [] f = 6 -> Interrupt(m0, ToNat(Get(disp, 0, 6)), w, m0.pc)
               [] f = 7 -> Call(m0, "host", w, c)
  BY <1>1, <1>2, <1>3 DEF LsE
<1> HIDE DEF after, f, held, c, d, disp, m0
<1>5. f # 0 /\ held => after = Error(m0, "IPLT", w, {})
  BY <1>4
<1>6. f = 0 => after = Error(m0, "SVCT", w, {})
  BY <1>4
<1>7. f = 3 /\ ~held /\ d \in 0..CR_MAX => after = SetReg(m0, ra, GetCr(m0, d) \ c)
  BY <1>4
<1>8. f = 4 /\ ~held /\ d \in 0..CR_MAX => after = SetCr(m0, d, Reg(k, ra) \cup c)
  BY <1>4
<1>9. f = 5 /\ ~held => after = SetReg(Restore(m0, Left(disp, 2)), ra, c)
  BY <1>4
<1>10. f = 0 => Trapped(k, after, "SVCT", p)
  BY <1>6, ErrorTraps DEF m0
<1>11. f # 0 /\ held => Trapped(k, after, "IPLT", p)
  BY <1>5, ErrorTraps DEF m0
<1>12. ASSUME NEW n \in 0..47, e = Num(n)
       PROVE  d = n /\ n \in 0..CR_MAX /\ n # CR_MAX
  BY <1>12, ControlNumber DEF d, disp, CR_MAX
<1>13. ASSUME NEW n \in 0..47, e = Num(n), f = 3, ~held
       PROVE  after = SetReg(m0, ra, k.cr[n] \ c)
  BY <1>2, <1>7, <1>12, <1>13 DEF GetCr
<1>14. ASSUME NEW n \in 0..47, e = Num(n), f = 4, ~held
       PROVE  after = [m0 EXCEPT !.cr[n] = Reg(k, ra) \cup c]
  BY <1>8, <1>12, <1>14 DEF SetCr
<1>15. f = 5 /\ ~held => /\ after.pc = Plus(k.cr[APC], Left(disp, 2))
                         /\ after.cr[PSQ] = k.cr[APSQ]
  BY <1>1, <1>9, Restored DEF m0
<1> QED BY <1>10, <1>11, <1>13, <1>14, <1>15 DEF SystemResult, after, m0, f, held, c, disp

\* The words of a return from an exception.
LEMMA RexWord ==
    ASSUME NEW s, NEW k, NEW next, Proper(s, k), Row(s).form = "rex"
    PROVE  LET n == Len(s.args)
               e == IF n = 2 THEN {} ELSE V(s, n) \cap 0..14
           IN  /\ n # 2 => V(s, n) \in Word64
               /\ \E ra, rc : StorageReads(WordOf(s, next), s, ra, rc, e)
<1> DEFINE n == Len(s.args)
           w == WordOf(s, next)
           e == IF n = 2 THEN {} ELSE V(s, n) \cap 0..14
           disp == Number(15, Row(s).shamt, 15, 5)
           one == <<disp>>
           two == <<A, C>>
           three == <<A, C, disp>>
           v(i) == Values(s, next)[i]
           os == Operands(s)
<1>1. Forms(Row(s)) = {one, two, three} /\ Ordered(Row(s), s.args) = s.args
  BY DEF Forms, Ordered
<1>2. Assembled(s, k).err = "none" /\ s.op \in DOMAIN Opcodes
  BY DEF Proper
<1>3. /\ Len(one) = 1 /\ Len(two) = 2 /\ Len(three) = 3 /\ one[1] = disp
      /\ two[1] = A /\ two[2] = C
      /\ three[1] = A /\ three[2] = C /\ three[3] = disp
  OBVIOUS
<1>4. Row(s).shamt = 0
  <2>1. s.op = "rex"
    BY <1>2, SystemNames DEF Row
  <2> QED BY <2>1 DEF Row, Opcodes, I
<1>5. disp.kind = "num" /\ disp = Operand("num", 15, {<<0, 15, 5>>})
  BY <1>4 DEF Number, Operand
<1> HIDE DEF one, two, three, disp
<1>6. /\ n \in {1, 2, 3} /\ Len(os) = n
      /\ n = 1 => os[1] = disp
      /\ n = 2 => os[1] = A /\ os[2] = C
      /\ n = 3 => os[1] = A /\ os[2] = C /\ os[3] = disp
  <2>1. \E p \in Forms(Row(s)) : Len(p) = n
    BY <1>1, <1>2, AssembledIs
  <2>2. \A p \in Forms(Row(s)) : p = one \/ p = two \/ p = three
    BY <1>1
  <2>3. n = 1 => os = one
    <3>1. \A p \in Forms(Row(s)) : Len(p) = Len(one) => p = one
      BY <1>3, <2>2
    <3> QED BY <1>1, <1>3, <3>1, Chosen
  <2>4. n = 2 => os = two
    <3>1. \A p \in Forms(Row(s)) : Len(p) = Len(two) => p = two
      BY <1>3, <2>2
    <3> QED BY <1>1, <1>3, <3>1, Chosen
  <2>5. n = 3 => os = three
    <3>1. \A p \in Forms(Row(s)) : Len(p) = Len(three) => p = three
      BY <1>3, <2>2
    <3> QED BY <1>1, <1>3, <3>1, Chosen
  <2>6. n \in {1, 2, 3}
    BY <1>3, <2>1, <2>2
  <2> QED BY <1>3, <2>3, <2>4, <2>5, <2>6
<1>7. w = Encoded(Row(s), os, Values(s, next))
  BY DEF WordOf
<1>8. ASSUME NEW i \in 1..n
      PROVE  /\ os[i].kind = "reg" => v(i) \subseteq 0..4
             /\ os[i].kind = "num" => v(i) = V(s, i) /\ v(i) \in Word64
  <2>1. Len(os) \in Nat /\ i \in 1..Len(os)
    BY <1>6, <1>8
  <2> QED BY <1>1, <2>1, ValuesTaken
<1>9. ASSUME NEW u \in Word64
      PROVE  Placed(u, disp.fields) = Field(u \cap 0..14, 5, 15)
  <2>1. u \subseteq Nat
    BY DEF Word64, Bits
  <2>2. Placed(u, disp.fields) = Field(Right(u, 0) \cap 0..14, 5, 15)
    BY <1>5, FifteenPlaced
  <2> QED BY <2>1, <2>2, RightNone
<1> HIDE DEF n, w, v, os
<1>10. CASE n = 1
  <2>1. v(1) = V(s, n) /\ v(1) \in Word64
    BY <1>5, <1>6, <1>8, <1>10
  <2>2. w = Fixed(Row(s)) \cup Placed(v(1), disp.fields)
    BY <1>6, <1>7, <1>10, EncodedIs DEF v
  <2>3. e = v(1) \cap 0..14 /\ e \subseteq 0..14
    BY <1>10, <2>1
  <2> HIDE DEF e
  <2> DEFINE none == {}
  <2>6. none \subseteq 0..4 /\ Field(none, 23, 5) = {} /\ Field(none, 0, 5) = {}
    BY NothingFifteen, NothingRight
  <2> HIDE DEF none
  <2>4. w = Fixed(Row(s)) \cup Field(none, 23, 5) \cup (Field(none, 0, 5) \cup Field(e, 5, 15))
    BY <1>9, <2>1, <2>2, <2>3, <2>6
  <2>5. StorageReads(w, s, ToNat(none), ToNat(none), e)
    BY <1>2, <2>3, <2>4, <2>6, StorageFilled
  <2> QED BY <2>1, <2>5 DEF e, n, w
<1>11. CASE n = 2
  <2>1. v(1) \subseteq 0..4 /\ v(2) \subseteq 0..4
    BY <1>6, <1>8, <1>11, Kinds
  <2>2. w = Fixed(Row(s)) \cup Placed(v(1), A.fields) \cup Placed(v(2), C.fields)
    BY <1>6, <1>7, <1>11, EncodedIs DEF v
  <2>3. e = {}
    BY <1>11
  <2> HIDE DEF e
  <2>4. w = Fixed(Row(s)) \cup Field(v(1), 23, 5) \cup (Field(v(2), 0, 5) \cup Field(e, 5, 15))
    BY <2>1, <2>2, <2>3, RegistersPlaced, NothingFifteen
  <2>5. StorageReads(w, s, ToNat(v(1)), ToNat(v(2)), e)
    BY <1>2, <2>1, <2>3, <2>4, StorageFilled
  <2> QED BY <1>11, <2>5 DEF e, n, w
<1>12. CASE n = 3
  <2>1. v(1) \subseteq 0..4 /\ v(2) \subseteq 0..4
    BY <1>6, <1>8, <1>12, Kinds
  <2>2. v(3) = V(s, n) /\ v(3) \in Word64
    BY <1>5, <1>6, <1>8, <1>12
  <2>3. w = Fixed(Row(s)) \cup Placed(v(1), A.fields) \cup Placed(v(2), C.fields) \cup Placed(v(3), disp.fields)
    BY <1>6, <1>7, <1>12, EncodedIs DEF v
  <2>4. e = v(3) \cap 0..14 /\ e \subseteq 0..14
    BY <1>12, <2>2
  <2> HIDE DEF e
  <2>5. w = Fixed(Row(s)) \cup Field(v(1), 23, 5) \cup (Field(v(2), 0, 5) \cup Field(e, 5, 15))
    BY <1>9, <2>1, <2>2, <2>3, <2>4, RegistersPlaced
  <2>6. StorageReads(w, s, ToNat(v(1)), ToNat(v(2)), e)
    BY <1>2, <2>1, <2>4, <2>5, StorageFilled
  <2> QED BY <2>2, <2>6 DEF e, n, w
<1> QED BY <1>6, <1>10, <1>11, <1>12

\* The round of a statement of the system.
LEMMA SystemRound ==
    ASSUME NEW s, NEW k, Ready(s, k), Row(s).op = 14, Row(s).form \in {"ls", "cr", "rex"},
           NEW ra, NEW rc, NEW e, StorageReads(WordOf(s, After(s, k)), s, ra, rc, e)
    PROVE  SystemResult(Row(s).fn, k, After(s, k), ra, rc, e, Execute(k))
<1> DEFINE p == After(s, k)
           w == WordOf(s, p)
<1>1. InstructionSize(Row(s)) = 4
  BY DEF InstructionSize
<1>2. w \subseteq 0..31 /\ OPCODE(w) = Row(s).op
  BY DEF StorageReads
<1>3. Execute(k) = Operation(At(k, p), w) /\ p \in Word64 /\ IsMachine(k)
  BY <1>1, <1>2, Round DEF Ready
<1> QED BY <1>3, SystemDoes

LEMMA ServiceMeans ==
    ASSUME NEW s, NEW k, Ready(s, k), s.op = "svc"
    PROVE  MeansSystem(s, k, Execute(k))
<1> DEFINE p == After(s, k)
           after == Execute(k)
<1>1. Row(s).op = 14 /\ Row(s).fn = 0 /\ Row(s).form = "ls"
  BY SystemRows, SystemRow DEF Row
<1>2. PICK ra, rc, e : StorageReads(WordOf(s, p), s, ra, rc, e)
  BY <1>1, LsWord DEF Ready
<1>3. SystemResult(0, k, p, ra, rc, e, after)
  BY <1>1, <1>2, SystemRound
<1> HIDE DEF after
<1>4. Trapped(k, after, "SVCT", p)
  BY <1>3 DEF SystemResult
<1>5. MeansSystem(s, k, after)
  BY <1>4, SystemSaid
<1> QED BY <1>5 DEF after

LEMMA RexMeans ==
    ASSUME NEW s, NEW k, Ready(s, k), Row(s).form = "rex"
    PROVE  MeansSystem(s, k, Execute(k))
<1> DEFINE p == After(s, k)
           after == Execute(k)
           n == Len(s.args)
           v == V(s, n)
           e == IF n = 2 THEN {} ELSE v \cap 0..14
           words == IF n = 2 THEN {} ELSE Left(v, 2)
           held == PL \in k.cr[PSQ]
<1>1. s.op = "rex"
  BY SystemNames DEF Ready, Proper, Row
<1>2. Row(s).op = 14 /\ Row(s).fn = 5
  BY <1>1, SystemRows, SystemRow DEF Row
<1>3. (n # 2 => v \in Word64) /\ \E ra, rc : StorageReads(WordOf(s, p), s, ra, rc, e)
  BY RexWord DEF Ready
<1>4. PICK ra, rc : StorageReads(WordOf(s, p), s, ra, rc, e)
  BY <1>3
<1>5. SystemResult(5, k, p, ra, rc, e, after)
  BY <1>2, <1>4, SystemRound
<1> HIDE DEF after, p
<1>6. held => Trapped(k, after, "IPLT", p)
  BY <1>5 DEF SystemResult
<1>7. ~held => after.pc = Plus(k.cr[APC], Left(Ext(e, 15), 2)) /\ after.cr[PSQ] = k.cr[APSQ]
  BY <1>5 DEF SystemResult
<1>8. (n # 2 => Fits(v, 15)) => Left(Ext(e, 15), 2) = words
  <2>1. CASE n = 2
    <3>1. Ext({}, 15) = {} /\ Left({}, 2) = {}
      BY DEF Ext, Left
    <3> QED BY <2>1, <3>1
  <2>2. CASE n # 2
    <3> DEFINE j == 15
    <3>1. j \in 1..63 /\ j - 1 = 14
      OBVIOUS
    <3>2. v \in Word64
      BY <1>3, <2>2
    <3> HIDE DEF j, v
    <3>3. Fits(v, j) => Ext(v \cap 0..(j - 1), j) = v
      BY <3>1, <3>2, ExtFits
    <3> QED BY <2>2, <3>1, <3>3 DEF j
  <2> QED BY <2>1, <2>2
<1>9. MeansSystem(s, k, after)
  <2>1. s.op # "svc"
    BY <1>1
  <2>2. held => MeansSystem(s, k, after)
    BY <1>6, <2>1, SystemSaid DEF p
  <2>3. (n # 2 => Fits(v, 15)) /\ ~held => after.pc = Plus(k.cr[APC], words) /\ after.cr[PSQ] = k.cr[APSQ]
    BY <1>7, <1>8
  <2>4. ~held => MeansSystem(s, k, after)
    BY <1>1, <2>3, SystemSaid
  <2> QED BY <2>2, <2>4
<1> QED BY <1>9 DEF after

LEMMA CrMeans ==
    ASSUME NEW s, NEW k, Ready(s, k), Row(s).form = "cr"
    PROVE  MeansSystem(s, k, Execute(k))
<1> DEFINE p == After(s, k)
           after == Execute(k)
           n == Len(s.args)
           c == s.args[n].cr
           ra == R(s, 1)
           rc == IF n = 3 THEN R(s, 2) ELSE 0
           mask == IF n = 3 THEN X(s, 2, k) ELSE {}
           held == PL \in k.cr[PSQ]
           f == Row(s).fn
<1>1. s.op \in {"mfcr", "mtcr"}
  BY SystemNames DEF Ready, Proper, Row
<1>2. Row(s).op = 14 /\ s.op = "mfcr" => f = 3
  BY <1>1, SystemRows, SystemRow DEF Row
<1>3. s.op = "mtcr" => f = 4
  BY SystemRows DEF Row
<1>4. c \in 0..47 /\ StorageReads(WordOf(s, p), s, ra, rc, Num(c))
  BY CrWord DEF Ready
<1>5. Row(s).op = 14
  BY <1>1, SystemRow DEF Row
<1>6. SystemResult(f, k, p, ra, rc, Num(c), after)
  BY <1>4, <1>5, SystemRound
<1>7. IsMachine(k) /\ p \in Word64 /\ ra \in 0..31
  BY <1>4, PlusWord DEF Ready, After, StorageReads
<1>8. Reg(k, rc) = mask /\ Reg(k, ra) = X(s, 1, k)
  BY DEF X, Reg
<1>9. s.op = "mfcr" => f = 3
  BY SystemRows DEF Row
<1>10. f # 0
  BY <1>1, <1>3, <1>9
<1>11. At(k, p) = [k EXCEPT !.pc = p]
  BY DEF At
<1> HIDE DEF after, p, c, ra, rc, mask, held, f
<1>12. held => Trapped(k, after, "IPLT", p)
  BY <1>6, <1>10 DEF SystemResult, held
<1>13. f = 3 /\ ~held => after = SetReg(At(k, p), ra, k.cr[c] \ mask)
  BY <1>4, <1>6, <1>8 DEF SystemResult, held
<1>14. f = 4 /\ ~held => after = [At(k, p) EXCEPT !.cr[c] = X(s, 1, k) \cup mask]
  BY <1>4, <1>6, <1>8 DEF SystemResult, held
<1>15. f = 3 /\ ~held => To(s, k, after, k.cr[c] \ mask)
  <2>1. Goes(SetReg(k, ra, k.cr[c] \ mask), SetReg(At(k, p), ra, k.cr[c] \ mask), p)
    BY <1>7, ToMeans
  <2> QED BY <1>13, <2>1 DEF To, p, ra
<1>16. f = 4 /\ ~held => Goes([k EXCEPT !.cr[c] = X(s, 1, k) \cup mask], after, p)
  <2> DEFINE g == [k.cr EXCEPT ![c] = X(s, 1, k) \cup mask]
  <2>1. k = [regs |-> k.regs, cr |-> k.cr, pc |-> k.pc, mem |-> k.mem, io |-> k.io]
    BY <1>7 DEF IsMachine
  <2>2. [k EXCEPT !.cr[c] = X(s, 1, k) \cup mask] = [k EXCEPT !.cr = g]
    BY <2>1
  <2>3. At(k, p) = [regs |-> k.regs, cr |-> k.cr, pc |-> p, mem |-> k.mem, io |-> k.io]
    BY <1>11, <2>1
  <2>4. [At(k, p) EXCEPT !.cr[c] = X(s, 1, k) \cup mask] = [regs |-> k.regs, cr |-> g, pc |-> p, mem |-> k.mem, io |-> k.io]
    BY <2>3
  <2> HIDE DEF g
  <2>6. [k EXCEPT !.cr = g] = [regs |-> k.regs, cr |-> g, pc |-> k.pc, mem |-> k.mem, io |-> k.io]
    BY <2>1
  <2>7. ASSUME NEW u, u = [regs |-> k.regs, cr |-> g, pc |-> k.pc, mem |-> k.mem, io |-> k.io]
        PROVE  [u EXCEPT !.pc = p] = [regs |-> k.regs, cr |-> g, pc |-> p, mem |-> k.mem, io |-> k.io]
    BY <2>7
  <2>5. [[k EXCEPT !.cr = g] EXCEPT !.pc = p] = [regs |-> k.regs, cr |-> g, pc |-> p, mem |-> k.mem, io |-> k.io]
    BY <2>6, <2>7
  <2> QED BY <1>14, <2>2, <2>4, <2>5 DEF Goes
<1>17. MeansSystem(s, k, after)
  <2>1. s.op # "svc"
    BY <1>1
  <2>2. held => MeansSystem(s, k, after)
    BY <1>12, <2>1, SystemSaid DEF p, held
  <2>3. s.op = "mfcr" /\ ~held => MeansSystem(s, k, after)
    BY <1>9, <1>15, SystemSaid DEF c, mask, held
  <2>4. s.op = "mtcr" /\ ~held => MeansSystem(s, k, after)
    BY <1>3, <1>16, SystemSaid DEF c, mask, held, p
  <2> QED BY <1>1, <2>2, <2>3, <2>4
<1> QED BY <1>17 DEF after

LEMMA ServiceIs ==
    ASSUME NEW s, NEW before, NEW after, s.op = "svc", MeansSystem(s, before, after)
    PROVE  Means(s, before, after)
<1> DEFINE form == Opcodes[s.op].form
           stored == {"ldca", "ldcas"} \cup DOMAIN Loads \cup DOMAIN Stores
<1>1. form = "ls"
  BY SystemRow
<1>2. Means(s, before, after) =
    CASE form \in {"rr", "mv", "id", "mcom", "mneg", "im", "lgisl"} ->
           MeansArithmetic(s, before, after)
      [] form = "bifn" -> MeansField(s, before, after)
      [] form \in {"br", "j", "ret"} -> MeansControl(s, before, after)
      [] form \in {"cr", "rex"} \/ s.op = "svc" -> MeansSystem(s, before, after)
      [] s.op \in stored -> MeansMemory(s, before, after)
      [] OTHER -> TRUE
  BY DEF Means, stored
<1>3. s.op \notin stored
  BY DEF Loads, Stores
<1> HIDE DEF form, stored
<1> QED BY <1>1, <1>2, <1>3

\* A statement of the system does what it says, or traps where the program may not.
THEOREM SystemMeans ==
    ASSUME NEW s, NEW k, Ready(s, k), Row(s).form \in {"cr", "rex"} \/ s.op = "svc"
    PROVE  Means(s, k, Execute(k))
<1>1. CASE Row(s).form \in {"cr", "rex"}
  <2>1. MeansSystem(s, k, Execute(k))
    BY <1>1, CrMeans, RexMeans
  <2> QED BY <1>1, <2>1, MeansIs
<1>2. CASE s.op = "svc"
  <2>1. MeansSystem(s, k, Execute(k))
    BY <1>2, ServiceMeans
  <2> QED BY <1>2, <2>1, ServiceIs
<1> QED BY <1>1, <1>2
-----------------------------------------------------------------------------
(* Fields of bits.                                                          *)

\* The bits above a bit, by the machine's shifts.
LEMMA AboveBit ==
    ASSUME NEW q \in 0..63
    PROVE  BitsAbove(q) = (q + 1)..63
<1> DEFINE j == 63 - q
           x == {63}
           y == Sar(x, j)
<1>1. j \in 0..63 /\ j < 64 /\ j # 64
  OBVIOUS
<1>2. y = Right(x, j) \cup (64 - j)..63
  <2>1. Negative(x)
    BY DEF Negative, Sign
  <2> HIDE DEF j, x
  <2> QED BY <1>1, <2>1 DEF Sar, Amount
<1>3. ASSUME NEW b \in Int PROVE b \in y <=> b \in q..63
  <2>1. b \in Right(x, j) <=> b = q
    BY DEF Right
  <2>2. b \in (64 - j)..63 <=> b \in (q + 1)..63
    OBVIOUS
  <2> HIDE DEF x, j, y
  <2> QED BY <1>2, <2>1, <2>2
<1>4. y \subseteq Int
  <2>1. Right(x, j) \subseteq Int
    BY DEF Right
  <2> HIDE DEF x, j, y
  <2> QED BY <1>2, <2>1
<1>5. y = q..63
  BY <1>3, <1>4, SameBits, q..63 \subseteq Int
<1>6. BitsAbove(q) = Left(q..63, 1)
  BY <1>5 DEF BitsAbove
<1>7. ASSUME NEW b \in Int PROVE b \in Left(q..63, 1) <=> b \in (q + 1)..63
  <2>1. b \in Left(q..63, 1) <=> b \in 0..63 /\ \E c \in q..63 : b = c + 1
    BY DEF Left, Bits
  <2>2. (\E c \in q..63 : b = c + 1) <=> b - 1 \in q..63
    OBVIOUS
  <2> QED BY <2>1, <2>2
<1>8. Left(q..63, 1) \subseteq Int /\ (q + 1)..63 \subseteq Int
  BY DEF Left, Bits
<1> QED BY <1>6, <1>7, <1>8, SameBits

\* A field is the lowest bits of what is left of it.
LEMMA GetIsRight ==
    ASSUME NEW c \in Word64, NEW p \in Nat, NEW q \in Nat
    PROVE  Get(c, p, q + 1) = Right(c, p) \cap 0..q
<1>1. c \subseteq Int
  BY DEF Word64, Bits
<1>2. Right(c, p) \subseteq Int
  BY <1>1 DEF Right
<1>3. ASSUME NEW b \in Int PROVE b \in Get(c, p, q + 1) <=> b \in Right(c, p) \cap 0..q
  <2>1. b \in Get(c, p, q + 1) <=> b + p \in c /\ b \in 0..(q + 1 - 1)
    <3> DEFINE n == q + 1
    <3>1. n \in Nat
      OBVIOUS
    <3> HIDE DEF n
    <3>2. b \in Get(c, p, n) <=> b + p \in c /\ b \in 0..(n - 1)
      BY <1>1, <3>1, GetBits
    <3> QED BY <3>2 DEF n
  <2>2. b \in Right(c, p) <=> b + p \in c /\ b + p >= p
    BY <1>1 DEF Right
  <2> QED BY <2>1, <2>2
<1>4. Get(c, p, q + 1) \subseteq Int
  BY <1>1 DEF Get
<1> QED BY <1>2, <1>3, <1>4, SameBits

\* The sign from a bit on, as ls_3 has it, is that of the field that ends there.
LEMMA SignIsExt ==
    ASSUME NEW v \in Word64, NEW q \in 0..63
    PROVE  SignFrom(v, q) = Ext(v \cap 0..q, q + 1)
<1> DEFINE up == (q + 1)..63
           x == v \cap 0..q
<1>1. BitsAbove(q) = up
  BY AboveBit
<1>2. \A b \in v : b \in Int /\ b >= 0 /\ b <= 63
  BY DEF Word64, Bits
<1>3. \A b \in v : b \in x \/ b \in up
  BY <1>2
<1>4. \A b \in x : b \notin up
  OBVIOUS
<1>5. q \in v <=> q \in x
  OBVIOUS
<1>6. x \subseteq v
  OBVIOUS
<1> HIDE DEF up, x
<1>7. v \cup up = x \cup up /\ v \ up = x
  BY <1>3, <1>4, <1>6
<1>8. SignFrom(v, q) = IF q \in v THEN v \cup up ELSE v \ up
  BY <1>1 DEF SignFrom
<1>9. Ext(x, q + 1) = IF q \in x THEN x \cup up ELSE x
  BY DEF Ext, up
<1> QED BY <1>5, <1>7, <1>8, <1>9 DEF x

LEMMA WordExt ==
    ASSUME NEW x, NEW q \in 0..63, x \subseteq 0..q
    PROVE  Ext(x, q + 1) \in Word64
BY DEF Ext, Word64, Bits

\* What the three instructions compute of a word, with a position below 64.
LEMMA FieldsTaken ==
    ASSUME NEW c \in Word64, NEW p \in 0..63, NEW q \in 0..63
    PROVE  /\ p + q < 64 => SignFrom(Shr(c, p), q) = Ext(Get(c, p, q + 1), q + 1)
           /\ p + q < 64 => Sar(c, p) \ BitsAbove(q) = Get(c, p, q + 1)
           /\ SignFrom(c, q) \ BitsAbove(p % 64) = Ext(Get(c, 0, q + 1), q + 1) \cap 0..p
<1> DEFINE r == Right(c, p)
           g == Get(c, p, q + 1)
<1>1. p < 64 /\ p # 64 /\ p \in Nat /\ q \in Nat
  OBVIOUS
<1>2. r \in Word64
  BY <1>1, WordParts
<1>3. g = r \cap 0..q
  BY <1>1, GetIsRight
<1>4. Shr(c, p) = r
  BY <1>1 DEF Shr, Amount
<1> HIDE DEF g
<1>5. SignFrom(Shr(c, p), q) = Ext(g, q + 1)
  <2> HIDE DEF r
  <2> QED BY <1>2, <1>3, <1>4, SignIsExt
<1>6. p + q < 64 => Sar(c, p) \ BitsAbove(q) = g
  <2> DEFINE up == (q + 1)..63
             high == IF Negative(c) THEN (64 - p)..63 ELSE {}
  <2>1. Sar(c, p) = r \cup high
    BY <1>1 DEF Sar, Amount
  <2>2. BitsAbove(q) = up
    BY AboveBit
  <2>3. p + q < 64 => high \subseteq up
    OBVIOUS
  <2>4. \A b \in r : b \in 0..q \/ b \in up
    BY <1>2 DEF Word64, Bits
  <2>5. \A b \in 0..q : b \notin up
    OBVIOUS
  <2> HIDE DEF r, up, high
  <2> QED BY <1>3, <2>1, <2>2, <2>3, <2>4, <2>5
<1>7. SignFrom(c, q) \ BitsAbove(p % 64) = Ext(Get(c, 0, q + 1), q + 1) \cap 0..p
  <2> DEFINE x == Ext(Get(c, 0, q + 1), q + 1)
             up == (p + 1)..63
  <2>1. Right(c, 0) = c
    <3>1. c \subseteq Nat
      BY DEF Word64, Bits
    <3> QED BY <3>1, RightNone
  <2>2. Get(c, 0, q + 1) = c \cap 0..q
    BY <1>1, <2>1, GetIsRight
  <2>3. SignFrom(c, q) = x
    BY <2>2, SignIsExt
  <2>4. x \in Word64
    <3>1. c \cap 0..q \subseteq 0..q
      OBVIOUS
    <3> QED BY <2>2, <3>1, WordExt
  <2>5. p % 64 = p
    OBVIOUS
  <2>6. BitsAbove(p % 64) = up
    BY <2>5, AboveBit
  <2> HIDE DEF x
  <2>7. \A b \in x : b \notin up <=> b \in 0..p
    BY <2>4 DEF Word64, Bits
  <2> HIDE DEF up
  <2> QED BY <2>3, <2>6, <2>7 DEF x
<1> QED BY <1>5, <1>6, <1>7 DEF g

\* A number of six bits is one below 64.
LEMMA BelowSixty ==
    ASSUME NEW x, x \subseteq 0..5
    PROVE  ToNat(x) \in 0..63
<1> DEFINE d(b) == Doubles(x)[b]
<1>1. d(64) = 0 /\ \A b \in 0..63 : d(b) = 2 * d(b + 1) + One(x, b)
  BY DoublesDef, DoublesNat
<1>2. ToNat(x) = d(0)
  BY DEF ToNat
<1>3. \A b : One(x, b) \in {0, 1}
  BY DEF One
<1>4. \A b \in 6..63 : One(x, b) = 0
  BY DEF One
<1> HIDE DEF d
<1>5. d(6) = 0
  <2> DEFINE T == {b \in 0..64 : b < 6 \/ d(b) = 0}
  <2>1. ASSUME NEW b \in 0..64, b < 64, b + 1 \in T PROVE b \in T
    <3>1. CASE b < 6
      BY <3>1
    <3>2. CASE b >= 6
      <4>1. b \in 0..63 /\ d(b + 1) = 0 /\ One(x, b) = 0
        BY <1>4, <2>1, <3>2
      <4>2. d(b) = 2 * 0 + 0
        BY <1>1, <4>1
      <4> QED BY <4>2
    <3> QED BY <3>1, <3>2
  <2>2. 64 \in T
    BY <1>1
  <2> HIDE DEF T
  <2>3. \A b \in 0..64 : b \in T
    BY <2>1, <2>2, Downward
  <2>4. 6 \in 0..64 /\ ~(6 < 6)
    OBVIOUS
  <2> QED BY <2>3, <2>4 DEF T
<1>6. \A b \in 0..63, k \in 1..64 : k = b + 1 => d(b) = 2 * d(k) + One(x, b)
  BY <1>1
<1>7. /\ d(0) = 2 * d(1) + One(x, 0) /\ d(1) = 2 * d(2) + One(x, 1)
      /\ d(2) = 2 * d(3) + One(x, 2) /\ d(3) = 2 * d(4) + One(x, 3)
      /\ d(4) = 2 * d(5) + One(x, 4) /\ d(5) = 2 * d(6) + One(x, 5)
  BY <1>6
<1>8. /\ One(x, 0) \in {0, 1} /\ One(x, 1) \in {0, 1} /\ One(x, 2) \in {0, 1}
      /\ One(x, 3) \in {0, 1} /\ One(x, 4) \in {0, 1} /\ One(x, 5) \in {0, 1}
  BY <1>3
<1> QED BY <1>2, <1>5, <1>7, <1>8, SMT

\* The two numbers of six bits, in the field of fifteen.
TwoSixes(v2, v3) == Field(v2, 6, 6) \cup Field(v3, 0, 6)

LEMMA SixesPlaced ==
    ASSUME NEW v2 \in Word64, NEW v3 \in Word64
    PROVE  /\ Field(v2, 11, 6) \cup Field(v3, 5, 6) = Field(TwoSixes(v2, v3), 5, 15)
           /\ TwoSixes(v2, v3) \subseteq 0..14
<1> DEFINE e == TwoSixes(v2, v3)
           all == Field(v2, 11, 6) \cup Field(v3, 5, 6)
<1>1. v2 \subseteq Int /\ v3 \subseteq Int
  BY DEF Word64, Bits
<1>2. ASSUME NEW b \in Int
      PROVE  /\ b \in Field(v2, 6, 6) <=> b - 6 \in v2 /\ b \in 6..11
             /\ b \in Field(v3, 0, 6) <=> b \in v3 /\ b \in 0..5
             /\ b \in Field(v2, 11, 6) <=> b - 11 \in v2 /\ b \in 11..16
             /\ b \in Field(v3, 5, 6) <=> b - 5 \in v3 /\ b \in 5..10
  <2>1. b \in Field(v2, 6, 6) <=> b - 6 \in v2 /\ b \in 6..(6 + 6 - 1)
    BY <1>1, FieldBits
  <2>2. b \in Field(v3, 0, 6) <=> b - 0 \in v3 /\ b \in 0..(0 + 6 - 1)
    BY <1>1, FieldBits
  <2>3. b \in Field(v2, 11, 6) <=> b - 11 \in v2 /\ b \in 11..(11 + 6 - 1)
    BY <1>1, FieldBits
  <2>4. b \in Field(v3, 5, 6) <=> b - 5 \in v3 /\ b \in 5..(5 + 6 - 1)
    BY <1>1, FieldBits
  <2> QED BY <2>1, <2>2, <2>3, <2>4
<1>3. ASSUME NEW b \in Int PROVE b \in e <=> (b - 6 \in v2 /\ b \in 6..11) \/ (b \in v3 /\ b \in 0..5)
  BY <1>2 DEF TwoSixes
<1>4. e \subseteq Int /\ all \subseteq Int
  BY DEF TwoSixes, Field
<1>5. e \subseteq 0..14
  BY <1>3, <1>4
<1> HIDE DEF e
<1>6. ASSUME NEW b \in Int PROVE b \in all <=> b \in Field(e, 5, 15)
  <2> DEFINE y == b - 5
  <2>1. b \in Field(e, 5, 15) <=> b - 5 \in e /\ b \in 5..(5 + 15 - 1)
    BY <1>4, FieldBits
  <2>2. y \in Int /\ y - 6 = b - 11
    OBVIOUS
  <2>3. b \in all <=> (b - 11 \in v2 /\ b \in 11..16) \/ (b - 5 \in v3 /\ b \in 5..10)
    BY <1>2
  <2>4. y \in e <=> (y - 6 \in v2 /\ y \in 6..11) \/ (y \in v3 /\ y \in 0..5)
    BY <1>3, <2>2
  <2>5. /\ y \in 6..11 <=> b \in 11..16
        /\ y \in 0..5 <=> b \in 5..10
        /\ b \in 11..16 \/ b \in 5..10 => b \in 5..(5 + 15 - 1)
    OBVIOUS
  <2> HIDE DEF all
  <2> QED BY <2>1, <2>2, <2>3, <2>4, <2>5
<1>7. Field(e, 5, 15) \subseteq Int
  BY <1>4 DEF Field
<1>8. all = Field(e, 5, 15)
  BY <1>4, <1>6, <1>7, SameBits
<1> QED BY <1>5, <1>8 DEF e

\* The machine's displacement is made of them.
LEMMA SixesRead ==
    ASSUME NEW v2, v2 \subseteq 0..5, NEW v3, v3 \subseteq 0..5
    PROVE  LET e == TwoSixes(v2, v3) IN
           Ext(e, 15) = e /\ Get(e, 0, 6) = v3 /\ Get(e, 6, 10) = v2
<1> DEFINE e == TwoSixes(v2, v3)
<1>1. ASSUME NEW b \in Int PROVE b \in e <=> b - 6 \in v2 \/ b \in v3
  <2>1. b \in Field(v2, 6, 6) <=> b - 6 \in v2 /\ b \in 6..(6 + 6 - 1)
    BY FieldBits, v2 \subseteq Int
  <2>2. b \in Field(v3, 0, 6) <=> b - 0 \in v3 /\ b \in 0..(0 + 6 - 1)
    BY FieldBits, v3 \subseteq Int
  <2>3. b - 6 \in v2 => b \in 6..(6 + 6 - 1)
    OBVIOUS
  <2> QED BY <2>1, <2>2, <2>3 DEF TwoSixes
<1>2. e \subseteq Int
  BY DEF TwoSixes, Field
<1> HIDE DEF e
<1>3. 15 - 1 \notin e
  <2>1. 14 - 6 \notin v2 /\ 14 \notin v3
    OBVIOUS
  <2> QED BY <1>1, <2>1
<1>4. ASSUME NEW b \in Int PROVE b \in Get(e, 0, 6) <=> b \in v3
  <2>1. b \in Get(e, 0, 6) <=> b + 0 \in e /\ b \in 0..(6 - 1)
    BY <1>2, GetBits
  <2>2. b \in 0..5 => b - 6 \notin v2
    OBVIOUS
  <2>3. b \in v3 => b \in 0..5
    OBVIOUS
  <2> QED BY <1>1, <2>1, <2>2, <2>3
<1>5. ASSUME NEW b \in Int PROVE b \in Get(e, 6, 10) <=> b \in v2
  <2>1. b \in Get(e, 6, 10) <=> b + 6 \in e /\ b \in 0..(10 - 1)
    BY <1>2, GetBits
  <2> DEFINE y == b + 6
  <2>2. y \in Int /\ y - 6 = b
    OBVIOUS
  <2>3. y \in e <=> y - 6 \in v2 \/ y \in v3
    BY <1>1, <2>2
  <2>4. b \in 0..9 => y \notin v3
    OBVIOUS
  <2>5. b \in v2 => b \in 0..9
    OBVIOUS
  <2> QED BY <2>1, <2>2, <2>3, <2>4, <2>5
<1>6. Get(e, 0, 6) \subseteq Int /\ Get(e, 6, 10) \subseteq Int
  BY <1>2 DEF Get
<1>7. Get(e, 0, 6) = v3
  BY <1>4, <1>6, SameBits, v3 \subseteq Int
<1>8. Get(e, 6, 10) = v2
  BY <1>5, <1>6, SameBits, v2 \subseteq Int
<1> QED BY <1>3, <1>7, <1>8 DEF Ext, e
-----------------------------------------------------------------------------
LEMMA LowPlaced ==
    ASSUME NEW v \in Word64, NEW n, NEW to, NEW kind
    PROVE  Placed(v, Operand(kind, 6, {<<0, n, to>>}).fields) = Field(v, to, n)
<1>1. Operand(kind, 6, {<<0, n, to>>}).fields = {<<0, n, to>>}
  BY DEF Operand
<1>2. Placed(v, {<<0, n, to>>}) = Field(Right(v, 0), to, n)
  BY PlacedOnce, Zenon
<1>3. v \subseteq Nat
  BY DEF Word64, Bits
<1> QED BY <1>1, <1>2, <1>3, RightNone

LEMMA FieldWord ==
    ASSUME NEW s, NEW k, NEW next, Proper(s, k), Row(s).form = "bifn"
    PROVE  /\ V(s, 2) \in Word64 /\ V(s, 3) \in Word64
           /\ V(s, 2) \subseteq 0..5 /\ V(s, 3) \subseteq 0..5 =>
                StorageReads(WordOf(s, next), s, R(s, 1), R(s, 4), TwoSixes(V(s, 2), V(s, 3)))
<1> DEFINE w == WordOf(s, next)
           v(i) == Values(s, next)[i]
           p6 == Operand("lit", 6, {<<0, 6, 11>>})
           q12 == Operand("lit", 6, {<<0, 12, 5>>})
           mine == <<A, p6, q12, C>>
           os == Operands(s)
           e == TwoSixes(V(s, 2), V(s, 3))
<1>1. Forms(Row(s)) = {mine} /\ Ordered(Row(s), s.args) = s.args
  BY DEF Forms, Ordered
<1>2. Assembled(s, k).err = "none" /\ s.op \in DOMAIN Opcodes
  BY DEF Proper
<1>3. os = mine /\ Len(mine) = 4
  BY <1>1, <1>2, OneForm
<1>4. mine[1] = A /\ mine[2] = p6 /\ mine[3] = q12 /\ mine[4] = C
  OBVIOUS
<1>5. p6.kind = "lit" /\ q12.kind = "lit"
  BY DEF Operand
<1> HIDE DEF mine, p6, q12
<1>6. Len(os) = 4 /\ os[1] = A /\ os[2] = p6 /\ os[3] = q12 /\ os[4] = C
  BY <1>3, <1>4
<1>7. ASSUME NEW i \in 1..4
      PROVE  /\ os[i].kind = "reg" => v(i) \subseteq 0..4 /\ ToNat(v(i)) = R(s, i)
             /\ os[i].kind = "lit" => v(i) = V(s, i) /\ v(i) \in Word64
  <2>1. Len(os) \in Nat /\ i \in 1..Len(os)
    BY <1>6, <1>7
  <2> QED BY <1>1, <2>1, ValuesTaken
<1>8. w = Encoded(Row(s), os, Values(s, next))
  BY DEF WordOf
<1> HIDE DEF w, v, os
<1>9. v(1) \subseteq 0..4 /\ ToNat(v(1)) = R(s, 1) /\ v(4) \subseteq 0..4 /\ ToNat(v(4)) = R(s, 4)
  BY <1>6, <1>7, Kinds
<1>10. v(2) = V(s, 2) /\ v(2) \in Word64 /\ v(3) = V(s, 3) /\ v(3) \in Word64
  BY <1>5, <1>6, <1>7
<1>11. w = Fixed(Row(s)) \cup Placed(v(1), A.fields) \cup Placed(v(2), p6.fields)
             \cup Placed(v(3), q12.fields) \cup Placed(v(4), C.fields)
  BY <1>6, <1>8, EncodedIs DEF v
<1>12. Placed(v(2), p6.fields) = Field(v(2), 11, 6) /\ Placed(v(3), q12.fields) = Field(v(3), 5, 12)
  BY <1>10, LowPlaced DEF p6, q12
<1>13. Field(v(2), 11, 6) \cup Field(v(3), 5, 6) = Field(e, 5, 15) /\ e \subseteq 0..14
  BY <1>10, SixesPlaced
<1>14. Placed(v(1), A.fields) = Field(v(1), 23, 5) /\ Placed(v(4), C.fields) = Field(v(4), 0, 5)
  BY <1>9, RegistersPlaced
<1>15. ASSUME v(3) \subseteq 0..5 PROVE StorageReads(w, s, ToNat(v(1)), ToNat(v(4)), e)
  <2>1. Field(v(3), 5, 12) = Field(v(3), 5, 6)
    BY <1>15 DEF Field
  <2> HIDE DEF e
  <2>2. w = Fixed(Row(s)) \cup Field(v(1), 23, 5) \cup (Field(v(4), 0, 5) \cup Field(e, 5, 15))
    BY <1>11, <1>12, <1>13, <1>14, <2>1
  <2> QED BY <1>2, <1>9, <1>13, <2>2, StorageFilled
<1> QED BY <1>9, <1>10, <1>15 DEF e, w

LEMMA FieldRows ==
    /\ Opcodes["extn"].fn = 4 /\ Opcodes["extnm"].fn = 5 /\ Opcodes["bifn"].fn = 6
    /\ Opcodes["extn"].op = 3 /\ Opcodes["extnm"].op = 3 /\ Opcodes["bifn"].op = 3
BY DEF Opcodes, I

LEMMA FieldNames ==
    ASSUME NEW o \in DOMAIN Opcodes, Opcodes[o].form = "bifn"
    PROVE  o \in {"extn", "extnm", "bifn"}
BY SMTT(30) DEF Opcodes, I, LsRow, LssRow

LEMMA FieldSaid ==
    ASSUME NEW s, NEW before, NEW after
    PROVE  LET c == X(s, 4, before)
               p == ToNat(V(s, 2))
               q == ToNat(V(s, 3))
               to(v) == To(s, before, after, v)
               says == MeansField(s, before, after)
               six == V(s, 2) \subseteq 0..5 /\ V(s, 3) \subseteq 0..5
           IN  /\ ~six => says
               /\ s.op = "extn" => ((p + q < 64 => to(Ext(Get(c, p, q + 1), q + 1))) => says)
               /\ s.op = "bifn" => ((p + q < 64 => to(Get(c, p, q + 1))) => says)
               /\ s.op = "extnm" => (to(Ext(Get(c, 0, q + 1), q + 1) \cap 0..p) => says)
BY DEF MeansField

\* What functions 4 to 6 of lcca64_ls_3 make of the machine.
FieldResult(f, k, next, a, c, p, q, after) ==
    LET to(v) == SetReg(At(k, next), a, v) IN
    /\ f = 4 => after = to(SignFrom(Shr(c, p), q))
    /\ f = 5 => after = to(SignFrom(c, q) \ BitsAbove(p % 64))
    /\ f = 6 => after = to(Sar(c, p) \ BitsAbove(q))

LEMMA FieldDoes ==
    ASSUME NEW s, NEW k, IsMachine(k), NEW next \in Word64, Row(s).op = 3, Row(s).fn \in {4, 5, 6},
           NEW w, NEW ra, NEW rc, NEW v2, v2 \subseteq 0..5, NEW v3, v3 \subseteq 0..5,
           StorageReads(w, s, ra, rc, TwoSixes(v2, v3))
    PROVE  FieldResult(Row(s).fn, k, next, ra, Reg(k, rc), ToNat(v2), ToNat(v3),
                       Operation(At(k, next), w))
<1> DEFINE m0 == At(k, next)
           f == Row(s).fn
           e == TwoSixes(v2, v3)
           after == Operation(m0, w)
           c == Reg(k, rc)
           p == ToNat(v2)
           q == ToNat(v3)
<1>1. OPCODE(w) = 3 /\ FN(w) = f /\ RA(w) = ra /\ ra \in 0..31 /\ RC(w) = rc /\ rc \in 0..31
      /\ LS_DISP(w) = Ext(e, 15)
  BY DEF StorageReads, LS_DISP
<1>2. Reg(m0, rc) = c
  BY <1>1, RegAt
<1>3. LS_DISP(w) = e /\ Get(e, 0, 6) = v3 /\ Get(e, 6, 10) = v2
  BY <1>1, SixesRead
<1>4. after = Ls(m0, w)
  BY <1>1 DEF Operation
<1>5. after = BitField(m0, w)
  <2>1. ~(OPCODE(w) \in {2, 10} \/ FN(w) < 4)
    BY <1>1
  <2> QED BY <1>1, <1>4, <2>1 DEF Ls
<1>6. after = CASE f = 4 -> SetReg(m0, ra, SignFrom(Shr(c, p), q))
                [] f = 5 -> SetReg(m0, ra, SignFrom(c, q) \ BitsAbove(p % 64))
                [] f = 6 -> SetReg(m0, ra, Sar(c, p) \ BitsAbove(q))
                [] OTHER  -> Error(m0, "EMLT", w, {})
  BY <1>1, <1>2, <1>3, <1>5 DEF BitField
<1> HIDE DEF after, f, c, p, q, m0
<1>7. /\ f = 4 => after = SetReg(m0, ra, SignFrom(Shr(c, p), q))
      /\ f = 5 => after = SetReg(m0, ra, SignFrom(c, q) \ BitsAbove(p % 64))
      /\ f = 6 => after = SetReg(m0, ra, Sar(c, p) \ BitsAbove(q))
  BY <1>6
<1> QED BY <1>7 DEF FieldResult, after, f, c, p, q, m0

\* A statement about a field of bits takes the field that it says.
THEOREM FieldMeans ==
    ASSUME NEW s, NEW k, Ready(s, k), Row(s).form = "bifn"
    PROVE  Means(s, k, Execute(k))
<1> DEFINE next == After(s, k)
           w == WordOf(s, next)
           v2 == V(s, 2)
           v3 == V(s, 3)
           p == ToNat(v2)
           q == ToNat(v3)
           a == R(s, 1)
           c == X(s, 4, k)
           f == Row(s).fn
           after == Execute(k)
           six == v2 \subseteq 0..5 /\ v3 \subseteq 0..5
<1>1. s.op \in {"extn", "extnm", "bifn"}
  BY FieldNames DEF Ready, Proper, Row
<1>2. Row(s).op = 3 /\ f \in {4, 5, 6}
  BY <1>1, FieldRows DEF Row
<1>3. /\ s.op = "extn" => f = 4
      /\ s.op = "extnm" => f = 5
      /\ s.op = "bifn" => f = 6
  BY FieldRows DEF Row
<1>4. /\ v2 \in Word64 /\ v3 \in Word64
      /\ v2 \subseteq 0..5 /\ v3 \subseteq 0..5 =>
           StorageReads(w, s, a, R(s, 4), TwoSixes(v2, v3))
  BY FieldWord DEF Ready
\* Of numbers below zero nothing is said.
<1>5. ~six => MeansField(s, k, after)
  BY FieldSaid, Zenon
<1> SUFFICES ASSUME six PROVE MeansField(s, k, after)
  BY <1>5, MeansIs, Zenon DEF after
<1>6. p \in 0..63 /\ q \in 0..63
  BY BelowSixty
<1>7. InstructionSize(Row(s)) = 4
  BY DEF InstructionSize
<1>8. w \subseteq 0..31 /\ OPCODE(w) = Row(s).op /\ a \in 0..31 /\ R(s, 4) \in 0..31
  BY <1>4 DEF StorageReads
<1>9. after = Operation(At(k, next), w) /\ next \in Word64 /\ IsMachine(k)
  BY <1>7, <1>8, Round DEF Ready
<1>10. c \in Word64
  BY <1>8, <1>9, RegAt DEF X
<1> HIDE DEF next, w, v2, v3, a, f, after
<1>11. FieldResult(f, k, next, a, c, p, q, after) /\ p \in 0..63 /\ q \in 0..63
  <2>1. FieldResult(Row(s).fn, k, next, a, Reg(k, R(s, 4)), p, q, Operation(At(k, next), w))
    BY <1>2, <1>4, <1>9, FieldDoes DEF f
  <2> QED BY <1>6, <1>9, <2>1 DEF X, f
<1> HIDE DEF p, q, c
<1>12. /\ p + q < 64 => SignFrom(Shr(c, p), q) = Ext(Get(c, p, q + 1), q + 1)
       /\ p + q < 64 => Sar(c, p) \ BitsAbove(q) = Get(c, p, q + 1)
       /\ SignFrom(c, q) \ BitsAbove(p % 64) = Ext(Get(c, 0, q + 1), q + 1) \cap 0..p
  BY <1>10, <1>11, FieldsTaken, ZenonT(60)
<1>13. ASSUME NEW v, after = SetReg(At(k, next), a, v) PROVE To(s, k, after, v)
  <2>1. Goes(SetReg(k, a, v), SetReg(At(k, next), a, v), next)
    BY <1>8, <1>9, ToMeans
  <2> QED BY <1>13, <2>1 DEF To, next, a
<1>14. /\ f = 4 /\ p + q < 64 => To(s, k, after, Ext(Get(c, p, q + 1), q + 1))
       /\ f = 5 => To(s, k, after, Ext(Get(c, 0, q + 1), q + 1) \cap 0..p)
       /\ f = 6 /\ p + q < 64 => To(s, k, after, Get(c, p, q + 1))
  BY <1>11, <1>12, <1>13 DEF FieldResult
<1> QED
  <2>1. s.op = "extn" => MeansField(s, k, after)
    BY <1>3, <1>14, FieldSaid DEF c, p, q, v2, v3
  <2>2. s.op = "extnm" => MeansField(s, k, after)
    BY <1>3, <1>14, FieldSaid DEF c, p, q, v2, v3
  <2>3. s.op = "bifn" => MeansField(s, k, after)
    BY <1>3, <1>14, FieldSaid DEF c, p, q, v2, v3
  <2> QED BY <1>1, <2>1, <2>2, <2>3

-----------------------------------------------------------------------------
(* Loads and stores.                                                        *)
LEMMA Power ==
    ASSUME NEW j \in 0..3
    PROVE  2^j \in 1..8 /\ 2^j \in Nat
<1>1. 2^0 = 1
  OBVIOUS
<1>2. 2^1 = 2
  OBVIOUS
<1>3. 2^2 = 4
  OBVIOUS
<1>4. 2^3 = 8
  OBVIOUS
<1>5. j = 0 => 2^j = 1
  BY <1>1, Zenon
<1>6. j = 1 => 2^j = 2
  BY <1>2, Zenon
<1>7. j = 2 => 2^j = 4
  BY <1>3, Zenon
<1>8. j = 3 => 2^j = 8
  BY <1>4, Zenon
<1>9. j = 0 \/ j = 1 \/ j = 2 \/ j = 3
  OBVIOUS
<1> QED BY <1>5, <1>6, <1>7, <1>8, <1>9

\* What the row of a load or a store says: the access, its size, and whether the sign
\* is extended.
Access(o) ==
    IF Opcodes[o].op \in {2, 10} THEN Short[Opcodes[o].fn + 1] ELSE Long[Opcodes[o].fn + 1]
SizeOf(o) ==
    IF o \in DOMAIN Loads THEN Loads[o] ELSE IF o \in DOMAIN Stores THEN Stores[o] ELSE 0
Storing == {"ldca", "ldcas"} \cup DOMAIN Loads \cup DOMAIN Stores

IsLs(o, op, fn, shamt) == Opcodes[o] = LsRow(op, fn, shamt)
IsLss(o, op, fn, shamt) == Opcodes[o] = LssRow(op, fn, shamt)

LEMMA LsIs ==
    ASSUME NEW o, NEW op, NEW fn, NEW shamt, IsLs(o, op, fn, shamt)
    PROVE  /\ Opcodes[o].op = op /\ Opcodes[o].fn = fn /\ Opcodes[o].shamt = shamt
           /\ Opcodes[o].form = "ls"
BY DEF IsLs, LsRow

LEMMA LssIs ==
    ASSUME NEW o, NEW op, NEW fn, NEW shamt, IsLss(o, op, fn, shamt)
    PROVE  /\ Opcodes[o].op = op /\ Opcodes[o].fn = fn /\ Opcodes[o].shamt = shamt
           /\ Opcodes[o].form = "lss"
BY SMTT(30) DEF IsLss, LssRow

LEMMA LsRows ==
    /\ IsLs("ldc", 2, 0, 0)
    /\ IsLs("ldcz", 2, 1, 0)
    /\ IsLs("ldw", 2, 2, 1)
    /\ IsLs("ldwz", 2, 3, 1)
    /\ IsLs("ld", 2, 4, 2)
    /\ IsLs("ldz", 3, 0, 2)
    /\ IsLs("ldq", 3, 1, 3)
    /\ IsLs("stc", 2, 5, 0)
    /\ IsLs("stw", 2, 6, 1)
    /\ IsLs("st", 2, 7, 2)
    /\ IsLs("stq", 3, 3, 3)
    /\ IsLs("ldca", 3, 2, 0)
BY ZenonT(30) DEF Opcodes, IsLs

LEMMA LssRows ==
    /\ IsLss("ldcs", 10, 0, 0)
    /\ IsLss("ldczs", 10, 1, 0)
    /\ IsLss("ldws", 10, 2, 1)
    /\ IsLss("ldwzs", 10, 3, 1)
    /\ IsLss("lds", 10, 4, 2)
    /\ IsLss("ldzs", 11, 0, 2)
    /\ IsLss("ldqs", 11, 1, 3)
    /\ IsLss("stcs", 10, 5, 0)
    /\ IsLss("stws", 10, 6, 1)
    /\ IsLss("sts", 10, 7, 2)
    /\ IsLss("stqs", 11, 3, 3)
    /\ IsLss("ldcas", 11, 2, 0)
BY ZenonT(30) DEF Opcodes, IsLss

ShortIs(fn, what, j, signed) ==
    Short[fn + 1] = <<what, j, signed>> /\ fn \in 0..7 /\ j \in 0..3
LongIs(fn, what, j, signed) ==
    Long[fn + 1] = <<what, j, signed>> /\ fn \in 0..3 /\ j \in 0..3

LEMMA ShortAre ==
    /\ ShortIs(0, "load", 0, TRUE)
    /\ ShortIs(1, "load", 0, FALSE)
    /\ ShortIs(2, "load", 1, TRUE)
    /\ ShortIs(3, "load", 1, FALSE)
    /\ ShortIs(4, "load", 2, TRUE)
    /\ ShortIs(5, "store", 0, FALSE)
    /\ ShortIs(6, "store", 1, FALSE)
    /\ ShortIs(7, "store", 2, FALSE)
<1>1. /\ Short[1] = <<"load", 0, TRUE>>
      /\ Short[2] = <<"load", 0, FALSE>>
      /\ Short[3] = <<"load", 1, TRUE>>
      /\ Short[4] = <<"load", 1, FALSE>>
      /\ Short[5] = <<"load", 2, TRUE>>
      /\ Short[6] = <<"store", 0, FALSE>>
      /\ Short[7] = <<"store", 1, FALSE>>
      /\ Short[8] = <<"store", 2, FALSE>>
  BY DEF Short
<1>2. 0 + 1 = 1 /\ 1 + 1 = 2 /\ 2 + 1 = 3 /\ 3 + 1 = 4 /\ 4 + 1 = 5 /\ 5 + 1 = 6 /\ 6 + 1 = 7 /\ 7 + 1 = 8
  OBVIOUS
<1>3. 0..3 = {0, 1, 2, 3} /\ 0..7 = {0, 1, 2, 3, 4, 5, 6, 7}
  OBVIOUS
<1> QED BY <1>1, <1>2, <1>3, Zenon DEF ShortIs

LEMMA LongAre ==
    /\ LongIs(0, "load", 2, FALSE)
    /\ LongIs(1, "load", 3, FALSE)
    /\ LongIs(2, "address", 0, FALSE)
    /\ LongIs(3, "store", 3, FALSE)
<1>1. /\ Long[1] = <<"load", 2, FALSE>>
      /\ Long[2] = <<"load", 3, FALSE>>
      /\ Long[3] = <<"address", 0, FALSE>>
      /\ Long[4] = <<"store", 3, FALSE>>
  BY DEF Long
<1>2. 0 + 1 = 1 /\ 1 + 1 = 2 /\ 2 + 1 = 3 /\ 3 + 1 = 4
  OBVIOUS
<1>3. 0..3 = {0, 1, 2, 3}
  OBVIOUS
<1> QED BY <1>1, <1>2, <1>3, Zenon DEF LongIs

Accesses(o, what, j, signed) ==
    /\ Access(o) = <<what, j, signed>> /\ Opcodes[o].shamt = j /\ j \in 0..3
    /\ Opcodes[o].fn \in 0..7 /\ (Opcodes[o].op \in {3, 11} => Opcodes[o].fn < 4)
    /\ \/ Opcodes[o].form = "ls" /\ Opcodes[o].op \in {2, 3}
       \/ Opcodes[o].form = "lss" /\ Opcodes[o].op \in {10, 11}

LEMMA ShortLsRow ==
    ASSUME NEW o, NEW fn, NEW what, NEW j, NEW signed, IsLs(o, 2, fn, j), ShortIs(fn, what, j, signed)
    PROVE  Accesses(o, what, j, signed)
<1>1. Opcodes[o].op = 2 /\ Opcodes[o].fn = fn /\ Opcodes[o].shamt = j /\ Opcodes[o].form = "ls"
  BY LsIs
<1>2. Access(o) = <<what, j, signed>>
  BY <1>1 DEF Access, ShortIs
<1> QED BY <1>1, <1>2 DEF Accesses, ShortIs

LEMMA ShortLssRow ==
    ASSUME NEW o, NEW fn, NEW what, NEW j, NEW signed, IsLss(o, 10, fn, j), ShortIs(fn, what, j, signed)
    PROVE  Accesses(o, what, j, signed)
<1>1. Opcodes[o].op = 10 /\ Opcodes[o].fn = fn /\ Opcodes[o].shamt = j /\ Opcodes[o].form = "lss"
  BY LssIs
<1>2. Access(o) = <<what, j, signed>>
  BY <1>1 DEF Access, ShortIs
<1> QED BY <1>1, <1>2 DEF Accesses, ShortIs

LEMMA LongLsRow ==
    ASSUME NEW o, NEW fn, NEW what, NEW j, NEW signed, IsLs(o, 3, fn, j), LongIs(fn, what, j, signed)
    PROVE  Accesses(o, what, j, signed)
<1>1. Opcodes[o].op = 3 /\ Opcodes[o].fn = fn /\ Opcodes[o].shamt = j /\ Opcodes[o].form = "ls"
  BY LsIs
<1>2. Access(o) = <<what, j, signed>>
  BY <1>1 DEF Access, LongIs
<1> QED BY <1>1, <1>2 DEF Accesses, LongIs

LEMMA LongLssRow ==
    ASSUME NEW o, NEW fn, NEW what, NEW j, NEW signed, IsLss(o, 11, fn, j), LongIs(fn, what, j, signed)
    PROVE  Accesses(o, what, j, signed)
<1>1. Opcodes[o].op = 11 /\ Opcodes[o].fn = fn /\ Opcodes[o].shamt = j /\ Opcodes[o].form = "lss"
  BY LssIs
<1>2. Access(o) = <<what, j, signed>>
  BY <1>1 DEF Access, LongIs
<1> QED BY <1>1, <1>2 DEF Accesses, LongIs

LEMMA LoadAccesses ==
    /\ Accesses("ldc", "load", 0, TRUE)
    /\ Accesses("ldcz", "load", 0, FALSE)
    /\ Accesses("ldw", "load", 1, TRUE)
    /\ Accesses("ldwz", "load", 1, FALSE)
    /\ Accesses("ld", "load", 2, TRUE)
    /\ Accesses("ldz", "load", 2, FALSE)
    /\ Accesses("ldq", "load", 3, FALSE)
    /\ Accesses("ldcs", "load", 0, TRUE)
    /\ Accesses("ldczs", "load", 0, FALSE)
    /\ Accesses("ldws", "load", 1, TRUE)
    /\ Accesses("ldwzs", "load", 1, FALSE)
    /\ Accesses("lds", "load", 2, TRUE)
    /\ Accesses("ldzs", "load", 2, FALSE)
    /\ Accesses("ldqs", "load", 3, FALSE)
<1>1. Accesses("ldc", "load", 0, TRUE)
  BY ShortLsRow, ShortAre, LsRows, Zenon
<1>2. Accesses("ldcz", "load", 0, FALSE)
  BY ShortLsRow, ShortAre, LsRows, Zenon
<1>3. Accesses("ldw", "load", 1, TRUE)
  BY ShortLsRow, ShortAre, LsRows, Zenon
<1>4. Accesses("ldwz", "load", 1, FALSE)
  BY ShortLsRow, ShortAre, LsRows, Zenon
<1>5. Accesses("ld", "load", 2, TRUE)
  BY ShortLsRow, ShortAre, LsRows, Zenon
<1>6. Accesses("ldz", "load", 2, FALSE)
  BY LongLsRow, LongAre, LsRows, Zenon
<1>7. Accesses("ldq", "load", 3, FALSE)
  BY LongLsRow, LongAre, LsRows, Zenon
<1>8. Accesses("ldcs", "load", 0, TRUE)
  BY ShortLssRow, ShortAre, LssRows, Zenon
<1>9. Accesses("ldczs", "load", 0, FALSE)
  BY ShortLssRow, ShortAre, LssRows, Zenon
<1>10. Accesses("ldws", "load", 1, TRUE)
  BY ShortLssRow, ShortAre, LssRows, Zenon
<1>11. Accesses("ldwzs", "load", 1, FALSE)
  BY ShortLssRow, ShortAre, LssRows, Zenon
<1>12. Accesses("lds", "load", 2, TRUE)
  BY ShortLssRow, ShortAre, LssRows, Zenon
<1>13. Accesses("ldzs", "load", 2, FALSE)
  BY LongLssRow, LongAre, LssRows, Zenon
<1>14. Accesses("ldqs", "load", 3, FALSE)
  BY LongLssRow, LongAre, LssRows, Zenon
<1> QED BY <1>1, <1>2, <1>3, <1>4, <1>5, <1>6, <1>7, <1>8, <1>9, <1>10, <1>11, <1>12, <1>13, <1>14

LEMMA StoreAccesses ==
    /\ Accesses("stc", "store", 0, FALSE)
    /\ Accesses("stw", "store", 1, FALSE)
    /\ Accesses("st", "store", 2, FALSE)
    /\ Accesses("stq", "store", 3, FALSE)
    /\ Accesses("stcs", "store", 0, FALSE)
    /\ Accesses("stws", "store", 1, FALSE)
    /\ Accesses("sts", "store", 2, FALSE)
    /\ Accesses("stqs", "store", 3, FALSE)
    /\ Accesses("ldca", "address", 0, FALSE)
    /\ Accesses("ldcas", "address", 0, FALSE)
<1>1. Accesses("stc", "store", 0, FALSE)
  BY ShortLsRow, ShortAre, LsRows, Zenon
<1>2. Accesses("stw", "store", 1, FALSE)
  BY ShortLsRow, ShortAre, LsRows, Zenon
<1>3. Accesses("st", "store", 2, FALSE)
  BY ShortLsRow, ShortAre, LsRows, Zenon
<1>4. Accesses("stq", "store", 3, FALSE)
  BY LongLsRow, LongAre, LsRows, Zenon
<1>5. Accesses("stcs", "store", 0, FALSE)
  BY ShortLssRow, ShortAre, LssRows, Zenon
<1>6. Accesses("stws", "store", 1, FALSE)
  BY ShortLssRow, ShortAre, LssRows, Zenon
<1>7. Accesses("sts", "store", 2, FALSE)
  BY ShortLssRow, ShortAre, LssRows, Zenon
<1>8. Accesses("stqs", "store", 3, FALSE)
  BY LongLssRow, LongAre, LssRows, Zenon
<1>9. Accesses("ldca", "address", 0, FALSE)
  BY LongLsRow, LongAre, LsRows, Zenon
<1>10. Accesses("ldcas", "address", 0, FALSE)
  BY LongLssRow, LongAre, LssRows, Zenon
<1> QED BY <1>1, <1>2, <1>3, <1>4, <1>5, <1>6, <1>7, <1>8, <1>9, <1>10

-----------------------------------------------------------------------------

-----------------------------------------------------------------------------
LEMMA LoadNames ==
    /\ DOMAIN Loads = {"ldc", "ldcz", "ldw", "ldwz", "ld", "ldz", "ldq",
                       "ldcs", "ldczs", "ldws", "ldwzs", "lds", "ldzs", "ldqs"}
    /\ Loads["ldc"] = 0 /\ Loads["ldcz"] = 0 /\ Loads["ldw"] = 1 /\ Loads["ldwz"] = 1
    /\ Loads["ld"] = 2 /\ Loads["ldz"] = 2 /\ Loads["ldq"] = 3
    /\ Loads["ldcs"] = 0 /\ Loads["ldczs"] = 0 /\ Loads["ldws"] = 1 /\ Loads["ldwzs"] = 1
    /\ Loads["lds"] = 2 /\ Loads["ldzs"] = 2 /\ Loads["ldqs"] = 3
BY DEF Loads

LEMMA StoreNames ==
    /\ DOMAIN Stores = {"stc", "stw", "st", "stq", "stcs", "stws", "sts", "stqs"}
    /\ Stores["stc"] = 0 /\ Stores["stw"] = 1 /\ Stores["st"] = 2 /\ Stores["stq"] = 3
    /\ Stores["stcs"] = 0 /\ Stores["stws"] = 1 /\ Stores["sts"] = 2 /\ Stores["stqs"] = 3
BY DEF Stores

LEMMA AccessNames ==
    ASSUME NEW o
    PROVE  /\ o \in Extending => o \in DOMAIN Loads /\ Accesses(o, "load", Loads[o], TRUE)
           /\ o \in DOMAIN Loads /\ o \notin Extending => Accesses(o, "load", Loads[o], FALSE)
           /\ o \in DOMAIN Stores => /\ Accesses(o, "store", Stores[o], FALSE)
                                     /\ o \notin DOMAIN Loads /\ o \notin {"ldca", "ldcas"}
           /\ o \in {"ldca", "ldcas"} => /\ Accesses(o, "address", 0, FALSE)
                                         /\ o \notin DOMAIN Loads /\ o \notin DOMAIN Stores
<1>1. ASSUME o \in Extending PROVE o \in DOMAIN Loads /\ Accesses(o, "load", Loads[o], TRUE)
  BY <1>1, LoadNames, LoadAccesses DEF Extending
<1>2. ASSUME o \in DOMAIN Loads, o \notin Extending PROVE Accesses(o, "load", Loads[o], FALSE)
  <2>1. o \in {"ldcz", "ldwz", "ldz", "ldq", "ldczs", "ldwzs", "ldzs", "ldqs"}
    BY <1>2, LoadNames DEF Extending
  <2> QED BY <2>1, LoadNames, LoadAccesses
<1>3. ASSUME o \in DOMAIN Stores
      PROVE  /\ Accesses(o, "store", Stores[o], FALSE)
             /\ o \notin DOMAIN Loads /\ o \notin {"ldca", "ldcas"}
  <2>1. o \in {"stc", "stw", "st", "stq", "stcs", "stws", "sts", "stqs"}
    BY <1>3, StoreNames
  <2>2. Accesses(o, "store", Stores[o], FALSE)
    BY <2>1, StoreNames, StoreAccesses
  <2> QED BY <2>1, <2>2, LoadNames
<1>4. ASSUME o \in {"ldca", "ldcas"}
      PROVE  /\ Accesses(o, "address", 0, FALSE)
             /\ o \notin DOMAIN Loads /\ o \notin DOMAIN Stores
  BY <1>4, LoadNames, StoreNames, StoreAccesses
<1> QED BY <1>1, <1>2, <1>3, <1>4

\* What a load, a store or the computation of an address makes of the machine.
MemoryResult(k, p, ra, what, j, signed, va, after) ==
    LET address == Translate(k, va)
        in == BusRead(k.mem, address, j)
        out == BusFault(address, j, Writable)
    IN  /\ what = "address" => after = SetReg(At(k, p), ra, va)
        /\ what = "load" /\ in.e # "none" => Trapped(k, after, in.e, p)
        /\ what = "load" /\ in.e = "none" =>
             after = SetReg(At(k, p), ra, IF signed THEN Ext(in.v, 8 * 2^j) ELSE in.v)
        /\ what = "store" /\ out # "none" => Trapped(k, after, out, p)
        /\ what = "store" /\ out = "none" /\ ~InMmio(address) =>
             after = [At(k, p) EXCEPT !.mem = MemWrite(k.mem, ToNat(address), 2^j, Reg(k, ra))]

LEMMA Triple ==
    ASSUME NEW x, NEW a, NEW b, NEW c, x = <<a, b, c>>
    PROVE  x[1] = a /\ x[2] = b /\ x[3] = c
OBVIOUS

LEMMA MemoryDoes ==
    ASSUME NEW k, IsMachine(k), NEW p \in Word64, NEW w, NEW ra \in 0..31,
           NEW what \in {"address", "load", "store"}, NEW j, NEW signed \in BOOLEAN, NEW va,
           OPCODE(w) \in {2, 3, 10, 11}, OPCODE(w) \in {3, 11} => FN(w) < 4,
           RA(w) = ra, Storage(w) = <<what, j, signed>>, StorageAddress(At(k, p), w, j) = va
    PROVE  MemoryResult(k, p, ra, what, j, signed, va, Operation(At(k, p), w))
<1> DEFINE m0 == At(k, p)
           after == Operation(m0, w)
           address == Translate(k, va)
           in == BusRead(k.mem, address, j)
           out == BusFault(address, j, Writable)
           v == Reg(k, ra)
           datum == IF signed THEN Ext(in.v, 8 * 2^j) ELSE in.v
<1>1. m0.cr = k.cr /\ m0.mem = k.mem /\ m0.io = k.io /\ Reg(m0, ra) = v
  BY AtMachine, RegAt
<1>2. m0 = [regs |-> m0.regs, cr |-> m0.cr, pc |-> m0.pc, mem |-> m0.mem, io |-> m0.io]
  BY AtMachine DEF IsMachine
<1>3. Translate(m0, va) = address
  BY <1>1 DEF Translate
<1>4. after = LoadStore(m0, w)
  <2>1. after = Ls(m0, w)
    BY DEF Operation
  <2>2. OPCODE(w) \in {2, 10} \/ FN(w) < 4
    OBVIOUS
  <2> QED BY <2>1, <2>2 DEF Ls
<1>5. Storage(w)[1] = what /\ Storage(w)[2] = j /\ Storage(w)[3] = signed
  BY Triple
<1> DEFINE wr == BusWrite(k.mem, k.io, address, j, v)
           fa(e) == IF e = "DALT" THEN va ELSE address
           said == CASE what = "address" -> SetReg(m0, ra, va)
                     [] what = "load" ->
                          IF in.e # "none" THEN Error(m0, in.e, w, fa(in.e))
                          ELSE SetReg(m0, ra, datum)
                     [] what = "store" ->
                          IF wr.e # "none" THEN Error(m0, wr.e, w, fa(wr.e))
                          ELSE [m0 EXCEPT !.mem = wr.mem, !.io = wr.io]
<1>6. after = said
  BY <1>1, <1>3, <1>4, <1>5, Zenon DEF LoadStore
<1>7. /\ wr.e = out
      /\ out = "none" /\ ~InMmio(address) =>
           wr.mem = MemWrite(k.mem, ToNat(address), 2^j, v) /\ wr.io = k.io
  BY DEF BusWrite
<1> HIDE DEF after, address, in, out, v, datum, wr, m0, fa
<1>8. what = "address" => after = SetReg(m0, ra, va)
  BY <1>6
<1>9. what = "load" /\ in.e # "none" => after = Error(m0, in.e, w, fa(in.e))
  BY <1>6
<1>10. what = "load" /\ in.e = "none" => after = SetReg(m0, ra, datum)
  BY <1>6
<1>11. what = "store" /\ wr.e # "none" => after = Error(m0, wr.e, w, fa(wr.e))
  BY <1>6
<1>12. what = "store" /\ wr.e = "none" => after = [m0 EXCEPT !.mem = wr.mem, !.io = wr.io]
  BY <1>6
<1>13. what = "load" /\ in.e # "none" => Trapped(k, after, in.e, p)
  BY <1>9, ErrorTraps DEF m0
<1>14. what = "store" /\ out # "none" => Trapped(k, after, out, p)
  BY <1>7, <1>11, ErrorTraps DEF m0
<1>15. [m0 EXCEPT !.mem = MemWrite(k.mem, ToNat(address), 2^j, v), !.io = k.io]
         = [m0 EXCEPT !.mem = MemWrite(k.mem, ToNat(address), 2^j, v)]
  BY <1>1, <1>2
<1>16. what = "store" /\ out = "none" /\ ~InMmio(address) =>
          after = [m0 EXCEPT !.mem = MemWrite(k.mem, ToNat(address), 2^j, v)]
  BY <1>7, <1>12, <1>15
<1> QED BY <1>8, <1>10, <1>13, <1>14, <1>16
        DEF MemoryResult, after, address, in, out, v, datum, m0

-----------------------------------------------------------------------------

-----------------------------------------------------------------------------
(* A selector of three bits above a displacement of twelve.                 *)
Selecting(v, d) == Field(v, 12, 3) \cup Field(d, 0, 12)

LEMMA SelectingBits ==
    ASSUME NEW v, v \subseteq Int, NEW d, d \subseteq Int, NEW b \in Int
    PROVE  b \in Selecting(v, d) <=> (b - 12 \in v /\ b \in 12..14) \/ (b \in d /\ b \in 0..11)
<1>1. b \in Field(v, 12, 3) <=> b - 12 \in v /\ b \in 12..(12 + 3 - 1)
  BY FieldBits
<1>2. b \in Field(d, 0, 12) <=> b - 0 \in d /\ b \in 0..(0 + 12 - 1)
  BY FieldBits
<1> QED BY <1>1, <1>2 DEF Selecting

LEMMA SelectingPlaced ==
    ASSUME NEW v, v \subseteq Int, NEW d, d \subseteq Int
    PROVE  /\ Field(v, 17, 3) \cup Field(d, 5, 12) = Field(Selecting(v, d), 5, 15)
           /\ Selecting(v, d) \subseteq 0..14
<1> DEFINE e == Selecting(v, d)
           all == Field(v, 17, 3) \cup Field(d, 5, 12)
<1>1. e \subseteq Int /\ all \subseteq Int
  BY DEF Selecting, Field
<1>2. e \subseteq 0..14
  <2>1. ASSUME NEW b \in Int, b \in e PROVE b \in 0..14
    <3>1. b \in e <=> (b - 12 \in v /\ b \in 12..14) \/ (b \in d /\ b \in 0..11)
      BY SelectingBits
    <3> HIDE DEF e
    <3> QED BY <2>1, <3>1
  <2> HIDE DEF e
  <2> QED BY <1>1, <2>1
<1>3. ASSUME NEW b \in Int PROVE b \in all <=> b \in Field(e, 5, 15)
  <2> DEFINE y == b - 5
  <2>1. b \in Field(v, 17, 3) <=> b - 17 \in v /\ b \in 17..(17 + 3 - 1)
    BY FieldBits
  <2>2. b \in Field(d, 5, 12) <=> b - 5 \in d /\ b \in 5..(5 + 12 - 1)
    BY FieldBits
  <2>3. b \in all <=> (b - 17 \in v /\ b \in 17..19) \/ (b - 5 \in d /\ b \in 5..16)
    BY <2>1, <2>2
  <2>4. y \in Int /\ y - 12 = b - 17
    OBVIOUS
  <2>5. y \in e <=> (y - 12 \in v /\ y \in 12..14) \/ (y \in d /\ y \in 0..11)
    BY <2>4, SelectingBits
  <2>6. /\ y \in 12..14 <=> b \in 17..19
        /\ y \in 0..11 <=> b \in 5..16
        /\ b \in 17..19 \/ b \in 5..16 => b \in 5..(5 + 15 - 1)
    OBVIOUS
  <2> HIDE DEF e
  <2>7. b \in Field(e, 5, 15) <=> b - 5 \in e /\ b \in 5..(5 + 15 - 1)
    BY <1>1, FieldBits
  <2> HIDE DEF all
  <2> QED BY <2>3, <2>4, <2>5, <2>6, <2>7
<1>4. Field(e, 5, 15) \subseteq Int
  BY <1>1 DEF Field
<1>5. all = Field(e, 5, 15)
  BY <1>1, <1>3, <1>4, SameBits
<1> QED BY <1>2, <1>5

\* The machine finds both again.
LEMMA SelectingRead ==
    ASSUME NEW v, v \subseteq 0..2, NEW d, d \subseteq Int, NEW w, w \subseteq 0..31,
           Get(w, 5, 15) = Selecting(v, d)
    PROVE  LSS_SEL(w) = v /\ Get(w, 5, 12) = d \cap 0..11
<1> DEFINE e == Selecting(v, d)
           g == Get(w, 5, 15)
<1>1. w \subseteq Int /\ v \subseteq Int
  OBVIOUS
<1>2. ASSUME NEW b \in Int PROVE b \in e <=> b + 5 \in w /\ b \in 0..14
  <2>1. b \in Get(w, 5, 15) <=> b + 5 \in w /\ b \in 0..(15 - 1)
    BY <1>1, GetBits
  <2> QED BY <2>1
<1>3. ASSUME NEW b \in Int PROVE b \in e <=> (b - 12 \in v /\ b \in 12..14) \/ (b \in d /\ b \in 0..11)
  BY <1>1, SelectingBits
<1> HIDE DEF e
<1>4. ASSUME NEW b \in Int PROVE b \in Get(w, 17, 3) <=> b \in v
  <2> DEFINE y == b + 12
  <2>1. b \in Get(w, 17, 3) <=> b + 17 \in w /\ b \in 0..(3 - 1)
    BY <1>1, GetBits
  <2>2. y \in Int /\ y + 5 = b + 17 /\ y - 12 = b
    OBVIOUS
  <2>3. y \in e <=> b + 17 \in w /\ y \in 0..14
    BY <1>2, <2>2
  <2>4. y \in e <=> (b \in v /\ y \in 12..14) \/ (y \in d /\ y \in 0..11)
    BY <1>3, <2>2
  <2>5. /\ b \in 0..2 => y \in 0..14 /\ y \in 12..14 /\ ~(y \in 0..11)
        /\ b \in v => b \in 0..2
    OBVIOUS
  <2> HIDE DEF y
  <2> QED BY <2>1, <2>3, <2>4, <2>5
<1>5. ASSUME NEW b \in Int PROVE b \in Get(w, 5, 12) <=> b \in d \cap 0..11
  <2>1. b \in Get(w, 5, 12) <=> b + 5 \in w /\ b \in 0..(12 - 1)
    BY <1>1, GetBits
  <2>2. b \in 0..11 => b \in 0..14 /\ ~(b \in 12..14)
    OBVIOUS
  <2> QED BY <1>2, <1>3, <2>1, <2>2
<1>6. Get(w, 17, 3) \subseteq Int /\ Get(w, 5, 12) \subseteq Int /\ d \cap 0..11 \subseteq Int
  BY <1>1 DEF Get
<1>7. Get(w, 17, 3) = v
  BY <1>1, <1>4, <1>6, SameBits
<1>8. Get(w, 5, 12) = d \cap 0..11
  BY <1>5, <1>6, SameBits
<1> QED BY <1>7, <1>8 DEF LSS_SEL

-----------------------------------------------------------------------------

-----------------------------------------------------------------------------
\* A load or a store with a selector.
LEMMA LssWord ==
    ASSUME NEW s, NEW k, NEW next, Proper(s, k), Row(s).form = "lss"
    PROVE  LET n == Len(s.args)
               d == Right(Last0(s, 3), Row(s).shamt)
           IN  /\ n \in {3, 4} /\ Last0(s, 3) \in Word64
               /\ \E v : /\ v \subseteq 0..4 /\ ToNat(v) = R(s, 2)
                         /\ StorageReads(WordOf(s, next), s, R(s, 1), R(s, 3), Selecting(v, d))
<1> DEFINE n == Len(s.args)
           w == WordOf(s, next)
           sh == Row(s).shamt
           disp == Number(12, sh, 12, 5)
           sel == Operand("reg", 5, {<<0, 3, 17>>})
           short == <<A, sel, C>>
           long == <<A, sel, C, disp>>
           v(i) == Values(s, next)[i]
           os == Operands(s)
<1>1. Forms(Row(s)) = {short, long} /\ Ordered(Row(s), s.args) = s.args
  BY DEF Forms, Ordered
<1>2. Assembled(s, k).err = "none" /\ s.op \in DOMAIN Opcodes
  BY DEF Proper
<1>3. Len(short) = 3 /\ Len(long) = 4 /\ short[1] = A /\ short[2] = sel /\ short[3] = C
      /\ long[1] = A /\ long[2] = sel /\ long[3] = C /\ long[4] = disp
  OBVIOUS
<1>4. disp.kind = "num" /\ disp.fields = {<<sh, 12, 5>>}
      /\ sel.kind = "reg" /\ sel.fields = {<<0, 3, 17>>}
  BY DEF Number, Operand
<1> HIDE DEF short, long, disp, sel
<1>5. /\ n \in {3, 4} /\ Len(os) = n /\ os[1] = A /\ os[2] = sel /\ os[3] = C
      /\ n = 4 => os[4] = disp
  <2>1. Len(short) # Len(long)
    BY <1>3
  <2>2. /\ n = Len(short) \/ n = Len(long)
        /\ n = Len(short) => Operands(s) = short
        /\ n = Len(long) => Operands(s) = long
    BY <1>1, <1>2, <2>1, EitherForm
  <2> QED BY <1>3, <2>2
<1>6. w = Encoded(Row(s), os, Values(s, next))
  BY DEF WordOf
<1>7. ASSUME NEW i \in 1..3 PROVE v(i) \subseteq 0..4 /\ ToNat(v(i)) = R(s, i)
  <2>1. i \in 1..Len(os) /\ Len(os) \in Nat
    BY <1>5
  <2>2. os[i].kind = "reg"
    BY <1>4, <1>5, Kinds
  <2> QED BY <1>1, <2>1, <2>2, ValuesTaken
<1>8. n = 4 => v(4) = V(s, 4) /\ v(4) \in Word64
  <2>1. n = 4 => 4 \in 1..Len(os) /\ Len(os) \in Nat /\ os[4].kind = "num"
    BY <1>4, <1>5
  <2> QED BY <1>1, <2>1, ValuesTaken
<1>9. /\ n = 3 => Last0(s, 3) = {}
      /\ n = 4 => Last0(s, 3) = V(s, 4)
  <2>1. Last0(s, 3) = IF n > 3 THEN V(s, n) ELSE {}
    BY DEF Last0
  <2> HIDE DEF n
  <2>2. n = 3 => ~(n > 3)
    OBVIOUS
  <2>3. n = 4 => n > 3
    OBVIOUS
  <2> QED BY <2>1, <2>2, <2>3
<1>10. sh \in Nat
  BY <1>2, Rows DEF Row
<1>11. v(1) \subseteq 0..4 /\ v(2) \subseteq 0..4 /\ v(3) \subseteq 0..4
  BY <1>7
<1> HIDE DEF n, w, v, os, sh
<1> DEFINE d == Right(Last0(s, 3), sh)
           e == Selecting(v(2), d)
<1>12. Placed(v(2), sel.fields) = Field(v(2), 17, 3)
  <2>1. v(2) \subseteq Nat
    BY <1>11
  <2>2. Right(v(2), 0) = v(2)
    BY <2>1, RightNone
  <2>3. Placed(v(2), {<<0, 3, 17>>}) = Field(Right(v(2), 0), 17, 3)
    BY PlacedOnce
  <2> QED BY <1>4, <2>2, <2>3
<1>13. /\ Last0(s, 3) \in Word64
       /\ w = Fixed(Row(s)) \cup Field(v(1), 23, 5) \cup Field(v(2), 17, 3) \cup Field(v(3), 0, 5)
                \cup Field(d, 5, 12)
  <2>1. CASE n = 3
    <3>1. w = Fixed(Row(s)) \cup Placed(v(1), A.fields) \cup Placed(v(2), sel.fields)
                \cup Placed(v(3), C.fields)
      BY <1>5, <1>6, <2>1, EncodedIs DEF v
    <3>2. Field(d, 5, 12) = {} /\ {} \in Word64
      BY <1>9, <2>1 DEF Right, Word64, Field
    <3> QED BY <1>9, <1>11, <1>12, <2>1, <3>1, <3>2, RegistersPlaced
  <2>2. CASE n = 4
    <3>1. w = Fixed(Row(s)) \cup Placed(v(1), A.fields) \cup Placed(v(2), sel.fields)
                \cup Placed(v(3), C.fields) \cup Placed(v(4), disp.fields)
      BY <1>5, <1>6, <2>2, EncodedIs DEF v
    <3>2. Placed(v(4), disp.fields) = Field(d, 5, 12)
      BY <1>4, <1>9, <2>2, <1>8, PlacedOnce
    <3> QED BY <1>8, <1>9, <1>11, <1>12, <2>2, <3>1, <3>2, RegistersPlaced
  <2> QED BY <1>5, <2>1, <2>2
<1>14. v(2) \subseteq Int /\ d \subseteq Int
  BY <1>10, <1>11, <1>13, RightIsNat
<1>15. Field(v(2), 17, 3) \cup Field(d, 5, 12) = Field(e, 5, 15) /\ e \subseteq 0..14
  BY <1>14, SelectingPlaced
<1> HIDE DEF e, d
<1>16. w = Fixed(Row(s)) \cup Field(v(1), 23, 5) \cup (Field(v(3), 0, 5) \cup Field(e, 5, 15))
  BY <1>13, <1>15
<1>17. StorageReads(w, s, ToNat(v(1)), ToNat(v(3)), e)
  BY <1>2, <1>11, <1>15, <1>16, StorageFilled
<1>18. ToNat(v(1)) = R(s, 1) /\ ToNat(v(2)) = R(s, 2) /\ ToNat(v(3)) = R(s, 3)
  BY <1>7
<1> QED BY <1>5, <1>11, <1>13, <1>17, <1>18 DEF n, w, e, d, sh

\* Where a statement says that its datum is.
Selected(s) == Row(s).form = "lss"
Base(s) == IF Selected(s) THEN 3 ELSE 2
Disp(s) == Last0(s, Base(s))
Object(s, k) == R(s, 2) + IF PL \in k.cr[PSQ] THEN 0 ELSE 4
Said(s, k) ==
    LET sum == Plus(X(s, Base(s), k), Disp(s)) IN
    IF Selected(s) THEN (sum \cap 0..59) \cup Left(Num(Object(s, k)), 60) ELSE sum
Legal(s, j) ==
    /\ Fits(Disp(s), IF Selected(s) THEN 12 ELSE 15) /\ Disp(s) \cap 0..(j - 1) = {}
    /\ Selected(s) => R(s, 2) \in 0..7

\* The machine scales the displacement back.
LEMMA DispRead ==
    ASSUME NEW d \in Word64, NEW j \in 0..3, NEW n \in {12, 15}, Fits(d, n), d \cap 0..(j - 1) = {}
    PROVE  Left(Ext(Right(d, j) \cap 0..(n - 1), n), j) = d
<1>1. Fits(d, n + j)
  <2>1. d \subseteq Bits
    BY DEF Word64
  <2>2. CASE d \subseteq 0..(n - 2)
    BY <2>2 DEF Fits
  <2>3. CASE (n - 1)..63 \subseteq d
    <3>1. (n + j - 1)..63 \subseteq (n - 1)..63
      OBVIOUS
    <3> QED BY <2>3, <3>1 DEF Fits
  <2> QED BY <2>2, <2>3 DEF Fits
<1>2. Multiple(d, j)
  BY DEF Multiple
<1>3. n \in 4..24
  OBVIOUS
<1> QED BY <1>1, <1>2, <1>3, ScaledFits

LEMMA LsAddress ==
    ASSUME NEW s, NEW k, IsMachine(k), Proper(s, k), NEW p \in Word64, Row(s).form = "ls",
           NEW j \in 0..3, Row(s).shamt = j, Legal(s, j), Row(s).op \in {2, 3}
    PROVE  LET w == WordOf(s, p) IN
           /\ w \subseteq 0..31 /\ OPCODE(w) = Row(s).op /\ FN(w) = Row(s).fn
           /\ RA(w) = R(s, 1) /\ R(s, 1) \in 0..31
           /\ StorageAddress(At(k, p), w, j) = Said(s, k)
<1> DEFINE w == WordOf(s, p)
           d == Last0(s, 2)
           e == Right(d, j) \cap 0..14
           rc == R(s, 2)
<1>1. d \in Word64 /\ StorageReads(w, s, R(s, 1), rc, e)
  BY LsWord
<1>2. ~Selected(s) /\ Base(s) = 2 /\ Disp(s) = d
  BY DEF Selected, Base, Disp
<1>3. Fits(d, 15) /\ d \cap 0..(j - 1) = {}
  BY <1>2 DEF Legal
<1>4. Left(Ext(e, 15), j) = d
  <2> DEFINE n == 15
  <2>1. n \in {12, 15} /\ n - 1 = 14 /\ Fits(d, n)
    BY <1>3
  <2> HIDE DEF n, d
  <2>2. Left(Ext(Right(d, j) \cap 0..(n - 1), n), j) = d
    BY <1>1, <1>3, <2>1, DispRead, ZenonT(60)
  <2> QED BY <2>1, <2>2 DEF n
<1> HIDE DEF w, d, e
<1>5. OPCODE(w) = Row(s).op /\ RC(w) = rc /\ rc \in 0..31 /\ LS_DISP(w) = Ext(e, 15)
  BY <1>1 DEF StorageReads, LS_DISP
<1>6. Reg(At(k, p), rc) = X(s, 2, k)
  BY <1>5, RegAt DEF X
<1>7. StorageAddress(At(k, p), w, j) = Plus(X(s, 2, k), d)
  <2>1. OPCODE(w) \notin {10, 11}
    BY <1>5
  <2> QED BY <1>4, <1>5, <1>6, <2>1 DEF StorageAddress
<1>8. Said(s, k) = Plus(X(s, 2, k), d)
  BY <1>2 DEF Said
<1> QED BY <1>1, <1>7, <1>8 DEF StorageReads, w

\* The number of an object, in the highest bits.
LEMMA Objects ==
    ASSUME NEW v, v \subseteq 0..4, NEW r \in 0..7, ToNat(v) = r
    PROVE  /\ v \subseteq 0..2
           /\ Field(v, 60, 4) = Left(Num(r), 60)
           /\ Field(Plus(v, {2}), 60, 4) = Left(Num(r + 4), 60)
<1>1. Num(r) = v
  BY FiveBits
<1>2. v \subseteq 0..2
  <2>1. r \in 0..31 /\ r < 8
    OBVIOUS
  <2> QED BY <1>1, <2>1, SmallBits
<1>3. Num(r + 4) = Plus(v, {2})
  <2>1. r \in Int /\ 4 \in Int
    OBVIOUS
  <2> QED BY <1>1, <2>1, NumSum, NumFour
<1>4. Plus(v, {2}) \subseteq 0..3
  <2> DEFINE q == r + 4
  <2>1. q \in 0..31 /\ q < 16
    OBVIOUS
  <2> HIDE DEF q
  <2>2. Num(q) \subseteq 0..3
    BY <2>1, SmallBits
  <2> QED BY <1>3, <2>2 DEF q
<1>5. ASSUME NEW x, x \subseteq 0..3 PROVE Field(x, 60, 4) = Left(x, 60)
  BY <1>5 DEF Field, Left, Bits
<1>6. v \subseteq 0..3
  BY <1>2
<1>7. Field(v, 60, 4) = Left(v, 60)
  BY <1>5, <1>6
<1>8. Field(Plus(v, {2}), 60, 4) = Left(Plus(v, {2}), 60)
  BY <1>4, <1>5
<1> QED BY <1>1, <1>2, <1>3, <1>7, <1>8, Zenon

LEMMA LssAddress ==
    ASSUME NEW s, NEW k, IsMachine(k), Proper(s, k), NEW p \in Word64, Row(s).form = "lss",
           NEW j \in 0..3, Row(s).shamt = j, Legal(s, j), Row(s).op \in {10, 11}
    PROVE  LET w == WordOf(s, p) IN
           /\ w \subseteq 0..31 /\ OPCODE(w) = Row(s).op /\ FN(w) = Row(s).fn
           /\ RA(w) = R(s, 1) /\ R(s, 1) \in 0..31
           /\ StorageAddress(At(k, p), w, j) = Said(s, k)
<1> DEFINE w == WordOf(s, p)
           d == Last0(s, 3)
           r == Right(d, j)
           rc == R(s, 3)
           held == PL \in k.cr[PSQ]
           seg == IF held THEN LSS_SEL(w) ELSE Plus(LSS_SEL(w), {2})
           c == X(s, 3, k)
<1>1. d \in Word64 /\ \E v : /\ v \subseteq 0..4 /\ ToNat(v) = R(s, 2)
                             /\ StorageReads(w, s, R(s, 1), rc, Selecting(v, r))
  BY LssWord
<1>2. PICK v : /\ v \subseteq 0..4 /\ ToNat(v) = R(s, 2)
               /\ StorageReads(w, s, R(s, 1), rc, Selecting(v, r))
  BY <1>1
<1>3. Selected(s) /\ Base(s) = 3 /\ Disp(s) = d
  BY DEF Selected, Base, Disp
<1>4. Fits(d, 12) /\ d \cap 0..(j - 1) = {} /\ R(s, 2) \in 0..7
  BY <1>3 DEF Legal
<1>5. Left(Ext(r \cap 0..11, 12), j) = d
  <2> DEFINE n == 12
  <2>1. n \in {12, 15} /\ n - 1 = 11 /\ Fits(d, n)
    BY <1>4
  <2> HIDE DEF n, d
  <2>2. Left(Ext(Right(d, j) \cap 0..(n - 1), n), j) = d
    BY <1>1, <1>4, <2>1, DispRead, ZenonT(60)
  <2> QED BY <2>1, <2>2 DEF n
<1>6. /\ v \subseteq 0..2
      /\ Field(v, 60, 4) = Left(Num(R(s, 2)), 60)
      /\ Field(Plus(v, {2}), 60, 4) = Left(Num(R(s, 2) + 4), 60)
  BY <1>2, <1>4, Objects
<1>7. r \subseteq Int
  <2>1. j \in Nat
    OBVIOUS
  <2>2. r \subseteq Nat
    BY <1>1, <2>1, RightIsNat
  <2> QED BY <2>2
<1> HIDE DEF w, d, r
<1>8. LSS_SEL(w) = v /\ Get(w, 5, 12) = r \cap 0..11
  <2>1. w \subseteq 0..31 /\ Get(w, 5, 15) = Selecting(v, r)
    BY <1>2 DEF StorageReads
  <2> QED BY <1>6, <1>7, <2>1, SelectingRead
<1>9. OPCODE(w) = Row(s).op /\ RC(w) = rc /\ rc \in 0..31
  BY <1>2 DEF StorageReads
<1>10. Left(LSS_DISP(w), j) = d
  BY <1>5, <1>8 DEF LSS_DISP
<1>11. Reg(At(k, p), rc) = c /\ At(k, p).cr = k.cr /\ c \in Word64
  BY <1>9, RegAt, AtMachine DEF X
<1>12. Field(seg, 60, 4) = Left(Num(Object(s, k)), 60)
  <2>1. CASE held
    <3>1. Object(s, k) = R(s, 2)
      BY <1>4, <2>1 DEF Object
    <3> QED BY <1>6, <1>8, <2>1, <3>1
  <2>2. CASE ~held
    <3>1. Object(s, k) = R(s, 2) + 4
      BY <2>2 DEF Object
    <3> QED BY <1>6, <1>8, <2>2, <3>1
  <2> QED BY <2>1, <2>2
<1>13. StorageAddress(At(k, p), w, j) = Selector(seg, c, d)
  <2>1. OPCODE(w) \in {10, 11}
    BY <1>9
  <2> QED BY <1>9, <1>10, <1>11, <2>1 DEF StorageAddress
<1> HIDE DEF seg, c
<1>14. Plus(d, c) = Plus(c, d)
  BY <1>1, <1>11, PlusCommutes
<1>15. Said(s, k) = (Plus(c, d) \cap 0..59) \cup Left(Num(Object(s, k)), 60)
  BY <1>3 DEF Said, c
<1>16. StorageAddress(At(k, p), w, j) = Said(s, k)
  BY <1>12, <1>13, <1>14, <1>15, SMTT(30) DEF Selector
<1> QED BY <1>2, <1>16 DEF StorageReads, w

-----------------------------------------------------------------------------

-----------------------------------------------------------------------------
\* What a store leaves: the datum for a load, and everything else.
StoredBy(k, p, address, j, v, after) ==
    /\ BusRead(after.mem, address, j).v = Get(v, 0, 8 * 2^j)
    /\ \A n \in (DOMAIN k.mem \cup DOMAIN after.mem)
             \ ToNat(address)..(ToNat(address) + 2^j - 1) :
          MemByte(after.mem, n) = MemByte(k.mem, n)
    /\ Goes([k EXCEPT !.mem = after.mem], after, p)

LEMMA MemorySaid ==
    ASSUME NEW s, NEW k, NEW after
    PROVE  LET o == s.op
               j == SizeOf(o)
               va == Said(s, k)
               address == Translate(k, va)
               in == BusRead(k.mem, address, j)
               out == BusFault(address, j, Writable)
               next == After(s, k)
               says == MeansMemory(s, k, after)
               Then(p) == (Legal(s, j) => p) => says
           IN  /\ o \in {"ldca", "ldcas"} => Then(To(s, k, after, va))
               /\ o \notin {"ldca", "ldcas"} /\ o \in DOMAIN Loads =>
                    /\ in.e # "none" => Then(Trapped(k, after, in.e, next))
                    /\ in.e = "none" =>
                         Then(To(s, k, after, IF o \in Extending THEN Ext(in.v, 8 * 2^j) ELSE in.v))
               /\ o \notin {"ldca", "ldcas"} /\ o \notin DOMAIN Loads =>
                    /\ out # "none" => Then(Trapped(k, after, out, next))
                    /\ out = "none" /\ InMmio(address) => says
                    /\ out = "none" /\ ~InMmio(address) =>
                         Then(StoredBy(k, next, address, j, X(s, 1, k), after))
BY ZenonT(30) DEF MeansMemory, SizeOf, Said, Object, Legal, Disp, Base, Selected, Row, StoredBy

-----------------------------------------------------------------------------

-----------------------------------------------------------------------------
LEMMA GetLow ==
    ASSUME NEW v \in Word64, NEW n \in Nat
    PROVE  Get(v, 0, n) = v \cap 0..(n - 1)
<1>1. v \subseteq Int
  BY DEF Word64, Bits
<1>2. ASSUME NEW b \in Int PROVE b \in Get(v, 0, n) <=> b \in v \cap 0..(n - 1)
  <2>1. b \in Get(v, 0, n) <=> b + 0 \in v /\ b \in 0..(n - 1)
    BY <1>1, GetBits
  <2> QED BY <2>1
<1>3. Get(v, 0, n) \subseteq Int
  BY <1>1 DEF Get
<1> QED BY <1>1, <1>2, <1>3, SameBits

LEMMA SaidWord ==
    ASSUME NEW s, NEW k
    PROVE  Said(s, k) \in Word64 /\ Translate(k, Said(s, k)) \in Word64
<1> DEFINE sum == Plus(X(s, Base(s), k), Disp(s))
           high == Left(Num(Object(s, k)), 60)
<1>1. sum \in Word64
  BY PlusWord
<1>2. high \in Word64
  BY DEF Left, Word64
<1> HIDE DEF sum, high
<1>3. Said(s, k) \in Word64
  <2>1. Said(s, k) = IF Selected(s) THEN (sum \cap 0..59) \cup high ELSE sum
    BY DEF Said, sum, high
  <2> QED BY <1>1, <1>2, <2>1 DEF Word64
<1>4. Translate(k, Said(s, k)) \in Word64
  BY <1>3, PlusWord DEF Translate
<1> QED BY <1>3, <1>4

LEMMA Stored ==
    ASSUME NEW k, IsMachine(k), NEW p \in Word64, NEW j \in 0..3, NEW address \in Word64,
           NEW v \in Word64, ~InMmio(address), BusFault(address, j, Writable) = "none", NEW after,
           after = [At(k, p) EXCEPT !.mem = MemWrite(k.mem, ToNat(address), 2^j, v)]
    PROVE  StoredBy(k, p, address, j, v, after)
<1> DEFINE size == 2^j
           a == ToNat(address)
           mem == MemWrite(k.mem, a, size, v)
<1>1. size \in 1..8 /\ size \in Nat
  BY Power
<1>2. a \in Nat
  BY NumToNat
<1> HIDE DEF size, a
<1>3. At(k, p) = [regs |-> k.regs, cr |-> k.cr, pc |-> p, mem |-> k.mem, io |-> k.io]
  BY DEF At, IsMachine
<1>4. after = [At(k, p) EXCEPT !.mem = mem]
  BY DEF size, a
<1>5. after = [regs |-> k.regs, cr |-> k.cr, pc |-> p, mem |-> mem, io |-> k.io]
  <2> HIDE DEF mem
  <2> QED BY <1>3, <1>4
<1>6. MemRead(mem, a, size) = v \cap 0..(8 * size - 1)
  <2>1. ReadBack(k.mem, a, size, v)
    BY <1>1, <1>2, StoredBack
  <2> QED BY <2>1 DEF ReadBack
<1>7. ASSUME NEW n, n \notin a..(a + size - 1) PROVE MemByte(mem, n) = MemByte(k.mem, n)
  BY <1>7 DEF MemByte, MemWrite
<1> HIDE DEF mem
<1>8. after.mem = mem
  BY <1>5
<1>9. BusRead(mem, address, j).v = MemRead(mem, a, size)
  <2>1. BusFault(address, j, Readable) = "none"
    BY DEF BusFault
  <2> QED BY <2>1 DEF BusRead, ReadValue, a, size
<1>10. Get(v, 0, 8 * size) = v \cap 0..(8 * size - 1)
  <2> DEFINE n == 8 * size
  <2>1. n \in Nat
    BY <1>1
  <2> HIDE DEF n
  <2>2. Get(v, 0, n) = v \cap 0..(n - 1)
    BY <2>1, GetLow
  <2> QED BY <2>2 DEF n
<1>11. Goes([k EXCEPT !.mem = mem], after, p)
  <2>1. [k EXCEPT !.mem = mem] = [regs |-> k.regs, cr |-> k.cr, pc |-> k.pc, mem |-> mem, io |-> k.io]
    BY DEF IsMachine
  <2>2. ASSUME NEW u, u = [regs |-> k.regs, cr |-> k.cr, pc |-> k.pc, mem |-> mem, io |-> k.io]
        PROVE  Goes(u, after, p)
    <3>1. [u EXCEPT !.pc = p] = [regs |-> k.regs, cr |-> k.cr, pc |-> p, mem |-> mem, io |-> k.io]
      BY <2>2
    <3> QED BY <1>5, <3>1 DEF Goes
  <2> QED BY <2>1, <2>2
<1> QED BY <1>6, <1>7, <1>8, <1>9, <1>10, <1>11 DEF a, size, StoredBy

LEMMA MemoryRound ==
    ASSUME NEW s, NEW k, Ready(s, k), NEW what \in {"address", "load", "store"}, NEW j,
           NEW signed \in BOOLEAN, Accesses(s.op, what, j, signed), Legal(s, j)
    PROVE  /\ MemoryResult(k, After(s, k), R(s, 1), what, j, signed, Said(s, k), Execute(k))
           /\ R(s, 1) \in 0..31 /\ After(s, k) \in Word64 /\ j \in 0..3
<1> DEFINE p == After(s, k)
           w == WordOf(s, p)
<1>1. /\ Access(s.op) = <<what, j, signed>> /\ Row(s).shamt = j /\ j \in 0..3
      /\ Row(s).fn \in 0..7 /\ (Row(s).op \in {3, 11} => Row(s).fn < 4)
      /\ \/ Row(s).form = "ls" /\ Row(s).op \in {2, 3}
         \/ Row(s).form = "lss" /\ Row(s).op \in {10, 11}
  BY DEF Accesses, Row
<1>2. IsMachine(k) /\ Proper(s, k)
  BY DEF Ready
<1>3. p \in Word64
  BY PlusWord DEF After
<1>4. /\ w \subseteq 0..31 /\ OPCODE(w) = Row(s).op /\ FN(w) = Row(s).fn
      /\ RA(w) = R(s, 1) /\ R(s, 1) \in 0..31
      /\ StorageAddress(At(k, p), w, j) = Said(s, k)
  BY <1>1, <1>2, <1>3, LsAddress, LssAddress
<1>5. Execute(k) = Operation(At(k, p), w)
  <2>1. InstructionSize(Row(s)) = 4
    BY <1>1 DEF InstructionSize
  <2> QED BY <1>1, <1>4, <2>1, Round DEF Ready
<1>6. Storage(w) = <<what, j, signed>>
  BY <1>1, <1>4 DEF Storage, Access, Row
<1> HIDE DEF p, w
<1>7. MemoryResult(k, p, R(s, 1), what, j, signed, Said(s, k), Operation(At(k, p), w))
  BY <1>1, <1>2, <1>3, <1>4, <1>6, MemoryDoes
<1> QED BY <1>1, <1>3, <1>4, <1>5, <1>7 DEF p

-----------------------------------------------------------------------------

-----------------------------------------------------------------------------
\* A load, a store and the computation of an address do what they say.
LEMMA AddressMeans ==
    ASSUME NEW s, NEW k, Ready(s, k), s.op \in {"ldca", "ldcas"}
    PROVE  MeansMemory(s, k, Execute(k))
<1> DEFINE p == After(s, k)
           va == Said(s, k)
           after == Execute(k)
           j == 0
<1>1. Accesses(s.op, "address", j, FALSE) /\ SizeOf(s.op) = j
  BY AccessNames DEF SizeOf
<1>2. ASSUME Legal(s, j) PROVE To(s, k, after, va)
  <2>1. MemoryResult(k, p, R(s, 1), "address", j, FALSE, va, after)
        /\ R(s, 1) \in 0..31 /\ p \in Word64
    BY <1>1, <1>2, MemoryRound
  <2>2. after = SetReg(At(k, p), R(s, 1), va)
    BY <2>1 DEF MemoryResult
  <2> QED BY <2>1, <2>2, ToMeans DEF To, Ready
<1> HIDE DEF after, va, j
<1> QED BY <1>1, <1>2, MemorySaid DEF after, va

LEMMA LoadMeans ==
    ASSUME NEW s, NEW k, Ready(s, k), s.op \in DOMAIN Loads
    PROVE  MeansMemory(s, k, Execute(k))
<1> DEFINE p == After(s, k)
           va == Said(s, k)
           after == Execute(k)
           j == Loads[s.op]
           address == Translate(k, va)
           in == BusRead(k.mem, address, j)
           signed == s.op \in Extending
           datum == IF signed THEN Ext(in.v, 8 * 2^j) ELSE in.v
           to(v) == SetReg(At(k, p), R(s, 1), v)
<1>1. SizeOf(s.op) = j /\ s.op \notin {"ldca", "ldcas"}
  BY AccessNames DEF SizeOf
<1>2. ASSUME Legal(s, j)
      PROVE  /\ in.e # "none" => Trapped(k, after, in.e, p)
             /\ in.e = "none" => after = to(datum)
             /\ R(s, 1) \in 0..31 /\ p \in Word64
  <2>1. CASE s.op \in Extending
    <3>1. Accesses(s.op, "load", j, TRUE)
      BY <2>1, AccessNames
    <3>2. MemoryResult(k, p, R(s, 1), "load", j, TRUE, va, after)
          /\ R(s, 1) \in 0..31 /\ p \in Word64
      BY <1>2, <3>1, MemoryRound
    <3> QED BY <2>1, <3>2 DEF MemoryResult
  <2>2. CASE s.op \notin Extending
    <3>1. Accesses(s.op, "load", j, FALSE)
      BY <2>2, AccessNames
    <3>2. MemoryResult(k, p, R(s, 1), "load", j, FALSE, va, after)
          /\ R(s, 1) \in 0..31 /\ p \in Word64
      BY <1>2, <3>1, MemoryRound
    <3> QED BY <2>2, <3>2 DEF MemoryResult
  <2> QED BY <2>1, <2>2
<1> HIDE DEF after, va, j, in, datum
<1>3. ASSUME Legal(s, j), in.e = "none" PROVE To(s, k, after, datum)
  BY <1>2, <1>3, ToMeans DEF To, Ready
<1>4. CASE in.e # "none"
  <2>1. Legal(s, j) => Trapped(k, after, in.e, p)
    BY <1>2, <1>4
  <2> QED BY <1>1, <1>4, <2>1, MemorySaid DEF after, va, in
<1>5. CASE in.e = "none"
  <2>1. Legal(s, j) => To(s, k, after, datum)
    BY <1>3, <1>5
  <2> QED BY <1>1, <1>5, <2>1, MemorySaid DEF after, va, in, datum
<1> QED BY <1>4, <1>5

LEMMA StoreMeans ==
    ASSUME NEW s, NEW k, Ready(s, k), s.op \in DOMAIN Stores
    PROVE  MeansMemory(s, k, Execute(k))
<1> DEFINE p == After(s, k)
           va == Said(s, k)
           after == Execute(k)
           j == Stores[s.op]
           address == Translate(k, va)
           out == BusFault(address, j, Writable)
           v == X(s, 1, k)
           left == StoredBy(k, p, address, j, v, after)
<1>1. SizeOf(s.op) = j /\ s.op \notin {"ldca", "ldcas"} /\ s.op \notin DOMAIN Loads
      /\ Accesses(s.op, "store", j, FALSE)
  BY AccessNames DEF SizeOf
<1>2. address \in Word64
  BY SaidWord
<1>3. ASSUME Legal(s, j)
      PROVE  /\ out # "none" => Trapped(k, after, out, p)
             /\ out = "none" /\ ~InMmio(address) => left
  <2>1. /\ MemoryResult(k, p, R(s, 1), "store", j, FALSE, va, after)
        /\ R(s, 1) \in 0..31 /\ p \in Word64 /\ j \in 0..3
    BY <1>1, <1>3, MemoryRound
  <2>2. IsMachine(k) /\ v = Reg(k, R(s, 1)) /\ v \in Word64
    BY <2>1, RegAt DEF Ready, X
  <2> HIDE DEF after, va, j, v, p
  <2>3. ASSUME out = "none", ~InMmio(address) PROVE left
    <3>1. after = [At(k, p) EXCEPT !.mem = MemWrite(k.mem, ToNat(address), 2^j, v)]
      BY <2>1, <2>2, <2>3 DEF MemoryResult
    <3> HIDE DEF address
    <3> QED BY <1>2, <2>1, <2>2, <2>3, <3>1, Stored
  <2>4. out # "none" => Trapped(k, after, out, p)
    BY <2>1 DEF MemoryResult
  <2> QED BY <2>3, <2>4
<1> HIDE DEF after, va, j, v
<1>4. CASE out # "none"
  <2>1. Legal(s, j) => Trapped(k, after, out, p)
    BY <1>3, <1>4
  <2> QED BY <1>1, <1>4, <2>1, MemorySaid DEF after, va
<1>5. CASE out = "none" /\ InMmio(address)
  BY <1>1, <1>5, MemorySaid DEF after, va
<1>6. CASE out = "none" /\ ~InMmio(address)
  <2>1. Legal(s, j) => left
    BY <1>3, <1>6
  <2> QED BY <1>1, <1>6, <2>1, MemorySaid DEF after, va, v
<1> QED BY <1>4, <1>5, <1>6

LEMMA StoredForm ==
    ASSUME NEW s, NEW before, NEW after, s.op \in Storing, MeansMemory(s, before, after)
    PROVE  Means(s, before, after)
<1> DEFINE form == Opcodes[s.op].form
<1>1. form \in {"ls", "lss"}
  BY StorageForms DEF Storing
<1>2. s.op # "svc"
  BY DEF Storing, Loads, Stores
<1>3. Means(s, before, after) =
    CASE form \in {"rr", "mv", "id", "mcom", "mneg", "im", "lgisl"} ->
           MeansArithmetic(s, before, after)
      [] form = "bifn" -> MeansField(s, before, after)
      [] form \in {"br", "j", "ret"} -> MeansControl(s, before, after)
      [] form \in {"cr", "rex"} \/ s.op = "svc" -> MeansSystem(s, before, after)
      [] s.op \in Storing -> MeansMemory(s, before, after)
      [] OTHER -> TRUE
  BY DEF Means, Storing
<1> HIDE DEF form
<1> QED BY <1>1, <1>2, <1>3

\* A statement that loads, stores or computes an address does what it says: at the address
\* of its text, with a datum of its size, extended or not, or with the trap of the bus.
THEOREM MemoryMeans ==
    ASSUME NEW s, NEW k, Ready(s, k), s.op \in {"ldca", "ldcas"} \cup DOMAIN Loads \cup DOMAIN Stores
    PROVE  Means(s, k, Execute(k))
<1>1. MeansMemory(s, k, Execute(k))
  BY AddressMeans, LoadMeans, StoreMeans
<1> QED BY <1>1, StoredForm DEF Storing

-----------------------------------------------------------------------------

-----------------------------------------------------------------------------
(* The long immediate, which takes two rounds.                              *)

\* Both its words are in memory where the machine is about to fetch them.
StandsLong(s, k) ==
    LET a == Translate(k, k.pc)
        b == Translate(k, Plus(k.pc, {2}))
        bytes == Assembled(s, k).bytes
    IN  /\ Assembled(s, k).err = "none"
        /\ LG \notin k.cr[PSQ]
        /\ BusFault(a, 2, Readable) = "none" /\ ~InMmio(a)
        /\ BusFault(b, 2, Readable) = "none" /\ ~InMmio(b)
        /\ \A j \in 0..3 : /\ MemByte(k.mem, ToNat(a) + j) = bytes[j + 1]
                           /\ MemByte(k.mem, ToNat(b) + j) = bytes[j + 5]

LEMMA LongRow ==
    Opcodes["ldgis"].form = "lgisl" /\ Opcodes["ldgis"].op = 6 /\ Opcodes["ldgis"].fn = 0
BY DEF Opcodes, I

LEMMA LongName ==
    ASSUME NEW o \in DOMAIN Opcodes, Opcodes[o].form = "lgisl"
    PROVE  o = "ldgis"
BY SMTT(60) DEF Opcodes, I, LsRow, LssRow

\* A field of one of the halves is a field of the whole.
LEMMA Halved ==
    ASSUME NEW w, NEW half \in {0, 32}, NEW p \in {0, 8, 16, 24}
    PROVE  Get(Get(w, half, 32), p, 8) = Get(w, half + p, 8)
<1> DEFINE g == Get(w, half, 32)
<1>1. \A b \in Int : b \in g <=> b + half \in w /\ b \in 0..31
  BY DEF Get
<1>2. g \subseteq Int
  BY DEF Get
<1> HIDE DEF g
<1>3. ASSUME NEW b \in Int PROVE b \in Get(g, p, 8) <=> b + (half + p) \in w /\ b \in 0..7
  <2>1. b \in Get(g, p, 8) <=> b + p \in g /\ b \in 0..(8 - 1)
    <3>1. p \in Nat /\ 8 \in Nat
      OBVIOUS
    <3> QED BY <1>2, <1>3, <3>1, GetBits
  <2>2. b + p \in g <=> b + p + half \in w /\ b + p \in 0..31
    BY <1>1
  <2>3. b + p + half = b + (half + p) /\ (b \in 0..7 => b + p \in 0..31)
    OBVIOUS
  <2> QED BY <2>1, <2>2, <2>3
<1>4. ASSUME NEW b \in Int PROVE b \in Get(w, half + p, 8) <=> b + (half + p) \in w /\ b \in 0..7
  <2> DEFINE q == half + p
  <2>1. q \in Int
    OBVIOUS
  <2> HIDE DEF q
  <2>2. b \in Get(w, q, 8) <=> b + q \in w /\ b \in 0..7
    BY <2>1 DEF Get
  <2> QED BY <2>2 DEF q
<1>5. Get(g, p, 8) \subseteq Int /\ Get(w, half + p, 8) \subseteq Int
  BY DEF Get
<1>6. \A b \in Int : b \in Get(g, p, 8) <=> b \in Get(w, half + p, 8)
  BY <1>3, <1>4
<1>7. Get(g, p, 8) = Get(w, half + p, 8)
  BY <1>5, <1>6, SameBits
<1> QED BY <1>7 DEF g

\* What the machine finds in the two words.
LEMMA LongWord ==
    ASSUME NEW s, NEW k, NEW next, Proper(s, k), Row(s).form = "lgisl"
    PROVE  LET w == WordOf(s, next)
               first == Get(w, 32, 32)
               second == Get(w, 0, 32)
           IN  /\ first \subseteq 0..31 /\ second \subseteq 0..31
               /\ OPCODE(first) = 6
               /\ RA(first) = R(s, 1) /\ RA(second) = R(s, 1) /\ R(s, 1) \in 0..31
               /\ Left(IM_IMM(first), 41) \cup Left(LGISL2_IMM(second), 14) = Left(V(s, 2), 14)
<1> DEFINE w == WordOf(s, next)
           v(i) == Values(s, next)[i]
           os == Operands(s)
           mine == <<InRegister({23, 55}), Operand("num", 50, {<<0, 23, 0>>, <<23, 27, 28>>})>>
<1>1. Forms(Row(s)) = {mine} /\ Ordered(Row(s), s.args) = s.args
  BY DEF Forms, Ordered
<1>2. Assembled(s, k).err = "none" /\ s.op \in DOMAIN Opcodes
  BY DEF Proper
<1>3. os = mine /\ Len(os) = 2
  <2>1. Len(mine) = 2
    OBVIOUS
  <2> HIDE DEF mine
  <2>2. Operands(s) = mine
    BY <1>1, <1>2, OneForm
  <2> QED BY <2>1, <2>2
<1>4. os[1].kind = "reg" /\ os[2].kind = "num"
  BY <1>3 DEF InRegister, Operand
<1> HIDE DEF mine, os
<1>5. v(1) \subseteq 0..4 /\ ToNat(v(1)) = R(s, 1) /\ R(s, 1) \in 0..31
  <2>1. 1 \in 1..Len(Operands(s)) /\ Len(Operands(s)) \in Nat /\ Operands(s)[1].kind = "reg"
    BY <1>3, <1>4 DEF os
  <2> QED BY <1>1, <2>1, ValueTaken, ZenonT(60) DEF R
<1>6. v(2) = V(s, 2) /\ v(2) \in Word64
  <2>1. 2 \in 1..Len(Operands(s)) /\ Len(Operands(s)) \in Nat /\ Operands(s)[2].kind = "num"
    BY <1>3, <1>4 DEF os
  <2> QED BY <1>1, <2>1, ValueTaken DEF V
<1> DEFINE a == v(1)
           c == v(2)
           d == Row(s)
<1>7. s.op = "ldgis" /\ d.form = "lgisl" /\ d.op = 6 /\ d.fn = 0
  BY <1>2, LongName, LongRow DEF Row
<1>8. d.op \in Int /\ Num(d.fn) = {}
  BY <1>7, NumZero
<1>9. a \subseteq 0..4 /\ c \in Word64
  BY <1>5, <1>6
<1>10. w = Encoded(d, os, <<a, c>>)
  <2>1. w = Encoded(d, os, Values(s, next))
    BY DEF WordOf, os
  <2>2. Encoded(d, os, Values(s, next)) = Fixed(d) \cup Placed(a, os[1].fields) \cup Placed(c, os[2].fields)
    <3> HIDE DEF d
    <3> QED BY <1>3, EncodedIs
  <2> HIDE DEF a, c, d
  <2>3. <<a, c>>[1] = a /\ <<a, c>>[2] = c
    OBVIOUS
  <2>4. Encoded(d, os, <<a, c>>) = Fixed(d) \cup Placed(a, os[1].fields) \cup Placed(c, os[2].fields)
    <3> DEFINE vs == <<a, c>>
    <3>1. vs[1] = a /\ vs[2] = c
      BY <2>3
    <3> HIDE DEF vs
    <3>2. Encoded(d, os, vs) = Fixed(d) \cup Placed(vs[1], os[1].fields) \cup Placed(vs[2], os[2].fields)
      BY <1>3, EncodedIs
    <3> QED BY <3>1, <3>2 DEF vs
  <2> QED BY <2>1, <2>2, <2>4
<1> HIDE DEF w, a, c, d
<1> DEFINE first == Get(w, 32, 32)
           second == Get(w, 0, 32)
<1>11. /\ first \subseteq 0..31 /\ second \subseteq 0..31
       /\ Get(first, 28, 4) = Low(Num(d.op), 4)
       /\ Get(first, 23, 5) = a /\ Get(second, 23, 5) = a
       /\ Left(IM_IMM(first), 41) \cup Left(LGISL2_IMM(second), 14) = Left(c, 14)
  <2>1. PICK long : <<InRegister({23, 55}), long>> \in Forms(d) /\ LongCoded(d, long, a, c)
    <3>1. d.form = "lgisl"
      BY <1>7
    <3> QED BY <1>8, <1>9, <3>1, LongImmediateCoding, Zenon
  <2>2. <<InRegister({23, 55}), long>> = os
    BY <1>1, <1>3, <2>1 DEF d
  <2> HIDE DEF first, second
  <2>3. Encoded(d, <<InRegister({23, 55}), long>>, <<a, c>>) = w
    BY <1>10, <2>2
  <2> QED BY <2>1, <2>3, Zenon DEF first, second, LongCoded
<1> HIDE DEF first, second
<1>12. OPCODE(first) = 6
  <2> DEFINE y == Num(6)
  <2>1. 6 \in 0..31 /\ 6 < 16
    OBVIOUS
  <2>2. /\ y \subseteq 0..4
        /\ 6 = One(y, 0) + 2 * One(y, 1) + 4 * One(y, 2) + 8 * One(y, 3) + 16 * One(y, 4)
    BY <2>1, SmallBits
  <2>3. Get(first, 28, 4) = Low(y, 4)
    BY <1>7, <1>11
  <2> HIDE DEF y
  <2>4. 0 \notin y /\ 1 \in y /\ 2 \in y /\ 3 \notin y
    BY <2>2 DEF One
  <2>5. ASSUME NEW b \in 0..3 PROVE b + 28 \in first <=> b \in y
    <3>1. first \subseteq Int /\ 28 \in Nat /\ 4 \in Nat /\ b \in Int
      BY <1>11, <2>5
    <3>2. b \in Get(first, 28, 4) <=> b + 28 \in first /\ b \in 0..(4 - 1)
      BY <3>1, GetBits
    <3>3. b \in Low(y, 4) <=> b \in y
      BY DEF Low
    <3> QED BY <2>3, <3>2, <3>3
  <2>6. 28 \notin first /\ 29 \in first /\ 30 \in first /\ 31 \notin first
    <3>1. 0 + 28 = 28 /\ 1 + 28 = 29 /\ 2 + 28 = 30 /\ 3 + 28 = 31
      OBVIOUS
    <3> QED BY <2>4, <2>5, <3>1
  <2> QED BY <2>6 DEF OPCODE, Three, Bit
<1>13. RA(first) = R(s, 1) /\ RA(second) = R(s, 1)
  BY <1>5, <1>11 DEF RA, a
<1> QED BY <1>5, <1>6, <1>11, <1>12, <1>13 DEF first, second, w, c

-----------------------------------------------------------------------------

-----------------------------------------------------------------------------
LEMMA LongFetched ==
    ASSUME NEW s, NEW k, Proper(s, k), StandsLong(s, k), Row(s).form = "lgisl"
    PROVE  LET w == WordOf(s, After(s, k))
               f == FetchWord(k.mem, Translate(k, k.pc))
               g == FetchWord(k.mem, Translate(k, Plus(k.pc, {2})))
           IN  /\ f.e = "none" /\ f.v = Get(w, 32, 32)
               /\ g.e = "none" /\ g.v = Get(w, 0, 32)
<1> DEFINE w == WordOf(s, After(s, k))
           bytes == Assembled(s, k).bytes
           a == Translate(k, k.pc)
           b == Translate(k, Plus(k.pc, {2}))
           first == Get(w, 32, 32)
           second == Get(w, 0, 32)
<1>1. first \subseteq 0..31 /\ second \subseteq 0..31
  BY LongWord
<1>2. bytes = Emit(w, 8)
  <2>1. InstructionSize(Row(s)) = 8
    BY DEF InstructionSize
  <2> QED BY <2>1, AssembledIs DEF StandsLong
<1>3. /\ BusFault(a, 2, Readable) = "none" /\ ~InMmio(a)
      /\ BusFault(b, 2, Readable) = "none" /\ ~InMmio(b)
      /\ \A j \in 0..3 : /\ MemByte(k.mem, ToNat(a) + j) = bytes[j + 1]
                         /\ MemByte(k.mem, ToNat(b) + j) = bytes[j + 5]
  BY DEF StandsLong
<1> HIDE DEF w, a, b, bytes
<1>4. ASSUME NEW j \in 0..3
      PROVE  bytes[j + 1] = Get(first, 8 * (3 - j), 8) /\ bytes[j + 5] = Get(second, 8 * (3 - j), 8)
  <2> DEFINE p == 8 * (3 - j)
  <2>1. p \in {0, 8, 16, 24}
    BY <1>4
  <2>2. j + 1 \in 1..8 /\ j + 5 \in 1..8 /\ 8 * (8 - (j + 1)) = 32 + p /\ 8 * (8 - (j + 5)) = 0 + p
    BY <1>4
  <2> HIDE DEF p
  <2>3. bytes[j + 1] = Get(w, 32 + p, 8) /\ bytes[j + 5] = Get(w, 0 + p, 8)
    BY <1>2, <2>2 DEF Emit
  <2>4. Get(Get(w, 32, 32), p, 8) = Get(w, 32 + p, 8) /\ Get(Get(w, 0, 32), p, 8) = Get(w, 0 + p, 8)
    <3>1. 32 \in {0, 32} /\ 0 \in {0, 32}
      OBVIOUS
    <3>2. ASSUME NEW h \in {0, 32} PROVE Get(Get(w, h, 32), p, 8) = Get(w, h + p, 8)
      BY <2>1, <3>2, Halved
    <3> QED BY <3>1, <3>2
  <2> QED BY <2>3, <2>4 DEF p
<1> HIDE DEF first, second
<1>5. HoldsBytes(k.mem, ToNat(a), 4, first) /\ HoldsBytes(k.mem, ToNat(b), 4, second)
  <2>1. ASSUME NEW j \in 0..(4 - 1)
        PROVE  /\ MemByte(k.mem, ToNat(a) + j) = Get(first, 8 * (4 - 1 - j), 8)
               /\ MemByte(k.mem, ToNat(b) + j) = Get(second, 8 * (4 - 1 - j), 8)
    <3>1. j \in 0..3 /\ 4 - 1 - j = 3 - j
      BY <2>1
    <3> QED BY <1>3, <1>4, <3>1
  <2> QED BY <2>1 DEF HoldsBytes
<1>6. FetchWord(k.mem, a).e = "none" /\ FetchWord(k.mem, a).v = first
  BY <1>1, <1>3, <1>5, WordFetched
<1>7. FetchWord(k.mem, b).e = "none" /\ FetchWord(k.mem, b).v = second
  BY <1>1, <1>3, <1>5, WordFetched
<1> QED BY <1>6, <1>7 DEF a, b, first, second, w

\* Four, and four more.
LEMMA TwoWords ==
    ASSUME NEW p \in Word64
    PROVE  Plus(Plus(p, {2}), {2}) = Plus(p, Num(8)) /\ Plus(p, {2}) \in Word64
<1>1. Num(4) = {2}
  BY NumFour
<1>2. Num(8) = Plus({2}, {2})
  <2> DEFINE n == 4
  <2>1. n \in Int /\ n + n = 8
    OBVIOUS
  <2>2. Num(n) = {2}
    BY <1>1
  <2> HIDE DEF n
  <2>3. Num(n + n) = Plus(Num(n), Num(n))
    BY <2>1, WordArithmetic
  <2> QED BY <2>1, <2>2, <2>3
<1>3. {2} \in Word64
  BY DEF Word64, Bits
<1> QED BY <1>2, <1>3, PlusAssociates, PlusWord

\* A machine of which only these parts have changed.
Changed(k, regs, psq, p) ==
    [regs |-> regs, cr |-> [k.cr EXCEPT ![PSQ] = psq], pc |-> p, mem |-> k.mem, io |-> k.io]

LEMMA LongFirst ==
    ASSUME NEW s, NEW k, IsMachine(k), Proper(s, k), StandsLong(s, k), Row(s).form = "lgisl"
    PROVE  LET a == R(s, 1)
               h == Left(IM_IMM(Get(WordOf(s, After(s, k)), 32, 32)), 41)
           IN  Execute(k) = Changed(k, IF a = 0 THEN k.regs ELSE [k.regs EXCEPT ![a] = h],
                                    k.cr[PSQ] \cup {LG}, Plus(k.pc, {2}))
<1> DEFINE a == R(s, 1)
           x == Get(WordOf(s, After(s, k)), 32, 32)
           h == Left(IM_IMM(x), 41)
           f == FetchWord(k.mem, Translate(k, k.pc))
           p == Plus(k.pc, {2})
<1>1. f.e = "none" /\ f.v = x
  BY LongFetched
<1>2. OPCODE(x) = 6 /\ RA(x) = a /\ a \in 0..31
  BY LongWord
<1>3. LG \notin k.cr[PSQ]
  BY DEF StandsLong
<1> HIDE DEF a, x, f
<1>4. Execute(k) = IF f.e # "none" THEN Error(k, f.e, {}, Translate(k, k.pc))
                   ELSE IF LG \in k.cr[PSQ] THEN LongImmediate(At(k, p), f.v)
                   ELSE IF OPCODE(f.v) \in {8, 9, 13, 15} THEN Error(k, "EMLT", f.v, k.pc)
                   ELSE Operation(At(k, p), f.v)
  BY Zenon DEF Execute, f, At
<1> HIDE DEF p
<1>5. OPCODE(f.v) = 6 /\ OPCODE(f.v) \notin {8, 9, 13, 15}
  BY <1>1, <1>2
<1>6. Execute(k) = Operation(At(k, p), f.v)
  BY <1>1, <1>3, <1>4, <1>5, Zenon
<1>7. Operation(At(k, p), f.v) = Im6(At(k, p), f.v)
  BY <1>5 DEF Operation
<1>8. Execute(k) = Im6(At(k, p), x)
  BY <1>1, <1>6, <1>7
<1>9. At(k, p) = [regs |-> k.regs, cr |-> k.cr, pc |-> p, mem |-> k.mem, io |-> k.io]
  BY DEF At, IsMachine
<1> DEFINE rs == IF a = 0 THEN k.regs ELSE [k.regs EXCEPT ![a] = h]
<1>10. SetReg(At(k, p), a, h) = [regs |-> rs, cr |-> k.cr, pc |-> p, mem |-> k.mem, io |-> k.io]
  <2> HIDE DEF h
  <2>1. CASE a = 0
    BY <1>9, <2>1 DEF SetReg
  <2>2. CASE a # 0
    BY <1>9, <2>2 DEF SetReg
  <2> QED BY <2>1, <2>2
<1>11. Im6(At(k, p), x) = [SetReg(At(k, p), a, h) EXCEPT !.cr[PSQ] = @ \cup {LG}]
  BY <1>2 DEF Im6
<1> HIDE DEF rs
<1>12. ASSUME NEW u, u = [regs |-> rs, cr |-> k.cr, pc |-> p, mem |-> k.mem, io |-> k.io]
       PROVE  [u EXCEPT !.cr[PSQ] = @ \cup {LG}] = Changed(k, rs, k.cr[PSQ] \cup {LG}, p)
  BY <1>12 DEF Changed
<1> QED BY <1>8, <1>10, <1>11, <1>12 DEF rs, h, x, a, p

LEMMA LongSecond ==
    ASSUME NEW s, NEW k, IsMachine(k), Proper(s, k), StandsLong(s, k), Row(s).form = "lgisl",
           NEW rs, NEW k1, k1 = Changed(k, rs, k.cr[PSQ] \cup {LG}, Plus(k.pc, {2}))
    PROVE  LET a == R(s, 1)
               l == Left(LGISL2_IMM(Get(WordOf(s, After(s, k)), 0, 32)), 14)
               r == IF a = 0 THEN {} ELSE rs[a]
           IN  Execute(k1) = Changed(k, IF a = 0 THEN rs ELSE [rs EXCEPT ![a] = r \cup l],
                                     k.cr[PSQ], Plus(Plus(k.pc, {2}), {2}))
<1> DEFINE a == R(s, 1)
           x == Get(WordOf(s, After(s, k)), 0, 32)
           l == Left(LGISL2_IMM(x), 14)
           r == IF a = 0 THEN {} ELSE rs[a]
           p == Plus(k.pc, {2})
           q == Plus(p, {2})
           f == FetchWord(k.mem, Translate(k, p))
<1>1. f.e = "none" /\ f.v = x
  BY LongFetched
<1>2. RA(x) = a /\ a \in 0..31
  BY LongWord
<1>3. LG \notin k.cr[PSQ] /\ k.cr \in [0..47 -> Word64]
  BY DEF StandsLong, IsMachine
<1> HIDE DEF a, x
<1> DEFINE cr1 == [k.cr EXCEPT ![PSQ] = k.cr[PSQ] \cup {LG}]
<1>4. k1 = [regs |-> rs, cr |-> cr1, pc |-> p, mem |-> k.mem, io |-> k.io]
  BY DEF Changed
<1>5. cr1[PSQ] = k.cr[PSQ] \cup {LG} /\ \A i : i # PSQ => cr1[i] = k.cr[i]
  BY <1>3 DEF PSQ
<1>6. Translate(k1, k1.pc) = Translate(k, p)
  <2>1. k1.cr = cr1 /\ k1.pc = p
    BY <1>4
  <2>2. (cr1[PSQ] \cap PageGroup = {}) <=> (k.cr[PSQ] \cap PageGroup = {})
    BY <1>5 DEF PageGroup, LG
  <2> HIDE DEF cr1, p
  <2>3. ASSUME NEW n, n = ToNat(Get(p, 60, 4)) PROVE OB0 + n # PSQ
    <3>1. n \in Nat
      BY <2>3, DoublesNat DEF ToNat
    <3> QED BY <3>1 DEF OB0, PSQ
  <2>4. cr1[OB0 + ToNat(Get(p, 60, 4))] = k.cr[OB0 + ToNat(Get(p, 60, 4))]
    BY <1>5, <2>3
  <2> QED BY <2>1, <2>2, <2>4, Zenon DEF Translate
<1> HIDE DEF f
<1>7. FetchWord(k1.mem, Translate(k1, k1.pc)) = f
  <2>1. k1.mem = k.mem
    BY <1>4
  <2> QED BY <1>6, <2>1 DEF f
<1> DEFINE next == [k1 EXCEPT !.pc = Plus(@, {2})]
<1>8. next = [regs |-> rs, cr |-> cr1, pc |-> q, mem |-> k.mem, io |-> k.io]
  <2> HIDE DEF cr1, p
  <2> QED BY <1>4
<1>9. Execute(k1) = LongImmediate(next, x)
  <2>1. LG \in k1.cr[PSQ]
    <3>1. k1.cr = cr1
      BY <1>4
    <3> QED BY <1>5, <3>1
  <2> HIDE DEF cr1
  <2>2. Execute(k1) = IF f.e # "none" THEN Error(k1, f.e, {}, Translate(k1, k1.pc))
                      ELSE IF LG \in k1.cr[PSQ] THEN LongImmediate(next, f.v)
                      ELSE IF OPCODE(f.v) \in {8, 9, 13, 15} THEN Error(k1, "EMLT", f.v, k1.pc)
                      ELSE Operation(next, f.v)
    BY <1>7, Zenon DEF Execute
  <2> HIDE DEF next
  <2> QED BY <1>1, <2>1, <2>2, Zenon
<1>10. Reg(next, a) = r
  <2> HIDE DEF cr1, q
  <2> QED BY <1>8 DEF Reg
<1> DEFINE rs2 == IF a = 0 THEN rs ELSE [rs EXCEPT ![a] = r \cup l]
<1>11. SetReg(next, a, r \cup l) = [regs |-> rs2, cr |-> cr1, pc |-> q, mem |-> k.mem, io |-> k.io]
  <2> DEFINE u == r \cup l
  <2> HIDE DEF u, next, cr1, q
  <2>1. CASE a = 0
    BY <1>8, <2>1 DEF SetReg
  <2>2. CASE a # 0
    <3>1. SetReg(next, a, u) = [next EXCEPT !.regs[a] = u]
      BY <2>2 DEF SetReg
    <3>2. rs2 = [rs EXCEPT ![a] = u]
      BY <2>2 DEF u
    <3> HIDE DEF rs2
    <3>3. [next EXCEPT !.regs[a] = u] = [regs |-> rs2, cr |-> cr1, pc |-> q, mem |-> k.mem, io |-> k.io]
      BY <1>8, <3>2
    <3> QED BY <3>1, <3>3 DEF u
  <2> QED BY <2>1, <2>2 DEF u
<1>12. LongImmediate(next, x) = [SetReg(next, a, r \cup l) EXCEPT !.cr[PSQ] = @ \ {LG}]
  <2> HIDE DEF next, r
  <2> QED BY <1>2, <1>10 DEF LongImmediate
<1>13. [cr1 EXCEPT ![PSQ] = cr1[PSQ] \ {LG}] = [k.cr EXCEPT ![PSQ] = k.cr[PSQ]]
  <2>1. cr1[PSQ] \ {LG} = k.cr[PSQ]
    BY <1>3, <1>5
  <2> QED BY <1>3, <2>1
<1> HIDE DEF rs2, cr1, q, r
<1>14. ASSUME NEW u, u = [regs |-> rs2, cr |-> cr1, pc |-> q, mem |-> k.mem, io |-> k.io]
       PROVE  [u EXCEPT !.cr[PSQ] = @ \ {LG}] = Changed(k, rs2, k.cr[PSQ], q)
  <2>1. [u EXCEPT !.cr[PSQ] = @ \ {LG}]
          = [regs |-> rs2, cr |-> [cr1 EXCEPT ![PSQ] = cr1[PSQ] \ {LG}], pc |-> q, mem |-> k.mem, io |-> k.io]
    BY <1>14
  <2> QED BY <1>13, <2>1 DEF Changed
<1>15. Execute(k1) = Changed(k, rs2, k.cr[PSQ], q)
  <2> HIDE DEF next, l
  <2> QED BY <1>9, <1>11, <1>12, <1>14
<1> QED BY <1>15 DEF rs2, r, l, x, a, q

-----------------------------------------------------------------------------

-----------------------------------------------------------------------------
LEMMA LongSaid ==
    ASSUME NEW s, NEW before, NEW after, s.op = "ldgis", To(s, before, after, Left(V(s, 2), 14))
    PROVE  MeansArithmetic(s, before, after)
BY ZenonT(30) DEF MeansArithmetic

\* After the two rounds of lcca_run that a long immediate takes, the machine is as its
\* text says (asm/asminst.c: asm_lgisl; cpu/risc2.c: lcca64_im_6, and the second word in
\* cpu/risc1.c: lcca_run): both words make one value, LG is off again, nothing else changed.
THEOREM LongImmediateMeans ==
    ASSUME NEW s, NEW k, IsMachine(k), Proper(s, k), StandsLong(s, k), s.op = "ldgis"
    PROVE  Means(s, k, Execute(Execute(k)))
<1> DEFINE a == R(s, 1)
           x == Get(WordOf(s, After(s, k)), 32, 32)
           y == Get(WordOf(s, After(s, k)), 0, 32)
           h == Left(IM_IMM(x), 41)
           l == Left(LGISL2_IMM(y), 14)
           v == Left(V(s, 2), 14)
           rs == IF a = 0 THEN k.regs ELSE [k.regs EXCEPT ![a] = h]
           p == Plus(k.pc, {2})
           q == Plus(p, {2})
           k1 == Changed(k, rs, k.cr[PSQ] \cup {LG}, p)
           r == IF a = 0 THEN {} ELSE rs[a]
           rs2 == IF a = 0 THEN rs ELSE [rs EXCEPT ![a] = r \cup l]
           after == Execute(Execute(k))
<1>1. Row(s).form = "lgisl" /\ InstructionSize(Row(s)) = 8
  BY LongRow DEF Row, InstructionSize
<1>2. a \in 0..31 /\ h \cup l = v
  BY <1>1, LongWord
<1>3. Execute(k) = k1
  BY <1>1, LongFirst
<1>4. Execute(k1) = Changed(k, rs2, k.cr[PSQ], q)
  <2> HIDE DEF rs
  <2>1. ASSUME NEW k2, k2 = k1 PROVE Execute(k2) = Changed(k, rs2, k.cr[PSQ], q)
    BY <1>1, <2>1, LongSecond
  <2> QED BY <2>1
<1>5. q = After(s, k)
  <2>1. q = Plus(k.pc, Num(8))
    BY TwoWords DEF IsMachine
  <2> QED BY <1>1, <2>1 DEF After, Row
<1>6. k.regs \in [1..31 -> Word64] /\ k.cr \in [0..47 -> Word64]
  BY DEF IsMachine
<1> HIDE DEF a, h, l, v, p, q
<1>7. rs2 = IF a = 0 THEN k.regs ELSE [k.regs EXCEPT ![a] = v]
  <2>1. CASE a = 0
    BY <2>1
  <2>2. CASE a # 0
    <3>1. a \in 1..31
      BY <1>2, <2>2
    <3>2. r = h
      BY <1>6, <2>2, <3>1
    <3>3. [[k.regs EXCEPT ![a] = h] EXCEPT ![a] = v] = [k.regs EXCEPT ![a] = v]
      BY <1>6, <3>1
    <3> QED BY <1>2, <2>2, <3>2, <3>3
  <2> QED BY <2>1, <2>2
<1>8. [k.cr EXCEPT ![PSQ] = k.cr[PSQ]] = k.cr
  BY <1>6
<1> HIDE DEF rs2, rs, r
<1>9. after = [regs |-> rs2, cr |-> k.cr, pc |-> q, mem |-> k.mem, io |-> k.io]
  BY <1>3, <1>4, <1>8 DEF Changed
<1>10. SetReg(k, a, v) = [regs |-> rs2, cr |-> k.cr, pc |-> k.pc, mem |-> k.mem, io |-> k.io]
  <2>1. CASE a = 0
    <3>1. k = [regs |-> k.regs, cr |-> k.cr, pc |-> k.pc, mem |-> k.mem, io |-> k.io]
      BY DEF IsMachine
    <3> QED BY <1>7, <2>1, <3>1 DEF SetReg
  <2>2. CASE a # 0
    <3>1. ASSUME NEW u, u = [regs |-> k.regs, cr |-> k.cr, pc |-> k.pc, mem |-> k.mem, io |-> k.io]
          PROVE  [u EXCEPT !.regs[a] = v]
                   = [regs |-> rs2, cr |-> k.cr, pc |-> k.pc, mem |-> k.mem, io |-> k.io]
      BY <1>7, <2>2, <3>1
    <3>2. k = [regs |-> k.regs, cr |-> k.cr, pc |-> k.pc, mem |-> k.mem, io |-> k.io]
      BY DEF IsMachine
    <3> QED BY <2>2, <3>1, <3>2 DEF SetReg
  <2> QED BY <2>1, <2>2
<1> HIDE DEF after
<1>11. Goes(SetReg(k, a, v), after, q)
  <2>1. ASSUME NEW u, u = [regs |-> rs2, cr |-> k.cr, pc |-> k.pc, mem |-> k.mem, io |-> k.io]
        PROVE  Goes(u, after, q)
    BY <1>9, <2>1 DEF Goes
  <2> QED BY <1>10, <2>1
<1>12. To(s, k, after, v)
  BY <1>5, <1>11 DEF To, a
<1>13. MeansArithmetic(s, k, after)
  BY <1>12, LongSaid DEF v
<1> QED BY <1>1, <1>13, MeansIs DEF after

-----------------------------------------------------------------------------
(* A machine stays a machine: everything that instructions make is a word.  *)
LEMMA Naturals0 ==
    ASSUME NEW x
    PROVE  ToNat(x) \in Nat /\ ToInt(x) \in Int
<1>1. \A y : ToNat(y) \in Nat
  BY DoublesNat DEF ToNat
<1> QED BY <1>1 DEF ToInt

\* A word shifted by a distance is a word (cpu/risc2.c: << and >>).
LEMMA Shifted ==
    ASSUME NEW x \in Word64, NEW k \in Nat
    PROVE  /\ Left(x, k) \in Word64 /\ (k < 64 => Right(x, k) \in Word64)
           /\ Shl(x, k) \in Word64 /\ Shr(x, k) \in Word64 /\ Sar(x, k) \in Word64
<1>1. Left(x, k) \in Word64
  BY DEF Left, Word64
<1>2. k < 64 => Right(x, k) \in Word64
  BY DEF Right, Word64, Bits
<1>3. k < 64 => (64 - k)..63 \subseteq Bits
  BY DEF Bits
<1>4. {} \in Word64
  BY DEF Word64
<1> DEFINE l == Left(x, k)
           r == Right(x, k)
           fill == (64 - k)..63
           s == r \cup IF Negative(x) THEN fill ELSE {}
<1> HIDE DEF l, r, fill
<1>5. k < 64 => s \in Word64
  BY <1>2, <1>3 DEF Word64, r, fill
<1> HIDE DEF s
<1>6. Shl(x, k) = Amount(x, k, l) /\ Shr(x, k) = Amount(x, k, r) /\ Sar(x, k) = Amount(x, k, s)
  BY DEF Shl, Shr, Sar, l, r, s, fill
<1>7. l \in Word64 /\ (k < 64 => r \in Word64)
  BY <1>1, <1>2 DEF l, r
<1>8. Shl(x, k) \in Word64 /\ Shr(x, k) \in Word64 /\ Sar(x, k) \in Word64
  BY <1>4, <1>5, <1>6, <1>7 DEF Amount
<1> QED BY <1>1, <1>2, <1>8

\* A word shifted in the direction of the sign of its distance is a word.
LEMMA ShiftedEither ==
    ASSUME NEW x \in Word64, NEW k \in Int
    PROVE  Sh(x, k) \in Word64 /\ Sha(x, k) \in Word64
<1>1. CASE k < 0
  <2>1. -k \in Nat
    BY <1>1
  <2>2. Sh(x, k) = Shr(x, -k) /\ Sha(x, k) = Sar(x, -k)
    BY <1>1 DEF Sh, Sha
  <2> QED BY <2>1, <2>2, Shifted
<1>2. CASE ~(k < 0)
  <2>1. k \in Nat
    BY <1>2
  <2>2. Sh(x, k) = Shl(x, k) /\ Sha(x, k) = Shl(x, k)
    BY <1>2 DEF Sh, Sha
  <2> QED BY <2>1, <2>2, Shifted
<1> QED BY <1>1, <1>2

\* A field extended by its sign is a word.
LEMMA Extended ==
    ASSUME NEW x \in Word64, NEW n \in Nat
    PROVE  Ext(x, n) \in Word64
<1>1. n..63 \subseteq Bits
  BY DEF Bits
<1> QED BY <1>1 DEF Ext, Word64

\* The parts of an instruction word.
LEMMA InstructionParts ==
    ASSUME NEW x, x \subseteq 0..31
    PROVE  /\ RA(x) \in 0..31 /\ RB(x) \in 0..31 /\ RC(x) \in 0..31
           /\ FN(x) \in 0..7 /\ OPCODE(x) \in 0..15
           /\ RR_IMM(x) \in Word64 /\ IM_IMM(x) \in Word64 /\ BR_DISP(x) \in Word64
           /\ LS_DISP(x) \in Word64 /\ LSS_DISP(x) \in Word64 /\ LGISL2_IMM(x) \in Word64
           /\ x \in Word64
<1>1. ASSUME NEW p \in {0, 5, 23} PROVE Get(x, p, 5) \subseteq 0..4
  BY DEF Get
<1>2. RA(x) \in 0..31 /\ RB(x) \in 0..31 /\ RC(x) \in 0..31
  BY <1>1, FiveBits DEF RA, RB, RC
<1>3. FN(x) \in 0..7 /\ OPCODE(x) \in 0..15
  BY DEF FN, OPCODE, Three, Bit
<1>4. ASSUME NEW p \in Nat, NEW n \in 1..32 PROVE Ext(Get(x, p, n), n) \in Word64
  <2>1. Get(x, p, n) \in Word64
    BY DEF Get, Word64, Bits
  <2> QED BY <2>1, Extended
<1>5. /\ RR_IMM(x) \in Word64 /\ IM_IMM(x) \in Word64 /\ BR_DISP(x) \in Word64
      /\ LS_DISP(x) \in Word64 /\ LSS_DISP(x) \in Word64
  <2>1. /\ 10 \in Nat /\ 10 \in 1..32 /\ 0 \in Nat /\ 23 \in 1..32 /\ 20 \in 1..32
        /\ 5 \in Nat /\ 15 \in 1..32 /\ 12 \in 1..32
    OBVIOUS
  <2>2. /\ Ext(Get(x, 10, 10), 10) \in Word64 /\ Ext(Get(x, 0, 23), 23) \in Word64
        /\ Ext(Get(x, 0, 20), 20) \in Word64 /\ Ext(Get(x, 5, 15), 15) \in Word64
        /\ Ext(Get(x, 5, 12), 12) \in Word64
    BY <1>4, <2>1, Zenon
  <2> QED BY <2>2, Zenon DEF RR_IMM, IM_IMM, BR_DISP, LS_DISP, LSS_DISP
<1>6. LGISL2_IMM(x) \in Word64
  BY DEF LGISL2_IMM, Word64, Bits
<1>7. x \in Word64
  BY DEF Word64, Bits
<1> QED BY <1>2, <1>3, <1>5, <1>6, <1>7

\* Machines made of parts.
LEMMA MachineOf ==
    ASSUME NEW u, NEW rs \in [1..31 -> Word64], NEW cr \in [0..47 -> Word64], NEW p \in Word64,
           NEW mem, NEW io, u = [regs |-> rs, cr |-> cr, pc |-> p, mem |-> mem, io |-> io]
    PROVE  IsMachine(u)
BY DEF IsMachine

\* A register that is read is a word, register 0 too.
LEMMA RegWord ==
    ASSUME NEW k, IsMachine(k), NEW r \in 0..31
    PROVE  Reg(k, r) \in Word64
<1>1. {} \in Word64
  BY DEF Word64
<1> QED BY <1>1 DEF Reg, IsMachine

LEMMA MachineIs ==
    ASSUME NEW k, IsMachine(k)
    PROVE  k.regs \in [1..31 -> Word64] /\ k.cr \in [0..47 -> Word64] /\ k.pc \in Word64
BY DEF IsMachine

\* Changed parts leave a machine, if they are words themselves.
LEMMA RegsChanged ==
    ASSUME NEW k, IsMachine(k), NEW rs \in [1..31 -> Word64]
    PROVE  IsMachine([k EXCEPT !.regs = rs])
<1>1. ASSUME NEW u, u = [regs |-> k.regs, cr |-> k.cr, pc |-> k.pc, mem |-> k.mem, io |-> k.io]
      PROVE  [u EXCEPT !.regs = rs] = [regs |-> rs, cr |-> k.cr, pc |-> k.pc, mem |-> k.mem, io |-> k.io]
  BY <1>1
<1>2. k = [regs |-> k.regs, cr |-> k.cr, pc |-> k.pc, mem |-> k.mem, io |-> k.io]
  BY DEF IsMachine
<1>3. [k EXCEPT !.regs = rs] = [regs |-> rs, cr |-> k.cr, pc |-> k.pc, mem |-> k.mem, io |-> k.io]
  BY <1>1, <1>2, Zenon
<1>4. ASSUME NEW u, u = [regs |-> rs, cr |-> k.cr, pc |-> k.pc, mem |-> k.mem, io |-> k.io] PROVE IsMachine(u)
  BY <1>4, MachineIs, MachineOf
<1> QED BY <1>3, <1>4, Zenon

LEMMA CrsChanged ==
    ASSUME NEW k, IsMachine(k), NEW cr \in [0..47 -> Word64]
    PROVE  IsMachine([k EXCEPT !.cr = cr])
<1>1. ASSUME NEW u, u = [regs |-> k.regs, cr |-> k.cr, pc |-> k.pc, mem |-> k.mem, io |-> k.io]
      PROVE  [u EXCEPT !.cr = cr] = [regs |-> k.regs, cr |-> cr, pc |-> k.pc, mem |-> k.mem, io |-> k.io]
  BY <1>1
<1>2. k = [regs |-> k.regs, cr |-> k.cr, pc |-> k.pc, mem |-> k.mem, io |-> k.io]
  BY DEF IsMachine
<1>3. [k EXCEPT !.cr = cr] = [regs |-> k.regs, cr |-> cr, pc |-> k.pc, mem |-> k.mem, io |-> k.io]
  BY <1>1, <1>2, Zenon
<1>4. ASSUME NEW u, u = [regs |-> k.regs, cr |-> cr, pc |-> k.pc, mem |-> k.mem, io |-> k.io] PROVE IsMachine(u)
  BY <1>4, MachineIs, MachineOf
<1> QED BY <1>3, <1>4, Zenon

LEMMA PcChanged ==
    ASSUME NEW k, IsMachine(k), NEW p \in Word64
    PROVE  IsMachine([k EXCEPT !.pc = p])
<1>1. ASSUME NEW u, u = [regs |-> k.regs, cr |-> k.cr, pc |-> k.pc, mem |-> k.mem, io |-> k.io]
      PROVE  [u EXCEPT !.pc = p] = [regs |-> k.regs, cr |-> k.cr, pc |-> p, mem |-> k.mem, io |-> k.io]
  BY <1>1
<1>2. k = [regs |-> k.regs, cr |-> k.cr, pc |-> k.pc, mem |-> k.mem, io |-> k.io]
  BY DEF IsMachine
<1>3. [k EXCEPT !.pc = p] = [regs |-> k.regs, cr |-> k.cr, pc |-> p, mem |-> k.mem, io |-> k.io]
  BY <1>1, <1>2, Zenon
<1>4. ASSUME NEW u, u = [regs |-> k.regs, cr |-> k.cr, pc |-> p, mem |-> k.mem, io |-> k.io] PROVE IsMachine(u)
  BY <1>4, MachineIs, MachineOf
<1> QED BY <1>3, <1>4, Zenon

\* The entry of an interrupt and the return from it are changes of several parts.
LEMMA Entered ==
    ASSUME NEW k, IsMachine(k), NEW rs \in [1..31 -> Word64], NEW cr \in [0..47 -> Word64],
           NEW p \in Word64
    PROVE  IsMachine([k EXCEPT !.regs = rs, !.pc = p, !.cr = cr])
<1> DEFINE u == [k EXCEPT !.regs = rs]
           v == [u EXCEPT !.pc = p]
           w == [v EXCEPT !.cr = cr]
<1>1. IsMachine(u)
  BY RegsChanged
<1> HIDE DEF u
<1>2. IsMachine(v)
  BY <1>1, PcChanged
<1> HIDE DEF v
<1>3. IsMachine(w)
  BY <1>2, CrsChanged
<1>4. w = [k EXCEPT !.regs = rs, !.pc = p, !.cr = cr]
  BY DEF u, v
<1> QED BY <1>3, <1>4, Zenon

LEMMA Returned ==
    ASSUME NEW k, IsMachine(k), NEW rs \in [1..31 -> Word64], NEW cr \in [0..47 -> Word64],
           NEW p \in Word64
    PROVE  IsMachine([k EXCEPT !.pc = p, !.cr = cr, !.regs = rs])
<1> DEFINE u == [k EXCEPT !.pc = p]
           v == [u EXCEPT !.cr = cr]
           w == [v EXCEPT !.regs = rs]
<1>1. IsMachine(u)
  BY PcChanged
<1> HIDE DEF u
<1>2. IsMachine(v)
  BY <1>1, CrsChanged
<1> HIDE DEF v
<1>3. IsMachine(w)
  BY <1>2, RegsChanged
<1>4. w = [k EXCEPT !.pc = p, !.cr = cr, !.regs = rs]
  BY DEF u, v
<1> QED BY <1>3, <1>4, Zenon

LEMMA MemsChanged ==
    ASSUME NEW k, IsMachine(k), NEW mem
    PROVE  IsMachine([k EXCEPT !.mem = mem])
<1>1. ASSUME NEW u, u = [regs |-> k.regs, cr |-> k.cr, pc |-> k.pc, mem |-> k.mem, io |-> k.io]
      PROVE  [u EXCEPT !.mem = mem] = [regs |-> k.regs, cr |-> k.cr, pc |-> k.pc, mem |-> mem, io |-> k.io]
  BY <1>1
<1>2. k = [regs |-> k.regs, cr |-> k.cr, pc |-> k.pc, mem |-> k.mem, io |-> k.io]
  BY DEF IsMachine
<1>3. [k EXCEPT !.mem = mem] = [regs |-> k.regs, cr |-> k.cr, pc |-> k.pc, mem |-> mem, io |-> k.io]
  BY <1>1, <1>2, Zenon
<1>4. ASSUME NEW u, u = [regs |-> k.regs, cr |-> k.cr, pc |-> k.pc, mem |-> mem, io |-> k.io] PROVE IsMachine(u)
  BY <1>4, MachineIs, MachineOf
<1> QED BY <1>3, <1>4, Zenon

LEMMA CallsChanged ==
    ASSUME NEW k, IsMachine(k), NEW io
    PROVE  IsMachine([k EXCEPT !.io = io])
<1>1. ASSUME NEW u, u = [regs |-> k.regs, cr |-> k.cr, pc |-> k.pc, mem |-> k.mem, io |-> k.io]
      PROVE  [u EXCEPT !.io = io] = [regs |-> k.regs, cr |-> k.cr, pc |-> k.pc, mem |-> k.mem, io |-> io]
  BY <1>1
<1>2. k = [regs |-> k.regs, cr |-> k.cr, pc |-> k.pc, mem |-> k.mem, io |-> k.io]
  BY DEF IsMachine
<1>3. [k EXCEPT !.io = io] = [regs |-> k.regs, cr |-> k.cr, pc |-> k.pc, mem |-> k.mem, io |-> io]
  BY <1>1, <1>2, Zenon
<1>4. ASSUME NEW u, u = [regs |-> k.regs, cr |-> k.cr, pc |-> k.pc, mem |-> k.mem, io |-> io] PROVE IsMachine(u)
  BY <1>4, MachineIs, MachineOf
<1> QED BY <1>3, <1>4, Zenon

LEMMA MemoryChanged ==
    ASSUME NEW k, IsMachine(k), NEW mem, NEW io
    PROVE  IsMachine([k EXCEPT !.mem = mem, !.io = io])
<1> DEFINE u == [k EXCEPT !.mem = mem]
           v == [u EXCEPT !.io = io]
<1>1. IsMachine(u)
  BY MemsChanged
<1> HIDE DEF u
<1>2. IsMachine(v)
  BY <1>1, CallsChanged
<1>3. v = [k EXCEPT !.mem = mem, !.io = io]
  BY DEF u
<1> QED BY <1>2, <1>3, Zenon

LEMMA CrChanged ==
    ASSUME NEW k, IsMachine(k), NEW d \in 0..47, NEW v \in Word64
    PROVE  IsMachine([k EXCEPT !.cr[d] = v])
<1> DEFINE cr == [k.cr EXCEPT ![d] = v]
<1>1. cr \in [0..47 -> Word64]
  BY MachineIs
<1> HIDE DEF cr
<1>2. IsMachine([k EXCEPT !.cr = cr])
  BY <1>1, CrsChanged
<1> QED BY <1>2 DEF cr

LEMMA RegChanged ==
    ASSUME NEW k, IsMachine(k), NEW r \in 1..31, NEW v \in Word64
    PROVE  IsMachine([k EXCEPT !.regs[r] = v])
<1> DEFINE rs == [k.regs EXCEPT ![r] = v]
<1>1. rs \in [1..31 -> Word64]
  BY MachineIs
<1> HIDE DEF rs
<1>2. IsMachine([k EXCEPT !.regs = rs])
  BY <1>1, RegsChanged
<1> QED BY <1>2 DEF rs

\* An operation that sets a register to a word leaves a machine.
LEMMA SetRegMachine ==
    ASSUME NEW k, IsMachine(k), NEW r \in 0..31, NEW v \in Word64
    PROVE  IsMachine(SetReg(k, r, v))
<1>1. CASE r = 0
  BY <1>1 DEF SetReg
<1>2. CASE r # 0
  <2>1. r \in 1..31
    BY <1>2
  <2>2. SetReg(k, r, v) = [k EXCEPT !.regs[r] = v]
    BY <1>2 DEF SetReg
  <2> QED BY <2>1, <2>2, RegChanged
<1> QED BY <1>1, <1>2

\* Entries and returns.
LEMMA InterruptMachine ==
    ASSUME NEW k, IsMachine(k), NEW which, NEW fi \in Word64, NEW fa \in Word64
    PROVE  IsMachine(Interrupt(k, which, fi, fa))
<1> DEFINE rs == IF AE \notin k.cr[PSQ] THEN k.regs
                 ELSE [k.regs EXCEPT ![X8] = k.regs[SP], ![X9] = k.regs[LR], ![SP] = k.cr[ASP]]
           p == Plus(k.cr[IA], Num(64 * which))
           cr == [k.cr EXCEPT ![APC] = k.pc, ![APSQ] = k.cr[PSQ], ![PSQ] = k.cr[PSQ] \ EntryClears,
                              ![FI] = fi, ![FA] = fa]
<1>1. k.regs \in [1..31 -> Word64] /\ k.cr \in [0..47 -> Word64] /\ k.pc \in Word64
  BY DEF IsMachine
<1>2. \A r \in 1..31 : k.regs[r] \in Word64
  BY <1>1
<1>3. \A r \in 0..47 : k.cr[r] \in Word64
  BY <1>1
<1>4. rs \in [1..31 -> Word64]
  <2>1. k.cr[ASP] \in Word64
    BY <1>3 DEF ASP
  <2>2. k.regs[SP] \in Word64 /\ k.regs[LR] \in Word64
    BY <1>2 DEF SP, LR
  <2> QED BY <1>1, <2>1, <2>2
<1>5. p \in Word64
  BY PlusWord
<1>6. cr \in [0..47 -> Word64]
  <2>1. k.cr[PSQ] \in Word64 /\ k.cr[PSQ] \ EntryClears \in Word64
    <3>1. k.cr[PSQ] \in Word64
      BY <1>3 DEF PSQ
    <3> QED BY <3>1 DEF Word64
  <2> QED BY <1>1, <2>1
<1>7. Interrupt(k, which, fi, fa) = [k EXCEPT !.regs = rs, !.pc = p, !.cr = cr]
  BY DEF Interrupt
<1> HIDE DEF rs, p, cr
<1>8. IsMachine([k EXCEPT !.regs = rs, !.pc = p, !.cr = cr])
  BY <1>4, <1>5, <1>6, Entered
<1> QED BY <1>7, <1>8, Zenon

\* An error leaves a machine (cpu/risc2.c: error).
LEMMA ErrorMachine ==
    ASSUME NEW k, IsMachine(k), NEW e, NEW fi \in Word64, NEW fa \in Word64
    PROVE  IsMachine(Error(k, e, fi, fa))
<1>1. {} \in Word64
  BY DEF Word64
<1>2. \E gi \in {{}, fi}, ga \in {{}, fa} : Error(k, e, fi, fa) = Interrupt(k, ErrorNumber(e), gi, ga)
  BY Zenon DEF Error
<1> QED BY <1>1, <1>2, InterruptMachine

\* The return from an interrupt leaves a machine (cpu/risc2.c: restore).
LEMMA RestoreMachine ==
    ASSUME NEW k, IsMachine(k), NEW d
    PROVE  IsMachine(Restore(k, d))
<1> DEFINE swap == AE \in k.cr[APSQ]
           p == Plus(k.cr[APC], d)
           cr == [k.cr EXCEPT ![PSQ] = k.cr[APSQ], ![ASP] = IF swap THEN k.regs[SP] ELSE k.cr[ASP]]
           rs == IF swap THEN [k.regs EXCEPT ![SP] = k.regs[X8], ![LR] = k.regs[X9]] ELSE k.regs
<1>1. k.regs \in [1..31 -> Word64] /\ k.cr \in [0..47 -> Word64]
  BY DEF IsMachine
<1>2. \A r \in 1..31 : k.regs[r] \in Word64
  BY <1>1
<1>3. \A r \in 0..47 : k.cr[r] \in Word64
  BY <1>1
<1>4. k.cr[APSQ] \in Word64 /\ k.cr[ASP] \in Word64
  BY <1>3 DEF APSQ, ASP
<1>5. k.regs[SP] \in Word64 /\ k.regs[X8] \in Word64 /\ k.regs[X9] \in Word64
  BY <1>2 DEF SP, X8, X9
<1>6. p \in Word64
  BY PlusWord
<1>7. cr \in [0..47 -> Word64]
  BY <1>1, <1>4, <1>5
<1>8. rs \in [1..31 -> Word64]
  BY <1>1, <1>5
<1>9. Restore(k, d) = [k EXCEPT !.pc = p, !.cr = cr, !.regs = rs]
  BY DEF Restore
<1> HIDE DEF rs, p, cr
<1>10. IsMachine([k EXCEPT !.pc = p, !.cr = cr, !.regs = rs])
  BY <1>6, <1>7, <1>8, Returned
<1> QED BY <1>9, <1>10, Zenon

-----------------------------------------------------------------------------
\* The instructions of registers and immediates.
LEMMA Rr0Machine ==
    ASSUME NEW k, IsMachine(k), NEW x, x \subseteq 0..31
    PROVE  IsMachine(Rr0(k, x))
<1> DEFINE b == Reg(k, RB(x))
           c == Reg(k, RC(x))
           d == RR_IMM(x)
           s == Plus(c, d)
           fn == FN(x)
           result == CASE fn = 0 -> Plus(b, s)
                       [] fn = 1 -> Minus(b, s)
                       [] fn = 2 -> b \cap (c \cup d)
                       [] fn = 3 -> b \cup c \cup d
                       [] fn = 4 -> Xor(b, Xor(c, d))
                       [] fn = 5 -> Sh(b, ToInt(s))
                       [] fn = 6 -> Sha(b, ToInt(s))
                       [] fn = 7 -> IF Above(b, s) THEN {0} ELSE {}
<1>1. /\ RA(x) \in 0..31 /\ RB(x) \in 0..31 /\ RC(x) \in 0..31 /\ fn \in 0..7 /\ d \in Word64
  BY InstructionParts
<1>2. b \in Word64 /\ c \in Word64
  BY <1>1, RegWord
<1>3. Plus(b, s) \in Word64 /\ Minus(b, s) \in Word64
  BY PlusWord DEF Minus
<1>4. ToInt(s) \in Int
  BY Naturals0
<1>5. {} \in Word64 /\ {0} \in Word64
  BY DEF Word64, Bits
<1>6. Rr0(k, x) = IF OC \in k.cr[PSQ] /\ fn < 2 /\ Overflows(b, IF fn = 1 THEN Neg(s) ELSE s)
                    THEN Error(k, "OVRF", {}, {})
                    ELSE SetReg(k, RA(x), result)
  BY Zenon DEF Rr0
<1> HIDE DEF b, c, d, s, fn
<1>7. b \cap (c \cup d) \in Word64 /\ b \cup c \cup d \in Word64 /\ Xor(b, Xor(c, d)) \in Word64
  BY <1>1, <1>2 DEF Word64, Xor
<1>8. Sh(b, ToInt(s)) \in Word64 /\ Sha(b, ToInt(s)) \in Word64
  BY <1>2, <1>4, ShiftedEither
<1>9. result \in Word64
  <2>1. fn \in {0, 1, 2, 3, 4, 5, 6, 7}
    BY <1>1
  <2> QED BY <2>1, <1>3, <1>5, <1>7, <1>8
<1> HIDE DEF result
<1>10. IsMachine(Error(k, "OVRF", {}, {}))
  BY <1>5, ErrorMachine
<1>11. IsMachine(SetReg(k, RA(x), result))
  BY <1>1, <1>9, SetRegMachine
<1> QED BY <1>6, <1>10, <1>11, Zenon

\* Each form of instruction leaves a machine, whatever its fields hold.
LEMMA RrCMachine ==
    ASSUME NEW k, IsMachine(k), NEW x, x \subseteq 0..31
    PROVE  IsMachine(RrC(k, x))
<1>1. /\ RA(x) \in 0..31 /\ RB(x) \in 0..31 /\ RC(x) \in 0..31 /\ x \in Word64
  BY InstructionParts
<1>2. {} \in Word64
  BY DEF Word64
<1>3. IsMachine(Error(k, "EMLT", x, {}))
  BY <1>1, <1>2, ErrorMachine
<1>4. IsMachine(SetReg(k, RA(x), Reg(k, RC(x))))
  BY <1>1, RegWord, SetRegMachine
<1>5. RrC(k, x) \in {Error(k, "EMLT", x, {}), SetReg(k, RA(x), Reg(k, RC(x))), k}
  BY ZenonT(30) DEF RrC
<1> QED BY <1>3, <1>4, <1>5

LEMMA ImMachine ==
    ASSUME NEW k, IsMachine(k), NEW x, x \subseteq 0..31
    PROVE  IsMachine(Im4(k, x)) /\ IsMachine(Im5(k, x)) /\ IsMachine(Im6(k, x))
<1> DEFINE v(n) == Left(IM_IMM(x), n)
           u == SetReg(k, RA(x), v(41))
           psq == u.cr[PSQ] \cup {LG}
<1>1. RA(x) \in 0..31 /\ IM_IMM(x) \in Word64
  BY InstructionParts
<1>2. v(9) \in Word64 /\ v(41) \in Word64
  BY <1>1, Shifted
<1>3. IsMachine(Im4(k, x)) /\ IsMachine(Im5(k, x)) /\ IsMachine(u)
  BY <1>1, <1>2, SetRegMachine DEF Im4, Im5
<1>4. Im6(k, x) = [u EXCEPT !.cr[PSQ] = psq]
  BY DEF Im6
<1> HIDE DEF u
<1>5. PSQ \in 0..47 /\ psq \in Word64
  <2>1. u.cr[PSQ] \in Word64
    BY <1>3, MachineIs DEF PSQ
  <2> QED BY <2>1 DEF PSQ, Word64, Bits, LG
<1> HIDE DEF psq
<1>6. IsMachine([u EXCEPT !.cr[PSQ] = psq])
  BY <1>3, <1>5, CrChanged
<1> QED BY <1>3, <1>4, <1>6

LEMMA Br1Machine ==
    ASSUME NEW k, IsMachine(k), NEW x, x \subseteq 0..31
    PROVE  IsMachine(Br1(k, x))
<1> DEFINE a == Reg(k, RA(x))
           d == Left(BR_DISP(x), 2)
           linked == IF FN(x) \in {2, 3} THEN SetReg(k, LR, k.pc) ELSE k
           target == CASE FN(x) \in {0, 2} -> Plus(k.pc, Plus(a, d))
                       [] FN(x) \in {1, 3} -> Plus(a, d)
                       [] OTHER -> Plus(k.pc, d)
<1>1. LR \in 0..31 /\ k.pc \in Word64
  BY MachineIs DEF LR
<1>2. IsMachine(linked)
  BY <1>1, SetRegMachine
<1>3. target \in Word64
  BY PlusWord
<1>4. Br1(k, x) \in {[linked EXCEPT !.pc = target], k}
  BY ZenonT(30) DEF Br1
<1> HIDE DEF linked, target
<1>5. IsMachine([linked EXCEPT !.pc = target])
  BY <1>2, <1>3, PcChanged
<1> QED BY <1>4, <1>5
-----------------------------------------------------------------------------
\* Loads and stores: the address is a word, what the bus reads is one.
LEMMA AddressWord ==
    ASSUME NEW k, IsMachine(k), NEW x, x \subseteq 0..31, NEW j, NEW p \in Word64
    PROVE  StorageAddress(k, x, j) \in Word64 /\ Translate(k, p) \in Word64
<1>1. ASSUME NEW seg, NEW base, NEW disp PROVE Selector(seg, base, disp) \in Word64
  <2>1. Plus(disp, base) \cap 0..59 \in Word64
    BY PlusWord DEF Word64
  <2>2. Field(seg, 60, 4) \in Word64
    BY DEF Field, Word64, Bits
  <2> QED BY <2>1, <2>2 DEF Selector, Word64
<1>2. StorageAddress(k, x, j) \in Word64
  BY <1>1, PlusWord DEF StorageAddress
<1>3. Translate(k, p) \in Word64
  BY PlusWord DEF Translate
<1> QED BY <1>2, <1>3

\* What the bus reads is a word.
LEMMA ReadWord ==
    ASSUME NEW mem, NEW a, NEW k
    PROVE  BusRead(mem, a, k).v \in Word64
<1>1. ASSUME NEW n, NEW size PROVE MemRead(mem, n, size) \in Word64
  BY DEF MemRead, Left, Word64
<1>2. {} \in Word64
  BY DEF Word64
<1> QED BY <1>1, <1>2, UnitAssumption DEF BusRead, ReadValue

LEMMA AccessesAre ==
    ASSUME NEW x, x \subseteq 0..31, OPCODE(x) \in {2, 10} \/ FN(x) < 4
    PROVE  Storage(x)[1] \in {"load", "store", "address"} /\ Storage(x)[2] \in 0..3
<1>1. FN(x) \in 0..7
  BY InstructionParts
<1>2. ASSUME NEW i \in 1..8 PROVE Short[i][1] \in {"load", "store"} /\ Short[i][2] \in 0..3
  BY <1>2 DEF Short
<1>3. ASSUME NEW i \in 1..4
      PROVE Long[i][1] \in {"load", "store", "address"} /\ Long[i][2] \in 0..3
  BY <1>3 DEF Long
<1>4. CASE OPCODE(x) \in {2, 10}
  <2>1. FN(x) + 1 \in 1..8
    BY <1>1
  <2> QED BY <1>2, <1>4, <2>1 DEF Storage
<1>5. CASE OPCODE(x) \notin {2, 10}
  <2>1. FN(x) + 1 \in 1..4
    BY <1>1, <1>5
  <2> QED BY <1>3, <1>5, <2>1 DEF Storage
<1> QED BY <1>4, <1>5

LEMMA LoadStoreMachine ==
    ASSUME NEW k, IsMachine(k), NEW x, x \subseteq 0..31, OPCODE(x) \in {2, 10} \/ FN(x) < 4
    PROVE  IsMachine(LoadStore(k, x))
<1> DEFINE access == Storage(x)
           j == access[2]
           a == StorageAddress(k, x, j)
           addr == Translate(k, a)
           in == BusRead(k.mem, addr, j)
           out == BusWrite(k.mem, k.io, addr, j, Reg(k, RA(x)))
           fa(e) == IF e = "DALT" THEN a ELSE addr
           v == IF access[3] THEN Ext(in.v, 8 * 2^j) ELSE in.v
           left == [k EXCEPT !.mem = out.mem, !.io = out.io]
<1>1. RA(x) \in 0..31 /\ x \in Word64
  BY InstructionParts
<1>2. access[1] \in {"load", "store", "address"} /\ j \in 0..3
  BY AccessesAre
<1>3. a \in Word64
  <2>1. {} \in Word64
    BY DEF Word64
  <2> QED BY <2>1, AddressWord
<1>4. addr \in Word64
  BY <1>3, AddressWord
<1>5. in.v \in Word64
  BY ReadWord
<1>6. LoadStore(k, x) =
        CASE access[1] = "address" -> SetReg(k, RA(x), a)
          [] access[1] = "load" ->
               IF in.e # "none" THEN Error(k, in.e, x, fa(in.e)) ELSE SetReg(k, RA(x), v)
          [] access[1] = "store" ->
               IF out.e # "none" THEN Error(k, out.e, x, fa(out.e)) ELSE left
  BY Zenon DEF LoadStore
<1>7. v \in Word64
  <2>1. 8 * 2^j \in Nat
    <3> HIDE DEF j
    <3>1. 2^j \in Nat
      BY <1>2, Power
    <3> QED BY <3>1
  <2> HIDE DEF j, in
  <2>2. Ext(in.v, 8 * 2^j) \in Word64
    BY <1>5, <2>1, Extended
  <2> QED BY <1>5, <2>2
<1> HIDE DEF access, j, in, out, a, addr
<1>8. \A e : fa(e) \in Word64
  BY <1>3, <1>4
<1> HIDE DEF fa, v
<1>9. IsMachine(SetReg(k, RA(x), a)) /\ IsMachine(SetReg(k, RA(x), v))
  BY <1>1, <1>3, <1>7, SetRegMachine
<1>10. IsMachine(Error(k, in.e, x, fa(in.e))) /\ IsMachine(Error(k, out.e, x, fa(out.e)))
  BY <1>1, <1>8, ErrorMachine
<1>11. IsMachine(left)
  BY MemoryChanged
<1> HIDE DEF left
<1> QED BY <1>2, <1>6, <1>9, <1>10, <1>11

LEMMA BitFieldMachine ==
    ASSUME NEW k, IsMachine(k), NEW x, x \subseteq 0..31
    PROVE  IsMachine(BitField(k, x))
<1> DEFINE c == Reg(k, RC(x))
           bit == ToNat(Get(LS_DISP(x), 0, 6))
           shift == ToNat(Get(LS_DISP(x), 6, 10))
           v4 == SignFrom(Shr(c, shift), bit)
           v5 == SignFrom(c, bit) \ BitsAbove(shift % 64)
           v6 == Sar(c, shift) \ BitsAbove(bit)
<1>1. RA(x) \in 0..31 /\ RC(x) \in 0..31 /\ x \in Word64
  BY InstructionParts
<1>2. c \in Word64 /\ shift \in Nat
  BY <1>1, RegWord, Naturals0
<1>3. BitField(k, x) \in {SetReg(k, RA(x), v4), SetReg(k, RA(x), v5), SetReg(k, RA(x), v6),
                          Error(k, "EMLT", x, {})}
  BY ZenonT(30) DEF BitField
<1> HIDE DEF c, bit, shift
<1>4. \A b : BitsAbove(b) \in Word64
  BY DEF BitsAbove, Left, Word64
<1>5. \A u \in Word64 : \A b : SignFrom(u, b) \in Word64
  BY <1>4 DEF SignFrom, Word64
<1>6. Shr(c, shift) \in Word64 /\ Sar(c, shift) \in Word64
  BY <1>2, Shifted
<1>7. v4 \in Word64 /\ v5 \in Word64 /\ v6 \in Word64
  <2>1. v4 \in Word64
    BY <1>5, <1>6
  <2>2. v5 \in Word64
    BY <1>2, <1>5 DEF Word64
  <2>3. v6 \in Word64
    BY <1>6 DEF Word64
  <2> QED BY <2>1, <2>2, <2>3
<1> HIDE DEF v4, v5, v6
<1>8. IsMachine(SetReg(k, RA(x), v4)) /\ IsMachine(SetReg(k, RA(x), v5)) /\ IsMachine(SetReg(k, RA(x), v6))
  BY <1>1, <1>7, SetRegMachine
<1>9. {} \in Word64
  BY DEF Word64
<1>10. IsMachine(Error(k, "EMLT", x, {}))
  BY <1>1, <1>9, ErrorMachine
<1> QED BY <1>3, <1>8, <1>10

LEMMA LsMachine ==
    ASSUME NEW k, IsMachine(k), NEW x, x \subseteq 0..31
    PROVE  IsMachine(Ls(k, x))
<1>1. x \in Word64
  BY InstructionParts
<1>2. {} \in Word64
  BY DEF Word64
<1>3. IsMachine(Error(k, "EMLT", x, {}))
  BY <1>1, <1>2, ErrorMachine
<1>4. IsMachine(BitField(k, x))
  BY BitFieldMachine
<1>5. OPCODE(x) \in {2, 10} \/ FN(x) < 4 => IsMachine(LoadStore(k, x))
  BY LoadStoreMachine
<1> QED BY <1>3, <1>4, <1>5, Zenon DEF Ls
-----------------------------------------------------------------------------
\* Control.
LEMMA CallMachine ==
    ASSUME NEW k, IsMachine(k), NEW name, NEW x, NEW v
    PROVE  IsMachine(Call(k, name, x, v))
<1> DEFINE io == Append(k.io, [call |-> name, fn |-> FN(x), a |-> RA(x), v |-> v])
<1>1. Call(k, name, x, v) = [k EXCEPT !.io = io]
  BY DEF Call
<1> HIDE DEF io
<1>2. IsMachine([k EXCEPT !.io = io])
  BY CallsChanged
<1> QED BY <1>1, <1>2, Zenon

LEMMA CrMachine ==
    ASSUME NEW k, IsMachine(k), NEW d \in 0..CR_MAX, NEW v \in Word64
    PROVE  GetCr(k, d) \in Word64 /\ IsMachine(SetCr(k, d, v))
<1>1. CASE d = CR_MAX
  <2>1. GetCr(k, d) = k.pc /\ SetCr(k, d, v) = [k EXCEPT !.pc = v]
    BY <1>1 DEF GetCr, SetCr
  <2>2. IsMachine([k EXCEPT !.pc = v])
    BY PcChanged
  <2> QED BY <2>1, <2>2, MachineIs
<1>2. CASE d # CR_MAX
  <2>1. d \in 0..47
    BY <1>2 DEF CR_MAX
  <2>2. GetCr(k, d) = k.cr[d] /\ SetCr(k, d, v) = [k EXCEPT !.cr[d] = v]
    BY <1>2 DEF GetCr, SetCr
  <2>3. IsMachine([k EXCEPT !.cr[d] = v])
    BY <2>1, CrChanged
  <2>4. k.cr[d] \in Word64
    BY <2>1, MachineIs
  <2> QED BY <2>2, <2>3, <2>4
<1> QED BY <1>1, <1>2

LEMMA LsEMachine ==
    ASSUME NEW k, IsMachine(k), NEW x, x \subseteq 0..31
    PROVE  IsMachine(LsE(k, x))
<1> DEFINE c == Reg(k, RC(x))
           disp == LS_DISP(x)
           d == ToInt(disp)
           fn == FN(x)
           which == ToNat(Get(disp, 0, 6))
           back == Restore(k, Left(disp, 2))
<1>1. /\ RA(x) \in 0..31 /\ RC(x) \in 0..31 /\ x \in Word64 /\ fn \in 0..7
  BY InstructionParts
<1>2. c \in Word64 /\ Reg(k, RA(x)) \in Word64 /\ k.pc \in Word64
  BY <1>1, RegWord, MachineIs
<1>3. LsE(k, x) =
        IF fn # 0 /\ PL \in k.cr[PSQ] THEN Error(k, "IPLT", x, {})
        ELSE CASE fn = 0 -> Error(k, "SVCT", x, {})
               [] fn \in {1, 2} -> SetReg(k, RA(x), Garbage)
               [] fn = 3 -> IF d \notin 0..CR_MAX THEN Error(k, "EMLT", x, {})
                            ELSE SetReg(k, RA(x), GetCr(k, d) \ c)
               [] fn = 4 -> IF d \notin 0..CR_MAX THEN Error(k, "EMLT", x, {})
                            ELSE SetCr(k, d, Reg(k, RA(x)) \cup c)
               [] fn = 5 -> SetReg(back, RA(x), c)
               [] fn = 6 -> Interrupt(k, which, x, k.pc)
               [] fn = 7 -> Call(k, "host", x, c)
  BY Zenon DEF LsE
<1>4. IsMachine(back)
  BY RestoreMachine
<1> HIDE DEF c, disp, d, fn, which, back
<1>5. {} \in Word64
  BY DEF Word64
<1>6. /\ IsMachine(Error(k, "IPLT", x, {})) /\ IsMachine(Error(k, "SVCT", x, {}))
      /\ IsMachine(Error(k, "EMLT", x, {}))
  BY <1>1, <1>5, ErrorMachine
<1>7. IsMachine(SetReg(k, RA(x), Garbage)) /\ IsMachine(SetReg(back, RA(x), c))
  BY <1>1, <1>2, <1>4, GarbageAssumption, SetRegMachine
<1>8. ASSUME d \in 0..CR_MAX
      PROVE  /\ IsMachine(SetReg(k, RA(x), GetCr(k, d) \ c))
             /\ IsMachine(SetCr(k, d, Reg(k, RA(x)) \cup c))
  <2>1. Reg(k, RA(x)) \cup c \in Word64
    BY <1>2 DEF Word64
  <2>2. GetCr(k, d) \in Word64
    BY <1>5, <1>8, CrMachine
  <2>3. GetCr(k, d) \ c \in Word64
    BY <2>2 DEF Word64
  <2> QED BY <1>1, <1>8, <2>1, <2>3, CrMachine, SetRegMachine
<1>9. IsMachine(Interrupt(k, which, x, k.pc))
  BY <1>1, <1>2, InterruptMachine
<1>10. IsMachine(Call(k, "host", x, c))
  BY CallMachine
<1>11. fn \in {0, 1, 2, 3, 4, 5, 6, 7}
  BY <1>1
<1> QED BY <1>3, <1>6, <1>7, <1>8, <1>9, <1>10, <1>11

\* Together: any operation of any form.
LEMMA OperationMachine ==
    ASSUME NEW k, IsMachine(k), NEW x, x \subseteq 0..31, OPCODE(x) \notin {8, 9, 13, 15}
    PROVE  IsMachine(Operation(k, x))
<1> DEFINE o == OPCODE(x)
<1>1. x \in Word64 /\ o \in 0..15
  BY InstructionParts
<1>2. {} \in Word64
  BY DEF Word64
<1>3. IsMachine(Xmu7(k, x))
  <2>1. IsMachine(Error(k, "IPLT", x, {}))
    BY <1>1, <1>2, ErrorMachine
  <2>2. IsMachine(Call(k, "xmu", x, Plus(Reg(k, RC(x)), LS_DISP(x))))
    BY CallMachine
  <2> QED BY <2>1, <2>2, Zenon DEF Xmu7
<1>4. Operation(k, x) =
        CASE o = 0 -> Rr0(k, x) [] o = 1 -> Br1(k, x) [] o \in {2, 3, 10, 11} -> Ls(k, x)
          [] o = 4 -> Im4(k, x) [] o = 5 -> Im5(k, x) [] o = 6 -> Im6(k, x)
          [] o = 7 -> Xmu7(k, x) [] o = 12 -> RrC(k, x) [] o = 14 -> LsE(k, x)
  BY DEF Operation
<1>5. o \in {0, 1, 2, 3, 4, 5, 6, 7, 10, 11, 12, 14}
  BY <1>1
<1> HIDE DEF o
<1>6. /\ IsMachine(Rr0(k, x)) /\ IsMachine(Br1(k, x)) /\ IsMachine(Ls(k, x)) /\ IsMachine(Im4(k, x))
      /\ IsMachine(Im5(k, x)) /\ IsMachine(Im6(k, x)) /\ IsMachine(RrC(k, x)) /\ IsMachine(LsE(k, x))
  BY Rr0Machine, Br1Machine, LsMachine, ImMachine, RrCMachine, LsEMachine
<1> QED BY <1>3, <1>4, <1>5, <1>6

\* The second half of a long immediate.
LEMMA LongMachine ==
    ASSUME NEW k, IsMachine(k), NEW x, x \subseteq 0..31
    PROVE  IsMachine(LongImmediate(k, x))
<1> DEFINE v == Reg(k, RA(x)) \cup Left(LGISL2_IMM(x), 14)
           u == SetReg(k, RA(x), v)
           psq == u.cr[PSQ] \ {LG}
<1>1. RA(x) \in 0..31 /\ LGISL2_IMM(x) \in Word64
  BY InstructionParts
<1>2. v \in Word64
  <2>1. Reg(k, RA(x)) \in Word64
    BY <1>1, RegWord
  <2>2. Left(LGISL2_IMM(x), 14) \in Word64
    BY DEF Left, Word64
  <2> QED BY <2>1, <2>2 DEF Word64
<1>3. IsMachine(u)
  BY <1>1, <1>2, SetRegMachine
<1>4. LongImmediate(k, x) = [u EXCEPT !.cr[PSQ] = psq]
  BY DEF LongImmediate
<1> HIDE DEF u
<1>5. PSQ \in 0..47 /\ psq \in Word64
  <2>1. u.cr[PSQ] \in Word64
    BY <1>3, MachineIs DEF PSQ
  <2> QED BY <2>1 DEF PSQ, Word64
<1> HIDE DEF psq
<1>6. IsMachine([u EXCEPT !.cr[PSQ] = psq])
  BY <1>3, <1>5, CrChanged
<1> QED BY <1>4, <1>6

\* A machine stays one, whatever it executes.
LEMMA ExecuteMachine ==
    ASSUME NEW k, IsMachine(k)
    PROVE  IsMachine(Execute(k))
<1> DEFINE addr == Translate(k, k.pc)
           f == FetchWord(k.mem, addr)
           p == Plus(k.pc, {2})
           next == [k EXCEPT !.pc = p]
<1>1. addr \in Word64 /\ k.pc \in Word64 /\ {} \in Word64
  <2>1. {} \subseteq 0..31 /\ k.pc \in Word64
    BY MachineIs
  <2> QED BY <2>1, AddressWord DEF Word64
<1>2. f.v \subseteq 0..31
  BY DEF FetchWord
<1>3. f.v \in Word64
  BY <1>2 DEF Word64, Bits
<1>4. Execute(k) = IF f.e # "none" THEN Error(k, f.e, {}, addr)
                   ELSE IF LG \in k.cr[PSQ] THEN LongImmediate(next, f.v)
                   ELSE IF OPCODE(f.v) \in {8, 9, 13, 15} THEN Error(k, "EMLT", f.v, k.pc)
                   ELSE Operation(next, f.v)
  BY Zenon DEF Execute
<1>5. IsMachine(next)
  <2>1. p \in Word64
    BY PlusWord
  <2> HIDE DEF p
  <2> QED BY <2>1, PcChanged
<1> HIDE DEF f, addr, next
<1>6. IsMachine(Error(k, f.e, {}, addr)) /\ IsMachine(Error(k, "EMLT", f.v, k.pc))
  BY <1>1, <1>3, ErrorMachine
<1>7. IsMachine(LongImmediate(next, f.v))
  BY <1>2, <1>5, LongMachine
<1>8. OPCODE(f.v) \notin {8, 9, 13, 15} => IsMachine(Operation(next, f.v))
  BY <1>2, <1>5, OperationMachine
<1> QED BY <1>4, <1>6, <1>7, <1>8, Zenon

-----------------------------------------------------------------------------
(* Instructions in the file.                                                *)

\* An operand that was taken has the same value with more labels.
Kinded(o, x) == o.kind \in {"reg", "cr", "num", "rel"} \/ IsNum(x)
Kept(o, x, ls, ms, p) ==
    ErrorAfter(o, x, ls, "none") = "none" =>
        ErrorAfter(o, x, ms, "none") = "none" /\ ValueOf(o, x, ms, p) = ValueOf(o, x, ls, p)
LEMMA OperandKept ==
    ASSUME NEW o, NEW x, NEW ls, NEW ms, Extends(ls, ms), NEW p, Kinded(o, x)
    PROVE  Kept(o, x, ls, ms, p)
<1> SUFFICES ASSUME ErrorAfter(o, x, ls, "none") = "none"
             PROVE  /\ ErrorAfter(o, x, ms, "none") = "none"
                    /\ ValueOf(o, x, ms, p) = ValueOf(o, x, ls, p)
  BY DEF Kept
<1>1. CASE IsNum(x)
  BY <1>1 DEF ErrorAfter, ValueOf
<1>2. CASE ~IsNum(x) /\ o.kind \in {"num", "rel"}
  <2>1. LabelError(x, ls, "none") = "none"
    BY <1>2 DEF ErrorAfter
  <2>2. IsLabel(x) /\ x.name \in DOMAIN ls /\ x.part \in {"", "gh", "gl", "h", "l"} \cup DOMAIN ls
    BY <2>1 DEF LabelError
  <2>3. x.name \in DOMAIN ms /\ ms[x.name] = ls[x.name]
    BY <2>2 DEF Extends
  <2>4. x.part \in DOMAIN ls => x.part \in DOMAIN ms /\ ms[x.part] = ls[x.part]
    BY DEF Extends
  <2>5. LabelError(x, ms, "none") = "none"
    BY <2>2, <2>3, <2>4 DEF LabelError
  <2>6. LabelValue(x, ms) = LabelValue(x, ls)
    <3>1. CASE x.part \in {"", "gh", "gl", "h", "l"}
      BY <2>3, <3>1 DEF LabelValue
    <3>2. CASE x.part \notin {"", "gh", "gl", "h", "l"}
      BY <2>2, <2>3, <2>4, <3>2 DEF LabelValue
    <3> QED BY <3>1, <3>2
  <2> QED BY <1>2, <2>5, <2>6 DEF ErrorAfter, ValueOf
<1>3. CASE ~IsNum(x) /\ o.kind \notin {"num", "rel"}
  <2>1. o.kind \in DOMAIN x
    BY <1>3 DEF ErrorAfter
  <2>2. ErrorAfter(o, x, ms, "none") = "none"
    BY <1>3, <2>1 DEF ErrorAfter
  <2>3. ValueOf(o, x, ms, p) = ValueOf(o, x, ls, p)
    <3>1. o.kind \in {"reg", "cr"}
      BY <1>3 DEF Kinded
    <3> QED BY <1>3, <3>1 DEF ValueOf
  <2> QED BY <2>2, <2>3
<1> QED BY <1>1, <1>2, <1>3

\* The operands are evaluated without an error exactly if each of them is.
LEMMA EvaluatedAll ==
    ASSUME NEW os, NEW xs, NEW ls, Len(os) \in Nat
    PROVE  Evaluated(os, xs, ls, "none") = "none"
             <=> \A i \in 1..Len(os) : ErrorAfter(os[i], xs[i], ls, "none") = "none"
<1> DEFINE after(j) == ErrorAfter(os[j], xs[j], ls, IF j = 1 THEN "none" ELSE "none")
           bad == {j \in 1..Len(os) : after(j) # "none"}
<1>1. Evaluated(os, xs, ls, "none")
        = IF os = <<>> THEN "none" ELSE IF bad = {} THEN "none" ELSE after(Min(bad))
  BY DEF Evaluated
<1>2. ASSUME bad # {} PROVE Evaluated(os, xs, ls, "none") # "none"
  <2>1. bad \subseteq Nat
    OBVIOUS
  <2>2. os # <<>>
    <3>1. Len(os) # 0
      BY <1>2
    <3> QED BY <3>1
  <2> HIDE DEF bad
  <2>3. \E j \in bad : \A l \in bad : j <= l
    BY <1>2, <2>1, Least
  <2>4. Min(bad) \in bad
    BY <2>3 DEF Min
  <2>5. after(Min(bad)) # "none"
    BY <2>4 DEF bad
  <2> QED BY <1>1, <1>2, <2>2, <2>5
<1>3. bad = {} => Evaluated(os, xs, ls, "none") = "none"
  BY <1>1
<1> QED BY <1>2, <1>3

\* The kinds of the operands of the forms.
FormNames == {"rr", "mv", "mcom", "mneg", "id", "srand", "rand", "br", "j", "ret", "invpg", "im",
              "tr", "lgisl", "ls", "lss", "rex", "cr", "bifn"}
\* Every row of the table of opcodes has one of the forms.
LEMMA FormNamed ==
    ASSUME NEW o \in DOMAIN Opcodes
    PROVE  Opcodes[o].form \in FormNames
BY SMTT(60) DEF Opcodes, I, LsRow, LssRow, FormNames

KindsOf(os) == \A i \in 1..Len(os) : os[i].kind \in {"reg", "cr", "num", "rel", "lit"}
\* No form asks for an operand of a kind that is evaluated otherwise.
LEMMA FormKinds ==
    ASSUME NEW d, d.form \in FormNames, NEW os \in Forms(d)
    PROVE  KindsOf(os)
<1> DEFINE disp == Number(15, d.shamt, 15, 5)
           long == Operand("num", 50, {<<0, 23, 0>>, <<23, 27, 28>>})
           rel  == Operand("rel", 22, {<<2, 20, 0>>})
           sel  == Operand("reg", 5, {<<0, 3, 17>>})
           cr   == Operand("cr", 15, {<<0, 15, 5>>})
           shamt == Operand("lit", 6, {<<0, 6, 11>>})
           bit == Operand("lit", 6, {<<0, 12, 5>>})
           n10 == Number(10, 0, 10, 10)
           n22 == Number(22, 2, 20, 0)
           n10b == Number(10, 0, 10, 5)
           n23 == Number(23, 0, 23, 0)
           n12 == Number(12, d.shamt, 12, 5)
           two == InRegister({23, 55})
           K == {"reg", "cr", "num", "rel", "lit"}
<1>1. os \in (CASE d.form = "rr"    -> {<<AandB, C>>, <<A, B, C>>, <<A, B, C, n10>>}
                [] d.form = "mv"    -> {<<A, B>>}
                [] d.form \in {"mcom", "mneg"} -> {<<A, C>>}
                [] d.form = "id"    -> {<<AandB>>}
                [] d.form = "srand" -> {<<C>>}
                [] d.form = "rand"  -> {<<A>>}
                [] d.form = "br"    -> {<<rel>>, <<A, rel>>}
                [] d.form = "j"     -> {<<A>>, <<n22, A>>}
                [] d.form = "ret"   -> {<<>>}
                [] d.form = "invpg" -> {<<C>>, <<n10b, C>>}
                [] d.form = "im"    -> {<<A, n23>>}
                [] d.form = "tr"    -> {<<disp>>}
                [] d.form = "lgisl" -> {<<two, long>>}
                [] d.form = "ls"    -> {<<A, C>>, <<A, C, disp>>}
                [] d.form = "lss"   -> {<<A, sel, C>>, <<A, sel, C, n12>>}
                [] d.form = "rex"   -> {<<disp>>, <<A, C>>, <<A, C, disp>>}
                [] d.form = "cr"    -> {<<A, cr>>, <<A, C, cr>>}
                [] d.form = "bifn"  -> {<<A, shamt, bit, C>>})
  BY Zenon DEF Forms
<1>2. /\ A.kind \in K /\ B.kind \in K /\ C.kind \in K /\ AandB.kind \in K /\ n10.kind \in K
      /\ n22.kind \in K /\ n10b.kind \in K /\ n23.kind \in K /\ n12.kind \in K /\ disp.kind \in K
      /\ two.kind \in K /\ long.kind \in K /\ rel.kind \in K /\ sel.kind \in K /\ cr.kind \in K
      /\ shamt.kind \in K /\ bit.kind \in K
  BY DEF A, B, C, AandB, InRegister, Operand, Number
<1> HIDE DEF disp, long, rel, sel, cr, shamt, bit, n10, n22, n10b, n23, n12, two, K
<1>3. /\ \A x : x.kind \in K => \A i \in 1..Len(<<x>>) : <<x>>[i].kind \in K
      /\ \A x, y : x.kind \in K /\ y.kind \in K => \A i \in 1..Len(<<x, y>>) : <<x, y>>[i].kind \in K
      /\ \A x, y, z : x.kind \in K /\ y.kind \in K /\ z.kind \in K
            => \A i \in 1..Len(<<x, y, z>>) : <<x, y, z>>[i].kind \in K
      /\ \A x, y, z, u : x.kind \in K /\ y.kind \in K /\ z.kind \in K /\ u.kind \in K
            => \A i \in 1..Len(<<x, y, z, u>>) : <<x, y, z, u>>[i].kind \in K
  OBVIOUS
<1>4. \A i \in 1..Len(os) : os[i].kind \in K
  <2>1. os \in {<<A>>, <<AandB>>, <<C>>, <<rel>>, <<disp>>, <<A, B>>, <<A, C>>, <<AandB, C>>, <<A, rel>>,
               <<n22, A>>, <<n10b, C>>, <<A, n23>>, <<two, long>>, <<A, cr>>, <<A, B, C>>, <<A, C, disp>>,
               <<A, sel, C>>, <<A, C, cr>>, <<A, B, C, n10>>, <<A, sel, C, n12>>, <<A, shamt, bit, C>>, <<>>}
    BY <1>1, ZenonT(60) DEF FormNames
  <2> QED BY <1>2, <1>3, <2>1
<1> QED BY <1>4 DEF KindsOf, K

\* The operands are what its form asks for.
Suited(s) == \A i \in 1..Len(Operands(s)) : Fitting(Operands(s)[i], Ordered(Row(s), s.args)[i])

\* An instruction that was assembled is the same with more labels.
Coding(s, p, ls) == Instruction(Row(s), s.args, p, "none", ls)
LEMMA InstructionKept ==
    ASSUME NEW s, s.op \in DOMAIN Opcodes, Len(s.args) \in Nat, Suited(s), NEW p,
           NEW ls, NEW ms, Extends(ls, ms), Coding(s, p, ls).err = "none"
    PROVE  Coding(s, p, ms).err = "none" /\ Coding(s, p, ms).bytes = Coding(s, p, ls).bytes
<1> DEFINE d == Row(s)
           size == InstructionSize(d)
           next == Plus(p, Num(size))
           xs == Ordered(d, s.args)
           fits == {o \in Forms(d) : Len(o) = Len(xs)}
           os == Operands(s)
           after(ns) == IF fits = {} THEN "syntax" ELSE Evaluated(os, xs, ns, "none")
           vs(ns) == [i \in 1..Len(os) |-> ValueOf(os[i], xs[i], ns, next)]
           word(ns) == Encoded(d, os, vs(ns))
           r(ns) == Coding(s, p, ns)
<1>1. \A ns : /\ r(ns).err = after(ns)
              /\ r(ns).bytes = Emit(IF after(ns) = "none" THEN word(ns) ELSE {}, size)
  BY DEF Coding, Instruction, Result, Operands
<1>2. fits # {} /\ Evaluated(os, xs, ls, "none") = "none"
  BY <1>1
<1>3. os \in Forms(d) /\ Len(os) = Len(xs)
  BY <1>2 DEF Operands
<1>4. Len(os) \in Nat
  BY <1>3, Reversed DEF Ordered
<1>5. KindsOf(os)
  <2>1. d.form \in FormNames
    BY FormNamed DEF Row
  <2> HIDE DEF d, os
  <2> QED BY <1>3, <2>1, FormKinds
<1>6. \A i \in 1..Len(os) : Kinded(os[i], xs[i])
  BY <1>5 DEF KindsOf, Suited, Fitting, Kinded
<1> HIDE DEF fits, os, xs, next
<1>7. ASSUME NEW i \in 1..Len(os)
      PROVE  /\ ErrorAfter(os[i], xs[i], ms, "none") = "none"
             /\ ValueOf(os[i], xs[i], ms, next) = ValueOf(os[i], xs[i], ls, next)
  <2>1. ErrorAfter(os[i], xs[i], ls, "none") = "none"
    BY <1>2, <1>4, EvaluatedAll
  <2>2. Kept(os[i], xs[i], ls, ms, next)
    BY <1>6, OperandKept
  <2> QED BY <2>1, <2>2 DEF Kept
<1>8. Evaluated(os, xs, ms, "none") = "none"
  BY <1>4, <1>7, EvaluatedAll
<1>9. vs(ms) = vs(ls)
  BY <1>7
<1>10. after(ms) = "none" /\ after(ls) = "none" /\ word(ms) = word(ls)
  BY <1>2, <1>8, <1>9
<1> HIDE DEF after, word, r
<1>11. r(ms).err = "none" /\ r(ms).bytes = r(ls).bytes
  BY <1>1, <1>10
<1> QED BY <1>11 DEF r

-----------------------------------------------------------------------------
\* What a statement of the second pass adds.
Grows(bytes) ==
    /\ FileInv /\ phase = "second" /\ at <= Len(src) /\ bytes \in Seq(Byte)
    /\ src' = src /\ at' = at + 1 /\ file' = file \o bytes /\ places' = Append(places, pc)
    /\ Extends(labels, labels')
\* What was coded stays coded when a statement adds bytes to the file.
LEMMA Grown ==
    ASSUME NEW bytes, Grows(bytes)
    PROVE  /\ IsList(places') /\ Len(places') = at
           /\ \A i \in 1..(at - 1) : places'[i] = places[i]
           /\ places'[at] = pc
           /\ file' \in Seq(Byte) /\ Len(file) \in Nat /\ Len(bytes) \in Nat
           /\ Len(file') = Len(file) + Len(bytes)
           /\ \A i \in 1..Len(file) : file'[i] = file[i]
           /\ \A i \in 1..Len(bytes) : file'[Len(file) + i] = bytes[i]
<1>1. WrittenInv /\ at \in Nat /\ at >= 1
  BY DEF Grows, FileInv
<1>2. /\ IsList(places') /\ Len(places') = at
      /\ \A i \in 1..(at - 1) : places'[i] = places[i]
      /\ places'[at] = pc
  <2>1. IsList(places) /\ Len(places) = at - 1
    BY <1>1 DEF WrittenInv
  <2>2. /\ IsList(places') /\ Len(places') = Len(places) + 1
        /\ \A i \in 1..Len(places) : places'[i] = places[i]
        /\ places'[Len(places) + 1] = pc
    BY <2>1, ListGrows DEF Grows
  <2> QED BY <1>1, <2>1, <2>2
<1>3. /\ file' \in Seq(Byte) /\ Len(file) \in Nat /\ Len(bytes) \in Nat
      /\ Len(file') = Len(file) + Len(bytes)
      /\ \A i \in 1..Len(file) : file'[i] = file[i]
      /\ \A i \in 1..Len(bytes) : file'[Len(file) + i] = bytes[i]
  <2>1. file \in Seq(Byte) /\ bytes \in Seq(Byte) /\ file' = file \o bytes
    BY <1>1 DEF WrittenInv, Grows
  <2>2. Len(file) \in Nat /\ Len(bytes) \in Nat
    BY <2>1, LenProperties
  <2> QED BY <2>1, <2>2, ConcatProperties
<1> QED BY <1>2, <1>3

\* A statement that nothing moved was not moved by what precedes it.
LEMMA StraightBefore ==
    ASSUME NEW bytes, Grows(bytes), NEW i \in 1..at, Straight(i)'
    PROVE  Straight(i)
<1>1. WrittenInv /\ at \in Nat /\ at >= 1 /\ src' = src
  BY DEF Grows, FileInv
<1>2. ASSUME NEW j \in 1..(i - 1), "op" \in DOMAIN src[j], src[j].op = "origin"
      PROVE  Value(src[j].args, labels) = places[j]
  <2>1. j \in 1..(at - 1)
    BY <1>1
  <2>2. Value(src[j].args, labels') = places'[j]
    BY <1>1, <1>2 DEF Straight
  <2>3. Value(src[j].args, labels') = Value(src[j].args, labels)
    <3>1. Certain(src[j], labels)
      BY <1>1, <2>1 DEF WrittenInv
    <3>2. Extends(labels, labels')
      BY DEF Grows
    <3> QED BY <1>2, <3>1, <3>2, CertainKept DEF HasOp
  <2> QED BY <2>1, <2>2, <2>3, Grown
<1> QED BY <1>2 DEF Straight

\* The bytes of an instruction are in the file, as far from its beginning as the
\* instruction is from where the file is loaded.
Holds(i, bytes) ==
    \E o \in 0..Len(file) :
        /\ places[i] = Plus(START, Num(o)) /\ o + Len(bytes) <= Len(file)
        /\ \A j \in 1..Len(bytes) : file[o + j] = bytes[j]
Coded(i) ==
    /\ Coding(src[i], places[i], labels).err = "none"
    /\ Straight(i) => Holds(i, Coding(src[i], places[i], labels).bytes)

IsCode(s) == HasOp(s, DOMAIN Opcodes) /\ Suited(s)

\* The inductive invariant behind MeansWhatItSays, for the file.
CodeInv ==
    phase = "second" \/ (phase = "written" /\ err = "none")
      => \A i \in 1..(at - 1) : IsCode(src[i]) => Coded(i)

\* A coded instruction is bytes, as many as its size.
LEMMA CodingBytes ==
    ASSUME NEW s, NEW p, NEW ls
    PROVE  Coding(s, p, ls).bytes \in Seq(Byte) /\ Len(Coding(s, p, ls).bytes) \in Nat
<1>1. Follows(Coding(s, p, ls), p)
  BY InstructionWritten DEF Coding
<1> QED BY <1>1, LenProperties DEF Follows

\* The second pass keeps CodeInv when it adds a statement.
LEMMA CodeMore ==
    ASSUME CodeInv, NEW bytes, Grows(bytes), IsArgs(src[at].args) \/ ~HasOp(src[at], DOMAIN Opcodes),
           HasOp(src[at], DOMAIN Opcodes) => /\ Coding(src[at], pc, labels).err = "none"
                                             /\ bytes = Coding(src[at], pc, labels).bytes
    PROVE  \A i \in 1..at : IsCode(src[i]) => Coded(i)'
<1>1. /\ WrittenInv /\ at \in Nat /\ at >= 1 /\ phase = "second" /\ Extends(labels, labels')
      /\ src' = src /\ src \in Sources /\ at \in 1..Len(src)
  <2>1. /\ WrittenInv /\ at \in Nat /\ at >= 1 /\ phase = "second" /\ Extends(labels, labels')
        /\ src' = src /\ src \in Sources /\ at <= Len(src)
    BY DEF Grows, FileInv
  <2>2. Len(src) \in Nat
    BY <2>1, SourcesAssumption DEF IsFile
  <2> QED BY <2>1, <2>2
<1> SUFFICES ASSUME NEW i \in 1..at, IsCode(src[i])
             PROVE  Coded(i)'
  OBVIOUS
<1> DEFINE s == src[i]
<1>2. s.op \in DOMAIN Opcodes /\ Suited(s) /\ Len(s.args) \in Nat
  <2>1. IsFile(src) /\ i \in 1..Len(src)
    BY <1>1, SourcesAssumption
  <2>2. IsStatement(s)
    BY <2>1 DEF IsFile
  <2> QED BY <2>2 DEF IsStatement, IsCode, HasOp
<1>3. ASSUME NEW p, Coding(s, p, labels).err = "none"
      PROVE  /\ Coding(s, p, labels').err = "none"
             /\ Coding(s, p, labels').bytes = Coding(s, p, labels).bytes
  BY <1>1, <1>2, <1>3, InstructionKept
<1>4. CASE i = at
  <2> DEFINE b == Coding(s, pc, labels).bytes
  <2>1. places'[i] = pc
    BY <1>4, Grown
  <2>2. Coding(s, pc, labels).err = "none" /\ bytes = b
    BY <1>4 DEF IsCode
  <2>3. Coding(s, pc, labels').err = "none" /\ Coding(s, pc, labels').bytes = bytes
    BY <1>3, <2>2
  <2>4. ASSUME Straight(i)' PROVE Holds(i, bytes)'
    <3>1. Straight(i)
      BY <2>4, StraightBefore
    <3>2. pc = Plus(START, Num(Len(file)))
      BY <1>1, <1>4, <3>1 DEF WrittenInv
    <3>3. Len(file) \in 0..Len(file') /\ Len(file) + Len(bytes) <= Len(file')
      BY Grown
    <3>4. \A j \in 1..Len(bytes) : file'[Len(file) + j] = bytes[j]
      BY Grown
    <3> HIDE DEF b
    <3> QED BY <2>1, <3>2, <3>3, <3>4 DEF Holds
  <2> HIDE DEF b
  <2> QED BY <1>1, <2>1, <2>3, <2>4 DEF Coded
<1>5. CASE i # at
  <2> PICK b : b = Coding(s, places[i], labels).bytes
    OBVIOUS
  <2>1. i \in 1..(at - 1)
    BY <1>1, <1>5
  <2>2. places'[i] = places[i]
    BY <2>1, Grown
  <2>3. Coded(i)
    BY <1>1, <2>1 DEF CodeInv
  <2>4. Coding(s, places[i], labels').err = "none" /\ Coding(s, places[i], labels').bytes = b
    BY <1>3, <2>3 DEF Coded
  <2>5. ASSUME Straight(i)' PROVE Holds(i, b)'
    <3>1. Holds(i, b)
      BY <2>3, <2>5, StraightBefore DEF Coded
    <3>2. PICK o \in 0..Len(file) :
            /\ places[i] = Plus(START, Num(o)) /\ o + Len(b) <= Len(file)
            /\ \A j \in 1..Len(b) : file[o + j] = b[j]
      BY <3>1 DEF Holds
    <3>3. Len(b) \in Nat
      BY CodingBytes
    <3>4. Len(file) \in Nat /\ Len(bytes) \in Nat /\ Len(file') = Len(file) + Len(bytes)
      BY Grown
    <3>5. ASSUME NEW j \in 1..Len(b) PROVE file'[o + j] = b[j]
      <4>1. o + j \in 1..Len(file)
        BY <3>2, <3>3, <3>4
      <4>2. file'[o + j] = file[o + j]
        BY <4>1, Grown
      <4> QED BY <3>2, <4>2
    <3>6. o \in 0..Len(file') /\ o + Len(b) <= Len(file')
      BY <3>2, <3>3, <3>4
    <3> QED BY <2>2, <3>2, <3>5, <3>6 DEF Holds
  <2> QED BY <1>1, <2>2, <2>4, <2>5 DEF Coded
<1> QED BY <1>4, <1>5

-----------------------------------------------------------------------------
\* The steps of the assembler keep CodeInv: skipping a label, the second pass, and any.
LEMMA CodeSkip ==
    ASSUME FileInv, CodeInv, SkipLabel
    PROVE  CodeInv'
<1>1. /\ phase = "second" /\ at <= Len(src) /\ "label" \in DOMAIN src[at]
      /\ at' = at + 1 /\ places' = Append(places, pc)
      /\ UNCHANGED <<src, phase, pc, err, labels, file>>
  BY DEF SkipLabel, More, IsLabelHere
<1>2. at \in Nat /\ at >= 1 /\ ~HasOp(src[at], DOMAIN Opcodes)
  BY <1>1, StatementHere DEF HasOp
<1>3. <<>> \in Seq(Byte) /\ file' = file \o <<>>
  <2>1. file \in Seq(Byte)
    BY <1>1 DEF FileInv, WrittenInv
  <2> QED BY <1>1, <2>1, ConcatEmptySeq, EmptySeq
<1>4. Extends(labels, labels')
  BY <1>1, ExtendsItself
<1>5. Grows(<<>>)
  BY <1>1, <1>3, <1>4 DEF Grows
<1>6. \A i \in 1..at : IsCode(src[i]) => Coded(i)'
  <2>1. ASSUME NEW none, none = <<>> PROVE \A i \in 1..at : IsCode(src[i]) => Coded(i)'
    BY <1>2, <1>5, <2>1, CodeMore
  <2> QED BY <2>1
<1>7. at' - 1 = at /\ src' = src
  BY <1>1, <1>2
<1> QED BY <1>6, <1>7 DEF CodeInv, IsCode, Suited

LEMMA CodeSecond ==
    ASSUME FileInv, CodeInv, SecondPass
    PROVE  CodeInv'
<1> DEFINE s == src[at]
           r == Assemble(s, pc, "none", labels)
<1>1. phase = "second" /\ at <= Len(src) /\ "label" \notin DOMAIN s
  BY DEF SecondPass, More, IsLabelHere
<1>2. src \in Sources /\ pc \in Word64 /\ AreWords(labels) /\ err = "none" /\ WrittenInv
  BY <1>1 DEF FileInv
<1>3. /\ err' = r.err /\ labels' = r.labels /\ file' = file \o r.bytes
      /\ phase' = (IF r.err = "none" THEN "second" ELSE "written")
      /\ at' = at + 1 /\ places' = Append(places, pc) /\ src' = src
  BY <1>2 DEF SecondPass
<1>4. /\ Len(src) \in Nat /\ at \in Nat /\ at >= 1 /\ "op" \in DOMAIN s /\ IsArgs(s.args)
  BY <1>1, StatementHere
<1>5. Extends(labels, r.labels)
  BY LabelsGrow
<1>6. ASSUME r.err = "none"
      PROVE  \A i \in 1..at : IsCode(src[i]) => Coded(i)'
  <2>1. r.bytes \in Seq(Byte)
    BY <1>2, <1>4, <1>6, StatementWritten
  <2>2. HasOp(s, DOMAIN Opcodes) => r = Coding(s, pc, labels)
    <3>1. s.op \in DOMAIN Opcodes =>
            s.op \notin DOMAIN Data /\ ~ s.op \in {"define", "align", "zero", "origin", "asciz", "ascii"}
      BY DEF Data, Opcodes, I, LsRow, LssRow
    <3>2. s.op \in DOMAIN Opcodes => r = Instruction(Opcodes[s.op], s.args, pc, "none", labels)
      BY <3>1 DEF Assemble
    <3> QED BY <3>2 DEF HasOp, Coding, Row
  <2> PICK bytes : bytes = r.bytes
    OBVIOUS
  <2>3. Grows(bytes)
    BY <1>1, <1>3, <1>5, <2>1 DEF Grows
  <2>4. HasOp(s, DOMAIN Opcodes) => /\ Coding(s, pc, labels).err = "none"
                                    /\ bytes = Coding(s, pc, labels).bytes
    BY <1>6, <2>2
  <2> QED BY <1>4, <2>3, <2>4, CodeMore DEF s
<1>7. at' - 1 = at /\ src' = src
  BY <1>3, <1>4
<1>8. r.err # "none" => ~(phase' = "second" \/ (phase' = "written" /\ err' = "none"))
  BY <1>3
<1> HIDE DEF r
<1> QED BY <1>6, <1>7, <1>8 DEF CodeInv, IsCode, Suited

LEMMA CodeStep ==
    ASSUME FileInv, CodeInv, [ToolchainNext]_vars
    PROVE  CodeInv'
<1>1. CASE RegisterLabel \/ FirstPass
  <2>1. phase' \in {"first", "failed"}
    BY <1>1 DEF RegisterLabel, FirstPass, More
  <2> QED BY <2>1 DEF CodeInv
<1>2. CASE Rewind
  <2>1. at' = 1
    BY <1>2 DEF Rewind
  <2> QED BY <2>1 DEF CodeInv
<1>3. CASE Close \/ UNCHANGED asmVars
  <2>1. UNCHANGED <<src, at, err, labels, file, places>>
    BY <1>3 DEF Close, asmVars
  <2>2. phase' = phase \/ (phase = "second" /\ phase' = "written")
    BY <1>3 DEF Close, asmVars
  <2>3. \A i : Coded(i)' <=> Coded(i)
    BY <2>1 DEF Coded, Coding, Holds, Straight
  <2> QED BY <2>1, <2>2, <2>3 DEF CodeInv, IsCode, Suited
<1> QED BY <1>1, <1>2, <1>3, EitherRuns, CodeSkip, CodeSecond DEF AsmNext
-----------------------------------------------------------------------------
(* The machine between the rounds.                                          *)

\* A machine is not one that is switched off.
LEMMA OffIsNone ==
    ASSUME NEW k, IsMachine(k)
    PROVE  k # Off
<1>1. "mem" \in DOMAIN k
  BY DEF IsMachine
<1>2. "mem" \notin DOMAIN Off
  BY DEF Off
<1> QED BY <1>1, <1>2

\* What the loader leaves is a machine.
LEMMA LoadedMachine ==
    ASSUME NEW start \in Machines
    PROVE  IsMachine(Loaded(start))
<1> DEFINE mem == Image(start.mem, IF Len(file) <= LOAD_MAX THEN Len(file) ELSE LOAD_MAX)
           u == [start EXCEPT !.pc = START]
           v == [u EXCEPT !.mem = mem]
<1>1. IsMachine(start)
  BY MachinesAssumption
<1>2. IsMachine(u)
  BY <1>1, StartWord, PcChanged
<1>3. Loaded(start) = v
  <2>1. start = [regs |-> start.regs, cr |-> start.cr, pc |-> start.pc, mem |-> start.mem,
                 io |-> start.io]
    BY <1>1 DEF IsMachine
  <2> QED BY <2>1 DEF Loaded
<1> HIDE DEF u, mem
<1>4. IsMachine(v)
  BY <1>2, MemsChanged
<1> QED BY <1>3, <1>4, Zenon

\* What the machine became of the one in which the last statement began, in one round, or
\* in more if the first left LG set.
Since(k, after) ==
    \/ after = Execute(k)
    \/ LG \in Execute(k).cr[PSQ] /\ after = Execute(Execute(k))
    \/ LG \in Execute(k).cr[PSQ] /\ LG \in Execute(Execute(k)).cr[PSQ]

\* The inductive invariant behind MeansWhatItSays, for the machine.
RoundInv ==
    /\ m # Off => phase = "written" /\ err = "none" /\ IsMachine(m)
    /\ begun # Off => m # Off /\ IsMachine(begun) /\ LG \notin begun.cr[PSQ] /\ Since(begun, m)

\* RoundInv holds when the machine is off and is kept by every step.
LEMMA RoundInit ==
    ASSUME ToolchainInit
    PROVE  RoundInv
BY DEF ToolchainInit, RoundInv

LEMMA RoundStep ==
    ASSUME RoundInv, [ToolchainNext]_vars
    PROVE  RoundInv'
<1>1. CASE Assembling
  <2>1. AsmNext /\ UNCHANGED <<m, begun>>
    BY <1>1 DEF Assembling
  <2>2. phase \in {"first", "second"}
    BY <2>1 DEF AsmNext, RegisterLabel, FirstPass, Rewind, SkipLabel, SecondPass, Close, More
  <2>3. m = Off
    BY <2>2 DEF RoundInv
  <2> QED BY <2>1, <2>3 DEF RoundInv
<1>2. CASE Load
  <2>1. /\ phase = "written" /\ err = "none" /\ m = Off /\ UNCHANGED <<phase, err, begun>>
        /\ \E start \in Machines : m' = Loaded(start)
    BY <1>2 DEF Load, asmVars
  <2>2. IsMachine(m')
    BY <2>1, LoadedMachine
  <2> QED BY <2>1, <2>2 DEF RoundInv
<1>3. CASE Step
  <2>1. m # Off /\ m' = Execute(m) /\ UNCHANGED <<phase, err>>
    BY <1>3 DEF Step, asmVars
  <2>2. begun' = IF LG \in m.cr[PSQ] THEN begun ELSE m
    BY <1>3 DEF Step
  <2>3. phase = "written" /\ err = "none" /\ IsMachine(m)
    BY <2>1 DEF RoundInv
  <2>4. IsMachine(m')
    BY <2>1, <2>3, ExecuteMachine
  <2>5. m' # Off
    BY <2>4, OffIsNone
  <2>6. ASSUME begun' # Off
        PROVE  IsMachine(begun)' /\ LG \notin begun'.cr[PSQ] /\ Since(begun, m)'
    <3>1. CASE LG \notin m.cr[PSQ]
      <4>1. begun' = m
        BY <2>2, <3>1
      <4> QED BY <2>1, <2>3, <3>1, <4>1 DEF Since
    <3>2. CASE LG \in m.cr[PSQ]
      <4>1. begun' = begun
        BY <2>2, <3>2
      <4>2. IsMachine(begun) /\ LG \notin begun.cr[PSQ] /\ Since(begun, m)
        BY <2>6, <4>1 DEF RoundInv
      <4>3. Since(begun, m')
        BY <2>1, <3>2, <4>2 DEF Since
      <4> QED BY <4>1, <4>2, <4>3
    <3> QED BY <3>1, <3>2
  <2> QED BY <2>1, <2>3, <2>4, <2>5, <2>6 DEF RoundInv
<1>4. CASE UNCHANGED vars
  <2>1. UNCHANGED <<phase, err, m, begun>>
    BY <1>4 DEF vars, asmVars
  <2> QED BY <2>1 DEF RoundInv
<1> QED BY <1>1, <1>2, <1>3, <1>4 DEF ToolchainNext

\* Whatever is executed, data or code, the machine stays one: no register, control register
\* or program counter holds what is no word (cpu/risc2.c: the operations; cpu/lcca.h).
THEOREM MachineStays == ToolchainSpec => [](m # Off => IsMachine(m))
<1>1. RoundInv => (m # Off => IsMachine(m))
  BY DEF RoundInv
<1> QED BY <1>1, RoundInit, RoundStep, PTL DEF ToolchainSpec

-----------------------------------------------------------------------------
(* Programs.                                                                *)

\* Each statement of one word means what it says.
LEMMA StatementMeans ==
    ASSUME NEW s, NEW k, Ready(s, k), Row(s).form # "lgisl"
    PROVE  Means(s, k, Execute(k))
<1> DEFINE form == Row(s).form
           stored == {"ldca", "ldcas"} \cup DOMAIN Loads \cup DOMAIN Stores
<1>1. form \in {"rr", "mv", "id", "mcom", "mneg", "im"} => Means(s, k, Execute(k))
  BY ArithmeticMeans
<1>2. form = "bifn" => Means(s, k, Execute(k))
  BY FieldMeans
<1>3. form \in {"br", "j", "ret"} => Means(s, k, Execute(k))
  BY ControlMeans
<1>4. form \in {"cr", "rex"} \/ s.op = "svc" => Means(s, k, Execute(k))
  BY SystemMeans
<1>5. s.op \in stored => Means(s, k, Execute(k))
  BY MemoryMeans
<1>6. ASSUME form \notin {"rr", "mv", "id", "mcom", "mneg", "im", "lgisl", "bifn", "br", "j", "ret", "cr",
                          "rex"}, s.op # "svc", s.op \notin stored
      PROVE  Means(s, k, Execute(k))
  <2> DEFINE after == Execute(k)
  <2>1. Means(s, k, after) =
      CASE form \in {"rr", "mv", "id", "mcom", "mneg", "im", "lgisl"} -> MeansArithmetic(s, k, after)
        [] form = "bifn" -> MeansField(s, k, after)
        [] form \in {"br", "j", "ret"} -> MeansControl(s, k, after)
        [] form \in {"cr", "rex"} \/ s.op = "svc" -> MeansSystem(s, k, after)
        [] s.op \in stored -> MeansMemory(s, k, after)
        [] OTHER -> TRUE
    BY DEF Means, Row
  <2> HIDE DEF form, stored, after
  <2>2. Means(s, k, after)
    BY <1>6, <2>1
  <2> QED BY <2>2 DEF after
<1> QED BY <1>1, <1>2, <1>3, <1>4, <1>5, <1>6

\* The word at an address is, where the machine would fetch it, still that of the file.
FetchedFrom(k, p) ==
    LET a == Translate(k, p) IN
    /\ BusFault(a, 2, Readable) = "none" /\ ~InMmio(a)
    /\ \A j \in 0..3 : MemByte(k.mem, ToNat(a) + j) = file[ToNat(p) - 65535 + j]

\* The last statement stood where the file put it: no origin moved it away from its bytes,
\* and nothing was stored over them.  Its operands are what its form asks for.  And it did
\* not set LG, unless it is a long immediate: rex and mtcr can.
Undisturbed ==
    \A i \in 1..Len(places) :
        (places[i] = begun.pc /\ HasOp(src[i], DOMAIN Opcodes)) =>
            /\ Suited(src[i]) /\ Straight(i)
            /\ FetchedFrom(begun, begun.pc)
            /\ IF src[i].op = "ldgis" THEN FetchedFrom(begun, Plus(begun.pc, {2}))
               ELSE LG \notin Execute(begun).cr[PSQ]

\* A coded instruction is one word, or two if it is a long immediate.
LEMMA CodingSize ==
    ASSUME NEW s, NEW p, NEW ls
    PROVE  /\ Len(Coding(s, p, ls).bytes) = IF Row(s).form = "lgisl" THEN 8 ELSE 4
           /\ Coding(s, p, ls).bytes \in Seq(Byte)
<1> DEFINE r == Coding(s, p, ls)
           size == InstructionSize(Row(s))
<1>1. size \in Nat /\ size = IF Row(s).form = "lgisl" THEN 8 ELSE 4
  BY DEF InstructionSize
<1>2. \E v : r.bytes = Emit(v, size)
  BY DEF Coding, Instruction, Result
<1> HIDE DEF r, size
<1>3. r.bytes \in Seq(Byte) /\ Len(r.bytes) = size
  BY <1>1, <1>2, BytesWritten
<1> QED BY <1>1, <1>3 DEF r

\* Bytes of the file, fetched.
LEMMA FetchedBytes ==
    ASSUME NEW k, NEW p, NEW o \in Nat, o < 65536, p = Plus(START, Num(o)), FetchedFrom(k, p),
           NEW j \in 0..3
    PROVE  MemByte(k.mem, ToNat(Translate(k, p)) + j) = file[o + j + 1]
<1>1. ToNat(p) = 65536 + o
  BY LoadedAddress
<1>2. ToNat(p) - 65535 + j = o + j + 1
  BY <1>1
<1>3. MemByte(k.mem, ToNat(Translate(k, p)) + j) = file[ToNat(p) - 65535 + j]
  BY DEF FetchedFrom
<1> QED BY <1>2, <1>3

\* The address after an instruction is four bytes further into the file.
LEMMA NextAddress ==
    ASSUME NEW o \in Nat
    PROVE  Plus(Plus(START, Num(o)), {2}) = Plus(START, Num(o + 4))
<1>1. Num(o) \in Word64 /\ {2} \in Word64
  BY HalvesNum DEF Word64, Bits
<1>2. Plus(Plus(START, Num(o)), {2}) = Plus(START, Plus(Num(o), {2}))
  BY <1>1, StartWord, PlusAssociates
<1>3. Num(o + 4) = Plus(Num(o), Num(4))
  BY NumSum
<1> QED BY <1>2, <1>3, NumFour

\* LG is set between the two rounds of a long immediate, and off after them.
LEMMA LongFlag ==
    ASSUME NEW s, NEW k, IsMachine(k), Proper(s, k), StandsLong(s, k), Row(s).form = "lgisl"
    PROVE  LG \in Execute(k).cr[PSQ] /\ Execute(Execute(k)).cr[PSQ] = k.cr[PSQ]
<1> DEFINE a == R(s, 1)
           h == Left(IM_IMM(Get(WordOf(s, After(s, k)), 32, 32)), 41)
           l == Left(LGISL2_IMM(Get(WordOf(s, After(s, k)), 0, 32)), 14)
           rs == IF a = 0 THEN k.regs ELSE [k.regs EXCEPT ![a] = h]
           p == Plus(k.pc, {2})
           q == Plus(p, {2})
           k1 == Changed(k, rs, k.cr[PSQ] \cup {LG}, p)
           r == IF a = 0 THEN {} ELSE rs[a]
           rs2 == IF a = 0 THEN rs ELSE [rs EXCEPT ![a] = r \cup l]
<1>1. Execute(k) = k1
  BY LongFirst
<1>2. Execute(k1) = Changed(k, rs2, k.cr[PSQ], q)
  <2> HIDE DEF rs
  <2>1. ASSUME NEW k2, k2 = k1 PROVE Execute(k2) = Changed(k, rs2, k.cr[PSQ], q)
    BY <2>1, LongSecond
  <2> QED BY <2>1
<1>3. ASSUME NEW x, NEW psq, NEW y PROVE Changed(k, x, psq, y).cr[PSQ] = psq
  <2>1. k.cr \in [0..47 -> Word64] /\ PSQ \in 0..47
    BY MachineIs DEF PSQ
  <2> QED BY <2>1 DEF Changed
<1>4. k1.cr[PSQ] = k.cr[PSQ] \cup {LG}
  BY <1>3
<1>5. Changed(k, rs2, k.cr[PSQ], q).cr[PSQ] = k.cr[PSQ]
  BY <1>3
<1> HIDE DEF k1, rs2, q
<1> QED BY <1>1, <1>2, <1>4, <1>5

\* In any program that was assembled and loaded whole, a statement does what it says, if it
\* is executed where it stands: MeansWhatItSays, for every source file and every machine.
THEOREM ProgramsMean == ToolchainSpec => [](Undisturbed => MeansWhatItSays)
<1>1. ASSUME FileInv, CodeInv, RoundInv, Undisturbed PROVE MeansWhatItSays
  <2> SUFFICES ASSUME begun # Off, Whole, LG \notin m.cr[PSQ], NEW i \in 1..Len(places),
                      places[i] = begun.pc, HasOp(src[i], DOMAIN Opcodes)
               PROVE  Means(src[i], begun, m)
    BY DEF MeansWhatItSays, HasOp
  <2> DEFINE s == src[i]
             bytes == Coding(s, begun.pc, labels).bytes
  <2>1. m # Off /\ IsMachine(begun) /\ LG \notin begun.cr[PSQ] /\ Since(begun, m)
    BY <1>1 DEF RoundInv
  <2>2. phase = "written" /\ err = "none" /\ WrittenInv
    BY <1>1, <2>1 DEF RoundInv, FileInv
  <2>3. /\ Suited(s) /\ Straight(i) /\ FetchedFrom(begun, begun.pc)
        /\ s.op = "ldgis" => FetchedFrom(begun, Plus(begun.pc, {2}))
        /\ s.op # "ldgis" => LG \notin Execute(begun).cr[PSQ]
    BY <1>1 DEF Undisturbed
  <2>4. i \in 1..(at - 1)
    BY <2>2 DEF WrittenInv
  <2>5. Coding(s, begun.pc, labels).err = "none" /\ Holds(i, bytes)
    <3>1. Coded(i)
      BY <1>1, <2>2, <2>3, <2>4 DEF CodeInv, IsCode
    <3> QED BY <2>3, <3>1 DEF Coded
  <2>6. Assembled(s, begun) = Coding(s, begun.pc, labels)
    BY DEF Assembled, Coding, Row
  <2>7. Proper(s, begun)
    <3>1. Len(s.args) \in Nat
      <4>1. src \in Sources /\ at \in 1..(Len(src) + 1)
        BY <1>1 DEF FileInv
      <4>2. IsFile(src)
        BY <4>1, SourcesAssumption
      <4>3. i \in 1..Len(src)
        BY <2>4, <4>1, <4>2 DEF IsFile
      <4>4. IsStatement(s)
        BY <4>2, <4>3 DEF IsFile
      <4> QED BY <4>4 DEF IsStatement, HasOp
    <3>2. LabelsAreWords
      BY <1>1 DEF FileInv, AreWords, LabelsAreWords
    <3> QED BY <2>3, <2>5, <2>6, <3>1, <3>2 DEF Proper, Suited, HasOp
  <2>8. PICK o \in 0..Len(file) :
          /\ begun.pc = Plus(START, Num(o)) /\ o + Len(bytes) <= Len(file)
          /\ \A j \in 1..Len(bytes) : file[o + j] = bytes[j]
    BY <2>5 DEF Holds
  <2>9. Len(file) \in Nat /\ Len(file) <= 65536
    <3>1. Len(file) \in Nat
      <4>1. file \in Seq(Byte)
        BY <2>2 DEF WrittenInv
      <4> HIDE DEF s, bytes
      <4> QED BY <4>1, LenProperties
    <3>2. Len(file) <= LOAD_MAX
      BY DEF Whole
    <3> HIDE DEF s, bytes
    <3> QED BY <3>1, <3>2, LoadLimit, SMT
  <2>10. Len(bytes) = IF Row(s).form = "lgisl" THEN 8 ELSE 4
    BY CodingSize
  <2>11. s.op \in DOMAIN Opcodes
    BY DEF HasOp
  <2> HIDE DEF s, bytes
  <2>12. o \in Nat /\ o < 65536
    BY <2>8, <2>9, <2>10
  <2>13. ASSUME NEW j \in 0..3
         PROVE  MemByte(begun.mem, ToNat(Translate(begun, begun.pc)) + j) = bytes[j + 1]
    <3>1. j + 1 \in 1..Len(bytes) /\ o + j + 1 = o + (j + 1)
      BY <2>10, <2>12
    <3>2. MemByte(begun.mem, ToNat(Translate(begun, begun.pc)) + j) = file[o + j + 1]
      BY <2>3, <2>8, <2>12, FetchedBytes
    <3>3. file[o + (j + 1)] = bytes[j + 1]
      BY <2>8, <3>1
    <3> QED BY <3>1, <3>2, <3>3
  <2>14. CASE s.op # "ldgis"
    <3>1. Row(s).form # "lgisl"
      BY <2>11, <2>14, LongName DEF Row
    <3>2. Stands(s, begun)
      BY <2>1, <2>3, <2>5, <2>6, <2>13 DEF Stands, FetchedFrom, bytes
    <3>3. m = Execute(begun)
      BY <2>1, <2>3, <2>14 DEF Since
    <3>4. Means(s, begun, Execute(begun))
      BY <2>1, <2>7, <3>1, <3>2, StatementMeans DEF Ready
    <3> QED BY <3>3, <3>4 DEF s
  <2>15. CASE s.op = "ldgis"
    <3> DEFINE q == Plus(begun.pc, {2})
    <3>1. Row(s).form = "lgisl"
      BY <2>15, LongRow DEF Row
    <3>2. q = Plus(START, Num(o + 4)) /\ o + 4 \in Nat /\ o + 4 < 65536
      BY <2>8, <2>9, <2>10, <2>12, <3>1, NextAddress
    <3>3. ASSUME NEW j \in 0..3
          PROVE  MemByte(begun.mem, ToNat(Translate(begun, q)) + j) = bytes[j + 5]
      <4>1. j + 5 \in 1..Len(bytes) /\ o + 4 + j + 1 = o + (j + 5)
        BY <2>10, <2>12, <3>1
      <4>2. FetchedFrom(begun, q)
        BY <2>3, <2>15
      <4> HIDE DEF q
      <4>3. MemByte(begun.mem, ToNat(Translate(begun, q)) + j) = file[o + 4 + j + 1]
        BY <3>2, <4>2, FetchedBytes
      <4> QED BY <2>8, <4>1, <4>3
    <3>4. StandsLong(s, begun)
      BY <2>1, <2>3, <2>5, <2>6, <2>13, <2>15, <3>3 DEF StandsLong, FetchedFrom, bytes
    <3>5. LG \in Execute(begun).cr[PSQ] /\ LG \notin Execute(Execute(begun)).cr[PSQ]
      BY <2>1, <2>7, <3>1, <3>4, LongFlag
    <3>7. m = Execute(Execute(begun))
      BY <2>1, <3>5 DEF Since
    <3>8. Means(s, begun, Execute(Execute(begun)))
      BY <2>1, <2>7, <2>15, <3>4, LongImmediateMeans
    <3> QED BY <3>7, <3>8 DEF s
  <2> QED BY <2>14, <2>15
<1>2. ToolchainInit => CodeInv
  BY DEF ToolchainInit, AsmInit, CodeInv
<1> QED BY <1>1, <1>2, FileInit, FileStep, CodeStep, RoundInit, RoundStep, PTL DEF ToolchainSpec
=============================================================================

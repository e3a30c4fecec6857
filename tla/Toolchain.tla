----------------------------- MODULE Toolchain -----------------------------
(***************************************************************************)
(* The assembler and the machine together: a file is assembled, the        *)
(* emulator loads what was written and runs it.  What the machine does is  *)
(* set beside what the statements of the source say, which is put in terms *)
(* of registers, labels and numbers and knows of no fields or encodings.   *)
(***************************************************************************)
EXTENDS Asm, Isa

CONSTANTS Machines,   \* in which the program may start
          LOAD_MAX    \* how many bytes main loads: 0x10000

\* 31 registers that are not zero, 48 control registers and a program counter, all words;
\* a memory, and the calls made.
IsMachine(k) ==
    /\ k = [regs |-> k.regs, cr |-> k.cr, pc |-> k.pc, mem |-> k.mem, io |-> k.io]
    /\ k.regs \in [1..31 -> Word64] /\ k.cr \in [0..47 -> Word64] /\ k.pc \in Word64

ASSUME MachinesAssumption == \A start \in Machines : IsMachine(start)
ASSUME LoadAssumption == LOAD_MAX \in Nat /\ LOAD_MAX <= 65536

VARIABLES m,         \* the machine,
          steps,     \* the words it executed,
          begun      \* History: the machine when the last statement began

vars == <<asmVars, m, steps, begun>>

Off == [pc |-> {}]

ToolchainInit == AsmInit /\ m = Off /\ steps = 0 /\ begun = Off

Assembling == AsmNext /\ UNCHANGED <<m, steps, begun>>

\* main of the emulator, with a file that was assembled to its end.  What is too much
\* for fread is left out without a word.
Image(mem, size) ==
    [n \in DOMAIN mem \cup 65536..(65535 + size) |->
        IF n \in 65536..(65535 + size) THEN file[n - 65535] ELSE mem[n]]
Loaded(start) ==
    [start EXCEPT !.pc = START,
                  !.mem = Image(@, IF Len(file) <= LOAD_MAX THEN Len(file) ELSE LOAD_MAX)]
Load ==
    /\ phase = "written" /\ err = "none" /\ m = Off
    /\ \E start \in Machines : m' = Loaded(start)
    /\ UNCHANGED <<asmVars, steps, begun>>

Step ==
    /\ m # Off /\ steps < 2 * Len(src)   \* Bound: twice the statements
    /\ m' = Execute(m) /\ steps' = steps + 1
    /\ begun' = IF LG \in m.cr[PSQ] THEN begun ELSE m
    /\ UNCHANGED asmVars

ToolchainNext == Assembling \/ Load \/ Step
ToolchainSpec == ToolchainInit /\ [][ToolchainNext]_vars
-----------------------------------------------------------------------------
(* What statements mean.  The size of the datum, as the exponent of 2.      *)
Loads == [ldc |-> 0, ldcz |-> 0, ldw |-> 1, ldwz |-> 1, ld |-> 2, ldz |-> 2, ldq |-> 3,
          ldcs |-> 0, ldczs |-> 0, ldws |-> 1, ldwzs |-> 1, lds |-> 2, ldzs |-> 2, ldqs |-> 3]
Stores == [stc |-> 0, stw |-> 1, st |-> 2, stq |-> 3, stcs |-> 0, stws |-> 1, sts |-> 2, stqs |-> 3]
Extending == {"ldc", "ldw", "ld", "ldcs", "ldws", "lds"}
Branches == {"br", "call", "bez", "bnz", "bgz", "blez"}

RegNo(x) == IF IsNum(x) THEN ToNat(x.num) ELSE x.reg
Given(x) == IF IsNum(x) THEN x.num ELSE LabelValue(x, labels)

\* A number that fits in so many bits with its sign, and a multiple of 2^k.
Fits(v, bits) == v \subseteq 0..(bits - 2) \/ (bits - 1)..63 \subseteq v
Multiple(v, k) == v \cap 0..(k - 1) = {}

\* Sums of three words without loss.
Wide(x) == IF Negative(x) THEN x \cup 64..66 ELSE x
WideSum(x, y) == PlusIn(67, x, y)
WideNeg(x) == WideSum(0..66 \ x, {0})
FitsWord(w) == 63..66 \subseteq w \/ 63..66 \cap w = {}

\* A machine after a trap: the program goes on after the statement.
Trapped(before, after, e, next) ==
    /\ after.pc = Plus(before.cr[IA], Num(64 * ErrorNumber(e)))
    /\ after.cr[APC] = next /\ after.cr[APSQ] = before.cr[PSQ]
    /\ AE \notin before.cr[PSQ] => after.regs = before.regs
    /\ after.mem = before.mem /\ after.io = before.io

\* What an addition of terms, or a subtraction of the sum of two, leaves in a
\* register; with OC set, a trap if the sum is no signed word.  There the sum of the
\* two must be one, and not the least: the machine tests no more than the last sum.
Adds(b, c, d, subtract, a, before, after, next) ==
    LET two == WideSum(Wide(c), Wide(d))
        all == WideSum(Wide(b), IF subtract THEN WideNeg(two) ELSE two)
    IN  IF OC \notin before.cr[PSQ]
          THEN after = [SetReg(before, a, all \cap Bits) EXCEPT !.pc = next]
        ELSE FitsWord(two) /\ ~(subtract /\ two \cap Bits = {Sign})
             => IF FitsWord(all)
                  THEN after = [SetReg(before, a, all \cap Bits) EXCEPT !.pc = next]
                  ELSE Trapped(before, after, "OVRF", next)

\* The operands of a statement: a register's number, what the register holds, and
\* the number or the label's value; the last, if it is one more than there must be.
R(s, i) == RegNo(s.args[i])
X(s, i, before) == Reg(before, R(s, i))
V(s, i) == Given(s.args[i])
Last0(s, least) == IF Len(s.args) > least THEN V(s, Len(s.args)) ELSE {}

After(s, before) == Plus(before.pc, Num(InstructionSize(Opcodes[s.op])))
Goes(before, after, to) == after = [before EXCEPT !.pc = to]
To(s, before, after, v) == Goes(SetReg(before, R(s, 1), v), after, After(s, before))

MeansArithmetic(s, before, after) ==
    LET n == Len(s.args)
        x(i) == X(s, i, before)
        b == IF n = 2 THEN x(1) ELSE x(2)
        c == IF n = 2 THEN x(2) ELSE x(3)
        d == Last0(s, 3)
        k == ToInt(Plus(c, d))
        to(v) == To(s, before, after, v)
        sum(p, q, t, subtract) == Adds(p, q, t, subtract, R(s, 1), before, after, After(s, before))
        moved == IF k >= 0 THEN Left(b, k) ELSE Right(b, -k)
        sign == IF s.op = "sal" /\ Negative(b) THEN (64 + k)..63 ELSE {}
        If(p) == IF p THEN to(c) ELSE Goes(before, after, After(s, before))
    IN  Fits(d, 10) =>
        CASE s.op = "mov"   -> to(x(2))
          [] s.op = "inc"   -> sum(x(1), {}, {0}, FALSE)
          [] s.op = "dec"   -> sum(x(1), {}, {0}, TRUE)
          [] s.op = "mneg"  -> sum({}, x(2), {}, TRUE)
          [] s.op = "mcom"  -> OC \notin before.cr[PSQ] => to(Not(x(2)))
          [] s.op = "add"   -> sum(b, c, d, FALSE)
          [] s.op = "sub"   -> sum(b, c, d, TRUE)
          [] s.op = "and"   -> to(b \cap (c \cup d))
          [] s.op = "or"    -> to(UNION {b, c, d})
          [] s.op = "xor"   -> to(Xor(Xor(b, c), d))
          [] s.op = "setxc" -> to(IF Above(b, Plus(c, d)) THEN {0} ELSE {})
          [] s.op \in {"shl", "sal"} -> k \in -63..63 => to(moved \cup sign)
          [] s.op = "moveq" -> If(b = d)
          [] s.op = "movne" -> If(b # d)
          [] s.op = "movgt" -> If(Above(b, d))
          [] s.op = "movle" -> If(b = d \/ Above(d, b))
          [] s.op \in {"ldi", "ldis"} -> Fits(V(s, 2), 23) =>
               to(Left(V(s, 2), IF s.op = "ldi" THEN 0 ELSE 9))
          [] s.op = "ldgis" -> Fits(V(s, 2), 50) => to(Left(V(s, 2), 14))

\* extn and bifn take the field of so many bits and one more at a bit, with its sign or
\* not; extnm takes it at bit 0, and the sign only as far as the other number says.
\* Both are six bits; asm_bifn lets numbers below zero pass, which mean nothing.
MeansField(s, before, after) ==
    LET c == X(s, 4, before)
        p == ToNat(V(s, 2))
        q == ToNat(V(s, 3))
        six == V(s, 2) \subseteq 0..5 /\ V(s, 3) \subseteq 0..5
        to(v) == To(s, before, after, v)
    IN  six =>
        CASE s.op = "extn"  -> p + q < 64 => to(Ext(Get(c, p, q + 1), q + 1))
          [] s.op = "bifn"  -> p + q < 64 => to(Get(c, p, q + 1))
          [] s.op = "extnm" -> to(Ext(Get(c, 0, q + 1), q + 1) \cap 0..p)

\* The displacement is one of bytes, and must be a multiple of the datum.  The forms
\* with a selector name one of eight objects of the level.
MeansMemory(s, before, after) ==
    LET selected == Opcodes[s.op].form = "lss"
        least == IF selected THEN 3 ELSE 2
        disp == Last0(s, least)
        sum == Plus(X(s, least, before), disp)
        object == R(s, 2) + IF PL \in before.cr[PSQ] THEN 0 ELSE 4
        va == IF selected THEN (sum \cap 0..59) \cup Left(Num(object), 60) ELSE sum
        address == Translate(before, va)
        loads == s.op \in DOMAIN Loads
        k == IF loads THEN Loads[s.op]
             ELSE IF s.op \in DOMAIN Stores THEN Stores[s.op] ELSE 0
        in == BusRead(before.mem, address, k)
        fault == IF loads THEN in.e ELSE BusFault(address, k, Writable)
        \* A store leaves the datum for a load, and nothing else.
        stored == /\ BusRead(after.mem, address, k).v = Get(X(s, 1, before), 0, 8 * 2^k)
                  /\ \A n \in (DOMAIN before.mem \cup DOMAIN after.mem)
                             \ ToNat(address)..(ToNat(address) + 2^k - 1) :
                        MemByte(after.mem, n) = MemByte(before.mem, n)
                  /\ Goes([before EXCEPT !.mem = after.mem], after, After(s, before))
    IN  /\ Fits(disp, IF selected THEN 12 ELSE 15) /\ disp \cap 0..(k - 1) = {}
        /\ selected => R(s, 2) \in 0..7
        =>
        IF s.op \in {"ldca", "ldcas"} THEN To(s, before, after, va)
        ELSE IF fault # "none" THEN Trapped(before, after, fault, After(s, before))
        ELSE IF loads
          THEN To(s, before, after, IF s.op \in Extending THEN Ext(in.v, 8 * 2^k) ELSE in.v)
          ELSE ~InMmio(address) => stored

\* A branch goes to its label, or so far from the next statement; with a register, so
\* much farther.
MeansControl(s, before, after) ==
    LET next == After(s, before)
        n == Len(s.args)
        there == IF IsNum(s.args[n]) THEN Plus(next, V(s, n)) ELSE V(s, n)
        x == IF n = 2 THEN X(s, 1, before) ELSE {}
        j == Plus(X(s, 1, before), Last0(s, 1))
        goes(to) == Goes(before, after, to)
        If(p) == goes(IF p THEN there ELSE next)
        links(to) == Goes(SetReg(before, LR, next), after, to)
        near == Fits(Minus(there, next), 22) /\ there \cap 0..1 = {}
        word == Last0(s, 1)
    IN  CASE s.op = "br"    -> near => goes(Plus(there, x))
          [] s.op = "call"  -> near => links(Plus(there, x))
          [] s.op = "bez"   -> near => If(x = {})
          [] s.op = "bnz"   -> near => If(x # {})
          [] s.op = "bgz"   -> near => If(x # {} /\ ~Negative(x))
          [] s.op = "blez"  -> near => If(x = {} \/ Negative(x))
          [] s.op = "jmp"   -> Fits(word, 22) /\ word \cap 0..1 = {} => goes(j)
          [] s.op = "callf" -> Fits(word, 22) /\ word \cap 0..1 = {} => links(j)
          [] s.op = "ret"   -> goes(Reg(before, LR))

\* The control register is the last operand, the mask the second of three.
MeansSystem(s, before, after) ==
    LET n == Len(s.args)
        mask == IF n = 3 THEN X(s, 2, before) ELSE {}
        which == s.args[n].cr
        words == IF n = 2 THEN {} ELSE Left(V(s, n), 2)
        next == After(s, before)
    IN  IF PL \in before.cr[PSQ] /\ s.op # "svc" THEN Trapped(before, after, "IPLT", next)
        ELSE CASE s.op = "svc"  -> Trapped(before, after, "SVCT", next)
               [] s.op = "mfcr" -> To(s, before, after, before.cr[which] \ mask)
               [] s.op = "mtcr" -> Goes([before EXCEPT !.cr[which] = X(s, 1, before) \cup mask],
                                        after, next)
               [] s.op = "rex"  -> (n # 2 => Fits(V(s, n), 15)) =>
                                   /\ after.pc = Plus(before.cr[APC], words)
                                   /\ after.cr[PSQ] = before.cr[APSQ]

Means(s, before, after) ==
    LET form == Opcodes[s.op].form IN
    CASE form \in {"rr", "mv", "id", "mcom", "mneg", "im", "lgisl"} ->
           MeansArithmetic(s, before, after)
      [] form = "bifn" -> MeansField(s, before, after)
      [] form \in {"br", "j", "ret"} -> MeansControl(s, before, after)
      [] form \in {"cr", "rex"} \/ s.op = "svc" -> MeansSystem(s, before, after)
      [] s.op \in {"ldca", "ldcas"} \cup DOMAIN Loads \cup DOMAIN Stores ->
           MeansMemory(s, before, after)
      [] OTHER -> TRUE

\* The file is one that main loads to its end.
Whole == Len(file) <= LOAD_MAX

(* MeansWhatItSays: what the machine makes of an assembled statement is    *)
(* what the statement says: its operands arrive where the operation looks  *)
(* for them, aliases do what they are named for, displacements are scaled  *)
(* as often as they are unscaled, both words of a long immediate make one  *)
(* value, and with OC set a sum that is no signed word traps.  (trap is    *)
(* not among them: asm_tr assembles it as svc.)                            *)
MeansWhatItSays ==
    (begun # Off /\ Whole /\ LG \notin m.cr[PSQ]) =>
        \A i \in 1..Len(places) :
            (places[i] = begun.pc /\ "op" \in DOMAIN src[i] /\ src[i].op \in DOMAIN Opcodes)
                => Means(src[i], begun, m)

(* DataArrives: an item of data is what the machine reads at the address   *)
(* that the assembler has for it.                                          *)
DataArrives ==
    (m # Off /\ Whole /\ steps = 0) =>
        \A i \in 1..Len(places) :
            ("op" \in DOMAIN src[i] /\ src[i].op \in DOMAIN Data /\ Straight(i)) =>
                LET size == Data[src[i].op] IN
                MemRead(m.mem, ToNat(places[i]), size)
                    = Value(src[i].args, labels) \cap 0..(8 * size - 1)
=============================================================================

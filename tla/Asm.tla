-------------------------------- MODULE Asm --------------------------------
(***************************************************************************)
(* The assembler (asm/*.c): two passes over one source file.  The first    *)
(* registers labels, the second takes their values and writes.  A source   *)
(* file is a sequence of statements, its tokens already told apart: a      *)
(* label is [label |-> name], an instruction or a directive is             *)
(* [op |-> mnemonic, args |-> operands].  An operand is a number           *)
(* [num |-> word], a register [reg |-> number], a control register         *)
(* [cr |-> number], a label [name |-> label, part |-> what follows its @], *)
(* or a quoted text [text |-> bytes].                                      *)
(***************************************************************************)
EXTENDS Word, SequencesExt

CONSTANT Sources    \* the source files

IsOperand(x) ==
    /\ "num" \in DOMAIN x => x.num \in Word64
    /\ "text" \in DOMAIN x => x.text \in Seq(SUBSET (0..7))
IsStatement(s) ==
    \/ DOMAIN s = {"label"}
    \/ /\ DOMAIN s = {"op", "args"}
       /\ Len(s.args) \in Nat /\ \A i \in 1..Len(s.args) : IsOperand(s.args[i])
IsFile(s) ==
    Len(s) \in Nat /\ s = [i \in 1..Len(s) |-> s[i]] /\ \A i \in 1..Len(s) : IsStatement(s[i])
ASSUME SourcesAssumption == \A s \in Sources : IsFile(s)

VARIABLES src,      \* the file that is assembled,
          phase,    \* "first" and "second" pass, "failed", "written",
          at,       \* the statement that is next,
          pc, err, labels,
          file,     \* the bytes of the output
          misled,   \* History: the first pass passed over something,
          firsts,   \* History: where the first pass found the statements,
          places    \* History: and where the second did

asmVars == <<src, phase, at, pc, err, labels, file, misled, firsts, places>>

\* Where main has pc begin.
START == {16}
-----------------------------------------------------------------------------
(* Instructions: opcode, function, the form of the operands, and how far a  *)
(* displacement is shifted.                                                 *)
I(op, fn, form) == [op |-> op, fn |-> fn, form |-> form, shamt |-> 0]
LsRow(op, fn, shamt) == [op |-> op, fn |-> fn, form |-> "ls", shamt |-> shamt]
LssRow(op, fn, shamt) == [op |-> op, fn |-> fn, form |-> "lss", shamt |-> shamt]

Opcodes ==
    [add |-> I(0, 0, "rr"), mov |-> I(0, 0, "mv"), inc |-> I(0, 0, "id"),
     sub |-> I(0, 1, "rr"), mcom |-> I(0, 1, "mcom"), mneg |-> I(0, 1, "mneg"),
     dec |-> I(0, 1, "id"), and |-> I(0, 2, "rr"), or |-> I(0, 3, "rr"),
     xor |-> I(0, 4, "rr"), shl |-> I(0, 5, "rr"), sal |-> I(0, 6, "rr"),
     setxc |-> I(0, 7, "rr"),
     br |-> I(1, 0, "br"), jmp |-> I(1, 1, "j"), ret |-> I(1, 1, "ret"),
     call |-> I(1, 2, "br"), callf |-> I(1, 3, "j"), bez |-> I(1, 4, "br"),
     bnz |-> I(1, 5, "br"), bgz |-> I(1, 6, "br"), blez |-> I(1, 7, "br"),
     ldc |-> LsRow(2, 0, 0), ldcz |-> LsRow(2, 1, 0), ldw |-> LsRow(2, 2, 1), ldwz |-> LsRow(2, 3, 1),
     ld |-> LsRow(2, 4, 2), stc |-> LsRow(2, 5, 0), stw |-> LsRow(2, 6, 1), st |-> LsRow(2, 7, 2),
     ldz |-> LsRow(3, 0, 2), ldq |-> LsRow(3, 1, 3), ldca |-> LsRow(3, 2, 0), stq |-> LsRow(3, 3, 3),
     extn |-> I(3, 4, "bifn"), extnm |-> I(3, 5, "bifn"), bifn |-> I(3, 6, "bifn"),
     ldi |-> I(4, 0, "im"), ldis |-> I(5, 0, "im"), ldgis |-> I(6, 0, "lgisl"),
     ldlin |-> LsRow(7, 0, 0), ldat |-> LsRow(7, 1, 0), ldtr |-> LsRow(7, 2, 0),
     invpg |-> I(7, 3, "invpg"), mfva |-> LsRow(7, 4, 0), mtva |-> LsRow(7, 5, 0),
     mfpa |-> LsRow(7, 6, 0), mtpa |-> LsRow(7, 7, 0),
     ldcs |-> LssRow(10, 0, 0), ldczs |-> LssRow(10, 1, 0), ldws |-> LssRow(10, 2, 1),
     ldwzs |-> LssRow(10, 3, 1), lds |-> LssRow(10, 4, 2), stcs |-> LssRow(10, 5, 0),
     stws |-> LssRow(10, 6, 1), sts |-> LssRow(10, 7, 2),
     ldzs |-> LssRow(11, 0, 2), ldqs |-> LssRow(11, 1, 3), ldcas |-> LssRow(11, 2, 0),
     stqs |-> LssRow(11, 3, 3),
     moveq |-> I(12, 0, "rr"), movne |-> I(12, 1, "rr"), movgt |-> I(12, 2, "rr"),
     movle |-> I(12, 3, "rr"),
     svc |-> LsRow(14, 0, 0), srand |-> I(14, 1, "srand"), rand |-> I(14, 2, "rand"),
     mfcr |-> I(14, 3, "cr"), mtcr |-> I(14, 4, "cr"), rex |-> I(14, 5, "rex"),
     trap |-> I(14, 6, "tr"), hvc |-> LsRow(14, 7, 0)]

Data == [dc |-> 1, dw |-> 2, dl |-> 4, dq |-> 8]
Sizing == {"align", "zero", "origin"}

\* An operand of an instruction: what it may be, its bits, and its fields: from
\* a bit, so many, at a bit of the instruction.
Operand(kind, bits, fields) == [kind |-> kind, bits |-> bits, fields |-> fields]
InRegister(ats) == Operand("reg", 5, {<<0, 5, a>> : a \in ats})
A == InRegister({23})
B == InRegister({5})
C == InRegister({0})
AandB == InRegister({23, 5})
Number(bits, from, width, to) == Operand("num", bits, {<<from, width, to>>})

\* The operands of a form, in the order in which they are evaluated.  (A rex without
\* operands would take the next word of the file for one: it is in no source here.)
Forms(d) ==
    LET disp == Number(15, d.shamt, 15, 5)
        long == Operand("num", 50, {<<0, 23, 0>>, <<23, 27, 28>>})
        rel  == Operand("rel", 22, {<<2, 20, 0>>})
        sel  == Operand("reg", 5, {<<0, 3, 17>>})
        cr   == Operand("cr", 15, {<<0, 15, 5>>})
        shamt == Operand("lit", 6, {<<0, 6, 11>>})
        \* bit | (shamt << 6) is an int: a bit below zero fills the field of shamt too.
        bit  == Operand("lit", 6, {<<0, 12, 5>>})
    IN  CASE d.form = "rr"    -> {<<AandB, C>>, <<A, B, C>>, <<A, B, C, Number(10, 0, 10, 10)>>}
          [] d.form = "mv"    -> {<<A, B>>}
          [] d.form \in {"mcom", "mneg"} -> {<<A, C>>}
          [] d.form = "id"    -> {<<AandB>>}
          [] d.form = "srand" -> {<<C>>}
          [] d.form = "rand"  -> {<<A>>}
          [] d.form = "br"    -> {<<rel>>, <<A, rel>>}
          [] d.form = "j"     -> {<<A>>, <<Number(22, 2, 20, 0), A>>}
          [] d.form = "ret"   -> {<<>>}
          [] d.form = "invpg" -> {<<C>>, <<Number(10, 0, 10, 5), C>>}
          [] d.form = "im"    -> {<<A, Number(23, 0, 23, 0)>>}
          [] d.form = "tr"    -> {<<disp>>}
          [] d.form = "lgisl" -> {<<InRegister({23, 55}), long>>}
          [] d.form = "ls"    -> {<<A, C>>, <<A, C, disp>>}
          [] d.form = "lss"   -> {<<A, sel, C>>, <<A, sel, C, Number(12, d.shamt, 12, 5)>>}
          [] d.form = "rex"   -> {<<disp>>, <<A, C>>, <<A, C, disp>>}
          [] d.form = "cr"    -> {<<A, cr>>, <<A, C, cr>>}
          [] d.form = "bifn"  -> {<<A, shamt, bit, C>>}

Ordered(d, args) == IF d.form \in {"j", "invpg"} THEN Reverse(args) ELSE args
InstructionSize(d) == IF d.form = "lgisl" THEN 8 ELSE 4

\* What an instruction is before its operands: asm_tr leaves out the function.
Fixed(d) ==
    Field(Num(d.op), 8 * InstructionSize(d) - 4, 4)
      \cup (IF d.form = "tr" THEN {} ELSE Field(Num(d.fn), 20, 3))
      \cup (IF d.form \in {"mcom", "id"} THEN {10} ELSE {})
      \cup (IF d.form = "ret" THEN 23..27 ELSE {})
Placed(v, fields) == UNION {Field(Right(v, f[1]), f[3], f[2]) : f \in fields}
Encoded(d, os, vs) == Fixed(d) \cup UNION {Placed(vs[i], os[i].fields) : i \in 1..Len(os)}
-----------------------------------------------------------------------------
(* Operands.                                                                *)
IsNum(x) == "num" \in DOMAIN x
IsLabel(x) == "name" \in DOMAIN x

\* get_number: from the least negative to the largest positive number of so many bits.
InRange(v, bits) == v \subseteq 0..(bits - 1) \/ (bits - 1)..63 \subseteq v

\* A label more.
Labelled(ls, name, v) == [x \in DOMAIN ls \cup {name} |-> IF x = name THEN v ELSE ls[x]]

\* label_cmd.
LabelError(x, ls, e) ==
    IF ~(IsLabel(x) /\ x.name \in DOMAIN ls) THEN "unresolved"
    ELSE IF x.part \in {"", "gh", "gl", "h", "l"} \cup DOMAIN ls THEN e ELSE "syntax"
LabelValue(x, ls) ==
    LET v == ls[x.name] IN
    CASE x.part = ""   -> v
      [] x.part = "gh" -> Right(v, 14)
      [] x.part = "gl" -> v \cap 0..13
      [] x.part = "h"  -> Right(v, 9)
      [] x.part = "l"  -> v \cap 0..8
      [] OTHER         -> Minus(v, ls[x.part])

\* Mutant: a number leaves the error that an earlier statement left.
ErrorAfter_KeepsError(o, x, ls, e) ==
    IF IsNum(x) THEN IF InRange(x.num, o.bits) THEN e ELSE "syntax"
    ELSE IF o.kind \in {"num", "rel"} THEN LabelError(x, ls, e)
    ELSE IF o.kind \in DOMAIN x THEN e ELSE "syntax"

\* What the evaluation of an operand makes of err.  A number sets it, to no error if
\* it is in its range; the name of a register, and a label with a value, leave it.
ErrorAfter(o, x, ls, e) ==
    IF IsNum(x) THEN IF InRange(x.num, o.bits) THEN "none" ELSE "syntax"
    ELSE IF o.kind \in {"num", "rel"} THEN LabelError(x, ls, e)
    ELSE IF o.kind \in DOMAIN x THEN e ELSE "syntax"

ValueOf(o, x, ls, p) ==
    CASE IsNum(x)                        -> x.num
      [] o.kind = "reg" /\ ~IsNum(x)     -> Num(x.reg)
      [] o.kind = "cr" /\ ~IsNum(x)      -> Num(x.cr)
      [] o.kind = "num" /\ ~IsNum(x)     -> LabelValue(x, ls)
      [] o.kind = "rel" /\ ~IsNum(x)     -> Minus(LabelValue(x, ls), p)

\* The operands are evaluated up to the first that leaves an error, be it its own or
\* one that an earlier statement left.
Evaluated(os, xs, ls, e) ==
    LET after(i) == ErrorAfter(os[i], xs[i], ls, IF i = 1 THEN e ELSE "none")
        bad == {i \in 1..Len(os) : after(i) # "none"}
    IN  IF os = <<>> THEN e ELSE IF bad = {} THEN "none" ELSE after(Min(bad))

\* emit.
Emit(v, size) == [i \in 1..size |-> Get(v, 8 * (size - i), 8)]

Zeroes(n) == [i \in 1..n |-> {}]
-----------------------------------------------------------------------------
(* asm_any, for each kind of statement: what it leaves of pc, err, the      *)
(* labels, and what it writes in the second pass.                           *)
Result(p, e, ls, bytes) == [pc |-> p, err |-> e, labels |-> ls, bytes |-> bytes]

Instruction(d, args, p, e, ls) ==
    LET size == InstructionSize(d)
        next == Plus(p, Num(size))
        xs == Ordered(d, args)
        fits == {os \in Forms(d) : Len(os) = Len(xs)}
        os == CHOOSE o \in fits : TRUE
        after == IF fits = {} THEN "syntax" ELSE Evaluated(os, xs, ls, e)
        word == Encoded(d, os, [i \in 1..Len(os) |-> ValueOf(os[i], xs[i], ls, next)])
    IN  Result(next, after, ls, Emit(IF after = "none" THEN word ELSE {}, size))

\* A directive with one value, or define with two: the value is the last operand.
WithValue(args, n, bits, ls, e) ==
    IF Len(args) # n THEN "syntax"
    ELSE ErrorAfter(Operand("num", bits, {}), Last(args), ls, e)
Value(args, ls) == ValueOf(Operand("num", 64, {}), Last(args), ls, {})

\* Mutant: the value goes through an int.
DataItem_Int(size, args, p, e, ls) ==
    LET after == WithValue(args, 1, 8 * size, ls, e) IN
    Result(Plus(p, Num(size)), after, ls,
           Emit(IF after = "none" THEN Ext(Value(args, ls) \cap 0..31, 32) ELSE {}, size))

DataItem(size, args, p, e, ls) ==
    LET after == WithValue(args, 1, 8 * size, ls, e) IN
    Result(Plus(p, Num(size)), after, ls,
           Emit(IF after = "none" THEN Value(args, ls) ELSE {}, size))

Define(args, p, e, ls) ==
    LET after == WithValue(args, 2, 64, ls, e) IN
    Result(p, after,
           IF after # "none" \/ args[1].name \in DOMAIN ls THEN ls
           ELSE Labelled(ls, args[1].name, Value(args, ls)), <<>>)

\* Mutant: pc moves on over an address that is aligned, with no bytes for it.
Align_Always(args, p, e, ls) ==
    LET after == WithValue(args, 1, 64, ls, e)
        d == Value(args, ls)
        next == Plus(p, d) \ 0..(Min(d) - 1)
    IN  IF after # "none" \/ Cardinality(d) # 1 THEN Result(p, after, ls, <<>>)
        ELSE Result(next, "none", ls,
                    IF p \cap 0..(Min(d) - 1) = {} THEN <<>> ELSE Zeroes(ToNat(Minus(next, p))))

Align(args, p, e, ls) ==
    LET after == WithValue(args, 1, 64, ls, e)
        d == Value(args, ls)
        low == 0..(Min(d) - 1)
        next == Plus(p, d) \ low
    IN  IF after # "none" THEN Result(p, after, ls, <<>>)
        ELSE IF Cardinality(d) # 1 THEN Result(p, "syntax", ls, <<>>)
        ELSE IF p \cap low = {} THEN Result(p, "none", ls, <<>>)
        ELSE Result(next, "none", ls, Zeroes(ToNat(Minus(next, p))))

Zero(args, p, e, ls) ==
    LET after == WithValue(args, 1, 64, ls, e)
        d == Value(args, ls)
    IN  IF after # "none" THEN Result(p, after, ls, <<>>)
        ELSE Result(Plus(p, d), "none", ls, Zeroes(ToNat(d)))

Origin(args, p, e, ls) ==
    LET after == WithValue(args, 1, 64, ls, e) IN
    Result(IF after = "none" THEN Value(args, ls) ELSE p, after, ls, <<>>)

\* asciz and ascii, which look at no error that is pending.  An empty text is no
\* bytes, without a zero too.
Text(args, zeroes, p, e, ls) ==
    IF Len(args) # 1 \/ "text" \notin DOMAIN args[1] THEN Result(p, "syntax", ls, <<>>)
    ELSE LET bytes == IF args[1].text = <<>> THEN <<>> ELSE args[1].text \o Zeroes(zeroes)
         IN  Result(Plus(p, Num(Len(bytes))), e, ls, bytes)

Assemble(s, p, e, ls) ==
    CASE s.op \in DOMAIN Opcodes -> Instruction(Opcodes[s.op], s.args, p, e, ls)
      [] s.op \in DOMAIN Data    -> DataItem(Data[s.op], s.args, p, e, ls)
      [] s.op = "define" -> Define(s.args, p, e, ls)
      [] s.op = "align"  -> Align(s.args, p, e, ls)
      [] s.op = "zero"   -> Zero(s.args, p, e, ls)
      [] s.op = "origin" -> Origin(s.args, p, e, ls)
      [] s.op = "asciz"  -> Text(s.args, 1, p, e, ls)
      [] s.op = "ascii"  -> Text(s.args, 0, p, e, ls)
      [] OTHER -> Result(p, "syntax", ls, <<>>)
-----------------------------------------------------------------------------
(* main.                                                                    *)
NoLabels == <<>>

AsmInit ==
    /\ src \in Sources /\ phase = "first" /\ at = 1 /\ pc = START /\ err = "none"
    /\ labels = NoLabels /\ file = <<>> /\ misled = FALSE /\ firsts = <<>> /\ places = <<>>

More(pass) == phase = pass /\ at <= Len(src)
IsLabelHere == "label" \in DOMAIN src[at]

\* A label in the first pass.  One that is registered already ends the pass.
RegisterLabel ==
    /\ More("first") /\ IsLabelHere
    /\ IF src[at].label \in DOMAIN labels
         THEN at' = Len(src) + 1 /\ misled' = TRUE /\ UNCHANGED labels
         ELSE at' = at + 1 /\ labels' = Labelled(labels, src[at].label, pc) /\ UNCHANGED misled
    /\ firsts' = Append(firsts, pc)
    /\ UNCHANGED <<src, phase, pc, err, file, places>>

FirstPass ==
    /\ More("first") /\ ~IsLabelHere
    /\ LET r == Assemble(src[at], pc, err, labels) IN
       /\ pc' = r.pc /\ err' = r.err /\ labels' = r.labels
       /\ phase' = IF r.err = "syntax" THEN "failed" ELSE "first"
       /\ misled' = (misled \/ (/\ src[at].op \in Sizing /\ r.err = "unresolved"
                                /\ IsLabel(Last(src[at].args))))
    /\ at' = at + 1
    /\ firsts' = Append(firsts, pc)
    /\ UNCHANGED <<src, file, places>>

Rewind ==
    /\ phase = "first" /\ at > Len(src)
    /\ phase' = "second" /\ at' = 1 /\ pc' = START /\ err' = "none"
    /\ UNCHANGED <<src, labels, file, misled, firsts, places>>

SkipLabel ==
    /\ More("second") /\ IsLabelHere
    /\ at' = at + 1
    /\ places' = Append(places, pc)
    /\ UNCHANGED <<src, phase, pc, err, labels, file, misled, firsts>>

\* A statement that fails is written, as zeroes, and is the last.
SecondPass ==
    /\ More("second") /\ ~IsLabelHere
    /\ LET r == Assemble(src[at], pc, err, labels) IN
       /\ pc' = r.pc /\ err' = r.err /\ labels' = r.labels
       /\ file' = file \o r.bytes
       /\ phase' = IF r.err = "none" THEN "second" ELSE "written"
    /\ at' = at + 1
    /\ places' = Append(places, pc)
    /\ UNCHANGED <<src, misled, firsts>>

Close ==
    /\ phase = "second" /\ at > Len(src)
    /\ phase' = "written"
    /\ UNCHANGED <<src, at, pc, err, labels, file, misled, firsts, places>>

AsmNext ==
    RegisterLabel \/ FirstPass \/ Rewind \/ SkipLabel \/ SecondPass \/ Close
-----------------------------------------------------------------------------
(* LabelsAgree: in the second pass each label stands where the first pass  *)
(* registered it, though err, and with it what the directives do, is not   *)
(* the same in the two: unless it passed over a directive that moves pc by *)
(* a label's value, or over the rest of the file because of a label that   *)
(* it had already.                                                         *)
LabelsAgree ==
    More("second") /\ IsLabelHere /\ ~misled
      => src[at].label \in DOMAIN labels /\ labels[src[at].label] = pc

\* Up to a statement, no origin is other than where pc is.
Straight(i) ==
    \A j \in 1..(i - 1) :
        ("op" \in DOMAIN src[j] /\ src[j].op = "origin") => Value(src[j].args, labels) = places[j]

(* FileFollowsPc: as long as no origin moved pc, the byte written next is  *)
(* the one that main of the emulator loads at pc.                          *)
FileFollowsPc ==
    (phase = "second" /\ Straight(at)) => pc = Plus(START, Num(Len(file)))
=============================================================================

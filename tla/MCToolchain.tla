---------------------------- MODULE MCToolchain ----------------------------
(* Files of one statement, for each kind and with operands at the limits of *)
(* their fields, and files of several; registers at the limits of a word.   *)
EXTENDS Toolchain

r(n) == [reg |-> n]
w(x) == [num |-> x]
n(i) == [num |-> Num(i)]
l(x, part) == [name |-> x, part |-> part]
c(i) == [cr |-> i]
op(o, args) == [op |-> o, args |-> args]
lab(x) == [label |-> x]

A0 == r(8)
A1 == r(9)
A2 == r(10)
ZR == r(0)
Displacements == {n(0), n(8), n(-8), n(2040), n(-2048)}

Arithmetic ==
    {op(o, <<A2, A0, A1, d>>) : o \in {"add", "sub", "and", "or", "xor", "shl", "sal", "setxc",
                                       "moveq", "movne", "movgt", "movle"},
                                d \in {n(0), n(1), n(-512), n(511)}}
      \cup {op(o, <<A0, A1>>) : o \in {"add", "sub", "mov", "mcom", "mneg"}}
      \cup {op(o, <<A0>>) : o \in {"inc", "dec"}}
      \cup {op(o, <<A2, p, q, A0>>) : o \in {"extn", "extnm", "bifn"},
                                      p \in {n(0), n(7), n(31)}, q \in {n(0), n(12), n(63), n(-3)}}
      \cup {op(o, <<A2, n(i)>>) : o \in {"ldi", "ldis", "ldgis"}, i \in {0, 5, -1, 4194303, -4194304}}
      \cup {op("ldgis", <<A2, w(0..48)>>), op("ldgis", <<A2, w(Ones \ {0, 22, 23, 40})>>)}
Memory ==
    {op(o, <<A0, A1, d>>) : o \in {"ldc", "ldcz", "ldw", "ldwz", "ld", "ldz", "ldq", "ldca",
                                   "stc", "stw", "st", "stq"}, d \in Displacements}
      \cup {op(o, <<A0, r(s), A1, d>>) : o \in {"ldcs", "ldws", "ldzs", "ldqs", "ldcas", "sts", "stqs"},
                                         s \in {0, 3}, d \in Displacements}
Control ==
    {op(o, <<A0, n(i)>>) : o \in {"br", "call", "bez", "bnz", "bgz", "blez", "jmp", "callf"},
                           i \in {0, 4, -4, 2097148, -2097152}}
      \cup {op("ret", <<>>), op("svc", <<ZR, ZR>>), op("rex", <<n(3)>>), op("trap", <<n(5)>>),
            op("mfcr", <<A0, A1, c(1)>>), op("mtcr", <<A0, c(3)>>), op("mtcr", <<A0, A1, c(2)>>),
            op("rex", <<A0, A1>>), op("invpg", <<A0, n(3)>>), op("mtva", <<A0, A1, n(1)>>),
            op("hvc", <<A0, A1>>), op("rand", <<A0>>), op("srand", <<A0>>)}
Single == {<<s>> : s \in Arithmetic \cup Memory \cup Control}

Programs == {
    \* The address of the program in a register, data, and a subroutine.
    << op("origin", <<w(START)>>), lab("text"),
       op("ldis", <<A0, l("text", "h")>>), op("or", <<r(1), A0, ZR, l("text", "l")>>),
       op("call", <<l("sub", "")>>), op("ldz", <<A1, r(1), l("item", "text")>>),
       op("bnz", <<A1, l("end", "")>>), op("dc", <<n(-1)>>), op("align", <<n(8)>>), op("align", <<n(8)>>),
       lab("item"), op("dl", <<n(305419896)>>), lab("sub"),
       op("ldgis", <<A2, l("item", "gh")>>), op("ldca", <<A2, A2, l("item", "gl")>>),
       op("ldc", <<A2, A2>>), op("ret", <<>>), lab("end"), op("br", <<l("end", "")>>) >>,
    \* Directives whose size is a label, after a reference forward and without one.
    << op("define", <<l("size", ""), n(8)>>), op("br", <<l("over", "")>>),
       op("zero", <<l("size", "")>>), lab("over"), op("mov", <<A0, A1>>) >>,
    << op("define", <<l("size", ""), n(8)>>), op("br", <<l("over", "")>>), op("dw", <<n(1)>>),
       op("zero", <<l("size", "")>>), op("align", <<l("size", "")>>), lab("over"),
       op("define", <<l("size", ""), n(4)>>), op("dq", <<l("over", "size")>>), op("dc", <<l("over", "")>>) >>,
    << op("call", <<l("over", "")>>), op("zero", <<n(6)>>), op("align", <<n(4)>>), lab("over"),
       op("ret", <<>>) >>,
    \* Texts, which look at no error.
    << op("jmp", <<A0, l("next", "")>>), op("asciz", <<[text |-> << {0, 6}, {1, 6} >>]>>),
       op("ascii", <<[text |-> <<>>]>>), op("asciz", <<[text |-> <<>>]>>), op("align", <<n(4)>>),
       lab("next"), op("dq", <<w({0, 5, 33, 62})>>), op("origin", <<n(0)>>), lab("start"),
       op("dl", <<l("next", "start")>>) >>,
    \* More than main loads: the last bytes of the datum are not in memory.
    << op("br", <<l("over", "")>>), op("zero", <<n(52)>>), lab("over"), op("dq", <<n(-1)>>) >>,
    \* A label twice, a label that is nowhere, and mistakes.
    << lab("twice"), op("inc", <<A0>>), lab("twice"), op("dc", <<n(1)>>), lab("end") >>,
    << op("inc", <<A0>>), op("br", <<l("nowhere", "")>>), op("inc", <<A0>>) >>,
    << lab("x"), op("dl", <<l("x", "nowhere")>>), op("inc", <<A0>>) >>,
    << op("dc", <<n(256)>>) >>, << op("inc", <<A0, A1>>) >>, << op("align", <<n(12)>>) >>,
    << op("mov", <<A0, n(32)>>) >>, << op("movq", <<A0>>) >>,
    << op("define", <<l("late", ""), l("end", "")>>), op("ldi", <<A0, l("late", "")>>), lab("end") >> }

MCSources == Single \cup Programs
-----------------------------------------------------------------------------
Words == {{}, {0}, {6, 8, 16}, {Sign}, Ones, Ones \ {Sign}, {32, 40} \cup 48..63}
Cr(psq) == [i \in 0..47 |-> IF i = PSQ THEN psq ELSE IF i = IA THEN {12, 16}
                            ELSE IF i = APC THEN {17} ELSE IF i \in {19, 23} THEN {9, 16} ELSE {}]
Machine(x, y, psq) ==
    [regs |-> [i \in 1..31 |-> IF i = 8 THEN x ELSE IF i = 9 THEN y ELSE IF i = LR THEN {18} ELSE {}],
     cr |-> Cr(psq), pc |-> {}, io |-> <<>>,
     mem |-> [i \in 65856..65872 |-> {j \in 0..7 : (i \div (j + 1)) % 2 = 0}]]
MCMachines == {Machine(x, y, psq) : x \in Words, y \in Words, psq \in {{}, {OC}}}
                \cup {Machine({2}, y, {PL, 6}) : y \in {{}, {8}}}
MCGarbage == {3, 40}
MCUnitValue == {0, 7}
MCMemLimit == {25}
MCLoadMax == 56
=============================================================================

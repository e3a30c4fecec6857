------------------------------- MODULE MCExec -------------------------------
(* A program and handlers in the assembler's terms, with and without the    *)
(* exchange of AE and paging; and instructions of every opcode and function *)
(* under handlers that come straight back.                                  *)
EXTENDS Exec, TLC

A == INSTANCE Asm WITH Sources <- {}, src <- {}, phase <- {}, at <- {}, pc <- {}, err <- {},
                       labels <- {}, file <- {}, misled <- {}, firsts <- {},
                       places <- {}

r(i) == [reg |-> i]
n(i) == [num |-> Num(i)]
op(o, args) == [op |-> o, args |-> args]

RECURSIVE Assembled(_)
Assembled(s) ==
    IF s = <<>> THEN <<>> ELSE A!Assemble(Head(s), {}, "none", <<>>).bytes \o Assembled(Tail(s))
Put(addr, bytes) == [i \in addr..(addr + Len(bytes) - 1) |-> bytes[i - addr + 1]]

User == << op("ldgis", <<r(8), [num |-> {3, 23, 48}]>>), op("ldi", <<r(9), n(-1)>>),
           op("stq", <<r(8), r(20), n(8)>>), op("call", <<n(16)>>),
           op("ldq", <<r(10), r(20), n(8)>>), op("svc", <<r(0), r(0)>>),
           op("bnz", <<r(10), n(-20)>>), op("mfcr", <<r(11), [cr |-> 0]>>),
           op("add", <<r(12), r(8), r(8)>>), op("ret", <<>>) >>

Back == << op("rex", <<n(0)>>) >>
Busy == << op("add", <<r(SP), r(SP), r(0), n(-8)>>), op("stq", <<r(10), r(SP)>>),
           op("ldgis", <<r(10), [num |-> {0, 47}]>>), op("mov", <<r(LR), r(10)>>),
           op("ldq", <<r(10), r(SP)>>), op("add", <<r(SP), r(SP), r(0), n(8)>>),
           op("rex", <<n(0)>>) >>
PageFault == << op("mfcr", <<r(LR), [cr |-> FI]>>), op("bez", <<r(LR), n(4)>>),
                op("rex", <<n(-1)>>), op("rex", <<n(0)>>) >>

TEXT == 4096
IA_BASE == 16384
Vector(which, handler) == Put(IA_BASE + 64 * which, Assembled(handler))
Handlers(ae) ==
    Vector(4, IF ae THEN Busy ELSE Back) @@ Vector(32, IF ae THEN Busy ELSE Back)
      @@ Vector(16, PageFault) @@ Vector(6, Back) @@ Vector(7, Back) @@ Vector(11, Back)
      @@ Vector(12, Back) @@ Vector(13, Back) @@ Vector(14, Back) @@ Vector(48, Back)

\* LAST leaves room for three words more.
LAST == TEXT + 40
Machine(at, text, psq, x) ==
    [regs |-> [i \in 1..31 |-> IF i = 20 THEN {13} ELSE IF i \in {8, 9} THEN x
                               ELSE IF i = SP THEN {12, 13} ELSE {}],
     cr |-> [i \in 0..47 |-> IF i = PSQ THEN psq ELSE IF i = IA THEN {14}
                             ELSE IF i = ASP THEN {13, 14} ELSE {}],
     pc |-> Num(at), io |-> <<>>, mem |-> Put(at, text) @@ Handlers(AE \in psq)]

\* Every opcode and function, with operands that make an access fail or not.
AnyWord == {A!Emit(Field(Num(o), 28, 4) \cup Field(Num(f), 20, 3) \cup operands, 4) :
              o \in 0..15, f \in 0..7, operands \in {{23, 26, 3, 5, 7}, {10, 16, 26, 2, 4}}}

MCStarts == {Machine(TEXT, Assembled(User), psq, {63, 62}) :
               psq \in {{PL, EI, OC}, {PL, EI, AE}, {PL, EI, AE, OC, 6}}}
              \cup {Machine(LAST, word, {PL, EI}, {2}) : word \in AnyWord}
MCCode == {Num(4 * i) : i \in (TEXT \div 4)..(TEXT \div 4 + 12)}
            \cup {Num(IA_BASE + 64 * v + 4 * i) :
                    v \in {4, 32, 16, 6, 7, 11, 12, 13, 14, 48}, i \in 0..7}
MCPrivate == 24568..24575
MCGarbage == {3, 40}
MCMemLimit == {25}
=============================================================================

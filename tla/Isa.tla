-------------------------------- MODULE Isa --------------------------------
(***************************************************************************)
(* The instructions (risc2.c, lcca.h, risc1.c) as operators from a machine *)
(* to the machine after them.  A machine is a record of the registers, the *)
(* control registers (of which the status word is the first), the program  *)
(* counter, the memory, and the calls of units that it made.               *)
(*                                                                         *)
(* Objects have a base here, and grant everything: Xmu is about what they  *)
(* refuse, and about pages.  The instructions of the translation unit and  *)
(* those of the host (hvc) are calls.                                      *)
(***************************************************************************)
EXTENDS Bus

CONSTANT Garbage   \* what a uint64_t that was never set holds

ASSUME GarbageAssumption == Garbage \in Word64

\* The bits of the status word that instructions look at, and its page group.
EI == 0
PL == 1
LG == 3
OC == 4
AE == 5
PageGroup == 6..15
EntryClears == 0..4

\* Control registers.
PSQ == 0
APC == 1
APSQ == 2
ASP == 3
IA == 4
FI == 7
FA == 8
OB0 == 16
ObRegisters == OB0..(OB0 + 15)
CR_MAX == 48

X8 == 28
X9 == 29
SP == 30
LR == 31

ErrorNumber(e) ==
    CASE e = "BERR" -> 6 [] e = "EMLT" -> 7 [] e = "DALT" -> 11 [] e = "XALT" -> 12
      [] e = "IPLT" -> 13 [] e = "OVRF" -> 14 [] e = "PGNM" -> 16 [] e = "SVCT" -> 48
-----------------------------------------------------------------------------
(* Fields of an instruction.                                                *)

\* The number that three bits at a position make.
Bit(x, b) == IF b \in x THEN 1 ELSE 0
Three(x, at) == Bit(x, at) + 2 * Bit(x, at + 1) + 4 * Bit(x, at + 2)

OPCODE(x) == Three(x, 28) + 8 * Bit(x, 31)
RA(x) == ToNat(Get(x, 23, 5))
RB(x) == ToNat(Get(x, 5, 5))
RC(x) == ToNat(Get(x, 0, 5))
FN(x) == Three(x, 20)
RR_IMM(x) == Ext(Get(x, 10, 10), 10)
IM_IMM(x) == Ext(Get(x, 0, 23), 23)
BR_DISP(x) == Ext(Get(x, 0, 20), 20)
LS_DISP(x) == Ext(Get(x, 5, 15), 15)
LSS_DISP(x) == Ext(Get(x, 5, 12), 12)
LSS_SEL(x) == Get(x, 17, 3)
LGISL2_IMM(x) == (x \cap 0..22) \cup {b - 5 : b \in x \cap 28..31}

Reg(m, r) == IF r = 0 THEN {} ELSE m.regs[r]
SetReg(m, r, v) == IF r = 0 THEN m ELSE [m EXCEPT !.regs[r] = v]

\* Mutant: the handler goes on with the stack of the program.
Interrupt_SameStack(m, which, fi, fa) ==
    LET saved == IF AE \notin m.cr[PSQ] THEN m.regs
                 ELSE [m.regs EXCEPT ![X8] = m.regs[SP], ![X9] = m.regs[LR]]
    IN  [m EXCEPT !.regs = saved,
                  !.pc = Plus(m.cr[IA], Num(64 * which)),
                  !.cr = [m.cr EXCEPT ![APC] = m.pc, ![APSQ] = m.cr[PSQ],
                                      ![PSQ] = m.cr[PSQ] \ EntryClears,
                                      ![FI] = fi, ![FA] = fa]]

\* intr_internal, which every trap and interrupt goes through.
Interrupt(m, which, fi, fa) ==
    LET swapped == IF AE \notin m.cr[PSQ] THEN m.regs
                   ELSE [m.regs EXCEPT ![X8] = m.regs[SP], ![X9] = m.regs[LR],
                                       ![SP] = m.cr[ASP]]
    IN  [m EXCEPT !.regs = swapped,
                  !.pc = Plus(m.cr[IA], Num(64 * which)),
                  !.cr = [m.cr EXCEPT ![APC] = m.pc, ![APSQ] = m.cr[PSQ],
                                      ![PSQ] = m.cr[PSQ] \ EntryClears,
                                      ![FI] = fi, ![FA] = fa]]

\* Mutant: the link register stays the handler's.
Restore_SkipsLink(m, d) ==
    LET swap == AE \in m.cr[APSQ] IN
    [m EXCEPT !.pc = Plus(m.cr[APC], d),
              !.cr = [m.cr EXCEPT ![PSQ] = m.cr[APSQ],
                                  ![ASP] = IF swap THEN m.regs[SP] ELSE m.cr[ASP]],
              !.regs = IF swap THEN [m.regs EXCEPT ![SP] = m.regs[X8]] ELSE m.regs]

\* intr_restore_disp.
Restore(m, d) ==
    LET swap == AE \in m.cr[APSQ] IN
    [m EXCEPT !.pc = Plus(m.cr[APC], d),
              !.cr = [m.cr EXCEPT ![PSQ] = m.cr[APSQ],
                                  ![ASP] = IF swap THEN m.regs[SP] ELSE m.cr[ASP]],
              !.regs = IF swap THEN [m.regs EXCEPT ![SP] = m.regs[X8], ![LR] = m.regs[X9]]
                       ELSE m.regs]

\* error: which of the two the handler gets to know.
Error(m, e, fi, fa) ==
    Interrupt(m, ErrorNumber(e),
              IF e \in {"EMLT", "IPLT", "SVCT", "BERR", "DALT", "PGNM"} THEN fi ELSE {},
              IF e \in {"BERR", "DALT", "PGNM"} THEN fa ELSE {})
-----------------------------------------------------------------------------
(* Registers and immediates.                                                *)

\* Mutant: the sign of the result is not looked at.
Overflows_OneSign(b, addend) == Negative(b) = Negative(addend) /\ Negative(b)

\* The test of the sum of b and an addend.
Overflows(b, addend) ==
    Negative(b) = Negative(addend) /\ Negative(Plus(b, addend)) # Negative(b)

\* lcca64_rr_0.
Rr0(m, x) ==
    LET b == Reg(m, RB(x))
        c == Reg(m, RC(x))
        d == RR_IMM(x)
        s == Plus(c, d)
        fn == FN(x)
        result == CASE fn = 0 -> Plus(b, s)
                    [] fn = 1 -> Minus(b, s)
                    [] fn = 2 -> b \cap (c \cup d)
                    [] fn = 3 -> b \cup c \cup d
                    [] fn = 4 -> Xor(b, Xor(c, d))
                    [] fn = 5 -> Sh(b, ToInt(s))
                    [] fn = 6 -> Sha(b, ToInt(s))
                    [] fn = 7 -> IF Above(b, s) THEN {0} ELSE {}
    IN  IF OC \in m.cr[PSQ] /\ fn < 2 /\ Overflows(b, IF fn = 1 THEN Neg(s) ELSE s)
          THEN Error(m, "OVRF", {}, {})
          ELSE SetReg(m, RA(x), result)

\* lcca64_rr_c: c goes to a if b compares with the immediate.
RrC(m, x) ==
    LET b == Reg(m, RB(x))
        d == RR_IMM(x)
        fn == FN(x)
        moves == CASE fn = 0 -> b = d
                   [] fn = 1 -> b # d
                   [] fn = 2 -> Above(b, d)
                   [] fn = 3 -> ~Above(b, d)
                   [] OTHER -> FALSE
    IN  IF fn > 3 THEN Error(m, "EMLT", x, {})
        ELSE IF moves THEN SetReg(m, RA(x), Reg(m, RC(x))) ELSE m

\* lcca64_im_4, lcca64_im_5, lcca64_im_6.
Im4(m, x) == SetReg(m, RA(x), IM_IMM(x))
Im5(m, x) == SetReg(m, RA(x), Left(IM_IMM(x), 9))
Im6(m, x) ==
    [SetReg(m, RA(x), Left(IM_IMM(x), 41)) EXCEPT !.cr[PSQ] = @ \cup {LG}]

\* lcca64_br_1, with the program counter past the instruction.
Br1(m, x) ==
    LET a == Reg(m, RA(x))
        d == Left(BR_DISP(x), 2)
        fn == FN(x)
        linked == IF fn \in {2, 3} THEN SetReg(m, LR, m.pc) ELSE m
        taken == CASE fn < 4  -> TRUE
                   [] fn = 4 -> a = {}
                   [] fn = 5 -> a # {}
                   [] fn = 6 -> a # {} /\ ~Negative(a)
                   [] fn = 7 -> a = {} \/ Negative(a)
        target == CASE fn \in {0, 2} -> Plus(m.pc, Plus(a, d))
                    [] fn \in {1, 3} -> Plus(a, d)
                    [] OTHER -> Plus(m.pc, d)
    IN  IF taken THEN [linked EXCEPT !.pc = target] ELSE m
-----------------------------------------------------------------------------
(* Loads and stores.                                                        *)

\* What the functions of ls_2 and ls_a do, and those of ls_3 and ls_b: the access,
\* the size, and whether the sign of the datum is extended.
Short == << <<"load", 0, TRUE>>, <<"load", 0, FALSE>>, <<"load", 1, TRUE>>, <<"load", 1, FALSE>>,
            <<"load", 2, TRUE>>, <<"store", 0, FALSE>>, <<"store", 1, FALSE>>,
            <<"store", 2, FALSE>> >>
Long == << <<"load", 2, FALSE>>, <<"load", 3, FALSE>>, <<"address", 0, FALSE>>,
           <<"store", 3, FALSE>> >>
Storage(x) == IF OPCODE(x) \in {2, 10} THEN Short[FN(x) + 1] ELSE Long[FN(x) + 1]

\* selector: an object of the level and a displacement in it.
Selector(seg, base, disp) == (Plus(disp, base) \cap 0..59) \cup Field(seg, 60, 4)

\* The address of a load or a store: of the level's object in ls_a and ls_b.
StorageAddress(m, x, k) ==
    LET c == Reg(m, RC(x)) IN
    IF OPCODE(x) \in {10, 11}
      THEN Selector(IF PL \in m.cr[PSQ] THEN LSS_SEL(x) ELSE Plus(LSS_SEL(x), {2}),
                    c, Left(LSS_DISP(x), k))
      ELSE Plus(c, Left(LS_DISP(x), k))

Translate(m, a) ==
    IF m.cr[PSQ] \cap PageGroup = {} THEN a
    ELSE Plus(m.cr[OB0 + ToNat(Get(a, 60, 4))] \ 0..9, a \cap 0..59)

LoadStore(m, x) ==
    LET access == Storage(x)
        k == access[2]
        a == StorageAddress(m, x, k)
        addr == Translate(m, a)
        in == BusRead(m.mem, addr, k)
        out == BusWrite(m.mem, m.io, addr, k, Reg(m, RA(x)))
        \* translate refuses a misaligned address before the bus does.
        fa(e) == IF e = "DALT" THEN a ELSE addr
    IN  CASE access[1] = "address" -> SetReg(m, RA(x), a)
          [] access[1] = "load" ->
               IF in.e # "none" THEN Error(m, in.e, x, fa(in.e))
               ELSE SetReg(m, RA(x), IF access[3] THEN Ext(in.v, 8 * 2^k) ELSE in.v)
          [] access[1] = "store" ->
               IF out.e # "none" THEN Error(m, out.e, x, fa(out.e))
               ELSE [m EXCEPT !.mem = out.mem, !.io = out.io]

\* The bits above a bit, in the words of lcca64_ls_3.
BitsAbove(bit) == Left(Sar({63}, 63 - bit), 1)
SignFrom(v, bit) == IF bit \in v THEN v \cup BitsAbove(bit) ELSE v \ BitsAbove(bit)

\* Functions 4 to 6 of lcca64_ls_3.
BitField(m, x) ==
    LET c == Reg(m, RC(x))
        bit == ToNat(Get(LS_DISP(x), 0, 6))
        shift == ToNat(Get(LS_DISP(x), 6, 10))
        fn == FN(x)
    IN  CASE fn = 4 -> SetReg(m, RA(x), SignFrom(Shr(c, shift), bit))
          [] fn = 5 -> SetReg(m, RA(x), SignFrom(c, bit) \ BitsAbove(shift % 64))
          [] fn = 6 -> SetReg(m, RA(x), Sar(c, shift) \ BitsAbove(bit))
          [] OTHER  -> Error(m, "EMLT", x, {})

\* lcca64_ls_2, lcca64_ls_3, lcca64_ls_a, lcca64_ls_b.
Ls(m, x) ==
    IF OPCODE(x) \in {2, 10} \/ FN(x) < 4 THEN LoadStore(m, x)
    ELSE IF OPCODE(x) = 3 THEN BitField(m, x) ELSE Error(m, "EMLT", x, {})
-----------------------------------------------------------------------------
(* Control.                                                                 *)

\* The array of the control registers ends at 47: number 48 is the field after it.
GetCr(m, d) == IF d = CR_MAX THEN m.pc ELSE m.cr[d]
SetCr(m, d, v) == IF d = CR_MAX THEN [m EXCEPT !.pc = v] ELSE [m EXCEPT !.cr[d] = v]

Call(m, name, x, v) ==
    [m EXCEPT !.io = Append(@, [call |-> name, fn |-> FN(x), a |-> RA(x), v |-> v])]

\* Mutant: mtcr needs no privilege.
LsE_SetCrFree(m, x) ==
    LET d == ToInt(LS_DISP(x)) IN
    IF FN(x) = 4 /\ d \in 0..CR_MAX THEN SetCr(m, d, Reg(m, RA(x)) \cup Reg(m, RC(x)))
    ELSE Error(m, IF FN(x) = 0 THEN "SVCT" ELSE "IPLT", x, {})

\* lcca64_ls_e.  Functions 1 and 2 write back a result that they never set.
LsE(m, x) ==
    LET c == Reg(m, RC(x))
        disp == LS_DISP(x)
        d == ToInt(disp)
        fn == FN(x)
    IN  IF fn # 0 /\ PL \in m.cr[PSQ] THEN Error(m, "IPLT", x, {})
        ELSE CASE fn = 0 -> Error(m, "SVCT", x, {})
               [] fn \in {1, 2} -> SetReg(m, RA(x), Garbage)
               [] fn = 3 -> IF d \notin 0..CR_MAX THEN Error(m, "EMLT", x, {})
                            ELSE SetReg(m, RA(x), GetCr(m, d) \ c)
               [] fn = 4 -> IF d \notin 0..CR_MAX THEN Error(m, "EMLT", x, {})
                            ELSE SetCr(m, d, Reg(m, RA(x)) \cup c)
               [] fn = 5 -> SetReg(Restore(m, Left(disp, 2)), RA(x), c)
               [] fn = 6 -> Interrupt(m, ToNat(Get(disp, 0, 6)), x, m.pc)
               [] fn = 7 -> Call(m, "host", x, c)

\* lcca64_xmu_7, whose functions Xmu models.
Xmu7(m, x) ==
    IF PL \in m.cr[PSQ] THEN Error(m, "IPLT", x, {})
    ELSE Call(m, "xmu", x, Plus(Reg(m, RC(x)), LS_DISP(x)))

\* cpu->operations.
Operation(m, x) ==
    LET o == OPCODE(x) IN
    CASE o = 0 -> Rr0(m, x) [] o = 1 -> Br1(m, x) [] o \in {2, 3, 10, 11} -> Ls(m, x)
      [] o = 4 -> Im4(m, x) [] o = 5 -> Im5(m, x) [] o = 6 -> Im6(m, x)
      [] o = 7 -> Xmu7(m, x) [] o = 12 -> RrC(m, x) [] o = 14 -> LsE(m, x)

\* The second word of a long immediate is no instruction.
LongImmediate(m, x) ==
    [SetReg(m, RA(x), Reg(m, RA(x)) \cup Left(LGISL2_IMM(x), 14)) EXCEPT !.cr[PSQ] = @ \ {LG}]

\* A round of lcca_run that executes.
Execute(m) ==
    LET addr == Translate(m, m.pc)
        f == FetchWord(m.mem, addr)
        next == [m EXCEPT !.pc = Plus(@, {2})]
    IN  IF f.e # "none" THEN Error(m, f.e, {}, addr)
        ELSE IF LG \in m.cr[PSQ] THEN LongImmediate(next, f.v)
        ELSE IF OPCODE(f.v) \in {8, 9, 13, 15} THEN Error(m, "EMLT", f.v, m.pc)
        ELSE Operation(next, f.v)
=============================================================================

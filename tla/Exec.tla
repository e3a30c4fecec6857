-------------------------------- MODULE Exec --------------------------------
(***************************************************************************)
(* A program without privilege and the handlers under it, on the machine   *)
(* of Isa, with interrupts of the timer and of devices between any two     *)
(* rounds of lcca_run, and page faults at any fetch, load or store.  Both  *)
(* program and handlers are code in the machine's memory.                  *)
(***************************************************************************)
EXTENDS Isa

CONSTANTS Starts,   \* the machines in which a program begins
          Code,     \* Bound: where the program counter stays
          Private   \* the addresses that are the handlers' own

\* A machine, with its 31 registers that are not zero and its 48 control registers.
IsMachine(x) ==
    x = [regs |-> [r \in 1..31 |-> x.regs[r]], cr |-> [r \in 0..47 |-> x.cr[r]],
         pc |-> x.pc, mem |-> x.mem, io |-> x.io]

ASSUME StartsAssumption ==
    \A s \in Starts :
        IsMachine(s) /\ PL \in s.cr[PSQ] /\ LG \notin s.cr[PSQ] /\ s.pc \in Word64

VARIABLES m,
          retry,    \* History: the program is in a load or store that faulted,
          last,     \* the machine, as it is or, under a handler, as the entry left it,
          stack     \* and the handlers' stack pointer in the beginning

execVars == <<m, retry, last, stack>>

ExecInit == m \in Starts /\ retry = FALSE /\ last = m /\ stack = m.cr[ASP]

AtUser(x) == PL \in x.cr[PSQ]
Paged(x) == x.cr[PSQ] \cap PageGroup # {}

Remembered == last' = IF AtUser(m) \/ AtUser(m') THEN m' ELSE last

\* A round that executes.
Instruction ==
    /\ m.pc \in Code
    /\ m' = Execute(m)
    /\ retry' = (retry /\ ~AtUser(m'))
    /\ Remembered /\ UNCHANGED stack

\* The two polls of lcca_run: TIME and EXTN.
TakeInterrupt ==
    /\ EI \in m.cr[PSQ]
    /\ \E which \in {4, 32} : m' = Interrupt(m, which, {}, {})
    /\ Remembered /\ UNCHANGED <<retry, stack>>

\* translate fails in a fetch.  (Handlers are resident.)
FetchFault ==
    /\ AtUser(m) /\ Paged(m) /\ m.pc \cap 0..1 = {}
    /\ m' = Error(m, "PGNM", {}, Translate(m, m.pc))
    /\ Remembered /\ UNCHANGED <<retry, stack>>

\* translate fails in a load or a store, after the instruction was fetched.
DataFault ==
    /\ AtUser(m) /\ Paged(m) /\ LG \notin m.cr[PSQ]
    /\ LET x == FetchWord(m.mem, Translate(m, m.pc)).v
           k == Storage(x)[2]
           a == StorageAddress(m, x, k)
       IN
       /\ OPCODE(x) \in {2, 3, 10, 11} /\ (OPCODE(x) \in {3, 11} => FN(x) \in {0, 1, 3})
       /\ a \cap 0..(k - 1) = {}
       /\ m' = Error([m EXCEPT !.pc = Plus(@, {2})], "PGNM", x, Translate(m, a))
    /\ retry' = TRUE
    /\ Remembered /\ UNCHANGED stack

ExecNext == Instruction \/ TakeInterrupt \/ FetchFault \/ DataFault
ExecSpec == ExecInit /\ [][ExecNext]_execVars
-----------------------------------------------------------------------------
(* ProgramRuns: at every moment there is a program, in the machine's        *)
(* registers or where the entry put what it replaced, that goes on as if    *)
(* it were alone: no interrupt or fault loses, repeats or tears one of its  *)
(* instructions, between the words of a long immediate neither, as long as  *)
(* the handlers give back what they use, and a handler of a page fault      *)
(* goes back by one instruction if CR_FI shows one.                         *)
Ours(psq) == {r \in 1..31 : AE \in psq => r \notin {X8, X9}}
Shared(mem) == [n \in DOMAIN mem \ Private |-> mem[n]]
ObjectsOf(x) == [r \in ObRegisters |-> x.cr[r]]
Seen(x, again) ==
    IF AtUser(x)
      THEN [regs |-> [r \in Ours(x.cr[PSQ]) |-> x.regs[r]], pc |-> x.pc,
            psq |-> x.cr[PSQ], objects |-> ObjectsOf(x), mem |-> Shared(x.mem)]
      ELSE LET exchanged == AE \in x.cr[APSQ] IN
           [regs |-> [r \in Ours(x.cr[APSQ]) |->
                        IF exchanged /\ r = SP THEN x.regs[X8]
                        ELSE IF exchanged /\ r = LR THEN x.regs[X9] ELSE x.regs[r]],
            pc |-> IF again THEN Minus(x.cr[APC], {2}) ELSE x.cr[APC],
            psq |-> x.cr[APSQ], objects |-> ObjectsOf(x), mem |-> Shared(x.mem)]
View == Seen(last, retry)

\* The machine that executes a program, with nothing else in it.
Bare(p) ==
    [regs |-> [r \in 1..31 |-> IF r \in DOMAIN p.regs THEN p.regs[r] ELSE {}],
     cr   |-> [r \in 0..47 |-> IF r = PSQ THEN p.psq
                               ELSE IF r \in ObRegisters THEN p.objects[r] ELSE {}],
     pc   |-> p.pc, mem |-> p.mem, io |-> <<>>]

\* An instruction that traps does nothing but lead to the next, for its handler comes
\* back to where the trap says; the two words of a long immediate are two steps.
Executed(p) ==
    LET after == Execute(Bare(p)) IN
    IF PL \in after.cr[PSQ]
      THEN [regs |-> [r \in DOMAIN p.regs |-> after.regs[r]], pc |-> after.pc,
            psq |-> after.cr[PSQ], objects |-> p.objects, mem |-> after.mem]
      ELSE [p EXCEPT !.pc = after.cr[APC]]
WithoutPrivilege(p) == PL \in p.psq

Alone == INSTANCE Program WITH program <- View, Unprivileged <- WithoutPrivilege
ProgramRuns == Alone!Spec

(* Disciplined: what ProgramRuns needs of both sides.  A handler gives back *)
(* the registers that it may not use, its stack, the objects and the memory *)
(* that are not its own, and comes back to the instruction that faulted or  *)
(* to the one that is next.  A program leaves X8 and X9 alone if entries    *)
(* use them (AE), and the handlers' memory.                                 *)
Kept(x) ==
    [regs |-> [r \in {r \in 1..31 : AE \in x.cr[APSQ] => r # LR} |-> x.regs[r]],
     cr   |-> [r \in {APC, APSQ, ASP} \cup ObRegisters |-> x.cr[r]],
     mem  |-> Shared(x.mem)]
GivesBack ==
    ~AtUser(m) /\ AtUser(m') =>
        /\ m' = Restore(m, IF retry THEN Neg({2}) ELSE {})
        /\ Kept(m) = Kept(last)

\* The registers of an instruction, and the bytes of memory behind an address.
Named(x) ==
    CASE OPCODE(x) \in {0, 12}        -> {RA(x), RB(x), RC(x)}
      [] OPCODE(x) \in {2, 3, 10, 11} -> {RA(x), RC(x)}
      [] OTHER                        -> {RA(x)}
Behind(a, k, units) ==
    IF BusFault(a, k, units) = "none" /\ ~InMmio(a) THEN ToNat(a)..(ToNat(a) + 2^k - 1) ELSE {}
StaysOut(x) ==
    LET k == Storage(x)[2]
        a == Translate(m, StorageAddress(m, x, k))
    IN  OPCODE(x) \in {2, 10} \/ (OPCODE(x) \in {3, 11} /\ FN(x) \in {0, 1, 3}) =>
            Behind(a, k, Readable \cup Writable) \cap Private = {}
Careful ==
    LET a == Translate(m, m.pc)
        f == FetchWord(m.mem, a)
    IN  AtUser(m) =>
            /\ Behind(a, 2, Readable) \cap Private = {}
            /\ f.e = "none" /\ AE \in m.cr[PSQ] => Named(f.v) \cap {X8, X9} = {}
            /\ f.e = "none" /\ LG \notin m.cr[PSQ] => StaysOut(f.v)
Disciplined == [][GivesBack /\ Careful]_execVars

(* UserConfined: without privilege, no instruction leaves another trace in  *)
(* the control registers than the flag of a long immediate, and none gains  *)
(* privilege but by entering a handler at its address, with the status word *)
(* in CR_APSQ.                                                              *)
Unprivileged(before, after) ==
    \E psq \in {before.cr[PSQ] \ {LG}, before.cr[PSQ] \cup {LG}} :
        after.cr = [before.cr EXCEPT ![PSQ] = psq]
Enters(before, after) ==
    /\ after.cr[PSQ] = before.cr[PSQ] \ 0..4
    /\ after.cr[APSQ] = before.cr[PSQ]
    /\ \A r \in (0..47) \ {PSQ, APSQ, APC, FI, FA} : after.cr[r] = before.cr[r]
    /\ \E which \in 0..63 : after.pc = Plus(before.cr[IA], Num(64 * which))
Confined(before, after) == Unprivileged(before, after) \/ Enters(before, after)
UserStep == AtUser(m) => Confined(m, m')
UserConfined == [][UserStep]_m

(* StackKept: a program finds the stack pointer of the handlers, CR_ASP,    *)
(* where it was, for the handlers free what they take, though it goes       *)
(* through SP and back at each exchange.                                    *)
StackKept == AtUser(m) => m.cr[ASP] = stack
=============================================================================

---------------------------- MODULE ConsoleDriver ----------------------------
(***************************************************************************)
(* The console driver of asm/hello.txt and the program that calls it, on   *)
(* the CPU loop of Lcca and the keyboard ring of KeyRing: the guest waits  *)
(* for a key in the wait state, the EXTN handler takes it out of the wait, *)
(* and the program gathers the keys into lines, which it echoes, until an  *)
(* empty line halts it.                                                    *)
(*                                                                         *)
(* The guest's instructions between two of the places below touch its own  *)
(* registers and the printing half of the console only; the handler keeps  *)
(* them, and they go with the next place.                                  *)
(* The timer is off: its handler neither ends a wait nor reads keys.       *)
(***************************************************************************)
EXTENDS Naturals, Sequences

CONSTANTS BUF_SIZE, Keys, MaxTyped, Vector,
          LINE_MAX   \* how many characters echo_loop has tget read: 126

\* What KeyRing assumes.
ASSUME RingAssumption == BUF_SIZE \in Nat \ {0, 1} /\ MaxTyped \in Nat

ASSUME LineAssumption == LINE_MAX \in Nat \ {0}

VARIABLES
    \* the CPU and the interrupt controller (Lcca)
    cpu, psq, apsq, eim, taking, pending, msg, handed, dev, tcr, timerActive,
    timerMsg, thr, loaded, mutex, entries,
    \* the keyboard ring (KeyRing)
    buffer, current_in, current_out, ctrl, kbd, key, flow, xonDue, ready, told,
    typed, stored, got,
    \* the guest
    at,       \* the instruction that pc points at
    apc,      \* CR_APC: the one that the handler goes back to
    line,     \* X0: how many characters tget has of the line
    testedOn  \* history: EI was on when the guest last read the status

CONSOLE_IRQ == 4

M == INSTANCE Lcca WITH Lines <- {CONSOLE_IRQ}, Msgs <- {Vector}, Threads <- {}
K == INSTANCE KeyRing

lcca == <<cpu, psq, apsq, eim, taking, pending, msg, handed, dev, tcr, timerActive,
          timerMsg, thr, loaded, mutex, entries>>
ring == <<buffer, current_in, current_out, ctrl, kbd, key, flow, xonDue, ready,
          told, typed, stored, got>>
guest == <<at, apc, line, testedOn>>
vars == <<lcca, ring, guest>>

Places == {"init_intr", "init_eim", "init_cons", "cons_wait", "cons_get",
           "read", "cons_do_w", "tget", "halt", "halted", "extn", "rex"}

TypeOK ==
    /\ M!TypeOK /\ K!TypeOK
    /\ at \in Places /\ apc \in Places
    /\ line \in 0..LINE_MAX-1
    /\ testedOn \in BOOLEAN

Init ==
    /\ M!Init /\ K!Init
    /\ at = "init_intr" /\ apc = "init_intr"
    /\ line = 0 /\ testedOn = FALSE
-----------------------------------------------------------------------------
(* The guest.                                                              *)

Instr(from, to) ==
    /\ at = from
    /\ at' = to
    /\ UNCHANGED apc

\* Instructions that are none of tget's.
OffLine == UNCHANGED <<line, testedOn>>

\* Start: EI on, all lines enabled, an interrupt for every key.
InitIntr ==
    /\ Instr("init_intr", "init_eim")
    /\ M!MtcrPsq /\ psq' = psq \cup {"EI"}
    /\ UNCHANGED ring /\ OffLine

\* Mutant: the mask leaves the console out.
Unmasked_NoConsole == {}

Unmasked == {CONSOLE_IRQ}

InitEim ==
    /\ Instr("init_eim", "init_cons")
    /\ M!MtcrEim /\ eim' = Unmasked
    /\ UNCHANGED ring /\ OffLine

InitCons ==
    /\ Instr("init_cons", "cons_wait")
    /\ M!OtherInstr
    /\ K!WriteCtrl(K!IntrFlags)
    /\ OffLine

\* cons_wait: interrupts off.
ConsWait ==
    /\ Instr("cons_wait", "cons_get")
    /\ M!MtcrPsq /\ psq' = psq \ {"EI"}
    /\ UNCHANGED ring /\ OffLine

\* cons_get: the status register decides between reading and waiting.
ConsGet ==
    /\ Instr("cons_get", IF K!ReadReady THEN "read" ELSE "cons_do_w")
    /\ M!OtherInstr
    /\ K!ReadStatus
    /\ testedOn' = ("EI" \in psq)
    /\ UNCHANGED line

\* The data register.  XON, for a full ring, is put within the same instruction.
ReadFull ==
    /\ at = "read" /\ cpu = "exec" /\ K!SendsXon
    /\ K!ReadData
    /\ UNCHANGED <<lcca, guest>>

PutXon ==
    /\ Instr("read", "tget")
    /\ M!OtherInstr
    /\ K!SendXon
    /\ OffLine

Read ==
    /\ Instr("read", "tget")
    /\ M!OtherInstr
    /\ ~xonDue /\ ~K!SendsXon
    /\ K!ReadData
    /\ OffLine

\* The bits that cons_do_w sets in PSQ, both in one write.
WaitBits == {"EI", "WS"}

ConsDoW ==
    /\ Instr("cons_do_w", "cons_get")
    /\ M!MtcrPsq /\ psq' = psq \cup WaitBits
    /\ UNCHANGED ring /\ OffLine

\* RV, which cons_wait returns: the key that was read last.  EOF becomes 0, which is a
\* character to tget.
Rv == got[Len(got)]

\* Mutant: tget reads on when it has as many characters as its caller has room for.
LineWith_NoLimit == line + 1

\* X0 with a character more; from a full line tget returns, and begins the next.
LineWith == IF line + 1 = LINE_MAX THEN 0 ELSE line + 1

\* tget: a character of the line.  The caller echoes a full line through cons_prt, for
\* which prt_thread makes room (PrintRing), and comes back.  All that is one
\* instruction here: more of them would only poll more often.
Character ==
    /\ Instr("tget", "cons_wait")
    /\ M!OtherInstr
    /\ Rv # "RET"
    /\ line' = LineWith
    /\ UNCHANGED <<ring, testedOn>>

\* The end of a line, which is echoed.
LineEnds ==
    /\ Instr("tget", "cons_wait")
    /\ M!OtherInstr
    /\ Rv = "RET" /\ line # 0
    /\ line' = 0
    /\ UNCHANGED <<ring, testedOn>>

\* Of an empty line tget returns no characters, and echo_loop goes to halt.
EmptyLine ==
    /\ Instr("tget", "halt")
    /\ M!OtherInstr
    /\ Rv = "RET" /\ line = 0
    /\ UNCHANGED ring /\ OffLine

\* halt: PSQ is the wait state with interrupts off (and page group 0xCC), in which
\* lcca_run returns.
Halt ==
    /\ Instr("halt", "halted")
    /\ M!MtcrPsq /\ psq' = {"WS"}
    /\ UNCHANGED ring /\ OffLine

\* Mutant: the handler leaves APSQ alone.
Cleared_Nothing == {}

\* Mutant: the handler clears the neighbouring bit.
Cleared_EI == {"EI"}

\* The bits of APSQ that the handler clears, so that rex ends the wait.
Cleared == {"WS"}

Extn ==
    /\ Instr("extn", "rex")
    /\ M!MtcrApsq /\ apsq' = apsq \ Cleared
    /\ UNCHANGED ring /\ OffLine

ExtnRex ==
    /\ Instr("rex", apc)
    /\ M!Rex
    /\ UNCHANGED ring /\ OffLine

Guest == \/ InitIntr \/ InitEim \/ InitCons
         \/ ConsWait \/ ConsGet \/ Read \/ ReadFull \/ PutXon \/ ConsDoW
         \/ Character \/ LineEnds \/ EmptyLine \/ Halt \/ Extn \/ ExtnRex
-----------------------------------------------------------------------------
(* The CPU loop between instructions.                                      *)

Loop ==
    /\ M!PollTimer \/ M!PollLines \/ M!Sleep \/ M!Stop \/ M!Resume \/ M!Tail
    /\ UNCHANGED <<ring, guest>>

\* An EXTN entry: APC and the handler's address.
Entry ==
    /\ M!TakeLine
    /\ apc' = at
    /\ at' = "extn"
    /\ UNCHANGED ring /\ OffLine

Wake ==
    /\ M!SpuriousWake
    /\ UNCHANGED <<ring, guest>>

Cpu == Guest \/ Loop \/ Entry
-----------------------------------------------------------------------------
(* console_thread.                                                         *)

Type == /\ \E c \in Keys : K!GetChar(c)
        /\ UNCHANGED <<lcca, guest>>

Store == K!Store /\ UNCHANGED <<lcca, guest>>

\* The call of lcca_intr, with buffer_mutex held.
Interrupt == K!Interrupt /\ M!Raise(CONSOLE_IRQ) /\ UNCHANGED guest

Signal == K!Signal /\ M!DeviceSignal(CONSOLE_IRQ) /\ UNCHANGED guest

Kbd == Store \/ Interrupt \/ Signal
-----------------------------------------------------------------------------
Next == Cpu \/ Wake \/ Type \/ Kbd

Spec == Init /\ [][Next]_vars

\* Both threads are scheduled.
FairSpec == Spec /\ WF_vars(Cpu) /\ WF_vars(Kbd)
-----------------------------------------------------------------------------
(* Properties.                                                             *)

\* The interrupt of a key is on its way or pending.
Announced == kbd \in {"intr", "signal"} \/ pending # {}

\* A wait that was decided on with interrupts off, as cons_wait does it, misses no
\* key: the CPU is not asleep over a key in the ring whose interrupt has come and gone.
CleanWaitSafe == cpu = "asleep" /\ ~testedOn /\ ~K!Empty => Announced

\* The guest ends the emulator (M!Stop) for an empty line only: the last key that it
\* read was RET, and nothing was in front of it, or another RET, or a full line, which
\* tget had returned without its RET.  No wait for a key and no handler ends it.
FullLine(n) == n >= LINE_MAX /\ \A i \in n-LINE_MAX+1..n : got[i] # "RET"
LineBegins(n) == n = 0 \/ got[n] = "RET" \/ FullLine(n)

EndsOnEmptyLine ==
    cpu = "stopped" => got # <<>> /\ Rv = "RET" /\ LineBegins(Len(got) - 1)

\* The guest is in a wait that it did not decide on with interrupts off; it can lose a
\* key there (NeverSleepsOnData).
UnsafeWait == "WS" \in psq /\ testedOn

\* The CPU sleeps on an interrupt that is pending and enabled (Lcca's WaitEndsOnInterrupt).
SleepsOnInterrupt == cpu = "asleep" /\ M!Enabled # {}

\* Every key that is stored is read, whatever waits, handlers and mutexes there are on
\* the way: unless an empty line ends the emulator before, or the guest stays for ever
\* in a wait that was decided on with interrupts on, or that lost its wake-up.
KeysRead ==
    \A n \in 1..MaxTyped :
        Len(got) + K!Size >= n
            ~> (Len(got) >= n \/ cpu = "stopped" \/ []UnsafeWait \/ []SleepsOnInterrupt)

\* "if no data, do wait" (asm/hello.txt:721), decided on "with interrupts off"
\* (asm/hello.txt:715): the guest is never asleep over a key that nobody will
\* announce to it.
NeverSleepsOnData == cpu = "asleep" /\ ~K!Empty => Announced
=============================================================================

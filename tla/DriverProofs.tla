---------------------------- MODULE DriverProofs ----------------------------
(***************************************************************************)
(* Theorems about ConsoleDriver, for a ring of any size and any keys: it   *)
(* is a program on the CPU loop of Lcca and the ring of KeyRing, which     *)
(* both do in it only what they do alone; its variables keep their types;  *)
(* a wait that was decided on with interrupts off misses no key; and the   *)
(* guest ends the emulator for an empty line only.                         *)
(***************************************************************************)
EXTENDS ConsoleDriver, SequenceTheorems, TLAPS

(* The parts of the composition: what a step of the driver is to them.     *)

LEMMA LccaStep == [Next]_vars => [M!Next]_M!vars
  <1> SUFFICES ASSUME [Next]_vars PROVE [M!Next]_M!vars
    OBVIOUS
  <1>1. CASE UNCHANGED lcca
    BY <1>1 DEF lcca, M!vars
  <1>2. CASE InitIntr \/ InitEim \/ ConsWait \/ ConsDoW \/ Halt \/ Extn \/ ExtnRex
    BY <1>2 DEF InitIntr, InitEim, ConsWait, ConsDoW, Halt, Extn, ExtnRex, M!Next, M!Cpu
  <1>3. CASE InitCons \/ ConsGet \/ PutXon \/ Read \/ Character \/ LineEnds \/ EmptyLine
    BY <1>3 DEF InitCons, ConsGet, PutXon, Read, Character, LineEnds, EmptyLine, M!Next,
      M!Cpu
  <1>4. CASE Loop \/ Entry \/ Wake
    BY <1>4 DEF Loop, Entry, Wake, M!Next, M!Cpu
  <1>5. CASE Interrupt \/ Signal
    BY <1>5 DEF Interrupt, Signal, M!Next
  <1>6. CASE ReadFull \/ Type \/ Store \/ UNCHANGED vars
    BY <1>1, <1>6 DEF ReadFull, Type, Store, vars
  <1> QED
    BY <1>2, <1>3, <1>4, <1>5, <1>6 DEF Next, Cpu, Guest, Kbd

LEMMA RingStep == [Next]_vars => [K!Next]_K!vars
  <1> SUFFICES ASSUME [Next]_vars PROVE [K!Next]_K!vars
    OBVIOUS
  <1>1. CASE UNCHANGED ring
    BY <1>1 DEF ring, K!vars, K!ring, K!guestVars, K!kbdVars
  <1>2. CASE InitCons
    BY <1>2 DEF InitCons, K!Next, K!IntrFlags
  <1>3. CASE ConsGet \/ ReadFull \/ PutXon \/ Read
    BY <1>3 DEF ConsGet, ReadFull, PutXon, Read, K!Next
  <1>4. CASE Type \/ Kbd
    BY <1>4 DEF Type, Kbd, Store, Interrupt, Signal, K!Next, K!Kbd
  <1>5. CASE \/ InitIntr \/ InitEim \/ ConsWait \/ ConsDoW \/ Character \/ LineEnds
             \/ EmptyLine \/ Halt \/ Extn \/ ExtnRex
             \/ Loop \/ Entry \/ Wake \/ UNCHANGED vars
    BY <1>1, <1>5 DEF InitIntr, InitEim, ConsWait, ConsDoW, Character, LineEnds, EmptyLine,
      Halt, Extn, ExtnRex, Loop, Entry, Wake, vars
  <1> QED
    BY <1>2, <1>3, <1>4, <1>5 DEF Next, Cpu, Guest

(* The driver's CPU, its interrupts and its console_thread behave as in     *)
(* Lcca, whatever the guest of that module is: what holds of lcca_run and   *)
(* lcca_intr for every guest holds under the driver.                        *)
THEOREM DriverRunsLcca == Spec => M!Spec
  <1>1. Init => M!Init
    BY DEF Init
  <1> QED
    BY <1>1, LccaStep, PTL DEF Spec, M!Spec

(* The driver uses the console only through its registers: the ring behaves *)
(* as in KeyRing, so the guest reads the keys in the order of typing.       *)
THEOREM DriverRunsRing == Spec => K!Spec
  <1>1. Init => K!Init
    BY DEF Init
  <1> QED
    BY <1>1, RingStep, PTL DEF Spec, K!Spec
-----------------------------------------------------------------------------
(* Type correctness, part by part.                                          *)

LEMMA EntryClearsFlags ==
    ASSUME NEW p \in SUBSET M!Flags
    PROVE  M!EntryPsq(p) \in SUBSET M!Flags /\ M!EntryPsq(p) \cap {"EI", "WS"} = {}
  BY DEF M!EntryPsq, M!EntryClears, M!Flags

LEMMA LccaTypeStep == M!TypeOK /\ [M!Next]_M!vars => M!TypeOK'
  <1> SUFFICES ASSUME M!TypeOK, [M!Next]_M!vars PROVE M!TypeOK'
    OBVIOUS
  <1> USE DEF M!TypeOK, M!cpuRegs, M!intrVars, M!timerVars, M!thrVars, M!CpuPlaces
  <1>1. CASE M!PollTimer \/ M!PollLines
    BY <1>1 DEF M!PollTimer, M!PollLines, M!Enabled
  <1>2. CASE M!AckTimer
    <2>1. psq' \in SUBSET M!Flags /\ apsq' \in SUBSET M!Flags
      BY <1>2, EntryClearsFlags DEF M!AckTimer, M!InterruptEntry
    <2>2. timerMsg' \in BOOLEAN /\ timerActive' \in BOOLEAN
      BY <1>2, Zenon DEF M!AckTimer
    <2>3. cpu' = "poll" /\ entries' \in Nat
      BY <1>2 DEF M!AckTimer
    <2> QED
      BY <1>2, <2>1, <2>2, <2>3, Zenon DEF M!AckTimer
  <1>3. CASE M!TakeLine
    <2>1. PICK l \in taking :
              /\ pending' = M!Toggle(pending, l)
              /\ handed' = msg[l]
              /\ M!InterruptEntry
              /\ entries' = entries + 1
              /\ taking' = taking \ {l}
              /\ cpu' = IF taking' = {} THEN "exec" ELSE "extn"
              /\ UNCHANGED <<eim, msg, dev, M!timerVars, M!thrVars, mutex>>
      BY <1>3 DEF M!TakeLine
    <2>2. pending' \in SUBSET {CONSOLE_IRQ}
      BY <2>1 DEF M!Toggle
    <2> QED
      BY <2>1, <2>2, EntryClearsFlags DEF M!InterruptEntry
  <1>4. CASE M!MtcrPsq \/ M!MtcrApsq \/ M!MtcrEim \/ M!MtcrTimer \/ M!OtherInstr
    BY <1>4 DEF M!MtcrPsq, M!MtcrApsq, M!MtcrEim, M!MtcrTimer, M!OtherInstr, M!Executes
  <1>5. CASE M!Rex \/ M!Trap
    BY <1>5, EntryClearsFlags DEF M!Rex, M!Trap, M!InterruptEntry, M!Executes
  <1>6. CASE M!Sleep \/ M!Stop \/ M!Resume \/ M!SpuriousWake
    BY <1>6 DEF M!Sleep, M!Stop, M!Resume, M!SpuriousWake
  <1>7. CASE M!Tail
    BY <1>7 DEF M!Tail, M!ThrPlaces
  <1>8. ASSUME NEW l \in {CONSOLE_IRQ}, M!Raise(l) \/ M!DeviceSignal(l) PROVE M!TypeOK'
    BY <1>8 DEF M!Raise, M!DeviceSignal, M!Signalled
  <1>9. CASE UNCHANGED M!vars
    BY <1>9 DEF M!vars
  <1> QED
    BY <1>1, <1>2, <1>3, <1>4, <1>5, <1>6, <1>7, <1>8, <1>9 DEF M!Next, M!Cpu

LEMMA WrapIndex ==
    ASSUME NEW i \in Nat
    PROVE  K!Wrap(i) \in K!Index
  BY RingAssumption DEF K!Wrap, K!Index

LEMMA RingTypeStep == K!TypeOK /\ [K!Next]_K!vars => K!TypeOK'
  <1> SUFFICES ASSUME K!TypeOK, [K!Next]_K!vars PROVE K!TypeOK'
    OBVIOUS
  <1> USE DEF K!TypeOK, K!ring, K!guestVars, K!kbdVars
  <1>0. K!Wrap(current_in + 1) \in K!Index /\ K!Wrap(current_out + 1) \in K!Index
    <2>1. current_in + 1 \in Nat /\ current_out + 1 \in Nat
      BY RingAssumption DEF K!Index
    <2> QED
      BY <2>1, WrapIndex, Zenon
  <1>1. ASSUME NEW c \in Keys, K!GetChar(c) PROVE K!TypeOK'
    BY <1>1 DEF K!GetChar, K!Convert, K!Bytes
  <1>2. CASE K!Store
    <2>1. kbd' \in {"getchar", "store", "intr", "signal", "ended"}
      BY <1>2 DEF K!Store, K!Again
    <2>2. CASE K!Full
      BY <1>2, <2>1, <2>2 DEF K!Store
    <2>3. CASE ~K!Full
      <3>1. /\ buffer' \in [K!Index -> K!Bytes]
            /\ current_in' \in K!Index /\ current_out' \in K!Index
            /\ flow' \in {"XON", "XOFF"}
            /\ told' \in BOOLEAN
        BY <1>0, <1>2, <2>3 DEF K!Store
      <3>2. /\ ctrl' \in SUBSET K!IntrFlags /\ key' \in K!Bytes
            /\ xonDue' \in BOOLEAN /\ ready' \in BOOLEAN
            /\ typed' \in Nat /\ got' \in Seq(K!Bytes)
        BY <1>2 DEF K!Store
      <3>3. stored' \in Seq(K!Bytes)
        <4>1. stored' = Append(stored, key)
          BY <1>2, <2>3 DEF K!Store
        <4> QED
          BY <4>1, AppendProperties
      <3> QED
        BY <2>1, <3>1, <3>2, <3>3
    <2> QED
      BY <2>2, <2>3
  <1>3. CASE K!Interrupt \/ K!Signal
    BY <1>3 DEF K!Interrupt, K!Signal, K!Again
  <1>4. CASE K!ReadStatus
    <2>1. ready' \in BOOLEAN
      BY <1>4, Zenon DEF K!ReadStatus, K!ReadReady
    <2> QED
      BY <1>4, <2>1 DEF K!ReadStatus
  <1>5. CASE K!ReadData
    <2>1. xonDue' \in BOOLEAN
      BY <1>5, Zenon DEF K!ReadData, K!SendsXon, K!Full
    <2>2. current_out' \in K!Index /\ got' \in Seq(K!Bytes)
      BY <1>0, <1>5 DEF K!ReadData
    <2> QED
      BY <1>5, <2>1, <2>2 DEF K!ReadData
  <1>6. CASE K!SendXon
    BY <1>6 DEF K!SendXon
  <1>7. ASSUME NEW flags \in SUBSET K!IntrFlags, K!WriteCtrl(flags) PROVE K!TypeOK'
    BY <1>7 DEF K!WriteCtrl
  <1>8. CASE UNCHANGED K!vars
    BY <1>8 DEF K!vars
  <1> QED
    BY <1>1, <1>2, <1>3, <1>4, <1>5, <1>6, <1>7, <1>8 DEF K!Next, K!Kbd
-----------------------------------------------------------------------------
(* The wait.                                                                *)

Handler == {"extn", "rex"}

\* Where the guest is, or goes back to.
Here == IF at \in Handler THEN apc ELSE at

\* The guest has found no key, and has not been taken out of its wait.
Waiting == at = "cons_do_w" \/ (at = "cons_get" /\ "WS" \in psq)

(* The inductive invariant: where interrupts can be on, that only halt ends *)
(* the emulator, and that a key that comes into a wait decided on with      *)
(* interrupts off is announced by its own interrupt, which nobody can have  *)
(* taken before.                                                            *)
WaitInv ==
    /\ "WS" \in psq => (at = "cons_get" /\ "EI" \in psq) \/ at = "halted"
    /\ at = "halted" => psq = {"WS"}
    /\ cpu = "asleep" => {"WS", "EI"} \subseteq psq
    /\ cpu = "stopped" => at = "halted"
    /\ cpu = "extn" => "EI" \in psq
    /\ at = "rex" => "WS" \notin apsq
    /\ at \in Handler => /\ "EI" \notin psq
                         /\ apc \notin Handler \cup {"halted"}
                         /\ apc = "cons_do_w" => testedOn
    /\ at = "cons_do_w" /\ ~testedOn => "EI" \notin psq
    /\ Here \notin {"init_intr", "init_eim", "init_cons"} => ctrl = K!IntrFlags
    /\ Waiting /\ ~testedOn /\ ~K!Empty => kbd = "intr" \/ pending # {}

LEMMA WaitStep == TypeOK /\ WaitInv /\ [Next]_vars => WaitInv'
  <1> SUFFICES ASSUME TypeOK, WaitInv, [Next]_vars PROVE WaitInv'
    OBVIOUS
  <1> USE DEF WaitInv, Waiting, Here, Handler, Instr, OffLine, ring, lcca, guest
  <1>1. CASE InitIntr
    BY <1>1 DEF InitIntr, M!MtcrPsq, M!Executes, M!intrVars
  <1>2. CASE InitEim
    BY <1>2 DEF InitEim, M!MtcrEim, M!Executes, M!intrVars
  <1>3. CASE InitCons
    BY <1>3 DEF InitCons, M!OtherInstr, M!Executes, M!intrVars, M!cpuRegs, K!WriteCtrl
  <1>4. CASE ConsWait
    BY <1>4 DEF ConsWait, M!MtcrPsq, M!Executes, M!intrVars
  <1>5. CASE ConsGet
    BY <1>5 DEF ConsGet, M!OtherInstr, M!Executes, M!intrVars, M!cpuRegs, K!ReadStatus,
      K!ReadReady, K!Empty, K!ring
  <1>6. CASE ReadFull
    BY <1>6 DEF ReadFull, K!ReadData
  <1>7. CASE PutXon
    BY <1>7 DEF PutXon, M!OtherInstr, M!Executes, M!cpuRegs, K!SendXon, K!guestVars
  <1>8. CASE Read
    BY <1>8 DEF Read, M!OtherInstr, M!Executes, M!cpuRegs, K!ReadData
  <1>9. CASE ConsDoW
    BY <1>9 DEF ConsDoW, WaitBits, M!MtcrPsq, M!Executes, M!intrVars, K!Empty
  <1>10. CASE Character
    BY <1>10 DEF Character, M!OtherInstr, M!Executes, M!cpuRegs
  <1>11. CASE LineEnds
    BY <1>11 DEF LineEnds, M!OtherInstr, M!Executes, M!cpuRegs
  <1>12. CASE EmptyLine
    BY <1>12 DEF EmptyLine, M!OtherInstr, M!Executes, M!cpuRegs
  <1>13. CASE Halt
    BY <1>13 DEF Halt, M!MtcrPsq, M!Executes, M!intrVars
  <1>14. CASE Extn
    BY <1>14 DEF Extn, Cleared, M!MtcrApsq, M!Executes
  <1>15. CASE ExtnRex
    BY <1>15 DEF ExtnRex, M!Rex, M!Executes, K!Empty
  <1>16. CASE Loop
    BY <1>16 DEF Loop, M!PollTimer, M!PollLines, M!Enabled, M!Sleep, M!Stop, M!Resume,
      M!Tail, M!cpuRegs, M!intrVars, K!Empty
  <1>17. CASE Entry
    BY <1>17 DEF Entry, M!TakeLine, M!InterruptEntry, M!EntryPsq, M!EntryClears, TypeOK, M!TypeOK
  <1>18. CASE Wake
    BY <1>18 DEF Wake, M!SpuriousWake, M!cpuRegs, M!intrVars, K!Empty
  <1>19. CASE Type
    BY <1>19 DEF Type, K!GetChar, K!ring, K!guestVars, K!Empty
  <1>20. CASE Store
    BY <1>20 DEF Store, K!Store, K!Interrupts, K!IntrFlags, K!guestVars, K!ring, K!Empty
  <1>21. CASE Interrupt
    BY <1>21 DEF Interrupt, K!Interrupt, M!Raise, M!cpuRegs, K!ring, K!guestVars, K!Empty
  <1>22. CASE Signal
    BY <1>22 DEF Signal, K!Signal, M!DeviceSignal, M!Signalled, M!cpuRegs, M!intrVars,
      K!ring, K!guestVars, K!Empty
  <1>23. CASE UNCHANGED vars
    BY <1>23 DEF vars, K!Empty
  <1> QED
    BY <1>1, <1>2, <1>3, <1>4, <1>5, <1>6, <1>7, <1>8, <1>9, <1>10, <1>11, <1>12, <1>13,
      <1>14, <1>15, <1>16, <1>17, <1>18, <1>19, <1>20, <1>21, <1>22, <1>23
      DEF Next, Cpu, Guest, Kbd

LEMMA TypeStep == TypeOK /\ [Next]_vars => TypeOK'
  <1> SUFFICES ASSUME TypeOK, [Next]_vars PROVE TypeOK'
    OBVIOUS
  <1>1. M!TypeOK'
    BY LccaStep, LccaTypeStep DEF TypeOK
  <1>2. K!TypeOK'
    BY RingStep, RingTypeStep DEF TypeOK
  <1>3. at' \in Places /\ apc' \in Places
    BY DEF Next, Cpu, Guest, Kbd, InitIntr, InitEim, InitCons, ConsWait, ConsGet, Read,
      ReadFull, PutXon, ConsDoW, Character, LineEnds, EmptyLine, Halt, Extn, ExtnRex, Loop,
      Entry, Wake, Type, Store, Interrupt, Signal, Instr, guest, vars, TypeOK, Places
  <1>4. testedOn' \in BOOLEAN
    <2>1. testedOn' = testedOn \/ testedOn' = ("EI" \in psq)
      BY DEF Next, Cpu, Guest, Kbd, InitIntr, InitEim, InitCons, ConsWait, ConsGet, Read,
        ReadFull, PutXon, ConsDoW, Character, LineEnds, EmptyLine, Halt, Extn, ExtnRex, Loop,
        Entry, Wake, Type, Store, Interrupt, Signal, OffLine, guest, vars
    <2>2. testedOn \in BOOLEAN
      BY DEF TypeOK
    <2>3. ("EI" \in psq) \in BOOLEAN
      OBVIOUS
    <2> QED
      BY <2>1, <2>2, <2>3, Zenon
  <1>5. line' \in 0..LINE_MAX-1
    <2>1. line' \in {line, 0, LineWith}
      BY DEF Next, Cpu, Guest, Kbd, InitIntr, InitEim, InitCons, ConsWait, ConsGet, Read,
        ReadFull, PutXon, ConsDoW, Character, LineEnds, EmptyLine, Halt, Extn, ExtnRex, Loop,
        Entry, Wake, Type, Store, Interrupt, Signal, OffLine, guest, vars
    <2> QED
      BY <2>1, LineAssumption DEF LineWith, TypeOK
  <1> QED
    BY <1>1, <1>2, <1>3, <1>4, <1>5 DEF TypeOK

LEMMA InitTypes == Init => TypeOK /\ WaitInv
  <1> SUFFICES ASSUME Init PROVE TypeOK /\ WaitInv
    OBVIOUS
  <1>1. M!TypeOK
    <2>1. timerActive \in BOOLEAN /\ timerMsg \in BOOLEAN
      BY Zenon DEF Init, M!Init
    <2>2. /\ thr \in [{} -> M!ThrPlaces] /\ loaded \in [{} -> M!Tcr]
          /\ msg \in [{CONSOLE_IRQ} -> {Vector}] /\ dev \in [{CONSOLE_IRQ} -> {"idle", "signal"}]
      BY DEF Init, M!Init
    <2>3. tcr \in M!Tcr
      BY DEF Init, M!Init, M!ZeroTcr, M!Tcr
    <2>4. /\ entries \in Nat /\ cpu \in M!CpuPlaces /\ mutex \in {"free", "cpu"}
          /\ psq \in SUBSET M!Flags /\ apsq \in SUBSET M!Flags /\ handed \in {Vector}
          /\ {eim, taking, pending} \subseteq SUBSET {CONSOLE_IRQ}
      BY DEF Init, M!Init, M!CpuPlaces
    <2> QED
      BY <2>1, <2>2, <2>3, <2>4 DEF M!TypeOK
  <1>2. K!TypeOK
    BY RingAssumption DEF Init, K!Init, K!TypeOK, K!Index
  <1>3. TypeOK
    <2>1. at \in Places /\ apc \in Places /\ line \in 0..LINE_MAX-1
      BY LineAssumption DEF Init, Places
    <2>2. testedOn \in BOOLEAN
      BY Zenon DEF Init
    <2> QED
      BY <1>1, <1>2, <2>1, <2>2 DEF TypeOK
  <1>4. WaitInv
    BY DEF Init, M!Init, K!Init, WaitInv, Waiting, Here, Handler
  <1> QED
    BY <1>3, <1>4

LEMMA DriverInvariant == Spec => [](TypeOK /\ WaitInv)
  BY InitTypes, WaitStep, TypeStep, PTL DEF Spec

(* The driver's variables keep their types, in the CPU loop and the ring    *)
(* too; tget never has more characters of a line than its caller has room   *)
(* for (asm/hello.txt 239-263).                                             *)
THEOREM DriverTypeCorrect == Spec => []TypeOK
  BY DriverInvariant, PTL

(* A wait that was decided on with interrupts off misses no key, for a ring *)
(* of any size: the CPU never sleeps over a key whose interrupt has come    *)
(* and gone (asm/hello.txt 713-733, console.c 60-110, risc1.c 227-252).     *)
THEOREM CleanWait == Spec => []CleanWaitSafe
  <1>1. WaitInv => CleanWaitSafe
    BY DEF WaitInv, Waiting, CleanWaitSafe, Announced
  <1> QED
    BY <1>1, DriverInvariant, PTL
-----------------------------------------------------------------------------
(* The lines.                                                               *)

\* The guest has read a key that tget has not looked at yet, or halts for it.
HasKey == xonDue \/ Here \in {"tget", "halt", "halted"}

\* tget's count is right for the first n keys: as many of the last as it counts are
\* characters of one line, and with none of them a line begins.
LineAt(n) ==
    /\ line <= n
    /\ \A i \in n-line+1..n : got[i] # "RET"
    /\ line = 0 => LineBegins(n)

(* The inductive invariant: the count of tget against the keys that were    *)
(* read, whose last it may have yet to see.                                 *)
LineInv ==
    /\ xonDue => at = "read" /\ cpu = "exec"
    /\ Here = "read" /\ ~xonDue => ~K!Empty
    /\ HasKey => got # <<>> /\ LineAt(Len(got) - 1)
    /\ ~HasKey => LineAt(Len(got))
    /\ Here \in {"halt", "halted"} => line = 0 /\ Rv = "RET"

(* Most steps read no key and count no character.                           *)
LEMMA LineKept ==
    ASSUME LineInv, UNCHANGED <<got, line>>, HasKey' <=> HasKey,
           xonDue' => at' = "read" /\ cpu' = "exec",
           Here' = "read" /\ ~xonDue' => ~K!Empty',
           Here' \in {"halt", "halted"} => line = 0 /\ Rv = "RET"
    PROVE  LineInv'
  BY DEF LineInv, LineAt, LineBegins, FullLine, Rv

(* The CPU's own steps, threads and the instructions of other places leave  *)
(* the ring and the guest's place alone.                                    *)
LEMMA LineKeptThere ==
    ASSUME LineInv, UNCHANGED <<ring, line>>, ~xonDue \/ cpu' = cpu,
           at' = at \/ (at # "read" /\ at' # "read"), Here' = Here
    PROVE  LineInv'
  <1>1. xonDue' => at' = "read" /\ cpu' = "exec"
    BY DEF ring, LineInv
  <1>2. HasKey' <=> HasKey
    BY DEF ring, HasKey
  <1>3. Here' = "read" /\ ~xonDue' => ~K!Empty'
    BY DEF ring, LineInv, K!Empty
  <1>4. Here' \in {"halt", "halted"} => line = 0 /\ Rv = "RET"
    BY DEF LineInv
  <1> QED
    BY <1>1, <1>2, <1>3, <1>4, LineKept DEF ring

(* An instruction from one of the guest's own places to another.            *)
LEMMA LineKeptInstr ==
    ASSUME NEW from \in Places \ (Handler \cup {"read"}), NEW to \in Places \ Handler,
           LineInv, Instr(from, to), UNCHANGED <<got, line, xonDue>>,
           to = "read" => ~K!Empty',
           from \in {"tget", "halt", "halted"} <=> to \in {"tget", "halt", "halted"},
           to \in {"halt", "halted"} => line = 0 /\ Rv = "RET"
    PROVE  LineInv'
  <1>1. Here = from /\ Here' = to
    BY DEF Instr, Here
  <1>2. ~xonDue /\ ~xonDue'
    BY DEF LineInv, Instr
  <1> QED
    BY <1>1, <1>2, LineKept DEF HasKey

(* The key that the guest reads is none of tget's yet.                      *)
LEMMA LineReads ==
    ASSUME TypeOK, LineInv, at = "read", K!ReadData, UNCHANGED line,
           HasKey', xonDue' => at' = "read" /\ cpu' = "exec",
           Here' \in {"read", "tget"}, Here' = "read" => xonDue'
    PROVE  LineInv'
  <1>1. Here = "read" /\ ~xonDue /\ ~HasKey
    BY DEF Here, HasKey, K!ReadData, Handler
  <1>2. ~K!Empty
    BY <1>1 DEF LineInv
  <1>3. PICK c : got' = Append(got, c)
    BY <1>2 DEF K!ReadData
  <1>4. got \in Seq(K!Bytes) /\ line \in Nat /\ LINE_MAX \in Nat \ {0}
    BY LineAssumption DEF TypeOK, K!TypeOK
  <1>5. /\ got' # <<>> /\ Len(got') - 1 = Len(got)
        /\ \A i \in 1..Len(got) : got'[i] = got[i]
    BY <1>3, <1>4
  <1>6. LineAt(Len(got))
    BY <1>1 DEF LineInv
  <1>7. LineAt(Len(got) - 1)'
    <2>1. line <= Len(got) /\ \A i \in Len(got)-line+1..Len(got) : got'[i] # "RET"
      BY <1>4, <1>5, <1>6 DEF LineAt
    <2>2. line = 0 => LineBegins(Len(got) - 1)'
      BY <1>4, <1>5, <1>6 DEF LineAt, LineBegins, FullLine
    <2> QED
      BY <1>5, <2>1, <2>2 DEF LineAt
  <1> QED
    BY <1>5, <1>7 DEF LineInv

(* tget looks at a character, and counts it.                                *)
LEMMA LineCounts == TypeOK /\ LineInv /\ Character => LineInv'
  <1> SUFFICES ASSUME TypeOK, LineInv, Character PROVE LineInv'
    OBVIOUS
  <1>1. /\ Here = "tget" /\ ~xonDue /\ HasKey
        /\ Here' = "cons_wait" /\ ~xonDue' /\ ~HasKey' /\ got' = got
    BY DEF Character, Instr, LineInv, HasKey, Here, Handler, ring
  <1>2. got \in Seq(K!Bytes) /\ line \in 0..LINE_MAX-1 /\ LINE_MAX \in Nat \ {0}
    BY LineAssumption DEF TypeOK, K!TypeOK
  <1>3. got # <<>> /\ LineAt(Len(got) - 1) /\ got[Len(got)] # "RET"
    BY <1>1 DEF LineInv, Character, Rv
  <1>4. Len(got) \in Nat \ {0}
    BY <1>2, <1>3
  <1>5. /\ line + 1 <= Len(got)
        /\ \A i \in Len(got)-line..Len(got) : got[i] # "RET"
    BY <1>2, <1>3, <1>4 DEF LineAt
  <1>6. LineAt(Len(got))'
    <2>1. CASE line + 1 = LINE_MAX
      <3>1. FullLine(Len(got))
        BY <1>2, <1>4, <1>5, <2>1 DEF FullLine
      <3>2. line' = 0
        BY <2>1 DEF Character, LineWith
      <3> QED
        BY <1>1, <1>4, <3>1, <3>2 DEF LineAt, LineBegins, FullLine
    <2>2. CASE line + 1 # LINE_MAX
      BY <1>1, <1>2, <1>4, <1>5, <2>2 DEF LineAt, Character, LineWith
    <2> QED
      BY <2>1, <2>2
  <1> QED
    BY <1>1, <1>6 DEF LineInv

(* With RET the next line begins.                                           *)
LEMMA LineDone == TypeOK /\ LineInv /\ LineEnds => LineInv'
  <1> SUFFICES ASSUME TypeOK, LineInv, LineEnds PROVE LineInv'
    OBVIOUS
  <1>1. /\ Here' = "cons_wait" /\ ~xonDue' /\ ~HasKey' /\ got' = got /\ line' = 0
    BY DEF LineEnds, Instr, LineInv, HasKey, Here, Handler, ring
  <1>2. got # <<>> /\ got[Len(got)] = "RET" /\ Len(got) \in Nat
    BY DEF LineEnds, Instr, LineInv, HasKey, Here, Handler, Rv, TypeOK, K!TypeOK
  <1>3. LineAt(Len(got))'
    BY <1>1, <1>2 DEF LineAt, LineBegins
  <1> QED
    BY <1>1, <1>3 DEF LineInv

LEMMA LineStep == TypeOK /\ WaitInv /\ LineInv /\ [Next]_vars => LineInv'
  <1> SUFFICES ASSUME TypeOK, WaitInv, LineInv, [Next]_vars PROVE LineInv'
    OBVIOUS
  <1>1. CASE InitIntr \/ InitEim \/ ConsWait \/ ConsDoW
    BY <1>1, LineKeptInstr DEF InitIntr, InitEim, ConsWait, ConsDoW, OffLine, ring, Places,
      Handler
  <1>2. CASE InitCons
    BY <1>2, LineKeptInstr DEF InitCons, K!WriteCtrl, OffLine, Places, Handler
  <1>3. CASE ConsGet
    <2>1. UNCHANGED <<buffer, current_in, current_out, got, line, xonDue>>
      BY <1>3 DEF ConsGet, K!ReadStatus, K!ring
    <2>2. CASE K!Empty
      <3>1. Instr("cons_get", "cons_do_w")
        BY <1>3, <2>2 DEF ConsGet, K!ReadReady
      <3> QED
        BY <2>1, <3>1, LineKeptInstr DEF Places, Handler, ring
    <2>3. CASE ~K!Empty
      <3>1. Instr("cons_get", "read")
        BY <1>3, <2>3 DEF ConsGet, K!ReadReady
      <3>2. ~K!Empty'
        BY <2>1, <2>3 DEF K!Empty, ring
      <3> QED
        BY <2>1, <3>1, <3>2, LineKeptInstr DEF Places, Handler, ring
    <2> QED
      BY <2>2, <2>3
  <1>4. CASE ReadFull
    <2>1. K!ReadData /\ K!SendsXon /\ at' = at /\ cpu' = cpu /\ line' = line
      BY <1>4 DEF ReadFull, lcca, guest
    <2>2. xonDue' /\ at = "read" /\ cpu = "exec"
      <3>1. at = "read" /\ cpu = "exec"
        BY <1>4 DEF ReadFull
      <3>2. ~xonDue
        BY <2>1 DEF K!ReadData
      <3>3. ~K!Empty
        BY <3>1, <3>2 DEF LineInv, Here, Handler
      <3> QED
        BY <2>1, <3>1, <3>3 DEF K!ReadData
    <2> QED
      BY <2>1, <2>2, LineReads DEF HasKey, Here, Handler
  <1>5. CASE Read
    <2>1. K!ReadData /\ ~K!SendsXon /\ at = "read" /\ at' = "tget" /\ line' = line
      BY <1>5 DEF Read, Instr, OffLine
    <2>2. ~xonDue'
      BY <2>1 DEF K!ReadData
    <2> QED
      BY <2>1, <2>2, LineReads DEF HasKey, Here, Handler
  <1>6. CASE PutXon
    <2>1. /\ at = "read" /\ at' = "tget" /\ xonDue /\ ~xonDue'
          /\ got' = got /\ line' = line
      BY <1>6 DEF PutXon, Instr, K!SendXon, OffLine
    <2> QED
      BY <2>1, LineKept DEF HasKey, Here, Handler
  <1>7. CASE Character
    BY <1>7, LineCounts
  <1>8. CASE LineEnds
    BY <1>8, LineDone
  <1>9. CASE EmptyLine
    BY <1>9, LineKeptInstr DEF EmptyLine, OffLine, ring, Places, Handler
  <1>10. CASE Halt
    <2>1. Instr("halt", "halted") /\ UNCHANGED <<got, line, xonDue>>
      BY <1>10 DEF Halt, OffLine, ring
    <2>2. line = 0 /\ Rv = "RET"
      BY <2>1 DEF Instr, LineInv, Here, Handler
    <2> QED
      BY <2>1, <2>2, LineKeptInstr DEF Places, Handler
  <1>11. CASE Extn
    BY <1>11, LineKeptThere DEF Extn, Instr, LineInv, OffLine, Here, Handler
  <1>12. CASE ExtnRex
    <2>1. at = "rex" /\ at' = apc /\ UNCHANGED <<apc, ring, line>>
      BY <1>12 DEF ExtnRex, Instr, OffLine
    <2>2. Here' = Here /\ ~xonDue
      BY <2>1 DEF WaitInv, LineInv, Here, Handler
    <2> QED
      BY <2>1, <2>2, LineKept DEF LineInv, HasKey, ring, K!Empty
  <1>13. CASE Entry
    <2>1. /\ cpu = "extn" /\ apc' = at /\ at' = "extn" /\ UNCHANGED <<ring, line>>
      BY <1>13 DEF Entry, M!TakeLine, OffLine
    <2>2. ~xonDue /\ at \notin Handler
      BY <2>1 DEF LineInv, WaitInv
    <2>3. Here' = Here
      BY <2>1, <2>2 DEF Here, Handler
    <2> QED
      BY <2>1, <2>2, <2>3, LineKept DEF LineInv, HasKey, ring, K!Empty
  <1>14. CASE Loop
    <2>1. UNCHANGED <<ring, line, at, apc>>
      BY <1>14 DEF Loop, guest
    <2>2. cpu = "exec" => "WS" \in psq
      BY <1>14 DEF Loop, M!PollTimer, M!PollLines, M!Sleep, M!Stop, M!Resume, M!Tail
    <2>3. ~xonDue
      BY <2>2 DEF LineInv, WaitInv
    <2> QED
      BY <2>1, <2>3, LineKeptThere DEF Here
  <1>15. CASE Wake
    BY <1>15, LineKeptThere DEF Wake, M!SpuriousWake, LineInv, guest, Here
  <1>16. CASE Type
    <2>1. UNCHANGED <<buffer, current_in, current_out, xonDue, got, lcca, guest>>
      BY <1>16 DEF Type, K!GetChar, K!ring
    <2> QED
      BY <2>1, LineKept DEF LineInv, HasKey, Here, lcca, guest, K!Empty
  <1>17. CASE Store
    <2>1. UNCHANGED <<xonDue, got, lcca, guest>>
      BY <1>17 DEF Store, K!Store
    <2>2. ~K!Empty => ~K!Empty'
      BY <1>17 DEF Store, K!Store, K!Full, K!Empty, K!ring
    <2> QED
      BY <2>1, <2>2, LineKept DEF LineInv, HasKey, Here, lcca, guest
  <1>18. CASE Interrupt
    <2>1. UNCHANGED <<buffer, current_in, current_out, xonDue, got, cpu, guest>>
      BY <1>18 DEF Interrupt, K!Interrupt, K!ring, M!Raise
    <2> QED
      BY <2>1, LineKept DEF LineInv, HasKey, Here, guest, K!Empty
  <1>19. CASE Signal
    <2>1. UNCHANGED <<buffer, current_in, current_out, xonDue, got, guest>>
      BY <1>19 DEF Signal, K!Signal, K!ring
    <2>2. cpu = "exec" => cpu' = "exec"
      BY <1>19 DEF Signal, M!DeviceSignal, M!Signalled
    <2> QED
      BY <2>1, <2>2, LineKept DEF LineInv, HasKey, Here, guest, K!Empty
  <1>20. CASE UNCHANGED vars
    BY <1>20, LineKeptThere DEF vars, lcca, guest, Here
  <1> QED
    BY <1>1, <1>2, <1>3, <1>4, <1>5, <1>6, <1>7, <1>8, <1>9, <1>10, <1>11, <1>12, <1>13,
      <1>14, <1>15, <1>16, <1>17, <1>18, <1>19, <1>20 DEF Next, Cpu, Guest, Kbd

LEMMA InitLine == Init => LineInv
  <1> SUFFICES ASSUME Init PROVE LineInv
    OBVIOUS
  <1>1. ~xonDue /\ Here = "init_intr" /\ got = <<>> /\ line = 0
    BY DEF Init, K!Init, Here, Handler
  <1>2. LineAt(Len(got))
    BY <1>1 DEF LineAt, LineBegins
  <1> QED
    BY <1>1, <1>2 DEF LineInv, HasKey

(* The guest ends the emulator for an empty line only, for lines of any     *)
(* length and a ring of any size: no wait and no handler does, and the RET  *)
(* that ends it follows a RET, a full line or nothing (asm/hello.txt        *)
(* 206-263 and 713-751, risc1.c 226-241).                                   *)
THEOREM EndsCorrect == Spec => []EndsOnEmptyLine
  <1>1. WaitInv /\ LineInv => EndsOnEmptyLine
    <2> SUFFICES ASSUME WaitInv, LineInv, cpu = "stopped"
                 PROVE  got # <<>> /\ Rv = "RET" /\ LineBegins(Len(got) - 1)
      BY DEF EndsOnEmptyLine
    <2>1. at = "halted"
      BY DEF WaitInv
    <2>2. HasKey /\ line = 0 /\ Rv = "RET"
      BY <2>1 DEF LineInv, HasKey, Here, Handler
    <2> QED
      BY <2>2 DEF LineInv, LineAt
  <1> QED
    BY <1>1, InitLine, LineStep, DriverInvariant, PTL DEF Spec
=============================================================================

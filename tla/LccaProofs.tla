----------------------------- MODULE LccaProofs -----------------------------
(***************************************************************************)
(* Theorems about Lcca for any set of lines, messages and thread           *)
(* identities.  IInv is the inductive invariant; what it adds to the       *)
(* properties is where in the loop the count of entries can still grow.    *)
(***************************************************************************)
EXTENDS Lcca, TLAPS

LEMMA EntryPsqType ==
    ASSUME NEW p \in SUBSET Flags
    PROVE  /\ EntryPsq(p) \in SUBSET Flags
           /\ "EI" \notin EntryPsq(p)
  BY DEF EntryPsq, EntryClears, Flags

LEMMA ToggleType ==
    ASSUME NEW S, NEW s \in SUBSET S, NEW i \in S
    PROVE  /\ Toggle(s, i) \in SUBSET S
           /\ i \in s => Toggle(s, i) = s \ {i}
  BY DEF Toggle

(* Every variable keeps its type: in particular the lines that the loop has *)
(* noted and the pending bits it toggles stay lines that devices raise.     *)
LEMMA TypeStep == TypeOK /\ [Next]_vars => TypeOK'
  <1> SUFFICES ASSUME TypeOK, [Next]_vars PROVE TypeOK'
    OBVIOUS
  <1> USE DEF TypeOK, cpuRegs, intrVars, timerVars, thrVars
  <1>1. CASE PollTimer
    BY <1>1 DEF PollTimer, CpuPlaces
  <1>2. CASE AckTimer
    <2>1. psq' \in SUBSET Flags /\ apsq' \in SUBSET Flags
      BY <1>2, EntryPsqType DEF AckTimer, InterruptEntry
    <2>2. timerMsg' \in BOOLEAN /\ timerActive' \in BOOLEAN
      BY <1>2, Zenon DEF AckTimer
    <2>3. cpu' \in CpuPlaces
      BY <1>2 DEF AckTimer, CpuPlaces
    <2>4. entries' \in Nat
      BY <1>2 DEF AckTimer
    <2> QED
      BY <1>2, <2>1, <2>2, <2>3, <2>4, Zenon DEF AckTimer
  <1>3. CASE PollLines
    BY <1>3 DEF PollLines, Enabled, CpuPlaces
  <1>4. CASE TakeLine
    <2>1. PICK l \in taking :
              /\ pending' = Toggle(pending, l)
              /\ handed' = msg[l]
              /\ InterruptEntry
              /\ entries' = entries + 1
              /\ taking' = taking \ {l}
              /\ cpu' = IF taking' = {} THEN "exec" ELSE "extn"
              /\ UNCHANGED <<eim, msg, dev, timerVars, thrVars, mutex>>
      BY <1>4 DEF TakeLine
    <2>2. l \in Lines
      OBVIOUS
    <2>3. pending' \in SUBSET Lines
      BY <2>1, <2>2, ToggleType
    <2> QED
      BY <2>1, <2>2, <2>3, EntryPsqType DEF InterruptEntry, CpuPlaces
  <1>5. CASE MtcrPsq \/ MtcrApsq \/ MtcrEim \/ MtcrTimer \/ OtherInstr
    BY <1>5 DEF MtcrPsq, MtcrApsq, MtcrEim, MtcrTimer, OtherInstr, Executes, CpuPlaces
  <1>6. CASE Rex \/ Trap
    BY <1>6, EntryPsqType DEF Rex, Trap, InterruptEntry, Executes, CpuPlaces
  <1>7. CASE Sleep \/ Stop \/ Resume \/ SpuriousWake
    BY <1>7 DEF Sleep, Stop, Resume, SpuriousWake, CpuPlaces
  <1>8. CASE Tail
    BY <1>8 DEF Tail, ThrPlaces, CpuPlaces
  <1>9. ASSUME NEW l \in Lines, Raise(l) \/ DeviceSignal(l) PROVE TypeOK'
    BY <1>9 DEF Raise, DeviceSignal, Signalled, CpuPlaces
  <1>10. ASSUME NEW t \in Threads, Timer(t) PROVE TypeOK'
    <2>1. CASE Expire(t) \/ CheckInterval(t) \/ EndThread(t) \/ CheckOut(t)
      BY <2>1 DEF Expire, CheckInterval, EndThread, CheckOut, ThreadMoves, ThrPlaces
    <2>2. CASE LoadTcr(t) \/ PostTimer(t) \/ ThreadSignal(t)
      BY <2>2 DEF LoadTcr, PostTimer, ThreadSignal, ThreadMoves, ThrPlaces, Signalled, CpuPlaces
    <2>3. CASE MarkTcr(t)
      BY <2>3 DEF MarkTcr, ThreadMoves, ThrPlaces, Tcr, ZeroTcr
    <2> QED
      BY <1>10, <2>1, <2>2, <2>3 DEF Timer
  <1>11. CASE UNCHANGED vars
    BY <1>11 DEF vars
  <1> QED
    BY <1>1, <1>2, <1>3, <1>4, <1>5, <1>6, <1>7, <1>8, <1>9, <1>10, <1>11
    DEF Next, Cpu

(* Type correctness of the CPU loop, the devices and the timer threads.     *)
THEOREM TypeCorrect == Spec => []TypeOK
  <1>1. ASSUME Init PROVE TypeOK
    <2>1. ZeroTcr \in Tcr
      BY DEF ZeroTcr, Tcr
    <2>2. thr \in [Threads -> ThrPlaces] /\ dev \in [Lines -> {"idle", "signal"}]
      BY <1>1 DEF Init, ThrPlaces
    <2>3. loaded \in [Threads -> Tcr] /\ msg \in [Lines -> Msgs]
      BY <1>1, <2>1 DEF Init
    <2>4. timerActive \in BOOLEAN /\ timerMsg \in BOOLEAN
      BY <1>1, Zenon DEF Init
    <2>5. entries \in Nat /\ cpu \in CpuPlaces
      BY <1>1 DEF Init, CpuPlaces
    <2> QED
      BY <1>1, <2>1, <2>2, <2>3, <2>4, <2>5, Zenon DEF Init, TypeOK
  <1> QED
    BY <1>1, TypeStep, PTL DEF Spec
-----------------------------------------------------------------------------
(* The handshake over timer_active.                                        *)

(* A thread that goes on living leaves the handshake as it is.              *)
LEMMA StaysLive ==
    ASSUME TypeOK, OneTimerThread, NEW t \in Threads,
           Live(t), NEW p, p # "none",
           thr' = [thr EXCEPT ![t] = p], timerActive' = timerActive
    PROVE  OneTimerThread'
  BY DEF TypeOK, OneTimerThread, Live

LEMMA OneTimerThreadStep ==
    TypeOK /\ OneTimerThread /\ [Next]_vars => OneTimerThread'
  <1> SUFFICES ASSUME TypeOK, OneTimerThread, [Next]_vars PROVE OneTimerThread'
    OBVIOUS
  <1>1. CASE UNCHANGED <<thr, timerActive>>
    BY <1>1 DEF OneTimerThread, Live
  <1>2. CASE Tail
    <2>1. CASE MustStart
      <3>1. PICK t \in Threads : thr' = [thr EXCEPT ![t] = "sleep"]
        BY <1>2, <2>1 DEF Tail
      <3>2. \A u \in Threads : thr[u] = "none"
        BY <2>1, Zenon DEF MustStart, OneTimerThread, Live
      <3>3. \A u \in Threads : thr'[u] # "none" <=> u = t
        BY <3>1, <3>2 DEF TypeOK
      <3>4. timerActive' = TRUE
        BY <1>2, <2>1, Zenon DEF Tail
      <3> QED
        BY <3>3, <3>4, Zenon DEF OneTimerThread, Live
    <2>2. CASE ~MustStart
      BY <1>1, <1>2, <2>2 DEF Tail
    <2> QED
      BY <2>1, <2>2
  <1>3. ASSUME NEW t \in Threads, EndThread(t) PROVE OneTimerThread'
    <2>1. thr[t] = "stop" /\ thr' = [thr EXCEPT ![t] = "none"]
      BY <1>3 DEF EndThread, ThreadMoves
    <2>2. \A u \in Threads : thr[u] # "none" => u = t
      BY <2>1 DEF OneTimerThread, Live
    <2>3. \A u \in Threads : thr'[u] = "none"
      BY <2>1, <2>2 DEF TypeOK
    <2>4. timerActive' = FALSE
      BY <1>3, Zenon DEF EndThread
    <2> QED
      BY <2>3, <2>4, Zenon DEF OneTimerThread, Live
  <1>4. ASSUME NEW t \in Threads, Timer(t), ~EndThread(t) PROVE OneTimerThread'
    <2>1. /\ Live(t)
          /\ timerActive' = timerActive
          /\ \E p \in ThrPlaces \ {"none"} : thr' = [thr EXCEPT ![t] = p]
      BY <1>4, Zenon DEF Timer, Expire, CheckInterval, CheckOut, LoadTcr, MarkTcr,
        PostTimer, ThreadSignal, ThreadMoves, ThrPlaces, Live, timerVars
    <2> QED
      BY <2>1, StaysLive
  <1>5. CASE Next /\ ~Tail /\ \A t \in Threads : ~Timer(t)
    <2>1. UNCHANGED <<thr, timerActive>>
      BY <1>5 DEF Next, Cpu, PollTimer, AckTimer, PollLines, TakeLine, MtcrPsq,
        MtcrApsq, MtcrEim, MtcrTimer, Rex, Trap, OtherInstr, Executes, Sleep, Stop,
        Resume, SpuriousWake, Raise, DeviceSignal, timerVars, thrVars
    <2> QED
      BY <2>1, <1>1
  <1>6. CASE UNCHANGED vars
    BY <1>6, <1>1 DEF vars
  <1> QED
    BY <1>2, <1>3, <1>4, <1>5, <1>6

(* At most one timer thread lives, and timer_active says whether one does.  *)
THEOREM TimerHandshake == Spec => []OneTimerThread
  <1>1. Init => OneTimerThread
    BY Zenon DEF Init, OneTimerThread, Live
  <1> QED
    BY <1>1, TypeCorrect, OneTimerThreadStep, PTL DEF Spec
-----------------------------------------------------------------------------
(* Pending interrupts.                                                     *)

LEMMA TakingPendingStep ==
    TypeOK /\ TakingPending /\ [Next]_vars => TakingPending'
  <1> SUFFICES ASSUME TypeOK, TakingPending, [Next]_vars PROVE TakingPending'
    OBVIOUS
  <1>1. CASE PollLines
    BY <1>1 DEF PollLines, Enabled, TakingPending, intrVars
  <1>2. CASE TakeLine
    <2>1. PICK l \in taking : /\ pending' = Toggle(pending, l)
                              /\ taking' = taking \ {l}
      BY <1>2 DEF TakeLine
    <2>2. pending' = pending \ {l}
      BY <2>1 DEF TakingPending, Toggle
    <2> QED
      BY <2>1, <2>2 DEF TakingPending
  <1>3. ASSUME NEW l \in Lines, Raise(l) PROVE TakingPending'
    BY <1>3 DEF Raise, TakingPending
  <1>4. CASE Next /\ ~PollLines /\ ~TakeLine /\ \A l \in Lines : ~Raise(l)
    <2>1. UNCHANGED <<taking, pending>>
      BY <1>4 DEF Next, Cpu, PollTimer, AckTimer, MtcrPsq, MtcrApsq, MtcrEim,
        MtcrTimer, Rex, Trap, OtherInstr, Executes, Sleep, Stop, Resume, Tail,
        SpuriousWake, DeviceSignal, Timer, Expire, CheckInterval, EndThread, CheckOut,
        LoadTcr, MarkTcr, PostTimer, ThreadSignal, ThreadMoves, intrVars
    <2> QED
      BY <2>1 DEF TakingPending
  <1>5. CASE UNCHANGED vars
    BY <1>5 DEF vars, TakingPending
  <1> QED
    BY <1>1, <1>2, <1>3, <1>4, <1>5

(* What the loop has noted and not done yet is still pending.               *)
THEOREM TakingStaysPending == Spec => []TakingPending
  <1>1. Init => TakingPending
    BY DEF Init, TakingPending
  <1> QED
    BY <1>1, TypeCorrect, TakingPendingStep, PTL DEF Spec

(* A step of the machine is a step of the mailboxes or leaves them alone.   *)
LEMMA MailboxStep ==
    TypeOK /\ TakingPending /\ [Next]_vars => [Mail!Next]_<<pending, msg, handed, dev>>
  <1> SUFFICES ASSUME TypeOK, TakingPending, [Next]_vars
               PROVE  [Mail!Next]_<<pending, msg, handed, dev>>
    OBVIOUS
  <1>1. CASE TakeLine
    <2>1. PICK l \in taking : /\ pending' = Toggle(pending, l)
                              /\ handed' = msg[l]
                              /\ UNCHANGED <<msg, dev>>
      BY <1>1 DEF TakeLine
    <2>2. l \in pending /\ l \in Lines
      BY DEF TakingPending, TypeOK
    <2>3. pending' = pending \ {l}
      BY <2>1, <2>2 DEF Toggle
    <2>4. Mail!Take(l)
      BY <2>1, <2>2, <2>3 DEF Mail!Take
    <2> QED
      BY <2>2, <2>4 DEF Mail!Next
  <1>2. ASSUME NEW l \in Lines, Raise(l) PROVE Mail!Next
    BY <1>2 DEF Raise, Mail!Next, Mail!Post
  <1>3. ASSUME NEW l \in Lines, DeviceSignal(l) PROVE Mail!Next
    BY <1>3 DEF DeviceSignal, Mail!Next, Mail!Return, intrVars
  <1>4. CASE Next /\ ~TakeLine /\ \A l \in Lines : ~Raise(l) /\ ~DeviceSignal(l)
    <2>1. UNCHANGED <<pending, msg, handed, dev>>
      BY <1>4 DEF Next, Cpu, PollTimer, AckTimer, PollLines, MtcrPsq, MtcrApsq,
        MtcrEim, MtcrTimer, Rex, Trap, OtherInstr, Executes, Sleep, Stop, Resume, Tail,
        SpuriousWake, Timer, Expire, CheckInterval, EndThread, CheckOut,
        LoadTcr, MarkTcr, PostTimer, ThreadSignal, ThreadMoves, intrVars
    <2> QED
      BY <2>1
  <1>5. CASE UNCHANGED vars
    BY <1>5 DEF vars
  <1> QED
    BY <1>1, <1>2, <1>3, <1>4, <1>5

(* lcca_intr and lcca_run implement one mailbox per line: interrupts are    *)
(* neither lost nor taken twice, and the message is the latest.             *)
THEOREM ImplementsMailbox == Spec => MailboxSpec
  <1>1. Init => Mail!Init
    BY DEF Init, Mail!Init
  <1> QED
    BY <1>1, MailboxStep, TypeCorrect, TakingStaysPending, PTL
    DEF Spec, MailboxSpec, Mail!Spec, Mail!vars
-----------------------------------------------------------------------------
(* One asynchronous entry between two instructions.                        *)

OneLine == \A k, l \in Lines : k = l

(* How many entries there have been, by place: a TIME entry clears EI, so   *)
(* that the poll after it finds no line enabled.                            *)
EntriesByPlace ==
    /\ cpu \in {"timer", "ack"} => entries = 0
    /\ cpu = "poll" /\ "EI" \in psq => entries = 0
    /\ cpu = "extn" => entries = 0
    /\ entries <= 1

LEMMA EntriesStep ==
    OneLine /\ TypeOK /\ EntriesByPlace /\ [Next]_vars => EntriesByPlace'
  <1> SUFFICES ASSUME OneLine, TypeOK, EntriesByPlace, [Next]_vars
               PROVE  EntriesByPlace'
    OBVIOUS
  <1> USE DEF EntriesByPlace, cpuRegs
  <1>1. CASE PollTimer
    BY <1>1 DEF PollTimer
  <1>2. CASE AckTimer
    <2>1. psq' = EntryPsq(psq) /\ "EI" \notin psq'
      BY <1>2, EntryPsqType DEF AckTimer, InterruptEntry, TypeOK
    <2>2. entries' = 1 /\ cpu' = "poll"
      BY <1>2 DEF AckTimer
    <2> QED
      BY <2>1, <2>2
  <1>3. CASE PollLines
    BY <1>3 DEF PollLines, Enabled
  <1>4. CASE TakeLine
    <2>1. PICK l \in taking : /\ taking' = taking \ {l}
                              /\ cpu' = IF taking' = {} THEN "exec" ELSE "extn"
                              /\ entries' = entries + 1
                              /\ cpu = "extn"
      BY <1>4 DEF TakeLine
    <2>2. taking' = {}
      BY <2>1 DEF OneLine, TypeOK
    <2> QED
      BY <2>1, <2>2
  <1>5. CASE \/ MtcrPsq \/ MtcrApsq \/ MtcrEim \/ MtcrTimer \/ Rex \/ Trap \/ OtherInstr
             \/ Sleep \/ Stop \/ Resume \/ SpuriousWake
    BY <1>5 DEF MtcrPsq, MtcrApsq, MtcrEim, MtcrTimer, Rex, Trap, OtherInstr, Executes,
      Sleep, Stop, Resume, SpuriousWake
  <1>6. CASE Tail
    BY <1>6 DEF Tail
  <1>7. ASSUME NEW l \in Lines, Raise(l) \/ DeviceSignal(l) PROVE EntriesByPlace'
    BY <1>7 DEF Raise, DeviceSignal, Signalled
  <1>8. ASSUME NEW t \in Threads, Timer(t) PROVE EntriesByPlace'
    BY <1>8 DEF Timer, Expire, CheckInterval, EndThread, CheckOut, LoadTcr, MarkTcr,
      PostTimer, ThreadSignal, ThreadMoves, Signalled
  <1>9. CASE UNCHANGED vars
    BY <1>9 DEF vars
  <1> QED
    BY <1>1, <1>2, <1>3, <1>4, <1>5, <1>6, <1>7, <1>8, <1>9 DEF Next, Cpu

(* With one line, as in the emulator, no asynchronous entry overwrites the  *)
(* return state of another before an instruction is executed.  OneLine is   *)
(* needed: the for loop of lcca_run does not look at EI between two lines.  *)
THEOREM OneEntry ==
    ASSUME OneLine
    PROVE  Spec => []OneEntryPerInstruction
  <1>1. Init => EntriesByPlace
    BY DEF Init, EntriesByPlace
  <1>2. TypeOK /\ EntriesByPlace /\ [Next]_vars => EntriesByPlace'
    BY OneLine, EntriesStep
  <1>3. EntriesByPlace => OneEntryPerInstruction
    BY DEF EntriesByPlace, OneEntryPerInstruction
  <1> QED
    BY <1>1, <1>2, <1>3, TypeCorrect, PTL DEF Spec
=============================================================================

-------------------------------- MODULE Lcca --------------------------------
(***************************************************************************)
(* The main loop of the emulated CPU (lcca_run), the devices that raise    *)
(* external interrupts (lcca_intr) and the timer threads (timer_thread),   *)
(* at the grain at which the three kinds of thread interleave.             *)
(*                                                                         *)
(* What the guest program does is chosen freely among the instructions     *)
(* that change interrupt state; every other instruction is OtherInstr.     *)
(* Lock and condition          *)
(* variable are the POSIX ones: a signal that finds nobody waiting is      *)
(* lost, and a wait may end with no signal.                                *)
(***************************************************************************)
EXTENDS Naturals, FiniteSets, Psq

CONSTANTS Lines,    \* the interrupt lines that devices raise
          Msgs,     \* the messages they pass with an interrupt
          Threads   \* identities for timer threads (bounds how many can live)

\* intr_msg has EIP_EXTERNAL_INTRS = 16 slots.
ASSUME LinesAssumption == Lines \subseteq 0..15
ASSUME MsgsAssumption == Msgs # {}

VARIABLES
    cpu,          \* where the CPU thread stands in lcca_run
    psq, apsq,    \* CR_PSQ and CR_APSQ, the flags EI and WS of them
    eim,          \* CR_EIM: the lines the guest listens to
    taking,       \* now_pending, less the lines the for loop has done
    pending, msg, \* intr_pending and intr_msg
    handed,       \* history: the message that went to CR_EIP with the last EXTN entry
    dev,          \* where each device stands in lcca_intr
    tcr,          \* CR_TIMER: run = its interval field is not zero, out = bit 40
    timerActive, timerMsg,
    thr,          \* where each timer thread stands in timer_thread
    loaded,       \* the value of CR_TIMER a thread has read for its ^=, until stored
    mutex,        \* intr_mutex
    entries       \* history: asynchronous entries since the last instruction

cpuRegs == <<psq, apsq, eim>>
intrVars == <<pending, msg, handed>>
timerVars == <<tcr, timerActive, timerMsg>>
thrVars == <<thr, loaded>>
vars == <<cpu, psq, apsq, eim, taking, pending, msg, handed, dev, tcr,
          timerActive, timerMsg, thr, loaded, mutex, entries>>

Flags == {"EI", "WS"}
Tcr == [run : BOOLEAN, out : BOOLEAN]
ZeroTcr == [run |-> FALSE, out |-> FALSE]
CpuPlaces == {"timer", "ack", "poll", "extn", "exec", "asleep", "woken",
              "tail", "stopped"}
ThrPlaces == {"none", "sleep", "check", "stop", "flag", "load", "mark",
              "post", "signal"}

TypeOK ==
    /\ cpu \in CpuPlaces
    /\ psq \in SUBSET Flags /\ apsq \in SUBSET Flags
    /\ eim \in SUBSET Lines
    /\ taking \in SUBSET Lines
    /\ pending \in SUBSET Lines /\ msg \in [Lines -> Msgs]
    /\ handed \in Msgs
    /\ dev \in [Lines -> {"idle", "signal"}]
    /\ tcr \in Tcr
    /\ timerActive \in BOOLEAN /\ timerMsg \in BOOLEAN
    /\ thr \in [Threads -> ThrPlaces] /\ loaded \in [Threads -> Tcr]
    /\ mutex \in {"free", "cpu"}
    /\ entries \in Nat

\* main clears the whole cpu structure before it starts lcca_run.  A message
\* that stands for 0 is any of Msgs.
Init ==
    /\ cpu = "timer"
    /\ psq = {} /\ apsq = {} /\ eim = {} /\ taking = {}
    /\ pending = {} /\ dev = [l \in Lines |-> "idle"]
    /\ handed \in Msgs /\ msg = [l \in Lines |-> handed]
    /\ tcr = ZeroTcr
    /\ timerActive = FALSE /\ timerMsg = FALSE
    /\ thr = [t \in Threads |-> "none"]
    /\ loaded = [t \in Threads |-> ZeroTcr]
    /\ mutex = "free"
    /\ entries = 0
-----------------------------------------------------------------------------
(* The CPU thread, in the order of lcca_run's loop.                        *)

\* intr_internal: the status word goes to APSQ and the handler gets its own.
InterruptEntry ==
    /\ apsq' = psq
    /\ psq' = EntryPsq(psq)

\* Is an enabled timer message there?  timer_msg is read without a lock.
PollTimer ==
    /\ cpu = "timer"
    /\ cpu' = IF "EI" \in psq /\ timerMsg THEN "ack" ELSE "poll"
    /\ UNCHANGED <<cpuRegs, taking, intrVars, dev, timerVars, thrVars, mutex, entries>>

\* timer_msg = 0 and the TIME entry.
AckTimer ==
    /\ cpu = "ack"
    /\ timerMsg' = FALSE
    /\ InterruptEntry
    /\ entries' = entries + 1
    /\ cpu' = "poll"
    /\ UNCHANGED <<eim, taking, intrVars, dev, tcr, timerActive, thrVars, mutex>>

\* Mutant: EIM read as the lines to ignore.
Enabled_Inverted == IF "EI" \in psq THEN pending \ eim ELSE {}

\* The lines whose interrupts are pending and enabled, once, with no lock.
Enabled == IF "EI" \in psq THEN pending \cap eim ELSE {}

\* Mutant: the second test does not look at EI again after a TIME entry.
PollLines_StaleEI ==
    /\ cpu = "poll"
    /\ taking' = pending \cap eim
    /\ cpu' = IF taking' = {} THEN "exec" ELSE "extn"
    /\ UNCHANGED <<cpuRegs, intrVars, dev, timerVars, thrVars, mutex, entries>>

PollLines ==
    /\ cpu = "poll"
    /\ taking' = Enabled
    /\ cpu' = IF taking' = {} THEN "exec" ELSE "extn"
    /\ UNCHANGED <<cpuRegs, intrVars, dev, timerVars, thrVars, mutex, entries>>

\* Mutant: the neighbouring bit.
Toggle_OffByOne(s, i) == IF i + 1 \in s THEN s \ {i + 1} ELSE s \cup {i + 1}

\* ^= of one bit of a set of bits.
Toggle(s, i) == IF i \in s THEN s \ {i} ELSE s \cup {i}

\* Mutant: the pending bit stays.
TakeLine_NoClear ==
    \E l \in taking :
        /\ cpu = "extn" /\ mutex = "free"
        /\ \A k \in taking : l <= k
        /\ handed' = msg[l]
        /\ InterruptEntry
        /\ entries' = entries + 1
        /\ taking' = taking \ {l}
        /\ cpu' = IF taking' = {} THEN "exec" ELSE "extn"
        /\ UNCHANGED <<eim, pending, msg, dev, timerVars, thrVars, mutex>>

\* One round of the for loop, lowest line first: under intr_mutex the line is
\* toggled off and its message goes to EIP; then the EXTN entry.  CR_EIP itself is
\* not in the state: the guest may write it, and only the guest reads it.
TakeLine ==
    \E l \in taking :
        /\ cpu = "extn" /\ mutex = "free"
        /\ \A k \in taking : l <= k
        /\ pending' = Toggle(pending, l)
        /\ handed' = msg[l]
        /\ InterruptEntry
        /\ entries' = entries + 1
        /\ taking' = taking \ {l}
        /\ cpu' = IF taking' = {} THEN "exec" ELSE "extn"
        /\ UNCHANGED <<eim, msg, dev, timerVars, thrVars, mutex>>

\* The place of an instruction: WS is off.  It is done in one step, for the
\* only shared register it can touch, CR_TIMER, is read or written once.
Executes ==
    /\ cpu = "exec" /\ "WS" \notin psq
    /\ cpu' = "tail"
    /\ UNCHANGED <<taking, intrVars, dev, timerActive, timerMsg, thrVars, mutex, entries>>

\* mtcr to PSQ, APSQ, EIM and the timer register; rex; a synchronous trap.
MtcrPsq ==
    /\ Executes
    /\ psq' \in SUBSET Flags
    /\ UNCHANGED <<apsq, eim, tcr>>

MtcrApsq ==
    /\ Executes
    /\ apsq' \in SUBSET Flags
    /\ UNCHANGED <<psq, eim, tcr>>

MtcrEim ==
    /\ Executes
    /\ eim' \in SUBSET Lines
    /\ UNCHANGED <<psq, apsq, tcr>>

MtcrTimer ==
    /\ Executes
    /\ tcr' \in Tcr
    /\ UNCHANGED cpuRegs

Rex ==
    /\ Executes
    /\ psq' = apsq
    /\ UNCHANGED <<apsq, eim, tcr>>

Trap ==
    /\ Executes
    /\ InterruptEntry
    /\ UNCHANGED <<eim, tcr>>

OtherInstr ==
    /\ Executes
    /\ UNCHANGED <<cpuRegs, tcr>>

\* The wait state with interrupts: cond_wait.  lcca_intr holds the mutex only
\* while it changes pending, so taking it and waiting are one step.
Sleep ==
    /\ cpu = "exec" /\ mutex = "free"
    /\ {"WS", "EI"} \subseteq psq
    /\ cpu' = "asleep"
    /\ UNCHANGED <<cpuRegs, taking, intrVars, dev, timerVars, thrVars, mutex, entries>>

\* The wait state without interrupts: lcca_run returns and keeps the mutex.
Stop ==
    /\ cpu = "exec" /\ mutex = "free"
    /\ "WS" \in psq /\ "EI" \notin psq
    /\ cpu' = "stopped"
    /\ mutex' = "cpu"
    /\ UNCHANGED <<cpuRegs, taking, intrVars, dev, timerVars, thrVars, entries>>

\* pthread_cond_signal: it wakes the CPU when it waits, and is lost otherwise.
Signalled == IF cpu = "asleep" THEN "woken" ELSE cpu

\* pthread_cond_wait may return without a signal.
SpuriousWake ==
    /\ cpu = "asleep"
    /\ cpu' = "woken"
    /\ UNCHANGED <<cpuRegs, taking, intrVars, dev, timerVars, thrVars, mutex, entries>>

\* cond_wait returns with the mutex, which is let go at once.
Resume ==
    /\ cpu = "woken" /\ mutex = "free"
    /\ cpu' = "tail"
    /\ UNCHANGED <<cpuRegs, taking, intrVars, dev, timerVars, thrVars, mutex, entries>>

\* Does the end of the loop start a timer thread?
MustStart_IgnoresActive == tcr.run   \* mutant: the test of timer_active is lost
MustStart == ~timerActive /\ tcr.run

\* The end of the loop: a new timer thread when one is wanted and none is on.
Tail ==
    /\ cpu = "tail"
    /\ cpu' = "timer"
    /\ entries' = 0
    /\ IF MustStart
         THEN /\ timerActive' = TRUE
              /\ \E t \in Threads : /\ thr[t] = "none"
                                    /\ thr' = [thr EXCEPT ![t] = "sleep"]
         ELSE UNCHANGED <<timerActive, thr>>
    /\ UNCHANGED <<cpuRegs, taking, intrVars, dev, tcr, timerMsg, loaded, mutex>>

Cpu == \/ PollTimer \/ AckTimer \/ PollLines \/ TakeLine
       \/ MtcrPsq \/ MtcrApsq \/ MtcrEim \/ MtcrTimer
       \/ Rex \/ Trap \/ OtherInstr
       \/ Sleep \/ Stop \/ Resume \/ Tail
-----------------------------------------------------------------------------
(* A device's thread in lcca_intr.                                         *)

\* Mutant: intr_pending ^= instead of |=.
Raise_Toggles(l) ==
    /\ dev[l] = "idle" /\ mutex = "free"
    /\ \E m \in Msgs : msg' = [msg EXCEPT ![l] = m]
    /\ pending' = Toggle(pending, l)
    /\ dev' = [dev EXCEPT ![l] = "signal"]
    /\ UNCHANGED <<cpu, cpuRegs, taking, handed, timerVars, thrVars, mutex, entries>>

\* Under intr_mutex: the message, then the bit.
Raise(l) ==
    /\ dev[l] = "idle" /\ mutex = "free"
    /\ \E m \in Msgs : msg' = [msg EXCEPT ![l] = m]
    /\ pending' = pending \cup {l}
    /\ dev' = [dev EXCEPT ![l] = "signal"]
    /\ UNCHANGED <<cpu, cpuRegs, taking, handed, timerVars, thrVars, mutex, entries>>

\* lcca_wake, after the mutex is free again.
DeviceSignal(l) ==
    /\ dev[l] = "signal"
    /\ dev' = [dev EXCEPT ![l] = "idle"]
    /\ cpu' = Signalled
    /\ UNCHANGED <<cpuRegs, taking, intrVars, timerVars, thrVars, mutex, entries>>
-----------------------------------------------------------------------------
(* A timer thread.  It takes no lock at all.                               *)

ThreadMoves(t, from, to) ==
    /\ thr[t] = from
    /\ thr' = [thr EXCEPT ![t] = to]
    /\ UNCHANGED <<cpuRegs, taking, intrVars, dev, mutex, entries>>

\* The loop around nanosleep ends: the time has passed.
Expire(t) ==
    /\ ThreadMoves(t, "sleep", "check")
    /\ UNCHANGED <<cpu, timerVars, loaded>>

\* The first test: is the interval zero?
CheckInterval(t) ==
    /\ ThreadMoves(t, "check", IF tcr.run THEN "flag" ELSE "stop")
    /\ UNCHANGED <<cpu, timerVars, loaded>>

\* Mutant: the thread ends without clearing timer_active.
EndThread_KeepsActive(t) ==
    /\ ThreadMoves(t, "stop", "none")
    /\ UNCHANGED <<cpu, timerVars, loaded>>

\* timer_active = 0 and out of the loop.
EndThread(t) ==
    /\ ThreadMoves(t, "stop", "none")
    /\ timerActive' = FALSE
    /\ UNCHANGED <<cpu, tcr, timerMsg, loaded>>

\* The second test, which reads the register again.
CheckOut(t) ==
    /\ ThreadMoves(t, "flag", IF tcr.out THEN "sleep" ELSE "load")
    /\ UNCHANGED <<cpu, timerVars, loaded>>

\* The two halves of CR_TIMER ^= bit 40, which is not atomic.
LoadTcr(t) ==
    /\ ThreadMoves(t, "load", "mark")
    /\ loaded' = [loaded EXCEPT ![t] = tcr]
    /\ UNCHANGED <<cpu, timerVars>>

MarkTcr(t) ==
    /\ ThreadMoves(t, "mark", "post")
    /\ tcr' = [loaded[t] EXCEPT !.out = ~@]
    /\ loaded' = [loaded EXCEPT ![t] = ZeroTcr]
    /\ UNCHANGED <<cpu, timerActive, timerMsg>>

PostTimer(t) ==
    /\ ThreadMoves(t, "post", "signal")
    /\ timerMsg' = TRUE
    /\ UNCHANGED <<cpu, tcr, timerActive, loaded>>

ThreadSignal(t) ==
    /\ ThreadMoves(t, "signal", "sleep")
    /\ cpu' = Signalled
    /\ UNCHANGED <<timerVars, loaded>>

Timer(t) == \/ Expire(t) \/ CheckInterval(t) \/ EndThread(t) \/ CheckOut(t)
            \/ LoadTcr(t) \/ MarkTcr(t) \/ PostTimer(t) \/ ThreadSignal(t)
-----------------------------------------------------------------------------
Next == \/ Cpu
        \/ SpuriousWake
        \/ \E l \in Lines : Raise(l) \/ DeviceSignal(l)
        \/ \E t \in Threads : Timer(t)

Spec == Init /\ [][Next]_vars

\* Every thread is scheduled.  A device need not raise anything, and a wait
\* need not end by itself.
FairSpec == /\ Spec
            /\ WF_vars(Cpu)
            /\ \A l \in Lines : WF_vars(DeviceSignal(l))
            /\ \A t \in Threads : WF_vars(Timer(t))
-----------------------------------------------------------------------------
(* Properties.                                                             *)

Live(t) == thr[t] # "none"

\* At most one timer thread runs, and timer_active says whether one does: the
\* handshake of lcca_run and timer_thread over timer_active, with no lock, never
\* starts a second thread beside one that has not ended.
OneTimerThread ==
    /\ \A t, u \in Threads : Live(t) /\ Live(u) => t = u
    /\ timerActive <=> \E t \in Threads : Live(t)

\* Between two instructions the CPU enters at most one asynchronous handler, TIME
\* or EXTN.  A second entry would overwrite APC and APSQ, and the interrupted
\* program could not be resumed.
OneEntryPerInstruction == entries <= 1

\* The lines that the for loop still has to do are pending: nothing but the loop
\* itself takes a pending bit away, so that the ^= of lcca_run always clears.
TakingPending == taking \subseteq pending

\* External interrupts are mailboxes of one message (see Mailbox).
Mail == INSTANCE Mailbox
MailboxSpec == Mail!Spec

\* A pending interrupt is taken as long as the guest keeps enabling its line: it
\* cannot stay pending for ever while lcca_run polls again and again with EI on and
\* the line in EIM.
ServedWhenPolled ==
    \A l \in Lines :
        []<>(cpu = "poll" /\ "EI" \in psq /\ l \in eim)
            => (l \in pending ~> l \notin pending)

\* A timer interval that the guest sets while no timer thread runs gets a thread,
\* unless the guest clears it or the CPU goes to sleep or stops first.
TimerStarts ==
    (tcr.run /\ \A t \in Threads : ~Live(t))
        ~> \/ \E t \in Threads : Live(t)
           \/ ~tcr.run
           \/ cpu \in {"asleep", "stopped"}

\* A CPU in the "wait state with interrupts" (asm/hello.txt:731) does not sleep on an
\* enabled interrupt: when one is there, whoever posted it has yet to signal.
WaitEndsOnInterrupt ==
    cpu = "asleep" /\ (Enabled # {} \/ timerMsg)
        => \/ \E l \in Lines : dev[l] = "signal"
           \/ \E t \in Threads : thr[t] = "signal"

\* A CPU in the "wait state with interrupts" (asm/hello.txt:731) that has set the timer
\* has a timer thread to end the wait.
WaitHasTimer ==
    cpu = "asleep" /\ tcr.run => \E t \in Threads : Live(t)
=============================================================================

------------------------------ MODULE KeyRing ------------------------------
(***************************************************************************)
(* The keyboard half of the console: console_thread takes keys from the    *)
(* terminal, puts them into a ring and interrupts the CPU when the control *)
(* byte asks for it; the guest reads the status and data registers         *)
(* (console_read) and sets the control byte (console_write).               *)
(*                                                                         *)
(* buffer_mutex is held by console_thread from Store to the end of         *)
(* lcca_intr.  The status is read without it.  Echo is left out, so the    *)
(* control byte is its three interrupt flags.                              *)
(***************************************************************************)
EXTENDS Naturals, Sequences

CONSTANTS BUF_SIZE,   \* 128 in console.h
          Keys,       \* what getchar returns; "DEL", "RET", "ESC" and "EOF" are special
          MaxTyped    \* bounds the keys typed in a run

ASSUME BufSizeAssumption == BUF_SIZE \in Nat \ {0, 1}
ASSUME MaxTypedAssumption == MaxTyped \in Nat

VARIABLES
    buffer, current_in, current_out,
    ctrl,      \* ctrl_byte: the kinds of key that interrupt
    kbd,       \* where console_thread stands
    key,       \* its c
    flow,      \* history: the last flow control character put to the terminal
    xonDue,    \* the guest's read of the data register has yet to put XON
    ready,     \* the guest has seen CON_READ_READY and not read since
    told,      \* history: there was an interrupt since the ring last changed
    typed,     \* how many keys were typed
    stored,    \* history: the bytes that went into the ring
    got        \* history: the bytes that the guest has read

ring == <<buffer, current_in, current_out>>
guestVars == <<ctrl, ready>>
kbdVars == <<kbd, key, typed>>
vars == <<ring, guestVars, kbdVars, flow, xonDue, told, stored, got>>

Index == 0..BUF_SIZE-1
IntrFlags == {"RET", "ESC", "ANY"}

\* Mutant: DEL is stored as it is.
Convert_Not(c) == c

\* if (c == 0x7F) c = '\b'.
Convert(c) == IF c = "DEL" THEN "BS" ELSE c

\* What can be in the ring.
Bytes == (Keys \ {"DEL"}) \cup {"BS"}

TypeOK ==
    /\ buffer \in [Index -> Bytes]
    /\ current_in \in Index /\ current_out \in Index
    /\ ctrl \in SUBSET IntrFlags
    /\ kbd \in {"getchar", "store", "intr", "signal", "ended"}
    /\ key \in Bytes
    /\ flow \in {"XON", "XOFF"}
    /\ xonDue \in BOOLEAN /\ ready \in BOOLEAN /\ told \in BOOLEAN
    /\ typed \in Nat /\ stored \in Seq(Bytes) /\ got \in Seq(Bytes)

\* init_console.  ctrl_byte is 0xF0: no interrupts.
Init ==
    /\ buffer \in [Index -> Bytes]
    /\ current_in = 0 /\ current_out = 0
    /\ ctrl = {}
    /\ kbd = "getchar" /\ key \in Bytes
    /\ flow = "XON" /\ xonDue = FALSE
    /\ ready = FALSE /\ told = FALSE
    /\ typed = 0 /\ stored = <<>> /\ got = <<>>

\* The next index around the ring.
Wrap(i) == i % BUF_SIZE

Empty == current_in = current_out

\* Mutant: the last slot is used too, and a full ring looks empty.
Full_LastSlot == FALSE

\* One slot stays free, so that a full ring and an empty one differ.
Full == Wrap(current_in + 1) = current_out
-----------------------------------------------------------------------------
(* console_thread.                                                         *)

\* getchar.
GetChar(c) ==
    /\ kbd = "getchar" /\ typed < MaxTyped
    /\ typed' = typed + 1
    /\ key' = Convert(c)
    /\ kbd' = "store"
    /\ UNCHANGED <<ring, guestVars, flow, xonDue, told, stored, got>>

\* The loop goes on, until EOF.
Again == IF key = "EOF" THEN "ended" ELSE "getchar"

\* Mutant: the test of the full ring comes before current_in has moved on.
FillsRing_Before == Wrap(current_in + 1) = current_out

\* The key fills the ring.
FillsRing == Wrap(Wrap(current_in + 1) + 1) = current_out

\* Must the key interrupt the CPU?  ctrl_byte is read once, with no lock that
\* the guest would take to write it.
Interrupts ==
    \/ key \in {"RET", "ESC"} /\ key \in ctrl
    \/ "ANY" \in ctrl
    \/ FillsRing

\* Under buffer_mutex, up to the call of lcca_intr.  A key that finds the ring
\* full is dropped with a BEL; one that fills it sends XOFF.
Store ==
    /\ kbd = "store"
    /\ IF Full
         THEN /\ kbd' = Again
              /\ UNCHANGED <<ring, flow, told, stored>>
         ELSE /\ buffer' = [buffer EXCEPT ![current_in] = key]
              /\ current_in' = Wrap(current_in + 1)
              /\ flow' = IF FillsRing THEN "XOFF" ELSE flow
              /\ kbd' = IF Interrupts THEN "intr" ELSE Again
              /\ told' = FALSE
              /\ stored' = Append(stored, key)
              /\ UNCHANGED current_out
    /\ UNCHANGED <<guestVars, key, typed, xonDue, got>>

\* lcca_intr: the pending bit, under intr_mutex; then the signal.
Interrupt ==
    /\ kbd = "intr"
    /\ kbd' = "signal"
    /\ told' = TRUE
    /\ UNCHANGED <<ring, guestVars, key, typed, flow, xonDue, stored, got>>

Signal ==
    /\ kbd = "signal"
    /\ kbd' = Again
    /\ UNCHANGED <<ring, guestVars, key, typed, flow, xonDue, told, stored, got>>

Kbd == Store \/ Interrupt \/ Signal

\* buffer_mutex is console_thread's.
KbdHolds == kbd \in {"intr", "signal"}
-----------------------------------------------------------------------------
(* The guest's thread, through the console's registers.                    *)

\* Mutant: ready when the ring is not full.
ReadReady_NotFull == ~Full

\* Bit CON_READ_READY of register 0.
ReadReady == ~Empty

ReadStatus ==
    /\ ~xonDue
    /\ ready' = ReadReady
    /\ UNCHANGED <<ring, ctrl, kbdVars, flow, xonDue, told, stored, got>>

\* Mutant: the test for XON comes after the byte is taken.
SendsXon_After == Wrap(current_in + 1) = Wrap(current_out + 1)

\* The read makes room in a full ring.
SendsXon == Full

\* Register 1, under buffer_mutex.  An empty ring gives 0.
ReadData ==
    /\ ~xonDue /\ ~KbdHolds
    /\ ready' = FALSE
    /\ IF Empty
         THEN UNCHANGED <<current_out, xonDue, told, got>>
         ELSE /\ xonDue' = SendsXon
              /\ got' = Append(got, buffer[current_out])
              /\ current_out' = Wrap(current_out + 1)
              /\ told' = FALSE
    /\ UNCHANGED <<buffer, current_in, ctrl, kbdVars, flow, stored>>

\* putchar(0x11), after the unlock.
SendXon ==
    /\ xonDue
    /\ xonDue' = FALSE
    /\ flow' = "XON"
    /\ UNCHANGED <<ring, guestVars, kbdVars, told, stored, got>>

\* Register 2.
WriteCtrl(flags) ==
    /\ ~xonDue
    /\ ctrl' = flags
    /\ UNCHANGED <<ring, ready, kbdVars, flow, xonDue, told, stored, got>>
-----------------------------------------------------------------------------
Next == \/ \E c \in Keys : GetChar(c)
        \/ Kbd
        \/ ReadStatus \/ ReadData \/ SendXon
        \/ \E flags \in SUBSET IntrFlags : WriteCtrl(flags)

Spec == Init /\ [][Next]_vars
-----------------------------------------------------------------------------
(* Properties.                                                             *)

\* A terminal that obeys flow control is not left stopped: when XOFF is the last that
\* was put, the ring is still full or XON is on its way.  XON is put without
\* buffer_mutex, so it may come behind the XOFF of a later key; never before its own.
NeverLeftStopped == flow = "XOFF" => Full \/ xonDue

\* The interrupt that announces a full ring comes whatever the control byte says.
FullIsAnnounced == Full => told \/ kbd = "intr"

\* A guest that has seen CON_READ_READY reads a byte, though it polls without
\* buffer_mutex: only the guest takes bytes out.
ReadyStaysReady == ready => ~Empty

\* The ring from the oldest byte to the newest.
Size == Wrap(current_in + BUF_SIZE - current_out)
Contents == [i \in 1..Size |-> buffer[Wrap(current_out + i - 1)]]

\* The ring is a queue (see ByteQueue): the guest gets the keys that were stored, in
\* the order of typing, and the free slot keeps a full ring apart from an empty one.
Queue == INSTANCE ByteQueue WITH
    Chars <- Bytes, input <- stored, queue <- Contents, output <- got
QueueSpec == Queue!Spec
=============================================================================

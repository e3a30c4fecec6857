----------------------------- MODULE PrintRing -----------------------------
(***************************************************************************)
(* The printing half of the console: the guest polls the status register   *)
(* and writes bytes to the data register (console_read, console_write),    *)
(* prt_thread takes them from the ring and writes them to the terminal.    *)
(*                                                                         *)
(* A critical section of prt_buf_mutex is one step.  The status register   *)
(* is read without the mutex, between any two steps.                       *)
(***************************************************************************)
EXTENDS Naturals, Sequences

CONSTANTS PRT_BUF_SIZE,   \* 32 in console.h
          Chars,          \* bytes that the guest prints
          MaxPrinted      \* bounds the bytes accepted in a run

ASSUME RingSizeAssumption == PRT_BUF_SIZE \in Nat \ {0}
ASSUME MaxPrintedAssumption == MaxPrinted \in Nat

VARIABLES
    prt_buf, prt_in, prt_out, prt_size,
    prt,       \* where prt_thread stands
    inHand,    \* the byte it has taken and not written yet
    ready,     \* the guest has seen CON_WRITE_READY and not written since
    accepted,  \* history: the bytes that went into the ring
    printed    \* history: the bytes that went to the terminal

ring == <<prt_buf, prt_in, prt_out, prt_size>>
vars == <<ring, prt, inHand, ready, accepted, printed>>

Index == 0..PRT_BUF_SIZE-1

TypeOK ==
    /\ prt_buf \in [Index -> Chars]
    /\ prt_in \in Index /\ prt_out \in Index
    /\ prt_size \in 0..PRT_BUF_SIZE
    /\ prt \in {"start", "asleep", "woken", "write", "again"}
    /\ inHand \in Chars
    /\ ready \in BOOLEAN
    /\ accepted \in Seq(Chars) /\ printed \in Seq(Chars)

\* init_console.  The buffer is not cleared: malloc gives it any content.
Init ==
    /\ prt_buf \in [Index -> Chars]
    /\ prt_in = 0 /\ prt_out = 0 /\ prt_size = 0
    /\ prt = "start"
    /\ inHand \in Chars
    /\ ready = FALSE
    /\ accepted = <<>> /\ printed = <<>>

\* The next index around the ring.
Wrap(i) == i % PRT_BUF_SIZE
-----------------------------------------------------------------------------
(* The guest, through the console's registers.                             *)

\* Mutant: the status says ready for a full ring too.
WriteReady_Full == prt_size <= PRT_BUF_SIZE

\* Bit CON_WRITE_READY of register 0.
WriteReady == prt_size < PRT_BUF_SIZE

ReadStatus ==
    /\ ready' = WriteReady
    /\ UNCHANGED <<ring, prt, inHand, accepted, printed>>

\* Mutant: prt_size is incremented before it is compared with 0.
WakesPrinter_Late == prt_size + 1 = 0

\* The write that makes the ring non-empty signals prt_ready.
WakesPrinter == prt_size = 0

\* Mutant: a full ring takes the byte.
RingFull_Never == FALSE

RingFull == ~(prt_size < PRT_BUF_SIZE)

\* A write to register 3, whether or not the guest has looked at the status.
\* A byte that finds the ring full is dropped.
WriteData(ch) ==
    /\ Len(accepted) < MaxPrinted
    /\ ready' = FALSE
    /\ IF RingFull
         THEN UNCHANGED <<ring, prt, accepted>>
         ELSE /\ prt' = IF WakesPrinter /\ prt = "asleep" THEN "woken" ELSE prt
              /\ prt_size' = prt_size + 1
              /\ prt_buf' = [prt_buf EXCEPT ![prt_in] = ch]
              /\ prt_in' = Wrap(prt_in + 1)
              /\ accepted' = Append(accepted, ch)
              /\ UNCHANGED prt_out
    /\ UNCHANGED <<inHand, printed>>
-----------------------------------------------------------------------------
(* prt_thread.                                                             *)

\* The first test finds the ring empty: cond_wait.
WaitForByte ==
    /\ prt = "start" /\ prt_size = 0
    /\ prt' = "asleep"
    /\ UNCHANGED <<ring, inHand, ready, accepted, printed>>

\* cond_wait may end without a signal.
SpuriousWake ==
    /\ prt = "asleep"
    /\ prt' = "woken"
    /\ UNCHANGED <<ring, inHand, ready, accepted, printed>>

\* Mutant: a wait that ends is taken to mean that there is a byte.
MayTake_Unchecked ==
    \/ prt = "woken"
    \/ prt \in {"start", "again"} /\ prt_size # 0

\* The test of the inner loop.
MayTake == prt \in {"start", "woken", "again"} /\ prt_size # 0

\* Mutant: the index does not move on.
TakeByte_SameIndex ==
    /\ MayTake
    /\ prt_size' = prt_size - 1
    /\ inHand' = prt_buf[prt_out]
    /\ prt' = "write"
    /\ UNCHANGED <<prt_buf, prt_in, prt_out, ready, accepted, printed>>

\* A round of the inner loop up to the unlock.
TakeByte ==
    /\ MayTake
    /\ prt_size' = prt_size - 1
    /\ inHand' = prt_buf[prt_out]
    /\ prt_out' = Wrap(prt_out + 1)
    /\ prt' = "write"
    /\ UNCHANGED <<prt_buf, prt_in, ready, accepted, printed>>

\* write(1, &c, 1), without the mutex.
WriteByte ==
    /\ prt = "write"
    /\ printed' = Append(printed, inHand)
    /\ prt' = "again"
    /\ UNCHANGED <<ring, inHand, ready, accepted>>

\* The inner loop finds the ring empty; the mutex is let go and taken again.
Restart ==
    /\ prt \in {"woken", "again"} /\ prt_size = 0
    /\ prt' = "start"
    /\ UNCHANGED <<ring, inHand, ready, accepted, printed>>

PrtThread == WaitForByte \/ TakeByte \/ WriteByte \/ Restart
-----------------------------------------------------------------------------
Next == \/ ReadStatus
        \/ \E ch \in Chars : WriteData(ch)
        \/ PrtThread
        \/ SpuriousWake

Spec == Init /\ [][Next]_vars

\* The printing thread is scheduled; the guest need not print.
FairSpec == Spec /\ WF_vars(PrtThread)
-----------------------------------------------------------------------------
(* Properties.                                                             *)

\* The three ring variables agree: prt_in is prt_size places after prt_out.
IndicesAgree == prt_in = Wrap(prt_out + prt_size)

\* prt_thread sleeps only on an empty ring.  The guest signals prt_ready only on the
\* change from 0 to 1, outside of any wait loop in prt_thread: no signal is missed.
SleepsOnlyWhenEmpty == prt = "asleep" => prt_size = 0

\* A guest that has seen CON_WRITE_READY loses no byte: between its poll, which takes
\* no mutex, and its write, nobody else fills the ring.
ReadyStaysReady == ready => ~RingFull

\* The ring from the oldest byte to the newest.
Contents == [i \in 1..prt_size |-> prt_buf[Wrap(prt_out + i - 1)]]

\* The ring with the byte in prt_thread's hand is a queue (see ByteQueue).
Unprinted == IF prt = "write" THEN <<inHand>> \o Contents ELSE Contents

Channel == INSTANCE ByteQueue WITH input <- accepted, queue <- Unprinted, output <- printed
ChannelSpec == Channel!Spec

\* Every accepted byte is printed in the end.
AllPrinted ==
    \A n \in 1..MaxPrinted : Len(accepted) >= n ~> Len(printed) >= n
=============================================================================

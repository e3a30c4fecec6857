------------------------------ MODULE Shutdown ------------------------------
(***************************************************************************)
(* The end of the emulator: lcca_run returns when the guest waits with     *)
(* interrupts off, main destroys the console (destroy_console: cancel and  *)
(* join the keyboard thread, then the printing thread, then free), waits   *)
(* for Return and exits.  Cancellation is the deferred one of POSIX: a     *)
(* thread ends at its next cancellation point (getchar, write, cond_wait;  *)
(* never mutex_lock).                                                      *)
(*                                                                         *)
(* The rings of KeyRing and PrintRing are here only as "a key interrupts"  *)
(* and "there are bytes".                                                  *)
(***************************************************************************)
EXTENDS Naturals

CONSTANT MaxBytes   \* bounds the bytes the guest has not seen printed yet

ASSUME MaxBytesAssumption == MaxBytes \in Nat

VARIABLES
    main,        \* where the main thread, which is also the CPU, stands
    kbd, prt,    \* where console_thread and prt_thread stand
    running,     \* console_ctx->running
    cancelled,   \* the threads that pthread_cancel was called for
    intrMutex, bufMutex, prtMutex,   \* who holds intr_mutex, buffer_mutex, prt_buf_mutex
    bytes,       \* prt_size
    freed        \* the console's memory is gone

mutexes == <<intrMutex, bufMutex, prtMutex>>
vars == <<main, kbd, prt, running, cancelled, mutexes, bytes, freed>>

MainPlaces == {"run", "poll", "read", "print", "halted", "cancel_kbd", "join_kbd",
               "cancel_prt", "join_prt", "free", "return_key", "exited"}
KbdPlaces == {"loop", "getchar", "lock", "store", "intr", "wake", "ended"}
PrtPlaces == {"loop", "lock", "test", "asleep", "woken", "write", "relock", "ended"}

Owners == {"main", "kbd", "prt", "nobody"}

TypeOK ==
    /\ main \in MainPlaces /\ kbd \in KbdPlaces /\ prt \in PrtPlaces
    /\ running \in BOOLEAN /\ freed \in BOOLEAN
    /\ cancelled \in SUBSET {"kbd", "prt"}
    /\ intrMutex \in Owners /\ bufMutex \in Owners /\ prtMutex \in Owners
    /\ bytes \in 0..MaxBytes

Init ==
    /\ main = "run" /\ kbd = "loop" /\ prt = "loop"
    /\ running = TRUE /\ cancelled = {}
    /\ intrMutex = "nobody" /\ bufMutex = "nobody" /\ prtMutex = "nobody"
    /\ bytes = 0
    /\ freed = FALSE
-----------------------------------------------------------------------------
(* The main thread in lcca_run.                                            *)

MainMoves(from, to) == main = from /\ main' = to

\* TakeLine of Lcca takes intr_mutex, ReadData of KeyRing buffer_mutex, WriteData
\* of PrintRing prt_buf_mutex, each for a moment and with no other held.
Poll ==
    /\ MainMoves("run", "poll")
    /\ intrMutex = "nobody" /\ intrMutex' = "main"
    /\ UNCHANGED <<kbd, prt, running, cancelled, bufMutex, prtMutex, bytes, freed>>

Polled ==
    /\ MainMoves("poll", "run")
    /\ intrMutex' = "nobody"
    /\ UNCHANGED <<kbd, prt, running, cancelled, bufMutex, prtMutex, bytes, freed>>

Read ==
    /\ MainMoves("run", "read")
    /\ bufMutex = "nobody" /\ bufMutex' = "main"
    /\ UNCHANGED <<kbd, prt, running, cancelled, intrMutex, prtMutex, bytes, freed>>

HasRead ==
    /\ MainMoves("read", "run")
    /\ bufMutex' = "nobody"
    /\ UNCHANGED <<kbd, prt, running, cancelled, intrMutex, prtMutex, bytes, freed>>

PutByte ==
    /\ MainMoves("run", "print")
    /\ prtMutex = "nobody" /\ prtMutex' = "main"
    /\ UNCHANGED <<kbd, prt, running, cancelled, intrMutex, bufMutex, bytes, freed>>

HasPut ==
    /\ MainMoves("print", "run")
    /\ prtMutex' = "nobody"
    /\ IF bytes < MaxBytes
         THEN /\ bytes' = bytes + 1
              /\ prt' = IF bytes = 0 /\ prt = "asleep" THEN "woken" ELSE prt
         ELSE UNCHANGED <<bytes, prt>>
    /\ UNCHANGED <<kbd, running, cancelled, intrMutex, bufMutex, freed>>

\* The wait state with interrupts off: lcca_run sleeps, prints and returns with
\* intr_mutex locked.
Halt ==
    /\ MainMoves("run", "halted")
    /\ intrMutex = "nobody" /\ intrMutex' = "main"
    /\ UNCHANGED <<kbd, prt, running, cancelled, bufMutex, prtMutex, bytes, freed>>
-----------------------------------------------------------------------------
(* The main thread in destroy_console, and after it.                       *)

StopRunning ==
    /\ MainMoves("halted", "cancel_kbd")
    /\ running' = FALSE
    /\ UNCHANGED <<kbd, prt, cancelled, mutexes, bytes, freed>>

Cancel(from, thread, to) ==
    /\ MainMoves(from, to)
    /\ cancelled' = cancelled \cup {thread}
    /\ UNCHANGED <<kbd, prt, running, mutexes, bytes, freed>>

CancelKbd == Cancel("cancel_kbd", "kbd", "join_kbd")

\* Mutant: prt_thread is left to see for itself that running is 0.
CancelPrt_Not == Cancel("cancel_prt", "kbd", "join_prt")

CancelPrt == Cancel("cancel_prt", "prt", "join_prt")

JoinKbd ==
    /\ MainMoves("join_kbd", "cancel_prt")
    /\ kbd = "ended"
    /\ UNCHANGED <<kbd, prt, running, cancelled, mutexes, bytes, freed>>

\* Mutant: the printing thread is not joined.
JoinPrt_Not ==
    /\ MainMoves("join_prt", "free")
    /\ UNCHANGED <<kbd, prt, running, cancelled, mutexes, bytes, freed>>

JoinPrt ==
    /\ MainMoves("join_prt", "free")
    /\ prt = "ended"
    /\ UNCHANGED <<kbd, prt, running, cancelled, mutexes, bytes, freed>>

Free ==
    /\ MainMoves("free", "return_key")
    /\ freed' = TRUE
    /\ UNCHANGED <<kbd, prt, running, cancelled, mutexes, bytes>>

\* "Strike Return to exit...": the user does.
ReturnKey ==
    /\ MainMoves("return_key", "exited")
    /\ UNCHANGED <<kbd, prt, running, cancelled, mutexes, bytes, freed>>

Main == \/ Poll \/ Polled \/ Read \/ HasRead \/ PutByte \/ HasPut \/ Halt
        \/ StopRunning \/ CancelKbd \/ JoinKbd \/ CancelPrt \/ JoinPrt \/ Free

\* The part of Main that has to go on: the guest need not stop.
Destroy == StopRunning \/ CancelKbd \/ JoinKbd \/ CancelPrt \/ JoinPrt \/ Free
-----------------------------------------------------------------------------
(* console_thread.                                                         *)

KbdMoves(from, to) ==
    /\ kbd = from /\ kbd' = to
    /\ UNCHANGED <<main, prt, running, cancelled, prtMutex, bytes, freed>>

KbdLoop ==
    /\ KbdMoves("loop", IF running THEN "getchar" ELSE "ended")
    /\ UNCHANGED <<intrMutex, bufMutex>>

\* A key; nobody must type one.  A thread that is cancelled in getchar reads no more.
Key ==
    /\ "kbd" \notin cancelled
    /\ KbdMoves("getchar", "lock")
    /\ UNCHANGED <<intrMutex, bufMutex>>

KbdCancelled ==
    /\ "kbd" \in cancelled
    /\ KbdMoves("getchar", "ended")
    /\ UNCHANGED <<intrMutex, bufMutex>>

KbdLock ==
    /\ KbdMoves("lock", "store")
    /\ bufMutex = "nobody" /\ bufMutex' = "kbd"
    /\ UNCHANGED intrMutex

\* The key interrupts, or it does not: the whole of the critical section.
StoreQuiet ==
    /\ KbdMoves("store", "loop")
    /\ bufMutex' = "nobody"
    /\ UNCHANGED intrMutex

StoreIntr == KbdMoves("store", "intr") /\ UNCHANGED <<intrMutex, bufMutex>>

\* lcca_intr takes intr_mutex inside of buffer_mutex.
KbdIntr ==
    /\ KbdMoves("intr", "wake")
    /\ intrMutex = "nobody" /\ intrMutex' = "kbd"
    /\ UNCHANGED bufMutex

KbdWake ==
    /\ KbdMoves("wake", "loop")
    /\ intrMutex' = "nobody" /\ bufMutex' = "nobody"

Kbd == KbdLoop \/ KbdCancelled \/ KbdLock \/ StoreQuiet \/ StoreIntr \/ KbdIntr \/ KbdWake
-----------------------------------------------------------------------------
(* prt_thread.                                                             *)

PrtMoves(from, to) ==
    /\ prt = from /\ prt' = to
    /\ UNCHANGED <<main, kbd, running, cancelled, intrMutex, bufMutex, freed>>

PrtLoop ==
    /\ PrtMoves("loop", IF running THEN "lock" ELSE "ended")
    /\ UNCHANGED <<prtMutex, bytes>>

PrtLock ==
    /\ PrtMoves("lock", IF bytes = 0 THEN "asleep" ELSE "test")
    /\ prtMutex = "nobody"
    /\ prtMutex' = IF bytes = 0 THEN "nobody" ELSE "prt"
    /\ UNCHANGED bytes

\* cond_wait ends, by a signal (HasPut) or without one.
PrtSpurious == PrtMoves("asleep", "woken") /\ UNCHANGED <<prtMutex, bytes>>

PrtResume ==
    /\ prt \in {"woken", "relock"}
    /\ PrtMoves(prt, "test")
    /\ prtMutex = "nobody" /\ prtMutex' = "prt"
    /\ UNCHANGED bytes

\* Mutant: the inner loop takes a byte whether there is one or not.
PrtTest_Unchecked ==
    /\ PrtMoves("test", "write")
    /\ prtMutex' = "nobody"
    /\ bytes' = bytes - 1

\* The test of the inner loop: a byte to write, or back to the outer loop.
PrtTest ==
    /\ PrtMoves("test", IF bytes = 0 THEN "loop" ELSE "write")
    /\ prtMutex' = "nobody"
    /\ bytes' = IF bytes = 0 THEN 0 ELSE bytes - 1

PrtWrite == PrtMoves("write", "relock") /\ UNCHANGED <<prtMutex, bytes>>

\* Cancelled in cond_wait, the thread takes the mutex again and ends with it: it has
\* no cleanup handler.  Cancelled in write, it does not have the mutex.
PrtCancelled ==
    /\ "prt" \in cancelled
    /\ \/ /\ PrtMoves("asleep", "ended")
          /\ prtMutex = "nobody" /\ prtMutex' = "prt"
       \/ /\ PrtMoves("write", "ended")
          /\ UNCHANGED prtMutex
    /\ UNCHANGED bytes

Prt == PrtLoop \/ PrtLock \/ PrtResume \/ PrtTest \/ PrtWrite \/ PrtCancelled
-----------------------------------------------------------------------------
Next == Main \/ ReturnKey \/ Kbd \/ Key \/ Prt \/ PrtSpurious

Spec == Init /\ [][Next]_vars

\* The threads are scheduled, the user strikes Return in the end; the guest need not
\* stop, nobody need type, and a wait need not end by itself.
FairSpec == /\ Spec
            /\ WF_vars(Destroy) /\ WF_vars(ReturnKey)
            /\ WF_vars(Kbd) /\ WF_vars(Prt)
-----------------------------------------------------------------------------
(* Properties.                                                             *)

\* Nobody uses the console after free: both threads have ended by then.
NoUseAfterFree == freed => kbd = "ended" /\ prt = "ended"

\* When the keyboard thread is not on its way into lcca_intr as main cancels it, the
\* emulator comes to its end.
InFlight == kbd \in {"lock", "store", "intr"}
QuietExit == main = "join_kbd" /\ ~InFlight ~> main = "exited"

\* A CPU that is "disabled" is "exiting emulator" (cpu/risc1.c:234): the process ends.
Exits == main = "halted" ~> main = "exited"
=============================================================================

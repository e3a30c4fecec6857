--------------------------- MODULE ShutdownProofs ---------------------------
(***************************************************************************)
(* Theorems about Shutdown, whatever the size of the printing ring.        *)
(***************************************************************************)
EXTENDS Shutdown, TLAPS

LEMMA TypeStep == TypeOK /\ [Next]_vars => TypeOK'
  <1> SUFFICES ASSUME TypeOK, [Next]_vars PROVE TypeOK'
    OBVIOUS
  <1> USE DEF TypeOK, MainPlaces, KbdPlaces, PrtPlaces, Owners, mutexes
  <1>1. CASE Poll \/ Polled \/ Read \/ HasRead \/ PutByte \/ Halt
    BY <1>1 DEF Poll, Polled, Read, HasRead, PutByte, Halt, MainMoves
  <1>2. CASE HasPut
    <2>1. bytes' \in 0..MaxBytes
      BY <1>2, MaxBytesAssumption DEF HasPut
    <2>2. prt' \in PrtPlaces
      BY <1>2 DEF HasPut
    <2> QED
      BY <1>2, <2>1, <2>2 DEF HasPut, MainMoves
  <1>3. CASE StopRunning \/ CancelKbd \/ JoinKbd \/ CancelPrt \/ JoinPrt \/ Free \/ ReturnKey
    <2>1. main' \in MainPlaces
      BY <1>3 DEF StopRunning, CancelKbd, CancelPrt, Cancel, JoinKbd, JoinPrt, Free,
        ReturnKey, MainMoves
    <2>2. running' \in BOOLEAN /\ freed' \in BOOLEAN
      BY <1>3, Zenon DEF StopRunning, CancelKbd, CancelPrt, Cancel, JoinKbd, JoinPrt, Free,
        ReturnKey, MainMoves
    <2>3. cancelled' \in SUBSET {"kbd", "prt"}
      BY <1>3 DEF StopRunning, CancelKbd, CancelPrt, Cancel, JoinKbd, JoinPrt, Free,
        ReturnKey
    <2>4. UNCHANGED <<kbd, prt, intrMutex, bufMutex, prtMutex, bytes>>
      BY <1>3 DEF StopRunning, CancelKbd, CancelPrt, Cancel, JoinKbd, JoinPrt, Free,
        ReturnKey
    <2> QED
      BY <2>1, <2>2, <2>3, <2>4
  <1>4. CASE Kbd \/ Key
    <2> USE DEF Kbd, Key, KbdLoop, KbdCancelled, KbdLock, StoreQuiet, StoreIntr, KbdIntr,
      KbdWake, KbdMoves
    <2>1. kbd' \in KbdPlaces
      BY <1>4
    <2>2. intrMutex' \in Owners /\ bufMutex' \in Owners
      BY <1>4
    <2>3. UNCHANGED <<main, prt, running, cancelled, prtMutex, bytes, freed>>
      BY <1>4
    <2> QED
      BY <2>1, <2>2, <2>3
  <1>5. CASE PrtTest
    <2>1. bytes' \in 0..MaxBytes
      BY <1>5, MaxBytesAssumption DEF PrtTest
    <2>2. prt' \in PrtPlaces
      BY <1>5 DEF PrtTest, PrtMoves
    <2> QED
      BY <1>5, <2>1, <2>2 DEF PrtTest, PrtMoves
  <1>6. CASE PrtLoop \/ PrtLock \/ PrtResume \/ PrtWrite \/ PrtCancelled \/ PrtSpurious
    <2> USE DEF PrtLoop, PrtLock, PrtResume, PrtWrite, PrtCancelled, PrtSpurious, PrtMoves
    <2>1. prt' \in PrtPlaces
      BY <1>6
    <2>2. prtMutex' \in Owners
      BY <1>6
    <2>3. UNCHANGED <<main, kbd, running, cancelled, intrMutex, bufMutex, bytes, freed>>
      BY <1>6
    <2> QED
      BY <2>1, <2>2, <2>3
  <1>7. CASE UNCHANGED vars
    BY <1>7 DEF vars
  <1> QED
    BY <1>1, <1>2, <1>3, <1>4, <1>5, <1>6, <1>7 DEF Next, Main, Prt

(* Type correctness; above all, prt_size does not go below 0.              *)
THEOREM TypeCorrect == Spec => []TypeOK
  <1>1. Init => TypeOK
    <2> SUFFICES ASSUME Init PROVE TypeOK
      OBVIOUS
    <2>1. main \in MainPlaces /\ kbd \in KbdPlaces /\ prt \in PrtPlaces
      BY DEF Init, MainPlaces, KbdPlaces, PrtPlaces
    <2>2. intrMutex \in Owners /\ bufMutex \in Owners /\ prtMutex \in Owners
      BY DEF Init, Owners
    <2>3. running \in BOOLEAN /\ freed \in BOOLEAN
      BY Zenon DEF Init
    <2>4. bytes \in 0..MaxBytes /\ cancelled \in SUBSET {"kbd", "prt"}
      BY MaxBytesAssumption DEF Init
    <2> QED
      BY <2>1, <2>2, <2>3, <2>4 DEF TypeOK
  <1> QED
    BY <1>1, TypeStep, PTL DEF Spec
-----------------------------------------------------------------------------
(* What main knows after each join, which it goes through in order.        *)
JoinInv ==
    /\ main \in {"cancel_prt", "join_prt", "free", "return_key", "exited"} => kbd = "ended"
    /\ main \in {"free", "return_key", "exited"} => prt = "ended"
    /\ freed => main \in {"return_key", "exited"}

LEMMA JoinStep == TypeOK /\ JoinInv /\ [Next]_vars => JoinInv'
  <1> SUFFICES ASSUME TypeOK, JoinInv, [Next]_vars PROVE JoinInv'
    OBVIOUS
  <1> USE DEF JoinInv, mutexes
  <1>0. freed \in BOOLEAN
    BY DEF TypeOK
  <1>1. CASE Poll \/ Polled \/ Read \/ HasRead \/ PutByte \/ Halt
    BY <1>0, <1>1 DEF Poll, Polled, Read, HasRead, PutByte, Halt, MainMoves
  <1>2. CASE HasPut
    BY <1>0, <1>2 DEF HasPut, MainMoves
  <1>3. CASE StopRunning \/ CancelKbd \/ JoinKbd \/ CancelPrt \/ JoinPrt \/ Free \/ ReturnKey
    BY <1>0, <1>3 DEF StopRunning, CancelKbd, CancelPrt, Cancel, JoinKbd, JoinPrt, Free,
      ReturnKey, MainMoves
  <1>4. CASE Kbd \/ Key
    BY <1>0, <1>4 DEF Kbd, Key, KbdLoop, KbdCancelled, KbdLock, StoreQuiet, StoreIntr, KbdIntr,
      KbdWake, KbdMoves
  <1>5. CASE Prt \/ PrtSpurious
    BY <1>0, <1>5 DEF Prt, PrtTest, PrtLoop, PrtLock, PrtResume, PrtWrite, PrtCancelled,
      PrtSpurious, PrtMoves
  <1>6. CASE UNCHANGED vars
    BY <1>0, <1>6 DEF vars
  <1> QED
    BY <1>1, <1>2, <1>3, <1>4, <1>5, <1>6 DEF Next, Main

(* No thread of the console outlives its memory.                           *)
THEOREM FreedUnused == Spec => []NoUseAfterFree
  <1>1. Init => JoinInv
    BY DEF Init, JoinInv
  <1>2. JoinInv => NoUseAfterFree
    BY DEF JoinInv, NoUseAfterFree
  <1> QED
    BY <1>1, <1>2, TypeCorrect, JoinStep, PTL DEF Spec
=============================================================================

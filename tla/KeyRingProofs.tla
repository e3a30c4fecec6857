--------------------------- MODULE KeyRingProofs ---------------------------
(***************************************************************************)
(* Theorems about KeyRing for a ring of any size and any keys.             *)
(***************************************************************************)
EXTENDS KeyRing, SequenceTheorems, TLAPS

(* Around the ring: an index less than twice its size is reduced by one    *)
(* subtraction at most.                                                    *)
LEMMA WrapOnce ==
    ASSUME NEW k \in 0..2*BUF_SIZE-1
    PROVE  /\ Wrap(k) = IF k < BUF_SIZE THEN k ELSE k - BUF_SIZE
           /\ Wrap(k) \in Index
  <1>1. BUF_SIZE \in Nat /\ BUF_SIZE > 1
    BY BufSizeAssumption
  <1>2. Wrap(k) = IF k < BUF_SIZE THEN k ELSE k - BUF_SIZE
    BY <1>1, SMT DEF Wrap
  <1> QED
    BY <1>1, <1>2 DEF Index

(* The number of keys in the ring, from its two indices.                   *)
LEMMA SizeOfRing ==
    ASSUME current_in \in Index, current_out \in Index
    PROVE  /\ Size = IF current_in < current_out
                       THEN current_in + BUF_SIZE - current_out
                       ELSE current_in - current_out
           /\ Size \in 0..BUF_SIZE-1
           /\ current_in = Wrap(current_out + Size)
           /\ Empty <=> Size = 0
           /\ Full <=> Size = BUF_SIZE - 1
  <1>1. BUF_SIZE \in Nat /\ BUF_SIZE > 1
    BY BufSizeAssumption
  <1>2. current_in + BUF_SIZE - current_out \in 0..2*BUF_SIZE-1
    BY <1>1 DEF Index
  <1>3. Size = IF current_in < current_out
                 THEN current_in + BUF_SIZE - current_out
                 ELSE current_in - current_out
    BY <1>1, <1>2, WrapOnce DEF Size, Index
  <1>4. Size \in 0..BUF_SIZE-1
    BY <1>1, <1>3 DEF Index
  <1>5. current_in = Wrap(current_out + Size)
    <2>1. current_out + Size \in 0..2*BUF_SIZE-1
      BY <1>1, <1>4 DEF Index
    <2> QED
      BY <1>1, <1>3, <2>1, WrapOnce DEF Index
  <1>6. Empty <=> Size = 0
    BY <1>1, <1>3 DEF Index, Empty
  <1>7. Full <=> Size = BUF_SIZE - 1
    <2>1. Wrap(current_in + 1) = IF current_in + 1 < BUF_SIZE THEN current_in + 1 ELSE 0
      BY <1>1, WrapOnce DEF Index
    <2> QED
      BY <1>1, <1>3, <2>1 DEF Index, Full
  <1> QED
    BY <1>3, <1>4, <1>5, <1>6, <1>7

(* Going on by one stays in the ring.                                      *)
LEMMA WrapNext ==
    ASSUME NEW i \in Index
    PROVE  Wrap(i + 1) \in Index /\ Wrap(i + 1) = IF i = BUF_SIZE - 1 THEN 0 ELSE i + 1
  BY WrapOnce, BufSizeAssumption DEF Index

LEMMA ConvertType ==
    ASSUME NEW c \in Keys
    PROVE  Convert(c) \in Bytes
  BY DEF Convert, Bytes
-----------------------------------------------------------------------------
(* Type correctness, and what the two threads owe each other.              *)

LEMMA TypeStep == TypeOK /\ [Next]_vars => TypeOK'
  <1> SUFFICES ASSUME TypeOK, [Next]_vars PROVE TypeOK'
    OBVIOUS
  <1> USE DEF TypeOK, ring, guestVars, kbdVars
  <1>0. Wrap(current_in + 1) \in Index /\ Wrap(current_out + 1) \in Index
    BY WrapNext
  <1>1. ASSUME NEW c \in Keys, GetChar(c) PROVE TypeOK'
    BY <1>1, ConvertType DEF GetChar
  <1>2. CASE Store
    <2>1. kbd' \in {"getchar", "store", "intr", "signal", "ended"}
      BY <1>2 DEF Store, Again
    <2>2. CASE Full
      BY <1>2, <2>1, <2>2 DEF Store
    <2>3. CASE ~Full
      <3>1. /\ buffer' \in [Index -> Bytes]
            /\ current_in' \in Index /\ current_out' \in Index
            /\ flow' \in {"XON", "XOFF"}
            /\ told' \in BOOLEAN
        BY <1>2, <1>0, <2>3 DEF Store
      <3>2. /\ ctrl' \in SUBSET IntrFlags /\ key' \in Bytes
            /\ xonDue' \in BOOLEAN /\ ready' \in BOOLEAN
            /\ typed' \in Nat /\ got' \in Seq(Bytes)
        BY <1>2 DEF Store
      <3>3. stored' \in Seq(Bytes)
        <4>1. stored' = Append(stored, key)
          BY <1>2, <2>3 DEF Store
        <4>2. Append(stored, key) \in Seq(Bytes)
          BY AppendProperties
        <4> QED
          BY <4>1, <4>2, Zenon
      <3> QED
        BY <2>1, <3>1, <3>2, <3>3
    <2> QED
      BY <2>2, <2>3
  <1>3. CASE Interrupt \/ Signal
    BY <1>3 DEF Interrupt, Signal, Again
  <1>4. CASE ReadStatus
    <2>1. ready' \in BOOLEAN
      BY <1>4, Zenon DEF ReadStatus, ReadReady
    <2> QED
      BY <1>4, <2>1 DEF ReadStatus
  <1>5. CASE ReadData
    <2>1. xonDue' \in BOOLEAN
      BY <1>5, Zenon DEF ReadData, SendsXon, Full
    <2>2. current_out' \in Index /\ got' \in Seq(Bytes)
      BY <1>5, <1>0 DEF ReadData
    <2>3. /\ buffer' = buffer /\ current_in' = current_in /\ ctrl' = ctrl
          /\ kbd' = kbd /\ key' = key /\ typed' = typed /\ flow' = flow
          /\ ready' = FALSE /\ told' \in BOOLEAN
          /\ stored' = stored
      BY <1>5 DEF ReadData
    <2> QED
      BY <2>1, <2>2, <2>3
  <1>6. CASE SendXon
    BY <1>6 DEF SendXon
  <1>7. ASSUME NEW flags \in SUBSET IntrFlags, WriteCtrl(flags) PROVE TypeOK'
    BY <1>7 DEF WriteCtrl
  <1>8. CASE UNCHANGED vars
    BY <1>8 DEF vars
  <1> QED
    BY <1>1, <1>2, <1>3, <1>4, <1>5, <1>6, <1>7, <1>8 DEF Next, Kbd

(* Type correctness: the ring holds keys only, and its indices stay in it. *)
THEOREM TypeCorrect == Spec => []TypeOK
  <1>1. Init => TypeOK
    BY BufSizeAssumption DEF Init, TypeOK, Index
  <1> QED
    BY <1>1, TypeStep, PTL DEF Spec

(* The inductive invariant: the properties together need no strengthening. *)
KeyInv == NeverLeftStopped /\ FullIsAnnounced /\ ReadyStaysReady

LEMMA KeyInvStep == TypeOK /\ KeyInv /\ [Next]_vars => KeyInv'
  <1> SUFFICES ASSUME TypeOK, KeyInv, [Next]_vars PROVE KeyInv'
    OBVIOUS
  <1> USE DEF KeyInv, NeverLeftStopped, FullIsAnnounced, ReadyStaysReady
  <1>0. BUF_SIZE \in Nat \ {0, 1} /\ current_in \in Index /\ current_out \in Index
    BY BufSizeAssumption DEF TypeOK
  <1>1. ASSUME UNCHANGED <<current_in, current_out>>
        PROVE  (Full' <=> Full) /\ (Empty' <=> Empty)
    BY <1>1 DEF Full, Empty, Wrap
  <1>2. ASSUME NEW c \in Keys, GetChar(c) PROVE KeyInv'
    BY <1>1, <1>2 DEF GetChar, ring, guestVars
  <1>3. CASE Store
    <2>1. CASE Full
      BY <1>1, <1>3, <2>1 DEF Store, Again, ring, guestVars
    <2>2. CASE ~Full
      <3>1. /\ current_in' = Wrap(current_in + 1) /\ current_out' = current_out
            /\ ready' = ready /\ xonDue' = xonDue
        BY <1>3, <2>2 DEF Store, guestVars
      <3>2. Full' <=> FillsRing
        BY <3>1 DEF Full, FillsRing, Wrap
      <3>3. ~Empty'
        BY <1>0, <2>2, <3>1 DEF Full, Empty
      <3>4. flow' = IF FillsRing THEN "XOFF" ELSE flow
        BY <1>3, <2>2 DEF Store
      <3>5. NeverLeftStopped'
        <4>1. CASE FillsRing
          BY <3>2, <4>1
        <4>2. CASE ~FillsRing
          BY <2>2, <3>1, <3>4, <4>2
        <4> QED
          BY <4>1, <4>2
      <3>6. FillsRing => kbd' = "intr"
        BY <1>3, <2>2 DEF Store, Interrupts
      <3> QED
        BY <3>2, <3>3, <3>5, <3>6
    <2> QED
      BY <2>1, <2>2
  <1>4. CASE Interrupt \/ Signal
    BY <1>1, <1>4 DEF Interrupt, Signal, Again, ring, guestVars
  <1>5. CASE ReadStatus
    <2>1. ready' => ~Empty'
      BY <1>1, <1>5, Zenon DEF ReadStatus, ReadReady, ring
    <2> QED
      BY <1>1, <1>5, <2>1 DEF ReadStatus, ring, kbdVars
  <1>6. CASE ReadData
    <2>1. CASE Empty
      BY <1>1, <1>6, <2>1 DEF ReadData, kbdVars
    <2>2. CASE ~Empty
      <3>1. /\ current_in' = current_in /\ current_out' = Wrap(current_out + 1)
            /\ kbd' = kbd /\ flow' = flow /\ ready' = FALSE
        BY <1>6, <2>2 DEF ReadData, kbdVars
      <3>2. ~Full'
        <4>1. Wrap(current_in + 1) # Wrap(current_out + 1)
          BY <1>0, <2>2, WrapNext DEF Index, Empty
        <4> QED
          BY <3>1, <4>1 DEF Full, Wrap
      <3>3. Full => xonDue'
        BY <1>6, <2>2, Zenon DEF ReadData, SendsXon
      <3>4. ~xonDue
        BY <1>6, Zenon DEF ReadData
      <3> QED
        BY <3>1, <3>2, <3>3, <3>4
    <2> QED
      BY <2>1, <2>2
  <1>7. CASE SendXon
    BY <1>1, <1>7 DEF SendXon, ring, guestVars, kbdVars
  <1>8. ASSUME NEW flags \in SUBSET IntrFlags, WriteCtrl(flags) PROVE KeyInv'
    BY <1>1, <1>8 DEF WriteCtrl, ring, kbdVars
  <1>9. CASE UNCHANGED vars
    BY <1>1, <1>9 DEF vars, ring, guestVars, kbdVars
  <1> QED
    BY <1>2, <1>3, <1>4, <1>5, <1>6, <1>7, <1>8, <1>9 DEF Next, Kbd

LEMMA KeyInvariant == Spec => [](TypeOK /\ KeyInv)
  <1>1. Init => KeyInv
    <2> SUFFICES ASSUME Init PROVE KeyInv
      OBVIOUS
    <2>1. ~Full
      <3>1. Wrap(0 + 1) # 0
        BY WrapOnce, BufSizeAssumption
      <3> QED
        BY <3>1 DEF Init, Full
    <2> QED
      BY <2>1 DEF Init, KeyInv, NeverLeftStopped, FullIsAnnounced, ReadyStaysReady
  <1> QED
    BY <1>1, TypeCorrect, KeyInvStep, PTL DEF Spec

(* Flow control never leaves the terminal stopped over a ring with room.   *)
THEOREM StoppedTerminalGoesOn == Spec => []NeverLeftStopped
  BY KeyInvariant, PTL DEF KeyInv

(* A full ring has interrupted the CPU, whatever the guest asked for.      *)
THEOREM FullRingInterrupts == Spec => []FullIsAnnounced
  BY KeyInvariant, PTL DEF KeyInv

(* Polling without the lock tells the truth about CON_READ_READY.          *)
THEOREM PollingFindsKeys == Spec => []ReadyStaysReady
  BY KeyInvariant, PTL DEF KeyInv
-----------------------------------------------------------------------------
(* The ring is a queue.                                                    *)

LEMMA ContentsSeq ==
    ASSUME TypeOK
    PROVE  /\ Contents \in Seq(Bytes)
           /\ Len(Contents) = Size
           /\ \A i \in 1..Size : Contents[i] = buffer[Wrap(current_out + i - 1)]
  <1>1. Size \in 0..BUF_SIZE-1
    BY SizeOfRing DEF TypeOK
  <1>2. ASSUME NEW i \in 1..Size PROVE buffer[Wrap(current_out + i - 1)] \in Bytes
    <2>1. current_out + i - 1 \in 0..2*BUF_SIZE-1
      BY <1>1, BufSizeAssumption DEF TypeOK, Index
    <2> QED
      BY <2>1, WrapOnce DEF TypeOK
  <1> QED
    BY <1>1, <1>2, BufSizeAssumption DEF Contents

(* A stored key goes behind the others and on top of none of them.         *)
LEMMA StoreAppends ==
    ASSUME TypeOK, TypeOK', Store, ~Full
    PROVE  Contents' = Append(Contents, key)
  <1>1. /\ buffer' = [buffer EXCEPT ![current_in] = key]
        /\ current_in' = Wrap(current_in + 1)
        /\ current_out' = current_out
    BY DEF Store
  <1>2. /\ BUF_SIZE \in Nat \ {0, 1}
        /\ current_in \in Index /\ current_out \in Index /\ key \in Bytes
        /\ current_in' \in Index /\ current_out' \in Index
        /\ buffer \in [Index -> Bytes]
    BY BufSizeAssumption DEF TypeOK
  <1>3. Size \in 0..BUF_SIZE-2 /\ current_in = Wrap(current_out + Size)
    BY <1>2, SizeOfRing
  <1>4. Size' = Size + 1
    <2>1. Size = IF current_in < current_out
                   THEN current_in + BUF_SIZE - current_out
                   ELSE current_in - current_out
      BY <1>2, SizeOfRing
    <2>2. Size' = Wrap(Wrap(current_in + 1) + BUF_SIZE - current_out)
      BY <1>1 DEF Size, Wrap
    <2>3. Wrap(current_in + 1) = IF current_in = BUF_SIZE - 1 THEN 0 ELSE current_in + 1
      BY <1>2, WrapNext
    <2>4. Wrap(current_in + 1) + BUF_SIZE - current_out \in 0..2*BUF_SIZE-1
      BY <1>2, <2>3 DEF Index
    <2>5. Size' = IF Wrap(current_in + 1) < current_out
                    THEN Wrap(current_in + 1) + BUF_SIZE - current_out
                    ELSE Wrap(current_in + 1) - current_out
      <3> DEFINE k == Wrap(current_in + 1) + BUF_SIZE - current_out
      <3>1. Wrap(k) = IF k < BUF_SIZE THEN k ELSE k - BUF_SIZE
        BY <2>4, WrapOnce
      <3> QED
        BY <1>2, <2>2, <2>3, <3>1 DEF Index
    <2>6. Size \in Nat /\ Size < BUF_SIZE - 1
      BY <1>2, <1>3
    <2>7. current_in \in Nat /\ current_out \in Nat
          /\ current_in < BUF_SIZE /\ current_out < BUF_SIZE
      BY <1>2 DEF Index
    <2>8. CASE current_in = BUF_SIZE - 1
      BY <1>2, <2>1, <2>3, <2>5, <2>6, <2>7, <2>8
    <2>9. CASE current_in # BUF_SIZE - 1
      BY <1>2, <2>1, <2>3, <2>5, <2>6, <2>7, <2>9
    <2> QED
      BY <2>8, <2>9
  <1>5. ASSUME NEW i \in 1..Size + 1
        PROVE  /\ buffer'[Wrap(current_out + i - 1)] \in Bytes
               /\ buffer'[Wrap(current_out + i - 1)] =
                    IF i = Size + 1 THEN key ELSE Contents[i]
    <2>1. CASE i = Size + 1
      <3>1. Wrap(current_out + i - 1) = current_in
        BY <1>2, <1>3, <2>1 DEF Index
      <3> QED
        BY <1>1, <1>2, <2>1, <3>1
    <2>2. CASE i # Size + 1
      <3>1. i \in 1..Size
        BY <1>3, <2>2
      <3>2. Wrap(current_out + i - 1) # Wrap(current_out + Size)
        BY <1>2, <1>3, <3>1, WrapOnce DEF Index
      <3>3. Contents[i] = buffer[Wrap(current_out + i - 1)] /\ Contents[i] \in Bytes
        BY <3>1, ContentsSeq, ElementOfSeq
      <3> QED
        BY <1>1, <1>2, <1>3, <2>2, <3>2, <3>3
    <2> QED
      BY <2>1, <2>2
  <1>6. Contents' = [i \in 1..Size + 1 |-> buffer'[Wrap(current_out + i - 1)]]
    BY <1>1, <1>4 DEF Contents, Wrap
  <1>7. Contents' \in Seq(Bytes) /\ Len(Contents') = Size + 1
    BY <1>3, <1>5, <1>6, BufSizeAssumption
  <1>8. /\ Append(Contents, key) \in Seq(Bytes)
        /\ Len(Append(Contents, key)) = Size + 1
        /\ \A i \in 1..Size + 1 :
              Append(Contents, key)[i] = IF i = Size + 1 THEN key ELSE Contents[i]
    BY <1>2, <1>3, ContentsSeq
  <1>9. \A i \in 1..Size + 1 : Contents'[i] = Append(Contents, key)[i]
    BY <1>5, <1>6, <1>8
  <1> QED
    BY <1>7, <1>8, <1>9

(* Reading takes the oldest key.                                           *)
LEMMA ReadTakesOldest ==
    ASSUME TypeOK, TypeOK', ReadData, ~Empty
    PROVE  /\ Contents # <<>>
           /\ Contents' = Tail(Contents)
           /\ got' = Append(got, Head(Contents))
           /\ stored' = stored
  <1>1. /\ buffer' = buffer /\ current_in' = current_in
        /\ current_out' = Wrap(current_out + 1)
        /\ got' = Append(got, buffer[current_out])
        /\ stored' = stored
    BY DEF ReadData
  <1>2. /\ BUF_SIZE \in Nat \ {0, 1}
        /\ current_in \in Index /\ current_out \in Index
        /\ buffer \in [Index -> Bytes]
    BY BufSizeAssumption DEF TypeOK
  <1>3. Size \in 1..BUF_SIZE-1
    BY <1>2, SizeOfRing
  <1>4. Size' = Size - 1
    <2>1. Size = IF current_in < current_out
                   THEN current_in + BUF_SIZE - current_out
                   ELSE current_in - current_out
      BY <1>2, SizeOfRing
    <2>2. Size' = Wrap(current_in + BUF_SIZE - Wrap(current_out + 1))
      BY <1>1 DEF Size, Wrap
    <2>3. Wrap(current_out + 1) = IF current_out = BUF_SIZE - 1 THEN 0 ELSE current_out + 1
      BY <1>2, WrapNext
    <2>4. current_in + BUF_SIZE - Wrap(current_out + 1) \in 0..2*BUF_SIZE-1
      BY <1>2, <2>3 DEF Index
    <2> QED
      BY <1>2, <1>3, <2>1, <2>2, <2>3, <2>4, WrapOnce DEF Index
  <1>5. Contents' = [i \in 1..Size - 1 |-> buffer[Wrap(Wrap(current_out + 1) + i - 1)]]
    BY <1>1, <1>4 DEF Contents, Wrap
  <1>6. ASSUME NEW i \in 1..Size - 1
        PROVE  buffer[Wrap(Wrap(current_out + 1) + i - 1)] = Contents[i + 1]
    <2>1. Wrap(Wrap(current_out + 1) + i - 1) = Wrap(current_out + (i + 1) - 1)
      BY <1>2, <1>3, WrapOnce DEF Index
    <2>2. i + 1 \in 1..Size
      BY <1>3
    <2> QED
      BY <2>1, <2>2, ContentsSeq
  <1>7. Contents[1] = buffer[current_out]
    <2>1. Wrap(current_out + 1 - 1) = current_out
      BY <1>2, WrapOnce DEF Index
    <2> QED
      BY <1>3, <2>1, ContentsSeq
  <1>8. Contents # <<>> /\ Head(Contents) = Contents[1]
    BY <1>3, ContentsSeq
  <1>9. /\ Tail(Contents) \in Seq(Bytes)
        /\ Len(Tail(Contents)) = Size - 1
        /\ \A i \in 1..Size - 1 : Tail(Contents)[i] = Contents[i + 1]
    BY <1>3, <1>8, ContentsSeq, HeadTailProperties
  <1>10. Contents' = Tail(Contents)
    <2>1. \A i \in 1..Size - 1 : Contents[i + 1] \in Bytes
      BY <1>3, ContentsSeq, ElementOfSeq
    <2>2. Contents' \in Seq(Bytes) /\ Len(Contents') = Size - 1
      BY <1>3, <1>5, <1>6, <2>1
    <2>3. \A i \in 1..Size - 1 : Contents'[i] = Tail(Contents)[i]
      BY <1>5, <1>6, <1>9
    <2> QED
      BY <1>9, <2>2, <2>3
  <1> QED
    BY <1>1, <1>7, <1>8, <1>10

(* A step of the console is a step of the queue or leaves it alone.        *)
LEMMA QueueStep ==
    TypeOK /\ TypeOK' /\ [Next]_vars => [Queue!Next]_(Queue!vars)
  <1> SUFFICES ASSUME TypeOK, TypeOK', [Next]_vars PROVE [Queue!Next]_(Queue!vars)
    OBVIOUS
  <1> USE DEF Queue!vars
  <1>1. CASE UNCHANGED <<ring, stored, got>>
    BY <1>1 DEF ring, Contents, Size, Wrap
  <1>2. CASE Store /\ ~Full
    <2>1. Contents' = Append(Contents, key) /\ key \in Bytes
      BY <1>2, StoreAppends DEF TypeOK
    <2>2. got' = got /\ stored' = Append(stored, key)
      BY <1>2 DEF Store
    <2> QED
      BY <2>1, <2>2 DEF Queue!Next, Queue!Accept
  <1>3. CASE ReadData /\ ~Empty
    BY <1>3, ReadTakesOldest DEF Queue!Next, Queue!Deliver
  <1>4. CASE ~(Store /\ ~Full) /\ ~(ReadData /\ ~Empty)
    <2>1. UNCHANGED <<ring, stored, got>>
      BY <1>4 DEF Next, Kbd, GetChar, Store, Interrupt, Signal, ReadStatus, ReadData,
        SendXon, WriteCtrl, vars, ring
    <2> QED
      BY <1>1, <2>1
  <1> QED
    BY <1>2, <1>3, <1>4

LEMMA InitQueue == Init => Queue!Init
  <1> SUFFICES ASSUME Init PROVE Queue!Init
    OBVIOUS
  <1>1. Size = 0
    <2>1. Wrap(0 + BUF_SIZE - 0) = 0
      BY WrapOnce, BufSizeAssumption
    <2> QED
      BY <2>1 DEF Init, Size
  <1> QED
    BY <1>1 DEF Init, Queue!Init, Contents

(* The keyboard half of the console implements the queue: whatever the size *)
(* of the ring, the guest reads the stored keys once each and in order.     *)
THEOREM ImplementsQueue == Spec => QueueSpec
  BY InitQueue, TypeCorrect, QueueStep, PTL DEF Spec, QueueSpec, Queue!Spec
(* What leaves a queue comes next in the output.                            *)
LEMMA HeadPasses ==
    ASSUME NEW S, NEW s \in Seq(S), NEW t \in Seq(S), t # <<>>
    PROVE  Append(s, Head(t)) \o Tail(t) = s \o t
  <1>1. Head(t) \in S /\ Tail(t) \in Seq(S)
    BY HeadTailProperties
  <1>2. Append(s, Head(t)) = s \o <<Head(t)>> /\ <<Head(t)>> \in Seq(S)
    BY <1>1, AppendIsConcat
  <1>3. <<Head(t)>> \o Tail(t) = t
    BY <1>1
  <1> QED
    BY <1>1, <1>2, <1>3, ConcatAssociative

\* What went into the ring is what came out of it and what is still in it.
InOrder == stored = got \o Contents

LEMMA OrderStep ==
    TypeOK /\ [Queue!Next]_(Queue!vars) /\ InOrder => InOrder'
  <1> SUFFICES ASSUME TypeOK, [Queue!Next]_(Queue!vars), InOrder
               PROVE  InOrder'
    OBVIOUS
  <1>1. Contents \in Seq(Bytes) /\ got \in Seq(Bytes)
    BY ContentsSeq DEF TypeOK
  <1>2. ASSUME NEW ch \in Bytes, stored' = Append(stored, ch), Contents' = Append(Contents, ch),
               got' = got
        PROVE  InOrder'
    <2>1. Append(got \o Contents, ch) = got \o Append(Contents, ch)
      <3>1. got \o Contents \in Seq(Bytes) /\ <<ch>> \in Seq(Bytes)
        BY <1>1, <1>2, ConcatProperties
      <3>2. /\ Append(got \o Contents, ch) = (got \o Contents) \o <<ch>>
            /\ Append(Contents, ch) = Contents \o <<ch>>
        BY <1>1, <1>2, <3>1, AppendIsConcat
      <3> QED
        BY <1>1, <3>1, <3>2, ConcatAssociative
    <2> QED
      BY <1>2, <2>1 DEF InOrder
  <1>3. CASE Queue!Accept
    BY <1>2, <1>3 DEF Queue!Accept
  <1>4. CASE Queue!Deliver
    <2>1. /\ Contents # <<>> /\ Contents' = Tail(Contents)
          /\ got' = Append(got, Head(Contents)) /\ stored' = stored
      BY <1>4 DEF Queue!Deliver
    <2>2. Append(got, Head(Contents)) \o Tail(Contents) = got \o Contents
      BY <1>1, <2>1, HeadPasses, Zenon
    <2> QED
      BY <2>1, <2>2 DEF InOrder
  <1>5. CASE UNCHANGED Queue!vars
    <2>1. stored' = stored /\ Contents' = Contents /\ got' = got
      BY <1>5 DEF Queue!vars
    <2> QED
      BY <2>1 DEF InOrder
  <1> QED
    BY <1>3, <1>4, <1>5 DEF Queue!Next

(* For a ring of any size: what the guest has read is a first part of what *)
(* was stored, and the ring holds the rest in order.                       *)
THEOREM NothingOvertakes == Spec => []InOrder
  <1>1. Init => InOrder
    BY InitQueue DEF InOrder, Queue!Init
  <1>2. Queue!Spec => [][Queue!Next]_(Queue!vars)
    BY PTL DEF Queue!Spec
  <1> QED
    BY <1>1, <1>2, OrderStep, TypeCorrect, ImplementsQueue, PTL DEF Spec, QueueSpec
=============================================================================

--------------------------- MODULE PrintRingProofs ---------------------------
(***************************************************************************)
(* Theorems about PrintRing for a ring of any size.                        *)
(***************************************************************************)
EXTENDS PrintRing, SequenceTheorems, TLAPS

(* Around the ring: an index less than twice its size is reduced by one     *)
(* subtraction at most.                                                     *)
LEMMA WrapOnce ==
    ASSUME NEW k \in 0..2*PRT_BUF_SIZE-1
    PROVE  Wrap(k) = IF k < PRT_BUF_SIZE THEN k ELSE k - PRT_BUF_SIZE
  <1>1. PRT_BUF_SIZE \in Nat /\ PRT_BUF_SIZE > 0
    BY RingSizeAssumption
  <1> QED
    BY <1>1, SMT DEF Wrap

LEMMA WrapIndex ==
    ASSUME NEW k \in 0..2*PRT_BUF_SIZE-1
    PROVE  Wrap(k) \in Index
  BY WrapOnce, RingSizeAssumption DEF Index

(* Everything but the indices is easy; those stay in the ring because they  *)
(* only ever go on by one, around it.                                       *)
LEMMA TypeStep == TypeOK /\ [Next]_vars => TypeOK'
  <1> SUFFICES ASSUME TypeOK, [Next]_vars PROVE TypeOK'
    OBVIOUS
  <1> USE DEF TypeOK, ring
  <1>0. Wrap(prt_in + 1) \in Index /\ Wrap(prt_out + 1) \in Index
    BY WrapIndex, RingSizeAssumption DEF Index
  <1>1. CASE ReadStatus
    <2>1. ready' \in BOOLEAN
      BY <1>1 DEF ReadStatus, WriteReady
    <2>2. /\ prt_buf' = prt_buf /\ prt_in' = prt_in /\ prt_out' = prt_out
          /\ prt_size' = prt_size /\ prt' = prt /\ inHand' = inHand
          /\ accepted' = accepted /\ printed' = printed
      BY <1>1 DEF ReadStatus
    <2> QED
      BY <2>1, <2>2, Zenon
  <1>2. ASSUME NEW ch \in Chars, WriteData(ch) PROVE TypeOK'
    <2>1. ready' \in BOOLEAN
      BY <1>2, Zenon DEF WriteData
    <2>2. CASE RingFull
      BY <1>2, <2>1, <2>2 DEF WriteData
    <2>3. CASE ~RingFull
      <3>1. prt_size' \in 0..PRT_BUF_SIZE
        BY <1>2, <2>3, RingSizeAssumption DEF WriteData, RingFull
      <3>2. /\ prt_buf' \in [Index -> Chars]
            /\ prt_in' \in Index /\ prt_out' \in Index
            /\ prt' \in {"start", "asleep", "woken", "write", "again"}
            /\ inHand' \in Chars
        BY <1>2, <1>0, <2>3 DEF WriteData
      <3>3. accepted' \in Seq(Chars) /\ printed' \in Seq(Chars)
        <4>1. accepted' = Append(accepted, ch) /\ printed' = printed
          BY <1>2, <2>3 DEF WriteData
        <4>2. Append(accepted, ch) \in Seq(Chars)
          BY AppendProperties
        <4> QED
          BY <4>1, <4>2, Zenon
      <3> QED
        BY <2>1, <3>1, <3>2, <3>3, Zenon
    <2> QED
      BY <2>2, <2>3
  <1>3. CASE WaitForByte \/ SpuriousWake \/ WriteByte \/ Restart
    <2>1. prt' \in {"start", "asleep", "woken", "write", "again"}
      BY <1>3 DEF WaitForByte, SpuriousWake, WriteByte, Restart
    <2>2. printed' \in Seq(Chars)
      BY <1>3 DEF WaitForByte, SpuriousWake, WriteByte, Restart
    <2> QED
      BY <1>3, <2>1, <2>2, Zenon DEF WaitForByte, SpuriousWake, WriteByte, Restart
  <1>4. CASE TakeByte
    <2>1. prt_size' \in 0..PRT_BUF_SIZE
      BY <1>4, RingSizeAssumption DEF TakeByte, MayTake
    <2> QED
      BY <1>4, <1>0, <2>1 DEF TakeByte
  <1>5. CASE UNCHANGED vars
    BY <1>5 DEF vars
  <1> QED
    BY <1>1, <1>2, <1>3, <1>4, <1>5 DEF Next, PrtThread

(* Type correctness: no index ever leaves the ring, no count its bounds.    *)
THEOREM TypeCorrect == Spec => []TypeOK
  <1>1. ASSUME Init PROVE TypeOK
    <2>1. ready \in BOOLEAN
      BY <1>1, Zenon DEF Init
    <2> QED
      BY <1>1, <2>1, RingSizeAssumption DEF Init, TypeOK, Index
  <1> QED
    BY <1>1, TypeStep, PTL DEF Spec
-----------------------------------------------------------------------------
(* The inductive invariant: the properties together need no strengthening. *)
RingInv == IndicesAgree /\ SleepsOnlyWhenEmpty /\ ReadyStaysReady

LEMMA RingInvStep == TypeOK /\ RingInv /\ [Next]_vars => RingInv'
  <1> SUFFICES ASSUME TypeOK, RingInv, [Next]_vars PROVE RingInv'
    OBVIOUS
  <1> USE DEF RingInv, SleepsOnlyWhenEmpty, ReadyStaysReady, RingFull
  <1>0. /\ PRT_BUF_SIZE \in Nat \ {0}
        /\ prt_in \in Index /\ prt_out \in Index /\ prt_size \in 0..PRT_BUF_SIZE
        /\ ready \in BOOLEAN
    BY RingSizeAssumption DEF TypeOK
  <1>1. CASE ReadStatus
    <2>1. IndicesAgree' /\ SleepsOnlyWhenEmpty'
      BY <1>1 DEF ReadStatus, IndicesAgree, Wrap, ring
    <2>2. ReadyStaysReady'
      BY <1>1, Zenon DEF ReadStatus, WriteReady, ring
    <2> QED
      BY <2>1, <2>2
  <1>2. ASSUME NEW ch \in Chars, WriteData(ch) PROVE RingInv'
    <2>1. ~ready'
      BY <1>2, Zenon DEF WriteData
    <2>2. SleepsOnlyWhenEmpty'
      BY <1>2 DEF WriteData, WakesPrinter, ring
    <2>3. IndicesAgree'
      <3>1. CASE RingFull
        BY <1>2, <3>1 DEF WriteData, ring, IndicesAgree, Wrap
      <3>2. CASE ~RingFull
        <4>1. prt_size < PRT_BUF_SIZE
          BY <3>2
        <4>2. /\ prt_in' = Wrap(prt_in + 1)
              /\ prt_size' = prt_size + 1
              /\ prt_out' = prt_out
          BY <1>2, <3>2 DEF WriteData
        <4>3. prt_in = Wrap(prt_out + prt_size)
          BY DEF IndicesAgree
        <4>4. Wrap(prt_in + 1) = Wrap(prt_out + (prt_size + 1))
          BY <1>0, <4>1, <4>3, WrapOnce DEF Index
        <4> QED
          BY <4>2, <4>4 DEF IndicesAgree, Wrap
      <3> QED
        BY <3>1, <3>2
    <2> QED
      BY <2>1, <2>2, <2>3
  <1>3. CASE WaitForByte \/ SpuriousWake \/ WriteByte \/ Restart
    BY <1>3 DEF WaitForByte, SpuriousWake, WriteByte, Restart, IndicesAgree, Wrap, ring
  <1>4. CASE TakeByte
    <2>1. /\ prt_out' = Wrap(prt_out + 1)
          /\ prt_size' = prt_size - 1 /\ prt_size # 0
          /\ prt_in' = prt_in
          /\ ready' = ready /\ prt' = "write"
      BY <1>4 DEF TakeByte, MayTake
    <2>2. Wrap(prt_out + prt_size) = Wrap(Wrap(prt_out + 1) + (prt_size - 1))
      BY <1>0, <2>1, WrapOnce DEF Index
    <2>3. IndicesAgree'
      BY <2>1, <2>2 DEF IndicesAgree, Wrap
    <2>4. prt_size' < PRT_BUF_SIZE
      BY <1>0, <2>1
    <2> QED
      BY <2>1, <2>3, <2>4
  <1>5. CASE UNCHANGED vars
    BY <1>5 DEF vars, ring, IndicesAgree, Wrap
  <1> QED
    BY <1>1, <1>2, <1>3, <1>4, <1>5 DEF Next, PrtThread

LEMMA RingInvariant == Spec => [](TypeOK /\ RingInv)
  <1>1. ASSUME Init PROVE RingInv
    <2>1. 0 = Wrap(0 + 0)
      BY WrapOnce, RingSizeAssumption
    <2>2. ~ready
      BY <1>1, Zenon DEF Init
    <2> QED
      BY <1>1, <2>1, <2>2 DEF Init, RingInv, IndicesAgree, SleepsOnlyWhenEmpty, ReadyStaysReady
  <1> QED
    BY <1>1, TypeCorrect, RingInvStep, PTL DEF Spec

(* The ring indices agree with the count, at any size.                      *)
THEOREM IndicesCorrect == Spec => []IndicesAgree
  BY RingInvariant, PTL DEF RingInv

(* prt_thread never sleeps on a byte: the signal on the change from 0 to 1  *)
(* is enough.                                                               *)
THEOREM NoLostSignal == Spec => []SleepsOnlyWhenEmpty
  BY RingInvariant, PTL DEF RingInv

(* A guest that polls before each byte loses none.                          *)
THEOREM PollingLosesNothing == Spec => []ReadyStaysReady
  BY RingInvariant, PTL DEF RingInv
-----------------------------------------------------------------------------
(* The ring is a queue.                                                    *)

LEMMA ContentsSeq ==
    ASSUME TypeOK
    PROVE  /\ Contents \in Seq(Chars)
           /\ Len(Contents) = prt_size
           /\ \A i \in 1..prt_size : Contents[i] = prt_buf[Wrap(prt_out + i - 1)]
  <1>1. ASSUME NEW i \in 1..prt_size PROVE prt_buf[Wrap(prt_out + i - 1)] \in Chars
    <2>1. prt_out + i - 1 \in 0..2*PRT_BUF_SIZE-1
      BY RingSizeAssumption DEF TypeOK, Index
    <2> QED
      BY <2>1, WrapIndex DEF TypeOK
  <1> QED
    BY <1>1 DEF TypeOK, Contents

(* A write puts its byte behind the others and on top of none of them.      *)
LEMMA PutAppends ==
    ASSUME TypeOK, TypeOK', IndicesAgree, NEW ch \in Chars, WriteData(ch), ~RingFull
    PROVE  Contents' = Append(Contents, ch)
  <1>1. /\ prt_size < PRT_BUF_SIZE
        /\ prt_size' = prt_size + 1
        /\ prt_out' = prt_out
        /\ prt_buf' = [prt_buf EXCEPT ![prt_in] = ch]
    BY DEF WriteData, RingFull
  <1>2. PRT_BUF_SIZE \in Nat \ {0} /\ prt_size \in Nat /\ prt_out \in Index
    BY RingSizeAssumption DEF TypeOK
  <1>3. ASSUME NEW i \in 1..prt_size
        PROVE  prt_buf'[Wrap(prt_out + i - 1)] = prt_buf[Wrap(prt_out + i - 1)]
    <2>1. Wrap(prt_out + i - 1) # Wrap(prt_out + prt_size)
      BY <1>1, <1>2, WrapOnce DEF Index
    <2>2. prt_in = Wrap(prt_out + prt_size)
      BY DEF IndicesAgree
    <2> QED
      BY <1>1, <2>1, <2>2 DEF TypeOK
  <1>4. prt_buf'[Wrap(prt_out + (prt_size + 1) - 1)] = ch
    <2>1. prt_in = Wrap(prt_out + (prt_size + 1) - 1)
      BY <1>2 DEF IndicesAgree, Index
    <2> QED
      BY <1>1, <2>1 DEF TypeOK
  <1>5. Contents' = [i \in 1..prt_size + 1 |-> prt_buf'[Wrap(prt_out + i - 1)]]
    BY <1>1 DEF Contents, Wrap
  <1>6. /\ Append(Contents, ch) \in Seq(Chars)
        /\ Len(Append(Contents, ch)) = prt_size + 1
        /\ \A i \in 1..prt_size + 1 :
              Append(Contents, ch)[i] = IF i = prt_size + 1 THEN ch ELSE Contents[i]
    BY ContentsSeq, <1>2
  <1>7. ASSUME NEW i \in 1..prt_size + 1
        PROVE  prt_buf'[Wrap(prt_out + i - 1)] =
                 IF i = prt_size + 1 THEN ch ELSE Contents[i]
    <2>1. CASE i = prt_size + 1
      BY <1>4, <2>1
    <2>2. CASE i # prt_size + 1
      <3>1. i \in 1..prt_size
        BY <1>2, <2>2
      <3> QED
        BY <1>3, <2>2, <3>1, ContentsSeq
    <2> QED
      BY <2>1, <2>2
  <1>8. Contents' \in Seq(Chars) /\ Len(Contents') = prt_size + 1
    <2>1. \A i \in 1..prt_size + 1 : prt_buf'[Wrap(prt_out + i - 1)] \in Chars
      BY <1>6, <1>7, ElementOfSeq
    <2> QED
      BY <1>2, <1>5, <2>1
  <1>9. \A i \in 1..prt_size + 1 : Contents'[i] = Append(Contents, ch)[i]
    BY <1>5, <1>6, <1>7
  <1> QED
    BY <1>6, <1>8, <1>9

(* Taking a byte takes the oldest.                                          *)
LEMMA TakeOldest ==
    ASSUME TypeOK, TypeOK', TakeByte
    PROVE  Contents = <<inHand'>> \o Contents'
  <1>1. /\ prt_size # 0 /\ prt_size' = prt_size - 1
        /\ prt_out' = Wrap(prt_out + 1)
        /\ prt_buf' = prt_buf
        /\ inHand' = prt_buf[prt_out]
    BY DEF TakeByte, MayTake
  <1>2. PRT_BUF_SIZE \in Nat \ {0} /\ prt_size \in 0..PRT_BUF_SIZE /\ prt_out \in Index
    BY RingSizeAssumption DEF TypeOK
  <1>3. /\ Contents' \in Seq(Chars)
        /\ Len(Contents') = prt_size - 1
        /\ Contents' = [i \in 1..prt_size - 1 |-> prt_buf[Wrap(prt_out' + i - 1)]]
    <2>1. Contents' = [i \in 1..prt_size - 1 |-> prt_buf[Wrap(prt_out' + i - 1)]]
      BY <1>1 DEF Contents, Wrap
    <2>2. prt_size - 1 \in Nat
      BY <1>1, <1>2
    <2>3. ASSUME NEW i \in 1..prt_size - 1
          PROVE  prt_buf[Wrap(prt_out' + i - 1)] \in Chars
      <3>1. prt_out' + i - 1 \in 0..2*PRT_BUF_SIZE-1
        <4>1. Wrap(prt_out + 1) \in 0..PRT_BUF_SIZE-1
          BY <1>2, WrapIndex DEF Index
        <4> QED
          BY <1>1, <1>2, <4>1
      <3> QED
        BY <3>1, WrapIndex DEF TypeOK
    <2> QED
      BY <2>1, <2>2, <2>3
  <1>4. ASSUME NEW i \in 2..prt_size
        PROVE  Contents[i] = Contents'[i - 1]
    <2>1. Wrap(prt_out + i - 1) = Wrap(Wrap(prt_out + 1) + (i - 1) - 1)
      BY <1>2, WrapOnce DEF Index
    <2>2. i \in 1..prt_size /\ i - 1 \in 1..prt_size - 1
      BY <1>2
    <2> QED
      BY <1>1, <1>3, <2>1, <2>2, ContentsSeq
  <1>5. Contents[1] = inHand'
    <2>1. Wrap(prt_out + 1 - 1) = prt_out
      BY <1>2, WrapOnce DEF Index
    <2> QED
      BY <1>1, <1>2, <2>1, ContentsSeq
  <1>6. /\ <<inHand'>> \o Contents' \in Seq(Chars)
        /\ Len(<<inHand'>> \o Contents') = prt_size
        /\ (<<inHand'>> \o Contents')[1] = inHand'
        /\ \A i \in 2..prt_size : (<<inHand'>> \o Contents')[i] = Contents'[i - 1]
    BY <1>1, <1>2, <1>3 DEF TypeOK
  <1>7. \A i \in 1..prt_size : Contents[i] = (<<inHand'>> \o Contents')[i]
    BY <1>2, <1>4, <1>5, <1>6
  <1> QED
    BY <1>6, <1>7, ContentsSeq

(* A step of the console is a step of the channel or leaves it alone.       *)
LEMMA ChannelStep ==
    TypeOK /\ TypeOK' /\ IndicesAgree /\ [Next]_vars => [Channel!Next]_(Channel!vars)
  <1> SUFFICES ASSUME TypeOK, TypeOK', IndicesAgree, [Next]_vars
               PROVE  [Channel!Next]_(Channel!vars)
    OBVIOUS
  <1> USE DEF Channel!vars
  <1>1. CASE UNCHANGED <<ring, inHand, accepted, printed>> /\ (prt' = "write" <=> prt = "write")
    BY <1>1 DEF ring, Unprinted, Contents, Wrap
  <1>2. ASSUME NEW ch \in Chars, WriteData(ch), ~RingFull PROVE Channel!Next
    <2>1. Contents' = Append(Contents, ch)
      BY <1>2, PutAppends
    <2>2. /\ printed' = printed /\ inHand' = inHand
          /\ accepted' = Append(accepted, ch)
          /\ prt' = "write" <=> prt = "write"
      BY <1>2 DEF WriteData
    <2>3. Unprinted' = Append(Unprinted, ch)
      <3>1. CASE prt = "write"
        <4>1. Append(<<inHand>> \o Contents, ch) = <<inHand>> \o Append(Contents, ch)
          BY ContentsSeq DEF TypeOK
        <4> QED
          BY <2>1, <2>2, <3>1, <4>1 DEF Unprinted
      <3> QED
        BY <2>1, <2>2, <3>1 DEF Unprinted
    <2> QED
      BY <2>2, <2>3 DEF Channel!Next, Channel!Accept
  <1>3. CASE TakeByte
    <2>1. /\ prt # "write" /\ prt' = "write"
          /\ accepted' = accepted /\ printed' = printed
      BY <1>3 DEF TakeByte, MayTake
    <2> QED
      BY <1>3, <2>1, TakeOldest DEF Unprinted
  <1>4. CASE WriteByte
    <2>1. /\ prt = "write" /\ prt' # "write"
          /\ Contents' = Contents
          /\ printed' = Append(printed, inHand) /\ accepted' = accepted
      BY <1>4 DEF WriteByte, ring, Contents, Wrap
    <2>2. /\ <<inHand>> \o Contents # <<>>
          /\ Tail(<<inHand>> \o Contents) = Contents
          /\ Head(<<inHand>> \o Contents) = inHand
      BY ContentsSeq DEF TypeOK
    <2> QED
      BY <2>1, <2>2 DEF Unprinted, Channel!Next, Channel!Deliver
  <1>5. ASSUME NEW ch \in Chars, WriteData(ch), RingFull
        PROVE  UNCHANGED <<ring, inHand, accepted, printed>> /\ (prt' = "write" <=> prt = "write")
    BY <1>5 DEF WriteData
  <1>6. CASE ReadStatus \/ WaitForByte \/ SpuriousWake \/ Restart \/ UNCHANGED vars
    <2>1. UNCHANGED <<ring, inHand, accepted, printed>> /\ (prt' = "write" <=> prt = "write")
      BY <1>6 DEF ReadStatus, WaitForByte, SpuriousWake, Restart, vars
    <2> QED
      BY <1>1, <2>1
  <1> QED
    BY <1>1, <1>2, <1>3, <1>4, <1>5, <1>6 DEF Next, PrtThread

LEMMA InitQueue == Init => Channel!Init
  <1> SUFFICES ASSUME Init PROVE Channel!Init
    OBVIOUS
  <1>1. Contents = <<>>
    BY DEF Init, Contents
  <1> QED
    BY <1>1 DEF Init, Channel!Init, Unprinted

(* The printing half of the console implements the queue: at any ring size  *)
(* each accepted byte is printed at most once and in order.                 *)
THEOREM ImplementsChannel == Spec => ChannelSpec
  <1>1. TypeOK /\ TypeOK' /\ RingInv /\ [Next]_vars => [Channel!Next]_(Channel!vars)
    BY ChannelStep DEF RingInv
  <1> QED
    BY <1>1, InitQueue, RingInvariant, PTL DEF Spec, ChannelSpec, Channel!Spec
(* What leaves a queue comes next in the output.                            *)
LEMMA HeadPasses ==
    ASSUME NEW S, NEW s \in Seq(S), NEW t \in Seq(S), t # <<>>
    PROVE  Append(s, Head(t)) \o Tail(t) = s \o t
  <1>1. Head(t) \in S /\ Tail(t) \in Seq(S)
    BY HeadTailProperties
  <1>2. Append(s, Head(t)) = s \o <<Head(t)>> /\ <<Head(t)>> \in Seq(S)
    BY <1>1, AppendIsConcat
  <1>3. <<Head(t)>> \o Tail(t) = t
    BY <1>1
  <1> QED
    BY <1>1, <1>2, <1>3, ConcatAssociative

\* What was accepted is what was printed and what is on its way.
InOrder == accepted = printed \o Unprinted

LEMMA OrderStep ==
    TypeOK /\ [Channel!Next]_(Channel!vars) /\ InOrder => InOrder'
  <1> SUFFICES ASSUME TypeOK, [Channel!Next]_(Channel!vars), InOrder
               PROVE  InOrder'
    OBVIOUS
  <1>1. Unprinted \in Seq(Chars) /\ printed \in Seq(Chars)
    BY ContentsSeq DEF TypeOK, Unprinted
  <1>2. ASSUME NEW ch \in Chars, accepted' = Append(accepted, ch), Unprinted' = Append(Unprinted, ch),
               printed' = printed
        PROVE  InOrder'
    <2>1. Append(printed \o Unprinted, ch) = printed \o Append(Unprinted, ch)
      <3>1. printed \o Unprinted \in Seq(Chars) /\ <<ch>> \in Seq(Chars)
        BY <1>1, <1>2, ConcatProperties
      <3>2. /\ Append(printed \o Unprinted, ch) = (printed \o Unprinted) \o <<ch>>
            /\ Append(Unprinted, ch) = Unprinted \o <<ch>>
        BY <1>1, <1>2, <3>1, AppendIsConcat
      <3> QED
        BY <1>1, <3>1, <3>2, ConcatAssociative
    <2> QED
      BY <1>2, <2>1 DEF InOrder
  <1>3. CASE Channel!Accept
    BY <1>2, <1>3 DEF Channel!Accept
  <1>4. CASE Channel!Deliver
    <2>1. /\ Unprinted # <<>> /\ Unprinted' = Tail(Unprinted)
          /\ printed' = Append(printed, Head(Unprinted)) /\ accepted' = accepted
      BY <1>4 DEF Channel!Deliver
    <2>2. Append(printed, Head(Unprinted)) \o Tail(Unprinted) = printed \o Unprinted
      BY <1>1, <2>1, HeadPasses, Zenon
    <2> QED
      BY <2>1, <2>2 DEF InOrder
  <1>5. CASE UNCHANGED Channel!vars
    <2>1. accepted' = accepted /\ Unprinted' = Unprinted /\ printed' = printed
      BY <1>5 DEF Channel!vars
    <2> QED
      BY <2>1 DEF InOrder
  <1> QED
    BY <1>3, <1>4, <1>5 DEF Channel!Next

(* For a ring of any size: what is on the terminal is a first part of what *)
(* was accepted; the ring and the thread's hand hold the rest in order.    *)
THEOREM NothingOvertakes == Spec => []InOrder
  <1>1. Init => InOrder
    BY InitQueue DEF InOrder, Channel!Init
  <1>2. Channel!Spec => [][Channel!Next]_(Channel!vars)
    BY PTL DEF Channel!Spec
  <1> QED
    BY <1>1, <1>2, OrderStep, TypeCorrect, ImplementsChannel, PTL DEF Spec, ChannelSpec
=============================================================================

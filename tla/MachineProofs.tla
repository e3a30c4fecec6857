---------------------------- MODULE MachineProofs ----------------------------
(***************************************************************************)
(* Theorems about what a program is shown of the machine.  First the       *)
(* translation of its addresses (Tlb and Xmu), for any sizes, keys,        *)
(* addresses, groups, descriptors and guest operands.  Then its execution  *)
(* (Exec), for every program, handler and memory: what an instruction      *)
(* without privilege can do to the control registers, what an entry and a  *)
(* return do to the program that they interrupt, and that a program runs   *)
(* as if it were alone.                                                    *)
(***************************************************************************)
EXTENDS Xmu, Exec, WellFoundedInduction, TLAPS

(* The buffer.  Its inductive invariant is that the table is an index of   *)
(* the rows and that keys are unique: each needs the other, for tlb_set    *)
(* finds the entry to unlink by its key.                                   *)
TlbInv == TypeOK /\ HashIsIndex /\ KeysUnique

LEMMA KeyFacts ==
    /\ ZeroKey \in Key /\ Pgid(ZeroKey) = 0
    /\ \A k \in Key : Pgid(k) \in Nat
  <1>1. ZeroKey \in Key /\ Pgid(ZeroKey) = 0
    BY TagsAssumption DEF Key, ZeroKey, Pgid
  <1>2. ASSUME NEW k \in Key PROVE Pgid(k) \in Nat
    <2>1. PICK t \in Tags, g \in Groups \cup {0} : k = <<t, g>>
      BY DEF Key
    <2>2. g \in Nat
      BY GroupsAssumption
    <2> QED
      BY <2>1, <2>2 DEF Pgid
  <1> QED
    BY <1>1, <1>2

(* A search finds the rows with the key, if the key has a page group.       *)
LEMMA FindIsMatch ==
    ASSUME TlbInv, NEW k \in Key
    PROVE  /\ Find(k) = {i \in Row : Pgid(k) # 0 /\ key[i] = k}
           /\ \A i, j \in Find(k) : i = j
  <1>1. ASSUME NEW i \in Row
        PROVE  <<i, key[i]>> \in hash <=> Pgid(key[i]) # 0
    BY DEF TlbInv, HashIsIndex
  <1>2. Find(k) = {i \in Row : Pgid(k) # 0 /\ key[i] = k}
    BY <1>1 DEF Find
  <1> QED
    BY <1>2 DEF TlbInv, KeysUnique

(* tlb_set: what it does to the rows.                                       *)
LEMMA TlbSetKeys ==
    ASSUME TlbInv, NEW i \in Row, NEW k \in Key, TlbSet(i, k)
    PROVE  /\ key' = IF Find(k) # {} THEN key ELSE [key EXCEPT ![i] = k]
           /\ key' \in [Row -> Key]
  <1>1. CASE k = key[i] /\ Find(k) = {}
    <2>1. key = [key EXCEPT ![i] = k]
      BY <1>1 DEF TlbInv, TypeOK
    <2> QED
      BY <1>1, <2>1 DEF TlbSet, TlbInv, TypeOK
  <1>2. CASE ~(k = key[i] /\ Find(k) = {})
    BY <1>2 DEF TlbSet, TlbInv, TypeOK
  <1> QED
    BY <1>1, <1>2

(* tlb_set: the entry that it unlinks is the row it was called for.         *)
LEMMA TlbSetHash ==
    ASSUME TlbInv, NEW i \in Row, NEW k \in Key, TlbSet(i, k),
           k # key[i], Find(k) = {}
    PROVE  /\ key' = [key EXCEPT ![i] = k]
           /\ hash' = {h \in hash : h[1] # i}
                        \cup IF Pgid(k) # 0 THEN {<<i, k>>} ELSE {}
  <1>1. PICK rest \in Deleted(key[i]) :
           hash' = rest \cup IF Pgid(k) # 0 THEN {<<i, k>>} ELSE {}
    BY DEF TlbSet
  <1>2. key[i] \in Key
    BY DEF TlbInv, TypeOK
  <1>3. Find(key[i]) = {j \in Row : Pgid(key[i]) # 0 /\ key[j] = key[i]}
    BY <1>2, FindIsMatch
  <1>4. CASE Pgid(key[i]) # 0
    <2>1. i \in Find(key[i])
      BY <1>3, <1>4
    <2>2. \A o \in Find(key[i]) : o = i
      BY <2>1, <1>2, FindIsMatch
    <2>3. rest = {h \in hash : h[1] # i}
      BY <2>1, <2>2 DEF Deleted
    <2> QED
      BY <1>1, <2>3 DEF TlbSet
  <1>5. CASE Pgid(key[i]) = 0
    <2>1. rest = hash
      BY <1>3, <1>5 DEF Deleted
    <2>2. \A h \in hash : h[1] # i
      BY <1>5 DEF TlbInv, HashIsIndex
    <2> QED
      BY <1>1, <2>1, <2>2 DEF TlbSet
  <1> QED
    BY <1>4, <1>5

(* tlb_set keeps the invariant.                                             *)
LEMMA TlbSetInv ==
    ASSUME TlbInv, NEW i \in Row, NEW k \in Key, TlbSet(i, k)
    PROVE  HashIsIndex' /\ KeysUnique' /\ hash' \in SUBSET (Row \X Key)
  <1>1. CASE k = key[i] \/ Find(k) # {}
    BY <1>1 DEF TlbSet, TlbInv, TypeOK, HashIsIndex, KeysUnique
  <1>2. CASE k # key[i] /\ Find(k) = {}
    <2>1. key' = [key EXCEPT ![i] = k]
      BY <1>2, TlbSetHash
    <2>2. hash' = {h \in hash : h[1] # i} \cup IF Pgid(k) # 0 THEN {<<i, k>>} ELSE {}
      BY <1>2, TlbSetHash
    <2>3. key \in [Row -> Key]
      BY DEF TlbInv, TypeOK
    <2>4. key'[i] = k /\ \A j \in Row : j # i => key'[j] = key[j]
      BY <2>1, <2>3
    <2>5. KeysUnique'
      <3>1. Pgid(k) # 0 => \A j \in Row : key[j] # k
        BY <1>2, FindIsMatch
      <3> QED
        BY <2>4, <3>1 DEF TlbInv, KeysUnique
    <2>6. {h \in hash : h[1] # i} = {<<j, key[j]>> : j \in {n \in Row : n # i /\ Pgid(key[n]) # 0}}
      BY DEF TlbInv, HashIsIndex
    <2>7. {<<j, key[j]>> : j \in {n \in Row : n # i /\ Pgid(key[n]) # 0}}
            = {<<j, key'[j]>> : j \in {n \in Row : n # i /\ Pgid(key'[n]) # 0}}
      BY <2>4
    <2>8. {<<j, key'[j]>> : j \in {n \in Row : Pgid(key'[n]) # 0}}
            = {<<j, key'[j]>> : j \in {n \in Row : n # i /\ Pgid(key'[n]) # 0}}
                \cup IF Pgid(k) # 0 THEN {<<i, k>>} ELSE {}
      BY <2>4
    <2>9. HashIsIndex'
      BY <2>2, <2>6, <2>7, <2>8 DEF HashIsIndex, Pgid
    <2>10. hash' \in SUBSET (Row \X Key)
      BY <2>2 DEF TlbInv, TypeOK
    <2> QED
      BY <2>5, <2>9, <2>10
  <1> QED
    BY <1>1, <1>2

LEMMA RowOfType == ASSUME NEW x \in Operands PROVE RowOf(x) \in Row
  <1>1. x \in Nat /\ TLB_SIZE \in Nat /\ TLB_SIZE > 0
    BY OperandsAssumption, SizeAssumption
  <1>2. x % TLB_SIZE \in 0..TLB_SIZE-1
    BY <1>1, SMT
  <1> QED
    BY <1>2 DEF RowOf, Row

LEMMA TlbInvStep == TlbInv /\ [Next]_vars => TlbInv'
  <1> SUFFICES ASSUME TlbInv, [Next]_vars PROVE TlbInv'
    OBVIOUS
  <1>0. TypeOK /\ TLB_SIZE \in Nat \ {0}
    BY SizeAssumption DEF TlbInv
  <1>1. ASSUME NEW x \in Operands, NEW k \in Key, TlbSet(RowOf(x), k),
               op' = <<"key", RowOf(x), k>>, UNCHANGED <<value, scan>>
        PROVE  TlbInv'
    <2>1. RowOf(x) \in Row
      BY RowOfType
    <2>2. key' \in [Row -> Key]
      BY <1>1, <2>1, TlbSetKeys
    <2>3. HashIsIndex' /\ KeysUnique' /\ hash' \in SUBSET (Row \X Key)
      BY <1>1, <2>1, TlbSetInv
    <2>4. op' \in Ops
      BY <1>1, <2>1 DEF Ops
    <2>5. TypeOK'
      BY <1>0, <1>1, <2>2, <2>3, <2>4 DEF TypeOK
    <2> QED
      BY <2>3, <2>5 DEF TlbInv
  <1>2. CASE WriteValue
    <2>1. PICK x \in Operands, v \in Values :
             /\ value' = [value EXCEPT ![RowOf(x)] = v]
             /\ op' = <<"value", RowOf(x), v>>
      BY <1>2 DEF WriteValue
    <2>2. value' \in [Row -> Values] /\ op' \in Ops
      BY <1>0, <2>1, RowOfType DEF TypeOK, Ops
    <2> QED
      BY <1>2, <2>2 DEF WriteValue, TlbInv, TypeOK, HashIsIndex, KeysUnique
  <1>3. CASE Lookup
    <2>1. op' \in Ops
      BY <1>3 DEF Lookup, Found, Find, Ops
    <2> QED
      BY <1>3, <2>1 DEF Lookup, TlbInv, TypeOK, HashIsIndex, KeysUnique
  <1>4. CASE StartInvalidate
    <2>1. op' \in Ops /\ scan' \in 0..TLB_SIZE
      BY <1>0, <1>4 DEF StartInvalidate, Ops
    <2> QED
      BY <1>4, <2>1 DEF StartInvalidate, TlbInv, TypeOK, HashIsIndex, KeysUnique
  <1>5. CASE InvalidateRow
    <2>1. scan \in Row /\ scan' \in 0..TLB_SIZE
      BY <1>0, <1>5 DEF InvalidateRow, TypeOK, Row
    <2>2. CASE Pgid(key[scan]) = Id
      <3>1. TlbSet(scan, ZeroKey)
        BY <1>5, <2>2 DEF InvalidateRow
      <3>2. key' \in [Row -> Key]
        BY <2>1, <3>1, KeyFacts, TlbSetKeys
      <3>3. HashIsIndex' /\ KeysUnique' /\ hash' \in SUBSET (Row \X Key)
        BY <2>1, <3>1, KeyFacts, TlbSetInv
      <3>4. TypeOK'
        BY <1>0, <1>5, <2>1, <3>2, <3>3 DEF TypeOK, InvalidateRow
      <3> QED
        BY <3>3, <3>4 DEF TlbInv
    <2>3. CASE Pgid(key[scan]) # Id
      BY <1>5, <2>1, <2>3 DEF InvalidateRow, TlbInv, TypeOK, HashIsIndex, KeysUnique
    <2> QED
      BY <2>2, <2>3
  <1>6. CASE UNCHANGED vars
    BY <1>6 DEF vars, TlbInv, TypeOK, HashIsIndex, KeysUnique
  <1> QED
    BY <1>1, <1>2, <1>3, <1>4, <1>5, <1>6 DEF Next, WriteKey

LEMMA TlbInvariant == Spec => []TlbInv
  <1>1. ASSUME Init PROVE TlbInv
    <2>1. key = [i \in Row |-> ZeroKey] /\ hash = {} /\ op \in Ops
      BY <1>1 DEF Init, Ops
    <2>2. value \in [Row -> Values] /\ scan \in 0..TLB_SIZE
      BY <1>1, SizeAssumption DEF Init
    <2>3. TypeOK
      BY <2>1, <2>2, KeyFacts DEF TypeOK
    <2>4. HashIsIndex /\ KeysUnique
      BY <2>1, KeyFacts DEF HashIsIndex, KeysUnique
    <2> QED
      BY <2>3, <2>4 DEF TlbInv
  <1> QED
    BY <1>1, TlbInvStep, PTL DEF Spec

(* Type correctness of the translation buffer.                              *)
THEOREM TypeCorrect == Spec => []TypeOK
  BY TlbInvariant, PTL DEF TlbInv

(* The hash table is an index of the rows: searches see all of the buffer   *)
(* and nothing that is not in it any more.                                  *)
THEOREM HashCorrect == Spec => []HashIsIndex
  BY TlbInvariant, PTL DEF TlbInv

(* The keys that searches can find are unique.                              *)
THEOREM UniqueCorrect == Spec => []KeysUnique
  BY TlbInvariant, PTL DEF TlbInv
-----------------------------------------------------------------------------
(* The buffer implements the associative one.                              *)

LEMMA IdleView ==
    ASSUME TypeOK, Idle
    PROVE  /\ KeyView = key
           /\ TlbInv => \A k \in Key : Assoc!Match(k) = Find(k)
  <1>1. KeyView = key
    BY DEF KeyView, Remaining, TypeOK
  <1>2. ASSUME TlbInv, NEW k \in Key PROVE Assoc!Match(k) = Find(k)
    BY <1>1, <1>2, FindIsMatch DEF Assoc!Match
  <1> QED
    BY <1>1, <1>2

(* A round of the loop of tlb_invpgid is not seen.                          *)
LEMMA InvalidateStutters ==
    ASSUME TlbInv, InvalidateRow
    PROVE  KeyView' = KeyView
  <1>0. TLB_SIZE \in Nat \ {0} /\ scan \in Row /\ scan' = scan + 1 /\ Id' = Id
    BY SizeAssumption DEF TlbInv, TypeOK, InvalidateRow, Row, Id
  <1>1. /\ \A i \in Row : i # scan => key'[i] = key[i]
        /\ key'[scan] = IF Pgid(key[scan]) = Id THEN ZeroKey ELSE key[scan]
    <2>1. CASE Pgid(key[scan]) = Id
      <3>1. TlbSet(scan, ZeroKey)
        BY <2>1 DEF InvalidateRow
      <3>2. Find(ZeroKey) = {}
        BY KeyFacts, FindIsMatch
      <3>3. key' = [key EXCEPT ![scan] = ZeroKey]
        BY <1>0, <3>1, <3>2, KeyFacts, TlbSetKeys
      <3> QED
        BY <1>0, <2>1, <3>3 DEF TlbInv, TypeOK
    <2>2. CASE Pgid(key[scan]) # Id
      BY <2>2 DEF InvalidateRow
    <2> QED
      BY <2>1, <2>2
  <1>2. ASSUME NEW i \in Row
        PROVE  (IF Remaining(i)' THEN ZeroKey ELSE key'[i])
                 = IF Remaining(i) THEN ZeroKey ELSE key[i]
    <2>1. i \in Int /\ i < TLB_SIZE /\ scan \in Int /\ scan < TLB_SIZE
      BY <1>0 DEF Row
    <2>2. CASE i = scan
      <3>1. ~Remaining(i)'
        BY <1>0, <2>1, <2>2 DEF Remaining
      <3>2. Remaining(i) <=> Pgid(key[scan]) = Id
        BY <1>0, <2>1, <2>2 DEF Remaining, Idle
      <3> QED
        BY <1>1, <2>2, <3>1, <3>2
    <2>3. CASE i # scan
      <3>1. Remaining(i)' <=> Remaining(i)
        BY <1>0, <1>1, <2>1, <2>3 DEF Remaining, Idle, Pgid
      <3> QED
        BY <1>1, <2>3, <3>1
    <2> QED
      BY <2>2, <2>3
  <1> QED
    BY <1>2 DEF KeyView

LEMMA AssocStep ==
    TlbInv /\ TlbInv' /\ [Next]_vars => [Assoc!Next]_(Assoc!vars)
  <1> SUFFICES ASSUME TlbInv, TlbInv', [Next]_vars
               PROVE  [Assoc!Next]_(Assoc!vars)
    OBVIOUS
  <1>0. TypeOK /\ TypeOK'
    BY DEF TlbInv
  <1>1. ASSUME NEW x \in Operands, NEW k \in Key, Idle, TlbSet(RowOf(x), k),
               op' = <<"key", RowOf(x), k>>, UNCHANGED <<value, scan>>
        PROVE  Assoc!SetKey
    <2>1. RowOf(x) \in Row
      BY RowOfType
    <2>2. KeyView = key /\ Assoc!Match(k) = Find(k)
      BY <1>0, <1>1, IdleView
    <2>3. KeyView' = key'
      BY <1>0, <1>1 DEF KeyView, Remaining, Idle, TypeOK
    <2>4. key' = IF Find(k) # {} THEN key ELSE [key EXCEPT ![RowOf(x)] = k]
      BY <1>1, <2>1, TlbSetKeys
    <2> QED
      BY <1>1, <2>1, <2>2, <2>3, <2>4 DEF Assoc!SetKey
  <1>2. ASSUME WriteValue PROVE Assoc!SetValue
    <2>1. KeyView' = KeyView
      BY <1>2 DEF WriteValue, KeyView, Remaining, Idle, Pgid
    <2> QED
      BY <1>2, <2>1, RowOfType DEF WriteValue, Assoc!SetValue
  <1>3. ASSUME Lookup PROVE Assoc!Search
    <2>1. KeyView' = KeyView
      BY <1>3 DEF Lookup, KeyView, Remaining, Idle, Pgid
    <2>2. PICK k \in Key : \E i \in Found(k) : op' = <<"search", k, i>>
      BY <1>3 DEF Lookup
    <2>3. Assoc!Match(k) = Find(k) /\ \A i, j \in Find(k) : i = j
      BY <1>0, <1>3, IdleView, FindIsMatch DEF Lookup
    <2> QED
      BY <1>3, <2>1, <2>2, <2>3 DEF Lookup, Found, Assoc!Search
  <1>4. ASSUME StartInvalidate PROVE Assoc!Invalidate
    <2>1. KeyView = key
      BY <1>0, <1>4, IdleView DEF StartInvalidate
    <2>2. PICK id \in Ids : op' = <<"invpgid", id>>
      BY <1>4 DEF StartInvalidate
    <2>3. scan' = 0 /\ Id' = id /\ key' = key /\ ~(scan' = TLB_SIZE)
      BY <1>4, <2>2, SizeAssumption DEF StartInvalidate, Id
    <2>4. \A i \in Row : 0 <= i
      BY DEF Row
    <2>5. KeyView' = [i \in Row |-> IF Pgid(key[i]) = id THEN ZeroKey ELSE key[i]]
      BY <2>3, <2>4 DEF KeyView, Remaining, Idle, Pgid
    <2>6. value' = value
      BY <1>4 DEF StartInvalidate
    <2> QED
      BY <2>1, <2>2, <2>5, <2>6 DEF Assoc!Invalidate
  <1>5. CASE InvalidateRow
    BY <1>5, InvalidateStutters DEF InvalidateRow, Assoc!vars
  <1>6. CASE UNCHANGED vars
    BY <1>6 DEF vars, Assoc!vars, KeyView, Remaining, Idle, Pgid, Id
  <1> QED
    BY <1>1, <1>2, <1>3, <1>4, <1>5, <1>6 DEF Next, WriteKey, Assoc!Next

(* The translation buffer, with its hash table and the row-by-row removal   *)
(* of a page group, is the associative buffer whose searches compare every  *)
(* row and whose removal is immediate.                                      *)
THEOREM ImplementsAssoc == Spec => AssocSpec
  <1>1. ASSUME Init PROVE Assoc!Init
    <2>1. KeyView = [i \in Row |-> ZeroKey]
      BY <1>1 DEF Init, KeyView, Remaining, Idle
    <2> QED
      BY <1>1, <2>1 DEF Init, Assoc!Init
  <1> QED
    BY <1>1, AssocStep, TlbInvariant, PTL DEF Spec, AssocSpec, Assoc!Spec
-----------------------------------------------------------------------------
(* Translation.  To the buffer, an access that needs a page is a search    *)
(* like any other, so that the buffer's invariant carries over, and with   *)
(* it everything that translate relies on.                                 *)
XmuInv == TlbInv /\ XmuTypeOK

(* Arithmetic on addresses.                                                 *)

LEMMA DivBounds ==
    ASSUME NEW a \in Nat, NEW d \in Nat \ {0}
    PROVE  /\ a \div d \in Nat /\ a % d \in 0..d-1
           /\ a = (a \div d) * d + (a % d)
  OBVIOUS

LEMMA MultipleGap ==
    ASSUME NEW x \in Nat, NEW y \in Nat, NEW d \in Nat \ {0}, x > y
    PROVE  x * d >= y * d + d
  <1>1. PICK z \in Nat : x = y + 1 + z
    <2>1. x - y - 1 \in Nat
      OBVIOUS
    <2> QED
      BY <2>1
  <1>2. x * d = y * d + d + z * d
    BY <1>1
  <1>3. z * d \in Nat
    OBVIOUS
  <1> QED
    BY <1>2, <1>3

LEMMA DivMonotonic ==
    ASSUME NEW a \in Nat, NEW b \in Nat, NEW d \in Nat \ {0}, a <= b
    PROVE  a \div d <= b \div d
  <1>1. /\ a \div d \in Nat /\ a % d \in 0..d-1
        /\ a = (a \div d) * d + (a % d)
    BY DivBounds
  <1>2. /\ b \div d \in Nat /\ b % d \in 0..d-1
        /\ b = (b \div d) * d + (b % d)
    BY DivBounds
  <1>3. CASE a \div d > b \div d
    <2>1. (a \div d) * d >= (b \div d) * d + d
      BY <1>1, <1>2, <1>3, MultipleGap
    <2>2. (a \div d) * d \in Nat /\ (b \div d) * d \in Nat
      BY <1>1, <1>2
    <2> QED
      BY <1>1, <1>2, <2>1, <2>2
  <1> QED
    BY <1>1, <1>2, <1>3

LEMMA ModUnique ==
    ASSUME NEW q \in Nat, NEW d \in Nat \ {0}, NEW r \in 0..d-1, NEW x \in Nat,
           x = q * d + r
    PROVE  x % d = r
  <1>1. /\ x \div d \in Nat /\ x % d \in 0..d-1
        /\ x = (x \div d) * d + (x % d)
    BY DivBounds
  <1>2. q * d \in Nat /\ (x \div d) * d \in Nat
    BY <1>1
  <1>3. CASE q > x \div d
    <2>1. q * d >= (x \div d) * d + d
      BY <1>1, <1>3, MultipleGap
    <2> QED
      BY <1>1, <1>2, <2>1
  <1>4. CASE q < x \div d
    <2>1. (x \div d) * d >= q * d + d
      BY <1>1, <1>4, MultipleGap
    <2> QED
      BY <1>1, <1>2, <2>1
  <1>5. CASE q = x \div d
    BY <1>1, <1>2, <1>5
  <1> QED
    BY <1>1, <1>3, <1>4, <1>5

LEMMA ModShift ==
    ASSUME NEW q \in Nat, NEW d \in Nat \ {0}, NEW y \in Nat
    PROVE  (q * d + y) % d = y % d
  <1>1. /\ y \div d \in Nat /\ y % d \in 0..d-1
        /\ y = (y \div d) * d + (y % d)
    BY DivBounds
  <1>2. q * d \in Nat /\ q * d + y \in Nat
    OBVIOUS
  <1>3. (q + (y \div d)) * d = q * d + (y \div d) * d
    BY <1>1
  <1>4. (y \div d) * d \in Nat
    BY <1>1
  <1>5. q * d + y = (q + (y \div d)) * d + (y % d)
    BY <1>1, <1>2, <1>3, <1>4
  <1>6. q + (y \div d) \in Nat
    BY <1>1
  <1>7. ASSUME NEW c \in Nat, NEW x \in Nat, x = c * d + (y % d)
        PROVE  x % d = y % d
    BY <1>1, <1>7, ModUnique
  <1> QED
    BY <1>2, <1>5, <1>6, <1>7

LEMMA AddressParts ==
    ASSUME NEW va \in Addresses
    PROVE  /\ va \in 0..SPACE-1
           /\ Object(va) \in Objects
           /\ Offset(va) \in 0..SEG-1
  <1>1. va \in Nat /\ va <= SPACE - 1 /\ SPACE - 1 \in Nat /\ SEG \in Nat \ {0}
    BY AddressesAssumption, PagesAssumption
  <1>2. va \div SEG <= (SPACE - 1) \div SEG
    BY <1>1, DivMonotonic
  <1>3. va \div SEG \in Nat /\ va % SEG \in 0..SEG-1 /\ (SPACE - 1) \div SEG \in Nat
    BY <1>1, DivBounds
  <1> QED
    BY <1>1, <1>2, <1>3 DEF Object, Offset, Objects

LEMMA TagType ==
    ASSUME NEW a \in 0..SPACE-1
    PROVE  Tag(a) \in Tags
  <1>1. a \in Nat /\ PAGE \in Nat \ {0} /\ SPACE \in Nat \ {0}
        /\ a < SPACE /\ SPACE = (SPACE \div PAGE) * PAGE
    BY PagesAssumption
  <1>2. a \div PAGE \in Nat /\ a % PAGE \in 0..PAGE-1 /\ SPACE \div PAGE \in Nat
        /\ a = (a \div PAGE) * PAGE + (a % PAGE)
    BY <1>1, DivBounds
  <1>3. CASE a \div PAGE >= SPACE \div PAGE
    <2>1. PICK z \in Nat : a \div PAGE = (SPACE \div PAGE) + z
      <3>1. (a \div PAGE) - (SPACE \div PAGE) \in Nat
        BY <1>2, <1>3
      <3> QED
        BY <1>2, <3>1
    <2>2. (a \div PAGE) * PAGE = SPACE + z * PAGE
      BY <1>1, <1>2, <2>1
    <2>3. z * PAGE \in Nat
      BY <1>1
    <2> QED
      BY <1>1, <1>2, <2>2, <2>3
  <1>4. CASE a \div PAGE < SPACE \div PAGE
    BY <1>2, <1>4, PagesAssumption DEF Tag
  <1> QED
    BY <1>2, <1>3, <1>4

LEMMA LinearType ==
    ASSUME XmuTypeOK, NEW va \in Addresses
    PROVE  Linear(va) \in 0..SPACE-1
  <1>0. PAGE \in Nat \ {0} /\ SPACE \in Nat \ {0} /\ SEG \in Nat \ {0}
    BY PagesAssumption
  <1>1. ob[Object(va)] \in Nat /\ Offset(va) \in Nat
    <2>1. Object(va) \in Objects /\ Offset(va) \in 0..SEG-1
      BY AddressParts
    <2>2. ob[Object(va)] \in 0..SPACE-1
      BY <2>1, AddressesAssumption DEF XmuTypeOK
    <2> QED
      BY <1>0, <2>1, <2>2
  <1>2. ob[Object(va)] \div PAGE \in Nat
    BY <1>0, <1>1, DivBounds
  <1>3. (ob[Object(va)] \div PAGE) * PAGE + Offset(va) \in Nat
    BY <1>0, <1>1, <1>2
  <1> QED
    BY <1>0, <1>3, DivBounds DEF Linear

LEMMA PageKeyType ==
    ASSUME XmuTypeOK, NEW va \in Addresses, NEW g \in GroupIds
    PROVE  PageKey(Linear(va), g) \in Key
  BY LinearType, TagType DEF PageKey, Key, GroupIds
-----------------------------------------------------------------------------
(* An access is, to the buffer, a search or nothing.                        *)

LEMMA ResultsType ==
    ASSUME XmuTypeOK, NEW va \in Addresses, NEW size, NEW access \in AccessTypes,
           NEW paging, NEW p, NEW g \in GroupIds,
           NEW r \in Results(va, size, access, paging, p, g)
    PROVE  \/ r.search = <<>>
           \/ \E i \in Found(PageKey(Linear(va), g)) :
                r.search = <<<<PageKey(Linear(va), g), i>>>>
  <1>1. CASE \E i \in Found(PageKey(Linear(va), g)) : r = PageResult(Linear(va), access, g, i)
    BY <1>1 DEF PageResult, Result
  <1>2. CASE \E e, a : r = Result(e, a, <<>>)
    BY <1>2 DEF Result
  <1> QED
    BY <1>1, <1>2 DEF Results

LEMMA AccessIsSearch ==
    ASSUME XmuTypeOK, Idle, NEW va \in Addresses, NEW size, NEW access \in AccessTypes,
           NEW paging, Access(va, size, access, paging)
    PROVE  [Next]_vars
  <1>1. PICK r \in Results(va, size, access, paging, pl, pgid) :
           op' = IF r.search = <<>> THEN op
                 ELSE <<"search", r.search[1][1], r.search[1][2]>>
    BY DEF Access
  <1>2. pgid \in GroupIds
    BY DEF XmuTypeOK
  <1>3. UNCHANGED <<key, value, hash, scan>>
    BY DEF Access
  <1>4. CASE r.search = <<>>
    BY <1>1, <1>3, <1>4 DEF vars
  <1>5. CASE r.search # <<>>
    <2>1. PICK i \in Found(PageKey(Linear(va), pgid)) :
             r.search = <<<<PageKey(Linear(va), pgid), i>>>>
      BY <1>2, <1>5, ResultsType
    <2>2. op' = <<"search", PageKey(Linear(va), pgid), i>>
      BY <1>1, <1>5, <2>1
    <2>3. Lookup
      BY <1>2, <1>3, <2>2, PageKeyType DEF Lookup
    <2> QED
      BY <2>3 DEF Next
  <1> QED
    BY <1>4, <1>5

LEMMA StepIsTlbStep == XmuTypeOK /\ [XmuNext]_xmuVars => [Next]_vars
  <1> SUFFICES ASSUME XmuTypeOK, [XmuNext]_xmuVars PROVE [Next]_vars
    OBVIOUS
  <1>1. CASE LoadStoreFetch
    BY <1>1, AccessIsSearch DEF LoadStoreFetch
  <1>2. CASE Probe
    BY <1>2, AccessIsSearch DEF Probe, AccessTypes
  <1>3. CASE ManageBuffer
    BY <1>3 DEF ManageBuffer, Next
  <1>4. CASE Privileged \/ SetStatus \/ SetBase \/ SetDescriptor
    BY <1>4 DEF Privileged, SetStatus, SetBase, SetDescriptor
  <1>5. CASE UNCHANGED xmuVars
    BY <1>5 DEF xmuVars
  <1> QED
    BY <1>1, <1>2, <1>3, <1>4, <1>5 DEF XmuNext

LEMMA AccessType ==
    ASSUME XmuTypeOK, NEW va \in Addresses, NEW size, NEW access \in AccessTypes,
           NEW paging, Access(va, size, access, paging)
    PROVE  /\ pl' \in BOOLEAN /\ pgid' \in GroupIds
           /\ ob' \in [Objects -> Bases]
           /\ od' \in [Objects -> Descriptor]
           /\ stores' \in [Objects -> {"none", "begun", "done"}]
  <1>1. Object(va) \in Objects
    BY AddressParts
  <1>2. pl' \in BOOLEAN /\ pgid' \in GroupIds /\ ob' \in [Objects -> Bases]
    BY DEF Access, Enter, status, XmuTypeOK
  <1>3. od' \in [Objects -> Descriptor]
    <2>1. od' = od \/ od' = [od EXCEPT ![Object(va)].flags = @ \cup {"D"}]
      BY DEF Access
    <2>2. [od[Object(va)] EXCEPT !.flags = @ \cup {"D"}] \in Descriptor
      BY <1>1 DEF XmuTypeOK, Descriptor, DescriptorFlags
    <2> QED
      BY <2>1, <2>2 DEF XmuTypeOK
  <1>4. stores' \in [Objects -> {"none", "begun", "done"}]
    BY <1>1 DEF Access, XmuTypeOK
  <1> QED
    BY <1>2, <1>3, <1>4

LEMMA XmuInvStep == XmuInv /\ [XmuNext]_xmuVars => XmuInv'
  <1> SUFFICES ASSUME XmuInv, [XmuNext]_xmuVars PROVE XmuInv'
    OBVIOUS
  <1>0. XmuTypeOK /\ TlbInv
    BY DEF XmuInv
  <1>1. TlbInv' /\ TypeOK'
    <2>1. [Next]_vars
      BY <1>0, StepIsTlbStep
    <2>2. TlbInv'
      BY <1>0, <2>1, TlbInvStep
    <2> QED
      BY <2>2 DEF TlbInv
  <1>2. CASE LoadStoreFetch
    BY <1>0, <1>1, <1>2, AccessType DEF LoadStoreFetch, XmuInv, XmuTypeOK
  <1>3. CASE Probe
    BY <1>0, <1>1, <1>3, AccessType DEF Probe, AccessTypes, XmuInv, XmuTypeOK
  <1>4. CASE ManageBuffer
    BY <1>0, <1>1, <1>4 DEF ManageBuffer, status, objects, XmuInv, XmuTypeOK
  <1>5. CASE Privileged \/ SetStatus
    BY <1>0, <1>1, <1>5 DEF Privileged, SetStatus, Enter, objects, XmuInv, XmuTypeOK
  <1>6. CASE SetBase
    BY <1>0, <1>1, <1>6 DEF SetBase, status, XmuInv, XmuTypeOK
  <1>7. CASE SetDescriptor
    BY <1>0, <1>1, <1>7, DescriptorsAssumption DEF SetDescriptor, status, XmuInv, XmuTypeOK
  <1>8. CASE UNCHANGED xmuVars
    BY <1>0, <1>1, <1>8 DEF xmuVars, XmuInv, XmuTypeOK
  <1> QED
    BY <1>2, <1>3, <1>4, <1>5, <1>6, <1>7, <1>8 DEF XmuNext

LEMMA XmuInitInv == XmuInit => XmuInv /\ DirtyTellsStores /\ Init
  <1> SUFFICES ASSUME XmuInit PROVE XmuInv /\ DirtyTellsStores /\ Init
    OBVIOUS
  <1>1. Init
    BY ValuesAssumption DEF XmuInit, Init
  <1>2. TlbInv
    <2>1. key = [i \in Row |-> ZeroKey] /\ hash = {} /\ op \in Ops
      BY <1>1 DEF Init, Ops
    <2>2. value \in [Row -> Values] /\ scan \in 0..TLB_SIZE
      BY <1>1, SizeAssumption DEF Init
    <2> QED
      BY <2>1, <2>2, KeyFacts DEF TlbInv, TypeOK, HashIsIndex, KeysUnique
  <1>3. NoRights \in Descriptor
    BY PagesAssumption DEF NoRights, Descriptor
  <1>4. XmuTypeOK
    BY <1>2, <1>3, AddressesAssumption DEF XmuInit, XmuTypeOK, TlbInv, GroupIds
  <1>5. DirtyTellsStores
    BY DEF XmuInit, DirtyTellsStores, NoRights
  <1> QED
    BY <1>1, <1>2, <1>4, <1>5 DEF XmuInv

LEMMA XmuInvariant == XmuSpec => []XmuInv
  BY XmuInitInv, XmuInvStep, PTL DEF XmuSpec

(* Type correctness of the translation unit.                                *)
THEOREM XmuTypeCorrect == XmuSpec => []XmuTypeOK
  BY XmuInvariant, PTL DEF XmuInv

(* Under the translation unit the buffer is used as its own specification   *)
(* says, so that what is proved there holds here, the associative buffer    *)
(* included.                                                                *)
THEOREM XmuUsesBuffer == XmuSpec => Spec /\ AssocSpec
  <1>1. XmuInit => Init
    BY XmuInitInv
  <1>2. XmuInv /\ [XmuNext]_xmuVars => [Next]_vars
    BY StepIsTlbStep DEF XmuInv
  <1>3. XmuSpec => Spec
    BY <1>1, <1>2, XmuInvariant, PTL DEF XmuSpec, Spec
  <1> QED
    BY <1>3, ImplementsAssoc
-----------------------------------------------------------------------------
(* What a translation returns.                                              *)

LEMMA FoundRow ==
    ASSUME XmuInv, NEW va \in Addresses, NEW g \in GroupIds,
           NEW i \in Found(PageKey(Linear(va), g)), i # None
    PROVE  i \in RowsOf(Linear(va), g)
  <1>1. PageKey(Linear(va), g) \in Key
    BY PageKeyType DEF XmuInv
  <1>2. i \in Find(PageKey(Linear(va), g))
    BY DEF Found
  <1>3. i \in Row /\ key[i] = PageKey(Linear(va), g)
    BY <1>1, <1>2, FindIsMatch DEF XmuInv
  <1> QED
    BY <1>3 DEF RowsOf, PageKey

(* The offset in its page survives the way through the object.              *)
LEMMA PageOffset ==
    ASSUME XmuTypeOK, NEW va \in Addresses
    PROVE  Linear(va) % PAGE = va % PAGE
  <1> DEFINE B == ob[Object(va)] \div PAGE
             T == B * PAGE + Offset(va)
             n == SPACE \div PAGE
             pages == SEG \div PAGE
  <1>1. /\ PAGE \in Nat \ {0} /\ SEG \in Nat \ {0} /\ SPACE \in Nat \ {0}
        /\ SPACE = n * PAGE /\ SEG = pages * PAGE
    BY PagesAssumption
  <1>2. n \in Nat /\ pages \in Nat
    BY <1>1, DivBounds
  <1>3. va \in Nat /\ Offset(va) \in Nat
    BY <1>1, AddressParts
  <1>4. B \in Nat
    <2>1. ob[Object(va)] \in 0..SPACE-1
      BY AddressParts, AddressesAssumption DEF XmuTypeOK
    <2>2. ob[Object(va)] \in Nat
      BY <1>1, <2>1
    <2> QED
      BY <1>1, <2>2, DivBounds
  <1>5. T \in Nat
    BY <1>1, <1>3, <1>4
  <1>6. T % PAGE = Offset(va) % PAGE
    BY <1>1, <1>3, <1>4, ModShift
  <1>7. va % PAGE = Offset(va) % PAGE
    <2>1. va \div SEG \in Nat /\ va = (va \div SEG) * SEG + Offset(va)
      BY <1>1, <1>3, DivBounds DEF Offset
    <2>2. (va \div SEG) * SEG = ((va \div SEG) * pages) * PAGE /\ (va \div SEG) * pages \in Nat
      BY <1>1, <1>2, <2>1
    <2> HIDE DEF pages
    <2> QED
      BY <1>1, <1>3, <2>1, <2>2, ModShift
  <1>8. Linear(va) \in Nat /\ T % PAGE = Linear(va) % PAGE
    <2>0. Linear(va) = T % SPACE
      BY DEF Linear
    <2>1. /\ T \div SPACE \in Nat /\ Linear(va) \in Nat
          /\ T = (T \div SPACE) * SPACE + Linear(va)
      <3> HIDE DEF T
      <3>1. /\ T \div SPACE \in Nat /\ T % SPACE \in 0..SPACE-1
            /\ T = (T \div SPACE) * SPACE + (T % SPACE)
        BY <1>1, <1>5, DivBounds
      <3> QED
        BY <1>1, <2>0, <3>1
    <2>2. (T \div SPACE) * SPACE = ((T \div SPACE) * n) * PAGE /\ (T \div SPACE) * n \in Nat
      <3> HIDE DEF T
      <3> QED
        BY <1>1, <1>2, <2>1
    <2> HIDE DEF n, T
    <2> QED
      BY <1>1, <2>1, <2>2, ModShift
  <1> QED
    BY <1>6, <1>7, <1>8

LEMMA CheckPassed ==
    ASSUME NEW va \in Addresses, NEW size, NEW access \in AccessTypes, NEW p \in BOOLEAN,
           CheckError(va, size, access, p) = "none", XmuTypeOK
    PROVE  /\ va % size = 0
           /\ Tag(Offset(va)) <= Tag(od[Object(va)].limit)
           /\ Grants(od[Object(va)].flags, access, p)
  <1> DEFINE d == od[Object(va)]
  <1>1. va % size = 0 /\ ~(Tag(Offset(va)) > Tag(d.limit)) /\ Permitted(d.flags, access, p)
    BY DEF CheckError, SegmentFault, AccessTypes
  <1>2. d.limit \in Nat /\ Offset(va) \in Nat /\ PAGE \in Nat \ {0} /\ "K" \notin d.flags
    <2>1. d \in Descriptor
      BY AddressParts DEF XmuTypeOK
    <2> QED
      BY <2>1, AddressParts, PagesAssumption DEF Descriptor, DescriptorFlags
  <1>3. Tag(Offset(va)) \in Nat /\ Tag(d.limit) \in Nat
    BY <1>2, DivBounds DEF Tag
  <1>4. Tag(Offset(va)) <= Tag(d.limit)
    BY <1>1, <1>3
  <1>5. Grants(d.flags, access, p)
    <2> HIDE DEF d
    <2> QED
      BY <1>1, <1>2 DEF Permitted, LevelBits, AccessBits, AccessTypes, Grants
  <1> QED
    BY <1>1, <1>4, <1>5

(* What translate returns is granted by the objects and the pages.          *)
THEOREM TranslationIsCorrect == XmuSpec => []TranslationCorrect
  <1>1. ASSUME XmuInv PROVE TranslationCorrect
    <2> SUFFICES ASSUME NEW va \in Addresses, NEW size \in Sizes, NEW access \in AccessTypes,
                        NEW p \in BOOLEAN, NEW g \in Groups,
                        NEW r \in Results(va, size, access, TRUE, p, g), r.e = "none"
                 PROVE  /\ va % size = 0
                        /\ Tag(Offset(va)) <= Tag(od[Object(va)].limit)
                        /\ Grants(od[Object(va)].flags, access, p)
                        /\ IF "P" \notin od[Object(va)].flags THEN r.addr = Linear(va)
                           ELSE \E i \in RowsOf(Linear(va), g) :
                                  /\ r.addr = (value[i].tag * PAGE) + (va % PAGE)
                                  /\ "P" \in value[i].flags
                                  /\ access = "WRITE" => "W" \notin value[i].flags
      BY DEF TranslationCorrect
    <2>0. XmuTypeOK /\ g \in GroupIds
      BY <1>1 DEF XmuInv, GroupIds
    <2> DEFINE e == CheckError(va, size, access, p)
    <2>R. \/ e # "none" /\ r = Result(e, va, <<>>)
          \/ e = "none" /\ "P" \notin od[Object(va)].flags /\ r = Result("none", Linear(va), <<>>)
          \/ /\ e = "none" /\ "P" \in od[Object(va)].flags
             /\ \E i \in Found(PageKey(Linear(va), g)) : r = PageResult(Linear(va), access, g, i)
      BY GroupsAssumption DEF Results
    <2> HIDE DEF e
    <2>1. e = "none"
      BY <2>R DEF Result
    <2>2. CASE "P" \notin od[Object(va)].flags
      <3>1. r.addr = Linear(va)
        BY <2>1, <2>2, <2>R DEF Result
      <3> QED
        BY <2>0, <2>1, <2>2, <3>1, CheckPassed DEF e
    <2>3. CASE "P" \in od[Object(va)].flags
      <3>1. PICK i \in Found(PageKey(Linear(va), g)) :
               r = PageResult(Linear(va), access, g, i)
        BY <2>1, <2>3, <2>R
      <3>2. /\ i # None /\ "P" \in value[i].flags
            /\ access = "WRITE" => "W" \notin value[i].flags
            /\ r.addr = (value[i].tag * PAGE) + (Linear(va) % PAGE)
        BY <3>1 DEF PageResult, Result
      <3>3. i \in RowsOf(Linear(va), g)
        BY <1>1, <2>0, <3>1, <3>2, FoundRow
      <3>4. r.addr = (value[i].tag * PAGE) + (va % PAGE)
        BY <2>0, <3>2, PageOffset
      <3> QED
        BY <2>0, <2>1, <2>3, <3>2, <3>3, <3>4, CheckPassed DEF e
    <2> QED
      BY <2>2, <2>3
  <1> QED
    BY <1>1, XmuInvariant, PTL

(* The D flag accounts for the stores to an object.                         *)
THEOREM DirtyCorrect == XmuSpec => []DirtyTellsStores
  <1>1. ASSUME XmuInv, DirtyTellsStores, [XmuNext]_xmuVars PROVE DirtyTellsStores'
    <2>0. XmuTypeOK
      BY <1>1 DEF XmuInv
    <2>1. ASSUME NEW va \in Addresses, NEW size, NEW access, NEW paging,
                 Access(va, size, access, paging)
          PROVE  DirtyTellsStores'
      <3>1. Object(va) \in Objects
        BY AddressParts
      <3>2. CASE StoreBegins(va, size, access)
        <4>1. od' = [od EXCEPT ![Object(va)].flags = @ \cup {"D"}]
          BY <2>1, <3>2 DEF Access, Marks
        <4>2. /\ stores'[Object(va)] \in {"begun", "done"}
              /\ \A o \in Objects : o # Object(va) => stores'[o] = stores[o]
          BY <2>0, <2>1, <3>1, <3>2 DEF Access, XmuTypeOK
        <4>3. /\ "D" \in od'[Object(va)].flags
              /\ \A o \in Objects : o # Object(va) => od'[o] = od[o]
          BY <2>0, <3>1, <4>1 DEF XmuTypeOK, Descriptor
        <4> QED
          BY <1>1, <4>2, <4>3 DEF DirtyTellsStores
      <3>3. CASE ~StoreBegins(va, size, access)
        BY <1>1, <2>1, <3>3 DEF Access, Marks, DirtyTellsStores
      <3> QED
        BY <3>2, <3>3
    <2>2. CASE SetDescriptor
      <3>1. PICK o \in Objects, d \in Descriptors :
               /\ od' = [od EXCEPT ![o] = d]
               /\ stores' = [stores EXCEPT ![o] =
                                 IF "D" \in d.flags THEN "begun" ELSE "none"]
        BY <2>2 DEF SetDescriptor
      <3> QED
        BY <1>1, <2>0, <3>1 DEF XmuTypeOK, DirtyTellsStores
    <2>3. CASE ManageBuffer \/ Privileged \/ SetStatus \/ SetBase
      BY <1>1, <2>3 DEF ManageBuffer, Privileged, SetStatus, SetBase, objects, DirtyTellsStores
    <2>4. CASE UNCHANGED xmuVars
      BY <1>1, <2>4 DEF xmuVars, DirtyTellsStores
    <2> QED
      BY <1>1, <2>1, <2>2, <2>3, <2>4 DEF XmuNext, LoadStoreFetch, Probe
  <1> QED
    BY <1>1, XmuInitInv, XmuInvariant, PTL DEF XmuSpec
-----------------------------------------------------------------------------
(* The fault address.                                                       *)

LEMMA KeysChangeAlone ==
    ASSUME XmuTypeOK, [XmuNext]_xmuVars, key' # key
    PROVE  UNCHANGED objects
  BY DEF XmuNext, LoadStoreFetch, Probe, Access, ManageBuffer, Privileged, SetStatus,
         SetBase, SetDescriptor, xmuVars, vars

(* A key written for the fault address is the one that the retry looks for. *)
THEOREM RepairCorrect == XmuSpec => HandlerRepairsFault
  <1>1. ASSUME XmuInv, XmuInv', [XmuNext]_xmuVars,
               NEW i \in {j \in Row : key'[j] # key[j]},
               NEW va \in Addresses, NEW access \in AccessTypes, NEW p \in BOOLEAN,
               NEW g \in Groups
        PROVE  Repaired(i, va, access, p, g)
    <2> SUFFICES ASSUME NEW r \in Results(va, 1, access, TRUE, p, g),
                        r.e = "PGNM", key'[i] = <<Tag(r.addr), g>>
                 PROVE  Results(va, 1, access, TRUE, p, g)'
                          = {PageResult(Linear(va), access, g, i)'}
      BY DEF Repaired
    <2>0. XmuTypeOK /\ g \in GroupIds /\ g # 0
      BY <1>1, GroupsAssumption DEF XmuInv, GroupIds
    <2>1. UNCHANGED objects
      BY <1>1, <2>0, KeysChangeAlone
    <2>2. /\ CheckError(va, 1, access, p) = "none"
          /\ "P" \in od[Object(va)].flags
          /\ \E j \in Found(PageKey(Linear(va), g)) : r = PageResult(Linear(va), access, g, j)
      <3> DEFINE e == CheckError(va, 1, access, p)
      <3>1. \/ e # "none" /\ r = Result(e, va, <<>>)
            \/ e = "none" /\ "P" \notin od[Object(va)].flags /\ r = Result("none", Linear(va), <<>>)
            \/ /\ e = "none" /\ "P" \in od[Object(va)].flags
               /\ \E j \in Found(PageKey(Linear(va), g)) : r = PageResult(Linear(va), access, g, j)
        BY <1>1, GroupsAssumption DEF Results
      <3>2. e # "PGNM"
        BY DEF CheckError, SegmentFault, AccessTypes
      <3> HIDE DEF e
      <3>3. e = "none" /\ "P" \in od[Object(va)].flags
            /\ \E j \in Found(PageKey(Linear(va), g)) : r = PageResult(Linear(va), access, g, j)
        BY <1>1, <3>1, <3>2 DEF Result
      <3> QED
        BY <3>3 DEF e
    <2>3. r.addr = Linear(va)
      BY <1>1, <2>2 DEF PageResult, Result
    <2>4. Linear(va)' = Linear(va) /\ CheckError(va, 1, access, p)' = "none"
          /\ "P" \in od[Object(va)].flags'
      BY <2>1, <2>2 DEF objects, Linear, CheckError
    <2>5. Results(va, 1, access, TRUE, p, g)'
            = {PageResult(Linear(va), access, g, j)' : j \in Found(PageKey(Linear(va), g))'}
      BY <2>0, <2>4 DEF Results
    <2>6. Found(PageKey(Linear(va), g))' = {i}
      <3>1. PageKey(Linear(va), g)' \in Key
        BY <2>0, <2>4, PageKeyType DEF PageKey
      <3>2. key'[i] = PageKey(Linear(va), g)' /\ Pgid(PageKey(Linear(va), g)') # 0
        BY <1>1, <2>0, <2>3, <2>4 DEF PageKey, Pgid
      <3>3. Find(PageKey(Linear(va), g))' = {i}
        <4>1. /\ hash' = {<<j, key'[j]>> : j \in {n \in Row : Pgid(key'[n]) # 0}}
              /\ \A n, j \in Row : Pgid(key'[n]) # 0 /\ key'[n] = key'[j] => n = j
          BY <1>1 DEF XmuInv, TlbInv, HashIsIndex, KeysUnique, Pgid
        <4> HIDE DEF PageKey
        <4> QED
          BY <3>2, <4>1 DEF Find
      <3> QED
        BY <3>3 DEF Found
    <2> QED
      BY <2>5, <2>6
  <1> DEFINE Repairs ==
        \A i \in {j \in Row : key'[j] # key[j]} :
        \A va \in Addresses, access \in AccessTypes, p \in BOOLEAN, g \in Groups :
          Repaired(i, va, access, p, g)
  <1>2. XmuInv /\ XmuInv' /\ [XmuNext]_xmuVars => Repairs
    BY <1>1, Zenon
  <1>3. XmuInv /\ [XmuNext]_xmuVars => [Repairs]_xmuVars
    BY <1>2, XmuInvStep
  <1>4. HandlerRepairsFault <=> [][Repairs]_xmuVars
    BY DEF HandlerRepairsFault
  <1> HIDE DEF Repairs
  <1> QED
    BY <1>3, <1>4, XmuInvariant, PTL DEF XmuSpec

-----------------------------------------------------------------------------
(* Programs.                                                                *)

\* A function is one into its values.
LEMMA IntoItsValues ==
    ASSUME NEW S, NEW f, f = [r \in S |-> f[r]]
    PROVE  f \in [S -> {f[r] : r \in S}]
<1>1. [r \in S |-> f[r]] \in [S -> {f[r] : r \in S}]
  OBVIOUS
<1> QED BY <1>1, Zenon

\* The types of the parts of a machine.
Typed(x, G, V) ==
    x \in [regs : [1..31 -> G], cr : [0..47 -> V], pc : {x.pc}, mem : {x.mem}, io : {x.io}]

LEMMA MachineTyped ==
    ASSUME NEW x, IsMachine(x)
    PROVE  \E G, V : Typed(x, G, V)
<1> DEFINE f == x.regs
           g == x.cr
<1>1. /\ f = [r \in 1..31 |-> f[r]] /\ g = [r \in 0..47 |-> g[r]]
      /\ x = [regs |-> f, cr |-> g, pc |-> x.pc, mem |-> x.mem, io |-> x.io]
  BY DEF IsMachine
<1> HIDE DEF f, g
<1>2. f \in [1..31 -> {f[r] : r \in 1..31}] /\ g \in [0..47 -> {g[r] : r \in 0..47}]
  BY <1>1, IntoItsValues, Zenon
<1>3. \A G, V : f \in [1..31 -> G] /\ g \in [0..47 -> V] => Typed(x, G, V)
  BY <1>1 DEF Typed
<1> QED BY <1>2, <1>3, Zenon

LEMMA TypedMachine ==
    ASSUME NEW G, NEW V, NEW x, Typed(x, G, V)
    PROVE  IsMachine(x)
<1>1. x.regs = [r \in 1..31 |-> x.regs[r]] /\ x.cr = [r \in 0..47 |-> x.cr[r]]
  BY DEF Typed
<1>2. x = [regs |-> x.regs, cr |-> x.cr, pc |-> x.pc, mem |-> x.mem, io |-> x.io]
  BY DEF Typed
<1> QED BY <1>1, <1>2, Zenon DEF IsMachine

\* What changes of a machine leave a machine.
LEMMA PcMachine ==
    ASSUME NEW x, IsMachine(x), NEW p
    PROVE  LET y == [x EXCEPT !.pc = p] IN
           /\ IsMachine(y) /\ y.cr = x.cr /\ y.regs = x.regs /\ y.pc = p
           /\ y.mem = x.mem /\ y.io = x.io
<1> DEFINE y == [x EXCEPT !.pc = p]
<1>1. PICK G, V : Typed(x, G, V) BY MachineTyped
<1>2. Typed(y, G, V)
  BY <1>1 DEF Typed
<1>3. /\ y.cr = x.cr /\ y.regs = x.regs /\ y.pc = p
      /\ y.mem = x.mem /\ y.io = x.io
  BY <1>1 DEF Typed
<1>4. IsMachine(y)
  BY <1>2, TypedMachine, Zenon
<1> QED BY <1>3, <1>4

LEMMA StoreMachine ==
    ASSUME NEW x, IsMachine(x), NEW mem, NEW io
    PROVE  LET y == [x EXCEPT !.mem = mem, !.io = io] IN IsMachine(y) /\ y.cr = x.cr
<1> DEFINE y == [x EXCEPT !.mem = mem, !.io = io]
<1>1. PICK G, V : Typed(x, G, V) BY MachineTyped
<1>2. Typed(y, G, V) /\ y.cr = x.cr
  BY <1>1 DEF Typed
<1> QED BY <1>2, TypedMachine, Zenon

LEMMA CallMachine ==
    ASSUME NEW x, IsMachine(x), NEW io
    PROVE  LET y == [x EXCEPT !.io = io] IN IsMachine(y) /\ y.cr = x.cr
<1> DEFINE y == [x EXCEPT !.io = io]
<1>1. PICK G, V : Typed(x, G, V) BY MachineTyped
<1>2. Typed(y, G, V) /\ y.cr = x.cr
  BY <1>1 DEF Typed
<1> QED BY <1>2, TypedMachine, Zenon

LEMMA SetRegMachine ==
    ASSUME NEW x, IsMachine(x), NEW n, NEW v
    PROVE  /\ IsMachine(SetReg(x, n, v)) /\ SetReg(x, n, v).cr = x.cr
           /\ SetReg(x, n, v).pc = x.pc
<1> DEFINE y == [x EXCEPT !.regs[n] = v]
<1>1. PICK G, V : Typed(x, G, V) BY MachineTyped
<1>2. Typed(y, G \cup {v}, V) /\ y.cr = x.cr /\ y.pc = x.pc
  BY <1>1 DEF Typed
<1>3. IsMachine(y)
  BY <1>2, TypedMachine, Zenon
<1> QED BY <1>2, <1>3 DEF SetReg

LEMMA CrMachine ==
    ASSUME NEW x, IsMachine(x), NEW n, NEW v
    PROVE  IsMachine([x EXCEPT !.cr[n] = v])
<1> DEFINE y == [x EXCEPT !.cr[n] = v]
<1>1. PICK G, V : Typed(x, G, V) BY MachineTyped
<1>2. Typed(y, G, V \cup {v})
  BY <1>1 DEF Typed
<1> QED BY <1>2, TypedMachine, Zenon

LEMMA InterruptMachine ==
    ASSUME NEW x, IsMachine(x), NEW which, NEW fi, NEW fa
    PROVE  LET y == Interrupt(x, which, fi, fa) IN
           /\ IsMachine(y) /\ (which \in 0..63 => Enters(x, y))
           /\ y.cr[APC] = x.pc /\ y.cr[APSQ] = x.cr[PSQ]
           /\ y.cr[PSQ] = x.cr[PSQ] \ 0..4 /\ y.mem = x.mem
<1> DEFINE g == IF AE \notin x.cr[PSQ] THEN x.regs
                ELSE [x.regs EXCEPT ![X8] = x.regs[SP], ![X9] = x.regs[LR], ![SP] = x.cr[ASP]]
           c == [x.cr EXCEPT ![APC] = x.pc, ![APSQ] = x.cr[PSQ],
                             ![PSQ] = x.cr[PSQ] \ EntryClears, ![FI] = fi, ![FA] = fa]
           p == Plus(x.cr[IA], Num(64 * which))
           y == [x EXCEPT !.regs = g, !.pc = p, !.cr = c]
<1>1. PICK G, V : Typed(x, G, V) BY MachineTyped
<1> DEFINE H == G \cup {x.cr[ASP]}
           W == V \cup {x.pc, x.cr[PSQ], x.cr[PSQ] \ EntryClears, fi, fa}
<1>2. g \in [1..31 -> H]
  BY <1>1 DEF Typed, X8, X9, SP, LR
<1>3. /\ c \in [0..47 -> W]
      /\ c[PSQ] = x.cr[PSQ] \ 0..4 /\ c[APSQ] = x.cr[PSQ] /\ c[APC] = x.pc
      /\ \A r \in (0..47) \ {PSQ, APSQ, APC, FI, FA} : c[r] = x.cr[r]
  BY <1>1 DEF Typed, PSQ, APSQ, APC, FI, FA, EntryClears
<1>4. Interrupt(x, which, fi, fa) = y
  BY <1>1 DEF Interrupt, Typed
<1> HIDE DEF g, c, p, H, W
<1>5. Typed(y, H, W) /\ y.cr = c /\ y.pc = p /\ y.mem = x.mem
  BY <1>1, <1>2, <1>3 DEF Typed
<1> HIDE DEF y
<1>6. IsMachine(y)
  BY <1>5, TypedMachine, Zenon
<1>7. which \in 0..63 => Enters(x, y)
  BY <1>3, <1>5 DEF Enters, p
<1> QED BY <1>3, <1>4, <1>5, <1>6, <1>7
-----------------------------------------------------------------------------
(* What an operation may do to a machine: stay one, and confine a program.  *)
Keeps(x, y) == IsMachine(y) /\ y.cr = x.cr
Tame(x, y) == IsMachine(y) /\ (AtUser(x) => Confined(x, y))

LEMMA FlagTame ==
    ASSUME NEW x, IsMachine(x), NEW y, IsMachine(y), NEW psq,
           psq = x.cr[PSQ] \cup {LG} \/ psq = x.cr[PSQ] \ {LG},
           y.cr = [x.cr EXCEPT ![PSQ] = psq]
    PROVE  Tame(x, y)
BY DEF Tame, Confined, Unprivileged

LEMMA KeepsTame ==
    ASSUME NEW x, IsMachine(x), NEW y, Keeps(x, y)
    PROVE  Tame(x, y)
<1>1. PICK G, V : Typed(x, G, V) BY MachineTyped
<1>2. y.cr = [x.cr EXCEPT ![PSQ] = x.cr[PSQ]]
  BY <1>1 DEF Keeps, Typed
<1>3. x.cr[PSQ] = x.cr[PSQ] \cup {LG} \/ x.cr[PSQ] = x.cr[PSQ] \ {LG}
  OBVIOUS
<1> QED BY <1>2, <1>3, FlagTame DEF Keeps

LEMMA InterruptTame ==
    ASSUME NEW x, IsMachine(x), NEW which \in 0..63, NEW fi, NEW fa
    PROVE  Tame(x, Interrupt(x, which, fi, fa))
BY InterruptMachine DEF Tame, Confined

Errors == {"BERR", "EMLT", "DALT", "XALT", "IPLT", "OVRF", "PGNM", "SVCT"}

LEMMA ErrorTame ==
    ASSUME NEW x, IsMachine(x), NEW e \in Errors, NEW fi, NEW fa
    PROVE  Tame(x, Error(x, e, fi, fa))
<1>1. ErrorNumber(e) \in 0..63
  BY DEF Errors, ErrorNumber
<1> QED BY <1>1, InterruptTame DEF Error

LEMMA TameAfter ==
    ASSUME NEW x, NEW y, Keeps(x, y), NEW z, Tame(y, z)
    PROVE  Tame(x, z)
BY DEF Keeps, Tame, AtUser, Confined, Unprivileged, Enters

LEMMA SetRegTame ==
    ASSUME NEW x, IsMachine(x), NEW n, NEW v
    PROVE  Tame(x, SetReg(x, n, v))
BY SetRegMachine, KeepsTame DEF Keeps

LEMMA Rr0Tame ==
    ASSUME NEW x, IsMachine(x), NEW w
    PROVE  Tame(x, Rr0(x, w))
<1>1. \A v : Tame(x, SetReg(x, RA(w), v))
  BY SetRegTame
<1>2. Tame(x, Error(x, "OVRF", {}, {}))
  BY ErrorTame DEF Errors
<1> QED BY <1>1, <1>2 DEF Rr0

LEMMA RrCTame ==
    ASSUME NEW x, IsMachine(x), NEW w
    PROVE  Tame(x, RrC(x, w))
<1>1. Tame(x, SetReg(x, RA(w), Reg(x, RC(w))))
  BY SetRegTame
<1>2. Tame(x, Error(x, "EMLT", w, {}))
  BY ErrorTame DEF Errors
<1>3. Tame(x, x)
  BY KeepsTame DEF Keeps
<1> QED BY <1>1, <1>2, <1>3 DEF RrC

LEMMA ImTame ==
    ASSUME NEW x, IsMachine(x), NEW w
    PROVE  Tame(x, Im4(x, w)) /\ Tame(x, Im5(x, w)) /\ Tame(x, Im6(x, w))
<1>1. Tame(x, Im4(x, w)) /\ Tame(x, Im5(x, w))
  BY SetRegTame DEF Im4, Im5
<1>2. Tame(x, Im6(x, w))
  <2> DEFINE s == SetReg(x, RA(w), Left(IM_IMM(w), 41))
             y == [s EXCEPT !.cr[PSQ] = x.cr[PSQ] \cup {LG}]
  <2>1. IsMachine(s) /\ s.cr = x.cr
    BY SetRegMachine
  <2> HIDE DEF s
  <2>2. PICK G, V : Typed(s, G, V) BY <2>1, MachineTyped
  <2>3. y.cr = [x.cr EXCEPT ![PSQ] = x.cr[PSQ] \cup {LG}]
    BY <2>1, <2>2 DEF Typed
  <2>4. IsMachine(y)
    BY <2>1, CrMachine
  <2>5. Im6(x, w) = y
    BY <2>1, <2>2 DEF Im6, s, Typed
  <2> QED BY <2>3, <2>4, <2>5, FlagTame
<1> QED BY <1>1, <1>2

LEMMA LongImmediateTame ==
    ASSUME NEW x, IsMachine(x), NEW w
    PROVE  Tame(x, LongImmediate(x, w))
<1> DEFINE s == SetReg(x, RA(w), Reg(x, RA(w)) \cup Left(LGISL2_IMM(w), 14))
           y == [s EXCEPT !.cr[PSQ] = x.cr[PSQ] \ {LG}]
<1>1. IsMachine(s) /\ s.cr = x.cr
  BY SetRegMachine
<1> HIDE DEF s
<1>2. PICK G, V : Typed(s, G, V) BY <1>1, MachineTyped
<1>3. y.cr = [x.cr EXCEPT ![PSQ] = x.cr[PSQ] \ {LG}]
  BY <1>1, <1>2 DEF Typed
<1>4. IsMachine(y)
  BY <1>1, CrMachine
<1>5. LongImmediate(x, w) = y
  BY <1>1, <1>2 DEF LongImmediate, s, Typed
<1> QED BY <1>3, <1>4, <1>5, FlagTame

LEMMA Br1Tame ==
    ASSUME NEW x, IsMachine(x), NEW w
    PROVE  Tame(x, Br1(x, w))
<1> DEFINE linked == IF FN(w) \in {2, 3} THEN SetReg(x, LR, x.pc) ELSE x
<1>1. Keeps(x, linked)
  BY SetRegMachine DEF Keeps
<1> HIDE DEF linked
<1>2. \A p : Keeps(x, [linked EXCEPT !.pc = p])
  BY <1>1, PcMachine DEF Keeps
<1>3. Tame(x, x) /\ \A p : Tame(x, [linked EXCEPT !.pc = p])
  BY <1>2, KeepsTame DEF Keeps
<1> QED BY <1>3 DEF Br1, linked

\* A field of three bits has eight values.
LEMMA FnRange ==
    ASSUME NEW w
    PROVE  FN(w) \in 0..7 /\ OPCODE(w) \in 0..15
BY DEF FN, OPCODE, Three, Bit

LEMMA StorageKind ==
    ASSUME NEW w, OPCODE(w) \in {2, 10} \/ FN(w) < 4
    PROVE  Storage(w)[1] \in {"load", "store", "address"}
<1>1. FN(w) \in 0..7
  BY FnRange
<1>2. \A n \in 0..7 : Short[n + 1][1] \in {"load", "store"}
  BY DEF Short
<1>3. \A n \in 0..3 : Long[n + 1][1] \in {"load", "store", "address"}
  BY DEF Long
<1> QED BY <1>1, <1>2, <1>3 DEF Storage

LEMMA BusErrors ==
    ASSUME NEW a, NEW k, NEW units
    PROVE  BusFault(a, k, units) \in {"DALT", "BERR", "none"}
BY DEF BusFault

LEMMA LoadStoreTame ==
    ASSUME NEW x, IsMachine(x), NEW w, OPCODE(w) \in {2, 10} \/ FN(w) < 4
    PROVE  Tame(x, LoadStore(x, w))
<1> DEFINE access == Storage(w)
           k == access[2]
           a == StorageAddress(x, w, k)
           addr == Translate(x, a)
           in == BusRead(x.mem, addr, k)
           out == BusWrite(x.mem, x.io, addr, k, Reg(x, RA(w)))
           stored == [x EXCEPT !.mem = out.mem, !.io = out.io]
           fa(e) == IF e = "DALT" THEN a ELSE addr
<1>1. in.e \in {"DALT", "BERR", "none"}
  BY BusErrors DEF BusRead
<1>2. out.e \in {"DALT", "BERR", "none"}
  BY BusErrors DEF BusWrite
<1>3. access[1] \in {"load", "store", "address"}
  BY StorageKind
<1>4. \A v : Tame(x, SetReg(x, RA(w), v))
  BY SetRegTame
<1>5. \A mem, io : Keeps(x, [x EXCEPT !.mem = mem, !.io = io])
  BY StoreMachine DEF Keeps
<1>6. Tame(x, stored)
  BY <1>5, KeepsTame
<1>7. /\ in.e # "none" => Tame(x, Error(x, in.e, w, fa(in.e)))
      /\ out.e # "none" => Tame(x, Error(x, out.e, w, fa(out.e)))
  <2> HIDE DEF in, out
  <2> QED BY <1>1, <1>2, ErrorTame DEF Errors
<1>8. CASE access[1] = "address"
  <2>1. LoadStore(x, w) = SetReg(x, RA(w), a)
    BY <1>8 DEF LoadStore
  <2> QED BY <2>1, <1>4
<1>9. CASE access[1] = "load"
  <2>1. LoadStore(x, w) = IF in.e # "none" THEN Error(x, in.e, w, fa(in.e))
                          ELSE SetReg(x, RA(w), IF access[3] THEN Ext(in.v, 8 * 2^k) ELSE in.v)
    BY <1>9 DEF LoadStore
  <2> QED BY <2>1, <1>4, <1>7
<1>10. CASE access[1] = "store"
  <2>1. LoadStore(x, w) = IF out.e # "none" THEN Error(x, out.e, w, fa(out.e)) ELSE stored
    BY <1>10 DEF LoadStore
  <2> QED BY <2>1, <1>6, <1>7
<1> QED BY <1>3, <1>8, <1>9, <1>10

LEMMA LsTame ==
    ASSUME NEW x, IsMachine(x), NEW w
    PROVE  Tame(x, Ls(x, w))
<1>1. Tame(x, Error(x, "EMLT", w, {}))
  BY ErrorTame DEF Errors
<1>2. FN(w) \in 4..7 => Tame(x, BitField(x, w))
  <2>1. \A v : Tame(x, SetReg(x, RA(w), v))
    BY SetRegTame
  <2> QED BY <1>1, <2>1 DEF BitField
<1>3. OPCODE(w) \in {2, 10} \/ FN(w) < 4 => Tame(x, LoadStore(x, w))
  BY LoadStoreTame
<1>4. FN(w) \in 0..7
  BY FnRange
<1> QED BY <1>1, <1>2, <1>3, <1>4 DEF Ls

LEMMA CallMachineKeeps ==
    ASSUME NEW x, IsMachine(x), NEW name, NEW w, NEW v
    PROVE  Keeps(x, Call(x, name, w, v))
<1>1. \A io : Keeps(x, [x EXCEPT !.io = io])
  BY CallMachine DEF Keeps
<1>2. PICK G, V : Typed(x, G, V) BY MachineTyped
<1>3. Call(x, name, w, v)
        = [x EXCEPT !.io = Append(x.io, [call |-> name, fn |-> FN(w), a |-> RA(w), v |-> v])]
  BY <1>2 DEF Call, Typed
<1> QED BY <1>1, <1>3

LEMMA Xmu7Tame ==
    ASSUME NEW x, IsMachine(x), NEW w
    PROVE  Tame(x, Xmu7(x, w))
<1>1. Tame(x, Error(x, "IPLT", w, {}))
  BY ErrorTame DEF Errors
<1>2. \A v : Tame(x, Call(x, "xmu", w, v))
  BY CallMachineKeeps, KeepsTame
<1> QED BY <1>1, <1>2 DEF Xmu7

LEMMA RestoreMachine ==
    ASSUME NEW x, IsMachine(x), NEW d
    PROVE  IsMachine(Restore(x, d))
<1> DEFINE swap == AE \in x.cr[APSQ]
           g == IF swap THEN [x.regs EXCEPT ![SP] = x.regs[X8], ![LR] = x.regs[X9]] ELSE x.regs
           c == [x.cr EXCEPT ![PSQ] = x.cr[APSQ], ![ASP] = IF swap THEN x.regs[SP] ELSE x.cr[ASP]]
           y == [x EXCEPT !.pc = Plus(x.cr[APC], d), !.cr = c, !.regs = g]
<1>1. PICK G, V : Typed(x, G, V) BY MachineTyped
<1> DEFINE W == V \cup G
<1>2. g \in [1..31 -> G]
  BY <1>1 DEF Typed, SP, LR, X8, X9
<1>3. c \in [0..47 -> W]
  BY <1>1 DEF Typed, PSQ, APSQ, ASP, SP
<1>4. Restore(x, d) = y
  BY <1>1 DEF Restore, Typed
<1> HIDE DEF g, c, W
<1>5. Typed(y, G, W)
  BY <1>1, <1>2, <1>3 DEF Typed
<1> QED BY <1>4, <1>5, TypedMachine, Zenon

LEMMA LsETame ==
    ASSUME NEW x, IsMachine(x), NEW w
    PROVE  Tame(x, LsE(x, w))
<1> DEFINE c == Reg(x, RC(w))
           d == ToInt(LS_DISP(w))
<1>1. \A e \in Errors : Tame(x, Error(x, e, w, {})) /\ IsMachine(Error(x, e, w, {}))
  BY ErrorTame DEF Tame
<1>2. CASE FN(w) = 0
  <2>1. LsE(x, w) = Error(x, "SVCT", w, {})
    BY <1>2 DEF LsE
  <2> QED BY <1>1, <2>1 DEF Errors
<1>3. CASE FN(w) # 0 /\ PL \in x.cr[PSQ]
  <2>1. LsE(x, w) = Error(x, "IPLT", w, {})
    BY <1>3 DEF LsE
  <2> QED BY <1>1, <2>1 DEF Errors
<1>4. CASE FN(w) # 0 /\ PL \notin x.cr[PSQ]
  <2>1. \A y, n, v : IsMachine(y) => IsMachine(SetReg(y, n, v))
    BY SetRegMachine
  <2>2. \A v : IsMachine(SetCr(x, d, v))
    BY CrMachine, PcMachine DEF SetCr
  <2>3. \A e : IsMachine(Restore(x, e))
    BY RestoreMachine
  <2>4. \A which : IsMachine(Interrupt(x, which, w, x.pc))
    BY InterruptMachine
  <2>5. \A v : IsMachine(Call(x, "host", w, v))
    BY CallMachineKeeps DEF Keeps
  <2>6. IsMachine(Error(x, "EMLT", w, {}))
    BY <1>1 DEF Errors
  <2>7. FN(w) \in 1..7
    BY <1>4, FnRange
  <2> HIDE DEF d
  <2>8. IsMachine(LsE(x, w))
    <3>1. CASE FN(w) \in {1, 2}
      BY <1>4, <3>1, <2>1 DEF LsE
    <3>2. CASE FN(w) = 3
      BY <1>4, <3>2, <2>1, <2>6 DEF LsE, d
    <3>3. CASE FN(w) = 4
      BY <1>4, <3>3, <2>2, <2>6 DEF LsE, d
    <3>4. CASE FN(w) = 5
      BY <1>4, <3>4, <2>1, <2>3 DEF LsE
    <3>5. CASE FN(w) = 6
      BY <1>4, <3>5, <2>4 DEF LsE
    <3>6. CASE FN(w) = 7
      BY <1>4, <3>6, <2>5 DEF LsE
    <3> QED BY <2>7, <3>1, <3>2, <3>3, <3>4, <3>5, <3>6
  <2> QED BY <1>4, <2>8 DEF Tame, AtUser
<1> QED BY <1>2, <1>3, <1>4

LEMMA OperationTame ==
    ASSUME NEW x, IsMachine(x), NEW w, OPCODE(w) \notin {8, 9, 13, 15}
    PROVE  Tame(x, Operation(x, w))
<1>1. OPCODE(w) \in {0, 1, 2, 3, 4, 5, 6, 7, 10, 11, 12, 14}
  BY FnRange
<1>2. /\ Tame(x, Rr0(x, w)) /\ Tame(x, Br1(x, w)) /\ Tame(x, Ls(x, w))
      /\ Tame(x, Im4(x, w)) /\ Tame(x, Im5(x, w)) /\ Tame(x, Im6(x, w))
      /\ Tame(x, Xmu7(x, w)) /\ Tame(x, RrC(x, w)) /\ Tame(x, LsE(x, w))
  BY Rr0Tame, Br1Tame, LsTame, ImTame, Xmu7Tame, RrCTame, LsETame
<1> QED BY <1>1, <1>2 DEF Operation

LEMMA ExecuteTame ==
    ASSUME NEW x, IsMachine(x)
    PROVE  Tame(x, Execute(x))
<1> DEFINE addr == Translate(x, x.pc)
           f == FetchWord(x.mem, addr)
           next == [x EXCEPT !.pc = Plus(x.pc, {2})]
<1>1. Keeps(x, next)
  BY PcMachine DEF Keeps
<1>2. f.e \in {"XALT", "BERR", "none"}
  BY BusErrors DEF FetchWord
<1>3. Execute(x) = IF f.e # "none" THEN Error(x, f.e, {}, addr)
                   ELSE IF LG \in x.cr[PSQ] THEN LongImmediate(next, f.v)
                   ELSE IF OPCODE(f.v) \in {8, 9, 13, 15} THEN Error(x, "EMLT", f.v, x.pc)
                   ELSE Operation(next, f.v)
  <2>1. PICK G, V : Typed(x, G, V) BY MachineTyped
  <2>2. [x EXCEPT !.pc = Plus(@, {2})] = next
    BY <2>1 DEF Typed
  <2> QED BY <2>2 DEF Execute
<1> HIDE DEF addr, f, next
<1>4. f.e # "none" => Tame(x, Error(x, f.e, {}, addr))
  BY <1>2, ErrorTame DEF Errors
<1>5. Tame(x, Error(x, "EMLT", f.v, x.pc))
  BY ErrorTame DEF Errors
<1>6. Tame(x, LongImmediate(next, f.v))
  BY <1>1, LongImmediateTame, TameAfter DEF Keeps
<1>7. OPCODE(f.v) \notin {8, 9, 13, 15} => Tame(x, Operation(next, f.v))
  BY <1>1, OperationTame, TameAfter DEF Keeps
<1> QED BY <1>3, <1>4, <1>5, <1>6, <1>7
-----------------------------------------------------------------------------
MachineInv == IsMachine(m)

LEMMA StepTame ==
    ASSUME IsMachine(m), [ExecNext]_execVars
    PROVE  IsMachine(m') /\ (m' # m => (AtUser(m) => Confined(m, m')))
<1>1. CASE Instruction
  BY <1>1, ExecuteTame DEF Instruction, Tame
<1>2. CASE TakeInterrupt
  BY <1>2, InterruptTame DEF TakeInterrupt, Tame
<1>3. CASE FetchFault
  BY <1>3, ErrorTame DEF FetchFault, Tame, Errors
<1>4. CASE DataFault
  <2>1. PICK w, fa : m' = Error([m EXCEPT !.pc = Plus(@, {2})], "PGNM", w, fa)
    BY <1>4 DEF DataFault
  <2>2. PICK G, V : Typed(m, G, V) BY MachineTyped
  <2>3. [m EXCEPT !.pc = Plus(@, {2})] = [m EXCEPT !.pc = Plus(m.pc, {2})]
    BY <2>2 DEF Typed
  <2>4. Keeps(m, [m EXCEPT !.pc = Plus(m.pc, {2})])
    BY PcMachine DEF Keeps
  <2>5. \A z : IsMachine(z) => Tame(z, Error(z, "PGNM", w, fa))
    BY ErrorTame DEF Errors
  <2> DEFINE next == [m EXCEPT !.pc = Plus(m.pc, {2})]
  <2> HIDE DEF next
  <2>9. Keeps(m, next)
    BY <2>4, Zenon DEF next
  <2>6. Tame(next, Error(next, "PGNM", w, fa))
    BY <2>5, <2>9, Zenon DEF Keeps
  <2>7. Tame(m, Error(next, "PGNM", w, fa))
    BY <2>9, <2>6, TameAfter
  <2>8. m' = Error(next, "PGNM", w, fa)
    BY <2>1, <2>3, Zenon DEF next
  <2> QED BY <2>7, <2>8 DEF Tame
<1>5. CASE UNCHANGED execVars
  BY <1>5 DEF execVars
<1> QED BY <1>1, <1>2, <1>3, <1>4, <1>5 DEF ExecNext

(* A program without privilege touches no control register, and gains       *)
(* privilege only by entering a handler where CR_IA says (risc2.c 762-856,  *)
(* risc1.c 61-75): for every program, every handler and every memory.       *)
THEOREM ProgramsConfined == ExecSpec => UserConfined
<1>1. ExecInit => MachineInv
  BY StartsAssumption DEF ExecInit, MachineInv
<1>2. MachineInv /\ [ExecNext]_execVars => MachineInv'
  BY StepTame DEF MachineInv
<1>3. MachineInv /\ [ExecNext]_execVars => [UserStep]_m
  BY StepTame DEF MachineInv, UserStep
<1> QED BY <1>1, <1>2, <1>3, PTL DEF ExecSpec, UserConfined
-----------------------------------------------------------------------------
(* Words: an instruction forward and one back.                              *)
LEMMA Least ==
    ASSUME NEW T, T \subseteq Nat, T # {}
    PROVE  \E x \in T : \A y \in T : x <= y
<1> DEFINE R == OpToRel(<, Nat)
<1>1. \A x, y \in Nat : y < x => <<y, x>> \in R
  BY DEF OpToRel
<1>2. IsWellFoundedOn(R, Nat)
  BY NatLessThanWellFounded
<1> HIDE DEF R
<1>3. PICK x \in T : \A y \in T : ~ (<<y, x>> \in R)
  BY <1>2, WFMin
<1>4. \A y \in T : ~ (y < x)
  BY <1>1, <1>3, Zenon
<1>5. \A y \in T : x <= y
  BY <1>4
<1> QED BY <1>5

\* Addition of 4, bit by bit: a carry from bit 2 runs over ones.
Run(x, b) == \A c \in 2..(b - 1) : c \in x

LEMMA CarryOfFour ==
    ASSUME NEW x, NEW b \in Bits
    PROVE  Carry(x, {2}, b) <=> b > 2 /\ Run(x, b)
<1>1. Carry(x, {2}, b) <=> 2 \in x /\ 2 < b /\ 3..(b - 1) \subseteq x \cup {2}
  BY DEF Carry
<1>2. 2 < b => ((2 \in x /\ 3..(b - 1) \subseteq x \cup {2}) <=> Run(x, b))
  BY DEF Bits, Run
<1> QED BY <1>1, <1>2 DEF Bits

LEMMA SumBit ==
    ASSUME NEW x, NEW y, NEW b \in Bits
    PROVE  b \in Plus(x, y) <=> ~ ((b \in x <=> b \in y) <=> ~Carry(x, y, b))
<1>1. b \in 0..(64 - 1)
  BY DEF Bits
<1>2. ((b \in x) # (b \in y)) <=> ~ (b \in x <=> b \in y)
  OBVIOUS
<1>3. ((b \in x) # (b \in y)) \in BOOLEAN /\ Carry(x, y, b) \in BOOLEAN
  BY DEF Carry
<1>4. b \in PlusIn(64, x, y) <=> (((b \in x) # (b \in y)) # Carry(x, y, b))
  BY <1>1, Zenon DEF PlusIn
<1>5. (((b \in x) # (b \in y)) # Carry(x, y, b))
        <=> ~ (((b \in x) # (b \in y)) <=> Carry(x, y, b))
  BY <1>3
<1>6. b \in Plus(x, y) <=> ~ (((b \in x) # (b \in y)) <=> Carry(x, y, b))
  BY <1>4, <1>5, Zenon DEF Plus
<1> QED BY <1>2, <1>6, Zenon

LEMMA SumOfFour ==
    ASSUME NEW x, NEW b \in Bits
    PROVE  /\ b < 2 => (b \in Plus(x, {2}) <=> b \in x)
           /\ b = 2 => (b \in Plus(x, {2}) <=> b \notin x)
           /\ b > 2 => (b \in Plus(x, {2}) <=> ~ (b \in x <=> Run(x, b)))
<1>1. b \in Plus(x, {2}) <=> ~ ((b \in x <=> b \in {2}) <=> ~Carry(x, {2}, b))
  BY SumBit
<1>2. Carry(x, {2}, b) <=> b > 2 /\ Run(x, b)
  BY CarryOfFour
<1> HIDE DEF Run
<1> QED BY <1>1, <1>2 DEF Bits

\* Subtraction of 4: a borrow from bit 2 runs over zeroes.
Zeros(y, b) == \A c \in 2..(b - 1) : c \notin y

LEMMA MinusFour == Neg({2}) = 2..63
<1>1. \A b \in Bits : b \in Neg({2}) <=> b \in 2..63
  <2> TAKE b \in Bits
  <2>1. b \in Plus(Not({2}), {0}) <=> ~ ((b \in Not({2}) <=> b \in {0}) <=> ~Carry(Not({2}), {0}, b))
    BY SumBit
  <2>2. b \in Not({2}) <=> b # 2
    BY DEF Not, Ones
  <2>3. Carry(Not({2}), {0}, b) <=> b \in 1..2
    <3>1. Carry(Not({2}), {0}, b) <=> 0 < b /\ 1..(b - 1) \subseteq Not({2}) \cup {0}
      BY DEF Carry, Not, Ones, Bits
    <3>2. 1..(b - 1) \subseteq Not({2}) \cup {0} <=> b <= 2
      BY DEF Not, Ones, Bits
    <3> QED BY <3>1, <3>2 DEF Bits
  <2> QED BY <2>1, <2>2, <2>3 DEF Neg, Bits
<1>2. Neg({2}) \subseteq Bits
  BY DEF Neg, Plus, PlusIn, Bits
<1> QED BY <1>1, <1>2 DEF Bits

LEMMA DifferenceOfFour ==
    ASSUME NEW y, NEW b \in Bits
    PROVE  /\ b < 2 => (b \in Minus(y, {2}) <=> b \in y)
           /\ b >= 2 => (b \in Minus(y, {2}) <=> ~ (b \in y <=> Zeros(y, b)))
<1>1. b \in Plus(y, 2..63) <=> ~ ((b \in y <=> b \in 2..63) <=> ~Carry(y, 2..63, b))
  BY SumBit
<1>2. Carry(y, 2..63, b) <=> ~Zeros(y, b)
  BY DEF Carry, Zeros, Bits
<1>3. b < 2 => Zeros(y, b)
  BY DEF Zeros, Bits
<1> HIDE DEF Zeros
<1>4. Minus(y, {2}) = Plus(y, 2..63)
  BY MinusFour DEF Minus
<1> QED BY <1>1, <1>2, <1>3, <1>4 DEF Bits

LEMMA RunsMeet ==
    ASSUME NEW x, NEW b \in Bits, b > 2
    PROVE  Zeros(Plus(x, {2}), b) <=> Run(x, b)
<1> DEFINE y == Plus(x, {2})
<1>1. ASSUME Run(x, b) PROVE Zeros(y, b)
  <2>1. ASSUME NEW c \in 2..(b - 1) PROVE c \notin y
    <3>1. c \in Bits /\ c \in x /\ Run(x, c)
      BY <1>1 DEF Run, Bits
    <3> QED BY <3>1, SumOfFour
  <2> QED BY <2>1 DEF Zeros
<1>2. ASSUME Zeros(y, b), ~Run(x, b) PROVE FALSE
  <2> DEFINE T == {c \in 2..(b - 1) : c \notin x}
  <2>1. T \subseteq Nat /\ T # {}
    BY <1>2 DEF Run, Bits
  <2>2. PICK c \in T : \A d \in T : c <= d
    BY <2>1, Least
  <2>3. c \in Bits /\ c \in 2..(b - 1) /\ c \notin x /\ c \notin y
    BY <1>2, <2>2 DEF Zeros, Bits
  <2>4. Run(x, c)
    BY <2>2, <2>3 DEF Run, Bits
  <2> QED BY <2>3, <2>4, SumOfFour
<1> QED BY <1>1, <1>2, Zenon

LEMMA BackAndForth ==
    ASSUME NEW x \in Word64
    PROVE  Minus(Plus(x, {2}), {2}) = x
<1> DEFINE y == Plus(x, {2})
           z == Minus(y, {2})
<1>1. ASSUME NEW b \in Bits PROVE b \in z <=> b \in x
  <2>1. CASE b < 2
    BY <2>1, SumOfFour, DifferenceOfFour
  <2>2. CASE b = 2
    <3>1. Zeros(y, b)
      BY <2>2 DEF Zeros
    <3> QED BY <2>2, <3>1, SumOfFour, DifferenceOfFour
  <2>3. CASE b > 2
    <3>1. b \in y <=> ~ (b \in x <=> Run(x, b))
      BY <2>3, SumOfFour
    <3>2. b \in z <=> ~ (b \in y <=> Zeros(y, b))
      BY <2>3, DifferenceOfFour DEF Bits
    <3>3. Zeros(y, b) <=> Run(x, b)
      BY <2>3, RunsMeet
    <3> QED BY <3>1, <3>2, <3>3, Zenon
  <2> QED BY <2>1, <2>2, <2>3 DEF Bits
<1>2. z \subseteq Bits
  BY DEF Minus, Plus, PlusIn, Bits
<1> QED BY <1>1, <1>2 DEF Word64
-----------------------------------------------------------------------------
(* What an entry leaves of the program.                                     *)

LEMMA InterruptRegs ==
    ASSUME NEW x, IsMachine(x), NEW which, NEW fi, NEW fa
    PROVE  Interrupt(x, which, fi, fa).regs
             = IF AE \notin x.cr[PSQ] THEN x.regs
               ELSE [x.regs EXCEPT ![X8] = x.regs[SP], ![X9] = x.regs[LR], ![SP] = x.cr[ASP]]
<1>1. PICK G, V : Typed(x, G, V) BY MachineTyped
<1> QED BY <1>1 DEF Interrupt, Typed

LEMMA InterruptControl ==
    ASSUME NEW x, IsMachine(x), NEW which, NEW fi, NEW fa
    PROVE  /\ Interrupt(x, which, fi, fa).io = x.io
           /\ \A r \in (0..47) \ {PSQ, APSQ, APC, FI, FA} :
                Interrupt(x, which, fi, fa).cr[r] = x.cr[r]
<1>1. PICK G, V : Typed(x, G, V) BY MachineTyped
<1> QED BY <1>1 DEF Interrupt, Typed, PSQ, APSQ, APC, FI, FA

ProgramOf(x, p) == [regs |-> [r \in Ours(x.cr[PSQ]) |-> x.regs[r]], pc |-> p,
                    psq |-> x.cr[PSQ], objects |-> ObjectsOf(x), mem |-> Shared(x.mem)]

LEMMA EntrySeen ==
    ASSUME NEW x, IsMachine(x), AtUser(x), NEW which, NEW fi, NEW fa, NEW again
    PROVE  Seen(Interrupt(x, which, fi, fa), again)
             = ProgramOf(x, IF again THEN Minus(x.pc, {2}) ELSE x.pc)
<1> DEFINE y == Interrupt(x, which, fi, fa)
           exchanged == AE \in x.cr[PSQ]
<1>0. /\ y.cr[APC] = x.pc /\ y.cr[APSQ] = x.cr[PSQ]
      /\ y.cr[PSQ] = x.cr[PSQ] \ 0..4 /\ y.mem = x.mem
  BY InterruptMachine
<1>1. y.regs = IF ~exchanged THEN x.regs
               ELSE [x.regs EXCEPT ![X8] = x.regs[SP], ![X9] = x.regs[LR], ![SP] = x.cr[ASP]]
  BY InterruptRegs
<1>2. PICK G, V : Typed(x, G, V) BY MachineTyped
<1> HIDE DEF y
<1>3. ~AtUser(y)
  BY <1>0 DEF AtUser, PL
<1>4. ASSUME NEW r \in Ours(x.cr[PSQ])
      PROVE  x.regs[r] = IF exchanged /\ r = SP THEN y.regs[X8]
                         ELSE IF exchanged /\ r = LR THEN y.regs[X9] ELSE y.regs[r]
  BY <1>1, <1>2 DEF Ours, Typed, X8, X9, SP, LR
<1>5. [r \in Ours(x.cr[PSQ]) |-> x.regs[r]]
        = [r \in Ours(x.cr[PSQ]) |-> IF exchanged /\ r = SP THEN y.regs[X8]
                                     ELSE IF exchanged /\ r = LR THEN y.regs[X9] ELSE y.regs[r]]
  BY <1>4
<1>7. ObjectsOf(y) = ObjectsOf(x)
  <2>1. \A r \in ObRegisters : y.cr[r] = x.cr[r]
    BY InterruptControl DEF y, ObRegisters, OB0, PSQ, APSQ, APC, FI, FA
  <2> QED BY <2>1 DEF ObjectsOf
<1>6. Seen(y, again) = [regs |-> [r \in Ours(x.cr[PSQ]) |-> x.regs[r]],
                        pc |-> IF again THEN Minus(x.pc, {2}) ELSE x.pc,
                        psq |-> x.cr[PSQ], objects |-> ObjectsOf(x), mem |-> Shared(x.mem)]
  BY <1>0, <1>3, <1>5, <1>7 DEF Seen
<1> QED BY <1>6 DEF y, ProgramOf

RetryInv == IsMachine(m) /\ retry \in BOOLEAN /\ (AtUser(m) => ~retry /\ last = m)
Unseen ==
    AtUser(m) /\ m.pc \in Word64 /\ (TakeInterrupt \/ FetchFault \/ DataFault) => View' = View

LEMMA EntryLeavesUser ==
    ASSUME NEW x, IsMachine(x), NEW e, NEW fi, NEW fa
    PROVE  ~AtUser(Error(x, e, fi, fa)) /\ ~AtUser(Interrupt(x, e, fi, fa))
<1>1. ASSUME NEW n, NEW f, NEW a
      PROVE  ~AtUser(Interrupt(x, n, f, a))
  <2>1. Interrupt(x, n, f, a).cr[PSQ] = x.cr[PSQ] \ 0..4
    BY InterruptMachine
  <2> QED BY <2>1 DEF AtUser, PL
<1> QED BY <1>1 DEF Error

LEMMA RetryKept ==
    ASSUME RetryInv, [ExecNext]_execVars
    PROVE  RetryInv'
<1>1. IsMachine(m)'
  BY StepTame DEF RetryInv
<1>2. CASE Instruction
  BY <1>1, <1>2 DEF Instruction, Remembered, RetryInv
<1>3. CASE TakeInterrupt
  BY <1>1, <1>3, EntryLeavesUser DEF TakeInterrupt, RetryInv
<1>4. CASE FetchFault
  BY <1>1, <1>4, EntryLeavesUser DEF FetchFault, RetryInv
<1>5. CASE DataFault
  <2>1. PICK w, p, fa : m' = Error([m EXCEPT !.pc = p], "PGNM", w, fa)
    <3>1. PICK G, V : Typed(m, G, V) BY MachineTyped DEF RetryInv
    <3>2. [m EXCEPT !.pc = Plus(@, {2})] = [m EXCEPT !.pc = Plus(m.pc, {2})]
      BY <3>1 DEF Typed
    <3> QED BY <1>5, <3>2 DEF DataFault
  <2>2. IsMachine([m EXCEPT !.pc = p])
    BY PcMachine DEF RetryInv
  <2>3. ~AtUser(m')
    BY <2>1, <2>2, EntryLeavesUser
  <2> QED BY <1>1, <1>5, <2>3 DEF DataFault, RetryInv
<1>6. CASE UNCHANGED execVars
  BY <1>6 DEF execVars, RetryInv, AtUser
<1> QED BY <1>2, <1>3, <1>4, <1>5, <1>6 DEF ExecNext

LEMMA StepUnseen ==
    ASSUME RetryInv, AtUser(m), m.pc \in Word64, TakeInterrupt \/ FetchFault \/ DataFault
    PROVE  View' = View
<1>1. retry = FALSE /\ View = ProgramOf(m, m.pc)
  BY DEF RetryInv, View, Seen, ProgramOf
<1>0. last' = m'
  BY DEF TakeInterrupt, FetchFault, DataFault, Remembered
<1>8. IsMachine(m)
  BY DEF RetryInv
<1>2. ASSUME NEW n, NEW f, NEW a
      PROVE  Seen(Interrupt(m, n, f, a), FALSE) = ProgramOf(m, m.pc)
  <2>1. Seen(Interrupt(m, n, f, a), FALSE)
          = ProgramOf(m, IF FALSE THEN Minus(m.pc, {2}) ELSE m.pc)
    BY <1>8, EntrySeen, Zenon
  <2> QED BY <2>1
<1>3. CASE TakeInterrupt
  <2>1. retry' = FALSE /\ \E n : m' = Interrupt(m, n, {}, {})
    BY <1>1, <1>3 DEF TakeInterrupt
  <2> QED BY <1>0, <1>1, <1>2, <2>1 DEF View
<1>4. CASE FetchFault
  <2>1. retry' = FALSE /\ m' = Error(m, "PGNM", {}, Translate(m, m.pc))
    BY <1>1, <1>4 DEF FetchFault
  <2>2. Seen(m', FALSE) = ProgramOf(m, m.pc)
    BY <1>2, <2>1 DEF Error
  <2> QED BY <1>0, <1>1, <2>1, <2>2 DEF View
<1>5. CASE DataFault
  <2> DEFINE next == [m EXCEPT !.pc = Plus(m.pc, {2})]
  <2>1. PICK G, V : Typed(m, G, V) BY MachineTyped DEF RetryInv
  <2>2. [m EXCEPT !.pc = Plus(@, {2})] = next
    BY <2>1 DEF Typed
  <2>3. retry' = TRUE /\ \E w, a : m' = Error(next, "PGNM", w, a)
    BY <1>5, <2>2 DEF DataFault
  <2>4. /\ IsMachine(next) /\ next.cr = m.cr /\ next.regs = m.regs /\ next.mem = m.mem
        /\ next.pc = Plus(m.pc, {2})
    BY PcMachine DEF RetryInv
  <2> HIDE DEF next
  <2>5. AtUser(next)
    BY <2>4 DEF AtUser
  <2>6. ASSUME NEW n, NEW f, NEW a
        PROVE  Seen(Interrupt(next, n, f, a), TRUE) = ProgramOf(m, m.pc)
    <3>1. Seen(Interrupt(next, n, f, a), TRUE)
            = ProgramOf(next, IF TRUE THEN Minus(next.pc, {2}) ELSE next.pc)
      BY <2>4, <2>5, EntrySeen, Zenon
    <3>2. (IF TRUE THEN Minus(next.pc, {2}) ELSE next.pc) = m.pc
      BY <2>4, BackAndForth
    <3>3. ProgramOf(next, m.pc) = ProgramOf(m, m.pc)
      BY <2>4 DEF ProgramOf, ObjectsOf
    <3> QED BY <3>1, <3>2, <3>3
  <2>7. Seen(m', TRUE) = ProgramOf(m, m.pc)
    BY <2>3, <2>6 DEF Error
  <2> QED BY <1>0, <1>1, <2>3, <2>7 DEF View
<1> QED BY <1>3, <1>4, <1>5

(* What an interrupt or a page fault puts away is the program, whole: its   *)
(* registers, its place, its status and its memory, with and without the    *)
(* exchange of AE, before a fetch and in a load or store that is repeated.  *)
(* (risc1.c 61-86, 187-212; risc2.c 298-473).  So ProgramRuns can only fail *)
(* in what handlers do, and in the instructions.                            *)
THEOREM EntriesHideNothing == ExecSpec => [][Unseen]_execVars
<1>1. ExecInit => RetryInv
  BY StartsAssumption DEF ExecInit, RetryInv
<1>2. RetryInv /\ [ExecNext]_execVars => RetryInv'
  BY RetryKept
<1>3. RetryInv /\ [ExecNext]_execVars => [Unseen]_execVars
  BY StepUnseen DEF Unseen
<1> QED BY <1>1, <1>2, <1>3, PTL DEF ExecSpec
-----------------------------------------------------------------------------
LEMMA SumOfNothing ==
    ASSUME NEW x \in Word64
    PROVE  Plus(x, {}) = x
<1>1. ASSUME NEW b \in Bits PROVE b \in Plus(x, {}) <=> b \in x
  <2>1. b \in Plus(x, {}) <=> ~ ((b \in x <=> b \in {}) <=> ~Carry(x, {}, b))
    BY SumBit
  <2>2. ~Carry(x, {}, b)
    BY DEF Carry
  <2> QED BY <2>1, <2>2
<1>2. Plus(x, {}) \subseteq Bits
  BY DEF Plus, PlusIn, Bits
<1> QED BY <1>1, <1>2 DEF Word64

LEMMA RestoreParts ==
    ASSUME NEW x, IsMachine(x), NEW d
    PROVE  LET y == Restore(x, d) IN
           /\ y.pc = Plus(x.cr[APC], d) /\ y.mem = x.mem /\ y.io = x.io
           /\ y.cr[PSQ] = x.cr[APSQ]
           /\ y.cr[ASP] = IF AE \in x.cr[APSQ] THEN x.regs[SP] ELSE x.cr[ASP]
           /\ \A r \in (0..47) \ {PSQ, ASP} : y.cr[r] = x.cr[r]
           /\ AE \notin x.cr[APSQ] => y.regs = x.regs
           /\ AE \in x.cr[APSQ] =>
                /\ y.regs[SP] = x.regs[X8] /\ y.regs[LR] = x.regs[X9]
                /\ \A r \in (1..31) \ {SP, LR} : y.regs[r] = x.regs[r]
<1>1. PICK G, V : Typed(x, G, V) BY MachineTyped
<1>2. /\ Restore(x, d).pc = Plus(x.cr[APC], d)
      /\ Restore(x, d).mem = x.mem /\ Restore(x, d).io = x.io
  BY <1>1 DEF Restore, Typed
<1>3. /\ Restore(x, d).cr[PSQ] = x.cr[APSQ]
      /\ Restore(x, d).cr[ASP] = IF AE \in x.cr[APSQ] THEN x.regs[SP] ELSE x.cr[ASP]
      /\ \A r \in (0..47) \ {PSQ, ASP} : Restore(x, d).cr[r] = x.cr[r]
  BY <1>1 DEF Restore, Typed, PSQ, ASP
<1>4. AE \notin x.cr[APSQ] => Restore(x, d).regs = x.regs
  BY <1>1 DEF Restore, Typed
<1>5. AE \in x.cr[APSQ] =>
        /\ Restore(x, d).regs[SP] = x.regs[X8] /\ Restore(x, d).regs[LR] = x.regs[X9]
        /\ \A r \in (1..31) \ {SP, LR} : Restore(x, d).regs[r] = x.regs[r]
  BY <1>1 DEF Restore, Typed, SP, LR, X8, X9
<1> QED BY <1>2, <1>3, <1>4, <1>5

(* A return (rex) right after an entry gives back the machine, but for the  *)
(* registers that the entry reports in and, with AE, X8 and X9: the stack   *)
(* pointers of the program and of the handlers, which the entry exchanges,  *)
(* are both where they were (intr_internal and intr_restore_disp,           *)
(* risc1.c 61-86).                                                          *)
THEOREM ReturnGivesBack ==
    ASSUME NEW x, IsMachine(x), x.pc \in Word64, NEW which, NEW fi, NEW fa
    PROVE  LET y == Restore(Interrupt(x, which, fi, fa), {}) IN
           /\ y.pc = x.pc /\ y.mem = x.mem /\ y.io = x.io
           /\ \A r \in (0..47) \ {APC, APSQ, FI, FA} : y.cr[r] = x.cr[r]
           /\ \A r \in 1..31 : AE \notin x.cr[PSQ] \/ r \notin {X8, X9} => y.regs[r] = x.regs[r]
<1> DEFINE z == Interrupt(x, which, fi, fa)
           y == Restore(z, {})
<1>1. IsMachine(z) /\ z.cr[APC] = x.pc /\ z.cr[APSQ] = x.cr[PSQ] /\ z.mem = x.mem
  BY InterruptMachine
<1>2. z.io = x.io /\ \A r \in (0..47) \ {PSQ, APSQ, APC, FI, FA} : z.cr[r] = x.cr[r]
  BY InterruptControl
<1>3. z.regs = IF AE \notin x.cr[PSQ] THEN x.regs
               ELSE [x.regs EXCEPT ![X8] = x.regs[SP], ![X9] = x.regs[LR], ![SP] = x.cr[ASP]]
  BY InterruptRegs
<1> HIDE DEF z
<1>4. /\ y.pc = Plus(z.cr[APC], {}) /\ y.mem = z.mem /\ y.io = z.io
      /\ y.cr[PSQ] = z.cr[APSQ]
      /\ y.cr[ASP] = IF AE \in z.cr[APSQ] THEN z.regs[SP] ELSE z.cr[ASP]
      /\ \A r \in (0..47) \ {PSQ, ASP} : y.cr[r] = z.cr[r]
      /\ AE \notin z.cr[APSQ] => y.regs = z.regs
      /\ AE \in z.cr[APSQ] =>
           /\ y.regs[SP] = z.regs[X8] /\ y.regs[LR] = z.regs[X9]
           /\ \A r \in (1..31) \ {SP, LR} : y.regs[r] = z.regs[r]
  BY <1>1, RestoreParts
<1> HIDE DEF y
<1>5. y.pc = x.pc /\ y.mem = x.mem /\ y.io = x.io
  BY <1>1, <1>2, <1>4, SumOfNothing
<1>6. PICK G, V : Typed(x, G, V) BY MachineTyped
<1>7. AE \in x.cr[PSQ] => /\ z.regs[SP] = x.cr[ASP] /\ z.regs[X8] = x.regs[SP]
                          /\ z.regs[X9] = x.regs[LR]
                          /\ \A r \in (1..31) \ {X8, X9, SP} : z.regs[r] = x.regs[r]
  BY <1>3, <1>6 DEF Typed, X8, X9, SP, LR
<1>8. \A r \in (0..47) \ {APC, APSQ, FI, FA} : y.cr[r] = x.cr[r]
  BY <1>1, <1>2, <1>4, <1>7 DEF PSQ, APSQ, APC, FI, FA, ASP
<1>9. \A r \in 1..31 : AE \notin x.cr[PSQ] \/ r \notin {X8, X9} => y.regs[r] = x.regs[r]
  <2>1. CASE AE \notin x.cr[PSQ]
    BY <2>1, <1>1, <1>3, <1>4
  <2>2. CASE AE \in x.cr[PSQ]
    BY <2>2, <1>1, <1>4, <1>7 DEF X8, X9, SP, LR
  <2> QED BY <2>1, <2>2
<1> QED BY <1>5, <1>8, <1>9 DEF y, z
-----------------------------------------------------------------------------
(* The numbers of words.                                                    *)
\* A set of bits that is closed upward, or downward.
LEMMA Upward ==
    ASSUME NEW N \in Nat, NEW T, 0 \in T, \A b \in 0..N : b < N /\ b \in T => b + 1 \in T
    PROVE  \A b \in 0..N : b \in T
<1> SUFFICES ASSUME NEW c \in 0..N, c \notin T PROVE FALSE
  OBVIOUS
<1> DEFINE S == {b \in 0..N : b \notin T}
<1>1. PICK b \in S : \A d \in S : b <= d
  <2>1. S \subseteq Nat /\ S # {}
    OBVIOUS
  <2> QED BY <2>1, Least
<1>2. b # 0 /\ b - 1 \in 0..N /\ b - 1 < N /\ b - 1 \notin S
  BY <1>1
<1>3. b - 1 \in T
  BY <1>2
<1> QED BY <1>1, <1>2, <1>3

LEMMA Downward ==
    ASSUME NEW N \in Nat, NEW T, N \in T, \A b \in 0..N : b < N /\ b + 1 \in T => b \in T
    PROVE  \A b \in 0..N : b \in T
<1> DEFINE S == {c \in 0..N : N - c \in T}
<1>1. 0 \in S
  OBVIOUS
<1>2. ASSUME NEW c \in 0..N, c < N, c \in S PROVE c + 1 \in S
  <2> DEFINE b == N - c - 1
  <2>1. b \in 0..N /\ b < N /\ b + 1 = N - c /\ N - (c + 1) = b
    BY <1>2
  <2>2. b + 1 \in T
    BY <1>2, <2>1
  <2>3. b \in T
    BY <2>1, <2>2
  <2> QED BY <1>2, <2>1, <2>3
<1> HIDE DEF S
<1>3. \A c \in 0..N : c \in S
  BY <1>1, <1>2, Upward
<1>4. ASSUME NEW b \in 0..N PROVE b \in T
  <2>1. N - b \in S
    BY <1>3
  <2> QED BY <2>1 DEF S
<1> QED BY <1>4

LEMMA DoublesDef ==
    ASSUME NEW x
    PROVE  /\ Doubles(x)[64] = 0
           /\ \A b \in 0..63 : Doubles(x)[b] = Double(x, b, Doubles(x)[b + 1])
<1> DEFINE Is(f, k) == f = [b \in k..64 |->
                               IF x \cap b..63 = {} THEN 0 ELSE Double(x, b, f[b + 1])]
           T == {k \in 0..64 : \E f : Is(f, k)}
<1>1. 64 \in T
  <2> DEFINE g == [b \in 64..64 |-> 0]
  <2>1. Is(g, 64)
    <3>1. \A b \in 64..64 : x \cap b..63 = {}
      OBVIOUS
    <3> QED BY <3>1
  <2> HIDE DEF Is, g
  <2>2. \E f2 : Is(f2, 64)
    BY <2>1
  <2> QED BY <2>2
<1>2. ASSUME NEW k \in 0..64, k < 64, k + 1 \in T PROVE k \in T
  <2>1. PICK f : Is(f, k + 1)
    BY <1>2
  <2> DEFINE g == [b \in k..64 |->
                     IF b = k THEN (IF x \cap b..63 = {} THEN 0 ELSE Double(x, k, f[k + 1]))
                     ELSE f[b]]
  <2>2. \A b \in (k + 1)..64 : f[b] = IF x \cap b..63 = {} THEN 0 ELSE Double(x, b, f[b + 1])
    BY <2>1
  <2>3. ASSUME NEW b \in k..64
        PROVE  g[b] = IF x \cap b..63 = {} THEN 0 ELSE Double(x, b, g[b + 1])
    <3>1. CASE b = k
      BY <3>1
    <3>2. CASE b # k /\ b # 64
      <4>1. g[b + 1] = f[b + 1] /\ g[b] = f[b]
        BY <3>2
      <4> QED BY <2>2, <3>2, <4>1
    <3>3. CASE b = 64 /\ b # k
      <4>1. x \cap b..63 = {}
        BY <3>3
      <4>2. g[b] = f[b]
        BY <3>3
      <4> HIDE DEF g
      <4> QED BY <2>2, <3>3, <4>1, <4>2
    <3> QED BY <3>1, <3>2, <3>3
  <2>4. Is(g, k)
    BY <2>3
  <2> HIDE DEF Is, g
  <2>5. \E f2 : Is(f2, k)
    BY <2>4
  <2> QED BY <2>5
<1> HIDE DEF T
<1>3. \A b \in 0..64 : b \in T
  BY <1>1, <1>2, Downward
<1>4. Doubles(x) = CHOOSE f : Is(f, 0)
  BY DEF Doubles
<1>5. Is(Doubles(x), 0)
  <2>1. 0 \in T
    BY <1>3
  <2> HIDE DEF Is
  <2>2. \E f : Is(f, 0)
    BY <2>1 DEF T
  <2> QED BY <1>4, <2>2
<1> DEFINE d == Doubles(x)
<1>6. \A b \in 0..64 : d[b] = IF x \cap b..63 = {} THEN 0 ELSE Double(x, b, d[b + 1])
  BY <1>5
<1> HIDE DEF d
<1>7. d[64] = 0
  <2>1. x \cap 64..63 = {}
    OBVIOUS
  <2> QED BY <1>6, <2>1
<1>8. ASSUME NEW b \in 0..63 PROVE d[b] = Double(x, b, d[b + 1])
  <2>1. CASE x \cap b..63 = {}
    <3>1. b \notin x /\ x \cap (b + 1)..63 = {}
      BY <2>1
    <3>2. d[b] = 0 /\ d[b + 1] = 0
      <4>1. b \in 0..64 /\ b + 1 \in 0..64
        OBVIOUS
      <4> QED BY <1>6, <2>1, <3>1, <4>1
    <3> QED BY <3>1, <3>2 DEF Double
  <2>2. CASE x \cap b..63 # {}
    BY <1>6, <2>2
  <2> QED BY <2>1, <2>2
<1> QED BY <1>7, <1>8 DEF d

One(x, b) == IF b \in x THEN 1 ELSE 0
LEMMA DoublesNat ==
    ASSUME NEW x
    PROVE  /\ \A b \in 0..64 : Doubles(x)[b] \in Nat
           /\ \A b \in 0..63 : Doubles(x)[b] = 2 * Doubles(x)[b + 1] + One(x, b)
<1> DEFINE d(b) == Doubles(x)[b]
           T == {b \in 0..64 : d(b) \in Nat}
<1>1. d(64) = 0 /\ \A b \in 0..63 : d(b) = Double(x, b, d(b + 1))
  BY DoublesDef
<1>2. \A b \in 0..63 : d(b) = 2 * d(b + 1) + One(x, b)
  BY <1>1 DEF Double, One
<1> HIDE DEF d
<1>3. ASSUME NEW b \in 0..63, d(b + 1) \in Nat PROVE d(b) \in Nat
  <2>1. One(x, b) \in {0, 1}
    BY DEF One
  <2> QED BY <1>2, <1>3, <2>1
<1>4. \A b \in 0..64 : b \in T
  <2>1. \A b \in 0..64 : b < 64 /\ b + 1 \in T => b \in T
    <3> SUFFICES ASSUME NEW b \in 0..64, b < 64, b + 1 \in T PROVE b \in T
      OBVIOUS
    <3>1. b \in 0..63 /\ d(b + 1) \in Nat
      OBVIOUS
    <3>2. d(b) \in Nat
      BY <1>3, <3>1
    <3> QED BY <3>2
  <2>2. 64 \in T
    BY <1>1
  <2> HIDE DEF T
  <2> QED BY <2>1, <2>2, Downward
<1>5. \A b \in 0..64 : d(b) \in Nat
  BY <1>4
<1> QED BY <1>2, <1>5 DEF d

LEMMA FiveBits ==
    ASSUME NEW x, x \subseteq 0..4
    PROVE  ToNat(x) \in 0..31 /\ (4 \notin x => ToNat(x) \in 0..15)
<1> DEFINE d(b) == Doubles(x)[b]
<1>1. d(64) = 0 /\ \A b \in 0..63 : d(b) = 2 * d(b + 1) + One(x, b)
  BY DoublesDef, DoublesNat
<1>2. ToNat(x) = d(0)
  BY DEF ToNat
<1>3. \A b : One(x, b) \in {0, 1}
  BY DEF One
<1>4. \A b \in 5..63 : One(x, b) = 0
  BY DEF One
<1> HIDE DEF d
<1>5. d(5) = 0
  <2> DEFINE T == {b \in 0..64 : b < 5 \/ d(b) = 0}
  <2>1. ASSUME NEW b \in 0..64, b < 64, b + 1 \in T PROVE b \in T
    <3>1. CASE b < 5
      BY <3>1
    <3>2. CASE b >= 5
      <4>1. b \in 0..63 /\ d(b + 1) = 0 /\ One(x, b) = 0
        BY <1>4, <2>1, <3>2
      <4>2. d(b) = 2 * 0 + 0
        BY <1>1, <4>1
      <4> QED BY <4>2
    <3> QED BY <3>1, <3>2
  <2>2. 64 \in T
    BY <1>1
  <2> HIDE DEF T
  <2>3. \A b \in 0..64 : b \in T
    BY <2>1, <2>2, Downward
  <2>4. 5 \in 0..64 /\ ~(5 < 5)
    OBVIOUS
  <2> QED BY <2>3, <2>4 DEF T
<1>6. \A b \in 0..63, k \in 1..64 : k = b + 1 => d(b) = 2 * d(k) + One(x, b)
  BY <1>1
<1>7. /\ d(0) = 2 * d(1) + One(x, 0) /\ d(1) = 2 * d(2) + One(x, 1)
      /\ d(2) = 2 * d(3) + One(x, 2) /\ d(3) = 2 * d(4) + One(x, 3)
      /\ d(4) = 2 * d(5) + One(x, 4)
  BY <1>6
<1>8. /\ One(x, 0) \in {0, 1} /\ One(x, 1) \in {0, 1} /\ One(x, 2) \in {0, 1}
      /\ One(x, 3) \in {0, 1} /\ One(x, 4) \in {0, 1}
  BY <1>3
<1>9. d(0) \in 0..31 /\ (One(x, 4) = 0 => d(0) \in 0..15)
  BY <1>5, <1>7, <1>8, SMT
<1>10. 4 \notin x => One(x, 4) = 0
  BY DEF One
<1> QED BY <1>2, <1>9, <1>10

LEMMA ToNatNat == ASSUME NEW x PROVE ToNat(x) \in Nat
BY DoublesNat DEF ToNat

\* The fields of an instruction that are numbers of registers.
LEMMA RegisterNumbers ==
    ASSUME NEW w
    PROVE  RA(w) \in 0..31 /\ RB(w) \in 0..31 /\ RC(w) \in 0..31
<1>1. ASSUME NEW p \in {0, 5, 23} PROVE Get(w, p, 5) \subseteq 0..4
  BY DEF Get
<1> QED BY <1>1, FiveBits DEF RA, RB, RC

LEMMA SumsAreWords == ASSUME NEW x, NEW y PROVE Plus(x, y) \in Word64 /\ Minus(x, y) \in Word64
BY DEF Minus, Plus, PlusIn, Word64, Bits
-----------------------------------------------------------------------------
(* The memory that the handlers leave to the program.                       *)
LEMMA SharedByte ==
    ASSUME NEW mem, NEW n, n \notin Private
    PROVE  MemByte(Shared(mem), n) = MemByte(mem, n)
BY DEF MemByte, Shared

LEMMA SharedRead ==
    ASSUME NEW mem, NEW n, NEW size, \A i \in 0..(size - 1) : n + i \notin Private
    PROVE  MemRead(Shared(mem), n, size) = MemRead(mem, n, size)
<1>1. \A i \in 0..(size - 1) : MemByte(Shared(mem), n + i) = MemByte(mem, n + i)
  BY SharedByte
<1> DEFINE B(y, i) == Left(MemByte(y, n + i), 8 * (size - 1 - i))
<1>2. \A i \in 0..(size - 1) : B(Shared(mem), i) = B(mem, i)
  BY <1>1
<1> HIDE DEF B
<1>3. {B(Shared(mem), i) : i \in 0..(size - 1)} = {B(mem, i) : i \in 0..(size - 1)}
  BY <1>2
<1> QED BY <1>3 DEF MemRead, B

LEMMA SharedWrite ==
    ASSUME NEW mem, NEW n, NEW size, NEW v, n..(n + size - 1) \cap Private = {}
    PROVE  Shared(MemWrite(mem, n, size, v)) = MemWrite(Shared(mem), n, size, v)
<1> DEFINE R == n..(n + size - 1)
           D == DOMAIN mem
           g(y) == [i \in DOMAIN y \cup R |-> IF i \in R THEN Get(v, 8 * (n + size - 1 - i), 8) ELSE y[i]]
<1>1. MemWrite(mem, n, size, v) = g(mem) /\ MemWrite(Shared(mem), n, size, v) = g(Shared(mem))
  BY DEF MemWrite
<1>2. R \cap Private = {}
  OBVIOUS
<1> DEFINE h(i) == Get(v, 8 * (n + size - 1 - i), 8)
<1> HIDE DEF R, h
<1>3. Shared(mem) = [i \in D \ Private |-> mem[i]]
  BY DEF Shared
<1>4. (D \cup R) \ Private = (D \ Private) \cup R
  BY <1>2
<1>5. Shared(g(mem)) = [i \in (D \cup R) \ Private |-> IF i \in R THEN h(i) ELSE mem[i]]
  BY DEF Shared, h
<1>6. g(Shared(mem)) = [i \in (D \ Private) \cup R |-> IF i \in R THEN h(i) ELSE mem[i]]
  BY <1>3 DEF h
<1> QED BY <1>1, <1>4, <1>5, <1>6
-----------------------------------------------------------------------------
(* The machine and the one that has nothing but the program.                *)
Alike(k, b) ==
    /\ IsMachine(k) /\ IsMachine(b) /\ AtUser(k)
    /\ b.cr[PSQ] = k.cr[PSQ] /\ b.pc = k.pc /\ b.mem = Shared(k.mem)
    /\ \A r \in ObRegisters : b.cr[r] = k.cr[r]
    /\ \A r \in Ours(k.cr[PSQ]) : b.regs[r] = k.regs[r]

\* Both go on alike, or both stop in an entry.
Stays(k, b, k2, b2) ==
    /\ Alike(k2, b2) /\ k2.pc \in Word64
    /\ (AE \in k2.cr[PSQ] <=> AE \in k.cr[PSQ]) /\ \A r \in ObRegisters : k2.cr[r] = k.cr[r]
Stops(k, b, k2, b2) ==
    \E n, fi, fa, n2, fi2, fa2 :
        k2 = Interrupt(k, n, fi, fa) /\ b2 = Interrupt(b, n2, fi2, fa2)
Followed(k, b, k2, b2) == Stays(k, b, k2, b2) \/ Stops(k, b, k2, b2)

LEMMA StaysAgain ==
    ASSUME NEW k, NEW b, NEW k1, NEW b1, NEW k2, NEW b2, Stays(k, b, k1, b1), Stays(k1, b1, k2, b2)
    PROVE  Stays(k, b, k2, b2)
BY DEF Stays

LEMMA ErrorStops ==
    ASSUME NEW k, NEW b, NEW e, NEW fi, NEW fa, NEW e2, NEW fi2, NEW fa2
    PROVE  Followed(k, b, Error(k, e, fi, fa), Error(b, e2, fi2, fa2))
<1>1. \A n, f, a, n2, f2, a2 : Stops(k, b, Interrupt(k, n, f, a), Interrupt(b, n2, f2, a2))
  BY DEF Stops
<1> QED BY <1>1 DEF Followed, Error

LEMMA SameRegister ==
    ASSUME NEW k, NEW b, Alike(k, b), NEW r \in 0..31, AE \in k.cr[PSQ] => r \notin {X8, X9}
    PROVE  Reg(k, r) = Reg(b, r)
BY DEF Alike, Reg, Ours

LEMMA SetRegStays ==
    ASSUME NEW k, NEW b, Alike(k, b), k.pc \in Word64, NEW n \in 0..31, NEW v
    PROVE  Stays(k, b, SetReg(k, n, v), SetReg(b, n, v))
<1> DEFINE y == SetReg(k, n, v)
           z == SetReg(b, n, v)
<1>1. ASSUME NEW x, IsMachine(x)
      PROVE  /\ SetReg(x, n, v).mem = x.mem
             /\ \A r \in 1..31 : SetReg(x, n, v).regs[r] = IF r = n THEN v ELSE x.regs[r]
  <2>1. PICK G, V : Typed(x, G, V) BY <1>1, MachineTyped
  <2>2. n # 0 => LET u == [x EXCEPT !.regs[n] = v] IN
                 u.mem = x.mem /\ \A r \in 1..31 : u.regs[r] = IF r = n THEN v ELSE x.regs[r]
    BY <2>1 DEF Typed
  <2> QED BY <2>2 DEF SetReg
<1>2. IsMachine(k) /\ IsMachine(b)
  BY DEF Alike
<1>3. /\ IsMachine(y) /\ y.cr = k.cr /\ y.pc = k.pc /\ IsMachine(z) /\ z.cr = b.cr /\ z.pc = b.pc
  BY <1>2, SetRegMachine
<1>4. /\ y.mem = k.mem /\ \A r \in 1..31 : y.regs[r] = IF r = n THEN v ELSE k.regs[r]
      /\ z.mem = b.mem /\ \A r \in 1..31 : z.regs[r] = IF r = n THEN v ELSE b.regs[r]
  BY <1>1, <1>2
<1> HIDE DEF y, z
<1>5. \A r \in Ours(k.cr[PSQ]) : z.regs[r] = y.regs[r]
  BY <1>4 DEF Alike, Ours
<1>6. Stays(k, b, y, z)
  BY <1>3, <1>4, <1>5 DEF Stays, Alike, AtUser
<1> QED BY <1>6 DEF y, z

LEMMA PcStays ==
    ASSUME NEW k, NEW b, Alike(k, b), NEW p \in Word64
    PROVE  Stays(k, b, [k EXCEPT !.pc = p], [b EXCEPT !.pc = p])
<1> DEFINE y == [k EXCEPT !.pc = p]
           z == [b EXCEPT !.pc = p]
<1>1. IsMachine(k) /\ IsMachine(b)
  BY DEF Alike
<1>2. /\ IsMachine(y) /\ y.cr = k.cr /\ y.regs = k.regs /\ y.pc = p /\ y.mem = k.mem
      /\ IsMachine(z) /\ z.cr = b.cr /\ z.regs = b.regs /\ z.pc = p /\ z.mem = b.mem
  BY <1>1, PcMachine
<1> HIDE DEF y, z
<1>3. Stays(k, b, y, z)
  BY <1>2 DEF Stays, Alike, AtUser
<1> QED BY <1>3 DEF y, z

LEMMA StoreStays ==
    ASSUME NEW k, NEW b, Alike(k, b), k.pc \in Word64, NEW mem, NEW io, NEW io2
    PROVE  Stays(k, b, [k EXCEPT !.mem = mem, !.io = io], [b EXCEPT !.mem = Shared(mem), !.io = io2])
<1> DEFINE y == [k EXCEPT !.mem = mem, !.io = io]
           z == [b EXCEPT !.mem = Shared(mem), !.io = io2]
<1>1. ASSUME NEW x, IsMachine(x), NEW g, NEW h
      PROVE  LET u == [x EXCEPT !.mem = g, !.io = h] IN u.mem = g /\ u.regs = x.regs /\ u.pc = x.pc
  <2>1. PICK G, V : Typed(x, G, V) BY <1>1, MachineTyped
  <2> QED BY <2>1 DEF Typed
<1>2. IsMachine(k) /\ IsMachine(b)
  BY DEF Alike
<1>3. IsMachine(y) /\ y.cr = k.cr /\ IsMachine(z) /\ z.cr = b.cr
  BY <1>2, StoreMachine
<1>4. /\ y.mem = mem /\ y.regs = k.regs /\ y.pc = k.pc
      /\ z.mem = Shared(mem) /\ z.regs = b.regs /\ z.pc = b.pc
  BY <1>1, <1>2
<1> HIDE DEF y, z
<1>5. Stays(k, b, y, z)
  BY <1>3, <1>4 DEF Stays, Alike, AtUser
<1> QED BY <1>5 DEF y, z

LEMMA FlagStays ==
    ASSUME NEW k, NEW b, Alike(k, b), k.pc \in Word64, NEW psq,
           PL \in psq, AE \in psq <=> AE \in k.cr[PSQ]
    PROVE  Stays(k, b, [k EXCEPT !.cr[PSQ] = psq], [b EXCEPT !.cr[PSQ] = psq])
<1> DEFINE y == [k EXCEPT !.cr[PSQ] = psq]
           z == [b EXCEPT !.cr[PSQ] = psq]
<1>1. ASSUME NEW x, IsMachine(x)
      PROVE  LET u == [x EXCEPT !.cr[PSQ] = psq] IN
             /\ u.mem = x.mem /\ u.regs = x.regs /\ u.pc = x.pc /\ u.cr[PSQ] = psq
             /\ \A r \in ObRegisters : u.cr[r] = x.cr[r]
  <2>1. PICK G, V : Typed(x, G, V) BY <1>1, MachineTyped
  <2> QED BY <2>1 DEF Typed, PSQ, ObRegisters, OB0
<1>2. IsMachine(k) /\ IsMachine(b)
  BY DEF Alike
<1>3. IsMachine(y) /\ IsMachine(z)
  BY <1>2, CrMachine
<1>4. /\ y.mem = k.mem /\ y.regs = k.regs /\ y.pc = k.pc /\ y.cr[PSQ] = psq
      /\ \A r \in ObRegisters : y.cr[r] = k.cr[r]
  BY <1>1, <1>2
<1>5. /\ z.mem = b.mem /\ z.regs = b.regs /\ z.pc = b.pc /\ z.cr[PSQ] = psq
      /\ \A r \in ObRegisters : z.cr[r] = b.cr[r]
  BY <1>1, <1>2
<1> HIDE DEF y, z
<1>6. Ours(psq) = Ours(k.cr[PSQ])
  BY DEF Ours
<1>7. Stays(k, b, y, z)
  BY <1>3, <1>4, <1>5, <1>6 DEF Stays, Alike, AtUser
<1> QED BY <1>7 DEF y, z
-----------------------------------------------------------------------------
\* The two machines before an operation on an instruction that names what is the program's.
Ready(k, b, w) ==
    Alike(k, b) /\ k.pc \in Word64 /\ (AE \in k.cr[PSQ] => Named(w) \cap {X8, X9} = {})

LEMMA NamedSame ==
    ASSUME NEW k, NEW b, NEW w, Ready(k, b, w)
    PROVE  /\ Reg(k, RA(w)) = Reg(b, RA(w))
           /\ OPCODE(w) \in {0, 12} => Reg(k, RB(w)) = Reg(b, RB(w)) /\ Reg(k, RC(w)) = Reg(b, RC(w))
           /\ OPCODE(w) \in {2, 3, 10, 11} => Reg(k, RC(w)) = Reg(b, RC(w))
<1>1. /\ RA(w) \in Named(w)
      /\ OPCODE(w) \in {0, 12} => RB(w) \in Named(w) /\ RC(w) \in Named(w)
      /\ OPCODE(w) \in {2, 3, 10, 11} => RC(w) \in Named(w)
  <2>1. CASE OPCODE(w) \in {0, 12}
    BY <2>1 DEF Named
  <2>2. CASE OPCODE(w) \in {2, 3, 10, 11}
    BY <2>2 DEF Named
  <2>3. CASE OPCODE(w) \notin {0, 12} /\ OPCODE(w) \notin {2, 3, 10, 11}
    BY <2>3 DEF Named
  <2> QED BY <2>1, <2>2, <2>3
<1>2. \A r \in 0..31 : r \in Named(w) => Reg(k, r) = Reg(b, r)
  <2> TAKE r \in 0..31
  <2>1. r \in Named(w) => (AE \in k.cr[PSQ] => r \notin {X8, X9})
    BY DEF Ready
  <2>2. Alike(k, b)
    BY DEF Ready
  <2>3. (AE \in k.cr[PSQ] => r \notin {X8, X9}) => Reg(k, r) = Reg(b, r)
    BY <2>2, SameRegister
  <2> QED BY <2>1, <2>3
<1> QED BY <1>1, <1>2, RegisterNumbers

LEMMA SetsFollowed ==
    ASSUME NEW k, NEW b, NEW w, Ready(k, b, w), NEW v
    PROVE  Followed(k, b, SetReg(k, RA(w), v), SetReg(b, RA(w), v))
BY SetRegStays, RegisterNumbers DEF Ready, Followed

LEMMA NothingStays ==
    ASSUME NEW k, NEW b, Alike(k, b), k.pc \in Word64
    PROVE  Stays(k, b, k, b)
BY DEF Stays

LEMMA SameStatus ==
    ASSUME NEW k, NEW b, NEW w, Ready(k, b, w)
    PROVE  b.cr[PSQ] = k.cr[PSQ] /\ PL \in k.cr[PSQ] /\ b.pc = k.pc
BY DEF Ready, Alike, AtUser

LEMMA Rr0Followed ==
    ASSUME NEW k, NEW b, NEW w, Ready(k, b, w), OPCODE(w) = 0
    PROVE  Followed(k, b, Rr0(k, w), Rr0(b, w))
<1>1. Reg(k, RB(w)) = Reg(b, RB(w)) /\ Reg(k, RC(w)) = Reg(b, RC(w)) /\ b.cr[PSQ] = k.cr[PSQ]
  BY NamedSame, SameStatus
<1>2. \A v : Followed(k, b, SetReg(k, RA(w), v), SetReg(b, RA(w), v))
  BY SetsFollowed
<1>3. Followed(k, b, Error(k, "OVRF", {}, {}), Error(b, "OVRF", {}, {}))
  BY ErrorStops
<1> DEFINE q == Reg(k, RB(w))
           c == Reg(k, RC(w))
           d == RR_IMM(w)
           s == Plus(c, d)
           v == CASE FN(w) = 0 -> Plus(q, s)
                  [] FN(w) = 1 -> Minus(q, s)
                  [] FN(w) = 2 -> q \cap (c \cup d)
                  [] FN(w) = 3 -> q \cup c \cup d
                  [] FN(w) = 4 -> Xor(q, Xor(c, d))
                  [] FN(w) = 5 -> Sh(q, ToInt(s))
                  [] FN(w) = 6 -> Sha(q, ToInt(s))
                  [] FN(w) = 7 -> IF Above(q, s) THEN {0} ELSE {}
           over == OC \in k.cr[PSQ] /\ FN(w) < 2
                     /\ Overflows(q, IF FN(w) = 1 THEN Neg(s) ELSE s)
<1>4. Rr0(k, w) = IF over THEN Error(k, "OVRF", {}, {}) ELSE SetReg(k, RA(w), v)
  BY DEF Rr0
<1>5. Rr0(b, w) = IF over THEN Error(b, "OVRF", {}, {}) ELSE SetReg(b, RA(w), v)
  BY <1>1 DEF Rr0
<1> HIDE DEF v, over
<1> QED BY <1>2, <1>3, <1>4, <1>5

LEMMA RrCFollowed ==
    ASSUME NEW k, NEW b, NEW w, Ready(k, b, w), OPCODE(w) = 12
    PROVE  Followed(k, b, RrC(k, w), RrC(b, w))
<1>1. Reg(k, RB(w)) = Reg(b, RB(w)) /\ Reg(k, RC(w)) = Reg(b, RC(w))
  BY NamedSame
<1>2. \A v : Followed(k, b, SetReg(k, RA(w), v), SetReg(b, RA(w), v))
  BY SetsFollowed
<1>3. Followed(k, b, Error(k, "EMLT", w, {}), Error(b, "EMLT", w, {}))
  BY ErrorStops
<1>4. Followed(k, b, k, b)
  BY NothingStays DEF Followed, Ready
<1> DEFINE q == Reg(k, RB(w))
           c == Reg(k, RC(w))
           d == RR_IMM(w)
           moves == CASE FN(w) = 0 -> q = d
                      [] FN(w) = 1 -> q # d
                      [] FN(w) = 2 -> Above(q, d)
                      [] FN(w) = 3 -> ~Above(q, d)
                      [] OTHER -> FALSE
<1>5. RrC(k, w) = IF FN(w) > 3 THEN Error(k, "EMLT", w, {})
                  ELSE IF moves THEN SetReg(k, RA(w), c) ELSE k
  BY DEF RrC
<1>6. RrC(b, w) = IF FN(w) > 3 THEN Error(b, "EMLT", w, {})
                  ELSE IF moves THEN SetReg(b, RA(w), c) ELSE b
  BY <1>1 DEF RrC
<1> HIDE DEF c, moves
<1> QED BY <1>2, <1>3, <1>4, <1>5, <1>6

LEMMA ImFollowed ==
    ASSUME NEW k, NEW b, NEW w, Ready(k, b, w)
    PROVE  /\ Followed(k, b, Im4(k, w), Im4(b, w))
           /\ Followed(k, b, Im5(k, w), Im5(b, w))
BY SetsFollowed DEF Im4, Im5

\* A register, and the flag of the long immediate.
LEMMA FlagFollowed ==
    ASSUME NEW k, NEW b, NEW w, Ready(k, b, w), NEW v, NEW psq,
           psq = k.cr[PSQ] \cup {LG} \/ psq = k.cr[PSQ] \ {LG}
    PROVE  Stays(k, b, [SetReg(k, RA(w), v) EXCEPT !.cr[PSQ] = psq],
                       [SetReg(b, RA(w), v) EXCEPT !.cr[PSQ] = psq])
<1> DEFINE y == SetReg(k, RA(w), v)
           z == SetReg(b, RA(w), v)
<1>1. Alike(k, b) /\ k.pc \in Word64 /\ RA(w) \in 0..31
  BY RegisterNumbers DEF Ready
<1>2. Stays(k, b, y, z)
  BY <1>1, SetRegStays
<1>3. IsMachine(k)
  BY <1>1 DEF Alike
<1>4. y.cr = k.cr
  BY <1>3, SetRegMachine
<1> HIDE DEF y, z
<1>5. PL \in psq /\ (AE \in psq <=> AE \in y.cr[PSQ])
  BY <1>4, SameStatus DEF PL, LG, AE
<1>6. Alike(y, z) /\ y.pc \in Word64
  BY <1>2 DEF Stays
<1>7. Stays(y, z, [y EXCEPT !.cr[PSQ] = psq], [z EXCEPT !.cr[PSQ] = psq])
  BY <1>5, <1>6, FlagStays
<1>8. Stays(k, b, [y EXCEPT !.cr[PSQ] = psq], [z EXCEPT !.cr[PSQ] = psq])
  BY <1>2, <1>7, StaysAgain
<1> QED BY <1>8 DEF y, z

\* The two instructions that write the flag.
LEMMA Im6Is ==
    ASSUME NEW x, IsMachine(x), NEW w
    PROVE  Im6(x, w) = [SetReg(x, RA(w), Left(IM_IMM(w), 41)) EXCEPT !.cr[PSQ] = x.cr[PSQ] \cup {LG}]
<1> DEFINE s == SetReg(x, RA(w), Left(IM_IMM(w), 41))
<1>1. IsMachine(s) /\ s.cr = x.cr
  BY SetRegMachine
<1> HIDE DEF s
<1>2. PICK G, V : Typed(s, G, V) BY <1>1, MachineTyped
<1>3. Im6(x, w) = [s EXCEPT !.cr[PSQ] = x.cr[PSQ] \cup {LG}]
  BY <1>1, <1>2 DEF Im6, s, Typed
<1> QED BY <1>3 DEF s

LEMMA LongImmediateIs ==
    ASSUME NEW x, IsMachine(x), NEW w
    PROVE  LongImmediate(x, w)
             = [SetReg(x, RA(w), Reg(x, RA(w)) \cup Left(LGISL2_IMM(w), 14))
                  EXCEPT !.cr[PSQ] = x.cr[PSQ] \ {LG}]
<1> DEFINE s == SetReg(x, RA(w), Reg(x, RA(w)) \cup Left(LGISL2_IMM(w), 14))
<1>1. IsMachine(s) /\ s.cr = x.cr
  BY SetRegMachine
<1> HIDE DEF s
<1>2. PICK G, V : Typed(s, G, V) BY <1>1, MachineTyped
<1>3. LongImmediate(x, w) = [s EXCEPT !.cr[PSQ] = x.cr[PSQ] \ {LG}]
  BY <1>1, <1>2 DEF LongImmediate, s, Typed
<1> QED BY <1>3 DEF s

LEMMA Im6Followed ==
    ASSUME NEW k, NEW b, NEW w, Ready(k, b, w)
    PROVE  Followed(k, b, Im6(k, w), Im6(b, w))
<1> DEFINE v == Left(IM_IMM(w), 41)
           psq == k.cr[PSQ] \cup {LG}
<1>1. IsMachine(k) /\ IsMachine(b) /\ b.cr[PSQ] = k.cr[PSQ]
  BY DEF Ready, Alike
<1>2. Im6(k, w) = [SetReg(k, RA(w), v) EXCEPT !.cr[PSQ] = psq]
  BY <1>1, Im6Is
<1>3. Im6(b, w) = [SetReg(b, RA(w), v) EXCEPT !.cr[PSQ] = psq]
  <2>1. Im6(b, w) = [SetReg(b, RA(w), v) EXCEPT !.cr[PSQ] = b.cr[PSQ] \cup {LG}]
    BY <1>1, Im6Is
  <2> QED BY <1>1, <2>1
<1> HIDE DEF psq
<1>4. psq = k.cr[PSQ] \cup {LG}
  BY DEF psq
<1>5. Stays(k, b, [SetReg(k, RA(w), v) EXCEPT !.cr[PSQ] = psq],
                  [SetReg(b, RA(w), v) EXCEPT !.cr[PSQ] = psq])
  BY <1>4, FlagFollowed
<1> QED BY <1>2, <1>3, <1>5 DEF Followed

LEMMA LongImmediateFollowed ==
    ASSUME NEW k, NEW b, NEW w, Ready(k, b, w)
    PROVE  Followed(k, b, LongImmediate(k, w), LongImmediate(b, w))
<1> DEFINE v == Reg(k, RA(w)) \cup Left(LGISL2_IMM(w), 14)
           psq == k.cr[PSQ] \ {LG}
<1>1. IsMachine(k) /\ IsMachine(b) /\ b.cr[PSQ] = k.cr[PSQ]
  BY DEF Ready, Alike
<1>0. v = Reg(b, RA(w)) \cup Left(LGISL2_IMM(w), 14)
  BY NamedSame
<1>2. LongImmediate(k, w) = [SetReg(k, RA(w), v) EXCEPT !.cr[PSQ] = psq]
  BY <1>1, LongImmediateIs
<1>3. LongImmediate(b, w) = [SetReg(b, RA(w), v) EXCEPT !.cr[PSQ] = psq]
  <2>1. LongImmediate(b, w)
          = [SetReg(b, RA(w), Reg(b, RA(w)) \cup Left(LGISL2_IMM(w), 14))
               EXCEPT !.cr[PSQ] = b.cr[PSQ] \ {LG}]
    BY <1>1, LongImmediateIs
  <2> HIDE DEF v
  <2> QED BY <1>0, <1>1, <2>1
<1> HIDE DEF psq, v
<1>4. psq = k.cr[PSQ] \ {LG}
  BY DEF psq
<1>5. Stays(k, b, [SetReg(k, RA(w), v) EXCEPT !.cr[PSQ] = psq],
                  [SetReg(b, RA(w), v) EXCEPT !.cr[PSQ] = psq])
  BY <1>4, FlagFollowed
<1> QED BY <1>2, <1>3, <1>5 DEF Followed

LEMMA Br1Followed ==
    ASSUME NEW k, NEW b, NEW w, Ready(k, b, w)
    PROVE  Followed(k, b, Br1(k, w), Br1(b, w))
<1> DEFINE linked(x) == IF FN(w) \in {2, 3} THEN SetReg(x, LR, x.pc) ELSE x
<1>1. Alike(k, b) /\ k.pc \in Word64 /\ b.pc = k.pc
  BY DEF Ready, Alike
<1>2. Stays(k, b, linked(k), linked(b))
  <2>1. \A v : Stays(k, b, SetReg(k, LR, v), SetReg(b, LR, v))
    BY <1>1, SetRegStays DEF LR
  <2>2. Stays(k, b, k, b)
    BY <1>1, NothingStays
  <2> QED BY <1>1, <2>1, <2>2
<1> HIDE DEF linked
<1>3. \A p \in Word64 : Stays(k, b, [linked(k) EXCEPT !.pc = p], [linked(b) EXCEPT !.pc = p])
  <2> TAKE p \in Word64
  <2>1. Alike(linked(k), linked(b))
    BY <1>2 DEF Stays
  <2>2. Stays(linked(k), linked(b), [linked(k) EXCEPT !.pc = p], [linked(b) EXCEPT !.pc = p])
    BY <2>1, PcStays
  <2> QED BY <1>2, <2>2, StaysAgain
<1>4. Followed(k, b, k, b) /\ \A p \in Word64 :
        Followed(k, b, [linked(k) EXCEPT !.pc = p], [linked(b) EXCEPT !.pc = p])
  BY <1>1, <1>3, NothingStays DEF Followed
<1>5. Reg(k, RA(w)) = Reg(b, RA(w))
  BY NamedSame
<1> DEFINE a == Reg(k, RA(w))
           d == Left(BR_DISP(w), 2)
           t == CASE FN(w) \in {0, 2} -> Plus(k.pc, Plus(a, d))
                  [] FN(w) \in {1, 3} -> Plus(a, d)
                  [] OTHER -> Plus(k.pc, d)
           taken == CASE FN(w) < 4  -> TRUE
                      [] FN(w) = 4 -> a = {}
                      [] FN(w) = 5 -> a # {}
                      [] FN(w) = 6 -> a # {} /\ ~Negative(a)
                      [] FN(w) = 7 -> a = {} \/ Negative(a)
<1>6. Br1(k, w) = IF taken THEN [linked(k) EXCEPT !.pc = t] ELSE k
  BY DEF Br1, linked
<1>7. Br1(b, w) = IF taken THEN [linked(b) EXCEPT !.pc = t] ELSE b
  BY <1>1, <1>5 DEF Br1, linked
<1>8. t \in Word64
  <2>1. \A x, y : Plus(x, y) \in Word64
    BY SumsAreWords
  <2> QED BY <2>1
<1> HIDE DEF t, taken
<1> QED BY <1>4, <1>6, <1>7, <1>8
-----------------------------------------------------------------------------
(* Loads and stores.                                                        *)
LEMMA Powers ==
    ASSUME NEW j \in 0..3
    PROVE  2^j \in Nat
<1>1. 2^0 = 1
  OBVIOUS
<1>2. 2^1 = 2
  OBVIOUS
<1>3. 2^2 = 4
  OBVIOUS
<1>4. 2^3 = 8
  OBVIOUS
<1>5. j = 0 => 2^j = 1
  BY <1>1, Zenon
<1>6. j = 1 => 2^j = 2
  BY <1>2, Zenon
<1>7. j = 2 => 2^j = 4
  BY <1>3, Zenon
<1>8. j = 3 => 2^j = 8
  BY <1>4, Zenon
<1>9. j = 0 \/ j = 1 \/ j = 2 \/ j = 3
  OBVIOUS
<1> QED BY <1>5, <1>6, <1>7, <1>8, <1>9

LEMMA Segments == ASSUME NEW a PROVE OB0 + ToNat(Get(a, 60, 4)) \in ObRegisters
<1>1. Get(a, 60, 4) \subseteq 0..4 /\ 4 \notin Get(a, 60, 4)
  BY DEF Get
<1>2. ToNat(Get(a, 60, 4)) \in 0..15
  BY <1>1, FiveBits
<1> QED BY <1>2 DEF ObRegisters, OB0

LEMMA SameTranslation ==
    ASSUME NEW k, NEW b, b.cr[PSQ] = k.cr[PSQ], \A r \in ObRegisters : b.cr[r] = k.cr[r], NEW a
    PROVE  Translate(b, a) = Translate(k, a)
BY Segments DEF Translate

\* An access of the bus that the handlers' memory is not behind.
LEMMA SharedLoad ==
    ASSUME NEW mem, NEW a, NEW j \in 0..3, NEW units,
           Behind(a, j, units) \cap Private = {}, Readable \subseteq units
    PROVE  BusRead(Shared(mem), a, j) = BusRead(mem, a, j)
<1> DEFINE e == BusFault(a, j, Readable)
<1>1. ASSUME e = "none", ~InMmio(a)
      PROVE  MemRead(Shared(mem), ToNat(a), 2^j) = MemRead(mem, ToNat(a), 2^j)
  <2> DEFINE n == ToNat(a)
             size == 2^j
  <2>1. BusFault(a, j, units) = "none"
    BY <1>1 DEF BusFault
  <2>2. Behind(a, j, units) = n..(n + size - 1)
    BY <1>1, <2>1 DEF Behind
  <2>3. n \in Nat /\ size \in Nat
    BY ToNatNat, Powers
  <2> HIDE DEF n, size
  <2>4. \A i \in 0..(size - 1) : n + i \in n..(n + size - 1)
    BY <2>3
  <2>5. \A i \in 0..(size - 1) : n + i \notin Private
    BY <2>2, <2>4
  <2>6. MemRead(Shared(mem), n, size) = MemRead(mem, n, size)
    BY <2>5, SharedRead
  <2> QED BY <2>6 DEF n, size
<1>2. ReadValue(e, Shared(mem), a, j) = ReadValue(e, mem, a, j)
  <2> HIDE DEF e
  <2> QED BY <1>1 DEF ReadValue
<1> QED BY <1>2 DEF BusRead

LEMMA SharedFetch ==
    ASSUME NEW mem, NEW a, Behind(a, 2, Readable) \cap Private = {}
    PROVE  FetchWord(Shared(mem), a) = FetchWord(mem, a)
<1>1. BusRead(Shared(mem), a, 2) = BusRead(mem, a, 2)
  BY SharedLoad
<1> DEFINE e == BusFault(a, 2, Readable)
           v(y) == ReadValue(e, y, a, 2)
<1>2. \A y : BusRead(y, a, 2).v = v(y)
  BY DEF BusRead
<1>3. v(Shared(mem)) = v(mem)
  BY <1>1, <1>2
<1>4. \A y : FetchWord(y, a) = [e |-> IF e = "DALT" THEN "XALT" ELSE e, v |-> v(y) \cap 0..31]
  BY DEF FetchWord
<1> HIDE DEF e, v
<1> QED BY <1>3, <1>4

LEMMA SharedStore ==
    ASSUME NEW mem, NEW a, NEW j \in 0..3, NEW units, NEW io, NEW io2, NEW v,
           Behind(a, j, units) \cap Private = {}
    PROVE  /\ BusWrite(Shared(mem), io2, a, j, v).e = BusWrite(mem, io, a, j, v).e
           /\ BusWrite(Shared(mem), io2, a, j, v).mem = Shared(BusWrite(mem, io, a, j, v).mem)
<1> DEFINE e == BusFault(a, j, Writable)
           w(y) == IF e = "none" /\ ~InMmio(a) THEN MemWrite(y, ToNat(a), 2^j, v) ELSE y
<1>1. ASSUME e = "none", ~InMmio(a)
      PROVE  Shared(MemWrite(mem, ToNat(a), 2^j, v)) = MemWrite(Shared(mem), ToNat(a), 2^j, v)
  <2>1. BusFault(a, j, units) = "none"
    BY <1>1 DEF BusFault
  <2>2. Behind(a, j, units) = ToNat(a)..(ToNat(a) + 2^j - 1)
    BY <1>1, <2>1 DEF Behind
  <2> QED BY <2>2, SharedWrite
<1>2. w(Shared(mem)) = Shared(w(mem))
  <2> HIDE DEF e
  <2> QED BY <1>1
<1>3. \A y, h : BusWrite(y, h, a, j, v).e = e /\ BusWrite(y, h, a, j, v).mem = w(y)
  BY DEF BusWrite
<1> HIDE DEF e, w
<1> QED BY <1>2, <1>3

LEMMA StorageSize ==
    ASSUME NEW w, OPCODE(w) \in {2, 10} \/ FN(w) < 4
    PROVE  Storage(w)[2] \in 0..3
<1>1. FN(w) \in 0..7
  BY FnRange
<1>2. \A n \in 0..7 : Short[n + 1][2] \in 0..3
  BY DEF Short
<1>3. \A n \in 0..3 : Long[n + 1][2] \in 0..3
  BY DEF Long
<1> QED BY <1>1, <1>2, <1>3 DEF Storage

\* The only access that is none is the one of an address.
LEMMA StorageAccess ==
    ASSUME NEW w, OPCODE(w) \in {2, 10} \/ FN(w) < 4
    PROVE  OPCODE(w) \in {2, 10} \/ FN(w) \in {0, 1, 3} \/ Storage(w)[1] = "address"
<1>1. FN(w) \in 0..7
  BY FnRange
<1>2. Long[2 + 1][1] = "address"
  BY DEF Long
<1> QED BY <1>1, <1>2 DEF Storage

Outside(k, w) ==
    LET j == Storage(w)[2] IN
    Behind(Translate(k, StorageAddress(k, w, j)), j, Readable \cup Writable) \cap Private = {}

LEMMA LoadStoreFollowed ==
    ASSUME NEW k, NEW b, NEW w, Ready(k, b, w), OPCODE(w) \in {2, 3, 10, 11},
           OPCODE(w) \in {2, 10} \/ FN(w) < 4,
           OPCODE(w) \in {2, 10} \/ FN(w) \in {0, 1, 3} => Outside(k, w)
    PROVE  Followed(k, b, LoadStore(k, w), LoadStore(b, w))
<1> DEFINE access == Storage(w)
           j == access[2]
           a == StorageAddress(k, w, j)
           addr == Translate(k, a)
           v == Reg(k, RA(w))
           in == BusRead(k.mem, addr, j)
           out == BusWrite(k.mem, k.io, addr, j, v)
           out2 == BusWrite(b.mem, b.io, addr, j, v)
           fa(e) == IF e = "DALT" THEN a ELSE addr
<1>1. Alike(k, b) /\ k.pc \in Word64 /\ b.cr[PSQ] = k.cr[PSQ] /\ b.mem = Shared(k.mem)
  BY DEF Ready, Alike
<1>2. Reg(b, RA(w)) = v /\ Reg(b, RC(w)) = Reg(k, RC(w))
  BY NamedSame
<1>3. StorageAddress(b, w, j) = a
  BY <1>1, <1>2 DEF StorageAddress
<1>4. Translate(b, a) = addr
  BY <1>1, SameTranslation DEF Alike
<1>5. access[1] \in {"load", "store", "address"} /\ j \in 0..3
  BY StorageKind, StorageSize
<1>6. \A y, z, e, f : Followed(k, b, Error(k, y, w, e), Error(b, z, w, f))
  BY ErrorStops
<1>7. \A y : Followed(k, b, SetReg(k, RA(w), y), SetReg(b, RA(w), y))
  BY SetsFollowed
<1>8. CASE access[1] = "address"
  <2>1. LoadStore(k, w) = SetReg(k, RA(w), a)
    BY <1>8 DEF LoadStore
  <2>2. LoadStore(b, w) = SetReg(b, RA(w), a)
    BY <1>3, <1>8 DEF LoadStore
  <2> QED BY <1>7, <2>1, <2>2
<1>9. ASSUME access[1] # "address"
      PROVE  Behind(addr, j, Readable \cup Writable) \cap Private = {}
  BY <1>9, StorageAccess DEF Outside
<1>10. CASE access[1] = "load"
  <2>1. BusRead(b.mem, addr, j) = in
    <3>1. Behind(addr, j, Readable \cup Writable) \cap Private = {}
      BY <1>9, <1>10
    <3> DEFINE units == Readable \cup Writable
    <3>2. Readable \subseteq units
      OBVIOUS
    <3> HIDE DEF units, j, addr
    <3>3. Behind(addr, j, units) \cap Private = {} /\ j \in 0..3
      BY <1>5, <3>1 DEF units, j, addr
    <3>4. BusRead(Shared(k.mem), addr, j) = BusRead(k.mem, addr, j)
      BY <3>2, <3>3, SharedLoad
    <3> QED BY <1>1, <3>4
  <2> DEFINE read == IF access[3] THEN Ext(in.v, 8 * 2^j) ELSE in.v
  <2>2. LoadStore(k, w) = IF in.e # "none" THEN Error(k, in.e, w, fa(in.e))
                          ELSE SetReg(k, RA(w), read)
    BY <1>10 DEF LoadStore
  <2>3. LoadStore(b, w) = IF in.e # "none" THEN Error(b, in.e, w, fa(in.e))
                          ELSE SetReg(b, RA(w), read)
    <3> DEFINE in2 == BusRead(b.mem, addr, j)
    <3>1. LoadStore(b, w) = IF in2.e # "none" THEN Error(b, in2.e, w, fa(in2.e))
                            ELSE SetReg(b, RA(w), IF access[3] THEN Ext(in2.v, 8 * 2^j) ELSE in2.v)
      BY <1>3, <1>4, <1>10 DEF LoadStore
    <3> HIDE DEF in
    <3> QED BY <2>1, <3>1
  <2> HIDE DEF read, in, fa
  <2> QED BY <1>6, <1>7, <2>2, <2>3
<1>11. CASE access[1] = "store"
  <2>1. out2.e = out.e /\ out2.mem = Shared(out.mem)
    <3>1. Behind(addr, j, Readable \cup Writable) \cap Private = {}
      BY <1>9, <1>11
    <3> DEFINE units == Readable \cup Writable
    <3> HIDE DEF units, j, addr, v
    <3>2. Behind(addr, j, units) \cap Private = {} /\ j \in 0..3
      BY <1>5, <3>1 DEF units, j, addr
    <3>3. /\ BusWrite(Shared(k.mem), b.io, addr, j, v).e = BusWrite(k.mem, k.io, addr, j, v).e
          /\ BusWrite(Shared(k.mem), b.io, addr, j, v).mem
               = Shared(BusWrite(k.mem, k.io, addr, j, v).mem)
      BY <3>2, SharedStore
    <3> QED BY <1>1, <3>3
  <2>2. LoadStore(k, w) = IF out.e # "none" THEN Error(k, out.e, w, fa(out.e))
                          ELSE [k EXCEPT !.mem = out.mem, !.io = out.io]
    BY <1>11 DEF LoadStore
  <2>3. LoadStore(b, w) = IF out2.e # "none" THEN Error(b, out2.e, w, fa(out2.e))
                          ELSE [b EXCEPT !.mem = out2.mem, !.io = out2.io]
    BY <1>2, <1>3, <1>4, <1>11 DEF LoadStore
  <2> HIDE DEF out, out2, fa
  <2>4. Stays(k, b, [k EXCEPT !.mem = out.mem, !.io = out.io],
                    [b EXCEPT !.mem = Shared(out.mem), !.io = out2.io])
    BY <1>1, StoreStays
  <2>5. Followed(k, b, [k EXCEPT !.mem = out.mem, !.io = out.io],
                       [b EXCEPT !.mem = out2.mem, !.io = out2.io])
    BY <2>1, <2>4 DEF Followed
  <2> QED BY <1>6, <2>1, <2>2, <2>3, <2>5
<1> QED BY <1>5, <1>8, <1>10, <1>11

LEMMA BitFieldFollowed ==
    ASSUME NEW k, NEW b, NEW w, Ready(k, b, w), OPCODE(w) = 3
    PROVE  Followed(k, b, BitField(k, w), BitField(b, w))
<1>1. Reg(b, RC(w)) = Reg(k, RC(w))
  BY NamedSame
<1>2. \A v : Followed(k, b, SetReg(k, RA(w), v), SetReg(b, RA(w), v))
  BY SetsFollowed
<1>3. Followed(k, b, Error(k, "EMLT", w, {}), Error(b, "EMLT", w, {}))
  BY ErrorStops
<1> DEFINE c == Reg(k, RC(w))
           bit == ToNat(Get(LS_DISP(w), 0, 6))
           shift == ToNat(Get(LS_DISP(w), 6, 10))
           v4 == SignFrom(Shr(c, shift), bit)
           v5 == SignFrom(c, bit) \ BitsAbove(shift % 64)
           v6 == Sar(c, shift) \ BitsAbove(bit)
<1>4. BitField(k, w) = CASE FN(w) = 4 -> SetReg(k, RA(w), v4) [] FN(w) = 5 -> SetReg(k, RA(w), v5)
                         [] FN(w) = 6 -> SetReg(k, RA(w), v6) [] OTHER -> Error(k, "EMLT", w, {})
  BY DEF BitField
<1>5. BitField(b, w) = CASE FN(w) = 4 -> SetReg(b, RA(w), v4) [] FN(w) = 5 -> SetReg(b, RA(w), v5)
                         [] FN(w) = 6 -> SetReg(b, RA(w), v6) [] OTHER -> Error(b, "EMLT", w, {})
  BY <1>1 DEF BitField
<1> HIDE DEF v4, v5, v6
<1> QED BY <1>2, <1>3, <1>4, <1>5

LEMMA LsFollowed ==
    ASSUME NEW k, NEW b, NEW w, Ready(k, b, w), OPCODE(w) \in {2, 3, 10, 11},
           OPCODE(w) \in {2, 10} \/ FN(w) \in {0, 1, 3} => Outside(k, w)
    PROVE  Followed(k, b, Ls(k, w), Ls(b, w))
<1>1. OPCODE(w) \in {2, 10} \/ FN(w) < 4 => Followed(k, b, LoadStore(k, w), LoadStore(b, w))
  BY LoadStoreFollowed
<1>2. OPCODE(w) = 3 => Followed(k, b, BitField(k, w), BitField(b, w))
  BY BitFieldFollowed
<1>3. Followed(k, b, Error(k, "EMLT", w, {}), Error(b, "EMLT", w, {}))
  BY ErrorStops
<1> QED BY <1>1, <1>2, <1>3 DEF Ls

\* What needs privilege is an error on both.
LEMMA ControlFollowed ==
    ASSUME NEW k, NEW b, NEW w, Ready(k, b, w)
    PROVE  Followed(k, b, Xmu7(k, w), Xmu7(b, w)) /\ Followed(k, b, LsE(k, w), LsE(b, w))
<1>1. PL \in k.cr[PSQ] /\ PL \in b.cr[PSQ]
  BY SameStatus
<1>2. \A e : Followed(k, b, Error(k, e, w, {}), Error(b, e, w, {}))
  BY ErrorStops
<1>3. \A x \in {k, b} : Xmu7(x, w) = Error(x, "IPLT", w, {})
  BY <1>1 DEF Xmu7
<1>4. \A x \in {k, b} : LsE(x, w) = IF FN(w) = 0 THEN Error(x, "SVCT", w, {})
                                   ELSE Error(x, "IPLT", w, {})
  BY <1>1 DEF LsE
<1> QED BY <1>2, <1>3, <1>4

LEMMA OperationFollowed ==
    ASSUME NEW k, NEW b, NEW w, Ready(k, b, w), OPCODE(w) \notin {8, 9, 13, 15},
           OPCODE(w) \in {2, 10} \/ (OPCODE(w) \in {3, 11} /\ FN(w) \in {0, 1, 3}) => Outside(k, w)
    PROVE  Followed(k, b, Operation(k, w), Operation(b, w))
<1>1. OPCODE(w) \in {0, 1, 2, 3, 4, 5, 6, 7, 10, 11, 12, 14}
  BY FnRange
<1> DEFINE F(x, y) == Followed(k, b, x, y)
<1>2. /\ F(Br1(k, w), Br1(b, w)) /\ F(Im4(k, w), Im4(b, w)) /\ F(Im5(k, w), Im5(b, w))
      /\ F(Im6(k, w), Im6(b, w)) /\ F(Xmu7(k, w), Xmu7(b, w)) /\ F(LsE(k, w), LsE(b, w))
  BY Br1Followed, ImFollowed, Im6Followed, ControlFollowed
<1>3. OPCODE(w) = 0 => F(Rr0(k, w), Rr0(b, w))
  BY Rr0Followed
<1>4. OPCODE(w) = 12 => F(RrC(k, w), RrC(b, w))
  BY RrCFollowed
<1>5. OPCODE(w) \in {2, 3, 10, 11} => F(Ls(k, w), Ls(b, w))
  BY LsFollowed
<1> HIDE DEF F
<1>6. F(Operation(k, w), Operation(b, w))
  BY <1>1, <1>2, <1>3, <1>4, <1>5 DEF Operation
<1> QED BY <1>6 DEF F
-----------------------------------------------------------------------------
(* A round of the machine, and one of the program alone.                    *)
\* A machine past the fetch of an instruction.
Past(k) == [k EXCEPT !.pc = Plus(k.pc, {2})]

LEMMA ExecuteIs ==
    ASSUME NEW x, IsMachine(x)
    PROVE  LET addr == Translate(x, x.pc)
               f == FetchWord(x.mem, addr)
           IN  Execute(x) = IF f.e # "none" THEN Error(x, f.e, {}, addr)
                            ELSE IF LG \in x.cr[PSQ] THEN LongImmediate(Past(x), f.v)
                            ELSE IF OPCODE(f.v) \in {8, 9, 13, 15} THEN Error(x, "EMLT", f.v, x.pc)
                            ELSE Operation(Past(x), f.v)
<1>1. PICK G, V : Typed(x, G, V) BY MachineTyped
<1>2. [x EXCEPT !.pc = Plus(@, {2})] = Past(x)
  BY <1>1 DEF Typed, Past
<1> QED BY <1>2 DEF Execute

\* What Careful says, of a machine.
CarefulIn(k) ==
    LET a == Translate(k, k.pc)
        f == FetchWord(k.mem, a)
    IN  /\ Behind(a, 2, Readable) \cap Private = {}
        /\ f.e = "none" /\ AE \in k.cr[PSQ] => Named(f.v) \cap {X8, X9} = {}
        /\ f.e = "none" /\ LG \notin k.cr[PSQ] =>
             (OPCODE(f.v) \in {2, 10} \/ (OPCODE(f.v) \in {3, 11} /\ FN(f.v) \in {0, 1, 3})
                => Outside(k, f.v))

LEMMA CarefulMachine == Careful /\ AtUser(m) => CarefulIn(m)
BY DEF Careful, CarefulIn, StaysOut, Outside

LEMMA PastReady ==
    ASSUME NEW k, NEW b, Alike(k, b), NEW w, AE \in k.cr[PSQ] => Named(w) \cap {X8, X9} = {}
    PROVE  /\ Stays(k, b, Past(k), Past(b)) /\ Ready(Past(k), Past(b), w)
           /\ Past(k).regs = k.regs /\ Past(k).cr = k.cr
<1>1. IsMachine(k) /\ IsMachine(b) /\ b.pc = k.pc
  BY DEF Alike
<1> DEFINE p == Plus(k.pc, {2})
<1>2. p \in Word64
  BY SumsAreWords
<1>3. Past(k) = [k EXCEPT !.pc = p] /\ Past(b) = [b EXCEPT !.pc = p]
  BY <1>1 DEF Past
<1> HIDE DEF p
<1>4. Stays(k, b, Past(k), Past(b))
  BY <1>2, <1>3, PcStays
<1>5. Past(k).regs = k.regs /\ Past(k).cr = k.cr
  BY <1>1, <1>3, PcMachine
<1> QED BY <1>4, <1>5 DEF Stays, Ready

LEMMA OutsideNext ==
    ASSUME NEW k, NEW w, IsMachine(k)
    PROVE  Outside(Past(k), w) <=> Outside(k, w)
<1>1. Past(k).regs = k.regs /\ Past(k).cr = k.cr
  BY PcMachine DEF Past
<1>2. \A j : StorageAddress(Past(k), w, j) = StorageAddress(k, w, j)
  BY <1>1 DEF StorageAddress, Reg
<1>3. \A a : Translate(Past(k), a) = Translate(k, a)
  BY <1>1 DEF Translate
<1> QED BY <1>2, <1>3 DEF Outside

\* The three ways of a round: both go on, or both enter, before or after the fetch.
LEMMA ExecuteFollowed ==
    ASSUME NEW k, NEW b, Alike(k, b), k.pc \in Word64, CarefulIn(k)
    PROVE  \/ Stays(k, b, Execute(k), Execute(b))
           \/ Stops(k, b, Execute(k), Execute(b))
           \/ Stops(Past(k), Past(b), Execute(k), Execute(b))
<1> DEFINE addr == Translate(k, k.pc)
           f == FetchWord(k.mem, addr)
           Way(y, z) == \/ Stays(k, b, y, z) \/ Stops(k, b, y, z)
                        \/ Stops(Past(k), Past(b), y, z)
<1>1. /\ IsMachine(k) /\ IsMachine(b) /\ b.pc = k.pc /\ b.cr[PSQ] = k.cr[PSQ]
      /\ b.mem = Shared(k.mem)
  BY DEF Alike
<1>2. Translate(b, b.pc) = addr
  BY <1>1, SameTranslation DEF Alike
<1>3. FetchWord(b.mem, addr) = f
  BY <1>1, SharedFetch DEF CarefulIn
<1>4. /\ f.e = "none" /\ AE \in k.cr[PSQ] => Named(f.v) \cap {X8, X9} = {}
      /\ f.e = "none" /\ LG \notin k.cr[PSQ] =>
           (OPCODE(f.v) \in {2, 10} \/ (OPCODE(f.v) \in {3, 11} /\ FN(f.v) \in {0, 1, 3})
              => Outside(k, f.v))
  BY DEF CarefulIn
<1>5. Execute(k) = IF f.e # "none" THEN Error(k, f.e, {}, addr)
                   ELSE IF LG \in k.cr[PSQ] THEN LongImmediate(Past(k), f.v)
                   ELSE IF OPCODE(f.v) \in {8, 9, 13, 15} THEN Error(k, "EMLT", f.v, k.pc)
                   ELSE Operation(Past(k), f.v)
  BY <1>1, ExecuteIs
<1>6. Execute(b) = IF f.e # "none" THEN Error(b, f.e, {}, addr)
                   ELSE IF LG \in k.cr[PSQ] THEN LongImmediate(Past(b), f.v)
                   ELSE IF OPCODE(f.v) \in {8, 9, 13, 15} THEN Error(b, "EMLT", f.v, k.pc)
                   ELSE Operation(Past(b), f.v)
  <2> HIDE DEF addr, f
  <2>1. Execute(b) = IF f.e # "none" THEN Error(b, f.e, {}, addr)
                     ELSE IF LG \in b.cr[PSQ] THEN LongImmediate(Past(b), f.v)
                     ELSE IF OPCODE(f.v) \in {8, 9, 13, 15} THEN Error(b, "EMLT", f.v, b.pc)
                     ELSE Operation(Past(b), f.v)
    BY <1>1, <1>2, <1>3, ExecuteIs
  <2> QED BY <1>1, <2>1
<1> HIDE DEF f, addr
<1>7. \A e, fi, fa : Way(Error(k, e, fi, fa), Error(b, e, fi, fa))
  BY ErrorStops DEF Followed
<1>8. ASSUME f.e = "none"
      PROVE  /\ LG \in k.cr[PSQ] =>
                  Way(LongImmediate(Past(k), f.v), LongImmediate(Past(b), f.v))
             /\ LG \notin k.cr[PSQ] /\ OPCODE(f.v) \notin {8, 9, 13, 15} =>
                  Way(Operation(Past(k), f.v), Operation(Past(b), f.v))
  <2> DEFINE w == f.v
  <2>1. AE \in k.cr[PSQ] => Named(w) \cap {X8, X9} = {}
    BY <1>4, <1>8
  <2> HIDE DEF w
  <2>2. Stays(k, b, Past(k), Past(b)) /\ Ready(Past(k), Past(b), w)
    BY <2>1, PastReady
  <2>3. \A y, z : Followed(Past(k), Past(b), y, z) => Way(y, z)
    <3> TAKE y, z
    <3>1. Stays(Past(k), Past(b), y, z) => Stays(k, b, y, z)
      BY <2>2, StaysAgain
    <3> QED BY <3>1 DEF Followed
  <2>4. LG \in k.cr[PSQ] => Way(LongImmediate(Past(k), w), LongImmediate(Past(b), w))
    BY <2>2, <2>3, LongImmediateFollowed
  <2>5. ASSUME LG \notin k.cr[PSQ], OPCODE(w) \notin {8, 9, 13, 15}
        PROVE  Way(Operation(Past(k), w), Operation(Past(b), w))
    <3>1. OPCODE(w) \in {2, 10} \/ (OPCODE(w) \in {3, 11} /\ FN(w) \in {0, 1, 3})
            => Outside(Past(k), w)
      BY <1>1, <1>4, <1>8, <2>5, OutsideNext DEF w
    <3>2. Followed(Past(k), Past(b), Operation(Past(k), w), Operation(Past(b), w))
      BY <2>2, <2>5, <3>1, OperationFollowed
    <3> QED BY <2>3, <3>2
  <2> QED BY <2>4, <2>5 DEF w
<1> HIDE DEF Way
<1>9. Way(Execute(k), Execute(b))
  BY <1>5, <1>6, <1>7, <1>8
<1> QED BY <1>9 DEF Way

\* The machine has the program in it, and so has the one with nothing else.
LEMMA BareAlike ==
    ASSUME NEW k, IsMachine(k), AtUser(k)
    PROVE  Alike(k, Bare(ProgramOf(k, k.pc)))
<1> DEFINE p == ProgramOf(k, k.pc)
           b == Bare(p)
           R(r) == IF r \in Ours(k.cr[PSQ]) THEN k.regs[r] ELSE {}
           C(r) == IF r = PSQ THEN k.cr[PSQ] ELSE IF r \in ObRegisters THEN k.cr[r] ELSE {}
<1>1. /\ p.psq = k.cr[PSQ] /\ p.pc = k.pc /\ p.mem = Shared(k.mem)
      /\ p.regs = [r \in Ours(k.cr[PSQ]) |-> k.regs[r]] /\ p.objects = ObjectsOf(k)
  BY DEF ProgramOf
<1>2. \A r \in 1..31 : (IF r \in DOMAIN p.regs THEN p.regs[r] ELSE {}) = R(r)
  BY <1>1
<1>3. \A r \in 0..47 : (IF r = PSQ THEN p.psq ELSE IF r \in ObRegisters THEN p.objects[r] ELSE {})
                         = C(r)
  BY <1>1 DEF ObjectsOf
<1> HIDE DEF p, R, C
<1>4. b = [regs |-> [r \in 1..31 |-> R(r)], cr |-> [r \in 0..47 |-> C(r)],
           pc |-> k.pc, mem |-> Shared(k.mem), io |-> <<>>]
  BY <1>1, <1>2, <1>3 DEF Bare
<1>5. /\ b.regs = [r \in 1..31 |-> R(r)] /\ b.cr = [r \in 0..47 |-> C(r)]
      /\ b.pc = k.pc /\ b.mem = Shared(k.mem) /\ b.io = <<>>
  BY <1>4
<1> HIDE DEF b
<1>6. b.regs = [r \in 1..31 |-> b.regs[r]] /\ b.cr = [r \in 0..47 |-> b.cr[r]]
  BY <1>5
<1>7. IsMachine(b)
  BY <1>4, <1>5, <1>6 DEF IsMachine
<1>8. b.cr[PSQ] = k.cr[PSQ] /\ \A r \in ObRegisters : b.cr[r] = k.cr[r]
  BY <1>5 DEF C, PSQ, ObRegisters, OB0
<1>9. \A r \in Ours(k.cr[PSQ]) : b.regs[r] = k.regs[r]
  BY <1>5 DEF R, Ours
<1>10. Alike(k, b)
  BY <1>5, <1>7, <1>8, <1>9 DEF Alike
<1> QED BY <1>10 DEF b, p
-----------------------------------------------------------------------------
\* What a round shows is what the program does alone.
LEMMA RoundSeen ==
    ASSUME NEW k, IsMachine(k), AtUser(k), k.pc \in Word64, CarefulIn(k)
    PROVE  /\ Seen(Execute(k), FALSE) = Executed(ProgramOf(k, k.pc))
           /\ Seen(Execute(k), FALSE).pc \in Word64
<1> DEFINE p == ProgramOf(k, k.pc)
           b == Bare(p)
           y == Execute(k)
           z == Execute(b)
<1>1. Alike(k, b)
  BY BareAlike
<1>2. Stays(k, b, y, z) \/ Stops(k, b, y, z) \/ Stops(Past(k), Past(b), y, z)
  BY <1>1, ExecuteFollowed
<1>3. /\ p.psq = k.cr[PSQ] /\ p.pc = k.pc /\ DOMAIN p.regs = Ours(k.cr[PSQ])
      /\ p.objects = ObjectsOf(k) /\ \A q : [p EXCEPT !.pc = q] = ProgramOf(k, q)
  <2>1. \A q : [p EXCEPT !.pc = q] = ProgramOf(k, q)
    <3> TAKE q
    <3> DEFINE g == [r \in Ours(k.cr[PSQ]) |-> k.regs[r]]
               s == k.cr[PSQ]
               o == ObjectsOf(k)
               h == Shared(k.mem)
    <3>1. p = [regs |-> g, pc |-> k.pc, psq |-> s, objects |-> o, mem |-> h]
      BY DEF ProgramOf
    <3>2. ProgramOf(k, q) = [regs |-> g, pc |-> q, psq |-> s, objects |-> o, mem |-> h]
      BY DEF ProgramOf
    <3> HIDE DEF p, g, s, o, h
    <3> QED BY <3>1, <3>2
  <2>2. p.psq = k.cr[PSQ] /\ p.pc = k.pc /\ DOMAIN p.regs = Ours(k.cr[PSQ])
    BY DEF ProgramOf
  <2>3. p.objects = ObjectsOf(k)
    BY DEF ProgramOf
  <2> QED BY <2>1, <2>2, <2>3
<1>4. Executed(p) = IF PL \in z.cr[PSQ]
                      THEN [regs |-> [r \in DOMAIN p.regs |-> z.regs[r]], pc |-> z.pc,
                            psq |-> z.cr[PSQ], objects |-> p.objects, mem |-> z.mem]
                      ELSE [p EXCEPT !.pc = z.cr[APC]]
  BY DEF Executed
<1>5. b.pc = k.pc /\ IsMachine(b) /\ b.cr[PSQ] = k.cr[PSQ]
  BY <1>1 DEF Alike
<1> HIDE DEF y, z, b, p
<1>6. CASE Stays(k, b, y, z)
  <2>1. /\ AtUser(y) /\ z.cr[PSQ] = y.cr[PSQ] /\ z.pc = y.pc /\ z.mem = Shared(y.mem)
        /\ \A r \in Ours(y.cr[PSQ]) : z.regs[r] = y.regs[r]
        /\ y.pc \in Word64 /\ \A r \in ObRegisters : y.cr[r] = k.cr[r]
    BY <1>6 DEF Stays, Alike
  <2>2. ObjectsOf(y) = ObjectsOf(k)
    BY <2>1 DEF ObjectsOf
  <2>3. Ours(y.cr[PSQ]) = Ours(k.cr[PSQ])
    BY <1>6 DEF Stays, Ours
  <2>4. Seen(y, FALSE) = [regs |-> [r \in Ours(y.cr[PSQ]) |-> y.regs[r]], pc |-> y.pc,
                          psq |-> y.cr[PSQ], objects |-> ObjectsOf(y), mem |-> Shared(y.mem)]
    BY <2>1 DEF Seen
  <2>5. [r \in Ours(y.cr[PSQ]) |-> y.regs[r]] = [r \in DOMAIN p.regs |-> z.regs[r]]
    BY <1>3, <2>1, <2>3
  <2>6. PL \in z.cr[PSQ]
    BY <2>1 DEF AtUser
  <2>7. Seen(y, FALSE) = Executed(p)
    BY <1>3, <1>4, <2>1, <2>2, <2>4, <2>5, <2>6
  <2>8. Seen(y, FALSE).pc = y.pc
    <3> DEFINE g == [r \in Ours(y.cr[PSQ]) |-> y.regs[r]]
               o == ObjectsOf(y)
               h == Shared(y.mem)
               s == Seen(y, FALSE)
    <3>1. s = [regs |-> g, pc |-> y.pc, psq |-> y.cr[PSQ], objects |-> o, mem |-> h]
      BY <2>4
    <3> HIDE DEF g, o, h, s
    <3>2. s.pc = y.pc
      BY <3>1
    <3> QED BY <3>2 DEF s
  <2> QED BY <2>1, <2>7, <2>8 DEF y, p
<1>7. ASSUME NEW h, NEW g, IsMachine(h), IsMachine(g), AtUser(h), g.pc = h.pc, h.pc \in Word64,
             ProgramOf(h, h.pc) = ProgramOf(k, h.pc), Stops(h, g, y, z)
      PROVE  Seen(y, FALSE) = Executed(p) /\ Seen(y, FALSE).pc \in Word64
  <2>1. PICK n, fi, fa, n2, fi2, fa2 :
          y = Interrupt(h, n, fi, fa) /\ z = Interrupt(g, n2, fi2, fa2)
    BY <1>7 DEF Stops
  <2>2. Seen(y, FALSE) = ProgramOf(h, IF FALSE THEN Minus(h.pc, {2}) ELSE h.pc)
    BY <1>7, <2>1, EntrySeen, Zenon
  <2>3. Seen(y, FALSE) = ProgramOf(k, h.pc)
    BY <1>7, <2>2
  <2>4. z.cr[APC] = h.pc /\ PL \notin z.cr[PSQ]
    BY <1>7, <2>1, InterruptMachine DEF PL
  <2>5. Executed(p) = ProgramOf(k, h.pc)
    BY <1>3, <1>4, <2>4
  <2>6. ProgramOf(k, h.pc).pc = h.pc
    BY DEF ProgramOf
  <2> QED BY <1>7, <2>3, <2>5, <2>6
<1>8. CASE Stops(k, b, y, z)
  BY <1>5, <1>7, <1>8 DEF y, p
<1>9. CASE Stops(Past(k), Past(b), y, z)
  <2>1. /\ IsMachine(Past(k)) /\ Past(k).cr = k.cr /\ Past(k).regs = k.regs
        /\ Past(k).mem = k.mem /\ Past(k).pc = Plus(k.pc, {2})
    BY PcMachine DEF Past
  <2>2. IsMachine(Past(b)) /\ Past(b).pc = Plus(k.pc, {2})
    BY <1>5, PcMachine DEF Past
  <2>3. AtUser(Past(k)) /\ Past(k).pc \in Word64
    BY <2>1, SumsAreWords DEF AtUser
  <2>4. ProgramOf(Past(k), Past(k).pc) = ProgramOf(k, Past(k).pc)
    BY <2>1 DEF ProgramOf, ObjectsOf
  <2> QED BY <1>7, <1>9, <2>1, <2>2, <2>3, <2>4 DEF y, p
<1> QED BY <1>2, <1>6, <1>8, <1>9
-----------------------------------------------------------------------------
(* What an entry leaves, and what a return finds.                           *)
StackOf(y) == IF AE \in y.cr[APSQ] THEN y.regs[SP] ELSE y.cr[ASP]
Entered(x, y) ==
    IsMachine(y) /\ ~AtUser(y) /\ PL \in y.cr[APSQ] /\ StackOf(y) = x.cr[ASP]

LEMMA InterruptEnters ==
    ASSUME NEW x, IsMachine(x), AtUser(x), NEW which, NEW fi, NEW fa
    PROVE  Entered(x, Interrupt(x, which, fi, fa))
<1> DEFINE y == Interrupt(x, which, fi, fa)
<1>1. IsMachine(y) /\ y.cr[APSQ] = x.cr[PSQ] /\ y.cr[PSQ] = x.cr[PSQ] \ 0..4
  BY InterruptMachine
<1>2. y.regs = IF AE \notin x.cr[PSQ] THEN x.regs
               ELSE [x.regs EXCEPT ![X8] = x.regs[SP], ![X9] = x.regs[LR], ![SP] = x.cr[ASP]]
  BY InterruptRegs
<1>3. y.cr[ASP] = x.cr[ASP]
  BY InterruptControl DEF ASP, PSQ, APSQ, APC, FI, FA
<1>4. PICK G, V : Typed(x, G, V) BY MachineTyped
<1> HIDE DEF y
<1>5. AE \in x.cr[PSQ] => y.regs[SP] = x.cr[ASP]
  BY <1>2, <1>4 DEF Typed, X8, X9, SP
<1>6. StackOf(y) = x.cr[ASP]
  BY <1>1, <1>3, <1>5 DEF StackOf
<1>7. Entered(x, y)
  BY <1>1, <1>6 DEF Entered, AtUser, PL
<1> QED BY <1>7 DEF y

LEMMA NextEnters ==
    ASSUME NEW x, IsMachine(x), AtUser(x), NEW which, NEW fi, NEW fa
    PROVE  Entered(x, Interrupt(Past(x), which, fi, fa))
<1>1. IsMachine(Past(x)) /\ Past(x).cr = x.cr
  BY PcMachine DEF Past
<1>2. AtUser(Past(x))
  BY <1>1 DEF AtUser
<1>3. Entered(Past(x), Interrupt(Past(x), which, fi, fa))
  BY <1>1, <1>2, InterruptEnters
<1> QED BY <1>1, <1>3 DEF Entered

\* A program's step leaves the program in the machine, or enters.
LEMMA UserSteps ==
    ASSUME IsMachine(m), AtUser(m), m.pc \in Word64, Careful, ExecNext
    PROVE  (AtUser(m') /\ m'.cr[ASP] = m.cr[ASP]) \/ Entered(m, m')
<1>1. ASSUME NEW e, NEW fi, NEW fa
      PROVE  Entered(m, Error(m, e, fi, fa)) /\ Entered(m, Error(Past(m), e, fi, fa))
  BY InterruptEnters, NextEnters DEF Error
<1>2. CASE Instruction
  <2> DEFINE b == Bare(ProgramOf(m, m.pc))
  <2>1. m' = Execute(m)
    BY <1>2 DEF Instruction
  <2>2. Alike(m, b) /\ CarefulIn(m)
    BY BareAlike, CarefulMachine
  <2> HIDE DEF b
  <2>3. \/ Stays(m, b, Execute(m), Execute(b)) \/ Stops(m, b, Execute(m), Execute(b))
        \/ Stops(Past(m), Past(b), Execute(m), Execute(b))
    BY <2>2, ExecuteFollowed
  <2>4. CASE Stays(m, b, Execute(m), Execute(b))
    <3>1. AtUser(m')
      BY <2>1, <2>4 DEF Stays, Alike
    <3>2. Confined(m, m')
      BY <2>1, ExecuteTame DEF Tame
    <3>3. Unprivileged(m, m') => m'.cr[ASP] = m.cr[ASP]
      <4>1. PICK G, V : Typed(m, G, V) BY MachineTyped
      <4> QED BY <4>1 DEF Unprivileged, Typed, ASP, PSQ
    <3>4. Enters(m, m') => m'.cr[ASP] = m.cr[ASP]
      BY DEF Enters, ASP, PSQ, APSQ, APC, FI, FA
    <3> QED BY <3>1, <3>2, <3>3, <3>4 DEF Confined
  <2>5. CASE Stops(m, b, Execute(m), Execute(b))
    BY <2>1, <2>5, InterruptEnters DEF Stops
  <2>6. CASE Stops(Past(m), Past(b), Execute(m), Execute(b))
    BY <2>1, <2>6, NextEnters DEF Stops
  <2> QED BY <2>3, <2>4, <2>5, <2>6
<1>3. CASE TakeInterrupt
  BY <1>3, InterruptEnters DEF TakeInterrupt
<1>4. CASE FetchFault
  BY <1>1, <1>4 DEF FetchFault
<1>5. CASE DataFault
  <2>1. PICK G, V : Typed(m, G, V) BY MachineTyped
  <2>2. [m EXCEPT !.pc = Plus(@, {2})] = Past(m)
    BY <2>1 DEF Typed, Past
  <2>3. \E w, fa : m' = Error(Past(m), "PGNM", w, fa)
    BY <1>5, <2>2 DEF DataFault
  <2> QED BY <1>1, <2>3
<1> QED BY <1>2, <1>3, <1>4, <1>5 DEF ExecNext

\* A handler's step that does not return is none of the program's.
LEMMA HandlerSteps ==
    ASSUME RetryInv, ~AtUser(m), ExecNext
    PROVE  /\ AtUser(m') => Instruction
           /\ ~AtUser(m') => last' = last /\ retry' = retry
           /\ stack' = stack
<1>1. ~FetchFault /\ ~DataFault
  BY DEF FetchFault, DataFault
<1>2. CASE Instruction
  <2>1. ~AtUser(m') => retry' = retry
    BY <1>2 DEF Instruction, RetryInv
  <2> QED BY <1>2, <2>1 DEF Instruction, Remembered
<1>3. CASE TakeInterrupt
  <2>1. IsMachine(m)
    BY DEF RetryInv
  <2>2. ~AtUser(m')
    BY <1>3, <2>1, EntryLeavesUser DEF TakeInterrupt
  <2>3. retry' = retry /\ stack' = stack /\ Remembered
    BY <1>3 DEF TakeInterrupt
  <2> QED BY <2>2, <2>3 DEF Remembered
<1> QED BY <1>1, <1>2, <1>3 DEF ExecNext

\* A return gives back what the entry left.
LEMMA ReturnSeen ==
    ASSUME NEW y, NEW z, IsMachine(y), IsMachine(z), ~AtUser(z), PL \in z.cr[APSQ],
           Kept(y) = Kept(z), NEW again \in BOOLEAN, ~again => z.cr[APC] \in Word64,
           NEW x, x = Restore(y, IF again THEN Neg({2}) ELSE {})
    PROVE  Seen(x, FALSE) = Seen(z, again) /\ AtUser(x) /\ x.cr[ASP] = StackOf(z)
<1> DEFINE d == IF again THEN Neg({2}) ELSE {}
           swap == AE \in z.cr[APSQ]
           S(u) == {r \in 1..31 : AE \in u.cr[APSQ] => r # LR}
           C == {APC, APSQ, ASP} \cup ObRegisters
           K(u) == [r \in S(u) |-> u.regs[r]]
           Q(u) == [r \in C |-> u.cr[r]]
<1>1. Q(y) = Q(z) /\ K(y) = K(z) /\ Shared(y.mem) = Shared(z.mem)
  <2>1. \A u : Kept(u) = [regs |-> K(u), cr |-> Q(u), mem |-> Shared(u.mem)]
    BY DEF Kept
  <2> DEFINE h(u) == Shared(u.mem)
  <2> HIDE DEF K, Q, h
  <2>2. [regs |-> K(y), cr |-> Q(y), mem |-> h(y)] = [regs |-> K(z), cr |-> Q(z), mem |-> h(z)]
    BY <2>1 DEF h
  <2>3. K(y) = K(z) /\ Q(y) = Q(z) /\ h(y) = h(z)
    BY <2>2
  <2> QED BY <2>3 DEF h
<1>2. \A r \in C : y.cr[r] = z.cr[r]
  <2>1. \A r \in C : Q(y)[r] = y.cr[r] /\ Q(z)[r] = z.cr[r]
    OBVIOUS
  <2> HIDE DEF Q
  <2> QED BY <1>1, <2>1
<1>3. y.cr[APC] = z.cr[APC] /\ y.cr[APSQ] = z.cr[APSQ] /\ y.cr[ASP] = z.cr[ASP]
  BY <1>2
<1>4. \A r \in S(z) : y.regs[r] = z.regs[r]
  <2>1. S(y) = S(z)
    BY <1>3
  <2>2. \A r \in S(z) : K(y)[r] = y.regs[r] /\ K(z)[r] = z.regs[r]
    BY <2>1
  <2> HIDE DEF K, S
  <2> QED BY <1>1, <2>2
<1> HIDE DEF C, K, Q, d
<1>5. /\ x.pc = Plus(y.cr[APC], d) /\ x.mem = y.mem /\ x.cr[PSQ] = y.cr[APSQ]
      /\ x.cr[ASP] = IF AE \in y.cr[APSQ] THEN y.regs[SP] ELSE y.cr[ASP]
      /\ \A r \in (0..47) \ {PSQ, ASP} : x.cr[r] = y.cr[r]
      /\ AE \notin y.cr[APSQ] => x.regs = y.regs
      /\ AE \in y.cr[APSQ] =>
           /\ x.regs[SP] = y.regs[X8] /\ x.regs[LR] = y.regs[X9]
           /\ \A r \in (1..31) \ {SP, LR} : x.regs[r] = y.regs[r]
  <2>1. x = Restore(y, d)
    BY DEF d
  <2> QED BY <2>1, RestoreParts
<1>6. x.cr[PSQ] = z.cr[APSQ] /\ AtUser(x)
  BY <1>3, <1>5 DEF AtUser
<1>7. x.cr[ASP] = StackOf(z)
  <2>1. SP \in S(z)
    BY DEF SP, LR
  <2> QED BY <1>3, <1>4, <1>5, <2>1 DEF StackOf
<1>8. x.pc = IF again THEN Minus(z.cr[APC], {2}) ELSE z.cr[APC]
  <2>1. CASE again
    BY <1>3, <1>5, <2>1 DEF d, Minus
  <2>2. CASE ~again
    <3>1. x.pc = Plus(z.cr[APC], {})
      BY <1>3, <1>5, <2>2 DEF d
    <3> QED BY <2>2, <3>1, SumOfNothing
  <2> QED BY <2>1, <2>2
<1>9. ObjectsOf(x) = ObjectsOf(z)
  <2>1. \A r \in ObRegisters : x.cr[r] = z.cr[r]
    <3>1. \A r \in ObRegisters : r \in C /\ r \in (0..47) \ {PSQ, ASP}
      BY DEF C, ObRegisters, OB0, PSQ, ASP
    <3> QED BY <1>2, <1>5, <3>1
  <2> QED BY <2>1 DEF ObjectsOf
<1>10. ASSUME NEW r \in Ours(z.cr[APSQ])
       PROVE  x.regs[r] = IF swap /\ r = SP THEN z.regs[X8]
                          ELSE IF swap /\ r = LR THEN z.regs[X9] ELSE z.regs[r]
  <2>1. CASE ~swap
    <3>1. r \in S(z)
      BY <2>1 DEF Ours
    <3> QED BY <1>3, <1>4, <1>5, <2>1, <3>1
  <2>2. CASE swap
    <3>1. X8 \in S(z) /\ X9 \in S(z) /\ (r # LR => r \in S(z)) /\ r \in 1..31 /\ SP # LR
      BY DEF X8, X9, LR, SP, Ours
    <3>2. y.regs[X8] = z.regs[X8] /\ y.regs[X9] = z.regs[X9]
      BY <1>4, <3>1
    <3>3. /\ x.regs[SP] = y.regs[X8] /\ x.regs[LR] = y.regs[X9]
          /\ \A q \in (1..31) \ {SP, LR} : x.regs[q] = y.regs[q]
      BY <1>3, <1>5, <2>2
    <3> QED BY <1>4, <2>2, <3>1, <3>2, <3>3
  <2> QED BY <2>1, <2>2
<1> DEFINE g == [r \in Ours(z.cr[APSQ]) |-> IF swap /\ r = SP THEN z.regs[X8]
                                            ELSE IF swap /\ r = LR THEN z.regs[X9] ELSE z.regs[r]]
<1>11. [r \in Ours(x.cr[PSQ]) |-> x.regs[r]] = g
  BY <1>6, <1>10
<1>12. Seen(x, FALSE) = [regs |-> g, pc |-> x.pc, psq |-> z.cr[APSQ], objects |-> ObjectsOf(x),
                         mem |-> Shared(x.mem)]
  BY <1>6, <1>11 DEF Seen
<1>13. Seen(z, again) = [regs |-> g, pc |-> IF again THEN Minus(z.cr[APC], {2}) ELSE z.cr[APC],
                         psq |-> z.cr[APSQ], objects |-> ObjectsOf(z), mem |-> Shared(z.mem)]
  BY DEF Seen
<1> HIDE DEF g
<1>14. Seen(x, FALSE) = Seen(z, again)
  BY <1>1, <1>5, <1>8, <1>9, <1>12, <1>13
<1> QED BY <1>6, <1>7, <1>14
-----------------------------------------------------------------------------
ProgramInv ==
    /\ RetryInv /\ View.pc \in Word64
    /\ ~AtUser(m) => IsMachine(last) /\ ~AtUser(last) /\ PL \in last.cr[APSQ]
StackInv == IF AtUser(m) THEN m.cr[ASP] = stack ELSE StackOf(last) = stack
BothInv == ProgramInv /\ StackInv

LEMMA UserView ==
    ASSUME RetryInv, AtUser(m)
    PROVE  View = ProgramOf(m, m.pc) /\ View.pc = m.pc
<1>1. last = m /\ retry = FALSE
  BY DEF RetryInv
<1>2. View = ProgramOf(m, m.pc)
  BY <1>1 DEF View, Seen, ProgramOf
<1>3. ProgramOf(m, m.pc).pc = m.pc
  BY DEF ProgramOf
<1> QED BY <1>2, <1>3

LEMMA HandlerView ==
    ASSUME ~AtUser(last)
    PROVE  /\ View.psq = last.cr[APSQ]
           /\ View.pc = IF retry THEN Minus(last.cr[APC], {2}) ELSE last.cr[APC]
BY DEF View, Seen

LEMMA ProgramBegins == ExecInit => BothInv /\ WithoutPrivilege(View)
<1> SUFFICES ASSUME ExecInit PROVE BothInv /\ WithoutPrivilege(View)
  OBVIOUS
<1>1. /\ IsMachine(m) /\ PL \in m.cr[PSQ] /\ m.pc \in Word64
      /\ retry = FALSE /\ last = m /\ stack = m.cr[ASP]
  BY StartsAssumption DEF ExecInit
<1>2. AtUser(m) /\ RetryInv
  BY <1>1 DEF AtUser, RetryInv
<1>3. View = ProgramOf(m, m.pc) /\ View.pc = m.pc
  BY <1>2, UserView
<1>4. ProgramOf(m, m.pc).psq = m.cr[PSQ]
  BY DEF ProgramOf
<1> QED BY <1>1, <1>2, <1>3, <1>4 DEF BothInv, ProgramInv, StackInv, WithoutPrivilege

LEMMA ProgramStep ==
    ASSUME BothInv, [ExecNext]_execVars, [GivesBack /\ Careful]_execVars
    PROVE  BothInv' /\ (View' = View \/ View' = Executed(View))
<1>1. RetryInv /\ IsMachine(m)
  BY DEF BothInv, ProgramInv, RetryInv
<1>2. RetryInv'
  BY <1>1, RetryKept
<1>3. CASE UNCHANGED execVars
  <2>1. m' = m /\ retry' = retry /\ last' = last /\ stack' = stack
    BY <1>3 DEF execVars
  <2>2. View' = View
    BY <2>1 DEF View
  <2>3. BothInv'
    BY <1>2, <2>1, <2>2 DEF BothInv, ProgramInv, StackInv
  <2> QED BY <2>2, <2>3
<1>4. ASSUME ExecNext, GivesBack, Careful, AtUser(m)
      PROVE  BothInv' /\ (View' = View \/ View' = Executed(View))
  <2>1. View = ProgramOf(m, m.pc) /\ View.pc = m.pc /\ m.pc \in Word64 /\ m.cr[ASP] = stack
    BY <1>1, <1>4, UserView DEF BothInv, ProgramInv, StackInv
  <2>2. stack' = stack /\ last' = m'
    BY <1>4 DEF ExecNext, Instruction, TakeInterrupt, FetchFault, DataFault, Remembered
  <2>3. (AtUser(m') /\ m'.cr[ASP] = m.cr[ASP]) \/ Entered(m, m')
    BY <1>1, <1>4, <2>1, UserSteps
  <2>4. StackInv'
    BY <2>1, <2>2, <2>3 DEF StackInv, Entered
  <2>5. ~AtUser(m') => IsMachine(last') /\ ~AtUser(last') /\ PL \in last'.cr[APSQ]
    BY <2>2, <2>3 DEF Entered
  <2>6. (View' = View \/ View' = Executed(View)) /\ View'.pc \in Word64
    <3>1. CASE Instruction
      <4>1. m' = Execute(m) /\ retry' = FALSE
        <5>1. retry = FALSE
          BY <1>1, <1>4 DEF RetryInv
        <5> QED BY <3>1, <5>1 DEF Instruction
      <4>2. View' = Seen(Execute(m), FALSE)
        BY <2>2, <4>1 DEF View
      <4>3. CarefulIn(m)
        BY <1>4, CarefulMachine
      <4>4. /\ Seen(Execute(m), FALSE) = Executed(ProgramOf(m, m.pc))
            /\ Seen(Execute(m), FALSE).pc \in Word64
        BY <1>1, <1>4, <2>1, <4>3, RoundSeen
      <4> QED BY <2>1, <4>2, <4>4
    <3>2. CASE TakeInterrupt \/ FetchFault \/ DataFault
      <4>1. View' = View
        BY <1>1, <1>4, <2>1, <3>2, StepUnseen
      <4> QED BY <2>1, <4>1
    <3> QED BY <1>4, <3>1, <3>2 DEF ExecNext
  <2> QED BY <1>2, <2>4, <2>5, <2>6 DEF BothInv, ProgramInv
<1>5. ASSUME ExecNext, GivesBack, ~AtUser(m)
      PROVE  BothInv' /\ View' = View
  <2>1. /\ View.pc \in Word64 /\ IsMachine(last) /\ ~AtUser(last) /\ PL \in last.cr[APSQ]
        /\ StackOf(last) = stack
    BY <1>5 DEF BothInv, ProgramInv, StackInv
  <2>2. /\ AtUser(m') => Instruction
        /\ ~AtUser(m') => last' = last /\ retry' = retry
        /\ stack' = stack
    BY <1>1, <1>5, HandlerSteps
  <2>3. CASE ~AtUser(m')
    <3>1. View' = View
      BY <2>2, <2>3 DEF View
    <3> QED BY <1>2, <2>1, <2>2, <2>3, <3>1 DEF BothInv, ProgramInv, StackInv
  <2>4. CASE AtUser(m')
    <3>1. m' = Restore(m, IF retry THEN Neg({2}) ELSE {}) /\ Kept(m) = Kept(last)
      BY <1>5, <2>4 DEF GivesBack
    <3>2. last' = m' /\ retry' = FALSE
      BY <2>2, <2>4 DEF Instruction, Remembered
    <3>3. retry \in BOOLEAN
      BY <1>1 DEF RetryInv
    <3>4. ~retry => last.cr[APC] \in Word64
      BY <2>1, HandlerView
    <3>5. Seen(m', FALSE) = Seen(last, retry) /\ m'.cr[ASP] = StackOf(last)
      BY <1>1, <2>1, <3>1, <3>3, <3>4, ReturnSeen
    <3>6. View' = View
      BY <3>2, <3>5 DEF View
    <3>7. m'.cr[ASP] = stack'
      BY <2>1, <2>2, <3>5
    <3> QED BY <1>2, <2>1, <2>4, <3>6, <3>7 DEF BothInv, ProgramInv, StackInv
  <2> QED BY <2>3, <2>4
<1> QED BY <1>3, <1>4, <1>5

(* Programs run as if alone: for every program, every handler and every     *)
(* memory, as long as both are Disciplined, no interrupt and no page fault  *)
(* loses, repeats or tears an instruction of the program (risc1.c 61-86,    *)
(* 187-212; risc2.c): its registers, its place, its status, its objects and *)
(* its memory go on as Program says.                                        *)
THEOREM ProgramsRun == ExecSpec /\ Disciplined => ProgramRuns
<1>1. ExecInit => BothInv /\ WithoutPrivilege(View)
  BY ProgramBegins
<1>2. BothInv /\ [ExecNext]_execVars /\ [GivesBack /\ Careful]_execVars
        => BothInv' /\ [View' = Executed(View)]_View
  BY ProgramStep
<1> QED BY <1>1, <1>2, PTL DEF ExecSpec, Disciplined, ProgramRuns, Alone!Spec, Alone!Init, Alone!Next

(* The handlers' stack is where it was whenever a program runs, for the     *)
(* exchanges of AE undo each other (risc1.c 61-86).                         *)
THEOREM StackIsKept == ExecSpec /\ Disciplined => []StackKept
<1>1. ExecInit => BothInv
  BY ProgramBegins
<1>2. BothInv /\ [ExecNext]_execVars /\ [GivesBack /\ Careful]_execVars => BothInv'
  BY ProgramStep
<1>3. BothInv => StackKept
  BY DEF BothInv, StackInv, StackKept
<1> QED BY <1>1, <1>2, <1>3, PTL DEF ExecSpec, Disciplined
=============================================================================

-------------------------------- MODULE Tlb --------------------------------
(***************************************************************************)
(* The translation buffer (tlb.c) under the instructions that manage it    *)
(* (lcca64_xmu_7) and the searches of page translation.  The entries are   *)
(* an array; a hash table (uthash) links the entries that have a page      *)
(* group.  The table keeps for each entry the key it was linked under, and *)
(* compares a searched key with the entry's key of the moment, so that an  *)
(* entry whose key changes while it is linked is lost to searches.         *)
(*                                                                         *)
(* Only the CPU thread uses the buffer: an instruction is not interrupted. *)
(* tlb_invpgid goes through the rows in steps here, and nothing else       *)
(* happens until it is done.                                               *)
(***************************************************************************)
EXTENDS Integers

CONSTANTS TLB_SIZE,   \* 128
          Tags,       \* page tags: the key without its low ten bits
          ZeroTag,
          Groups,     \* page group identifiers, 0 left out
          Values,     \* page descriptors
          Operands    \* what the guest can name as a row: any number

ASSUME SizeAssumption == TLB_SIZE \in Nat \ {0}
ASSUME TagsAssumption == ZeroTag \in Tags
ASSUME GroupsAssumption == Groups \subseteq Nat \ {0}
ASSUME OperandsAssumption == Operands \subseteq Nat

Row == 0..TLB_SIZE-1

\* A key is a tag and a page group; PGID and PTAG take it apart.
Key == Tags \X (Groups \cup {0})
Pgid(k) == k[2]
ZeroKey == <<ZeroTag, 0>>

\* What tlb_lookup returns when it finds nothing.
None == -1

VARIABLES
    key, value,   \* the entries
    hash,         \* the linked entries: pairs of a row and the key it was linked under
    scan,         \* the row tlb_invpgid looks at, TLB_SIZE when it does not run
    op            \* history: the last instruction, its operands, and what it found

vars == <<key, value, hash, scan, op>>

\* A guest can ask to remove any number as a page group.
Ids == Groups \cup Operands

Ops == {<<"none">>}
         \cup {"key"} \X Row \X Key
         \cup {"value"} \X Row \X Values
         \cup {"search"} \X Key \X (Row \cup {None})
         \cup {"invpgid"} \X Ids

TypeOK ==
    /\ key \in [Row -> Key]
    /\ value \in [Row -> Values]
    /\ hash \in SUBSET (Row \X Key)
    /\ scan \in 0..TLB_SIZE
    /\ op \in Ops

\* main clears the cpu structure, the buffer with it.
Init ==
    /\ key = [i \in Row |-> ZeroKey]
    /\ \E zero \in Values : value = [i \in Row |-> zero]
    /\ hash = {}
    /\ scan = TLB_SIZE
    /\ op = <<"none">>

Idle == scan = TLB_SIZE

\* The argument of tlb_invpgid, while it runs.
Id == op[2]
-----------------------------------------------------------------------------
(* The hash table, with keys that are fields of the entries.               *)

\* HASH_FIND: the linked entries it can return.
Find(k) == {i \in Row : <<i, k>> \in hash /\ key[i] = k}

\* HASH_DEL of what HASH_FIND returns for k, if it returns anything.
Deleted(k) ==
    IF Find(k) = {} THEN {hash}
    ELSE {{h \in hash : h[1] # o} : o \in Find(k)}
-----------------------------------------------------------------------------
\* Mutant: the row's new key is not searched for first.
TlbSet_NoSearch(i, k) ==
    IF k = key[i]
      THEN UNCHANGED <<key, hash>>
      ELSE /\ key' = [key EXCEPT ![i] = k]
           /\ \E rest \in Deleted(key[i]) :
                 hash' = rest \cup IF Pgid(k) # 0 THEN {<<i, k>>} ELSE {}

\* Mutant: the entry is not taken out of the table when its key changes.
TlbSet_NoDelete(i, k) ==
    IF k = key[i] \/ Find(k) # {}
      THEN UNCHANGED <<key, hash>>
      ELSE /\ key' = [key EXCEPT ![i] = k]
           /\ hash' = hash \cup IF Pgid(k) # 0 THEN {<<i, k>>} ELSE {}

\* tlb_set.  A key that another row has is refused, with a result that no
\* instruction looks at.
TlbSet(i, k) ==
    IF k = key[i] \/ Find(k) # {}
      THEN UNCHANGED <<key, hash>>
      ELSE /\ key' = [key EXCEPT ![i] = k]
           /\ \E rest \in Deleted(key[i]) :
                 hash' = rest \cup IF Pgid(k) # 0 THEN {<<i, k>>} ELSE {}

\* The row an operand names.
RowOf(x) == x % TLB_SIZE

\* Function 5: a row's key.
WriteKey == \E x \in Operands, k \in Key :
    /\ Idle
    /\ TlbSet(RowOf(x), k)
    /\ op' = <<"key", RowOf(x), k>>
    /\ UNCHANGED <<value, scan>>

\* Function 7: a row's value.
WriteValue == \E x \in Operands, v \in Values :
    /\ Idle
    /\ value' = [value EXCEPT ![RowOf(x)] = v]
    /\ op' = <<"value", RowOf(x), v>>
    /\ UNCHANGED <<key, hash, scan>>

\* What a search can return.
Found(k) == IF Find(k) = {} THEN {None} ELSE Find(k)

\* Mutant: the entry after the one found.
Lookup_NextRow == \E k \in Key :
    /\ Idle
    /\ \E i \in Found(k) : op' = <<"search", k, i + 1>>
    /\ UNCHANGED <<key, value, hash, scan>>

\* tlb_lookup, for function 2 and for translate_page.
Lookup == \E k \in Key :
    /\ Idle
    /\ \E i \in Found(k) : op' = <<"search", k, i>>
    /\ UNCHANGED <<key, value, hash, scan>>

\* Function 3 calls tlb_invpgid with any number, which need not be a group.
StartInvalidate ==
    /\ Idle
    /\ scan' = 0
    /\ \E id \in Ids : op' = <<"invpgid", id>>
    /\ UNCHANGED <<key, value, hash>>

\* Mutant: the loop ends one row early.
InvalidateRow_StopsEarly ==
    /\ scan < TLB_SIZE
    /\ IF Pgid(key[scan]) = Id
         THEN TlbSet(scan, ZeroKey)
         ELSE UNCHANGED <<key, hash>>
    /\ scan' = IF scan + 2 = TLB_SIZE THEN TLB_SIZE ELSE scan + 1
    /\ UNCHANGED <<value, op>>

\* A round of its loop.
InvalidateRow ==
    /\ scan < TLB_SIZE
    /\ IF Pgid(key[scan]) = Id
         THEN TlbSet(scan, ZeroKey)
         ELSE UNCHANGED <<key, hash>>
    /\ scan' = scan + 1
    /\ UNCHANGED <<value, op>>

Next == WriteKey \/ WriteValue \/ Lookup \/ StartInvalidate \/ InvalidateRow

Spec == Init /\ [][Next]_vars
-----------------------------------------------------------------------------
(* Properties.                                                             *)

\* The table links exactly the rows with a page group, each under its own key: no
\* sequence of tlb_set and tlb_invpgid leaves a stale or a missing link.
HashIsIndex == hash = {<<i, key[i]>> : i \in {j \in Row : Pgid(key[j]) # 0}}

\* No two rows with a page group have the same key: a search has one answer.
KeysUnique ==
    \A i, j \in Row : Pgid(key[i]) # 0 /\ key[i] = key[j] => i = j

\* The buffer is searched as if every row were compared (see AssocTlb), and a page
\* group leaves it at once: the rows tlb_invpgid has still to reach count as cleared.
Remaining(i) == ~Idle /\ scan <= i /\ Pgid(key[i]) = Id
KeyView == [i \in Row |-> IF Remaining(i) THEN ZeroKey ELSE key[i]]

Assoc == INSTANCE AssocTlb WITH key <- KeyView
AssocSpec == Assoc!Spec
=============================================================================

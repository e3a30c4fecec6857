------------------------------ MODULE AssocTlb ------------------------------
(***************************************************************************)
(* What the translation buffer promises: rows of a key and a value that    *)
(* can be searched by key.  A key with no page group is in no search.      *)
(***************************************************************************)
CONSTANTS Row, Key, Values, ZeroKey,
          Pgid(_),   \* the page group of a key
          Ids,       \* what can be named as a page group to remove
          None       \* the result of a search that finds nothing

VARIABLES key, value,
          op   \* the last instruction, its operands, and what it found

vars == <<key, value, op>>

\* The rows a search for k finds.
Match(k) == IF Pgid(k) = 0 THEN {} ELSE {i \in Row : key[i] = k}

Init ==
    /\ key = [i \in Row |-> ZeroKey]
    /\ \E zero \in Values : value = [i \in Row |-> zero]
    /\ op = <<"none">>

\* A row takes a new key, unless another row can be found by it.
SetKey == \E i \in Row, k \in Key :
    /\ op' = <<"key", i, k>>
    /\ key' = IF Match(k) = {} THEN [key EXCEPT ![i] = k] ELSE key
    /\ UNCHANGED value

SetValue == \E i \in Row, v \in Values :
    /\ op' = <<"value", i, v>>
    /\ value' = [value EXCEPT ![i] = v]
    /\ UNCHANGED key

\* All rows of a page group at once.
Invalidate == \E id \in Ids :
    /\ op' = <<"invpgid", id>>
    /\ key' = [i \in Row |-> IF Pgid(key[i]) = id THEN ZeroKey ELSE key[i]]
    /\ UNCHANGED value

\* The row found, and there never is a choice.
Search == \E k \in Key :
    /\ \E i \in IF Match(k) = {} THEN {None} ELSE Match(k) : op' = <<"search", k, i>>
    /\ \A i, j \in Match(k) : i = j
    /\ UNCHANGED <<key, value>>

Next == SetKey \/ SetValue \/ Invalidate \/ Search

Spec == Init /\ [][Next]_vars
=============================================================================

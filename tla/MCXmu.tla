------------------------------- MODULE MCXmu -------------------------------
(***************************************************************************)
(* A space of two pages and one object, a buffer of two rows, two page     *)
(* groups.  The second base is not that of a page, and addresses beyond it *)
(* wrap.  A descriptor covers one page or both.                            *)
(***************************************************************************)
EXTENDS Xmu

MCTags == {0, 1}
MCBases == {0, 3}
MCAddresses == 0..3
MCValues == {[tag |-> 0, flags |-> {}],
             [tag |-> 1, flags |-> {"P"}],
             [tag |-> 1, flags |-> {"P", "W"}]}
MCDescriptors == {[limit |-> 2, flags |-> {"P", "R", "w", "X"}],
                  [limit |-> 1, flags |-> {"W", "x"}]}

\* The last instruction only matters while its loop runs: nothing else reads op,
\* except the type invariant, so that an op of a wrong type stays visible.
View ==
    <<key, value, hash, scan, IF Idle /\ op \in Ops THEN <<>> ELSE op, status, objects>>
=============================================================================

------------------------------ MODULE Mailbox ------------------------------
(***************************************************************************)
(* What lcca_intr and lcca_run promise together about external interrupts: *)
(* each line is a mailbox of one message.  Only its device's call posts    *)
(* to it, once per call; posting fills it, and replaces the message of an  *)
(* interrupt not taken yet.  Taking an interrupt empties it and hands over *)
(* the latest message, so that none is taken that was not posted since the *)
(* line was last taken.                                                    *)
(***************************************************************************)
CONSTANTS Lines, Msgs

VARIABLES pending, msg,
          handed,   \* the message that was taken last
          dev       \* where each line's device stands in its call

vars == <<pending, msg, handed, dev>>

Init ==
    /\ pending = {}
    /\ handed \in Msgs
    /\ msg = [l \in Lines |-> handed]
    /\ dev = [l \in Lines |-> "idle"]

Post(l) ==
    /\ dev[l] = "idle"
    /\ dev' = [dev EXCEPT ![l] = "signal"]
    /\ pending' = pending \cup {l}
    /\ \E m \in Msgs : msg' = [msg EXCEPT ![l] = m]
    /\ handed' = handed

Return(l) ==
    /\ dev[l] = "signal"
    /\ dev' = [dev EXCEPT ![l] = "idle"]
    /\ UNCHANGED <<pending, msg, handed>>

Take(l) ==
    /\ l \in pending
    /\ pending' = pending \ {l}
    /\ handed' = msg[l]
    /\ UNCHANGED <<msg, dev>>

Next == \E l \in Lines : Post(l) \/ Return(l) \/ Take(l)

Spec == Init /\ [][Next]_vars
=============================================================================

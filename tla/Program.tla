------------------------------ MODULE Program ------------------------------
(***************************************************************************)
(* What a program may rely on: its instructions execute one after another, *)
(* each once and whole, whatever interrupts and page faults come between.  *)
(***************************************************************************)
CONSTANTS Unprivileged(_),   \* whether this is a program without privilege
          Executed(_)        \* a program after one more instruction

VARIABLE program

Init == Unprivileged(program)
Next == program' = Executed(program)
Spec == Init /\ [][Next]_program
=============================================================================

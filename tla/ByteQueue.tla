------------------------------ MODULE ByteQueue ------------------------------
(***************************************************************************)
(* What each half of the console promises: a queue.  What comes out is     *)
(* what went in, each byte at most once and in the order in which it went  *)
(* in.                                                                     *)
(***************************************************************************)
EXTENDS Sequences

CONSTANT Chars

VARIABLES input,    \* what has gone in
          queue,    \* gone in and not come out yet
          output    \* what has come out

vars == <<input, queue, output>>

Init == input = <<>> /\ queue = <<>> /\ output = <<>>

Accept == /\ \E ch \in Chars : /\ input' = Append(input, ch)
                               /\ queue' = Append(queue, ch)
          /\ UNCHANGED output

Deliver == /\ queue # <<>>
           /\ queue' = Tail(queue)
           /\ output' = Append(output, Head(queue))
           /\ UNCHANGED input

Next == Accept \/ Deliver

Spec == Init /\ [][Next]_vars
=============================================================================

------------------------------ MODULE MCKeyRing ------------------------------
(* KeyRing with a ring of three slots, which holds two keys. *)
EXTENDS KeyRing
=============================================================================

----------------------------- MODULE MCShutdown -----------------------------
(* Shutdown with up to two bytes in the printing ring. *)
EXTENDS Shutdown
=============================================================================

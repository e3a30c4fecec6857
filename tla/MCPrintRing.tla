----------------------------- MODULE MCPrintRing -----------------------------
(* PrintRing with a ring of three bytes, gone around twice. *)
EXTENDS PrintRing
=============================================================================

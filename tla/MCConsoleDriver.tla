--------------------------- MODULE MCConsoleDriver ---------------------------
(* ConsoleDriver with a ring of three slots, which holds two keys. *)
EXTENDS ConsoleDriver
=============================================================================

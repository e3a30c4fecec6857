------------------------------- MODULE MCLcca -------------------------------
(* Lcca with the one line that a device of the emulator raises, CONSOLE_IRQ. *)
EXTENDS Lcca

MCLines == {4}
=============================================================================

-------------------------------- MODULE Psq --------------------------------
(***************************************************************************)
(* The program status word (CR_PSQ) as a set of flags, and what the two    *)
(* operations that swap it do: interrupt entry (intr_internal) and return  *)
(* (intr_restore_disp).  The page group identifier, the other field of the *)
(* word, is a number of its own wherever a module needs it: neither        *)
(* operation changes it, except by restoring the whole word.               *)
(***************************************************************************)

\* The flag bits of CR_PSQ: interrupts enabled, (problem) privilege level,
\* wait state, long-immediate word pending, the OC bit, alternate environment.
PsqFlags == {"EI", "PL", "WS", "LG", "OC", "AE"}

\* The bits that CR_PSQ_INTR_ENTRY_MASK (all ones but the low five) clears.
EntryClears == {"EI", "PL", "WS", "LG", "OC"}

\* The status word an interrupt handler starts with.
EntryPsq(psq) == psq \ EntryClears
=============================================================================

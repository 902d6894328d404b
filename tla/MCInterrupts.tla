---------------------------- MODULE MCInterrupts ----------------------------
(* Interrupts for TLC; the .cfg files choose the constants. *)
EXTENDS Interrupts
=============================================================================

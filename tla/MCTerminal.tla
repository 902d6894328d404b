----------------------------- MODULE MCTerminal -----------------------------
(* Terminal for TLC; the .cfg files choose the constants. *)
EXTENDS Terminal
=============================================================================

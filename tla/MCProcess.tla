----------------------------- MODULE MCProcess -----------------------------
(* Process for TLC; the .cfg files choose the constants. *)
EXTENDS Process
=============================================================================

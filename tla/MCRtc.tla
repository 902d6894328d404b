------------------------------- MODULE MCRtc -------------------------------
(* Rtc for TLC; the .cfg files choose the constants. *)
EXTENDS Rtc
=============================================================================

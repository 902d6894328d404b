------------------------------ MODULE MCVideo ------------------------------
(* Video for TLC: what the programs write. *)
EXTENDS Video
MCTexts == {<<"a">>, <<NL, "a">>}
============================================================================

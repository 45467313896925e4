----------------------------- MODULE MCHandoff -----------------------------
(***************************************************************************)
(* Handoff for TLC: two strings, so that the third message is skipped, and *)
(* messages that fit, since texts do not matter here.                      *)
(***************************************************************************)
EXTENDS Handoff
=============================================================================

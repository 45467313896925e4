-------------------------- MODULE MCEarlyAppender --------------------------
(***************************************************************************)
(* EarlyAppender with two strings for TLC.  A message is empty, fits, or   *)
(* is longer than the strings, whose capacity is the requested size or     *)
(* more.                                                                   *)
(***************************************************************************)
EXTENDS EarlyAppender
=============================================================================

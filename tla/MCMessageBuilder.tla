-------------------------- MODULE MCMessageBuilder --------------------------
(***************************************************************************)
(* MessageBuilder for TLC: the builders are alike.                         *)
(***************************************************************************)
EXTENDS MessageBuilder, TLC

BuilderSymmetry == Permutations(Builders)
=============================================================================

---------------------------- MODULE MCFileSinks ----------------------------
(***************************************************************************)
(* FileSinks for TLC: two appenders, one file and the one that both        *)
(* standard descriptors are redirected to.                                 *)
(***************************************************************************)
EXTENDS FileSinks, TLC

Symmetry == Permutations(Appenders)
=============================================================================

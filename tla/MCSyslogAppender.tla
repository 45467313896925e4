------------------------- MODULE MCSyslogAppender --------------------------
(***************************************************************************)
(* SyslogAppender for TLC: three appenders on three threads.               *)
(***************************************************************************)
EXTENDS SyslogAppender, TLC

Symmetry == Permutations(Appenders)
=============================================================================

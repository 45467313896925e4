----------------------------- MODULE MCLoggers -----------------------------
(***************************************************************************)
(* Two backends, three places for Loggers and two threads.                 *)
(***************************************************************************)
EXTENDS Loggers, TLC

MCArguments == {<<>>} \cup {<<n>> : n \in Names}

Symmetry == Permutations(Backends) \cup Permutations(Loggers)
               \cup Permutations(Threads) \cup Permutations(Names)
=============================================================================

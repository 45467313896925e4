----------------------------- MODULE MCBackend -----------------------------
(***************************************************************************)
(* Instances of Backend for TLC.                                           *)
(*                                                                         *)
(*   chain    A outputs to sink 1 and forwards (2) to B, which outputs to  *)
(*            sink 3: every sink is attached to one backend                *)
(*   diamond  A forwards to B (2) and to C (4), B forwards to C (5), and   *)
(*            C outputs to sink 7                                          *)
(***************************************************************************)
EXTENDS BackendRefinement, TLC

ChainBackends == {"A", "B"}
ChainTarget == [f \in {2} |-> "B"]
ChainWiring == [b \in ChainBackends |-> IF b = "A" THEN {1, 2} ELSE {3}]
ChainRank == [b \in ChainBackends |-> IF b = "A" THEN 0 ELSE 1]

DiamondBackends == {"A", "B", "C"}
DiamondTarget == [f \in {2, 4, 5} |-> IF f = 2 THEN "B" ELSE "C"]
DiamondWiring ==
    [b \in DiamondBackends |->
        CASE b = "A" -> {2, 4} [] b = "B" -> {5} [] b = "C" -> {7}]
DiamondRank ==
    [b \in DiamondBackends |->
        CASE b = "A" -> 0 [] b = "B" -> 1 [] b = "C" -> 2]

(* The state after start-up code has made some of the forwards and has     *)
(* attached these and the sinks as in Wiring                               *)
Wired(forwards) ==
    /\ Init!1 /\ Init!2
    /\ appenders = [b \in Backends |-> Wiring[b] \cap (Sinks \cup forwards)]
    /\ Init!4 /\ Init!5
    /\ constructed = forwards
    /\ Init!7 /\ Init!8 /\ Init!9 /\ Init!10

ChainSpec == (\E made \in SUBSET Forwards : Wired(made)) /\ [][Next]_vars

WiredSpec == Wired(Forwards) /\ [][Next]_vars

FairWiredSpec ==
    /\ WiredSpec
    /\ \A t \in Threads : WF_vars(Step(t))
    /\ \A t \in Threads, b \in Backends : WF_vars(ReleaseLock(t, b))

ThreadSymmetry == Permutations(Threads)
=============================================================================

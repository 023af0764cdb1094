----------------------------- MODULE MCSimulator -----------------------------
(* Instances of Simulator: pods with integer requests on nodes with        *)
(* integer capacities.                                                     *)
EXTENDS SimulatorInv, TLC, FiniteSetsExt

CONSTANTS a, b, c, d, old, n1, n2, n3

Request  == a :> 1 @@ b :> 2 @@ c :> 1 @@ d :> 1 @@ old :> 1
Capacity == n1 :> 2 @@ n2 :> 2 @@ n3 :> 2

CONSTANTS MCBatch   \* how many of a, b, c, d are simulated

MCNewPods    == SubSeq(<<a, b, c, d>>, 1, MCBatch)
MCPods       == {MCNewPods[i] : i \in 1..MCBatch}
MCCheckpoint == old :> n1

(* The sets of pods whose requests fit in the capacity of the node. *)
MCFeasible ==
    [n \in Nodes |->
       {S \in SUBSET AllPods : MapThenSumSet(LAMBDA p : Request[p], S) <= Capacity[n]}]
=============================================================================

--------------------------- MODULE GreedyPlacement ---------------------------
(***************************************************************************)
(* What a simulation run promises, without its goroutines: the simulated   *)
(* pods are taken one by one from the end of the list; each is placed on   *)
(* some node that can host it together with the checkpoint's pods and the  *)
(* pods placed before it, and refused if there is no such node, or if it   *)
(* cannot be scheduled at all.                                             *)
(***************************************************************************)
EXTENDS Naturals, Sequences

CONSTANTS Pods, NewPods, Nodes, Checkpoint, Feasible, BadPods

VARIABLES pending, placed, refused, done

vars == <<pending, placed, refused, done>>

Init ==
    /\ pending = NewPods
    /\ placed = <<>>
    /\ refused = <<>>
    /\ done = FALSE

PlacedOn(n) ==
    {q \in DOMAIN Checkpoint : Checkpoint[q] = n}
      \cup {placed[i].pod : i \in {j \in DOMAIN placed : placed[j].host = n}}

CanHost(p) ==
    IF p \in BadPods THEN {} ELSE {n \in Nodes : PlacedOn(n) \cup {p} \in Feasible[n]}

Turn    == pending[Len(pending)]
Advance == pending' = SubSeq(pending, 1, Len(pending) - 1)

Place ==
    /\ pending # <<>>
    /\ Advance
    /\ \E n \in CanHost(Turn) : placed' = Append(placed, [pod |-> Turn, host |-> n])
    /\ UNCHANGED <<refused, done>>

Refuse ==
    /\ pending # <<>>
    /\ Advance
    /\ CanHost(Turn) = {}
    /\ refused' = Append(refused, Turn)
    /\ UNCHANGED <<placed, done>>

Finish ==
    /\ pending = <<>>
    /\ ~done
    /\ done' = TRUE
    /\ UNCHANGED <<pending, placed, refused>>

Next == Place \/ Refuse \/ Finish

Spec == Init /\ [][Next]_vars /\ WF_vars(Next)
=============================================================================

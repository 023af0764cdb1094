------------------------------ MODULE MCCommand ------------------------------
(* Instances of Command: two nodes of different size, a running pod, and   *)
(* files of one or two entries.                                            *)
EXTENDS Command

CONSTANTS n1, n2, old

Q(v, k) == [val |-> v, kind |-> k]

(* Pods with one container, with sums of values, with decimals in front of *)
(* and behind other requests, and with resources that are not printed.     *)
MCPlain    == << [cpu |-> Q(1, "int"), memory |-> Q(2, "int"), hugepages |-> Q(1, "int")] >>
MCSummed   == << [memory |-> Q(1, "int")],
                 [cpu |-> Q(1, "int"), memory |-> Q(2, "int"), hugepages |-> Q(3, "int"),
                  storage |-> Q(1, "int")] >>
MCLeading  == << [memory |-> Q(3, "fraction")], [memory |-> Q(1, "int")] >>
MCTrailing == << [memory |-> Q(1, "int")], [memory |-> Q(3, "fraction")] >>
MCLarge    == << [memory |-> Q(1, "int")], [memory |-> Q(5, "large")] >>

MCEntries(shapes, nums, claims) ==
    [num : nums, containers : shapes, claimed : claims]

MCFiles ==
    LET first  == MCEntries({MCSummed, MCLeading, MCTrailing}, {-1, 2}, {TRUE})
        second == MCEntries({MCLarge}, {0, 1, 2}, {TRUE})
                    \cup MCEntries({MCPlain}, {1}, BOOLEAN)
    IN  {<<>>} \cup {<<e>> : e \in second} \cup {<<e, f>> : e \in first, f \in second}

(* The smallest file that shows a decimal behind another request. *)
MCDecimalFile == {<<e>> : e \in MCEntries({MCTrailing}, {1}, {TRUE})}

MCRunning == old :> << [memory |-> Q(2, "int")], [memory |-> Q(7, "large")] >>

MCCanHost(n, S) == Cardinality(S) <= (IF n = n1 THEN 2 ELSE 1)
=============================================================================

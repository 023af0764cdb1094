------------------------------- MODULE Review -------------------------------
(***************************************************************************)
(* pkg/framework/report.go: GetReport makes, for the failed, the           *)
(* successful and the checkpoint's pods, a review of what they require     *)
(* (Spec) and of what became of them (Status), and the table that is       *)
(* printed is made from the latter.                                        *)
(*                                                                         *)
(* What a container requests is a resource.Quantity.  One that fits in an  *)
(* int64 is a value; any other is a pointer to a decimal, which a copy of  *)
(* the quantity shares and which Quantity.Add changes in place.  So a      *)
(* request written "1.5Gi", or a very large one, lives in the pod, and the *)
(* sums that GetReport computes may refer to it.                           *)
(***************************************************************************)
EXTENDS Integers, FiniteSets, SequencesExt

CONSTANTS Scalar    \* names of extended and huge page resources

Primary == {"cpu", "memory", "nvidia-gpu"}
Columns == {"cpu", "memory"}

VARIABLES
    requests,   \* for each pod, what its containers request
    review,     \* GeneralReview.Review, by class of pods
    parts       \* how many of its six parts GetReport has made

(* A "fraction" ("1.5Gi") is written "1536Mi" when it is encoded again and *)
(* then fits; a "large" quantity never does.                               *)
Kinds      == {"int", "fraction", "large"}
Quantity   == [val : Int, kind : Kinds]
InPlace(q) == q.kind # "int"

(* What a list of containers requests: quantities by name of resource. *)
IsContainers(list) ==
    /\ list \in Seq(ToSet(list))
    /\ \A i \in DOMAIN list : \A r \in DOMAIN list[i] : list[i][r] \in Quantity

Reparsed(containers) ==
    [i \in DOMAIN containers |->
       [r \in DOMAIN containers[i] |->
          [containers[i][r] EXCEPT !.kind = IF @ = "fraction" THEN "int" ELSE @]]]

(* A sum is a value of its own, or the decimal of container i. *)
Val(v) == [at |-> 0, val |-> v]
Ref(i) == [at |-> i, val |-> 0]
Amount(sum, containers, r) ==
    IF sum.at = 0 THEN sum.val ELSE containers[sum.at][r].val

GetOr0(f, r) == IF r \in DOMAIN f THEN f[r] ELSE 0

(* Mutant: the request of a container replaces the sum. *)
ReplaceByContainer(a, i) ==
    LET c == a.containers[i] IN
    [a EXCEPT !.primary =
       [r \in Primary |-> IF r \in DOMAIN c THEN Val(c[r].val) ELSE @[r]]]

(* rQuantity.Add(sum); sum = rQuantity for cpu, memory and gpu; a sum of   *)
(* whole units for scalar resources, allocated when the first is met; any  *)
(* other resource is skipped.                                              *)
AddContainer(a, i) ==
    LET c      == a.containers[i]
        Sum(r) == c[r].val + Amount(a.primary[r], a.containers, r)
        Own(r) == r \in Primary /\ InPlace(c[r])
    IN  [containers |-> [a.containers EXCEPT ![i] =
            [r \in DOMAIN c |-> IF Own(r) THEN [c[r] EXCEPT !.val = Sum(r)] ELSE c[r]]],
         primary |-> [r \in Primary |->
            IF r \notin DOMAIN c THEN a.primary[r]
            ELSE IF Own(r) THEN Ref(i) ELSE Val(Sum(r))],
         scalar |-> [r \in DOMAIN a.scalar \cup (DOMAIN c \cap Scalar) |->
            GetOr0(a.scalar, r) + (IF r \in DOMAIN c THEN c[r].val ELSE 0)]]

getResourceRequest(containers) ==
    LET sum[i \in 0..Len(containers)] ==
          IF i = 0
          THEN [containers |-> containers,
                primary    |-> [r \in Primary |-> Val(0)],
                scalar     |-> <<>>]
          ELSE AddContainer(sum[i - 1], i)
    IN  sum[Len(containers)]

(* The requirements of a list of different pods, and the requests as they  *)
(* are then.                                                               *)
getPodsRequirements(pods) ==
    LET sums == [i \in DOMAIN pods |-> getResourceRequest(requests[pods[i].pod])]
        Index(p) == CHOOSE i \in DOMAIN pods : pods[i].pod = p
    IN  [requests |-> [p \in DOMAIN requests |->
            IF \E i \in DOMAIN pods : pods[i].pod = p
            THEN sums[Index(p)].containers ELSE requests[p]],
         list |-> [i \in DOMAIN pods |->
            [pod |-> pods[i].pod, primary |-> sums[i].primary, scalar |-> sums[i].scalar,
             host |-> pods[i].host, reason |-> pods[i].reason]]]

-----------------------------------------------------------------------------
Classes  == <<"failed", "success", "scheduled">>
NoReview == [c \in ToSet(Classes) |-> [spec |-> <<>>, status |-> <<>>, summary |-> <<>>]]

getReviewSpec(status) ==
    LET c == Classes[(parts \div 2) + 1]
        g == getPodsRequirements(status[c])
    IN  /\ parts \in {0, 2, 4}
        /\ requests' = g.requests
        /\ review' = [review EXCEPT ![c].spec = g.list]
        /\ parts' = parts + 1

(* The reviews of the pods, by their place in the list, grouped by reason. *)
ReasonSummary(list) ==
    [x \in {list[i].reason : i \in DOMAIN list} |->
       {i \in DOMAIN list : list[i].reason = x}]

getReviewStatus(status) ==
    LET c == Classes[(parts \div 2) + 1]
        g == getPodsRequirements(status[c])
    IN  /\ parts \in {1, 3, 5}
        /\ requests' = g.requests
        /\ review' = [review EXCEPT ![c].status = g.list,
                                    ![c].summary = ReasonSummary(g.list)]
        /\ parts' = parts + 1

GetReport(status) == getReviewSpec(status) \/ getReviewStatus(status)

-----------------------------------------------------------------------------
(* What is printed; a row does not name its pod, which is kept here to     *)
(* compare it with.                                                        *)

distributePodsPrint(c) ==
    [i \in DOMAIN review[c].status |->
       LET p == review[c].status[i] IN
       [pod  |-> p.pod,
        req  |-> [r \in Columns |-> Amount(p.primary[r], requests[p.pod], r)],
        host |-> p.host]]

statusPrint(c) == [x \in DOMAIN review[c].summary |-> Cardinality(review[c].summary[x])]

ClusterCapacityReviewPrint ==
    [success |-> distributePodsPrint("success"),
     failed  |-> distributePodsPrint("failed"),
     summary |-> statusPrint("failed")]
=============================================================================

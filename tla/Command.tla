------------------------------- MODULE Command -------------------------------
(***************************************************************************)
(* The two programs around the simulation: the command line program of     *)
(* cmd/ and the sample program pkg/main.go.  Both read the cluster, make   *)
(* the pods to simulate, run the simulation and print its report; they     *)
(* order these steps differently and make the pods from a file and from a  *)
(* built-in sample.                                                        *)
(*                                                                         *)
(* The simulation itself is the sequential placement that the module       *)
(* Simulator is shown to implement (GreedyPlacement), here with the        *)
(* cluster as it was read and with pods the scheduler does not take.  The  *)
(* report is the module Review.                                            *)
(***************************************************************************)
EXTENDS Review

CONSTANTS
    Files,          \* the pod files that may be given: sequences of entries
    SampleNum,      \* how many pods the sample program simulates
    Nodes,          \* the nodes the cluster may have
    Running,        \* the pods that may run in it, each with its containers
    CanHost(_, _)   \* can a node host a set of pods?

IsFile(f) ==
    /\ f \in Seq(ToSet(f))
    /\ \A i \in DOMAIN f : f[i].num \in Int /\ IsContainers(f[i].containers)

(* A pod that runs is none of those to simulate, which are pairs. *)
ASSUME CommandAssumption ==
    /\ SampleNum \in Nat
    /\ \A f \in Files : IsFile(f)
    /\ IsFiniteSet(DOMAIN Running) /\ DOMAIN Running \cap (Nat \X Nat) = {}
    /\ \A p \in DOMAIN Running : IsContainers(Running[p])

VARIABLES
    program,        \* "cli" or "sample"
    flags,          \* the command line and the environment
    file,           \* the pod file, once it is read
    cluster,        \* the cluster: its nodes, and the node of each running pod
    stage,          \* what the program does next
    pods, nodes,    \* getCheckpoints
    queue,          \* the pods to simulate that are left
    status,         \* framework.Status
    output          \* what is printed

input == <<program, flags>>
vars  == <<input, file, cluster, stage, pods, nodes, queue, status, output, requests,
           review, parts>>

(* The order in which the programs do things: Run of server.go, and main   *)
(* of the sample program, which configures the scheduler last.  Both have  *)
(* the functions getCheckpoints and runSimulator.                          *)
getCheckpoints == <<"pods", "nodes">>
runSimulator   == <<"new", "run", "report">>
CliRun ==
    <<"validate", "configure", "connect">> \o getCheckpoints \o <<"parse">>
       \o runSimulator \o <<"print", "done">>
SampleMain ==
    <<"flags", "connect">> \o getCheckpoints \o <<"configure">>
       \o runSimulator \o <<"print", "done">>

Order   == [cli |-> CliRun, sample |-> SampleMain]
Ended   == {"done", "usage", "failed"}
Proceed ==
    \E i \in DOMAIN Order[program] :
       stage = Order[program][i] /\ stage' = Order[program][i + 1]

(* newSamplePod, and what createSamplePods does as an entry of a file. *)
SamplePod == << [cpu    |-> [val |-> 9, kind |-> "int"],
                 memory |-> [val |-> 43, kind |-> "int"]] >>
SampleFile == << [num |-> SampleNum, containers |-> SamplePod, claimed |-> TRUE] >>

(* Pod k of entry i of the file. *)
PodIds     == UNION {{<<i, k>> : k \in 1..file[i].num} : i \in DOMAIN file}
Desired(p) == IF p \in PodIds THEN file[p[1]].containers ELSE Running[p]

Reviewed(P, H, R) == [pod : P, host : H, reason : R]

TypeOK ==
    /\ stage \in Ended \cup ToSet(Order[program])
    /\ cluster.nodes \subseteq Nodes /\ nodes \subseteq Nodes
    /\ \A f \in {cluster.pods, pods} :
          /\ DOMAIN f \subseteq DOMAIN Running
          /\ \A p \in DOMAIN f : f[p] \in Nodes
    /\ queue \in Seq(PodIds)
    /\ DOMAIN requests = DOMAIN Running \cup PodIds
    /\ \A p \in DOMAIN requests : IsContainers(requests[p])
    /\ status.failed \in Seq(Reviewed(PodIds, {""}, {"Unschedulable"}))
    /\ status.success \in Seq(Reviewed(PodIds, Nodes, {""}))
    /\ status.scheduled \in Seq(Reviewed(DOMAIN Running, Nodes, {""}))
    /\ parts \in 0..6

Flags == [podspec : BOOLEAN, kubeconfig : BOOLEAN, incluster : BOOLEAN,
          registered : BOOLEAN]

Init ==
    /\ program \in {"cli", "sample"}
    /\ flags \in Flags
    /\ file = <<>>
    /\ cluster \in [nodes : {Nodes}, pods : [DOMAIN Running -> Nodes]]
    /\ stage = Order[program][1]
    /\ pods = <<>> /\ nodes = {}
    /\ queue = <<>>
    /\ status = [c \in ToSet(Classes) |-> <<>>]
    /\ output = <<>>
    /\ requests = Running
    /\ review = NoReview /\ parts = 0

-----------------------------------------------------------------------------
(* Before the simulation *)

Validate ==
    /\ stage = "validate"
    /\ IF flags.podspec /\ (flags.kubeconfig \/ flags.incluster)
       THEN Proceed ELSE stage' = "usage"
    /\ UNCHANGED <<input, file, cluster, pods, nodes, queue, status, output, requests,
                   review, parts>>

(* Each pod has the containers of its entry. *)
WithPods(f, ids) ==
    [p \in DOMAIN requests \cup ids |->
       IF p \in DOMAIN requests THEN requests[p] ELSE f[p[1]].containers]

(* One pod per k < Num, each a deep copy of the pod of the entry, with a   *)
(* name of its own.                                                        *)
AddPods(f) ==
    /\ file' = f
    /\ queue' = FlattenSeq([i \in DOMAIN f |-> [k \in 1..f[i].num |-> <<i, k>>]])
    /\ requests' = WithPods(f, PodIds')

(* flag.Parse comes before the flag kubeconfig is defined: it is refused.  *)
(* Then createSamplePods.                                                  *)
SampleStart ==
    /\ stage = "flags"
    /\ IF flags.kubeconfig
       THEN stage' = "usage" /\ UNCHANGED <<file, queue, requests>>
       ELSE Proceed /\ AddPods(SampleFile)
    /\ UNCHANGED <<input, cluster, pods, nodes, status, output, review, parts>>

(* NewSchedulerServer with the provider's name, which is not yet looked up. *)
NewClusterCapacityConfig ==
    /\ stage = "configure"
    /\ Proceed
    /\ UNCHANGED <<input, file, cluster, pods, nodes, queue, status, output, requests,
                   review, parts>>

(* BuildConfigFromFlags and NewForConfig. *)
Connect ==
    /\ stage = "connect"
    /\ Proceed
    /\ UNCHANGED <<input, file, cluster, pods, nodes, queue, status, output, requests,
                   review, parts>>

(* Any of these may fail, and the program gives up. *)
Fail ==
    /\ stage \in {"configure", "connect", "pods", "nodes", "parse"}
    /\ stage' = "failed"
    /\ UNCHANGED <<input, file, cluster, pods, nodes, queue, status, output, requests,
                   review, parts>>

(* getCheckpoints asks for the running pods ... *)
ListPods ==
    /\ stage = "pods"
    /\ pods' = cluster.pods
    /\ Proceed
    /\ UNCHANGED <<input, file, cluster, nodes, queue, status, output, requests, review,
                   parts>>

(* ... and then, in a second request, for the nodes. *)
ListNodes ==
    /\ stage = "nodes"
    /\ nodes' = cluster.nodes
    /\ Proceed
    /\ UNCHANGED <<input, file, cluster, pods, queue, status, output, requests, review,
                   parts>>

(* Between the two a node is lost with its pods, or a pod is moved. *)
ClusterChanges ==
    /\ stage = "nodes"
    /\ \/ \E n \in cluster.nodes :
            cluster' = [nodes |-> cluster.nodes \ {n},
                        pods  |-> [p \in {q \in DOMAIN cluster.pods : cluster.pods[q] # n} |->
                                     cluster.pods[p]]]
       \/ \E p \in DOMAIN cluster.pods, n \in cluster.nodes :
            cluster' = [cluster EXCEPT !.pods[p] = n]
    /\ UNCHANGED <<input, file, stage, pods, nodes, queue, status, output, requests, review,
                   parts>>

(* Mutant: a count of n makes n + 1 pods. *)
ParseOneMore ==
    /\ stage = "parse"
    /\ \E f \in Files :
         /\ file' = f
         /\ queue' = FlattenSeq([i \in DOMAIN f |-> [k \in 1..(f[i].num + 1) |-> <<i, k>>]])
         /\ requests' = WithPods(f, ToSet(queue'))
    /\ Proceed
    /\ UNCHANGED <<input, cluster, pods, nodes, status, output, review, parts>>

ParseSimulationPod ==
    /\ stage = "parse"
    /\ \E f \in Files : AddPods(f)
    /\ Proceed
    /\ UNCHANGED <<input, cluster, pods, nodes, status, output, review, parts>>

-----------------------------------------------------------------------------
(* The simulation *)

(* Mutant: the pods of the checkpoint are not stored. *)
NewWithoutPods ==
    /\ stage = "new"
    /\ Proceed
    /\ UNCHANGED <<input, file, cluster, pods, nodes, queue, status, output, requests,
                   review, parts>>

(* Is the algorithm's provider registered?  That of the sample program is. *)
SchedulerConfigLocal == program = "sample" \/ flags.registered

(* The checkpoint is stored, then the scheduler is made.                   *)
New ==
    /\ stage = "new"
    /\ status' = [status EXCEPT !.scheduled =
          SetToSeq({[pod |-> p, host |-> pods[p], reason |-> ""] : p \in DOMAIN pods})]
    /\ IF SchedulerConfigLocal THEN Proceed ELSE stage' = "failed"
    /\ UNCHANGED <<input, file, cluster, pods, nodes, queue, output, requests, review, parts>>

On(list, n) == {list[i].pod : i \in {j \in DOMAIN list : list[j].host = n}}

(* A pod whose spec names a node, or that has ended or is being deleted,   *)
(* is not taken by the scheduler: no callback ever asks for the next pod.  *)
Unclaimed(p) == ~file[p[1]].claimed
Turn         == stage = "run" /\ queue # <<>> /\ ~Unclaimed(Last(queue))
Hosts(p)     ==
    {n \in nodes : CanHost(n, On(status.scheduled \o status.success, n) \cup {p})}

(* Bind: what is recorded is a copy of the stored pod, which shares its    *)
(* containers.                                                             *)
Place ==
    /\ Turn
    /\ \E n \in Hosts(Last(queue)) :
         status' = [status EXCEPT !.success =
                      Append(@, [pod |-> Last(queue), host |-> n, reason |-> ""])]
    /\ queue' = Front(queue)
    /\ UNCHANGED <<input, file, cluster, stage, pods, nodes, output, requests, review, parts>>

(* Mutant: the reason is not written to the pod. *)
RefuseWithoutReason ==
    /\ Turn
    /\ Hosts(Last(queue)) = {}
    /\ status' = [status EXCEPT !.failed =
                    Append(@, [pod |-> Last(queue), host |-> "", reason |-> ""])]
    /\ queue' = Front(queue)
    /\ requests' = [requests EXCEPT ![Last(queue)] = Reparsed(@)]
    /\ UNCHANGED <<input, file, cluster, stage, pods, nodes, output, review, parts>>

(* Update: what is recorded is the scheduler's pod, decoded from a watch.  *)
Refuse ==
    /\ Turn
    /\ Hosts(Last(queue)) = {}
    /\ status' = [status EXCEPT !.failed =
                    Append(@, [pod |-> Last(queue), host |-> "", reason |-> "Unschedulable"])]
    /\ queue' = Front(queue)
    /\ requests' = [requests EXCEPT ![Last(queue)] = Reparsed(@)]
    /\ UNCHANGED <<input, file, cluster, stage, pods, nodes, output, review, parts>>

(* Mutant: only Bind tells Run that no pod is left. *)
RunEndsOnBind ==
    /\ stage = "run"
    /\ queue = <<>> /\ status.failed = <<>>
    /\ Proceed
    /\ UNCHANGED <<input, file, cluster, pods, nodes, queue, status, output, requests,
                   review, parts>>

RunEnds ==
    /\ stage = "run"
    /\ queue = <<>>
    /\ Proceed
    /\ UNCHANGED <<input, file, cluster, pods, nodes, queue, status, output, requests,
                   review, parts>>

-----------------------------------------------------------------------------
(* After the simulation *)

Report ==
    /\ stage = "report"
    /\ GetReport(status)
    /\ IF parts' = 6 THEN Proceed ELSE UNCHANGED stage
    /\ UNCHANGED <<input, file, cluster, pods, nodes, queue, status, output>>

PrintReport ==
    /\ stage = "print"
    /\ output' = ClusterCapacityReviewPrint
    /\ Proceed
    /\ UNCHANGED <<input, file, cluster, pods, nodes, queue, status, requests, review, parts>>

(* The program has ended, or Run waits for a callback that will not come.  *)
Idle ==
    /\ \/ stage \in Ended
       \/ stage = "run" /\ queue # <<>> /\ Unclaimed(Last(queue))
    /\ UNCHANGED vars

Program == \/ Validate \/ SampleStart \/ NewClusterCapacityConfig \/ Connect \/ Fail
           \/ ListPods \/ ListNodes \/ ParseSimulationPod
           \/ New \/ Place \/ Refuse \/ RunEnds
           \/ Report \/ PrintReport

Next == Program \/ ClusterChanges \/ Idle

Spec == Init /\ [][Next]_vars /\ WF_vars(Program)

-----------------------------------------------------------------------------
(* Properties *)

Rows == output.success \o output.failed

(* The printed tables have exactly as many rows for each entry of the pod  *)
(* file as its num asks for (none if it is negative), each for another     *)
(* pod, and the summary by reason counts every row of the failed table.    *)
RowsMatchFile ==
    stage = "done" =>
       /\ \A i, j \in DOMAIN Rows : Rows[i].pod = Rows[j].pod => i = j
       /\ {Rows[i].pod : i \in DOMAIN Rows} = PodIds
       /\ \A i \in DOMAIN output.success : output.success[i].host \in nodes
       /\ SumFunction(output.summary) = Len(output.failed)

Asked(p, r) == SumFunction([i \in DOMAIN Desired(p) |->
                              IF r \in DOMAIN Desired(p)[i] THEN Desired(p)[i][r].val ELSE 0])

(* A pod is plain if none of its requests that is kept in place comes      *)
(* after a request for the same resource in an earlier container.          *)
Plain(p) ==
    \A j \in DOMAIN requests[p] : \A r \in DOMAIN requests[p][j] \cap Columns :
       InPlace(requests[p][j][r]) =>
          \A i \in 1..(j - 1) : r \in DOMAIN Desired(p)[i] => Desired(p)[i][r].val = 0

(* The table shows what the containers of a pod request together, for      *)
(* every plain pod, although the sums are computed twice and by changing   *)
(* the quantities they are computed from.                                  *)
RowsTellRequests ==
    stage = "done" =>
       \A i \in DOMAIN Rows : Plain(Rows[i].pod) =>
          \A r \in Columns : Rows[i].req[r] = Asked(Rows[i].pod, r)

(* Although the cluster changes between the two requests of getCheckpoints *)
(* and the scheduler is told only of the listed pods, every listed node    *)
(* that got simulated pods can host them together with the pods that ran   *)
(* on it all the time.                                                     *)
RespectsRunning ==
    stage = "done" =>
       \A n \in nodes :
          LET stayed == {p \in DOMAIN pods \cap DOMAIN cluster.pods :
                           pods[p] = n /\ cluster.pods[p] = n}
          IN  On(status.success, n) # {} => CanHost(n, stayed \cup On(status.success, n))

(* The program ends, with a report, a usage text or an error, unless a pod *)
(* it was asked to simulate is one the scheduler does not take: then it    *)
(* prints no report, whatever became of the other pods.                    *)
EndsUnlessUnclaimed ==
    /\ <>(stage \in Ended \/ \E p \in PodIds : Unclaimed(p))
    /\ [](stage = "done" => \A p \in PodIds : ~Unclaimed(p))

(* report.go:48: "the pod desired for scheduling": the pods of a review    *)
(* request what they requested when the simulation was asked for.          *)
DesiredPods ==
    \A c \in ToSet(Classes) : \A i \in DOMAIN review[c].spec :
       LET p == review[c].spec[i].pod IN
       \A j \in DOMAIN Desired(p) : \A r \in DOMAIN Desired(p)[j] :
          requests[p][j][r].val = Desired(p)[j][r].val
=============================================================================

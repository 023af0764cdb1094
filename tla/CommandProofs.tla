---------------------------- MODULE CommandProofs ----------------------------
(***************************************************************************)
(* Proofs about Command: for every cluster, every pod file and every way   *)
(* the cluster changes while it is read, the simulated pods fit beside the *)
(* pods that ran on their node all the time.                               *)
(***************************************************************************)
EXTENDS Command, ReviewProofs

-----------------------------------------------------------------------------
(* The inductive invariant *)

(* A sequence, whatever its elements are. *)
IsSeq(s) == s \in Seq(ToSet(s))

(* The stages after New. *)
Late == {"run", "report", "print", "done"}

(* The cluster, as it is and as it was read. *)
ClusterInv ==
    /\ program \in {"cli", "sample"}
    /\ cluster = [nodes |-> cluster.nodes, pods |-> cluster.pods]
    /\ cluster.nodes \subseteq Nodes /\ nodes \subseteq Nodes
    /\ DOMAIN cluster.pods \subseteq DOMAIN Running
    /\ DOMAIN pods \subseteq DOMAIN Running

(* framework.Status: the recorded pods are lists. *)
StatusInv ==
    /\ {"scheduled", "success"} \subseteq DOMAIN status
    /\ IsSeq(status.scheduled) /\ IsSeq(status.success)

(* The simulation starts from all the pods that were read: those a node    *)
(* then has, it can host together.                                         *)
HostedInv ==
    /\ stage \notin Late => status.success = <<>>
    /\ stage \in Late => \A p \in DOMAIN pods : p \in On(status.scheduled, pods[p])
    /\ \A n \in Nodes : On(status.success, n) # {} =>
          CanHost(n, On(status.scheduled, n) \cup On(status.success, n))

Inv == ClusterInv /\ StatusInv /\ HostedInv

(* The stages before the pod file is read, and after the simulation. *)
Unparsed(g) == {"flags", "parse"} \cup
               (IF g = "cli" THEN {"validate", "configure", "connect", "pods", "nodes"} ELSE {})
Reporting == {"report", "print", "done"}

(* Each program is where its order of calls has it. *)
StageInv ==
    /\ stage \in Ended \cup ToSet(Order[program])
    /\ \A p \in DOMAIN cluster.pods : cluster.pods[p] \in Nodes
    /\ \A p \in DOMAIN pods : pods[p] \in Nodes

(* There is nothing to simulate before the file is read. *)
FileInv ==
    /\ IsFile(file)
    /\ stage \in Unparsed(program) => file = <<>> /\ queue = <<>> /\ requests = Running

(* The verdicts about the pods. *)
Refusals   == Reviewed(PodIds, {""}, {"Unschedulable"})
Placements == Reviewed(PodIds, Nodes, {""})
Residents  == Reviewed(DOMAIN Running, Nodes, {""})

(* The pods that failed, and those placed, on nodes that were read. *)
ListInv ==
    /\ DOMAIN status = ToSet(Classes)
    /\ status.failed \in Seq(Refusals)
    /\ status.success \in Seq(Placements)
    /\ status.scheduled \in Seq(Residents)
    /\ stage \notin Late => status.failed = <<>> /\ status.success = <<>>
    /\ \A i \in DOMAIN status.success : status.success[i].host \in nodes

(* The pods of a list of verdicts. *)
PodsOf(list)   == {list[i].pod : i \in DOMAIN list}
EachOnce(list) == \A i, j \in DOMAIN list : list[i].pod = list[j].pod => i = j

(* A pod of the file waits, failed or was placed, and only one of these;   *)
(* one that the scheduler does not take waits for ever.                    *)
OnceInv ==
    /\ queue \in Seq(PodIds) /\ Distinct(queue)
    /\ EachOnce(status.failed) /\ EachOnce(status.success)
    /\ ToSet(queue) \cap PodsOf(status.failed) = {}
    /\ ToSet(queue) \cap PodsOf(status.success) = {}
    /\ PodsOf(status.failed) \cap PodsOf(status.success) = {}
    /\ PodIds \subseteq ToSet(queue) \cup PodsOf(status.failed) \cup PodsOf(status.success)
    /\ \A p \in PodIds : p \in ToSet(queue) \/ ~Unclaimed(p)
    /\ stage \in Reporting => queue = <<>>

(* The same resources in the same containers. *)
SameResources(C, D) ==
    DOMAIN C = DOMAIN D /\ \A i \in DOMAIN D : DOMAIN C[i] = DOMAIN D[i]

(* Plain, of what a pod requests and what it requested at first. *)
PlainPod(C, D) ==
    \A j \in DOMAIN C : \A r \in DOMAIN C[j] \cap Columns :
       InPlace(C[j][r]) => \A i \in 1..(j - 1) : r \in DOMAIN D[i] => D[i][r].val = 0

(* What a plain pod requests is what it requested at first. *)
Faithful(C, D) ==
    /\ IsContainers(C)
    /\ SameResources(C, D)
    /\ PlainPod(C, D) => \A r \in Columns : SameColumn(C, D, r)

(* The requests are those asked for until the report is made, and those of *)
(* plain pods still are.                                                   *)
RequestInv ==
    /\ DOMAIN requests = DOMAIN Running \cup PodIds
    /\ \A p \in DOMAIN requests :
          /\ Faithful(requests[p], Desired(p))
          /\ stage \notin Reporting =>
                \A r \in Columns : SameColumn(requests[p], Desired(p), r)

(* A row of a review is about the pod of a verdict, which requests C and   *)
(* requested D at first: what it tells is what a plain pod requested.      *)
RowFor(row, verdict, C, D) ==
    /\ row.pod = verdict.pod /\ row.host = verdict.host /\ row.reason = verdict.reason
    /\ \A r \in Columns :
          /\ IsSumOf(row.primary[r], D, r)
          /\ PlainPod(C, D) => Amount(row.primary[r], D, r) = SumFunction(Requested(D, r))

(* The review of a class has a row for each of its verdicts. *)
RowsOf(c) ==
    LET rows == review[c].status IN
    /\ DOMAIN rows = DOMAIN status[c]
    /\ review[c].summary = ReasonSummary(rows)
    /\ \A i \in DOMAIN rows :
          LET p == rows[i].pod IN RowFor(rows[i], status[c][i], requests[p], Desired(p))

(* The six parts of the report are made while the stage is "report". *)
ReviewInv ==
    /\ DOMAIN review = ToSet(Classes)
    /\ \A c \in ToSet(Classes) : DOMAIN review[c] = {"spec", "status", "summary"}
    /\ parts \in 0..6
    /\ stage \notin Reporting => parts = 0
    /\ stage \in {"print", "done"} => parts = 6
    /\ \A k \in 1..3 : parts >= 2 * k => RowsOf(Classes[k])
    /\ stage = "done" => output = ClusterCapacityReviewPrint

TableInv == StageInv /\ FileInv /\ ListInv /\ OnceInv /\ RequestInv /\ ReviewInv

(* A node that can host some pods can host fewer: true of resources,       *)
(* ports and volumes, not of affinity between pods.                        *)
HostsFewer ==
    \A n \in Nodes : \A S : \A T \in SUBSET S : CanHost(n, S) => CanHost(n, T)

-----------------------------------------------------------------------------
(* The order of the steps *)

(* The stages of both programs. *)
Stages == {"validate", "flags", "configure", "connect", "pods", "nodes", "parse",
           "new", "run", "report", "print", "done"}

(* What two lists of stages make together. *)
LEMMA StagesConcat ==
    ASSUME NEW s \in Seq(Stages), NEW t \in Seq(Stages)
    PROVE  /\ s \o t \in Seq(Stages) /\ Len(s \o t) = Len(s) + Len(t)
           /\ \A i \in 1..Len(s) : (s \o t)[i] = s[i]
           /\ \A i \in 1..Len(t) : (s \o t)[Len(s) + i] = t[i]
<1> DEFINE u == s \o t
           m == Len(s)
           n == Len(t)
<1>1. m \in Nat /\ n \in Nat
  BY LenProperties
<1>2. /\ u \in Seq(Stages) /\ Len(u) = m + n
      /\ \A i \in 1..(m + n) : u[i] = IF i <= m THEN s[i] ELSE t[i - m]
  BY ConcatProperties
<1> HIDE DEF u, m, n
<1>3. \A i \in 1..m : u[i] = s[i]
  BY <1>1, <1>2
<1>4. \A i \in 1..n : m + i \in 1..(m + n) /\ ~(m + i <= m) /\ (m + i) - m = i
  BY <1>1
<1>5. \A i \in 1..n : u[m + i] = t[i]
  BY <1>2, <1>4
<1> QED
  BY <1>2, <1>3, <1>5 DEF u, m, n

(* The lists of stages the two programs share. *)
LEMMA SharedStages ==
    /\ getCheckpoints \in Seq(Stages) /\ Len(getCheckpoints) = 2
    /\ getCheckpoints[1] = "pods" /\ getCheckpoints[2] = "nodes"
    /\ runSimulator \in Seq(Stages) /\ Len(runSimulator) = 3
    /\ runSimulator[1] = "new" /\ runSimulator[2] = "run" /\ runSimulator[3] = "report"
    /\ <<"print", "done">> \in Seq(Stages) /\ Len(<<"print", "done">>) = 2
    /\ <<"print", "done">>[1] = "print" /\ <<"print", "done">>[2] = "done"
  BY DEF getCheckpoints, runSimulator, Stages

(* Both end with the simulation and its report. *)
LEMMA LastStages ==
    ASSUME NEW b \in Seq(Stages)
    PROVE  LET d == b \o runSimulator \o <<"print", "done">>
               m == Len(b)
           IN  /\ d \in Seq(Stages) /\ Len(d) = m + 5
               /\ \A i \in 1..m : d[i] = b[i]
               /\ d[m + 1] = "new" /\ d[m + 2] = "run" /\ d[m + 3] = "report"
               /\ d[m + 4] = "print" /\ d[m + 5] = "done"
<1> DEFINE m == Len(b)
           c == b \o runSimulator
           e == <<"print", "done">>
           d == c \o e
<1>1. e \in Seq(Stages) /\ Len(e) = 2 /\ e[1] = "print" /\ e[2] = "done"
  BY SharedStages
<1>2. m \in Nat
  BY LenProperties
<1>3. /\ c \in Seq(Stages) /\ Len(c) = m + 3
      /\ \A i \in 1..m : c[i] = b[i]
      /\ \A i \in 1..3 : c[m + i] = runSimulator[i]
  <2>1. /\ c \in Seq(Stages) /\ Len(c) = Len(b) + Len(runSimulator)
        /\ \A i \in 1..Len(b) : c[i] = b[i]
        /\ \A i \in 1..Len(runSimulator) : c[Len(b) + i] = runSimulator[i]
    BY StagesConcat, SharedStages
  <2> QED
    BY <2>1, SharedStages
<1> HIDE DEF c, e, m
<1>4. /\ d \in Seq(Stages) /\ Len(d) = (m + 3) + 2
      /\ \A i \in 1..(m + 3) : d[i] = c[i]
      /\ \A i \in 1..2 : d[(m + 3) + i] = e[i]
  <2>1. /\ d \in Seq(Stages) /\ Len(d) = Len(c) + Len(e)
        /\ \A i \in 1..Len(c) : d[i] = c[i]
        /\ \A i \in 1..Len(e) : d[Len(c) + i] = e[i]
    BY <1>1, <1>3, StagesConcat
  <2> QED
    BY <1>1, <1>3, <2>1
<1> HIDE DEF d
<1>5. Len(d) = m + 5 /\ \A i \in 1..m : d[i] = b[i]
  BY <1>2, <1>3, <1>4
<1>6. d[m + 1] = "new" /\ d[m + 2] = "run" /\ d[m + 3] = "report"
  <2>1. \A i \in 1..3 : m + i \in 1..(m + 3)
    BY <1>2
  <2>2. \A i \in 1..3 : d[m + i] = runSimulator[i]
    BY <1>3, <1>4, <2>1
  <2> QED
    BY <2>2, SharedStages
<1>7. d[m + 4] = "print" /\ d[m + 5] = "done"
  <2>1. (m + 3) + 1 = m + 4 /\ (m + 3) + 2 = m + 5
    BY <1>2
  <2>2. d[(m + 3) + 1] = "print" /\ d[(m + 3) + 2] = "done"
    BY <1>1, <1>4
  <2> QED
    BY <2>1, <2>2
<1>8. d \in Seq(Stages)
  BY <1>4
<1> QED
  BY <1>5, <1>6, <1>7, <1>8, Zenon DEF d, c, e, m

(* The command line program. *)
LEMMA CliOrder ==
    /\ CliRun \in Seq(Stages) /\ Len(CliRun) = 11
    /\ CliRun[1] = "validate" /\ CliRun[2] = "configure" /\ CliRun[3] = "connect"
    /\ CliRun[4] = "pods" /\ CliRun[5] = "nodes" /\ CliRun[6] = "parse"
    /\ CliRun[7] = "new" /\ CliRun[8] = "run" /\ CliRun[9] = "report"
    /\ CliRun[10] = "print" /\ CliRun[11] = "done"
<1> DEFINE f == <<"validate", "configure", "connect">>
           g == <<"parse">>
           a == f \o getCheckpoints
           b == a \o g
<1>1. /\ f \in Seq(Stages) /\ Len(f) = 3
      /\ f[1] = "validate" /\ f[2] = "configure" /\ f[3] = "connect"
      /\ g \in Seq(Stages) /\ Len(g) = 1 /\ g[1] = "parse"
  BY DEF Stages
<1> HIDE DEF f, g
<1>2. /\ a \in Seq(Stages) /\ Len(a) = 3 + 2
      /\ \A i \in 1..3 : a[i] = f[i]
      /\ \A i \in 1..2 : a[3 + i] = getCheckpoints[i]
  <2>1. /\ a \in Seq(Stages) /\ Len(a) = Len(f) + Len(getCheckpoints)
        /\ \A i \in 1..Len(f) : a[i] = f[i]
        /\ \A i \in 1..Len(getCheckpoints) : a[Len(f) + i] = getCheckpoints[i]
    BY <1>1, StagesConcat, SharedStages
  <2> QED
    BY <1>1, <2>1, SharedStages
<1> HIDE DEF a
<1>3. a[1] = "validate" /\ a[2] = "configure" /\ a[3] = "connect" /\ Len(a) = 5
  BY <1>1, <1>2
<1>4. a[4] = "pods" /\ a[5] = "nodes"
  <2>1. a[3 + 1] = "pods" /\ a[3 + 2] = "nodes"
    BY <1>2, SharedStages
  <2> QED
    BY <2>1
<1>5. /\ b \in Seq(Stages) /\ Len(b) = 5 + 1
      /\ \A i \in 1..5 : b[i] = a[i]
      /\ \A i \in 1..1 : b[5 + i] = g[i]
  <2>1. /\ b \in Seq(Stages) /\ Len(b) = Len(a) + Len(g)
        /\ \A i \in 1..Len(a) : b[i] = a[i]
        /\ \A i \in 1..Len(g) : b[Len(a) + i] = g[i]
    BY <1>1, <1>2, StagesConcat
  <2> QED
    BY <1>1, <1>3, <2>1
<1> HIDE DEF b
<1>6. b[6] = "parse" /\ Len(b) = 6
  <2>1. b[5 + 1] = "parse"
    BY <1>1, <1>5
  <2> QED
    BY <1>5, <2>1
<1>7. CliRun = b \o runSimulator \o <<"print", "done">>
  BY DEF CliRun, b, a, f, g
<1>8. /\ CliRun \in Seq(Stages) /\ Len(CliRun) = 6 + 5
      /\ \A i \in 1..6 : CliRun[i] = b[i]
      /\ CliRun[6 + 1] = "new" /\ CliRun[6 + 2] = "run" /\ CliRun[6 + 3] = "report"
      /\ CliRun[6 + 4] = "print" /\ CliRun[6 + 5] = "done"
  <2> DEFINE d == b \o runSimulator \o <<"print", "done">>
             m == Len(b)
  <2>1. /\ d \in Seq(Stages) /\ Len(d) = m + 5
        /\ \A i \in 1..m : d[i] = b[i]
        /\ d[m + 1] = "new" /\ d[m + 2] = "run" /\ d[m + 3] = "report"
        /\ d[m + 4] = "print" /\ d[m + 5] = "done"
    BY <1>5, LastStages, Zenon
  <2>2. CliRun = d /\ m = 6
    BY <1>6, <1>7
  <2> HIDE DEF d, m
  <2> QED
    BY <2>1, <2>2
<1> QED
  BY <1>3, <1>4, <1>5, <1>6, <1>8

(* The sample program. *)
LEMMA SampleOrder ==
    /\ SampleMain \in Seq(Stages) /\ Len(SampleMain) = 10
    /\ SampleMain[1] = "flags" /\ SampleMain[2] = "connect" /\ SampleMain[3] = "pods"
    /\ SampleMain[4] = "nodes" /\ SampleMain[5] = "configure"
    /\ SampleMain[6] = "new" /\ SampleMain[7] = "run" /\ SampleMain[8] = "report"
    /\ SampleMain[9] = "print" /\ SampleMain[10] = "done"
<1> DEFINE f == <<"flags", "connect">>
           g == <<"configure">>
           a == f \o getCheckpoints
           b == a \o g
<1>1. /\ f \in Seq(Stages) /\ Len(f) = 2 /\ f[1] = "flags" /\ f[2] = "connect"
      /\ g \in Seq(Stages) /\ Len(g) = 1 /\ g[1] = "configure"
  BY DEF Stages
<1> HIDE DEF f, g
<1>2. /\ a \in Seq(Stages) /\ Len(a) = 2 + 2
      /\ \A i \in 1..2 : a[i] = f[i]
      /\ \A i \in 1..2 : a[2 + i] = getCheckpoints[i]
  <2>1. /\ a \in Seq(Stages) /\ Len(a) = Len(f) + Len(getCheckpoints)
        /\ \A i \in 1..Len(f) : a[i] = f[i]
        /\ \A i \in 1..Len(getCheckpoints) : a[Len(f) + i] = getCheckpoints[i]
    BY <1>1, StagesConcat, SharedStages
  <2> QED
    BY <1>1, <2>1, SharedStages
<1> HIDE DEF a
<1>3. a[1] = "flags" /\ a[2] = "connect" /\ Len(a) = 4
  BY <1>1, <1>2
<1>4. a[3] = "pods" /\ a[4] = "nodes"
  <2>1. a[2 + 1] = "pods" /\ a[2 + 2] = "nodes"
    BY <1>2, SharedStages
  <2> QED
    BY <2>1
<1>5. /\ b \in Seq(Stages) /\ Len(b) = 4 + 1
      /\ \A i \in 1..4 : b[i] = a[i]
      /\ \A i \in 1..1 : b[4 + i] = g[i]
  <2>1. /\ b \in Seq(Stages) /\ Len(b) = Len(a) + Len(g)
        /\ \A i \in 1..Len(a) : b[i] = a[i]
        /\ \A i \in 1..Len(g) : b[Len(a) + i] = g[i]
    BY <1>1, <1>2, StagesConcat
  <2> QED
    BY <1>1, <1>3, <2>1
<1> HIDE DEF b
<1>6. b[5] = "configure" /\ Len(b) = 5
  <2>1. b[4 + 1] = "configure"
    BY <1>1, <1>5
  <2> QED
    BY <1>5, <2>1
<1>7. SampleMain = b \o runSimulator \o <<"print", "done">>
  BY DEF SampleMain, b, a, f, g
<1>8. /\ SampleMain \in Seq(Stages) /\ Len(SampleMain) = 5 + 5
      /\ \A i \in 1..5 : SampleMain[i] = b[i]
      /\ SampleMain[5 + 1] = "new" /\ SampleMain[5 + 2] = "run"
      /\ SampleMain[5 + 3] = "report"
      /\ SampleMain[5 + 4] = "print" /\ SampleMain[5 + 5] = "done"
  <2> DEFINE d == b \o runSimulator \o <<"print", "done">>
             m == Len(b)
  <2>1. /\ d \in Seq(Stages) /\ Len(d) = m + 5
        /\ \A i \in 1..m : d[i] = b[i]
        /\ d[m + 1] = "new" /\ d[m + 2] = "run" /\ d[m + 3] = "report"
        /\ d[m + 4] = "print" /\ d[m + 5] = "done"
    BY <1>5, LastStages, Zenon
  <2>2. SampleMain = d /\ m = 5
    BY <1>6, <1>7
  <2> HIDE DEF d, m
  <2> QED
    BY <2>1, <2>2
<1> QED
  BY <1>3, <1>4, <1>5, <1>6, <1>8

(* What comes next: neither program comes to a late stage but through New, *)
(* nor back from one, nor back to where the file is not read (there is no  *)
(* stage after the last, which no action leaves).                          *)
LEMMA ProceedFacts ==
    ASSUME program \in {"cli", "sample"}, stage # "done", Proceed
    PROVE  /\ stage' \in ToSet(Order[program])
           /\ stage' \in Late <=> stage \in Late \cup {"new"}
           /\ stage' \in Reporting <=> stage \in {"run", "report", "print"}
           /\ stage' \in Unparsed(program) => stage \in Unparsed(program) \ {"flags", "parse"}
           /\ stage = "run" => stage' = "report"
           /\ stage = "report" => stage' = "print"
           /\ stage = "print" => stage' = "done"
<1> DEFINE s == Order[program]
<1>1. PICK i \in DOMAIN s : stage = s[i] /\ stage' = s[i + 1]
  BY DEF Proceed
<1>2. CASE program = "cli"
  <2>1. s = CliRun
    BY <1>2 DEF Order
  <2>2. i \in 1..11 /\ DOMAIN s = 1..11
    BY <2>1, CliOrder
  <2>3. i \in 1..10
    BY <1>1, <2>1, <2>2, CliOrder
  <2>4. stage' \in ToSet(s)
    BY <1>1, <2>2, <2>3 DEF ToSet
  <2> HIDE DEF s
  <2>5. i \in {1, 2, 3, 4, 5, 6, 7, 8, 9, 10}
    BY <2>3
  <2>6. /\ stage' \in Late <=> stage \in Late \cup {"new"}
        /\ stage' \in Reporting <=> stage \in {"run", "report", "print"}
        /\ stage = "run" => stage' = "report"
        /\ stage = "report" => stage' = "print"
        /\ stage = "print" => stage' = "done"
    BY <1>1, <2>1, <2>5, CliOrder DEF Late, Reporting
  <2>7. stage' \in Unparsed("cli") => stage \in Unparsed("cli") \ {"flags", "parse"}
    BY <1>1, <2>1, <2>5, CliOrder DEF Unparsed
  <2> QED
    BY <1>2, <2>4, <2>6, <2>7 DEF s
<1>3. CASE program = "sample"
  <2>1. s = SampleMain
    BY <1>3 DEF Order
  <2>2. i \in 1..10 /\ DOMAIN s = 1..10
    BY <2>1, SampleOrder
  <2>3. i \in 1..9
    BY <1>1, <2>1, <2>2, SampleOrder
  <2>4. stage' \in ToSet(s)
    BY <1>1, <2>2, <2>3 DEF ToSet
  <2> HIDE DEF s
  <2>5. i \in {1, 2, 3, 4, 5, 6, 7, 8, 9}
    BY <2>3
  <2>6. /\ stage' \in Late <=> stage \in Late \cup {"new"}
        /\ stage' \in Reporting <=> stage \in {"run", "report", "print"}
        /\ stage = "run" => stage' = "report"
        /\ stage = "report" => stage' = "print"
        /\ stage = "print" => stage' = "done"
    BY <1>1, <2>1, <2>5, SampleOrder DEF Late, Reporting
  <2>7. stage' \notin Unparsed("sample")
    BY <1>1, <2>1, <2>5, SampleOrder DEF Unparsed
  <2> QED
    BY <1>3, <2>4, <2>6, <2>7 DEF s
<1> QED
  BY <1>2, <1>3

-----------------------------------------------------------------------------
(* Sequences *)

(* A sequence over some set is a sequence of its own elements. *)
LEMMA SeqIsSeq ==
    ASSUME NEW S, NEW s \in Seq(S)
    PROVE  IsSeq(s)
<1>1. Len(s) \in Nat /\ DOMAIN s = 1..Len(s) /\ s \in [1..Len(s) -> S]
  BY LenProperties
<1>2. s \in [1..Len(s) -> ToSet(s)]
  BY <1>1 DEF ToSet
<1> QED
  BY <1>1, <1>2 DEF IsSeq

(* SetToSeq lists every element of a finite set. *)
LEMMA SetToSeqFacts ==
    ASSUME NEW S, IsFiniteSet(S)
    PROVE  /\ IsSeq(SetToSeq(S)) /\ SetToSeq(S) \in Seq(S)
           /\ \A x \in S : \E i \in DOMAIN SetToSeq(S) : SetToSeq(S)[i] = x
<1> DEFINE n == Cardinality(S)
           s == SetToSeq(S)
<1>1. n \in Nat /\ ExistsBijection(1..n, S)
  BY FS_CardinalityType
<1>2. \E f \in [1..n -> S] : IsInjective(f)
  BY <1>1 DEF ExistsBijection, Bijection, Injection
<1>3. s \in [1..n -> S] /\ IsInjective(s)
  BY <1>2 DEF SetToSeq
<1>4. s \in Injection(1..n, S)
  BY <1>3 DEF Injection
<1>5. Cardinality(1..n) = n
  BY <1>1, FS_Interval
<1> HIDE DEF s
<1>6. s \in Surjection(1..n, S)
  BY <1>4, <1>5, FS_Injection
<1>7. s \in Seq(S)
  BY <1>1, <1>3
<1>8. IsSeq(s)
  BY <1>7, SeqIsSeq
<1>9. \A x \in S : \E i \in DOMAIN s : s[i] = x
  BY <1>3, <1>6 DEF Surjection
<1> QED
  BY <1>7, <1>8, <1>9 DEF s

(* The pods on a node of two lists together. *)
LEMMA OnConcat ==
    ASSUME NEW s, NEW t, IsSeq(s), IsSeq(t), NEW n
    PROVE  On(s \o t, n) = On(s, n) \cup On(t, n)
<1> DEFINE S == ToSet(s) \cup ToSet(t)
           u == s \o t
<1>1. s \in Seq(S) /\ t \in Seq(S)
  BY SeqMonotonic DEF IsSeq
<1>2. Len(s) \in Nat /\ Len(t) \in Nat /\ DOMAIN s = 1..Len(s) /\ DOMAIN t = 1..Len(t)
  BY <1>1, LenProperties
<1>3. /\ DOMAIN u = 1..(Len(s) + Len(t))
      /\ \A i \in 1..(Len(s) + Len(t)) : u[i] = IF i <= Len(s) THEN s[i] ELSE t[i - Len(s)]
  BY <1>1, ConcatProperties, LenProperties
<1> HIDE DEF S, u
<1>4. \A i \in 1..Len(s) : i \in DOMAIN u /\ u[i] = s[i]
  BY <1>2, <1>3
<1>5. \A i \in 1..Len(t) : i + Len(s) \in DOMAIN u /\ u[i + Len(s)] = t[i]
  BY <1>2, <1>3
<1>6. \A i \in DOMAIN u : \/ i \in 1..Len(s)
                          \/ i - Len(s) \in 1..Len(t) /\ u[i] = t[i - Len(s)]
  BY <1>2, <1>3
<1>7. On(u, n) \subseteq On(s, n) \cup On(t, n)
  BY <1>2, <1>4, <1>6 DEF On
<1>8. On(s, n) \subseteq On(u, n)
  BY <1>2, <1>4 DEF On
<1>9. On(t, n) \subseteq On(u, n)
  BY <1>2, <1>5 DEF On
<1> QED
  BY <1>7, <1>8, <1>9 DEF u

(* The pods on a node after one more is recorded. *)
LEMMA OnAppend ==
    ASSUME NEW s, IsSeq(s), NEW p, NEW m, NEW x, NEW n
    PROVE  LET e == [pod |-> p, host |-> m, reason |-> x] IN
           /\ IsSeq(Append(s, e))
           /\ On(Append(s, e), n) = On(s, n) \cup (IF n = m THEN {p} ELSE {})
<1> DEFINE e == [pod |-> p, host |-> m, reason |-> x]
           S == ToSet(s) \cup {e}
           a == Append(s, e)
<1>1. s \in Seq(S) /\ e \in S
  BY SeqMonotonic DEF IsSeq
<1>2. e.pod = p /\ e.host = m
  OBVIOUS
<1> HIDE DEF S, e
<1>3. /\ a \in Seq(S) /\ Len(a) = Len(s) + 1 /\ a[Len(s) + 1] = e
      /\ \A i \in 1..Len(s) : a[i] = s[i]
  BY <1>1, AppendProperties
<1>4. Len(s) \in Nat /\ DOMAIN s = 1..Len(s)
  BY <1>1, LenProperties
<1>5. DOMAIN a = 1..(Len(s) + 1)
  BY <1>3, LenProperties
<1>6. IsSeq(a)
  BY <1>3, SeqIsSeq
<1> HIDE DEF a
<1>7. \A i \in DOMAIN a : i \in DOMAIN s \/ i = Len(s) + 1
  BY <1>4, <1>5
<1>8. (Len(s) + 1) \in DOMAIN a /\ \A i \in DOMAIN s : i \in DOMAIN a
  BY <1>4, <1>5
<1>9. On(a, n) = On(s, n) \cup (IF n = m THEN {p} ELSE {})
  BY <1>2, <1>3, <1>4, <1>7, <1>8 DEF On
<1> QED
  BY <1>6, <1>9 DEF a, e

-----------------------------------------------------------------------------
(* The invariant holds initially. *)
LEMMA InvInit == Init => Inv
<1> SUFFICES ASSUME Init PROVE Inv
  OBVIOUS
<1>1. status = [c \in ToSet(Classes) |-> <<>>]
  BY DEF Init
<1>2. "scheduled" \in ToSet(Classes) /\ "success" \in ToSet(Classes)
  BY DEF ToSet, Classes
<1>3. status.scheduled = <<>> /\ status.success = <<>>
  BY <1>1, <1>2
<1>4. <<>> \in Seq({}) /\ IsSeq(<<>>)
  BY EmptySeq, SeqIsSeq
<1>5. StatusInv
  BY <1>1, <1>2, <1>3, <1>4 DEF StatusInv
<1>6. stage = "validate" \/ stage = "flags"
  <2>1. CASE program = "cli"
    BY <2>1, CliOrder DEF Init, Order
  <2>2. CASE program = "sample"
    BY <2>2, SampleOrder DEF Init, Order
  <2> QED
    BY <2>1, <2>2 DEF Init
<1>7. \A n : On(<<>>, n) = {}
  BY DEF On
<1>8. HostedInv
  BY <1>3, <1>6, <1>7 DEF HostedInv, Late
<1>9. ClusterInv
  <2>1. cluster \in [nodes : {Nodes}, pods : [DOMAIN Running -> Nodes]]
    BY DEF Init
  <2>2. /\ cluster = [nodes |-> cluster.nodes, pods |-> cluster.pods]
        /\ cluster.nodes = Nodes /\ DOMAIN cluster.pods = DOMAIN Running
    BY <2>1
  <2>3. DOMAIN pods = {} /\ nodes = {} /\ program \in {"cli", "sample"}
    BY DEF Init
  <2> QED
    BY <2>2, <2>3 DEF ClusterInv
<1> QED
  BY <1>5, <1>8, <1>9 DEF Inv

(* A step that goes on, or gives up, without touching the cluster or the   *)
(* placement.                                                              *)
LEMMA QuietStep ==
    ASSUME Inv, UNCHANGED <<program, cluster, pods, nodes, status>>,
           stage' \in Late <=> stage \in Late
    PROVE  Inv'
<1>1. ClusterInv'
  BY DEF Inv, ClusterInv
<1>2. StatusInv'
  BY DEF Inv, StatusInv
<1>3. HostedInv'
  BY DEF Inv, HostedInv
<1> QED
  BY <1>1, <1>2, <1>3 DEF Inv

(* getCheckpoints, and what happens to the cluster meanwhile: nothing is   *)
(* simulated yet.                                                          *)
LEMMA ReadStep ==
    ASSUME Inv, ListPods \/ ListNodes \/ ClusterChanges
    PROVE  Inv'
<1>1. stage \notin Late /\ stage' \notin Late /\ UNCHANGED <<program, status>>
  <2>1. CASE ClusterChanges
    BY <2>1 DEF ClusterChanges, input, Late
  <2>2. CASE ListPods \/ ListNodes
    <3>1. Proceed /\ stage \in {"pods", "nodes"} /\ UNCHANGED <<program, status>>
      BY <2>2 DEF ListPods, ListNodes, input
    <3> QED
      BY <3>1, ProceedFacts DEF Inv, ClusterInv, Late
  <2> QED
    BY <2>1, <2>2
<1>2. ClusterInv'
  <2>1. CASE ListPods
    BY <2>1 DEF ListPods, Inv, ClusterInv, input
  <2>2. CASE ListNodes
    BY <2>2 DEF ListNodes, Inv, ClusterInv, input
  <2>3. CASE ClusterChanges
    <3>1. ASSUME NEW n \in cluster.nodes,
                 cluster' = [nodes |-> cluster.nodes \ {n},
                             pods  |-> [p \in {q \in DOMAIN cluster.pods :
                                                 cluster.pods[q] # n} |-> cluster.pods[p]]]
          PROVE  ClusterInv'
      BY <2>3, <3>1 DEF ClusterChanges, Inv, ClusterInv, input
    <3>2. ASSUME NEW p \in DOMAIN cluster.pods, NEW n \in cluster.nodes,
                 cluster' = [cluster EXCEPT !.pods[p] = n]
          PROVE  ClusterInv'
      <4> DEFINE m == [cluster.pods EXCEPT ![p] = n]
      <4>1. cluster' = [nodes |-> cluster.nodes, pods |-> m]
        BY <3>2 DEF Inv, ClusterInv
      <4>2. DOMAIN m = DOMAIN cluster.pods
        OBVIOUS
      <4> HIDE DEF m
      <4>3. cluster'.nodes = cluster.nodes /\ cluster'.pods = m
        BY <4>1
      <4> QED
        BY <2>3, <4>1, <4>2, <4>3 DEF ClusterChanges, Inv, ClusterInv, input
    <3> QED
      BY <2>3, <3>1, <3>2 DEF ClusterChanges
  <2> QED
    BY <2>1, <2>2, <2>3
<1>3. StatusInv'
  BY <1>1 DEF Inv, StatusInv
<1>4. HostedInv'
  BY <1>1 DEF Inv, HostedInv
<1> QED
  BY <1>2, <1>3, <1>4 DEF Inv

(* New: every pod that was read is stored before the simulation starts. *)
LEMMA NewStep ==
    ASSUME Inv, New
    PROVE  Inv'
<1> DEFINE none == ""
           T == {[pod |-> p, host |-> pods[p], reason |-> none] : p \in DOMAIN pods}
           f == [p \in DOMAIN pods |-> [pod |-> p, host |-> pods[p], reason |-> none]]
           s == SetToSeq(T)
<1>1. IsFiniteSet(DOMAIN pods)
  BY CommandAssumption, FS_Subset DEF Inv, ClusterInv
<1>2. IsFiniteSet(T)
  <2>1. f \in Surjection(DOMAIN pods, T)
    BY DEF Surjection
  <2> QED
    BY <1>1, <2>1, FS_Surjection
<1>3. /\ stage = "new" /\ status' = [status EXCEPT !.scheduled = s]
      /\ Proceed \/ stage' = "failed"
      /\ UNCHANGED <<program, cluster, pods, nodes>>
  BY DEF New, input
<1> HIDE DEF none
<1>4. \A p \in DOMAIN pods : \E e \in T : e.pod = p /\ e.host = pods[p]
  <2> SUFFICES ASSUME NEW p \in DOMAIN pods
               PROVE  \E e \in T : e.pod = p /\ e.host = pods[p]
    OBVIOUS
  <2> DEFINE r == [pod |-> p, host |-> pods[p], reason |-> none]
  <2>1. r \in T
    OBVIOUS
  <2>2. r.pod = p /\ r.host = pods[p]
    OBVIOUS
  <2> HIDE DEF r, T
  <2> QED
    BY <2>1, <2>2
<1> HIDE DEF T
<1>5. IsSeq(s) /\ \A x \in T : \E i \in DOMAIN s : s[i] = x
  BY <1>2, SetToSeqFacts
<1> HIDE DEF s
<1>6. status'.scheduled = s /\ status'.success = status.success
      /\ {"scheduled", "success"} \subseteq DOMAIN status'
  BY <1>3 DEF Inv, StatusInv
<1>7. StatusInv'
  BY <1>5, <1>6 DEF Inv, StatusInv
<1>8. ClusterInv'
  BY <1>3 DEF Inv, ClusterInv
<1>9. status.success = <<>> /\ \A n : On(<<>>, n) = {}
  BY <1>3 DEF Inv, HostedInv, Late, On
<1>10. \A p \in DOMAIN pods : p \in On(s, pods[p])
  BY <1>4, <1>5 DEF On
<1>11. HostedInv'
  BY <1>3, <1>6, <1>9, <1>10 DEF HostedInv
<1> QED
  BY <1>7, <1>8, <1>11 DEF Inv

(* Place: the node can host the pod beside all that it has. *)
LEMMA PlaceStep ==
    ASSUME Inv, Place
    PROVE  Inv'
<1> DEFINE p == Last(queue)
           none == ""
<1>1. PICK n \in Hosts(p) :
        status' = [status EXCEPT !.success =
                     Append(status.success, [pod |-> p, host |-> n, reason |-> none])]
  BY DEF Place
<1>2. stage = "run" /\ UNCHANGED <<program, cluster, pods, nodes, stage>>
  BY DEF Place, Turn, input
<1> HIDE DEF p, none
<1> DEFINE a == status.scheduled
           b == status.success
           c == Append(b, [pod |-> p, host |-> n, reason |-> none])
<1>3. status'.scheduled = a /\ status'.success = c
      /\ {"scheduled", "success"} \subseteq DOMAIN status'
  BY <1>1 DEF Inv, StatusInv
<1>4. IsSeq(a) /\ IsSeq(b)
  BY DEF Inv, StatusInv
<1>5. n \in Nodes /\ CanHost(n, On(a \o b, n) \cup {p})
  BY <1>1 DEF Hosts, Inv, ClusterInv
<1>6. On(a \o b, n) = On(a, n) \cup On(b, n)
  BY <1>4, OnConcat
<1>7. IsSeq(c) /\ \A m : On(c, m) = On(b, m) \cup (IF m = n THEN {p} ELSE {})
  BY <1>4, OnAppend
<1>8. \A m \in Nodes : On(b, m) # {} => CanHost(m, On(a, m) \cup On(b, m))
  BY DEF Inv, HostedInv
<1>9. \A q \in DOMAIN pods : q \in On(a, pods[q])
  BY <1>2 DEF Inv, HostedInv, Late
<1> HIDE DEF a, b, c
<1>10. \A m \in Nodes : On(c, m) # {} => CanHost(m, On(a, m) \cup On(c, m))
  <2> SUFFICES ASSUME NEW m \in Nodes, On(c, m) # {}
               PROVE  CanHost(m, On(a, m) \cup On(c, m))
    OBVIOUS
  <2>1. CASE m = n
    <3>1. On(a, m) \cup On(c, m) = On(a \o b, n) \cup {p}
      BY <1>6, <1>7, <2>1
    <3> QED
      BY <1>5, <2>1, <3>1
  <2>2. CASE m # n
    <3>1. On(c, m) = On(b, m)
      BY <1>7, <2>2
    <3> QED
      BY <1>8, <3>1
  <2> QED
    BY <2>1, <2>2
<1>11. ClusterInv'
  BY <1>2 DEF Inv, ClusterInv
<1>12. StatusInv'
  BY <1>3, <1>4, <1>7 DEF StatusInv
<1>13. HostedInv'
  BY <1>2, <1>3, <1>9, <1>10 DEF HostedInv, Late
<1> QED
  BY <1>11, <1>12, <1>13 DEF Inv

(* Refuse: a refused pod takes no room. *)
LEMMA RefuseStep ==
    ASSUME Inv, Refuse
    PROVE  Inv'
<1>1. /\ stage = "run" /\ UNCHANGED <<program, cluster, pods, nodes, stage>>
      /\ \E x : status' = [status EXCEPT !.failed = x]
  BY DEF Refuse, Turn, input
<1>2. status'.scheduled = status.scheduled /\ status'.success = status.success
      /\ {"scheduled", "success"} \subseteq DOMAIN status'
  BY <1>1 DEF Inv, StatusInv
<1>3. ClusterInv'
  BY <1>1 DEF Inv, ClusterInv
<1>4. StatusInv'
  BY <1>2 DEF Inv, StatusInv
<1>5. HostedInv'
  BY <1>1, <1>2 DEF Inv, HostedInv
<1> QED
  BY <1>3, <1>4, <1>5 DEF Inv

(* Every action preserves the invariant. *)
LEMMA InvStep == Inv /\ [Next]_vars => Inv'
<1> SUFFICES ASSUME Inv, [Next]_vars PROVE Inv'
  OBVIOUS
<1>0. program \in {"cli", "sample"}
  BY DEF Inv, ClusterInv
<1>1. CASE Validate \/ SampleStart \/ NewClusterCapacityConfig \/ Connect \/ Fail
           \/ ParseSimulationPod
  <2>1. /\ stage \in {"validate", "flags", "configure", "connect", "pods", "nodes", "parse"}
        /\ Proceed \/ stage' \in {"usage", "failed"}
        /\ UNCHANGED <<program, cluster, pods, nodes, status>>
    BY <1>1 DEF Validate, SampleStart, NewClusterCapacityConfig, Connect, Fail,
         ParseSimulationPod, input
  <2>2. stage \notin Late /\ stage' \notin Late
    BY <1>0, <2>1, ProceedFacts DEF Late
  <2> QED
    BY <2>1, <2>2, QuietStep
<1>2. CASE RunEnds \/ Report \/ PrintReport
  <2>1. /\ stage \in {"run", "report", "print"}
        /\ Proceed \/ UNCHANGED stage
        /\ UNCHANGED <<program, cluster, pods, nodes, status>>
    BY <1>2 DEF RunEnds, Report, PrintReport, input
  <2>2. stage \in Late /\ stage' \in Late
    BY <1>0, <2>1, ProceedFacts DEF Late
  <2> QED
    BY <2>1, <2>2, QuietStep
<1>3. CASE Idle \/ UNCHANGED vars
  <2>1. UNCHANGED <<program, cluster, pods, nodes, status, stage>>
    BY <1>3 DEF Idle, vars, input
  <2> QED
    BY <2>1, QuietStep
<1> QED
  BY <1>1, <1>2, <1>3, ReadStep, NewStep, PlaceStep, RefuseStep DEF Next, Program

(* Whatever the cluster does between the two requests of getCheckpoints,   *)
(* a node that got simulated pods can host them together with the pods     *)
(* that ran on it all the time, if hosting fewer pods is never harder.     *)
THEOREM RunningPodsRespected ==
    ASSUME HostsFewer
    PROVE  Spec => []RespectsRunning
<1>1. Inv => RespectsRunning
  <2> SUFFICES ASSUME Inv, stage = "done", NEW n \in nodes, On(status.success, n) # {}
               PROVE  LET stayed == {p \in DOMAIN pods \cap DOMAIN cluster.pods :
                                       pods[p] = n /\ cluster.pods[p] = n}
                      IN  CanHost(n, stayed \cup On(status.success, n))
    BY DEF RespectsRunning
  <2> DEFINE stayed == {p \in DOMAIN pods \cap DOMAIN cluster.pods :
                          pods[p] = n /\ cluster.pods[p] = n}
             S == On(status.scheduled, n) \cup On(status.success, n)
             T == stayed \cup On(status.success, n)
  <2>1. n \in Nodes /\ CanHost(n, S)
    BY DEF Inv, ClusterInv, HostedInv
  <2>2. stayed \subseteq On(status.scheduled, n)
    BY DEF Inv, HostedInv, Late
  <2>3. T \in SUBSET S
    BY <2>2
  <2> HIDE DEF S, T
  <2>4. CanHost(n, T)
    BY <2>1, <2>3 DEF HostsFewer
  <2> QED
    BY <2>4 DEF T
<1> QED
  BY <1>1, InvInit, InvStep, PTL DEF Spec
-----------------------------------------------------------------------------
(* Lists of pods and of verdicts *)

(* What is left when the last pod is popped. *)
LEMMA FrontLast ==
    ASSUME NEW S, NEW q \in Seq(S), q # <<>>, Distinct(q)
    PROVE  /\ Front(q) \in Seq(S) /\ Distinct(Front(q))
           /\ Last(q) \in S /\ Last(q) \in ToSet(q)
           /\ ToSet(Front(q)) = ToSet(q) \ {Last(q)}
<1> DEFINE n == Len(q)
           f == Front(q)
<1>1. n \in Nat /\ DOMAIN q = 1..n /\ n # 0 /\ \A i \in 1..n : q[i] \in S
  BY LenProperties, EmptySeq, ElementOfSeq
<1>2. /\ f \in Seq(S) /\ Len(f) = n - 1
      /\ \A i \in 1..(n - 1) : f[i] = q[i]
  <2>1. \A i \in 1..(n - 1) : q[i] \in S
    BY <1>1
  <2>2. /\ SubSeq(q, 1, n - 1) \in Seq(S)
        /\ Len(SubSeq(q, 1, n - 1)) = IF 1 <= n - 1 THEN (n - 1) - 1 + 1 ELSE 0
        /\ \A i \in 1..((n - 1) - 1 + 1) : SubSeq(q, 1, n - 1)[i] = q[1 + i - 1]
    BY <1>1, <2>1, SubSeqProperties
  <2>3. f = SubSeq(q, 1, n - 1)
    BY DEF Front
  <2> HIDE DEF f, n
  <2> QED
    BY <1>1, <2>2, <2>3
<1>3. DOMAIN f = 1..(n - 1)
  BY <1>2, LenProperties
<1>4. Last(q) = q[n]
  BY DEF Last
<1> HIDE DEF f, n
<1>5. Distinct(f)
  BY <1>1, <1>2, <1>3 DEF Distinct
<1>6. ToSet(f) = ToSet(q) \ {q[n]}
  <2>1. \A i \in 1..n : i = n \/ i \in 1..(n - 1)
    BY <1>1
  <2>2. \A i \in 1..(n - 1) : i \in 1..n /\ i # n /\ n \in 1..n
    BY <1>1
  <2>3. \A i \in 1..(n - 1) : q[i] # q[n]
    BY <1>1, <2>2 DEF Distinct
  <2> QED
    BY <1>1, <1>2, <1>3, <2>1, <2>2, <2>3 DEF ToSet
<1>7. q[n] \in S /\ q[n] \in ToSet(q)
  BY <1>1 DEF ToSet
<1> QED
  BY <1>2, <1>4, <1>5, <1>6, <1>7 DEF f

(* One verdict more, about a pod there was none of. *)
LEMMA AppendOnce ==
    ASSUME NEW S, NEW s \in Seq(S), NEW e \in S, EachOnce(s), e.pod \notin PodsOf(s)
    PROVE  LET a == Append(s, e) IN
           /\ a \in Seq(S) /\ EachOnce(a) /\ PodsOf(a) = PodsOf(s) \cup {e.pod}
           /\ \A i \in DOMAIN a : a[i] = e \/ (i \in DOMAIN s /\ a[i] = s[i])
<1> DEFINE a == Append(s, e)
           n == Len(s)
<1>1. n \in Nat /\ DOMAIN s = 1..n
  BY LenProperties
<1>2. a \in Seq(S) /\ DOMAIN a = 1..(n + 1) /\ a[n + 1] = e /\ \A i \in 1..n : a[i] = s[i]
  BY AppendProperties, LenProperties
<1> HIDE DEF a, n
<1>3. \A i \in DOMAIN a : i = n + 1 \/ i \in DOMAIN s
  BY <1>1, <1>2
<1>4. (n + 1) \in DOMAIN a /\ \A i \in DOMAIN s : i \in DOMAIN a /\ a[i] = s[i]
  BY <1>1, <1>2
<1>5. EachOnce(a)
  BY <1>2, <1>3, <1>4 DEF EachOnce, PodsOf
<1>6. PodsOf(a) = PodsOf(s) \cup {e.pod}
  BY <1>2, <1>3, <1>4 DEF PodsOf
<1> QED
  BY <1>2, <1>3, <1>4, <1>5, <1>6 DEF a

(* Two lists about different pods. *)
LEMMA ConcatOnce ==
    ASSUME NEW S, NEW s \in Seq(S), NEW t \in Seq(S), EachOnce(s), EachOnce(t),
           PodsOf(s) \cap PodsOf(t) = {}
    PROVE  EachOnce(s \o t) /\ PodsOf(s \o t) = PodsOf(s) \cup PodsOf(t)
<1> DEFINE u == s \o t
           m == Len(s)
<1>1. /\ \A i \in DOMAIN s : i \in DOMAIN u /\ u[i] = s[i]
      /\ \A i \in DOMAIN t : i + m \in DOMAIN u /\ u[i + m] = t[i]
      /\ \A i \in DOMAIN u : i \in DOMAIN s \/ (i - m \in DOMAIN t /\ i \notin DOMAIN s)
      /\ m \in Nat /\ DOMAIN s \subseteq Nat /\ DOMAIN t \subseteq Nat /\ DOMAIN u \subseteq Nat
  BY ConcatPlaces
<1> HIDE DEF u, m
<1>2. \A i \in DOMAIN u : i - m \in DOMAIN t => u[i] = t[i - m]
  <2> SUFFICES ASSUME NEW i \in DOMAIN u, i - m \in DOMAIN t PROVE u[i] = t[i - m]
    OBVIOUS
  <2>1. u[(i - m) + m] = t[i - m] /\ (i - m) + m = i
    BY <1>1
  <2> QED
    BY <2>1
<1>3. \A i \in DOMAIN u : /\ i \in DOMAIN s => u[i].pod \in PodsOf(s)
                          /\ i \notin DOMAIN s => u[i].pod \in PodsOf(t)
  BY <1>1, <1>2 DEF PodsOf
<1>4. ASSUME NEW i \in DOMAIN u, NEW j \in DOMAIN u, u[i].pod = u[j].pod
      PROVE  i = j
  <2>1. i \in DOMAIN s <=> j \in DOMAIN s
    BY <1>3, <1>4
  <2>2. CASE i \in DOMAIN s
    BY <1>1, <1>4, <2>1, <2>2 DEF EachOnce
  <2>3. CASE i \notin DOMAIN s
    <3>1. /\ i - m \in DOMAIN t /\ j - m \in DOMAIN t
          /\ t[i - m].pod = t[j - m].pod
      BY <1>1, <1>2, <1>4, <2>1, <2>3
    <3>2. i - m = j - m
      BY <3>1 DEF EachOnce
    <3> QED
      BY <1>1, <3>2
  <2> QED
    BY <2>2, <2>3
<1>5. PodsOf(u) \subseteq PodsOf(s) \cup PodsOf(t)
  BY <1>3 DEF PodsOf
<1>6. PodsOf(s) \subseteq PodsOf(u) /\ PodsOf(t) \subseteq PodsOf(u)
  BY <1>1 DEF PodsOf
<1>7. EachOnce(u)
  BY <1>4 DEF EachOnce
<1> QED
  BY <1>5, <1>6, <1>7 DEF u
-----------------------------------------------------------------------------
(* From the pod file to the printed tables *)

(* No pods are made of an empty file. *)
LEMMA NoFile ==
    ASSUME file = <<>>
    PROVE  PodIds = {} /\ IsFile(file) /\ \A p : Desired(p) = Running[p]
<1>1. PodIds = {}
  BY DEF PodIds
<1>2. IsFile(file)
  BY DEF IsFile, ToSet
<1> QED
  BY <1>1, <1>2 DEF Desired

(* A pod that requests what it requested at first. *)
LEMMA FaithfulItself ==
    ASSUME NEW C, IsContainers(C)
    PROVE  Faithful(C, C) /\ \A r \in Columns : SameColumn(C, C, r)
  BY DEF Faithful, SameResources, SameColumn

(* What a pod of the file requests at first, and a running pod. *)
LEMMA DesiredTyped ==
    ASSUME IsFile(file), NEW p \in DOMAIN Running \cup PodIds
    PROVE  IsContainers(Desired(p))
<1>1. CASE p \in PodIds
  <2>1. PICK i \in DOMAIN file : \E k \in 1..file[i].num : p = <<i, k>>
    BY <1>1 DEF PodIds
  <2>2. p[1] = i /\ Desired(p) = file[p[1]].containers
    BY <1>1, <2>1 DEF Desired
  <2> QED
    BY <2>2 DEF IsFile
<1>2. CASE p \notin PodIds
  BY <1>2, CommandAssumption DEF Desired
<1> QED
  BY <1>1, <1>2

(* The invariant of the tables holds initially. *)
LEMMA TableInit == Init => TableInv
<1> SUFFICES ASSUME Init PROVE TableInv
  OBVIOUS
<1>0. stage \in {"validate", "flags"} /\ stage \in ToSet(Order[program])
  <2>1. CASE program = "cli"
    <3>1. Order[program] = CliRun
      BY <2>1 DEF Order
    <3> QED
      BY <3>1, CliOrder DEF Init, ToSet
  <2>2. CASE program = "sample"
    <3>1. Order[program] = SampleMain
      BY <2>2 DEF Order
    <3> QED
      BY <3>1, SampleOrder DEF Init, ToSet
  <2> QED
    BY <2>1, <2>2 DEF Init
<1>1. /\ file = <<>> /\ queue = <<>> /\ requests = Running /\ review = NoReview /\ parts = 0
      /\ status = [c \in ToSet(Classes) |-> <<>>]
      /\ pods = <<>>
      /\ cluster \in [nodes : {Nodes}, pods : [DOMAIN Running -> Nodes]]
  BY DEF Init
<1>2. PodIds = {} /\ IsFile(file) /\ \A p : Desired(p) = Running[p]
  BY <1>1, NoFile
<1>3. StageInv
  BY <1>0, <1>1 DEF StageInv
<1>4. FileInv
  BY <1>1, <1>2 DEF FileInv
<1>5. {"failed", "success", "scheduled"} \subseteq ToSet(Classes)
  BY DEF ToSet, Classes
<1>6. status.failed = <<>> /\ status.success = <<>> /\ status.scheduled = <<>>
  BY <1>1, <1>5
<1>7. ListInv
  <2>1. DOMAIN status = ToSet(Classes)
    BY <1>1
  <2>2. \A S : <<>> \in Seq(S)
    BY EmptySeq
  <2>3. DOMAIN <<>> = {}
    OBVIOUS
  <2> QED
    BY <1>6, <2>1, <2>2, <2>3, Zenon DEF ListInv
<1>8. OnceInv
  BY <1>0, <1>1, <1>2, <1>6 DEF OnceInv, Distinct, EachOnce, PodsOf, ToSet, Reporting
<1>9. RequestInv
  BY <1>1, <1>2, FaithfulItself, CommandAssumption DEF RequestInv
<1>10. ReviewInv
  <2>1. DOMAIN review = ToSet(Classes)
    BY <1>1 DEF NoReview
  <2>2. \A c \in ToSet(Classes) : DOMAIN review[c] = {"spec", "status", "summary"}
    BY <1>1 DEF NoReview
  <2>3. \A k \in 1..3 : ~(parts >= 2 * k)
    BY <1>1
  <2> QED
    BY <1>0, <1>1, <2>1, <2>2, <2>3 DEF ReviewInv, Reporting
<1> QED
  BY <1>3, <1>4, <1>7, <1>8, <1>9, <1>10 DEF TableInv

(* What depends on the file only does not change with the rest. *)
LEMMA SameFile ==
    ASSUME file' = file
    PROVE  /\ PodIds' = PodIds /\ \A p : Desired(p)' = Desired(p)
           /\ \A p : Unclaimed(p)' = Unclaimed(p)
           /\ Refusals' = Refusals /\ Placements' = Placements /\ Residents' = Residents
<1>1. PodIds' = PodIds
  BY DEF PodIds
<1>2. \A p : Desired(p)' = Desired(p)
  BY <1>1 DEF Desired
<1>3. Refusals' = Refusals /\ Placements' = Placements /\ Residents' = Residents
  BY <1>1, Zenon DEF Refusals, Placements, Residents
<1> QED
  BY <1>1, <1>2, <1>3 DEF Unclaimed

(* A step that neither makes a pod nor decides about one nor reports it. *)
LEMMA QuietTables ==
    ASSUME TableInv,
           UNCHANGED <<program, file, queue, status, requests, review, parts, output>>,
           nodes' = nodes \/ stage \notin Late,
           stage' \in Late <=> stage \in Late,
           stage' \in Unparsed(program) => stage \in Unparsed(program),
           stage' = stage \/ (stage \notin Reporting /\ stage' \notin Reporting)
    PROVE  FileInv' /\ ListInv' /\ OnceInv' /\ RequestInv' /\ ReviewInv'
<1>1. /\ PodIds' = PodIds /\ \A p : Desired(p)' = Desired(p)
      /\ \A p : Unclaimed(p)' = Unclaimed(p)
      /\ Refusals' = Refusals /\ Placements' = Placements /\ Residents' = Residents
  BY SameFile
<1>2. FileInv /\ ListInv /\ OnceInv /\ RequestInv /\ ReviewInv
  BY DEF TableInv
<1>3. stage' \in Reporting <=> stage \in Reporting
  OBVIOUS
<1>4. FileInv'
  BY <1>2 DEF FileInv
<1>5. ListInv'
  <2>1. \A i \in DOMAIN status.success : status.success[i].host \in nodes'
    BY <1>2 DEF ListInv
  <2>2. UNCHANGED status
    OBVIOUS
  <2>3. /\ DOMAIN status = ToSet(Classes)
        /\ status.failed \in Seq(Refusals')
        /\ status.success \in Seq(Placements')
        /\ status.scheduled \in Seq(Residents')
        /\ stage' \notin Late => status.failed = <<>> /\ status.success = <<>>
    BY <1>1, <1>2 DEF ListInv
  <2> QED
    BY <2>1, <2>2, <2>3, Zenon DEF ListInv
<1>6. OnceInv'
  BY <1>1, <1>2, <1>3 DEF OnceInv
<1>7. RequestInv'
  BY <1>1, <1>2, <1>3 DEF RequestInv
<1>8. ReviewInv'
  <2>1. \A c : RowsOf(c)' <=> RowsOf(c)
    BY <1>1 DEF RowsOf
  <2>2. ClusterCapacityReviewPrint' = ClusterCapacityReviewPrint
    BY DEF ClusterCapacityReviewPrint, distributePodsPrint, statusPrint
  <2> QED
    BY <1>2, <1>3, <2>1, <2>2 DEF ReviewInv, Reporting
<1> QED
  BY <1>4, <1>5, <1>6, <1>7, <1>8
(* Each step of a program is a step of its order of calls, or its last. *)
LEMMA StageStep ==
    ASSUME Inv, StageInv, [Next]_vars
    PROVE  StageInv'
<1>0. program \in {"cli", "sample"}
  BY DEF Inv, ClusterInv
<1>1. /\ UNCHANGED program
      /\ \/ UNCHANGED stage
         \/ stage' \in {"usage", "failed"}
         \/ Proceed /\ stage # "done"
  <2>1. CASE Validate \/ SampleStart \/ NewClusterCapacityConfig \/ Connect \/ Fail
             \/ ListPods \/ ListNodes
    BY <2>1 DEF Validate, SampleStart, NewClusterCapacityConfig, Connect, Fail, ListPods,
         ListNodes, input
  <2>2. CASE ParseSimulationPod \/ New \/ Place \/ Refuse
    BY <2>2 DEF ParseSimulationPod, New, Place, Refuse, input
  <2>3. CASE RunEnds \/ Report \/ PrintReport
    BY <2>3 DEF RunEnds, Report, PrintReport, input
  <2>4. CASE ClusterChanges \/ Idle \/ UNCHANGED vars
    BY <2>4 DEF ClusterChanges, Idle, vars, input
  <2> QED
    BY <2>1, <2>2, <2>3, <2>4 DEF Next, Program
<1>2. (stage \in Ended \cup ToSet(Order[program]))'
  <2>1. Order' = Order /\ Ended' = Ended
    BY DEF Order, Ended, CliRun, SampleMain, getCheckpoints, runSimulator
  <2>2. stage' \in Ended \cup ToSet(Order[program])
    BY <1>0, <1>1, ProceedFacts DEF StageInv, Ended
  <2> QED
    BY <1>1, <2>1, <2>2
<1>3. \/ UNCHANGED <<cluster, pods>>
      \/ pods' = cluster.pods /\ UNCHANGED cluster
      \/ ClusterChanges
  <2>1. CASE Validate \/ SampleStart \/ NewClusterCapacityConfig \/ Connect \/ Fail
             \/ ListPods \/ ListNodes
    BY <2>1 DEF Validate, SampleStart, NewClusterCapacityConfig, Connect, Fail, ListPods,
         ListNodes
  <2>2. CASE ParseSimulationPod \/ New \/ Place \/ Refuse
    BY <2>2 DEF ParseSimulationPod, New, Place, Refuse
  <2>3. CASE RunEnds \/ Report \/ PrintReport
    BY <2>3 DEF RunEnds, Report, PrintReport
  <2>4. CASE ClusterChanges \/ Idle \/ UNCHANGED vars
    BY <2>4 DEF Idle, vars
  <2> QED
    BY <2>1, <2>2, <2>3, <2>4 DEF Next, Program
<1>4. (\A p \in DOMAIN cluster.pods : cluster.pods[p] \in Nodes)'
  <2>1. CASE UNCHANGED cluster
    BY <2>1 DEF StageInv
  <2>2. CASE ClusterChanges
    <3>1. ASSUME NEW n \in cluster.nodes,
                 cluster' = [nodes |-> cluster.nodes \ {n},
                             pods  |-> [p \in {q \in DOMAIN cluster.pods :
                                                 cluster.pods[q] # n} |-> cluster.pods[p]]]
          PROVE  \A p \in DOMAIN cluster'.pods : cluster'.pods[p] \in Nodes
      BY <3>1 DEF StageInv
    <3>2. ASSUME NEW p \in DOMAIN cluster.pods, NEW n \in cluster.nodes,
                 cluster' = [cluster EXCEPT !.pods[p] = n]
          PROVE  \A q \in DOMAIN cluster'.pods : cluster'.pods[q] \in Nodes
      <4> DEFINE m == [cluster.pods EXCEPT ![p] = n]
      <4>1. cluster' = [nodes |-> cluster.nodes, pods |-> m]
        BY <3>2 DEF Inv, ClusterInv
      <4>2. DOMAIN m = DOMAIN cluster.pods /\ \A q \in DOMAIN m : m[q] \in Nodes
        BY DEF StageInv, Inv, ClusterInv
      <4> HIDE DEF m
      <4> QED
        BY <4>1, <4>2
    <3> QED
      BY <2>2, <3>1, <3>2 DEF ClusterChanges
  <2> QED
    BY <1>3, <2>1, <2>2
<1>5. (\A p \in DOMAIN pods : pods[p] \in Nodes)'
  <2>1. UNCHANGED pods \/ pods' = cluster.pods
    BY <1>3 DEF ClusterChanges
  <2> QED
    BY <2>1 DEF StageInv
<1> QED
  BY <1>2, <1>4, <1>5 DEF StageInv

(* The sample's file. *)
LEMMA SampleIsFile == IsFile(SampleFile)
<1> DEFINE cpu    == [val |-> 9, kind |-> "int"]
           memory == [val |-> 43, kind |-> "int"]
           c == [cpu |-> cpu, memory |-> memory]
           e == [num |-> SampleNum, containers |-> SamplePod, claimed |-> TRUE]
<1>1. cpu \in Quantity /\ memory \in Quantity
  BY DEF Quantity, Kinds
<1> HIDE DEF cpu, memory
<1>2. \A r \in DOMAIN c : c[r] \in Quantity
  BY <1>1
<1>3. SamplePod = <<c>>
  BY DEF SamplePod, cpu, memory
<1> HIDE DEF c
<1>4. IsContainers(SamplePod)
  BY <1>2, <1>3 DEF IsContainers, ToSet
<1>5. e.num \in Int /\ e.containers = SamplePod
  BY CommandAssumption
<1>6. SampleFile = <<e>>
  BY DEF SampleFile
<1> HIDE DEF e
<1> QED
  BY <1>4, <1>5, <1>6 DEF IsFile, ToSet

(* Reading a file: every pod of it waits, and none twice; each requests    *)
(* what its entry does.                                                    *)
LEMMA ReadFile ==
    ASSUME NEW f, IsFile(f), AddPods(f), requests = Running
    PROVE  /\ PodIds' \subseteq Nat \X Nat
           /\ queue' \in Seq(PodIds') /\ Distinct(queue') /\ ToSet(queue') = PodIds'
           /\ DOMAIN requests' = DOMAIN Running \cup PodIds'
           /\ \A p \in DOMAIN requests' :
                 requests'[p] = Desired(p)' /\ IsContainers(requests'[p])
<1> DEFINE n == Len(f)
           num == [i \in 1..n |-> f[i].num]
           s == [i \in DOMAIN f |-> [k \in 1..f[i].num |-> <<i, k>>]]
           t == [i \in 1..n |-> [k \in 1..num[i] |-> <<i, k>>]]
<1>1. file' = f /\ queue' = FlattenSeq(s)
      /\ requests' = WithPods(f, PodIds')
  BY DEF AddPods
<1>2. n \in Nat /\ DOMAIN f = 1..n
  BY LenProperties DEF IsFile
<1>3. num \in [1..n -> Int]
  BY <1>2 DEF IsFile
<1>4. s = t
  BY <1>2
<1>5. PodIds' = Upto(num, n)
  BY <1>1, <1>2 DEF PodIds, Upto
<1>6. /\ FlattenSeq(t) \in Seq(Upto(num, n)) /\ Distinct(FlattenSeq(t))
      /\ ToSet(FlattenSeq(t)) = Upto(num, n)
  BY <1>2, <1>3, FilePods
<1>7. queue' \in Seq(PodIds') /\ Distinct(queue') /\ ToSet(queue') = PodIds'
  BY <1>1, <1>4, <1>5, <1>6
<1>8. \A p \in PodIds' : p \in Nat \X Nat /\ p[1] \in DOMAIN f
  <2> SUFFICES ASSUME NEW p \in Upto(num, n) PROVE p \in Nat \X Nat /\ p[1] \in DOMAIN f
    BY <1>5
  <2>1. PICK i \in 1..n : \E k \in 1..num[i] : p = <<i, k>>
    BY DEF Upto
  <2>2. PICK k \in 1..num[i] : p = <<i, k>>
    BY <2>1
  <2>3. i \in Nat /\ k \in Nat
    BY <1>2, <1>3
  <2> QED
    BY <1>2, <2>2, <2>3
<1> HIDE DEF s, t, num, n
<1>9. /\ DOMAIN requests' = DOMAIN Running \cup PodIds'
      /\ \A p \in DOMAIN requests' :
            requests'[p] = IF p \in DOMAIN Running THEN Running[p] ELSE f[p[1]].containers
  BY <1>1 DEF WithPods
<1>10. ASSUME NEW p \in DOMAIN requests'
       PROVE  requests'[p] = Desired(p)' /\ IsContainers(requests'[p])
  <2>1. CASE p \in DOMAIN Running
    <3>1. p \notin PodIds'
      BY <1>8, <2>1, CommandAssumption
    <3> QED
      BY <1>9, <2>1, <3>1, CommandAssumption DEF Desired
  <2>2. CASE p \notin DOMAIN Running
    <3>1. p \in PodIds' /\ p[1] \in DOMAIN f /\ requests'[p] = f[p[1]].containers
      BY <1>8, <1>9, <2>2
    <3> QED
      BY <1>1, <3>1 DEF Desired, IsFile
  <2> QED
    BY <2>1, <2>2
<1> QED
  BY <1>7, <1>8, <1>9, <1>10
(* Making the pods. *)
LEMMA ParseTables ==
    ASSUME Inv, TableInv, NEW f, IsFile(f), AddPods(f), Proceed, stage \in {"flags", "parse"},
           UNCHANGED <<program, nodes, status, output, review, parts>>
    PROVE  FileInv' /\ ListInv' /\ OnceInv' /\ RequestInv' /\ ReviewInv'
<1>1. /\ stage \notin Late /\ stage' \notin Late /\ stage' \notin Reporting
      /\ stage \notin Reporting /\ stage \in Unparsed(program)
      /\ stage' \notin Unparsed(program)
  BY ProceedFacts DEF Inv, ClusterInv, Late, Reporting, Unparsed
<1>2. requests = Running
  BY <1>1 DEF TableInv, FileInv
<1>3. /\ PodIds' \subseteq Nat \X Nat
      /\ queue' \in Seq(PodIds') /\ Distinct(queue') /\ ToSet(queue') = PodIds'
      /\ DOMAIN requests' = DOMAIN Running \cup PodIds'
      /\ \A p \in DOMAIN requests' :
            requests'[p] = Desired(p)' /\ IsContainers(requests'[p])
  BY <1>2, ReadFile
<1>4. status.failed = <<>> /\ status.success = <<>>
  BY <1>1 DEF TableInv, ListInv
<1>5. file' = f
  BY DEF AddPods
<1>6. FileInv'
  BY <1>1, <1>5 DEF FileInv
<1>7. ListInv'
  <2>1. \A S : <<>> \in Seq(S)
    BY EmptySeq
  <2>2. Residents' = Residents
    BY Zenon DEF Residents
  <2>3. DOMAIN status = ToSet(Classes) /\ status.scheduled \in Seq(Residents)
    BY DEF TableInv, ListInv
  <2>4. UNCHANGED status /\ DOMAIN <<>> = {}
    OBVIOUS
  <2> QED
    BY <1>4, <2>1, <2>2, <2>3, <2>4, Zenon DEF ListInv
<1>8. OnceInv'
  <2>1. PodsOf(<<>>) = {} /\ EachOnce(<<>>)
    BY DEF PodsOf, EachOnce
  <2> QED
    BY <1>1, <1>3, <1>4, <2>1 DEF OnceInv
<1>9. RequestInv'
  BY <1>3, FaithfulItself DEF RequestInv
<1>10. ReviewInv'
  <2>1. ReviewInv
    BY DEF TableInv
  <2>2. parts = 0
    BY <1>1, <2>1 DEF ReviewInv
  <2>3. \A k \in 1..3 : ~(parts' >= 2 * k)
    BY <2>2
  <2> QED
    BY <1>1, <2>1, <2>2, <2>3 DEF ReviewInv, Reporting
<1> QED
  BY <1>6, <1>7, <1>8, <1>9, <1>10

(* New lists the pods that were read. *)
LEMMA NewTables ==
    ASSUME Inv, TableInv, New
    PROVE  FileInv' /\ ListInv' /\ OnceInv' /\ RequestInv' /\ ReviewInv'
<1> DEFINE none == ""
           T == {[pod |-> p, host |-> pods[p], reason |-> none] : p \in DOMAIN pods}
           f == [p \in DOMAIN pods |-> [pod |-> p, host |-> pods[p], reason |-> none]]
           s == SetToSeq(T)
<1>1. IsFiniteSet(DOMAIN pods)
  BY CommandAssumption, FS_Subset DEF Inv, ClusterInv
<1>2. IsFiniteSet(T)
  <2>1. f \in Surjection(DOMAIN pods, T)
    BY DEF Surjection
  <2> QED
    BY <1>1, <2>1, FS_Surjection
<1>3. /\ stage = "new" /\ status' = [status EXCEPT !.scheduled = s]
      /\ Proceed \/ stage' = "failed"
      /\ UNCHANGED <<program, file, nodes, queue, output, requests, review, parts>>
  BY DEF New, input
<1>4. Residents = [pod : DOMAIN Running, host : Nodes, reason : {none}]
  BY Zenon DEF Residents, Reviewed
<1> HIDE DEF none
<1>5. T \subseteq Residents
  BY <1>4 DEF TableInv, StageInv, Inv, ClusterInv
<1> HIDE DEF T
<1>6. s \in Seq(Residents)
  BY <1>2, <1>5, SetToSeqFacts, SeqMonotonic
<1> HIDE DEF s
<1>7. /\ DOMAIN status = ToSet(Classes)
      /\ {"failed", "success", "scheduled"} \subseteq ToSet(Classes)
  BY DEF TableInv, ListInv, ToSet, Classes
<1>8. /\ DOMAIN status' = ToSet(Classes) /\ status'.scheduled = s
      /\ status'.failed = status.failed /\ status'.success = status.success
  BY <1>3, <1>7
<1>9. /\ stage \notin Late /\ stage \notin Reporting /\ stage' \notin Reporting
      /\ stage' \notin Unparsed(program)
  BY <1>3, ProceedFacts DEF Inv, ClusterInv, Late, Reporting, Unparsed
<1>10. /\ PodIds' = PodIds /\ \A p : Desired(p)' = Desired(p)
       /\ \A p : Unclaimed(p)' = Unclaimed(p)
       /\ Refusals' = Refusals /\ Placements' = Placements /\ Residents' = Residents
  BY <1>3, SameFile
<1>11. FileInv'
  BY <1>3, <1>9 DEF TableInv, FileInv
<1>12. ListInv'
  <2>1. /\ status.failed = <<>> /\ status.success = <<>>
        /\ status.failed \in Seq(Refusals) /\ status.success \in Seq(Placements)
        /\ \A i \in DOMAIN status.success : status.success[i].host \in nodes
    BY <1>9 DEF TableInv, ListInv
  <2>2. /\ status'.failed = <<>> /\ status'.success = <<>>
        /\ status'.failed \in Seq(Refusals') /\ status'.success \in Seq(Placements')
        /\ status'.scheduled \in Seq(Residents')
        /\ \A i \in DOMAIN status'.success : status'.success[i].host \in nodes'
    <3>1. nodes' = nodes
      BY <1>3
    <3> QED
      BY <1>6, <1>8, <1>10, <2>1, <3>1
  <2> QED
    BY <1>8, <2>2, Zenon DEF ListInv
<1>13. OnceInv'
  BY <1>3, <1>8, <1>9, <1>10 DEF TableInv, OnceInv
<1>14. RequestInv'
  BY <1>3, <1>9, <1>10 DEF TableInv, RequestInv
<1>15. ReviewInv'
  <2>1. ReviewInv
    BY DEF TableInv
  <2>2. parts = 0
    BY <1>9, <2>1 DEF ReviewInv
  <2>3. \A k \in 1..3 : ~(parts' >= 2 * k)
    BY <1>3, <2>2
  <2> QED
    BY <1>3, <1>9, <2>1, <2>2, <2>3 DEF ReviewInv, Reporting
<1> QED
  BY <1>11, <1>12, <1>13, <1>14, <1>15

(* The simulation is over: the report starts. *)
LEMMA RunEndsTables ==
    ASSUME Inv, TableInv, RunEnds
    PROVE  FileInv' /\ ListInv' /\ OnceInv' /\ RequestInv' /\ ReviewInv'
<1>1. /\ stage = "run" /\ queue = <<>> /\ stage' = "report"
      /\ UNCHANGED <<program, file, nodes, queue, status, output, requests, review, parts>>
  BY ProceedFacts DEF RunEnds, input, Inv, ClusterInv
<1>2. /\ PodIds' = PodIds /\ \A p : Desired(p)' = Desired(p)
      /\ \A p : Unclaimed(p)' = Unclaimed(p)
      /\ Refusals' = Refusals /\ Placements' = Placements /\ Residents' = Residents
  BY <1>1, SameFile
<1>3. /\ stage' \notin Unparsed(program) /\ stage' \in Late /\ stage \notin Reporting
      /\ stage' \in Reporting
  BY <1>1 DEF Unparsed, Late, Reporting
<1>4. FileInv'
  BY <1>1, <1>3 DEF TableInv, FileInv
<1>5. ListInv'
  BY <1>1, <1>2, <1>3 DEF TableInv, ListInv
<1>6. OnceInv'
  BY <1>1, <1>2 DEF TableInv, OnceInv
<1>7. RequestInv'
  BY <1>1, <1>2, <1>3 DEF TableInv, RequestInv
<1>8. ReviewInv'
  <2>1. ReviewInv
    BY DEF TableInv
  <2>2. parts = 0
    BY <1>3, <2>1 DEF ReviewInv
  <2>3. \A k \in 1..3 : ~(parts' >= 2 * k)
    BY <1>1, <2>2
  <2> QED
    BY <1>1, <1>3, <2>1, <2>2, <2>3 DEF ReviewInv
<1> QED
  BY <1>4, <1>5, <1>6, <1>7, <1>8
(* A pod that is decoded again requests the same. *)
LEMMA ReparsedSame ==
    ASSUME NEW C, NEW D, IsContainers(C), SameResources(C, D),
           \A r \in Columns : SameColumn(C, D, r)
    PROVE  /\ Faithful(Reparsed(C), D)
           /\ \A r \in Columns : SameColumn(Reparsed(C), D, r)
<1> DEFINE R == Reparsed(C)
           n == Len(C)
<1>1. n \in Nat /\ DOMAIN C = 1..n
  BY LenProperties DEF IsContainers
<1>2. /\ DOMAIN R = DOMAIN C
      /\ \A i \in DOMAIN C : DOMAIN R[i] = DOMAIN C[i]
  BY DEF Reparsed
<1>3. \A i \in DOMAIN C : \A r \in DOMAIN C[i] :
         /\ R[i][r] \in Quantity
         /\ R[i][r].val = C[i][r].val
  <2> SUFFICES ASSUME NEW i \in DOMAIN C, NEW r \in DOMAIN C[i]
               PROVE  R[i][r] \in Quantity /\ R[i][r].val = C[i][r].val
    OBVIOUS
  <2> DEFINE q == C[i][r]
             k == IF q.kind = "fraction" THEN "int" ELSE q.kind
  <2>1. R[i][r] = [q EXCEPT !.kind = k]
    BY DEF Reparsed
  <2>2. q \in Quantity
    BY DEF IsContainers
  <2>3. k \in Kinds
    BY <2>2 DEF Quantity, Kinds
  <2> HIDE DEF q, k
  <2>4. [q EXCEPT !.kind = k] \in Quantity /\ [q EXCEPT !.kind = k].val = q.val
    BY <2>2, <2>3 DEF Quantity
  <2> QED
    BY <2>1, <2>4 DEF q
<1> HIDE DEF R
<1>4. R \in Seq(ToSet(R))
  <2>1. R = [i \in 1..n |-> R[i]]
    BY <1>1 DEF R, Reparsed
  <2>2. \A i \in 1..n : R[i] \in ToSet(R)
    BY <1>1, <1>2 DEF ToSet
  <2>3. R \in [1..n -> ToSet(R)]
    BY <2>1, <2>2
  <2> HIDE DEF n
  <2> QED
    BY <1>1, <2>3
<1>5. IsContainers(R)
  BY <1>2, <1>3, <1>4 DEF IsContainers
<1>6. SameResources(R, D) /\ \A r \in Columns : SameColumn(R, D, r)
  BY <1>2, <1>3 DEF SameResources, SameColumn
<1> QED
  BY <1>5, <1>6 DEF Faithful, R

(* The pod whose turn it is, and what is left. *)
LEMMA TurnFacts ==
    ASSUME TableInv, Turn
    PROVE  LET p == Last(queue)
               q == Front(queue)
           IN  /\ stage = "run" /\ p \in PodIds /\ p \in ToSet(queue) /\ ~Unclaimed(p)
               /\ p \in DOMAIN requests
               /\ p \notin PodsOf(status.failed) /\ p \notin PodsOf(status.success)
               /\ q \in Seq(PodIds) /\ Distinct(q) /\ ToSet(q) = ToSet(queue) \ {p}
<1> DEFINE p == Last(queue)
           q == Front(queue)
<1>1. stage = "run" /\ queue # <<>> /\ ~Unclaimed(p)
  BY DEF Turn
<1>2. /\ queue \in Seq(PodIds) /\ Distinct(queue)
      /\ ToSet(queue) \cap PodsOf(status.failed) = {}
      /\ ToSet(queue) \cap PodsOf(status.success) = {}
      /\ DOMAIN requests = DOMAIN Running \cup PodIds
  BY DEF TableInv, OnceInv, RequestInv
<1>3. /\ q \in Seq(PodIds) /\ Distinct(q) /\ p \in PodIds /\ p \in ToSet(queue)
      /\ ToSet(q) = ToSet(queue) \ {p}
  BY <1>1, <1>2, FrontLast
<1> HIDE DEF p, q
<1> QED
  BY <1>1, <1>2, <1>3 DEF p, q

(* Bind: the pod is placed on a node that was read. *)
LEMMA PlaceTables ==
    ASSUME Inv, TableInv, Place
    PROVE  FileInv' /\ ListInv' /\ OnceInv' /\ RequestInv' /\ ReviewInv'
<1> DEFINE p == Last(queue)
           q == Front(queue)
           none == ""
<1>1. PICK n \in Hosts(p) :
        status' = [status EXCEPT !.success =
                     Append(status.success, [pod |-> p, host |-> n, reason |-> none])]
  BY DEF Place
<1>2. /\ queue' = q /\ Turn
      /\ UNCHANGED <<program, file, nodes, stage, output, requests, review, parts>>
  BY DEF Place, input
<1>3. /\ stage = "run" /\ p \in PodIds /\ p \in ToSet(queue) /\ ~Unclaimed(p)
      /\ p \notin PodsOf(status.failed) /\ p \notin PodsOf(status.success)
      /\ q \in Seq(PodIds) /\ Distinct(q) /\ ToSet(q) = ToSet(queue) \ {p}
  BY <1>2, TurnFacts
<1>4. n \in nodes /\ n \in Nodes
  BY <1>1 DEF Hosts, Inv, ClusterInv
<1>5. Placements = [pod : PodIds, host : Nodes, reason : {none}]
  BY Zenon DEF Placements, Reviewed
<1> HIDE DEF p, q, none
<1> DEFINE e == [pod |-> p, host |-> n, reason |-> none]
           b == status.success
           a == Append(b, e)
<1>6. e \in Placements /\ e.pod = p /\ e.host = n
  BY <1>3, <1>4, <1>5
<1>7. /\ DOMAIN status = ToSet(Classes)
      /\ {"failed", "success", "scheduled"} \subseteq ToSet(Classes)
  BY DEF TableInv, ListInv, ToSet, Classes
<1>8. status' = [status EXCEPT !.success = a]
  BY <1>1
<1> HIDE DEF e
<1>9. /\ b \in Seq(Placements) /\ EachOnce(b)
      /\ \A i \in DOMAIN b : b[i].host \in nodes
  BY DEF TableInv, ListInv, OnceInv
<1>10. /\ a \in Seq(Placements) /\ EachOnce(a) /\ PodsOf(a) = PodsOf(b) \cup {p}
       /\ \A i \in DOMAIN a : a[i].host \in nodes
  BY <1>3, <1>4, <1>6, <1>9, AppendOnce
<1> HIDE DEF a
<1>11. /\ DOMAIN status' = ToSet(Classes) /\ status'.success = a
       /\ status'.failed = status.failed /\ status'.scheduled = status.scheduled
  BY <1>7, <1>8
<1>12. /\ PodIds' = PodIds /\ \A x : Desired(x)' = Desired(x)
       /\ \A x : Unclaimed(x)' = Unclaimed(x)
       /\ Refusals' = Refusals /\ Placements' = Placements /\ Residents' = Residents
  BY <1>2, SameFile
<1>13. /\ stage \notin Unparsed(program) /\ stage \in Late /\ stage \notin Reporting
       /\ stage' = stage /\ nodes' = nodes
  BY <1>2, <1>3 DEF Unparsed, Late, Reporting
<1>14. FileInv'
  BY <1>2, <1>13 DEF TableInv, FileInv
<1>15. ListInv'
  <2>1. status.failed \in Seq(Refusals) /\ status.scheduled \in Seq(Residents)
    BY DEF TableInv, ListInv
  <2> QED
    BY <1>10, <1>11, <1>12, <1>13, <2>1 DEF ListInv
<1>16. OnceInv'
  <2>1. OnceInv
    BY DEF TableInv
  <2>2. \A x \in PodIds : x \in ToSet(q) \/ ~Unclaimed(x)
    BY <1>3, <2>1 DEF OnceInv
  <2> QED
    BY <1>2, <1>3, <1>10, <1>11, <1>12, <1>13, <2>1, <2>2 DEF OnceInv
<1>17. RequestInv'
  BY <1>2, <1>12, <1>13 DEF TableInv, RequestInv
<1>18. ReviewInv'
  <2>1. ReviewInv
    BY DEF TableInv
  <2>2. parts = 0
    BY <1>13, <2>1 DEF ReviewInv
  <2>3. \A k \in 1..3 : ~(parts' >= 2 * k)
    BY <1>2, <2>2
  <2> QED
    BY <1>2, <1>13, <2>1, <2>2, <2>3 DEF ReviewInv, Reporting
<1> QED
  BY <1>14, <1>15, <1>16, <1>17, <1>18

(* Update: the pod is refused, and decoded again. *)
LEMMA RefuseTables ==
    ASSUME Inv, TableInv, Refuse
    PROVE  FileInv' /\ ListInv' /\ OnceInv' /\ RequestInv' /\ ReviewInv'
<1> DEFINE p == Last(queue)
           q == Front(queue)
           none == ""
           e == [pod |-> p, host |-> none, reason |-> "Unschedulable"]
           b == status.failed
           a == Append(b, e)
<1>1. status' = [status EXCEPT !.failed = a]
  BY Zenon DEF Refuse
<1>2. /\ queue' = q /\ Turn
      /\ requests' = [requests EXCEPT ![p] = Reparsed(requests[p])]
      /\ UNCHANGED <<program, file, nodes, stage, output, review, parts>>
  BY DEF Refuse, input
<1>3. /\ stage = "run" /\ p \in PodIds /\ p \in ToSet(queue) /\ ~Unclaimed(p)
      /\ p \in DOMAIN requests
      /\ p \notin PodsOf(status.failed) /\ p \notin PodsOf(status.success)
      /\ q \in Seq(PodIds) /\ Distinct(q) /\ ToSet(q) = ToSet(queue) \ {p}
  BY <1>2, TurnFacts
<1>5. Refusals = [pod : PodIds, host : {none}, reason : {"Unschedulable"}]
  BY Zenon DEF Refusals, Reviewed
<1> HIDE DEF p, q, none
<1>6. e \in Refusals /\ e.pod = p
  BY <1>3, <1>5
<1>7. /\ DOMAIN status = ToSet(Classes)
      /\ {"failed", "success", "scheduled"} \subseteq ToSet(Classes)
  BY DEF TableInv, ListInv, ToSet, Classes
<1> HIDE DEF e
<1>9. b \in Seq(Refusals) /\ EachOnce(b)
  BY DEF TableInv, ListInv, OnceInv
<1>10. a \in Seq(Refusals) /\ EachOnce(a) /\ PodsOf(a) = PodsOf(b) \cup {p}
  BY <1>3, <1>6, <1>9, AppendOnce
<1> HIDE DEF a
<1>11. /\ DOMAIN status' = ToSet(Classes) /\ status'.failed = a
       /\ status'.success = status.success /\ status'.scheduled = status.scheduled
  BY <1>1, <1>7
<1>12. /\ PodIds' = PodIds /\ \A x : Desired(x)' = Desired(x)
       /\ \A x : Unclaimed(x)' = Unclaimed(x)
       /\ Refusals' = Refusals /\ Placements' = Placements /\ Residents' = Residents
  BY <1>2, SameFile
<1>13. /\ stage \notin Unparsed(program) /\ stage \in Late /\ stage \notin Reporting
       /\ stage' = stage /\ nodes' = nodes
  BY <1>2, <1>3 DEF Unparsed, Late, Reporting
<1>14. FileInv'
  <2>1. UNCHANGED <<program, file>>
    BY <1>2
  <2> QED
    BY <1>13, <2>1 DEF TableInv, FileInv
<1>15. ListInv'
  <2>1. /\ status.success \in Seq(Placements) /\ status.scheduled \in Seq(Residents)
        /\ \A i \in DOMAIN status.success : status.success[i].host \in nodes
    BY DEF TableInv, ListInv
  <2> QED
    BY <1>10, <1>11, <1>12, <1>13, <2>1 DEF ListInv
<1>16. OnceInv'
  <2>1. OnceInv
    BY DEF TableInv
  <2>2. \A x \in PodIds : x \in ToSet(q) \/ ~Unclaimed(x)
    BY <1>3, <2>1 DEF OnceInv
  <2>3. queue' = q
    BY <1>2
  <2> QED
    BY <1>3, <1>10, <1>11, <1>12, <1>13, <2>1, <2>2, <2>3 DEF OnceInv
<1>17. RequestInv'
  <2>1. /\ DOMAIN requests = DOMAIN Running \cup PodIds
        /\ \A x \in DOMAIN requests :
              /\ Faithful(requests[x], Desired(x))
              /\ \A r \in Columns : SameColumn(requests[x], Desired(x), r)
    BY <1>13 DEF TableInv, RequestInv
  <2>2. DOMAIN requests' = DOMAIN requests /\ requests'[p] = Reparsed(requests[p])
        /\ \A x \in DOMAIN requests : x # p => requests'[x] = requests[x]
    BY <1>2, <1>3
  <2>3. /\ Faithful(Reparsed(requests[p]), Desired(p))
        /\ \A r \in Columns : SameColumn(Reparsed(requests[p]), Desired(p), r)
    BY <1>3, <2>1, ReparsedSame DEF Faithful
  <2>4. \A x \in DOMAIN requests :
              /\ Faithful(requests'[x], Desired(x))
              /\ \A r \in Columns : SameColumn(requests'[x], Desired(x), r)
    BY <2>1, <2>2, <2>3
  <2> QED
    BY <1>12, <2>1, <2>2, <2>4 DEF RequestInv
<1>18. ReviewInv'
  <2>1. ReviewInv
    BY DEF TableInv
  <2>2. parts = 0 /\ UNCHANGED <<review, parts>>
    BY <1>2, <1>13, <2>1 DEF ReviewInv
  <2>3. \A k \in 1..3 : ~(parts' >= 2 * k)
    BY <2>2
  <2> QED
    BY <1>13, <2>1, <2>2, <2>3 DEF ReviewInv, Reporting
<1> QED
  BY <1>14, <1>15, <1>16, <1>17, <1>18
(* Adding up the requests of a pod. *)
LEMMA OnePod ==
    ASSUME NEW C, NEW D, IsContainers(D), Faithful(C, D)
    PROVE  LET g == getResourceRequest(C) IN
           /\ Faithful(g.containers, D)
           /\ PlainPod(g.containers, D) <=> PlainPod(C, D)
           /\ \A r \in Columns :
                 /\ IsSumOf(g.primary[r], D, r)
                 /\ PlainPod(C, D) => Amount(g.primary[r], D, r) = SumFunction(Requested(D, r))
<1> DEFINE g == getResourceRequest(C)
           E == g.containers
<1>1. IsContainers(C) /\ SameResources(C, D)
  BY DEF Faithful
<1>2. IsContainers(E) /\ SameShape(E, C) /\ \A r \in Primary : IsSumOf(g.primary[r], C, r)
  BY <1>1, RequestTyped DEF Accumulates
<1>3. Columns \subseteq Primary
  BY DEF Columns, Primary
<1>4. \A r \in Columns : PlainPod(C, D) =>
         /\ SameColumn(E, C, r)
         /\ Amount(g.primary[r], E, r) = SumFunction(Requested(C, r))
  <2> SUFFICES ASSUME NEW r \in Columns, PlainPod(C, D)
               PROVE  /\ SameColumn(E, C, r)
                      /\ Amount(g.primary[r], E, r) = SumFunction(Requested(C, r))
    OBVIOUS
  <2>1. SameColumn(C, D, r)
    BY DEF Faithful
  <2>2. PlainIn(C, r)
    <3> SUFFICES ASSUME NEW j \in DOMAIN C, r \in DOMAIN C[j], InPlace(C[j][r]),
                        NEW i \in 1..(j - 1), r \in DOMAIN C[i]
                 PROVE  C[i][r].val = 0
      BY DEF PlainIn
    <3>1. Len(C) \in Nat /\ DOMAIN C = 1..Len(C)
      BY <1>1, LenProperties DEF IsContainers
    <3>2. i \in DOMAIN C
      BY <3>1
    <3>3. r \in DOMAIN D[i] /\ i \in DOMAIN D
      BY <1>1, <3>2 DEF SameResources
    <3>4. D[i][r].val = 0
      BY <3>3 DEF PlainPod
    <3> QED
      BY <2>1, <3>3, <3>4 DEF SameColumn
  <2> QED
    BY <1>1, <1>3, <2>2, PlainRequest
<1> HIDE DEF g
<1>5. PlainPod(E, D) <=> PlainPod(C, D)
  BY <1>2 DEF PlainPod, SameShape, InPlace
<1>6. SameResources(E, D)
  BY <1>1, <1>2 DEF SameResources, SameShape
<1>7. \A r \in Columns : IsSumOf(g.primary[r], D, r)
  BY <1>1, <1>2, <1>3 DEF IsSumOf, SameResources
<1>8. \A r \in Columns : PlainPod(C, D) =>
         SameColumn(E, D, r) /\ Amount(g.primary[r], D, r) = SumFunction(Requested(D, r))
  <2> SUFFICES ASSUME NEW r \in Columns, PlainPod(C, D)
               PROVE  /\ SameColumn(E, D, r)
                      /\ Amount(g.primary[r], D, r) = SumFunction(Requested(D, r))
    OBVIOUS
  <2>1. SameColumn(C, D, r)
    BY DEF Faithful
  <2>2. SameColumn(E, D, r)
    BY <1>1, <1>4, <2>1 DEF SameColumn, SameResources
  <2>3. Requested(C, r) = Requested(D, r)
    BY <1>1, <2>1 DEF Requested, SameColumn, SameResources
  <2>4. Amount(g.primary[r], E, r) = Amount(g.primary[r], D, r)
    BY <1>7, <2>2 DEF Amount, IsSumOf, SameColumn
  <2> QED
    BY <1>4, <2>2, <2>3, <2>4
<1> QED
  BY <1>2, <1>5, <1>6, <1>7, <1>8 DEF g, Faithful

(* Every pod there is a verdict of has requests. *)
LEMMA VerdictPods ==
    ASSUME TableInv, NEW c \in ToSet(Classes), NEW i \in DOMAIN status[c]
    PROVE  status[c][i].pod \in DOMAIN requests
<1>1. c \in {"failed", "success", "scheduled"}
  BY DEF ToSet, Classes
<1>2. /\ status.failed \in Seq(Refusals) /\ status.success \in Seq(Placements)
      /\ status.scheduled \in Seq(Residents)
      /\ DOMAIN requests = DOMAIN Running \cup PodIds
  BY DEF TableInv, ListInv, RequestInv
<1>3. /\ \A v \in Refusals : v.pod \in PodIds
      /\ \A v \in Placements : v.pod \in PodIds
      /\ \A v \in Residents : v.pod \in DOMAIN Running
  <2> DEFINE none == ""
  <2>1. /\ Refusals = [pod : PodIds, host : {none}, reason : {"Unschedulable"}]
        /\ Placements = [pod : PodIds, host : Nodes, reason : {none}]
        /\ Residents = [pod : DOMAIN Running, host : Nodes, reason : {none}]
    BY Zenon DEF Refusals, Placements, Residents, Reviewed
  <2> HIDE DEF none
  <2> QED
    BY <2>1
<1>4. \A S : \A s \in Seq(S) : \A j \in DOMAIN s : s[j] \in S
  BY ElementOfSeq, LenProperties
<1> QED
  BY <1>1, <1>2, <1>3, <1>4

(* A pass over a class of pods. *)
LEMMA OnePass ==
    ASSUME TableInv, NEW c \in ToSet(Classes),
           requests' = getPodsRequirements(status[c]).requests
    PROVE  LET list == getPodsRequirements(status[c]).list IN
           /\ DOMAIN requests' = DOMAIN requests
           /\ \A p \in DOMAIN requests :
                 /\ Faithful(requests'[p], Desired(p))
                 /\ PlainPod(requests'[p], Desired(p)) <=> PlainPod(requests[p], Desired(p))
           /\ DOMAIN list = DOMAIN status[c]
           /\ \A i \in DOMAIN list :
                 LET p == list[i].pod IN
                 RowFor(list[i], status[c][i], requests'[p], Desired(p))
<1> DEFINE S == status[c]
           list == getPodsRequirements(S).list
           G(p) == getResourceRequest(requests[p])
<1>1. \A i \in DOMAIN S : S[i].pod \in DOMAIN requests
  BY VerdictPods
<1>2. /\ DOMAIN requests' = DOMAIN requests
      /\ \A p \in DOMAIN requests :
            requests'[p] = IF \E i \in DOMAIN S : S[i].pod = p
                           THEN G(p).containers ELSE requests[p]
      /\ DOMAIN list = DOMAIN S
      /\ \A i \in DOMAIN S :
            /\ list[i].pod = S[i].pod /\ list[i].host = S[i].host
            /\ list[i].reason = S[i].reason
            /\ list[i].primary = G(S[i].pod).primary
  BY <1>1, Requirements
<1>3. \A p \in DOMAIN requests :
         /\ IsContainers(Desired(p)) /\ Faithful(requests[p], Desired(p))
  BY DesiredTyped DEF TableInv, FileInv, RequestInv
<1>4. \A p \in DOMAIN requests :
         /\ Faithful(G(p).containers, Desired(p))
         /\ PlainPod(G(p).containers, Desired(p)) <=> PlainPod(requests[p], Desired(p))
         /\ \A r \in Columns :
               /\ IsSumOf(G(p).primary[r], Desired(p), r)
               /\ PlainPod(requests[p], Desired(p)) =>
                     Amount(G(p).primary[r], Desired(p), r) = SumFunction(Requested(Desired(p), r))
  BY <1>3, OnePod
<1> HIDE DEF S, list, G
<1>5. \A p \in DOMAIN requests :
         /\ Faithful(requests'[p], Desired(p))
         /\ PlainPod(requests'[p], Desired(p)) <=> PlainPod(requests[p], Desired(p))
  BY <1>2, <1>3, <1>4
<1>6. ASSUME NEW i \in DOMAIN S
      PROVE  RowFor(list[i], S[i], requests'[list[i].pod], Desired(list[i].pod))
  <2> DEFINE p == S[i].pod
  <2>1. p \in DOMAIN requests /\ list[i].pod = p /\ list[i].primary = G(p).primary
    BY <1>1, <1>2
  <2> HIDE DEF p
  <2> QED
    BY <1>2, <1>4, <1>5, <2>1 DEF RowFor
<1> QED
  BY <1>2, <1>5, <1>6 DEF S, list
(* The rows made before a pass are right after it. *)
LEMMA RowsStay ==
    ASSUME TableInv, NEW c \in ToSet(Classes), RowsOf(c), UNCHANGED <<file, status>>,
           review'[c].status = review[c].status, review'[c].summary = review[c].summary,
           \A p \in DOMAIN requests :
              PlainPod(requests'[p], Desired(p)) <=> PlainPod(requests[p], Desired(p))
    PROVE  RowsOf(c)'
<1> DEFINE rows == review[c].status
<1>1. \A p : Desired(p)' = Desired(p)
  BY SameFile
<1>2. /\ DOMAIN rows = DOMAIN status[c] /\ review[c].summary = ReasonSummary(rows)
      /\ \A i \in DOMAIN rows :
            RowFor(rows[i], status[c][i], requests[rows[i].pod], Desired(rows[i].pod))
  BY DEF RowsOf
<1>3. \A i \in DOMAIN rows : rows[i].pod \in DOMAIN requests
  BY <1>2, VerdictPods DEF RowFor
<1> HIDE DEF rows
<1>4. \A i \in DOMAIN rows :
         RowFor(rows[i], status[c][i], requests'[rows[i].pod], Desired(rows[i].pod))
  BY <1>2, <1>3 DEF RowFor
<1>5. review'[c].status = rows /\ review'[c].summary = ReasonSummary(rows)
  BY <1>2 DEF rows
<1> QED
  BY <1>1, <1>2, <1>4, <1>5 DEF RowsOf

(* A part of the report is made. *)
LEMMA ReportTables ==
    ASSUME Inv, TableInv, Report
    PROVE  FileInv' /\ ListInv' /\ OnceInv' /\ RequestInv' /\ ReviewInv'
<1>0. PICK c : c = Classes[(parts \div 2) + 1]
  OBVIOUS
<1> DEFINE g == getPodsRequirements(status[c])
<1>1. /\ stage = "report" /\ GetReport(status)
      /\ IF parts' = 6 THEN Proceed ELSE UNCHANGED stage
      /\ UNCHANGED <<program, file, nodes, queue, status, output>>
  BY DEF Report, input
<1>2. /\ requests' = g.requests /\ parts' = parts + 1
      /\ \/ parts \in {0, 2, 4} /\ review' = [review EXCEPT ![c].spec = g.list]
         \/ /\ parts \in {1, 3, 5}
            /\ review' = [review EXCEPT ![c].status = g.list,
                                        ![c].summary = ReasonSummary(g.list)]
  BY <1>0, <1>1, Zenon DEF GetReport, getReviewSpec, getReviewStatus
<1>3. /\ parts \in {0, 1} => c = "failed"
      /\ parts \in {2, 3} => c = "success"
      /\ parts \in {4, 5} => c = "scheduled"
  BY <1>0 DEF Classes
<1>4. parts \in {0, 1, 2, 3, 4, 5} /\ c \in ToSet(Classes)
  BY <1>2, <1>3 DEF ToSet, Classes
<1>5. /\ DOMAIN requests' = DOMAIN requests
      /\ \A p \in DOMAIN requests :
            /\ Faithful(requests'[p], Desired(p))
            /\ PlainPod(requests'[p], Desired(p)) <=> PlainPod(requests[p], Desired(p))
      /\ DOMAIN g.list = DOMAIN status[c]
      /\ \A i \in DOMAIN g.list :
            RowFor(g.list[i], status[c][i], requests'[g.list[i].pod], Desired(g.list[i].pod))
  BY <1>2, <1>4, OnePass
<1>6. /\ stage' \in {"report", "print"}
      /\ stage' = "print" <=> parts' = 6
      /\ stage' \in Late /\ stage' \in Reporting /\ stage \in Late /\ stage \in Reporting
      /\ stage' \notin Unparsed(program)
  BY <1>1, ProceedFacts DEF Inv, ClusterInv, Late, Reporting, Unparsed
<1>7. /\ PodIds' = PodIds /\ \A p : Desired(p)' = Desired(p)
      /\ \A p : Unclaimed(p)' = Unclaimed(p)
      /\ Refusals' = Refusals /\ Placements' = Placements /\ Residents' = Residents
  BY <1>1, SameFile
<1> HIDE DEF g
<1>8. FileInv'
  BY <1>1, <1>6 DEF TableInv, FileInv
<1>9. ListInv'
  BY <1>1, <1>6, <1>7 DEF TableInv, ListInv
<1>10. OnceInv'
  BY <1>1, <1>6, <1>7 DEF TableInv, OnceInv
<1>11. RequestInv'
  BY <1>5, <1>6, <1>7 DEF TableInv, RequestInv
<1>12. ReviewInv'
  <2>1. ReviewInv
    BY DEF TableInv
  <2>2. /\ DOMAIN review = ToSet(Classes)
        /\ \A d \in ToSet(Classes) : DOMAIN review[d] = {"spec", "status", "summary"}
        /\ \A k \in 1..3 : parts >= 2 * k => RowsOf(Classes[k])
    BY <2>1 DEF ReviewInv
  <2>3. Classes[1] = "failed" /\ Classes[2] = "success" /\ Classes[3] = "scheduled"
        /\ ToSet(Classes) = {"failed", "success", "scheduled"}
    BY DEF Classes, ToSet
  <2>4. /\ DOMAIN review' = ToSet(Classes)
        /\ \A d \in ToSet(Classes) : DOMAIN review'[d] = {"spec", "status", "summary"}
    BY <1>2, <1>4, <2>2
  <2>5. CASE parts \in {0, 2, 4} /\ review' = [review EXCEPT ![c].spec = g.list]
    <3>1. \A d \in ToSet(Classes) : /\ review'[d].status = review[d].status
                                    /\ review'[d].summary = review[d].summary
      BY <1>4, <2>2, <2>5
    <3>2. ASSUME NEW k \in 1..3, parts' >= 2 * k
          PROVE  RowsOf(Classes[k])'
      <4>1. parts >= 2 * k
        BY <1>2, <2>5, <3>2
      <4>2. RowsOf(Classes[k]) /\ Classes[k] \in ToSet(Classes)
        BY <2>2, <2>3, <4>1
      <4>3. \A d \in ToSet(Classes) : RowsOf(d) => RowsOf(d)'
        BY <1>1, <1>5, <3>1, RowsStay
      <4> QED
        BY <2>3, <4>2, <4>3
    <3> QED
      BY <1>2, <1>4, <1>6, <2>4, <3>2 DEF ReviewInv, Reporting
  <2>6. CASE /\ parts \in {1, 3, 5}
             /\ review' = [review EXCEPT ![c].status = g.list,
                                         ![c].summary = ReasonSummary(g.list)]
    <3>1. /\ review'[c].status = g.list /\ review'[c].summary = ReasonSummary(g.list)
          /\ \A d \in ToSet(Classes) \ {c} : review'[d] = review[d]
      BY <1>4, <2>2, <2>6
    <3>2. RowsOf(c)'
      BY <1>1, <1>5, <1>7, <3>1 DEF RowsOf
    <3>3. \A d \in ToSet(Classes) \ {c} : RowsOf(d) => RowsOf(d)'
      BY <1>1, <1>5, <3>1, RowsStay
    <3>4. ASSUME NEW k \in 1..3, parts' >= 2 * k
          PROVE  RowsOf(Classes[k])'
      <4>1. parts >= 2 * k \/ Classes[k] = c
        BY <1>2, <1>3, <2>3, <2>6, <3>4
      <4> QED
        BY <2>2, <2>3, <3>2, <3>3, <4>1
    <3> QED
      BY <1>2, <1>4, <1>6, <2>4, <3>4 DEF ReviewInv, Reporting
  <2> QED
    BY <1>2, <2>5, <2>6
<1> QED
  BY <1>8, <1>9, <1>10, <1>11, <1>12

(* The tables are printed. *)
LEMMA PrintTables ==
    ASSUME Inv, TableInv, PrintReport
    PROVE  FileInv' /\ ListInv' /\ OnceInv' /\ RequestInv' /\ ReviewInv'
<1>1. /\ stage = "print" /\ stage' = "done" /\ output' = ClusterCapacityReviewPrint
      /\ UNCHANGED <<program, file, nodes, queue, status, requests, review, parts>>
  BY ProceedFacts DEF PrintReport, input, Inv, ClusterInv
<1>2. /\ PodIds' = PodIds /\ \A p : Desired(p)' = Desired(p)
      /\ \A p : Unclaimed(p)' = Unclaimed(p)
      /\ Refusals' = Refusals /\ Placements' = Placements /\ Residents' = Residents
  BY <1>1, SameFile
<1>3. /\ stage' \notin Unparsed(program) /\ stage' \in Late /\ stage \in Late
      /\ stage' \in Reporting /\ stage \in Reporting
  BY <1>1 DEF Unparsed, Late, Reporting
<1>4. FileInv'
  BY <1>1, <1>3 DEF TableInv, FileInv
<1>5. ListInv'
  BY <1>1, <1>2, <1>3 DEF TableInv, ListInv
<1>6. OnceInv'
  BY <1>1, <1>2, <1>3 DEF TableInv, OnceInv
<1>7. RequestInv'
  BY <1>1, <1>2, <1>3 DEF TableInv, RequestInv
<1>8. ReviewInv'
  <2>1. ReviewInv
    BY DEF TableInv
  <2>2. \A c : RowsOf(c)' <=> RowsOf(c)
    BY <1>1, <1>2 DEF RowsOf
  <2>3. ClusterCapacityReviewPrint' = ClusterCapacityReviewPrint
    BY <1>1 DEF ClusterCapacityReviewPrint, distributePodsPrint, statusPrint
  <2> QED
    BY <1>1, <1>3, <2>1, <2>2, <2>3 DEF ReviewInv
<1> QED
  BY <1>4, <1>5, <1>6, <1>7, <1>8
(* Every action preserves the invariant of the tables. *)
LEMMA TableStep == Inv /\ TableInv /\ [Next]_vars => TableInv'
<1> SUFFICES ASSUME Inv, TableInv, [Next]_vars
             PROVE  FileInv' /\ ListInv' /\ OnceInv' /\ RequestInv' /\ ReviewInv'
  BY StageStep DEF TableInv
<1>0. program \in {"cli", "sample"}
  BY DEF Inv, ClusterInv
<1>1. CASE /\ UNCHANGED <<program, file, queue, status, requests, review, parts, output>>
           /\ stage \in {"validate", "configure", "connect", "pods", "nodes", "parse", "flags"}
           /\ \/ stage' \in {"usage", "failed", stage}
              \/ Proceed /\ stage \notin {"parse", "flags"}
  <2>1. stage \notin Late /\ stage \notin Reporting
    BY <1>1 DEF Late, Reporting
  <2>2. /\ stage' \notin Late /\ stage' \notin Reporting
        /\ stage' \in Unparsed(program) => stage \in Unparsed(program)
    <3>1. CASE stage' \in {"usage", "failed"}
      BY <3>1 DEF Late, Reporting, Unparsed
    <3>2. CASE stage' = stage
      BY <2>1, <3>2
    <3>3. CASE Proceed /\ stage \notin {"parse", "flags"}
      BY <1>0, <1>1, <2>1, <3>3, ProceedFacts DEF Late
    <3> QED
      BY <1>1, <3>1, <3>2, <3>3
  <2> QED
    BY <1>1, <2>1, <2>2, QuietTables
<1>2. CASE Validate \/ NewClusterCapacityConfig \/ Connect \/ Fail
    BY <1>1, <1>2 DEF Validate, NewClusterCapacityConfig, Connect, Fail, input
<1>3. CASE ListPods \/ ListNodes \/ ClusterChanges
    BY <1>1, <1>3 DEF ListPods, ListNodes, ClusterChanges, input
<1>4. CASE SampleStart
  <2>1. CASE flags.kubeconfig
    BY <1>1, <1>4, <2>1 DEF SampleStart, input
  <2>2. CASE ~flags.kubeconfig
    <3>1. /\ Proceed /\ AddPods(SampleFile) /\ stage = "flags"
          /\ UNCHANGED <<program, nodes, status, output, review, parts>>
      BY <1>4, <2>2 DEF SampleStart, input
    <3> QED
      BY <3>1, SampleIsFile, ParseTables
  <2> QED
    BY <2>1, <2>2
<1>5. CASE ParseSimulationPod
  <2>1. PICK f \in Files : AddPods(f)
    BY <1>5 DEF ParseSimulationPod
  <2>2. /\ Proceed /\ stage = "parse"
        /\ UNCHANGED <<program, nodes, status, output, review, parts>>
    BY <1>5 DEF ParseSimulationPod, input
  <2>3. IsFile(f)
    BY CommandAssumption
  <2> QED
    BY <2>1, <2>2, <2>3, ParseTables
<1>6. CASE Idle \/ UNCHANGED vars
  <2>1. UNCHANGED <<program, file, queue, status, requests, review, parts, output, nodes,
                    stage>>
    BY <1>6 DEF Idle, vars, input
  <2> QED
    BY <2>1, QuietTables
<1> QED
  BY <1>2, <1>3, <1>4, <1>5, <1>6, NewTables, PlaceTables, RefuseTables, RunEndsTables,
     ReportTables, PrintTables DEF Next, Program

(* Both invariants hold all the time. *)
LEMMA TableInvariant == Spec => [](Inv /\ TableInv)
  BY InvInit, InvStep, TableInit, TableStep, PTL DEF Spec

(* The two programs keep their types, whatever the pod file and the        *)
(* cluster are: among them, that a refused pod has a reason and no host    *)
(* and that each list has only pods of its own kind.                       *)
THEOREM CommandTypeCorrect == Spec => []TypeOK
<1>1. Inv /\ TableInv => TypeOK
  <2> SUFFICES ASSUME Inv, TableInv PROVE TypeOK
    OBVIOUS
  <2>1. /\ status.failed \in Seq(Reviewed(PodIds, {""}, {"Unschedulable"}))
        /\ status.success \in Seq(Reviewed(PodIds, Nodes, {""}))
        /\ status.scheduled \in Seq(Reviewed(DOMAIN Running, Nodes, {""}))
    BY Zenon DEF TableInv, ListInv, Refusals, Placements, Residents
  <2>2. /\ stage \in Ended \cup ToSet(Order[program])
        /\ queue \in Seq(PodIds)
        /\ DOMAIN requests = DOMAIN Running \cup PodIds
        /\ \A p \in DOMAIN requests : IsContainers(requests[p])
        /\ parts \in 0..6
    BY DEF TableInv, StageInv, OnceInv, RequestInv, Faithful, ReviewInv
  <2>3. cluster.nodes \subseteq Nodes /\ nodes \subseteq Nodes
    BY DEF Inv, ClusterInv
  <2>4. \A f \in {cluster.pods, pods} : /\ DOMAIN f \subseteq DOMAIN Running
                                        /\ \A p \in DOMAIN f : f[p] \in Nodes
    BY DEF Inv, ClusterInv, TableInv, StageInv
  <2> QED
    BY <2>1, <2>2, <2>3, <2>4, Zenon DEF TypeOK
<1> QED
  BY <1>1, TableInvariant, PTL

(* What is printed at the end are rows for the verdicts. *)
LEMMA Printed ==
    ASSUME TableInv, stage = "done"
    PROVE  /\ RowsOf("success") /\ RowsOf("failed")
           /\ output.success = distributePodsPrint("success")
           /\ output.failed = distributePodsPrint("failed")
           /\ output.summary = statusPrint("failed")
<1>1. ReviewInv
  BY DEF TableInv
<1>2. parts = 6 /\ output = ClusterCapacityReviewPrint
  BY <1>1 DEF ReviewInv
<1>3. RowsOf(Classes[1]) /\ RowsOf(Classes[2])
  BY <1>1, <1>2 DEF ReviewInv
<1>4. Classes[1] = "failed" /\ Classes[2] = "success"
  BY DEF Classes
<1> QED
  BY <1>2, <1>3, <1>4 DEF ClusterCapacityReviewPrint

(* The program prints no report if a pod it was asked to simulate is one   *)
(* that the scheduler does not take.                                       *)
THEOREM NoReportOfUnclaimed == Spec => [](stage = "done" => \A p \in PodIds : ~Unclaimed(p))
<1>1. TableInv => (stage = "done" => \A p \in PodIds : ~Unclaimed(p))
  <2> SUFFICES ASSUME TableInv, stage = "done", NEW p \in PodIds PROVE ~Unclaimed(p)
    OBVIOUS
  <2>1. queue = <<>> /\ (p \in ToSet(queue) \/ ~Unclaimed(p))
    BY DEF TableInv, OnceInv, Reporting
  <2>2. ToSet(<<>>) = {}
    BY DEF ToSet
  <2> QED
    BY <2>1, <2>2
<1> QED
  BY <1>1, TableInvariant, PTL
(* A printed table, of one class of pods. *)
LEMMA PrintedTable ==
    ASSUME TableInv, NEW c \in ToSet(Classes), RowsOf(c), IsSeq(status[c])
    PROVE  LET t == distributePodsPrint(c) IN
           /\ t \in Seq(ToSet(t)) /\ DOMAIN t = DOMAIN status[c] /\ Len(t) = Len(status[c])
           /\ \A i \in DOMAIN t : /\ t[i].pod = status[c][i].pod
                                  /\ t[i].host = status[c][i].host
                                  /\ Plain(t[i].pod) => \A r \in Columns :
                                        t[i].req[r] = Asked(t[i].pod, r)
<1> DEFINE t == distributePodsPrint(c)
           S == status[c]
           rows == review[c].status
           n == Len(S)
<1>1. n \in Nat /\ DOMAIN S = 1..n
  BY LenProperties DEF IsSeq
<1>2. /\ DOMAIN rows = DOMAIN S
      /\ \A i \in DOMAIN rows :
            RowFor(rows[i], S[i], requests[rows[i].pod], Desired(rows[i].pod))
  BY DEF RowsOf
<1>3. t = [i \in DOMAIN rows |->
             [pod |-> rows[i].pod,
              req |-> [r \in Columns |-> Amount(rows[i].primary[r], requests[rows[i].pod], r)],
              host |-> rows[i].host]]
  BY DEF distributePodsPrint
<1>4. \A i \in DOMAIN S : S[i].pod \in DOMAIN requests
  BY VerdictPods
<1> HIDE DEF S, rows, n, t
<1>5. /\ DOMAIN t = 1..n
      /\ \A i \in 1..n :
            /\ t[i].pod = rows[i].pod /\ t[i].host = rows[i].host
            /\ \A r \in Columns :
                  t[i].req[r] = Amount(rows[i].primary[r], requests[rows[i].pod], r)
  BY <1>1, <1>2, <1>3
<1>6. t \in Seq(ToSet(t)) /\ Len(t) = n
  <2>1. t = [i \in 1..n |-> t[i]]
    BY <1>1, <1>2, <1>3
  <2>2. \A i \in 1..n : t[i] \in ToSet(t)
    BY <1>5 DEF ToSet
  <2>3. t \in [1..n -> ToSet(t)]
    BY <2>1, <2>2
  <2> QED
    BY <1>1, <2>3
<1>7. \A i \in 1..n : t[i].pod = S[i].pod /\ t[i].host = S[i].host
  BY <1>1, <1>2, <1>5 DEF RowFor
<1>8. ASSUME NEW i \in 1..n, Plain(t[i].pod), NEW r \in Columns
      PROVE  t[i].req[r] = Asked(t[i].pod, r)
  <2> DEFINE p == t[i].pod
             x == rows[i].primary[r]
  <2>1. p = rows[i].pod /\ p \in DOMAIN requests /\ t[i].req[r] = Amount(x, requests[p], r)
    BY <1>1, <1>4, <1>5, <1>7
  <2>2. PlainPod(requests[p], Desired(p))
    BY <1>8 DEF Plain, PlainPod
  <2>3. /\ IsSumOf(x, Desired(p), r)
        /\ Amount(x, Desired(p), r) = SumFunction(Requested(Desired(p), r))
    BY <1>1, <1>2, <2>1, <2>2 DEF RowFor
  <2>4. SameColumn(requests[p], Desired(p), r)
    BY <2>1, <2>2 DEF TableInv, RequestInv, Faithful
  <2>5. Amount(x, requests[p], r) = Amount(x, Desired(p), r)
    BY <2>3, <2>4 DEF Amount, IsSumOf, SameColumn
  <2>6. Asked(p, r) = SumFunction(Requested(Desired(p), r))
    BY DEF Asked, Requested
  <2> QED
    BY <2>1, <2>3, <2>5, <2>6
<1> QED
  BY <1>1, <1>5, <1>6, <1>7, <1>8 DEF t, S, n

(* The summary of the pods that failed, which have all the same reason. *)
LEMMA PrintedSummary ==
    ASSUME TableInv, RowsOf("failed")
    PROVE  SumFunction(statusPrint("failed")) = Len(status.failed)
<1> DEFINE S == status.failed
           rows == review["failed"].status
           n == Len(S)
           x == "Unschedulable"
           f == statusPrint("failed")
<1>1. S \in Seq(Refusals)
  BY DEF TableInv, ListInv
<1>2. n \in Nat /\ DOMAIN S = 1..n
  BY <1>1, LenProperties
<1>3. \A i \in DOMAIN S : S[i].reason = x
  <2> DEFINE none == ""
  <2>1. Refusals = [pod : PodIds, host : {none}, reason : {x}]
    BY Zenon DEF Refusals, Reviewed
  <2> HIDE DEF none, x
  <2>2. \A v \in Refusals : v.reason = x
    BY <2>1
  <2>3. \A i \in DOMAIN S : S[i] \in Refusals
    BY <1>1, <1>2, ElementOfSeq
  <2> QED
    BY <2>2, <2>3
<1>4. /\ DOMAIN rows = DOMAIN S /\ \A i \in DOMAIN rows : rows[i].reason = S[i].reason
      /\ review["failed"].summary = ReasonSummary(rows)
  BY DEF RowsOf, RowFor
<1>5. f = [y \in DOMAIN ReasonSummary(rows) |-> Cardinality(ReasonSummary(rows)[y])]
  BY <1>4 DEF statusPrint
<1> HIDE DEF S, rows, n, x, f
<1>6. ReasonSummary(rows) = [y \in {rows[i].reason : i \in DOMAIN rows} |->
                               {i \in DOMAIN rows : rows[i].reason = y}]
  BY DEF ReasonSummary
<1>7. CASE n = 0
  <2>1. DOMAIN f = {}
    BY <1>2, <1>4, <1>5, <1>6, <1>7
  <2> QED
    BY <1>7, <2>1, SumOfOne DEF f, n, S
<1>8. CASE n # 0
  <2>1. {rows[i].reason : i \in DOMAIN rows} = {x}
    <3>1. 1 \in DOMAIN rows
      BY <1>2, <1>4, <1>8
    <3> QED
      BY <1>3, <1>4, <3>1
  <2>2. {i \in DOMAIN rows : rows[i].reason = x} = 1..n
    BY <1>2, <1>3, <1>4
  <2>3. Cardinality(1..n) = n
    BY <1>2, FS_Interval
  <2>4. DOMAIN f = {x} /\ f[x] = n
    BY <1>5, <1>6, <2>1, <2>2, <2>3
  <2>5. f[x] \in Int
    BY <1>2, <2>4
  <2> QED
    BY <2>4, <2>5, SumOfOne DEF f, n, S
<1> QED
  BY <1>7, <1>8

(* At the end there is exactly one row for every pod that the file asks    *)
(* for, be it placed, on a node that was read, or not, and the summary     *)
(* counts the rows of the pods that failed: for every file and cluster.    *)
THEOREM RowsAreTheFile == Spec => []RowsMatchFile
<1>1. Inv /\ TableInv => RowsMatchFile
  <2> SUFFICES ASSUME Inv, TableInv, stage = "done"
               PROVE  /\ EachOnce(Rows) /\ PodsOf(Rows) = PodIds
                      /\ \A i \in DOMAIN output.success : output.success[i].host \in nodes
                      /\ SumFunction(output.summary) = Len(output.failed)
    BY DEF RowsMatchFile, EachOnce, PodsOf
  <2> DEFINE s == output.success
             t == output.failed
             S == ToSet(s) \cup ToSet(t)
  <2>1. /\ RowsOf("success") /\ RowsOf("failed")
        /\ s = distributePodsPrint("success") /\ t = distributePodsPrint("failed")
        /\ output.summary = statusPrint("failed")
    BY Printed
  <2>2. "success" \in ToSet(Classes) /\ "failed" \in ToSet(Classes)
    BY DEF ToSet, Classes
  <2>3. IsSeq(status["success"]) /\ IsSeq(status["failed"])
    BY SeqIsSeq DEF TableInv, ListInv
  <2>4. /\ s \in Seq(ToSet(s)) /\ DOMAIN s = DOMAIN status.success
        /\ \A i \in DOMAIN s : /\ s[i].pod = status.success[i].pod
                               /\ s[i].host = status.success[i].host
    BY <2>1, <2>2, <2>3, PrintedTable
  <2>5. /\ t \in Seq(ToSet(t)) /\ DOMAIN t = DOMAIN status.failed
        /\ Len(t) = Len(status.failed)
        /\ \A i \in DOMAIN t : t[i].pod = status.failed[i].pod
    BY <2>1, <2>2, <2>3, PrintedTable
  <2>6. /\ EachOnce(status.success) /\ EachOnce(status.failed) /\ queue = <<>>
        /\ PodsOf(status.failed) \cap PodsOf(status.success) = {}
        /\ PodIds \subseteq ToSet(queue) \cup PodsOf(status.failed) \cup PodsOf(status.success)
    BY DEF TableInv, OnceInv, Reporting
  <2>7. PodsOf(status.success) \subseteq PodIds /\ PodsOf(status.failed) \subseteq PodIds
    <3> DEFINE none == ""
    <3>1. /\ Refusals = [pod : PodIds, host : {none}, reason : {"Unschedulable"}]
          /\ Placements = [pod : PodIds, host : Nodes, reason : {none}]
      BY Zenon DEF Refusals, Placements, Reviewed
    <3> HIDE DEF none
    <3>2. (\A v \in Refusals : v.pod \in PodIds) /\ (\A v \in Placements : v.pod \in PodIds)
      BY <3>1
    <3>3. status.failed \in Seq(Refusals) /\ status.success \in Seq(Placements)
      BY DEF TableInv, ListInv
    <3>4. \A T : \A u \in Seq(T) : \A j \in DOMAIN u : u[j] \in T
      BY ElementOfSeq, LenProperties
    <3> QED
      BY <3>2, <3>3, <3>4 DEF PodsOf
  <2> HIDE DEF s, t
  <2>8. EachOnce(s) /\ EachOnce(t)
        /\ PodsOf(s) = PodsOf(status.success) /\ PodsOf(t) = PodsOf(status.failed)
    BY <2>4, <2>5, <2>6 DEF EachOnce, PodsOf
  <2>9. s \in Seq(S) /\ t \in Seq(S)
    BY <2>4, <2>5, SeqMonotonic
  <2> HIDE DEF S
  <2>10. EachOnce(s \o t) /\ PodsOf(s \o t) = PodsOf(s) \cup PodsOf(t)
    BY <2>6, <2>8, <2>9, ConcatOnce
  <2>11. ToSet(queue) = {}
    BY <2>6 DEF ToSet
  <2>12. PodsOf(s \o t) = PodIds
    BY <2>6, <2>7, <2>8, <2>10, <2>11
  <2>13. Rows = s \o t
    BY DEF Rows, s, t
  <2>14. \A i \in DOMAIN s : s[i].host \in nodes
    BY <2>4 DEF TableInv, ListInv
  <2>15. SumFunction(output.summary) = Len(t)
    BY <2>1, <2>5, PrintedSummary
  <2> QED
    BY <2>10, <2>12, <2>13, <2>14, <2>15 DEF s, t
<1> QED
  BY <1>1, TableInvariant, PTL

(* The row of a plain pod shows what its containers request together, for  *)
(* any number of containers, although both passes of GetReport over it     *)
(* may change the quantities.                                              *)
THEOREM RowsAreTheRequests == Spec => []RowsTellRequests
<1>1. Inv /\ TableInv => RowsTellRequests
  <2> SUFFICES ASSUME Inv, TableInv, stage = "done", NEW i \in DOMAIN Rows,
                      Plain(Rows[i].pod), NEW r \in Columns
               PROVE  Rows[i].req[r] = Asked(Rows[i].pod, r)
    BY DEF RowsTellRequests
  <2> DEFINE s == output.success
             t == output.failed
             S == ToSet(s) \cup ToSet(t)
  <2>1. /\ RowsOf("success") /\ RowsOf("failed")
        /\ s = distributePodsPrint("success") /\ t = distributePodsPrint("failed")
    BY Printed
  <2>2. "success" \in ToSet(Classes) /\ "failed" \in ToSet(Classes)
    BY DEF ToSet, Classes
  <2>3. IsSeq(status["success"]) /\ IsSeq(status["failed"])
    BY SeqIsSeq DEF TableInv, ListInv
  <2>4. /\ s \in Seq(ToSet(s))
        /\ \A j \in DOMAIN s : Plain(s[j].pod) => s[j].req[r] = Asked(s[j].pod, r)
    BY <2>1, <2>2, <2>3, PrintedTable
  <2>5. /\ t \in Seq(ToSet(t))
        /\ \A j \in DOMAIN t : Plain(t[j].pod) => t[j].req[r] = Asked(t[j].pod, r)
    BY <2>1, <2>2, <2>3, PrintedTable
  <2>6. Rows = s \o t
    BY DEF Rows
  <2> HIDE DEF s, t
  <2>7. s \in Seq(S) /\ t \in Seq(S)
    BY <2>4, <2>5, SeqMonotonic
  <2> HIDE DEF S
  <2> DEFINE u == s \o t
             m == Len(s)
  <2>8. /\ \A j \in DOMAIN s : j \in DOMAIN u /\ u[j] = s[j]
        /\ \A j \in DOMAIN t : j + m \in DOMAIN u /\ u[j + m] = t[j]
        /\ \A j \in DOMAIN u : j \in DOMAIN s \/ (j - m \in DOMAIN t /\ j \notin DOMAIN s)
        /\ m \in Nat /\ DOMAIN u \subseteq Nat
    BY <2>7, ConcatPlaces
  <2>9. Rows = u
    BY <2>6
  <2> HIDE DEF u, m
  <2>10. CASE i \in DOMAIN s
    BY <2>4, <2>8, <2>9, <2>10
  <2>11. CASE i \notin DOMAIN s
    <3>1. i - m \in DOMAIN t /\ (i - m) + m = i
      BY <2>8, <2>9, <2>11
    <3>2. u[i] = t[i - m]
      BY <2>8, <3>1
    <3> QED
      BY <2>5, <2>9, <3>1, <3>2
  <2> QED
    BY <2>10, <2>11
<1> QED
  BY <1>1, TableInvariant, PTL
=============================================================================

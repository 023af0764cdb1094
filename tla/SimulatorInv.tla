---------------------------- MODULE SimulatorInv ----------------------------
(***************************************************************************)
(* The inductive invariants behind the properties of Simulator.  TypeInv   *)
(* holds in every configuration; Baton and Conservation hold when no       *)
(* scheduling error is retried.                                            *)
(***************************************************************************)
EXTENDS Simulator

(* The configurations in which a pod is never scheduled a second time:     *)
(* the pods have no namespace (the command line program), or nothing but   *)
(* a FitError can occur.                                                   *)
NoRetry == ~Namespaced \/ (BadPods = {} /\ Nodes # {})

(* What is left of the queue is a prefix of the pods New received. *)
QueueIsPrefix ==
    /\ Len(podQueue) <= Len(NewPods)
    /\ \A i \in DOMAIN podQueue : podQueue[i] = NewPods[i]

(* The types of what the goroutines hold. *)
InHand ==
    /\ pc[Sched] \in {"schedule", "assume", "fail", "update"} => current \in Pods
    /\ pc[Sched] = "assume" => host[current] \in Nodes
    /\ \A p \in Pods : pc[p] \in {"bind", "record"} => host[p] \in Nodes
    /\ \A p \in toCache : store[p] \in Nodes
    /\ \A i \in DOMAIN podQueue : store[podQueue[i]] = Absent
    /\ report # NoReport => run = "reported"

TypeInv == TypeOK /\ QueueIsPrefix /\ InHand

-----------------------------------------------------------------------------
SchedBusy == {"schedule", "assume", "fail", "update", "next", "stop", "send"}
BindBusy  == {"bind", "record", "next", "stop", "send"}

SchedFree   == pc[Sched] \notin SchedBusy
BindersFree == \A p \in Pods : pc[p] \notin BindBusy

(* Who may act next: Run, the Added event of a pod, the scheduling queue,  *)
(* the scheduler goroutine or one binding goroutine.                       *)
WithRun   == run # "wait" /\ toQueue = {} /\ schedQ = <<>> /\ SchedFree /\ BindersFree
WithEvent == /\ run = "wait" /\ schedQ = <<>> /\ SchedFree /\ BindersFree
             /\ \E p \in Pods : toQueue = {p}
WithQueue == /\ run = "wait" /\ toQueue = {} /\ SchedFree /\ BindersFree
             /\ \E p \in Pods : schedQ = <<p>>
WithSched == /\ run = "wait" /\ toQueue = {} /\ schedQ = <<>> /\ BindersFree
             /\ pc[Sched] \in SchedBusy
WithBinder == /\ run = "wait" /\ toQueue = {} /\ schedQ = <<>> /\ SchedFree
              /\ \E p \in Pods : /\ pc[p] \in BindBusy
                                 /\ \A q \in Pods \ {p} : pc[q] \notin BindBusy

(* The baton of the simulation is in one place: no two goroutines of the   *)
(* simulator act at the same time although no lock separates them.         *)
Baton == WithRun \/ WithEvent \/ WithQueue \/ WithSched \/ WithBinder

(* The pods that are created and on their way to a verdict. *)
Flying ==
    toQueue \cup {schedQ[i] : i \in DOMAIN schedQ}
      \cup {p \in Pods : \/ pc[p] \in {"bind", "record"}
                         \/ /\ p = current
                            /\ pc[Sched] \in {"schedule", "assume", "fail", "update"}}

(* Every simulated pod is in the queue, on its way or recorded, in exactly *)
(* one of the three, and is in the store once it has left the queue.       *)
Conservation ==
    \A p \in Pods :
       /\ Contains(podQueue, p) <=> store[p] = Absent
       /\ Contains(podQueue, p) => p \notin Flying /\ ~Recorded(p)
       /\ p \in Flying => ~Recorded(p)
       /\ Contains(podQueue, p) \/ p \in Flying \/ Recorded(p)

NoDuplicates ==
    /\ \A i, j \in DOMAIN success : success[i].pod = success[j].pod => i = j
    /\ \A i, j \in DOMAIN failed : failed[i] = failed[j] => i = j
    /\ \A i \in DOMAIN success, j \in DOMAIN failed : success[i].pod # failed[j]

(* The simulation only stops on an empty queue, the report is the final    *)
(* status, and nothing is left for a retry to put back.                    *)
Ending ==
    /\ \A t \in Threads : pc[t] \in {"stop", "send"} => podQueue = <<>>
    /\ run \in {"closing", "returned", "reported"} => podQueue = <<>>
    /\ closed => /\ podQueue = <<>>
                 /\ run # "wait" \/ \E t \in Threads : pc[t] = "send"
    /\ report # NoReport => report = [success |-> success, failed |-> failed]
    /\ ~panicked
    /\ Namespaced => retrying = {}

(* A pod on its way is unassigned until its binding goroutine has stored   *)
(* the host it is about to record.                                         *)
StoredVerdict ==
    /\ \A p \in Pods : pc[p] = "record" => store[p] = host[p]
    /\ \A p \in Flying : pc[p] # "record" => store[p] = Unassigned
    /\ \A p \in offQueue : pc[p] = "record" \/ Recorded(p)

Inv == /\ TypeInv /\ Baton /\ Conservation /\ NoDuplicates /\ Ending
       /\ StoredVerdict /\ OutcomeMatchesStore
-----------------------------------------------------------------------------
(* The life of one pod, in every configuration.  Retries let two pods be   *)
(* on their way at once, but only a pod in error is retried and such a pod *)
(* is never bound.                                                         *)

InHandOfSched(p) ==
    current = p /\ pc[Sched] \in {"schedule", "assume", "fail", "update"}
Waiting(p)   == p \in toQueue \/ Contains(schedQ, p) \/ InHandOfSched(p)
Succeeded(p) == \E i \in DOMAIN success : success[i].pod = p

Stored == {"record", "next", "stop", "send", "event", "done"}

(* Store, cache and status follow the binding goroutine of the pod. *)
Lifecycle(p) ==
    /\ store[p] = Absent => pc[p] = "idle" /\ ~Waiting(p) /\ ~Recorded(p)
    /\ pc[p] = "idle" => /\ store[p] \in {Absent, Unassigned}
                         /\ cache[p] = Absent
                         /\ p \notin offQueue
    /\ pc[p] = "bind" => store[p] = Unassigned
    /\ pc[p] \in Stored => store[p] = host[p] /\ host[p] \in Nodes
    /\ Contains(failed, p) => pc[p] = "idle"
    /\ Succeeded(p) => pc[p] \in Stored \ {"record"}
    /\ \A i \in DOMAIN success : success[i].pod = p => success[i].host = host[p]

(* A pod without scheduling error waits in one place, before its binding   *)
(* goroutine exists.                                                       *)
WaitsOnce(p) ==
    /\ p \notin retrying
    /\ Waiting(p) => pc[p] = "idle" /\ ~Contains(failed, p)
    /\ p \in toQueue => ~Contains(schedQ, p) /\ ~InHandOfSched(p)
    /\ Contains(schedQ, p) => ~InHandOfSched(p)

(* A pod in error never gets a host. *)
NeverBound(p) == pc[p] = "idle" /\ ~(pc[Sched] = "assume" /\ current = p)

Distinct(s) == \A i, j \in DOMAIN s : s[i] = s[j] => i = j

PodInv ==
    /\ TypeInv
    /\ Distinct(schedQ)
    /\ \A p \in Pods : Lifecycle(p)
    /\ \A p \in Pods : IF SchedulingError(p) THEN NeverBound(p) ELSE WaitsOnce(p)

(* The Recorder: a drainer for every event sent or still to be sent. *)
Owing == {p \in Pods : pc[p] \in {"next", "stop", "send", "event"}}
RecorderInv ==
    events + Cardinality(Owing) <= drainers + (IF pc[Sched] = "update" THEN 1 ELSE 0)
-----------------------------------------------------------------------------
(* The scheduler cache, when the sleep of Run suffices and no assumed pod  *)
(* expires.                                                                *)

(* Before the first pod, and the checkpoint in the cache. *)
Fresh  == (\A p \in Pods : store[p] = Absent) /\ pc[Sched] \in {"loop", "pop", "exit"}
Synced == DOMAIN Checkpoint \cap toCache = {}

(* No decision is taken before the cache holds the checkpoint, the cache   *)
(* is never behind the store afterwards, and a host that was chosen still  *)
(* fits when the pod is assumed.                                           *)
CacheInv ==
    /\ Fresh \/ Synced
    /\ \A q \in DOMAIN Checkpoint : /\ store[q] = Checkpoint[q]
                                    /\ q \notin toCache => cache[q] = Checkpoint[q]
    /\ \A p \in Pods : pc[p] # "idle" => cache[p] = host[p]
    /\ pc[Sched] = "assume" => CachedOn(host[current]) \cup {current} \in Feasible[host[current]]
    /\ \A n \in Nodes : CachedOn(n) \cap Pods # {} => CachedOn(n) \in Feasible[n]

(* A node that can host some pods can host fewer: true of resources,       *)
(* ports and volumes, not of affinity between pods.                        *)
DownwardClosed ==
    \A n \in Nodes : \A S \in Feasible[n] : SUBSET S \subseteq Feasible[n]
-----------------------------------------------------------------------------
(* The order of the verdicts: the pods are recorded in the order in which  *)
(* they leave the queue, and a refusal was decided on all the nodes and on *)
(* a cache that has not changed since.                                     *)

AllRecorded == \A p \in Pods : Contains(podQueue, p) \/ Recorded(p)

OrderInv ==
    /\ Len(podQueue) + (IF AllRecorded THEN 0 ELSE 1) + Len(success) + Len(failed)
          = Len(NewPods)
    /\ \A i \in DOMAIN NewPods : i > Len(podQueue) + 1 => Recorded(NewPods[i])
    /\ Fresh \/ nodesSeen = Nodes
    /\ pc[Sched] \in {"fail", "update"} /\ ~SchedulingError(current) =>
          Fits(current) = {}

(* A refusal stands: a pod that Update has recorded as failed still fits   *)
(* nowhere beside everything that Bind has recorded since.                 *)
RefusalStands == \A j \in DOMAIN failed : Greedy!CanHost(failed[j]) = {}
=============================================================================

------------------------------ MODULE Simulator ------------------------------
(***************************************************************************)
(* The simulation run of pkg/scheduler/simulator.go: ClusterCapacity feeds *)
(* the simulated pods to an unmodified kube-scheduler one at a time.  A    *)
(* pod is put in the resource store; its watch event brings it to the      *)
(* scheduling queue; the scheduler goroutine either binds it (in a         *)
(* goroutine of its own) or reports it unschedulable; either callback      *)
(* records the pod in the status and pops the next one.  Nothing but this  *)
(* baton orders the goroutines: the status has no lock and `stop` is an    *)
(* unbuffered channel that Run closes after its first receive.             *)
(*                                                                         *)
(* The goroutines are Run (variable `run`), the scheduler loop (thread     *)
(* Sched) and one binding goroutine per pod (thread p); pc[t] is the place *)
(* a thread has reached.  The handlers of the pod informer are two         *)
(* independent listeners, one feeding the scheduling queue, one feeding    *)
(* the scheduler cache.                                                    *)
(*                                                                         *)
(* The watch of the pod informer is taken to exist, and to have listed the *)
(* store, before the first simulated pod is stored.  In the code the sleep *)
(* of Run alone makes it so, for WaitForCacheSync waits for the informer's *)
(* own list and not for its watch.  Of the pods stored afterwards the      *)
(* watch brings every event once and in order (WatchRegistry,              *)
(* OnceInOrder); how late it brings them is left open.                     *)
(***************************************************************************)
EXTENDS Naturals, Sequences, FiniteSets

CONSTANTS
    Pods,           \* the simulated pods
    NewPods,        \* the order in which New received them
    Nodes,          \* the nodes of the checkpoint
    Checkpoint,     \* running pods of the checkpoint, each with its node
    Feasible,       \* Feasible[n]: the sets of pods node n can host together
    BadPods,        \* pods whose PersistentVolumeClaim does not exist
    Namespaced,     \* do simulated pods have a non-empty namespace?
    RecorderCap,    \* capacity of the Recorder's event channel
    SleepSuffices,  \* do 100ms also suffice to deliver the initial events?
    MayExpire,      \* may a watch event be later than the assumed pod's TTL?
    Sched, Absent, Unassigned, NoReport

AllPods == Pods \cup DOMAIN Checkpoint
Threads == Pods \cup {Sched}
Entry   == [pod : Pods, host : Nodes]

(* A placement maps each pod to its node, to Unassigned or to Absent.      *)
Placement == [AllPods -> Nodes \cup {Absent, Unassigned}]

ASSUME ConstantsAssumption ==
    /\ IsFiniteSet(Pods)
    /\ NewPods \in Seq(Pods)
    /\ \A i, j \in DOMAIN NewPods : NewPods[i] = NewPods[j] => i = j
    /\ \A p \in Pods : \E i \in DOMAIN NewPods : NewPods[i] = p
    /\ Checkpoint \in [DOMAIN Checkpoint -> Nodes]
    /\ Pods \cap DOMAIN Checkpoint = {}
    /\ Feasible \in [Nodes -> SUBSET SUBSET AllPods]
    /\ BadPods \subseteq Pods
    /\ Namespaced \in BOOLEAN /\ SleepSuffices \in BOOLEAN /\ MayExpire \in BOOLEAN
    /\ RecorderCap \in Nat \ {0}
    /\ Sched \notin AllPods
    /\ Absent \notin Nodes /\ Unassigned \notin Nodes /\ Absent # Unassigned

VARIABLES
    podQueue,       \* c.podQueue: a stack, the last pod is taken first
    store,          \* c.resourceStore, pods: a Placement
    toQueue,        \* Added events on their way to the scheduling queue
    offQueue,       \* pods to be deleted from the scheduling queue
    toCache,        \* assigned pods on their way to the scheduler cache
    nodesSeen,      \* nodes delivered to the scheduler cache
    schedQ,         \* the scheduling queue (FIFO)
    cache,          \* the scheduler cache: a Placement, Absent or a node
    assumed,        \* pods assumed and not yet confirmed by the informer
    pc,             \* program counter of every thread
    current,        \* scheduleOne: the pod in hand
    host,           \* scheduleOne / bind: the suggested host of each pod
    retrying,       \* pods with a retry goroutine of MakeDefaultErrorFunc
    events,         \* number of events in the Recorder's channel
    drainers,       \* goroutines receiving one event each
    success,        \* c.status.SuccessfulPods
    failed,         \* c.status.FailedPods
    stopReason,     \* is c.status.StopReason set?
    closed,         \* c.closed, with StopEverything and informerStopCh closed
    run,            \* program counter of Run and of Report
    report,         \* c.report
    panicked        \* a send on the closed channel `stop` killed the process

informers == <<toQueue, offQueue, toCache, nodesSeen>>
scheduler == <<schedQ, cache, assumed, current, host, retrying>>
recorder  == <<events, drainers>>
status    == <<success, failed, stopReason>>
vars == <<podQueue, store, informers, scheduler, pc, recorder, status,
          closed, run, report, panicked>>

SchedPc == {"loop", "pop", "schedule", "assume", "fail", "update", "next",
            "stop", "send", "exit"}
BindPc  == {"idle", "bind", "record", "next", "stop", "send", "event", "done"}
RunPc   == {"start", "first", "wait", "closing", "returned", "reported"}

TypeOK ==
    /\ podQueue \in Seq(Pods)
    /\ store \in Placement
    /\ toQueue \subseteq Pods /\ offQueue \subseteq Pods
    /\ toCache \subseteq AllPods /\ nodesSeen \subseteq Nodes
    /\ schedQ \in Seq(Pods)
    /\ cache \in [AllPods -> Nodes \cup {Absent}]
    /\ assumed \subseteq Pods
    /\ pc \in [Threads -> SchedPc \cup BindPc]
    /\ pc[Sched] \in SchedPc /\ \A p \in Pods : pc[p] \in BindPc
    /\ current \in Pods \cup {Absent}
    /\ host \in [Pods -> Nodes \cup {Unassigned}]
    /\ retrying \subseteq Pods
    /\ events \in 0..RecorderCap /\ drainers \in Nat
    /\ success \in Seq(Entry) /\ failed \in Seq(Pods)
    /\ stopReason \in BOOLEAN /\ closed \in BOOLEAN /\ panicked \in BOOLEAN
    /\ run \in RunPc
    /\ report \in [success : Seq(Entry), failed : Seq(Pods)] \cup {NoReport}

-----------------------------------------------------------------------------
(* New: the checkpoint is in the store, the simulated pods are queued.     *)
Init ==
    /\ podQueue = NewPods
    /\ store = [p \in AllPods |-> IF p \in Pods THEN Absent ELSE Checkpoint[p]]
    /\ toQueue = {} /\ offQueue = {}
    /\ toCache = DOMAIN Checkpoint
    /\ nodesSeen = {}
    /\ schedQ = <<>>
    /\ cache = [p \in AllPods |-> Absent]
    /\ assumed = {}
    /\ pc = [t \in Threads |-> IF t = Sched THEN "loop" ELSE "idle"]
    /\ current = Absent
    /\ host = [p \in Pods |-> Unassigned]
    /\ retrying = {}
    /\ events = 0 /\ drainers = 0
    /\ success = <<>> /\ failed = <<>> /\ stopReason = FALSE
    /\ closed = FALSE
    /\ run = "start"
    /\ report = NoReport
    /\ panicked = FALSE

-----------------------------------------------------------------------------
Goto(t, l) == pc' = [pc EXCEPT ![t] = l]

(* Where a thread goes on after its callback: Update returns to the        *)
(* scheduler loop, Bind returns to sched.bind, which emits an event.       *)
AfterCallback(t) == IF t = Sched THEN "loop" ELSE "event"

(* Mutant: the queue is served first in, first out. *)
PopFirstIntoStore ==
    /\ podQueue # <<>>
    /\ podQueue' = Tail(podQueue)
    /\ store' = [store EXCEPT ![Head(podQueue)] = Unassigned]
    /\ toQueue' = toQueue \cup {Head(podQueue)}

(* PodQueue.Pop takes the LAST pod; resourceStore.Add stores it and emits  *)
(* the Added event.                                                        *)
PopIntoStore ==
    LET p == podQueue[Len(podQueue)] IN
    /\ podQueue # <<>>
    /\ podQueue' = SubSeq(podQueue, 1, Len(podQueue) - 1)
    /\ store' = [store EXCEPT ![p] = Unassigned]
    /\ toQueue' = toQueue \cup {p}

(* StopReason is set, then Close: the scheduler and the informers are told *)
(* to stop; a second Close changes nothing.                                *)
StopAndClose ==
    /\ stopReason' = TRUE
    /\ closed' = TRUE

-----------------------------------------------------------------------------
(* Run *)

(* Informers started and synced, scheduler.Run has spawned its loop. *)
RunStart ==
    /\ run = "start"
    /\ run' = "first"
    /\ UNCHANGED <<podQueue, store, informers, scheduler, pc, recorder, status,
                   closed, report, panicked>>

(* The sleep is over: create the first simulated pod.  The watch of the    *)
(* pods exists by now; the nodes and the checkpoint's pods may still be on *)
(* their way to the listeners unless the sleep suffices for them too.      *)
RunFirst ==
    /\ run = "first"
    /\ SleepSuffices => nodesSeen = Nodes /\ toCache = {}
    /\ PopIntoStore
    /\ run' = "wait"
    /\ UNCHANGED <<offQueue, toCache, nodesSeen, scheduler, pc, recorder, status,
                   closed, report, panicked>>

(* Mutant: Run waits for `stop` although no pod was created. *)
RunEmptyWaits ==
    /\ run = "first"
    /\ podQueue = <<>>
    /\ StopAndClose
    /\ run' = "wait"
    /\ UNCHANGED <<podQueue, store, informers, scheduler, pc, recorder, success,
                   failed, report, panicked>>

(* There is no pod to simulate. *)
RunEmpty ==
    /\ run = "first"
    /\ podQueue = <<>>
    /\ StopAndClose
    /\ run' = "returned"
    /\ UNCHANGED <<podQueue, store, informers, scheduler, pc, recorder, success,
                   failed, report, panicked>>

(* After the receive from `stop`: the channel is closed, Run returns. *)
RunCloseStop ==
    /\ run = "closing"
    /\ run' = "returned"
    /\ UNCHANGED <<podQueue, store, informers, scheduler, pc, recorder, status,
                   closed, report, panicked>>

(* The report is built once, from the status as it is then. *)
Report ==
    /\ run = "returned"
    /\ run' = "reported"
    /\ report' = [success |-> success, failed |-> failed]
    /\ UNCHANGED <<podQueue, store, informers, scheduler, pc, recorder, status,
                   closed, panicked>>

-----------------------------------------------------------------------------
(* The end of both callbacks, run by thread t *)

NextPod(t) ==
    /\ pc[t] = "next"
    /\ PopIntoStore
    /\ Goto(t, AfterCallback(t))
    /\ UNCHANGED <<offQueue, toCache, nodesSeen, scheduler, recorder, status,
                   closed, run, report, panicked>>

(* Mutant: Pop tests lastIndex > 0, the last pod is never taken. *)
NoPodsLeftEarly(t) ==
    /\ pc[t] = "next"
    /\ Len(podQueue) <= 1
    /\ Goto(t, "stop")
    /\ UNCHANGED <<podQueue, store, informers, scheduler, recorder, status,
                   closed, run, report, panicked>>

NoPodsLeft(t) ==
    /\ pc[t] = "next"
    /\ podQueue = <<>>
    /\ Goto(t, "stop")
    /\ UNCHANGED <<podQueue, store, informers, scheduler, recorder, status,
                   closed, run, report, panicked>>

(* Mutant: the callback closes everything and does not send to `stop`. *)
CloseWithoutSend(t) ==
    /\ pc[t] = "stop"
    /\ StopAndClose
    /\ Goto(t, AfterCallback(t))
    /\ UNCHANGED <<podQueue, store, informers, scheduler, recorder, success,
                   failed, run, report, panicked>>

Close(t) ==
    /\ pc[t] = "stop"
    /\ StopAndClose
    /\ Goto(t, "send")
    /\ UNCHANGED <<podQueue, store, informers, scheduler, recorder, success,
                   failed, run, report, panicked>>

(* `stop` is unbuffered: the send and Run's receive are one step. *)
SendStop(t) ==
    /\ pc[t] = "send"
    /\ run = "wait"
    /\ run' = "closing"
    /\ Goto(t, AfterCallback(t))
    /\ UNCHANGED <<podQueue, store, informers, scheduler, recorder, status,
                   closed, report, panicked>>

(* A second sender, blocked or late, when Run has closed `stop`. *)
SendOnClosedStop(t) ==
    /\ pc[t] = "send"
    /\ run \in {"returned", "reported"}
    /\ panicked' = TRUE
    /\ UNCHANGED <<podQueue, store, informers, scheduler, pc, recorder, status,
                   closed, run, report>>

-----------------------------------------------------------------------------
(* The scheduler goroutine: wait.Until(scheduleOne, 0, StopEverything) *)

Loop ==
    /\ pc[Sched] = "loop"
    /\ run # "start"
    /\ Goto(Sched, IF closed THEN "exit" ELSE "pop")
    /\ current' = Absent
    /\ UNCHANGED <<podQueue, store, informers, schedQ, cache, assumed, host,
                   retrying, recorder, status, closed, run, report, panicked>>

(* NextPod of the scheduler blocks until the scheduling queue has a pod. *)
TakePod ==
    /\ pc[Sched] = "pop"
    /\ schedQ # <<>>
    /\ current' = Head(schedQ)
    /\ schedQ' = Tail(schedQ)
    /\ Goto(Sched, "schedule")
    /\ UNCHANGED <<podQueue, store, informers, cache, assumed, host, retrying,
                   recorder, status, closed, run, report, panicked>>

CachedOn(n) == {q \in AllPods : cache[q] = n}

(* The nodes whose predicates pass; a node the cache has not seen fails    *)
(* CheckNodeCondition.                                                     *)
Fits(p) == {n \in nodesSeen : CachedOn(n) \cup {p} \in Feasible[n]}

(* podPassesBasicChecks, and ErrNoNodesAvailable: errors that are not a    *)
(* FitError.                                                               *)
SchedulingError(p) == p \in BadPods \/ Nodes = {}

(* Mutant: a failed lookup of the volume claim may succeed the next time. *)
SelectHostUnchecked ==
    /\ pc[Sched] = "schedule"
    /\ \E n \in Fits(current) : host' = [host EXCEPT ![current] = n]
    /\ Goto(Sched, "assume")
    /\ UNCHANGED <<podQueue, store, informers, schedQ, cache, assumed, current,
                   retrying, recorder, status, closed, run, report, panicked>>

SelectHost ==
    /\ pc[Sched] = "schedule"
    /\ ~SchedulingError(current)
    /\ \E n \in Fits(current) : host' = [host EXCEPT ![current] = n]
    /\ Goto(Sched, "assume")
    /\ UNCHANGED <<podQueue, store, informers, schedQ, cache, assumed, current,
                   retrying, recorder, status, closed, run, report, panicked>>

(* Mutant: one node that does not fit is enough to fail the pod. *)
ScheduleFitErrorAnyNode ==
    /\ pc[Sched] = "schedule"
    /\ ~SchedulingError(current)
    /\ Fits(current) # nodesSeen
    /\ Goto(Sched, "fail")
    /\ UNCHANGED <<podQueue, store, informers, scheduler, recorder, status,
                   closed, run, report, panicked>>

(* wrappedErrorFn drops a FitError ... *)
ScheduleFitError ==
    /\ pc[Sched] = "schedule"
    /\ ~SchedulingError(current)
    /\ Fits(current) = {}
    /\ Goto(Sched, "fail")
    /\ UNCHANGED <<podQueue, store, informers, scheduler, recorder, status,
                   closed, run, report, panicked>>

(* ... and passes every other error on: a retry goroutine is spawned. *)
ScheduleError ==
    /\ pc[Sched] = "schedule"
    /\ SchedulingError(current)
    /\ retrying' = retrying \cup {current}
    /\ Goto(Sched, "fail")
    /\ UNCHANGED <<podQueue, store, informers, schedQ, cache, assumed, current,
                   host, recorder, status, closed, run, report, panicked>>

(* Mutant: the binding is left to the informer, the cache is not told. *)
AssumeNothing ==
    /\ pc[Sched] = "assume"
    /\ pc' = [pc EXCEPT ![Sched] = "loop", ![current] = "bind"]
    /\ UNCHANGED <<podQueue, store, informers, scheduler, recorder, status,
                   closed, run, report, panicked>>

(* Mutant: the scheduler goroutine asks for the next pod by itself. *)
AssumeThenNext ==
    /\ pc[Sched] = "assume"
    /\ cache' = [cache EXCEPT ![current] = host[current]]
    /\ assumed' = assumed \cup {current}
    /\ pc' = [pc EXCEPT ![Sched] = "next", ![current] = "bind"]
    /\ UNCHANGED <<podQueue, store, informers, schedQ, current, host, retrying,
                   recorder, status, closed, run, report, panicked>>

(* AssumePod accepts only a pod the cache does not hold; the binding       *)
(* goroutine is spawned and the loop goes on.                              *)
Assume ==
    /\ pc[Sched] = "assume"
    /\ cache[current] = Absent
    /\ cache' = [cache EXCEPT ![current] = host[current]]
    /\ assumed' = assumed \cup {current}
    /\ pc' = [pc EXCEPT ![Sched] = "loop", ![current] = "bind"]
    /\ UNCHANGED <<podQueue, store, informers, schedQ, current, host, retrying,
                   recorder, status, closed, run, report, panicked>>

(* Mutant: an event is queued whether or not the channel has room. *)
FailEventUnbounded ==
    /\ pc[Sched] = "fail"
    /\ events' = events + 1
    /\ Goto(Sched, "update")
    /\ UNCHANGED <<podQueue, store, informers, scheduler, drainers, status,
                   closed, run, report, panicked>>

(* Recorder.Eventf blocks while the channel is full. *)
FailEvent ==
    /\ pc[Sched] = "fail"
    /\ events < RecorderCap
    /\ events' = events + 1
    /\ Goto(Sched, "update")
    /\ UNCHANGED <<podQueue, store, informers, scheduler, drainers, status,
                   closed, run, report, panicked>>

(* Mutant: nobody receives the event of a failed pod. *)
UpdateWithoutDrain ==
    /\ pc[Sched] = "update"
    /\ failed' = Append(failed, current)
    /\ Goto(Sched, "next")
    /\ UNCHANGED <<podQueue, store, informers, scheduler, recorder, success,
                   stopReason, closed, run, report, panicked>>

(* ClusterCapacity.Update with reason Unschedulable. *)
Update ==
    /\ pc[Sched] = "update"
    /\ failed' = Append(failed, current)
    /\ drainers' = drainers + 1
    /\ Goto(Sched, "next")
    /\ UNCHANGED <<podQueue, store, informers, scheduler, events, success,
                   stopReason, closed, run, report, panicked>>

-----------------------------------------------------------------------------
(* The binding goroutine of pod p: sched.bind around ClusterCapacity.Bind *)

(* Mutant: the pod is written back without its node. *)
BindWithoutNode(p) ==
    /\ pc[p] = "bind"
    /\ Goto(p, "record")
    /\ UNCHANGED <<podQueue, store, informers, scheduler, recorder, status,
                   closed, run, report, panicked>>

(* The stored pod gets its node; strategy.Add writes it back and the       *)
(* Modified event goes to both listeners.                                  *)
Bind(p) ==
    /\ pc[p] = "bind"
    /\ store[p] # Absent
    /\ store' = [store EXCEPT ![p] = host[p]]
    /\ toCache' = toCache \cup {p}
    /\ offQueue' = offQueue \cup {p}
    /\ Goto(p, "record")
    /\ UNCHANGED <<podQueue, toQueue, nodesSeen, scheduler, recorder, status,
                   closed, run, report, panicked>>

Record(p) ==
    /\ pc[p] = "record"
    /\ success' = Append(success, [pod |-> p, host |-> host[p]])
    /\ drainers' = drainers + 1
    /\ Goto(p, "next")
    /\ UNCHANGED <<podQueue, store, informers, scheduler, events, failed,
                   stopReason, closed, run, report, panicked>>

(* Two goroutines append at once: the data race loses one of the entries. *)
RecordRace(p, q) ==
    /\ p # q /\ pc[p] = "record" /\ pc[q] = "record"
    /\ success' = Append(success, [pod |-> p, host |-> host[p]])
    /\ drainers' = drainers + 2
    /\ pc' = [pc EXCEPT ![p] = "next", ![q] = "next"]
    /\ UNCHANGED <<podQueue, store, informers, scheduler, events, failed,
                   stopReason, closed, run, report, panicked>>

(* FinishBinding starts the TTL, then the Scheduled event. *)
BindEvent(p) ==
    /\ pc[p] = "event"
    /\ events < RecorderCap
    /\ events' = events + 1
    /\ Goto(p, "done")
    /\ UNCHANGED <<podQueue, store, informers, scheduler, drainers, status,
                   closed, run, report, panicked>>

(* A goroutine spawned by Bind or Update receives its one event. *)
Drain ==
    /\ drainers > 0 /\ events > 0
    /\ drainers' = drainers - 1
    /\ events' = events - 1
    /\ UNCHANGED <<podQueue, store, informers, scheduler, pc, status, closed,
                   run, report, panicked>>

-----------------------------------------------------------------------------
(* Informer listeners, the cache's expiry and the retry goroutines *)

NodeAdded(n) ==
    /\ n \notin nodesSeen
    /\ nodesSeen' = nodesSeen \cup {n}
    /\ UNCHANGED <<podQueue, store, toQueue, offQueue, toCache, scheduler, pc,
                   recorder, status, closed, run, report, panicked>>

Contains(s, p) == \E i \in DOMAIN s : s[i] = p
WithPod(s, p)  == IF Contains(s, p) THEN s ELSE Append(s, p)

(* A queue holds a pod at most once. *)
Without(s, p) ==
    LET i == CHOOSE j \in DOMAIN s : s[j] = p
    IN  IF Contains(s, p) THEN SubSeq(s, 1, i - 1) \o SubSeq(s, i + 1, Len(s)) ELSE s

(* Mutant: the watch delivers the Added event again. *)
AddPodRepeatedly(p) ==
    /\ p \in toQueue
    /\ schedQ' = WithPod(schedQ, p)
    /\ UNCHANGED <<podQueue, store, informers, cache, assumed, current, host,
                   retrying, pc, recorder, status, closed, run, report, panicked>>

(* A pod stored on an existing watch is delivered as Added once. *)
AddPodToSchedulingQueue(p) ==
    /\ p \in toQueue
    /\ toQueue' = toQueue \ {p}
    /\ schedQ' = WithPod(schedQ, p)
    /\ UNCHANGED <<podQueue, store, offQueue, toCache, nodesSeen, cache, assumed,
                   current, host, retrying, pc, recorder, status, closed, run,
                   report, panicked>>

DeletePodFromSchedulingQueue(p) ==
    /\ p \in offQueue \ toQueue
    /\ offQueue' = offQueue \ {p}
    /\ schedQ' = Without(schedQ, p)
    /\ UNCHANGED <<podQueue, store, toQueue, toCache, nodesSeen, cache, assumed,
                   current, host, retrying, pc, recorder, status, closed, run,
                   report, panicked>>

(* AddPod confirms an assumed pod, and adds one the cache does not hold. *)
AddPodToCache(p) ==
    /\ p \in toCache
    /\ toCache' = toCache \ {p}
    /\ cache' = [cache EXCEPT ![p] = store[p]]
    /\ assumed' = assumed \ {p}
    /\ UNCHANGED <<podQueue, store, toQueue, offQueue, nodesSeen, schedQ,
                   current, host, retrying, pc, recorder, status, closed, run,
                   report, panicked>>

(* cleanupAssumedPods drops a pod whose binding finished TTL ago. *)
ExpireAssumedPod(p) ==
    /\ MayExpire
    /\ p \in assumed /\ pc[p] \in {"event", "done"}
    /\ cache' = [cache EXCEPT ![p] = Absent]
    /\ assumed' = assumed \ {p}
    /\ UNCHANGED <<podQueue, store, informers, schedQ, current, host, retrying,
                   pc, recorder, status, closed, run, report, panicked>>

(* Mutant: the client accepts a request without a namespace. *)
RetryAnyNamespace(p) ==
    /\ p \in retrying
    /\ retrying' = retrying \ {p}
    /\ schedQ' = IF store[p] = Unassigned THEN WithPod(schedQ, p) ELSE schedQ
    /\ UNCHANGED <<podQueue, store, informers, cache, assumed, current, host, pc,
                   recorder, status, closed, run, report, panicked>>

(* The retry goroutine gets the pod from the client.  Without a namespace  *)
(* the client refuses the request and the goroutine asks again forever.    *)
Retry(p) ==
    /\ p \in retrying
    /\ Namespaced
    /\ retrying' = retrying \ {p}
    /\ schedQ' = IF store[p] = Unassigned THEN WithPod(schedQ, p) ELSE schedQ
    /\ UNCHANGED <<podQueue, store, informers, cache, assumed, current, host, pc,
                   recorder, status, closed, run, report, panicked>>

-----------------------------------------------------------------------------
(* The process has printed its report, or has died. *)
Exit == (run = "reported" \/ panicked) /\ UNCHANGED vars

RunStep   == RunStart \/ RunFirst \/ RunEmpty \/ RunCloseStop \/ Report
Callback(t) == NextPod(t) \/ NoPodsLeft(t) \/ Close(t) \/ SendStop(t)
                  \/ SendOnClosedStop(t)
SchedStep == Loop \/ TakePod \/ SelectHost \/ ScheduleFitError \/ ScheduleError
                  \/ Assume \/ FailEvent \/ Update \/ Callback(Sched)
BindStep(p) == Bind(p) \/ Record(p) \/ (\E q \in Pods : RecordRace(p, q))
                  \/ BindEvent(p) \/ Callback(p)
Listener  == \/ \E n \in Nodes : NodeAdded(n)
             \/ \E p \in AllPods : AddPodToCache(p)
             \/ \E p \in Pods : \/ AddPodToSchedulingQueue(p)
                               \/ DeletePodFromSchedulingQueue(p)

Steps == \/ RunStep \/ SchedStep \/ Listener \/ Drain
         \/ \E p \in Pods : BindStep(p) \/ ExpireAssumedPod(p) \/ Retry(p)

Next == (~panicked /\ Steps) \/ Exit

(* Every goroutine that can run eventually does; the informers are only    *)
(* obliged to deliver until Close has stopped them.                        *)
Fairness ==
    /\ WF_vars(~panicked /\ RunStep)
    /\ WF_vars(~panicked /\ SchedStep)
    /\ WF_vars(~panicked /\ Drain)
    /\ \A p \in Pods : WF_vars(~panicked /\ BindStep(p))
    /\ \A n \in Nodes : WF_vars(~panicked /\ ~closed /\ NodeAdded(n))
    /\ \A p \in AllPods : WF_vars(~panicked /\ ~closed /\ AddPodToCache(p))
    /\ \A p \in Pods :
         WF_vars(~panicked /\ ~closed /\ AddPodToSchedulingQueue(p))

Spec == Init /\ [][Next]_vars /\ Fairness

-----------------------------------------------------------------------------
(* Properties *)

Recorded(p) ==
    (\E i \in DOMAIN success : success[i].pod = p) \/ Contains(failed, p)

(* Each simulated pod occurs exactly once in a pair of result lists. *)
ExactlyOnce(s, f) ==
    /\ \A i, j \in DOMAIN s : s[i].pod = s[j].pod => i = j
    /\ \A i, j \in DOMAIN f : f[i] = f[j] => i = j
    /\ \A i \in DOMAIN s, j \in DOMAIN f : s[i].pod # f[j]
    /\ \A p \in Pods : (\E i \in DOMAIN s : s[i].pod = p) \/ Contains(f, p)

(* The report that Run's caller prints (Report, simulator.go:100) lists    *)
(* every simulated pod exactly once, as successful or as failed, although  *)
(* the lists are filled by goroutines Run never joins.                     *)
ReportComplete == report # NoReport => ExactlyOnce(report.success, report.failed)

(* The baton: at most one simulated pod has been created by nextPod and    *)
(* not yet been recorded by Bind or Update.                                *)
SingleFlight ==
    \A p, q \in Pods :
       /\ store[p] # Absent /\ ~Recorded(p)
       /\ store[q] # Absent /\ ~Recorded(q)
       => p = q

Critical == {t \in Threads : pc[t] \in {"update", "record", "next", "stop"}}

(* c.status is written by the scheduler goroutine and by the binding       *)
(* goroutines without a lock: no two of them are ever inside the part of   *)
(* Update and Bind from the status to the end of nextPod, and none is      *)
(* while Run's caller reads the status for the report.                     *)
StatusRaceFree ==
    /\ \A s, t \in Critical : s = t
    /\ run \in {"closing", "returned"} => Critical = {}

(* What is reported is what is stored: a successful pod is stored on the   *)
(* host it is reported on, and a failed one was never bound.               *)
OutcomeMatchesStore ==
    /\ \A i \in DOMAIN success : store[success[i].pod] = success[i].host
    /\ \A i \in DOMAIN failed : store[failed[i]] = Unassigned

StoredOn(n) == {q \in AllPods : store[q] = n}

(* A node that received simulated pods can host all the pods stored on it, *)
(* the checkpoint's included: no decision was taken on a scheduler cache   *)
(* that had missed an earlier placement.                                   *)
NoOvercommit ==
    \A n \in Nodes : StoredOn(n) \cap Pods # {} => StoredOn(n) \in Feasible[n]

(* The scheduler never assumes a pod its cache already holds, so the       *)
(* SchedulerError path of sched.assume, whose Update would neither drain   *)
(* an event nor create a next pod, is never taken.                         *)
AssumeSucceeds == pc[Sched] = "assume" => cache[current] = Absent

(* Every event in the Recorder's channel has a goroutine that will receive *)
(* it, but for the one whose Update is about to spawn it: a sender blocked *)
(* on a full channel is always let go.                                     *)
RecorderCovered ==
    events <= drainers + (IF pc[Sched] = "update" THEN 1 ELSE 0)

(* The channel `stop` is sent to once: no goroutine can panic on it or be  *)
(* left blocked on it when Run has returned.                               *)
StopSentOnce ==
    /\ ~panicked
    /\ \A s, t \in Threads : pc[s] = "send" /\ pc[t] = "send" => s = t
    /\ run \in {"closing", "returned", "reported"} =>
          \A t \in Threads : pc[t] \notin {"stop", "send"}

(* Once Close has stopped the informers, no step writes to the store: no   *)
(* event is emitted to a watch that is being closed.                       *)
CloseQuiesces == [][closed => store' = store]_vars

(* A failed pod stays failed: nothing binds it later. *)
FailedIsFinal ==
    [][\A p \in Pods : Contains(failed, p) => store'[p] = store[p]]_vars

(* The simulation ends: Run returns and the report is made. *)
Terminates == <>(run = "reported")

(* What the simulation computes: the sequential first-come placement.      *)
Greedy == INSTANCE GreedyPlacement WITH
    pending <- SubSeq(NewPods, 1, Len(NewPods) - (Len(success) + Len(failed))),
    placed  <- success,
    refused <- failed,
    done    <- report # NoReport

(* The concurrent simulation implements the sequential placement: same     *)
(* order, a host only where the pod fits beside all the earlier ones, and  *)
(* a failure only where it fits nowhere.                                   *)
ImplementsGreedy == Greedy!Spec
=============================================================================

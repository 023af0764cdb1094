# Verification of kubernetes-schedule-simulator

The program takes a snapshot of a cluster (its nodes and running pods), a list of pods to
simulate, and an unmodified kube-scheduler, and reports on which node each simulated pod would
land. The scheduler talks to a fake API server inside the process; what makes the program work
is a chain of callbacks between goroutines that share state without locks. This directory holds
TLA+ models of that chain, TLC runs that check them on small instances, and TLAPS proofs of their
safety properties for every instance.

## The system

| Component | State | Operations | Talks to |
|---|---|---|---|
| `ClusterCapacity` (pkg/scheduler/simulator.go) | pod queue, status, `stop`, `closed`, cached report | New, Run, nextPod, Bind, Update, Close, Report | store, strategy, recorder; called back by the scheduler |
| Pod queue (store.go) | slice with a mutex | Add, Pop (last element first) | ClusterCapacity |
| Resource store (store.go) | one thread-safe cache per resource, event handlers | Add, Update, List, Get, GetByKey (Delete, Replace unused) | handlers of the REST client |
| Strategy (strategy.go) | none | Add | resource store (Update) |
| Recorder (recorder.go) | channel of 10 events | Eventf | scheduler writes, callbacks spawn a goroutine to drain |
| REST client (restclient.go) | `Resp`, the map of watches, one mutex | Do, EmitObjectWatchEvent, createWatchReadCloser | informers ask, store handlers emit |
| Watch buffer (watch.go) | bytes, three unbuffered channels, `closed`, a lock | Read, Write, Close, loop | one reflector reads, emitters write |
| kube-scheduler (vendored) | scheduling queue, scheduler cache, assumed pods | scheduleOne, assume, bind, error function | informers feed it, it calls Bind and Update |
| Report (report.go) | the reviews, which share quantities with the pods | GetReport, ClusterCapacityReviewPrint | reads the status of ClusterCapacity |
| Command line (cmd/), sample program (pkg/main.go) | flags, checkpoint, pods to simulate | Validate, getCheckpoints, ParseSimulationPod or createSamplePods, runSimulator | the cluster; ClusterCapacity; Report |

The round trip of one pod: `nextPod` pops it and adds it to the store; the store's handler emits
`Added` on the watch of the pod informer; the informer's listener puts it in the scheduling
queue; the scheduler goroutine takes it and either assumes it and spawns a binding goroutine,
which calls `Bind`, or calls `Update`. Both record the pod in the unlocked status, spawn a
goroutine that drains one event, and call `nextPod` again. When the queue is empty the callback
closes everything and sends on `stop`; `Run` receives, closes `stop` and returns, and the report
is built from the status.

What is hard: nothing but this baton keeps the goroutines apart; the informers deliver late and
in their own order; the scheduler decides on a cache that lags behind the store; the scheduler's
own error function retries what the simulator has already given up; channels are closed while
others may use them; watches are created while events are emitted; the cluster changes while it
is read; the report adds up quantities in place. `PROJECT.json` lists these as
hazards, each at its line with the properties that would catch it.

## Modules

| Module | Models | Used by |
|---|---|---|
| `GreedyPlacement` | what a run promises: pods placed one by one, last first, on a node that can host them beside the earlier ones, else refused | refined by `Simulator` |
| `Simulator` | the run: Run, the scheduler goroutine, a binding goroutine per pod, informer listeners, scheduler cache, recorder, retry goroutines | `SimulatorInv` |
| `SimulatorInv` | the inductive invariants and their parts | `SimulatorProofs`, `MCSimulator` |
| `SimulatorProofs` | proofs: types, and the baton without retries | `SimulatorPodProofs` |
| `SimulatorPodProofs` | proofs: the life of one pod, and the recorder, in every configuration | `SimulatorRefinement` |
| `SimulatorRefinement` | proofs: the scheduler cache against the store, that every step is one of `GreedyPlacement`, and what follows for the refused pods | |
| `WatchStream` | what a watch promises: a FIFO of whole events until it is closed | refined by `WatchBuffer` |
| `WatchBuffer` | Read, Write, Close and loop, one action per channel or lock operation | `MCWatchBuffer`, `WatchBufferProofs` |
| `RESTClient` | `Do`: path decoding, bodies, the shared `c.Resp` | `MCRESTClient`, `RESTClientProofs` |
| `WatchRegistry` | creation of watches against emission of events | `MCWatchRegistry`, `WatchRegistryProofs` |
| `Review` | GetReport and the printed tables, with quantities that a sum changes in place | `Command`, `ReviewProofs` |
| `ReviewProofs` | proofs: what the sums and the list of simulated pods are, for any length | `CommandProofs` |
| `Command` | the two programs from their flags to the printed report, around the sequential placement that `Simulator` implements | `MCCommand`, `CommandProofs` |
| other `...Proofs` | the inductive invariant of that module and its proofs | |
| `MC...` | instances for TLC | the `.cfg` files |

Definitions whose comment begins with `Mutant:` are faulty variants of the definition that
follows them. Nothing uses them in a run; put in the place of that definition, they make the
property `PROJECT.json` names fail, which shows that the property is sensitive to that code.

### Simulator

`pc[t]` is the place of the scheduler goroutine (`Sched`) and of the binding goroutine of each
pod; `run` is that of `Run` and its caller. Between two actions there is a point where another
goroutine can interfere: a channel operation, a call into the cache or the store, an access to
the status. Notable choices:

- `Feasible[n]` is the set of pod sets node n can host; the real predicates are pure functions
  of the cache, and the model lets them be any. Priorities are an arbitrary choice among the
  nodes that fit. A node the cache has not seen does not fit (`CheckNodeCondition`).
- A scheduling error that is not a FitError comes from a missing volume claim (`BadPods`) or
  from a cluster without nodes. `wrappedErrorFn` passes it on, and a retry goroutine starts. It
  asks the client for the pod. Without a namespace the vendored client refuses the request, and
  the goroutine asks forever; the command line never sets a namespace, so there nothing is put
  back in the queue (`Namespaced = FALSE`). A caller of the package that sets one does get retries.
- Each listener of the pod informer is a set of undelivered events. Events of one pod keep their
  order (`DeletePodFromSchedulingQueue` waits for the Added event); those of different pods do
  not, which allows more than the informer does.
- An unlocked append to `SuccessfulPods` by two goroutines at once loses an entry (`RecordRace`).
- The sleep of `Run` is `SleepSuffices`: true waits until the initial events are delivered, false
  does not. In both cases each informer has its own watch, and that watch has listed the store,
  before the first simulated pod is stored. `WaitForCacheSync` does not see to that (it waits for
  the informer's list); the sleep does. `OnceInOrder` of `WatchRegistry` then says that each
  event of a simulated pod is brought once and in order, as `AddPodToSchedulingQueue` has it.
- The TTL of an assumed pod is `MayExpire`: late watch events may let it pass.
- Events are counted. A sender blocks on a full channel; each drain goroutine receives one.
- The queue a retry goroutine uses, `AddIfNotPresent`, and the FIFO's `Add` are one operator:
  a queue holds a pod once.

`sched.assume`'s error path is not an action: `AssumeSucceeds` shows it is never reached.
Likewise `Bind` finds its pod in the store. Preemption is disabled by default. Simulated pods
have no node and no deletion timestamp in their spec.

### WatchBuffer

Actions are the steps between lock and channel operations; a send and its receive are one step.
`RLock; read closed; RUnlock` is one step that needs the lock to be free. `Readers` is the set of
goroutines that read the buffer until EOF: one, the StreamWatcher of its reflector, unless
`RESTClient.Do` has handed one watch to two callers, which `rest_mixup` shows it can. After Close, `loop`'s select may pick
the closed channel `read` any number of times and change nothing: that is a stuttering step.
A send on a channel that has been closed since the check kills the process (`SendOnClosed`).

### RESTClient

A selector is the set of objects it matches, a body the set of objects in it; the store does not
change. `Decode` is the switch on the number of path segments; `StatusFolds` are the strings that
`strings.EqualFold` takes for `status`. `StoreResp` and `FetchResp` are the two critical sections
on `c.Resp`. `mine` and `stamp` are history variables. `AnswerInScope` is about answers, not about
what `Do` builds, and measures an answer by the request it was made for, which need not be that
of the call that returns it (`rest_mixup`).

### WatchRegistry

One resource and one selector. Version 1 of an object is the created pod, version 2 the bound
one. The goroutine that writes a version also emits its event, and it may still be emitting to
the other watches when the scheduler, which has been delivered the event, writes the next one:
`emitter` and `todo` are per event. A pod is created when the earlier ones have their verdict
(`Decided`): the goroutine that emits a binding creates the next pod, a refusal writes nothing. The
important causality: a pod is bound only after the scheduler's informer has delivered it.
Iterating over the map of watches while it is written may kill the process (`MapRace`).

`inList` is a history variable: the pods that the scheduler's watch found when it listed the
store. Of any other pod the scheduler gets every event once and in order (`OnceInOrder`). A pod in
the list may come a second time, by the event of its creation, and even after it was bound, when
that emission is slow.

### Review

A container's request for a resource is a value and a kind: a `resource.Quantity` that fits in an
int64 is a plain value; a `"fraction"` (`1.5Gi`) and a `"large"` one are pointers to a decimal,
which a copy of the quantity shares and `Quantity.Add` changes. `requests` is what the pods hold,
so a step of `GetReport` may change it, and a sum is either a value of its own or a reference
(`Ref(i)`) to the decimal of container i, read when the table is printed. `GetReport` reviews
each class of pods twice, for Spec and for Status: six steps, in the code's order. Names, the
layout of the tables and the fail reason (which is never printed) are left out. `specPrint` and
`getMainFailReason` have no caller.

### Command

`stage` runs through `CliRun` or `SampleMain`, the order of the calls in the two programs; each
action is one call, and `Fail` is its error exit. A flag is what the code asks of it: whether it
is there, and for `algorithmprovider` whether the provider is registered, which is found out only
in `New`, after the checkpoint has been stored. The sample program parses its command line
before it defines its flag, so `-kubeconfig` ends it with a usage text. The pod file is a
sequence of entries (a count, which may be negative, the containers, and whether the scheduler
would take the pod); it is read, and chosen, when `ParseSimulationPod` opens it. While
`getCheckpoints` is between its two requests a node may be lost with its pods, or a pod be
replaced on another node (`ClusterChanges`, external).

`Place`, `Refuse` and `RunEnds` are the simulation as `Simulator` shows it to behave without
retries (`ImplementsGreedy`), with two additions: it works on the checkpoint that was read, and a
pod that names a node, has ended or is being deleted is not taken by the scheduler, so that `Run`
waits forever. A failed pod is the scheduler's own object, decoded from a watch: its fractions
have become plain values. A successful one shares its containers with the stored pod.

## Runs

| Run | Bounds | Shows |
|---|---|---|
| `sim_cli` | 4 pods (one bad), 2 nodes of capacity 2, a pod in the checkpoint, channel of 2 | the safety properties, that a refusal stands, `CloseQuiesces`, `Terminates`, and the refinement of `GreedyPlacement`, for the command line program |
| `sim_timing` | 2 pods, 2 nodes, channel of 1, late nodes, expiring pods | completeness, quiescence after Close and termination do not depend on how late existing watches deliver, nor on the nodes being there when the first pod is created |
| `sim_retry` | 3 pods (one bad), namespaced | what survives retries: placements, no overcommitment, `FailedIsFinal` |
| `sim_empty` | no pods | `Run` returns at once |
| `watch` | 2 writers, 2 events each of 2 bytes, reads of 1 to 3 bytes, Close at any moment or never | stream, lock, delivery of everything, a waiting Read is answered and ends without data only on a closed watch, refinement of `WatchStream`; after Close reader and loop end, or a racing send has panicked |
| `watch_two_readers` | 2 readers, 1 writer with 2 events, no Close | violation: Reads and Writes block each other for good |
| `rest` | 2 interchangeable callers, 2 calls each, 16 request shapes | answers in the scope of the request they were made for, responses fresh, watches registered |
| `rest_mixup` | 2 callers, 1 call each | violation: a call returns another's response |
| `registry` | 2 watches, one of which may close, 2 pods, both bound in the end | every informer learns of every pod while no watch is closed; the scheduler gets the events of a pod that its watch did not list once and in order |
| `registry_closed` | the same, and a pod may be refused | violation: a closed watch starves the later ones |
| `command` | both programs, 16 combinations of flags, files of up to 2 entries with counts -1 to 2, 2 nodes for 2 and 1 pods, a running pod | the tables have one row per pod asked for and tell its requests, placements respect the pods that run, every way through the program ends unless a pod is not taken |
| `report_desired` | one pod whose second container asks for a decimal | violation: the review changes what the pod requests |

Why the bounds are enough. In the simulator a hand-over involves two consecutive pods, so two or
three pods already give every interleaving of a pod with its successor; four pods with requests
1, 2, 1, 1 on two nodes of capacity 2, one of them partly taken, make some pods fit on one node
only and one on none. A channel of capacity 1 or 2 fills up, which ten would not with four pods.
In `command` up to four pods compete for two or three places, so pods are placed and refused;
the shapes of their containers put a decimal before and after a plain request for the same
resource. Events of two bytes and reads of up to three split and join events. Two callers suffice for an
interference on one shared field. `MCBatch` (how many pods), `MaxEvents` and `MaxCalls` are the
bounds; everything else is finite by itself.

What does not hold, and why it is not asked for: with namespaced pods and retried errors
(`sim_retry`) two pods are in flight, so a pod may be listed as failed twice, `stop` may be sent
to twice, and a success can be lost; these properties are checked, and proved, where no retry
occurs. `NoOvercommit` is not claimed under `MayExpire`: a pod bound but expired from the cache
before its watch event makes room that is not there. With a sleep that does not suffice, a pod
may be placed on a node before the checkpoint's pods are counted there. No run, and no theorem
about `Simulator`, covers a sleep so short that the pod watch is created when, or after, the first
pod is stored. That pod is then in the list of the watch and in an event, so its Added may come
twice; the informer passes the second on as an update, which puts the pod in the scheduling queue
again. A refused pod can so be scheduled and listed twice, which means a second `nextPod`, a
second send on `stop` and writes after Close; and the creation of the watch may meet the emission
(`MapRace`). Two informers that get one watch (`rest_mixup`) are not covered either.
`RowsTellRequests` is
asked only of plain pods: in the others a request kept as a decimal comes after a request for the
same resource, and the printed sum counts the earlier one twice, which is the finding of
`report_desired`. `LockMeetsReceiver` is about one reader. A Read that waits when the watch is closed
returns neither bytes nor an error; `EndMeansClosed` says that this, and EOF, happen on a closed
watch only.

Fairness. Each goroutine that can take a step eventually does (the Go scheduler): weak fairness
of each. Informers are obliged to deliver only until `Close` stops them. Retries, expiry, Close
of a watch and the creation of pods in `WatchRegistry` have no fairness: nothing forces them.
In `Command` the program is one goroutine and goes on while it can; the cluster need not change.

## Proofs

The theorems hold for every value of the constants that satisfies the assumption of the module
(`ConstantsAssumption`, `BufferAssumption`, ...): any finite set of pods, any nodes, checkpoint,
feasibility relation and channel capacity; any readers, writers, callers, watches, paths and
pod files, with any number of entries, containers and resources. The assumptions are about types
and finiteness, and about names (a goroutine is not called `"free"`, a running pod is not a pair
like the simulated ones). Counts and amounts are integers of either sign: the program checks
neither. A hypothesis beyond the assumptions is written in the theorem.

| Theorem | States | Hypotheses |
|---|---|---|
| `TypeCorrect` | `TypeOK` of `Simulator` | |
| `OneAtATime`, `RaceFree`, `StopsOnce`, `QuietAfterClose`, `CompleteReport` | `SingleFlight`, `StatusRaceFree`, `StopSentOnce`, `CloseQuiesces`, `ReportComplete` | `NoRetry` |
| `ReportedIsStored`, `NeverAssumedTwice`, `FailureIsFinal`, `NoEventLeftBehind` | `OutcomeMatchesStore`, `AssumeSucceeds`, `FailedIsFinal`, `RecorderCovered` | |
| `NeverOvercommitted` | `NoOvercommit` | `SleepSuffices`, `~MayExpire`, `NoRetry` or `DownwardClosed` |
| `RefinesGreedy` | the steps of `Simulator` are steps of `GreedyPlacement` | `NoRetry`, `SleepSuffices`, `~MayExpire` |
| `RefusalIsJustified` | `RefusalStands` | `NoRetry`, `SleepSuffices`, `~MayExpire`, `DownwardClosed` |
| `BufferTypeCorrect`, `StreamIsIntact`, `EndIsClosed` | `TypeOK`, `StreamIntact`, `EndMeansClosed` | |
| `LockIsMet` | `LockMeetsReceiver` | `OneReader` |
| `RefinesStream` | the steps of `WatchBuffer` are steps of `WatchStream` | |
| `ClientTypeCorrect`, `NeverStale`, `WatchIsRegistered`, `AnswerIsInScope` | `TypeOK`, `FreshResponse`, `WatchRegistered`, `AnswerInScope` | |
| `SoleCallerGetsOwn`, `SoleCallerInScope` | `OwnResponse`; an answer is in the scope of the call that gets it | `OneCaller` |
| `RegistryTypeCorrect`, `SchedulerGetsOnceInOrder` | `TypeOK`, `OnceInOrder` | |
| `CommandTypeCorrect`, `RowsAreTheFile`, `RowsAreTheRequests` | `TypeOK`, `RowsMatchFile`, `RowsTellRequests` | |
| `NoReportOfUnclaimed` | the safety part of `EndsUnlessUnclaimed` | |
| `RunningPodsRespected` | `RespectsRunning` | `HostsFewer` |
| `PlainRequest` | `getResourceRequest` returns the sum of the containers' requests and changes none | the containers are plain |

### Simulator: types and the baton

`TypeOK` is not inductive: `TypeInv` adds that what is left of the queue is a prefix of the input
(so a popped pod is not popped again) and what each goroutine holds while it is in the middle of
its work.

`NoRetry` is: no namespace, or no error but FitErrors. Under it the argument is the baton. `Inv`
says that exactly one of five places may act: `Run`, an undelivered Added event, the scheduling
queue, the scheduler goroutine in hand of a pod, one binding goroutine (`Baton`); that every pod
is in exactly one of the queue, the pods on their way (`Flying`), the recorded ones
(`Conservation`, `NoDuplicates`); that stopping begins only on an empty queue and the report
equals the final status (`Ending`); and that a pod on its way is stored unassigned until its
binding goroutine has stored it (`StoredVerdict`). Each action either leaves the baton, moves it
to the next place (`MoveStep`), creates a pod (`PopStep`) or records one (`UpdateStep`,
`BindStoreStep`, `RecordStep`); `RecordRace` needs two batons and is impossible.

### Simulator: one pod, in every configuration

With retries there is no baton, and the argument is about one pod at a time (`PodInv`). A pod
that meets a scheduling error meets it every time (`SchedulingError`), so it never gets a host
(`NeverBound`): it may be refused, retried and listed again, but not bound. Any other pod is
never retried and waits in one place only (`WaitsOnce`). `Lifecycle` ties store, cache and status
of a pod to the place of its binding goroutine. From these follow that the pod about to be
assumed is not in the cache, that the report names the host in the store, and that a failed pod
stays unassigned.

The recorder is a count (`RecorderInv`): the events in the channel and those that binding
goroutines still owe (`Owing`) do not exceed the goroutines that drain. `RecorderCovered` alone
is not inductive, for a binding goroutine spawns the drain before it sends.

### Simulator: the cache

`CacheInv` says that no decision is taken before the cache holds the checkpoint (`Fresh` until
then, `Synced` afterwards), that a pod with a host is in the cache on that host whether or not the
store knows it yet, that the host chosen for a pod still fits when the pod is assumed, and that
what the cache has on a node is feasible there. The store is behind the cache, never ahead of it,
so what is bound on a node is a subset of what the cache has on it. Without retries the two are
equal when a pod is bound. With retries two pods may be on their way to one node and be bound in
either order, and the one bound first must fit without the other: that is `DownwardClosed`, true
of resources, ports and volumes, not of affinity between pods. Why a sleep too short and an
expired pod break the property is said under "What does not hold".

### Simulator: the refinement

The mapping is that of `Greedy` in `Simulator`: the decided pods are the recorded ones.
`OrderInv` says that pods are recorded in the order in which they leave the queue and that a
refusal was decided on all the nodes and on a cache that has not changed since. Then `Record` is
a placement (`RecordIsPlace`), `Update` a refusal (`UpdateIsRefuse`), the report the end of the
run (`ReportIsFinish`), and every other step changes nothing. The first decision needs care: the
nodes arrive one by one, and nothing but the sleep of `Run` holds the first pod back until then.

`RefusalIsJustified` is proved from the refinement alone, by induction over the steps of
`GreedyPlacement`. A refusal was right when it was made; a placement made afterwards only adds
to a node, and under `DownwardClosed` makes no room (`PlaceTakesRoom`). So a pod reported as
failed could not be added at the end either. Without `DownwardClosed` it could: a pod with an
affinity to a later one is refused first.

### WatchBuffer

`Inv` adds to `StreamIntact` and `EndMeansClosed` who holds the lock (`LockInv`), that a loop at
work has a Read waiting for it unless Close woke it (`PendingInv`), that it takes bytes only from
a buffer that has some (`LoopInv`), and that a writer past the check has an event to send
(`WriterInv`). The number of readers does not matter. It does for the lock: with one reader, loop
has no Read in hand while the reader asks (`AskInv`), so the Read that holds the lock while it
sends is received; `watch_two_readers` shows two readers block each other. `RefinesStream` splits
on the same actions: a Write appends a whole event, a reply takes a prefix, Close closes.

### RESTClient

`RespInv` says that `c.Resp` holds the youngest response and none of a call in progress is
younger: so a call may return another's response, but not an older one than its own. `WatchInv`
says that a watch is registered before its response is stored, hence whoever returns it. The
scope of what `Do` builds rests on lemmas about `Decode` for any path (`DecodeFacts`,
`ScopeOfPath`); that it still holds of the answer, after it has passed through `c.Resp` and
possibly to another call, is `ScopeInv`: each response, wherever it is, is in the scope of the
request of its maker while that maker has made no new call (`MadeFor`). With one caller the
response is its own (`SoleCallerGetsOwn`), hence in the scope of its own request
(`SoleCallerInScope`); `rest_mixup` shows that two callers break both.

### WatchRegistry

The list and any number of emitters write to the scheduler's watch without a common lock, so an
old version could come after a new one, or an event twice. For a pod that was not listed the
argument is about the events that can still be sent (`Unsent`): none of them is queued, and each is
newer than what the informer holds (`UnsentInv`). An emitter sends to the watch once, for the
watch is registered once (`SenderInv`). The order is causal: a pod is bound only after the
scheduler has been delivered it (`BoundSeen`), so a bound pod in the queue and a creation still to
be sent exclude each other. `ListInv` says that the list is taken once and holds only pods that
`inList` names.

### Review

What a sum over a list is for every list needs an induction, and an induction theorem with an
operator parameter cannot be used. The argument is the same with sets: a set of numbers that holds
0 and with k - 1 also k, up to n, holds 0..n (`InductionUpTo`), for else it would miss a least
one, and that the order on the naturals is well founded is a theorem without such a parameter.
A recursive function is a `CHOOSE`, so before its equation may be used some function must be shown
to satisfy it; that is an induction on the size of its domain (`RequestSteps`, `FlattenSteps`,
`SumExists`). A fold over a set picks its elements in an unknown order: `SumInAnyOrder` says
that any order gives the same sum.

`PlainRequest` is the result about `getResourceRequest`. Its invariant, along the containers, is
that a sum is a number or refers to a container that requests the resource, and that what it
amounts to is what the containers so far request. Plain containers are those where no decimal
follows another request for the resource: a decimal then meets an empty sum (`NothingYet`), and
adding the sum to it leaves it as it was (`AddPlain`).

`FilePods` says which pods a file asks for: entry i gives the pairs `<<i, k>>` with k from 1 to
its count, each once, and none if the count is not positive.

### Command

`HostedInv` says that the simulation starts from all pods that were read, and that what a node
has with a simulated pod on it it can host. That no stage is skipped (the checkpoint is stored
before the run) comes from lemmas about the two orders of calls (`CliOrder`, `SampleOrder`). The
pods that stayed on a node all the time are a subset of those read, hence `HostsFewer`.

For the tables the inductive invariant is `TableInv`, each part of it about one stretch of the
program. The order of the stages (`StageInv`). Nothing is there to simulate before the file is
read (`FileInv`). The lists of the status hold pods of their kind, refused ones without a host
and placed ones on nodes that were read (`ListInv`). Each pod the file asks for waits, is placed
or is refused, in one of these lists and once (`OnceInv`), and none waits when the report is made.
What a plain pod requests is what its file entry says, although each of the six steps of
`GetReport` may write to the requests of the pods it reviews (`RequestInv`, from `PlainRequest`).
Each review has one row per pod of its class, in the order of the status, with the sums of that
pod (`ReviewInv`). The printed tables are these, and `RowsMatchFile` and `RowsTellRequests` are
read off them. `RowsMatchFile` also counts the rows of the failed pods by their reason: all have the same
one, so the summary is a sum over a set with at most one element (`SumOfOne`).

`NoReportOfUnclaimed` is what can be proved of `EndsUnlessUnclaimed`: a pod the scheduler does not
take keeps waiting, so `RunEnds` is never enabled and the stages after it are never reached.

### Only model-checked

- The liveness properties: `Terminates`, `AllDelivered`, `CloseEnds`, `BlockedUntilChunk`,
  `CatchesUp`, `EveryWatchServed`, and the liveness part of `EndsUnlessUnclaimed`.
- The fairness part of `ImplementsGreedy` and of `ImplementsStream`.

Fairness and `ENABLED` are outside the prover's reach. Every invariant and every action property
of the runs that pass is also stated by a theorem.

## Not modelled

The scheduler's predicates and priorities (vendored; constants here), preemption, volume
binding and extenders; JSON encoding, beyond what it does to a quantity; the layout of the
printed tables. `SchedulerConfigLocal`'s policy branches: both programs name a provider.

Code that no code of the program calls: `resourceStore.Delete` and `Replace`,
`RESTClient.Close`, `NewResourceReflectors`, `specPrint`, `getMainFailReason`, `PrintPod` and
`GetMasterFromKubeConfig` of pkg/utils, the functions of pkg/main.go that read a checkpoint from
files or generate nodes (`anaCheckPoint`, `createSampleResource` and what they call), the `main`
at the end of watch.go, and the fake store of fake.go, whose methods a test fills in.

## State and plan

All components above are modelled. Every safety property of the passing runs, the steps of both
refinements, and the report for every pod file are proved; `PROJECT.json` lists the theorems.

What could be added, in this order:

1. The composition of `Command` with `Simulator`: `Place` and `Refuse` of `Command` are the steps
   of `GreedyPlacement`, so a refinement mapping could replace the argument given above under
   "Command" in words.
2. What `GetReport` prints for pods that are not plain: `report_desired` shows an instance, a
   theorem would give the sum for every list of containers.

--------------------------- MODULE SimulatorProofs ---------------------------
(***************************************************************************)
(* Proofs about Simulator, for every set of pods, nodes and checkpoint and *)
(* every capacity of the Recorder.                                         *)
(***************************************************************************)
EXTENDS SimulatorInv, SequenceTheorems, TLAPS

(* One step of the process: some action, with its thread or pod. *)
LEMMA StepCases ==
    ASSUME Next
    PROVE  \/ RunStart \/ RunFirst \/ RunEmpty \/ RunCloseStop \/ Report
           \/ Loop \/ TakePod \/ SelectHost \/ ScheduleFitError \/ ScheduleError
           \/ Assume \/ FailEvent \/ Update \/ Drain \/ Exit
           \/ \E t \in Threads : \/ NextPod(t) \/ NoPodsLeft(t) \/ Close(t)
                                 \/ SendStop(t) \/ SendOnClosedStop(t)
           \/ \E p \in Pods : \/ Bind(p) \/ Record(p) \/ BindEvent(p)
                              \/ \E q \in Pods : RecordRace(p, q)
           \/ \E n \in Nodes : NodeAdded(n)
           \/ \E p \in AllPods : AddPodToCache(p)
           \/ \E p \in Pods : \/ AddPodToSchedulingQueue(p)
                              \/ DeletePodFromSchedulingQueue(p)
                              \/ ExpireAssumedPod(p) \/ Retry(p)
BY DEF Next, Steps, RunStep, SchedStep, BindStep, Callback, Listener, Threads

(* A sequence without its last element. *)
LEMMA FrontFacts ==
    ASSUME NEW S, NEW s \in Seq(S), s # <<>>, NEW t, t = SubSeq(s, 1, Len(s) - 1)
    PROVE  /\ t \in Seq(S)
           /\ Len(t) = Len(s) - 1
           /\ DOMAIN t = 1..(Len(s) - 1)
           /\ \A i \in 1..(Len(s) - 1) : t[i] = s[i]
<1>1. Len(s) \in Nat /\ Len(s) >= 1
  BY EmptySeq
<1>2. \A i \in 1..(Len(s) - 1) : s[i] \in S
  BY <1>1
<1>3. 1 \in Int /\ Len(s) - 1 \in Int
  BY <1>1
<1>4. /\ t \in Seq(S)
      /\ Len(t) = IF 1 <= Len(s) - 1 THEN Len(s) - 1 - 1 + 1 ELSE 0
      /\ \A i \in 1..(Len(s) - 1 - 1 + 1) : t[i] = s[1 + i - 1]
  BY <1>2, <1>3, SubSeqProperties
<1>5. Len(t) = Len(s) - 1
  <2> DEFINE n == Len(s)
             m == Len(t)
  <2>1. n \in Nat /\ n >= 1 /\ m = IF 1 <= n - 1 THEN n - 1 - 1 + 1 ELSE 0
    BY <1>1, <1>4
  <2> HIDE DEF n, m
  <2>2. m = n - 1
    BY <2>1
  <2> QED
    BY <2>2 DEF n, m
<1>6. DOMAIN t = 1..Len(t)
  BY <1>4
<1>7. \A i \in 1..(Len(s) - 1) : t[i] = s[i]
  <2> DEFINE n == Len(s)
  <2>1. \A i \in 1..(n - 1) : i \in 1..(n - 1 - 1 + 1) /\ 1 + i - 1 = i
    BY <1>1
  <2> QED
    BY <2>1, <1>4
<1> QED
  BY <1>4, <1>5, <1>6, <1>7

(* PodQueue.Pop and resourceStore.Add: the popped pod leaves the queue,    *)
(* the rest of the queue is untouched.                                     *)
LEMMA PopFacts ==
    ASSUME TypeOK, QueueIsPrefix, PopIntoStore,
           NEW p, p = podQueue[Len(podQueue)]
    PROVE  /\ p \in Pods
           /\ Contains(podQueue, p)
           /\ podQueue' \in Seq(Pods)
           /\ QueueIsPrefix'
           /\ \A q \in Pods : Contains(podQueue', q) <=> Contains(podQueue, q) /\ q # p
           /\ store' = [store EXCEPT ![p] = Unassigned]
           /\ toQueue' = toQueue \cup {p}
<1> DEFINE k == Len(podQueue)
<1>1. /\ podQueue \in Seq(Pods) /\ podQueue # <<>>
      /\ podQueue' = SubSeq(podQueue, 1, k - 1)
  BY DEF TypeOK, PopIntoStore
<1>2. k \in Nat /\ k >= 1
  BY <1>1, EmptySeq
<1>3. p \in Pods /\ Contains(podQueue, p)
  BY <1>1, <1>2 DEF Contains
<1>4. /\ podQueue' \in Seq(Pods)
      /\ Len(podQueue') = k - 1
      /\ DOMAIN podQueue' = 1..(k - 1)
      /\ \A i \in 1..(k - 1) : podQueue'[i] = podQueue[i]
  BY <1>1, FrontFacts
<1>5. QueueIsPrefix'
  <2>1. \A i \in 1..(k - 1) : i \in DOMAIN podQueue
    BY <1>1, <1>2
  <2> QED
    BY <1>2, <1>4, <2>1, ConstantsAssumption DEF QueueIsPrefix
<1>6. \A i \in 1..k : podQueue[i] = p => i = k
  <2>1. \A i \in 1..k : podQueue[i] = NewPods[i] /\ i \in DOMAIN NewPods
    BY <1>1, <1>2, ConstantsAssumption DEF QueueIsPrefix
  <2>2. \A i, j \in DOMAIN NewPods : NewPods[i] = NewPods[j] => i = j
    BY ConstantsAssumption
  <2>3. p = podQueue[k] /\ k \in 1..k
    BY <1>2
  <2> QED
    BY <2>1, <2>2, <2>3
<1>7. \A q \in Pods : Contains(podQueue', q) <=> Contains(podQueue, q) /\ q # p
  <2>1. DOMAIN podQueue = 1..k /\ DOMAIN podQueue' = 1..(k - 1)
    BY <1>1, <1>4
  <2>2. p = podQueue[k]
    OBVIOUS
  <2>3. \A i \in 1..k : i \in 1..(k - 1) \/ i = k
    BY <1>2
  <2>4. \A i \in 1..(k - 1) : i \in 1..k /\ i # k
    BY <1>2
  <2> HIDE DEF k
  <2> QED
    BY <2>1, <2>2, <2>3, <2>4, <1>4, <1>6 DEF Contains
<1> QED
  BY <1>3, <1>4, <1>5, <1>7 DEF PopIntoStore

(* The parts of the assumption on the constants that typing needs. *)
LEMMA Constants ==
    /\ RecorderCap \in Nat
    /\ Sched \notin Pods
    /\ Absent \notin Nodes /\ Unassigned \notin Nodes /\ Absent # Unassigned
BY ConstantsAssumption DEF AllPods

(* Removing a pod from a queue. *)
LEMMA WithoutType ==
    ASSUME NEW S, NEW s \in Seq(S), NEW p
    PROVE  Without(s, p) \in Seq(S)
<1>1. CASE ~Contains(s, p)
  BY <1>1 DEF Without
<1>2. CASE Contains(s, p)
  <2> DEFINE i == CHOOSE j \in DOMAIN s : s[j] = p
             n == Len(s)
  <2>1. i \in 1..n /\ n \in Nat
    BY <1>2 DEF Contains
  <2>2. \A j \in 1..n : s[j] \in S
    OBVIOUS
  <2>3. Without(s, p) = SubSeq(s, 1, i - 1) \o SubSeq(s, i + 1, n)
    BY <1>2 DEF Without
  <2> HIDE DEF i, n
  <2>4. SubSeq(s, 1, i - 1) \in Seq(S)
    <3>1. /\ 1 \in Int /\ i - 1 \in Int /\ \A j \in 1..(i - 1) : s[j] \in S
      BY <2>1, <2>2
    <3> QED
      BY <3>1, SubSeqProperties
  <2>5. SubSeq(s, i + 1, n) \in Seq(S)
    <3>1. /\ i + 1 \in Int /\ n \in Int /\ \A j \in (i + 1)..n : s[j] \in S
      BY <2>1, <2>2
    <3> QED
      BY <3>1, SubSeqProperties
  <2> QED
    BY <2>3, <2>4, <2>5
<1> QED
  BY <1>1, <1>2

(* Every step preserves the types, in every configuration. *)
LEMMA TypeStep == TypeInv /\ [Next]_vars => TypeInv'
<1> SUFFICES ASSUME TypeInv, [Next]_vars PROVE TypeInv'
  OBVIOUS
<1> USE DEF TypeInv, TypeOK, InHand, SchedPc, BindPc, RunPc, Threads
<1>0. ASSUME PopIntoStore,
               UNCHANGED <<offQueue, toCache, nodesSeen, scheduler, recorder, status,
                           report, closed, panicked>>,
               run' \in RunPc, report # NoReport => run' = "reported",
               pc' \in [Threads -> SchedPc \cup BindPc],
               pc'[Sched] \in SchedPc, \A p \in Pods : pc'[p] \in BindPc,
               pc'[Sched] \in {"schedule", "assume", "fail", "update"} =>
                  pc'[Sched] = pc[Sched],
               \A p \in Pods : pc'[p] \in {"bind", "record"} => pc'[p] = pc[p]
        PROVE  TypeInv'
  <2> DEFINE p == podQueue[Len(podQueue)]
  <2>1. /\ p \in Pods
        /\ podQueue' \in Seq(Pods)
        /\ QueueIsPrefix'
        /\ \A q \in Pods : Contains(podQueue', q) <=> Contains(podQueue, q) /\ q # p
        /\ store' = [store EXCEPT ![p] = Unassigned]
        /\ toQueue' = toQueue \cup {p}
        /\ Contains(podQueue, p)
    BY <1>0, PopFacts
  <2> HIDE DEF p
  <2>2. store' \in Placement /\ toQueue' \subseteq Pods
    BY <2>1 DEF Placement, AllPods
  <2>3. \A q \in AllPods : q # p => store'[q] = store[q]
    BY <2>1 DEF Placement
  <2>4. store[p] = Absent
    BY <2>1 DEF Contains
  <2>5. \A q \in toCache' : store'[q] \in Nodes
    BY <2>3, <2>4, <1>0, Constants
  <2>6. \A i \in DOMAIN podQueue' : store'[podQueue'[i]] = Absent
    <3> SUFFICES ASSUME NEW i \in DOMAIN podQueue' PROVE store'[podQueue'[i]] = Absent
      OBVIOUS
    <3> DEFINE q == podQueue'[i]
    <3>1. q \in Pods
      BY <2>1
    <3>2. Contains(podQueue', q)
      BY DEF Contains
    <3>3. Contains(podQueue, q) /\ q # p
      BY <3>1, <3>2, <2>1
    <3>4. store[q] = Absent
      BY <3>3 DEF Contains
    <3> QED
      BY <3>1, <3>3, <3>4, <2>3 DEF AllPods
  <2>7. TypeOK'
    BY <2>1, <2>2, <1>0 DEF scheduler, recorder, status
  <2>8. InHand'
    BY <2>5, <2>6, <1>0 DEF scheduler, recorder, status
  <2> QED
    BY <2>1, <2>7, <2>8
<1>1. CASE RunStart
  BY <1>1 DEF RunStart, Goto, QueueIsPrefix, informers, scheduler, recorder, status
<1>2. CASE RunEmpty
  BY <1>2
    DEF RunEmpty, Goto, QueueIsPrefix, StopAndClose, informers, scheduler, recorder,
        status
<1>3. CASE RunCloseStop
  BY <1>3
    DEF RunCloseStop, Goto, QueueIsPrefix, informers, scheduler, recorder, status
<1>4. CASE Report
  BY <1>4 DEF Report, Goto, QueueIsPrefix, informers, scheduler, recorder, status
<1>5. CASE Loop
  BY <1>5 DEF Loop, Goto, QueueIsPrefix, informers, scheduler, recorder, status
<1>6. CASE TakePod
  BY <1>6 DEF TakePod, Goto, QueueIsPrefix, informers, scheduler, recorder, status
<1>7. CASE SelectHost
  BY <1>7
    DEF SelectHost, Goto, QueueIsPrefix, Fits, informers, scheduler, recorder,
        status
<1>8. CASE ScheduleFitError
  BY <1>8
    DEF ScheduleFitError, Goto, QueueIsPrefix, informers, scheduler, recorder,
        status
<1>9. CASE ScheduleError
  BY <1>9
    DEF ScheduleError, Goto, QueueIsPrefix, informers, scheduler, recorder, status
<1>10. CASE Assume
  BY <1>10
    DEF Assume, Goto, QueueIsPrefix, AllPods, informers, scheduler, recorder, status
<1>11. CASE FailEvent
  BY <1>11, Constants
    DEF FailEvent, Goto, QueueIsPrefix, informers, scheduler, recorder, status
<1>12. CASE Update
  BY <1>12 DEF Update, Goto, QueueIsPrefix, informers, scheduler, recorder, status
<1>13. CASE Drain
  BY <1>13, Constants
    DEF Drain, Goto, QueueIsPrefix, informers, scheduler, recorder, status
<1>14. CASE Exit
  BY <1>14
    DEF Exit, Goto, QueueIsPrefix, vars, informers, scheduler, recorder, status
<1>15. CASE RunFirst
  BY <1>15, <1>0 DEF RunFirst
<1>16. ASSUME NEW t \in Threads, NextPod(t) PROVE TypeInv'
  BY <1>16, <1>0, Constants DEF NextPod, Goto, AfterCallback
<1>17. ASSUME NEW t \in Threads, NoPodsLeft(t) PROVE TypeInv'
  BY <1>17, Constants
    DEF NoPodsLeft, Goto, AfterCallback, StopAndClose, QueueIsPrefix, informers,
        scheduler, recorder, status
<1>18. ASSUME NEW t \in Threads, Close(t) PROVE TypeInv'
  BY <1>18, Constants
    DEF Close, Goto, AfterCallback, StopAndClose, QueueIsPrefix, informers,
        scheduler, recorder, status
<1>19. ASSUME NEW t \in Threads, SendStop(t) PROVE TypeInv'
  BY <1>19, Constants
    DEF SendStop, Goto, AfterCallback, StopAndClose, QueueIsPrefix, informers,
        scheduler, recorder, status
<1>20. ASSUME NEW t \in Threads, SendOnClosedStop(t) PROVE TypeInv'
  BY <1>20, Constants
    DEF SendOnClosedStop, Goto, AfterCallback, StopAndClose, QueueIsPrefix,
        informers, scheduler, recorder, status
<1>21. ASSUME NEW p \in Pods, Bind(p) PROVE TypeInv'
  BY <1>21, Constants
    DEF Bind, Goto, WithPod, Entry, Placement, AllPods, QueueIsPrefix, informers,
        scheduler, recorder, status
<1>22. ASSUME NEW p \in Pods, Record(p) PROVE TypeInv'
  BY <1>22, Constants
    DEF Record, Goto, WithPod, Entry, Placement, AllPods, QueueIsPrefix, informers,
        scheduler, recorder, status
<1>23. ASSUME NEW p \in Pods, BindEvent(p) PROVE TypeInv'
  BY <1>23, Constants
    DEF BindEvent, Goto, WithPod, Entry, Placement, AllPods, QueueIsPrefix,
        informers, scheduler, recorder, status
<1>24. ASSUME NEW p \in Pods, AddPodToSchedulingQueue(p) PROVE TypeInv'
  BY <1>24, Constants
    DEF AddPodToSchedulingQueue, Goto, WithPod, Entry, Placement, AllPods,
        QueueIsPrefix, informers, scheduler, recorder, status
<1>25. ASSUME NEW p \in Pods, DeletePodFromSchedulingQueue(p) PROVE TypeInv'
  BY <1>25, WithoutType
    DEF DeletePodFromSchedulingQueue, QueueIsPrefix, informers, scheduler, recorder,
        status
<1>26. ASSUME NEW p \in Pods, ExpireAssumedPod(p) PROVE TypeInv'
  BY <1>26, Constants
    DEF ExpireAssumedPod, Goto, WithPod, Entry, Placement, AllPods, QueueIsPrefix,
        informers, scheduler, recorder, status
<1>27. ASSUME NEW p \in Pods, Retry(p) PROVE TypeInv'
  BY <1>27, Constants
    DEF Retry, Goto, WithPod, Entry, Placement, AllPods, QueueIsPrefix, informers,
        scheduler, recorder, status
<1>28. ASSUME NEW p \in Pods, NEW q \in Pods, RecordRace(p, q) PROVE TypeInv'
  <2>1. /\ pc' \in [Threads -> SchedPc \cup BindPc]
        /\ pc'[Sched] = pc[Sched]
        /\ \A x \in Pods : pc'[x] = pc[x] \/ pc'[x] = "next"
    BY <1>28, Constants DEF RecordRace
  <2>2. success' \in Seq(Entry) /\ drainers' \in Nat
    BY <1>28 DEF RecordRace, Entry
  <2>3. UNCHANGED <<podQueue, store, informers, scheduler, events, failed,
                    stopReason, closed, run, report, panicked>>
    BY <1>28 DEF RecordRace
  <2>4. TypeOK'
    BY <2>1, <2>2, <2>3 DEF informers, scheduler
  <2>5. QueueIsPrefix' /\ InHand'
    BY <2>1, <2>3 DEF QueueIsPrefix, informers, scheduler
  <2> QED
    BY <2>4, <2>5
<1>29. ASSUME NEW x \in Nodes, NodeAdded(x) PROVE TypeInv'
  BY <1>29 DEF NodeAdded, QueueIsPrefix, informers, scheduler, recorder, status
<1>30. ASSUME NEW p \in AllPods, AddPodToCache(p) PROVE TypeInv'
  BY <1>30 DEF AddPodToCache, QueueIsPrefix, informers, scheduler, recorder, status
<1>31. CASE UNCHANGED vars
  BY <1>31 DEF vars, QueueIsPrefix, informers, scheduler, recorder, status
<1> QED
  BY StepCases, <1>1, <1>2, <1>3, <1>4, <1>5, <1>6, <1>7, <1>8, <1>9, <1>10, <1>11,
     <1>12, <1>13, <1>14, <1>15, <1>16, <1>17, <1>18, <1>19, <1>20, <1>21, <1>22,
     <1>23, <1>24, <1>25, <1>26, <1>27, <1>28, <1>29, <1>30, <1>31

(* The initial states are well typed. *)
LEMMA TypeInit == Init => TypeInv
<1> SUFFICES ASSUME Init PROVE TypeInv
  OBVIOUS
<1> USE DEF Init
<1>1. TypeOK
  <2>1. store \in Placement
    <3>1. \A p \in AllPods : p \notin Pods => Checkpoint[p] \in Nodes
      BY ConstantsAssumption DEF AllPods
    <3> QED
      BY <3>1 DEF Placement
  <2>2. cache \in [AllPods -> Nodes \cup {Absent}] /\ toCache \subseteq AllPods
    BY DEF AllPods
  <2>3. /\ pc \in [Threads -> SchedPc \cup BindPc]
        /\ pc[Sched] \in SchedPc /\ \A p \in Pods : pc[p] \in BindPc
    BY Constants DEF Threads, SchedPc, BindPc
  <2>4. podQueue \in Seq(Pods)
    BY ConstantsAssumption
  <2>5. events \in 0..RecorderCap /\ drainers \in Nat
    BY Constants
  <2>6. success \in Seq(Entry) /\ failed \in Seq(Pods) /\ schedQ \in Seq(Pods)
    OBVIOUS
  <2>7. host \in [Pods -> Nodes \cup {Unassigned}]
    OBVIOUS
  <2>8. /\ toQueue \subseteq Pods /\ offQueue \subseteq Pods /\ nodesSeen \subseteq Nodes
        /\ assumed \subseteq Pods /\ retrying \subseteq Pods
        /\ current \in Pods \cup {Absent}
        /\ stopReason \in BOOLEAN /\ closed \in BOOLEAN /\ panicked \in BOOLEAN
        /\ run \in RunPc
        /\ report \in [success : Seq(Entry), failed : Seq(Pods)] \cup {NoReport}
    BY DEF RunPc
  <2> HIDE DEF Init
  <2> QED
    BY <2>1, <2>2, <2>3, <2>4, <2>5, <2>6, <2>7, <2>8 DEF TypeOK
<1>2. QueueIsPrefix
  BY ConstantsAssumption DEF QueueIsPrefix
<1>3. InHand
  BY ConstantsAssumption DEF InHand, AllPods, Threads
<1> QED
  BY <1>1, <1>2, <1>3 DEF TypeInv

(* Type correctness of the simulation, in every configuration: with and    *)
(* without retries, whatever the informers' delays.                        *)
THEOREM TypeCorrect == Spec => []TypeOK
<1>1. Spec => []TypeInv
  BY TypeInit, TypeStep, PTL DEF Spec
<1>2. TypeInv => TypeOK
  BY DEF TypeInv
<1> QED
  BY <1>1, <1>2, PTL

-----------------------------------------------------------------------------
(* The result lists name simulated pods. *)
LEMMA ListsOfPods ==
    ASSUME TypeOK
    PROVE  /\ \A i \in DOMAIN success : success[i].pod \in Pods
           /\ \A i \in DOMAIN failed : failed[i] \in Pods
<1>1. \A e \in Entry : e.pod \in Pods
  BY DEF Entry
<1>2. \A i \in DOMAIN success : success[i] \in Entry
  BY DEF TypeOK
<1>3. \A i \in DOMAIN failed : failed[i] \in Pods
  BY DEF TypeOK
<1> QED
  BY <1>1, <1>2, <1>3

(* A step that moves the pod on its way, and records nothing. *)
LEMMA Frame ==
    ASSUME Inv, TypeInv',
           UNCHANGED <<podQueue, store, success, failed>>,
           Flying' = Flying, offQueue' \subseteq offQueue,
           \A p \in Pods : pc'[p] = "record" <=> pc[p] = "record",
           \A p \in Pods : pc[p] = "record" => host'[p] = host[p]
    PROVE  Conservation' /\ NoDuplicates' /\ StoredVerdict' /\ OutcomeMatchesStore'
<1>1. Conservation'
  BY DEF Inv, Conservation, Contains, Recorded
<1>2. NoDuplicates'
  BY DEF Inv, NoDuplicates
<1>3. OutcomeMatchesStore'
  BY DEF Inv, OutcomeMatchesStore
<1>4. \A p \in Pods : Recorded(p)' <=> Recorded(p)
  BY DEF Recorded, Contains
<1>5. Flying \subseteq Pods
  BY DEF Flying, Inv, TypeInv, TypeOK
<1>6. StoredVerdict'
  BY <1>4, <1>5 DEF Inv, StoredVerdict, TypeInv, TypeOK
<1> QED
  BY <1>1, <1>2, <1>3, <1>6

(* Steps that leave the baton and the record of the pods alone or move the *)
(* baton on, when nothing is retried.                                      *)
LEMMA MoveStep ==
    ASSUME NoRetry, Inv, TypeInv',
           \/ RunStart \/ RunEmpty \/ RunCloseStop \/ Report
           \/ Loop \/ TakePod \/ SelectHost \/ ScheduleFitError \/ ScheduleError
           \/ Assume \/ FailEvent \/ Drain \/ UNCHANGED vars
           \/ \E t \in Threads : \/ NoPodsLeft(t) \/ Close(t)
                                 \/ SendStop(t) \/ SendOnClosedStop(t)
           \/ \E p \in Pods : BindEvent(p)
           \/ \E n \in Nodes : NodeAdded(n)
           \/ \E p \in AllPods : AddPodToCache(p)
           \/ \E p \in Pods : \/ AddPodToSchedulingQueue(p)
                              \/ DeletePodFromSchedulingQueue(p)
                              \/ ExpireAssumedPod(p) \/ Retry(p)
    PROVE  Inv'
<1> DEFINE Moved == /\ Baton' /\ Ending'
                    /\ UNCHANGED <<podQueue, store, success, failed>>
                    /\ Flying' = Flying /\ offQueue' \subseteq offQueue
                    /\ \A p \in Pods : pc'[p] = "record" <=> pc[p] = "record"
                    /\ \A p \in Pods : pc[p] = "record" => host'[p] = host[p]
<1>0. SUFFICES Moved
  BY Frame DEF Inv
<1>1. CASE RunStart
  BY <1>1, Constants
    DEF Inv, TypeInv, TypeOK, InHand, Threads, Baton, WithRun, WithEvent, WithQueue,
        WithSched, WithBinder, SchedFree, BindersFree, SchedBusy, BindBusy, Ending,
        Flying, Goto, RunStart, informers, scheduler, recorder, status
<1>2. CASE RunEmpty
  BY <1>2, Constants
    DEF Inv, TypeInv, TypeOK, InHand, Threads, Baton, WithRun, WithEvent, WithQueue,
        WithSched, WithBinder, SchedFree, BindersFree, SchedBusy, BindBusy, Ending,
        Flying, Goto, RunEmpty, StopAndClose, informers, scheduler, recorder, status
<1>3. CASE RunCloseStop
  BY <1>3, Constants
    DEF Inv, TypeInv, TypeOK, InHand, Threads, Baton, WithRun, WithEvent, WithQueue,
        WithSched, WithBinder, SchedFree, BindersFree, SchedBusy, BindBusy, Ending,
        Flying, Goto, RunCloseStop, informers, scheduler, recorder, status
<1>4. CASE Report
  BY <1>4, Constants
    DEF Inv, TypeInv, TypeOK, InHand, Threads, Baton, WithRun, WithEvent, WithQueue,
        WithSched, WithBinder, SchedFree, BindersFree, SchedBusy, BindBusy, Ending,
        Flying, Goto, Report, informers, scheduler, recorder, status
<1>5. CASE Loop
  BY <1>5, Constants
    DEF Inv, TypeInv, TypeOK, InHand, Threads, Baton, WithRun, WithEvent, WithQueue,
        WithSched, WithBinder, SchedFree, BindersFree, SchedBusy, BindBusy, Ending,
        Flying, Goto, Loop, informers, scheduler, recorder, status
<1>6. CASE TakePod
  BY <1>6, Constants
    DEF Inv, TypeInv, TypeOK, InHand, Threads, Baton, WithRun, WithEvent, WithQueue,
        WithSched, WithBinder, SchedFree, BindersFree, SchedBusy, BindBusy, Ending,
        Flying, Goto, TakePod, informers, scheduler, recorder, status
<1>7. CASE SelectHost
  BY <1>7, Constants
    DEF Inv, TypeInv, TypeOK, InHand, Threads, Baton, WithRun, WithEvent, WithQueue,
        WithSched, WithBinder, SchedFree, BindersFree, SchedBusy, BindBusy, Ending,
        Flying, Goto, SelectHost, Fits, informers, scheduler, recorder, status
<1>8. CASE ScheduleFitError
  BY <1>8, Constants
    DEF Inv, TypeInv, TypeOK, InHand, Threads, Baton, WithRun, WithEvent, WithQueue,
        WithSched, WithBinder, SchedFree, BindersFree, SchedBusy, BindBusy, Ending,
        Flying, Goto, ScheduleFitError, informers, scheduler, recorder, status
<1>9. CASE ScheduleError
  BY <1>9, Constants
    DEF Inv, TypeInv, TypeOK, InHand, Threads, Baton, WithRun, WithEvent, WithQueue,
        WithSched, WithBinder, SchedFree, BindersFree, SchedBusy, BindBusy, Ending,
        Flying, Goto, ScheduleError, NoRetry, SchedulingError, informers, scheduler,
        recorder, status
<1>10. CASE Assume
  <2>1. /\ WithSched /\ current \in Pods /\ pc[Sched] = "assume"
        /\ pc' = [pc EXCEPT ![Sched] = "loop", ![current] = "bind"]
        /\ UNCHANGED <<podQueue, store, toQueue, offQueue, schedQ, current, host, retrying,
                       success, failed, closed, run, report, panicked>>
    BY <1>10
      DEF Assume, Inv, TypeInv, InHand, Baton, WithRun, WithEvent, WithQueue,
          WithSched, WithBinder, SchedFree, SchedBusy, informers, status
  <2>2. /\ pc'[Sched] = "loop" /\ pc'[current] = "bind"
        /\ \A q \in Pods \ {current} : pc'[q] = pc[q]
    BY <2>1, Constants DEF Inv, TypeInv, TypeOK, Threads
  <2>3. \A q \in Pods : pc[q] \notin BindBusy
    BY <2>1 DEF WithSched, BindersFree
  <2>4. Baton'
    BY <2>1, <2>2, <2>3
      DEF Baton, WithSched, WithBinder, SchedFree, SchedBusy, BindBusy
  <2>5. Flying' = Flying
    <3>1. Flying = {current}
      BY <2>1, <2>3 DEF Flying, WithSched, BindBusy
    <3>2. \A q \in Pods : pc'[q] \in {"bind", "record"} <=> q = current
      BY <2>2, <2>3 DEF BindBusy
    <3>3. toQueue' = {} /\ schedQ' = <<>> /\ current \in Pods
      BY <2>1 DEF WithSched
    <3>4. pc'[Sched] \notin {"schedule", "assume", "fail", "update"}
      BY <2>2
    <3>5. Flying' = {current}
      BY <3>2, <3>3, <3>4 DEF Flying
    <3> QED
      BY <3>1, <3>5
  <2>6. ~closed
    BY <2>1, <2>3 DEF Inv, Ending, WithSched, Threads, BindBusy
  <2>7. Ending'
    BY <2>1, <2>2, <2>6 DEF Inv, Ending, Threads
  <2> QED
    BY <2>1, <2>2, <2>3, <2>4, <2>5, <2>7 DEF BindBusy
<1>11. CASE FailEvent
  BY <1>11, Constants
    DEF Inv, TypeInv, TypeOK, InHand, Threads, Baton, WithRun, WithEvent, WithQueue,
        WithSched, WithBinder, SchedFree, BindersFree, SchedBusy, BindBusy, Ending,
        Flying, Goto, FailEvent, informers, scheduler, recorder, status
<1>12. CASE Drain
  BY <1>12, Constants
    DEF Inv, TypeInv, TypeOK, InHand, Threads, Baton, WithRun, WithEvent, WithQueue,
        WithSched, WithBinder, SchedFree, BindersFree, SchedBusy, BindBusy, Ending,
        Flying, Goto, Drain, informers, scheduler, recorder, status
<1>13. CASE UNCHANGED vars
  BY <1>13, Constants
    DEF Inv, TypeInv, TypeOK, InHand, Threads, Baton, WithRun, WithEvent, WithQueue,
        WithSched, WithBinder, SchedFree, BindersFree, SchedBusy, BindBusy, Ending,
        Flying, Goto, vars, informers, scheduler, recorder, status
<1>14. ASSUME NEW t \in Threads, NoPodsLeft(t) PROVE Moved
  BY <1>14, Constants
    DEF Inv, TypeInv, TypeOK, InHand, Threads, Baton, WithRun, WithEvent, WithQueue,
        WithSched, WithBinder, SchedFree, BindersFree, SchedBusy, BindBusy, Ending,
        Flying, Goto, NoPodsLeft, AfterCallback, StopAndClose, informers, scheduler,
        recorder, status
<1>15. ASSUME NEW t \in Threads, Close(t) PROVE Moved
  BY <1>15, Constants
    DEF Inv, TypeInv, TypeOK, InHand, Threads, Baton, WithRun, WithEvent, WithQueue,
        WithSched, WithBinder, SchedFree, BindersFree, SchedBusy, BindBusy, Ending,
        Flying, Goto, Close, AfterCallback, StopAndClose, informers, scheduler,
        recorder, status
<1>16. ASSUME NEW t \in Threads, SendStop(t) PROVE Moved
  BY <1>16, Constants
    DEF Inv, TypeInv, TypeOK, InHand, Threads, Baton, WithRun, WithEvent, WithQueue,
        WithSched, WithBinder, SchedFree, BindersFree, SchedBusy, BindBusy, Ending,
        Flying, Goto, SendStop, AfterCallback, StopAndClose, informers, scheduler,
        recorder, status
<1>17. ASSUME NEW t \in Threads, SendOnClosedStop(t) PROVE Moved
  BY <1>17, Constants
    DEF Inv, TypeInv, TypeOK, InHand, Threads, Baton, WithRun, WithEvent, WithQueue,
        WithSched, WithBinder, SchedFree, BindersFree, SchedBusy, BindBusy, Ending,
        Flying, Goto, SendOnClosedStop, AfterCallback, StopAndClose, informers,
        scheduler, recorder, status
<1>18. ASSUME NEW p \in Pods, BindEvent(p) PROVE Moved
  BY <1>18, Constants
    DEF Inv, TypeInv, TypeOK, InHand, Threads, Baton, WithRun, WithEvent, WithQueue,
        WithSched, WithBinder, SchedFree, BindersFree, SchedBusy, BindBusy, Ending,
        Flying, Goto, BindEvent, informers, scheduler, recorder, status
<1>19. ASSUME NEW x \in Nodes, NodeAdded(x) PROVE Moved
  BY <1>19, Constants
    DEF Inv, TypeInv, TypeOK, InHand, Threads, Baton, WithRun, WithEvent, WithQueue,
        WithSched, WithBinder, SchedFree, BindersFree, SchedBusy, BindBusy, Ending,
        Flying, Goto, NodeAdded, informers, scheduler, recorder, status
<1>20. ASSUME NEW p \in AllPods, AddPodToCache(p) PROVE Moved
  BY <1>20, Constants
    DEF Inv, TypeInv, TypeOK, InHand, Threads, Baton, WithRun, WithEvent, WithQueue,
        WithSched, WithBinder, SchedFree, BindersFree, SchedBusy, BindBusy, Ending,
        Flying, Goto, AddPodToCache, informers, scheduler, recorder, status
<1>21. ASSUME NEW p \in Pods, AddPodToSchedulingQueue(p) PROVE Moved
  <2>1. /\ WithEvent /\ toQueue = {p}
    BY <1>21
      DEF Inv, Baton, WithRun, WithEvent, WithQueue, WithSched, WithBinder,
          AddPodToSchedulingQueue
  <2>2. schedQ' = <<p>> /\ toQueue' = {}
    BY <1>21, <2>1 DEF AddPodToSchedulingQueue, WithPod, Contains, WithEvent
  <2>3. UNCHANGED <<podQueue, store, offQueue, current, host, retrying, pc, success,
                    failed, stopReason, closed, run, report, panicked>>
    BY <1>21 DEF AddPodToSchedulingQueue, status
  <2>4. Baton'
    BY <2>1, <2>2, <2>3 DEF Baton, WithEvent, WithQueue, SchedFree, BindersFree
  <2>5. Flying' = Flying
    BY <2>1, <2>2, <2>3 DEF Flying, WithEvent
  <2>6. Ending'
    BY <2>3 DEF Inv, Ending
  <2> QED
    BY <2>3, <2>4, <2>5, <2>6
<1>22. ASSUME NEW p \in Pods, DeletePodFromSchedulingQueue(p) PROVE Moved
  <2>1. ~Contains(schedQ, p)
    <3>1. ASSUME Contains(schedQ, p) PROVE FALSE
      <4>1. p \in Flying
        BY <3>1 DEF Contains, Flying
      <4>2. pc[p] = "record"
        BY <1>22, <4>1
          DEF DeletePodFromSchedulingQueue, Inv, StoredVerdict, Conservation
      <4>3. schedQ = <<>>
        BY <4>2
          DEF Inv, Baton, WithRun, WithEvent, WithQueue, WithSched, WithBinder,
              BindersFree, BindBusy
      <4> QED
        BY <3>1, <4>3 DEF Contains
    <3> QED
      BY <3>1
  <2>2. UNCHANGED <<podQueue, store, toQueue, schedQ, current, host, retrying, pc, success,
                    failed, stopReason, closed, run, report, panicked>>
    BY <1>22, <2>1 DEF DeletePodFromSchedulingQueue, Without, status
  <2>3. Baton'
    BY <2>2
      DEF Inv, Baton, WithRun, WithEvent, WithQueue, WithSched, WithBinder,
          SchedFree, BindersFree
  <2>4. Flying' = Flying
    BY <2>2 DEF Flying
  <2>5. Ending' /\ offQueue' \subseteq offQueue
    BY <1>22, <2>2 DEF Inv, Ending, DeletePodFromSchedulingQueue
  <2> QED
    BY <2>2, <2>3, <2>4, <2>5
<1>23. ASSUME NEW p \in Pods, ExpireAssumedPod(p) PROVE Moved
  BY <1>23, Constants
    DEF Inv, TypeInv, TypeOK, InHand, Threads, Baton, WithRun, WithEvent, WithQueue,
        WithSched, WithBinder, SchedFree, BindersFree, SchedBusy, BindBusy, Ending,
        Flying, Goto, ExpireAssumedPod, informers, scheduler, recorder, status
<1>24. ASSUME NEW p \in Pods, Retry(p) PROVE Moved
  BY <1>24, Constants
    DEF Inv, TypeInv, TypeOK, InHand, Threads, Baton, WithRun, WithEvent, WithQueue,
        WithSched, WithBinder, SchedFree, BindersFree, SchedBusy, BindBusy, Ending,
        Flying, Goto, Retry, NoRetry, informers, scheduler, recorder, status
<1> QED
  BY <1>1, <1>2, <1>3, <1>4, <1>5, <1>6, <1>7, <1>8, <1>9, <1>10, <1>11, <1>12,
     <1>13, <1>14, <1>15, <1>16, <1>17, <1>18, <1>19, <1>20, <1>21, <1>22, <1>23,
     <1>24

(* The next pod is created: the baton goes to its Added event. *)
LEMMA PopStep ==
    ASSUME NoRetry, Inv, TypeInv',
           RunFirst \/ \E t \in Threads : NextPod(t)
    PROVE  Inv'
<1> DEFINE p == podQueue[Len(podQueue)]
<1>1. PopIntoStore
  BY DEF RunFirst, NextPod
<1>2. /\ p \in Pods /\ Contains(podQueue, p)
      /\ \A q \in Pods : Contains(podQueue', q) <=> Contains(podQueue, q) /\ q # p
      /\ store' = [store EXCEPT ![p] = Unassigned]
      /\ toQueue' = toQueue \cup {p}
  BY <1>1, PopFacts DEF Inv, TypeInv
<1> HIDE DEF p
<1>3. UNCHANGED <<offQueue, schedQ, current, host, retrying, success, failed,
                  closed, report, panicked>>
  BY DEF RunFirst, NextPod, scheduler, status
<1> DEFINE Quiet == /\ toQueue = {} /\ schedQ = <<>> /\ run' = "wait"
                    /\ SchedFree' /\ BindersFree'
                    /\ \A q \in Pods : pc'[q] \notin {"bind", "record"}
                    /\ pc'[Sched] \notin SchedBusy
                    /\ \A q \in Pods : pc[q] \notin {"bind", "record"}
                    /\ pc[Sched] \notin {"schedule", "assume", "fail", "update"}
<1>4. Quiet
  <2> USE Constants DEF Inv, TypeInv, TypeOK, Threads, Baton, WithRun, WithEvent, WithQueue,
      WithSched, WithBinder, SchedFree, BindersFree, SchedBusy, BindBusy
  <2>1. CASE RunFirst
    BY <2>1 DEF RunFirst
  <2>2. ASSUME NEW t \in Threads, NextPod(t), t # Sched PROVE Quiet
    BY <2>2 DEF NextPod, Goto, AfterCallback
  <2>3. CASE NextPod(Sched)
    BY <2>3 DEF NextPod, Goto, AfterCallback
  <2> QED
    BY <2>1, <2>2, <2>3
<1>5. Flying = {} /\ Flying' = {p}
  BY <1>2, <1>3, <1>4 DEF Flying, SchedBusy
<1>6. Baton'
  BY <1>2, <1>3, <1>4 DEF Baton, WithEvent
<1>7. \A q \in Pods : Recorded(q)' <=> Recorded(q)
  BY <1>3 DEF Recorded, Contains
<1>8. \A q \in AllPods : q # p => store'[q] = store[q]
  BY <1>2 DEF Inv, TypeInv, TypeOK, Placement
<1>9. store'[p] = Unassigned /\ Pods \subseteq AllPods
  BY <1>2 DEF Inv, TypeInv, TypeOK, Placement, AllPods
<1>10. Conservation'
  BY <1>2, <1>5, <1>7, <1>8, <1>9, Constants DEF Inv, Conservation
<1>11. ~Recorded(p)
  BY <1>2 DEF Inv, Conservation
<1>12. OutcomeMatchesStore'
  <2>1. /\ \A i \in DOMAIN success : success[i].pod \in Pods /\ success[i].pod # p
        /\ \A i \in DOMAIN failed : failed[i] \in Pods /\ failed[i] # p
    BY <1>11, ListsOfPods DEF Recorded, Contains, Inv, TypeInv
  <2> QED
    BY <2>1, <1>3, <1>8, <1>9 DEF Inv, OutcomeMatchesStore
<1>13. StoredVerdict'
  BY <1>3, <1>4, <1>5, <1>7, <1>9 DEF Inv, StoredVerdict, TypeInv, TypeOK
<1>14. Ending'
  BY <1>3, <1>4, <1>1, Constants
    DEF Inv, Ending, SchedFree, BindersFree, SchedBusy, BindBusy, Threads,
        PopIntoStore
<1>15. NoDuplicates'
  BY <1>3 DEF Inv, NoDuplicates
<1> QED
  BY <1>6, <1>10, <1>12, <1>13, <1>14, <1>15 DEF Inv

(* ClusterCapacity.Update records the pod in hand as failed. *)
LEMMA UpdateStep ==
    ASSUME Inv, TypeInv', Update
    PROVE  Inv'
<1>1. /\ WithSched /\ current \in Pods /\ pc[Sched] = "update"
      /\ failed' = Append(failed, current)
      /\ pc' = [pc EXCEPT ![Sched] = "next"]
      /\ UNCHANGED <<podQueue, store, offQueue, toQueue, schedQ, current, host, retrying,
                     success, closed, run, report, panicked>>
  BY
    DEF Update, Goto, Inv, TypeInv, InHand, Baton, WithRun, WithEvent, WithQueue,
        WithSched, WithBinder, SchedFree, SchedBusy, informers, scheduler
<1>2. /\ pc'[Sched] = "next"
      /\ \A q \in Pods : pc'[q] = pc[q]
  BY <1>1, Constants DEF Inv, TypeInv, TypeOK, Threads
<1>3. Flying = {current} /\ Flying' = {}
  BY <1>1, <1>2 DEF Flying, WithSched, BindersFree, BindBusy
<1>4. failed \in Seq(Pods) /\ success \in Seq(Entry)
  BY DEF Inv, TypeInv, TypeOK
<1>5. \A q : Contains(failed', q) <=> Contains(failed, q) \/ q = current
  BY <1>1, <1>4 DEF Contains
<1>6. \A q \in Pods : Recorded(q)' <=> Recorded(q) \/ q = current
  BY <1>1, <1>5 DEF Recorded
<1>7. ~Recorded(current) /\ store[current] = Unassigned
  BY <1>1, <1>3
    DEF Inv, Conservation, StoredVerdict, WithSched, BindersFree, BindBusy
<1>8. Baton'
  BY <1>1, <1>2 DEF Baton, WithSched, BindersFree, SchedBusy
<1>9. Conservation'
  <2>1. \A q \in Pods : Contains(podQueue', q) <=> Contains(podQueue, q)
    BY <1>1 DEF Contains
  <2>2. ~Contains(podQueue, current)
    BY <1>1, <1>3 DEF Inv, Conservation
  <2> QED
    BY <1>1, <1>3, <1>6, <2>1, <2>2 DEF Inv, Conservation
<1>10. NoDuplicates'
  <2>1. /\ \A i \in DOMAIN failed : failed[i] # current
        /\ \A i \in DOMAIN success : success[i].pod # current
    BY <1>7 DEF Recorded, Contains
  <2> QED
    BY <1>1, <1>4, <2>1 DEF Inv, NoDuplicates
<1>11. OutcomeMatchesStore'
  BY <1>1, <1>4, <1>7 DEF Inv, OutcomeMatchesStore
<1>12. StoredVerdict'
  BY <1>1, <1>2, <1>3, <1>6 DEF Inv, StoredVerdict, TypeInv, TypeOK
<1>13. Ending'
  BY <1>1, <1>2, Constants DEF Inv, Ending, WithSched, Threads, TypeInv, InHand
<1> QED
  BY <1>8, <1>9, <1>10, <1>11, <1>12, <1>13 DEF Inv

(* The binding goroutine of p has the baton. *)
LEMMA BinderHolds ==
    ASSUME Inv, NEW p \in Pods, pc[p] \in BindBusy
    PROVE  /\ run = "wait" /\ toQueue = {} /\ schedQ = <<>> /\ SchedFree
           /\ \A q \in Pods \ {p} : pc[q] \notin BindBusy
BY DEF Inv, Baton, WithRun, WithEvent, WithQueue, WithSched, WithBinder, BindersFree

(* Bind stores the pod on its host ... *)
LEMMA BindStoreStep ==
    ASSUME Inv, TypeInv', NEW p \in Pods, Bind(p)
    PROVE  Inv'
<1>1. /\ pc[p] = "bind"
      /\ store' = [store EXCEPT ![p] = host[p]]
      /\ offQueue' = offQueue \cup {p}
      /\ pc' = [pc EXCEPT ![p] = "record"]
      /\ UNCHANGED <<podQueue, toQueue, schedQ, current, host, retrying, success, failed,
                     closed, run, report, panicked>>
  BY DEF Bind, Goto, scheduler, status
<1>2. /\ run = "wait" /\ toQueue = {} /\ schedQ = <<>> /\ SchedFree
      /\ \A q \in Pods \ {p} : pc[q] \notin BindBusy
  BY <1>1, BinderHolds DEF BindBusy
<1>3. /\ pc'[p] = "record" /\ pc'[Sched] = pc[Sched]
      /\ \A q \in Pods \ {p} : pc'[q] = pc[q]
  BY <1>1, Constants DEF Inv, TypeInv, TypeOK, Threads
<1>4. Flying = {p} /\ Flying' = {p}
  BY <1>1, <1>2, <1>3 DEF Flying, SchedFree, SchedBusy, BindBusy
<1>5. /\ store'[p] = host[p] /\ host[p] \in Nodes
      /\ \A q \in AllPods \ {p} : store'[q] = store[q]
      /\ Pods \subseteq AllPods
  BY <1>1 DEF Inv, TypeInv, TypeOK, InHand, Placement, AllPods
<1>6. \A q \in Pods : /\ Recorded(q)' <=> Recorded(q)
                      /\ Contains(podQueue', q) <=> Contains(podQueue, q)
  BY <1>1 DEF Recorded, Contains
<1>7. ~Recorded(p) /\ ~Contains(podQueue, p)
  BY <1>4 DEF Inv, Conservation
<1>8. Baton'
  BY <1>1, <1>2, <1>3 DEF Baton, WithBinder, SchedFree, BindBusy
<1>9. Conservation'
  BY <1>4, <1>5, <1>6, <1>7, Constants DEF Inv, Conservation
<1>10. OutcomeMatchesStore'
  <2>1. /\ \A i \in DOMAIN success : success[i].pod # p
        /\ \A i \in DOMAIN failed : failed[i] # p
    BY <1>7 DEF Recorded, Contains
  <2>2. /\ \A i \in DOMAIN success : success[i].pod \in Pods
        /\ \A i \in DOMAIN failed : failed[i] \in Pods
    BY ListsOfPods DEF Inv, TypeInv
  <2> QED
    BY <2>1, <2>2, <1>1, <1>5 DEF Inv, OutcomeMatchesStore
<1>11. StoredVerdict'
  BY <1>1, <1>2, <1>3, <1>4, <1>5, <1>6
    DEF Inv, StoredVerdict, TypeInv, TypeOK, BindBusy
<1>12. NoDuplicates'
  BY <1>1 DEF Inv, NoDuplicates
<1>13. Ending'
  BY <1>1, <1>3, Constants DEF Inv, Ending, Threads
<1> QED
  BY <1>8, <1>9, <1>10, <1>11, <1>12, <1>13 DEF Inv

(* ... and records it there. *)
LEMMA RecordStep ==
    ASSUME Inv, TypeInv', NEW p \in Pods, Record(p)
    PROVE  Inv'
<1> DEFINE e == [pod |-> p, host |-> host[p]]
<1>1. /\ pc[p] = "record"
      /\ success' = Append(success, e)
      /\ pc' = [pc EXCEPT ![p] = "next"]
      /\ UNCHANGED <<podQueue, store, offQueue, toQueue, schedQ, current, host, retrying,
                     failed, closed, run, report, panicked>>
  BY DEF Record, Goto, informers, scheduler
<1>2. /\ run = "wait" /\ toQueue = {} /\ schedQ = <<>> /\ SchedFree
      /\ \A q \in Pods \ {p} : pc[q] \notin BindBusy
  BY <1>1, BinderHolds DEF BindBusy
<1>3. /\ pc'[p] = "next" /\ pc'[Sched] = pc[Sched]
      /\ \A q \in Pods \ {p} : pc'[q] = pc[q]
  BY <1>1, Constants DEF Inv, TypeInv, TypeOK, Threads
<1>4. Flying = {p} /\ Flying' = {}
  BY <1>1, <1>2, <1>3 DEF Flying, SchedFree, SchedBusy, BindBusy
<1>5. e.pod = p /\ e.host = host[p] /\ store[p] = host[p]
  BY <1>1 DEF Inv, StoredVerdict
<1> HIDE DEF e
<1>6. /\ Len(success) \in Nat
      /\ DOMAIN success = 1..Len(success)
      /\ DOMAIN success' = 1..(Len(success) + 1)
      /\ \A i \in 1..Len(success) : success'[i] = success[i]
      /\ success'[Len(success) + 1] = e
  BY <1>1 DEF Inv, TypeInv, TypeOK
<1>7. \A q : (\E i \in DOMAIN success' : success'[i].pod = q)
             <=> (\E i \in DOMAIN success : success[i].pod = q) \/ q = p
  BY <1>5, <1>6
<1>8. \A q \in Pods : /\ Recorded(q)' <=> Recorded(q) \/ q = p
                      /\ Contains(podQueue', q) <=> Contains(podQueue, q)
  BY <1>1, <1>7 DEF Recorded, Contains
<1>9. ~Recorded(p) /\ ~Contains(podQueue, p)
  BY <1>4 DEF Inv, Conservation
<1>10. Baton'
  BY <1>1, <1>2, <1>3 DEF Baton, WithBinder, SchedFree, BindBusy
<1>11. Conservation'
  BY <1>1, <1>4, <1>8, <1>9 DEF Inv, Conservation
<1>12. NoDuplicates'
  <2>1. /\ \A i \in DOMAIN failed : failed[i] # p
        /\ \A i \in DOMAIN success : success[i].pod # p
    BY <1>9 DEF Recorded, Contains
  <2>2. \A i \in DOMAIN success' : \/ i \in DOMAIN success /\ success'[i] = success[i]
                                   \/ i = Len(success) + 1 /\ success'[i].pod = p
    BY <1>5, <1>6
  <2> QED
    BY <1>1, <2>1, <2>2 DEF Inv, NoDuplicates
<1>13. OutcomeMatchesStore'
  <2>1. \A i \in DOMAIN success' : \/ i \in DOMAIN success /\ success'[i] = success[i]
                                   \/ success'[i] = e
    BY <1>6
  <2> QED
    BY <1>1, <1>5, <2>1 DEF Inv, OutcomeMatchesStore
<1>14. StoredVerdict'
  BY <1>1, <1>2, <1>3, <1>4, <1>8 DEF Inv, StoredVerdict, TypeInv, TypeOK, BindBusy
<1>15. Ending'
  BY <1>1, <1>2, <1>3, Constants DEF Inv, Ending, Threads, TypeInv, InHand
<1> QED
  BY <1>10, <1>11, <1>12, <1>13, <1>14, <1>15 DEF Inv

(* Every step preserves the inductive invariant, action by action through  *)
(* the lemmas above.                                                       *)
LEMMA InvStep == NoRetry /\ Inv /\ [Next]_vars => Inv'
<1> SUFFICES ASSUME NoRetry, Inv, [Next]_vars PROVE Inv'
  OBVIOUS
<1>1. TypeInv'
  BY TypeStep DEF Inv
<1>2. ASSUME NEW p \in Pods, NEW q \in Pods, RecordRace(p, q) PROVE FALSE
  BY <1>2, BinderHolds DEF RecordRace, BindBusy
<1>3. Exit => UNCHANGED vars
  BY DEF Exit
<1> QED
  BY <1>1, <1>2, <1>3, StepCases, MoveStep, PopStep, UpdateStep, BindStoreStep,
     RecordStep

(* New hands the baton to Run, with every pod in the queue. *)
LEMMA InvInit == Init => Inv
<1> SUFFICES ASSUME Init PROVE Inv
  OBVIOUS
<1>1. TypeInv
  BY TypeInit
<1>2. Baton
  BY Constants
    DEF Init, Baton, WithRun, SchedFree, BindersFree, SchedBusy, BindBusy, Threads
<1>3. Flying = {}
  BY Constants DEF Init, Flying, Threads
<1>4. Conservation
  <2>1. \A p \in Pods : Contains(podQueue, p) /\ store[p] = Absent /\ ~Recorded(p)
    BY ConstantsAssumption DEF Init, Contains, Recorded, AllPods
  <2> QED
    BY <2>1, <1>3 DEF Conservation
<1>5. NoDuplicates /\ OutcomeMatchesStore
  BY DEF Init, NoDuplicates, OutcomeMatchesStore
<1>6. Ending
  BY Constants DEF Init, Ending, Threads
<1>7. StoredVerdict
  BY <1>3, Constants DEF Init, StoredVerdict, Threads
<1> QED
  BY <1>1, <1>2, <1>4, <1>5, <1>6, <1>7 DEF Inv

-----------------------------------------------------------------------------
(* The invariant the theorems below are drawn from. *)
LEMMA Invariance == ASSUME NoRetry PROVE Spec => []Inv
<1>1. Init => Inv
  BY InvInit
<1>2. Inv /\ [Next]_vars => Inv'
  BY InvStep
<1> QED
  BY <1>1, <1>2, PTL DEF Spec

(* The place that holds the baton has at most one pod on its way. *)
LEMMA FlyingAtMostOne ==
    ASSUME Inv PROVE \A p, q \in Flying : p = q
BY
  DEF Inv, Baton, WithRun, WithEvent, WithQueue, WithSched, WithBinder, SchedFree,
      BindersFree, SchedBusy, BindBusy, Flying

(* Without retries at most one pod is between nextPod and its verdict.     *)
THEOREM OneAtATime == ASSUME NoRetry PROVE Spec => []SingleFlight
<1>1. Inv => SingleFlight
  <2> SUFFICES ASSUME Inv PROVE SingleFlight
    OBVIOUS
  <2>1. \A p \in Pods : store[p] # Absent /\ ~Recorded(p) => p \in Flying
    BY DEF Inv, Conservation
  <2> QED
    BY <2>1, FlyingAtMostOne DEF SingleFlight
<1> QED
  BY <1>1, Invariance, PTL

(* Without retries the unlocked status is never accessed by two goroutines *)
(* at once, nor read for the report while it is written.                   *)
THEOREM RaceFree == ASSUME NoRetry PROVE Spec => []StatusRaceFree
<1>1. Inv => StatusRaceFree
  <2> SUFFICES ASSUME Inv PROVE StatusRaceFree
    OBVIOUS
  <2>1. \A t \in Critical : \/ t = Sched /\ pc[Sched] \in SchedBusy
                            \/ t \in Pods /\ pc[t] \in BindBusy
    BY
      DEF Critical, Threads, Inv, TypeInv, TypeOK, SchedPc, BindPc, SchedBusy,
          BindBusy
  <2> QED
    BY <2>1
      DEF Inv, StatusRaceFree, Baton, WithRun, WithEvent, WithQueue, WithSched,
          WithBinder, SchedFree, BindersFree
<1> QED
  BY <1>1, Invariance, PTL

(* Without retries `stop` has one sender, and no sender is left behind.    *)
THEOREM StopsOnce == ASSUME NoRetry PROVE Spec => []StopSentOnce
<1>1. Inv => StopSentOnce
  BY
    DEF Inv, StopSentOnce, Ending, Baton, WithRun, WithEvent, WithQueue, WithSched,
        WithBinder, SchedFree, BindersFree, SchedBusy, BindBusy, Threads
<1> QED
  BY <1>1, Invariance, PTL

(* Without retries nothing is stored once Close has been called, so no     *)
(* watch event is emitted while the watches are being closed.              *)
THEOREM QuietAfterClose == ASSUME NoRetry PROVE Spec => CloseQuiesces
<1>1. Inv /\ [Next]_vars => [closed => store' = store]_vars
  <2> SUFFICES ASSUME Inv, [Next]_vars, closed PROVE store' = store
    OBVIOUS
  <2>1. ~PopIntoStore
    BY DEF Inv, Ending, PopIntoStore
  <2>2. ASSUME NEW p \in Pods, Bind(p) PROVE FALSE
    <3>1. pc[p] = "bind" /\ \E t \in Threads : pc[t] = "send"
      BY <2>2, BinderHolds DEF Bind, BindBusy, Inv, Ending
    <3> QED
      BY <3>1, BinderHolds DEF BindBusy, SchedFree, SchedBusy, Threads
  <2>3. CASE UNCHANGED vars
    BY <2>3 DEF vars
  <2>4. CASE Next
    BY <2>1, <2>2, <2>4, StepCases
      DEF RunStart, RunFirst, RunEmpty, RunCloseStop, Report, Loop, TakePod,
          SelectHost, ScheduleFitError, ScheduleError, Assume, FailEvent, Update,
          Drain, Exit, vars, NextPod, NoPodsLeft, Close, SendStop, SendOnClosedStop,
          Record, BindEvent, RecordRace, NodeAdded, AddPodToCache,
          AddPodToSchedulingQueue, DeletePodFromSchedulingQueue, ExpireAssumedPod,
          Retry
  <2> QED
    BY <2>3, <2>4
<1> QED
  BY <1>1, Invariance, PTL DEF Spec, CloseQuiesces

(* Without retries the report lists every simulated pod exactly once.      *)
THEOREM CompleteReport == ASSUME NoRetry PROVE Spec => []ReportComplete
<1>1. Inv => ReportComplete
  <2> SUFFICES ASSUME Inv, report # NoReport
               PROVE  ExactlyOnce(report.success, report.failed)
    BY DEF ReportComplete
  <2>1. run = "reported" /\ report = [success |-> success, failed |-> failed]
    BY DEF Inv, TypeInv, InHand, Ending
  <2>2. podQueue = <<>> /\ Flying = {}
    BY <2>1
      DEF Inv, Ending, Baton, WithRun, WithEvent, WithQueue, WithSched, WithBinder,
          SchedFree, BindersFree, SchedBusy, BindBusy, Flying
  <2>3. \A p \in Pods : Recorded(p)
    BY <2>2 DEF Inv, Conservation, Contains
  <2> QED
    BY <2>1, <2>3 DEF Inv, NoDuplicates, ExactlyOnce, Recorded
<1> QED
  BY <1>1, Invariance, PTL
=============================================================================

-------------------------- MODULE SimulatorRefinement --------------------------
(***************************************************************************)
(* The scheduler cache of Simulator against the resource store: no node is *)
(* overcommitted.  And the safety part of the refinement: every step of    *)
(* Simulator is a step of GreedyPlacement or leaves its variables alone.   *)
(***************************************************************************)
EXTENDS SimulatorPodProofs

-----------------------------------------------------------------------------
(* The cache and the store *)

(* Before the first pod nothing is on its way. *)
LEMMA FreshFacts ==
    ASSUME PodInv, Fresh
    PROVE  /\ \A p \in Pods : /\ pc[p] = "idle" /\ ~Waiting(p) /\ cache[p] = Absent
                              /\ p \notin toCache
           /\ schedQ = <<>>
<1>1. \A p \in Pods : pc[p] = "idle" /\ ~Waiting(p) /\ cache[p] = Absent /\ p \notin toCache
  BY Constants DEF PodInv, Lifecycle, Fresh, TypeInv, InHand
<1>2. schedQ = <<>>
  <2>1. schedQ \in Seq(Pods) /\ \A i \in DOMAIN schedQ : schedQ[i] \in Pods
    BY DEF PodInv, TypeInv, TypeOK
  <2>2. \A i \in DOMAIN schedQ : FALSE
    <3> TAKE i \in DOMAIN schedQ
    <3>1. Contains(schedQ, schedQ[i])
      BY DEF Contains
    <3> QED
      BY <1>1, <2>1, <3>1 DEF Waiting
  <2>3. ~(1 <= Len(schedQ)) /\ Len(schedQ) \in Nat
    BY <2>1, <2>2
  <2> QED
    BY <2>1, <2>3, EmptySeq
<1> QED
  BY <1>1, <1>2

(* The pods that left "idle" keep their host. *)
LEMMA CacheFrame ==
    ASSUME CacheInv, UNCHANGED cache, (Fresh \/ Synced)',
           \A q \in DOMAIN Checkpoint : /\ store'[q] = store[q]
                                        /\ q \in toCache => q \in toCache',
           \A p \in Pods : pc'[p] # "idle" => pc[p] # "idle" /\ host'[p] = host[p],
           pc'[Sched] = "assume" =>
              /\ pc[Sched] = "assume" /\ current' = current
              /\ host'[current] = host[current]
    PROVE  CacheInv'
<1>1. /\ \A q \in DOMAIN Checkpoint : /\ store'[q] = Checkpoint[q]
                                      /\ q \notin toCache' => cache'[q] = Checkpoint[q]
      /\ \A p \in Pods : pc'[p] # "idle" => cache'[p] = host'[p]
  BY DEF CacheInv
<1>2. (pc[Sched] = "assume" =>
         CachedOn(host[current]) \cup {current} \in Feasible[host[current]])'
  <2>1. CASE pc'[Sched] = "assume"
    <3>1. /\ pc[Sched] = "assume" /\ host'[current'] = host[current] /\ current' = current
          /\ CachedOn(host[current]) \cup {current} \in Feasible[host[current]]
      BY <2>1 DEF CacheInv
    <3> QED
      BY <3>1 DEF CachedOn
  <2> QED
    BY <2>1
<1>3. \A n \in Nodes : (CachedOn(n) \cap Pods # {} => CachedOn(n) \in Feasible[n])'
  BY DEF CacheInv, CachedOn
<1> QED
  BY <1>1, <1>2, <1>3 DEF CacheInv

(* Every step keeps the cache no further from the store than an assumed    *)
(* pod.                                                                    *)
LEMMA CacheStep ==
    ASSUME SleepSuffices, ~MayExpire, PodInv, PodInv', CacheInv, [Next]_vars
    PROVE  CacheInv'
<1> USE DEF TypeInv, TypeOK, Threads
<1>0. DOMAIN Checkpoint \subseteq AllPods /\ Pods \subseteq AllPods
      /\ DOMAIN Checkpoint \cap Pods = {}
  BY ConstantsAssumption DEF AllPods
<1>1. CASE RunStart \/ RunEmpty \/ RunCloseStop \/ Report \/ Drain \/ FailEvent
  BY <1>1, Constants, CacheFrame
    DEF RunStart, RunEmpty, RunCloseStop, Report, Drain, FailEvent, Goto, CacheInv,
        Fresh, Synced, informers, scheduler, PodInv
<1>2. CASE Loop
  BY <1>2, Constants, CacheFrame DEF Loop, Goto, CacheInv, Fresh, Synced, informers, PodInv
<1>3. CASE TakePod
  BY <1>3, Constants, CacheFrame, FreshFacts
    DEF TakePod, Goto, CacheInv, Synced, informers, PodInv
<1>4. CASE ScheduleFitError \/ ScheduleError \/ Update
  BY <1>4, Constants, CacheFrame
    DEF ScheduleFitError, ScheduleError, Update, Goto, CacheInv, Fresh, Synced,
        informers, scheduler, PodInv
<1>5. ASSUME NEW t \in Threads,
             NoPodsLeft(t) \/ Close(t) \/ SendStop(t) \/ SendOnClosedStop(t)
      PROVE  CacheInv'
  BY <1>5, Constants, CacheFrame
    DEF NoPodsLeft, Close, SendStop, SendOnClosedStop, Goto, AfterCallback, CacheInv,
        Fresh, Synced, informers, scheduler, PodInv
<1>6. ASSUME NEW p \in Pods, Record(p) \/ BindEvent(p) PROVE CacheInv'
  BY <1>6, Constants, CacheFrame
    DEF Record, BindEvent, Goto, CacheInv, Fresh, Synced, informers, scheduler, PodInv
<1>7. ASSUME NEW n \in Nodes, NodeAdded(n) PROVE CacheInv'
  BY <1>7, Constants, CacheFrame
    DEF NodeAdded, CacheInv, Fresh, Synced, scheduler, PodInv
<1>8. ASSUME NEW p \in Pods,
             \/ AddPodToSchedulingQueue(p) \/ DeletePodFromSchedulingQueue(p) \/ Retry(p)
      PROVE  CacheInv'
  BY <1>8, Constants, CacheFrame
    DEF AddPodToSchedulingQueue, DeletePodFromSchedulingQueue, Retry, CacheInv,
        Fresh, Synced, informers, PodInv
<1>9. ASSUME NEW p \in Pods, ExpireAssumedPod(p) PROVE CacheInv'
  BY <1>9 DEF ExpireAssumedPod
<1>10. CASE UNCHANGED vars
  BY <1>10, Constants, CacheFrame
    DEF vars, CacheInv, Fresh, Synced, informers, scheduler, PodInv
<1>11. CASE RunFirst \/ \E t \in Threads : NextPod(t)
  <2> DEFINE p == podQueue[Len(podQueue)]
  <2>1. PopIntoStore
    BY <1>11 DEF RunFirst, NextPod
  <2>2. p \in Pods /\ store' = [store EXCEPT ![p] = Unassigned]
    BY <2>1, PopFacts DEF PodInv
  <2> HIDE DEF p
  <2>3. /\ UNCHANGED <<cache, toCache, host, current>>
        /\ \A q \in Pods : pc'[q] # "idle" => pc[q] # "idle"
        /\ pc'[Sched] = "assume" => pc[Sched] = "assume"
    BY <1>11, Constants DEF RunFirst, NextPod, Goto, AfterCallback, scheduler, PodInv
  <2>4. Synced'
    <3>1. CASE RunFirst
      BY <3>1 DEF RunFirst, Synced
    <3>2. ASSUME NEW t \in Threads, NextPod(t) PROVE Synced'
      BY <3>2, <2>3, FreshFacts DEF NextPod, CacheInv, Fresh, Synced
    <3> QED
      BY <1>11, <3>1, <3>2
  <2> QED
    BY <1>0, <2>2, <2>3, <2>4, CacheFrame DEF PodInv, Placement
<1>12. CASE SelectHost
  <2>1. PICK n \in Fits(current) : host' = [host EXCEPT ![current] = n]
    BY <1>12 DEF SelectHost
  <2>2. /\ pc[Sched] = "schedule" /\ ~SchedulingError(current) /\ current \in Pods
        /\ pc'[Sched] = "assume" /\ \A q \in Pods : pc'[q] = pc[q]
        /\ UNCHANGED <<store, toCache, cache, current>>
    BY <1>12, Constants DEF SelectHost, Goto, PodInv, InHand, informers
  <2>3. /\ host'[current] = n /\ n \in Nodes /\ CachedOn(n) \cup {current} \in Feasible[n]
        /\ \A q \in Pods \ {current} : host'[q] = host[q]
    BY <2>1, <2>2 DEF Fits, PodInv
  <2>4. pc[current] = "idle"
    BY <2>2 DEF PodInv, WaitsOnce, Waiting, InHandOfSched
  <2>5. Synced'
    BY <2>2 DEF CacheInv, Fresh, Synced
  <2>6. (pc[Sched] = "assume" =>
           CachedOn(host[current]) \cup {current} \in Feasible[host[current]])'
    BY <2>2, <2>3 DEF CachedOn
  <2>7. \A m \in Nodes : (CachedOn(m) \cap Pods # {} => CachedOn(m) \in Feasible[m])'
    BY <2>2 DEF CacheInv, CachedOn
  <2>8. /\ \A q \in DOMAIN Checkpoint : /\ store'[q] = Checkpoint[q]
                                        /\ q \notin toCache' => cache'[q] = Checkpoint[q]
        /\ \A q \in Pods : pc'[q] # "idle" => cache'[q] = host'[q]
    BY <2>2, <2>3, <2>4 DEF CacheInv
  <2> QED
    BY <2>5, <2>6, <2>7, <2>8 DEF CacheInv
<1>13. CASE Assume
  <2> DEFINE n == host[current]
  <2>1. /\ pc[Sched] = "assume" /\ current \in Pods /\ n \in Nodes
        /\ cache[current] = Absent
        /\ cache' = [cache EXCEPT ![current] = n]
        /\ pc' = [pc EXCEPT ![Sched] = "loop", ![current] = "bind"]
        /\ UNCHANGED <<store, toCache, host, current>>
    BY <1>13 DEF Assume, PodInv, InHand, informers
  <2>2. /\ pc'[Sched] = "loop" /\ \A q \in Pods \ {current} : pc'[q] = pc[q]
        /\ cache'[current] = n /\ \A q \in AllPods \ {current} : cache'[q] = cache[q]
    BY <1>0, <2>1, Constants DEF PodInv
  <2>3. CachedOn(n) \cup {current} \in Feasible[n]
    BY <2>1 DEF CacheInv
  <2> HIDE DEF n
  <2>4. CachedOn(n)' = CachedOn(n) \cup {current}
    <3>1. {q \in AllPods : cache'[q] = n} = {q \in AllPods : cache[q] = n} \cup {current}
      BY <1>0, <2>1, <2>2
    <3> QED
      BY <3>1, <2>1 DEF CachedOn, n
  <2>5. \A m \in Nodes \ {n} : {q \in AllPods : cache'[q] = m} = {q \in AllPods : cache[q] = m}
    BY <2>1, <2>2, Constants
  <2>6. \A m \in Nodes : (CachedOn(m) \cap Pods # {} => CachedOn(m) \in Feasible[m])'
    <3> TAKE m \in Nodes
    <3>1. CASE m = n
      BY <3>1, <2>1, <2>3, <2>4 DEF CachedOn, n
    <3>2. CASE m # n
      BY <3>2, <2>5 DEF CachedOn, CacheInv
    <3> QED
      BY <3>1, <3>2
  <2>7. Synced'
    BY <2>1 DEF CacheInv, Fresh, Synced
  <2>8. \A q \in DOMAIN Checkpoint : /\ store'[q] = Checkpoint[q]
                                     /\ q \notin toCache' => cache'[q] = Checkpoint[q]
    BY <1>0, <2>1, <2>2 DEF CacheInv
  <2>9. \A q \in Pods : pc'[q] # "idle" => cache'[q] = host'[q]
    BY <1>0, <2>1, <2>2 DEF CacheInv, n
  <2> QED
    BY <2>2, <2>6, <2>7, <2>8, <2>9 DEF CacheInv
<1>14. ASSUME NEW p \in Pods, Bind(p) PROVE CacheInv'
  <2>1. /\ pc[p] = "bind" /\ store' = [store EXCEPT ![p] = host[p]]
        /\ toCache' = toCache \cup {p}
        /\ UNCHANGED <<cache, host, current>>
        /\ pc'[Sched] = pc[Sched] /\ \A q \in Pods : pc'[q] # "idle" => pc[q] # "idle"
    BY <1>14, Constants DEF Bind, Goto, scheduler, PodInv
  <2>2. Synced'
    BY <1>0, <2>1, FreshFacts DEF CacheInv, Synced
  <2> QED
    BY <1>0, <2>1, <2>2, CacheFrame DEF PodInv, Placement
<1>15. ASSUME NEW p \in Pods, NEW q \in Pods, RecordRace(p, q) PROVE CacheInv'
  <2>1. /\ pc[p] = "record" /\ pc[q] = "record"
        /\ UNCHANGED <<cache, host, current, store, toCache>>
        /\ pc'[Sched] = pc[Sched] /\ \A r \in Pods : pc'[r] # "idle" => pc[r] # "idle"
    BY <1>15, Constants DEF RecordRace, informers, scheduler, PodInv
  <2>2. Synced'
    BY <2>1, FreshFacts DEF CacheInv, Synced
  <2> QED
    BY <2>1, <2>2, CacheFrame
<1>16. ASSUME NEW p \in AllPods, AddPodToCache(p) PROVE CacheInv'
  <2>1. /\ p \in toCache /\ toCache' = toCache \ {p}
        /\ cache' = [cache EXCEPT ![p] = store[p]]
        /\ UNCHANGED <<store, host, current, pc>>
    BY <1>16 DEF AddPodToCache
  <2>2. CASE p \in Pods
    <3>1. store[p] \in Nodes
      BY <2>1 DEF PodInv, InHand
    <3>2. pc[p] \in Stored
      BY <2>2, <3>1, Constants DEF PodInv, Lifecycle, BindPc, Stored
    <3>3. cache[p] = store[p]
      BY <2>2, <3>2 DEF PodInv, Lifecycle, CacheInv, Stored
    <3>4. UNCHANGED cache
      BY <2>1, <3>3 DEF PodInv
    <3> QED
      BY <1>0, <2>1, <2>2, <3>4, CacheFrame DEF CacheInv, Fresh, Synced
  <2>3. CASE p \in DOMAIN Checkpoint
    <3>1. Fresh
      BY <2>1, <2>3 DEF CacheInv, Synced
    <3>2. /\ cache'[p] = Checkpoint[p] /\ \A q \in AllPods \ {p} : cache'[q] = cache[q]
      BY <1>0, <2>1, <2>3 DEF CacheInv, PodInv
    <3>3. \A q \in Pods : pc'[q] = "idle" /\ cache'[q] = Absent
      BY <1>0, <2>1, <2>3, <3>1, <3>2, FreshFacts
    <3>4. Fresh'
      BY <2>1, <3>1 DEF Fresh
    <3>5. \A q \in DOMAIN Checkpoint : /\ store'[q] = Checkpoint[q]
                                       /\ q \notin toCache' => cache'[q] = Checkpoint[q]
      BY <1>0, <2>1, <2>3, <3>2 DEF CacheInv
    <3>6. \A n \in Nodes : (CachedOn(n) \cap Pods # {} => CachedOn(n) \in Feasible[n])'
      BY <3>3, Constants DEF CachedOn
    <3> QED
      BY <3>3, <3>4, <3>5, <3>6 DEF CacheInv, Fresh
  <2> QED
    BY <2>2, <2>3 DEF AllPods
<1>17. Exit => UNCHANGED vars
  BY DEF Exit
<1> QED
  BY StepCases, <1>1, <1>2, <1>3, <1>4, <1>5, <1>6, <1>7, <1>8, <1>9, <1>10, <1>11, <1>12,
     <1>13, <1>14, <1>15, <1>16, <1>17

(* The cache and the store agree in every reachable state. *)
LEMMA CacheInvariance ==
    ASSUME SleepSuffices, ~MayExpire PROVE Spec => [](PodInv /\ CacheInv)
<1>1. Init => PodInv /\ CacheInv
  <2> SUFFICES ASSUME Init PROVE CacheInv
    BY PodInit
  <2>1. \A p \in Pods : pc[p] = "idle" /\ cache[p] = Absent /\ store[p] = Absent
    BY Constants DEF Init, Threads, AllPods
  <2>2. Fresh
    BY <2>1 DEF Init, Fresh, Threads
  <2>3. \A q \in DOMAIN Checkpoint : store[q] = Checkpoint[q] /\ q \in toCache
    BY ConstantsAssumption DEF Init, AllPods
  <2>4. \A n \in Nodes : CachedOn(n) \cap Pods = {}
    BY <2>1, Constants DEF CachedOn
  <2> QED
    BY <2>1, <2>2, <2>3, <2>4 DEF CacheInv, Fresh
<1>2. PodInv /\ CacheInv /\ [Next]_vars => (PodInv /\ CacheInv)'
  BY PodStep, TypeStep, CacheStep DEF PodInv
<1> QED
  BY <1>1, <1>2, PTL DEF Spec

(* Cache and store differ by the pods that are being bound. *)
LEMMA CacheAndStore ==
    ASSUME PodInv, CacheInv, NEW n \in Nodes, StoredOn(n) \cap Pods # {}
    PROVE  /\ StoredOn(n) \subseteq CachedOn(n)
           /\ CachedOn(n) \ StoredOn(n) \subseteq {p \in Pods : pc[p] = "bind"}
           /\ CachedOn(n) \in Feasible[n]
<1>1. PICK p \in Pods : store[p] = n
  BY DEF StoredOn
<1>2. Synced
  BY <1>1, Constants DEF CacheInv, Fresh
<1>3. \A q \in Pods : /\ store[q] = n => cache[q] = n
                      /\ cache[q] = n => store[q] = n \/ pc[q] = "bind"
  BY Constants DEF PodInv, TypeInv, TypeOK, BindPc, Lifecycle, Stored, CacheInv
<1>4. \A q \in DOMAIN Checkpoint : store[q] = cache[q]
  BY <1>2 DEF CacheInv, Synced
<1>5. /\ StoredOn(n) \subseteq CachedOn(n)
      /\ CachedOn(n) \ StoredOn(n) \subseteq {q \in Pods : pc[q] = "bind"}
  BY <1>3, <1>4 DEF StoredOn, CachedOn, AllPods
<1>6. CachedOn(n) \in Feasible[n]
  BY <1>1, <1>5 DEF CacheInv, StoredOn, AllPods
<1> QED
  BY <1>5, <1>6

(* The binding of one pod, with nobody else binding, stores what was       *)
(* cached.                                                                 *)
LEMMA BindKeepsFeasible ==
    ASSUME PodInv, CacheInv, NoOvercommit, NEW p \in Pods, Bind(p),
           \A q \in Pods \ {p} : pc[q] # "bind"
    PROVE  NoOvercommit'
<1>1. /\ pc[p] = "bind" /\ store' = [store EXCEPT ![p] = host[p]]
      /\ host[p] \in Nodes /\ cache[p] = host[p] /\ store[p] = Unassigned
  BY DEF Bind, PodInv, TypeInv, InHand, CacheInv, Lifecycle
<1>2. /\ store'[p] = host[p] /\ p \in AllPods
      /\ \A q \in AllPods \ {p} : store'[q] = store[q]
  BY <1>1 DEF PodInv, TypeInv, TypeOK, Placement, AllPods
<1>3. Synced
  BY <1>1, Constants DEF CacheInv, Fresh
<1>4. \A q \in AllPods \ {p} : store[q] = host[p] <=> cache[q] = host[p]
  BY <1>1, <1>3, Constants
    DEF PodInv, TypeInv, TypeOK, BindPc, Lifecycle, Stored, CacheInv, Synced, AllPods
<1>5. {q \in AllPods : store'[q] = host[p]} = CachedOn(host[p])
  BY <1>1, <1>2, <1>4 DEF CachedOn
<1>6. CachedOn(host[p]) \in Feasible[host[p]]
  BY <1>1, <1>2 DEF CacheInv, CachedOn
<1>7. \A n \in Nodes : n # host[p] => {q \in AllPods : store'[q] = n} = StoredOn(n)
  BY <1>1, <1>2, Constants DEF StoredOn
<1> QED
  BY <1>5, <1>6, <1>7 DEF NoOvercommit, StoredOn

(* When the sleep of Run suffices and no assumed pod expires, a node that  *)
(* received simulated pods can host all its pods: always without retries,  *)
(* and with retries if feasibility is closed under removing pods (two pods *)
(* may then be bound in either order).                                     *)
THEOREM NeverOvercommitted ==
    ASSUME SleepSuffices, ~MayExpire, NoRetry \/ DownwardClosed
    PROVE  Spec => []NoOvercommit
<1>1. CASE DownwardClosed
  <2>1. PodInv /\ CacheInv => NoOvercommit
    BY <1>1, CacheAndStore DEF NoOvercommit, DownwardClosed
  <2> QED
    BY <2>1, CacheInvariance, PTL
<1>2. CASE NoRetry
  <2>1. Init => NoOvercommit
    <3> SUFFICES ASSUME Init PROVE NoOvercommit
      OBVIOUS
    <3>1. \A p \in Pods : store[p] = Absent
      BY DEF Init, AllPods
    <3>2. \A n \in Nodes : StoredOn(n) \cap Pods = {}
      BY <3>1, Constants DEF StoredOn
    <3> QED
      BY <3>2 DEF NoOvercommit
  <2>2. Inv /\ PodInv /\ CacheInv /\ NoOvercommit /\ [Next]_vars => NoOvercommit'
    <3> SUFFICES ASSUME Inv, PodInv, CacheInv, NoOvercommit, [Next]_vars
                 PROVE  NoOvercommit'
      OBVIOUS
    <3>1. ASSUME NEW p \in Pods, Bind(p) PROVE NoOvercommit'
      <4>1. \A q \in Pods \ {p} : pc[q] # "bind"
        BY <3>1, BinderHolds DEF Bind, BindBusy
      <4> QED
        BY <3>1, <4>1, BindKeepsFeasible
    <3>2. ASSUME PopIntoStore PROVE NoOvercommit'
      <4> DEFINE p == podQueue[Len(podQueue)]
      <4>1. /\ p \in Pods /\ Contains(podQueue, p)
            /\ store' = [store EXCEPT ![p] = Unassigned]
        BY <3>2, PopFacts DEF PodInv, TypeInv
      <4> HIDE DEF p
      <4>2. store[p] = Absent
        BY <4>1 DEF Contains, PodInv, TypeInv, InHand
      <4>3. \A n \in Nodes, q \in AllPods : store'[q] = n <=> store[q] = n
        BY <4>1, <4>2, Constants DEF PodInv, TypeInv, TypeOK, Placement, AllPods
      <4>4. \A n \in Nodes : {q \in AllPods : store'[q] = n} = {q \in AllPods : store[q] = n}
        BY <4>3
      <4> QED
        BY <4>4 DEF NoOvercommit, StoredOn
    <3>3. CASE UNCHANGED store
      BY <3>3 DEF NoOvercommit, StoredOn
    <3>4. CASE UNCHANGED vars
      BY <3>3, <3>4 DEF vars
    <3> QED
      BY <3>1, <3>2, <3>3, <3>4, StepCases
        DEF RunStart, RunFirst, RunEmpty, RunCloseStop, Report, Loop, TakePod,
            SelectHost, ScheduleFitError, ScheduleError, Assume, FailEvent, Update,
            Drain, Exit, NextPod, NoPodsLeft, Close, SendStop, SendOnClosedStop,
            Record, BindEvent, RecordRace, NodeAdded, AddPodToCache,
            AddPodToSchedulingQueue, DeletePodFromSchedulingQueue, ExpireAssumedPod,
            Retry
  <2>3. Spec => []Inv
    BY <1>2, Invariance
  <2> QED
    BY <2>1, <2>2, <2>3, CacheInvariance, PTL DEF Spec
<1> QED
  BY <1>1, <1>2

-----------------------------------------------------------------------------
(* The refinement *)

(* A prefix of the list, and the same without its last element. *)
LEMMA PrefixFacts ==
    ASSUME NEW S, NEW s \in Seq(S), NEW m \in 0..Len(s),
           NEW t, t = SubSeq(s, 1, m)
    PROVE  /\ t \in Seq(S) /\ Len(t) = m
           /\ \A i \in 1..m : t[i] = s[i]
           /\ m = 0 <=> t = <<>>
<1>1. Len(s) \in Nat /\ 1 \in Int /\ m \in Int /\ \A i \in 1..m : s[i] \in S
  OBVIOUS
<1>2. /\ t \in Seq(S)
      /\ Len(t) = IF 1 <= m THEN m - 1 + 1 ELSE 0
      /\ \A i \in 1..(m - 1 + 1) : t[i] = s[1 + i - 1]
  BY <1>1, SubSeqProperties
<1>3. m \in Nat
  BY <1>1
<1>4. Len(t) = m
  BY <1>2, <1>3
<1>5. \A i \in 1..m : t[i] = s[i]
  <2>1. \A i \in 1..m : i \in 1..(m - 1 + 1) /\ 1 + i - 1 = i
    BY <1>3
  <2> QED
    BY <1>2, <2>1
<1> QED
  BY <1>2, <1>4, <1>5, EmptySeq

(* A prefix without its last element is the next shorter prefix. *)
LEMMA PrefixShrinks ==
    ASSUME NEW S, NEW s \in Seq(S), NEW m \in 1..Len(s)
    PROVE  LET t == SubSeq(s, 1, m)
           IN  SubSeq(s, 1, m - 1) = SubSeq(t, 1, Len(t) - 1)
<1> DEFINE t == SubSeq(s, 1, m)
           u == SubSeq(s, 1, m - 1)
           v == SubSeq(t, 1, Len(t) - 1)
<1>1. m \in 0..Len(s) /\ m - 1 \in 0..Len(s) /\ m \in Nat /\ m - 1 \in 0..m
  OBVIOUS
<1>2. t \in Seq(S) /\ Len(t) = m /\ \A i \in 1..m : t[i] = s[i]
  BY <1>1, PrefixFacts
<1>3. u \in Seq(S) /\ Len(u) = m - 1 /\ \A i \in 1..(m - 1) : u[i] = s[i]
  BY <1>1, PrefixFacts
<1> HIDE DEF t, u
<1>4. v \in Seq(S) /\ Len(v) = m - 1 /\ \A i \in 1..(m - 1) : v[i] = t[i]
  BY <1>1, <1>2, PrefixFacts
<1> HIDE DEF v
<1>5. \A i \in 1..(m - 1) : u[i] = v[i]
  BY <1>1, <1>2, <1>3, <1>4
<1>6. u = v
  BY <1>3, <1>4, <1>5, SeqEqual
<1> QED
  BY <1>6 DEF t, u, v

-----------------------------------------------------------------------------
(* A pod is created when no other is on its way. *)
LEMMA NothingFlies ==
    ASSUME Inv, RunFirst \/ \E t \in Threads : NextPod(t)
    PROVE  Flying = {}
<1>1. ASSUME RunFirst PROVE Flying = {}
  BY <1>1
    DEF RunFirst, Inv, Baton, WithRun, WithEvent, WithQueue, WithSched, WithBinder,
        SchedFree, BindersFree, SchedBusy, BindBusy, Flying
<1>2. ASSUME NextPod(Sched) PROVE Flying = {}
  BY <1>2
    DEF NextPod, Inv, Baton, WithRun, WithEvent, WithQueue, WithSched, WithBinder,
        SchedFree, BindersFree, SchedBusy, BindBusy, Flying
<1>3. ASSUME NEW p \in Pods, NextPod(p) PROVE Flying = {}
  BY <1>3, BinderHolds DEF NextPod, SchedFree, SchedBusy, BindBusy, Flying
<1> QED
  BY <1>1, <1>2, <1>3 DEF Threads

(* Nothing is on its way exactly when everything out of the queue is       *)
(* recorded.                                                               *)
LEMMA FlyingOrRecorded ==
    ASSUME Inv PROVE AllRecorded <=> Flying = {}
<1>1. Flying \subseteq Pods
  BY DEF Flying, Inv, TypeInv, TypeOK
<1> QED
  BY <1>1 DEF Inv, Conservation, AllRecorded

(* The two lists of verdicts grow by one and the queue shrinks by one. *)
LEMMA CountStep ==
    ASSUME Inv, Inv', OrderInv, [Next]_vars
    PROVE  /\ Len(podQueue') + (IF AllRecorded' THEN 0 ELSE 1) + Len(success') + Len(failed')
                 = Len(NewPods)
           /\ \A i \in DOMAIN NewPods : i > Len(podQueue') + 1 => Recorded(NewPods[i])'
<1>0. /\ podQueue \in Seq(Pods) /\ success \in Seq(Entry) /\ failed \in Seq(Pods)
      /\ Len(podQueue) \in Nat /\ Len(success) \in Nat /\ Len(failed) \in Nat
      /\ NewPods \in Seq(Pods) /\ DOMAIN NewPods = 1..Len(NewPods) /\ Len(NewPods) \in Nat
  BY ConstantsAssumption DEF Inv, TypeInv, TypeOK
<1>1. CASE UNCHANGED <<podQueue, success, failed>>
  BY <1>1 DEF OrderInv, AllRecorded, Recorded, Contains
<1>2. CASE RunFirst \/ \E t \in Threads : NextPod(t)
  <2> DEFINE p == podQueue[Len(podQueue)]
  <2>1. PopIntoStore /\ UNCHANGED <<success, failed>>
    BY <1>2 DEF RunFirst, NextPod, status
  <2>2. /\ p \in Pods /\ Contains(podQueue, p) /\ ~Contains(podQueue', p)
    BY <2>1, PopFacts DEF Inv, TypeInv
  <2>3. Len(podQueue') = Len(podQueue) - 1 /\ podQueue # <<>>
    BY <1>0, <2>1, FrontFacts DEF PopIntoStore
  <2>4. \A q \in Pods : Recorded(q)' <=> Recorded(q)
    BY <2>1 DEF Recorded
  <2>5. AllRecorded
    BY <1>2, NothingFlies, FlyingOrRecorded
  <2>6. ~AllRecorded'
    BY <2>2, <2>4 DEF Inv, Conservation, AllRecorded
  <2>7. \A i \in DOMAIN NewPods : i > Len(podQueue) => Recorded(NewPods[i])
    <3> SUFFICES ASSUME NEW i \in DOMAIN NewPods, i > Len(podQueue), ~Recorded(NewPods[i])
                 PROVE  FALSE
      OBVIOUS
    <3>1. NewPods[i] \in Pods /\ i \in 1..Len(NewPods)
      BY <1>0
    <3>2. PICK j \in DOMAIN podQueue : podQueue[j] = NewPods[i]
      BY <2>5, <3>1 DEF AllRecorded, Contains
    <3>3. NewPods[j] = NewPods[i] /\ j \in 1..Len(podQueue) /\ j \in DOMAIN NewPods
      BY <1>0, <3>2 DEF Inv, TypeInv, QueueIsPrefix
    <3>4. j = i
      BY <3>3, ConstantsAssumption
    <3> QED
      BY <1>0, <3>3, <3>4
  <2>8. \A i \in DOMAIN NewPods : i > Len(podQueue') + 1 => Recorded(NewPods[i])'
    <3> TAKE i \in DOMAIN NewPods
    <3>1. NewPods[i] \in Pods
      BY <1>0
    <3> QED
      BY <1>0, <2>3, <2>4, <2>7, <3>1
  <2>9. Len(podQueue) + 0 + Len(success) + Len(failed) = Len(NewPods)
    BY <2>5 DEF OrderInv
  <2>10. Len(podQueue') + 1 + Len(success') + Len(failed') = Len(NewPods)
    <3> DEFINE a == Len(podQueue)
               b == Len(success)
               c == Len(failed)
               n == Len(NewPods)
    <3>1. a \in Nat /\ b \in Nat /\ c \in Nat /\ n \in Nat
      BY <1>0
    <3>2. Len(podQueue') = a - 1 /\ Len(success') = b /\ Len(failed') = c
      BY <2>1, <2>3
    <3> HIDE DEF a, b, c, n
    <3>3. a + 0 + b + c = n
      BY <2>9 DEF a, b, c, n
    <3>4. (a - 1) + 1 + b + c = n
      BY <3>1, <3>3
    <3> QED
      BY <3>2, <3>4 DEF n
  <2> QED
    BY <2>6, <2>8, <2>10
<1>3. CASE Update \/ \E p \in Pods : Record(p)
  <2>1. /\ podQueue' = podQueue
        /\ \/ Len(success') = Len(success) + 1 /\ failed' = failed
           \/ Len(failed') = Len(failed) + 1 /\ success' = success
    <3>1. CASE Update
      BY <1>0, <3>1 DEF Update
    <3>2. ASSUME NEW p \in Pods, Record(p)
          PROVE  podQueue' = podQueue /\ Len(success') = Len(success) + 1 /\ failed' = failed
      <4> DEFINE e == [pod |-> p, host |-> host[p]]
      <4>1. success' = Append(success, e) /\ failed' = failed /\ podQueue' = podQueue
        BY <3>2 DEF Record
      <4> HIDE DEF e
      <4> QED
        BY <1>0, <4>1
    <3> QED
      BY <1>3, <3>1, <3>2
  <2>2. \A q : Recorded(q) => Recorded(q)'
    <3>1. CASE Update
      BY <1>0, <3>1 DEF Update, Recorded, Contains
    <3>2. ASSUME NEW p \in Pods, Record(p) PROVE \A q : Recorded(q) => Recorded(q)'
      <4> DEFINE e == [pod |-> p, host |-> host[p]]
      <4>1. success' = Append(success, e) /\ failed' = failed
        BY <3>2 DEF Record
      <4> HIDE DEF e
      <4>2. \A i \in DOMAIN success : i \in DOMAIN success' /\ success'[i] = success[i]
        BY <1>0, <4>1
      <4> QED
        BY <4>1, <4>2 DEF Recorded
    <3> QED
      BY <1>3, <3>1, <3>2
  <2>3. ~AllRecorded /\ AllRecorded'
    <3>1. CASE Update
      <4>1. WithSched /\ current \in Flying
        BY <3>1
          DEF Update, Inv, TypeInv, InHand, Baton, WithRun, WithEvent, WithQueue, WithSched,
              WithBinder, SchedFree, SchedBusy, Flying
      <4>2. Flying' = {}
        BY <3>1, <4>1, Constants
          DEF Update, Goto, WithSched, BindersFree, BindBusy, Flying, Inv, TypeInv, TypeOK,
              Threads, informers, scheduler
      <4> QED
        BY <4>1, <4>2, FlyingOrRecorded DEF Inv, Conservation, AllRecorded, Flying
    <3>2. ASSUME NEW p \in Pods, Record(p) PROVE ~AllRecorded /\ AllRecorded'
      <4>1. /\ run = "wait" /\ toQueue = {} /\ schedQ = <<>> /\ SchedFree
            /\ \A q \in Pods \ {p} : pc[q] \notin BindBusy
            /\ p \in Flying
        BY <3>2, BinderHolds DEF Record, BindBusy, Flying
      <4>2. Flying' = {}
        BY <3>2, <4>1, Constants
          DEF Record, Goto, SchedFree, SchedBusy, BindBusy, Flying, Inv, TypeInv, TypeOK,
              Threads, informers, scheduler
      <4> QED
        BY <4>1, <4>2, FlyingOrRecorded DEF Inv, Conservation, AllRecorded, Flying
    <3> QED
      BY <1>3, <3>1, <3>2
  <2>4. Len(podQueue') + 0 + Len(success') + Len(failed') = Len(NewPods)
    <3>1. Len(podQueue) + 1 + Len(success) + Len(failed) = Len(NewPods)
      BY <2>3 DEF OrderInv
    <3> DEFINE a == Len(podQueue)
               b == Len(success)
               c == Len(failed)
               n == Len(NewPods)
    <3>2. a \in Nat /\ b \in Nat /\ c \in Nat /\ n \in Nat
      BY <1>0
    <3>3. /\ Len(podQueue') = a
          /\ \/ Len(success') = b + 1 /\ Len(failed') = c
             \/ Len(success') = b /\ Len(failed') = c + 1
      BY <2>1
    <3> HIDE DEF a, b, c, n
    <3>4. a + 1 + b + c = n
      BY <3>1 DEF a, b, c, n
    <3>5. a + 0 + (b + 1) + c = n /\ a + 0 + b + (c + 1) = n
      BY <3>2, <3>4
    <3> QED
      BY <3>3, <3>5 DEF n
  <2> QED
    BY <2>1, <2>2, <2>3, <2>4 DEF OrderInv
<1>4. ASSUME NEW p \in Pods, NEW q \in Pods, RecordRace(p, q) PROVE FALSE
  BY <1>4, BinderHolds DEF RecordRace, BindBusy
<1>5. CASE UNCHANGED vars
  BY <1>1, <1>5 DEF vars, status
<1> QED
  BY <1>1, <1>2, <1>3, <1>4, <1>5, StepCases
    DEF RunStart, RunEmpty, RunCloseStop, Report, Loop, TakePod, SelectHost,
        ScheduleFitError, ScheduleError, Assume, FailEvent, Drain, Exit, NoPodsLeft,
        Close, SendStop, SendOnClosedStop, Bind, BindEvent, NodeAdded, AddPodToCache,
        AddPodToSchedulingQueue, DeletePodFromSchedulingQueue, ExpireAssumedPod, Retry,
        status

(* The informer confirms a pod: the cache knew it. *)
LEMMA ConfirmedPod ==
    ASSUME PodInv, CacheInv, ~Fresh, NEW p \in AllPods, AddPodToCache(p)
    PROVE  UNCHANGED cache
<1>1. p \in toCache /\ cache' = [cache EXCEPT ![p] = store[p]]
  BY DEF AddPodToCache
<1>2. p \in Pods
  BY <1>1 DEF CacheInv, Synced, AllPods
<1>3. store[p] \in Nodes
  BY <1>1 DEF PodInv, TypeInv, InHand
<1>4. pc[p] \in Stored
  BY <1>2, <1>3, Constants DEF PodInv, TypeInv, TypeOK, Lifecycle, BindPc, Stored
<1>5. cache[p] = store[p]
  BY <1>2, <1>4 DEF PodInv, Lifecycle, CacheInv, Stored
<1> QED
  BY <1>1, <1>5 DEF PodInv, TypeInv, TypeOK

(* Before the first pod the scheduler goroutine has nothing in hand. *)
LEMMA FreshStep ==
    ASSUME SleepSuffices, PodInv, Fresh \/ nodesSeen = Nodes, [Next]_vars
    PROVE  (Fresh \/ nodesSeen = Nodes)'
<1> USE DEF PodInv, TypeInv, TypeOK, Threads
<1>1. CASE nodesSeen = Nodes
  <2>1. UNCHANGED nodesSeen \/ \E n \in Nodes : NodeAdded(n)
    BY StepCases
      DEF RunStart, RunFirst, RunEmpty, RunCloseStop, Report, Loop, TakePod, SelectHost,
          ScheduleFitError, ScheduleError, Assume, FailEvent, Update, Drain, Exit,
          NextPod, NoPodsLeft, Close, SendStop, SendOnClosedStop, Bind, Record, BindEvent,
          RecordRace, AddPodToCache, AddPodToSchedulingQueue,
          DeletePodFromSchedulingQueue, ExpireAssumedPod, Retry, informers, vars
  <2> QED
    BY <1>1, <2>1 DEF NodeAdded
<1>2. CASE Fresh
  <2>1. /\ \A p \in Pods : pc[p] = "idle"
        /\ schedQ = <<>> /\ pc[Sched] \in {"loop", "pop", "exit"}
    BY <1>2, FreshFacts DEF Fresh
  <2>2. ASSUME NEW t \in Threads,
               NextPod(t) \/ NoPodsLeft(t) \/ Close(t) \/ SendStop(t) \/ SendOnClosedStop(t)
        PROVE  FALSE
    BY <2>1, <2>2 DEF NextPod, NoPodsLeft, Close, SendStop, SendOnClosedStop
  <2>3. ASSUME NEW p \in Pods, NEW q \in Pods,
               \/ Bind(p) \/ Record(p) \/ BindEvent(p) \/ RecordRace(p, q)
        PROVE  FALSE
    BY <2>1, <2>3 DEF Bind, Record, BindEvent, RecordRace
  <2>4. /\ ~TakePod /\ ~SelectHost /\ ~ScheduleFitError /\ ~ScheduleError /\ ~Assume
        /\ ~FailEvent /\ ~Update
    BY <2>1
      DEF TakePod, SelectHost, ScheduleFitError, ScheduleError, Assume, FailEvent, Update
  <2>5. CASE UNCHANGED <<store, pc>>
    BY <1>2, <2>5 DEF Fresh
  <2>6. CASE Loop
    BY <1>2, <2>6 DEF Fresh, Loop, Goto
  <2>7. CASE RunFirst
    BY <2>7 DEF RunFirst
  <2>8. CASE UNCHANGED vars
    BY <2>5, <2>8 DEF vars
  <2> QED
    BY StepCases, <2>2, <2>3, <2>4, <2>5, <2>6, <2>7, <2>8
      DEF RunStart, RunEmpty, RunCloseStop, Report, Drain, Exit, NodeAdded, AddPodToCache,
          AddPodToSchedulingQueue, DeletePodFromSchedulingQueue, ExpireAssumedPod, Retry
<1> QED
  BY <1>1, <1>2

(* A refusal stays right until it is recorded. *)
LEMMA RefusalStep ==
    ASSUME ~MayExpire, PodInv, CacheInv, OrderInv, [Next]_vars,
           pc'[Sched] \in {"fail", "update"}, ~SchedulingError(current')
    PROVE  (Fits(current) = {})'
<1> USE DEF TypeInv, TypeOK, Threads
<1>1. CASE ScheduleFitError
  BY <1>1 DEF ScheduleFitError, Fits, CachedOn, scheduler, informers
<1>2. CASE ScheduleError
  BY <1>2 DEF ScheduleError, SchedulingError
<1>3. ASSUME pc[Sched] \in {"fail", "update"}, UNCHANGED <<cache, current, nodesSeen>>
      PROVE  (Fits(current) = {})'
  <2>1. Fits(current) = {}
    BY <1>3 DEF OrderInv
  <2> QED
    BY <1>3, <2>1 DEF Fits, CachedOn
<1>4. CASE FailEvent
  BY <1>3, <1>4 DEF FailEvent, scheduler, informers
<1>5. CASE RunStart \/ RunFirst \/ RunEmpty \/ RunCloseStop \/ Report \/ Drain
  BY <1>3, <1>5
    DEF RunStart, RunFirst, RunEmpty, RunCloseStop, Report, Drain, scheduler, informers
<1>6. ASSUME NEW t \in Threads,
             NextPod(t) \/ NoPodsLeft(t) \/ Close(t) \/ SendStop(t) \/ SendOnClosedStop(t)
      PROVE  (Fits(current) = {})'
  BY <1>3, <1>6, Constants
    DEF NextPod, NoPodsLeft, Close, SendStop, SendOnClosedStop, Goto, AfterCallback,
        scheduler, informers, PodInv
<1>7. ASSUME NEW p \in Pods, Bind(p) \/ Record(p) \/ BindEvent(p)
      PROVE  (Fits(current) = {})'
  BY <1>3, <1>7, Constants
    DEF Bind, Record, BindEvent, Goto, scheduler, informers, PodInv
<1>8. ASSUME NEW p \in Pods, NEW q \in Pods, RecordRace(p, q)
      PROVE  (Fits(current) = {})'
  <2>1. pc'[Sched] = pc[Sched] /\ UNCHANGED <<cache, current, nodesSeen>>
    BY <1>8, Constants DEF RecordRace, scheduler, informers, PodInv
  <2> QED
    BY <1>3, <2>1
<1>9. ASSUME NEW n \in Nodes, NodeAdded(n) PROVE (Fits(current) = {})'
  BY <1>3, <1>9 DEF NodeAdded, OrderInv, Fresh, scheduler
<1>10. ASSUME NEW p \in AllPods, AddPodToCache(p) PROVE (Fits(current) = {})'
  <2>1. UNCHANGED <<current, nodesSeen, pc>>
    BY <1>10 DEF AddPodToCache
  <2>2. UNCHANGED cache
    BY <1>10, <2>1, ConfirmedPod DEF Fresh
  <2> QED
    BY <1>3, <2>1, <2>2
<1>11. ASSUME NEW p \in Pods,
              \/ AddPodToSchedulingQueue(p) \/ DeletePodFromSchedulingQueue(p)
              \/ ExpireAssumedPod(p) \/ Retry(p)
       PROVE  (Fits(current) = {})'
  BY <1>3, <1>11
    DEF AddPodToSchedulingQueue, DeletePodFromSchedulingQueue, ExpireAssumedPod, Retry,
        informers
<1>12. CASE UNCHANGED vars
  BY <1>3, <1>12 DEF vars, scheduler, informers
<1>13. CASE Loop \/ TakePod \/ SelectHost \/ Update
  BY <1>13 DEF Loop, TakePod, SelectHost, Update, Goto, PodInv
<1>14. CASE Assume
  <2>1. current \in Pods /\ pc' = [pc EXCEPT ![Sched] = "loop", ![current] = "bind"]
    BY <1>14 DEF Assume, PodInv, InHand
  <2> QED
    BY <2>1, Constants DEF PodInv
<1>15. Exit => UNCHANGED vars
  BY DEF Exit
<1> QED
  BY StepCases, <1>1, <1>2, <1>4, <1>5, <1>6, <1>7, <1>8, <1>9, <1>10, <1>11, <1>12,
     <1>13, <1>14, <1>15

-----------------------------------------------------------------------------
(* What GreedyPlacement has placed on a node is what the scheduler cache   *)
(* holds there, but for the pod being bound.                               *)
LEMMA PlacedAndCached ==
    ASSUME Inv, PodInv, CacheInv, ~Fresh, NEW n \in Nodes
    PROVE  CachedOn(n) = Greedy!PlacedOn(n)
              \cup {q \in Pods : pc[q] \in {"bind", "record"} /\ host[q] = n}
<1>1. \A q \in Pods : pc[q] \in Stored \ {"record"} => Succeeded(q)
  <2> SUFFICES ASSUME NEW q \in Pods, pc[q] \in Stored \ {"record"} PROVE Succeeded(q)
    OBVIOUS
  <2>1. ~Waiting(q)
    BY DEF PodInv, WaitsOnce, NeverBound, Stored
  <2>2. q \notin Flying
    BY <2>1 DEF Flying, Waiting, Contains, InHandOfSched, Stored
  <2>3. store[q] # Absent /\ ~Contains(failed, q)
    BY DEF PodInv, Lifecycle, Stored
  <2> QED
    BY <2>2, <2>3 DEF Inv, Conservation, Recorded, Succeeded
<1>2. \A q \in Pods : cache[q] = n <=>
         (Succeeded(q) \/ pc[q] \in {"bind", "record"}) /\ host[q] = n
  BY <1>1, Constants
    DEF PodInv, TypeInv, TypeOK, BindPc, Lifecycle, Stored, CacheInv
<1>3. \A q \in DOMAIN Checkpoint : cache[q] = Checkpoint[q]
  BY DEF CacheInv, Synced
<1>4. \A i \in DOMAIN success : /\ success[i].pod \in Pods
                                /\ success[i].host = host[success[i].pod]
  BY ListsOfPods DEF PodInv, TypeInv, Lifecycle
<1>5. {success[i].pod : i \in {j \in DOMAIN success : success[j].host = n}}
         = {q \in Pods : Succeeded(q) /\ host[q] = n}
  BY <1>4 DEF Succeeded
<1>6. CachedOn(n) = {q \in DOMAIN Checkpoint : Checkpoint[q] = n}
         \cup {q \in Pods : Succeeded(q) /\ host[q] = n}
         \cup {q \in Pods : pc[q] \in {"bind", "record"} /\ host[q] = n}
  BY <1>2, <1>3 DEF CachedOn, AllPods
<1> QED
  BY <1>5, <1>6 DEF Greedy!PlacedOn

(* The pod on its way is the one whose turn it is. *)
LEMMA TurnOfFlying ==
    ASSUME Inv, OrderInv, NEW p \in Flying,
           NEW m, m = Len(NewPods) - (Len(success) + Len(failed))
    PROVE  m \in 1..Len(NewPods) /\ NewPods[m] = p
<1>0. /\ Len(podQueue) \in Nat /\ Len(success) \in Nat /\ Len(failed) \in Nat
      /\ NewPods \in Seq(Pods) /\ DOMAIN NewPods = 1..Len(NewPods) /\ Len(NewPods) \in Nat
      /\ DOMAIN podQueue = 1..Len(podQueue)
  BY ConstantsAssumption DEF Inv, TypeInv, TypeOK
<1>1. p \in Pods /\ ~Recorded(p) /\ ~Contains(podQueue, p)
  BY DEF Flying, Inv, TypeInv, TypeOK, Conservation
<1>2. ~AllRecorded
  BY <1>1 DEF AllRecorded
<1>3. m = Len(podQueue) + 1
  <2> DEFINE a == Len(podQueue)
             b == Len(success)
             c == Len(failed)
             n == Len(NewPods)
  <2>1. Len(podQueue) + 1 + Len(success) + Len(failed) = Len(NewPods)
    BY <1>2 DEF OrderInv
  <2>2. a \in Nat /\ b \in Nat /\ c \in Nat /\ n \in Nat
    BY <1>0
  <2>3. m = n - (b + c)
    OBVIOUS
  <2> HIDE DEF a, b, c, n
  <2>4. a + 1 + b + c = n
    BY <2>1 DEF a, b, c, n
  <2>5. m = a + 1
    BY <2>2, <2>3, <2>4
  <2> QED
    BY <2>5 DEF a
<1>4. PICK i \in DOMAIN NewPods : NewPods[i] = p
  BY <1>1, ConstantsAssumption
<1>5. ~(i > Len(podQueue) + 1)
  BY <1>1, <1>4 DEF OrderInv
<1>6. ~(i <= Len(podQueue))
  BY <1>0, <1>1, <1>4 DEF Inv, TypeInv, QueueIsPrefix, Contains
<1>7. i = m /\ i \in 1..Len(NewPods)
  BY <1>0, <1>3, <1>4, <1>5, <1>6
<1> QED
  BY <1>4, <1>7

(* One more verdict takes the last pod from the pending ones. *)
LEMMA VerdictAdvances ==
    ASSUME Inv, OrderInv, NEW p \in Flying,
           Len(success') + Len(failed') = Len(success) + Len(failed) + 1
    PROVE  LET pending == SubSeq(NewPods, 1, Len(NewPods) - (Len(success) + Len(failed)))
               rest    == SubSeq(NewPods, 1, Len(NewPods) - (Len(success') + Len(failed')))
           IN  /\ pending # <<>>
               /\ pending[Len(pending)] = p
               /\ rest = SubSeq(pending, 1, Len(pending) - 1)
<1> DEFINE m == Len(NewPods) - (Len(success) + Len(failed))
           k == Len(NewPods) - (Len(success') + Len(failed'))
           pending == SubSeq(NewPods, 1, m)
           rest == SubSeq(NewPods, 1, k)
<1>1. m \in 1..Len(NewPods) /\ NewPods[m] = p
  BY TurnOfFlying
<1>2. /\ Len(success) \in Nat /\ Len(failed) \in Nat /\ NewPods \in Seq(Pods)
      /\ Len(NewPods) \in Nat
  BY ConstantsAssumption DEF Inv, TypeInv, TypeOK
<1>3. k = m - 1
  BY <1>2
<1> HIDE DEF m, k
<1>4. m \in 0..Len(NewPods) /\ m # 0 /\ m \in 1..m
  BY <1>1, <1>2
<1>5. Len(pending) = m /\ pending # <<>> /\ pending[m] = NewPods[m]
  BY <1>2, <1>4, PrefixFacts
<1>6. rest = SubSeq(pending, 1, Len(pending) - 1)
  BY <1>1, <1>2, <1>3, PrefixShrinks
<1> QED
  BY <1>1, <1>5, <1>6 DEF m, k

(* Bind's record of the success is a placement ... *)
LEMMA RecordIsPlace ==
    ASSUME Inv, PodInv, CacheInv, OrderInv, NEW p \in Pods, Record(p)
    PROVE  Greedy!Place
<1> DEFINE n == host[p]
           e == [pod |-> p, host |-> n]
<1>1. /\ pc[p] = "record" /\ success' = Append(success, e) /\ n \in Nodes
      /\ UNCHANGED <<failed, report>>
  BY DEF Record, PodInv, TypeInv, InHand
<1>2. p \in Flying /\ \A q \in Pods \ {p} : pc[q] \notin {"bind", "record"}
  BY <1>1, BinderHolds DEF Flying, BindBusy
<1>3. ~Fresh
  BY <1>1, FreshFacts
<1>4. CachedOn(n) = Greedy!PlacedOn(n) \cup {p}
  <2>1. {q \in Pods : pc[q] \in {"bind", "record"} /\ host[q] = n} = {p}
    BY <1>1, <1>2
  <2> QED
    BY <1>1, <1>3, <2>1, PlacedAndCached
<1>5. CachedOn(n) \in Feasible[n]
  <2>1. cache[p] = n /\ p \in AllPods
    BY <1>1 DEF CacheInv, AllPods
  <2> QED
    BY <1>1, <2>1 DEF CacheInv, CachedOn
<1>6. n \in Greedy!CanHost(p)
  <2>1. p \notin BadPods
    BY <1>1 DEF PodInv, NeverBound, SchedulingError
  <2> QED
    BY <1>1, <1>4, <1>5, <2>1 DEF Greedy!CanHost
<1>7. Len(success') + Len(failed') = Len(success) + Len(failed) + 1
  <2>1. success \in Seq(Entry) /\ Len(success) \in Nat /\ Len(failed) \in Nat
    BY DEF Inv, TypeInv, TypeOK
  <2> HIDE DEF e
  <2>2. Len(success') = Len(success) + 1
    BY <1>1, <2>1
  <2> QED
    BY <1>1, <2>1, <2>2
<1> HIDE DEF n, e
<1>8. /\ SubSeq(NewPods, 1, Len(NewPods) - (Len(success) + Len(failed))) # <<>>
      /\ Greedy!Turn = p /\ Greedy!Advance
  BY <1>2, <1>7, VerdictAdvances DEF Greedy!Turn, Greedy!Advance
<1>9. \E x \in Greedy!CanHost(Greedy!Turn) :
        success' = Append(success, [pod |-> Greedy!Turn, host |-> x])
  BY <1>1, <1>6, <1>8 DEF e
<1> QED
  BY <1>1, <1>8, <1>9 DEF Greedy!Place

(* ... and Update's record of a failure is a refusal. *)
LEMMA UpdateIsRefuse ==
    ASSUME Inv, PodInv, CacheInv, OrderInv, Update
    PROVE  Greedy!Refuse
<1> DEFINE p == current
<1>1. /\ pc[Sched] = "update" /\ p \in Pods /\ failed' = Append(failed, p)
      /\ UNCHANGED <<success, report>>
  BY DEF Update, PodInv, TypeInv, InHand
<1>2. p \in Flying /\ \A q \in Pods : pc[q] \notin {"bind", "record"}
  BY <1>1
    DEF Flying, Inv, Baton, WithRun, WithEvent, WithQueue, WithSched, WithBinder,
        SchedFree, BindersFree, SchedBusy, BindBusy
<1>3. ~Fresh
  BY <1>1 DEF Fresh
<1>4. \A n \in Nodes : CachedOn(n) = Greedy!PlacedOn(n)
  <2> TAKE n \in Nodes
  <2>1. {q \in Pods : pc[q] \in {"bind", "record"} /\ host[q] = n} = {}
    BY <1>2
  <2> QED
    BY <1>3, <2>1, PlacedAndCached
<1>5. Greedy!CanHost(p) = {}
  <2>1. CASE p \in BadPods \/ Nodes = {}
    BY <2>1 DEF Greedy!CanHost
  <2>2. CASE ~SchedulingError(p)
    <3>1. Fits(p) = {} /\ nodesSeen = Nodes
      BY <1>1, <1>3, <2>2 DEF OrderInv
    <3> QED
      BY <1>4, <3>1 DEF Greedy!CanHost, Fits
  <2> QED
    BY <2>1, <2>2 DEF SchedulingError
<1>6. Len(success') + Len(failed') = Len(success) + Len(failed) + 1
  BY <1>1 DEF Inv, TypeInv, TypeOK
<1> HIDE DEF p
<1>7. /\ SubSeq(NewPods, 1, Len(NewPods) - (Len(success) + Len(failed))) # <<>>
      /\ Greedy!Turn = p /\ Greedy!Advance
  BY <1>2, <1>6, VerdictAdvances DEF Greedy!Turn, Greedy!Advance
<1> QED
  BY <1>1, <1>5, <1>7 DEF Greedy!Refuse

(* The report is made when every pod has its verdict. *)
LEMMA ReportIsFinish ==
    ASSUME Inv, OrderInv, Report
    PROVE  Greedy!Finish \/ UNCHANGED Greedy!vars
<1>1. /\ run = "returned" /\ report = NoReport /\ UNCHANGED <<success, failed>>
  BY DEF Report, Inv, TypeInv, InHand, status
<1>2. podQueue = <<>> /\ Flying = {}
  BY <1>1
    DEF Inv, Ending, Baton, WithRun, WithEvent, WithQueue, WithSched, WithBinder,
        SchedFree, BindersFree, SchedBusy, BindBusy, Flying
<1>3. AllRecorded
  BY <1>2, FlyingOrRecorded
<1>4. Len(NewPods) - (Len(success) + Len(failed)) = 0
  <2>1. /\ Len(success) \in Nat /\ Len(failed) \in Nat /\ Len(NewPods) \in Nat
        /\ Len(podQueue) = 0
    BY <1>2, ConstantsAssumption DEF Inv, TypeInv, TypeOK
  <2>2. Len(podQueue) + 0 + Len(success) + Len(failed) = Len(NewPods)
    BY <1>3 DEF OrderInv
  <2> QED
    BY <2>1, <2>2
<1>5. SubSeq(NewPods, 1, Len(NewPods) - (Len(success) + Len(failed))) = <<>>
  <2>1. NewPods \in Seq(Pods) /\ 0 \in 0..Len(NewPods)
    BY ConstantsAssumption
  <2>2. SubSeq(NewPods, 1, 0) = <<>>
    BY <2>1, PrefixFacts
  <2> QED
    BY <1>4, <2>2
<1> QED
  BY <1>1, <1>5 DEF Greedy!Finish, Greedy!vars

(* New's list is pending, nothing is placed. *)
LEMMA InitIsInit == Init => Greedy!Init
<1> SUFFICES ASSUME Init PROVE Greedy!Init
  OBVIOUS
<1>1. success = <<>> /\ failed = <<>> /\ report = NoReport
  BY DEF Init
<1>2. /\ NewPods \in Seq(Pods) /\ Len(NewPods) \in Nat
      /\ SubSeq(NewPods, 1, Len(NewPods)) = NewPods
  BY ConstantsAssumption
<1>3. Len(NewPods) - (Len(success) + Len(failed)) = Len(NewPods)
  BY <1>1, <1>2
<1> QED
  BY <1>1, <1>2, <1>3 DEF Greedy!Init

(* What the refinement rests on. *)
SafetyInv == Inv /\ PodInv /\ CacheInv /\ OrderInv

(* It holds in every reachable state. *)
LEMMA SafetyInvariance ==
    ASSUME NoRetry, SleepSuffices, ~MayExpire
    PROVE  Spec => []SafetyInv
<1>1. Init => OrderInv
  <2> SUFFICES ASSUME Init PROVE OrderInv
    OBVIOUS
  <2>1. AllRecorded
    BY ConstantsAssumption DEF Init, AllRecorded, Contains
  <2>2. Len(podQueue) = Len(NewPods) /\ Len(NewPods) \in Nat /\ DOMAIN NewPods = 1..Len(NewPods)
        /\ Len(success) = 0 /\ Len(failed) = 0
    BY ConstantsAssumption DEF Init
  <2>3. \A i \in DOMAIN NewPods : ~(i > Len(podQueue) + 1)
    BY <2>2
  <2>4. Fresh
    BY Constants DEF Init, Fresh, AllPods, Threads
  <2>5. Len(podQueue) + 0 + Len(success) + Len(failed) = Len(NewPods)
    BY <2>2
  <2> QED
    BY <2>1, <2>3, <2>4, <2>5 DEF OrderInv, Fresh
<1>2. Inv /\ PodInv /\ CacheInv /\ OrderInv /\ Inv' /\ [Next]_vars => OrderInv'
  <2> SUFFICES ASSUME Inv, PodInv, CacheInv, OrderInv, Inv', [Next]_vars PROVE OrderInv'
    OBVIOUS
  <2>1. /\ Len(podQueue') + (IF AllRecorded' THEN 0 ELSE 1) + Len(success') + Len(failed')
              = Len(NewPods)
        /\ \A i \in DOMAIN NewPods : i > Len(podQueue') + 1 => Recorded(NewPods[i])'
    BY CountStep
  <2>2. (Fresh \/ nodesSeen = Nodes)'
    BY FreshStep DEF OrderInv
  <2>3. (pc[Sched] \in {"fail", "update"} /\ ~SchedulingError(current) => Fits(current) = {})'
    BY RefusalStep DEF SchedulingError
  <2> QED
    BY <2>1, <2>2, <2>3 DEF OrderInv
<1> QED
  BY <1>1, <1>2, Invariance, CacheInvariance, PTL DEF Spec, SafetyInv

(* Every step is a placement, a refusal, the end or invisible. *)
LEMMA StepIsStep == SafetyInv /\ [Next]_vars => [Greedy!Next]_(Greedy!vars)
<1> SUFFICES ASSUME Inv, PodInv, CacheInv, OrderInv, [Next]_vars
             PROVE  Greedy!Next \/ UNCHANGED Greedy!vars
  BY DEF SafetyInv
<1>1. CASE UNCHANGED <<success, failed, report>>
  BY <1>1 DEF Greedy!vars
<1>2. ASSUME NEW p \in Pods, Record(p) PROVE Greedy!Next
  BY <1>2, RecordIsPlace DEF Greedy!Next
<1>3. CASE Update
  BY <1>3, UpdateIsRefuse DEF Greedy!Next
<1>4. CASE Report
  BY <1>4, ReportIsFinish DEF Greedy!Next
<1>5. ASSUME NEW p \in Pods, NEW q \in Pods, RecordRace(p, q) PROVE FALSE
  BY <1>5, BinderHolds DEF RecordRace, BindBusy
<1>6. CASE UNCHANGED vars
  BY <1>1, <1>6 DEF vars, status
<1> QED
  BY <1>1, <1>2, <1>3, <1>4, <1>5, <1>6, StepCases
    DEF RunStart, RunFirst, RunEmpty, RunCloseStop, Loop, TakePod, SelectHost,
        ScheduleFitError, ScheduleError, Assume, FailEvent, Drain, Exit, NextPod,
        NoPodsLeft, Close, SendStop, SendOnClosedStop, Bind, BindEvent, NodeAdded,
        AddPodToCache, AddPodToSchedulingQueue, DeletePodFromSchedulingQueue,
        ExpireAssumedPod, Retry, status

(* The safety part of ImplementsGreedy: without retries, when the sleep of *)
(* Run suffices and no assumed pod expires, the goroutines of the          *)
(* simulation take the pods in the list's order, place each on a node that *)
(* can host it beside the checkpoint and the earlier ones, refuse it only  *)
(* if there is no such node, and report when all have their verdict.       *)
THEOREM RefinesGreedy ==
    ASSUME NoRetry, SleepSuffices, ~MayExpire
    PROVE  Spec => Greedy!Init /\ [][Greedy!Next]_(Greedy!vars)
<1>1. Init => Greedy!Init
  BY InitIsInit
<1>2. SafetyInv /\ [Next]_vars => [Greedy!Next]_(Greedy!vars)
  BY StepIsStep
<1> QED
  BY <1>1, <1>2, SafetyInvariance, PTL DEF Spec

(* A placement takes room and gives none back. *)
LEMMA PlaceTakesRoom ==
    ASSUME DownwardClosed, TypeOK, Greedy!Place, NEW p \in Pods, Greedy!CanHost(p) = {}
    PROVE  (Greedy!CanHost(p) = {})'
<1> DEFINE turn == Greedy!Turn
<1>1. PICK h \in Nodes : success' = Append(success, [pod |-> turn, host |-> h])
  BY DEF Greedy!Place, Greedy!CanHost
<1> DEFINE e == [pod |-> turn, host |-> h]
<1> HIDE DEF turn, e
<1>2. DOMAIN success \subseteq DOMAIN success' /\ \A j \in DOMAIN success : success'[j] = success[j]
  BY <1>1 DEF TypeOK, e
<1>3. \A n \in Nodes : Greedy!PlacedOn(n) \subseteq Greedy!PlacedOn(n)'
  BY <1>2 DEF Greedy!PlacedOn
<1>4. ASSUME NEW n \in Nodes, p \notin BadPods, Greedy!PlacedOn(n)' \cup {p} \in Feasible[n]
      PROVE  FALSE
  <2>1. Greedy!PlacedOn(n) \cup {p} \in SUBSET (Greedy!PlacedOn(n)' \cup {p})
    BY <1>3
  <2>2. Greedy!PlacedOn(n) \cup {p} \in Feasible[n]
    BY <1>4, <2>1 DEF DownwardClosed
  <2> QED
    BY <1>4, <2>2 DEF Greedy!CanHost
<1> QED
  BY <1>4 DEF Greedy!CanHost

(* The verdicts of the report are final in both directions.  Without       *)
(* retries, when the sleep of Run suffices, no assumed pod expires and a   *)
(* node that can host some pods can host fewer, a pod that Update recorded *)
(* as failed (simulator.go:178) fits on no node beside the checkpoint and  *)
(* all the placements, those after its refusal included: the report never  *)
(* blames a lack of room for a pod that could still be added at the end.   *)
THEOREM RefusalIsJustified ==
    ASSUME NoRetry, SleepSuffices, ~MayExpire, DownwardClosed
    PROVE  Spec => []RefusalStands
<1>1. Init => RefusalStands
  BY DEF Init, RefusalStands
<1>2. SafetyInv /\ RefusalStands /\ [Next]_vars => RefusalStands'
  <2> SUFFICES ASSUME SafetyInv, RefusalStands, [Next]_vars
               PROVE  RefusalStands'
    OBVIOUS
  <2>1. TypeOK
    BY DEF SafetyInv, Inv, TypeInv
  <2>2. CASE Greedy!Place
    <3> SUFFICES ASSUME NEW j \in DOMAIN failed
                 PROVE  (Greedy!CanHost(failed[j]) = {})'
      BY <2>2 DEF RefusalStands, Greedy!Place
    <3>1. PICK p \in Pods : p = failed[j]
      BY <2>1 DEF TypeOK
    <3>2. Greedy!CanHost(p) = {}
      BY <3>1 DEF RefusalStands
    <3>3. (Greedy!CanHost(p) = {})'
      BY <2>1, <2>2, <3>2, PlaceTakesRoom
    <3>4. p = failed'[j]
      BY <2>2, <3>1 DEF Greedy!Place
    <3> QED
      BY <3>3, <3>4 DEF Greedy!CanHost
  <2>3. CASE Greedy!Refuse
    <3>1. PICK p : p = Greedy!Turn
      OBVIOUS
    <3>2. /\ failed' = Append(failed, p) /\ UNCHANGED success
          /\ Greedy!CanHost(p) = {}
      BY <2>3, <3>1 DEF Greedy!Refuse
    <3>3. \A q : Greedy!CanHost(q)' = Greedy!CanHost(q)
      BY <3>2 DEF Greedy!CanHost, Greedy!PlacedOn
    <3>4. \A j \in DOMAIN failed' : \/ j \in DOMAIN failed /\ failed'[j] = failed[j]
                                   \/ failed'[j] = p
      BY <2>1, <3>2 DEF TypeOK
    <3> QED
      BY <3>2, <3>3, <3>4 DEF RefusalStands, Greedy!CanHost, Greedy!PlacedOn
  <2>4. CASE UNCHANGED <<success, failed>>
    BY <2>4 DEF RefusalStands, Greedy!CanHost, Greedy!PlacedOn
  <2>5. UNCHANGED Greedy!vars => UNCHANGED <<success, failed>>
    BY DEF Greedy!vars
  <2>6. Greedy!Finish => UNCHANGED <<success, failed>>
    BY DEF Greedy!Finish
  <2> QED
    BY <2>2, <2>3, <2>4, <2>5, <2>6, StepIsStep DEF Greedy!Next
<1> QED
  BY <1>1, <1>2, SafetyInvariance, PTL DEF Spec
=============================================================================

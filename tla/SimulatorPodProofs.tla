-------------------------- MODULE SimulatorPodProofs --------------------------
(***************************************************************************)
(* What holds of every pod in every configuration of Simulator, retries    *)
(* included.                                                               *)
(***************************************************************************)
EXTENDS SimulatorProofs, FiniteSetTheorems

(* The scheduling queue as a set: Pop ... *)
LEMMA TakeFacts ==
    ASSUME NEW S, NEW s \in Seq(S), s # <<>>, Distinct(s)
    PROVE  /\ Head(s) \in S /\ Contains(s, Head(s))
           /\ Distinct(Tail(s))
           /\ \A q : Contains(Tail(s), q) <=> Contains(s, q) /\ q # Head(s)
<1> DEFINE n == Len(s)
           t == Tail(s)
<1>1. n \in Nat /\ n >= 1
  BY EmptySeq
<1>2. /\ Head(s) = s[1] /\ DOMAIN s = 1..n /\ DOMAIN t = 1..(n - 1)
      /\ \A i \in 1..(n - 1) : t[i] = s[i + 1]
  BY <1>1
<1>3. \A i \in 1..n : s[i] = s[1] => i = 1
  BY <1>1, <1>2 DEF Distinct
<1>4. Head(s) \in S /\ Contains(s, Head(s))
  BY <1>1, <1>2 DEF Contains
<1>5. \A i, j \in 1..n : s[i] = s[j] => i = j
  BY <1>2 DEF Distinct
<1> HIDE DEF n, t
<1>6. \A i \in 1..(n - 1) : i + 1 \in 1..n /\ i + 1 # 1
  BY <1>1
<1>7. \A i \in 1..n : i = 1 \/ \E j \in 1..(n - 1) : i = j + 1
  <2> TAKE i \in 1..n
  <2>1. i = 1 \/ (i - 1 \in 1..(n - 1) /\ i = (i - 1) + 1)
    BY <1>1
  <2> QED
    BY <2>1
<1>8. Distinct(t)
  <2>1. \A i, j \in 1..(n - 1) : t[i] = t[j] => i + 1 = j + 1
    BY <1>2, <1>5, <1>6
  <2>2. \A i, j \in 1..(n - 1) : i + 1 = j + 1 => i = j
    BY <1>1
  <2> QED
    BY <1>2, <2>1, <2>2 DEF Distinct
<1>9. \A q : Contains(t, q) => Contains(s, q) /\ q # Head(s)
  BY <1>2, <1>3, <1>6 DEF Contains
<1>10. \A q : Contains(s, q) /\ q # Head(s) => Contains(t, q)
  <2> SUFFICES ASSUME NEW q, Contains(s, q), q # Head(s) PROVE Contains(t, q)
    OBVIOUS
  <2>1. PICK i \in 1..n : s[i] = q
    BY <1>2 DEF Contains
  <2>2. PICK j \in 1..(n - 1) : i = j + 1
    BY <2>1, <1>2, <1>7
  <2> QED
    BY <2>1, <2>2, <1>2 DEF Contains
<1> QED
  BY <1>4, <1>8, <1>9, <1>10 DEF t

(* ... add if not present ... *)
LEMMA WithPodFacts ==
    ASSUME NEW S, NEW s \in Seq(S), NEW p \in S, Distinct(s)
    PROVE  /\ Distinct(WithPod(s, p))
           /\ \A q : Contains(WithPod(s, p), q) <=> Contains(s, q) \/ q = p
<1>1. CASE Contains(s, p)
  BY <1>1 DEF WithPod
<1>2. CASE ~Contains(s, p)
  BY <1>2 DEF WithPod, Contains, Distinct
<1> QED
  BY <1>1, <1>2

(* ... and delete. *)
LEMMA WithoutFacts ==
    ASSUME NEW S, NEW s \in Seq(S), NEW p, Distinct(s)
    PROVE  /\ Distinct(Without(s, p))
           /\ \A q : Contains(Without(s, p), q) <=> Contains(s, q) /\ q # p
<1>1. CASE ~Contains(s, p)
  BY <1>1 DEF Without, Contains
<1>2. CASE Contains(s, p)
  <2> DEFINE i == CHOOSE j \in DOMAIN s : s[j] = p
             n == Len(s)
             l == SubSeq(s, 1, i - 1)
             r == SubSeq(s, i + 1, n)
             w == Without(s, p)
  <2>1. i \in 1..n /\ n \in Nat /\ s[i] = p /\ DOMAIN s = 1..n
    BY <1>2 DEF Contains
  <2>2. \A j \in 1..n : s[j] \in S
    OBVIOUS
  <2>3. w = l \o r
    BY <1>2 DEF Without
  <2> HIDE DEF i, n, w
  <2>4. /\ l \in Seq(S)
        /\ Len(l) = IF 1 <= i - 1 THEN i - 1 - 1 + 1 ELSE 0
        /\ \A j \in 1..(i - 1 - 1 + 1) : l[j] = s[1 + j - 1]
    <3>1. /\ 1 \in Int /\ i - 1 \in Int /\ \A j \in 1..(i - 1) : s[j] \in S
      BY <2>1, <2>2
    <3> QED
      BY <3>1, SubSeqProperties
  <2>5. /\ r \in Seq(S)
        /\ Len(r) = IF i + 1 <= n THEN n - (i + 1) + 1 ELSE 0
        /\ \A j \in 1..(n - (i + 1) + 1) : r[j] = s[i + 1 + j - 1]
    <3>1. /\ i + 1 \in Int /\ n \in Int /\ \A j \in (i + 1)..n : s[j] \in S
      BY <2>1, <2>2
    <3> QED
      BY <3>1, SubSeqProperties
  <2> HIDE DEF l, r
  <2>6. Len(l) = i - 1 /\ Len(r) = n - i
    BY <2>1, <2>4, <2>5
  <2>7. /\ DOMAIN w = 1..(n - 1)
        /\ \A j \in 1..(n - 1) : w[j] = IF j < i THEN l[j] ELSE r[j - (i - 1)]
    <3>1. /\ w \in Seq(S)
          /\ Len(w) = Len(l) + Len(r)
          /\ \A j \in 1..(Len(l) + Len(r)) :
                w[j] = IF j <= Len(l) THEN l[j] ELSE r[j - Len(l)]
      BY <2>3, <2>4, <2>5, ConcatProperties
    <3>2. Len(l) + Len(r) = n - 1 /\ \A j \in 1..(n - 1) : j <= i - 1 <=> j < i
      BY <2>1, <2>6
    <3>3. DOMAIN w = 1..Len(w)
      BY <3>1
    <3> QED
      BY <2>6, <3>1, <3>2, <3>3
  <2>8. \A j \in 1..(n - 1) : w[j] = IF j < i THEN s[j] ELSE s[j + 1]
    <3> TAKE j \in 1..(n - 1)
    <3>1. CASE j < i
      <4>1. j \in 1..(i - 1 - 1 + 1) /\ 1 + j - 1 = j
        BY <2>1, <3>1
      <4> QED
        BY <4>1, <3>1, <2>4, <2>7
    <3>2. CASE ~(j < i)
      <4>1. /\ j - (i - 1) \in 1..(n - (i + 1) + 1)
            /\ i + 1 + (j - (i - 1)) - 1 = j + 1
        BY <2>1, <3>2
      <4> QED
        BY <4>1, <3>2, <2>5, <2>7
    <3> QED
      BY <3>1, <3>2
  <2>9. \A j \in 1..n : s[j] = p => j = i
    BY <2>1 DEF Distinct
  <2>10. Distinct(w)
    <3>1. \A j, k \in 1..n : s[j] = s[k] => j = k
      BY <2>1 DEF Distinct
    <3>2. \A j, k \in 1..(n - 1) : w[j] = w[k] => j = k
      BY <3>1, <2>8, <2>1
    <3> QED
      BY <3>2, <2>7 DEF Distinct
  <2>11. \A q : Contains(w, q) => Contains(s, q) /\ q # p
    <3>1. \A j \in 1..(n - 1) : \E k \in 1..n : k # i /\ w[j] = s[k]
      BY <2>1, <2>8
    <3> QED
      BY <3>1, <2>1, <2>7, <2>9 DEF Contains
  <2>12. \A q : Contains(s, q) /\ q # p => Contains(w, q)
    <3>1. \A k \in 1..n : k # i => \E j \in 1..(n - 1) : w[j] = s[k]
      <4> TAKE k \in 1..n
      <4>1. CASE k < i
        BY <4>1, <2>1, <2>8
      <4>2. CASE k > i
        <5>1. k - 1 \in 1..(n - 1) /\ ~(k - 1 < i) /\ (k - 1) + 1 = k
          BY <4>2, <2>1
        <5> QED
          BY <5>1, <2>8
      <4> QED
        BY <4>1, <4>2, <2>1
    <3> QED
      BY <3>1, <2>1, <2>7 DEF Contains
  <2> QED
    BY <2>10, <2>11, <2>12 DEF w
<1> QED
  BY <1>1, <1>2

(* A step leaves alone what is known of the pods. *)
LEMMA PodStep ==
    ASSUME PodInv, TypeInv', [Next]_vars
    PROVE  PodInv'
<1> USE DEF PodInv
<1>1. CASE RunStart
  BY <1>1, Constants
    DEF TypeInv, TypeOK, InHand, Threads, AllPods, Lifecycle, Waiting, WaitsOnce, NeverBound,
        InHandOfSched, Succeeded, Recorded, Stored, Goto, SchedPc, BindPc, RunStart, informers,
        scheduler, recorder, status
<1>2. CASE RunEmpty
  BY <1>2, Constants
    DEF TypeInv, TypeOK, InHand, Threads, AllPods, Lifecycle, Waiting, WaitsOnce, NeverBound,
        InHandOfSched, Succeeded, Recorded, Stored, Goto, SchedPc, BindPc, RunEmpty, StopAndClose, informers,
        scheduler, recorder, status
<1>3. CASE RunCloseStop
  BY <1>3, Constants
    DEF TypeInv, TypeOK, InHand, Threads, AllPods, Lifecycle, Waiting, WaitsOnce, NeverBound,
        InHandOfSched, Succeeded, Recorded, Stored, Goto, SchedPc, BindPc, RunCloseStop, informers,
        scheduler, recorder, status
<1>4. CASE Report
  BY <1>4, Constants
    DEF TypeInv, TypeOK, InHand, Threads, AllPods, Lifecycle, Waiting, WaitsOnce, NeverBound,
        InHandOfSched, Succeeded, Recorded, Stored, Goto, SchedPc, BindPc, Report, informers,
        scheduler, recorder, status
<1>5. CASE Loop
  BY <1>5, Constants
    DEF TypeInv, TypeOK, InHand, Threads, AllPods, Lifecycle, Waiting, WaitsOnce, NeverBound,
        InHandOfSched, Succeeded, Recorded, Stored, Goto, SchedPc, BindPc, Loop, informers,
        scheduler, recorder, status
<1>6. CASE SelectHost
  BY <1>6, Constants
    DEF TypeInv, TypeOK, InHand, Threads, AllPods, Lifecycle, Waiting, WaitsOnce, NeverBound,
        InHandOfSched, Succeeded, Recorded, Stored, Goto, SchedPc, BindPc, SelectHost, Fits, informers,
        scheduler, recorder, status
<1>7. CASE ScheduleFitError
  BY <1>7, Constants
    DEF TypeInv, TypeOK, InHand, Threads, AllPods, Lifecycle, Waiting, WaitsOnce, NeverBound,
        InHandOfSched, Succeeded, Recorded, Stored, Goto, SchedPc, BindPc, ScheduleFitError, informers,
        scheduler, recorder, status
<1>8. CASE ScheduleError
  BY <1>8, Constants
    DEF TypeInv, TypeOK, InHand, Threads, AllPods, Lifecycle, Waiting, WaitsOnce, NeverBound,
        InHandOfSched, Succeeded, Recorded, Stored, Goto, SchedPc, BindPc, ScheduleError, informers,
        scheduler, recorder, status
<1>9. CASE Assume
  <2>1. /\ current \in Pods /\ InHandOfSched(current) /\ pc[Sched] = "assume"
        /\ cache' = [cache EXCEPT ![current] = host[current]]
        /\ pc' = [pc EXCEPT ![Sched] = "loop", ![current] = "bind"]
        /\ UNCHANGED <<store, toQueue, offQueue, schedQ, current, host, retrying,
                       success, failed>>
    BY <1>9 DEF Assume, TypeInv, InHand, InHandOfSched, informers, status
  <2>2. /\ pc'[Sched] = "loop" /\ pc'[current] = "bind"
        /\ \A q \in Pods \ {current} : pc'[q] = pc[q] /\ cache'[q] = cache[q]
    BY <2>1, Constants DEF TypeInv, TypeOK, Threads, AllPods
  <2>3. /\ ~SchedulingError(current) /\ WaitsOnce(current) /\ Lifecycle(current)
        /\ pc[current] = "idle" /\ ~Contains(failed, current)
    BY <2>1 DEF NeverBound, WaitsOnce, Waiting
  <2>4. /\ ~InHandOfSched(current)'
        /\ \A q \in Pods : InHandOfSched(q)' => InHandOfSched(q)
        /\ \A q \in Pods : Waiting(q)' => Waiting(q)
    BY <2>1, <2>2 DEF InHandOfSched, Waiting
  <2>5. \A q \in Pods : Recorded(q)' <=> Recorded(q)
    BY <2>1 DEF Recorded
  <2>6. \A q \in Pods : Succeeded(q)' <=> Succeeded(q)
    BY <2>1 DEF Succeeded
  <2>7. store[current] = Unassigned /\ ~Succeeded(current) /\ ~Waiting(current)'
    BY <2>1, <2>2, <2>3, <2>4 DEF Lifecycle, Waiting, WaitsOnce, Stored
  <2>8. Lifecycle(current)'
    BY <2>1, <2>2, <2>3, <2>4, <2>5, <2>6, <2>7, Constants DEF Lifecycle, Stored
  <2>9. \A q \in Pods \ {current} : Lifecycle(q)'
    BY <2>1, <2>2, <2>4, <2>5, <2>6 DEF Lifecycle
  <2>10. ASSUME NEW q \in Pods, ~SchedulingError(q) PROVE WaitsOnce(q)'
    BY <2>1, <2>2, <2>3, <2>4, <2>7, <2>10 DEF WaitsOnce
  <2>11. ASSUME NEW q \in Pods, SchedulingError(q) PROVE NeverBound(q)'
    BY <2>1, <2>2, <2>3, <2>11 DEF NeverBound
  <2> QED
    BY <2>1, <2>8, <2>9, <2>10, <2>11 DEF SchedulingError
<1>10. CASE FailEvent
  BY <1>10, Constants
    DEF TypeInv, TypeOK, InHand, Threads, AllPods, Lifecycle, Waiting, WaitsOnce, NeverBound,
        InHandOfSched, Succeeded, Recorded, Stored, Goto, SchedPc, BindPc, FailEvent, informers,
        scheduler, recorder, status
<1>11. CASE Drain
  BY <1>11, Constants
    DEF TypeInv, TypeOK, InHand, Threads, AllPods, Lifecycle, Waiting, WaitsOnce, NeverBound,
        InHandOfSched, Succeeded, Recorded, Stored, Goto, SchedPc, BindPc, Drain, informers,
        scheduler, recorder, status
<1>12. ASSUME NEW t \in Threads, NoPodsLeft(t) PROVE PodInv'
  BY <1>12, Constants
    DEF TypeInv, TypeOK, InHand, Threads, AllPods, Lifecycle, Waiting, WaitsOnce, NeverBound,
        InHandOfSched, Succeeded, Recorded, Stored, Goto, SchedPc, BindPc, NoPodsLeft, AfterCallback, StopAndClose, informers,
        scheduler, recorder, status
<1>13. ASSUME NEW t \in Threads, Close(t) PROVE PodInv'
  BY <1>13, Constants
    DEF TypeInv, TypeOK, InHand, Threads, AllPods, Lifecycle, Waiting, WaitsOnce, NeverBound,
        InHandOfSched, Succeeded, Recorded, Stored, Goto, SchedPc, BindPc, Close, AfterCallback, StopAndClose, informers,
        scheduler, recorder, status
<1>14. ASSUME NEW t \in Threads, SendStop(t) PROVE PodInv'
  BY <1>14, Constants
    DEF TypeInv, TypeOK, InHand, Threads, AllPods, Lifecycle, Waiting, WaitsOnce, NeverBound,
        InHandOfSched, Succeeded, Recorded, Stored, Goto, SchedPc, BindPc, SendStop, AfterCallback, StopAndClose, informers,
        scheduler, recorder, status
<1>15. ASSUME NEW t \in Threads, SendOnClosedStop(t) PROVE PodInv'
  BY <1>15, Constants
    DEF TypeInv, TypeOK, InHand, Threads, AllPods, Lifecycle, Waiting, WaitsOnce, NeverBound,
        InHandOfSched, Succeeded, Recorded, Stored, Goto, SchedPc, BindPc, SendOnClosedStop, AfterCallback, StopAndClose, informers,
        scheduler, recorder, status
<1>16. ASSUME NEW p \in Pods, BindEvent(p) PROVE PodInv'
  BY <1>16, Constants
    DEF TypeInv, TypeOK, InHand, Threads, AllPods, Lifecycle, Waiting, WaitsOnce, NeverBound,
        InHandOfSched, Succeeded, Recorded, Stored, Goto, SchedPc, BindPc, BindEvent, informers,
        scheduler, recorder, status
<1>17. ASSUME NEW n \in Nodes, NodeAdded(n) PROVE PodInv'
  BY <1>17, Constants
    DEF TypeInv, TypeOK, InHand, Threads, AllPods, Lifecycle, Waiting, WaitsOnce, NeverBound,
        InHandOfSched, Succeeded, Recorded, Stored, Goto, SchedPc, BindPc, NodeAdded, informers,
        scheduler, recorder, status
<1>18. ASSUME NEW p \in AllPods, AddPodToCache(p) PROVE PodInv'
  BY <1>18, Constants
    DEF TypeInv, TypeOK, InHand, Threads, AllPods, Lifecycle, Waiting, WaitsOnce, NeverBound,
        InHandOfSched, Succeeded, Recorded, Stored, Goto, SchedPc, BindPc, AddPodToCache, informers,
        scheduler, recorder, status
<1>19. ASSUME NEW p \in Pods, ExpireAssumedPod(p) PROVE PodInv'
  BY <1>19, Constants
    DEF TypeInv, TypeOK, InHand, Threads, AllPods, Lifecycle, Waiting, WaitsOnce, NeverBound,
        InHandOfSched, Succeeded, Recorded, Stored, Goto, SchedPc, BindPc, ExpireAssumedPod, informers,
        scheduler, recorder, status
<1>20. ASSUME NEW p \in Pods, Bind(p) PROVE PodInv'
  BY <1>20, Constants
    DEF TypeInv, TypeOK, InHand, Threads, AllPods, Lifecycle, Waiting, WaitsOnce, NeverBound,
        InHandOfSched, Succeeded, Recorded, Stored, Goto, SchedPc, BindPc, Bind, Placement, informers,
        scheduler, recorder, status
<1>21. CASE UNCHANGED vars
  BY <1>21, Constants
    DEF TypeInv, TypeOK, InHand, Threads, AllPods, Lifecycle, Waiting, WaitsOnce, NeverBound,
        InHandOfSched, Succeeded, Recorded, Stored, Goto, SchedPc, BindPc, vars, informers,
        scheduler, recorder, status
<1>22. CASE TakePod
  <2> DEFINE p == Head(schedQ)
  <2>1. /\ pc[Sched] = "pop" /\ schedQ # <<>> /\ schedQ \in Seq(Pods)
        /\ current' = p /\ schedQ' = Tail(schedQ)
        /\ pc' = [pc EXCEPT ![Sched] = "schedule"]
        /\ UNCHANGED <<store, toQueue, offQueue, cache, host, retrying, success, failed>>
    BY <1>22 DEF TakePod, Goto, TypeInv, TypeOK, informers, status
  <2>2. /\ pc'[Sched] = "schedule" /\ \A q \in Pods : pc'[q] = pc[q]
    BY <2>1, Constants DEF TypeInv, TypeOK, Threads
  <2>3. /\ p \in Pods /\ Contains(schedQ, p) /\ Distinct(schedQ')
        /\ \A q : Contains(schedQ', q) <=> Contains(schedQ, q) /\ q # p
    BY <2>1, TakeFacts
  <2> HIDE DEF p
  <2>4. \A q \in Pods : /\ InHandOfSched(q)' <=> q = p
                        /\ ~InHandOfSched(q)
                        /\ Waiting(q)' <=> Waiting(q)
                        /\ Recorded(q)' <=> Recorded(q)
                        /\ Succeeded(q)' <=> Succeeded(q)
    BY <2>1, <2>2, <2>3 DEF InHandOfSched, Waiting, Recorded, Succeeded
  <2>5. \A q \in Pods : Lifecycle(q)'
    BY <2>1, <2>2, <2>4 DEF Lifecycle
  <2>6. ASSUME NEW q \in Pods, ~SchedulingError(q) PROVE WaitsOnce(q)'
    BY <2>1, <2>2, <2>3, <2>4, <2>6 DEF WaitsOnce
  <2>7. ASSUME NEW q \in Pods, SchedulingError(q) PROVE NeverBound(q)'
    BY <2>2, <2>7 DEF NeverBound
  <2> QED
    BY <2>3, <2>5, <2>6, <2>7 DEF SchedulingError
<1>23. CASE Update
  <2>1. /\ current \in Pods /\ InHandOfSched(current) /\ pc[Sched] = "update"
        /\ failed \in Seq(Pods) /\ failed' = Append(failed, current)
        /\ pc' = [pc EXCEPT ![Sched] = "next"]
        /\ UNCHANGED <<store, toQueue, offQueue, schedQ, cache, current, host, retrying,
                       success>>
    BY <1>23
      DEF Update, Goto, TypeInv, TypeOK, InHand, InHandOfSched, informers, scheduler
  <2>2. pc'[Sched] = "next" /\ \A q \in Pods : pc'[q] = pc[q]
    BY <2>1, Constants DEF TypeInv, TypeOK, Threads
  <2>3. \A q : Contains(failed', q) <=> Contains(failed, q) \/ q = current
    BY <2>1 DEF Contains
  <2>4. \A q \in Pods : /\ ~InHandOfSched(q)'
                        /\ Waiting(q)' => Waiting(q)
                        /\ Recorded(q)' <=> Recorded(q) \/ q = current
                        /\ Succeeded(q)' <=> Succeeded(q)
    BY <2>1, <2>2, <2>3 DEF InHandOfSched, Waiting, Recorded, Succeeded
  <2>5. pc[current] = "idle" /\ Waiting(current)
    BY <2>1 DEF NeverBound, WaitsOnce, Waiting
  <2>6. \A q \in Pods : Lifecycle(q)'
    BY <2>1, <2>2, <2>3, <2>4, <2>5 DEF Lifecycle
  <2>7. ASSUME NEW q \in Pods, ~SchedulingError(q) PROVE WaitsOnce(q)'
    <3>1. q = current => ~Waiting(q)'
      BY <2>1, <2>4, <2>7 DEF WaitsOnce, Waiting
    <3> QED
      BY <3>1, <2>1, <2>2, <2>3, <2>4, <2>7 DEF WaitsOnce
  <2>8. ASSUME NEW q \in Pods, SchedulingError(q) PROVE NeverBound(q)'
    BY <2>2, <2>8 DEF NeverBound
  <2> QED
    BY <2>1, <2>6, <2>7, <2>8 DEF SchedulingError
<1>24. ASSUME RunFirst \/ \E t \in Threads : NextPod(t) PROVE PodInv'
  <2> DEFINE p == podQueue[Len(podQueue)]
  <2>1. PopIntoStore
    BY <1>24 DEF RunFirst, NextPod
  <2>2. /\ p \in Pods /\ Contains(podQueue, p)
        /\ store' = [store EXCEPT ![p] = Unassigned]
        /\ toQueue' = toQueue \cup {p}
    BY <2>1, PopFacts DEF TypeInv
  <2> HIDE DEF p
  <2>3. UNCHANGED <<offQueue, schedQ, cache, current, host, retrying, success, failed>>
    BY <1>24 DEF RunFirst, NextPod, scheduler, status
  <2>4. /\ pc'[Sched] \in {"schedule", "assume", "fail", "update"} => pc'[Sched] = pc[Sched]
        /\ pc[Sched] \in {"schedule", "assume", "fail", "update"} => pc'[Sched] = pc[Sched]
        /\ \A q \in Pods : pc'[q] = pc[q] \/ (pc[q] = "next" /\ pc'[q] = "event")
    BY <1>24, Constants
      DEF RunFirst, NextPod, Goto, AfterCallback, TypeInv, TypeOK, Threads
  <2>5. store[p] = Absent
    BY <2>2 DEF Contains, TypeInv, InHand
  <2>6. /\ store'[p] = Unassigned
        /\ \A q \in Pods \ {p} : store'[q] = store[q]
    BY <2>2 DEF TypeInv, TypeOK, Placement, AllPods
  <2>7. \A q \in Pods : /\ InHandOfSched(q)' <=> InHandOfSched(q)
                        /\ Waiting(q)' <=> Waiting(q) \/ q = p
                        /\ Recorded(q)' <=> Recorded(q)
                        /\ Succeeded(q)' <=> Succeeded(q)
    BY <2>2, <2>3, <2>4 DEF InHandOfSched, Waiting, Recorded, Succeeded
  <2>8. pc[p] = "idle" /\ pc'[p] = "idle" /\ ~Waiting(p) /\ ~Recorded(p)
    BY <2>2, <2>4, <2>5 DEF Lifecycle
  <2>9. ASSUME NEW q \in Pods PROVE Lifecycle(q)'
    <3>1. CASE q = p
      BY <3>1, <2>3, <2>6, <2>7, <2>8, Constants
        DEF Lifecycle, Recorded, Succeeded, Stored
    <3>2. CASE q # p
      BY <3>2, <2>3, <2>4, <2>6, <2>7 DEF Lifecycle, Stored
    <3> QED
      BY <3>1, <3>2
  <2>10. ASSUME NEW q \in Pods, ~SchedulingError(q) PROVE WaitsOnce(q)'
    BY <2>2, <2>3, <2>4, <2>7, <2>8, <2>10 DEF WaitsOnce, Waiting, Recorded
  <2>11. ASSUME NEW q \in Pods, SchedulingError(q) PROVE NeverBound(q)'
    BY <2>3, <2>4, <2>11 DEF NeverBound
  <2> QED
    BY <2>3, <2>9, <2>10, <2>11 DEF SchedulingError
<1>25. ASSUME NEW p \in Pods, Record(p) \/ \E q \in Pods : RecordRace(p, q) PROVE PodInv'
  <2> DEFINE e == [pod |-> p, host |-> host[p]]
  <2>1. /\ pc[p] = "record" /\ success' = Append(success, e)
        /\ UNCHANGED <<store, toQueue, offQueue, schedQ, cache, current, host, retrying,
                       failed>>
    BY <1>25 DEF Record, RecordRace, informers, scheduler
  <2>2. /\ pc'[Sched] = pc[Sched] /\ pc'[p] = "next"
        /\ \A q \in Pods : pc'[q] = pc[q] \/ (pc[q] = "record" /\ pc'[q] = "next")
    <3>1. CASE Record(p)
      BY <3>1, Constants DEF Record, Goto, TypeInv, TypeOK, Threads
    <3>2. ASSUME NEW q \in Pods, RecordRace(p, q)
          PROVE  /\ pc'[Sched] = pc[Sched] /\ pc'[p] = "next" /\ pc'[q] = "next"
                 /\ pc[q] = "record"
                 /\ \A r \in Pods : r # p /\ r # q => pc'[r] = pc[r]
      BY <3>2, Constants DEF RecordRace, TypeInv, TypeOK, Threads
    <3> QED
      BY <1>25, <2>1, <3>1, <3>2
  <2>3. e.pod = p /\ e.host = host[p]
    OBVIOUS
  <2> HIDE DEF e
  <2>4. \A i \in DOMAIN success' : \/ i \in DOMAIN success /\ success'[i] = success[i]
                                   \/ success'[i] = e
    <3>1. success \in Seq(Entry) /\ success' = Append(success, e)
      BY <2>1 DEF TypeInv, TypeOK
    <3>2. /\ Len(success) \in Nat
          /\ DOMAIN success = 1..Len(success)
          /\ DOMAIN success' = 1..(Len(success) + 1)
          /\ \A i \in 1..Len(success) : success'[i] = success[i]
          /\ success'[Len(success) + 1] = e
      BY <3>1
    <3> QED
      BY <3>2
  <2>5. \A q \in Pods : /\ InHandOfSched(q)' <=> InHandOfSched(q)
                        /\ Waiting(q)' <=> Waiting(q)
                        /\ Recorded(q)' => Recorded(q) \/ q = p
                        /\ Succeeded(q)' => Succeeded(q) \/ q = p
    BY <2>1, <2>2, <2>3, <2>4 DEF InHandOfSched, Waiting, Recorded, Succeeded
  <2>6. store[p] # Absent
    BY <2>1 DEF Lifecycle
  <2>7. ASSUME NEW q \in Pods PROVE Lifecycle(q)'
    <3>1. \A i \in DOMAIN success' : success'[i].pod = q => success'[i].host = host'[q]
      BY <2>1, <2>3, <2>4 DEF Lifecycle
    <3> QED
      BY <3>1, <2>1, <2>2, <2>5, <2>6 DEF Lifecycle, Stored
  <2>8. ASSUME NEW q \in Pods, ~SchedulingError(q) PROVE WaitsOnce(q)'
    BY <2>1, <2>2, <2>5, <2>8 DEF WaitsOnce
  <2>9. ASSUME NEW q \in Pods, SchedulingError(q) PROVE NeverBound(q)'
    BY <2>1, <2>2, <2>9 DEF NeverBound
  <2> QED
    BY <2>1, <2>7, <2>8, <2>9 DEF SchedulingError
<1>26. ASSUME NEW p \in Pods,
              \/ AddPodToSchedulingQueue(p)
              \/ DeletePodFromSchedulingQueue(p)
              \/ Retry(p)
       PROVE  PodInv'
  <2>1. /\ UNCHANGED <<store, cache, current, host, pc, success, failed>>
        /\ schedQ \in Seq(Pods)
        /\ offQueue' \subseteq offQueue /\ retrying' \subseteq retrying
    BY <1>26
      DEF AddPodToSchedulingQueue, DeletePodFromSchedulingQueue, Retry, TypeInv, TypeOK,
          informers, status
  <2>2. Distinct(schedQ')
    BY <1>26, <2>1, WithPodFacts, WithoutFacts
      DEF AddPodToSchedulingQueue, DeletePodFromSchedulingQueue, Retry
  <2>3. \A q \in Pods : /\ InHandOfSched(q)' <=> InHandOfSched(q)
                        /\ Recorded(q)' <=> Recorded(q)
                        /\ Succeeded(q)' <=> Succeeded(q)
    BY <2>1 DEF InHandOfSched, Recorded, Succeeded
  <2>4. CASE AddPodToSchedulingQueue(p)
    <3>1. /\ p \in toQueue /\ toQueue' = toQueue \ {p} /\ retrying' = retrying
          /\ \A q \in Pods : Contains(schedQ', q) <=> Contains(schedQ, q) \/ q = p
      BY <2>1, <2>4, WithPodFacts DEF AddPodToSchedulingQueue
    <3>2. \A q \in Pods : Waiting(q)' <=> Waiting(q)
      BY <2>3, <3>1 DEF Waiting
    <3>3. \A q \in Pods : Lifecycle(q)'
      BY <2>1, <2>3, <3>2 DEF Lifecycle
    <3>4. ASSUME NEW q \in Pods, ~SchedulingError(q) PROVE WaitsOnce(q)'
      BY <2>1, <2>3, <3>1, <3>2, <3>4 DEF WaitsOnce
    <3> QED
      BY <2>1, <2>2, <3>3, <3>4 DEF NeverBound, SchedulingError
  <2>5. CASE DeletePodFromSchedulingQueue(p)
    <3>1. /\ toQueue' = toQueue /\ retrying' = retrying
          /\ \A q \in Pods : Contains(schedQ', q) <=> Contains(schedQ, q) /\ q # p
      BY <2>1, <2>5, WithoutFacts DEF DeletePodFromSchedulingQueue
    <3>2. \A q \in Pods : Waiting(q)' => Waiting(q)
      BY <2>3, <3>1 DEF Waiting
    <3>3. \A q \in Pods : Lifecycle(q)'
      BY <2>1, <2>3, <3>2 DEF Lifecycle
    <3>4. ASSUME NEW q \in Pods, ~SchedulingError(q) PROVE WaitsOnce(q)'
      BY <2>1, <2>3, <3>1, <3>2, <3>4 DEF WaitsOnce
    <3> QED
      BY <2>1, <2>2, <3>3, <3>4 DEF NeverBound, SchedulingError
  <2>6. CASE Retry(p)
    <3>1. /\ p \in retrying /\ toQueue' = toQueue /\ offQueue' = offQueue
          /\ \/ schedQ' = schedQ
             \/ /\ store[p] = Unassigned
                /\ \A q \in Pods : Contains(schedQ', q) <=> Contains(schedQ, q) \/ q = p
      BY <2>1, <2>6, WithPodFacts DEF Retry, informers
    <3>2. SchedulingError(p)
      BY <3>1 DEF WaitsOnce
    <3>3. \A q \in Pods : Waiting(q)' => Waiting(q) \/ (q = p /\ store[p] = Unassigned)
      BY <2>3, <3>1 DEF Waiting
    <3>4. \A q \in Pods : Lifecycle(q)'
      BY <2>1, <2>3, <3>1, <3>3, Constants DEF Lifecycle
    <3>5. ASSUME NEW q \in Pods, ~SchedulingError(q) PROVE WaitsOnce(q)'
      BY <2>1, <2>3, <3>1, <3>2, <3>3, <3>5 DEF WaitsOnce
    <3> QED
      BY <2>1, <2>2, <3>4, <3>5 DEF NeverBound, SchedulingError
  <2> QED
    BY <1>26, <2>4, <2>5, <2>6
<1>27. Exit => UNCHANGED vars
  BY DEF Exit
<1> QED
  BY StepCases, <1>1, <1>2, <1>3, <1>4, <1>5, <1>6, <1>7, <1>8, <1>9, <1>10, <1>11,
     <1>12, <1>13, <1>14, <1>15, <1>16, <1>17, <1>18, <1>19, <1>20, <1>21, <1>22,
     <1>23, <1>24, <1>25, <1>26, <1>27

(* New: every pod is in the queue and nowhere else. *)
LEMMA PodInit == Init => PodInv
<1> SUFFICES ASSUME Init PROVE PodInv
  OBVIOUS
<1>1. TypeInv
  BY TypeInit
<1>2. \A p \in Pods : /\ store[p] = Absent /\ cache[p] = Absent /\ pc[p] = "idle"
                      /\ ~Waiting(p) /\ ~Recorded(p) /\ ~Succeeded(p)
  BY Constants
    DEF Init, AllPods, Threads, Waiting, InHandOfSched, Recorded, Succeeded, Contains
<1>3. \A p \in Pods : Lifecycle(p)
  BY <1>2, Constants DEF Init, Lifecycle, Contains, Stored
<1>4. \A p \in Pods : WaitsOnce(p) /\ NeverBound(p)
  BY <1>2, Constants DEF Init, WaitsOnce, NeverBound, Waiting, Contains, Threads
<1>5. Distinct(schedQ)
  BY DEF Init, Distinct
<1> QED
  BY <1>1, <1>3, <1>4, <1>5 DEF PodInv

(* The lifecycle of the pods holds in every reachable state. *)
LEMMA PodInvariance == Spec => []PodInv
<1>1. PodInv /\ [Next]_vars => PodInv'
  BY PodStep, TypeStep DEF PodInv
<1> QED
  BY <1>1, PodInit, PTL DEF Spec

-----------------------------------------------------------------------------
(* In every configuration sched.assume finds its pod absent from the       *)
(* scheduler cache: its error path, after which the simulation would stop, *)
(* is never taken.                                                         *)
THEOREM NeverAssumedTwice == Spec => []AssumeSucceeds
<1>1. PodInv => AssumeSucceeds
  <2> SUFFICES ASSUME PodInv, pc[Sched] = "assume" PROVE cache[current] = Absent
    BY DEF AssumeSucceeds
  <2>1. current \in Pods /\ InHandOfSched(current)
    BY DEF PodInv, TypeInv, InHand, InHandOfSched
  <2>2. pc[current] = "idle"
    BY <2>1 DEF PodInv, NeverBound, WaitsOnce, Waiting
  <2> QED
    BY <2>1, <2>2 DEF PodInv, Lifecycle
<1> QED
  BY <1>1, PodInvariance, PTL

(* In every configuration, retries and delays included, a pod is reported  *)
(* on the host it is stored on, and a failed pod is stored unassigned.     *)
THEOREM ReportedIsStored == Spec => []OutcomeMatchesStore
<1>1. PodInv => OutcomeMatchesStore
  <2> SUFFICES ASSUME PodInv PROVE OutcomeMatchesStore
    OBVIOUS
  <2>1. /\ \A i \in DOMAIN success : success[i].pod \in Pods
        /\ \A i \in DOMAIN failed : failed[i] \in Pods
    BY ListsOfPods DEF PodInv, TypeInv
  <2>2. \A i \in DOMAIN success : store[success[i].pod] = success[i].host
    <3> TAKE i \in DOMAIN success
    <3>1. Lifecycle(success[i].pod) /\ Succeeded(success[i].pod)
      BY <2>1 DEF PodInv, Succeeded
    <3> QED
      BY <3>1 DEF Lifecycle, Stored
  <2>3. \A i \in DOMAIN failed : store[failed[i]] = Unassigned
    <3> TAKE i \in DOMAIN failed
    <3>1. Lifecycle(failed[i]) /\ Contains(failed, failed[i])
      BY <2>1 DEF PodInv, Contains
    <3> QED
      BY <3>1 DEF Lifecycle, Recorded
  <2> QED
    BY <2>2, <2>3 DEF OutcomeMatchesStore
<1> QED
  BY <1>1, PodInvariance, PTL

(* In every configuration a failed pod stays as it is stored: no retry and *)
(* no late event ever binds it.                                            *)
THEOREM FailureIsFinal == Spec => FailedIsFinal
<1>1. PodInv /\ [Next]_vars =>
        [\A p \in Pods : Contains(failed, p) => store'[p] = store[p]]_vars
  <2> SUFFICES ASSUME PodInv, [Next]_vars, NEW p \in Pods, Contains(failed, p)
               PROVE  store'[p] = store[p]
    OBVIOUS
  <2>1. pc[p] = "idle" /\ store[p] # Absent
    BY DEF PodInv, Lifecycle, Recorded
  <2>2. ASSUME PopIntoStore PROVE store'[p] = store[p]
    <3> DEFINE q == podQueue[Len(podQueue)]
    <3>1. /\ q \in Pods /\ Contains(podQueue, q)
          /\ store' = [store EXCEPT ![q] = Unassigned]
      BY <2>2, PopFacts DEF PodInv, TypeInv
    <3> HIDE DEF q
    <3>2. store[q] = Absent
      BY <3>1 DEF Contains, PodInv, TypeInv, InHand
    <3> QED
      BY <2>1, <3>1, <3>2 DEF PodInv, TypeInv, TypeOK, Placement, AllPods
  <2>3. ASSUME NEW q \in Pods, Bind(q) PROVE store'[p] = store[p]
    BY <2>1, <2>3 DEF Bind, PodInv, TypeInv, TypeOK, Placement, AllPods
  <2>4. CASE UNCHANGED vars
    BY <2>4 DEF vars
  <2>5. CASE Next
    BY <2>2, <2>3, <2>5, StepCases
      DEF RunStart, RunFirst, RunEmpty, RunCloseStop, Report, Loop, TakePod,
          SelectHost, ScheduleFitError, ScheduleError, Assume, FailEvent, Update,
          Drain, Exit, vars, NextPod, NoPodsLeft, Close, SendStop, SendOnClosedStop,
          Record, BindEvent, RecordRace, NodeAdded, AddPodToCache,
          AddPodToSchedulingQueue, DeletePodFromSchedulingQueue, ExpireAssumedPod,
          Retry
  <2> QED
    BY <2>4, <2>5
<1> QED
  BY <1>1, PodInvariance, PTL DEF Spec, FailedIsFinal

-----------------------------------------------------------------------------
(* The binding goroutines that still have to send their event. *)
LEMMA OwingFinite ==
    /\ IsFiniteSet(Owing) /\ Cardinality(Owing) \in Nat
    /\ \A p \in Pods \ Owing : Cardinality(Owing \cup {p}) = Cardinality(Owing) + 1
    /\ \A p \in Owing : Cardinality(Owing \ {p}) = Cardinality(Owing) - 1
    /\ \A p, q \in Pods \ Owing : p # q =>
          Cardinality(Owing \cup {p, q}) = Cardinality(Owing) + 2
<1>1. IsFiniteSet(Owing) /\ Cardinality(Owing) \in Nat
  BY ConstantsAssumption, FS_Subset, FS_CardinalityType DEF Owing
<1>2. \A p \in Pods \ Owing : /\ IsFiniteSet(Owing \cup {p})
                              /\ Cardinality(Owing \cup {p}) = Cardinality(Owing) + 1
  BY <1>1, FS_AddElement
<1>3. \A p \in Owing : Cardinality(Owing \ {p}) = Cardinality(Owing) - 1
  BY <1>1, FS_RemoveElement
<1>4. ASSUME NEW p \in Pods \ Owing, NEW q \in Pods \ Owing, p # q
      PROVE  Cardinality(Owing \cup {p, q}) = Cardinality(Owing) + 2
  <2>1. (Owing \cup {p}) \cup {q} = Owing \cup {p, q} /\ q \notin Owing \cup {p}
    BY <1>4
  <2>2. Cardinality((Owing \cup {p}) \cup {q}) = Cardinality(Owing \cup {p}) + 1
    BY <1>2, <2>1, FS_AddElement
  <2>3. Cardinality(Owing \cup {p, q}) = (Cardinality(Owing) + 1) + 1
    BY <1>2, <2>1, <2>2, Zenon
  <2> QED
    BY <1>1, <2>3
<1> QED
  BY <1>1, <1>2, <1>3, <1>4

(* Every step keeps a drainer for every event sent or still to be sent. *)
LEMMA RecorderStep == TypeOK /\ RecorderInv /\ [Next]_vars => RecorderInv'
<1> SUFFICES ASSUME TypeOK, RecorderInv, [Next]_vars PROVE RecorderInv'
  OBVIOUS
<1> DEFINE k == Cardinality(Owing)
           due == IF pc[Sched] = "update" THEN 1 ELSE 0
<1>1. /\ k \in Nat /\ events \in Nat /\ drainers \in Nat
      /\ events + k <= drainers + due
  BY OwingFinite, Constants DEF RecorderInv, TypeOK
<1>2. ASSUME Owing' = Owing, UNCHANGED <<events, drainers>>,
             pc'[Sched] = "update" <=> pc[Sched] = "update"
      PROVE  RecorderInv'
  BY <1>2 DEF RecorderInv
<1>3. ASSUME NEW t \in Threads,
             NextPod(t) \/ NoPodsLeft(t) \/ Close(t) \/ SendStop(t) \/ SendOnClosedStop(t)
      PROVE  RecorderInv'
  <2>1. UNCHANGED <<events, drainers>>
    BY <1>3 DEF NextPod, NoPodsLeft, Close, SendStop, SendOnClosedStop, recorder
  <2>2. Owing' = Owing /\ (pc'[Sched] = "update" <=> pc[Sched] = "update")
    <3>1. CASE t = Sched
      BY <1>3, <3>1, Constants
        DEF NextPod, NoPodsLeft, Close, SendStop, SendOnClosedStop, Goto, AfterCallback,
            TypeOK, Threads, Owing
    <3>2. CASE t \in Pods
      BY <1>3, <3>2, Constants
        DEF NextPod, NoPodsLeft, Close, SendStop, SendOnClosedStop, Goto, AfterCallback,
            TypeOK, Threads, Owing
    <3> QED
      BY <3>1, <3>2 DEF Threads
  <2> QED
    BY <1>2, <2>1, <2>2
<1>4. CASE Loop \/ TakePod \/ SelectHost \/ ScheduleFitError \/ ScheduleError
  <2>1. /\ UNCHANGED <<events, drainers>>
        /\ pc[Sched] \in {"loop", "pop", "schedule"}
        /\ \E l \in SchedPc \ {"update"} : pc' = [pc EXCEPT ![Sched] = l]
    BY <1>4
      DEF Loop, TakePod, SelectHost, ScheduleFitError, ScheduleError, Goto, recorder,
          SchedPc
  <2>2. Owing' = Owing /\ pc'[Sched] # "update"
    BY <2>1, Constants DEF TypeOK, Threads, Owing
  <2> QED
    BY <1>2, <2>1, <2>2
<1>5. CASE Assume
  <2>1. /\ UNCHANGED <<events, drainers>> /\ pc[Sched] = "assume"
        /\ pc' = [pc EXCEPT ![Sched] = "loop", ![current] = "bind"]
    BY <1>5 DEF Assume, recorder
  <2>2. pc'[Sched] # "update" /\ \A p \in Pods : pc'[p] = pc[p] \/ p = current
    BY <2>1, Constants DEF TypeOK, Threads
  <2>3. k' <= k /\ k' \in Nat
    <3>1. Owing' \subseteq Owing
      BY <2>1, <2>2, Constants DEF Owing, TypeOK, Threads
    <3> QED
      BY <3>1, OwingFinite, FS_Subset, FS_CardinalityType
  <2>4. events' + k' <= drainers' + 0
    <3>1. /\ events \in Nat /\ drainers \in Nat /\ events' = events /\ drainers' = drainers
          /\ events + k <= drainers
      BY <1>1, <2>1
    <3>2. k \in Nat /\ k' \in Nat /\ k' <= k
      BY <1>1, <2>3
    <3> QED
      BY <3>1, <3>2
  <2> QED
    BY <2>2, <2>4 DEF RecorderInv
<1>6. CASE FailEvent
  <2>1. /\ pc[Sched] = "fail" /\ pc'[Sched] = "update" /\ Owing' = Owing
        /\ events' = events + 1 /\ drainers' = drainers
    BY <1>6, Constants DEF FailEvent, Goto, TypeOK, Threads, Owing
  <2> HIDE DEF k
  <2> QED
    BY <1>1, <2>1 DEF RecorderInv, k
<1>7. CASE Update
  <2>1. /\ pc[Sched] = "update" /\ pc'[Sched] = "next" /\ Owing' = Owing
        /\ events' = events /\ drainers' = drainers + 1
    BY <1>7, Constants DEF Update, Goto, TypeOK, Threads, Owing
  <2> QED
    BY <1>1, <2>1 DEF RecorderInv
<1>8. ASSUME NEW p \in Pods, Bind(p) PROVE RecorderInv'
  BY <1>2, <1>8, Constants DEF Bind, Goto, TypeOK, Threads, Owing, recorder
<1>9. ASSUME NEW p \in Pods, Record(p) PROVE RecorderInv'
  <2>1. /\ p \in Pods \ Owing /\ Owing' = Owing \cup {p} /\ pc'[Sched] = pc[Sched]
        /\ events' = events /\ drainers' = drainers + 1
    BY <1>9, Constants DEF Record, Goto, TypeOK, Threads, Owing
  <2>2. k' = k + 1
    BY <2>1, OwingFinite
  <2> QED
    BY <1>1, <2>1, <2>2 DEF RecorderInv
<1>10. ASSUME NEW p \in Pods, NEW q \in Pods, RecordRace(p, q) PROVE RecorderInv'
  <2>1. /\ p # q /\ pc[p] = "record" /\ pc[q] = "record"
        /\ pc' = [pc EXCEPT ![p] = "next", ![q] = "next"]
        /\ events' = events /\ drainers' = drainers + 2
    BY <1>10 DEF RecordRace
  <2>2. /\ pc'[Sched] = pc[Sched] /\ pc'[p] = "next" /\ pc'[q] = "next"
        /\ \A r \in Pods : r # p /\ r # q => pc'[r] = pc[r]
    BY <2>1, Constants DEF TypeOK, Threads
  <2>3. p \in Pods \ Owing /\ q \in Pods \ Owing /\ Owing' = Owing \cup {p, q}
    BY <2>1, <2>2 DEF Owing
  <2>4. k' = k + 2
    BY <2>1, <2>3, OwingFinite
  <2> QED
    BY <1>1, <2>1, <2>2, <2>4 DEF RecorderInv
<1>11. ASSUME NEW p \in Pods, BindEvent(p) PROVE RecorderInv'
  <2>1. /\ p \in Owing /\ Owing' = Owing \ {p} /\ pc'[Sched] = pc[Sched]
        /\ events' = events + 1 /\ drainers' = drainers
    BY <1>11, Constants DEF BindEvent, Goto, TypeOK, Threads, Owing
  <2>2. k' = k - 1
    BY <2>1, OwingFinite
  <2> QED
    BY <1>1, <2>1, <2>2 DEF RecorderInv
<1>12. CASE Drain
  <2>1. Owing' = Owing /\ pc' = pc /\ events' = events - 1 /\ drainers' = drainers - 1
    BY <1>12 DEF Drain, Owing
  <2> QED
    BY <1>1, <2>1 DEF RecorderInv
<1>13. CASE UNCHANGED <<pc, events, drainers>>
  BY <1>2, <1>13 DEF Owing
<1>14. CASE UNCHANGED vars
  BY <1>13, <1>14 DEF vars, recorder
<1> QED
  BY StepCases, <1>3, <1>4, <1>5, <1>6, <1>7, <1>8, <1>9, <1>10, <1>11, <1>12, <1>13, <1>14
    DEF RunStart, RunFirst, RunEmpty, RunCloseStop, Report, Exit, NodeAdded,
        AddPodToCache, AddPodToSchedulingQueue, DeletePodFromSchedulingQueue,
        ExpireAssumedPod, Retry, recorder

(* In every configuration, and for every capacity of the channel, each     *)
(* event in the Recorder's channel has a goroutine that receives it.       *)
THEOREM NoEventLeftBehind == Spec => []RecorderCovered
<1>1. Init => TypeOK /\ RecorderInv
  <2> SUFFICES ASSUME Init PROVE RecorderInv
    BY TypeInit DEF TypeInv
  <2>1. Owing = {}
    BY Constants DEF Init, Owing, Threads
  <2> QED
    BY <2>1, FS_EmptySet DEF Init, RecorderInv
<1>2. TypeOK /\ RecorderInv => RecorderCovered
  <2> SUFFICES ASSUME TypeOK, RecorderInv PROVE RecorderCovered
    OBVIOUS
  <2>1. Cardinality(Owing) \in Nat /\ events \in Nat /\ drainers \in Nat
    BY OwingFinite, Constants DEF TypeOK
  <2> QED
    BY <2>1 DEF RecorderInv, RecorderCovered
<1> QED
  BY <1>1, <1>2, TypeCorrect, RecorderStep, PTL DEF Spec
=============================================================================

------------------------- MODULE WatchRegistryProofs -------------------------
(***************************************************************************)
(* Proofs about WatchRegistry, for any number of watches and objects: the  *)
(* registry keeps its types, and every event of a pod that was not in the  *)
(* list of the scheduler's watch reaches the scheduler once and in order,  *)
(* although several goroutines emit to that watch without a common lock.   *)
(***************************************************************************)
EXTENDS WatchRegistry, SequenceTheorems, TLAPS

-----------------------------------------------------------------------------
(* The inductive invariant *)

(* x is an element of the sequence s. *)
In(x, s) == \E i \in 1..Len(s) : s[i] = x

(* The scheduler's watch is at most once among the watches of s. *)
Once(s) == \A i, j \in 1..Len(s) : s[i] = Scheduler /\ s[j] = Scheduler => i = j

(* OnceInOrder, of a queue q, what the informer holds and the listed pods. *)
InOrder(q, held, L) ==
    \A i \in 1..Len(q) : q[i].obj \notin L =>
       /\ held[q[i].obj] < q[i].ver
       /\ \A j \in 1..(i - 1) : q[j].obj = q[i].obj => q[j].ver < q[i].ver

(* The event can still be put into the scheduler's watch. *)
Unsent(e) == emitter[e] # "emit" \/ In(Scheduler, todo[e])

(* The scheduler's watch is registered once, and an emitter has written    *)
(* the version that it sends.                                              *)
SenderInv ==
    /\ wpc[Scheduler] = "idle" => ~In(Scheduler, registry)
    /\ Once(registry)
    /\ \A e \in Event : Once(todo[e])
    /\ \A e \in Event : emitter[e] # "idle" => e.ver <= store[e.obj]

(* The list of the scheduler's watch is taken once. *)
ListInv ==
    /\ wpc[Scheduler] \in {"idle", "list"} => inList = {}
    /\ \A e \in listed[Scheduler] : e.obj \in inList

(* A pod is bound after the scheduler has been delivered it. *)
BoundSeen ==
    /\ \A o \in Objects \ inList : store[o] = 2 => view[Scheduler][o] >= 1
    /\ \A i \in 1..Len(stream[Scheduler]) :
          LET e == stream[Scheduler][i] IN e.obj \notin inList => e.ver <= store[e.obj]

(* What is still to be sent is not queued, and newer than what the         *)
(* informer holds.                                                         *)
UnsentInv ==
    \A e \in Event : e.obj \notin inList /\ Unsent(e) =>
       /\ ~In(e, stream[Scheduler])
       /\ view[Scheduler][e.obj] < e.ver

QueueInv == InOrder(stream[Scheduler], view[Scheduler], inList)

Inv == TypeOK /\ SenderInv /\ ListInv /\ BoundSeen /\ UnsentInv /\ QueueInv

-----------------------------------------------------------------------------
(* Queues *)

(* The elements of a sequence with one more at its end. *)
LEMMA AppendElements ==
    ASSUME NEW S, NEW s \in Seq(S), NEW x \in S
    PROVE  /\ Append(s, x) \in Seq(S) /\ Len(s) \in Nat
           /\ Len(Append(s, x)) = Len(s) + 1 /\ Append(s, x)[Len(s) + 1] = x
           /\ \A i \in 1..Len(s) : Append(s, x)[i] = s[i]
           /\ \A i \in 1..Len(Append(s, x)) : i \in 1..Len(s) \/ i = Len(s) + 1
  BY AppendProperties, LenProperties

(* The elements of a sequence without its first. *)
LEMMA TailElements ==
    ASSUME NEW S, NEW s \in Seq(S), s # <<>>
    PROVE  /\ Tail(s) \in Seq(S) /\ Head(s) \in S /\ Head(s) = s[1]
           /\ Len(s) \in Nat /\ Len(s) >= 1 /\ Len(Tail(s)) = Len(s) - 1
           /\ \A i \in 1..Len(Tail(s)) : Tail(s)[i] = s[i + 1] /\ i + 1 \in 1..Len(s)
<1>1. Len(s) \in Nat /\ Len(s) # 0
  BY EmptySeq, LenProperties
<1>2. /\ Tail(s) \in Seq(S) /\ Head(s) \in S /\ Len(Tail(s)) = Len(s) - 1
      /\ \A i \in 1..Len(Tail(s)) : Tail(s)[i] = s[i + 1]
  BY HeadTailProperties
<1> QED
  BY <1>1, <1>2

(* The events of a queue are events of objects. *)
LEMMA QueueElements ==
    ASSUME NEW q \in Seq(Event)
    PROVE  \A i \in 1..Len(q) : q[i] \in Event /\ q[i].obj \in Objects /\ q[i].ver \in 1..2
<1>1. \A i \in 1..Len(q) : q[i] \in Event
  BY ElementOfSeq
<1> QED
  BY <1>1 DEF Event

(* An event is its object and its version. *)
LEMMA EventEqual ==
    ASSUME NEW e \in Event, NEW f \in Event, e.obj = f.obj, e.ver = f.ver
    PROVE  e = f
  BY DEF Event

(* An event newer than what is held and queued of its object keeps order.  *)
LEMMA AppendInOrder ==
    ASSUME NEW q \in Seq(Event), NEW e \in Event, NEW held, NEW L, InOrder(q, held, L),
           e.obj \notin L => /\ held[e.obj] < e.ver
                             /\ \A j \in 1..Len(q) : q[j].obj = e.obj => q[j].ver < e.ver
    PROVE  InOrder(Append(q, e), held, L)
<1> DEFINE a == Append(q, e)
<1>1. /\ Len(q) \in Nat /\ Len(a) = Len(q) + 1 /\ a[Len(q) + 1] = e
      /\ \A i \in 1..Len(q) : a[i] = q[i]
      /\ \A i \in 1..Len(a) : i \in 1..Len(q) \/ i = Len(q) + 1
  BY AppendElements
<1> HIDE DEF a
<1> SUFFICES ASSUME NEW i \in 1..Len(a), a[i].obj \notin L
             PROVE  /\ held[a[i].obj] < a[i].ver
                    /\ \A j \in 1..(i - 1) : a[j].obj = a[i].obj => a[j].ver < a[i].ver
  BY DEF InOrder, a
<1>2. CASE i \in 1..Len(q)
  <2>1. \A j \in 1..(i - 1) : j \in 1..Len(q)
    BY <1>1, <1>2
  <2> QED
    BY <1>1, <1>2, <2>1 DEF InOrder
<1>3. CASE i = Len(q) + 1
  <2>1. 1..(i - 1) = 1..Len(q)
    BY <1>1, <1>3
  <2> QED
    BY <1>1, <1>3, <2>1
<1> QED
  BY <1>1, <1>2, <1>3

(* The first event of the queue is delivered. *)
LEMMA TailInOrder ==
    ASSUME NEW q \in Seq(Event), q # <<>>, NEW held \in [Objects -> Version], NEW L,
           InOrder(q, held, L)
    PROVE  InOrder(Tail(q), [held EXCEPT ![Head(q).obj] = Head(q).ver], L)
<1> DEFINE t == Tail(q)
           h == [held EXCEPT ![Head(q).obj] = Head(q).ver]
<1>1. /\ Len(q) \in Nat /\ Len(q) >= 1 /\ Len(t) = Len(q) - 1 /\ Head(q) = q[1]
      /\ \A i \in 1..Len(t) : t[i] = q[i + 1] /\ i + 1 \in 1..Len(q)
  BY TailElements
<1>2. \A i \in 1..Len(q) : q[i].obj \in Objects
  BY QueueElements
<1>3. \A o \in Objects : h[o] = IF o = q[1].obj THEN q[1].ver ELSE held[o]
  BY <1>1, <1>2
<1> HIDE DEF t, h
<1> SUFFICES ASSUME NEW i \in 1..Len(t), t[i].obj \notin L
             PROVE  /\ h[t[i].obj] < t[i].ver
                    /\ \A j \in 1..(i - 1) : t[j].obj = t[i].obj => t[j].ver < t[i].ver
  BY DEF InOrder, t, h
<1>4. /\ t[i] = q[i + 1] /\ i + 1 \in 1..Len(q) /\ q[i + 1].obj \in Objects
  BY <1>1, <1>2
<1>5. /\ held[q[i + 1].obj] < q[i + 1].ver
      /\ \A j \in 1..(i + 1 - 1) : q[j].obj = q[i + 1].obj => q[j].ver < q[i + 1].ver
  BY <1>4 DEF InOrder
<1>6. 1 \in 1..(i + 1 - 1) /\ \A j \in 1..(i - 1) : j \in 1..Len(t) /\ j + 1 \in 1..(i + 1 - 1)
  BY <1>1
<1>7. h[t[i].obj] < t[i].ver
  BY <1>3, <1>4, <1>5, <1>6
<1>8. \A j \in 1..(i - 1) : t[j] = q[j + 1]
  BY <1>1, <1>6
<1> QED
  BY <1>4, <1>5, <1>6, <1>7, <1>8

(* The list only takes pods out of the claim. *)
LEMMA MoreListed ==
    ASSUME NEW q, NEW held, NEW L, NEW M, L \subseteq M, InOrder(q, held, L)
    PROVE  InOrder(q, held, M)
  BY DEF InOrder

-----------------------------------------------------------------------------
(* The invariant holds initially. *)
LEMMA InvInit == Init => Inv
<1> SUFFICES ASSUME Init PROVE Inv
  OBVIOUS
<1>1. TypeOK
  <2>1. <<>> \in Seq(Watchers) /\ <<>> \in Seq(Event)
    BY EmptySeq
  <2>2. 0 \in Version
    BY DEF Version
  <2>3. view \in [Watchers -> [Objects -> Version]] /\ store \in [Objects -> Version]
    BY <2>2 DEF Init
  <2>4. stream \in [Watchers -> Seq(Event)] /\ listed \in [Watchers -> SUBSET Event]
    BY <2>1 DEF Init
  <2>5. wpc \in [Watchers -> {"idle", "list", "emit", "reading"}]
    BY DEF Init
  <2>6. /\ emitter \in [Event -> {"idle", "look", "emit"}]
        /\ todo \in [Event -> Seq(Watchers)]
    BY <2>1 DEF Init
  <2> QED
    BY <2>1, <2>3, <2>4, <2>5, <2>6 DEF Init, TypeOK
<1>2. /\ stream[Scheduler] = <<>> /\ listed[Scheduler] = {}
      /\ \A o \in Objects : view[Scheduler][o] = 0 /\ store[o] = 0
      /\ registry = <<>> /\ inList = {}
      /\ \A e \in Event : emitter[e] = "idle" /\ todo[e] = <<>>
  BY RegistryAssumption DEF Init
<1>3. Len(<<>>) = 0 /\ 1..0 = {}
  BY EmptySeq
<1>4. SenderInv
  BY <1>2, <1>3 DEF SenderInv, In, Once
<1>5. ListInv /\ BoundSeen /\ QueueInv
  BY <1>2, <1>3 DEF ListInv, BoundSeen, QueueInv, InOrder
<1>6. \A e \in Event : e.obj \in Objects /\ e.ver \in 1..2
  BY DEF Event
<1>7. UnsentInv
  BY <1>2, <1>3, <1>6 DEF UnsentInv, In
<1> QED
  BY <1>1, <1>4, <1>5, <1>7 DEF Inv

(* A step that leaves the store and the scheduler's watch alone. *)
LEMMA QuietStep ==
    ASSUME BoundSeen, UnsentInv, QueueInv,
           UNCHANGED <<store, stream, view, inList>>,
           \A e \in Event : Unsent(e)' => Unsent(e)
    PROVE  BoundSeen' /\ UnsentInv' /\ QueueInv'
<1>1. BoundSeen'
  BY DEF BoundSeen
<1>2. UnsentInv'
  BY DEF UnsentInv
<1> QED
  BY <1>1, <1>2 DEF QueueInv

(* An event enters the queue of a watch.  If it is the scheduler's, the    *)
(* event is of a listed pod, or it was still to be sent, is the store's,   *)
(* and will not be sent again.                                             *)
LEMMA QueueStep ==
    ASSUME Inv, NEW w \in Watchers, NEW e \in Event,
           stream' = [stream EXCEPT ![w] = Append(stream[w], e)],
           UNCHANGED <<store, view, inList>>,
           \A f \in Event : Unsent(f)' => Unsent(f),
           w = Scheduler /\ e.obj \notin inList =>
              Unsent(e) /\ ~Unsent(e)' /\ e.ver <= store[e.obj]
    PROVE  stream' \in [Watchers -> Seq(Event)] /\ BoundSeen' /\ UnsentInv' /\ QueueInv'
<1> DEFINE q == stream[Scheduler]
           a == Append(q, e)
<1>1. stream \in [Watchers -> Seq(Event)] /\ Scheduler \in Watchers
  BY RegistryAssumption DEF Inv, TypeOK
<1>2. stream' \in [Watchers -> Seq(Event)]
  BY <1>1, AppendProperties
<1>3. CASE w # Scheduler
  <2>1. stream'[Scheduler] = stream[Scheduler]
    BY <1>1, <1>3
  <2>2. BoundSeen'
    BY <2>1 DEF Inv, BoundSeen
  <2>3. UnsentInv'
    BY <2>1 DEF Inv, UnsentInv
  <2> QED
    BY <1>2, <2>1, <2>2, <2>3 DEF Inv, QueueInv
<1>4. CASE w = Scheduler
  <2>1. stream'[Scheduler] = a /\ q \in Seq(Event)
    BY <1>1, <1>4
  <2>2. /\ Len(q) \in Nat /\ Len(a) = Len(q) + 1 /\ a[Len(q) + 1] = e
        /\ \A i \in 1..Len(q) : a[i] = q[i]
        /\ \A i \in 1..Len(a) : i \in 1..Len(q) \/ i = Len(q) + 1
    BY <2>1, AppendElements
  <2>3. \A i \in 1..Len(q) : q[i] \in Event /\ q[i].obj \in Objects /\ q[i].ver \in 1..2
    BY <2>1, QueueElements
  <2>4. e.obj \in Objects /\ e.ver \in 1..2
    BY DEF Event
  <2>5. /\ \A o \in Objects \ inList : store[o] = 2 => view[Scheduler][o] >= 1
        /\ \A i \in 1..Len(q) : q[i].obj \notin inList => q[i].ver <= store[q[i].obj]
    BY DEF Inv, BoundSeen
  <2>6. store \in [Objects -> 0..2] /\ view[Scheduler] \in [Objects -> 0..2]
    BY <1>1 DEF Inv, TypeOK, Version
  <2>7. \A f \in Event : f.obj \notin inList /\ Unsent(f) =>
           ~In(f, q) /\ view[Scheduler][f.obj] < f.ver
    BY DEF Inv, UnsentInv
  <2>8. InOrder(q, view[Scheduler], inList)
    BY DEF Inv, QueueInv
  <2> HIDE DEF q, a
  <2>9. ASSUME e.obj \notin inList
        PROVE  /\ view[Scheduler][e.obj] < e.ver
               /\ \A j \in 1..Len(q) : q[j].obj = e.obj => q[j].ver < e.ver
    <3>1. ~In(e, q) /\ view[Scheduler][e.obj] < e.ver
      BY <1>4, <2>7, <2>9
    <3> SUFFICES ASSUME NEW j \in 1..Len(q), q[j].obj = e.obj PROVE q[j].ver < e.ver
      BY <3>1
    <3>2. q[j] # e
      BY <3>1 DEF In
    <3>3. q[j].ver # e.ver
      BY <2>3, <3>2, EventEqual
    <3>4. q[j].ver = 2 => store[e.obj] = 2
      BY <2>4, <2>5, <2>6, <2>9
    <3>5. q[j].ver = 2 => view[Scheduler][e.obj] >= 1
      BY <2>4, <2>5, <2>9, <3>4
    <3>6. view[Scheduler][e.obj] \in 0..2
      BY <2>4, <2>6
    <3> QED
      BY <2>3, <2>4, <3>1, <3>3, <3>5, <3>6
  <2>10. InOrder(a, view[Scheduler], inList)
    BY <2>1, <2>8, <2>9, AppendInOrder DEF a
  <2>11. QueueInv'
    BY <2>1, <2>10 DEF QueueInv
  <2>12. BoundSeen'
    <3>1. \A i \in 1..Len(a) : a[i].obj \notin inList => a[i].ver <= store[a[i].obj]
      BY <1>4, <2>2, <2>5
    <3> QED
      BY <2>1, <2>5, <3>1 DEF BoundSeen
  <2>13. UnsentInv'
    <3> SUFFICES ASSUME NEW f \in Event, f.obj \notin inList, Unsent(f)'
                 PROVE  ~In(f, a) /\ view[Scheduler][f.obj] < f.ver
      BY <2>1 DEF UnsentInv
    <3>1. ~In(f, q) /\ view[Scheduler][f.obj] < f.ver
      BY <2>7
    <3>2. f # e
      BY <1>4
    <3> QED
      BY <2>2, <3>1, <3>2 DEF In
  <2> QED
    BY <1>2, <2>11, <2>12, <2>13
<1> QED
  BY <1>3, <1>4

(* createWatchReadCloser *)
LEMMA WatchStepKeeps ==
    ASSUME Inv, NEW w \in Watchers, WatchStep(w)
    PROVE  Inv'
<1> USE DEF Inv
<1>0. /\ wpc \in [Watchers -> {"idle", "list", "emit", "reading"}]
      /\ listed \in [Watchers -> SUBSET Event] /\ Scheduler \in Watchers
      /\ store \in [Objects -> 0..2] /\ registry \in Seq(Watchers)
  BY RegistryAssumption DEF TypeOK, Version
<1>1. CASE Register(w)
  <2>1. /\ wpc[w] = "idle" /\ registry' = Append(registry, w)
        /\ wpc' = [wpc EXCEPT ![w] = "list"]
        /\ UNCHANGED <<store, listed, stream, closed, view, emitter, todo, crashed, inList>>
    BY <1>1 DEF Register
  <2> DEFINE a == Append(registry, w)
             n == Len(registry)
  <2>2. /\ a \in Seq(Watchers) /\ n \in Nat /\ Len(a) = n + 1 /\ a[n + 1] = w
        /\ \A i \in 1..n : a[i] = registry[i]
        /\ \A i \in 1..Len(a) : i \in 1..n \/ i = n + 1
    BY <1>0, AppendElements
  <2>3. registry' = a
    BY <2>1
  <2> HIDE DEF a, n
  <2>4. TypeOK'
    BY <2>1, <2>2, <2>3 DEF TypeOK
  <2>5. w = Scheduler => \A i \in 1..n : registry[i] # Scheduler
    BY <2>1 DEF SenderInv, In, n
  <2>6. Once(a)
    <3>1. \A i, j \in 1..n : registry[i] = Scheduler /\ registry[j] = Scheduler => i = j
      BY DEF SenderInv, Once, n
    <3> QED
      BY <2>2, <2>5, <3>1 DEF Once
  <2>7. wpc'[Scheduler] = "idle" => w # Scheduler /\ wpc[Scheduler] = "idle"
    BY <1>0, <2>1
  <2>8. wpc'[Scheduler] = "idle" => ~In(Scheduler, a)
    BY <2>2, <2>7 DEF SenderInv, In, n
  <2>9. SenderInv'
    BY <2>1, <2>3, <2>6, <2>8 DEF SenderInv
  <2>10. ListInv'
    BY <1>0, <2>1 DEF ListInv
  <2>11. \A e \in Event : Unsent(e)' => Unsent(e)
    BY <2>1 DEF Unsent
  <2> QED
    BY <2>1, <2>4, <2>9, <2>10, <2>11, QuietStep
<1>2. CASE List(w)
  <2> DEFINE stored == {o \in Objects : store[o] > 0}
             L == {[obj |-> o, ver |-> store[o]] : o \in stored}
  <2>1. \A o \in Objects : store[o] > 0 => store[o] \in 1..2
    BY <1>0
  <2>2. L \in SUBSET Event /\ stored \subseteq Objects /\ \A e \in L : e.obj \in stored
    BY <2>1 DEF Event
  <2>3. /\ wpc[w] = "list" /\ wpc' = [wpc EXCEPT ![w] = "emit"]
        /\ listed' = [listed EXCEPT ![w] = L]
        /\ inList' = IF w = Scheduler THEN stored ELSE inList
        /\ UNCHANGED <<store, registry, stream, closed, view, emitter, todo, crashed>>
    BY <1>2 DEF List
  <2> HIDE DEF L, stored
  <2>4. TypeOK'
    BY <2>2, <2>3 DEF TypeOK
  <2>5. SenderInv'
    BY <1>0, <2>3 DEF SenderInv
  <2>6. ListInv'
    BY <1>0, <2>2, <2>3 DEF ListInv
  <2>7. inList \subseteq inList'
    BY <2>3 DEF ListInv
  <2>8. BoundSeen'
    BY <2>3, <2>7 DEF BoundSeen
  <2>9. \A e \in Event : Unsent(e)' => Unsent(e)
    BY <2>3 DEF Unsent
  <2>10. UnsentInv'
    BY <2>3, <2>7, <2>9 DEF UnsentInv
  <2>11. QueueInv'
    BY <2>3, <2>7, MoreListed DEF QueueInv
  <2> QED
    BY <2>4, <2>5, <2>6, <2>8, <2>10, <2>11
<1>3. CASE EmitListed(w)
  <2>1. PICK e \in listed[w] :
          /\ listed' = [listed EXCEPT ![w] = listed[w] \ {e}]
          /\ stream' = [stream EXCEPT ![w] = Append(stream[w], e)]
    BY <1>3 DEF EmitListed
  <2>2. UNCHANGED <<store, registry, wpc, closed, view, emitter, todo, crashed, inList>>
    BY <1>3 DEF EmitListed
  <2>3. e \in Event /\ (w = Scheduler => e.obj \in inList)
    BY <1>0, <2>1 DEF ListInv
  <2>4. \A f \in Event : Unsent(f)' => Unsent(f)
    BY <2>2 DEF Unsent
  <2>5. stream' \in [Watchers -> Seq(Event)] /\ BoundSeen' /\ UnsentInv' /\ QueueInv'
    BY <2>1, <2>2, <2>3, <2>4, QueueStep
  <2>6. listed' \in [Watchers -> SUBSET Event]
    BY <1>0, <2>1
  <2>7. TypeOK'
    BY <2>2, <2>5, <2>6 DEF TypeOK
  <2>8. SenderInv'
    BY <2>2 DEF SenderInv
  <2>9. ListInv'
    BY <1>0, <2>1, <2>2 DEF ListInv
  <2> QED
    BY <2>5, <2>7, <2>8, <2>9
<1>4. CASE ReturnWatch(w)
  <2>1. /\ wpc' = [wpc EXCEPT ![w] = "reading"]
        /\ UNCHANGED <<store, registry, listed, stream, closed, view, emitter, todo,
                       crashed, inList>>
    BY <1>4 DEF ReturnWatch
  <2>2. TypeOK'
    BY <2>1 DEF TypeOK
  <2>3. SenderInv' /\ ListInv'
    BY <1>0, <2>1 DEF SenderInv, ListInv
  <2>4. \A e \in Event : Unsent(e)' => Unsent(e)
    BY <2>1 DEF Unsent
  <2> QED
    BY <2>1, <2>2, <2>3, <2>4, QuietStep
<1> QED
  BY <1>1, <1>2, <1>3, <1>4 DEF WatchStep

(* resourceStore.Add and Update: a version is written once, and a pod is   *)
(* bound after the scheduler has been delivered it.                        *)
LEMMA WriteKeeps ==
    ASSUME Inv, NEW o \in Objects, NEW v \in 1..2, Write(o, v),
           v = 2 => view[Scheduler][o] = 1
    PROVE  Inv'
<1> USE DEF Inv
<1> DEFINE e == [obj |-> o, ver |-> v]
<1>1. /\ store[o] = v - 1 /\ store' = [store EXCEPT ![o] = v]
      /\ emitter' = [emitter EXCEPT ![e] = "look"]
      /\ UNCHANGED <<registry, wpc, listed, stream, closed, view, todo, crashed, inList>>
  BY DEF Write
<1>2. e \in Event /\ e.obj = o /\ e.ver = v
  BY DEF Event
<1> HIDE DEF e
<1>3. /\ store \in [Objects -> 0..2] /\ store' \in [Objects -> 0..2] /\ store'[o] = v
      /\ emitter \in [Event -> {"idle", "look", "emit"}]
      /\ Scheduler \in Watchers /\ stream[Scheduler] \in Seq(Event)
  BY <1>1, RegistryAssumption DEF TypeOK, Version
<1>4. \A x \in Objects : /\ store[x] <= store'[x] /\ store'[x] \in 0..2
                         /\ store[x] \in 0..2 /\ (x # o => store'[x] = store[x])
  BY <1>1, <1>3
<1>5. \A f \in Event : f.obj \in Objects /\ f.ver \in 1..2
  BY DEF Event
<1>6. TypeOK'
  BY <1>1, <1>2, <1>3 DEF TypeOK, Version
<1>7. emitter[e] = "idle"
  BY <1>1, <1>2 DEF SenderInv
<1>8. SenderInv'
  <2>1. \A f \in Event : emitter'[f] # "idle" => f.ver <= store'[f.obj]
    <3> SUFFICES ASSUME NEW f \in Event, emitter'[f] # "idle" PROVE f.ver <= store'[f.obj]
      OBVIOUS
    <3>1. CASE f = e
      BY <1>2, <1>3, <3>1
    <3>2. CASE f # e
      <4>1. f.ver <= store[f.obj]
        BY <1>1, <1>3, <3>2 DEF SenderInv
      <4> QED
        BY <1>4, <1>5, <4>1
    <3> QED
      BY <3>1, <3>2
  <2> QED
    BY <1>1, <2>1 DEF SenderInv
<1>9. ListInv'
  BY <1>1 DEF ListInv
<1>10. BoundSeen'
  <2> DEFINE q == stream[Scheduler]
  <2>1. \A i \in 1..Len(q) : q[i].obj \in Objects /\ q[i].ver \in 1..2
    BY <1>3, QueueElements
  <2>2. /\ \A x \in Objects \ inList : store[x] = 2 => view[Scheduler][x] >= 1
        /\ \A i \in 1..Len(q) : q[i].obj \notin inList => q[i].ver <= store[q[i].obj]
    BY DEF BoundSeen
  <2>3. stream'[Scheduler] = q /\ view' = view /\ inList' = inList
    BY <1>1
  <2> HIDE DEF q
  <2>4. \A i \in 1..Len(q) : q[i].obj \notin inList => q[i].ver <= store'[q[i].obj]
    BY <1>4, <2>1, <2>2
  <2>5. \A x \in Objects \ inList : store'[x] = 2 => view[Scheduler][x] >= 1
    BY <1>3, <1>4, <2>2
  <2> QED
    BY <2>3, <2>4, <2>5 DEF BoundSeen
<1>11. \A f \in Event : Unsent(f)' => Unsent(f)
  BY <1>1, <1>3, <1>7 DEF Unsent
<1>12. UnsentInv'
  BY <1>1, <1>11 DEF UnsentInv
<1>13. QueueInv'
  BY <1>1 DEF QueueInv
<1> QED
  BY <1>6, <1>8, <1>9, <1>10, <1>12, <1>13

(* EmitObjectWatchEvent: the event leaves what is still to be sent. *)
LEMMA EmitterKeeps ==
    ASSUME Inv, NEW e \in Event, Emitter(e)
    PROVE  Inv'
<1> USE DEF Inv
<1>0. /\ emitter \in [Event -> {"idle", "look", "emit"}]
      /\ todo \in [Event -> Seq(Watchers)]
  BY DEF TypeOK
<1>1. CASE LookUp(e)
  <2>1. /\ emitter[e] = "look" /\ todo' = [todo EXCEPT ![e] = registry]
        /\ emitter' = [emitter EXCEPT ![e] = "emit"]
        /\ UNCHANGED <<store, registry, wpc, listed, stream, closed, view, crashed, inList>>
    BY <1>1 DEF LookUp
  <2>2. TypeOK'
    BY <2>1 DEF TypeOK
  <2>3. SenderInv'
    <3>1. \A f \in Event : Once(todo'[f])
      BY <1>0, <2>1 DEF SenderInv
    <3>2. \A f \in Event : emitter'[f] # "idle" => emitter[f] # "idle"
      BY <1>0, <2>1
    <3> QED
      BY <2>1, <3>1, <3>2 DEF SenderInv
  <2>4. ListInv'
    BY <2>1 DEF ListInv
  <2>5. \A f \in Event : Unsent(f)' => Unsent(f)
    BY <1>0, <2>1 DEF Unsent
  <2> QED
    BY <2>1, <2>2, <2>3, <2>4, <2>5, QuietStep
<1>2. CASE Emit(e)
  <2>1. /\ emitter[e] = "emit" /\ todo[e] # <<>>
        /\ stream' = [stream EXCEPT ![Head(todo[e])] = Append(stream[Head(todo[e])], e)]
        /\ todo' = [todo EXCEPT ![e] = Tail(todo[e])]
        /\ UNCHANGED <<store, registry, wpc, listed, closed, view, emitter, crashed, inList>>
    BY <1>2 DEF Emit
  <2>2. PICK s \in Seq(Watchers) : s = todo[e]
    BY <1>0
  <2>3. PICK t, w : t = Tail(s) /\ w = Head(s)
    OBVIOUS
  <2>4. /\ t \in Seq(Watchers) /\ w \in Watchers /\ w = s[1]
        /\ Len(s) \in Nat /\ Len(s) >= 1
        /\ \A i \in 1..Len(t) : t[i] = s[i + 1] /\ i + 1 \in 1..Len(s)
    BY <2>1, <2>2, <2>3, TailElements
  <2>5. /\ todo' = [todo EXCEPT ![e] = t] /\ todo'[e] = t
        /\ stream' = [stream EXCEPT ![w] = Append(stream[w], e)]
    BY <1>0, <2>1, <2>2, <2>3
  <2>6. Once(s)
    BY <2>2 DEF SenderInv
  <2>7. Once(t)
    <3> SUFFICES ASSUME NEW i \in 1..Len(t), NEW j \in 1..Len(t),
                        t[i] = Scheduler, t[j] = Scheduler
                 PROVE  i = j
      BY DEF Once
    <3>1. i + 1 \in 1..Len(s) /\ j + 1 \in 1..Len(s)
          /\ s[i + 1] = Scheduler /\ s[j + 1] = Scheduler
      BY <2>4
    <3>2. i + 1 = j + 1
      BY <2>6, <3>1 DEF Once
    <3> QED
      BY <3>2
  <2>8. w = Scheduler => ~In(Scheduler, t)
    <3> SUFFICES ASSUME w = Scheduler, NEW i \in 1..Len(t), t[i] = Scheduler PROVE FALSE
      BY DEF In
    <3>1. s[1] = Scheduler /\ s[i + 1] = Scheduler /\ 1 \in 1..Len(s) /\ i + 1 \in 1..Len(s)
      BY <2>4
    <3>2. 1 = i + 1
      BY <2>6, <3>1 DEF Once
    <3> QED
      BY <3>2
  <2>9. In(Scheduler, t) => In(Scheduler, s)
    BY <2>4 DEF In
  <2>10. w = Scheduler => In(Scheduler, s)
    <3>1. 1 \in 1..Len(s)
      BY <2>4
    <3> QED
      BY <2>4, <3>1 DEF In
  <2>11. \A f \in Event : Unsent(f)' => Unsent(f)
    <3> SUFFICES ASSUME NEW f \in Event, Unsent(f)' PROVE Unsent(f)
      OBVIOUS
    <3>1. CASE f = e
      BY <2>1, <2>2, <2>5, <2>9, <3>1 DEF Unsent
    <3>2. CASE f # e
      BY <1>0, <2>1, <2>5, <3>2 DEF Unsent
    <3> QED
      BY <3>1, <3>2
  <2>12. w = Scheduler => Unsent(e) /\ ~Unsent(e)'
    BY <2>1, <2>2, <2>5, <2>8, <2>10 DEF Unsent
  <2>13. e.ver <= store[e.obj]
    BY <2>1 DEF SenderInv
  <2>14. stream' \in [Watchers -> Seq(Event)] /\ BoundSeen' /\ UnsentInv' /\ QueueInv'
    BY <2>1, <2>4, <2>5, <2>11, <2>12, <2>13, QueueStep
  <2>15. TypeOK'
    BY <2>1, <2>4, <2>5, <2>14 DEF TypeOK
  <2>16. SenderInv'
    BY <1>0, <2>1, <2>5, <2>7 DEF SenderInv
  <2>17. ListInv'
    BY <2>1 DEF ListInv
  <2> QED
    BY <2>14, <2>15, <2>16, <2>17
<1>3. CASE EmitFails(e)
  <2>1. /\ emitter[e] = "emit" /\ todo' = [todo EXCEPT ![e] = <<>>]
        /\ UNCHANGED <<store, registry, wpc, listed, stream, closed, view, emitter,
                       crashed, inList>>
    BY <1>3 DEF EmitFails
  <2>2. <<>> \in Seq(Watchers) /\ Once(<<>>) /\ ~In(Scheduler, <<>>)
    BY EmptySeq DEF Once, In
  <2>3. TypeOK'
    BY <2>1, <2>2 DEF TypeOK
  <2>4. SenderInv'
    BY <1>0, <2>1, <2>2 DEF SenderInv
  <2>5. ListInv'
    BY <2>1 DEF ListInv
  <2>6. \A f \in Event : Unsent(f)' => Unsent(f)
    BY <1>0, <2>1, <2>2 DEF Unsent
  <2> QED
    BY <2>1, <2>3, <2>4, <2>5, <2>6, QuietStep
<1> QED
  BY <1>1, <1>2, <1>3 DEF Emitter

(* The informer: what it is delivered is older than what is still queued   *)
(* or to be sent.                                                          *)
LEMMA DeliverKeeps ==
    ASSUME Inv, NEW w \in Watchers, Deliver(w)
    PROVE  Inv'
<1> USE DEF Inv
<1>0. /\ stream \in [Watchers -> Seq(Event)] /\ Scheduler \in Watchers
      /\ view \in [Watchers -> [Objects -> Version]]
  BY RegistryAssumption DEF TypeOK
<1>1. PICK q \in Seq(Event) : q = stream[w]
  BY <1>0
<1>2. PICK h, t : h = Head(q) /\ t = Tail(q)
  OBVIOUS
<1>3. /\ q # <<>> /\ stream' = [stream EXCEPT ![w] = t]
      /\ view' = [view EXCEPT ![w][h.obj] = h.ver]
      /\ UNCHANGED <<store, registry, wpc, listed, closed, emitter, todo, crashed, inList>>
  BY <1>1, <1>2 DEF Deliver
<1>4. /\ t \in Seq(Event) /\ h \in Event /\ h = q[1]
      /\ Len(q) \in Nat /\ Len(q) >= 1
      /\ \A i \in 1..Len(t) : t[i] = q[i + 1] /\ i + 1 \in 1..Len(q)
  BY <1>2, <1>3, TailElements
<1>5. h.obj \in Objects /\ h.ver \in 1..2
  BY <1>4 DEF Event
<1>6. TypeOK'
  <2>1. h.ver \in Version
    BY <1>5 DEF Version
  <2>2. view' \in [Watchers -> [Objects -> Version]]
    BY <1>0, <1>3, <1>5, <2>1
  <2> QED
    BY <1>3, <1>4, <2>2 DEF TypeOK
<1>7. SenderInv' /\ ListInv'
  BY <1>3 DEF SenderInv, ListInv
<1>8. \A f \in Event : Unsent(f)' <=> Unsent(f)
  BY <1>3 DEF Unsent
<1>9. CASE w # Scheduler
  <2>1. stream'[Scheduler] = stream[Scheduler] /\ view'[Scheduler] = view[Scheduler]
    BY <1>0, <1>3, <1>9
  <2>2. BoundSeen'
    BY <1>3, <2>1 DEF BoundSeen
  <2>3. UnsentInv'
    BY <1>3, <1>8, <2>1 DEF UnsentInv
  <2>4. QueueInv'
    BY <1>3, <2>1 DEF QueueInv
  <2> QED
    BY <1>6, <1>7, <2>2, <2>3, <2>4
<1>10. CASE w = Scheduler
  <2>1. PICK held \in [Objects -> Version] : held = view[Scheduler]
    BY <1>0
  <2>2. PICK now : now = [held EXCEPT ![h.obj] = h.ver]
    OBVIOUS
  <2>3. /\ stream'[Scheduler] = t /\ stream[Scheduler] = q
        /\ view'[Scheduler] = now /\ inList' = inList /\ store' = store
    BY <1>0, <1>1, <1>3, <1>10, <2>1, <2>2
  <2>4. \A o \in Objects : now[o] = IF o = h.obj THEN h.ver ELSE held[o]
    BY <1>5, <2>2
  <2>5. /\ \A o \in Objects \ inList : store[o] = 2 => held[o] >= 1
        /\ \A i \in 1..Len(q) : q[i].obj \notin inList => q[i].ver <= store[q[i].obj]
    BY <2>1, <2>3 DEF BoundSeen
  <2>6. 1 \in 1..Len(q)
    BY <1>4
  <2>7. QueueInv'
    <3>1. InOrder(q, held, inList)
      BY <2>1, <2>3 DEF QueueInv
    <3>2. InOrder(t, now, inList)
      BY <1>2, <1>3, <2>2, <3>1, TailInOrder
    <3> QED
      BY <2>3, <3>2 DEF QueueInv
  <2>8. BoundSeen'
    <3>1. \A i \in 1..Len(t) : t[i].obj \notin inList => t[i].ver <= store[t[i].obj]
      BY <1>4, <2>5
    <3>2. \A o \in Objects \ inList : store[o] = 2 => now[o] >= 1
      BY <1>5, <2>4, <2>5
    <3> QED
      BY <2>3, <3>1, <3>2 DEF BoundSeen
  <2>9. UnsentInv'
    <3> SUFFICES ASSUME NEW f \in Event, f.obj \notin inList, Unsent(f)
                 PROVE  ~In(f, t) /\ now[f.obj] < f.ver
      BY <1>8, <2>3 DEF UnsentInv
    <3>1. ~In(f, q) /\ held[f.obj] < f.ver
      BY <2>1, <2>3 DEF UnsentInv
    <3>2. ~In(f, t)
      BY <1>4, <3>1 DEF In
    <3>3. f.obj \in Objects /\ f.ver \in 1..2
      BY DEF Event
    <3>4. CASE f.obj # h.obj
      BY <2>4, <3>1, <3>2, <3>3, <3>4
    <3>5. CASE f.obj = h.obj
      <4>1. h # f
        BY <1>4, <2>6, <3>1 DEF In
      <4>2. h.ver # f.ver
        BY <1>4, <3>5, <4>1, EventEqual
      <4>3. h.ver <= store[h.obj] /\ store[h.obj] \in 0..2
        BY <1>4, <1>5, <2>5, <2>6, <3>5 DEF TypeOK, Version
      <4>4. h.ver = 2 => held[h.obj] >= 1
        BY <1>5, <2>5, <3>5, <4>3
      <4>5. held[h.obj] \in 0..2
        BY <1>5, <2>1 DEF Version
      <4>6. h.ver < f.ver
        BY <1>5, <3>1, <3>3, <3>5, <4>2, <4>4, <4>5
      <4> QED
        BY <1>5, <2>4, <3>2, <3>5, <4>6
    <3> QED
      BY <3>4, <3>5
  <2> QED
    BY <1>6, <1>7, <2>7, <2>8, <2>9
<1> QED
  BY <1>9, <1>10

(* Every action preserves the invariant. *)
LEMMA InvStep == Inv /\ [Next]_vars => Inv'
<1> SUFFICES ASSUME Inv, [Next]_vars PROVE Inv'
  OBVIOUS
<1>1. ASSUME NEW o \in Objects, Create(o) \/ BindSeen(o) PROVE Inv'
  <2>1. CASE Create(o)
    BY <2>1, WriteKeeps DEF Create
  <2>2. CASE BindSeen(o)
    BY <2>2, WriteKeeps DEF BindSeen
  <2> QED
    BY <1>1, <2>1, <2>2
<1>2. ASSUME NEW w \in Watchers, CloseWatch(w) \/ MapRace(w) PROVE Inv'
  <2>1. TypeOK'
    BY <1>2, RegistryAssumption DEF Inv, TypeOK, CloseWatch, MapRace
  <2>2. UNCHANGED <<store, registry, wpc, listed, stream, view, emitter, todo, inList>>
    BY <1>2 DEF CloseWatch, MapRace
  <2>3. SenderInv' /\ ListInv'
    BY <2>2 DEF Inv, SenderInv, ListInv
  <2>4. \A e \in Event : Unsent(e)' => Unsent(e)
    BY <2>2 DEF Unsent
  <2> QED
    BY <2>1, <2>2, <2>3, <2>4, QuietStep DEF Inv
<1>3. CASE UNCHANGED vars
  <2>1. \A e \in Event : Unsent(e)' => Unsent(e)
    BY <1>3 DEF Unsent, vars
  <2>2. BoundSeen' /\ UnsentInv' /\ QueueInv'
    BY <1>3, <2>1, QuietStep DEF Inv, vars
  <2> QED
    BY <1>3, <2>2 DEF Inv, vars, TypeOK, SenderInv, ListInv
<1> QED
  BY <1>1, <1>2, <1>3, EmitterKeeps, WatchStepKeeps, DeliverKeeps DEF Next, Steps, Writer, Idle

(* The invariant holds in every reachable state. *)
LEMMA Invariance == Spec => []Inv
  BY InvInit, InvStep, PTL DEF Spec

-----------------------------------------------------------------------------
(* The store, the registry, the queues and the views keep their types. *)
THEOREM RegistryTypeCorrect == Spec => []TypeOK
<1>1. Inv => TypeOK
  BY DEF Inv
<1> QED
  BY <1>1, Invariance, PTL

(* Whatever watches are created, listed, written to, delivered and closed, *)
(* in whatever order and by however many goroutines at once, the events of *)
(* a pod that the scheduler's watch did not list reach the scheduler once, *)
(* the created pod before the bound one.                                   *)
THEOREM SchedulerGetsOnceInOrder == Spec => []OnceInOrder
<1>1. Inv => OnceInOrder
  <2> SUFFICES ASSUME Inv PROVE OnceInOrder
    OBVIOUS
  <2>1. stream[Scheduler] \in Seq(Event)
    BY RegistryAssumption DEF Inv, TypeOK
  <2>2. DOMAIN stream[Scheduler] = 1..Len(stream[Scheduler])
    BY <2>1, LenProperties
  <2> QED
    BY <2>2 DEF Inv, QueueInv, InOrder, OnceInOrder
<1> QED
  BY <1>1, Invariance, PTL
=============================================================================

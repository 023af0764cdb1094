---------------------------- MODULE WatchRegistry ----------------------------
(***************************************************************************)
(* How the writes to the resource store reach the informers: the registry  *)
(* of watches in pkg/framework/restclient/external/restclient.go.          *)
(* createWatchReadCloser registers a new WatchBuffer and then emits an     *)
(* Added event for every object it lists; meanwhile resourceStore.Add and  *)
(* Update call EmitObjectWatchEvent, which goes through the registered     *)
(* buffers without the lock of the registry.                               *)
(*                                                                         *)
(* There is one resource (Pods).  Each write to the store is followed by   *)
(* the emission of its event in the goroutine that wrote, and a goroutine  *)
(* may still be emitting when another writes: the scheduler can bind a pod *)
(* as soon as its own informer has delivered it.  So there is an emitter   *)
(* per event.  Version 1 of an object is the created pod, version 2 the    *)
(* bound one.  What the scheduler does with a pod that is delivered again  *)
(* is left out.  Each WatchBuffer is the byte stream of WatchStream, here  *)
(* a queue of events.                                                      *)
(***************************************************************************)
EXTENDS Naturals, Sequences, FiniteSets

CONSTANTS
    Watchers,   \* the watches that are requested
    Scheduler,  \* the one that feeds the scheduler
    Objects,    \* pods that are created
    MayClose,   \* watches that may be closed before the others
    MayRefuse   \* pods the scheduler may refuse, at least at first

ASSUME RegistryAssumption ==
    /\ Scheduler \in Watchers
    /\ MayClose \subseteq Watchers \ {Scheduler}
    /\ MayRefuse \subseteq Objects

Version == 0..2
Event   == [obj : Objects, ver : 1..2]

VARIABLES
    store,      \* version of each object in the resource store
    registry,   \* the registered watches, in the order of registration
    wpc,        \* createWatchReadCloser and then the informer, per watch
    listed,     \* the events of the list still to be emitted
    stream,     \* the events in each WatchBuffer
    closed,     \* the closed WatchBuffers
    view,       \* the version of each object the informer holds
    emitter,    \* program counter of EmitObjectWatchEvent, per event
    todo,       \* the watches it still has to send the event to
    crashed,    \* the registry was written while it was iterated
    inList      \* history: the objects the list of the scheduler's watch held

vars == <<store, registry, wpc, listed, stream, closed, view, emitter, todo,
          crashed, inList>>

TypeOK ==
    /\ store \in [Objects -> Version]
    /\ registry \in Seq(Watchers)
    /\ wpc \in [Watchers -> {"idle", "list", "emit", "reading"}]
    /\ listed \in [Watchers -> SUBSET Event]
    /\ stream \in [Watchers -> Seq(Event)]
    /\ closed \subseteq Watchers
    /\ view \in [Watchers -> [Objects -> Version]]
    /\ emitter \in [Event -> {"idle", "look", "emit"}]
    /\ todo \in [Event -> Seq(Watchers)]
    /\ crashed \in BOOLEAN
    /\ inList \subseteq Objects

Init ==
    /\ store = [o \in Objects |-> 0]
    /\ registry = <<>>
    /\ wpc = [w \in Watchers |-> "idle"]
    /\ listed = [w \in Watchers |-> {}]
    /\ stream = [w \in Watchers |-> <<>>]
    /\ closed = {}
    /\ view = [w \in Watchers |-> [o \in Objects |-> 0]]
    /\ emitter = [e \in Event |-> "idle"]
    /\ todo = [e \in Event |-> <<>>]
    /\ crashed = FALSE
    /\ inList = {}

-----------------------------------------------------------------------------
(* createWatchReadCloser, under watcherReadGettersMux *)

(* The mutex: another watch is not being created. *)
MuxFree == \A w \in Watchers : wpc[w] \notin {"list", "emit"}

Register(w) ==
    /\ wpc[w] = "idle"
    /\ MuxFree
    /\ registry' = Append(registry, w)
    /\ wpc' = [wpc EXCEPT ![w] = "list"]
    /\ UNCHANGED <<store, listed, stream, closed, view, emitter, todo, crashed,
                   inList>>

(* Mutant: the objects that exist are left to the informer's own list. *)
ListNothing(w) ==
    /\ wpc[w] = "list"
    /\ wpc' = [wpc EXCEPT ![w] = "emit"]
    /\ UNCHANGED <<store, registry, listed, stream, closed, view, emitter, todo,
                   crashed, inList>>

(* c.Pods: copies of the objects the store holds. *)
List(w) ==
    LET stored == {o \in Objects : store[o] > 0} IN
    /\ wpc[w] = "list"
    /\ listed' = [listed EXCEPT ![w] = {[obj |-> o, ver |-> store[o]] : o \in stored}]
    /\ wpc' = [wpc EXCEPT ![w] = "emit"]
    /\ inList' = IF w = Scheduler THEN stored ELSE inList
    /\ UNCHANGED <<store, registry, stream, closed, view, emitter, todo, crashed>>

(* rg.EmitWatchEvent(watch.Added, &item) *)
EmitListed(w) ==
    /\ \E e \in listed[w] :
         /\ listed' = [listed EXCEPT ![w] = @ \ {e}]
         /\ stream' = [stream EXCEPT ![w] = Append(@, e)]
    /\ UNCHANGED <<store, registry, wpc, closed, view, emitter, todo, crashed, inList>>

(* Do returns the buffer: only now can the informer read from it. *)
ReturnWatch(w) ==
    /\ wpc[w] = "emit"
    /\ listed[w] = {}
    /\ wpc' = [wpc EXCEPT ![w] = "reading"]
    /\ UNCHANGED <<store, registry, listed, stream, closed, view, emitter, todo,
                   crashed, inList>>

-----------------------------------------------------------------------------
(* resourceStore.Add and Update, and EmitObjectWatchEvent that they call *)

Write(o, v) ==
    /\ store[o] = v - 1
    /\ store' = [store EXCEPT ![o] = v]
    /\ emitter' = [emitter EXCEPT ![[obj |-> o, ver |-> v]] = "look"]
    /\ UNCHANGED <<registry, wpc, listed, stream, closed, view, todo, crashed, inList>>

(* Every stored pod has its verdict: it is bound and its event has been    *)
(* emitted, or it is refused, which the store does not learn of.           *)
Decided ==
    /\ \A x \in Objects :
          store[x] = 1 => x \in MayRefuse /\ view[Scheduler][x] > 0
    /\ \A e \in Event : e.ver = 2 => emitter[e] # "look" /\ todo[e] = <<>>

(* nextPod: called by Run for the first pod, and by the goroutine of the   *)
(* verdict on a pod for the next one.                                      *)
Create(o) == Decided /\ Write(o, 1)

(* Mutant: a pod that is bound is bound once more. *)
BindAgain(o) == view[Scheduler][o] >= 1 /\ Write(o, store[o] + 1)

(* Bind, which the scheduler calls for a pod its informer has delivered.   *)
BindSeen(o) == view[Scheduler][o] = 1 /\ Write(o, 2)

(* The map of watches is read without watcherReadGettersMux. *)
LookUp(e) ==
    /\ emitter[e] = "look"
    /\ todo' = [todo EXCEPT ![e] = registry]
    /\ emitter' = [emitter EXCEPT ![e] = "emit"]
    /\ UNCHANGED <<store, registry, wpc, listed, stream, closed, view, crashed, inList>>

(* Go ends the process when it catches a map being written and iterated.   *)
MapRace(w) ==
    /\ \E e \in Event : emitter[e] = "look"
    /\ wpc[w] = "idle" /\ MuxFree
    /\ crashed' = TRUE
    /\ UNCHANGED <<store, registry, wpc, listed, stream, closed, view, emitter, todo,
                   inList>>

Emit(e) ==
    /\ emitter[e] = "emit"
    /\ todo[e] # <<>>
    /\ Head(todo[e]) \notin closed
    /\ stream' = [stream EXCEPT ![Head(todo[e])] = Append(@, e)]
    /\ todo' = [todo EXCEPT ![e] = Tail(@)]
    /\ UNCHANGED <<store, registry, wpc, listed, closed, view, emitter, crashed, inList>>

(* Mutant: after an error the event is sent to all the watches once more. *)
EmitFailsRetry(e) ==
    /\ emitter[e] = "emit"
    /\ todo[e] # <<>>
    /\ Head(todo[e]) \in closed
    /\ todo' = [todo EXCEPT ![e] = registry]
    /\ UNCHANGED <<store, registry, wpc, listed, stream, closed, view, emitter,
                   crashed, inList>>

(* The first error is returned: the watches that follow get nothing. *)
EmitFails(e) ==
    /\ emitter[e] = "emit"
    /\ todo[e] # <<>>
    /\ Head(todo[e]) \in closed
    /\ todo' = [todo EXCEPT ![e] = <<>>]
    /\ UNCHANGED <<store, registry, wpc, listed, stream, closed, view, emitter,
                   crashed, inList>>

-----------------------------------------------------------------------------
(* The informer of watch w: Added and Modified both set the object.        *)
Deliver(w) ==
    /\ wpc[w] = "reading" /\ w \notin closed
    /\ stream[w] # <<>>
    /\ view' = [view EXCEPT ![w][Head(stream[w]).obj] = Head(stream[w]).ver]
    /\ stream' = [stream EXCEPT ![w] = Tail(@)]
    /\ UNCHANGED <<store, registry, wpc, listed, closed, emitter, todo, crashed, inList>>

(* The owner of a watch stops it; the registry keeps the closed buffer.    *)
CloseWatch(w) ==
    /\ w \in MayClose
    /\ wpc[w] = "reading" /\ w \notin closed
    /\ closed' = closed \cup {w}
    /\ UNCHANGED <<store, registry, wpc, listed, stream, view, emitter, todo, crashed,
                   inList>>

(* Everything is delivered and nothing more is written, or the process has *)
(* died.                                                                   *)
Idle ==
    /\ \/ crashed
       \/ /\ \A e \in Event : emitter[e] # "look" /\ todo[e] = <<>>
          /\ \A w \in Watchers \ closed : wpc[w] = "reading" /\ stream[w] = <<>>
          /\ \A o \in Objects : ~(store[o] = 1 /\ view[Scheduler][o] = 1)
          /\ Decided => \A o \in Objects : store[o] > 0
    /\ UNCHANGED vars

WatchStep(w) == Register(w) \/ List(w) \/ EmitListed(w) \/ ReturnWatch(w)
Emitter(e)   == LookUp(e) \/ Emit(e) \/ EmitFails(e)
Writer       == \E o \in Objects : Create(o) \/ BindSeen(o)

Steps == \/ Writer
         \/ \E e \in Event : Emitter(e)
         \/ \E w \in Watchers :
               WatchStep(w) \/ Deliver(w) \/ CloseWatch(w) \/ MapRace(w)

Next == (~crashed /\ Steps) \/ Idle

(* Reflectors do ask for their watches and read them, emitters do go on.   *)
Fairness ==
    /\ \A e \in Event : WF_vars(~crashed /\ Emitter(e))
    /\ \A w \in Watchers : /\ WF_vars(~crashed /\ WatchStep(w))
                           /\ WF_vars(~crashed /\ Deliver(w))

Spec == Init /\ [][Next]_vars /\ Fairness

-----------------------------------------------------------------------------
(* Properties *)

(* Every event of a pod that was not yet stored when the scheduler's watch *)
(* listed the store reaches the scheduler once and in order, Added before  *)
(* Modified, whoever else emits at the same time: what is queued on the    *)
(* watch (createWatchReadCloser, EmitObjectWatchEvent) is newer than what  *)
(* the informer holds, and each event is newer than those before it.  A    *)
(* pod in the list may come twice, and unbound after it was bound.         *)
OnceInOrder ==
    LET q    == stream[Scheduler]
        held == view[Scheduler]
    IN  \A i \in DOMAIN q : q[i].obj \notin inList =>
           /\ held[q[i].obj] < q[i].ver
           /\ \A j \in 1..(i - 1) : q[j].obj = q[i].obj => q[j].ver < q[i].ver

(* As long as no watch is closed, every informer learns of every object,   *)
(* whether it was stored before, during or after the creation of its       *)
(* watch, and the scheduler's also of every binding of a pod that was not  *)
(* in its list.                                                            *)
CatchesUp ==
    \A w \in Watchers, o \in Objects, v \in 1..2 :
       (store[o] = v /\ (v = 2 => w = Scheduler /\ o \notin inList))
          ~> (view[w][o] >= v \/ closed # {} \/ crashed)

(* restclient.go:389-390: "multi-schedulers environment may require        *)
(* multiple instances of a watcher for the same resource and fields        *)
(* selector": every watch that is not closed learns of every object.       *)
EveryWatchServed ==
    \A w \in Watchers, o \in Objects :
       store[o] > 0 ~> (view[w][o] > 0 \/ w \in closed \/ crashed)
=============================================================================

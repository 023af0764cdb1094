----------------------------- MODULE RESTClient -----------------------------
(***************************************************************************)
(* RESTClient.Do of pkg/framework/restclient/external/restclient.go: the   *)
(* fake API server that the informers and the scheduler talk to.  Do       *)
(* decodes the path of a request, builds the body from the resource store, *)
(* stores the response in the field c.Resp and returns what it then reads  *)
(* from c.Resp.  The field is locked for each access but not from the      *)
(* store to the load, and one client serves all the informers.             *)
(*                                                                         *)
(* A field selector is represented by the set of the objects it matches,   *)
(* a body by the objects in it.  c.Req is written and never read; c.Err is *)
(* never set: both are left out.                                           *)
(***************************************************************************)
EXTENDS Naturals, Sequences, FiniteSets

CONSTANTS
    Callers,    \* goroutines that use the client
    Requests,   \* the requests they make: [path, watch, matches]
    Objects,    \* what the resource store holds: [res, ns, name]
    StatusFolds, \* the strings that strings.EqualFold takes for "status"
    MaxCalls,   \* bound: calls made by each goroutine
    None, Refused

(* StringToResourceType, and the resources the store has a cache for.      *)
Recognized == {"pods", "persistentvolumes", "nodes", "services",
               "persistentvolumeclaims", "storageclasses"}
Resources  == Recognized \ {"storageclasses"}

Object  == [res : Resources, ns : STRING, name : STRING]
Request == [path : Seq(STRING), watch : BOOLEAN, matches : SUBSET Objects]
Body    == [op : {"watch", "list", "get"}, res : Resources, items : SUBSET Objects]

ASSUME ClientAssumption ==
    /\ Objects \subseteq Object
    /\ Requests \subseteq Request
    /\ "status" \in StatusFolds
    /\ MaxCalls \in Nat

VARIABLES
    pc,         \* program counter of Do in each goroutine
    calls,      \* how many calls each has made
    asked,      \* the request of the current call
    body,       \* the body made for it
    mine,       \* history: the stamp of the response stored for it
    answer,     \* what the call returned
    resp,       \* c.Resp
    stamp,      \* history: number of responses stored so far
    watchers    \* c.watcherReadGetters: the buffers, by call and resource

vars == <<pc, calls, asked, body, mine, answer, resp, stamp, watchers>>

Response == [by : Callers, call : 1..MaxCalls, body : Body, stamp : Nat]

TypeOK ==
    /\ pc \in [Callers -> {"idle", "serve", "store", "fetch", "done"}]
    /\ calls \in [Callers -> 0..MaxCalls]
    /\ asked \in [Callers -> Requests \cup {None}]
    /\ body \in [Callers -> Body \cup {None}]
    /\ mine \in [Callers -> Nat]
    /\ answer \in [Callers -> Response \cup {None, Refused}]
    /\ resp \in Response \cup {None}
    /\ stamp \in Nat
    /\ watchers \subseteq Callers \X (1..MaxCalls) \X Resources

Init ==
    /\ pc = [c \in Callers |-> "idle"]
    /\ calls = [c \in Callers |-> 0]
    /\ asked = [c \in Callers |-> None]
    /\ body = [c \in Callers |-> None]
    /\ mine = [c \in Callers |-> 0]
    /\ answer = [c \in Callers |-> None]
    /\ resp = None
    /\ stamp = 0
    /\ watchers = {}

-----------------------------------------------------------------------------
(* What a path asks for *)

Undecodable == [op |-> "error"]
List(res, matches)   == [op |-> "list", res |-> res, matches |-> matches]
Watch(res, matches)  == [op |-> "watch", res |-> res, matches |-> matches]
Get(res, name, ns)   == [op |-> "get", res |-> res, name |-> name, ns |-> ns]

(* The selector Namespace=ns, which replaces the one of the query. *)
InNamespace(ns) == {o \in Objects : o.ns = ns}

(* Mutant: the namespace of a namespaced request is not looked at. *)
DecodeAnyNamespace(r) ==
    LET parts == r.path
        n     == Len(parts)
    IN  CASE n \in {1, 2} -> List(parts[1], r.matches)
          [] n = 3        -> List(parts[3], r.matches)
          [] n = 4        -> Get(parts[3], parts[4], parts[2])
          [] OTHER        -> Undecodable

(* A leading /watch is dropped, then the number of parts decides. *)
Decode(r) ==
    LET prefixed   == r.path # <<>> /\ r.path[1] = "watch"
        parts      == IF prefixed THEN Tail(r.path) ELSE r.path
        n          == Len(parts)
        isWatch    == prefixed \/ r.watch
        namespaced == parts[1] = "namespaces"
    IN  CASE n > 0 /\ isWatch                -> Watch(parts[1], r.matches)
          [] n = 1 /\ ~isWatch               -> List(parts[1], r.matches)
          [] n = 2 /\ ~isWatch               -> Get(parts[1], parts[2], "")
          [] n = 3 /\ ~isWatch /\ namespaced -> List(parts[3], InNamespace(parts[2]))
          [] n \in {4, 5} /\ ~isWatch /\ namespaced /\ (n = 5 => parts[5] \in StatusFolds)
                                             -> Get(parts[3], parts[4], parts[2])
          [] OTHER                           -> Undecodable

(* What createWatchReadCloser and createListReadCloser send. *)
Matching(d) == {o \in Objects : o.res = d.res /\ o \in d.matches}

(* What createGetReadCloser finds under the key ns/name, or name alone. *)
Found(d) == {o \in Objects : o.res = d.res /\ o.ns = d.ns /\ o.name = d.name}

(* The body of a request, or Refused: an unknown path, a resource without  *)
(* a cache, an object that does not exist.                                 *)
BodyOf(r) ==
    LET d     == Decode(r)
        items == IF d.op = "get" THEN Found(d) ELSE Matching(d)
    IN  IF d.op = "error" THEN Refused
        ELSE IF d.res \notin Resources \/ (d.op = "get" /\ items = {}) THEN Refused
        ELSE [op |-> d.op, res |-> d.res, items |-> items]

-----------------------------------------------------------------------------
(* Do *)

Call(c, r) ==
    /\ pc[c] = "idle"
    /\ calls[c] < MaxCalls
    /\ pc' = [pc EXCEPT ![c] = "serve"]
    /\ calls' = [calls EXCEPT ![c] = @ + 1]
    /\ asked' = [asked EXCEPT ![c] = r]
    /\ answer' = [answer EXCEPT ![c] = None]
    /\ UNCHANGED <<body, mine, resp, stamp, watchers>>

(* Mutant: an error is noticed and the call goes on. *)
RefuseAndGoOn(c) ==
    /\ pc[c] = "serve"
    /\ BodyOf(asked[c]) = Refused
    /\ pc' = [pc EXCEPT ![c] = "store"]
    /\ UNCHANGED <<calls, asked, body, mine, answer, resp, stamp, watchers>>

(* Every error returns at once, c.Resp is left alone. *)
Refuse(c) ==
    /\ pc[c] = "serve"
    /\ BodyOf(asked[c]) = Refused
    /\ answer' = [answer EXCEPT ![c] = Refused]
    /\ pc' = [pc EXCEPT ![c] = "done"]
    /\ UNCHANGED <<calls, asked, body, mine, resp, stamp, watchers>>

(* Mutant: a response that is still there is taken for the own one. *)
ServeFromLast(c) ==
    LET b == BodyOf(asked[c]) IN
    /\ pc[c] = "serve"
    /\ b # Refused
    /\ body' = [body EXCEPT ![c] = b]
    /\ mine' = [mine EXCEPT ![c] = stamp + 1]
    /\ watchers' = IF b.op = "watch" THEN watchers \cup {<<c, calls[c], b.res>>}
                   ELSE watchers
    /\ pc' = [pc EXCEPT ![c] = IF resp = None THEN "store" ELSE "fetch"]
    /\ UNCHANGED <<calls, asked, answer, resp, stamp>>

(* Mutant: the buffer of a watch is made and not registered. *)
ServeUnregistered(c) ==
    LET b == BodyOf(asked[c]) IN
    /\ pc[c] = "serve"
    /\ b # Refused
    /\ body' = [body EXCEPT ![c] = b]
    /\ pc' = [pc EXCEPT ![c] = "store"]
    /\ UNCHANGED <<calls, asked, mine, answer, resp, stamp, watchers>>

(* The body is made; a watch also registers its new buffer. *)
Serve(c) ==
    LET b == BodyOf(asked[c]) IN
    /\ pc[c] = "serve"
    /\ b # Refused
    /\ body' = [body EXCEPT ![c] = b]
    /\ watchers' = IF b.op = "watch" THEN watchers \cup {<<c, calls[c], b.res>>}
                   ELSE watchers
    /\ pc' = [pc EXCEPT ![c] = "store"]
    /\ UNCHANGED <<calls, asked, mine, answer, resp, stamp>>

(* c.Resp = &http.Response{...}, under the lock ... *)
StoreResp(c) ==
    /\ pc[c] = "store"
    /\ stamp' = stamp + 1
    /\ mine' = [mine EXCEPT ![c] = stamp + 1]
    /\ resp' = [by |-> c, call |-> calls[c], body |-> body[c], stamp |-> stamp + 1]
    /\ pc' = [pc EXCEPT ![c] = "fetch"]
    /\ UNCHANGED <<calls, asked, body, answer, watchers>>

(* ... and tmp := c.Resp, under the lock again. *)
FetchResp(c) ==
    /\ pc[c] = "fetch"
    /\ answer' = [answer EXCEPT ![c] = resp]
    /\ pc' = [pc EXCEPT ![c] = "done"]
    /\ UNCHANGED <<calls, asked, body, mine, resp, stamp, watchers>>

Return(c) ==
    /\ pc[c] = "done"
    /\ pc' = [pc EXCEPT ![c] = "idle"]
    /\ body' = [body EXCEPT ![c] = None]
    /\ UNCHANGED <<calls, asked, mine, answer, resp, stamp, watchers>>

Do(c) == \/ \E r \in Requests : Call(c, r)
         \/ Refuse(c) \/ Serve(c) \/ StoreResp(c) \/ FetchResp(c) \/ Return(c)

(* All the calls have returned. *)
Finished ==
    /\ \A c \in Callers : pc[c] = "idle" /\ calls[c] = MaxCalls
    /\ UNCHANGED vars

Next == (\E c \in Callers : Do(c)) \/ Finished

Spec == Init /\ [][Next]_vars

-----------------------------------------------------------------------------
(* Properties *)

Answered(c) == pc[c] = "done" /\ answer[c] # Refused

(* restclient.go:488-492 say what each request is answered with; here: a   *)
(* call returns the response that was made for it.                         *)
OwnResponse ==
    \A c \in Callers : Answered(c) => answer[c].by = c /\ answer[c].call = calls[c]

(* The objects are those that a path which names a namespace asks for: of  *)
(* that namespace, of that resource and, if the path goes on, that name.   *)
InScope(path, items) ==
    path[1] = "namespaces" =>
       \A o \in items : /\ o.ns = path[2] /\ o.res = path[3]
                        /\ Len(path) > 3 => o.name = path[4]

(* Whoever an answer is returned to, it holds only objects in the scope of *)
(* the request it was made for (as long as that call is its caller's last  *)
(* one): a caller that gets its own answer gets no object of another       *)
(* namespace, and a mixed-up answer is a whole answer of one other call.   *)
AnswerInScope ==
    \A c \in Callers : Answered(c) =>
       LET a == answer[c]
       IN  calls[a.by] = a.call => InScope(asked[a.by].path, a.body.items)

(* However the calls interleave, a call never returns a response stored    *)
(* before its own: what it gets is its own or that of a call in progress.  *)
FreshResponse == \A c \in Callers : Answered(c) => answer[c].stamp >= mine[c]

(* However the calls interleave, every watch a caller is given is          *)
(* registered, so that it will get the events of its resource.             *)
WatchRegistered ==
    \A c \in Callers : Answered(c) /\ answer[c].body.op = "watch" =>
       <<answer[c].by, answer[c].call, answer[c].body.res>> \in watchers
=============================================================================

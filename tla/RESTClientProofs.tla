--------------------------- MODULE RESTClientProofs ---------------------------
(***************************************************************************)
(* Proofs about RESTClient, for any set of callers, requests and objects.  *)
(* c.Resp is shared by all the calls in progress; the invariant says what  *)
(* a call can rely on nevertheless.                                        *)
(***************************************************************************)
EXTENDS RESTClient, SequenceTheorems, TLAPS

-----------------------------------------------------------------------------
(* The inductive invariant *)

(* The buffer of a response to a watch is registered. *)
Registered(a) ==
    a.body.op = "watch" => <<a.by, a.call, a.body.res>> \in watchers

(* The body a call is about to store is the one of its request. *)
BodyInv ==
    \A c \in Callers :
       /\ pc[c] # "idle" => asked[c] \in Requests /\ calls[c] > 0
       /\ pc[c] = "store" => /\ body[c] \in Body
                             /\ BodyOf(asked[c]) # Refused
                             /\ body[c] = BodyOf(asked[c])

(* c.Resp is empty until a call stores to it; then it holds the youngest   *)
(* response, which is not older than the one of any call in progress.      *)
RespInv ==
    /\ stamp = 0 \/ (resp \in Response /\ resp.stamp = stamp)
    /\ \A c \in Callers : mine[c] <= stamp
    /\ \A c \in Callers : pc[c] = "fetch" => stamp > 0
    /\ \A c \in Callers :
          Answered(c) => answer[c] \in Response /\ answer[c].stamp >= mine[c]

(* A watch is registered before its response is stored, and stays so. *)
WatchInv ==
    /\ \A c \in Callers : pc[c] = "store" /\ body[c].op = "watch" =>
          <<c, calls[c], body[c].res>> \in watchers
    /\ stamp > 0 => Registered(resp)
    /\ \A c \in Callers : Answered(c) => Registered(answer[c])

Inv == TypeOK /\ BodyInv /\ RespInv /\ WatchInv

(* A response was made for the request its caller makes, or for an earlier *)
(* one.                                                                    *)
MadeFor(a) ==
    /\ a.call <= calls[a.by]
    /\ a.call = calls[a.by] => /\ asked[a.by] \in Requests
                              /\ BodyOf(asked[a.by]) # Refused
                              /\ a.body = BodyOf(asked[a.by])

(* That is so of c.Resp and of every answer. *)
ScopeInv ==
    /\ stamp > 0 => MadeFor(resp)
    /\ \A c \in Callers : Answered(c) => MadeFor(answer[c])

(* Only one goroutine uses the client. *)
OneCaller == \A c, d \in Callers : c = d

(* Then c.Resp keeps the response of the call until the call fetches it.   *)
OwnInv ==
    /\ OwnResponse
    /\ \A c \in Callers : pc[c] = "fetch" => resp.by = c /\ resp.call = calls[c]

-----------------------------------------------------------------------------
(* Decoding a path *)

(* What Decode can return. *)
LEMMA DecodeFacts ==
    ASSUME NEW r
    PROVE  LET d == Decode(r) IN
           \/ d = Undecodable
           \/ \E res, matches : d = Watch(res, matches) \/ d = List(res, matches)
           \/ \E res, name, ns : d = Get(res, name, ns)
<1> DEFINE prefixed   == r.path # <<>> /\ r.path[1] = "watch"
           parts      == IF prefixed THEN Tail(r.path) ELSE r.path
           n          == Len(parts)
           isWatch    == prefixed \/ r.watch
           namespaced == parts[1] = "namespaces"
           pos        == n > 0
           listed     == n = 3 /\ ~isWatch /\ namespaced
           got        == n \in {4, 5} /\ ~isWatch /\ namespaced
                            /\ (n = 5 => parts[5] \in StatusFolds)
<1>1. Decode(r) =
        CASE pos /\ isWatch   -> Watch(parts[1], r.matches)
          [] n = 1 /\ ~isWatch -> List(parts[1], r.matches)
          [] n = 2 /\ ~isWatch -> Get(parts[1], parts[2], "")
          [] listed            -> List(parts[3], InNamespace(parts[2]))
          [] got               -> Get(parts[3], parts[4], parts[2])
          [] OTHER             -> Undecodable
  BY DEF Decode
<1> HIDE DEF parts, n, isWatch, pos, listed, got
<1> QED
  BY <1>1

(* A body is made of objects the store holds. *)
LEMMA BodyOfType ==
    ASSUME NEW r, BodyOf(r) # Refused
    PROVE  BodyOf(r) \in Body
<1> DEFINE d     == Decode(r)
           items == IF d.op = "get" THEN Found(d) ELSE Matching(d)
<1>1. items \subseteq Objects
  BY DEF Found, Matching
<1>2. BodyOf(r) = IF d.op = "error" THEN Refused
                  ELSE IF d.res \notin Resources \/ (d.op = "get" /\ items = {})
                  THEN Refused
                  ELSE [op |-> d.op, res |-> d.res, items |-> items]
  BY DEF BodyOf
<1>3. d.op \in {"error", "watch", "list", "get"}
  BY DecodeFacts DEF Undecodable, Watch, List, Get
<1> HIDE DEF d, items
<1>4. d.op # "error" /\ d.res \in Resources
  BY <1>2
<1> QED
  BY <1>1, <1>2, <1>3, <1>4 DEF Body

(* A path that names a namespace selects by it. *)
LEMMA ScopeOfPath ==
    ASSUME NEW r \in Requests, BodyOf(r) # Refused, r.path[1] = "namespaces",
           NEW o \in BodyOf(r).items
    PROVE  /\ o.ns = r.path[2] /\ o.res = r.path[3]
           /\ Len(r.path) > 3 => o.name = r.path[4]
<1> DEFINE path == r.path
           n    == Len(path)
           d    == Decode(r)
           anyNamespace == ""
<1>1. path \in Seq(STRING)
  BY ClientAssumption DEF Request
<1>2. n \in Nat
  BY <1>1, LenProperties
<1>3. d = CASE n > 0 /\ r.watch   -> Watch(path[1], r.matches)
            [] n = 1 /\ ~r.watch -> List(path[1], r.matches)
            [] n = 2 /\ ~r.watch -> Get(path[1], path[2], anyNamespace)
            [] n = 3 /\ ~r.watch -> List(path[3], InNamespace(path[2]))
            [] n \in {4, 5} /\ ~r.watch /\ (n = 5 => path[5] \in StatusFolds)
                                 -> Get(path[3], path[4], path[2])
            [] OTHER             -> Undecodable
  BY DEF Decode
<1>4. "namespaces" \notin Resources
  BY DEF Resources, Recognized
<1>5. /\ d.op # "error" /\ d.res \in Resources
      /\ BodyOf(r).items = IF d.op = "get" THEN Found(d) ELSE Matching(d)
  BY DEF BodyOf
<1> HIDE DEF n, d, path, anyNamespace
<1>6. CASE n > 0 /\ r.watch
  <2>1. d.res = path[1]
    BY <1>3, <1>6 DEF Watch
  <2> QED
    BY <2>1, <1>4, <1>5 DEF path
<1>7. CASE n \in {1, 2} /\ ~r.watch
  <2>1. d = List(path[1], r.matches) \/ d = Get(path[1], path[2], anyNamespace)
    <3>1. CASE n = 1
      BY <1>3, <1>7, <3>1
    <3>2. CASE n = 2
      BY <1>3, <1>7, <3>2
    <3> QED
      BY <1>7, <3>1, <3>2
  <2>2. List(path[1], r.matches).res = path[1]
    BY DEF List
  <2>3. Get(path[1], path[2], anyNamespace).res = path[1]
    BY DEF Get
  <2>4. d.res = path[1]
    BY <2>1, <2>2, <2>3, Zenon
  <2> QED
    BY <2>4, <1>4, <1>5 DEF path
<1>8. CASE n = 3 /\ ~r.watch
  <2>1. d = List(path[3], InNamespace(path[2]))
    BY <1>3, <1>8
  <2>2. o.res = path[3] /\ o \in InNamespace(path[2])
    BY <1>5, <2>1 DEF List, Matching
  <2> QED
    BY <1>8, <2>2 DEF InNamespace, n, path
<1>9. CASE n \in {4, 5} /\ ~r.watch /\ (n = 5 => path[5] \in StatusFolds)
  <2>1. d = Get(path[3], path[4], path[2])
    <3>1. CASE n = 4
      BY <1>3, <1>9, <3>1
    <3>2. CASE n = 5
      BY <1>3, <1>9, <3>2
    <3> QED
      BY <1>9, <3>1, <3>2
  <2>2. o.res = path[3] /\ o.ns = path[2] /\ o.name = path[4]
    BY <1>5, <2>1 DEF Get, Found
  <2> QED
    BY <2>2 DEF path
<1>10. CASE ~(n > 0 /\ r.watch) /\ n \notin {1, 2, 3}
            /\ ~(n \in {4, 5} /\ ~r.watch /\ (n = 5 => path[5] \in StatusFolds))
  <2>1. d = Undecodable
    BY <1>2, <1>3, <1>10
  <2> QED
    BY <1>5, <2>1 DEF Undecodable
<1> QED
  BY <1>2, <1>6, <1>7, <1>8, <1>9, <1>10

-----------------------------------------------------------------------------
(* The invariant holds initially. *)
LEMMA InvInit == Init => Inv
  BY ClientAssumption DEF Init, Inv, TypeOK, BodyInv, RespInv, WatchInv, Answered

(* Call *)
LEMMA CallStep ==
    ASSUME Inv, NEW c \in Callers, NEW r \in Requests, Call(c, r)
    PROVE  Inv'
<1> USE ClientAssumption DEF Inv, Call
<1>1. TypeOK'
  <2>1. calls' \in [Callers -> 0..MaxCalls]
    BY DEF TypeOK
  <2> QED
    BY <2>1 DEF TypeOK
<1>2. BodyInv'
  BY DEF TypeOK, BodyInv
<1>3. RespInv'
  BY DEF TypeOK, RespInv, Answered
<1>4. WatchInv'
  BY DEF TypeOK, WatchInv, Answered, Registered
<1> QED
  BY <1>1, <1>2, <1>3, <1>4

(* Refuse *)
LEMMA RefuseStep ==
    ASSUME Inv, NEW c \in Callers, Refuse(c)
    PROVE  Inv'
<1> USE DEF Inv, Refuse
<1>1. TypeOK'
  BY DEF TypeOK
<1>2. BodyInv'
  BY DEF TypeOK, BodyInv
<1>3. RespInv'
  BY DEF TypeOK, RespInv, Answered
<1>4. WatchInv'
  BY DEF TypeOK, WatchInv, Answered, Registered
<1> QED
  BY <1>1, <1>2, <1>3, <1>4

(* Serve *)
LEMMA ServeStep ==
    ASSUME Inv, NEW c \in Callers, Serve(c)
    PROVE  Inv'
<1> DEFINE b == BodyOf(asked[c])
<1>1. b # Refused /\ b \in Body
  BY BodyOfType DEF Serve
<1>2. /\ pc[c] = "serve" /\ pc' = [pc EXCEPT ![c] = "store"]
      /\ body' = [body EXCEPT ![c] = b]
      /\ watchers' = IF b.op = "watch" THEN watchers \cup {<<c, calls[c], b.res>>}
                     ELSE watchers
      /\ UNCHANGED <<calls, asked, mine, answer, resp, stamp>>
  BY DEF Serve
<1>3. b = BodyOf(asked'[c])
  BY <1>2
<1> HIDE DEF b
<1> USE DEF Inv
<1>4. calls[c] \in 1..MaxCalls
  BY <1>2, ClientAssumption DEF TypeOK, BodyInv
<1>5. TypeOK'
  <2>1. b.res \in Resources
    BY <1>1 DEF Body
  <2>2. watchers' \subseteq Callers \X (1..MaxCalls) \X Resources
    BY <1>2, <1>4, <2>1 DEF TypeOK
  <2> QED
    BY <1>1, <1>2, <2>2 DEF TypeOK
<1>6. BodyInv'
  BY <1>1, <1>2, <1>3 DEF TypeOK, BodyInv
<1>7. RespInv'
  BY <1>2 DEF TypeOK, RespInv, Answered
<1>8. WatchInv'
  BY <1>2 DEF TypeOK, WatchInv, Answered, Registered
<1> QED
  BY <1>5, <1>6, <1>7, <1>8

(* StoreResp *)
LEMMA StoreRespStep ==
    ASSUME Inv, NEW c \in Callers, StoreResp(c)
    PROVE  Inv'
<1> USE DEF Inv
<1>1. /\ pc[c] = "store" /\ pc' = [pc EXCEPT ![c] = "fetch"]
      /\ stamp' = stamp + 1
      /\ mine' = [mine EXCEPT ![c] = stamp + 1]
      /\ resp' = [by |-> c, call |-> calls[c], body |-> body[c], stamp |-> stamp + 1]
      /\ UNCHANGED <<calls, asked, body, answer, watchers>>
  BY DEF StoreResp
<1>2. stamp \in Nat /\ stamp + 1 \in Nat /\ stamp + 1 > 0
  BY DEF TypeOK
<1>3. calls[c] \in 1..MaxCalls /\ body[c] \in Body
  BY <1>1, ClientAssumption DEF TypeOK, BodyInv
<1>4. resp' \in Response
  BY <1>1, <1>2, <1>3 DEF Response
<1>5. resp'.stamp = stamp' /\ resp'.by = c /\ resp'.call = calls[c] /\ resp'.body = body[c]
  BY <1>1
<1>6. TypeOK'
  BY <1>1, <1>2, <1>4 DEF TypeOK
<1>7. BodyInv'
  BY <1>1 DEF TypeOK, BodyInv
<1>8. RespInv'
  <2>1. \A d \in Callers : mine'[d] <= stamp'
    BY <1>1, <1>2 DEF TypeOK, RespInv
  <2>2. \A d \in Callers : pc'[d] = "fetch" => stamp' > 0
    BY <1>1, <1>2
  <2>3. \A d \in Callers : Answered(d)' => Answered(d) /\ mine'[d] = mine[d]
    BY <1>1 DEF Answered, TypeOK
  <2>4. \A d \in Callers :
          Answered(d)' => answer'[d] \in Response /\ answer'[d].stamp >= mine'[d]
    BY <1>1, <2>3 DEF RespInv
  <2> QED
    BY <1>4, <1>5, <2>1, <2>2, <2>4 DEF RespInv
<1>9. WatchInv'
  <2>1. \A d \in Callers : Answered(d)' => Answered(d)
    BY <1>1 DEF Answered, TypeOK
  <2>2. \A d \in Callers : Answered(d)' => Registered(answer[d])'
    BY <1>1, <2>1 DEF WatchInv, Registered
  <2>3. Registered(resp)'
    BY <1>1, <1>5 DEF WatchInv, Registered
  <2>4. \A d \in Callers : pc'[d] = "store" => pc[d] = "store"
    BY <1>1 DEF TypeOK
  <2> QED
    BY <1>1, <2>2, <2>3, <2>4 DEF WatchInv
<1> QED
  BY <1>6, <1>7, <1>8, <1>9

(* FetchResp: what is fetched is the youngest response. *)
LEMMA FetchRespStep ==
    ASSUME Inv, NEW c \in Callers, FetchResp(c)
    PROVE  Inv'
<1> USE DEF Inv
<1>1. /\ pc[c] = "fetch" /\ pc' = [pc EXCEPT ![c] = "done"]
      /\ answer' = [answer EXCEPT ![c] = resp]
      /\ UNCHANGED <<calls, asked, body, mine, resp, stamp, watchers>>
  BY DEF FetchResp
<1>2. stamp \in Nat /\ stamp > 0 /\ mine[c] <= stamp
  BY <1>1 DEF TypeOK, RespInv
<1>3. resp \in Response /\ resp.stamp = stamp /\ Registered(resp)
  BY <1>2 DEF RespInv, WatchInv
<1>4. TypeOK'
  BY <1>1, <1>3 DEF TypeOK
<1>5. BodyInv'
  BY <1>1 DEF TypeOK, BodyInv
<1>6. \A d \in Callers : d # c => (Answered(d)' => Answered(d) /\ answer'[d] = answer[d])
  BY <1>1 DEF Answered, TypeOK
<1>7. answer'[c] = resp
  BY <1>1 DEF TypeOK
<1>8. RespInv'
  <2>1. resp.stamp >= mine[c]
    BY <1>2, <1>3 DEF TypeOK
  <2>2. \A d \in Callers :
          Answered(d)' => answer'[d] \in Response /\ answer'[d].stamp >= mine'[d]
    BY <1>1, <1>3, <1>6, <1>7, <2>1 DEF RespInv
  <2>3. \A d \in Callers : pc'[d] = "fetch" => stamp' > 0
    BY <1>1, <1>2
  <2> QED
    BY <1>1, <1>3, <2>2, <2>3 DEF RespInv
<1>9. WatchInv'
  <2>1. \A d \in Callers : Answered(d)' => Registered(answer[d])'
    BY <1>1, <1>3, <1>6, <1>7 DEF WatchInv, Registered
  <2>2. \A d \in Callers : pc'[d] = "store" => pc[d] = "store"
    BY <1>1 DEF TypeOK
  <2> QED
    BY <1>1, <2>1, <2>2 DEF WatchInv, Registered
<1> QED
  BY <1>4, <1>5, <1>8, <1>9

(* Return *)
LEMMA ReturnStep ==
    ASSUME Inv, NEW c \in Callers, Return(c)
    PROVE  Inv'
<1> USE DEF Inv, Return
<1>1. TypeOK'
  BY DEF TypeOK
<1>2. BodyInv'
  BY DEF TypeOK, BodyInv
<1>3. RespInv'
  BY DEF TypeOK, RespInv, Answered
<1>4. WatchInv'
  BY DEF TypeOK, WatchInv, Answered, Registered
<1> QED
  BY <1>1, <1>2, <1>3, <1>4

(* Every action preserves the invariant. *)
LEMMA InvStep == Inv /\ [Next]_vars => Inv'
<1> SUFFICES ASSUME Inv, [Next]_vars PROVE Inv'
  OBVIOUS
<1>1. ASSUME NEW c \in Callers, Do(c) PROVE Inv'
  BY <1>1, CallStep, RefuseStep, ServeStep, StoreRespStep, FetchRespStep, ReturnStep
    DEF Do
<1>2. CASE UNCHANGED vars
  BY <1>2 DEF vars, Inv, TypeOK, BodyInv, RespInv, WatchInv, Answered, Registered
<1> QED
  BY <1>1, <1>2 DEF Next, Finished

(* The invariant holds in every reachable state. *)
LEMMA Invariance == Spec => []Inv
  BY InvInit, InvStep, PTL DEF Spec

-----------------------------------------------------------------------------
(* The state of the client and of the calls in progress keeps its type. *)
THEOREM ClientTypeCorrect == Spec => []TypeOK
<1>1. Inv => TypeOK
  BY DEF Inv
<1> QED
  BY <1>1, Invariance, PTL

(* However many calls interleave between the store to c.Resp and the load  *)
(* from it, a call never returns a response older than its own.            *)
THEOREM NeverStale == Spec => []FreshResponse
<1>1. Inv => FreshResponse
  BY DEF Inv, RespInv, FreshResponse
<1> QED
  BY <1>1, Invariance, PTL

(* Every watch a caller is given, its own or another's, is registered: it  *)
(* will get the events of its resource.                                    *)
THEOREM WatchIsRegistered == Spec => []WatchRegistered
<1>1. Inv => WatchRegistered
  BY DEF Inv, WatchInv, Registered, WatchRegistered
<1> QED
  BY <1>1, Invariance, PTL

(* Only a new call changes what its caller asks, and then every response   *)
(* there is was made for an earlier call.                                  *)
LEMMA MadeForStep ==
    ASSUME Inv, NEW c \in Callers, Do(c), NEW a \in Response, MadeFor(a)
    PROVE  MadeFor(a)'
<1>1. a.by \in Callers /\ a.call \in 1..MaxCalls
  BY DEF Response
<1>2. calls \in [Callers -> 0..MaxCalls] /\ asked \in [Callers -> Requests \cup {None}]
      /\ MaxCalls \in Nat
  BY ClientAssumption DEF Inv, TypeOK
<1>3. CASE UNCHANGED <<calls, asked>>
  BY <1>3 DEF MadeFor
<1>4. ASSUME NEW r \in Requests, Call(c, r) PROVE MadeFor(a)'
  <2>1. /\ calls' = [calls EXCEPT ![c] = calls[c] + 1]
        /\ asked' = [asked EXCEPT ![c] = r]
    BY <1>4 DEF Call
  <2>2. CASE a.by = c
    <3>1. calls'[a.by] = calls[a.by] + 1 /\ calls[a.by] \in Nat
      BY <1>1, <1>2, <2>1, <2>2
    <3>2. a.call <= calls'[a.by] /\ a.call # calls'[a.by]
      BY <1>1, <1>2, <3>1 DEF MadeFor
    <3> QED
      BY <3>2 DEF MadeFor
  <2>3. CASE a.by # c
    <3>1. calls'[a.by] = calls[a.by] /\ asked'[a.by] = asked[a.by]
      BY <1>1, <1>2, <2>1, <2>3
    <3> QED
      BY <3>1 DEF MadeFor
  <2> QED
    BY <2>2, <2>3
<1> QED
  BY <1>3, <1>4 DEF Do, Refuse, Serve, StoreResp, FetchResp, Return

(* The response that is stored was made for the request of the call. *)
LEMMA ScopeStep ==
    ASSUME Inv, ScopeInv, [Next]_vars
    PROVE  ScopeInv'
<1>1. ASSUME NEW c \in Callers, Do(c) PROVE ScopeInv'
  <2>0. /\ pc \in [Callers -> {"idle", "serve", "store", "fetch", "done"}]
        /\ DOMAIN answer = Callers /\ stamp \in Nat
        /\ stamp > 0 => resp \in Response
        /\ \A d \in Callers : Answered(d) => answer[d] \in Response
        /\ pc[c] = "fetch" => stamp > 0
    BY DEF Inv, TypeOK, RespInv
  <2>1. (stamp > 0 => MadeFor(resp))'
    <3>1. CASE StoreResp(c)
      <4>1. resp'.by = c /\ resp'.call = calls[c] /\ resp'.body = body[c]
            /\ UNCHANGED <<calls, asked>> /\ pc[c] = "store"
        BY <3>1 DEF StoreResp
      <4>2. /\ body[c] \in Body /\ calls[c] \in 0..MaxCalls /\ MaxCalls \in Nat
            /\ asked[c] \in Requests
        BY <4>1, ClientAssumption DEF Inv, TypeOK, BodyInv
      <4>3. BodyOf(asked[c]) # Refused /\ body[c] = BodyOf(asked[c])
        BY <4>1 DEF Inv, BodyInv
      <4> QED
        BY <4>1, <4>2, <4>3 DEF MadeFor
    <3>2. CASE UNCHANGED <<resp, stamp>>
      <4> SUFFICES ASSUME stamp > 0 PROVE MadeFor(resp)'
        BY <3>2
      <4>1. PICK a \in Response : a = resp
        BY <2>0
      <4>2. MadeFor(a)'
        BY <1>1, <4>1, MadeForStep DEF ScopeInv
      <4> QED
        BY <3>2, <4>1, <4>2 DEF MadeFor
    <3> QED
      BY <1>1, <3>1, <3>2 DEF Do, Call, Refuse, Serve, FetchResp, Return
  <2>2. ASSUME NEW d \in Callers, Answered(d)' PROVE MadeFor(answer[d])'
    <3>1. CASE Answered(d) /\ answer'[d] = answer[d]
      <4>1. PICK a \in Response : a = answer[d]
        BY <2>0, <3>1
      <4>2. MadeFor(a)'
        BY <1>1, <3>1, <4>1, MadeForStep DEF ScopeInv
      <4> QED
        BY <3>1, <4>1, <4>2 DEF MadeFor
    <3>2. CASE FetchResp(c) /\ d = c
      <4>1. answer'[c] = resp /\ stamp > 0 /\ UNCHANGED <<calls, asked>>
        BY <2>0, <3>2 DEF FetchResp
      <4> QED
        BY <3>2, <4>1 DEF ScopeInv, MadeFor
    <3> QED
      BY <1>1, <2>0, <2>2, <3>1, <3>2
        DEF Answered, Do, Call, Refuse, Serve, StoreResp, FetchResp, Return
  <2> QED
    BY <2>1, <2>2 DEF ScopeInv
<1>2. CASE UNCHANGED vars
  BY <1>2 DEF vars, ScopeInv, MadeFor, Answered
<1> QED
  BY <1>1, <1>2 DEF Next, Finished

(* For any store, any paths and any number of callers: whoever an answer   *)
(* is returned to, it holds only objects of the namespace, the resource    *)
(* and the name that the request it was made for asks for.                 *)
THEOREM AnswerIsInScope == Spec => []AnswerInScope
<1>1. Init => ScopeInv
  BY DEF Init, ScopeInv, Answered
<1>2. Inv /\ ScopeInv => AnswerInScope
  <2> SUFFICES ASSUME Inv, ScopeInv, NEW c \in Callers, Answered(c),
                      calls[answer[c].by] = answer[c].call
               PROVE  InScope(asked[answer[c].by].path, answer[c].body.items)
    BY DEF AnswerInScope
  <2>1. /\ asked[answer[c].by] \in Requests /\ BodyOf(asked[answer[c].by]) # Refused
        /\ answer[c].body = BodyOf(asked[answer[c].by])
    BY DEF ScopeInv, MadeFor
  <2> QED
    BY <2>1, ScopeOfPath DEF InScope
<1> QED
  BY <1>1, <1>2, ScopeStep, Invariance, PTL DEF Spec

-----------------------------------------------------------------------------
(* One caller *)

(* With one caller nobody stores to c.Resp between its store and its load. *)
LEMMA OwnStep ==
    ASSUME OneCaller, Inv, OwnInv, [Next]_vars
    PROVE  OwnInv'
<1> USE DEF OwnInv, OwnResponse, Answered
<1>1. ASSUME NEW c \in Callers, Do(c) PROVE OwnInv'
  <2>1. \A d \in Callers : d = c
    BY DEF OneCaller
  <2>2. /\ pc \in [Callers -> {"idle", "serve", "store", "fetch", "done"}]
        /\ DOMAIN answer = Callers
    BY DEF Inv, TypeOK
  <2>3. CASE \E r \in Requests : Call(c, r)
    BY <2>1, <2>2, <2>3 DEF Call
  <2>4. CASE Refuse(c)
    BY <2>1, <2>2, <2>4 DEF Refuse
  <2>5. CASE Serve(c)
    BY <2>1, <2>2, <2>5 DEF Serve
  <2>6. CASE StoreResp(c)
    BY <2>1, <2>2, <2>6 DEF StoreResp
  <2>7. CASE FetchResp(c)
    BY <2>1, <2>2, <2>7 DEF FetchResp, Inv, TypeOK
  <2>8. CASE Return(c)
    BY <2>1, <2>2, <2>8 DEF Return
  <2> QED
    BY <1>1, <2>3, <2>4, <2>5, <2>6, <2>7, <2>8 DEF Do
<1>2. CASE UNCHANGED vars
  BY <1>2 DEF vars
<1> QED
  BY <1>1, <1>2 DEF Next, Finished

(* The responses are mixed up by concurrent calls only: a client with one  *)
(* caller answers every call with the response made for it.                *)
THEOREM SoleCallerGetsOwn ==
    ASSUME OneCaller
    PROVE  Spec => []OwnResponse
<1>1. Init => OwnInv
  BY DEF Init, OwnInv, OwnResponse, Answered
<1>2. Inv /\ OwnInv /\ [Next]_vars => OwnInv'
  BY OwnStep
<1>3. OwnInv => OwnResponse
  BY DEF OwnInv
<1> QED
  BY <1>1, <1>2, <1>3, Invariance, PTL DEF Spec

(* Every answer is in the scope of the request of the call it is returned  *)
(* to.                                                                     *)
OwnScope ==
    \A c \in Callers : Answered(c) => InScope(asked[c].path, answer[c].body.items)

(* With one caller a request that names a namespace is answered with       *)
(* objects of that namespace, that resource and that name only.            *)
THEOREM SoleCallerInScope ==
    ASSUME OneCaller
    PROVE  Spec => []OwnScope
<1>1. AnswerInScope /\ OwnResponse => OwnScope
  BY DEF AnswerInScope, OwnResponse, OwnScope
<1> QED
  BY <1>1, AnswerIsInScope, SoleCallerGetsOwn, PTL
=============================================================================

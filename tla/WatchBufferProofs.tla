-------------------------- MODULE WatchBufferProofs --------------------------
(***************************************************************************)
(* Proofs about WatchBuffer, for any number of readers, writers and events *)
(* and any sizes of events and reads: no byte is lost, repeated or         *)
(* reordered, a Read ends a watch only if it is closed, and the channels   *)
(* and the lock implement the byte stream of WatchStream.                  *)
(***************************************************************************)
EXTENDS WatchBuffer, SequenceTheorems, TLAPS

-----------------------------------------------------------------------------
(* The inductive invariant *)

(* closeMux is held by the goroutine whose program counter says so. *)
LockInv ==
    /\ \A r \in Readers : (reader[r] = "sending") <=> (lock = r)
    /\ (loop = "reply") <=> (lock = "loop")

(* The loop works for a Read that waits for it, unless Close has woken it. *)
PendingInv ==
    loop \in {"await", "serve", "check", "lock", "reply"} /\ ~closed =>
       \E r \in Readers : reader[r] = "waiting"

(* loop reads from a buffer with bytes in it, and hands on what it read.   *)
LoopInv ==
    /\ loop = "serve" => buf # <<>>
    /\ loop \in {"check", "lock", "reply"} => out # <<>>
    /\ loop \in {"select", "await", "serve", "exit"} => out = <<>>

(* A writer that has passed the check has an event left to send. *)
WriterInv == \A w \in Writers : writer[w] = "sending" => sent[w] < MaxEvents

Inv == /\ TypeOK /\ LockInv /\ PendingInv /\ LoopInv /\ WriterInv
       /\ EndMeansClosed /\ StreamIntact

(* At most one goroutine reads the watch. *)
OneReader == \A r, s \in Readers : r = s

(* With one reader: loop works for no one while the reader is about to ask. *)
AskInv ==
    \A r \in Readers :
       (reader[r] \in {"lock", "sending"} \/ (reader[r] = "idle" /\ ~closed))
          => loop \in {"select", "exit"}

-----------------------------------------------------------------------------
(* Sequences of bytes *)

(* An encoded event is a non-empty sequence of bytes. *)
LEMMA FrameFacts ==
    ASSUME NEW w \in Writers, NEW k \in 1..MaxEvents
    PROVE  /\ Frame(w, k) \in Seq(Byte)
           /\ Len(Frame(w, k)) = FrameLen
           /\ Frame(w, k) # <<>>
<1>1. FrameLen \in Nat /\ FrameLen > 0
  BY BufferAssumption
<1>2. Frame(w, k) \in [1..FrameLen -> Byte]
  BY DEF Frame, Byte
<1>3. Frame(w, k) \in Seq(Byte)
  BY <1>1, <1>2
<1>4. Len(Frame(w, k)) = FrameLen
  BY <1>1, <1>2
<1> QED
  BY <1>1, <1>3, <1>4, EmptySeq

(* Reading k bytes from a buffer splits it in what is read and the rest.   *)
LEMMA SplitFacts ==
    ASSUME NEW S, NEW s \in Seq(S), NEW k \in 1..Len(s)
    PROVE  LET t == SubSeq(s, 1, k)
               u == SubSeq(s, k + 1, Len(s))
           IN  t \in Seq(S) /\ u \in Seq(S) /\ t # <<>> /\ t \o u = s
<1> DEFINE t == SubSeq(s, 1, k)
           u == SubSeq(s, k + 1, Len(s))
<1>1. Len(s) \in Nat /\ k \in Nat /\ k > 0 /\ k <= Len(s)
  BY LenProperties
<1>2. /\ \A i \in 1..k : s[i] \in S
      /\ \A i \in (k + 1)..Len(s) : s[i] \in S
  BY <1>1, ElementOfSeq
<1>3. t \in Seq(S) /\ Len(t) = IF 1 <= k THEN k - 1 + 1 ELSE 0
  BY <1>1, <1>2, SubSeqProperties
<1>4. Len(t) = k
  BY <1>1, <1>3
<1>5. u \in Seq(S)
  BY <1>1, <1>2, SubSeqProperties
<1>6. 1 \in 1..(Len(s) + 1) /\ k \in (1 - 1)..Len(s) /\ Len(s) \in k..Len(s)
  BY <1>1
<1>7. t \o u = SubSeq(s, 1, Len(s))
  BY <1>6, ConcatAdjacentSubSeq
<1> QED
  BY <1>1, <1>3, <1>4, <1>5, <1>7, SubSeqFull, EmptySeq

(* What a sequence is continued with leaves it a prefix of the whole. *)
LEMMA PrefixOfConcat ==
    ASSUME NEW S, NEW d \in Seq(S), NEW x \in Seq(S)
    PROVE  \E n \in 0..Len(d \o x) : d = SubSeq(d \o x, 1, n)
<1> DEFINE a == d \o x
           n == Len(d)
           t == SubSeq(a, 1, n)
<1>1. /\ a \in Seq(S) /\ Len(a) = Len(d) + Len(x)
      /\ \A i \in 1..(Len(d) + Len(x)) : a[i] = IF i <= n THEN d[i] ELSE x[i - n]
  BY ConcatProperties
<1>2. n \in Nat /\ Len(x) \in Nat
  BY LenProperties
<1> HIDE DEF a, n
<1>3. n \in 0..Len(a) /\ 1 \in Int /\ n \in Int
  BY <1>1, <1>2 DEF n
<1>4. \A i \in 1..n : a[i] = d[i]
  BY <1>1, <1>2 DEF n
<1>5. \A i \in 1..n : a[i] \in S
  BY <1>4, ElementOfSeq DEF n
<1>6. /\ t \in Seq(S)
      /\ Len(t) = IF 1 <= n THEN n - 1 + 1 ELSE 0
      /\ \A i \in 1..(n - 1 + 1) : t[i] = a[1 + i - 1]
  BY <1>3, <1>5, SubSeqProperties
<1> HIDE DEF t
<1>7. Len(t) = n /\ n - 1 + 1 = n /\ \A i \in 1..n : 1 + i - 1 = i
  BY <1>2, <1>6
<1>8. \A i \in 1..n : t[i] = d[i]
  BY <1>4, <1>6, <1>7
<1>9. t = d
  BY <1>6, <1>7, <1>8, SeqEqual DEF n
<1> QED
  BY <1>3, <1>9 DEF t, a

(* Concatenation is associative; stated for bytes. *)
LEMMA BytesAssociate == \A s, t, u \in Seq(Byte) : (s \o t) \o u = s \o (t \o u)
<1> SUFFICES ASSUME NEW s \in Seq(Byte), NEW t \in Seq(Byte), NEW u \in Seq(Byte)
             PROVE  (s \o t) \o u = s \o (t \o u)
  OBVIOUS
<1> HIDE DEF Byte
<1> QED
  BY ConcatAssociative

(* The second part of StreamIntact follows from the first. *)
LEMMA IntactIsPrefix ==
    ASSUME delivered \in Seq(Byte), out \in Seq(Byte), buf \in Seq(Byte),
           accepted = delivered \o out \o buf
    PROVE  \E n \in 0..Len(accepted) : delivered = SubSeq(accepted, 1, n)
<1>1. accepted = delivered \o (out \o buf)
  BY BytesAssociate
<1>2. out \o buf \in Seq(Byte)
  BY ConcatProperties
<1>3. \E n \in 0..Len(delivered \o (out \o buf)) :
         delivered = SubSeq(delivered \o (out \o buf), 1, n)
  BY <1>2, PrefixOfConcat, Zenon
<1> QED
  BY <1>1, <1>3, Zenon

-----------------------------------------------------------------------------
(* The invariant holds initially. *)
LEMMA InvInit == Init => Inv
<1> SUFFICES ASSUME Init PROVE Inv
  OBVIOUS
<1>1. <<>> \in Seq(Byte)
  BY EmptySeq
<1>2. TypeOK
  <2>1. sent \in [Writers -> 0..MaxEvents]
    BY BufferAssumption DEF Init
  <2>2. /\ reader \in [Readers -> {"idle", "lock", "sending", "waiting", "eof"}]
        /\ writer \in [Writers -> {"idle", "sending", "refused"}]
        /\ result \in [Readers -> {"none", "data", "empty", "EOF"}]
    BY DEF Init
  <2> QED
    BY <1>1, <2>1, <2>2 DEF Init, TypeOK
<1>3. accepted = delivered \o out \o buf
  BY <1>1, ConcatEmptySeq DEF Init
<1>4. StreamIntact
  BY <1>2, <1>3, IntactIsPrefix DEF StreamIntact, TypeOK
<1>5. LockInv /\ PendingInv /\ LoopInv /\ WriterInv /\ EndMeansClosed
  BY BufferAssumption DEF Init, LockInv, PendingInv, LoopInv, WriterInv,
       EndMeansClosed
<1> QED
  BY <1>2, <1>4, <1>5 DEF Inv

(* A step that leaves the bytes alone leaves the stream intact. *)
LEMMA StreamFrame ==
    ASSUME StreamIntact, UNCHANGED <<buf, out, accepted, delivered>>,
           closed => closed'
    PROVE  StreamIntact'
  BY DEF StreamIntact

(* Every action preserves the invariant. *)
LEMMA InvStep == Inv /\ [Next]_vars => Inv'
<1> SUFFICES ASSUME Inv, [Next]_vars PROVE Inv'
  OBVIOUS
<1> USE DEF Inv
<1>1. ASSUME NEW r \in Readers, ReadCheck(r) PROVE Inv'
  <2>1. StreamIntact'
    BY <1>1, StreamFrame DEF ReadCheck
  <2>2. TypeOK'
    BY <1>1, BufferAssumption DEF TypeOK, ReadCheck
  <2> QED
    BY <1>1, <2>1, <2>2, BufferAssumption
      DEF TypeOK, LockInv, PendingInv, LoopInv, WriterInv, EndMeansClosed, ReadCheck
<1>2. ASSUME NEW r \in Readers, ReadLock(r) PROVE Inv'
  <2>1. StreamIntact'
    BY <1>2, StreamFrame DEF ReadLock
  <2>2. TypeOK'
    BY <1>2, BufferAssumption DEF TypeOK, ReadLock
  <2> QED
    BY <1>2, <2>1, <2>2, BufferAssumption
      DEF TypeOK, LockInv, PendingInv, LoopInv, WriterInv, EndMeansClosed, ReadLock
<1>3. ASSUME NEW r \in Readers, ReadSend(r) PROVE Inv'
  <2>1. StreamIntact'
    BY <1>3, StreamFrame DEF ReadSend
  <2>2. TypeOK'
    BY <1>3, BufferAssumption DEF TypeOK, ReadSend
  <2> QED
    BY <1>3, <2>1, <2>2, BufferAssumption
      DEF TypeOK, LockInv, PendingInv, LoopInv, WriterInv, EndMeansClosed, ReadSend
<1>4. ASSUME NEW r \in Readers, ReadWoken(r) PROVE Inv'
  <2>1. StreamIntact'
    BY <1>4, StreamFrame DEF ReadWoken
  <2>2. TypeOK'
    BY <1>4, BufferAssumption DEF TypeOK, ReadWoken
  <2> QED
    BY <1>4, <2>1, <2>2, BufferAssumption
      DEF TypeOK, LockInv, PendingInv, LoopInv, WriterInv, EndMeansClosed, ReadWoken
<1>5. ASSUME NEW w \in Writers, WriteCheck(w) PROVE Inv'
  <2>1. StreamIntact'
    BY <1>5, StreamFrame DEF WriteCheck
  <2>2. TypeOK'
    BY <1>5, BufferAssumption DEF TypeOK, WriteCheck
  <2> QED
    BY <1>5, <2>1, <2>2, BufferAssumption
      DEF TypeOK, LockInv, PendingInv, LoopInv, WriterInv, EndMeansClosed, WriteCheck
<1>6. ASSUME NEW w \in Writers, WriteSend(w) PROVE Inv'
  <2> DEFINE f == Frame(w, sent[w] + 1)
             x == delivered \o out
  <2>1. sent[w] \in 0..MaxEvents /\ sent[w] < MaxEvents /\ MaxEvents \in Nat
    BY <1>6, BufferAssumption DEF WriteSend, WriterInv, TypeOK
  <2>2. sent[w] + 1 \in 1..MaxEvents
    BY <2>1
  <2>3. f \in Seq(Byte) /\ Len(f) = FrameLen /\ f # <<>>
    BY <2>2, FrameFacts
  <2>4. buf' = buf \o f /\ accepted' = accepted \o f /\ UNCHANGED <<out, delivered>>
    BY <1>6 DEF WriteSend
  <2> HIDE DEF f
  <2>5. buf \in Seq(Byte) /\ out \in Seq(Byte) /\ delivered \in Seq(Byte)
    BY DEF TypeOK
  <2>6. buf' \in Seq(Byte) /\ accepted' \in Seq(Byte)
    BY <2>3, <2>4, ConcatProperties DEF TypeOK
  <2>7. buf' # <<>>
    BY <2>3, <2>4, <2>5, ConcatEqualIffEmpty
  <2>8. x \in Seq(Byte) /\ accepted = x \o buf
    BY <1>6, <2>5, ConcatProperties DEF StreamIntact, WriteSend
  <2> HIDE DEF x
  <2>9. accepted' = x \o buf'
    <3>1. (x \o buf) \o f = x \o (buf \o f)
      BY <2>3, <2>5, <2>8, BytesAssociate
    <3> QED
      BY <2>4, <2>8, <3>1
  <2>10. accepted' = delivered' \o out' \o buf'
    BY <2>4, <2>9 DEF x
  <2>11. \E n \in 0..Len(accepted') : delivered' = SubSeq(accepted', 1, n)
    <3>1. (accepted = delivered \o out \o buf)'
      BY <2>10
    <3>2. (delivered \in Seq(Byte) /\ out \in Seq(Byte) /\ buf \in Seq(Byte))'
      BY <2>4, <2>5, <2>6
    <3> QED
      BY <3>1, <3>2, IntactIsPrefix
  <2>12. StreamIntact'
    BY <2>10, <2>11 DEF StreamIntact
  <2>13. TypeOK'
    <3>1. sent' \in [Writers -> 0..MaxEvents]
      <4>1. sent[w] + 1 \in 0..MaxEvents
        BY <2>2
      <4>2. sent' = [sent EXCEPT ![w] = sent[w] + 1]
        BY <1>6 DEF WriteSend
      <4> QED
        BY <4>1, <4>2 DEF TypeOK
    <3>2. writer' \in [Writers -> {"idle", "sending", "refused"}]
      BY <1>6 DEF TypeOK, WriteSend
    <3>3. /\ loop' \in {"select", "await", "serve", "check", "lock", "reply", "exit"}
          /\ UNCHANGED <<out, closed, lock, reader, result, delivered, panicked>>
      BY <1>6 DEF WriteSend
    <3> QED
      BY <2>6, <3>1, <3>2, <3>3 DEF TypeOK
  <2>14. LockInv' /\ PendingInv' /\ EndMeansClosed'
    BY <1>6 DEF LockInv, PendingInv, EndMeansClosed, WriteSend
  <2>15. LoopInv'
    BY <1>6, <2>7 DEF LoopInv, WriteSend
  <2>16. WriterInv'
    BY <1>6 DEF WriterInv, TypeOK, WriteSend
  <2> QED
    BY <2>12, <2>13, <2>14, <2>15, <2>16
<1>7. CASE LoopServe
  <2>1. PICK n \in 1..ReadSize :
          LET k == IF n < Len(buf) THEN n ELSE Len(buf) IN
          /\ out' = SubSeq(buf, 1, k)
          /\ buf' = SubSeq(buf, k + 1, Len(buf))
    BY <1>7 DEF LoopServe
  <2> DEFINE k == IF n < Len(buf) THEN n ELSE Len(buf)
  <2>2. buf \in Seq(Byte) /\ buf # <<>> /\ out = <<>> /\ delivered \in Seq(Byte)
    BY <1>7 DEF LoopServe, LoopInv, TypeOK
  <2>3. Len(buf) \in Nat \ {0} /\ n \in Nat \ {0}
    BY <2>2, EmptySeq, BufferAssumption
  <2>4. k \in 1..Len(buf)
    BY <2>3
  <2>5. out' = SubSeq(buf, 1, k) /\ buf' = SubSeq(buf, k + 1, Len(buf))
    BY <2>1
  <2> HIDE DEF k
  <2>6. out' \in Seq(Byte) /\ buf' \in Seq(Byte) /\ out' # <<>> /\ out' \o buf' = buf
    BY <2>2, <2>4, <2>5, SplitFacts
  <2>7. /\ loop = "serve" /\ loop' = "check"
        /\ UNCHANGED <<closed, lock, reader, writer, sent, result, accepted, delivered,
                       panicked>>
    BY <1>7 DEF LoopServe
  <2>8. TypeOK'
    BY <2>6, <2>7 DEF TypeOK
  <2>9. ~closed => accepted = delivered \o out' \o buf'
    <3>1. ~closed => accepted = delivered \o buf
      BY <2>2, ConcatEmptySeq DEF StreamIntact
    <3>2. (delivered \o out') \o buf' = delivered \o (out' \o buf')
      BY <2>2, <2>6, BytesAssociate
    <3> QED
      BY <2>6, <3>1, <3>2
  <2>10. StreamIntact'
    BY <2>7, <2>9 DEF StreamIntact
  <2>11. LoopInv' /\ WriterInv' /\ EndMeansClosed'
    BY <2>6, <2>7 DEF LoopInv, WriterInv, EndMeansClosed
  <2>12. LockInv' /\ PendingInv'
    BY <2>7 DEF LockInv, PendingInv
  <2> QED
    BY <2>8, <2>10, <2>11, <2>12
<1>8. CASE LoopCheck
  <2>1. out' \in Seq(Byte)
    BY <1>8, EmptySeq DEF TypeOK, LoopCheck
  <2>2. TypeOK'
    BY <1>8, <2>1 DEF TypeOK, LoopCheck
  <2>3. StreamIntact'
    BY <1>8 DEF StreamIntact, LoopCheck
  <2> QED
    BY <1>8, <2>2, <2>3
      DEF LockInv, PendingInv, LoopInv, WriterInv, EndMeansClosed, LoopCheck
<1>9. CASE LoopLock
  <2>1. StreamIntact'
    BY <1>9, StreamFrame DEF LoopLock
  <2>2. TypeOK'
    BY <1>9 DEF TypeOK, LoopLock
  <2> QED
    BY <1>9, <2>1, <2>2, BufferAssumption
      DEF TypeOK, LockInv, PendingInv, LoopInv, WriterInv, EndMeansClosed, LoopLock
<1>10. CASE LoopReply
  <2>1. PICK r \in Readers :
          /\ reader[r] = "waiting"
          /\ result' = [result EXCEPT ![r] = IF out = <<>> THEN "EOF" ELSE "data"]
          /\ reader' = [reader EXCEPT ![r] = "idle"]
    BY <1>10 DEF LoopReply
  <2>2. /\ loop = "reply" /\ ~closed /\ delivered' = delivered \o out /\ out' = <<>>
        /\ lock' = "free" /\ loop' = "select"
        /\ UNCHANGED <<buf, closed, writer, sent, accepted, panicked>>
    BY <1>10 DEF LoopReply
  <2>3. out # <<>> /\ lock = "loop"
    BY <2>2 DEF LoopInv, LockInv
  <2>4. delivered' \in Seq(Byte) /\ out' \in Seq(Byte) /\ delivered' \o out' = delivered'
    BY <2>2, ConcatProperties, ConcatEmptySeq, EmptySeq DEF TypeOK
  <2>5. accepted' = delivered' \o out' \o buf'
    BY <2>2, <2>4 DEF StreamIntact
  <2>6. (\E n \in 0..Len(accepted) : delivered = SubSeq(accepted, 1, n))'
    <3>1. (accepted = delivered \o out \o buf)'
      BY <2>5
    <3>2. (delivered \in Seq(Byte) /\ out \in Seq(Byte) /\ buf \in Seq(Byte))'
      BY <2>2, <2>4 DEF TypeOK
    <3> QED
      BY <3>1, <3>2, IntactIsPrefix
  <2>7. StreamIntact'
    BY <2>5, <2>6 DEF StreamIntact
  <2>8. TypeOK'
    BY <2>1, <2>2, <2>4 DEF TypeOK
  <2>9. EndMeansClosed'
    BY <2>1, <2>2, <2>3 DEF EndMeansClosed, TypeOK
  <2>10. LockInv'
    BY <2>1, <2>2, <2>3, BufferAssumption DEF LockInv, TypeOK
  <2>11. LoopInv' /\ WriterInv' /\ PendingInv'
    BY <2>2 DEF LoopInv, WriterInv, PendingInv
  <2> QED
    BY <2>7, <2>8, <2>9, <2>10, <2>11
<1>11. CASE LoopAwaitClosed \/ LoopExit
  <2>1. StreamIntact'
    BY <1>11, StreamFrame DEF LoopAwaitClosed, LoopExit
  <2>2. TypeOK'
    BY <1>11 DEF TypeOK, LoopAwaitClosed, LoopExit
  <2> QED
    BY <1>11, <2>1, <2>2 DEF LockInv, PendingInv, LoopInv, WriterInv,
         EndMeansClosed, LoopAwaitClosed, LoopExit
<1>12. CASE Close
  <2>1. StreamIntact'
    BY <1>12, StreamFrame DEF Close
  <2> QED
    BY <1>12, <2>1
      DEF TypeOK, LockInv, PendingInv, LoopInv, WriterInv, EndMeansClosed, Close
<1>13. CASE SendOnClosed
  <2>1. StreamIntact'
    BY <1>13, StreamFrame DEF SendOnClosed
  <2> QED
    BY <1>13, <2>1
      DEF TypeOK, LockInv, PendingInv, LoopInv, WriterInv, EndMeansClosed, SendOnClosed
<1>14. CASE Idle \/ UNCHANGED vars
  <2>1. UNCHANGED vars
    BY <1>14 DEF Idle
  <2>2. StreamIntact'
    BY <2>1, StreamFrame DEF vars
  <2> QED
    BY <2>1, <2>2
      DEF TypeOK, LockInv, PendingInv, LoopInv, WriterInv, EndMeansClosed, vars
<1> QED
  BY <1>1, <1>2, <1>3, <1>4, <1>5, <1>6, <1>7, <1>8, <1>9, <1>10, <1>11, <1>12, <1>13,
     <1>14 DEF Next, Steps, Loops, Reads, Writes

(* The invariant holds in every reachable state. *)
LEMMA Invariance == Spec => []Inv
  BY InvInit, InvStep, PTL DEF Spec

(* The buffer, the channels and the goroutines keep their types. *)
THEOREM BufferTypeCorrect == Spec => []TypeOK
<1>1. Inv => TypeOK
  BY DEF Inv
<1> QED
  BY <1>1, Invariance, PTL

(* However many goroutines read and write a watch, and whenever Close is   *)
(* called: no byte between Write and Read is lost, repeated or reordered.  *)
THEOREM StreamIsIntact == Spec => []StreamIntact
<1>1. Inv => StreamIntact
  BY DEF Inv
<1> QED
  BY <1>1, Invariance, PTL

(* A Read comes back without data on a closed watch only. *)
THEOREM EndIsClosed == Spec => []EndMeansClosed
<1>1. Inv => EndMeansClosed
  BY DEF Inv
<1> QED
  BY <1>1, Invariance, PTL

-----------------------------------------------------------------------------
(* One reader *)

(* With one reader, loop has no Read in hand while the reader asks. *)
LEMMA AskStep ==
    ASSUME OneReader, Inv, AskInv, [Next]_vars
    PROVE  AskInv'
<1> USE DEF Inv
<1>1. ASSUME NEW r \in Readers, Reads(r) PROVE AskInv'
  <2>1. \A s \in Readers : s = r
    BY DEF OneReader
  <2>2. reader \in [Readers -> {"idle", "lock", "sending", "waiting", "eof"}]
    BY DEF TypeOK
  <2> QED
    BY <1>1, <2>1, <2>2
      DEF AskInv, Reads, ReadCheck, ReadLock, ReadSend, ReadWoken
<1>2. ASSUME NEW w \in Writers, Writes(w) PROVE AskInv'
  BY <1>2 DEF AskInv, Writes, WriteCheck, WriteSend
<1>3. CASE LoopServe
  BY <1>3 DEF AskInv, LoopServe
<1>4. CASE LoopCheck
  BY <1>4 DEF AskInv, LoopCheck
<1>5. CASE LoopLock
  BY <1>5 DEF AskInv, LoopLock
<1>6. CASE LoopReply
  BY <1>6 DEF AskInv, LoopReply
<1>7. CASE LoopAwaitClosed \/ LoopExit
  BY <1>7 DEF AskInv, LoopAwaitClosed, LoopExit
<1>8. CASE Close \/ SendOnClosed
  BY <1>8 DEF AskInv, Close, SendOnClosed
<1>9. CASE Idle \/ UNCHANGED vars
  BY <1>9 DEF AskInv, Idle, vars
<1> QED
  BY <1>1, <1>2, <1>3, <1>4, <1>5, <1>6, <1>7, <1>8, <1>9 DEF Next, Steps, Loops

(* With one reader, whoever holds closeMux across a send on a channel is   *)
(* met by its receiver: Read and loop never wait for each other.           *)
THEOREM LockIsMet ==
    ASSUME OneReader
    PROVE  Spec => []LockMeetsReceiver
<1>1. Init => AskInv
  BY DEF Init, AskInv
<1>2. Inv /\ AskInv /\ [Next]_vars => AskInv'
  BY AskStep
<1>3. Inv /\ AskInv => LockMeetsReceiver
  BY DEF Inv, AskInv, LockInv, PendingInv, LockMeetsReceiver
<1> QED
  BY <1>1, <1>2, <1>3, Invariance, PTL DEF Spec

-----------------------------------------------------------------------------
(* The refinement *)

(* loop accepts an event: the stream grows by it. *)
LEMMA WriteSendIsAccept ==
    ASSUME Inv, NEW w \in Writers, WriteSend(w)
    PROVE  Stream!Accept
<1>1. sent[w] \in 0..MaxEvents /\ sent[w] < MaxEvents /\ MaxEvents \in Nat
  BY BufferAssumption DEF Inv, WriteSend, WriterInv, TypeOK
<1>2. sent[w] + 1 \in 1..MaxEvents
  BY <1>1
<1> DEFINE f == Frame(w, sent[w] + 1)
<1>3. f \in {Frame(x, k) : x \in Writers, k \in 1..MaxEvents}
  BY <1>2
<1>4. accepted' = accepted \o f /\ ~closed /\ UNCHANGED <<delivered, closed>>
  BY DEF WriteSend
<1> HIDE DEF f
<1> QED
  BY <1>3, <1>4 DEF Stream!Accept

(* A Read is answered: at least one more byte of the stream is taken. *)
LEMMA LoopReplyIsDeliver ==
    ASSUME Inv, LoopReply
    PROVE  Stream!Deliver
<1>1. ~closed /\ delivered' = delivered \o out /\ UNCHANGED <<closed, accepted>>
  BY DEF LoopReply
<1>2. /\ out # <<>> /\ accepted = delivered \o out \o buf
      /\ delivered \in Seq(Byte) /\ out \in Seq(Byte) /\ buf \in Seq(Byte)
  BY <1>1 DEF Inv, LoopReply, LoopInv, StreamIntact, TypeOK
<1>3. delivered' \in Seq(Byte) /\ Len(delivered') = Len(delivered) + Len(out)
  BY <1>1, <1>2, ConcatProperties
<1>4. Len(accepted) = Len(delivered') + Len(buf)
  BY <1>1, <1>2, <1>3, ConcatProperties
<1> DEFINE a == Len(accepted)
           b == Len(buf)
           d == Len(delivered)
           n == Len(delivered')
           o == Len(out)
<1>5. b \in Nat /\ d \in Nat /\ o \in Nat \ {0}
  BY <1>2, LenProperties, EmptySeq
<1>6. n = d + o /\ a = n + b
  BY <1>3, <1>4
<1> HIDE DEF a, b, d, n, o
<1>7. n \in (d + 1)..a
  BY <1>5, <1>6
<1>8. Len(delivered') \in (Len(delivered) + 1)..Len(accepted)
  BY <1>7 DEF a, d, n
<1> QED
  BY <1>1, <1>8 DEF Stream!Deliver

(* Every step of the buffer is a step of the stream or leaves it alone. *)
LEMMA StepIsStreamStep ==
    Inv /\ [Next]_vars => [Stream!Next]_(Stream!vars)
<1> SUFFICES ASSUME Inv, [Next]_vars PROVE [Stream!Next]_(Stream!vars)
  OBVIOUS
<1>1. ASSUME NEW r \in Readers, Reads(r) PROVE UNCHANGED <<accepted, delivered, closed>>
  BY <1>1 DEF Reads, ReadCheck, ReadLock, ReadSend, ReadWoken
<1>2. ASSUME NEW w \in Writers, WriteCheck(w)
      PROVE  UNCHANGED <<accepted, delivered, closed>>
  BY <1>2 DEF WriteCheck
<1>3. ASSUME NEW w \in Writers, WriteSend(w) PROVE Stream!Next
  BY <1>3, WriteSendIsAccept DEF Stream!Next
<1>4. CASE LoopReply
  BY <1>4, LoopReplyIsDeliver DEF Stream!Next
<1>5. CASE LoopServe \/ LoopCheck \/ LoopLock \/ LoopAwaitClosed \/ LoopExit
  BY <1>5 DEF LoopServe, LoopCheck, LoopLock, LoopAwaitClosed, LoopExit, Stream!vars
<1>6. CASE Close
  BY <1>6 DEF Close, Stream!Shut, Stream!Next
<1>7. CASE SendOnClosed \/ Idle \/ UNCHANGED vars
  BY <1>7 DEF SendOnClosed, Idle, vars, Stream!vars
<1> QED
  BY <1>1, <1>2, <1>3, <1>4, <1>5, <1>6, <1>7
    DEF Next, Steps, Loops, Writes, Stream!vars

(* The channels and the lock implement the stream, its liveness apart: the *)
(* reader gets the events' bytes, each event's together, in the order in   *)
(* which they were accepted, at least one at a time, and none after Close. *)
THEOREM RefinesStream == Spec => Stream!Init /\ [][Stream!Next]_(Stream!vars)
<1>1. Init => Stream!Init
  BY EmptySeq DEF Init, Stream!Init
<1> QED
  BY <1>1, StepIsStreamStep, Invariance, PTL DEF Spec
=============================================================================

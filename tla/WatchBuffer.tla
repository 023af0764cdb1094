----------------------------- MODULE WatchBuffer -----------------------------
(***************************************************************************)
(* pkg/framework/watch/watch.go: the pipe that carries the events of one   *)
(* watch.  Three unbuffered channels (read, write, retc) connect a reader, *)
(* the goroutines that write events and the goroutine `loop`, which owns   *)
(* the buffer.  closeMux protects `closed`; it is also held across the     *)
(* sends on read and on retc, so that Close cannot close a channel with a  *)
(* blocked sender on it.                                                   *)
(*                                                                         *)
(* A reader is the receive goroutine of a StreamWatcher, which reads until *)
(* it gets EOF.  A buffer has one, unless RESTClient.Do hands the response *)
(* of one watch to two callers.  A send and the matching receive are one   *)
(* step.  Close sets `closed` and closes the three channels under the      *)
(* lock, so `closed` stands for all of them.                               *)
(***************************************************************************)
EXTENDS Naturals, Sequences, FiniteSets

CONSTANTS
    Readers,    \* goroutines that read this watch
    Writers,    \* goroutines that emit events on this watch
    MaxEvents,  \* how many events each of them emits
    FrameLen,   \* bytes of an encoded event
    ReadSize,   \* the largest buffer passed to Read
    MayClose    \* may Close be called?

ASSUME BufferAssumption ==
    /\ MaxEvents \in Nat
    /\ FrameLen \in Nat \ {0}
    /\ ReadSize \in Nat \ {0}
    /\ MayClose \in BOOLEAN
    /\ {"free", "loop"} \cap Readers = {}   \* the other values of lock

(* The bytes of the k-th event of writer w, as EmitWatchEvent encodes it.  *)
Byte        == Writers \X (1..MaxEvents) \X (1..FrameLen)
Frame(w, k) == [i \in 1..FrameLen |-> <<w, k, i>>]

VARIABLES
    buf,        \* w.buf
    out,        \* loop: the bytes read from buf for the pending Read
    closed,     \* w.closed, and the channels read, write and retc closed
    lock,       \* who holds closeMux for writing: a reader, "loop" or "free"
    loop,       \* program counter of loop
    reader,     \* program counter of each reader's Read
    writer,     \* program counter of each writer's Write
    sent,       \* number of events of each writer accepted by loop
    result,     \* what the last Read of each reader returned
    accepted,   \* history: all the bytes loop has received
    delivered,  \* history: all the bytes Read has returned
    panicked    \* a send on a closed channel has killed the process

vars == <<buf, out, closed, lock, loop, reader, writer, sent, result, accepted,
          delivered, panicked>>

TypeOK ==
    /\ buf \in Seq(Byte) /\ out \in Seq(Byte)
    /\ closed \in BOOLEAN /\ panicked \in BOOLEAN
    /\ lock \in {"free", "loop"} \cup Readers
    /\ loop \in {"select", "await", "serve", "check", "lock", "reply", "exit"}
    /\ reader \in [Readers -> {"idle", "lock", "sending", "waiting", "eof"}]
    /\ writer \in [Writers -> {"idle", "sending", "refused"}]
    /\ sent \in [Writers -> 0..MaxEvents]
    /\ result \in [Readers -> {"none", "data", "empty", "EOF"}]
    /\ accepted \in Seq(Byte) /\ delivered \in Seq(Byte)

Init ==
    /\ buf = <<>> /\ out = <<>>
    /\ closed = FALSE
    /\ lock = "free"
    /\ loop = "select"
    /\ reader = [r \in Readers |-> "idle"]
    /\ writer = [w \in Writers |-> "idle"]
    /\ sent = [w \in Writers |-> 0]
    /\ result = [r \in Readers |-> "none"]
    /\ accepted = <<>> /\ delivered = <<>>
    /\ panicked = FALSE

-----------------------------------------------------------------------------
(* Read *)

ReadCheck(r) ==
    /\ reader[r] = "idle"
    /\ lock = "free"
    /\ reader' = [reader EXCEPT ![r] = IF closed THEN "eof" ELSE "lock"]
    /\ result' = [result EXCEPT ![r] = IF closed THEN "EOF" ELSE @]
    /\ UNCHANGED <<buf, out, closed, lock, loop, writer, sent, accepted, delivered,
                   panicked>>

ReadLock(r) ==
    /\ reader[r] = "lock"
    /\ lock = "free"
    /\ lock' = r
    /\ reader' = [reader EXCEPT ![r] = "sending"]
    /\ UNCHANGED <<buf, out, closed, loop, writer, sent, result, accepted,
                   delivered, panicked>>

(* Mutant: loop serves a Read on an empty buffer at once. *)
ReadSendNoWait(r) ==
    /\ reader[r] = "sending"
    /\ ~closed
    /\ loop = "select"
    /\ loop' = "serve"
    /\ reader' = [reader EXCEPT ![r] = "waiting"]
    /\ lock' = "free"
    /\ UNCHANGED <<buf, out, closed, writer, sent, result, accepted, delivered,
                   panicked>>

(* w.read <- p is received by loop's select; the reader unlocks and waits. *)
ReadSend(r) ==
    /\ reader[r] = "sending"
    /\ ~closed
    /\ loop = "select"
    /\ loop' = IF buf = <<>> THEN "await" ELSE "serve"
    /\ reader' = [reader EXCEPT ![r] = "waiting"]
    /\ lock' = "free"
    /\ UNCHANGED <<buf, out, closed, writer, sent, result, accepted, delivered,
                   panicked>>

(* <-w.retc on the closed channel: the zero value, no bytes and no error.  *)
ReadWoken(r) ==
    /\ reader[r] = "waiting"
    /\ closed
    /\ reader' = [reader EXCEPT ![r] = "idle"]
    /\ result' = [result EXCEPT ![r] = "empty"]
    /\ UNCHANGED <<buf, out, closed, lock, loop, writer, sent, accepted, delivered,
                   panicked>>

-----------------------------------------------------------------------------
(* Write, called by EmitWatchEvent *)

WriteCheck(w) ==
    /\ writer[w] = "idle"
    /\ sent[w] < MaxEvents
    /\ lock = "free"
    /\ writer' = [writer EXCEPT ![w] = IF closed THEN "refused" ELSE "sending"]
    /\ UNCHANGED <<buf, out, closed, lock, loop, reader, sent, result, accepted,
                   delivered, panicked>>

(* Mutant: the event is put in front of what is buffered. *)
WriteSendFirst(w) ==
    LET f == Frame(w, sent[w] + 1) IN
    /\ writer[w] = "sending"
    /\ ~closed
    /\ loop \in {"select", "await"}
    /\ buf' = f \o buf
    /\ accepted' = accepted \o f
    /\ sent' = [sent EXCEPT ![w] = @ + 1]
    /\ loop' = IF loop = "await" THEN "serve" ELSE "select"
    /\ writer' = [writer EXCEPT ![w] = "idle"]
    /\ UNCHANGED <<out, closed, lock, reader, result, delivered, panicked>>

(* Mutant: the event is sent again although loop has it. *)
WriteSendTwice(w) ==
    LET f == Frame(w, sent[w] + 1) IN
    /\ writer[w] = "sending"
    /\ ~closed
    /\ loop \in {"select", "await"}
    /\ buf' = buf \o f \o f
    /\ accepted' = accepted \o f \o f
    /\ sent' = [sent EXCEPT ![w] = @ + 2]
    /\ loop' = IF loop = "await" THEN "serve" ELSE "select"
    /\ writer' = [writer EXCEPT ![w] = "idle"]
    /\ UNCHANGED <<out, closed, lock, reader, result, delivered, panicked>>

(* Mutant: the writer does not notice that loop has its event. *)
WriteSendAgain(w) ==
    LET f == Frame(w, sent[w] + 1) IN
    /\ writer[w] = "sending"
    /\ ~closed
    /\ loop \in {"select", "await"}
    /\ buf' = buf \o f
    /\ accepted' = accepted \o f
    /\ sent' = [sent EXCEPT ![w] = @ + 1]
    /\ loop' = IF loop = "await" THEN "serve" ELSE "select"
    /\ UNCHANGED <<out, closed, lock, reader, writer, result, delivered, panicked>>

(* Mutant: loop forgets the Read that it awaited the event for. *)
WriteSendForgets(w) ==
    LET f == Frame(w, sent[w] + 1) IN
    /\ writer[w] = "sending"
    /\ ~closed
    /\ loop \in {"select", "await"}
    /\ buf' = buf \o f
    /\ accepted' = accepted \o f
    /\ sent' = [sent EXCEPT ![w] = @ + 1]
    /\ loop' = "select"
    /\ writer' = [writer EXCEPT ![w] = "idle"]
    /\ UNCHANGED <<out, closed, lock, reader, result, delivered, panicked>>

(* w.write <- data is received by loop, in its select or while it waits    *)
(* for data to serve a Read on an empty buffer.                            *)
WriteSend(w) ==
    LET f == Frame(w, sent[w] + 1) IN
    /\ writer[w] = "sending"
    /\ ~closed
    /\ loop \in {"select", "await"}
    /\ buf' = buf \o f
    /\ accepted' = accepted \o f
    /\ sent' = [sent EXCEPT ![w] = @ + 1]
    /\ loop' = IF loop = "await" THEN "serve" ELSE "select"
    /\ writer' = [writer EXCEPT ![w] = "idle"]
    /\ UNCHANGED <<out, closed, lock, reader, result, delivered, panicked>>

-----------------------------------------------------------------------------
(* loop *)

(* buf.Read copies as much as the reader's buffer takes; on an empty       *)
(* buffer it returns EOF.                                                  *)
LoopServe ==
    /\ loop = "serve"
    /\ \E n \in 1..ReadSize :
         LET k == IF n < Len(buf) THEN n ELSE Len(buf) IN
         /\ out' = SubSeq(buf, 1, k)
         /\ buf' = SubSeq(buf, k + 1, Len(buf))
    /\ loop' = "check"
    /\ UNCHANGED <<closed, lock, reader, writer, sent, result, accepted, delivered,
                   panicked>>

(* Closed meanwhile: the bytes are dropped, the reader has been woken.     *)
LoopCheck ==
    /\ loop = "check"
    /\ lock = "free"
    /\ loop' = IF closed THEN "select" ELSE "lock"
    /\ out' = IF closed THEN <<>> ELSE out
    /\ UNCHANGED <<buf, closed, lock, reader, writer, sent, result, accepted,
                   delivered, panicked>>

LoopLock ==
    /\ loop = "lock"
    /\ lock = "free"
    /\ lock' = "loop"
    /\ loop' = "reply"
    /\ UNCHANGED <<buf, out, closed, reader, writer, sent, result, accepted,
                   delivered, panicked>>

(* Mutant: closeMux is not released after the reply. *)
LoopReplyKeepsLock ==
    /\ loop = "reply"
    /\ ~closed
    /\ \E r \in Readers :
         /\ reader[r] = "waiting"
         /\ result' = [result EXCEPT ![r] = IF out = <<>> THEN "EOF" ELSE "data"]
         /\ reader' = [reader EXCEPT ![r] = "idle"]
    /\ delivered' = delivered \o out
    /\ out' = <<>>
    /\ loop' = "select"
    /\ UNCHANGED <<buf, closed, lock, writer, sent, accepted, panicked>>

(* w.retc <- retc{nr, err} is received by a waiting Read. *)
LoopReply ==
    /\ loop = "reply"
    /\ ~closed
    /\ \E r \in Readers :
         /\ reader[r] = "waiting"
         /\ result' = [result EXCEPT ![r] = IF out = <<>> THEN "EOF" ELSE "data"]
         /\ reader' = [reader EXCEPT ![r] = "idle"]
    /\ delivered' = delivered \o out
    /\ out' = <<>>
    /\ lock' = "free"
    /\ loop' = "select"
    /\ UNCHANGED <<buf, closed, writer, sent, accepted, panicked>>

(* `break` leaves the select only: the pending Read is forgotten. *)
LoopAwaitClosed ==
    /\ loop = "await"
    /\ closed
    /\ loop' = "select"
    /\ UNCHANGED <<buf, out, closed, lock, reader, writer, sent, result, accepted,
                   delivered, panicked>>

(* Mutant: loop does not ask whether the watch is closed. *)
LoopSpins ==
    /\ loop = "select"
    /\ closed
    /\ UNCHANGED vars

(* The select picks the closed channel write, sees `closed` and returns.   *)
(* (Picking the closed channel read goes round the loop once more.)        *)
LoopExit ==
    /\ loop = "select"
    /\ closed
    /\ lock = "free"
    /\ loop' = "exit"
    /\ UNCHANGED <<buf, out, closed, lock, reader, writer, sent, result, accepted,
                   delivered, panicked>>

-----------------------------------------------------------------------------
Close ==
    /\ MayClose
    /\ ~closed
    /\ lock = "free"
    /\ closed' = TRUE
    /\ UNCHANGED <<buf, out, lock, loop, reader, writer, sent, result, accepted,
                   delivered, panicked>>

(* A send on a channel that was closed after the sender's check. *)
SendOnClosed ==
    /\ closed
    /\ \/ \E r \in Readers : reader[r] = "sending"
       \/ loop = "reply"
       \/ \E w \in Writers : writer[w] = "sending"
    /\ panicked' = TRUE
    /\ UNCHANGED <<buf, out, closed, lock, loop, reader, writer, sent, result,
                   accepted, delivered>>

(* The process has died, the watch is shut, or the stream is idle: Read    *)
(* blocks until there is a new event.                                      *)
Idle ==
    /\ \/ panicked
       \/ closed /\ loop = "exit" /\ \A r \in Readers : reader[r] = "eof"
       \/ ~closed /\ loop = "await" /\ \A r \in Readers : reader[r] = "waiting"
    /\ UNCHANGED vars

Reads(r)  == ReadCheck(r) \/ ReadLock(r) \/ ReadSend(r) \/ ReadWoken(r)
Writes(w) == WriteCheck(w) \/ WriteSend(w)
Loops     == LoopServe \/ LoopCheck \/ LoopLock \/ LoopReply \/ LoopAwaitClosed
                \/ LoopExit

Steps == Loops \/ Close \/ SendOnClosed \/ (\E r \in Readers : Reads(r))
            \/ \E w \in Writers : Writes(w)

Next == (~panicked /\ Steps) \/ Idle

(* A reader reads until EOF, writers write, loop runs; Close may or may  *)
(* not be called.                                                          *)
Fairness ==
    /\ \A r \in Readers : WF_vars(~panicked /\ Reads(r))
    /\ WF_vars(~panicked /\ Loops)
    /\ WF_vars(~panicked /\ SendOnClosed)
    /\ \A w \in Writers : WF_vars(~panicked /\ Writes(w))

Spec == Init /\ [][Next]_vars /\ Fairness

-----------------------------------------------------------------------------
(* Properties *)

(* Nothing is lost, repeated or reordered between Write and Read: what is  *)
(* delivered, in loop's hands and buffered is what was accepted, until     *)
(* Close drops the rest.                                                   *)
StreamIntact ==
    /\ ~closed => accepted = delivered \o out \o buf
    /\ \E n \in 0..Len(accepted) : delivered = SubSeq(accepted, 1, n)

(* closeMux is held exactly by the goroutine whose program counter says    *)
(* so, and, with one reader, whoever holds it across a channel send is met *)
(* by its receiver: Read's request by a loop that is not replying, loop's  *)
(* reply by a waiting Read.                                                *)
LockMeetsReceiver ==
    /\ \A r \in Readers : (reader[r] = "sending") <=> (lock = r)
    /\ (loop = "reply") <=> (lock = "loop")
    /\ lock \in Readers => loop \in {"select", "exit"}
    /\ lock = "loop" /\ ~closed => \E r \in Readers : reader[r] = "waiting"

(* A Read comes back without data, which ends the reader's watch, only on  *)
(* a closed watch: never because loop looked into an empty buffer.         *)
EndMeansClosed ==
    \A r \in Readers : result[r] \in {"empty", "EOF"} => closed

(* watch.go:36-37: "each chunk sent asynchronously (invocation of Read is  *)
(* blocked until new chunk)": a waiting Read is answered if some writer    *)
(* still has an event to send, unless the watch is closed.                 *)
BlockedUntilChunk ==
    \A r \in Readers :
       (reader[r] = "waiting" /\ \E w \in Writers : sent[w] < MaxEvents)
          ~> (reader[r] # "waiting" \/ closed)

(* Every accepted byte is delivered to a reader that keeps reading, unless *)
(* the watch is closed.                                                    *)
AllDelivered ==
    \A n \in 1..(Cardinality(Writers) * MaxEvents * FrameLen) :
       Len(accepted) >= n ~> (Len(delivered) >= n \/ closed)

(* After Close the readers get EOF and loop's goroutine ends, unless a     *)
(* racing send has killed the process.                                     *)
CloseEnds ==
    closed ~> (panicked \/ (loop = "exit" /\ \A r \in Readers : reader[r] = "eof"))

Stream == INSTANCE WatchStream WITH
    Frames <- {Frame(w, k) : w \in Writers, k \in 1..MaxEvents},
    stream <- accepted,
    taken  <- Len(delivered),
    shut   <- closed

(* The channels and the lock implement the stream. *)
ImplementsStream == Stream!Spec
=============================================================================

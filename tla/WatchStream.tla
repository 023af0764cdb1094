----------------------------- MODULE WatchStream -----------------------------
(***************************************************************************)
(* What a watch promises its reader: the bytes of the events, each event's *)
(* bytes together, in the order in which the events were accepted, until   *)
(* the watch is closed.                                                    *)
(***************************************************************************)
EXTENDS Naturals, Sequences

CONSTANTS Frames    \* the byte sequences of the events that may be written

VARIABLES stream, taken, shut

vars == <<stream, taken, shut>>

Init == stream = <<>> /\ taken = 0 /\ shut = FALSE

Accept ==
    /\ ~shut
    /\ \E f \in Frames : stream' = stream \o f
    /\ UNCHANGED <<taken, shut>>

(* A read returns at least one byte. *)
Deliver ==
    /\ ~shut
    /\ \E n \in (taken + 1)..Len(stream) : taken' = n
    /\ UNCHANGED <<stream, shut>>

Shut ==
    /\ ~shut
    /\ shut' = TRUE
    /\ UNCHANGED <<stream, taken>>

Next == Accept \/ Deliver \/ Shut

Spec == Init /\ [][Next]_vars /\ WF_vars(Deliver)
=============================================================================

---------------------------- MODULE MCWatchBuffer ----------------------------
(* Instances of WatchBuffer. *)
EXTENDS WatchBuffer
=============================================================================

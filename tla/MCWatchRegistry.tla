-------------------------- MODULE MCWatchRegistry --------------------------
(* Instances of WatchRegistry. *)
EXTENDS WatchRegistry
=============================================================================

---------------------------- MODULE MCWatchFeed -----------------------------
(* Model checking instances of WatchFeed: see the cfg files. *)
EXTENDS WatchFeed
=============================================================================

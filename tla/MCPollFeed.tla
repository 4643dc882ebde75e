----------------------------- MODULE MCPollFeed -----------------------------
(* Model checking instances of PollFeed: see the cfg files. *)
EXTENDS PollFeed
=============================================================================

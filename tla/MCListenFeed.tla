---------------------------- MODULE MCListenFeed ----------------------------
(* Model checking instances of ListenFeed: see the cfg file. *)
EXTENDS ListenFeed, TLC

(* No operator tells two subscribers apart, and every property is safety. *)
Symmetry == Permutations(Subscribers)
=============================================================================

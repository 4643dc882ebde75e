---------------------------- MODULE MCScopeCache ----------------------------
(* Model checking instances of ScopeCache: see the cfg files. *)
EXTENDS ScopeCache, TLC

(* Keys are interchangeable, and so are the local writers. *)
Symmetry == Permutations(Keys) \cup Permutations(Writers)
=============================================================================

---------------------------- MODULE MCCoordinator ----------------------------
(* Model checking instances of Coordinator: see the cfg files. *)
EXTENDS Coordinator, TLC

(* Appliers are interchangeable. *)
Symmetry == Permutations(Appliers)
=============================================================================

---------------------------- MODULE MCActivation ----------------------------
(* Model checking instances of Activation: see the cfg file. *)
EXTENDS Activation
=============================================================================

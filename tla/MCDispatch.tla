----------------------------- MODULE MCDispatch -----------------------------
(* Model checking instances of Dispatch: see the cfg files. *)
EXTENDS Dispatch
=============================================================================

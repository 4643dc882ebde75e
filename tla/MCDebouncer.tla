---------------------------- MODULE MCDebouncer -----------------------------
(* Model checking instances of Debouncer: see the cfg file. *)
EXTENDS Debouncer
=============================================================================

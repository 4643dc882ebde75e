------------------------------ MODULE MCClient ------------------------------
(* The Client on two keys and one or two writers.                          *)
EXTENDS Client
=============================================================================

---------------------------- MODULE MCParameters -----------------------------
(* Instances of Parameters for TLC. *)
EXTENDS Parameters
=============================================================================

-------------------------- MODULE MCPageEnvironment --------------------------
(* A page and the one after its return, three packages with and without names. *)
EXTENDS PageEnvironment
=============================================================================

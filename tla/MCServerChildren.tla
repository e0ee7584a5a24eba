-------------------------- MODULE MCServerChildren --------------------------
(* Model values for ServerChildren. *)
EXTENDS ServerChildren, TLC

Alike == Permutations(Pids)
=============================================================================

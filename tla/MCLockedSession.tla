--------------------------- MODULE MCLockedSession ---------------------------
(* Model values for LockedSession. *)
EXTENDS LockedSession, TLC

Alike == Permutations(Procs) \cup Permutations(Inodes)
=============================================================================

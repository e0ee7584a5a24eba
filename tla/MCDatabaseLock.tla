--------------------------- MODULE MCDatabaseLock ---------------------------
(* Model values for DatabaseLock. *)
EXTENDS DatabaseLock, TLC

Alike == Permutations(Procs) \cup Permutations(Inodes)
=============================================================================

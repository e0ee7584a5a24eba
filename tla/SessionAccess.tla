--------------------------- MODULE SessionAccess ---------------------------
(***************************************************************************)
(* The accesses that the private half of libmhtml/session.c makes to the    *)
(* session database: one fetch, one store, one delete, session_find_key,   *)
(* session_all_sessions and generic_session_reaper.                        *)
(***************************************************************************)
EXTENDS SessionData

CONSTANTS
  Procs,     \* the processes that share the database
  Ops        \* the accesses they make

Kinds == {"get", "put", "delete", "find", "all", "reap"}

\* A put uses all of info, a find its key, the others only the identifier.
Op == [kind : Kinds, sid : Sids, info : SESSION_INFO]

ASSUME OpsAssumption == Ops \subseteq Op /\ Ops # {}

=============================================================================

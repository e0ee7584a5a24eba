---------------------------- MODULE SessionKeys ----------------------------
(***************************************************************************)
(* Session with a history variable, for what becomes of "if we don't allow  *)
(* multiple sessions with the same initial key, and there is already a      *)
(* session present in the database with this key, then fail": session_begin *)
(* looks for the key in one access and stores the session in another.       *)
(***************************************************************************)
EXTENDS Session

VARIABLE shared \* the keys that something has happened to by which two sessions may have them

kvars == <<vars, shared>>

\* p has looked for the key, or did not have to, and has yet to store its session.
Beginning(p, key) == pc[p] \in {"name", "insert"} /\ req[p].key = key

\* p is about to store a record with the key.
Rewriting(p, key) == At(p, "store") /\ rec[p].key = key

\* Two processes are between their first and last access for the key, and one of
\* them begins a session.
Together(key) ==
  \E p, q \in Procs : p # q /\ Beginning(p, key) /\ (Beginning(q, key) \/ Rewriting(q, key))

\* allow-multiple was asked for.
Multiple(key) == \E p \in Procs : Beginning(p, key) /\ req[p].multiple

\* set-session-data or session_restore makes a record, and looks for no key.
MadeKey(r) == IF r.kind = "data" THEN Restarted ELSE r.key

Brought(key) ==
  \E p \in Procs :
    Rewriting(p, key) /\ req[p].kind \in {"data", "restore"} /\ MadeKey(req[p]) = key

\* The database is locked or closed to the search, which then says there is none.
Overlooked(key) ==
  \E p \in Procs : At(p, "find") /\ pc'[p] = "name" /\ req[p].key = key /\ WithKey(db, key) # {}

Doubtful(key) == Together(key) \/ Multiple(key) \/ Brought(key)

KInit == Init /\ shared = {}

KNext ==
  /\ Next
  /\ shared' = shared \cup {key \in Keys : Doubtful(key)' \/ Overlooked(key)}

KSpec == KInit /\ [][KNext]_kvars

\* Two sessions have one key only if two operations on it have been between their
\* accesses at once, allow-multiple was asked for, a record was made or restored with
\* it, or a search could not open the database: not by the one process' own
\* beginnings, changes and deletions, nor by what the others do before or after them.
UniqueKeys ==
  \A s, t \in Present(db) : s # t /\ db[s].key = db[t].key => db[s].key \in shared

=============================================================================

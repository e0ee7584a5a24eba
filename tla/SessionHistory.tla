--------------------------- MODULE SessionHistory --------------------------
(***************************************************************************)
(* Session with two history variables, for properties about how long a     *)
(* session went unused.                                                    *)
(***************************************************************************)
EXTENDS Session

VARIABLES
  began,    \* began[p]: when p's operation was called
  used      \* used[s]: the latest call whose change to s has been stored

hvars == <<vars, began, used>>

HInit ==
  /\ Init
  /\ began = [p \in Procs |-> 0]
  /\ used = [s \in Sids |-> 0]

Later(a, b) == IF a > b THEN a ELSE b

Called(p) == At(p, "idle") /\ pc'[p] # "idle"

StoredNow(p, s) ==
  /\ Does(p, "store", s) \/ Does(p, "insert", s)
  /\ result'[p] = "ok"

HNext ==
  /\ Next
  /\ began' = [p \in Procs |-> IF Called(p) THEN now ELSE began[p]]
  /\ used' = [s \in Sids |->
       IF \E p \in Procs : StoredNow(p, s)
       THEN Later(used[s], began[CHOOSE p \in Procs : StoredNow(p, s)])
       ELSE used[s]]

\* A process that can run does.
HSpec == HInit /\ [][HNext]_hvars /\ \A p \in Procs : WF_hvars(HNext /\ Step(p))

\* "The number of minutes the session can live without any activity": a
\* session that nobody deletes is not removed until that long after the last
\* operation that changed it was called, or that its limit in seconds
\* is more than an int holds, where the test that removes it is on what is left.
RemovedIdle ==
  [][\A s \in Sids :
       /\ db[s] # NoInfo /\ db'[s] = NoInfo
       /\ ~\E p \in Procs : Does(p, "remove", s)
       => /\ db[s].timeout # 0
          /\ \/ now - used[s] >= db[s].timeout * MINUTE
             \/ db[s].timeout * MINUTE > INT_MAX]_hvars

=============================================================================

---------------------------- MODULE SessionStore ---------------------------
(***************************************************************************)
(* What the private half of libmhtml/session.c promises the public half:   *)
(* every access to the session database takes effect at one instant, a     *)
(* search or a listing describes the database of one instant, and a reaper *)
(* removes records that had timed out when it looked, and only those,      *)
(* until none is left.                                                     *)
(* An access that cannot lock or open the database has no effect and tells *)
(* its caller nothing but "no record".                                     *)
(***************************************************************************)
EXTENDS SessionAccess

VARIABLES
  db,        \* the session database
  now,       \* the clock
  status,    \* status[p]: how far p's access is
  op,        \* op[p]: the access p is making
  asof,      \* asof[p]: the time p's reaper compares against
  got,       \* got[p]: the record a fetch returned, or NoInfo
  sids       \* sids[p]: the identifiers a search, listing or reaper returned

vars == <<db, now, status, op, asof, got, sids>>

Init ==
  /\ db \in Database
  /\ \A s \in Present(db) : db[s].access = 0
  /\ now = 0
  /\ status = [p \in Procs |-> "idle"]
  /\ op = [p \in Procs |-> CHOOSE o \in Ops : TRUE]
  /\ asof = [p \in Procs |-> 0]
  /\ got = [p \in Procs |-> NoInfo]
  /\ sids = [p \in Procs |-> {}]

Call(p, o) ==
  /\ status[p] = "idle"
  /\ status' = [status EXCEPT ![p] = "called"]
  /\ op' = [op EXCEPT ![p] = o]
  /\ asof' = [asof EXCEPT ![p] = 0]
  /\ got' = [got EXCEPT ![p] = NoInfo]
  /\ sids' = [sids EXCEPT ![p] = {}]
  /\ UNCHANGED <<db, now>>

Doing(p, kind) == status[p] = "called" /\ op[p].kind = kind

Done(p) == status' = [status EXCEPT ![p] = "done"]

Fail(p) ==
  /\ status[p] = "called"
  /\ Done(p)
  /\ UNCHANGED <<db, now, op, asof, got, sids>>

Get(p) ==
  /\ Doing(p, "get")
  /\ got' = [got EXCEPT ![p] = db[op[p].sid]]
  /\ Done(p)
  /\ UNCHANGED <<db, now, op, asof, sids>>

Put(p) ==
  /\ Doing(p, "put")
  /\ db' = [db EXCEPT ![op[p].sid] = op[p].info]
  /\ Done(p)
  /\ UNCHANGED <<now, op, asof, got, sids>>

Delete(p) ==
  /\ Doing(p, "delete")
  /\ db' = [db EXCEPT ![op[p].sid] = NoInfo]
  /\ Done(p)
  /\ UNCHANGED <<now, op, asof, got, sids>>

\* One record with the key when there is one; nothing only when there is none.
Find(p) ==
  /\ Doing(p, "find")
  /\ LET matches == WithKey(db, op[p].info.key)
     IN  \/ \E s \in matches : sids' = [sids EXCEPT ![p] = {s}]
         \/ matches = {} /\ UNCHANGED sids
  /\ Done(p)
  /\ UNCHANGED <<db, now, op, asof, got>>

All(p) ==
  /\ Doing(p, "all")
  /\ sids' = [sids EXCEPT ![p] = Present(db)]
  /\ Done(p)
  /\ UNCHANGED <<db, now, op, asof, got>>

BeginReap(p) ==
  /\ Doing(p, "reap")
  /\ asof' = [asof EXCEPT ![p] = now]
  /\ status' = [status EXCEPT ![p] = "reaping"]
  /\ UNCHANGED <<db, now, op, got, sids>>

Reap(p, s) ==
  /\ status[p] = "reaping"
  /\ s \in Expired(db, asof[p])
  /\ db' = [db EXCEPT ![s] = NoInfo]
  /\ sids' = [sids EXCEPT ![p] = @ \cup {s}]
  /\ UNCHANGED <<now, status, op, asof, got>>

EndReap(p) ==
  /\ status[p] = "reaping"
  /\ Expired(db, asof[p]) = {}
  /\ Done(p)
  /\ UNCHANGED <<db, now, op, asof, got, sids>>

\* The caller has its answer, or the process is killed before it does.
Leave(p) ==
  /\ status[p] # "idle"
  /\ status' = [status EXCEPT ![p] = "idle"]
  /\ UNCHANGED <<db, now, op, asof, got, sids>>

Tick ==
  /\ now + 1 \in Times
  /\ now' = now + 1
  /\ UNCHANGED <<db, status, op, asof, got, sids>>

Next ==
  \/ Tick
  \/ \E p \in Procs :
       \/ \E o \in Ops : Call(p, o)
       \/ Fail(p) \/ Get(p) \/ Put(p) \/ Delete(p) \/ Find(p) \/ All(p)
       \/ BeginReap(p) \/ EndReap(p) \/ Leave(p)
       \/ \E s \in Sids : Reap(p, s)

Spec == Init /\ [][Next]_vars

=============================================================================

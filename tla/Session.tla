------------------------------ MODULE Session ------------------------------
(***************************************************************************)
(* Sessions as pages use them: the public half of libmhtml/session.c, the   *)
(* macros of libmhtml/sessionfuncs.c over it, and the command line tools of *)
(* sessions/.  Every operation is a sequence of accesses to the session    *)
(* database, each atomic (SessionLock implements SessionStore) and each    *)
(* able to find the database locked or closed to it; between two accesses  *)
(* the database belongs to the other processes, and the server may kill    *)
(* this one.  The clock read that follows a fetch is one step with it.     *)
(***************************************************************************)
EXTENDS SessionData, FiniteSets

CONSTANTS
  Procs,           \* processes: pages being computed, and tools
  Requests,        \* Requests[p]: the operations p may call
  SESSION_TIMEOUT, \* the idle limit of a new session, in minutes
  Restarted,       \* the key of a record that set-session-data had to make
  RestartTimeout,  \* and its idle limit
  Faults           \* whether an access can fail to lock or open the database

Kinds == {"create", "delete", "set", "unset", "timeout", "data", "get",
          "require", "restore", "reap"}

\* The arguments of an operation; each kind uses some of them.  A tool called
\* without -f, reaps FALSE, leaves session_reaping zero; the server sets it.
Request == [kind : Kinds, sid : Sids, key : Keys, multiple : BOOLEAN,
            var : Vars, timeout : Timeouts, reaps : BOOLEAN]

\* session_create_sid: the process and the second, hashed with a seed that
\* is that second.
SidOf(p, time) == <<p, time>>

ASSUME SessionAssumption ==
  /\ Request # {}
  /\ Requests \in [Procs -> SUBSET Request]
  /\ \A p \in Procs, t \in Times : SidOf(p, t) \in Sids
  /\ {SESSION_TIMEOUT, RestartTimeout} \subseteq Timeouts
  /\ Restarted \in Keys
  /\ Faults \in BOOLEAN

VARIABLES
  db,       \* the session database
  now,      \* the clock
  pc,       \* pc[p]: the next step of p's operation
  req,      \* req[p]: p's operation and its arguments
  target,   \* target[p]: the identifier it works on
  rec,      \* rec[p]: the SESSION_INFO in its hands
  result    \* result[p]: how p's last operation came out

vars == <<db, now, pc, req, target, rec, result>>

Places == {"idle", "access", "expire", "refetch", "body", "current", "clock", "probe",
           "store", "remove", "find", "name", "insert", "reap"}

Results == {"none", "ok", "gone", "taken"}

Idle == CHOOSE r \in Request : TRUE

Init ==
  /\ db = [s \in Sids |-> NoInfo]
  /\ now = 0
  /\ pc = [p \in Procs |-> "idle"]
  /\ req = [p \in Procs |-> Idle]
  /\ target = [p \in Procs |-> Idle.sid]
  /\ rec = [p \in Procs |-> NoInfo]
  /\ result = [p \in Procs |-> "none"]

-----------------------------------------------------------------------------
At(p, place) == pc[p] = place
Goto(p, place) == pc' = [pc EXCEPT ![p] = place]
Hold(p, info) == rec' = [rec EXCEPT ![p] = info]

Finish(p, outcome) ==
  /\ Goto(p, "idle")
  /\ rec' = [rec EXCEPT ![p] = NoInfo]
  /\ result' = [result EXCEPT ![p] = outcome]

\* What a fetch returns, and what a store or a delete leaves: an access that
\* fails returns nothing and does nothing.
Fetched(s) == {db[s]} \cup (IF Faults THEN {NoInfo} ELSE {})
Stored(s, info) ==
  {[db EXCEPT ![s] = info]} \cup (IF Faults THEN {db} ELSE {})

Without(gone) == [s \in Sids |-> IF s \in gone THEN NoInfo ELSE db[s]]

Reads == UNCHANGED <<db, now, req, target>>
Writes == UNCHANGED <<now, req, target>>

\* Mutant: session_begin does not look for the key.
Start_AnyKey(r) ==
  IF r.kind = "create" THEN "name"
  ELSE IF r.kind = "restore" THEN "clock"
  ELSE IF r.kind = "reap" THEN "reap" ELSE "access"

Start(r) ==
  IF r.kind = "create" THEN (IF r.multiple THEN "name" ELSE "find")
  ELSE IF r.kind = "restore" THEN "clock"
  ELSE IF r.kind = "reap" THEN "reap" ELSE "access"

Call(p, r) ==
  /\ At(p, "idle") /\ r \in Requests[p]
  /\ Goto(p, Start(r))
  /\ req' = [req EXCEPT ![p] = r]
  /\ target' = [target EXCEPT ![p] = r.sid]
  /\ result' = [result EXCEPT ![p] = "none"]
  /\ UNCHANGED <<db, now, rec>>

-----------------------------------------------------------------------------
(* session_get_info: session_access, then a second fetch *)

\* The record set-session-data makes up when there is none.
AnonymousRestarted ==
  [key |-> Restarted, access |-> now, timeout |-> RestartTimeout, data |-> {}]

\* pf_set_session_data replaces all of the data.
WithData(p, info) == [info EXCEPT !.data = {req[p].var}]

\* session_get_info returned NULL, or session_access -1.
NotThere(p) ==
  IF req[p].kind = "data"
  THEN /\ Hold(p, WithData(p, AnonymousRestarted)) /\ Goto(p, "store")
       /\ UNCHANGED result
  ELSE Finish(p, "gone")

Access(p) ==
  /\ At(p, "access")
  /\ \E info \in Fetched(target[p]) :
       IF info = NoInfo THEN NotThere(p)
       ELSE IF TimedOut(info, now)
       THEN Goto(p, "expire") /\ UNCHANGED <<rec, result>>
       ELSE IF req[p].kind = "require" THEN Finish(p, "ok")
       ELSE Goto(p, "refetch") /\ UNCHANGED <<rec, result>>
  /\ Reads

Expire(p) ==
  /\ At(p, "expire")
  /\ db' \in Stored(target[p], NoInfo)
  /\ NotThere(p)
  /\ Writes

\* Mutant: session_access said the session is there, so it is.
Refetch_Trusts(p) ==
  /\ At(p, "refetch")
  /\ \E info \in Fetched(target[p]) :
       IF req[p].kind = "get" THEN Finish(p, "ok")
       ELSE IF req[p].kind = "delete"
       THEN Goto(p, "remove") /\ UNCHANGED <<rec, result>>
       ELSE Hold(p, info) /\ Goto(p, "body") /\ UNCHANGED result
  /\ Reads

Refetch(p) ==
  /\ At(p, "refetch")
  /\ \E info \in Fetched(target[p]) :
       \/ info = NoInfo /\ NotThere(p)
       \/ info # NoInfo /\ req[p].kind = "get" /\ Finish(p, "ok")
       \/ /\ info # NoInfo /\ req[p].kind = "delete"
          /\ Goto(p, "remove") /\ UNCHANGED <<rec, result>>
       \/ /\ info # NoInfo /\ req[p].kind = "data"
          /\ Hold(p, WithData(p, info)) /\ Goto(p, "store") /\ UNCHANGED result
       \/ /\ info # NoInfo /\ req[p].kind \in {"set", "unset", "timeout"}
          /\ Hold(p, info) /\ Goto(p, "body") /\ UNCHANGED result
  /\ Reads

-----------------------------------------------------------------------------
(* set-session-var and session-export, unset-session-var, set-session-timeout *)

Changed(r, info) ==
  IF r.kind = "set" THEN [info EXCEPT !.data = @ \cup {r.var}]
  ELSE IF r.kind = "unset" THEN [info EXCEPT !.data = @ \ {r.var}]
  ELSE [info EXCEPT !.timeout = r.timeout]

\* Mutant: session_put_info without its fetch of the current record.
Body_NoCurrent(p) ==
  /\ At(p, "body") /\ Goto(p, "store")
  /\ Hold(p, [Changed(req[p], rec[p]) EXCEPT !.access = now])
  /\ Reads /\ UNCHANGED result

\* The values are evaluated, and may call session macros of their own.
Body(p) ==
  /\ At(p, "body") /\ Goto(p, "current")
  /\ Hold(p, Changed(req[p], rec[p]))
  /\ Reads /\ UNCHANGED result

\* Mutant: the time of access is not renewed.
Current_NoAccess(p) ==
  /\ At(p, "current")
  /\ \E current \in Fetched(target[p]) :
       IF current = NoInfo THEN Finish(p, "gone")
       ELSE /\ Hold(p, [rec[p] EXCEPT !.key = current.key])
            /\ Goto(p, "store") /\ UNCHANGED result
  /\ Reads

\* session_put_info up to the store.
Current(p) ==
  /\ At(p, "current")
  /\ \E current \in Fetched(target[p]) :
       IF current = NoInfo THEN Finish(p, "gone")
       ELSE /\ Hold(p, [rec[p] EXCEPT !.access = now, !.key = current.key])
            /\ Goto(p, "store") /\ UNCHANGED result
  /\ Reads

\* session_put_info_internal
Store(p) ==
  /\ At(p, "store")
  /\ db' \in Stored(target[p], rec[p])
  /\ Finish(p, "ok")
  /\ Writes

\* The session_delete of session_end.
Remove(p) ==
  /\ At(p, "remove")
  /\ db' \in Stored(target[p], NoInfo)
  /\ Finish(p, "ok")
  /\ Writes

-----------------------------------------------------------------------------
(* session_restore *)

\* The record that the caller wants restored.
Saved(r) == [key |-> r.key, access |-> 0, timeout |-> r.timeout, data |-> {}]

\* The clock is read before the existing record is.
Clock(p) ==
  /\ At(p, "clock") /\ Goto(p, "probe")
  /\ Hold(p, [Saved(req[p]) EXCEPT !.access = now])
  /\ Reads /\ UNCHANGED result

Probe(p) ==
  /\ At(p, "probe") /\ Goto(p, "store")
  /\ \E existing \in Fetched(target[p]) :
       Hold(p, IF existing = NoInfo THEN rec[p]
               ELSE [existing EXCEPT !.access = rec[p].access])
  /\ Reads /\ UNCHANGED result

-----------------------------------------------------------------------------
(* session_begin *)

Find(p) ==
  /\ At(p, "find")
  /\ \/ /\ Faults \/ WithKey(db, req[p].key) = {}
        /\ Goto(p, "name") /\ UNCHANGED <<rec, result>>
     \/ /\ WithKey(db, req[p].key) # {}
        /\ IF req[p].reaps
           THEN /\ Goto(p, "reap") /\ result' = [result EXCEPT ![p] = "taken"]
                /\ UNCHANGED rec
           ELSE Finish(p, "taken")
  /\ Reads

Name(p) ==
  /\ At(p, "name") /\ Goto(p, "insert")
  /\ target' = [target EXCEPT ![p] = SidOf(p, now)]
  /\ Hold(p, [key |-> req[p].key, access |-> now,
              timeout |-> SESSION_TIMEOUT, data |-> {}])
  /\ UNCHANGED <<db, now, req, result>>

\* Mutant: beginning a session does not reap.
Insert_NoReap(p) ==
  /\ At(p, "insert")
  /\ db' \in Stored(target[p], rec[p])
  /\ Finish(p, "ok")
  /\ Writes

Insert(p) ==
  /\ At(p, "insert")
  /\ db' \in Stored(target[p], rec[p])
  /\ IF req[p].reaps
     THEN /\ Hold(p, NoInfo) /\ Goto(p, "reap")
          /\ result' = [result EXCEPT ![p] = "ok"]
     ELSE Finish(p, "ok")
  /\ Writes

\* session_reap, which does nothing while session_reaping is zero.
Reap(p) ==
  /\ At(p, "reap")
  /\ \/ req[p].reaps /\ db' = Without(Expired(db, now))
     \/ (Faults \/ ~req[p].reaps) /\ UNCHANGED db
  /\ Finish(p, IF req[p].kind = "create" THEN result[p] ELSE "ok")
  /\ Writes

\* Killed in the middle of its deletions, the reaper has made some of them.
ReapKilled(p) ==
  /\ At(p, "reap") /\ req[p].reaps
  /\ \E some \in SUBSET Expired(db, now) : db' = Without(some)
  /\ Finish(p, "none")
  /\ Writes

\* SIGKILL from the server; a later process has the same name.
Kill(p) ==
  /\ pc[p] \notin {"idle", "reap"} /\ Finish(p, "none")
  /\ UNCHANGED <<db, now, req, target>>

Tick ==
  /\ now + 1 \in Times /\ now' = now + 1
  /\ UNCHANGED <<db, pc, req, target, rec, result>>

Step(p) ==
  \/ Access(p) \/ Expire(p) \/ Refetch(p) \/ Body(p) \/ Current(p) \/ Store(p)
  \/ Remove(p) \/ Clock(p) \/ Probe(p) \/ Find(p) \/ Name(p) \/ Insert(p) \/ Reap(p)

Calls(p) == \E r \in Requests[p] : Call(p, r)

Next ==
  \/ Tick
  \/ \E p \in Procs : Calls(p) \/ Step(p) \/ ReapKilled(p) \/ Kill(p)

Spec == Init /\ [][Next]_vars

\* A process that can run does.
FairSpec == Spec /\ \A p \in Procs : WF_vars(Step(p))

-----------------------------------------------------------------------------
\* Where the code has tested its SESSION_INFO pointer, it is not NULL.
HasInfo == {"body", "current", "probe", "store", "insert"}

TypeOK ==
  /\ db \in Database
  /\ now \in Times
  /\ pc \in [Procs -> Places]
  /\ req \in [Procs -> Request]
  /\ target \in [Procs -> Sids]
  /\ rec \in [Procs -> SESSION_INFO \cup {NoInfo}]
  /\ \A p \in Procs : pc[p] \in HasInfo <=> rec[p] # NoInfo
  /\ result \in [Procs -> Results]

Storing(s) == \E p \in Procs : pc[p] \in {"store", "insert"} /\ target[p] = s

\* No session will be named s again: its second is over.
Retired(s) == \E p \in Procs, t \in Times : s = SidOf(p, t) /\ t < now

Gone(s) == db[s] = NoInfo /\ ~Storing(s) /\ Retired(s)

Making(s) ==
  \E p \in Procs :
    pc[p] = "store" /\ target[p] = s /\ req[p].kind \in {"data", "restore"}

\* A session that is missing, when no process has gone past the check that
\* it is present, stays missing whatever the pages and tools do: only
\* set-session-data and session_restore make a record where there is none.
NoResurrection ==
  [][\A s \in Sids : Gone(s) => Gone(s)' \/ Making(s)']_vars

\* The others do nothing but these, and no access fails: a page with its
\* sessions to itself.
OnePage(page, kinds) ==
  /\ ~Faults
  /\ \A p \in Procs \ {page} : \A r \in Requests[p] : r.kind \in kinds

\* A record that has timed out does not stay for ever while sessions are
\* begun and not every one of them is killed: each of them reaps.
ExpiredAreReaped ==
  /\ <>[][\A p \in Procs : ~(Kill(p) \/ ReapKilled(p))]_vars
  /\ []<>(\E p \in Procs : At(p, "insert"))
  => \A s \in Sids : []<>(s \notin Expired(db, now))

-----------------------------------------------------------------------------
\* p's operation takes the step at the place named, on the session s.
Does(p, place, s) == At(p, place) /\ target[p] = s /\ pc'[p] # place

=============================================================================

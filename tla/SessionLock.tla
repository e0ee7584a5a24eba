---------------------------- MODULE SessionLock ----------------------------
(***************************************************************************)
(* The private half of libmhtml/session.c, with gdbm databases: how one     *)
(* access to the session database is made by a process among many.  Each   *)
(* process opens the lock file, waits in flock() for a shared or an        *)
(* exclusive lock, opens the database, works on it one record at a time,   *)
(* closes it and releases the lock.  The server may kill the process at    *)
(* any point, and then the kernel releases the lock.                       *)
(*                                                                         *)
(* Writing a record is atomic here: what a kill in the middle of gdbm_store *)
(* leaves in the file is the library's business.                           *)
(***************************************************************************)
EXTENDS SessionAccess, FiniteSets

VARIABLES
  db,        \* the session database
  now,       \* the clock
  lock,      \* lock[p]: how p has the lock file locked
  pc,        \* pc[p]: what p does next
  op,        \* op[p]: the access p is making
  seen,      \* seen[p]: the records p's scan has visited
  doomed,    \* doomed[p]: to_be_reaped, the records p is about to delete
  asof,      \* asof[p]: the time p's reaper compares against
  got,       \* got[p]: the record a fetch returned, or NoInfo
  sids       \* sids[p]: the identifiers a search, listing or reaper returned

vars == <<db, now, lock, pc, op, seen, doomed, asof, got, sids>>
answers == <<got, sids>>
scanning == <<seen, doomed, asof>>

Modes == {"none", "shared", "exclusive"}
Places == {"idle", "lock", "open", "access", "scan", "reap", "unlock", "return"}
Scans == {"find", "all", "reap"}

\* Mutant: the reaper asks for the reader's lock.
Mode_ReaperReads(kind) ==
  IF kind \in {"get", "find", "all", "reap"} THEN "shared" ELSE "exclusive"

\* SESSION_READ or SESSION_WRITE: what each access asks session_lock_database for.
Mode(kind) == IF kind \in {"get", "find", "all"} THEN "shared" ELSE "exclusive"

Init ==
  /\ db \in Database
  /\ \A s \in Present(db) : db[s].access = 0
  /\ now = 0
  /\ lock = [p \in Procs |-> "none"]
  /\ pc = [p \in Procs |-> "idle"]
  /\ op = [p \in Procs |-> CHOOSE o \in Ops : TRUE]
  /\ seen = [p \in Procs |-> {}]
  /\ doomed = [p \in Procs |-> {}]
  /\ asof = [p \in Procs |-> 0]
  /\ got = [p \in Procs |-> NoInfo]
  /\ sids = [p \in Procs |-> {}]

At(p, place) == pc[p] = place
Goto(p, place) == pc' = [pc EXCEPT ![p] = place]
Release(p) == lock' = [lock EXCEPT ![p] = "none"]

Call(p, o) ==
  /\ At(p, "idle") /\ Goto(p, "lock")
  /\ op' = [op EXCEPT ![p] = o]
  /\ seen' = [seen EXCEPT ![p] = {}]
  /\ doomed' = [doomed EXCEPT ![p] = {}]
  /\ asof' = [asof EXCEPT ![p] = 0]
  /\ got' = [got EXCEPT ![p] = NoInfo]
  /\ sids' = [sids EXCEPT ![p] = {}]
  /\ UNCHANGED <<db, now, lock>>

-----------------------------------------------------------------------------
(* session_lock_database *)

Grantable(p, mode) ==
  \A q \in Procs \ {p} :
    \/ lock[q] = "none"
    \/ mode = "shared" /\ lock[q] = "shared"

Lock(p) ==
  LET mode == Mode(op[p].kind)
  IN  /\ At(p, "lock") /\ Goto(p, "open")
      /\ Grantable(p, mode)
      /\ lock' = [lock EXCEPT ![p] = mode]
      /\ UNCHANGED <<db, now, op, scanning, answers>>

\* The lock file cannot be opened, or flock() returns an error.
LockFails(p) ==
  /\ At(p, "lock") /\ Goto(p, "return")
  /\ UNCHANGED <<db, now, lock, op, scanning, answers>>

\* Mutant: the lock is not given back when the database does not open.
OpenFails_KeepsLock(p) ==
  /\ At(p, "open") /\ Goto(p, "return")
  /\ UNCHANGED <<db, now, lock, op, scanning, answers>>

\* A reader finds no database file, or the library refuses to open it.
OpenFails(p) ==
  /\ At(p, "open") /\ Goto(p, "return")
  /\ Release(p)
  /\ UNCHANGED <<db, now, op, scanning, answers>>

\* The reaper reads the clock once it has the database.
Open(p) ==
  /\ At(p, "open")
  /\ Goto(p, IF op[p].kind \in Scans THEN "scan" ELSE "access")
  /\ asof' = IF op[p].kind = "reap" THEN [asof EXCEPT ![p] = now] ELSE asof
  /\ UNCHANGED <<db, now, lock, op, seen, doomed, answers>>

-----------------------------------------------------------------------------
(* session_get_info_internal, session_put_info_internal, session_delete *)

Get(p) ==
  /\ At(p, "access") /\ op[p].kind = "get" /\ Goto(p, "unlock")
  /\ got' = [got EXCEPT ![p] = db[op[p].sid]]
  /\ UNCHANGED <<db, now, lock, op, scanning, sids>>

Put(p) ==
  /\ At(p, "access") /\ op[p].kind = "put" /\ Goto(p, "unlock")
  /\ db' = [db EXCEPT ![op[p].sid] = op[p].info]
  /\ UNCHANGED <<now, lock, op, scanning, answers>>

Delete(p) ==
  /\ At(p, "access") /\ op[p].kind = "delete" /\ Goto(p, "unlock")
  /\ db' = [db EXCEPT ![op[p].sid] = NoInfo]
  /\ UNCHANGED <<now, lock, op, scanning, answers>>

-----------------------------------------------------------------------------
(* session_sequential_access and the three loops over it *)

Unseen(p) == Present(db) \ seen[p]

Visit(p, s) ==
  /\ At(p, "scan") /\ s \in Unseen(p)
  /\ seen' = [seen EXCEPT ![p] = @ \cup {s}]

FindVisit(p, s) ==
  /\ op[p].kind = "find" /\ Visit(p, s)
  /\ IF db[s].key = op[p].info.key
     THEN Goto(p, "unlock") /\ sids' = [sids EXCEPT ![p] = {s}]
     ELSE UNCHANGED <<pc, sids>>
  /\ UNCHANGED <<db, now, lock, op, doomed, asof, got>>

AllVisit(p, s) ==
  /\ op[p].kind = "all" /\ Visit(p, s)
  /\ UNCHANGED <<db, now, lock, pc, op, doomed, asof, answers>>

ReapVisit(p, s) ==
  /\ op[p].kind = "reap" /\ Visit(p, s)
  /\ doomed' = IF TimedOut(db[s], asof[p])
               THEN [doomed EXCEPT ![p] = @ \cup {s}] ELSE doomed
  /\ UNCHANGED <<db, now, lock, pc, op, asof, answers>>

\* Mutant: the loop stops at a record it cannot use.
ScanEnd_Early(p) ==
  /\ At(p, "scan")
  /\ Goto(p, IF op[p].kind = "reap" THEN "reap" ELSE "unlock")
  /\ sids' = IF op[p].kind = "all" THEN [sids EXCEPT ![p] = seen[p]] ELSE sids
  /\ UNCHANGED <<db, now, lock, op, scanning, got>>

\* Mutant: the reaper makes its list, unlocks, and deletes afterwards.
ScanEnd_Unlocks(p) ==
  /\ At(p, "scan") /\ Unseen(p) = {}
  /\ Goto(p, IF op[p].kind = "reap" THEN "reap" ELSE "unlock")
  /\ sids' = IF op[p].kind = "all" THEN [sids EXCEPT ![p] = seen[p]] ELSE sids
  /\ IF op[p].kind = "reap" THEN Release(p) ELSE UNCHANGED lock
  /\ UNCHANGED <<db, now, op, scanning, got>>

ScanEnd(p) ==
  /\ At(p, "scan") /\ Unseen(p) = {}
  /\ Goto(p, IF op[p].kind = "reap" THEN "reap" ELSE "unlock")
  /\ sids' = IF op[p].kind = "all" THEN [sids EXCEPT ![p] = seen[p]] ELSE sids
  /\ UNCHANGED <<db, now, lock, op, scanning, got>>

ReapOne(p, s) ==
  /\ At(p, "reap") /\ s \in doomed[p]
  /\ db' = [db EXCEPT ![s] = NoInfo]
  /\ doomed' = [doomed EXCEPT ![p] = @ \ {s}]
  /\ sids' = [sids EXCEPT ![p] = @ \cup {s}]
  /\ UNCHANGED <<now, lock, pc, op, seen, asof, got>>

ReapEnd(p) ==
  /\ At(p, "reap") /\ doomed[p] = {} /\ Goto(p, "unlock")
  /\ UNCHANGED <<db, now, lock, op, scanning, answers>>

-----------------------------------------------------------------------------
(* session_unlock_database, and the end of the process *)

Unlock(p) ==
  /\ At(p, "unlock") /\ Goto(p, "return")
  /\ Release(p)
  /\ UNCHANGED <<db, now, op, scanning, answers>>

Return(p) ==
  /\ At(p, "return") /\ Goto(p, "idle")
  /\ UNCHANGED <<db, now, lock, op, scanning, answers>>

\* SIGKILL from the server; another process takes the name p later.
Kill(p) ==
  /\ ~At(p, "idle") /\ Goto(p, "idle")
  /\ Release(p)
  /\ UNCHANGED <<db, now, op, scanning, answers>>

Tick ==
  /\ now + 1 \in Times
  /\ now' = now + 1
  /\ UNCHANGED <<db, lock, pc, op, scanning, answers>>

Step(p) ==
  \/ Lock(p) \/ Open(p)
  \/ Get(p) \/ Put(p) \/ Delete(p)
  \/ \E s \in Sids : FindVisit(p, s) \/ AllVisit(p, s) \/ ReapVisit(p, s)
  \/ ScanEnd(p)
  \/ \E s \in Sids : ReapOne(p, s)
  \/ ReapEnd(p) \/ Unlock(p) \/ Return(p)

Next ==
  \/ Tick
  \/ \E p \in Procs :
       \/ \E o \in Ops : Call(p, o)
       \/ Step(p) \/ LockFails(p) \/ OpenFails(p) \/ Kill(p)

Spec == Init /\ [][Next]_vars

\* A process that can go on does; it need not fail, or be killed, to get on.
FairSpec == Spec /\ \A p \in Procs : WF_vars(Step(p))

-----------------------------------------------------------------------------
TypeOK ==
  /\ db \in Database
  /\ now \in Times
  /\ lock \in [Procs -> Modes]
  /\ pc \in [Procs -> Places]
  /\ op \in [Procs -> Op]
  /\ seen \in [Procs -> SUBSET Sids]
  /\ doomed \in [Procs -> SUBSET Sids]
  /\ asof \in [Procs -> Times]
  /\ got \in [Procs -> SESSION_INFO \cup {NoInfo}]
  /\ sids \in [Procs -> SUBSET Sids]

\* While a process has the database open for writing, no other process has
\* it open at all: the reason session_lock_database takes the lock before it
\* opens the database.
InDatabase(p) == pc[p] \in {"access", "scan", "reap"}
Writes(p) == op[p].kind \in {"put", "delete", "reap"}

OneWriter ==
  \A p, q \in Procs :
    p # q /\ InDatabase(p) /\ InDatabase(q) => ~Writes(p)

\* What a reaper is about to delete is, whatever the other processes did
\* since it made its list, exactly the records that have timed out.
ReapsTheExpired ==
  \A p \in Procs : At(p, "reap") => doomed[p] = Expired(db, asof[p])

-----------------------------------------------------------------------------
(* The inductive invariant: why the properties above hold. *)

\* The lock held at each place, and what each kind of access does there.
HeldMode(p) ==
  lock[p] = IF pc[p] \in {"open", "access", "scan", "reap", "unlock"}
            THEN Mode(op[p].kind) ELSE "none"

KindAt(p) ==
  /\ pc[p] = "access" => op[p].kind \notin Scans
  /\ pc[p] = "scan" => op[p].kind \in Scans
  /\ pc[p] = "reap" => op[p].kind = "reap"

\* What a scan has established so far about the database as it is now.
Scanned(p) ==
  pc[p] = "scan" =>
    /\ seen[p] \subseteq Present(db)
    /\ op[p].kind = "find" => \A s \in seen[p] : db[s].key # op[p].info.key
    /\ op[p].kind = "reap" => doomed[p] = seen[p] \cap Expired(db, asof[p])

FreshScan(p) ==
  pc[p] \in {"lock", "open"} => seen[p] = {} /\ doomed[p] = {}

OneHolder ==
  \A p, q \in Procs :
    p # q /\ lock[p] = "exclusive" => lock[q] = "none"

IInv ==
  /\ TypeOK
  /\ OneHolder
  /\ \A p \in Procs : HeldMode(p) /\ KindAt(p) /\ Scanned(p) /\ FreshScan(p)
  /\ ReapsTheExpired

-----------------------------------------------------------------------------
(* The detailed protocol implements the atomic store. *)

Reaping(p) == op[p].kind = "reap" /\ pc[p] \in {"scan", "reap"}

status == [p \in Procs |->
  IF At(p, "idle") THEN "idle"
  ELSE IF pc[p] \in {"unlock", "return"} THEN "done"
  ELSE IF Reaping(p) THEN "reaping" ELSE "called"]

Store == INSTANCE SessionStore WITH db <- db, now <- now, status <- status

\* Every access is atomic: the locked, record-by-record protocol is an
\* implementation of SessionStore.
ImplementsStore == Store!Spec

-----------------------------------------------------------------------------
(* Progress: when the other processes come to rest, a call returns.  With   *)
(* them busy it may not: flock() grants a shared lock while a writer waits. *)
CallsReturn ==
  \A p \in Procs :
    <>[](\A q \in Procs \ {p} : At(q, "idle")) => []<>At(p, "idle")

=============================================================================

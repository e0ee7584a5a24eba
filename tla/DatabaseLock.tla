---------------------------- MODULE DatabaseLock ----------------------------
(***************************************************************************)
(* <with-open-database> of libmhtml/dbfuncs.c on one database: the lock     *)
(* file beside it (lock_database, unlock_database), the lock that gdbm       *)
(* itself takes without waiting when it opens the database                 *)
(* (database.c), and the read-modify-write of a body.                       *)
(***************************************************************************)
EXTENDS Naturals

CONSTANTS
  Procs,     \* the processes that use the database
  Modes,     \* the open modes their pages give
  Inodes,    \* what the file system can make files of
  None,      \* no inode: a closed descriptor, a missing name
  MaxRounds, \* how many environments each process enters
  Faults     \* whether a lock can fail and a process can be killed

ASSUME DatabaseLockAssumption ==
  /\ Modes # {} /\ Modes \subseteq {"reader", "writer", "write-create"}
  /\ None \notin Inodes
  /\ MaxRounds \in Nat
  /\ Faults \in BOOLEAN

VARIABLES
  name,      \* the inode that the lock's name is a name of, or None
  unlocking, \* the inode of the name with .unlock after it, or None
  fd,        \* fd[p]: the inode that p has open, or None
  locked,    \* the processes that hold the lock on the inode they have open
  handle,    \* the processes that have the database open
  exists,    \* whether the database is there
  mode,      \* mode[p]: the mode of p's environment
  pc,        \* pc[p]: what p does next
  round,     \* round[p]: how many environments p has entered
  data,      \* the updates that the database shows
  copy,      \* copy[p]: the updates p's body has read
  acked,     \* the updates whose body has stored them
  busy,      \* the environments whose database_open found the database in use
  failed     \* whether a lock has failed or a process has been killed

vars == <<name, unlocking, fd, locked, handle, exists, mode, pc, round, data, copy, acked, busy, failed>>
names == <<name, unlocking>>
lock == <<fd, locked>>
call == <<mode, round>>
record == <<data, copy, acked>>
past == <<busy, failed>>

Places == {"idle", "open", "flock", "dbopen", "body", "write",
           "close", "rename", "unlock", "discard", "abandon", "release"}
Update == Procs \X Nat

AnyMode == CHOOSE m \in Modes : TRUE

Init ==
  /\ name = None /\ unlocking = None
  /\ fd = [p \in Procs |-> None]
  /\ locked = {} /\ handle = {}
  /\ exists \in BOOLEAN
  /\ mode = [p \in Procs |-> AnyMode]
  /\ pc = [p \in Procs |-> "idle"]
  /\ round = [p \in Procs |-> 0]
  /\ data = {} /\ copy = [p \in Procs |-> {}] /\ acked = {} /\ busy = {} /\ failed = FALSE

Goto(p, place) == pc' = [pc EXCEPT ![p] = place]

Call(p) ==
  /\ pc[p] = "idle" /\ round[p] < MaxRounds /\ Goto(p, "open")
  /\ round' = [round EXCEPT ![p] = @ + 1]
  /\ \E m \in Modes : mode' = [mode EXCEPT ![p] = m]
  /\ UNCHANGED <<names, lock, handle, exists, record, past>>

-----------------------------------------------------------------------------
(* lock_database *)

\* Which of them a new file gets makes no difference: only equality counts.
Unused == Inodes \ ({name, unlocking} \cup {fd[p] : p \in Procs})

Open(p) ==
  /\ pc[p] = "open" /\ Goto(p, "flock") /\ (name # None \/ Unused # {})
  /\ name' = IF name # None THEN name ELSE CHOOSE i \in Unused : TRUE
  /\ fd' = [fd EXCEPT ![p] = name']
  /\ UNCHANGED <<unlocking, locked, handle, exists, call, record, past>>

\* Mutant: a shared lock (READLOCKFILE).
Flock_Shared(p) ==
  /\ pc[p] = "flock" /\ Goto(p, "dbopen")
  /\ locked' = locked \cup {p}
  /\ UNCHANGED <<names, fd, handle, exists, call, record, past>>

Flock(p) ==
  /\ pc[p] = "flock" /\ Goto(p, "dbopen")
  /\ \A q \in locked : fd[q] # fd[p]
  /\ locked' = locked \cup {p}
  /\ UNCHANGED <<names, fd, handle, exists, call, record, past>>

\* The error is noted on the page; the body is not run.
LockFails(p) ==
  /\ Faults /\ pc[p] \in {"open", "flock"} /\ Goto(p, "idle")
  /\ fd' = [fd EXCEPT ![p] = None] /\ failed' = TRUE
  /\ UNCHANGED <<names, locked, handle, exists, call, record, busy>>

\* gdbm_open() locks the file without waiting, shared for readers.
Compatible(p) == \A q \in handle : mode[p] = "reader" /\ mode[q] = "reader"

DatabaseOpen(p) ==
  /\ pc[p] = "dbopen" /\ Goto(p, "body")
  /\ exists \/ mode[p] = "write-create"
  /\ Compatible(p)
  /\ handle' = handle \cup {p} /\ exists' = TRUE
  /\ UNCHANGED <<names, lock, call, record, past>>

DatabaseOpenFails(p) ==
  /\ pc[p] = "dbopen" /\ Goto(p, "abandon")
  /\ \/ ~exists /\ mode[p] # "write-create" /\ UNCHANGED busy
     \/ ~Compatible(p) /\ busy' = busy \cup {<<p, round[p]>>}
  /\ UNCHANGED <<names, lock, handle, exists, call, record, failed>>

Abandon(p) ==
  /\ pc[p] = "abandon" /\ Goto(p, "release")
  /\ name' = None
  /\ UNCHANGED <<unlocking, lock, handle, exists, call, record, past>>

\* Mutant: the file descriptor is not closed.
Release_Not(p) ==
  /\ pc[p] = "release" /\ Goto(p, "idle")
  /\ UNCHANGED <<names, lock, handle, exists, call, record, past>>

Release(p) ==
  /\ pc[p] = "release" /\ Goto(p, "idle")
  /\ locked' = locked \ {p}
  /\ fd' = [fd EXCEPT ![p] = None]
  /\ UNCHANGED <<names, handle, exists, call, record, past>>

-----------------------------------------------------------------------------
(* The body *)

Body(p) ==
  /\ pc[p] = "body" /\ Goto(p, IF mode[p] = "reader" THEN "close" ELSE "write")
  /\ copy' = [copy EXCEPT ![p] = data]
  /\ UNCHANGED <<names, lock, handle, exists, call, data, acked, past>>

Write(p) ==
  /\ pc[p] = "write" /\ Goto(p, "close")
  /\ data' = copy[p] \cup {<<p, round[p]>>}
  /\ acked' = acked \cup {<<p, round[p]>>}
  /\ UNCHANGED <<names, lock, handle, exists, call, copy, past>>

\* The page is abandoned in its body: longjmp() to the setjmp() of the macro.
Jump(p) ==
  /\ pc[p] \in {"body", "write"} /\ Goto(p, "close")
  /\ UNCHANGED <<names, lock, handle, exists, call, record, past>>

-----------------------------------------------------------------------------
(* unlock_database *)

Close(p) ==
  /\ pc[p] = "close" /\ Goto(p, "rename")
  /\ handle' = handle \ {p}
  /\ UNCHANGED <<names, lock, exists, call, record, past>>

Rename(p) ==
  /\ pc[p] = "rename" /\ Goto(p, "unlock")
  /\ IF name # None THEN unlocking' = name /\ name' = None ELSE UNCHANGED names
  /\ UNCHANGED <<lock, handle, exists, call, record, past>>

Unlock(p) ==
  /\ pc[p] = "unlock" /\ Goto(p, "discard")
  /\ locked' = locked \ {p}
  /\ fd' = [fd EXCEPT ![p] = None]
  /\ UNCHANGED <<names, handle, exists, call, record, past>>

\* Mutant: the renamed file is left there.
Discard_Not(p) ==
  /\ pc[p] = "discard" /\ Goto(p, "idle")
  /\ UNCHANGED <<names, lock, handle, exists, call, record, past>>

Discard(p) ==
  /\ pc[p] = "discard" /\ Goto(p, "idle")
  /\ unlocking' = None
  /\ UNCHANGED <<name, lock, handle, exists, call, record, past>>

\* SIGKILL from the server: the kernel closes and unlocks, the names stay.
Kill(p) ==
  /\ Faults /\ pc[p] # "idle" /\ Goto(p, "idle")
  /\ locked' = locked \ {p} /\ handle' = handle \ {p}
  /\ fd' = [fd EXCEPT ![p] = None] /\ failed' = TRUE
  /\ UNCHANGED <<names, exists, call, record, busy>>

Step(p) ==
  \/ Open(p) \/ Flock(p) \/ DatabaseOpen(p) \/ DatabaseOpenFails(p)
  \/ Abandon(p) \/ Release(p) \/ Body(p) \/ Write(p)
  \/ Close(p) \/ Rename(p) \/ Unlock(p) \/ Discard(p)

Next == \E p \in Procs : Call(p) \/ Step(p) \/ LockFails(p) \/ Jump(p) \/ Kill(p)

Spec == Init /\ [][Next]_vars

FairSpec == Spec /\ \A p \in Procs : WF_vars(Step(p))

-----------------------------------------------------------------------------
(* Properties *)

TypeOK ==
  /\ name \in Inodes \cup {None} /\ unlocking \in Inodes \cup {None}
  /\ fd \in [Procs -> Inodes \cup {None}]
  /\ locked \subseteq Procs /\ handle \subseteq Procs
  /\ exists \in BOOLEAN
  /\ mode \in [Procs -> Modes]
  /\ pc \in [Procs -> Places]
  /\ round \in [Procs -> Nat]
  /\ data \subseteq Update /\ acked \subseteq Update /\ busy \subseteq Update
  /\ failed \in BOOLEAN
  /\ copy \in [Procs -> SUBSET Update]

\* Who holds what, by the place in lock_database, the body or unlock_database.
Held ==
  \A p \in Procs :
    /\ p \in handle <=> pc[p] \in {"body", "write", "close"}
    /\ p \in locked <=> pc[p] \in {"dbopen", "body", "write", "close", "rename", "unlock", "abandon", "release"}
    /\ fd[p] # None <=> p \in locked \/ pc[p] = "flock"

\* A database that is open for writing is open nowhere else, even where the
\* removal of the lock's name has let two processes past LOCKFILE.
WriterAlone ==
  \A p, q \in handle : p # q => mode[p] = "reader" /\ mode[q] = "reader"

\* What a writer's body has read is what the database has when it stores.
FreshCopy ==
  \A p \in Procs : pc[p] = "write" => mode[p] # "reader" /\ copy[p] = data

\* No update that a body has stored is undone by another body's store: the
\* read-modify-write of <with-open-database> is atomic.
NoLostUpdate == acked \subseteq data

\* The strengthening that makes WriterAlone and NoLostUpdate inductive.
IInv == TypeOK /\ Held /\ WriterAlone /\ FreshCopy /\ NoLostUpdate

\* Two processes, and no more, have come to the database, each of them once.
Begun == {p \in Procs : round[p] > 0}
Pair ==
  /\ \A p \in Begun : round[p] = 1
  /\ \A p, q, r \in Begun : p = q \/ q = r \/ p = r

\* "First, the database referenced by DBNAME is locked and opened": two
\* processes wait for each other's lock, so that neither finds the database in
\* use, for which database_open fails and the body is skipped.
PairNeverBusy == Pair => busy = {}

\* When the environments are over and none was cut short, neither name is left
\* in /tmp, however the renaming and removals of unlock_database interleave.
NamesRemoved ==
  ~failed /\ (\A p \in Procs : pc[p] = "idle") => name = None /\ unlocking = None

\* "Finally, the database is closed": every <with-open-database> comes to its
\* end, and with it the database and the lock are released.
EnvironmentsEnd == \A p \in Procs : pc[p] # "idle" ~> pc[p] = "idle" /\ p \notin locked

=============================================================================

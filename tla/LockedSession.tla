--------------------------- MODULE LockedSession ---------------------------
(***************************************************************************)
(* <with-locked-session> of libmhtml/sessionfuncs.c: the lock file of one   *)
(* session, as a directory entry, the inodes it has named, the processes'  *)
(* descriptors and the locks on them; and the session's record, which a    *)
(* body reads and writes back (pf_set_session_var).  session_unlock removes *)
(* the name before it unlocks, so that a process that had the old inode    *)
(* open and one that creates a new one can both be in their bodies.        *)
(***************************************************************************)
EXTENDS FiniteSets, Naturals

CONSTANTS
  Procs,     \* the processes that use the session
  Inodes,    \* what the file system can make files of
  None,      \* no inode: a closed descriptor, a missing name
  MaxRounds, \* how many updates each process makes
  Faults     \* whether opening or locking the file can fail

ASSUME LockedSessionAssumption ==
  /\ None \notin Inodes
  /\ MaxRounds \in Nat
  /\ Faults \in BOOLEAN

VARIABLES
  name,      \* the inode that /tmp/meta-html-SID names, or None
  fd,        \* fd[p]: the inode that p has open, or None
  locked,    \* the processes that hold the lock on the inode they have open
  pc,        \* pc[p]: what p does next
  round,     \* round[p]: how many updates p has begun
  data,      \* the session's record: the updates it shows
  copy,      \* copy[p]: the record as p read it
  acked      \* the updates whose body has been completed

vars == <<name, fd, locked, pc, round, data, copy, acked>>
file == <<name, fd, locked>>
record == <<data, copy, acked>>

Places == {"idle", "open", "flock", "read", "write", "nested", "unlink", "unlock"}
Update == Procs \X Nat

\* The processes in the body of their <with-locked-session>.
InBody(p) == pc[p] \in {"read", "write", "nested"}

Init ==
  /\ name = None
  /\ fd = [p \in Procs |-> None]
  /\ locked = {}
  /\ pc = [p \in Procs |-> "idle"]
  /\ round = [p \in Procs |-> 0]
  /\ data = {}
  /\ copy = [p \in Procs |-> {}]
  /\ acked = {}

Goto(p, place) == pc' = [pc EXCEPT ![p] = place]

Call(p) ==
  /\ pc[p] = "idle" /\ round[p] < MaxRounds
  /\ Goto(p, "open")
  /\ round' = [round EXCEPT ![p] = @ + 1]
  /\ UNCHANGED <<file, record>>

-----------------------------------------------------------------------------
(* session_lock *)

Unused == Inodes \ ({name} \cup {fd[p] : p \in Procs})

\* open() with O_CREAT
Open(p) ==
  /\ pc[p] = "open" /\ Goto(p, "flock")
  /\ IF name # None THEN UNCHANGED name ELSE name' \in Unused
  /\ fd' = [fd EXCEPT ![p] = name']
  /\ UNCHANGED <<locked, round, record>>

\* Mutant: a shared lock (READLOCKFILE).
Flock_Shared(p) ==
  /\ pc[p] = "flock" /\ Goto(p, "read")
  /\ locked' = locked \cup {p}
  /\ UNCHANGED <<name, fd, round, record>>

\* LOCKFILE: exclusive, on the inode and not on its name
Flock(p) ==
  /\ pc[p] = "flock" /\ Goto(p, "read")
  /\ \A q \in locked : fd[q] # fd[p]
  /\ locked' = locked \cup {p}
  /\ UNCHANGED <<name, fd, round, record>>

\* session_lock returns -1, which its caller does not look at.
LockFails(p) ==
  /\ Faults /\ pc[p] \in {"open", "flock"} /\ Goto(p, "read")
  /\ fd' = [fd EXCEPT ![p] = None]
  /\ UNCHANGED <<name, locked, round, record>>

-----------------------------------------------------------------------------
(* The body: an update of the session record *)

Read(p) ==
  /\ pc[p] = "read" /\ Goto(p, "write")
  /\ copy' = [copy EXCEPT ![p] = data]
  /\ UNCHANGED <<file, round, data, acked>>

Leave(p) == Goto(p, IF p \in locked THEN "unlink" ELSE "idle")

Write(p) ==
  /\ pc[p] = "write" /\ Leave(p)
  /\ data' = copy[p] \cup {<<p, round[p]>>}
  /\ acked' = acked \cup {<<p, round[p]>>}
  /\ copy' = [copy EXCEPT ![p] = {}]
  /\ UNCHANGED <<file, round>>

\* Another <with-locked-session> within the body: session_lock opens the file again
\* and waits for the lock that its own process has on it.  (Where the name is not
\* that of its file any more, it locks another one: not modelled.)
Nest(p) ==
  /\ pc[p] = "read" /\ p \in locked /\ name = fd[p] /\ Goto(p, "nested")
  /\ UNCHANGED <<file, round, record>>

\* Mutant: no setjmp() in the macro, the jump goes past session_unlock.
Jump_Past(p) ==
  /\ InBody(p) /\ pc[p] # "nested" /\ Goto(p, "idle")
  /\ copy' = [copy EXCEPT ![p] = {}]
  /\ UNCHANGED <<file, round, data, acked>>

\* The page is abandoned in its body: longjmp() to the setjmp() of the macro.
Jump(p) ==
  /\ InBody(p) /\ pc[p] # "nested" /\ Leave(p)
  /\ copy' = [copy EXCEPT ![p] = {}]
  /\ UNCHANGED <<file, round, data, acked>>

-----------------------------------------------------------------------------
(* session_unlock *)

\* The name goes, whichever inode it is the name of by now.
Unlink(p) ==
  /\ pc[p] = "unlink" /\ Goto(p, "unlock")
  /\ name' = None
  /\ UNCHANGED <<fd, locked, round, record>>

Unlock(p) ==
  /\ pc[p] = "unlock" /\ Goto(p, "idle")
  /\ locked' = locked \ {p}
  /\ fd' = [fd EXCEPT ![p] = None]
  /\ UNCHANGED <<name, round, record>>

\* SIGKILL from the server: the kernel closes and unlocks, the name stays.
Kill(p) ==
  /\ pc[p] # "idle" /\ Goto(p, "idle")
  /\ locked' = locked \ {p}
  /\ fd' = [fd EXCEPT ![p] = None]
  /\ copy' = [copy EXCEPT ![p] = {}]
  /\ UNCHANGED <<name, round, data, acked>>

Step(p) == Open(p) \/ Flock(p) \/ Read(p) \/ Write(p) \/ Unlink(p) \/ Unlock(p)

Next ==
  \E p \in Procs : Call(p) \/ Step(p) \/ LockFails(p) \/ Jump(p) \/ Nest(p) \/ Kill(p)

Spec == Init /\ [][Next]_vars

FairSpec == Spec /\ \A p \in Procs : WF_vars(Step(p))

-----------------------------------------------------------------------------
(* Properties *)

TypeOK ==
  /\ name \in Inodes \cup {None}
  /\ fd \in [Procs -> Inodes \cup {None}]
  /\ locked \subseteq Procs
  /\ pc \in [Procs -> Places]
  /\ round \in [Procs -> Nat]
  /\ data \subseteq Update
  /\ copy \in [Procs -> SUBSET Update]
  /\ acked \subseteq Update

\* A lock is on the inode that its holder has open, it is held only between
\* LOCKFILE and UNLOCKFILE, and no descriptor outlives the lock on it.
LockedIsOpen ==
  \A p \in Procs :
    /\ p \in locked => fd[p] # None /\ pc[p] \in Places \ {"idle", "open", "flock"}
    /\ pc[p] \in {"unlink", "unlock"} => p \in locked
    /\ pc[p] = "flock" => fd[p] # None
    /\ fd[p] # None /\ pc[p] # "flock" => p \in locked

\* Two processes hold the lock at one time only on different files, of which
\* the name is one at most: what is left of the lock when session_unlock
\* removes a name that another process has already opened.
HoldersDiffer == \A p, q \in locked : fd[p] = fd[q] => p = q

\* The strengthening that makes HoldersDiffer inductive.
IInv == TypeOK /\ LockedIsOpen /\ HoldersDiffer

\* Two processes, and no more, have come to the session, each of them once.
Begun == {p \in Procs : round[p] > 0}
Pair ==
  /\ \A p \in Begun : round[p] = 1
  /\ \A p, q, r \in Begun : p = q \/ q = r \/ p = r

\* Of two processes that come to the session once each, no more than one at a
\* time is in its body with the lock, whatever fails and whoever is killed:
\* session_unlock's removal of the name harms a third process only.
PairExcludes ==
  Pair => \A p, q \in locked : InBody(p) /\ InBody(q) => p = q

\* "Without introducing any race conditions for access to the current session
\* record": the updates of every body that has been completed are in the record.
NoLostUpdate == acked \subseteq data

\* A <with-locked-session> waits for ever only for the lock of one that has another
\* one in its body, be it of the same page or of others that have come to the
\* session since: no abandoned page, killed process or failed lock leaves the lock
\* to nobody.
Nested(p) == \E q \in Procs : pc[q] = "nested" /\ fd[q] = fd[p]
CallsReturn == \A p \in Procs : <>[](pc[p] # "idle") => <>[]Nested(p)

=============================================================================

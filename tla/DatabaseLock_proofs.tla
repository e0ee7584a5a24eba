------------------------ MODULE DatabaseLock_proofs ------------------------
(* Proofs about DatabaseLock. *)
EXTENDS DatabaseLock, TLAPS

\* At first no process is in an environment, and the database shows no update.
LEMMA InitIInv == Init => IInv
<1>1. AnyMode \in Modes
  BY DatabaseLockAssumption DEF AnyMode
<1>2. Init => TypeOK
  <2> SUFFICES ASSUME Init PROVE TypeOK
    OBVIOUS
  <2>1. mode \in [Procs -> Modes] /\ pc \in [Procs -> Places]
    BY <1>1 DEF Init, Places
  <2>2. fd \in [Procs -> Inodes \cup {None}] /\ round \in [Procs -> Nat]
    BY DEF Init
  <2>3. copy \in [Procs -> SUBSET Update]
    BY DEF Init
  <2> QED
    BY <2>1, <2>2, <2>3 DEF Init, TypeOK
<1>3. Init => Held /\ WriterAlone /\ FreshCopy /\ NoLostUpdate
  BY DEF Init, Held, WriterAlone, FreshCopy, NoLostUpdate
<1> QED
  BY <1>2, <1>3 DEF IInv

\* Each step of an environment keeps the locks, the handles and the updates in order.
LEMMA NextIInv == IInv /\ [Next]_vars => IInv'
<1> SUFFICES ASSUME IInv, [Next]_vars PROVE IInv'
  OBVIOUS
<1> USE DatabaseLockAssumption DEF IInv, TypeOK, Held, WriterAlone, FreshCopy, NoLostUpdate, Places, Goto
<1>1. CASE UNCHANGED vars
  BY <1>1 DEF vars, names, lock, call, record, past
<1>2. ASSUME NEW p \in Procs, Call(p) PROVE IInv'
  BY <1>2 DEF Call, names, lock, record, past
<1>3. ASSUME NEW p \in Procs, Open(p) PROVE IInv'
  BY <1>3 DEF Open, Unused, call, record, past
<1>4. ASSUME NEW p \in Procs, Flock(p) PROVE IInv'
  BY <1>4 DEF Flock, names, call, record, past
<1>5. ASSUME NEW p \in Procs, LockFails(p) PROVE IInv'
  BY <1>5 DEF LockFails, names, call, record, past
<1>6. ASSUME NEW p \in Procs, DatabaseOpen(p) PROVE IInv'
  BY <1>6 DEF DatabaseOpen, Compatible, names, lock, call, record, past
<1>7. ASSUME NEW p \in Procs, DatabaseOpenFails(p) PROVE IInv'
  <2>1. busy' \subseteq Update
    BY <1>7 DEF DatabaseOpenFails, Update
  <2> QED
    BY <1>7, <2>1 DEF DatabaseOpenFails, names, lock, call, record, past
<1>8. ASSUME NEW p \in Procs, Abandon(p) PROVE IInv'
  BY <1>8 DEF Abandon, lock, call, record, past
<1>9. ASSUME NEW p \in Procs, Release(p) PROVE IInv'
  BY <1>9 DEF Release, names, call, record, past
<1>10. ASSUME NEW p \in Procs, Body(p) PROVE IInv'
  BY <1>10 DEF Body, names, lock, call, past
<1>11. ASSUME NEW p \in Procs, Write(p) PROVE IInv'
  <2>1. \A q \in Procs : q # p => pc[q] # "write"
    BY <1>11 DEF Write
  <2>2. data' = data \cup {<<p, round[p]>>} /\ acked' = acked \cup {<<p, round[p]>>}
    BY <1>11 DEF Write
  <2>3. data' \subseteq Update /\ acked' \subseteq Update
    BY <2>2 DEF Update
  <2> QED
    BY <1>11, <2>1, <2>2, <2>3 DEF Write, names, lock, call, past
<1>12. ASSUME NEW p \in Procs, Jump(p) PROVE IInv'
  BY <1>12 DEF Jump, names, lock, call, record, past
<1>13. ASSUME NEW p \in Procs, Close(p) PROVE IInv'
  BY <1>13 DEF Close, names, lock, call, record, past
<1>14. ASSUME NEW p \in Procs, Rename(p) PROVE IInv'
  BY <1>14 DEF Rename, names, lock, call, record, past
<1>15. ASSUME NEW p \in Procs, Unlock(p) PROVE IInv'
  BY <1>15 DEF Unlock, names, call, record, past
<1>16. ASSUME NEW p \in Procs, Discard(p) PROVE IInv'
  BY <1>16 DEF Discard, lock, call, record, past
<1>17. ASSUME NEW p \in Procs, Kill(p) PROVE IInv'
  BY <1>17 DEF Kill, names, call, record, past
<1> QED
  BY <1>1, <1>2, <1>3, <1>4, <1>5, <1>6, <1>7, <1>8, <1>9, <1>10, <1>11,
     <1>12, <1>13, <1>14, <1>15, <1>16, <1>17 DEF Next, Step

\* However many processes use a database, in whatever modes, with whatever
\* failures: a writer has it alone, and no stored update is lost, although the
\* processes' lock files do not always make them wait for each other.
THEOREM Invariance == Spec => []IInv
BY InitIInv, NextIInv, PTL DEF Spec

-----------------------------------------------------------------------------
(* The names in /tmp *)

\* Whoever has come by the lock's name, or has renamed it, is going to remove it,
\* unless it has failed or been killed.
Removers ==
  ~failed =>
    /\ name # None =>
         \E p \in Procs : pc[p] \in {"flock", "dbopen", "body", "write", "close", "rename", "abandon"}
    /\ unlocking # None => \E p \in Procs : pc[p] \in {"unlock", "discard"}

\* Each step keeps the names in the hands of a process.
LEMMA NextRemovers == IInv /\ Removers /\ [Next]_vars => Removers'
<1> SUFFICES ASSUME IInv, Removers, [Next]_vars PROVE Removers'
  OBVIOUS
<1> USE DEF IInv, TypeOK, Removers, Goto
<1>1. CASE UNCHANGED vars
  BY <1>1 DEF vars, names, past
<1>2. ASSUME NEW p \in Procs, Call(p) \/ Flock(p) \/ DatabaseOpen(p) \/ DatabaseOpenFails(p) \/ Body(p)
                              \/ Write(p) \/ Jump(p) \/ Close(p) \/ Unlock(p) \/ Release(p)
      PROVE Removers'
  BY <1>2 DEF Call, Flock, DatabaseOpen, DatabaseOpenFails, Body, Write, Jump, Close, Unlock,
              Release, names, past
<1>3. ASSUME NEW p \in Procs, Open(p) PROVE Removers'
  BY <1>3 DEF Open, past
<1>4. ASSUME NEW p \in Procs, Abandon(p) \/ Discard(p) PROVE Removers'
  BY <1>4 DEF Abandon, Discard, past
<1>5. ASSUME NEW p \in Procs, Rename(p) PROVE Removers'
  BY <1>5 DEF Rename, names, past
<1>6. ASSUME NEW p \in Procs, LockFails(p) \/ Kill(p) PROVE Removers'
  BY <1>6 DEF LockFails, Kill
<1> QED
  BY <1>1, <1>2, <1>3, <1>4, <1>5, <1>6 DEF Next, Step

\* When the environments are over and none was cut short, neither of the lock's
\* names is left, however many processes have renamed and removed them at a time.
THEOREM NamesGo == Spec => []NamesRemoved
<1>1. Init => Removers
  BY DEF Init, Removers
<1>2. IInv /\ Removers => NamesRemoved
  BY DEF IInv, TypeOK, Removers, NamesRemoved
<1> QED
  BY <1>1, <1>2, NextRemovers, Invariance, PTL DEF Spec

-----------------------------------------------------------------------------
(* Two processes *)

\* Who has the lock of an inode has it alone.
OneHolder == \A p, q \in locked : p # q => fd[p] # fd[q]

\* A process that has come by an inode without a name is one of two, of which the
\* other has removed the name.
Using == {"flock", "dbopen", "body", "write", "close", "rename", "abandon"}
Companion ==
  \A p \in Procs : pc[p] \in Using /\ fd[p] # name =>
    \E q \in Begun \ {p} : pc[q] \in {"unlock", "discard", "release", "idle"}

\* Processes in an environment have begun one; while no more than two have, and
\* each of them one only, none has found the database in use.
InTurn ==
  /\ OneHolder
  /\ \A p \in Procs : pc[p] # "idle" => p \in Begun
  /\ Pair => Companion /\ busy = {}

\* With every step there are no fewer processes that have begun.
LEMMA PairBefore == IInv /\ [Next]_vars /\ Pair' => Pair
<1> SUFFICES ASSUME IInv, [Next]_vars, Pair' PROVE Pair
  OBVIOUS
<1>1. \A p \in Procs : round'[p] = round[p] \/ round'[p] = round[p] + 1
  BY DEF Next, Step, Call, Open, Flock, LockFails, DatabaseOpen, DatabaseOpenFails, Abandon, Release,
         Body, Write, Jump, Close, Rename, Unlock, Discard, Kill, vars, call, IInv, TypeOK
<1>2. \A p \in Procs : round[p] \in Nat
  BY DEF IInv, TypeOK
<1>3. \A p \in Begun : p \in Begun' /\ round[p] = 1
  BY <1>1, <1>2 DEF Pair, Begun
<1> QED
  BY <1>3 DEF Pair, Begun

\* While there are two, the lock is one.
LEMMA NeverIncompatible ==
  ASSUME IInv, InTurn, Pair, NEW p \in Procs, pc[p] = "dbopen"
  PROVE  Compatible(p)
<1> SUFFICES ASSUME NEW q \in handle PROVE FALSE
  BY DEF Compatible
<1> USE DEF IInv, TypeOK, Held
<1>1. q \in Procs /\ pc[q] \in {"body", "write", "close"} /\ q # p /\ p \in locked /\ q \in locked
  OBVIOUS
<1>2. p \in Begun /\ q \in Begun
  BY <1>1 DEF InTurn
<1>3. fd[p] # fd[q]
  BY <1>1 DEF InTurn, OneHolder
<1>4. PICK r \in Begun : pc[r] \in {"unlock", "discard", "release", "idle"}
  BY <1>1, <1>3 DEF InTurn, Companion, Using
<1>5. r # p /\ r # q
  BY <1>1, <1>4
<1> QED
  BY <1>1, <1>2, <1>4, <1>5 DEF Pair

\* Each step of two processes leaves the one without the name a companion.
LEMMA NextInTurn == IInv /\ InTurn /\ [Next]_vars => InTurn'
<1> SUFFICES ASSUME IInv, InTurn, [Next]_vars PROVE InTurn'
  OBVIOUS
<1> USE DEF IInv, TypeOK, Held, InTurn, OneHolder, Begun, Goto
<1>0. Pair' => Pair
  BY PairBefore
<1>1. OneHolder' /\ \A p \in Procs : pc'[p] # "idle" => p \in Begun'
  BY DatabaseLockAssumption
     DEF Next, Step, Call, Open, Flock, LockFails, DatabaseOpen, DatabaseOpenFails, Abandon, Release,
         Body, Write, Jump, Close, Rename, Unlock, Discard, Kill, vars, call, lock
<1>2. ASSUME Pair, Pair', Companion, busy = {} PROVE Companion' /\ busy' = {}
  <2> USE <1>2 DEF Companion, Using
  <2>1. ASSUME NEW p \in Procs, Call(p) PROVE Companion' /\ busy' = {}
    <3>1. round'[p] = round[p] + 1 /\ round[p] \in Nat /\ p \in Procs
      BY <2>1 DEF Call
    <3>2. p \notin Begun
      BY <3>1 DEF Pair
    <3> QED
      BY <2>1, <3>1, <3>2 DEF Call, names, lock, past
  <2>2. ASSUME NEW p \in Procs, Open(p) PROVE Companion' /\ busy' = {}
    BY <2>2 DEF Open, call, past
  <2>3. ASSUME NEW p \in Procs, Flock(p) \/ DatabaseOpen(p) \/ Body(p) \/ Write(p) \/ Jump(p) \/ Close(p)
        PROVE  Companion' /\ busy' = {}
    BY <2>3 DEF Flock, DatabaseOpen, Body, Write, Jump, Close, names, lock, call, past
  <2>4. ASSUME NEW p \in Procs, DatabaseOpenFails(p) PROVE Companion' /\ busy' = {}
    BY <2>4, NeverIncompatible DEF DatabaseOpenFails, names, lock, call
  <2>5. ASSUME NEW p \in Procs, Abandon(p) \/ Rename(p) PROVE Companion' /\ busy' = {}
    BY <2>5 DEF Abandon, Rename, names, lock, call, past
  <2>6. ASSUME NEW p \in Procs, Release(p) \/ Unlock(p) \/ Discard(p) PROVE Companion' /\ busy' = {}
    BY <2>6 DEF Release, Unlock, Discard, names, lock, call, past
  <2>7. ASSUME NEW p \in Procs, LockFails(p) \/ Kill(p) PROVE Companion' /\ busy' = {}
    BY <2>7 DEF LockFails, Kill, names, call
  <2>8. CASE UNCHANGED vars
    BY <2>8 DEF vars, names, lock, call, past
  <2> QED
    BY <2>1, <2>2, <2>3, <2>4, <2>5, <2>6, <2>7, <2>8 DEF Next, Step
<1> QED
  BY <1>0, <1>1, <1>2

\* Two processes that come to the database once each wait for each other: neither
\* finds it in use, whichever removes the name and whoever is killed.
THEOREM TwoWait == Spec => []PairNeverBusy
<1>1. Init => InTurn
  BY DEF Init, InTurn, OneHolder, Begun, Companion, Using
<1>2. InTurn => PairNeverBusy
  BY DEF InTurn, PairNeverBusy
<1> QED
  BY <1>1, <1>2, NextInTurn, Invariance, PTL DEF Spec
=============================================================================

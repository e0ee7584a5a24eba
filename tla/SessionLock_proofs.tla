------------------------ MODULE SessionLock_proofs -------------------------
(***************************************************************************)
(* For every set of processes, identifiers, keys, timeouts and clock        *)
(* values: the locked, record-by-record accesses of SessionLock keep        *)
(* readers and writers apart, reap exactly what has expired, and implement *)
(* the atomic store.                                                       *)
(***************************************************************************)
EXTENDS SessionLock, TLAPS

\* A process that may write has the database to itself.
LEMMA WriterAlone ==
  ASSUME IInv, NEW p \in Procs, NEW q \in Procs, p # q,
         InDatabase(p), Writes(p)
  PROVE  ~InDatabase(q)
  BY DEF IInv, TypeOK, OneHolder, HeldMode, InDatabase, Writes,
         Mode

\* No process is anywhere yet.
LEMMA InitIInv == Init => IInv
  <1> SUFFICES ASSUME Init PROVE IInv
    OBVIOUS
  <1>1. (CHOOSE o \in Ops : TRUE) \in Op
    BY OpsAssumption
  <1>2. TypeOK
    BY <1>1, ClockAssumption DEF Init, TypeOK, Modes, Places
  <1> QED
    BY <1>2 DEF Init, IInv, OneHolder, HeldMode, KindAt, Scanned, FreshScan,
                ReapsTheExpired, At

\* Every step keeps the invariant.  The steps that matter are the grant of a
\* lock, the visits of a scan, and the three steps that write the database.
LEMMA NextIInv == IInv /\ [Next]_vars => IInv'
  <1> SUFFICES ASSUME IInv, [Next]_vars PROVE IInv'
    OBVIOUS
  <1> USE DEF IInv, TypeOK, OneHolder, HeldMode, KindAt, Scanned, FreshScan,
              ReapsTheExpired, At, Goto, Modes, Places, answers, scanning,
              Scans, Present, Expired
  <1>1. CASE Tick
    BY <1>1 DEF Tick
  <1>2. ASSUME NEW p \in Procs, NEW o \in Ops, Call(p, o) PROVE IInv'
    BY <1>2, OpsAssumption, ClockAssumption DEF Call
  <1>3. ASSUME NEW p \in Procs, Lock(p) PROVE IInv'
    BY <1>3 DEF Lock, Grantable, Mode
  <1>4. ASSUME NEW p \in Procs, LockFails(p) PROVE IInv'
    BY <1>4 DEF LockFails
  <1>5. ASSUME NEW p \in Procs, OpenFails(p) PROVE IInv'
    BY <1>5 DEF OpenFails, Release
  <1>6. ASSUME NEW p \in Procs, Open(p) PROVE IInv'
    BY <1>6 DEF Open
  <1>7. ASSUME NEW p \in Procs, Get(p) PROVE IInv'
    BY <1>7 DEF Get, Op, Database
  <1>8. ASSUME NEW p \in Procs, Put(p) PROVE IInv'
    BY <1>8 DEF Put, Op, Database, Mode
  <1>9. ASSUME NEW p \in Procs, Delete(p) PROVE IInv'
    BY <1>9 DEF Delete, Op, Database, Mode
  <1>10. ASSUME NEW p \in Procs, NEW s \in Sids, FindVisit(p, s) PROVE IInv'
    BY <1>10 DEF FindVisit, Visit, Unseen
  <1>11. ASSUME NEW p \in Procs, NEW s \in Sids, AllVisit(p, s) PROVE IInv'
    BY <1>11 DEF AllVisit, Visit, Unseen
  <1>12. ASSUME NEW p \in Procs, NEW s \in Sids, ReapVisit(p, s) PROVE IInv'
    BY <1>12 DEF ReapVisit, Visit, Unseen
  <1>13. ASSUME NEW p \in Procs, ScanEnd(p) PROVE IInv'
    BY <1>13 DEF ScanEnd, Unseen
  <1>14. ASSUME NEW p \in Procs, NEW s \in Sids, ReapOne(p, s) PROVE IInv'
    BY <1>14 DEF ReapOne, Database, Mode
  <1>15. ASSUME NEW p \in Procs, ReapEnd(p) PROVE IInv'
    BY <1>15 DEF ReapEnd
  <1>16. ASSUME NEW p \in Procs, Unlock(p) PROVE IInv'
    BY <1>16 DEF Unlock, Release
  <1>17. ASSUME NEW p \in Procs, Return(p) PROVE IInv'
    BY <1>17 DEF Return
  <1>18. ASSUME NEW p \in Procs, Kill(p) PROVE IInv'
    BY <1>18 DEF Kill, Release
  <1>19. CASE UNCHANGED vars
    BY <1>19 DEF vars
  <1> QED
    BY <1>1, <1>2, <1>3, <1>4, <1>5, <1>6, <1>7, <1>8, <1>9, <1>10, <1>11,
       <1>12, <1>13, <1>14, <1>15, <1>16, <1>17, <1>18, <1>19 DEF Next, Step

\* Whoever fails or is killed in session_lock_database or in the database: each
\* place has its lock, an exclusive one is the only one, and what a scan has found
\* is true of the database as it is now.
THEOREM Invariance == Spec => []IInv
  BY InitIInv, NextIInv, PTL DEF Spec

\* The types of the variables, for every value of the constants.
THEOREM TypeCorrect == Spec => []TypeOK
  BY Invariance, PTL DEF IInv

\* session_lock_database admits several readers or one writer.
THEOREM ReadersOrWriter == Spec => []OneWriter
  <1>1. IInv => OneWriter
    BY WriterAlone DEF OneWriter
  <1> QED
    BY <1>1, Invariance, PTL

\* generic_session_reaper deletes the records that have expired, only those.
THEOREM ReaperExact == Spec => []ReapsTheExpired
  BY Invariance, PTL DEF IInv

-----------------------------------------------------------------------------
\* The initial states of the protocol are initial states of the store.
LEMMA InitStore == Init => Store!Init
  BY DEF Init, Store!Init, status, At, Store!Present, Present, Store!Database,
         Database, Store!SESSION_INFO, SESSION_INFO

\* Every step of the protocol is a step of the store, or leaves it alone.
LEMMA StepStore == IInv /\ [Next]_vars => [Store!Next]_Store!vars
  <1> SUFFICES ASSUME IInv, [Next]_vars PROVE [Store!Next]_Store!vars
    OBVIOUS
  <1> USE DEF IInv, TypeOK, KindAt, Scans, status, At, Reaping, Goto,
              Store!Next, Store!vars, Store!Done, Store!Doing, answers, scanning
  <1>1. CASE Tick
    BY <1>1 DEF Tick, Store!Tick
  <1>2. ASSUME NEW p \in Procs, NEW o \in Ops, Call(p, o)
        PROVE  Store!Call(p, o)
    BY <1>2 DEF Call, Store!Call
  <1>3. ASSUME NEW p \in Procs, Lock(p) PROVE UNCHANGED Store!vars
    BY <1>3 DEF Lock
  <1>4. ASSUME NEW p \in Procs, LockFails(p) PROVE Store!Fail(p)
    BY <1>4 DEF LockFails, Store!Fail
  <1>5. ASSUME NEW p \in Procs, OpenFails(p) PROVE Store!Fail(p)
    BY <1>5 DEF OpenFails, Store!Fail
  <1>6. ASSUME NEW p \in Procs, Open(p)
        PROVE  Store!BeginReap(p) \/ UNCHANGED Store!vars
    <2>1. CASE op[p].kind = "reap"
      <3>1. status' = [status EXCEPT ![p] = "reaping"]
        BY <1>6, <2>1 DEF Open
      <3>2. status[p] = "called" /\ asof' = [asof EXCEPT ![p] = now]
        BY <1>6, <2>1 DEF Open
      <3> QED
        BY <1>6, <2>1, <3>1, <3>2 DEF Open, Store!BeginReap
    <2>2. CASE op[p].kind # "reap"
      BY <1>6, <2>2 DEF Open
    <2> QED
      BY <2>1, <2>2
  <1>7. ASSUME NEW p \in Procs, Get(p) PROVE Store!Get(p)
    BY <1>7 DEF Get, Store!Get
  <1>8. ASSUME NEW p \in Procs, Put(p) PROVE Store!Put(p)
    BY <1>8 DEF Put, Store!Put
  <1>9. ASSUME NEW p \in Procs, Delete(p) PROVE Store!Delete(p)
    BY <1>9 DEF Delete, Store!Delete
  <1>10. ASSUME NEW p \in Procs, NEW s \in Sids, FindVisit(p, s)
         PROVE  Store!Find(p) \/ UNCHANGED Store!vars
    BY <1>10 DEF FindVisit, Visit, Unseen, Store!Find, Store!WithKey,
                 Store!Present, Present
  <1>11. ASSUME NEW p \in Procs, NEW s \in Sids, AllVisit(p, s)
         PROVE  UNCHANGED Store!vars
    BY <1>11 DEF AllVisit, Visit
  <1>12. ASSUME NEW p \in Procs, NEW s \in Sids, ReapVisit(p, s)
         PROVE  UNCHANGED Store!vars
    BY <1>12 DEF ReapVisit, Visit
  <1>13. ASSUME NEW p \in Procs, ScanEnd(p)
         PROVE  Store!Find(p) \/ Store!All(p) \/ UNCHANGED Store!vars
    <2>1. seen[p] = Present(db)
      BY <1>13 DEF ScanEnd, Unseen, Scanned
    <2>2. CASE op[p].kind = "find"
      <3>1. Store!WithKey(db, op[p].info.key) = {}
        BY <1>13, <2>1, <2>2
           DEF ScanEnd, Scanned, Present, Store!WithKey, Store!Present
      <3>2. status' = [status EXCEPT ![p] = "done"]
        BY <1>13, <2>2 DEF ScanEnd
      <3> QED
        BY <1>13, <2>2, <3>1, <3>2 DEF ScanEnd, Store!Find
    <2>3. CASE op[p].kind = "all"
      <3>1. status' = [status EXCEPT ![p] = "done"]
        BY <1>13, <2>3 DEF ScanEnd
      <3> QED
        BY <1>13, <2>1, <2>3, <3>1
           DEF ScanEnd, Present, Store!All, Store!Present
    <2>4. CASE op[p].kind = "reap"
      BY <1>13, <2>4 DEF ScanEnd
    <2> QED
      BY <1>13, <2>2, <2>3, <2>4 DEF ScanEnd
  <1>14. ASSUME NEW p \in Procs, NEW s \in Sids, ReapOne(p, s)
         PROVE  Store!Reap(p, s)
    BY <1>14 DEF ReapOne, ReapsTheExpired, Expired, Present, TimedOut,
                 IntProduct, Store!Reap, Store!Expired, Store!Present,
                 Store!TimedOut, Store!IntProduct
  <1>15. ASSUME NEW p \in Procs, ReapEnd(p) PROVE Store!EndReap(p)
    BY <1>15 DEF ReapEnd, ReapsTheExpired, Expired, Present, TimedOut,
                 IntProduct, Store!EndReap, Store!Expired, Store!Present,
                 Store!TimedOut, Store!IntProduct
  <1>16. ASSUME NEW p \in Procs, Unlock(p) PROVE UNCHANGED Store!vars
    BY <1>16 DEF Unlock
  <1>17. ASSUME NEW p \in Procs, Return(p) PROVE Store!Leave(p)
    BY <1>17 DEF Return, Store!Leave
  <1>18. ASSUME NEW p \in Procs, Kill(p) PROVE Store!Leave(p)
    BY <1>18 DEF Kill, Store!Leave
  <1>19. CASE UNCHANGED vars
    BY <1>19 DEF vars
  <1> QED
    BY <1>1, <1>2, <1>3, <1>4, <1>5, <1>6, <1>7, <1>8, <1>9, <1>10, <1>11,
       <1>12, <1>13, <1>14, <1>15, <1>16, <1>17, <1>18, <1>19 DEF Next, Step

\* The accesses of session.c are atomic: the protocol implements the store.
THEOREM Refinement == Spec => ImplementsStore
  BY InitStore, StepStore, Invariance, PTL DEF Spec, Store!Spec, ImplementsStore

=============================================================================

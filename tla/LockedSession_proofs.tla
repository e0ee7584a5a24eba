----------------------- MODULE LockedSession_proofs -----------------------
(* Proofs about LockedSession. *)
EXTENDS LockedSession, TLAPS

\* At first nothing is open or locked.
LEMMA InitIInv == Init => IInv
BY LockedSessionAssumption DEF Init, IInv, TypeOK, LockedIsOpen, HoldersDiffer, Places

\* Each step keeps locks on open files, and those of two holders on different ones.
LEMMA NextIInv == IInv /\ [Next]_vars => IInv'
<1> SUFFICES ASSUME IInv, [Next]_vars PROVE IInv'
  OBVIOUS
<1> USE LockedSessionAssumption DEF IInv, TypeOK, LockedIsOpen, HoldersDiffer
<1>1. CASE UNCHANGED vars
  BY <1>1 DEF vars
<1>2. ASSUME NEW p \in Procs, Call(p) PROVE IInv'
  BY <1>2 DEF Call, Goto, Places, file, record
<1>3. ASSUME NEW p \in Procs, Open(p) PROVE IInv'
  BY <1>3 DEF Open, Goto, Places, Unused, record
<1>4. ASSUME NEW p \in Procs, Flock(p) PROVE IInv'
  BY <1>4 DEF Flock, Goto, Places, record
<1>5. ASSUME NEW p \in Procs, LockFails(p) PROVE IInv'
  BY <1>5 DEF LockFails, Goto, Places, record
<1>6. ASSUME NEW p \in Procs, Read(p) PROVE IInv'
  BY <1>6 DEF Read, Goto, Places, file
<1>7. ASSUME NEW p \in Procs, Write(p) PROVE IInv'
  <2>1. copy[p] \subseteq Update /\ <<p, round[p]>> \in Update
    BY DEF Update
  <2>2. data' \subseteq Update /\ acked' \subseteq Update
    BY <1>7, <2>1 DEF Write
  <2> QED
    BY <1>7, <2>2 DEF Write, Leave, Goto, Places, file
<1>8. ASSUME NEW p \in Procs, Jump(p) PROVE IInv'
  BY <1>8 DEF Jump, InBody, Leave, Goto, Places, file
<1>9. ASSUME NEW p \in Procs, Unlink(p) PROVE IInv'
  BY <1>9 DEF Unlink, Goto, Places, record
<1>10. ASSUME NEW p \in Procs, Unlock(p) PROVE IInv'
  BY <1>10 DEF Unlock, Goto, Places, record
<1>11. ASSUME NEW p \in Procs, Nest(p) PROVE IInv'
  BY <1>11 DEF Nest, Goto, Places, file, record
<1>12. ASSUME NEW p \in Procs, Kill(p) PROVE IInv'
  BY <1>12 DEF Kill, Goto, Places
<1> QED
  BY <1>1, <1>2, <1>3, <1>4, <1>5, <1>6, <1>7, <1>8, <1>9, <1>10, <1>11, <1>12 DEF Next, Step

\* However many processes use the session, and whatever fails or is killed, the
\* holders of its lock hold it on different files (session_lock, session_unlock).
THEOREM Invariance == Spec => []IInv
BY InitIInv, NextIInv, PTL DEF Spec

-----------------------------------------------------------------------------
(* Two processes, each of which locks the session once *)

\* A process that waits or is in its body has the file in the name open, unless
\* its companion, which alone can have removed it, has left its own body.
Over(q) == pc[q] = "unlock" \/ pc[q] = "idle"
Companion ==
  Pair =>
    \A p \in Procs :
      fd[p] # None /\ fd[p] # name /\ pc[p] # "unlock"
        => \E q \in Begun \ {p} : Over(q)

\* Only a process that has begun is anywhere.
Started == \A p \in Procs : pc[p] # "idle" => p \in Begun

\* Once it is not a pair it never is again.
LEMMA PairBack == IInv /\ Pair' /\ [Next]_vars => Pair
<1> SUFFICES ASSUME IInv, Pair', [Next]_vars PROVE Pair
  OBVIOUS
<1>1. \A p \in Procs : round'[p] = round[p] \/ round'[p] = round[p] + 1
  BY DEF IInv, TypeOK, Next, Step, vars, file, record, Call, Open, Flock, LockFails,
         Read, Write, Jump, Nest, Unlink, Unlock, Kill
<1>2. \A p \in Procs : round[p] \in Nat
  BY DEF IInv, TypeOK
<1>3. Begun \subseteq Begun'
  BY <1>1, <1>2 DEF Begun
<1>4. \A p \in Begun : round[p] = 1
  BY <1>1, <1>2, <1>3 DEF Begun, Pair
<1> QED
  BY <1>3, <1>4 DEF Pair

\* No step but Call takes a process out of idleness, and Call begins a round.
LEMMA StartedStays == IInv /\ Started /\ [Next]_vars => Started'
<1> SUFFICES ASSUME IInv, Started, [Next]_vars, NEW p \in Procs, pc'[p] # "idle"
             PROVE  round'[p] > 0
  BY DEF Started, Begun
<1> USE DEF IInv, TypeOK, Started, Begun, Goto, Leave, file, record
<1>1. ASSUME NEW q \in Procs, Call(q) PROVE round'[p] > 0
  BY <1>1 DEF Call
<1>2. ASSUME NEW q \in Procs, Step(q) \/ LockFails(q) \/ Jump(q) \/ Nest(q) \/ Kill(q)
      PROVE  round'[p] > 0
  BY <1>2 DEF Step, Open, Flock, LockFails, Read, Write, Jump, Nest, InBody, Unlink, Unlock, Kill
<1> QED
  BY <1>1, <1>2 DEF Next, vars

\* What the exclusion of two bodies rests on.
PairInv == IInv /\ Started /\ Companion

LEMMA InitPairInv == Init => PairInv
BY InitIInv DEF PairInv, Init, Started, Companion

LEMMA NextPairInv == PairInv /\ [Next]_vars => PairInv'
<1> SUFFICES ASSUME PairInv, [Next]_vars, Pair, Pair' PROVE Companion'
  BY NextIInv, StartedStays, PairBack DEF PairInv, Companion
<1> USE LockedSessionAssumption DEF PairInv, IInv, TypeOK, LockedIsOpen, Companion, Started, Over, Begun
<1>1. CASE UNCHANGED vars
  BY <1>1 DEF vars
<1>2. ASSUME NEW p \in Procs, Call(p) PROVE Companion'
  <2>1. round'[p] = round[p] + 1 /\ p \in Begun'
    BY <1>2 DEF Call
  <2>2. round[p] = 0
    BY <2>1 DEF Pair
  <2> QED
    BY <1>2, <2>2 DEF Call, Goto, Pair, file, record
<1>3. ASSUME NEW p \in Procs, Open(p) PROVE Companion'
  BY <1>3 DEF Open, Goto, Unused, record
<1>4. ASSUME NEW p \in Procs, Flock(p) PROVE Companion'
  BY <1>4 DEF Flock, Goto, record
<1>5. ASSUME NEW p \in Procs, Read(p) PROVE Companion'
  BY <1>5 DEF Read, Goto, file
<1>6. ASSUME NEW p \in Procs, Write(p) \/ Jump(p) PROVE Companion'
  BY <1>6 DEF Write, Jump, InBody, Leave, Goto, file
<1>7. ASSUME NEW p \in Procs, Unlink(p) PROVE Companion'
  BY <1>7 DEF Unlink, Goto, Pair, record
<1>8. ASSUME NEW p \in Procs, Unlock(p) \/ Kill(p) \/ LockFails(p) PROVE Companion'
  BY <1>8 DEF Unlock, Kill, LockFails, Goto, record
<1>9. ASSUME NEW p \in Procs, Nest(p) PROVE Companion'
  BY <1>9 DEF Nest, Goto, file, record
<1> QED
  BY <1>1, <1>2, <1>3, <1>4, <1>5, <1>6, <1>7, <1>8, <1>9 DEF Next, Step

LEMMA PairInvExcludes == PairInv => PairExcludes
BY LockedSessionAssumption
   DEF PairInv, IInv, TypeOK, LockedIsOpen, HoldersDiffer, Companion, Pair, Started, Over, Begun,
       InBody, PairExcludes

\* Of two processes that lock the session once each, the bodies exclude each
\* other, whatever fails and whoever is killed (session_lock, session_unlock).
THEOREM Exclusion == Spec => []PairExcludes
BY InitPairInv, NextPairInv, PairInvExcludes, PTL DEF Spec

-----------------------------------------------------------------------------
(* Their updates of the record *)

\* It takes a third process, or a lock that fails, to lose an update.
PairLosesNothing == Pair /\ ~Faults => NoLostUpdate

\* A body has the lock, and what it has read shows the updates completed so far.
Kept ==
  ~Faults =>
    /\ \A p \in Procs : InBody(p) => p \in locked
    /\ Pair => acked \subseteq data /\ \A p \in Procs : pc[p] = "write" => acked \subseteq copy[p]

LEMMA NextKept == PairInv /\ Kept /\ [Next]_vars => Kept'
<1> SUFFICES ASSUME PairInv, Kept, [Next]_vars, ~Faults PROVE Kept'
  BY DEF Kept
<1> USE DEF IInv, TypeOK, InBody, Goto
<1>1. PairExcludes /\ IInv /\ (Pair' => Pair)
  BY PairInvExcludes, PairBack DEF PairInv
<1>2. CASE UNCHANGED vars
  BY <1>2 DEF Kept, vars, Pair, Begun
<1>3. ASSUME NEW p \in Procs, Read(p) PROVE Kept'
  BY <1>1, <1>3 DEF Kept, Read, file
<1>4. ASSUME NEW p \in Procs, Write(p) PROVE Kept'
  <2>1. pc[p] = "write" /\ p \in locked
    BY <1>4 DEF Kept, Write
  <2>2. \A q \in Procs : InBody(q)' => q # p /\ InBody(q) /\ pc'[q] = pc[q] /\ q \in locked /\ locked' = locked
    BY <1>1, <1>4, <2>1 DEF Kept, Write, Leave, file
  <2>3. ASSUME Pair' PROVE acked' \subseteq data' /\ \A q \in Procs : pc'[q] # "write"
    <3>1. acked \subseteq copy[p]
      BY <1>1, <2>1, <2>3 DEF Kept
    <3>2. \A q \in Procs : ~InBody(q)'
      BY <1>1, <2>1, <2>2, <2>3 DEF PairExcludes
    <3> QED BY <1>4, <3>1, <3>2 DEF Write
  <2> QED BY <2>2, <2>3 DEF Kept
<1>5. ASSUME NEW p \in Procs, Call(p) \/ Open(p) \/ Nest(p) \/ Unlink(p) PROVE Kept'
  BY <1>1, <1>5 DEF Kept, Call, Open, Nest, Unlink, file, record
<1>6. ASSUME NEW p \in Procs, Flock(p) PROVE Kept'
  BY <1>1, <1>6 DEF Kept, Flock, record
<1>7. ASSUME NEW p \in Procs, Jump(p) PROVE Kept'
  BY <1>1, <1>7 DEF Kept, Jump, Leave, file
<1>8. ASSUME NEW p \in Procs, Unlock(p) PROVE Kept'
  BY <1>1, <1>8 DEF Kept, Unlock, record
<1>9. ASSUME NEW p \in Procs, Kill(p) PROVE Kept'
  BY <1>1, <1>9 DEF Kept, Kill
<1>10. ASSUME NEW p \in Procs, LockFails(p) PROVE Kept'
  BY <1>10 DEF LockFails
<1> QED
  BY <1>2, <1>3, <1>4, <1>5, <1>6, <1>7, <1>8, <1>9, <1>10 DEF Next, Step

\* Of two processes that lock the session once each no update is lost, as long
\* as its file can be opened and locked, whoever jumps out of a body or is killed.
THEOREM NothingLost == Spec => []PairLosesNothing
<1>1. Init => Kept
  BY DEF Init, Kept, InBody
<1>2. PairInv /\ Kept => PairLosesNothing
  BY DEF Kept, PairLosesNothing, NoLostUpdate
<1> QED
  BY InitPairInv, NextPairInv, NextKept, <1>1, <1>2, PTL DEF Spec

=============================================================================

---------------------------- MODULE Server_proofs ----------------------------
(***************************************************************************)
(* Proofs about the processes of the server: ServerChildren and LogLock.    *)
(*                                                                          *)
(* Of the children: no death goes unnoticed, no running child is missing    *)
(* from the table, and only an entry's own child is killed for it.  The     *)
(* first needs nothing of the table.  The others need what reap_children's  *)
(* sweep leaves of it, which is an induction on the index of the loop, made *)
(* by way of a least counterexample.                                        *)
(*                                                                          *)
(* Of the logs: a lock is had only where a call in progress uses it.  The   *)
(* calls of a process are a stack, whose top alone moves, and the handlers  *)
(* of signals only put calls on it.                                         *)
(***************************************************************************)
EXTENDS ServerChildren, LogLock, SequenceTheorems, WellFoundedInduction, TLAPS

-----------------------------------------------------------------------------
(* The table of children *)

\* The processes keep their type, and the dead are announced.
Announced ==
  /\ process \in [Pids -> [state : States, serial : Nat]]
  /\ forks \in Nat
  /\ ZombiesAnnounced

\* There are no children when the server starts.
LEMMA InitAnnounced == Init => Announced
BY DEF Init, Announced, States, ZombiesAnnounced, Pidded

\* Steps that change neither.
LEMMA SameProcesses ==
  ASSUME Announced, UNCHANGED <<process, forks>>, sigchld => sigchld'
  PROVE  Announced'
BY DEF Announced, ZombiesAnnounced, Pidded

\* reap_children waits for every child that is dead.
LEMMA ReapsAll ==
  ASSUME Announced, ReapChildren
  PROVE  /\ process' \in [Pids -> [state : States, serial : Nat]]
         /\ Pidded("zombie")' = {}
<1>1. \A pid \in Pids :
        process'[pid] = IF process[pid].state = "zombie" THEN [process[pid] EXCEPT !.state = "free"]
                        ELSE process[pid]
  BY DEF ReapChildren
<1>2. \A pid \in Pids : process[pid] \in [state : States, serial : Nat]
  BY DEF Announced
<1>3. \A pid \in Pids : process'[pid] \in [state : States, serial : Nat] /\ process'[pid].state # "zombie"
  BY <1>1, <1>2 DEF States
<1> QED
  BY <1>3 DEF ReapChildren, Pidded

\* No step of the parent makes a zombie, and it clears no signal.
LEMMA ParentAnnounced ==
  ASSUME Announced, Parent
  PROVE  Announced'
<1>1. CASE Poll
  BY <1>1, SameProcesses DEF Poll
<1>2. CASE Check
  <2>1. \A pid \in Pids : process'[pid] \in [state : States, serial : Nat]
    BY <1>2 DEF Check, Announced, States
  <2>2. \A pid \in Pids : process'[pid].state = "zombie" => process[pid].state = "zombie"
    BY <1>2 DEF Check, Announced, States
  <2> QED
    BY <1>2, <2>1, <2>2 DEF Check, Announced, ZombiesAnnounced, Pidded
<1>3. CASE Reap
  <2>1. CASE children = <<>>
    BY <1>3, <2>1, SameProcesses DEF Reap
  <2>2. CASE children # <<>>
    <3>1. ReapChildren
      BY <1>3, <2>2 DEF Reap
    <3> QED
      BY <1>3, <3>1, ReapsAll DEF Reap, Announced, ZombiesAnnounced
  <2> QED
    BY <2>1, <2>2
<1>4. CASE Wait
  BY <1>4, SameProcesses DEF Wait
<1>5. CASE Accept
  BY <1>5, SameProcesses DEF Accept
<1>6. CASE Fork
  <2>1. forks' \in Nat
    BY <1>6 DEF Fork, Announced
  <2>2. process' \in [Pids -> [state : States, serial : Nat]]
    BY <1>6, <2>1 DEF Fork, Announced, States
  <2>3. \A pid \in Pids : process'[pid].state = "zombie" => process[pid].state = "zombie"
    BY <1>6 DEF Fork, Announced, States
  <2> QED
    BY <1>6, <2>1, <2>2, <2>3 DEF Fork, Announced, ZombiesAnnounced, Pidded
<1>7. CASE AddChild
  BY <1>7, SameProcesses DEF AddChild
<1> QED
  BY <1>1, <1>2, <1>3, <1>4, <1>5, <1>6, <1>7 DEF Parent

\* Of the system's steps, those of one process.
LEMMA OneAnnounced ==
  ASSUME Announced, NEW pid \in Pids, Exits(pid) \/ Killed(pid) \/ Take(pid) \/ Gone(pid)
  PROVE  Announced'
<1>1. CASE Exits(pid) \/ Killed(pid)
  <2>1. Die(pid)
    BY <1>1 DEF Exits, Killed
  <2> QED
    BY <2>1 DEF Die, Announced, ZombiesAnnounced, States
<1>2. CASE Take(pid) \/ Gone(pid)
  <2>1. process' \in [Pids -> [state : States, serial : Nat]]
    BY <1>2 DEF Take, Gone, Announced, States
  <2>2. \A q \in Pids : process'[q].state = "zombie" => process[q].state = "zombie"
    BY <1>2 DEF Take, Gone, Announced, States
  <2> QED
    BY <1>2, <2>1, <2>2 DEF Take, Gone, Announced, ZombiesAnnounced, Pidded
<1> QED
  BY <1>1, <1>2

\* A child that has died is waited for, or its SIGCHLD is yet to be handled: a
\* signal that stands for several deaths, or comes while the parent counts its
\* children, loses none.
THEOREM DeathsNoticed == Spec => []ZombiesAnnounced
<1>1. Init => Announced
  BY InitAnnounced
<1>2. Announced /\ [Next]_vars => Announced'
  <2> SUFFICES ASSUME Announced, [Next]_vars PROVE Announced'
    OBVIOUS
  <2>1. CASE Parent
    BY <2>1, ParentAnnounced
  <2>2. CASE Handler
    BY <2>2, ReapsAll DEF Handler, Announced, ZombiesAnnounced
  <2>3. CASE Arrive \/ Leave
    BY <2>3, SameProcesses DEF Arrive, Leave
  <2>4. ASSUME NEW i \in DOMAIN children, Late(i) PROVE Announced'
    BY <2>4, SameProcesses DEF Late
  <2>5. ASSUME NEW pid \in Pids, Exits(pid) \/ Killed(pid) \/ Take(pid) \/ Gone(pid) PROVE Announced'
    BY <2>5, OneAnnounced
  <2>6. CASE UNCHANGED vars
    BY <2>6, SameProcesses DEF vars
  <2> QED
    BY <2>1, <2>2, <2>3, <2>4, <2>5, <2>6 DEF Next
<1>3. Announced => ZombiesAnnounced
  BY DEF Announced
<1> QED
  BY <1>1, <1>2, <1>3, PTL DEF Spec


-----------------------------------------------------------------------------
(* The table *)

\* A set of numbers has a least one.
LEMMA Least ==
  ASSUME NEW T \in SUBSET Nat, T # {}
  PROVE  \E x \in T : \A y \in T : x <= y
<1>1. PICK x \in T : \A y \in T : <<y, x>> \notin OpToRel(<, Nat)
  BY WFMin, NatLessThanWellFounded
<1>2. \A y, z \in Nat : y < z => <<y, z>> \in OpToRel(<, Nat)
  BY DEF OpToRel
<1>3. \A y \in T : ~ y < x
  BY <1>1, <1>2
<1> QED BY <1>3

\* What Find says of a table.
First(table, pid, k) ==
  /\ k = 0 => \A i \in DOMAIN table : table[i].pid # pid
  /\ k # 0 => /\ k \in DOMAIN table /\ table[k].pid = pid
              /\ \A i \in DOMAIN table : i < k => table[i].pid # pid

\* find_child finds the first entry that has the pid.
LEMMA FindsFirst ==
  ASSUME NEW table \in Seq(Child), NEW pid
  PROVE  First(table, pid, Find(table, pid))
<1> DEFINE I == {i \in 1..Len(table) : table[i].pid = pid}
<1>1. Find(table, pid) = IF I # {} THEN Min(I) ELSE 0
  BY DEF Find, SelectInSeq
<1>2. DOMAIN table = 1..Len(table)
  OBVIOUS
<1>3. CASE I = {}
  BY <1>1, <1>2, <1>3 DEF First
<1>4. CASE I # {}
  <2>0. I \in SUBSET Nat
    OBVIOUS
  <2> HIDE DEF I
  <2>1. \E x \in I : \A y \in I : x <= y
    BY <1>4, <2>0, Least
  <2>2. Min(I) \in I /\ \A y \in I : Min(I) <= y
    BY <2>1 DEF Min
  <2>3. Find(table, pid) = Min(I)
    BY <1>1, <1>4
  <2> DEFINE k == Find(table, pid)
  <2>4. k \in I /\ \A y \in I : k <= y
    BY <2>2, <2>3
  <2> HIDE DEF k
  <2>5. k \in 1..Len(table) /\ table[k].pid = pid
    BY <2>4 DEF I
  <2>6. \A i \in 1..Len(table) : i < k => table[i].pid # pid
    BY <2>4, <2>5 DEF I
  <2> QED BY <1>2, <2>5, <2>6 DEF First, k
<1> QED BY <1>3, <1>4

\* Where an element was before the one at k was taken out.
Was(k, i) == IF i < k THEN i ELSE i + 1

\* A sequence without the element at k.
LEMMA RemovesOne ==
  ASSUME NEW S, NEW s \in Seq(S), NEW k \in 1..Len(s)
  PROVE  /\ RemoveAt(s, k) \in Seq(S)
         /\ DOMAIN RemoveAt(s, k) = 1..(Len(s) - 1)
         /\ \A i \in 1..(Len(s) - 1) : RemoveAt(s, k)[i] = s[Was(k, i)]
<1> DEFINE low  == SubSeq(s, 1, k - 1)
           high == SubSeq(s, k + 1, Len(s))
<1>1. k \in Nat /\ Len(s) \in Nat /\ 1 <= k /\ k <= Len(s) /\ k - 1 \in Int /\ k + 1 \in Int
  OBVIOUS
<1>2. \A i \in 1..Len(s) : s[i] \in S
  OBVIOUS
<1>3. /\ low \in Seq(S) /\ Len(low) = k - 1
      /\ \A i \in 1..(k - 1) : low[i] = s[i]
  <2>1. \A i \in 1..(k - 1) : s[i] \in S
    BY <1>1, <1>2
  <2>2. /\ low \in Seq(S) /\ Len(low) = IF 1 <= k - 1 THEN (k - 1) - 1 + 1 ELSE 0
        /\ \A i \in 1..((k - 1) - 1 + 1) : low[i] = s[1 + i - 1]
    BY <1>1, <2>1, SubSeqProperties
  <2> QED BY <1>1, <2>2
<1>4. /\ high \in Seq(S) /\ Len(high) = Len(s) - k
      /\ \A i \in 1..(Len(s) - k) : high[i] = s[k + i]
  <2>1. \A i \in (k + 1)..Len(s) : s[i] \in S
    BY <1>1, <1>2
  <2>2. /\ high \in Seq(S) /\ Len(high) = IF k + 1 <= Len(s) THEN Len(s) - (k + 1) + 1 ELSE 0
        /\ \A i \in 1..(Len(s) - (k + 1) + 1) : high[i] = s[k + 1 + i - 1]
    BY <1>1, <2>1, SubSeqProperties
  <2> QED BY <1>1, <2>2
<1> HIDE DEF low, high
<1>5. RemoveAt(s, k) = low \o high
  BY DEF RemoveAt, low, high
<1>6. /\ low \o high \in Seq(S) /\ Len(low \o high) = Len(low) + Len(high)
      /\ \A i \in 1..(Len(low) + Len(high)) :
           (low \o high)[i] = IF i <= Len(low) THEN low[i] ELSE high[i - Len(low)]
  BY <1>3, <1>4, ConcatProperties
<1>7. Len(low) + Len(high) = Len(s) - 1
  BY <1>1, <1>3, <1>4
<1>8. ASSUME NEW i \in 1..(Len(s) - 1) PROVE (low \o high)[i] = s[Was(k, i)]
  <2>1. CASE i < k
    BY <1>1, <1>3, <1>6, <1>7, <2>1 DEF Was
  <2>2. CASE ~(i < k)
    <3>1. i - (k - 1) \in 1..(Len(s) - k) /\ k + (i - (k - 1)) = i + 1
      BY <1>1, <2>2
    <3>2. (low \o high)[i] = high[i - (k - 1)]
      BY <1>1, <1>3, <1>6, <1>7, <2>2
    <3> QED BY <1>4, <2>2, <3>1, <3>2 DEF Was
  <2> QED BY <2>1, <2>2
<1> QED BY <1>5, <1>6, <1>7, <1>8

\* What a table is of one that only ended entries have been taken out of.
Weeded(table, rest) ==
  /\ rest \in Seq(Child) /\ InOrder(rest)
  /\ \A i \in DOMAIN rest : \E j \in DOMAIN table : rest[i] = table[j]
  /\ \A j \in DOMAIN table : ~table[j].ended => \E i \in DOMAIN rest : rest[i] = table[j]

\* Nothing taken out.
LEMMA WeededSame ==
  ASSUME NEW table \in Seq(Child), InOrder(table)
  PROVE  Weeded(table, table)
BY DEF Weeded

\* Some taken out, and then some more.
LEMMA WeededTwice ==
  ASSUME NEW table, NEW some, NEW rest, Weeded(table, some), Weeded(some, rest)
  PROVE  Weeded(table, rest)
<1>1. rest \in Seq(Child) /\ InOrder(rest)
  BY DEF Weeded
<1>2. ASSUME NEW i \in DOMAIN rest PROVE \E j \in DOMAIN table : rest[i] = table[j]
  <2>1. PICK k \in DOMAIN some : rest[i] = some[k]
    BY DEF Weeded
  <2>2. PICK j \in DOMAIN table : some[k] = table[j]
    BY DEF Weeded
  <2> QED BY <2>1, <2>2
<1>3. ASSUME NEW j \in DOMAIN table, ~table[j].ended PROVE \E i \in DOMAIN rest : rest[i] = table[j]
  <2>1. PICK k \in DOMAIN some : some[k] = table[j]
    BY <1>3 DEF Weeded
  <2>2. PICK i \in DOMAIN rest : rest[i] = some[k]
    BY <1>3, <2>1 DEF Weeded
  <2> QED BY <2>1, <2>2
<1> QED BY <1>1, <1>2, <1>3 DEF Weeded

\* One that has ended taken out: the others are in the order they were in.
LEMMA WeededOne ==
  ASSUME NEW table \in Seq(Child), InOrder(table), NEW k \in DOMAIN table, table[k].ended
  PROVE  Weeded(table, RemoveAt(table, k))
<1> DEFINE rest == RemoveAt(table, k)
           n == Len(table)
<1>1. n \in Nat /\ DOMAIN table = 1..n /\ k \in 1..n
  OBVIOUS
<1>2. /\ rest \in Seq(Child) /\ DOMAIN rest = 1..(n - 1)
      /\ \A i \in 1..(n - 1) : rest[i] = table[Was(k, i)]
  <2>1. k \in 1..Len(table)
    OBVIOUS
  <2>2. /\ RemoveAt(table, k) \in Seq(Child)
        /\ DOMAIN RemoveAt(table, k) = 1..(Len(table) - 1)
        /\ \A i \in 1..(Len(table) - 1) : RemoveAt(table, k)[i] = table[Was(k, i)]
    BY <2>1, RemovesOne
  <2> QED BY <2>2
<1> HIDE DEF rest, n
<1>3. \A i \in 1..(n - 1) : Was(k, i) \in 1..n
  BY <1>1 DEF Was
<1>4. \A i, j \in 1..(n - 1) : i < j => Was(k, i) < Was(k, j)
  BY <1>1 DEF Was
<1>5. ASSUME NEW i \in DOMAIN rest, NEW j \in DOMAIN rest, i < j
      PROVE  Before(rest[i], rest[j])
  <2>1. Was(k, i) \in DOMAIN table /\ Was(k, j) \in DOMAIN table /\ Was(k, i) < Was(k, j)
    BY <1>1, <1>2, <1>3, <1>4, <1>5
  <2>2. Before(table[Was(k, i)], table[Was(k, j)])
    BY <2>1 DEF InOrder
  <2> QED BY <1>2, <2>2
<1>6. ASSUME NEW i \in DOMAIN rest PROVE rest[i].killed => rest[i].late
  BY <1>1, <1>2, <1>3 DEF InOrder
<1>7. ASSUME NEW i \in DOMAIN rest PROVE \E j \in DOMAIN table : rest[i] = table[j]
  BY <1>1, <1>2, <1>3
<1>8. ASSUME NEW j \in DOMAIN table, ~table[j].ended PROVE \E i \in DOMAIN rest : rest[i] = table[j]
  <2>1. j # k
    BY <1>8
  <2>2. CASE j < k
    <3>1. j \in 1..(n - 1) /\ Was(k, j) = j
      BY <1>1, <2>2 DEF Was
    <3> QED BY <1>2, <3>1
  <2>3. CASE ~(j < k)
    <3>1. j - 1 \in 1..(n - 1) /\ Was(k, j - 1) = j
      BY <1>1, <2>1, <2>3 DEF Was
    <3> QED BY <1>2, <3>1
  <2> QED BY <2>2, <2>3
<1>9. InOrder(rest)
  BY <1>5, <1>6 DEF InOrder
<1> QED BY <1>2, <1>7, <1>8, <1>9 DEF Weeded, rest

\* delete_child, called for an entry that has ended, takes out one that has.
LEMMA DeletesEnded ==
  ASSUME NEW table \in Seq(Child), InOrder(table), NEW m \in DOMAIN table, table[m].ended
  PROVE  Weeded(table, Delete(table, table[m].pid))
<1> DEFINE k == Find(table, table[m].pid)
<1>1. First(table, table[m].pid, k)
  BY FindsFirst
<1>2. Delete(table, table[m].pid) = RemoveAt(table, k)
  BY DEF Delete
<1> HIDE DEF k
<1>3. k # 0
  BY <1>1 DEF First
<1>4. /\ k \in DOMAIN table /\ table[k].pid = table[m].pid
      /\ \A i \in DOMAIN table : i < k => table[i].pid # table[m].pid
  BY <1>1, <1>3 DEF First
<1>5. k = m \/ k < m
  <2>1. k \in 1..Len(table) /\ m \in 1..Len(table) /\ Len(table) \in Nat
    BY <1>4
  <2>2. ~(m < k)
    BY <1>4
  <2> QED BY <2>1, <2>2
<1>6. table[k].ended
  <2>1. CASE k = m
    BY <2>1
  <2>2. CASE k < m
    <3>1. Before(table[k], table[m])
      BY <1>4, <2>2 DEF InOrder
    <3> QED BY <1>4, <3>1 DEF Before
  <2> QED BY <1>5, <2>1, <2>2
<1> QED BY <1>2, <1>4, <1>6, WeededOne

\* One turn of the loop.
LEMMA WeedsAt ==
  ASSUME NEW table \in Seq(Child), InOrder(table), NEW i \in Nat, i # 0
  PROVE  Weeded(table, SweepAt(table, i))
<1>1. CASE i <= Len(table) /\ table[i].ended
  <2>1. i \in DOMAIN table
    BY <1>1
  <2>2. SweepAt(table, i) = Delete(table, table[i].pid)
    BY <1>1 DEF SweepAt
  <2> QED BY <1>1, <2>1, <2>2, DeletesEnded
<1>2. CASE ~(i <= Len(table) /\ table[i].ended)
  <2>1. SweepAt(table, i) = table
    BY <1>2 DEF SweepAt
  <2> QED BY <2>1, WeededSame
<1> QED BY <1>1, <1>2

\* The function that the loop computes, index by index.
Sweeps(f, table, n) ==
  f = [i \in 0..n |-> IF i = 0 THEN table ELSE SweepAt(f[i - 1], i)]

\* Up to no index, it is the table.
LEMMA SweepStarts ==
  ASSUME NEW table
  PROVE  \E f : Sweeps(f, table, 0)
<1> DEFINE f == [i \in 0..0 |-> table]
<1>1. f = [i \in 0..0 |-> IF i = 0 THEN table ELSE SweepAt(f[i - 1], i)]
  OBVIOUS
<1> QED BY <1>1 DEF Sweeps

\* And it is continued by one turn.
LEMMA SweepContinues ==
  ASSUME NEW table, NEW n \in Nat, NEW g, Sweeps(g, table, n)
  PROVE  \E f : Sweeps(f, table, n + 1)
<1> DEFINE f == [i \in 0..(n + 1) |-> IF i = 0 THEN table ELSE SweepAt(g[i - 1], i)]
<1>1. g = [i \in 0..n |-> IF i = 0 THEN table ELSE SweepAt(g[i - 1], i)]
  BY DEF Sweeps
<1>2. \A i \in 0..n : i \in 0..(n + 1)
  OBVIOUS
<1>3. \A i \in 0..n : f[i] = g[i]
  BY <1>1, <1>2
<1>4. \A i \in 0..(n + 1) : i # 0 => i - 1 \in 0..n
  OBVIOUS
<1> DEFINE h == [i \in 0..(n + 1) |-> IF i = 0 THEN table ELSE SweepAt(f[i - 1], i)]
<1>5. ASSUME NEW i \in 0..(n + 1) PROVE f[i] = h[i]
  <2>1. CASE i = 0
    BY <2>1
  <2>2. CASE i # 0
    <3>1. f[i - 1] = g[i - 1]
      BY <1>3, <1>4, <2>2
    <3> HIDE DEF f
    <3>2. h[i] = SweepAt(f[i - 1], i)
      BY <2>2
    <3>3. h[i] = SweepAt(g[i - 1], i)
      BY <3>1, <3>2
    <3>4. f[i] = SweepAt(g[i - 1], i)
      BY <2>2 DEF f
    <3> QED BY <3>3, <3>4
  <2> QED BY <2>1, <2>2
<1>6. f = h
  BY <1>5
<1> QED BY <1>6 DEF Sweeps

\* So there is one for every number of turns.
LEMMA SweepExists ==
  ASSUME NEW table, NEW n \in Nat
  PROVE  \E f : Sweeps(f, table, n)
<1> DEFINE T == {k \in Nat : ~ \E f : Sweeps(f, table, k)}
<1> SUFFICES ASSUME T # {} PROVE FALSE
  OBVIOUS
<1>1. PICK x \in T : \A y \in T : x <= y
  BY Least
<1>2. x # 0
  BY SweepStarts
<1>3. x - 1 \in Nat /\ x - 1 \notin T /\ (x - 1) + 1 = x
  BY <1>1, <1>2
<1>4. PICK g : Sweeps(g, table, x - 1)
  BY <1>3
<1>5. \E f : Sweeps(f, table, (x - 1) + 1)
  BY <1>3, <1>4, SweepContinues
<1> QED BY <1>3, <1>5

\* reap_children's loop takes out none but entries that have ended.
LEMMA SweptWeeds ==
  ASSUME NEW table \in Seq(Child), InOrder(table)
  PROVE  Weeded(table, Swept(table))
<1> DEFINE n == Len(table)
           f == CHOOSE g : Sweeps(g, table, n)
<1>1. n \in Nat
  OBVIOUS
<1>2. Swept(table) = f[n]
  BY DEF Swept, Sweeps
<1>3. Sweeps(f, table, n)
  BY <1>1, SweepExists
<1> HIDE DEF f, n
<1>4. \A i \in 0..n : f[i] = IF i = 0 THEN table ELSE SweepAt(f[i - 1], i)
  BY <1>3 DEF Sweeps
<1> DEFINE T == {k \in 0..n : ~ Weeded(table, f[k])}
<1>5. CASE T = {}
  BY <1>1, <1>2, <1>5
<1>6. CASE T # {}
  <2>1. T \in SUBSET Nat
    BY <1>1
  <2>2. PICK x \in T : \A y \in T : x <= y
    BY <1>6, <2>1, Least
  <2>3. x \in 0..n /\ ~ Weeded(table, f[x])
    BY <2>2
  <2>4. x # 0
    BY <1>4, <2>3, WeededSame
  <2>5. x - 1 \in 0..n /\ x - 1 \notin T /\ x \in Nat
    BY <1>1, <2>2, <2>3, <2>4
  <2>6. Weeded(table, f[x - 1])
    BY <2>5
  <2>7. f[x] = SweepAt(f[x - 1], x)
    BY <1>4, <2>3, <2>4
  <2>8. Weeded(f[x - 1], f[x])
    <3> DEFINE t == f[x - 1]
    <3>1. t \in Seq(Child) /\ InOrder(t)
      BY <2>6 DEF Weeded
    <3> HIDE DEF t
    <3>2. Weeded(t, SweepAt(t, x))
      BY <2>4, <2>5, <3>1, WeedsAt
    <3> QED BY <2>7, <3>2 DEF t
  <2> QED BY <2>3, <2>6, <2>8, WeededTwice
<1> QED BY <1>5, <1>6

-----------------------------------------------------------------------------
(* The table and the processes *)

ProcessesTyped == process \in [Pids -> [state : States, serial : Nat]]

\* What of the invariant is about the table and the processes alone.
TableInv ==
  /\ children \in Seq(Child)
  /\ ProcessesTyped
  /\ InOrder(children)
  /\ FreshAreOwn

\* The first of the entries with a pid is the one that is found.
LEMMA FoundFirst ==
  ASSUME NEW table \in Seq(Child), NEW k \in DOMAIN table,
         \A i \in DOMAIN table : i < k => table[i].pid # table[k].pid
  PROVE  Find(table, table[k].pid) = k
<1> DEFINE f == Find(table, table[k].pid)
<1>1. First(table, table[k].pid, f)
  BY FindsFirst
<1> HIDE DEF f
<1>2. f # 0
  BY <1>1 DEF First
<1>3. /\ f \in DOMAIN table /\ table[f].pid = table[k].pid
      /\ \A i \in DOMAIN table : i < f => table[i].pid # table[k].pid
  BY <1>1, <1>2 DEF First
<1>4. ~(k < f) /\ ~(f < k)
  BY <1>3
<1>5. f \in 1..Len(table) /\ k \in 1..Len(table) /\ Len(table) \in Nat
  BY <1>3
<1> QED BY <1>4, <1>5 DEF f

\* The entries of the zombies.
Found == {Find(children, pid) : pid \in Pidded("zombie")}

\* release_child notes that some entries have ended, each the first of its pid.
LEMMA ReleasedIs ==
  ASSUME children \in Seq(Child)
  PROVE  /\ Released \in Seq(Child)
         /\ DOMAIN Released = DOMAIN children
         /\ \A i \in DOMAIN children :
              Released[i] = IF i \in Found THEN [children[i] EXCEPT !.ended = TRUE] ELSE children[i]
         /\ \A i \in DOMAIN children : i \in Found =>
              \A j \in DOMAIN children : j < i => children[j].pid # children[i].pid
<1>1. Released =
        [i \in DOMAIN children |->
           IF i \in Found THEN [children[i] EXCEPT !.ended = TRUE] ELSE children[i]]
  BY DEF Released, Found
<1>2. DOMAIN children = 1..Len(children) /\ Len(children) \in Nat
  OBVIOUS
<1>3. \A i \in DOMAIN children : children[i] \in Child
  OBVIOUS
<1>4. \A i \in DOMAIN children : Released[i] \in Child
  BY <1>1, <1>3 DEF Child
<1>5. Released \in Seq(Child)
  BY <1>1, <1>2, <1>4
<1>6. ASSUME NEW i \in DOMAIN children, i \in Found, NEW j \in DOMAIN children, j < i
      PROVE  children[j].pid # children[i].pid
  <2>1. PICK pid \in Pidded("zombie") : i = Find(children, pid)
    BY <1>6 DEF Found
  <2>2. First(children, pid, i)
    BY <2>1, FindsFirst
  <2>3. i # 0
    BY <1>2, <1>6
  <2> QED BY <1>6, <2>2, <2>3 DEF First
<1> QED BY <1>1, <1>5, <1>6

\* That keeps the table in order.
LEMMA ReleasedInOrder ==
  ASSUME children \in Seq(Child), InOrder(children)
  PROVE  InOrder(Released)
<1> DEFINE released == Released
<1>1. /\ DOMAIN released = DOMAIN children
      /\ \A i \in DOMAIN children :
           released[i] = IF i \in Found THEN [children[i] EXCEPT !.ended = TRUE] ELSE children[i]
      /\ \A i \in DOMAIN children : i \in Found =>
           \A j \in DOMAIN children : j < i => children[j].pid # children[i].pid
  BY ReleasedIs
<1>2. \A i \in DOMAIN children : children[i] \in Child
  OBVIOUS
<1> HIDE DEF released
<1>3. \A i \in DOMAIN children :
        /\ released[i].pid = children[i].pid /\ released[i].killed = children[i].killed
        /\ released[i].late = children[i].late /\ released[i].fresh = children[i].fresh
        /\ children[i].ended => released[i].ended
        /\ released[i].ended => children[i].ended \/ i \in Found
  BY <1>1, <1>2 DEF Child
<1>4. ASSUME NEW i \in DOMAIN children, NEW j \in DOMAIN children, i < j
      PROVE  Before(released[i], released[j])
  <2>1. Before(children[i], children[j])
    BY <1>4 DEF InOrder
  <2>2. released[j].ended /\ released[j].pid = released[i].pid => released[i].ended
    <3>1. j \in Found => children[i].pid # children[j].pid
      BY <1>1, <1>4
    <3> QED BY <1>3, <2>1, <3>1 DEF Before
  <2> QED BY <1>3, <2>1, <2>2 DEF Before
<1>5. \A i \in DOMAIN children : released[i].killed => released[i].late
  BY <1>3 DEF InOrder
<1> QED BY <1>1, <1>4, <1>5 DEF InOrder, released

\* reap_children as a whole: what is left is in order, a fresh entry that has not
\* ended is its child's, and no entry of a running child is gone.
LEMMA Reaps ==
  ASSUME TableInv, ReapChildren
  PROVE  /\ TableInv'
         /\ \A pid \in Pids : process'[pid].state = "running" =>
              process[pid].state = "running" /\ (Listed(pid) => Listed(pid)')
<1>1. /\ children \in Seq(Child) /\ InOrder(children) /\ FreshAreOwn /\ ProcessesTyped
  BY DEF TableInv
<1>2. /\ Released \in Seq(Child) /\ DOMAIN Released = DOMAIN children
      /\ \A i \in DOMAIN children :
           Released[i] = IF i \in Found THEN [children[i] EXCEPT !.ended = TRUE] ELSE children[i]
  BY <1>1, ReleasedIs
<1>3. InOrder(Released)
  BY <1>1, ReleasedInOrder
<1>4. children' = Swept(Released)
  BY DEF ReapChildren
<1>5. Weeded(Released, children')
  BY <1>2, <1>3, <1>4, SweptWeeds
<1>6. \A pid \in Pids :
        process'[pid] = IF process[pid].state = "zombie" THEN [process[pid] EXCEPT !.state = "free"]
                        ELSE process[pid]
  BY DEF ReapChildren
<1>7. \A pid \in Pids : process[pid] \in [state : States, serial : Nat]
  BY <1>1 DEF ProcessesTyped
<1>8. ProcessesTyped'
  <2>1. \A pid \in Pids : process'[pid] \in [state : States, serial : Nat]
    BY <1>6, <1>7 DEF States
  <2> QED BY <2>1 DEF ReapChildren, ProcessesTyped
<1>9. children' \in Seq(Child) /\ InOrder(children')
  BY <1>5 DEF Weeded
<1>10. \A i \in DOMAIN children : children[i] \in Child
  BY <1>1
<1>11. \A i \in DOMAIN children : ~Released[i].ended => i \notin Found /\ Released[i] = children[i]
  BY <1>2, <1>10 DEF Child
<1>12. FreshAreOwn'
  <2> SUFFICES ASSUME NEW i \in DOMAIN children', children'[i].fresh, ~children'[i].ended
               PROVE  /\ children'[i].pid \in Pids
                      /\ process'[children'[i].pid] \in OfChild(children'[i].serial)
    BY DEF FreshAreOwn, OfChild
  <2>1. PICK j \in DOMAIN children : children'[i] = Released[j]
    BY <1>2, <1>5 DEF Weeded
  <2>2. j \notin Found /\ children'[i] = children[j]
    BY <1>11, <2>1
  <2>3. children[j].fresh /\ ~children[j].ended
    BY <2>2
  <2>4. children[j].pid \in Pids /\ process[children[j].pid] \in OfChild(children[j].serial)
    BY <1>1, <2>3 DEF FreshAreOwn
  <2>5. \A k \in DOMAIN children : k < j => children[k].pid # children[j].pid
    BY <1>1, <2>3 DEF InOrder, Before
  <2>6. Find(children, children[j].pid) = j
    BY <1>1, <2>5, FoundFirst
  <2>7. process[children[j].pid].state # "zombie"
    BY <2>2, <2>4, <2>6 DEF Found, Pidded
  <2>8. process'[children[j].pid] = process[children[j].pid]
    BY <1>6, <2>4, <2>7
  <2> QED BY <2>2, <2>4, <2>8
<1>13. ASSUME NEW pid \in Pids, process'[pid].state = "running"
       PROVE  process[pid].state = "running" /\ (Listed(pid) => Listed(pid)')
  <2>1. process[pid].state = "running"
    BY <1>6, <1>7, <1>13 DEF States
  <2>2. ASSUME Listed(pid) PROVE Listed(pid)'
    <3>1. PICK i \in DOMAIN children :
            children[i].pid = pid /\ ~children[i].killed /\ ~children[i].ended
      BY <2>2 DEF Listed
    <3>2. i \notin Found
      <4> SUFFICES ASSUME NEW q \in Pidded("zombie"), i = Find(children, q) PROVE FALSE
        BY DEF Found
      <4>1. First(children, q, i)
        BY <1>1, FindsFirst
      <4>2. i # 0
        BY <1>1
      <4> QED BY <2>1, <3>1, <4>1, <4>2 DEF First, Pidded
    <3>3. Released[i] = children[i]
      BY <1>2, <3>2
    <3>4. PICK j \in DOMAIN children' : children'[j] = Released[i]
      BY <1>2, <1>5, <3>1, <3>3 DEF Weeded
    <3> QED BY <3>1, <3>3, <3>4 DEF Listed
  <2> QED BY <2>1, <2>2
<1> QED BY <1>8, <1>9, <1>12, <1>13 DEF TableInv

-----------------------------------------------------------------------------
(* The invariant *)

\* The table is empty at first.
LEMMA InitTable == Init => IInv
<1> SUFFICES ASSUME Init PROVE IInv
  OBVIOUS
<1>1. TypeOK
  <2>1. process \in [Pids -> [state : States, serial : Nat]]
    BY DEF Init, States
  <2>2. children \in Seq(Child)
    BY DEF Init
  <2> QED BY <2>1, <2>2 DEF Init, TypeOK, Places
<1>2. InOrder(children) /\ FreshAreOwn
  BY DEF Init, InOrder, FreshAreOwn
<1>3. ChildrenListed
  BY DEF Init, ChildrenListed, Pidded
<1> QED BY <1>1, <1>2, <1>3 DEF IInv

\* What the invariant says of the table is what reap_children needs.
LEMMA TableOfInvariant ==
  ASSUME IInv
  PROVE  TableInv /\ TypeOK /\ ChildrenListed
BY DEF IInv, TableInv, ProcessesTyped, TypeOK

\* And of the types, what is left is simple.
LEMMA InvariantOfTable ==
  ASSUME TypeOK, TableInv, ChildrenListed
  PROVE  IInv
BY DEF IInv, TableInv

\* Steps that change neither the table nor the processes, and add no child.
LEMMA QuietStep ==
  ASSUME IInv, TypeOK', UNCHANGED <<children, process, new>>, pc = "add" => pc' = "add"
  PROVE  IInv'
BY DEF IInv, InOrder, FreshAreOwn, OfChild, ChildrenListed, Pidded, Listed

\* reap_children, by whomever it is called.
LEMMA ReapStep ==
  ASSUME IInv, ReapChildren, UNCHANGED new, pc = "add" => pc' = "add", TypeOK /\ TableInv' => TypeOK'
  PROVE  IInv'
<1>1. TableInv /\ TypeOK /\ ChildrenListed
  BY TableOfInvariant
<1>2. TableInv'
  BY <1>1, Reaps
<1>3. \A pid \in Pids : process'[pid].state = "running" =>
        process[pid].state = "running" /\ (Listed(pid) => Listed(pid)')
  BY <1>1, Reaps
<1>4. ASSUME NEW pid \in Pids, process'[pid].state = "running"
      PROVE  Listed(pid)' \/ (pc' = "add" /\ new' = pid)
  BY <1>1, <1>3, <1>4 DEF ChildrenListed, Pidded
<1>5. ChildrenListed'
  BY <1>4 DEF ChildrenListed, Pidded
<1> QED BY <1>1, <1>2, <1>5 DEF IInv, TableInv

\* check_child_timeouts, before it reaps: whoever runs has an entry that is not
\* yet due, or he would have been sent SIGKILL for it.
LEMMA CheckStep ==
  ASSUME IInv, Check
  PROVE  IInv'
<1> DEFINE n == Len(children)
<1>1. /\ children \in Seq(Child) /\ process \in [Pids -> [state : States, serial : Nat]]
      /\ InOrder(children) /\ FreshAreOwn /\ ChildrenListed /\ TypeOK
  BY DEF IInv, TypeOK
<1>2. DOMAIN children = 1..n /\ n \in Nat /\ \A i \in DOMAIN children : children[i] \in Child
  BY <1>1
<1> HIDE DEF n
<1>3. children' = [i \in DOMAIN children |-> Strike(children[i])]
  BY DEF Check
<1>4. DOMAIN children' = DOMAIN children /\ \A i \in DOMAIN children : children'[i] = Strike(children[i])
  BY <1>3
<1>5. \A child \in Child :
        /\ Strike(child) \in Child
        /\ Strike(child).pid = child.pid /\ Strike(child).serial = child.serial
        /\ Strike(child).fresh = child.fresh /\ Strike(child).late = child.late
        /\ Strike(child).killed = (child.killed \/ child.late)
        /\ Strike(child).ended = (child.ended \/ (child.late /\ child.killed))
  BY DEF Child, Strike
<1>6. children' \in Seq(Child)
  BY <1>2, <1>3, <1>5
<1>7. InOrder(children')
  <2>1. ASSUME NEW i \in DOMAIN children, NEW j \in DOMAIN children, i < j
        PROVE  Before(Strike(children[i]), Strike(children[j]))
    <3>1. Before(children[i], children[j])
      BY <1>1, <2>1 DEF InOrder
    <3>2. children[i].killed => children[i].late
      BY <1>1 DEF InOrder
    <3> QED BY <1>2, <1>5, <3>1, <3>2 DEF Before
  <2>2. ASSUME NEW i \in DOMAIN children PROVE Strike(children[i]).killed => Strike(children[i]).late
    <3>1. children[i].killed => children[i].late
      BY <1>1 DEF InOrder
    <3> QED BY <1>2, <1>5, <3>1
  <2> QED BY <1>4, <2>1, <2>2 DEF InOrder
<1>8. \A pid \in Pids :
        process'[pid] =
          IF pid \notin Victims /\ NoPid \notin Victims THEN process[pid]
          ELSE IF process[pid].state = "running" THEN [process[pid] EXCEPT !.state = "dying"]
          ELSE IF process[pid].state = "foreign" THEN [process[pid] EXCEPT !.state = "free"]
          ELSE process[pid]
  BY DEF Check
<1>9. \A pid \in Pids : process[pid] \in [state : States, serial : Nat]
  BY <1>1
<1>10. process' \in [Pids -> [state : States, serial : Nat]]
  <2>1. \A pid \in Pids : process'[pid] \in [state : States, serial : Nat]
    BY <1>8, <1>9 DEF States
  <2> QED BY <2>1 DEF Check
<1>11. ASSUME NEW pid \in Pids, NEW serial, process[pid] \in OfChild(serial)
       PROVE  process'[pid] \in OfChild(serial)
  BY <1>8, <1>9, <1>11 DEF OfChild
<1>12. FreshAreOwn'
  <2> SUFFICES ASSUME NEW i \in DOMAIN children', children'[i].fresh, ~children'[i].ended
               PROVE  /\ children'[i].pid \in Pids
                      /\ process'[children'[i].pid] \in OfChild(children'[i].serial)
    BY DEF FreshAreOwn, OfChild
  <2>1. i \in DOMAIN children /\ children[i].fresh /\ ~children[i].ended
    BY <1>2, <1>4, <1>5
  <2>2. children'[i].pid = children[i].pid /\ children'[i].serial = children[i].serial
    BY <1>2, <1>4, <1>5
  <2>3. children[i].pid \in Pids /\ process[children[i].pid] \in OfChild(children[i].serial)
    BY <1>1, <2>1 DEF FreshAreOwn
  <2> QED BY <1>11, <2>2, <2>3
<1>13. ASSUME NEW pid \in Pids, process'[pid].state = "running" PROVE Listed(pid)'
  <2>1. process[pid].state = "running" /\ pid \notin Victims
    BY <1>8, <1>9, <1>13 DEF States
  <2>2. Listed(pid)
    BY <1>1, <2>1 DEF ChildrenListed, Pidded, Check
  <2>3. PICK i \in DOMAIN children :
          children[i].pid = pid /\ ~children[i].killed /\ ~children[i].ended
    BY <2>2 DEF Listed
  <2>4. ~children[i].late
    BY <2>1, <2>3 DEF Victims, Struck
  <2>5. children'[i] = children[i]
    BY <1>4, <2>4 DEF Strike
  <2> QED BY <1>4, <2>3, <2>5 DEF Listed
<1>14. ChildrenListed'
  BY <1>13 DEF ChildrenListed, Pidded
<1>15. TypeOK'
  <2>1. /\ pc' = "reap" /\ sigchld' = sigchld /\ ready' = ready /\ waiting' = waiting
        /\ arrived' = arrived /\ forks' = forks /\ new' = new
    BY DEF Check, connections
  <2> QED BY <1>1, <1>6, <1>10, <2>1 DEF TypeOK, Places
<1> QED BY <1>7, <1>12, <1>14, <1>15 DEF IInv

\* fork(): the pid is nobody's, so that no fresh entry that has not ended has it.
LEMMA ForkStep ==
  ASSUME IInv, Fork
  PROVE  IInv'
<1>1. /\ TypeOK /\ InOrder(children) /\ FreshAreOwn /\ ChildrenListed
      /\ process \in [Pids -> [state : States, serial : Nat]] /\ forks \in Nat
  BY DEF IInv, TypeOK
<1>2. /\ pc = "fork" /\ pc' = "add" /\ forks' = forks + 1 /\ children' = children
      /\ sigchld' = sigchld /\ ready' = ready /\ waiting' = waiting /\ arrived' = arrived
  BY DEF Fork, connections
<1>3. InOrder(children')
  BY <1>1, <1>2
<1>4. CASE new' = NoPid /\ UNCHANGED process
  <2>1. TypeOK'
    BY <1>1, <1>2, <1>4 DEF TypeOK, Places
  <2>2. FreshAreOwn'
    BY <1>1, <1>2, <1>4 DEF FreshAreOwn, OfChild
  <2>3. ChildrenListed'
    BY <1>1, <1>2, <1>4 DEF ChildrenListed, Pidded, Listed
  <2> QED BY <1>3, <2>1, <2>2, <2>3 DEF IInv
<1>5. ASSUME NEW pid \in Pidded("free"), new' = pid,
             process' = [process EXCEPT ![pid] = [state |-> "running", serial |-> forks']]
      PROVE  IInv'
  <2>1. pid \in Pids /\ process[pid].state = "free"
    BY DEF Pidded
  <2>2. /\ process'[pid] = [state |-> "running", serial |-> forks']
        /\ \A q \in Pids : q # pid => process'[q] = process[q]
    BY <1>1, <1>5, <2>1
  <2>3. forks' \in Nat
    BY <1>1, <1>2
  <2>4. process' \in [Pids -> [state : States, serial : Nat]]
    BY <1>1, <1>5, <2>1, <2>3 DEF States
  <2>5. TypeOK'
    BY <1>1, <1>2, <1>5, <2>1, <2>3, <2>4 DEF TypeOK, Places
  <2>6. FreshAreOwn'
    <3> SUFFICES ASSUME NEW i \in DOMAIN children, children[i].fresh, ~children[i].ended
                 PROVE  /\ children[i].pid \in Pids
                        /\ process'[children[i].pid] \in OfChild(children[i].serial)
      BY <1>2 DEF FreshAreOwn, OfChild
    <3>1. children[i].pid \in Pids /\ process[children[i].pid] \in OfChild(children[i].serial)
      BY <1>1 DEF FreshAreOwn
    <3>2. children[i].pid # pid
      BY <2>1, <3>1 DEF OfChild
    <3> QED BY <2>2, <3>1, <3>2
  <2>7. ChildrenListed'
    <3> SUFFICES ASSUME NEW q \in Pids, process'[q].state = "running"
                 PROVE  Listed(q)' \/ (pc' = "add" /\ new' = q)
      BY DEF ChildrenListed, Pidded
    <3>1. CASE q = pid
      BY <1>2, <1>5, <3>1
    <3>2. CASE q # pid
      <4>1. Listed(q)
        BY <1>1, <1>2, <2>2, <3>2 DEF ChildrenListed, Pidded
      <4> QED BY <1>2, <4>1 DEF Listed
    <3> QED BY <3>1, <3>2
  <2> QED BY <1>3, <2>5, <2>6, <2>7 DEF IInv
<1> QED BY <1>4, <1>5 DEF Fork

\* add_child: the child has an entry, the last one.
LEMMA AddStep ==
  ASSUME IInv, AddChild
  PROVE  IInv'
<1> DEFINE fresh == /\ new # NoPid /\ process[new] \in OfChild(forks)
                    /\ \A i \in DOMAIN children : children[i].pid # new
           entry == [pid |-> new, killed |-> FALSE, late |-> FALSE, ended |-> FALSE,
                     serial |-> forks, fresh |-> fresh]
           n == Len(children)
<1>1. /\ TypeOK /\ InOrder(children) /\ FreshAreOwn /\ ChildrenListed
      /\ children \in Seq(Child) /\ forks \in Nat /\ new \in Pids \cup {NoPid}
  BY DEF IInv, TypeOK
<1>2. /\ pc = "add" /\ pc' = "poll" /\ children' = Append(children, entry)
      /\ process' = process /\ sigchld' = sigchld /\ ready' = ready /\ waiting' = waiting
      /\ arrived' = arrived /\ forks' = forks /\ new' = new
  BY DEF AddChild, connections
<1>3. fresh \in BOOLEAN
  OBVIOUS
<1>4. fresh => /\ new # NoPid /\ process[new] \in OfChild(forks)
               /\ \A i \in DOMAIN children : children[i].pid # new
  OBVIOUS
<1> HIDE DEF fresh
<1>5. /\ entry.pid = new /\ entry.serial = forks /\ entry.fresh = fresh
      /\ entry.killed = FALSE /\ entry.late = FALSE /\ entry.ended = FALSE
  OBVIOUS
<1>6. entry \in Child
  BY <1>1, <1>3 DEF Child
<1> HIDE DEF entry
<1>7. /\ children' \in Seq(Child) /\ DOMAIN children' = 1..(n + 1)
      /\ DOMAIN children = 1..n /\ n \in Nat
      /\ \A i \in 1..n : children'[i] = children[i]
      /\ children'[n + 1] = entry
  BY <1>1, <1>2, <1>6
<1> HIDE DEF n
<1>8. InOrder(children')
  <2>1. ASSUME NEW i \in 1..(n + 1), NEW j \in 1..(n + 1), i < j
        PROVE  Before(children'[i], children'[j])
    <3>1. i \in 1..n
      BY <1>7, <2>1
    <3>2. CASE j \in 1..n
      BY <1>1, <1>7, <2>1, <3>1, <3>2 DEF InOrder
    <3>3. CASE j = n + 1
      <4>1. children'[j] = entry /\ children'[i] = children[i]
        BY <1>7, <3>1, <3>3
      <4>2. fresh => children[i].pid # new
        BY <1>4, <1>7, <3>1
      <4> QED BY <1>5, <4>1, <4>2 DEF Before
    <3> QED BY <1>7, <3>2, <3>3
  <2>2. ASSUME NEW i \in 1..(n + 1) PROVE children'[i].killed => children'[i].late
    <3>1. CASE i \in 1..n
      BY <1>1, <1>7, <3>1 DEF InOrder
    <3>2. CASE i = n + 1
      BY <1>5, <1>7, <3>2
    <3> QED BY <1>7, <3>1, <3>2
  <2> QED BY <1>7, <2>1, <2>2 DEF InOrder
<1>9. FreshAreOwn'
  <2> SUFFICES ASSUME NEW i \in 1..(n + 1), children'[i].fresh, ~children'[i].ended
               PROVE  /\ children'[i].pid \in Pids
                      /\ process'[children'[i].pid] \in OfChild(children'[i].serial)
    BY <1>7 DEF FreshAreOwn, OfChild
  <2>1. CASE i \in 1..n
    BY <1>1, <1>2, <1>7, <2>1 DEF FreshAreOwn
  <2>2. CASE i = n + 1
    <3>1. fresh
      BY <1>5, <1>7, <2>2
    <3> QED BY <1>1, <1>2, <1>4, <1>5, <1>7, <2>2, <3>1
  <2> QED BY <1>7, <2>1, <2>2
<1>10. ChildrenListed'
  <2> SUFFICES ASSUME NEW pid \in Pids, process[pid].state = "running" PROVE Listed(pid)'
    BY <1>2 DEF ChildrenListed, Pidded
  <2>1. CASE new = pid
    <3>1. n + 1 \in DOMAIN children'
      BY <1>7
    <3>2. /\ children'[n + 1].pid = pid
          /\ ~children'[n + 1].killed /\ ~children'[n + 1].ended
      BY <1>5, <1>7, <2>1
    <3> QED BY <3>1, <3>2 DEF Listed
  <2>2. CASE new # pid
    <3>1. Listed(pid)
      BY <1>1, <2>2 DEF ChildrenListed, Pidded
    <3>2. PICK i \in 1..n : children[i].pid = pid /\ ~children[i].killed /\ ~children[i].ended
      BY <1>7, <3>1 DEF Listed
    <3>3. i \in DOMAIN children' /\ children'[i] = children[i]
      BY <1>7
    <3> QED BY <3>2, <3>3 DEF Listed
  <2> QED BY <2>1, <2>2
<1>11. TypeOK'
  BY <1>1, <1>2, <1>7 DEF TypeOK, Places
<1> QED BY <1>8, <1>9, <1>10, <1>11 DEF IInv

\* Time: the first of the entries that are not late becomes so.
LEMMA LateStep ==
  ASSUME IInv, NEW k \in DOMAIN children, Late(k)
  PROVE  IInv'
<1>1. /\ TypeOK /\ InOrder(children) /\ FreshAreOwn /\ ChildrenListed /\ children \in Seq(Child)
  BY DEF IInv, TypeOK
<1>2. /\ \A j \in 1..(k - 1) : children[j].late
      /\ children' = [children EXCEPT ![k].late = TRUE]
      /\ process' = process /\ sigchld' = sigchld /\ ready' = ready /\ waiting' = waiting
      /\ arrived' = arrived /\ forks' = forks /\ new' = new /\ pc' = pc
  BY DEF Late, connections
<1>3. \A i \in DOMAIN children : children[i] \in Child
  BY <1>1
<1>4. /\ DOMAIN children' = DOMAIN children
      /\ \A i \in DOMAIN children :
           children'[i] = IF i = k THEN [children[i] EXCEPT !.late = TRUE] ELSE children[i]
  BY <1>2
<1>5. \A i \in DOMAIN children :
        /\ children'[i] \in Child
        /\ children'[i].pid = children[i].pid /\ children'[i].serial = children[i].serial
        /\ children'[i].fresh = children[i].fresh /\ children'[i].killed = children[i].killed
        /\ children'[i].ended = children[i].ended
        /\ children'[i].late = (children[i].late \/ i = k)
  BY <1>3, <1>4 DEF Child
<1>6. children' \in Seq(Child)
  <2>1. DOMAIN children' = 1..Len(children) /\ Len(children) \in Nat
    BY <1>1, <1>4
  <2>2. children' = [i \in DOMAIN children |->
          IF i = k THEN [children[i] EXCEPT !.late = TRUE] ELSE children[i]]
    BY <1>2
  <2>3. \A i \in DOMAIN children :
          (IF i = k THEN [children[i] EXCEPT !.late = TRUE] ELSE children[i]) \in Child
    BY <1>3 DEF Child
  <2> QED BY <1>4, <2>1, <2>2, <2>3
<1>7. InOrder(children')
  <2>1. ASSUME NEW i \in DOMAIN children, NEW j \in DOMAIN children, i < j
        PROVE  Before(children'[i], children'[j])
    <3>1. Before(children[i], children[j])
      BY <1>1, <2>1 DEF InOrder
    <3>2. j = k => children[i].late
      <4>1. i \in 1..Len(children) /\ k \in 1..Len(children) /\ Len(children) \in Nat
        BY <1>1
      <4>2. j = k => i \in 1..(k - 1)
        BY <2>1, <4>1
      <4> QED BY <1>2, <4>2
    <3> QED BY <1>5, <3>1, <3>2 DEF Before
  <2>2. \A i \in DOMAIN children : children'[i].killed => children'[i].late
    BY <1>1, <1>5 DEF InOrder
  <2> QED BY <1>4, <2>1, <2>2 DEF InOrder
<1>8. FreshAreOwn'
  BY <1>1, <1>2, <1>4, <1>5 DEF FreshAreOwn, OfChild
<1>9. \A pid \in Pids : Listed(pid) => Listed(pid)'
  BY <1>4, <1>5 DEF Listed
<1>10. ChildrenListed'
  BY <1>1, <1>2, <1>9 DEF ChildrenListed, Pidded
<1>11. TypeOK'
  BY <1>1, <1>2, <1>6 DEF TypeOK
<1> QED BY <1>7, <1>8, <1>10, <1>11 DEF IInv

\* A process dies, or a pid is taken by another program's or given up by it: a
\* child that has not been waited for keeps its pid.
LEMMA OneStep ==
  ASSUME IInv, NEW pid \in Pids, Exits(pid) \/ Killed(pid) \/ Take(pid) \/ Gone(pid)
  PROVE  IInv'
<1>1. /\ TypeOK /\ InOrder(children) /\ FreshAreOwn /\ ChildrenListed
      /\ process \in [Pids -> [state : States, serial : Nat]]
  BY DEF IInv, TypeOK
<1>2. /\ children' = children /\ pc' = pc /\ ready' = ready /\ waiting' = waiting
      /\ arrived' = arrived /\ forks' = forks /\ new' = new
  BY DEF Exits, Killed, Die, Take, Gone, connections
<1>3. sigchld' \in BOOLEAN
  BY <1>1 DEF Exits, Killed, Die, Take, Gone, TypeOK
<1>4. /\ process' \in [Pids -> [state : States, serial : Nat]]
      /\ \A q \in Pids : \A serial : process[q] \in OfChild(serial) => process'[q] \in OfChild(serial)
      /\ \A q \in Pids : process'[q].state = "running" => process[q].state = "running"
  <2>1. CASE Exits(pid) \/ Killed(pid)
    <3>1. process' = [process EXCEPT ![pid].state = "zombie"]
      BY <2>1 DEF Exits, Killed, Die
    <3>2. \A q \in Pids : process[q] \in [state : States, serial : Nat]
      BY <1>1
    <3>3. \A q \in Pids :
            process'[q] = IF q = pid THEN [process[q] EXCEPT !.state = "zombie"] ELSE process[q]
      BY <1>1, <3>1
    <3>4. process' \in [Pids -> [state : States, serial : Nat]]
      BY <1>1, <3>1 DEF States
    <3> QED BY <3>2, <3>3, <3>4 DEF OfChild
  <2>2. CASE Take(pid)
    <3>1. /\ process[pid].state = "free"
          /\ process' = [process EXCEPT ![pid] = [state |-> "foreign", serial |-> 0]]
      BY <2>2 DEF Take
    <3>2. process' \in [Pids -> [state : States, serial : Nat]]
      BY <1>1, <3>1 DEF States
    <3>3. \A q \in Pids :
            process'[q] = IF q = pid THEN [state |-> "foreign", serial |-> 0] ELSE process[q]
      BY <1>1, <3>1
    <3> QED BY <3>1, <3>2, <3>3 DEF OfChild
  <2>3. CASE Gone(pid)
    <3>1. /\ process[pid].state = "foreign"
          /\ process' = [process EXCEPT ![pid].state = "free"]
      BY <2>3 DEF Gone
    <3>2. \A q \in Pids : process[q] \in [state : States, serial : Nat]
      BY <1>1
    <3>3. process' \in [Pids -> [state : States, serial : Nat]]
      BY <1>1, <3>1 DEF States
    <3>4. \A q \in Pids :
            process'[q] = IF q = pid THEN [process[q] EXCEPT !.state = "free"] ELSE process[q]
      BY <1>1, <3>1
    <3> QED BY <3>1, <3>2, <3>3, <3>4 DEF OfChild
  <2> QED BY <2>1, <2>2, <2>3
<1>5. InOrder(children')
  BY <1>1, <1>2
<1>6. FreshAreOwn'
  <2> SUFFICES ASSUME NEW i \in DOMAIN children, children[i].fresh, ~children[i].ended
               PROVE  /\ children[i].pid \in Pids
                      /\ process'[children[i].pid] \in OfChild(children[i].serial)
    BY <1>2 DEF FreshAreOwn, OfChild
  <2>1. children[i].pid \in Pids /\ process[children[i].pid] \in OfChild(children[i].serial)
    BY <1>1 DEF FreshAreOwn
  <2> QED BY <1>4, <2>1
<1>7. ChildrenListed'
  BY <1>1, <1>2, <1>4 DEF ChildrenListed, Pidded, Listed
<1>8. TypeOK'
  BY <1>1, <1>2, <1>3, <1>4 DEF TypeOK
<1> QED BY <1>5, <1>6, <1>7, <1>8 DEF IInv

\* Every step keeps the table as it must be.
LEMMA StepTable == IInv /\ [Next]_vars => IInv'
<1> SUFFICES ASSUME IInv, [Next]_vars PROVE IInv'
  OBVIOUS
<1>1. TypeOK
  BY DEF IInv
<1>2. CASE Poll
  <2>1. TypeOK'
    BY <1>1, <1>2 DEF Poll, TypeOK, Places, connections
  <2> QED BY <1>2, <2>1, QuietStep DEF Poll
<1>3. CASE Check
  BY <1>3, CheckStep
<1>4. CASE Reap
  <2>1. /\ pc = "reap" /\ pc' \in Places /\ sigchld' = sigchld /\ ready' = ready
        /\ waiting' = waiting /\ arrived' = arrived /\ forks' = forks /\ new' = new
    BY <1>4 DEF Reap, Places, connections
  <2>2. TypeOK /\ TableInv' => TypeOK'
    BY <2>1 DEF TypeOK, TableInv, ProcessesTyped
  <2>3. CASE children = <<>>
    <3>1. UNCHANGED <<children, process>>
      BY <1>4, <2>3 DEF Reap
    <3>2. TypeOK'
      BY <1>1, <2>1, <3>1 DEF TypeOK
    <3> QED BY <2>1, <3>1, <3>2, QuietStep
  <2>4. CASE children # <<>>
    <3>1. ReapChildren
      BY <1>4, <2>4 DEF Reap
    <3> QED BY <2>1, <2>2, <3>1, ReapStep
  <2> QED BY <2>3, <2>4
<1>5. CASE Wait
  <2>1. TypeOK'
    BY <1>1, <1>5 DEF Wait, TypeOK, Places, connections
  <2> QED BY <1>5, <2>1, QuietStep DEF Wait
<1>6. CASE Accept
  <2>1. TypeOK'
    BY <1>1, <1>6 DEF Accept, TypeOK, Places
  <2> QED BY <1>6, <2>1, QuietStep DEF Accept
<1>7. CASE Fork
  BY <1>7, ForkStep
<1>8. CASE AddChild
  BY <1>8, AddStep
<1>9. CASE Handler
  <2>1. /\ ReapChildren /\ sigchld' = FALSE /\ pc' = pc /\ ready' = ready
        /\ waiting' = waiting /\ arrived' = arrived /\ forks' = forks /\ new' = new
    BY <1>9 DEF Handler, connections
  <2>2. TypeOK /\ TableInv' => TypeOK'
    BY <2>1 DEF TypeOK, TableInv, ProcessesTyped
  <2> QED BY <2>1, <2>2, ReapStep
<1>10. CASE Arrive
  <2>1. TypeOK'
    BY <1>1, <1>10 DEF Arrive, TypeOK
  <2> QED BY <1>10, <2>1, QuietStep DEF Arrive
<1>11. CASE Leave
  <2>1. TypeOK'
    BY <1>1, <1>11 DEF Leave, TypeOK
  <2> QED BY <1>11, <2>1, QuietStep DEF Leave
<1>12. ASSUME NEW i \in DOMAIN children, Late(i) PROVE IInv'
  BY <1>12, LateStep
<1>13. ASSUME NEW pid \in Pids, Exits(pid) \/ Killed(pid) \/ Take(pid) \/ Gone(pid) PROVE IInv'
  BY <1>13, OneStep
<1>14. CASE UNCHANGED vars
  <2>1. TypeOK'
    BY <1>1, <1>14 DEF vars, TypeOK
  <2> QED BY <1>14, <2>1, QuietStep DEF vars
<1> QED
  BY <1>2, <1>3, <1>4, <1>5, <1>6, <1>7, <1>8, <1>9, <1>10, <1>11, <1>12, <1>13, <1>14
     DEF Next, Parent

\* The table is in order and lists every running child, as one that has not ended
\* and that the server has yet to kill, whatever dies and whenever SIGCHLD comes:
\* neither a pid that is used again, nor the sweep that passes over entries, makes
\* delete_child take the entry of a child that runs.
THEOREM NoneForgotten == Spec => []IInv
<1> QED BY InitTable, StepTable, PTL DEF Spec

\* Whom a fresh entry that has not ended is killed for is its own child.
LEMMA StruckIsOwn ==
  ASSUME IInv, NEW i \in Struck, children[i].fresh, ~children[i].ended
  PROVE  process[children[i].pid] \in OfChild(children[i].serial)
BY DEF IInv, FreshAreOwn, Struck

\* check_child_timeouts kills nobody for an entry but the child it was made for,
\* where the entry was made in time, with no other of its pid, and has not ended.
THEOREM OwnChildKilled == Spec => KillsItsChild
<1> DEFINE A == pc = "check" /\ pc' = "reap" =>
                  \A i \in Struck : children[i].fresh /\ ~children[i].ended =>
                    process[children[i].pid] \in OfChild(children[i].serial)
<1>1. IInv => [A]_vars
  BY StruckIsOwn
<1> HIDE DEF A
<1>2. KillsItsChild <=> [][A]_vars
  BY DEF KillsItsChild, A
<1> QED BY <1>1, <1>2, NoneForgotten, PTL

-----------------------------------------------------------------------------
(* The locks of the logs *)

\* A call to be made is one, and waits for a lock unless it has nothing to log,
\* which is so only of shutdown_cleanly.
LEMMA EnterType ==
  ASSUME NEW of \in {"main", "CHLD", "HUP", "TERM"}, NEW todo \in Seq(Kinds)
  PROVE  /\ Enter(of, todo) \in Call
         /\ todo = <<>> => Enter(of, todo).at = "exit"
         /\ Enter(of, todo).at \in {"lock", "exit"}
         /\ Enter(of, todo).todo = todo /\ Enter(of, todo).of = of
BY DEF Enter, Call

\* The last of what there is to log.
LEMMA TailOne ==
  ASSUME NEW S, NEW todo \in Seq(S), Len(todo) # 0, Tail(todo) = <<>>
  PROVE  Len(todo) = 1
<1>1. Len(todo) \in Nat
  BY LenProperties
<1>2. todo # <<>>
  BY EmptySeq
<1>3. Len(Tail(todo)) = Len(todo) - 1
  BY <1>2, HeadTailProperties
<1>4. Len(Tail(todo)) = 0
  BY EmptySeq
<1> QED
  BY <1>1, <1>3, <1>4

\* The calls of a process: each has something to log, or is a shutdown at its end.
Stack(s) ==
  /\ s \in Seq(Call)
  /\ \A i \in DOMAIN s : s[i].todo = <<>> => s[i].at = "exit" /\ s[i].of = "TERM"

\* No call at all.
LEMMA StackEmpty == Stack(<<>>)
BY DEF Stack

\* Another call on top of the others, or in the place of the top.
LEMMA StackAppend ==
  ASSUME NEW s, Stack(s), NEW c \in Call, c.todo = <<>> => c.at = "exit" /\ c.of = "TERM"
  PROVE  /\ Stack(Append(s, c)) /\ Len(Append(s, c)) = Len(s) + 1
         /\ \A i \in DOMAIN s : Append(s, c)[i] = s[i]
BY DEF Stack

\* The calls below the top.
LEMMA StackRest ==
  ASSUME NEW s, Stack(s), s # <<>>
  PROVE  /\ Stack(SubSeq(s, 1, Len(s) - 1)) /\ Len(s) \in DOMAIN s /\ s[Len(s)] \in Call
         /\ Len(SubSeq(s, 1, Len(s) - 1)) = Len(s) - 1
         /\ \A i \in 1 .. Len(s) - 1 : SubSeq(s, 1, Len(s) - 1)[i] = s[i]
<1> DEFINE rest == SubSeq(s, 1, Len(s) - 1)
<1>1. s \in Seq(Call) /\ Len(s) \in Nat \ {0} /\ DOMAIN s = 1..Len(s)
  BY DEF Stack
<1>2. \A i \in DOMAIN s : s[i] \in Call
  BY <1>1
<1>3. \A i \in 1 .. Len(s) - 1 : s[i] \in Call
  BY <1>1, <1>2
<1>4. rest = [i \in 1 .. Len(s) - 1 |-> s[i]]
  BY <1>1
<1>5. Len(s) - 1 \in Nat
  BY <1>1
<1>6. rest \in Seq(Call) /\ Len(rest) = Len(s) - 1
  BY <1>1, <1>5, SubSeqProperties
<1>7. \A i \in DOMAIN rest : i \in DOMAIN s /\ rest[i] = s[i]
  BY <1>1, <1>4
<1>8. Stack(rest)
  BY <1>6, <1>7 DEF Stack
<1>9. Len(s) \in DOMAIN s /\ s[Len(s)] \in Call
  BY <1>1, <1>2
<1>10. \A i \in 1 .. Len(s) - 1 : rest[i] = s[i]
  BY <1>4
<1> QED
  BY <1>6, <1>8, <1>9, <1>10

\* A lock is in use by the top of the calls, or by one below it.
Using(s, f) == \E i \in DOMAIN s : s[i].at \in {"write", "unlock"} /\ File(s[i]) = f

\* A call more leaves the others the locks they use.
LEMMA UsingAppend ==
  ASSUME NEW s, Stack(s), NEW c \in Call, NEW f, Using(s, f)
  PROVE  Using(Append(s, c), f)
BY DEF Stack, Using

\* Without the top, the others use the locks they used: all but the top's.
LEMMA UsingRest ==
  ASSUME NEW s, Stack(s), s # <<>>, NEW f, Using(s, f), f # File(s[Len(s)]) \/ s[Len(s)].at = "lock"
  PROVE  Using(SubSeq(s, 1, Len(s) - 1), f)
<1>1. PICK i \in DOMAIN s : s[i].at \in {"write", "unlock"} /\ File(s[i]) = f
  BY DEF Using
<1>2. s \in Seq(Call) /\ Len(s) \in Nat /\ DOMAIN s = 1..Len(s)
  BY DEF Stack
<1>3. i # Len(s)
  BY <1>1
<1>4. i \in 1 .. Len(s) - 1
  BY <1>2, <1>3
<1> QED
  BY <1>1, <1>2, <1>4, StackRest DEF Using, Stack

-----------------------------------------------------------------------------
(* How the calls of a process change *)

\* Of the calls, only those of p are not as before.
Others(p) == stack' = [stack EXCEPT ![p] = stack'[p]]

\* The top goes on: from place to place.
LEMMA GotoStack ==
  ASSUME LogTypeOK, NEW p \in Procs, Running(p), Top(p).todo # <<>>,
         NEW place \in {"write", "unlock"}, Goto(p, place)
  PROVE  /\ Others(p) /\ Stack(stack'[p])
         /\ Using(stack'[p], File(Top(p)))
         /\ \A f : Using(stack[p], f) => Using(stack'[p], f)
<1> DEFINE s == stack[p]  n == Len(s)
<1>1. stack \in [Procs -> Seq(Call)] /\ Stack(s) /\ s # <<>>
  BY DEF LogTypeOK, Stack, Running
<1>2. n \in DOMAIN s /\ s[n] \in Call
  BY <1>1, StackRest
<1>3. stack'[p] = [s EXCEPT ![n].at = place]
  BY <1>1 DEF Goto
<1>4. [s[n] EXCEPT !.at = place] \in Call
  BY <1>2 DEF Call
<1>5. /\ stack'[p] \in Seq(Call) /\ DOMAIN stack'[p] = DOMAIN s
      /\ stack'[p][n] = [s[n] EXCEPT !.at = place]
      /\ \A i \in DOMAIN s : i # n => stack'[p][i] = s[i]
  BY <1>1, <1>2, <1>3, <1>4
<1>6. stack'[p][n].at = place /\ stack'[p][n].todo = s[n].todo /\ File(stack'[p][n]) = File(s[n])
  BY <1>2, <1>5 DEF Call, File
<1>7. Stack(stack'[p])
  BY <1>1, <1>5, <1>6 DEF Stack, Top
<1>8. Using(stack'[p], File(Top(p)))
  BY <1>2, <1>5, <1>6 DEF Using, Top
<1>9. ASSUME NEW f, Using(s, f) PROVE Using(stack'[p], f)
  BY <1>2, <1>5, <1>6, <1>9 DEF Using
<1> QED
  BY <1>1, <1>7, <1>8, <1>9 DEF Others, Goto

\* The top is done with a message.
LEMMA DoneStack ==
  ASSUME LogTypeOK, NEW p \in Procs, Running(p), Top(p).todo # <<>>, Done(p)
  PROVE  /\ Others(p) /\ Stack(stack'[p])
         /\ \A f : Using(stack[p], f) /\ (f # File(Top(p)) \/ Top(p).at = "lock") => Using(stack'[p], f)
<1> DEFINE s == stack[p]  c == Top(p)
<1>1. stack \in [Procs -> Seq(Call)] /\ Stack(s) /\ s # <<>>
  BY DEF LogTypeOK, Stack, Running
<1>2. c \in Call /\ Stack(Rest(p))
  BY <1>1, StackRest DEF Top, Rest
<1>3. c.todo \in Seq(Kinds) /\ Len(c.todo) # 0 /\ Tail(c.todo) \in Seq(Kinds)
  BY <1>2 DEF Call
<1>4. ASSUME NEW f, Using(s, f), f # File(c) \/ c.at = "lock" PROVE Using(Rest(p), f)
  BY <1>1, <1>4, UsingRest DEF Top, Rest
<1>5. CASE Len(c.todo) = 1 /\ c.of # "TERM"
  <2>1. stack'[p] = Rest(p)
    BY <1>1, <1>5 DEF Done
  <2> QED
    BY <1>1, <1>2, <1>4, <2>1 DEF Others, Done
<1>6. CASE ~(Len(c.todo) = 1 /\ c.of # "TERM")
  <2> DEFINE e == Enter(c.of, Tail(c.todo))
  <2>1. stack'[p] = Append(Rest(p), e)
    BY <1>1, <1>6 DEF Done
  <2>2. c.of \in {"main", "CHLD", "HUP", "TERM"}
    BY <1>2 DEF Call
  <2>3. Len(Tail(c.todo)) = Len(c.todo) - 1
    BY <1>3
  <2>4. Tail(c.todo) = <<>> => c.of = "TERM"
    BY <1>3, <1>6, TailOne
  <2>5. e \in Call /\ (e.todo = <<>> => e.at = "exit" /\ e.of = "TERM")
    <3> HIDE DEF c
    <3> DEFINE t == Tail(c.todo)  o == c.of
    <3>1. t \in Seq(Kinds) /\ o \in {"main", "CHLD", "HUP", "TERM"} /\ (t = <<>> => o = "TERM")
      BY <1>3, <2>2, <2>4
    <3> HIDE DEF t, o
    <3>2. /\ Enter(o, t) \in Call /\ Enter(o, t).todo = t /\ Enter(o, t).of = o
          /\ (t = <<>> => Enter(o, t).at = "exit")
      BY <3>1, EnterType
    <3>3. e = Enter(o, t)
      BY DEF o, t
    <3> QED
      BY <3>1, <3>2, <3>3
  <2>6. Stack(stack'[p])
    BY <1>2, <2>1, <2>5, StackAppend
  <2>7. ASSUME NEW f, Using(Rest(p), f) PROVE Using(stack'[p], f)
    BY <1>2, <2>1, <2>5, <2>7, UsingAppend
  <2> QED
    BY <1>1, <1>4, <2>6, <2>7 DEF Others, Done
<1> QED
  BY <1>5, <1>6

-----------------------------------------------------------------------------
(* The invariant *)

\* The invariant, process by process.
LEMMA Parts ==
  ASSUME LogIInv, NEW p \in Procs
  PROVE  /\ Stack(stack[p]) /\ stack \in [Procs -> Seq(Call)]
         /\ \A f \in Files : locked[f] = p => Using(stack[p], f)
         /\ Running(p) /\ Top(p).at # "exit" => Top(p).todo # <<>>
<1>1. Stack(stack[p]) /\ stack \in [Procs -> Seq(Call)]
  BY DEF LogIInv, LogTypeOK, Stack
<1>2. \A f \in Files : locked[f] = p => Using(stack[p], f)
  BY DEF LogIInv, LocksInUse, Using
<1>3. Running(p) /\ Top(p).at # "exit" => Top(p).todo # <<>>
  BY <1>1, StackRest DEF Running, Top, Stack
<1> QED
  BY <1>1, <1>2, <1>3

\* A step of one process keeps the invariant if what it does to its own calls
\* and locks does, and it takes no lock for another.
LEMMA Kept ==
  ASSUME LogIInv, NEW p \in Procs, Others(p), Stack(stack'[p]), config' = config,
         locked' \in [Files -> Procs \cup {NoProc}],
         pending' \in [Procs -> SUBSET (Signals \cup {"TERM"})],
         calls' \in [Procs -> Nat], sent' \in Nat, exited' \subseteq Procs,
         \A f \in Files : \A q \in Procs \ {p} : locked'[f] = q => locked[f] = q,
         \A f \in Files : locked'[f] = p => Using(stack'[p], f)
  PROVE  LogIInv'
<1>1. \A q \in Procs \ {p} : stack'[q] = stack[q]
  BY DEF Others, LogIInv, LogTypeOK
<1>2. stack' \in [Procs -> Seq(Call)]
  BY DEF Others, LogIInv, LogTypeOK, Stack
<1>3. \A q \in Procs : \A i \in DOMAIN stack'[q] :
        stack'[q][i].todo = <<>> => stack'[q][i].at = "exit" /\ stack'[q][i].of = "TERM"
  <2> TAKE q \in Procs
  <2>1. CASE q = p
    BY <2>1 DEF Stack
  <2>2. CASE q # p
    BY <1>1, <2>2, Parts DEF Stack
  <2> QED
    BY <2>1, <2>2
<1>4. LogTypeOK'
  BY <1>2, <1>3 DEF LogIInv, LogTypeOK
<1>5. \A f \in Files, q \in Procs : locked'[f] = q => Using(stack'[q], f)
  <2> TAKE f \in Files, q \in Procs
  <2>1. CASE q = p
    BY <2>1
  <2>2. CASE q # p
    BY <1>1, <2>2, Parts
  <2> QED
    BY <2>1, <2>2
<1>6. LocksInUse'
  BY <1>5 DEF LocksInUse, Using, File
<1> QED
  BY <1>4, <1>6 DEF LogIInv

\* No call is made, and no lock had, when the server starts.
LEMMA InitInv == LogInit => LogIInv
<1> SUFFICES ASSUME LogInit PROVE LogIInv
  OBVIOUS
<1>1. LogTypeOK
  BY DEF LogInit, LogTypeOK
<1>2. LocksInUse
  BY LogLockAssumption DEF LogInit, LocksInUse
<1> QED
  BY <1>1, <1>2 DEF LogIInv

\* A process that begins a message has no lock.
LEMMA LogInv ==
  ASSUME LogIInv, NEW p \in Procs, Log(p)
  PROVE  LogIInv'
<1>1. PICK kind \in Kinds : stack' = [stack EXCEPT ![p] = <<Enter("main", <<kind>>)>>]
  BY DEF Log
<1>2. <<kind>> \in Seq(Kinds) /\ <<kind>> # <<>>
  OBVIOUS
<1>3. Enter("main", <<kind>>) \in Call /\ Enter("main", <<kind>>).todo # <<>>
  BY <1>2, EnterType
<1>4. stack'[p] = <<Enter("main", <<kind>>)>>
  BY <1>1, Parts
<1>5. Stack(stack'[p])
  BY <1>3, <1>4 DEF Stack
<1>6. Others(p)
  BY <1>1, <1>4 DEF Others
<1>7. \A f \in Files : locked[f] # p
  BY Parts DEF Log, Running, Using
<1>8. calls' \in [Procs -> Nat]
  BY DEF Log, LogIInv, LogTypeOK
<1> QED
  BY <1>5, <1>6, <1>7, <1>8, Kept DEF Log, LogIInv, LogTypeOK

\* A log that is not kept has no lock.
LEMMA SkipInv ==
  ASSUME LogIInv, NEW p \in Procs, Skip(p)
  PROVE  LogIInv'
<1>1. Top(p).todo # <<>> /\ LogTypeOK
  BY Parts DEF Skip, LogIInv
<1>2. /\ Others(p) /\ Stack(stack'[p])
      /\ \A f : Using(stack[p], f) /\ (f # File(Top(p)) \/ Top(p).at = "lock") => Using(stack'[p], f)
  BY <1>1, DoneStack DEF Skip
<1>3. \A f \in Files : locked[f] = p => Using(stack'[p], f)
  BY <1>2, Parts DEF Skip
<1> QED
  BY <1>2, <1>3, Kept DEF Skip, LogIInv, LogTypeOK

\* The lock is taken by the call at the top, which writes next.
LEMMA LockInv ==
  ASSUME LogIInv, NEW p \in Procs, Lock(p)
  PROVE  LogIInv'
<1>1. Top(p).todo # <<>> /\ LogTypeOK
  BY Parts DEF Lock, LogIInv
<1>2. /\ Others(p) /\ Stack(stack'[p]) /\ Using(stack'[p], File(Top(p)))
      /\ \A f : Using(stack[p], f) => Using(stack'[p], f)
  BY <1>1, GotoStack DEF Lock
<1>3. \A f \in Files : locked'[f] = p => Using(stack'[p], f)
  BY <1>1, <1>2, Parts DEF Lock, LogTypeOK
<1>4. \A f \in Files : \A q \in Procs \ {p} : locked'[f] = q => locked[f] = q
  BY <1>1 DEF Lock, LogTypeOK
<1>5. locked' \in [Files -> Procs \cup {NoProc}]
  BY <1>1 DEF Lock, LogTypeOK
<1> QED
  BY <1>2, <1>3, <1>4, <1>5, Kept DEF Lock, LogIInv, LogTypeOK

\* The call that has written keeps its lock.
LEMMA WriteInv ==
  ASSUME LogIInv, NEW p \in Procs, Write(p)
  PROVE  LogIInv'
<1>1. Top(p).todo # <<>> /\ LogTypeOK
  BY Parts DEF Write, LogIInv
<1>2. Others(p) /\ Stack(stack'[p]) /\ \A f : Using(stack[p], f) => Using(stack'[p], f)
  BY <1>1, GotoStack DEF Write
<1>3. \A f \in Files : locked[f] = p => Using(stack'[p], f)
  BY <1>2, Parts
<1> QED
  BY <1>2, <1>3, Kept DEF Write, LogIInv, LogTypeOK

\* The call that is done with a message gives back its lock, and that only.
LEMMA UnlockInv ==
  ASSUME LogIInv, NEW p \in Procs, Unlock(p)
  PROVE  LogIInv'
<1>1. Top(p).todo # <<>> /\ LogTypeOK
  BY Parts DEF Unlock, LogIInv
<1>2. /\ Others(p) /\ Stack(stack'[p])
      /\ \A f : Using(stack[p], f) /\ (f # File(Top(p)) \/ Top(p).at = "lock") => Using(stack'[p], f)
  BY <1>1, DoneStack DEF Unlock
<1>3. \A f \in Files : locked'[f] = IF f = File(Top(p)) THEN NoProc ELSE locked[f]
  BY <1>1 DEF Unlock, LogTypeOK
<1>4. \A f \in Files : locked'[f] = p => Using(stack'[p], f)
  BY <1>2, <1>3, Parts, LogLockAssumption
<1>5. \A f \in Files : \A q \in Procs \ {p} : locked'[f] = q => locked[f] = q
  BY <1>3, LogLockAssumption
<1>6. locked' \in [Files -> Procs \cup {NoProc}]
  BY <1>1 DEF Unlock, LogTypeOK
<1> QED
  BY <1>2, <1>4, <1>5, <1>6, Kept DEF Unlock, LogIInv, LogTypeOK

\* exit() ends all the calls of the process, and gives back all its locks.
LEMMA ExitInv ==
  ASSUME LogIInv, NEW p \in Procs, Exit(p)
  PROVE  LogIInv'
<1>1. stack'[p] = <<>>
  BY Parts DEF Exit
<1>2. Others(p) /\ Stack(stack'[p])
  BY <1>1, StackEmpty DEF Exit, Others
<1>3. \A f \in Files : locked'[f] # p
  BY LogLockAssumption DEF Exit
<1>4. \A f \in Files : \A q \in Procs \ {p} : locked'[f] = q => locked[f] = q
  BY LogLockAssumption DEF Exit
<1>5. locked' \in [Files -> Procs \cup {NoProc}] /\ exited' \subseteq Procs
  BY DEF Exit, LogIInv, LogTypeOK
<1> QED
  BY <1>2, <1>3, <1>4, <1>5, Kept DEF Exit, LogIInv, LogTypeOK

\* A signal that is sent changes no call.
LEMMA SendInv ==
  ASSUME LogIInv, NEW p \in Procs, NEW signal \in Signals, Send(p, signal)
  PROVE  LogIInv'
<1>1. pending' \in [Procs -> SUBSET (Signals \cup {"TERM"})] /\ sent' \in Nat
  BY DEF Send, LogIInv, LogTypeOK
<1> QED
  BY <1>1 DEF Send, LogIInv, LogTypeOK, LocksInUse, File

\* What a handler logs are messages.
LEMMA LogsType ==
  ASSUME NEW p, NEW signal, NEW todo \in Logs(p, signal)
  PROVE  todo \in Seq(Kinds)
<1>1. \/ todo = <<>> \/ todo = <<"error">> \/ todo = <<"debug">>
      \/ todo = <<"error", "error">> \/ todo = <<"debug", "error">>
  BY DEF Logs
<1>2. "error" \in Kinds /\ "debug" \in Kinds
  BY DEF Kinds
<1>3. \A a, b \in Kinds : <<a>> \in Seq(Kinds) /\ <<a, b>> \in Seq(Kinds)
  OBVIOUS
<1>4. CASE todo = <<>>
  BY <1>4, EmptySeq
<1>5. CASE todo # <<>>
  <2>1. \E a, b \in Kinds : todo = <<a>> \/ todo = <<a, b>>
    BY <1>1, <1>2, <1>5
  <2> QED
    BY <1>3, <2>1
<1> QED
  BY <1>4, <1>5

\* A handler's call on top of those that it interrupts leaves them as they are.
LEMMA Interrupt ==
  ASSUME LogIInv, NEW p \in Procs, NEW c \in Call, c.todo = <<>> => c.at = "exit" /\ c.of = "TERM",
         stack' = [stack EXCEPT ![p] = Append(@, c)]
  PROVE  /\ Others(p) /\ Stack(stack'[p])
         /\ \A f : Using(stack[p], f) => Using(stack'[p], f)
<1>1. stack'[p] = Append(stack[p], c)
  BY Parts
<1>2. Stack(stack[p])
  BY Parts
<1>3. \A f : Using(stack[p], f) => Using(stack'[p], f)
  BY <1>1, <1>2, UsingAppend
<1> QED
  BY <1>1, <1>2, <1>3, StackAppend DEF Others

\* The handlers that return: of SIGCHLD and of SIGHUP.
LEMMA DeliverInv ==
  ASSUME LogIInv, NEW p \in Parents, NEW signal \in Signals, Deliver(p, signal)
  PROVE  LogIInv'
<1>1. p \in Procs /\ signal \in {"CHLD", "HUP", "TERM"}
  BY LogLockAssumption
<1>2. pending' \in [Procs -> SUBSET (Signals \cup {"TERM"})]
  BY DEF Deliver, LogIInv, LogTypeOK
<1>3. PICK todo \in Logs(p, signal) :
        stack' = [stack EXCEPT ![p] = IF todo = <<>> THEN @ ELSE Append(@, Enter(signal, todo))]
  BY DEF Deliver
<1>4. todo \in Seq(Kinds)
  BY <1>3, LogsType
<1>5. CASE todo = <<>>
  <2>1. stack' = stack
    BY <1>1, <1>3, <1>5, Parts
  <2>2. LogTypeOK'
    BY <1>2, <2>1 DEF Deliver, LogIInv, LogTypeOK
  <2> QED
    BY <2>1, <2>2 DEF Deliver, LogIInv, LocksInUse, File
<1>6. CASE todo # <<>>
  <2>1. stack' = [stack EXCEPT ![p] = Append(@, Enter(signal, todo))]
    BY <1>3, <1>6
  <2>2. Enter(signal, todo) \in Call /\ Enter(signal, todo).todo # <<>>
    BY <1>1, <1>4, <1>6, EnterType
  <2>3. Others(p) /\ Stack(stack'[p]) /\ \A f : Using(stack[p], f) => Using(stack'[p], f)
    BY <1>1, <2>1, <2>2, Interrupt
  <2>4. \A f \in Files : locked[f] = p => Using(stack'[p], f)
    BY <1>1, <2>3, Parts
  <2> QED
    BY <1>1, <1>2, <2>3, <2>4, Kept DEF Deliver, LogIInv, LogTypeOK
<1> QED
  BY <1>5, <1>6

\* The handler of SIGTERM interrupts what the process does, its locks held.
LEMMA ShutdownInv ==
  ASSUME LogIInv, NEW p \in Procs, Shutdown(p)
  PROVE  LogIInv'
<1>1. pending' \in [Procs -> SUBSET (Signals \cup {"TERM"})]
  BY DEF Shutdown, LogIInv, LogTypeOK
<1>2. PICK todo \in Logs(p, "TERM") : stack' = [stack EXCEPT ![p] = Append(@, Enter("TERM", todo))]
  BY DEF Shutdown
<1>3. todo \in Seq(Kinds)
  BY <1>2, LogsType
<1>4. /\ Enter("TERM", todo) \in Call /\ Enter("TERM", todo).of = "TERM"
      /\ Enter("TERM", todo).todo = <<>> => Enter("TERM", todo).at = "exit"
  BY <1>3, EnterType
<1>5. Others(p) /\ Stack(stack'[p]) /\ \A f : Using(stack[p], f) => Using(stack'[p], f)
  BY <1>2, <1>4, Interrupt
<1>6. \A f \in Files : locked[f] = p => Using(stack'[p], f)
  BY <1>5, Parts
<1> QED
  BY <1>1, <1>5, <1>6, Kept DEF Shutdown, LogIInv, LogTypeOK

-----------------------------------------------------------------------------
(* Theorems *)

\* Every lock of a log file is its process's because one of its calls writes, or
\* has written, to that log: no call returns, and no process ends, without
\* giving back its locks, whatever handlers of signals have interrupted it.
THEOREM LocksFreed == LogSpec => []LogIInv
<1>1. LogInit => LogIInv
  BY InitInv
<1>2. LogIInv /\ [LogNext]_logVars => LogIInv'
  <2> SUFFICES ASSUME LogIInv, [LogNext]_logVars PROVE LogIInv'
    OBVIOUS
  <2>1. ASSUME NEW p \in Procs, Log(p) PROVE LogIInv'
    BY <2>1, LogInv
  <2>2. ASSUME NEW p \in Procs, Step(p) PROVE LogIInv'
    BY <2>2, SkipInv, LockInv, WriteInv, UnlockInv, ExitInv DEF Step
  <2>3. ASSUME NEW p \in Procs, Shutdown(p) PROVE LogIInv'
    BY <2>3, ShutdownInv
  <2>4. ASSUME NEW p \in Procs, NEW signal \in Handled(p), Send(p, signal) PROVE LogIInv'
    <3>1. CASE signal \in Signals
      BY <2>4, <3>1, SendInv
    <3> QED
      BY <3>1 DEF Handled
  <2>5. ASSUME NEW p \in Parents, NEW signal \in Signals, Deliver(p, signal) PROVE LogIInv'
    BY <2>5, DeliverInv
  <2>6. CASE UNCHANGED logVars
    BY <2>6 DEF logVars, LogIInv, LogTypeOK, LocksInUse, File
  <2> QED
    BY <2>1, <2>2, <2>3, <2>4, <2>5, <2>6 DEF LogNext
<1> QED
  BY <1>1, <1>2, PTL DEF LogSpec

-----------------------------------------------------------------------------
(* Circles *)

\* The calls of a process: its own is below those of handlers, one for each
\* signal at most.  SIGCHLD's has only a child's death to log where performance
\* is not reported, and never interrupts an error message of the program proper.
Shape(s) ==
  /\ \A i \in DOMAIN s : s[i].of = "main" => i = 1 /\ s[i].todo \in {<<"error">>, <<"debug">>}
  /\ \A i, j \in DOMAIN s : s[i].of = s[j].of => i = j
  /\ \A i \in DOMAIN s : s[i].of = "CHLD" => config.performance \/ s[i].todo = <<"error">>
  /\ \A i, j \in DOMAIN s :
       i < j /\ s[i].of = "main" /\ s[j].of = "CHLD" => s[i].todo = <<"debug">>

Shapes == \A p \in Procs : Shape(stack[p])

\* Without its top.
LEMMA ShapeRest ==
  ASSUME NEW s, Stack(s), s # <<>>, Shape(s)
  PROVE  Shape(SubSeq(s, 1, Len(s) - 1))
<1> DEFINE rest == SubSeq(s, 1, Len(s) - 1)
<1>1. \A i \in DOMAIN rest : i \in DOMAIN s /\ rest[i] = s[i]
  BY StackRest DEF Stack
<1> HIDE DEF rest
<1> QED
  BY <1>1 DEF Shape, rest

\* With a call on top, of whose kind there is none yet.
LEMMA ShapeAppend ==
  ASSUME NEW s, Stack(s), Shape(s), NEW c \in Call, \A i \in DOMAIN s : s[i].of # c.of,
         c.of = "main" => s = <<>> /\ c.todo \in {<<"error">>, <<"debug">>},
         c.of = "CHLD" =>
           /\ config.performance \/ c.todo = <<"error">>
           /\ \A i \in DOMAIN s : s[i].of = "main" => s[i].todo = <<"debug">>
  PROVE  Shape(Append(s, c))
<1> DEFINE t == Append(s, c)
<1>1. s \in Seq(Call) /\ Len(s) \in Nat /\ DOMAIN s = 1 .. Len(s)
  BY DEF Stack
<1>2. /\ DOMAIN t = 1 .. Len(s) + 1 /\ t[Len(s) + 1] = c
      /\ \A i \in DOMAIN s : t[i] = s[i]
  BY <1>1
<1>3. s = <<>> => Len(s) = 0
  OBVIOUS
<1> HIDE DEF t
<1>4. \A i \in DOMAIN t : t[i].of = "main" => i = 1 /\ t[i].todo \in {<<"error">>, <<"debug">>}
  BY <1>1, <1>2, <1>3 DEF Shape
<1>5. \A i, j \in DOMAIN t : t[i].of = t[j].of => i = j
  BY <1>1, <1>2 DEF Shape
<1>6. \A i \in DOMAIN t : t[i].of = "CHLD" => config.performance \/ t[i].todo = <<"error">>
  BY <1>1, <1>2 DEF Shape
<1>7. \A i, j \in DOMAIN t :
        i < j /\ t[i].of = "main" /\ t[j].of = "CHLD" => t[i].todo = <<"debug">>
  BY <1>1, <1>2 DEF Shape
<1> QED
  BY <1>4, <1>5, <1>6, <1>7 DEF Shape, t

\* From place to place.
LEMMA ShapeGoto ==
  ASSUME LogIInv, NEW p \in Procs, Running(p), Shape(stack[p]), NEW place, Goto(p, place)
  PROVE  Shape(stack'[p])
<1> DEFINE s == stack[p]  n == Len(s)
<1>1. s \in Seq(Call) /\ stack \in [Procs -> Seq(Call)] /\ n \in DOMAIN s /\ s[n] \in Call
  BY StackRest, Parts DEF Running, Stack
<1>2. stack'[p] = [s EXCEPT ![n].at = place]
  BY <1>1 DEF Goto
<1>3. DOMAIN stack'[p] = DOMAIN s
  BY <1>2
<1>4. \A i \in DOMAIN s : stack'[p][i].of = s[i].of /\ stack'[p][i].todo = s[i].todo
  BY <1>1, <1>2 DEF Call
<1> QED
  BY <1>3, <1>4 DEF Shape

\* A message is done with.
LEMMA ShapeDone ==
  ASSUME LogIInv, NEW p \in Procs, Running(p), Top(p).todo # <<>>, Shape(stack[p]), Done(p)
  PROVE  Shape(stack'[p])
<1> DEFINE s == stack[p]  c == Top(p)
<1>1. stack \in [Procs -> Seq(Call)] /\ Stack(s) /\ s # <<>>
  BY Parts DEF Running
<1>2. c \in Call /\ Stack(Rest(p)) /\ Shape(Rest(p)) /\ Len(s) \in DOMAIN s
  BY <1>1, StackRest, ShapeRest DEF Top, Rest
<1>3. CASE Len(c.todo) = 1 /\ c.of # "TERM"
  BY <1>1, <1>2, <1>3 DEF Done
<1>4. CASE ~(Len(c.todo) = 1 /\ c.of # "TERM")
  <2> DEFINE e == Enter(c.of, Tail(c.todo))
  <2>1. stack'[p] = Append(Rest(p), e)
    BY <1>1, <1>4 DEF Done
  <2>2. c.todo \in Seq(Kinds) /\ c.of \in {"main", "CHLD", "HUP", "TERM"}
    BY <1>2 DEF Call
  <2>3. Tail(c.todo) \in Seq(Kinds)
    BY <2>2, HeadTailProperties
  <2>4. e \in Call /\ e.of = c.of
    <3> DEFINE t == Tail(c.todo)  o == c.of
    <3>1. t \in Seq(Kinds) /\ o \in {"main", "CHLD", "HUP", "TERM"}
      BY <2>2, <2>3
    <3> HIDE DEF t, o
    <3>2. Enter(o, t) \in Call /\ Enter(o, t).of = o
      BY <3>1, EnterType
    <3> QED
      BY <3>2 DEF t, o
  <2>5. Len(<<"error">>) = 1 /\ Len(<<"debug">>) = 1
    OBVIOUS
  <2>6. c.of # "main" /\ (c.of = "CHLD" => config.performance)
    BY <1>2, <1>4, <2>5 DEF Shape, Top
  <2>7. ASSUME NEW i \in DOMAIN Rest(p)
        PROVE  /\ Rest(p)[i] = s[i] /\ s[i].of # c.of
               /\ c.of = "CHLD" /\ s[i].of = "main" => s[i].todo = <<"debug">>
    <3>1. i \in 1 .. Len(s) - 1 /\ Len(s) \in Nat /\ DOMAIN s = 1 .. Len(s)
      BY <1>1, StackRest DEF Rest, Stack
    <3>2. Rest(p)[i] = s[i]
      BY <1>1, <3>1, StackRest DEF Rest
    <3>3. i \in DOMAIN s /\ i # Len(s) /\ i < Len(s)
      BY <3>1
    <3> QED
      BY <1>2, <3>2, <3>3 DEF Shape, Top
  <2> HIDE DEF e
  <2> QED
    BY <1>2, <2>1, <2>4, <2>6, <2>7, ShapeAppend
<1> QED
  BY <1>3, <1>4

\* A handler is called.
LEMMA ShapeHandler ==
  ASSUME LogIInv, NEW p \in Procs, NEW signal \in {"CHLD", "HUP", "TERM"}, ~Blocked(p, signal),
         Shape(stack[p]), NEW todo \in Logs(p, signal), signal = "CHLD" => p \in Parents /\ todo # <<>>
  PROVE  Shape(Append(stack[p], Enter(signal, todo)))
<1> DEFINE e == Enter(signal, todo)
<1>1. todo \in Seq(Kinds)
  BY LogsType
<1>2. e \in Call /\ e.of = signal /\ e.todo = todo
  BY <1>1, EnterType
<1>3. \A i \in DOMAIN stack[p] : stack[p][i].of # e.of
  BY <1>2 DEF Blocked, In
<1>4. ASSUME signal = "CHLD"
      PROVE  /\ config.performance \/ e.todo = <<"error">>
             /\ \A i \in DOMAIN stack[p] : stack[p][i].of = "main" => stack[p][i].todo = <<"debug">>
  <2>1. config.performance \/ todo = <<"error">>
    BY <1>4 DEF Logs
  <2>2. \A i \in DOMAIN stack[p] : stack[p][i].of = "main" => stack[p][i].todo # <<"error">>
    BY <1>4 DEF Blocked
  <2> QED
    BY <1>2, <2>1, <2>2 DEF Shape
<1> HIDE DEF e
<1> QED
  BY <1>2, <1>3, <1>4, Parts, ShapeAppend DEF e

\* Each step keeps the calls in shape.
LEMMA NextShapes == LogIInv /\ Shapes /\ [LogNext]_logVars => Shapes'
<1> SUFFICES ASSUME LogIInv, Shapes, [LogNext]_logVars PROVE Shapes'
  OBVIOUS
<1>1. ASSUME NEW p \in Procs, config' = config, NEW s, stack' = [stack EXCEPT ![p] = s], Shape(s)
      PROVE  Shapes'
  <2>1. \A q \in Procs : stack'[q] = IF q = p THEN s ELSE stack[q]
    BY <1>1 DEF LogIInv, LogTypeOK
  <2> QED
    BY <1>1, <2>1 DEF Shapes, Shape
<1>2. ASSUME NEW p \in Procs, config' = config, Others(p), Shape(stack'[p]) PROVE Shapes'
  BY <1>1, <1>2 DEF Others
<1>3. ASSUME NEW p \in Procs, Log(p) PROVE Shapes'
  <2>1. PICK kind \in Kinds : stack' = [stack EXCEPT ![p] = <<Enter("main", <<kind>>)>>]
    BY <1>3 DEF Log
  <2>2. Shape(<<Enter("main", <<kind>>)>>)
    BY DEF Shape, Enter, Kinds
  <2> QED
    BY <1>1, <1>3, <2>1, <2>2 DEF Log
<1>4. ASSUME NEW p \in Procs, Step(p) PROVE Shapes'
  <2>1. Shape(stack[p])
    BY DEF Shapes
  <2>2. CASE Skip(p)
    BY <1>2, <2>1, <2>2, Parts, DoneStack, ShapeDone DEF Skip, LogIInv
  <2>3. CASE Lock(p)
    BY <1>2, <2>1, <2>3, Parts, GotoStack, ShapeGoto DEF Lock, LogIInv
  <2>4. CASE Write(p)
    BY <1>2, <2>1, <2>4, Parts, GotoStack, ShapeGoto DEF Write, LogIInv
  <2>5. CASE Unlock(p)
    BY <1>2, <2>1, <2>5, Parts, DoneStack, ShapeDone DEF Unlock, LogIInv
  <2>6. CASE Exit(p)
    <3>1. Shape(<<>>)
      BY DEF Shape
    <3> QED
      BY <1>1, <2>6, <3>1 DEF Exit
  <2> QED
    BY <1>4, <2>2, <2>3, <2>4, <2>5, <2>6 DEF Step
<1>5. ASSUME NEW p \in Procs, Shutdown(p) PROVE Shapes'
  <2>1. PICK todo \in Logs(p, "TERM") :
          stack' = [stack EXCEPT ![p] = Append(@, Enter("TERM", todo))]
    BY <1>5 DEF Shutdown
  <2>2. Shape(Append(stack[p], Enter("TERM", todo)))
    BY <1>5, ShapeHandler DEF Shutdown, Shapes
  <2>3. stack' = [stack EXCEPT ![p] = Append(stack[p], Enter("TERM", todo))]
    BY <2>1
  <2> QED
    BY <1>1, <1>5, <2>2, <2>3 DEF Shutdown
<1>6. ASSUME NEW p \in Parents, NEW signal \in Signals, Deliver(p, signal) PROVE Shapes'
  <2>1. PICK todo \in Logs(p, signal) :
          stack' = [stack EXCEPT ![p] = IF todo = <<>> THEN @ ELSE Append(@, Enter(signal, todo))]
    BY <1>6 DEF Deliver
  <2>2. p \in Procs /\ signal \in {"CHLD", "HUP", "TERM"}
    BY LogLockAssumption
  <2>3. CASE todo = <<>>
    <3>1. stack' = stack
      BY <2>1, <2>2, <2>3 DEF LogIInv, LogTypeOK
    <3> QED
      BY <1>6, <3>1 DEF Deliver, Shapes, Shape
  <2>4. CASE todo # <<>>
    <3>1. Shape(Append(stack[p], Enter(signal, todo)))
      BY <1>6, <2>2, <2>4, ShapeHandler DEF Deliver, Shapes
    <3>2. stack' = [stack EXCEPT ![p] = Append(stack[p], Enter(signal, todo))]
      BY <2>1, <2>4
    <3> QED
      BY <1>1, <1>6, <2>2, <3>1, <3>2 DEF Deliver
  <2> QED
    BY <2>3, <2>4
<1>7. ASSUME NEW p \in Procs, NEW signal, Send(p, signal) PROVE Shapes'
  BY <1>7 DEF Send, Shapes, Shape
<1>8. CASE UNCHANGED logVars
  BY <1>8 DEF logVars, Shapes, Shape
<1> QED
  BY <1>3, <1>4, <1>5, <1>6, <1>7, <1>8 DEF LogNext

\* Who is waited for has a call of its own, to log what is for debugging, that
\* SIGCHLD's handler has interrupted.
LEMMA WaitedFor ==
  ASSUME LogIInv, Shapes, NEW q \in Procs, Waits(q), ~In(q, "HUP"), ~In(q, "TERM"),
         NEW f \in Files, locked[f] = q
  PROVE  /\ f = config.log["debug"]
         /\ config.performance \/ Top(q).todo = <<"error">>
<1> DEFINE s == stack[q]  n == Len(s)
<1>1. s \in Seq(Call) /\ n \in Nat /\ DOMAIN s = 1 .. n /\ n \in DOMAIN s /\ Shape(s)
  BY Parts, StackRest DEF Waits, Running, Stack, Shapes
<1>2. PICK i \in DOMAIN s : s[i].at \in {"write", "unlock"} /\ File(s[i]) = f
  BY Parts DEF Using
<1>3. Top(q) = s[n] /\ i < n
  BY <1>1, <1>2 DEF Waits, Top
<1>4. \A j \in DOMAIN s : s[j].of \in {"main", "CHLD"}
  <2>1. \A j \in DOMAIN s : s[j] \in Call
    BY <1>1
  <2>2. \A j \in DOMAIN s : s[j].of # "HUP" /\ s[j].of # "TERM"
    BY DEF In
  <2> QED
    BY <2>1, <2>2 DEF Call
<1>5. s[n].of = "CHLD"
  BY <1>1, <1>3, <1>4 DEF Shape
<1>6. s[i].of = "main" /\ s[i].todo = <<"debug">>
  BY <1>1, <1>3, <1>4, <1>5 DEF Shape
<1>7. f = config.log["debug"]
  BY <1>2, <1>6 DEF File
<1> QED
  BY <1>1, <1>3, <1>5, <1>7 DEF Shape

\* The death of a child makes no process wait for itself, nor several for each
\* other, but where SIGCHLD's handler and what it interrupts have one log.
THEOREM ChildrenHarmless == LogSpec => []NoCircle
<1>1. LogInit => Shapes
  <2>1. Shape(<<>>)
    BY DEF Shape
  <2> QED
    BY <2>1 DEF LogInit, Shapes
<1>2. LogIInv /\ Shapes => NoCircle
  <2> SUFFICES ASSUME LogIInv, Shapes, NEW ps \in SUBSET Procs, Circle(ps),
                      \A p \in ps : ~In(p, "HUP") /\ ~In(p, "TERM")
               PROVE  /\ config.performance \/ config.log["error"] = config.log["debug"]
                      /\ \A p \in ps : File(Top(p)) = config.log["debug"]
    BY DEF NoCircle
  <2>1. ASSUME NEW p \in ps
        PROVE  /\ File(Top(p)) = config.log["debug"]
               /\ \E q \in ps : config.performance \/ Top(q).todo = <<"error">>
    <3>1. File(Top(p)) \in Files /\ locked[File(Top(p))] \in ps
      BY DEF Circle, Waits
    <3> QED
      BY <3>1, WaitedFor DEF Circle
  <2>2. PICK q \in ps : config.performance \/ Top(q).todo = <<"error">>
    BY <2>1 DEF Circle
  <2>3. Top(q).todo = <<"error">> => File(Top(q)) = config.log["error"]
    BY DEF File
  <2> QED
    BY <2>1, <2>2, <2>3
<1> QED
  BY <1>1, <1>2, NextShapes, LocksFreed, PTL DEF LogSpec

=============================================================================

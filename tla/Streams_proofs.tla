--------------------------- MODULE Streams_proofs ---------------------------
(***************************************************************************)
(* Whose the descriptors of a page's streams are, for any number of         *)
(* streams, variables, programs and descriptors.                            *)
(***************************************************************************)
EXTENDS Streams, SequenceTheorems, FiniteSetTheorems, WellFoundedInduction, TLAPS

\* The types, and that the streams are a sequence.
Typed == TypeOK /\ streams \in Seq(Stream)

\* A variable stands for its stream until it is bound again.
Bound == \A i \in DOMAIN streams : streams[i].shadowed \/ ref[streams[i].var] = i

\* The end of a pipe that with-open-stream forgets.
Forgotten(o) == o.end = "out" /\ o.child = 0

\* s closes the descriptor d, of which it knows whatever happens to its type.
Owns(s, d) == d = s.ifd \/ (d = s.fd /\ s.kind # "FD")

\* Every descriptor is some stream's to close, and every program some stream's to
\* kill.
Owned ==
  \A d \in Descriptors \ {Standard} :
    fd[d] = Free \/ Forgotten(fd[d]) \/ \E i \in DOMAIN streams : Owns(streams[i], d)

Programs ==
  \A c \in In("running") : \E i \in DOMAIN streams : streams[i].ifd # None /\ streams[i].child = c

\* A stream is on the connection of the page, or on an object of its own, which
\* may have a second descriptor.
Opened(s, opened) ==
  \/ s.of = Connection /\ s.kind = "FILE" /\ s.fd = Standard
  \/ s.of.of \in 1..opened /\ s.of.end # "out"

Second(s) == [of |-> s.of.of, end |-> "out", child |-> s.child]

Distinct(s, t) == s.kind # "FD" /\ t.kind # "FD" /\ s.of.of = t.of.of => s.of = Connection

\* As long as no stream's end has closed what it had not opened.
Proper ==
  ~foreign =>
    /\ fd[Standard] = Connection
    /\ \A i \in DOMAIN streams : streams[i].kind # "FD" =>
         /\ Opened(streams[i], made) /\ fd[streams[i].fd] = streams[i].of
         /\ streams[i].ifd # None => fd[streams[i].ifd] = Second(streams[i])
    /\ \A i, j \in DOMAIN streams : i = j \/ Distinct(streams[i], streams[j])

Inv ==
  /\ Typed /\ Bound /\ Owned /\ Programs /\ Proper
  /\ \A i \in DOMAIN streams : streams[i].ifd # None => streams[i].kind = "PROG"

-----------------------------------------------------------------------------
(* The descriptors that the system gives out *)

\* A set of numbers with something in it has a least one.
LEMMA Least ==
  ASSUME NEW T \in SUBSET Nat, T # {}
  PROVE  \E x \in T : \A y \in T : x <= y
<1>1. PICK x \in T : \A y \in T : <<y, x>> \notin OpToRel(<, Nat)
  BY WFMin, NatLessThanWellFounded
<1>2. \A y, z \in Nat : y < z => <<y, z>> \in OpToRel(<, Nat)
  BY DEF OpToRel
<1>3. \A y \in T : ~ y < x
  BY <1>1, <1>2
<1> QED BY <1>3

Unused == {d \in Descriptors : fd[d] = Free}
Below(d) == {e \in Descriptors : e < d /\ fd[e] = Free}

\* Three free descriptors, in their order.
LEMMA Lowests ==
  ASSUME Typed, MayOpen
  PROVE  /\ Lowest(1) \in Unused /\ Lowest(2) \in Unused /\ Lowest(3) \in Unused
         /\ Lowest(2) # Lowest(3)
<1>1. IsFiniteSet(Unused) /\ Unused \subseteq Descriptors /\ Unused \subseteq Nat
  BY StreamsAssumption, FS_Subset DEF Unused
<1>2. Cardinality(Unused) \in Nat /\ Cardinality(Unused) >= 4
  BY <1>1, FS_CardinalityType DEF MayOpen, Unused
<1>3. PICK a \in Unused : \A y \in Unused : a <= y
  <2>1. Unused # {}
    BY <1>2, FS_EmptySet
  <2> QED BY <1>1, <2>1, Least
<1>4. IsFiniteSet(Unused \ {a}) /\ Cardinality(Unused \ {a}) = Cardinality(Unused) - 1
  BY <1>1, <1>3, FS_RemoveElement
<1>5. PICK b \in Unused \ {a} : \A y \in Unused \ {a} : b <= y
  <2>1. Unused \ {a} # {}
    BY <1>2, <1>4, FS_EmptySet
  <2> QED BY <1>1, <2>1, Least
<1>6. IsFiniteSet((Unused \ {a}) \ {b}) /\ Cardinality((Unused \ {a}) \ {b}) = Cardinality(Unused) - 2
  BY <1>2, <1>4, <1>5, FS_RemoveElement
<1>7. PICK c \in (Unused \ {a}) \ {b} : \A y \in (Unused \ {a}) \ {b} : c <= y
  <2>1. (Unused \ {a}) \ {b} # {}
    BY <1>2, <1>6, FS_EmptySet
  <2> QED BY <1>1, <2>1, Least
<1>8. Below(a) = {} /\ Below(b) = {a} /\ Below(c) = {a} \cup {b}
  BY <1>1, <1>3, <1>5, <1>7, StreamsAssumption DEF Below, Unused
<1>9. Cardinality(Below(a)) = 1 - 1 /\ Cardinality(Below(b)) = 2 - 1 /\ Cardinality(Below(c)) = 3 - 1
  <2>1. Cardinality({a}) = 1 /\ IsFiniteSet({a}) /\ Cardinality({}) = 0
    BY FS_Singleton, FS_EmptySet
  <2>2. Cardinality({a} \cup {b}) = 1 + 1
    BY <1>5, <2>1, FS_AddElement
  <2> QED BY <1>8, <2>1, <2>2
<1>10. ASSUME NEW n \in {1, 2, 3}, NEW x \in Unused, Cardinality(Below(x)) = n - 1
       PROVE  Lowest(n) \in Unused /\ Cardinality(Below(Lowest(n))) = n - 1
  <2>1. x \in Descriptors /\ fd[x] = Free /\ Cardinality({e \in Descriptors : e < x /\ fd[e] = Free}) = n - 1
    BY <1>10 DEF Below, Unused
  <2>2. /\ Lowest(n) \in Descriptors
        /\ fd[Lowest(n)] = Free
        /\ Cardinality({e \in Descriptors : e < Lowest(n) /\ fd[e] = Free}) = n - 1
    BY <2>1, Zenon DEF Lowest
  <2> QED BY <2>2 DEF Below, Unused
<1>11. /\ Lowest(1) \in Unused
       /\ Lowest(2) \in Unused /\ Cardinality(Below(Lowest(2))) = 2 - 1
       /\ Lowest(3) \in Unused /\ Cardinality(Below(Lowest(3))) = 3 - 1
  BY <1>3, <1>5, <1>7, <1>9, <1>10
<1> QED BY <1>11

-----------------------------------------------------------------------------
(* Streams are opened *)

\* At first there are no streams.
LEMMA Initially == Init => Inv
<1> SUFFICES ASSUME Init PROVE Inv
  OBVIOUS
<1>1. streams \in Seq(Stream) /\ DOMAIN streams = {} /\ Len(streams) = 0
  BY DEF Init
<1>2. ProcessTypeOK /\ In("running") = {}
  <2>1. child = [c \in Children |-> [at |-> "none", how |-> "exit"]]
    BY DEF Init, ProcessInit
  <2>2. child \in [Children -> ChildStates]
    BY <2>1 DEF ChildStates, Deaths
  <2>3. In("running") = {}
    BY <2>1 DEF In
  <2>4. handler \in {"none", "stream", "cgi"} /\ sigchld \in BOOLEAN /\ alive \in BOOLEAN
    BY Zenon DEF Init, ProcessInit
  <2>5. started \in 0..MaxChildren /\ status \in Deaths /\ told \in 0..MaxChildren
    BY PageProcessAssumption DEF Init, ProcessInit, Deaths
  <2> QED BY <2>2, <2>3, <2>4, <2>5 DEF ProcessTypeOK
<1>3. fd \in [Descriptors -> Objects] /\ fd[Standard] = Connection
  BY StreamsAssumption, PageProcessAssumption DEF Init, Objects, Connection, Free, Standard
<1>4. TypeOK
  <2>1. ref \in [Vars -> 0..MaxDepth]
    BY StreamsAssumption DEF Init, Unset
  <2>2. op = NoOp /\ op \in [what : Operations \cup {"none"}, i : 0..MaxDepth]
    BY StreamsAssumption DEF Init, NoOp
  <2>3. timedOut \in BOOLEAN /\ jumping \in BOOLEAN /\ foreign \in BOOLEAN
    BY Zenon DEF Init
  <2>5. holds \in [Children -> SUBSET PipeEnds]
    BY DEF Init
  <2>4. made \in 0..MaxOpens /\ Len(streams) <= MaxDepth
    BY <1>1, StreamsAssumption DEF Init
  <2> QED BY <1>1, <1>2, <1>3, <2>1, <2>2, <2>3, <2>4, <2>5 DEF TypeOK
<1>5. Owned
  BY DEF Init, Owned
<1> QED BY <1>1, <1>2, <1>3, <1>4, <1>5 DEF Inv, Typed, Bound, Programs, Proper

\* A stream, and the places it may have.
LEMMA Places ==
  ASSUME Typed
  PROVE  /\ Len(streams) \in Nat /\ DOMAIN streams = 1..Len(streams)
         /\ \A i \in DOMAIN streams : streams[i] \in Stream
BY DEF Typed

\* The stream that is added to the others, which only learn that their variable
\* is bound again.
LEMMA Installed ==
  ASSUME Typed, MayOpen,
         NEW v \in Vars, NEW kind \in Kinds, NEW d \in Descriptors,
         NEW ifd \in Descriptors \cup {None}, NEW c \in 0..MaxChildren,
         fd' \in [Descriptors -> Objects], Install(v, kind, d, ifd, c)
  PROVE  LET n == Len(streams) IN
         /\ n \in Nat /\ DOMAIN streams = 1..n /\ n + 1 <= MaxDepth
         /\ streams' \in Seq(Stream) /\ Len(streams') = n + 1 /\ DOMAIN streams' = 1..(n + 1)
         /\ \A i \in 1..n :
              streams'[i] = [streams[i] EXCEPT !.shadowed = @ \/ streams[i].var = v]
         /\ streams'[n + 1] = [kind |-> kind, var |-> v, fd |-> d, ifd |-> ifd, child |-> c,
                               open |-> TRUE, of |-> fd'[d], shadowed |-> FALSE]
         /\ ref' = [ref EXCEPT ![v] = n + 1]
<1> DEFINE n == Len(streams)
           s == [kind |-> kind, var |-> v, fd |-> d, ifd |-> ifd, child |-> c,
                 open |-> TRUE, of |-> fd'[d], shadowed |-> FALSE]
           same == [i \in DOMAIN streams |->
                      [streams[i] EXCEPT !.shadowed = @ \/ streams[i].var = v]]
<1>1. n \in Nat /\ DOMAIN streams = 1..n /\ \A i \in 1..n : streams[i] \in Stream
  BY Places
<1>2. s \in Stream
  BY DEF Stream
<1>3. \A i \in 1..n : same[i] = [streams[i] EXCEPT !.shadowed = @ \/ streams[i].var = v]
  BY <1>1
<1>4. \A i \in 1..n : same[i] \in Stream
  BY <1>1, <1>3 DEF Stream
<1>5. same \in Seq(Stream) /\ Len(same) = n
  <2>1. same \in [1..n -> Stream] /\ DOMAIN same = 1..n
    BY <1>1, <1>4
  <2> HIDE DEF same, n
  <2>2. same \in Seq(Stream)
    BY <1>1, <2>1, SeqDef
  <2>3. Len(same) \in Nat /\ DOMAIN same = 1..Len(same)
    BY <2>2
  <2> QED BY <1>1, <2>1, <2>2, <2>3
<1>6. streams' = Append(same, s)
  BY DEF Install
<1>7. n + 1 <= MaxDepth
  BY <1>1, StreamsAssumption DEF MayOpen
<1>8. ref' = [ref EXCEPT ![v] = Len(streams')]
  BY DEF Install
<1> HIDE DEF same, s, n
<1>9. /\ streams' \in Seq(Stream) /\ Len(streams') = n + 1 /\ DOMAIN streams' = 1..(n + 1)
      /\ \A i \in 1..n : streams'[i] = same[i]
      /\ streams'[n + 1] = s
  BY <1>1, <1>2, <1>5, <1>6
<1> QED BY <1>1, <1>3, <1>7, <1>8, <1>9 DEF s, n

\* A stream is opened, on descriptors that were free or on one as it is.
LEMMA InstallKeeps ==
  ASSUME Inv, MayOpen,
         NEW v \in Vars, NEW kind \in Kinds, NEW d \in Descriptors,
         NEW ifd \in Descriptors \cup {None}, NEW c \in 0..MaxChildren,
         Install(v, kind, d, ifd, c), ProcessTypeOK',
         fd' \in [Descriptors -> Objects], holds' \in [Children -> SUBSET PipeEnds],
         \A e \in Descriptors : fd'[e] = fd[e] \/ fd[e] = Free,
         \A e \in Descriptors :
           \/ fd'[e] = fd[e] \/ Forgotten(fd'[e]) \/ e = ifd \/ (e = d /\ kind # "FD"),
         ~foreign /\ kind # "FD" =>
           \/ fd'[d] = Connection /\ kind = "FILE" /\ d = Standard
           \/ fd'[d].of = made + 1 /\ fd'[d].end # "out",
         ifd # None =>
           /\ kind = "PROG" /\ fd'[d].of = made + 1
           /\ fd'[ifd] = [of |-> made + 1, end |-> "out", child |-> c],
         \A k \in In("running")' : k \in In("running") \/ (ifd # None /\ k = c)
  PROVE  Inv'
<1> DEFINE n == Len(streams)
<1>1. /\ n \in Nat /\ DOMAIN streams = 1..n /\ n + 1 <= MaxDepth
      /\ streams' \in Seq(Stream) /\ Len(streams') = n + 1 /\ DOMAIN streams' = 1..(n + 1)
      /\ \A i \in 1..n : streams'[i] = [streams[i] EXCEPT !.shadowed = @ \/ streams[i].var = v]
      /\ streams'[n + 1] = [kind |-> kind, var |-> v, fd |-> d, ifd |-> ifd, child |-> c,
                            open |-> TRUE, of |-> fd'[d], shadowed |-> FALSE]
      /\ ref' = [ref EXCEPT ![v] = n + 1]
  BY Installed DEF Inv
<1>2. \A i \in 1..n :
        /\ streams[i] \in Stream /\ streams'[i].kind = streams[i].kind
        /\ streams'[i].var = streams[i].var /\ streams'[i].fd = streams[i].fd
        /\ streams'[i].ifd = streams[i].ifd /\ streams'[i].child = streams[i].child
        /\ streams'[i].of = streams[i].of
        /\ streams'[i].shadowed = (streams[i].shadowed \/ streams[i].var = v)
  <2> SUFFICES ASSUME NEW i \in 1..n
               PROVE  /\ streams[i] \in Stream /\ streams'[i].kind = streams[i].kind
                      /\ streams'[i].var = streams[i].var /\ streams'[i].fd = streams[i].fd
                      /\ streams'[i].ifd = streams[i].ifd /\ streams'[i].child = streams[i].child
                      /\ streams'[i].of = streams[i].of
                      /\ streams'[i].shadowed = (streams[i].shadowed \/ streams[i].var = v)
    OBVIOUS
  <2>1. streams[i] \in Stream
    BY <1>1, Places DEF Inv
  <2>2. streams'[i] = [streams[i] EXCEPT !.shadowed = @ \/ streams[i].var = v]
    BY <1>1
  <2>3. PICK s : s = streams[i] /\ s \in Stream
    BY <2>1
  <2>4. streams'[i].shadowed = (s.shadowed \/ s.var = v)
    BY <2>2, <2>3 DEF Stream
  <2>5. /\ streams'[i].kind = s.kind /\ streams'[i].var = s.var /\ streams'[i].fd = s.fd
        /\ streams'[i].ifd = s.ifd /\ streams'[i].child = s.child /\ streams'[i].of = s.of
    BY <2>2, <2>3 DEF Stream
  <2> QED BY <2>1, <2>3, <2>4, <2>5
<1>3. \A i \in 1..(n + 1) : i \in 1..n \/ i = n + 1
  BY <1>1
<1>4. /\ streams'[n + 1].kind = kind /\ streams'[n + 1].var = v /\ streams'[n + 1].fd = d
      /\ streams'[n + 1].ifd = ifd /\ streams'[n + 1].child = c /\ streams'[n + 1].of = fd'[d]
  BY <1>1
<1>5. op = NoOp /\ ~jumping /\ op' = NoOp /\ ~jumping' /\ foreign' = foreign /\ timedOut' = timedOut
      /\ made' = made + 1 /\ made \in Nat /\ made' \in 0..MaxOpens
  BY StreamsAssumption DEF MayOpen, Install, Inv, Typed, TypeOK
<1>6. Typed'
  <2>1. ref' \in [Vars -> 0..MaxDepth]
    BY <1>1, StreamsAssumption DEF Inv, Typed, TypeOK
  <2>2. \A i \in DOMAIN streams' : streams'[i] \in Stream
    BY <1>1
  <2>3. op' \in [what : Operations \cup {"none"}, i : 0..MaxDepth]
    BY <1>5 DEF Inv, Typed, TypeOK
  <2>4. timedOut' \in BOOLEAN /\ jumping' \in BOOLEAN /\ foreign' \in BOOLEAN
    BY Zenon DEF Inv, Typed, TypeOK, Install
  <2>5. Len(streams') <= MaxDepth
    BY <1>1
  <2> QED BY <1>1, <1>5, <2>1, <2>2, <2>3, <2>4, <2>5 DEF Typed, TypeOK
<1>7. Bound'
  <2>1. ref \in [Vars -> 0..MaxDepth]
    BY DEF Inv, Typed, TypeOK
  <2>2. ASSUME NEW i \in 1..n PROVE streams'[i].shadowed \/ ref'[streams'[i].var] = i
    BY <1>1, <1>2, <2>1, <2>2 DEF Inv, Bound, Stream
  <2>3. ref'[v] = n + 1
    BY <1>1, <2>1
  <2> QED BY <1>1, <1>3, <1>4, <2>2, <2>3 DEF Bound
<1> HIDE DEF n
<1>8. Owned'
  <2> SUFFICES ASSUME NEW e \in Descriptors \ {Standard},
                      fd'[e] # Free, ~Forgotten(fd'[e])
               PROVE  \E i \in DOMAIN streams' : Owns(streams'[i], e)
    BY DEF Owned
  <2>1. CASE fd'[e] = fd[e]
    <3>1. PICK i \in DOMAIN streams : Owns(streams[i], e)
      BY <2>1 DEF Inv, Owned
    <3>2. Owns(streams'[i], e) /\ i \in DOMAIN streams'
      BY <1>1, <1>2, <3>1 DEF Owns
    <3> QED BY <3>2
  <2>2. CASE e = ifd \/ (e = d /\ kind # "FD")
    <3>1. Owns(streams'[n + 1], e) /\ n + 1 \in DOMAIN streams'
      BY <1>1, <1>4, <2>2 DEF Owns
    <3> QED BY <3>1
  <2> QED BY <2>1, <2>2
<1>9. Programs'
  <2> SUFFICES ASSUME NEW k \in In("running")'
               PROVE  \E i \in DOMAIN streams' : streams'[i].ifd # None /\ streams'[i].child = k
    BY DEF Programs
  <2>1. CASE k \in In("running")
    BY <1>1, <1>2, <2>1 DEF Inv, Programs
  <2>2. CASE ifd # None /\ k = c
    <3>1. n + 1 \in DOMAIN streams'
      BY <1>1
    <3> QED BY <1>4, <2>2, <3>1
  <2> QED BY <2>1, <2>2
<1>10. \A i \in DOMAIN streams' : streams'[i].ifd # None => streams'[i].kind = "PROG"
  BY <1>1, <1>2, <1>3, <1>4 DEF Inv
<1>11. Proper'
  <2> SUFFICES ASSUME ~foreign PROVE Proper'
    BY <1>5 DEF Proper
  <2>0. \A e \in Descriptors : fd[e] # Free => fd'[e] = fd[e]
    OBVIOUS
  <2>1. fd[Standard] = Connection /\ fd'[Standard] = Connection
    BY <2>0, StreamsAssumption DEF Inv, Proper, Connection, Free, Standard
  <2>2. ASSUME NEW i \in 1..n, streams[i].kind # "FD"
        PROVE  /\ Opened(streams[i], made) /\ fd[streams[i].fd] = streams[i].of
               /\ Opened(streams'[i], made') /\ fd'[streams'[i].fd] = streams'[i].of
               /\ streams'[i].ifd # None => fd'[streams'[i].ifd] = Second(streams'[i])
               /\ streams[i].of = Connection \/ streams[i].of.of # made + 1
    <3>1. /\ Opened(streams[i], made) /\ fd[streams[i].fd] = streams[i].of
          /\ streams[i].ifd # None => fd[streams[i].ifd] = Second(streams[i])
          /\ streams[i].fd \in Descriptors
          /\ streams[i].ifd # None => streams[i].ifd \in Descriptors
      BY <1>1, <1>2, <2>2 DEF Inv, Proper, Stream
    <3>2. streams[i].of # Free /\ Second(streams[i]) # Free
      BY <1>5, <3>1 DEF Opened, Second, Free, Connection
    <3>3. /\ fd'[streams[i].fd] = streams[i].of
          /\ streams[i].ifd # None => fd'[streams[i].ifd] = Second(streams[i])
      BY <2>0, <3>1, <3>2
    <3>4. 1..made \subseteq 1..made'
      BY <1>5
    <3>5. Opened(streams'[i], made') /\ Second(streams'[i]) = Second(streams[i])
      BY <1>2, <3>1, <3>4 DEF Opened, Second
    <3>6. streams[i].of = Connection \/ streams[i].of.of # made + 1
      BY <1>5, <3>1 DEF Opened
    <3> QED BY <1>2, <3>1, <3>3, <3>5, <3>6
  <2>3. kind # "FD" =>
          /\ Opened(streams'[n + 1], made') /\ fd'[streams'[n + 1].fd] = streams'[n + 1].of
          /\ streams'[n + 1].ifd # None => fd'[streams'[n + 1].ifd] = Second(streams'[n + 1])
    <3>1. made + 1 \in 1..made'
      BY <1>5
    <3> QED BY <1>4, <3>1 DEF Opened, Second
  <2>4. ASSUME NEW i \in 1..(n + 1), NEW j \in 1..(n + 1) PROVE i = j \/ Distinct(streams'[i], streams'[j])
    <3>1. CASE i \in 1..n /\ j \in 1..n
      BY <1>1, <1>2, <3>1 DEF Inv, Proper, Distinct
    <3>2. ASSUME NEW k \in 1..n
          PROVE  Distinct(streams'[k], streams'[n + 1]) /\ Distinct(streams'[n + 1], streams'[k])
      <4> SUFFICES ASSUME streams[k].kind # "FD", kind # "FD", streams[k].of.of = fd'[d].of
                   PROVE  streams[k].of = Connection /\ fd'[d] = Connection
        BY <1>2, <1>4 DEF Distinct
      <4>1. Opened(streams[k], made) /\ (streams[k].of = Connection \/ streams[k].of.of # made + 1)
        BY <2>2
      <4>2. CASE fd'[d].of = made + 1
        <5>1. streams[k].of = Connection
          BY <4>1, <4>2
        <5>2. made + 1 = 0
          BY <4>2, <5>1 DEF Connection
        <5> QED BY <1>5, <5>2
      <4>3. CASE fd'[d] = Connection
        <5>1. streams[k].of.of = 0
          BY <4>3 DEF Connection
        <5> QED BY <1>5, <4>1, <4>3, <5>1 DEF Opened
      <4> QED BY <4>2, <4>3
    <3> QED BY <1>3, <3>1, <3>2
  <2>5. \A i \in DOMAIN streams' : streams'[i].kind # "FD" =>
          /\ Opened(streams'[i], made') /\ fd'[streams'[i].fd] = streams'[i].of
          /\ streams'[i].ifd # None => fd'[streams'[i].ifd] = Second(streams'[i])
    BY <1>1, <1>2, <1>3, <1>4, <2>2, <2>3
  <2> QED BY <1>1, <2>1, <2>4, <2>5 DEF Proper, Opened, Second, Distinct
<1> QED BY <1>6, <1>7, <1>8, <1>9, <1>10, <1>11 DEF Inv

\* What a step leaves to the process's commands.
LEMMA SameProcess ==
  ASSUME Typed, UNCHANGED process
  PROVE  ProcessTypeOK' /\ In("running")' = In("running")
BY DEF Typed, TypeOK, ProcessTypeOK, process, In

\* A command that is started, or is not, because its execve() fails.
LEMMA Spawned ==
  ASSUME Typed, Spawn("stream")
  PROVE  /\ ProcessTypeOK' /\ started' \in 1..MaxChildren
         /\ \A k \in In("running")' : k \in In("running") \/ k = started'
<1>1. started' = started + 1 /\ started' \in 1..MaxChildren /\ started' \in Children
  BY PageProcessAssumption DEF Spawn, Typed, TypeOK, ProcessTypeOK, Children
<1>2. child \in [Children -> ChildStates]
  BY DEF Typed, TypeOK, ProcessTypeOK
<1>3. /\ child' \in [Children -> ChildStates] /\ sigchld' \in BOOLEAN
      /\ \A k \in Children : k # started' => child'[k] = child[k]
  <2>1. CASE child' = [child EXCEPT ![started'].at = "running"] /\ UNCHANGED sigchld
    <3>1. child' \in [Children -> ChildStates] /\ \A k \in Children : k # started' => child'[k] = child[k]
      BY <1>1, <1>2, <2>1 DEF ChildStates
    <3>2. sigchld' \in BOOLEAN
      BY <2>1 DEF Typed, TypeOK, ProcessTypeOK
    <3> QED BY <3>1, <3>2
  <2>2. CASE /\ child' = [child EXCEPT ![started'] = [at |-> "zombie", how |-> "127"]]
             /\ sigchld' = (sigchld \/ handler # "none")
    <3>1. [at |-> "zombie", how |-> "127"] \in ChildStates
      BY DEF ChildStates, Deaths
    <3>2. child' \in [Children -> ChildStates] /\ \A k \in Children : k # started' => child'[k] = child[k]
      BY <1>1, <1>2, <2>2, <3>1
    <3>3. sigchld' \in BOOLEAN
      BY <2>2
    <3> QED BY <3>2, <3>3
  <2> QED BY <2>1, <2>2 DEF Spawn
<1>4. ProcessTypeOK'
  <2>1. handler' \in {"none", "stream", "cgi"} /\ status' \in Deaths /\ told' \in 0..MaxChildren /\ alive' \in BOOLEAN
    BY DEF Spawn, Typed, TypeOK, ProcessTypeOK
  <2>2. started' \in 0..MaxChildren
    BY <1>1, PageProcessAssumption
  <2> QED BY <1>3, <2>1, <2>2 DEF ProcessTypeOK
<1> QED BY <1>1, <1>3, <1>4 DEF In

\* What a descriptor may be of.
LEMMA FreshObject ==
  ASSUME Typed, MayOpen, NEW end \in {"file", "host", "in", "out"}, NEW c \in 0..MaxChildren
  PROVE  /\ Fresh(end, c) \in Objects
         /\ Fresh(end, c).of = made + 1 /\ Fresh(end, c).end = end /\ Fresh(end, c).child = c
BY StreamsAssumption DEF Typed, TypeOK, MayOpen, Fresh, Objects

\* Files, hosts and standard descriptors.
LEMMA OpenKeeps == ASSUME Inv, NEW v \in Vars, Open(v) PROVE Inv'
<1>1. PICK end \in {"file", "host"}, kind \in {"FILE", "TCP"} :
        fd' = [fd EXCEPT ![Lowest(1)] = Fresh(end, 0)] /\ Install(v, kind, Lowest(1), None, 0)
  BY DEF Open
<1>2. MayOpen /\ Lowest(1) \in Descriptors /\ fd[Lowest(1)] = Free
  BY Lowests DEF Open, Inv, Unused
<1>3. Fresh(end, 0) \in Objects /\ Fresh(end, 0).of = made + 1 /\ Fresh(end, 0).end = end
  BY <1>2, FreshObject, PageProcessAssumption DEF Inv
<1>4. fd \in [Descriptors -> Objects]
  BY DEF Inv, Typed, TypeOK
<1>5. ProcessTypeOK' /\ In("running")' = In("running")
  BY SameProcess DEF Open, Inv
<1>6. fd' \in [Descriptors -> Objects] /\ fd'[Lowest(1)] = Fresh(end, 0)
      /\ \A e \in Descriptors : e # Lowest(1) => fd'[e] = fd[e]
  BY <1>1, <1>2, <1>3, <1>4
<1>7. kind \in Kinds /\ kind # "FD" /\ 0 \in 0..MaxChildren
  BY PageProcessAssumption DEF Kinds
<1>8. fd'[Lowest(1)].of = made + 1 /\ fd'[Lowest(1)].end # "out"
  BY <1>3, <1>6
<1>9. /\ \A e \in Descriptors : fd'[e] = fd[e] \/ fd[e] = Free
      /\ \A e \in Descriptors : fd'[e] = fd[e] \/ (e = Lowest(1) /\ kind # "FD")
  BY <1>2, <1>6, <1>7
<1>10. PICK d \in Descriptors : d = Lowest(1)
  BY <1>2
<1>11. MayOpen /\ Install(v, kind, d, None, 0) /\ 0 \in 0..MaxChildren /\ None \in Descriptors \cup {None}
  BY <1>1, <1>2, <1>7, <1>10
<1>16. holds' \in [Children -> SUBSET PipeEnds]
  BY DEF Open, Inv, Typed, TypeOK
<1>12. fd' \in [Descriptors -> Objects] /\ fd'[d].of = made + 1 /\ fd'[d].end # "out"
  BY <1>6, <1>8, <1>10
<1>13. \A e \in Descriptors : fd'[e] = fd[e] \/ e = d
  BY <1>9, <1>10
<1>14. "FILE" \in Kinds /\ "TCP" \in Kinds
  BY DEF Kinds
<1> HIDE DEF None
<1>15. ASSUME NEW k \in {"FILE", "TCP"}, Install(v, k, d, None, 0) PROVE Inv'
  <2>1. MayOpen
    BY <1>11
  <2>2. k \in Kinds /\ None \in Descriptors \cup {None} /\ 0 \in 0..MaxChildren
    BY <1>11, <1>14
  <2>3. fd' \in [Descriptors -> Objects] /\ ProcessTypeOK'
    BY <1>5, <1>12
  <2>4. \A e \in Descriptors : fd'[e] = fd[e] \/ fd[e] = Free
    BY <1>9
  <2>5. \A e \in Descriptors :
           \/ fd'[e] = fd[e] \/ Forgotten(fd'[e]) \/ e = None \/ (e = d /\ k # "FD")
    BY <1>13
  <2>6. ~foreign /\ k # "FD" =>
           \/ fd'[d] = Connection /\ k = "FILE" /\ d = Standard
           \/ fd'[d].of = made + 1 /\ fd'[d].end # "out"
    BY <1>12
  <2>7. \A c \in In("running")' : c \in In("running") \/ (None # None /\ c = 0)
    BY <1>5
  <2> QED BY <1>15, <1>16, <2>1, <2>2, <2>3, <2>4, <2>5, <2>6, <2>7, InstallKeeps
<1> QED BY <1>1, <1>10, <1>15

LEMMA OpenStandardKeeps == ASSUME Inv, NEW v \in Vars, OpenStandard(v) PROVE Inv'
<1>1. MayOpen /\ Install(v, "FILE", Standard, None, 0) /\ UNCHANGED <<fd, process>>
  BY DEF OpenStandard
<1>2. fd' \in [Descriptors -> Objects] /\ Standard \in Descriptors
  BY <1>1, StreamsAssumption DEF Inv, Typed, TypeOK, Standard
<1>3. ProcessTypeOK' /\ In("running")' = In("running")
  BY <1>1, SameProcess DEF Inv
<1>4. "FILE" \in Kinds /\ "FILE" # "FD" /\ 0 \in 0..MaxChildren
  BY PageProcessAssumption DEF Kinds
<1>5. ~foreign => fd'[Standard] = Connection
  BY <1>1 DEF Inv, Proper
<1>6. None \in Descriptors \cup {None} /\ fd' = fd /\ holds' \in [Children -> SUBSET PipeEnds]
  BY <1>1 DEF OpenStandard, Inv, Typed, TypeOK
<1> HIDE DEF None
<1> QED BY <1>1, <1>2, <1>3, <1>4, <1>5, <1>6, InstallKeeps

LEMMA OpenNumberKeeps ==
  ASSUME Inv, NEW v \in Vars, NEW d \in Descriptors, OpenNumber(v, d) PROVE Inv'
<1>1. MayOpen /\ Install(v, "FD", d, None, 0) /\ UNCHANGED <<fd, process>>
  BY DEF OpenNumber
<1>2. fd' \in [Descriptors -> Objects] /\ holds' \in [Children -> SUBSET PipeEnds]
  BY <1>1 DEF OpenNumber, Inv, Typed, TypeOK
<1>3. ProcessTypeOK' /\ In("running")' = In("running")
  BY <1>1, SameProcess DEF Inv
<1>4. "FD" \in Kinds /\ 0 \in 0..MaxChildren
  BY PageProcessAssumption DEF Kinds
<1> QED BY <1>1, <1>2, <1>3, <1>4, InstallKeeps

\* Programs: the ends of two pipes, with a child at the others or without.
LEMMA OpenProgramKeeps == ASSUME Inv, NEW v \in Vars, OpenProgram(v) PROVE Inv'
<1>1. /\ MayOpen /\ Lowest(2) \in Descriptors /\ Lowest(3) \in Descriptors /\ Lowest(2) # Lowest(3)
      /\ fd[Lowest(2)] = Free /\ fd[Lowest(3)] = Free
  BY Lowests DEF OpenProgram, Inv, Unused
<1>2. PICK c \in 0..MaxChildren :
        /\ fd' = [fd EXCEPT ![Lowest(2)] = Fresh("in", c), ![Lowest(3)] = Fresh("out", c)]
        /\ \/ Spawn("stream") /\ c = started' /\ Install(v, "PROG", Lowest(2), Lowest(3), c)
           \/ SpawnFails("stream") /\ c = 0 /\ Install(v, "PROG", Lowest(2), None, 0)
  <2>1. CASE /\ Spawn("stream")
             /\ fd' = [fd EXCEPT ![Lowest(2)] = Fresh("in", started'), ![Lowest(3)] = Fresh("out", started')]
             /\ Install(v, "PROG", Lowest(2), Lowest(3), started')
    <3>1. started' \in 0..MaxChildren
      BY <2>1, Spawned DEF Inv
    <3> QED BY <2>1, <3>1
  <2>2. CASE /\ SpawnFails("stream")
             /\ fd' = [fd EXCEPT ![Lowest(2)] = Fresh("in", 0), ![Lowest(3)] = Fresh("out", 0)]
             /\ Install(v, "PROG", Lowest(2), None, 0)
    <3>1. 0 \in 0..MaxChildren
      BY PageProcessAssumption
    <3> QED BY <2>2, <3>1
  <2> QED BY <2>1, <2>2 DEF OpenProgram
<1>3. /\ Fresh("in", c) \in Objects /\ Fresh("in", c).of = made + 1 /\ Fresh("in", c).end = "in"
      /\ Fresh("out", c) \in Objects /\ Fresh("out", c).end = "out" /\ Fresh("out", c).child = c
      /\ Fresh("out", c) = [of |-> made + 1, end |-> "out", child |-> c]
  BY <1>1, FreshObject DEF Inv, Fresh
<1>4. fd \in [Descriptors -> Objects]
  BY DEF Inv, Typed, TypeOK
<1>5. /\ fd' \in [Descriptors -> Objects]
      /\ fd'[Lowest(2)] = Fresh("in", c) /\ fd'[Lowest(3)] = Fresh("out", c)
      /\ \A e \in Descriptors : e # Lowest(2) /\ e # Lowest(3) => fd'[e] = fd[e]
  BY <1>1, <1>2, <1>3, <1>4
<1>6. fd'[Lowest(2)].of = made + 1 /\ fd'[Lowest(2)].end # "out"
  BY <1>3, <1>5
<1>7. "PROG" \in Kinds /\ "PROG" # "FD"
  BY DEF Kinds
<1>10. holds' \in [Children -> SUBSET PipeEnds]
  BY DEF OpenProgram, Inv, Typed, TypeOK, PipeEnds
<1>8. CASE Spawn("stream") /\ c = started' /\ Install(v, "PROG", Lowest(2), Lowest(3), c)
  <2>1. ProcessTypeOK' /\ \A k \in In("running")' : k \in In("running") \/ k = c
    BY <1>8, Spawned DEF Inv
  <2>2. Lowest(3) # None
    BY <1>1, StreamsAssumption DEF None
  <2> QED BY <1>1, <1>3, <1>5, <1>6, <1>7, <1>8, <1>10, <2>1, <2>2, InstallKeeps
<1>9. CASE SpawnFails("stream") /\ c = 0 /\ Install(v, "PROG", Lowest(2), None, 0)
  <2>1. ProcessTypeOK' /\ In("running")' = In("running")
    BY <1>9 DEF SpawnFails, Inv, Typed, TypeOK, ProcessTypeOK, In
  <2>2. Forgotten(fd'[Lowest(3)])
    BY <1>3, <1>5, <1>9 DEF Forgotten
  <2> QED BY <1>1, <1>5, <1>6, <1>7, <1>9, <1>10, <2>1, <2>2, InstallKeeps
<1> QED BY <1>2, <1>8, <1>9

-----------------------------------------------------------------------------
(* Streams end *)

\* A descriptor that the end of a stream closes: one of its own, if it closes
\* nothing else.
LEMMA ClosedOwn ==
  ASSUME NEW s \in Stream, NEW e \in Descriptors
  PROVE  /\ Owns(s, e) => e \in Closed(s)
         /\ e \in Closed(s) /\ ~(s.kind = "FD" /\ ~s.open) => Owns(s, e)
BY StreamsAssumption DEF Owns, Closed, None

\* discard_stream.
LEMMA DiscardKeeps == ASSUME Inv, Discard PROVE Inv'
<1> DEFINE n == Len(streams)
           s == streams[n]
<1>1. /\ n \in Nat \ {0} /\ n \in DOMAIN streams /\ DOMAIN streams = 1..n /\ s \in Stream
      /\ \A i \in 1..n : streams[i] \in Stream
  BY Places DEF Inv, Typed, Discard
<1>2. /\ streams' \in Seq(Stream) /\ Len(streams') = n - 1 /\ DOMAIN streams' = 1..(n - 1)
      /\ \A i \in 1..(n - 1) : streams'[i] = streams[i]
  <2>1. streams' = SubSeq(streams, 1, n - 1)
    BY DEF Discard
  <2>2. streams' = [i \in 1..(n - 1) |-> streams[i]]
    BY <1>1, <2>1 DEF Inv, Typed
  <2>3. \A i \in 1..(n - 1) : streams[i] \in Stream
    BY <1>1
  <2>4. n - 1 \in Nat
    BY <1>1
  <2>5. streams' \in [1..(n - 1) -> Stream]
    BY <2>2, <2>3
  <2>6. streams' \in Seq(Stream)
    BY <2>4, <2>5, SeqDef
  <2>7. Len(streams') = n - 1
    BY <2>2, <2>4
  <2> HIDE DEF n
  <2> QED BY <2>2, <2>6, <2>7
<1>3. /\ fd' = [d \in Descriptors |-> IF d \in Closed(s) THEN Free ELSE fd[d]]
      /\ Kill(Killed(s))
      /\ foreign' = (\/ foreign
                     \/ s.kind = "FILE" /\ s.of = Connection
                     \/ s.kind = "FD" /\ ~s.open)
      /\ op = NoOp /\ op' = NoOp /\ made' = made /\ ref' = ref
  BY DEF Discard
<1> HIDE DEF n, s
<1>4. \A i \in 1..(n - 1) : i \in 1..n /\ i # n
  BY <1>1
<1>5. \A i \in 1..n : i \in 1..(n - 1) \/ i = n
  BY <1>1
<1>6. ProcessTypeOK' /\ \A k \in In("running")' : k \in In("running") /\ k \notin Killed(s)
  <2>1. child' = [k \in Children |->
                    IF k \in Killed(s) /\ child[k].at = "running" THEN [child[k] EXCEPT !.at = "dying"] ELSE child[k]]
    BY <1>3 DEF Kill
  <2>2. child \in [Children -> ChildStates]
    BY DEF Inv, Typed, TypeOK, ProcessTypeOK
  <2>3. \A k \in Children :
          /\ child'[k] \in ChildStates
          /\ child'[k].at = "running" => child[k].at = "running" /\ k \notin Killed(s)
    BY <2>1, <2>2 DEF ChildStates
  <2>4. child' \in [Children -> ChildStates]
    BY <2>1, <2>3
  <2> QED BY <2>3, <2>4 DEF In, Inv, Typed, TypeOK, ProcessTypeOK, Discard
<1>7. Typed'
  <2>1. fd' \in [Descriptors -> Objects]
    <3>1. Free \in Objects
      BY StreamsAssumption, PageProcessAssumption DEF Free, Objects
    <3> QED BY <1>3, <3>1 DEF Inv, Typed, TypeOK
  <2>2. Len(streams') <= MaxDepth /\ \A i \in DOMAIN streams' : streams'[i] \in Stream
    <3>1. n \in Nat /\ n <= MaxDepth /\ MaxDepth \in Nat
      BY <1>1, StreamsAssumption DEF Inv, Typed, TypeOK, n
    <3>2. Len(streams') <= MaxDepth
      BY <1>2, <3>1
    <3>3. \A i \in 1..(n - 1) : streams'[i] \in Stream
      BY <1>1, <1>2, <1>4
    <3> QED BY <1>2, <3>2, <3>3
  <2>3. timedOut' \in BOOLEAN /\ jumping' \in BOOLEAN /\ foreign' \in BOOLEAN
    BY <1>3 DEF Discard, Inv, Typed, TypeOK
  <2>5. holds' \in [Children -> SUBSET PipeEnds]
    BY DEF Discard, Inv, Typed, TypeOK
  <2>4. op' \in [what : Operations \cup {"none"}, i : 0..MaxDepth]
    BY <1>3 DEF Inv, Typed, TypeOK
  <2> QED BY <1>2, <1>3, <1>6, <2>1, <2>2, <2>3, <2>4, <2>5 DEF Inv, Typed, TypeOK
<1>8. Bound' /\ \A i \in DOMAIN streams' : streams'[i].ifd # None => streams'[i].kind = "PROG"
  BY <1>1, <1>2, <1>3, <1>4 DEF Inv, Bound
<1>9. Owned'
  <2> SUFFICES ASSUME NEW e \in Descriptors \ {Standard}, fd'[e] # Free, ~Forgotten(fd'[e])
               PROVE  \E i \in DOMAIN streams' : Owns(streams'[i], e)
    BY DEF Owned
  <2>1. e \notin Closed(s) /\ fd'[e] = fd[e]
    BY <1>3
  <2>2. PICK i \in DOMAIN streams : Owns(streams[i], e)
    BY <2>1 DEF Inv, Owned
  <2>3. i # n
    BY <1>1, <2>1, <2>2, ClosedOwn DEF s
  <2> QED BY <1>1, <1>2, <1>5, <2>2, <2>3
<1>10. Programs'
  <2> SUFFICES ASSUME NEW k \in In("running")'
               PROVE  \E i \in DOMAIN streams' : streams'[i].ifd # None /\ streams'[i].child = k
    BY DEF Programs
  <2>1. PICK i \in DOMAIN streams : streams[i].ifd # None /\ streams[i].child = k
    BY <1>6 DEF Inv, Programs
  <2>2. i # n
    BY <1>6, <2>1 DEF Killed, s
  <2> QED BY <1>1, <1>2, <1>5, <2>1, <2>2
<1>11. Proper'
  <2> SUFFICES ASSUME ~foreign' PROVE Proper'
    BY DEF Proper
  <2>1. ~foreign /\ ~(s.kind = "FILE" /\ s.of = Connection) /\ ~(s.kind = "FD" /\ ~s.open)
    BY <1>3
  <2>2. ASSUME NEW e \in Descriptors, e \in Closed(s)
        PROVE  s.kind # "FD" /\ fd[e].of = s.of.of /\ s.of.of # 0 /\ s.of # Connection
    <3>1. Owns(s, e)
      BY <1>1, <2>1, <2>2, ClosedOwn
    <3>2. s.kind # "FD" /\ (e = s.fd \/ (e = s.ifd /\ s.ifd # None))
      BY <1>1, <3>1, StreamsAssumption DEF Owns, Inv, None, s
    <3>3. /\ Opened(s, made) /\ fd[s.fd] = s.of
          /\ s.ifd # None => fd[s.ifd] = Second(s)
      BY <1>1, <2>1, <3>2 DEF Inv, Proper, s
    <3>4. s.of.of \in 1..made /\ made \in Nat
      BY <2>1, <3>3, StreamsAssumption DEF Opened, Inv, Typed, TypeOK
    <3>5. fd[e].of = s.of.of
      BY <3>2, <3>3 DEF Second
    <3> QED BY <3>2, <3>4, <3>5 DEF Connection
  <2>3. fd'[Standard] = Connection
    <3>1. fd[Standard] = Connection /\ Standard \in Descriptors
      BY <2>1, StreamsAssumption DEF Inv, Proper, Standard
    <3>2. Standard \notin Closed(s)
      BY <2>2, <3>1 DEF Connection
    <3> QED BY <1>3, <3>1, <3>2
  <2>4. ASSUME NEW i \in 1..(n - 1), streams[i].kind # "FD"
        PROVE  /\ Opened(streams[i], made) /\ fd'[streams[i].fd] = streams[i].of
               /\ streams[i].ifd # None => fd'[streams[i].ifd] = Second(streams[i])
    <3>1. /\ Opened(streams[i], made) /\ fd[streams[i].fd] = streams[i].of
          /\ streams[i].ifd # None => fd[streams[i].ifd] = Second(streams[i])
      BY <1>1, <1>4, <2>1, <2>4 DEF Inv, Proper
    <3>2. streams[i].fd \in Descriptors /\ streams[i].ifd \in Descriptors \cup {None}
      BY <1>1, <1>4 DEF Stream
    <3>3. s.kind # "FD" => Distinct(streams[i], s)
      BY <1>1, <1>4, <2>1 DEF Inv, Proper, s
    <3>4. s.kind # "FD" /\ s.of.of # 0 => streams[i].of.of # s.of.of
      BY <2>4, <3>3 DEF Distinct, Connection
    <3>5. ASSUME NEW e \in Descriptors, fd[e].of = streams[i].of.of PROVE e \notin Closed(s)
      BY <2>2, <3>4, <3>5
    <3>6. streams[i].fd \notin Closed(s)
      BY <3>1, <3>2, <3>5
    <3>7. streams[i].ifd # None => streams[i].ifd \notin Closed(s)
      BY <3>1, <3>2, <3>5 DEF Second
    <3> QED BY <1>3, <3>1, <3>2, <3>6, <3>7
  <2>5. \A i, j \in 1..(n - 1) : i = j \/ Distinct(streams[i], streams[j])
    BY <1>1, <1>4, <2>1 DEF Inv, Proper
  <2>6. \A i \in DOMAIN streams' : streams'[i].kind # "FD" =>
          /\ Opened(streams'[i], made') /\ fd'[streams'[i].fd] = streams'[i].of
          /\ streams'[i].ifd # None => fd'[streams'[i].ifd] = Second(streams'[i])
    BY <1>2, <1>3, <2>4
  <2>7. \A i, j \in DOMAIN streams' : i = j \/ Distinct(streams'[i], streams'[j])
    BY <1>2, <2>5
  <2> QED BY <2>3, <2>6, <2>7 DEF Proper, Opened, Second, Distinct
<1> QED BY <1>7, <1>8, <1>9, <1>10, <1>11 DEF Inv

-----------------------------------------------------------------------------
(* Operations, jumps and deaths *)

\* The streams are those that there were, whichever have come to their end.
LEMMA SameStreams ==
  ASSUME Inv, Typed', UNCHANGED <<fd, made, ref, foreign>>,
         DOMAIN streams' = DOMAIN streams,
         \A i \in DOMAIN streams :
           /\ streams'[i].kind = streams[i].kind /\ streams'[i].var = streams[i].var
           /\ streams'[i].fd = streams[i].fd /\ streams'[i].ifd = streams[i].ifd
           /\ streams'[i].child = streams[i].child /\ streams'[i].of = streams[i].of
           /\ streams'[i].shadowed = streams[i].shadowed,
         In("running")' \subseteq In("running")
  PROVE  Inv'
<1>1. Bound' /\ \A i \in DOMAIN streams' : streams'[i].ifd # None => streams'[i].kind = "PROG"
  BY DEF Inv, Bound
<1>2. Owned'
  BY DEF Inv, Owned, Owns
<1>3. Programs'
  BY DEF Inv, Programs
<1>4. Proper'
  BY DEF Inv, Proper, Opened, Second, Distinct
<1> QED BY <1>1, <1>2, <1>3, <1>4 DEF Inv

\* An operation returns.
LEMMA ReturnKeeps ==
  ASSUME Inv, op # NoOp, NEW open \in BOOLEAN, Return(open), timedOut' \in BOOLEAN,
         ProcessTypeOK', In("running")' \subseteq In("running")
  PROVE  Inv'
<1>1. /\ op.i \in DOMAIN streams /\ streams \in Seq(Stream) /\ DOMAIN streams = 1..Len(streams)
      /\ Len(streams) \in Nat /\ \A i \in DOMAIN streams : streams[i] \in Stream
  BY Places DEF Inv, Typed, TypeOK
<1>2. /\ streams' = [streams EXCEPT ![op.i].open = open] /\ op' = NoOp
      /\ UNCHANGED <<fd, made, ref, jumping, foreign, holds>>
  BY DEF Return
<1>3. /\ DOMAIN streams' = DOMAIN streams
      /\ \A i \in DOMAIN streams :
           /\ streams'[i] \in Stream
           /\ streams'[i].kind = streams[i].kind /\ streams'[i].var = streams[i].var
           /\ streams'[i].fd = streams[i].fd /\ streams'[i].ifd = streams[i].ifd
           /\ streams'[i].child = streams[i].child /\ streams'[i].of = streams[i].of
           /\ streams'[i].shadowed = streams[i].shadowed
  BY <1>1, <1>2 DEF Stream
<1>4. streams' \in Seq(Stream) /\ Len(streams') = Len(streams)
  <2>1. streams' \in [1..Len(streams) -> Stream]
    BY <1>1, <1>2, <1>3
  <2> QED BY <1>1, <1>2, <2>1, SeqDef
<1>5. Typed'
  <2>1. op' \in [what : Operations \cup {"none"}, i : 0..MaxDepth]
    BY <1>2, StreamsAssumption DEF NoOp
  <2> QED BY <1>2, <1>3, <1>4, <2>1 DEF Inv, Typed, TypeOK
<1> QED BY <1>2, <1>3, <1>5, SameStreams

\* Where the page is in an operation.
LEMMA Operating == ASSUME NEW what \in Operations, Busy(what) PROVE op # NoOp
<1>1. op.what = what /\ what # "none"
  BY DEF Busy, Operations
<1> QED BY <1>1 DEF NoOp

LEMMA Selecting == ASSUME Selects PROVE op # NoOp
<1>1. op.what # "none"
  BY DEF Selects
<1> QED BY <1>1 DEF NoOp

\* The operations of the page.
LEMMA OperateKeeps == ASSUME Inv, Operate PROVE Inv'
<1>1. timedOut \in BOOLEAN /\ (~timedOut) \in BOOLEAN
  BY DEF Inv, Typed, TypeOK
<1>2. UNCHANGED process => ProcessTypeOK' /\ In("running")' \subseteq In("running")
  BY SameProcess DEF Inv
<1>3. CASE SelectGivesUp
  <2>1. op # NoOp
    BY <1>3, Selecting DEF SelectGivesUp
  <2>2. Return(FALSE) /\ timedOut' = TRUE /\ UNCHANGED process
    BY <1>3 DEF SelectGivesUp, GivesUp
  <2> QED BY <1>2, <2>1, <2>2, ReturnKeeps
<1>4. CASE ReadLine
  <2>1. op # NoOp
    BY <1>4, Operating DEF ReadLine, Operations
  <2>2. UNCHANGED <<process, timedOut>> /\ (Return(~timedOut) \/ Return(FALSE))
    BY <1>4, Zenon DEF ReadLine
  <2> QED BY <1>1, <1>2, <2>1, <2>2, ReturnKeeps
<1>5. CASE ReadAll
  <2>1. op # NoOp
    BY <1>5, Operating DEF ReadAll, Operations
  <2>2. UNCHANGED <<process, timedOut>> /\ (Return(~timedOut) \/ Return(FALSE))
    BY <1>5, Zenon DEF ReadAll
  <2> QED BY <1>1, <1>2, <2>1, <2>2, ReturnKeeps
<1>6. CASE ReadChunk
  <2>1. op # NoOp
    BY <1>6, Operating DEF ReadChunk, Operations
  <2>2. UNCHANGED <<process, timedOut>> /\ Return(FALSE)
    BY <1>6, Zenon DEF ReadChunk
  <2> QED BY <1>1, <1>2, <2>1, <2>2, ReturnKeeps
<1>7. CASE PutSelect
  <2>1. op' = [op EXCEPT !.what = "write"] /\ op # NoOp
    BY <1>7, Operating DEF PutSelect, Operations
  <2>2. /\ op' \in [what : Operations \cup {"none"}, i : 0..MaxDepth] /\ op'.i = op.i
    BY <2>1 DEF Inv, Typed, TypeOK, Operations
  <2>3. ProcessTypeOK' /\ In("running")' \subseteq In("running")
    BY <1>2, <1>7 DEF PutSelect
  <2>4. UNCHANGED <<fd, made, streams, ref, timedOut, jumping, foreign, holds>>
    BY <1>7 DEF PutSelect
  <2>5. Typed'
    BY <2>1, <2>2, <2>3, <2>4 DEF Inv, Typed, TypeOK
  <2> QED BY <2>3, <2>4, <2>5, SameStreams
<1>8. CASE Write
  <2>1. op # NoOp
    BY <1>8, Operating DEF Write, Operations
  <2>3. /\ UNCHANGED timedOut /\ (Return(~timedOut) \/ Return(FALSE))
        /\ (UNCHANGED process \/ BrokenPipe)
    BY <1>8, Zenon DEF Write
  <2>2. ASSUME BrokenPipe PROVE ProcessTypeOK' /\ In("running")' \subseteq In("running")
    <3>1. alive' \in BOOLEAN /\ UNCHANGED <<child, started, handler, sigchld, status, told>>
      BY <2>2 DEF BrokenPipe
    <3> QED BY <3>1 DEF Inv, Typed, TypeOK, ProcessTypeOK, In
  <2> QED BY <1>1, <1>2, <2>1, <2>2, <2>3, ReturnKeeps
<1> QED BY <1>3, <1>4, <1>5, <1>6, <1>7, <1>8 DEF Operate

\* A stream is left as it is by an operation's beginning, a jump's and by what
\* befalls the program.
LEMMA BeginKeeps == ASSUME Inv, NEW v \in Vars, Begin(v) PROVE Inv'
<1>1. PICK what \in Operations \ {"write"} : op' = [what |-> what, i |-> Reach(v)]
  BY DEF Begin
<1>2. UNCHANGED <<process, fd, made, streams, ref, timedOut, jumping, foreign, holds>>
  BY DEF Begin
<1>3. ProcessTypeOK' /\ In("running")' = In("running")
  BY <1>2, SameProcess DEF Inv
<1>4. Reach(v) \in DOMAIN streams /\ Reach(v) \in 0..MaxDepth /\ streams[Reach(v)].open
  <2>1. ref[v] \in 0..MaxDepth /\ Reach(v) # None
    BY DEF Begin, Inv, Typed, TypeOK
  <2>2. Reach(v) = ref[v] /\ ref[v] \in DOMAIN streams
    BY <2>1 DEF Reach
  <2> QED BY <2>1, <2>2 DEF Begin
<1>5. op' \in [what : Operations \cup {"none"}, i : 0..MaxDepth] /\ op'.i = Reach(v)
  BY <1>1, <1>4
<1>6. Typed'
  BY <1>2, <1>3, <1>4, <1>5 DEF Inv, Typed, TypeOK, Begin
<1> QED BY <1>2, <1>3, <1>6, SameStreams

LEMMA JumpKeeps == ASSUME Inv, Jump PROVE Inv'
<1>1. UNCHANGED <<process, fd, made, streams, ref, timedOut, op, foreign, holds>> /\ op = NoOp /\ jumping' = TRUE
  BY DEF Jump
<1>2. ProcessTypeOK' /\ In("running")' = In("running")
  BY <1>1, SameProcess DEF Inv
<1>3. Typed'
  BY <1>1, <1>2 DEF Inv, Typed, TypeOK
<1> QED BY <1>1, <1>2, <1>3, SameStreams

LEMMA ReleaseKeeps == ASSUME Inv, StreamRelease PROVE Inv'
<1>1. PICK c \in In("zombie") : child' = [child EXCEPT ![c].at = "released"]
  BY DEF StreamRelease, Release
<1>2. child \in [Children -> ChildStates] /\ c \in Children
  BY DEF Inv, Typed, TypeOK, ProcessTypeOK, In
<1>3. /\ child' \in [Children -> ChildStates]
      /\ \A k \in Children : child'[k].at = "running" => child[k].at = "running"
  BY <1>1, <1>2 DEF ChildStates
<1>4. status' \in Deaths /\ told' \in 0..MaxChildren
  <2>1. PICK k \in In("zombie") : \/ status' = child[k].how /\ told' = k
                                 \/ UNCHANGED <<status, told>>
    BY DEF StreamRelease, Release
  <2>2. child[k].how \in Deaths /\ k \in 0..MaxChildren
    BY <1>2, <2>1, PageProcessAssumption DEF ChildStates, In, Children
  <2> QED BY <2>1, <2>2 DEF Inv, Typed, TypeOK, ProcessTypeOK
<1>5. ProcessTypeOK' /\ In("running")' \subseteq In("running")
  <2>1. sigchld' = FALSE /\ UNCHANGED <<started, handler, alive>>
    BY DEF StreamRelease, Release
  <2> QED BY <1>3, <1>4, <2>1 DEF Inv, Typed, TypeOK, ProcessTypeOK, In
<1>6. CASE Selects /\ GivesUp
  <2>1. op # NoOp
    BY <1>6, Selecting
  <2>2. Return(FALSE) /\ timedOut' = TRUE
    BY <1>6 DEF GivesUp
  <2> QED BY <1>5, <2>1, <2>2, ReturnKeeps
<1>7. CASE UNCHANGED own
  <2>1. Typed'
    BY <1>5, <1>7 DEF own, page, Inv, Typed, TypeOK
  <2> QED BY <1>5, <1>7, <2>1, SameStreams DEF own, page
<1>8. CASE /\ Busy("write") /\ op' = [op EXCEPT !.what = "put"]
           /\ UNCHANGED <<fd, made, streams, ref, timedOut, jumping, foreign, holds>>
  <2>1. op # NoOp /\ op' \in [what : Operations \cup {"none"}, i : 0..MaxDepth] /\ op'.i = op.i
    BY <1>8, Operating DEF Inv, Typed, TypeOK, Operations
  <2>2. Typed'
    BY <1>5, <1>8, <2>1 DEF Inv, Typed, TypeOK
  <2> QED BY <1>5, <1>8, <2>2, SameStreams
<1> QED BY <1>6, <1>7, <1>8 DEF StreamRelease

LEMMA DieKeeps == ASSUME Inv, NEW c \in Children, Die(c), UNCHANGED own PROVE Inv'
<1>1. PICK how \in {"exit", "killed"} : child' = [child EXCEPT ![c] = [at |-> "zombie", how |-> how]]
  BY DEF Die
<1>2. child \in [Children -> ChildStates] /\ [at |-> "zombie", how |-> how] \in ChildStates
  BY DEF Inv, Typed, TypeOK, ProcessTypeOK, ChildStates, Deaths
<1>3. /\ child' \in [Children -> ChildStates]
      /\ \A k \in Children : child'[k].at = "running" => child[k].at = "running"
  BY <1>1, <1>2
<1>4. ProcessTypeOK' /\ In("running")' \subseteq In("running")
  <2>1. sigchld' = TRUE /\ UNCHANGED <<started, handler, status, told, alive>>
    BY DEF Die
  <2> QED BY <1>3, <2>1 DEF Inv, Typed, TypeOK, ProcessTypeOK, In
<1>5. Typed'
  BY <1>4 DEF own, page, Inv, Typed, TypeOK
<1> QED BY <1>4, <1>5, SameStreams DEF own, page

LEMMA DropKeeps == ASSUME Inv, NEW c \in Children, NEW end \in PipeEnds, Drop(c, end) PROVE Inv'
<1>1. UNCHANGED <<process, fd, made, streams, ref, timedOut, op, jumping, foreign>>
  BY DEF Drop, page
<1>2. holds' \in [Children -> SUBSET PipeEnds]
  BY DEF Drop, Inv, Typed, TypeOK
<1>3. ProcessTypeOK' /\ In("running")' = In("running")
  BY <1>1, SameProcess DEF Inv
<1>4. Typed'
  BY <1>1, <1>2, <1>3 DEF Inv, Typed, TypeOK
<1> QED BY <1>1, <1>3, <1>4, SameStreams

-----------------------------------------------------------------------------
(* Theorems *)

LEMMA NextKeeps == Inv /\ [Next]_vars => Inv'
<1> SUFFICES ASSUME Inv, [Next]_vars PROVE Inv'
  OBVIOUS
<1>1. CASE UNCHANGED vars
  <2>1. UNCHANGED process /\ UNCHANGED own
    BY <1>1 DEF vars
  <2>2. ProcessTypeOK' /\ In("running")' = In("running")
    BY <2>1, SameProcess DEF Inv
  <2>3. Typed'
    BY <2>1, <2>2 DEF own, page, Inv, Typed, TypeOK
  <2> QED BY <2>1, <2>2, <2>3, SameStreams DEF own, page
<1>2. ASSUME NEW v \in Vars, Open(v) \/ OpenStandard(v) \/ OpenProgram(v) \/ Begin(v) PROVE Inv'
  BY <1>2, OpenKeeps, OpenStandardKeeps, OpenProgramKeeps, BeginKeeps
<1>3. ASSUME NEW v \in Vars, NEW d \in Descriptors, OpenNumber(v, d) PROVE Inv'
  BY <1>3, OpenNumberKeeps
<1>6. ASSUME NEW c \in Children, NEW end \in PipeEnds, Drop(c, end) PROVE Inv'
  BY <1>6, DropKeeps
<1>4. CASE Discard \/ Jump \/ Operate \/ StreamRelease
  BY <1>4, DiscardKeeps, JumpKeeps, OperateKeeps, ReleaseKeeps
<1>5. ASSUME NEW c \in Children, Die(c), UNCHANGED own PROVE Inv'
  BY <1>5, DieKeeps
<1> QED BY <1>1, <1>2, <1>3, <1>4, <1>5, <1>6, StreamsAssumption DEF Next

LEMMA Always == Spec => []Inv
BY Initially, NextKeeps, PTL DEF Spec

\* In the body of a with-open-stream its variable stands for its stream until it
\* is bound again, and the stream is on the descriptor that was opened for it:
\* discard_stream closes no other's, until one closes what it had not opened.
THEOREM OnItsOwn == Spec => []IInv
<1>1. Inv => IInv
  BY DEF Inv, Typed, Bound, Proper, IInv, OwnStream
<1> QED BY <1>1, Always, PTL

\* However the bodies have been left, no descriptor and no program is left after
\* them, but the one descriptor that with-open-stream forgets.
THEOREM NothingStays == Spec => []NothingLeft
<1>1. Inv => NothingLeft
  BY DEF Inv, Owned, Programs, Proper, Forgotten, NothingLeft
<1> QED BY <1>1, Always, PTL

=============================================================================

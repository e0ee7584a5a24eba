----------------------------- MODULE Page_proofs -----------------------------
(***************************************************************************)
(* Proofs about what a page has around it: PageEnvironment and CgiExec.     *)
(*                                                                          *)
(* Of its environments: what a jump enters, and which package a body is in, *)
(* for any depth of bodies, packages and pages.  That the target is the     *)
(* innermost body that called setjmp() is kept because each body has saved  *)
(* what was the innermost around it: the induction is on EnvironmentsSaved  *)
(* as well.                                                                 *)
(*                                                                          *)
(* Of <cgi-exec>: the handler of SIGCHLD never waits, and what a command    *)
(* has written is read, for any commands and any pipes.                     *)
(***************************************************************************)
EXTENDS PageEnvironment, CgiExec, SequenceTheorems, FiniteSetTheorems, WellFoundedInduction, TLAPS

-----------------------------------------------------------------------------
(* Environments *)

Stacked == \E S : frames \in Seq(S)

Inv == Stacked /\ IInv

\* A sequence over a set is one over any greater set.
LEMMA SeqOfMore ==
  ASSUME NEW S, NEW T, S \subseteq T, NEW s \in Seq(S)
  PROVE  s \in Seq(T)
OBVIOUS

\* Into a body: of pf_in_package and the other operators.
LEMMA EnterKeeps ==
  ASSUME NEW frame, Inv, ~jumping, Enter(frame), frame.saved = target,
         frame.kind # "page"
  PROVE  Inv'
<1>1. PICK S : frames \in Seq(S)
  BY DEF Inv, Stacked
<1>2. frames \in Seq(S \cup {frame})
  BY <1>1, SeqOfMore
<1>3. /\ frames' \in Seq(S \cup {frame}) /\ Len(frames') = Depth + 1 /\ Depth \in Nat
      /\ \A i \in 1..Depth : frames'[i] = frames[i]
      /\ frames'[Depth + 1] = frame
  BY <1>2 DEF Enter, Depth
<1>4. TargetInnermost'
  BY <1>3 DEF Inv, IInv, TargetInnermost, Innermost, Enter, Depth
<1>5. EnvironmentsSaved'
  BY <1>1, <1>3 DEF Inv, IInv, TargetInnermost, EnvironmentsSaved, Saved, Innermost, Enter, Depth
<1> QED BY <1>3, <1>4, <1>5 DEF Inv, Stacked, IInv

\* The bodies that remain have saved what they had.
LEMMA RemainingSaved ==
  ASSUME Inv, NEW n \in Nat, n <= Depth,
         NEW S, frames \in Seq(S), frames' \in Seq(S), Depth' = n,
         \A i \in 1..n : frames'[i] = frames[i]
  PROVE  \A i \in DOMAIN frames' : Saved(i)'
<1> SUFFICES ASSUME NEW i \in DOMAIN frames'
             PROVE  Saved(i)'
  OBVIOUS
<1>1. i \in 1..n /\ i \in DOMAIN frames
  BY DEF Depth
<1>2. Saved(i)
  BY <1>1 DEF Inv, IInv, EnvironmentsSaved
<1> QED BY <1>1, <1>2 DEF Saved, Innermost

\* Out of a body of an operator that called setjmp(): at its end or by a jump.
LEMMA RestoreKeeps ==
  ASSUME Inv, NEW kind \in Protected \ {"page"}, Leaves(kind), Leave, Restore
  PROVE  Inv'
<1>1. PICK S : frames \in Seq(S)
  BY DEF Inv, Stacked
<1>2. Depth \in Nat /\ DOMAIN frames = 1..Depth /\ Leaving \in 1..Depth
  BY <1>1 DEF Inv, IInv, TargetInnermost, EnvironmentsSaved, Saved, Innermost, Depth, Leaving, Leaves, Protected
<1>3. /\ frames' \in Seq(S) /\ Depth' = Leaving - 1
      /\ \A i \in 1..Leaving - 1 : frames'[i] = frames[i]
  BY <1>1, <1>2 DEF Leave, Depth
<1>4. Innermost(frames[Leaving].saved, Leaving - 1)
  BY <1>2 DEF Inv, IInv, EnvironmentsSaved, Saved, Leaves
<1>5. TargetInnermost'
  BY <1>2, <1>3, <1>4 DEF TargetInnermost, Innermost, Restore
<1>6. EnvironmentsSaved'
  <2>1. \A i \in DOMAIN frames' : Saved(i)'
    BY <1>1, <1>2, <1>3, RemainingSaved
  <2>2. jumping => Leaving # 1
    BY DEF Inv, IInv, EnvironmentsSaved, Saved, Leaves
  <2>3. jumping' => frames' # <<>> /\ frames'[1].kind = "page"
    BY <1>2, <1>3, <2>2 DEF Inv, IInv, EnvironmentsSaved, Saved, Restore, Depth
  <2> QED BY <2>1, <2>3 DEF EnvironmentsSaved
<1> QED BY <1>3, <1>5, <1>6 DEF Inv, Stacked, IInv

\* Out of the body of a function, or off the last page.
LEMMA LeaveKeeps ==
  ASSUME Inv, NEW kind \in Kinds \ Protected, Leaves(kind), Leave,
         UNCHANGED <<target, jumping>>
  PROVE  Inv'
<1>1. PICK S : frames \in Seq(S)
  BY DEF Inv, Stacked
<1>2. Depth \in Nat /\ DOMAIN frames = 1..Depth /\ Depth > 0
  BY <1>1 DEF Depth, Leaves
<1>3. ~jumping
  <2> SUFFICES ASSUME jumping PROVE FALSE
    OBVIOUS
  <2>1. frames[1].kind \in Protected
    BY DEF Inv, IInv, EnvironmentsSaved, Saved, Protected
  <2>2. frames[target].kind \in Protected
    BY <1>2, <2>1 DEF Inv, IInv, TargetInnermost, Innermost
  <2> QED BY <2>2 DEF Leaves, Leaving
<1>4. Leaving = Depth
  BY <1>3 DEF Leaving
<1>5. /\ frames' \in Seq(S) /\ Depth' = Depth - 1
      /\ \A i \in 1..Depth - 1 : frames'[i] = frames[i]
  BY <1>1, <1>2, <1>4 DEF Leave, Depth
<1>6. TargetInnermost'
  BY <1>2, <1>4, <1>5 DEF Inv, IInv, TargetInnermost, Innermost, Leaves
<1>7. EnvironmentsSaved'
  <2>1. \A i \in DOMAIN frames' : Saved(i)'
    BY <1>1, <1>2, <1>5, RemainingSaved
  <2> QED BY <1>3, <2>1 DEF EnvironmentsSaved
<1> QED BY <1>5, <1>6, <1>7 DEF Inv, Stacked, IInv

\* The last body that is left is the page's.
LEMMA LeavePageKeeps ==
  ASSUME Inv, LeavePage
  PROVE  Inv'
<1>1. PICK S : frames \in Seq(S)
  BY DEF Inv, Stacked
<1>2. Depth \in Nat /\ DOMAIN frames = 1..Depth /\ Leaving \in 1..Depth
  BY <1>1 DEF Inv, IInv, TargetInnermost, EnvironmentsSaved, Saved, Innermost, Depth, Leaving, Leaves, Protected, LeavePage
<1>3. Leaving = 1
  BY <1>2 DEF Inv, IInv, EnvironmentsSaved, Saved, LeavePage, Leaves
<1>4. frames' = <<>>
  BY <1>1, <1>2, <1>3 DEF LeavePage, Leave
<1> QED BY <1>4 DEF Inv, Stacked, IInv, TargetInnermost, EnvironmentsSaved, Saved, Innermost, LeavePage, Depth

\* At first there is no body and no target.
LEMMA Initially == Init => Inv
<1> SUFFICES ASSUME Init PROVE Inv
  OBVIOUS
<1>1. Stacked
  <2>1. frames \in Seq({})
    BY DEF Init
  <2> QED BY <2>1 DEF Stacked
<1> QED BY <1>1 DEF Inv, IInv, TargetInnermost, EnvironmentsSaved, Innermost, Init, Depth

\* A page, or the one after, begins where no body is left.
LEMMA BeginKeeps ==
  ASSUME Inv, frames = <<>>, UNCHANGED jumping,
         NEW frame, frame.saved = target, frames' = <<frame>>,
         \/ frame.kind = "page" /\ target' = 1
         \/ frame.kind = "after" /\ UNCHANGED target
  PROVE  Inv'
<1>1. target = 0 /\ ~jumping
  BY DEF Inv, IInv, TargetInnermost, EnvironmentsSaved, Innermost, Depth
<1>2. frames' \in Seq({frame}) /\ Len(frames') = 1 /\ frames'[1] = frame
  OBVIOUS
<1>3. TargetInnermost'
  BY <1>1, <1>2 DEF TargetInnermost, Innermost, Depth, Protected
<1>4. EnvironmentsSaved'
  BY <1>1, <1>2 DEF EnvironmentsSaved, Saved, Innermost, Protected
<1> QED BY <1>2, <1>3, <1>4 DEF Inv, Stacked, IInv

\* A function with a package of its own, and mhtml_let within it.
LEMMA CallNamedKeeps ==
  ASSUME Inv, CallNamed
  PROVE  Inv'
<1>1. PICK name \in Names :
        frames' = frames \o
          <<Frame("named", Got(packs, name), current),
            [Frame("let", Got(packs, name), NULL)
               EXCEPT !.outer = Got(packs, name), !.name = name]>>
  BY DEF CallNamed
<1> DEFINE function == Frame("named", Got(packs, name), current)
           let == [Frame("let", Got(packs, name), NULL)
                     EXCEPT !.outer = Got(packs, name), !.name = name]
<1>2. /\ function.kind = "named"
      /\ let.kind = "let" /\ let.saved = target
  BY DEF Frame
<1> HIDE DEF function, let
<1>3. PICK S : frames \in Seq(S)
  BY DEF Inv, Stacked
<1>4. frames \in Seq(S \cup {function, let}) /\ <<function, let>> \in Seq(S \cup {function, let})
  BY <1>3, SeqOfMore
<1>5. /\ frames' \in Seq(S \cup {function, let}) /\ Depth \in Nat /\ Depth' = Depth + 2
      /\ \A i \in 1..Depth : frames'[i] = frames[i]
      /\ frames'[Depth + 1] = function /\ frames'[Depth + 2] = let
  BY <1>1, <1>4 DEF Depth, function, let
<1>6. ~jumping /\ ~jumping' /\ target' = Depth + 2
  BY DEF CallNamed, Deeper, Evaluating
<1>7. TargetInnermost'
  BY <1>2, <1>5, <1>6 DEF TargetInnermost, Innermost, Protected
<1>8. ASSUME NEW i \in DOMAIN frames' PROVE Saved(i)'
  <2>1. CASE i \in 1..Depth
    <3>1. frames'[i] = frames[i] /\ Saved(i)
      BY <1>3, <1>5, <2>1 DEF Inv, IInv, EnvironmentsSaved, Depth
    <3>2. \A j \in 1..i : frames'[j] = frames[j]
      BY <1>5, <2>1
    <3>3. ASSUME NEW t, Innermost(t, i - 1)
          PROVE  Innermost(t, i - 1)'
      BY <1>5, <2>1, <3>2, <3>3 DEF Innermost
    <3>4. frames'[i].saved = frames[i].saved
      BY <3>1
    <3> QED BY <3>1, <3>3, <3>4 DEF Saved
  <2>2. CASE i = Depth + 1
    <3>1. frames'[i].kind = "named"
      BY <1>2, <1>5, <2>2
    <3> QED BY <3>1 DEF Saved, Protected
  <2>3. CASE i = Depth + 2
    BY <1>2, <1>5, <2>3 DEF Inv, IInv, TargetInnermost, Saved, Innermost, Protected
  <2> QED BY <1>5, <2>1, <2>2, <2>3 DEF Depth
<1> QED BY <1>5, <1>6, <1>7, <1>8 DEF Inv, Stacked, IInv, EnvironmentsSaved

\* Every step keeps the targets.
LEMMA NextKeeps ==
  ASSUME Inv, [Next]_vars
  PROVE  Inv'
<1>1. CASE BeginPage
  BY <1>1, BeginKeeps DEF BeginPage, Frame
<1>2. CASE AfterPage
  BY <1>2, BeginKeeps DEF AfterPage, Frame
<1>3. CASE InPackage \/ Body \/ Let \/ CallLocal
  <2>1. ~jumping
    BY <1>3 DEF InPackage, Body, Let, CallLocal, Deeper, Evaluating
  <2> QED BY <1>3, <2>1, EnterKeeps DEF InPackage, Body, Let, CallLocal, Frame
<1>4. CASE CallNamed
  BY <1>4, CallNamedKeeps
<1>5. CASE Refer \/ Delete \/ UNCHANGED vars
  BY <1>5 DEF Refer, Delete, vars, Inv, Stacked, IInv, TargetInnermost,
              EnvironmentsSaved, Saved, Innermost, Depth
<1>6. CASE Jump
  BY <1>6 DEF Jump, Evaluating, Inv, Stacked, IInv, TargetInnermost,
              EnvironmentsSaved, Saved, Innermost, Depth
<1>7. CASE LeaveIn \/ LeaveBody \/ LeaveLet
  BY <1>7, RestoreKeeps DEF LeaveIn, LeaveBody, LeaveLet, Protected
<1>8. CASE LeaveNamed \/ LeaveLocal \/ LeaveAfter
  BY <1>8, LeaveKeeps DEF LeaveNamed, LeaveLocal, LeaveAfter, Protected, Kinds
<1>9. CASE LeavePage
  BY <1>9, LeavePageKeeps
<1> QED BY <1>1, <1>2, <1>3, <1>4, <1>5, <1>6, <1>7, <1>8, <1>9 DEF Next

\* The target is the innermost body that called setjmp(), and each environment has
\* saved the one around it.
THEOREM EnvironmentsKept == Spec => []IInv
<1>1. Init => Inv
  BY Initially
<1>2. Inv /\ [Next]_vars => Inv'
  BY NextKeeps
<1>3. Inv => IInv
  BY DEF Inv
<1> QED BY <1>1, <1>2, <1>3, PTL DEF Spec

-----------------------------------------------------------------------------
(* What the operations on packages and on the PDL return *)

\* A set of natural numbers has a least element.
LEMMA Least ==
  ASSUME NEW T \in SUBSET Nat, T # {}
  PROVE  \E x \in T : \A y \in T : x <= y
<1>1. PICK x \in T : \A y \in T : <<y, x>> \notin OpToRel(<, Nat)
  BY WFMin, NatLessThanWellFounded
<1>2. \A y, z \in Nat : y < z => <<y, z>> \in OpToRel(<, Nat)
  BY DEF OpToRel
<1>3. \A y \in T : ~ y < x
  BY <1>1, <1>2
<1> QED BY <1>3

\* So a set of indices has a greatest one.
LEMMA Greatest ==
  ASSUME NEW n \in Nat, NEW T \in SUBSET (1..n), T # {}
  PROVE  Max(T) \in T /\ \A y \in T : y <= Max(T)
<1> DEFINE U == {k \in Nat : n - k \in T}
<1>1. PICK y \in T : TRUE
  OBVIOUS
<1>2. n - y \in U
  BY <1>1
<1>3. PICK x \in U : \A k \in U : x <= k
  BY <1>2, Least
<1>4. n - x \in T
  BY <1>3
<1>5. ASSUME NEW z \in T PROVE n - x >= z
  <2>1. z \in 1..n /\ n - z \in Nat /\ n - (n - z) = z
    OBVIOUS
  <2>2. n - z \in U
    BY <2>1
  <2>3. x <= n - z
    BY <1>3, <2>2
  <2>4. x \in Nat
    BY <1>3
  <2> QED BY <2>1, <2>3, <2>4
<1>6. \A z \in T : Max(T) >= z /\ Max(T) \in T
  BY <1>4, <1>5 DEF Max
<1> QED BY <1>4, <1>6

Package == [name : Names \cup {Anonymous}, live : BOOLEAN]

\* symbol_get_package: the package that is got has the name and has not been freed;
\* the others are what they were.
LEMMA GetsIt ==
  ASSUME NEW ps \in Seq(Package), Len(ps) <= MaxPackages,
         NEW name \in Names \cup {Anonymous}, CanGet(ps, name)
  PROVE  /\ Getting(ps, name) \in Seq(Package)
         /\ Len(ps) <= Len(Getting(ps, name)) /\ Len(Getting(ps, name)) <= MaxPackages
         /\ \A p \in 1..Len(ps) : Getting(ps, name)[p] = ps[p]
         /\ \A p \in Len(ps) + 1 .. Len(Getting(ps, name)) : p = Got(ps, name)
         /\ Got(ps, name) \in 1..Len(Getting(ps, name))
         /\ Getting(ps, name)[Got(ps, name)] = [name |-> name, live |-> TRUE]
         /\ name = Anonymous => Got(ps, name) = Len(ps) + 1
<1>1. CASE Lookup(ps, name) # {}
  <2>1. Got(ps, name) \in Lookup(ps, name)
    BY <1>1 DEF Got
  <2>2. Getting(ps, name) = ps
    BY <1>1 DEF Getting
  <2>3. /\ Got(ps, name) \in 1..Len(ps) /\ name # Anonymous
        /\ ps[Got(ps, name)].name = name /\ ps[Got(ps, name)].live = TRUE
    BY <2>1 DEF Lookup, Live, Package
  <2>4. ps[Got(ps, name)] \in Package
    BY <2>3
  <2>5. ps[Got(ps, name)] = [name |-> name, live |-> TRUE]
    BY <2>3, <2>4 DEF Package
  <2> QED BY <2>2, <2>3, <2>5
<1>2. CASE Lookup(ps, name) = {}
  <2>1. Getting(ps, name) = Append(ps, [name |-> name, live |-> TRUE])
    BY <1>2 DEF Getting
  <2>2. [name |-> name, live |-> TRUE] \in Package
    BY DEF Package
  <2>3. Got(ps, name) = Len(ps) + 1 /\ Len(ps) < MaxPackages
    BY <1>2 DEF Got, CanGet
  <2>4. MaxPackages \in Nat
    BY PageEnvironmentAssumption
  <2> QED BY <2>1, <2>2, <2>3, <2>4, AppendProperties
<1> QED BY <1>1, <1>2

\* What is got is a package among the packages.
LEMMA GetsTyped ==
  ASSUME NEW ps \in Seq(Package), Len(ps) <= MaxPackages,
         NEW name \in Names \cup {Anonymous}, CanGet(ps, name)
  PROVE  /\ Getting(ps, name) \in Seq(Package) /\ Len(Getting(ps, name)) \in Nat
         /\ Len(ps) <= Len(Getting(ps, name)) /\ Len(Getting(ps, name)) <= MaxPackages
         /\ Got(ps, name) \in 1..Len(Getting(ps, name))
         /\ Got(ps, name) \in 0..Len(Getting(ps, name))
<1>1. /\ Getting(ps, name) \in Seq(Package)
      /\ Len(ps) <= Len(Getting(ps, name)) /\ Len(Getting(ps, name)) <= MaxPackages
      /\ Got(ps, name) \in 1..Len(Getting(ps, name))
  BY GetsIt
<1>2. Len(Getting(ps, name)) \in Nat
  BY <1>1
<1>3. \A n \in Nat : 1..n \subseteq 0..n
  OBVIOUS
<1> QED BY <1>1, <1>2, <1>3

\* symbol_destroy_package: the package is still the one it was, and freed.
LEMMA FreesIt ==
  ASSUME packs \in Seq(Package), NEW package \in 1..Len(packs)
  PROVE  /\ Freed(package) \in Seq(Package) /\ Len(Freed(package)) = Len(packs)
         /\ \A p \in 1..Len(packs) : Freed(package)[p].name = packs[p].name
         /\ ~ Freed(package)[package].live
         /\ \A p \in 1..Len(packs) : p # package => Freed(package)[p] = packs[p]
<1> DEFINE one == [packs[package] EXCEPT !.live = FALSE]
<1>1. packs[package] \in Package
  OBVIOUS
<1>2. one \in Package /\ one.name = packs[package].name /\ ~one.live
  BY <1>1 DEF Package
<1>3. Freed(package) = [packs EXCEPT ![package] = one]
  BY DEF Freed
<1> HIDE DEF one
<1> QED BY <1>2, <1>3, ExceptSeq

\* The package at M, the last one of STACK, has been taken out: what was above it
\* is one place lower, or still where it was, above a NULL.
Taken(rest, stack, package, m) ==
  /\ stack[m] = package /\ \A i \in m + 1 .. Len(stack) : stack[i] # package
  /\ Len(rest) = Len(stack) - 1
  /\ \A i \in 1..m - 1 : rest[i] = stack[i]
  /\ \A i \in m .. Len(stack) - 1 : rest[i] = stack[i + 1] \/ (m < i /\ rest[i] = stack[i])

\* package_pdl_remove: the package's greatest index, where it has one, is left out.
LEMMA RemovesLast ==
  ASSUME NEW S, NEW stack \in Seq(S), NEW package
  PROVE  /\ On(stack, package) = {} => Without(stack, package) = stack
         /\ On(stack, package) # {} =>
              \E m \in 1..Len(stack) : Taken(Without(stack, package), stack, package, m)
         /\ Without(stack, package) \in Seq(S)
<1>1. On(stack, package) = {} => Without(stack, package) = stack
  BY DEF Without
<1>2. ASSUME On(stack, package) # {}
      PROVE  /\ Without(stack, package) \in Seq(S)
             /\ \E m \in 1..Len(stack) : Taken(Without(stack, package), stack, package, m)
  <2> DEFINE m == Max(On(stack, package))
             rest == Without(stack, package)
  <2>1. On(stack, package) \in SUBSET (1..Len(stack)) /\ Len(stack) \in Nat
    BY DEF On
  <2>2. m \in On(stack, package) /\ \A y \in On(stack, package) : y <= m
    BY <1>2, <2>1, Greatest
  <2>3. m \in 1..Len(stack) /\ stack[m] = package
    BY <2>1, <2>2 DEF On
  <2>4. ASSUME NEW i \in m + 1 .. Len(stack)
        PROVE  stack[i] # package
    <3>1. i \in 1..Len(stack) /\ ~ i <= m
      BY <2>1, <2>3
    <3> QED BY <2>2, <3>1 DEF On
  <2>5. rest = [k \in 1..Len(stack) - 1 |->
                 IF m <= k /\ \A j \in m + 1 .. k : stack[j] # NULL
                 THEN stack[k + 1] ELSE stack[k]]
    BY <1>2 DEF Without
  <2> HIDE DEF m, rest
  <2>6. rest \in Seq(S) /\ Len(rest) = Len(stack) - 1
    <3>1. Len(stack) - 1 \in Nat
      BY <2>1, <2>3
    <3>2. rest \in [1..Len(stack) - 1 -> S]
      <4>1. \A k \in 1..Len(stack) - 1 : stack[k] \in S /\ stack[k + 1] \in S
        BY <2>1
      <4> QED BY <2>5, <4>1
    <3> QED BY <3>1, <3>2, SeqDef
  <2>7. \A i \in 1..m - 1 : rest[i] = stack[i]
    BY <2>1, <2>3, <2>5
  <2>8. ASSUME NEW i \in m .. Len(stack) - 1
        PROVE  rest[i] = stack[i + 1] \/ (m < i /\ rest[i] = stack[i])
    <3>1. i \in 1..Len(stack) - 1 /\ m <= i
      BY <2>1, <2>3
    <3>2. CASE i = m
      <4>1. \A j \in m + 1 .. i : stack[j] # NULL
        BY <2>3, <3>2
      <4> QED BY <2>5, <3>1, <4>1
    <3>3. CASE i # m
      BY <2>3, <2>5, <3>1, <3>3
    <3> QED BY <3>2, <3>3
  <2>9. Taken(rest, stack, package, m)
    BY <2>3, <2>4, <2>6, <2>7, <2>8 DEF Taken
  <2> QED BY <2>3, <2>6, <2>9 DEF rest
<1> QED BY <1>1, <1>2

-----------------------------------------------------------------------------
(* Type correctness: every package that the variables and the bodies mention is *)
(* in PACKS, and a body has been entered below MaxDepth.                         *)

BodyOf(n) ==
  [kind : Kinds, pack : 0..n, outer : 0..n, name : Names \cup {Anonymous},
   saved : 0..MaxDepth]

Typed ==
  /\ packs \in Seq(Package) /\ 0 < Len(packs) /\ Len(packs) <= MaxPackages
  /\ current \in 0..Len(packs) /\ pdl \in Seq(0..Len(packs))
  /\ frames \in Seq(BodyOf(Len(packs))) /\ jumping \in BOOLEAN
  /\ pages \in 0..MaxPages + 1 /\ deleted \subseteq {"anonymous", "once", "twice"}
  /\ skipped \in BOOLEAN

TypedInv == Inv /\ Typed

\* What mentions packages still does when there are more.
LEMMA MoreKnown ==
  ASSUME NEW n \in Nat, NEW m \in Nat, n <= m
  PROVE  /\ 0..n \subseteq 0..m /\ BodyOf(n) \subseteq BodyOf(m)
         /\ Seq(0..n) \subseteq Seq(0..m) /\ Seq(BodyOf(n)) \subseteq Seq(BodyOf(m))
<1>1. 0..n \subseteq 0..m
  OBVIOUS
<1>2. BodyOf(n) \subseteq BodyOf(m)
  BY <1>1 DEF BodyOf
<1> QED BY <1>1, <1>2, SeqMonotonic

\* Where a body is entered its record is one of a body.
LEMMA FrameTyped ==
  ASSUME TypedInv, Depth < MaxDepth \/ frames = <<>>,
         NEW n \in Nat, Len(packs) <= n,
         NEW kind \in Kinds, NEW pack \in 0..n, NEW outer \in 0..Len(packs)
  PROVE  Frame(kind, pack, outer) \in BodyOf(n)
<1>1. outer \in 0..n
  BY DEF TypedInv, Typed
<1>2. target \in 0..MaxDepth
  <2>1. target \in 0..Depth /\ Depth \in Nat /\ MaxDepth \in Nat
    BY PageEnvironmentAssumption DEF TypedInv, Typed, Inv, IInv, TargetInnermost, Innermost, Depth
  <2>2. frames = <<>> => Depth = 0
    BY DEF Depth
  <2> QED BY <2>1, <2>2
<1>3. outer # NULL => packs[outer].name \in Names \cup {Anonymous}
  <2>1. ASSUME outer # NULL PROVE packs[outer] \in Package
    BY <2>1 DEF TypedInv, Typed, NULL
  <2> QED BY <2>1 DEF Package
<1> QED BY <1>1, <1>2, <1>3 DEF Frame, BodyOf

\* At its end, or by a jump: the bodies that have been entered before a body remain.
LEMMA LeaveShape ==
  ASSUME Inv, NEW kind, Leaves(kind), Leave, NEW S, frames \in Seq(S)
  PROVE  /\ Depth \in Nat /\ Leaving \in 1..Depth /\ frames[Leaving].kind = kind
         /\ frames' \in Seq(S) /\ Depth' = Leaving - 1
         /\ \A i \in 1..Leaving - 1 : frames'[i] = frames[i]
         /\ frames[Leaving] \in S
<1>1. Depth \in Nat /\ DOMAIN frames = 1..Depth /\ Depth > 0
  BY DEF Depth, Leaves
<1>2. jumping => target # 0
  BY <1>1 DEF Inv, IInv, TargetInnermost, EnvironmentsSaved, Innermost, Protected
<1>3. Leaving \in 1..Depth
  BY <1>1, <1>2 DEF Leaving, Inv, IInv, TargetInnermost, Innermost
<1>4. /\ frames' \in Seq(S) /\ Depth' = Leaving - 1
      /\ \A i \in 1..Leaving - 1 : frames'[i] = frames[i]
  BY <1>1, <1>3 DEF Leave, Depth
<1>5. frames[Leaving] \in S
  BY <1>1, <1>3 DEF Depth
<1> QED BY <1>1, <1>3, <1>4, <1>5 DEF Leaves

\* The PDL with one package more, and with one fewer.
LEMMA PdlTyped ==
  ASSUME NEW S, pdl \in Seq(S)
  PROVE  /\ Popped \in Seq(S)
         /\ pdl = <<>> => Popped = pdl
         /\ pdl # <<>> => /\ Len(pdl) > 0 /\ Len(Popped) = Len(pdl) - 1
                          /\ Last(pdl) = pdl[Len(pdl)] /\ Last(pdl) \in S
                          /\ \A i \in 1..Len(pdl) - 1 : Popped[i] = pdl[i]
<1>1. CASE pdl = <<>>
  BY <1>1 DEF Popped
<1>2. CASE pdl # <<>>
  <2>1. Len(pdl) > 0 /\ Len(pdl) \in Nat
    BY <1>2, EmptySeq
  <2>2. Popped = SubSeq(pdl, 1, Len(pdl) - 1)
    BY <1>2 DEF Popped, Front
  <2>3. /\ SubSeq(pdl, 1, Len(pdl) - 1) \in Seq(S)
        /\ Len(SubSeq(pdl, 1, Len(pdl) - 1)) = Len(pdl) - 1
        /\ \A i \in 1..Len(pdl) - 1 : SubSeq(pdl, 1, Len(pdl) - 1)[i] = pdl[i]
    <3>1. 1 \in Int /\ Len(pdl) - 1 \in Int
          /\ \A i \in 1..Len(pdl) - 1 : pdl[i] \in S
      BY <2>1
    <3>2. Len(pdl) - 1 - 1 + 1 = Len(pdl) - 1 /\ \A i \in Int : 1 + i - 1 = i
      BY <2>1
    <3>3. \A n \in Nat : n > 0 => 1 <= n - 1 \/ n - 1 = 0
      OBVIOUS
    <3> QED BY <2>1, <3>1, <3>2, <3>3, SubSeqProperties
  <2>4. Last(pdl) = pdl[Len(pdl)] /\ Last(pdl) \in S
    BY <2>1 DEF Last
  <2> QED BY <1>2, <2>1, <2>2, <2>3, <2>4
<1> QED BY <1>1, <1>2

\* Pop makes nothing but a package of the PDL current.
LEMMA PopTyped ==
  ASSUME Typed, Pop
  PROVE  current' \in 0..Len(packs) /\ pdl' \in Seq(0..Len(packs))
BY PdlTyped DEF Typed, Pop, SetDefault

\* Into a body, with any packages that have been made for it.
LEMMA EnterTyped ==
  ASSUME TypedInv, Deeper, packs' \in Seq(Package),
         Len(packs) <= Len(packs'), Len(packs') <= MaxPackages,
         NEW kind \in Kinds, NEW pack \in 0..Len(packs'), NEW outer \in 0..Len(packs),
         Enter(Frame(kind, pack, outer)),
         \/ UNCHANGED <<current, pdl>>
         \/ Push(pack)
  PROVE  Typed'
<1>1. Len(packs) \in Nat /\ Len(packs') \in Nat
  BY DEF TypedInv, Typed
<1>2. Frame(kind, pack, outer) \in BodyOf(Len(packs'))
  BY <1>1, FrameTyped DEF Deeper
<1>3. frames \in Seq(BodyOf(Len(packs'))) /\ pdl \in Seq(0..Len(packs')) /\ current \in 0..Len(packs')
  BY <1>1, MoreKnown DEF TypedInv, Typed
<1> DEFINE frame == Frame(kind, pack, outer)
<1>4. frames' = Append(frames, frame) /\ UNCHANGED <<jumping, pages, deleted, skipped>>
  BY DEF Enter, history
<1> HIDE DEF frame
<1>5. frames' \in Seq(BodyOf(Len(packs')))
  BY <1>2, <1>3, <1>4 DEF frame
<1>6. current' \in 0..Len(packs') /\ pdl' \in Seq(0..Len(packs'))
  <2>1. CASE UNCHANGED <<current, pdl>>
    BY <1>3, <2>1
  <2>2. CASE Push(pack)
    <3>1. pdl' = Append(pdl, current) /\ (current' = current \/ current' = pack)
      BY <2>2 DEF Push, SetDefault
    <3> QED BY <1>3, <3>1
  <2> QED BY <2>1, <2>2
<1> QED BY <1>1, <1>4, <1>5, <1>6 DEF TypedInv, Typed

\* A function with a package of its own, and mhtml_let within it.
LEMMA CallNamedTyped ==
  ASSUME TypedInv, CallNamed
  PROVE  Typed'
<1>1. PICK name \in Names :
        /\ CanGet(packs, name) /\ packs' = Getting(packs, name) /\ current' = Got(packs, name)
        /\ frames' = frames \o
             <<Frame("named", Got(packs, name), current),
               [Frame("let", Got(packs, name), NULL)
                  EXCEPT !.outer = Got(packs, name), !.name = name]>>
  BY DEF CallNamed
<1>2. /\ packs' \in Seq(Package) /\ Len(packs) <= Len(packs') /\ Len(packs') <= MaxPackages
      /\ Got(packs, name) \in 1..Len(packs') /\ Len(packs) \in Nat /\ Len(packs') \in Nat
  BY <1>1, GetsTyped DEF TypedInv, Typed
<1> DEFINE function == Frame("named", Got(packs, name), current)
           let == [Frame("let", Got(packs, name), NULL)
                     EXCEPT !.outer = Got(packs, name), !.name = name]
<1>3. function \in BodyOf(Len(packs'))
  BY <1>2, FrameTyped DEF CallNamed, Deeper, TypedInv, Typed, Kinds
<1>4. Frame("let", Got(packs, name), NULL) \in BodyOf(Len(packs'))
  BY <1>2, FrameTyped DEF CallNamed, Deeper, TypedInv, Typed, Kinds, NULL
<1>5. let \in BodyOf(Len(packs'))
  <2> DEFINE plain == Frame("let", Got(packs, name), NULL)
  <2>1. Got(packs, name) \in 0..Len(packs') /\ name \in Names \cup {Anonymous}
    BY <1>2
  <2>2. \A b \in BodyOf(Len(packs')), o \in 0..Len(packs'), m \in Names \cup {Anonymous} :
          [b EXCEPT !.outer = o, !.name = m] \in BodyOf(Len(packs'))
    BY DEF BodyOf
  <2> HIDE DEF plain
  <2>3. [plain EXCEPT !.outer = Got(packs, name), !.name = name] \in BodyOf(Len(packs'))
    BY <1>4, <2>1, <2>2 DEF plain
  <2> QED BY <2>3 DEF plain
<1>6. frames' = frames \o <<function, let>>
  BY <1>1
<1> HIDE DEF function, let
<1>7. frames \in Seq(BodyOf(Len(packs'))) /\ pdl \in Seq(0..Len(packs'))
  BY <1>2, MoreKnown DEF TypedInv, Typed
<1>8. frames' \in Seq(BodyOf(Len(packs')))
  BY <1>3, <1>5, <1>6, <1>7
<1> QED BY <1>1, <1>2, <1>7, <1>8 DEF TypedInv, Typed, CallNamed, history

\* A package is deleted.
LEMMA DeleteTyped ==
  ASSUME TypedInv, Delete
  PROVE  Typed'
<1>1. PICK package \in Live(packs) :
        /\ packs' = Freed(package) /\ pdl' = Without(pdl, package)
        /\ current' = (IF package = current THEN NULL ELSE current)
        /\ deleted' = deleted \cup {KindOf(package)}
  BY DEF Delete
<1>2. package \in 1..Len(packs)
  BY DEF Live, TypedInv, Typed
<1>3. packs' \in Seq(Package) /\ Len(packs') = Len(packs)
  BY <1>1, <1>2, FreesIt DEF TypedInv, Typed
<1>4. pdl' \in Seq(0..Len(packs))
  BY <1>1, RemovesLast DEF TypedInv, Typed
<1>5. KindOf(package) \in {"anonymous", "once", "twice"}
  BY DEF KindOf
<1>6. current' \in 0..Len(packs)
  BY <1>1 DEF TypedInv, Typed, NULL
<1> QED BY <1>1, <1>3, <1>4, <1>5, <1>6 DEF TypedInv, Typed, Delete

\* Out of a body, with any packages that have been made for the one around it.
LEMMA LeaveTyped ==
  ASSUME TypedInv, NEW kind, Leaves(kind), Leave,
         packs' \in Seq(Package), Len(packs) <= Len(packs'), Len(packs') <= MaxPackages,
         current' \in 0..Len(packs'), pdl' \in Seq(0..Len(packs)), jumping' \in BOOLEAN
  PROVE  Typed'
<1>1. frames' \in Seq(BodyOf(Len(packs)))
  BY LeaveShape DEF TypedInv, Typed
<1>2. Len(packs) \in Nat /\ Len(packs') \in Nat
  BY DEF TypedInv, Typed
<1>3. frames' \in Seq(BodyOf(Len(packs'))) /\ pdl' \in Seq(0..Len(packs'))
  BY <1>1, <1>2, MoreKnown
<1>4. skipped' \in BOOLEAN /\ UNCHANGED <<pages, deleted>>
  BY DEF Leave, TypedInv, Typed
<1> QED BY <1>2, <1>3, <1>4 DEF TypedInv, Typed

\* The package around a function's body is made current, by its name where it has one.
LEMMA GiveBackTyped ==
  ASSUME Typed, NEW ps \in Seq(Package), Len(ps) = Len(packs),
         NEW frame \in BodyOf(Len(packs)), GiveBack(ps, frame)
  PROVE  /\ packs' \in Seq(Package) /\ Len(packs) <= Len(packs') /\ Len(packs') <= MaxPackages
         /\ current' \in 0..Len(packs')
<1>1. frame.outer \in 0..Len(packs) /\ frame.name \in Names \cup {Anonymous}
  BY DEF BodyOf
<1>2. CASE frame.name = Anonymous
  BY <1>1, <1>2 DEF GiveBack, Typed
<1>3. CASE frame.name # Anonymous
  <2>1. /\ CanGet(ps, frame.name) /\ packs' = Getting(ps, frame.name)
        /\ current' = Got(ps, frame.name)
    BY <1>3 DEF GiveBack
  <2> QED BY <1>1, <2>1, GetsTyped DEF Typed
<1> QED BY <1>2, <1>3

\* Every step keeps the types.
LEMMA NextTyped ==
  ASSUME TypedInv, [Next]_vars
  PROVE  Typed'
<1>1. packs \in Seq(Package) /\ Len(packs) \in Nat /\ Len(packs) <= MaxPackages /\ 0 < Len(packs)
  BY DEF TypedInv, Typed
<1>2. Default \in Names \cup {Anonymous} /\ MaxPages \in Nat
  BY PageEnvironmentAssumption
<1>3. CASE BeginPage \/ AfterPage
  <2>1. PICK kind \in Kinds :
          frames = <<>> /\ frames' = <<Frame(kind, current, NULL)>>
    BY <1>3 DEF BeginPage, AfterPage, Kinds
  <2>2. Frame(kind, current, NULL) \in BodyOf(Len(packs))
    BY <1>1, <2>1, FrameTyped DEF TypedInv, Typed, NULL
  <2> DEFINE frame == Frame(kind, current, NULL)
  <2> HIDE DEF frame
  <2>3. frames' \in Seq(BodyOf(Len(packs)))
    BY <2>1, <2>2 DEF frame
  <2>4. pages' \in 0..MaxPages + 1
    BY <1>2, <1>3 DEF BeginPage, AfterPage, TypedInv, Typed
  <2> QED BY <1>3, <2>3, <2>4 DEF BeginPage, AfterPage, TypedInv, Typed
<1>4. CASE InPackage
  <2>1. CASE \E name \in Names \cup {Anonymous} :
               /\ CanGet(packs, name) /\ packs' = Getting(packs, name)
               /\ Push(Got(packs, name)) /\ Enter(Frame("in", Got(packs, name), NULL))
    <3>1. PICK name \in Names \cup {Anonymous} :
               /\ CanGet(packs, name) /\ packs' = Getting(packs, name)
               /\ Push(Got(packs, name)) /\ Enter(Frame("in", Got(packs, name), NULL))
      BY <2>1
    <3>2. /\ packs' \in Seq(Package) /\ Len(packs) <= Len(packs') /\ Len(packs') <= MaxPackages
          /\ Got(packs, name) \in 0..Len(packs')
      BY <1>1, <3>1, GetsTyped
    <3> QED BY <1>1, <1>4, <3>1, <3>2, EnterTyped DEF InPackage, Kinds, NULL
  <2>2. CASE \E k \in DOMAIN pdl :
               /\ Carats(k) # NULL
               /\ Push(Carats(k)) /\ Enter(Frame("in", Carats(k), NULL))
               /\ UNCHANGED packs
    <3>1. PICK k \in DOMAIN pdl :
               Push(Carats(k)) /\ Enter(Frame("in", Carats(k), NULL)) /\ UNCHANGED packs
      BY <2>2
    <3>2. Carats(k) \in 0..Len(packs')
      BY <3>1 DEF Carats, TypedInv, Typed
    <3> QED BY <1>1, <1>4, <3>1, <3>2, EnterTyped DEF InPackage, Kinds, NULL
  <2> QED BY <1>4, <2>1, <2>2 DEF InPackage
<1>5. CASE Body \/ Let
  <2>1. current \in 0..Len(packs) /\ NULL \in 0..Len(packs)
    BY DEF TypedInv, Typed, NULL
  <2> QED BY <1>1, <1>5, <2>1, EnterTyped DEF Body, Let, Kinds
<1>6. CASE CallLocal
  <2>1. /\ packs' \in Seq(Package) /\ Len(packs) <= Len(packs') /\ Len(packs') <= MaxPackages
        /\ Got(packs, Anonymous) \in 0..Len(packs')
    BY <1>1, <1>6, GetsTyped DEF CallLocal
  <2>2. current \in 0..Len(packs)
    BY DEF TypedInv, Typed
  <2> QED BY <1>1, <1>6, <2>1, <2>2, EnterTyped DEF CallLocal, Kinds
<1>7. CASE CallNamed
  BY <1>7, CallNamedTyped
<1>8. CASE Refer
  <2>1. /\ packs' \in Seq(Package) /\ Len(packs) <= Len(packs') /\ Len(packs') <= MaxPackages
        /\ current' \in 0..Len(packs') /\ Len(packs') \in Nat
    BY <1>1, <1>2, <1>8, GetsTyped DEF Refer
  <2> QED BY <1>1, <1>8, <2>1, MoreKnown DEF Refer, TypedInv, Typed, history
<1>9. CASE Delete
  BY <1>9, DeleteTyped
<1>10. CASE Jump \/ UNCHANGED vars
  BY <1>10 DEF Jump, vars, history, TypedInv, Typed
<1>11. CASE LeaveIn
  <2>1. current' \in 0..Len(packs) /\ pdl' \in Seq(0..Len(packs))
    BY <1>11, PopTyped DEF LeaveIn, TypedInv
  <2> QED BY <1>1, <1>11, <2>1, LeaveTyped DEF LeaveIn, Restore, TypedInv, Typed
<1>12. CASE LeaveBody \/ LeavePage \/ LeaveAfter
  <2>1. PICK kind \in Kinds : Leaves(kind) /\ Leave /\ UNCHANGED <<packs, current, pdl>>
    BY <1>12 DEF LeaveBody, LeavePage, LeaveAfter, Kinds
  <2>2. jumping' \in BOOLEAN
    BY <1>12 DEF LeaveBody, LeavePage, LeaveAfter, Restore, TypedInv, Typed
  <2>3. current' \in 0..Len(packs') /\ pdl' \in Seq(0..Len(packs))
    BY <2>1 DEF TypedInv, Typed
  <2> QED BY <1>1, <2>1, <2>2, <2>3, LeaveTyped
<1>13. CASE LeaveLet
  <2>1. frames[Leaving] \in BodyOf(Len(packs))
    BY <1>13, LeaveShape DEF LeaveLet, TypedInv, Typed
  <2>2. /\ packs' \in Seq(Package) /\ Len(packs) <= Len(packs') /\ Len(packs') <= MaxPackages
    BY <1>1, <1>13, <2>1, GetsTyped DEF LeaveLet, BodyOf
  <2>3. current' \in 0..Len(packs')
    BY <1>1, <1>13, <2>2 DEF LeaveLet, TypedInv, Typed
  <2> QED BY <1>1, <1>13, <2>2, <2>3, LeaveTyped DEF LeaveLet, Restore, TypedInv, Typed
<1>14. CASE LeaveNamed
  <2>1. Depth \in 1..Depth /\ Top \in BodyOf(Len(packs))
    BY <1>14 DEF LeaveNamed, Leaves, TypedInv, Typed, Top, Depth
  <2>2. /\ packs' \in Seq(Package) /\ Len(packs) <= Len(packs') /\ Len(packs') <= MaxPackages
        /\ current' \in 0..Len(packs')
    BY <1>1, <1>14, <2>1, GiveBackTyped DEF LeaveNamed, TypedInv
  <2> QED BY <1>1, <1>14, <2>2, LeaveTyped DEF LeaveNamed, TypedInv, Typed
<1>15. CASE LeaveLocal
  <2>1. Depth \in 1..Depth /\ Top \in BodyOf(Len(packs))
    BY <1>15 DEF LeaveLocal, Leaves, TypedInv, Typed, Top, Depth
  <2>2. Freed(Top.pack) \in Seq(Package) /\ Len(Freed(Top.pack)) = Len(packs)
    <3>1. CASE Top.pack \in 1..Len(packs)
      BY <1>1, <3>1, FreesIt
    <3>2. CASE Top.pack \notin 1..Len(packs)
      <4>1. Freed(Top.pack) = packs
        BY <1>1, <3>2 DEF Freed
      <4> QED BY <1>1, <4>1
    <3> QED BY <3>1, <3>2
  <2>3. /\ packs' \in Seq(Package) /\ Len(packs) <= Len(packs') /\ Len(packs') <= MaxPackages
        /\ current' \in 0..Len(packs')
    BY <1>1, <1>15, <2>1, <2>2, GiveBackTyped DEF LeaveLocal, TypedInv
  <2>4. Popped \in Seq(0..Len(packs))
    BY PdlTyped DEF TypedInv, Typed
  <2>5. pdl' \in Seq(0..Len(packs))
    BY <1>15, <2>4, RemovesLast DEF LeaveLocal
  <2> QED BY <1>1, <1>15, <2>3, <2>5, LeaveTyped DEF LeaveLocal, TypedInv, Typed
<1> QED BY <1>3, <1>4, <1>5, <1>6, <1>7, <1>8, <1>9, <1>10, <1>11, <1>12, <1>13, <1>14, <1>15 DEF Next

\* At first there is the default package alone.
LEMMA InitTyped == Init => TypedInv
<1> SUFFICES ASSUME Init PROVE TypedInv
  OBVIOUS
<1>1. Inv
  BY Initially
<1>2. [name |-> Default, live |-> TRUE] \in Package
  BY PageEnvironmentAssumption DEF Package
<1>3. packs \in Seq(Package) /\ Len(packs) = 1
  BY <1>2 DEF Init
<1>4. MaxPages \in Nat /\ MaxPackages \in Nat /\ MaxPackages > 0
  BY PageEnvironmentAssumption
<1>5. pdl \in Seq(0..Len(packs)) /\ frames \in Seq(BodyOf(Len(packs)))
  BY EmptySeq DEF Init
<1>6. /\ current \in 0..Len(packs) /\ jumping \in BOOLEAN /\ skipped \in BOOLEAN
      /\ pages \in 0..MaxPages + 1 /\ deleted \subseteq {"anonymous", "once", "twice"}
  <2>1. current = 1 /\ jumping = FALSE /\ skipped = FALSE /\ pages = 0 /\ deleted = {}
    BY DEF Init
  <2>2. jumping \in BOOLEAN /\ skipped \in BOOLEAN /\ deleted \subseteq {"anonymous", "once", "twice"}
    BY <2>1
  <2>3. current \in 0..Len(packs) /\ pages \in 0..MaxPages + 1
    BY <1>3, <1>4, <2>1
  <2> QED BY <2>2, <2>3
<1> QED BY <1>1, <1>3, <1>4, <1>5, <1>6 DEF TypedInv, Typed

\* The inductive invariant of the types is kept.
LEMMA TypedAlways == Spec => []TypedInv
<1>1. TypedInv /\ [Next]_vars => TypedInv'
  BY NextKeeps, NextTyped DEF TypedInv
<1> QED BY <1>1, InitTyped, PTL DEF Spec

\* The variables keep their types: nothing is current, on the PDL or a body's but a
\* package, and no jump is to a body that has been left.
THEOREM TypeCorrect == Spec => []TypeOK
<1>1. TypedInv => TypeOK
  <2> SUFFICES ASSUME TypedInv PROVE TypeOK
    OBVIOUS
  <2>1. Len(packs) \in Nat /\ MaxPackages \in Nat /\ Len(packs) <= MaxPackages
    BY PageEnvironmentAssumption DEF TypedInv, Typed
  <2>2. /\ current \in 0..MaxPackages /\ pdl \in Seq(0..MaxPackages)
        /\ frames \in Seq(BodyOf(MaxPackages))
    BY <2>1, MoreKnown DEF TypedInv, Typed
  <2>3. BodyOf(MaxPackages) = Frames
    BY DEF BodyOf, Frames, Packages
  <2> QED BY <2>2, <2>3 DEF TypedInv, Typed, TypeOK, Packages, Package, Inv, IInv,
                            TargetInnermost, Innermost
<1> QED BY <1>1, TypedAlways, PTL

-----------------------------------------------------------------------------
(* Which package is current, and what is on the PDL: D[i] is how much of the PDL *)
(* the first i bodies account for.  GONE are the kinds of deletions there have been. *)

Pushing == {"in", "local"}

NestedAt(fs, stack, d, gone, i) ==
  /\ d[i] <= d[i - 1] + 1
  /\ fs[i].kind \notin Pushing => d[i] = d[i - 1]
  /\ fs[i].kind = "local" => \A j \in 1..d[i] : stack[j] # fs[i].pack
  /\ gone = {} /\ i > 1 =>
       /\ fs[i].kind \in Pushing => d[i] = d[i - 1] + 1 /\ stack[d[i]] = fs[i - 1].pack
       /\ fs[i].kind \in {"named", "local"} => fs[i].outer = fs[i - 1].pack
       /\ fs[i].kind \in {"body", "let"} => fs[i].pack = fs[i - 1].pack

Nested(fs, stack, d, gone) ==
  /\ d \in [0..Len(fs) -> Nat] /\ d[Len(fs)] = Len(stack)
  /\ \A i, k \in 0..Len(fs) : i <= k => d[i] <= d[k]
  /\ \A i \in 1..Len(fs) : NestedAt(fs, stack, d, gone, i)

\* While bodies are left one by one.
Orderly == ~jumping \/ ~skipped

Nesting ==
  deleted \subseteq {"once"} /\ Orderly =>
    \E d : /\ Nested(frames, pdl, d, deleted)
           /\ deleted = {} /\ ~skipped => d[0] = 0

\* What each body remembers.
Framed(i) ==
  /\ frames[i].kind \in {"page", "after"} <=> i = 1
  /\ frames[i].name = Anonymous =>
       frames[i].outer = NULL \/ packs[frames[i].outer].name = Anonymous
  /\ frames[i].name # Anonymous =>
       frames[i].outer # NULL /\ packs[frames[i].outer].name = frames[i].name
  /\ frames[i].kind \in {"named", "local"} => frames[i].outer # NULL
  /\ frames[i].kind = "local" =>
       /\ frames[i].pack # NULL /\ packs[frames[i].pack].name = Anonymous
       /\ \A j \in 1..i : frames[j].outer # frames[i].pack

\* No two packages of one name, of those that have not been freed.
Unique(ps) ==
  \A p, q \in Live(ps) : ps[p].name = ps[q].name /\ ps[p].name # Anonymous => p = q

\* As long as none has been deleted.
Undeleted ==
  deleted = {} =>
    /\ \A p \in DOMAIN packs : packs[p].name # Anonymous => packs[p].live
    /\ current # NULL /\ \A i \in DOMAIN frames : frames[i].pack # NULL
    /\ Orderly /\ frames # <<>> => current = Top.pack
    /\ ~skipped => IF frames = <<>> THEN current = 1 /\ pdl = <<>> ELSE frames[1].pack = 1

\* What has not been freed.
Lively ==
  deleted \subseteq {"once"} =>
    /\ current \in Live(packs) \cup {NULL}
    /\ \A j \in DOMAIN pdl : pdl[j] \in Live(packs) \cup {NULL}
    /\ \A i \in DOMAIN frames :
         frames[i].name = Anonymous => frames[i].outer \in Live(packs) \cup {NULL}

PackageInv ==
  /\ TypedInv /\ Unique(packs)
  /\ \A i \in DOMAIN frames : Framed(i)
  /\ Nesting /\ Undeleted /\ Lively

\* A body has its place where what it accounts for is the same.
LEMMA NestedAtSame ==
  ASSUME NEW fs, NEW gs, NEW stack, NEW other, NEW d, NEW e, NEW gone, NEW i,
         NestedAt(fs, stack, d, gone, i),
         gs[i] = fs[i], i > 1 => gs[i - 1] = fs[i - 1],
         e[i] = d[i], e[i - 1] = d[i - 1], d[i] \in Nat, d[i - 1] \in Nat,
         \A j \in 1..d[i] : other[j] = stack[j]
  PROVE  NestedAt(gs, other, e, gone, i)
<1>1. d[i] = d[i - 1] + 1 => d[i] \in 1..d[i]
  OBVIOUS
<1> QED BY <1>1 DEF NestedAt

\* Into a body that pushes nothing.
LEMMA NestedMore ==
  ASSUME NEW S, NEW fs \in Seq(S), NEW T, NEW stack \in Seq(T), NEW gone,
         NEW d, Nested(fs, stack, d, gone), NEW f \in S, f.kind \notin Pushing,
         gone = {} /\ fs # <<>> =>
           /\ f.kind = "named" => f.outer = fs[Len(fs)].pack
           /\ f.kind \in {"body", "let"} => f.pack = fs[Len(fs)].pack
  PROVE  \E e : Nested(Append(fs, f), stack, e, gone) /\ e[0] = d[0]
<1> DEFINE n == Len(fs)
           gs == Append(fs, f)
           e == [i \in 0..n + 1 |-> IF i <= n THEN d[i] ELSE Len(stack)]
<1>1. n \in Nat /\ Len(stack) \in Nat /\ (n > 0 => fs # <<>>)
  BY EmptySeq
<1>2. Len(gs) = n + 1 /\ gs[n + 1] = f /\ \A i \in 1..n : gs[i] = fs[i]
  BY AppendProperties
<1>3. d \in [0..n -> Nat] /\ d[n] = Len(stack) /\ \A i, k \in 0..n : i <= k => d[i] <= d[k]
  BY DEF Nested
<1> HIDE DEF gs, n
<1>4. /\ e \in [0..n + 1 -> Nat] /\ e[n + 1] = Len(stack) /\ e[n] = Len(stack)
      /\ \A i \in 0..n : e[i] = d[i]
  BY <1>1, <1>3
<1> HIDE DEF e
<1>5. \A i, k \in 0..n + 1 : i <= k => e[i] <= e[k]
  BY <1>1, <1>3, <1>4
<1>6. ASSUME NEW i \in 1..n + 1
      PROVE  NestedAt(gs, stack, e, gone, i)
  <2>1. CASE i \in 1..n
    <3>1. /\ gs[i] = fs[i] /\ e[i] = d[i] /\ e[i - 1] = d[i - 1]
          /\ i > 1 => gs[i - 1] = fs[i - 1]
      <4>1. i \in 0..n /\ i - 1 \in 0..n /\ (i > 1 => i - 1 \in 1..n)
        BY <1>1, <2>1
      <4> QED BY <1>2, <1>4, <2>1, <4>1
    <3>2. NestedAt(fs, stack, d, gone, i)
      BY <2>1 DEF Nested, n
    <3>3. d[i] \in Nat /\ d[i - 1] \in Nat
      BY <1>1, <1>3, <2>1
    <3> QED BY <3>1, <3>2, <3>3, NestedAtSame
  <2>2. CASE i = n + 1
    <3>1. gs[i] = f /\ e[i] = e[i - 1] /\ e[i] \in Nat
      BY <1>1, <1>2, <1>4, <2>2
    <3>2. i > 1 => fs # <<>> /\ gs[i - 1] = fs[Len(fs)]
      BY <1>1, <1>2, <2>2 DEF n
    <3> QED BY <3>1, <3>2 DEF NestedAt, Pushing
  <2> QED BY <1>1, <2>1, <2>2
<1>7. Nested(gs, stack, e, gone)
  BY <1>2, <1>4, <1>5, <1>6 DEF Nested
<1> QED BY <1>1, <1>4, <1>7 DEF gs

\* Into a body for which a package is pushed.
LEMMA NestedPush ==
  ASSUME NEW S, NEW fs \in Seq(S), NEW T, NEW stack \in Seq(T), NEW gone,
         NEW d, Nested(fs, stack, d, gone), NEW f \in S, f.kind \in Pushing,
         NEW c \in T,
         f.kind = "local" =>
           c # f.pack /\ \A j \in 1..Len(stack) : stack[j] # f.pack,
         gone = {} /\ fs # <<>> =>
           /\ c = fs[Len(fs)].pack
           /\ f.kind = "local" => f.outer = fs[Len(fs)].pack
  PROVE  \E e : Nested(Append(fs, f), Append(stack, c), e, gone) /\ e[0] = d[0]
<1> DEFINE n == Len(fs)
           m == Len(stack)
           gs == Append(fs, f)
           more == Append(stack, c)
           e == [i \in 0..n + 1 |-> IF i <= n THEN d[i] ELSE m + 1]
<1>1. n \in Nat /\ m \in Nat /\ (n > 0 => fs # <<>>)
  BY EmptySeq
<1>2. Len(gs) = n + 1 /\ gs[n + 1] = f /\ \A i \in 1..n : gs[i] = fs[i]
  BY AppendProperties
<1>3. Len(more) = m + 1 /\ more[m + 1] = c /\ \A j \in 1..m : more[j] = stack[j]
  BY AppendProperties
<1>4. d \in [0..n -> Nat] /\ d[n] = m /\ \A i, k \in 0..n : i <= k => d[i] <= d[k]
  BY DEF Nested
<1>5. \A i \in 0..n : d[i] <= m
  BY <1>1, <1>4
<1> HIDE DEF gs, n, more, m
<1>6. /\ e \in [0..n + 1 -> Nat] /\ e[n + 1] = m + 1 /\ e[n] = m
      /\ \A i \in 0..n : e[i] = d[i]
  BY <1>1, <1>4
<1> HIDE DEF e
<1>7. \A i, k \in 0..n + 1 : i <= k => e[i] <= e[k]
  <2> SUFFICES ASSUME NEW i \in 0..n + 1, NEW k \in 0..n + 1, i <= k
               PROVE  e[i] <= e[k]
    OBVIOUS
  <2>1. CASE k \in 0..n
    BY <1>1, <1>4, <1>6, <2>1
  <2>2. CASE k = n + 1
    <3>1. e[k] = m + 1 /\ (i \in 0..n \/ i = n + 1)
      BY <1>1, <1>6, <2>2
    <3>2. i \in 0..n => e[i] \in Nat /\ e[i] <= m
      BY <1>4, <1>5, <1>6
    <3> QED BY <1>1, <1>6, <3>1, <3>2
  <2> QED BY <1>1, <2>1, <2>2
<1>8. ASSUME NEW i \in 1..n + 1
      PROVE  NestedAt(gs, more, e, gone, i)
  <2>1. CASE i \in 1..n
    <3>1. /\ gs[i] = fs[i] /\ e[i] = d[i] /\ e[i - 1] = d[i - 1]
          /\ i > 1 => gs[i - 1] = fs[i - 1]
      <4>1. i \in 0..n /\ i - 1 \in 0..n /\ (i > 1 => i - 1 \in 1..n)
        BY <1>1, <2>1
      <4> QED BY <1>2, <1>6, <2>1, <4>1
    <3>2. NestedAt(fs, stack, d, gone, i)
      BY <2>1 DEF Nested, n
    <3>3. d[i] \in 0..m /\ d[i - 1] \in Nat
      BY <1>1, <1>4, <1>5, <2>1
    <3>4. \A j \in 1..d[i] : more[j] = stack[j]
      BY <1>1, <1>3, <3>3
    <3> QED BY <3>1, <3>2, <3>3, <3>4, NestedAtSame
  <2>2. CASE i = n + 1
    <3>1. gs[i] = f /\ e[i] = m + 1 /\ e[i - 1] = m
      BY <1>1, <1>2, <1>6, <2>2
    <3>2. i > 1 => fs # <<>> /\ gs[i - 1] = fs[Len(fs)]
      BY <1>1, <1>2, <2>2 DEF n
    <3>3. f.kind = "local" => \A j \in 1..m + 1 : more[j] # f.pack
      BY <1>1, <1>3 DEF m
    <3>4. e[i] <= e[i - 1] + 1 /\ e[i] = e[i - 1] + 1 /\ more[e[i]] = c
      BY <1>1, <1>3, <3>1
    <3> QED BY <3>1, <3>2, <3>3, <3>4 DEF NestedAt, Pushing
  <2> QED BY <1>1, <2>1, <2>2
<1>9. Nested(gs, more, e, gone)
  BY <1>2, <1>3, <1>6, <1>7, <1>8 DEF Nested
<1> QED BY <1>1, <1>6, <1>9 DEF gs, more

\* Out of the innermost body, which has pushed nothing.
LEMMA NestedLess ==
  ASSUME NEW S, NEW fs \in Seq(S), NEW gs \in Seq(S), NEW stack, NEW gone,
         NEW d, Nested(fs, stack, d, gone),
         Len(fs) > 0, Len(gs) = Len(fs) - 1, \A i \in 1..Len(gs) : gs[i] = fs[i],
         fs[Len(fs)].kind \notin Pushing
  PROVE  \E e : Nested(gs, stack, e, gone) /\ e[0] = d[0]
<1> DEFINE n == Len(gs)
           e == [i \in 0..n |-> d[i]]
<1>1. n \in Nat /\ Len(fs) = n + 1
  OBVIOUS
<1>2. d \in [0..n + 1 -> Nat] /\ d[n + 1] = Len(stack) /\ \A i, k \in 0..n + 1 : i <= k => d[i] <= d[k]
  BY <1>1 DEF Nested
<1>3. d[n + 1] = d[n + 1 - 1]
  BY <1>1 DEF Nested, NestedAt
<1> HIDE DEF n
<1>4. /\ e \in [0..n -> Nat] /\ e[n] = Len(stack) /\ \A i \in 0..n : e[i] = d[i]
  BY <1>1, <1>2, <1>3
<1> HIDE DEF e
<1>5. \A i, k \in 0..n : i <= k => e[i] <= e[k]
  BY <1>1, <1>2, <1>4
<1>6. ASSUME NEW i \in 1..n
      PROVE  NestedAt(gs, stack, e, gone, i)
  <2>1. /\ gs[i] = fs[i] /\ e[i] = d[i] /\ e[i - 1] = d[i - 1]
        /\ i > 1 => gs[i - 1] = fs[i - 1]
    BY <1>1, <1>4 DEF n
  <2>2. i \in 1..Len(fs)
    BY <1>1
  <2>3. NestedAt(fs, stack, d, gone, i)
    BY <2>2 DEF Nested
  <2>4. d[i] \in Nat /\ d[i - 1] \in Nat
    BY <1>1, <1>2
  <2> QED BY <2>1, <2>3, <2>4, NestedAtSame
<1>7. Nested(gs, stack, e, gone)
  BY <1>4, <1>5, <1>6 DEF Nested, n
<1> QED BY <1>1, <1>4, <1>7

\* The innermost body is left.
Shorter(gs, fs) ==
  /\ Len(gs) \in Nat /\ Len(gs) > 0 /\ Len(fs) = Len(gs) + 1
  /\ \A i \in 1..Len(gs) : gs[i] = fs[i]
  /\ fs[Len(fs)].kind \in Pushing

\* A pop, of what there is.
Less(rest, stack) ==
  /\ Len(stack) \in Nat /\ Len(rest) \in Nat
  /\ Len(stack) = 0 => Len(rest) = 0
  /\ Len(stack) > 0 => Len(stack) = Len(rest) + 1
  /\ \A j \in 1..Len(rest) : rest[j] = stack[j]

\* What is below a page is not popped, where nothing has been deleted.
Based(e, d, gone) == gone = {} => e[0] = d[0]

\* Out of the innermost body, with a pop.
LEMMA NestedPop ==
  ASSUME NEW fs, NEW gs, NEW stack, NEW rest, NEW gone,
         NEW d, Nested(fs, stack, d, gone), Shorter(gs, fs), Less(rest, stack)
  PROVE  \E e : Nested(gs, rest, e, gone) /\ Based(e, d, gone)
<1> DEFINE n == Len(gs)
           m == Len(rest)
           e == [i \in 0..n |-> IF d[i] <= m THEN d[i] ELSE m]
<1>1. /\ n \in Nat /\ m \in Nat /\ Len(fs) = n + 1 /\ n > 0 /\ Len(stack) \in Nat
      /\ n + 1 \in 1..Len(fs) /\ fs[n + 1].kind \in Pushing
      /\ \A i \in 1..n : gs[i] = fs[i]
  BY DEF Shorter, Less
<1>4. \A j \in 1..m : rest[j] = stack[j]
  BY DEF Less
<1>5. m <= Len(stack) /\ Len(stack) <= m + 1 /\ (Len(stack) > 0 => Len(stack) = m + 1)
  BY DEF Less
<1> HIDE DEF n, m
<1>2. d \in [0..n + 1 -> Nat] /\ d[n + 1] = Len(stack) /\ \A i, k \in 0..n + 1 : i <= k => d[i] <= d[k]
  BY <1>1 DEF Nested
<1>3. d[n + 1] <= d[n] + 1 /\ (gone = {} => d[n + 1] = d[n] + 1)
  <2>1. PICK top \in Nat : top = n + 1
    BY <1>1
  <2>2. NestedAt(fs, stack, d, gone, top)
    BY <1>1, <2>1 DEF Nested
  <2>3. d[top] <= d[top - 1] + 1 /\ (gone = {} /\ top > 1 /\ fs[top].kind \in Pushing => d[top] = d[top - 1] + 1)
    BY <2>2 DEF NestedAt
  <2>4. top - 1 = n /\ top > 1
    BY <1>1, <2>1
  <2> QED BY <1>1, <2>1, <2>3, <2>4
<1>6. m <= d[n]
  <2>1. d[n] \in Nat /\ d[n] <= d[n + 1]
    BY <1>1, <1>2
  <2> QED BY <1>1, <1>2, <1>3, <1>5, <2>1
<1>7. gone = {} => m = d[n]
  <2> SUFFICES ASSUME gone = {} PROVE m = d[n]
    OBVIOUS
  <2>1. d[n] \in Nat
    BY <1>1, <1>2
  <2> QED BY <1>1, <1>2, <1>3, <1>5, <2>1
<1>8. \A i \in 0..n : e[i] \in Nat /\ e[i] = IF d[i] <= m THEN d[i] ELSE m
  BY <1>1, <1>2
<1>9. e \in [0..n -> Nat] /\ e[n] = m
  BY <1>1, <1>2, <1>6, <1>8
<1> HIDE DEF e
<1>10. ASSUME NEW i \in 0..n, NEW k \in 0..n, i <= k
       PROVE  e[i] <= e[k]
  <2>1. d[i] <= d[k] /\ d[i] \in Nat /\ d[k] \in Nat
    BY <1>1, <1>2, <1>10
  <2>2. /\ e[i] = IF d[i] <= m THEN d[i] ELSE m
        /\ e[k] = IF d[k] <= m THEN d[k] ELSE m
    BY <1>8
  <2> QED BY <1>1, <2>1, <2>2
<1>11. gone = {} => \A i \in 0..n : e[i] = d[i]
  <2> SUFFICES ASSUME gone = {}, NEW i \in 0..n PROVE e[i] = d[i]
    OBVIOUS
  <2>1. d[i] <= d[n] /\ m = d[n]
    BY <1>1, <1>2, <1>7
  <2> QED BY <1>8, <2>1
<1>12. ASSUME NEW i \in 1..n
       PROVE  NestedAt(gs, rest, e, gone, i)
  <2>1. gs[i] = fs[i] /\ (i > 1 => gs[i - 1] = fs[i - 1])
    <3>1. i > 1 => i - 1 \in 1..n
      BY <1>1
    <3> QED BY <1>1, <3>1
  <2>2. i \in 1..Len(fs)
    BY <1>1
  <2>3. NestedAt(fs, stack, d, gone, i)
    BY <2>2 DEF Nested
  <2>4. /\ i \in 0..n /\ i - 1 \in 0..n /\ d[i] \in Nat /\ d[i - 1] \in Nat
    BY <1>1, <1>2
  <2>5. /\ e[i] = IF d[i] <= m THEN d[i] ELSE m
        /\ e[i - 1] = IF d[i - 1] <= m THEN d[i - 1] ELSE m
    BY <1>8, <2>4
  <2>6. e[i] <= e[i - 1] + 1 /\ (d[i] = d[i - 1] => e[i] = e[i - 1]) /\ e[i] <= d[i] /\ e[i] <= m
    <3>1. d[i] <= d[i - 1] + 1
      BY <2>3 DEF NestedAt
    <3> QED BY <1>1, <2>4, <2>5, <3>1
  <2>7. e[i] \in Nat
    BY <1>8, <2>4
  <2>8. \A j \in 1..e[i] : j \in 1..d[i] /\ rest[j] = stack[j]
    BY <1>1, <1>4, <2>4, <2>6, <2>7 DEF m
  <2>9. gone = {} /\ d[i] = d[i - 1] + 1 =>
          e[i] = e[i - 1] + 1 /\ e[i] = d[i] /\ rest[d[i]] = stack[d[i]]
    <3> SUFFICES ASSUME gone = {}, d[i] = d[i - 1] + 1
                 PROVE  e[i] = e[i - 1] + 1 /\ e[i] = d[i] /\ rest[d[i]] = stack[d[i]]
      OBVIOUS
    <3>1. e[i] = d[i] /\ e[i - 1] = d[i - 1]
      BY <1>11, <2>4
    <3>2. e[i] \in 1..e[i]
      BY <2>4, <2>7, <3>1
    <3> QED BY <2>8, <3>1, <3>2
  <2>10. gs[i].kind = "local" => \A j \in 1..e[i] : rest[j] # gs[i].pack
    BY <2>1, <2>3, <2>8 DEF NestedAt
  <2> QED BY <2>1, <2>3, <2>6, <2>9, <2>10 DEF NestedAt
<1>13. Nested(gs, rest, e, gone)
  BY <1>9, <1>10, <1>12 DEF Nested, n, m
<1>14. Based(e, d, gone)
  BY <1>1, <1>11 DEF Based
<1> QED BY <1>13, <1>14

\* A package is deleted: the bodies that account for its place do for one fewer.
LEMMA NestedDelete ==
  ASSUME NEW S, NEW fs \in Seq(S), NEW T, NEW stack \in Seq(T), NEW rest \in Seq(T),
         NEW d, NEW gone, Nested(fs, stack, d, gone), NEW more, more # {},
         NEW package, NEW m \in 1..Len(stack), Taken(rest, stack, package, m)
  PROVE  \E e : Nested(fs, rest, e, more)
<1> DEFINE n == Len(fs)
           e == [i \in 0..n |-> IF d[i] < m THEN d[i] ELSE d[i] - 1]
<1>1. /\ n \in Nat /\ Len(stack) \in Nat /\ m \in Nat \ {0} /\ Len(rest) = Len(stack) - 1
      /\ \A i \in 1..m - 1 : rest[i] = stack[i]
      /\ \A i \in m .. Len(stack) - 1 : rest[i] \in {stack[i + 1], stack[i]}
  BY DEF Taken
<1>2. d \in [0..n -> Nat] /\ d[n] = Len(stack) /\ \A i, k \in 0..n : i <= k => d[i] <= d[k]
  BY DEF Nested
<1> HIDE DEF n
<1>3. ASSUME NEW i \in 0..n
      PROVE  e[i] \in Nat /\ e[i] = IF d[i] < m THEN d[i] ELSE d[i] - 1
  <2>1. d[i] \in Nat
    BY <1>2
  <2> QED BY <1>1, <2>1
<1>4. e[n] = Len(rest)
  <2>1. n \in 0..n /\ ~ d[n] < m
    BY <1>1, <1>2
  <2>2. e[n] = d[n] - 1
    BY <1>3, <2>1
  <2> QED BY <1>1, <1>2, <2>2
<1> HIDE DEF e
<1>5. ASSUME NEW i \in 0..n, NEW k \in 0..n, i <= k
      PROVE  e[i] <= e[k]
  <2>1. d[i] <= d[k] /\ d[i] \in Nat /\ d[k] \in Nat
    BY <1>1, <1>2, <1>5
  <2>2. /\ e[i] = IF d[i] < m THEN d[i] ELSE d[i] - 1
        /\ e[k] = IF d[k] < m THEN d[k] ELSE d[k] - 1
    BY <1>3
  <2> QED BY <1>1, <2>1, <2>2
<1>6. ASSUME NEW i \in 1..n
      PROVE  /\ e[i] <= e[i - 1] + 1
             /\ fs[i].kind \notin Pushing => e[i] = e[i - 1]
             /\ fs[i].kind = "local" => \A j \in 1..e[i] : rest[j] # fs[i].pack
  <2>1. i \in 0..n /\ i - 1 \in 0..n /\ d[i] \in Nat /\ d[i - 1] \in Nat /\ d[i - 1] <= d[i]
        /\ d[i] <= Len(stack)
    BY <1>1, <1>2
  <2>2. /\ d[i] <= d[i - 1] + 1
        /\ fs[i].kind \notin Pushing => d[i] = d[i - 1]
        /\ fs[i].kind = "local" => \A j \in 1..d[i] : stack[j] # fs[i].pack
    BY DEF Nested, NestedAt, n
  <2>3. /\ e[i] = IF d[i] < m THEN d[i] ELSE d[i] - 1
        /\ e[i - 1] = IF d[i - 1] < m THEN d[i - 1] ELSE d[i - 1] - 1
    BY <1>3, <2>1
  <2>4. e[i] <= e[i - 1] + 1 /\ (d[i] = d[i - 1] => e[i] = e[i - 1])
    BY <1>1, <2>1, <2>2, <2>3
  <2>5. ASSUME fs[i].kind = "local", NEW j \in 1..e[i]
        PROVE  rest[j] # fs[i].pack
    <3>1. CASE j < m
      <4>1. j \in 1..m - 1 /\ j \in 1..d[i]
        BY <1>1, <2>1, <2>3, <3>1
      <4> QED BY <1>1, <2>2, <2>5, <4>1
    <3>2. CASE j >= m
      <4>1. j \in m .. Len(stack) - 1 /\ j \in 1..d[i] /\ j + 1 \in 1..d[i]
        BY <1>1, <2>1, <2>3, <3>2
      <4> QED BY <1>1, <2>2, <2>5, <4>1
    <3> QED BY <1>1, <3>1, <3>2
  <2> QED BY <2>2, <2>4, <2>5
<1>7. e \in [0..n -> Nat]
  BY <1>3 DEF e
<1>8. Nested(fs, rest, e, more)
  BY <1>4, <1>5, <1>6, <1>7 DEF Nested, NestedAt, n
<1> QED BY <1>8

\* A page accounts for all that the pages before it have left.
LEMMA NestedPage ==
  ASSUME NEW S, NEW fs \in Seq(S), NEW stack, Len(stack) \in Nat, NEW gone,
         Len(fs) = 1, fs[1].kind \in {"page", "after"}
  PROVE  \E e : Nested(fs, stack, e, gone) /\ e[0] = Len(stack)
<1> DEFINE e == [i \in 0..Len(fs) |-> Len(stack)]
<1>1. fs[1].kind \notin Pushing /\ fs[1].kind # "local"
  BY DEF Pushing
<1>2. e \in [0..Len(fs) -> Nat] /\ \A i \in 0..Len(fs) : e[i] = Len(stack)
  OBVIOUS
<1> HIDE DEF e
<1>3. Nested(fs, stack, e, gone)
  BY <1>1, <1>2 DEF Nested, NestedAt
<1> QED BY <1>1, <1>2, <1>3

\* And so does no page.
LEMMA NestedNone ==
  ASSUME NEW stack, Len(stack) \in Nat, NEW gone
  PROVE  \E e : Nested(<<>>, stack, e, gone) /\ e[0] = Len(stack)
<1> DEFINE e == [i \in 0..0 |-> Len(stack)]
<1>1. Len(<<>>) = 0
  OBVIOUS
<1>2. e \in [0..0 -> Nat] /\ \A i \in 0..0 : e[i] = Len(stack)
  OBVIOUS
<1> HIDE DEF e
<1>3. 0 \in 0..0 /\ 1..0 = {}
  OBVIOUS
<1>4. \A i \in 0..0 : i = 0
  OBVIOUS
<1>5. Nested(<<>>, stack, e, gone)
  BY <1>1, <1>2, <1>3, <1>4 DEF Nested
<1> QED BY <1>2, <1>3, <1>5

-----------------------------------------------------------------------------
(* Packages keep their names, and bodies what they remember. *)

\* What symbol_get_package does to the packages PS: none of them is another.
Grown(ps, qs) ==
  /\ qs \in Seq(Package) /\ Len(ps) <= Len(qs)
  /\ \A p \in 1..Len(ps) : qs[p] = ps[p]
  /\ \A p \in Len(ps) + 1 .. Len(qs) :
       /\ qs[p].live /\ \A q \in Len(ps) + 1 .. Len(qs) : q = p
       /\ qs[p].name # Anonymous => \A q \in Live(ps) : ps[q].name # qs[p].name

\* symbol_get_package makes a package only where there is none of the name.
LEMMA GetGrows ==
  ASSUME NEW ps \in Seq(Package), Len(ps) <= MaxPackages,
         NEW name \in Names \cup {Anonymous}, CanGet(ps, name)
  PROVE  Grown(ps, Getting(ps, name))
<1> DEFINE qs == Getting(ps, name)
<1>1. /\ qs \in Seq(Package) /\ Len(ps) <= Len(qs)
      /\ \A p \in 1..Len(ps) : qs[p] = ps[p]
      /\ \A p \in Len(ps) + 1 .. Len(qs) : p = Got(ps, name)
      /\ qs[Got(ps, name)] = [name |-> name, live |-> TRUE]
  BY GetsIt
<1>2. Lookup(ps, name) # {} => Len(qs) = Len(ps)
  BY DEF Getting
<1>3. Len(ps) \in Nat /\ Len(qs) \in Nat
  BY <1>1
<1> HIDE DEF qs
<1>4. ASSUME NEW p \in Len(ps) + 1 .. Len(qs)
      PROVE  /\ qs[p].live /\ \A q \in Len(ps) + 1 .. Len(qs) : q = p
             /\ qs[p].name # Anonymous => \A q \in Live(ps) : ps[q].name # qs[p].name
  <2>1. p = Got(ps, name) /\ \A q \in Len(ps) + 1 .. Len(qs) : q = p
    BY <1>1
  <2>2. qs[p].live /\ qs[p].name = name
    BY <1>1, <2>1
  <2>3. Lookup(ps, name) = {}
    BY <1>2, <1>3
  <2>4. name # Anonymous => \A q \in Live(ps) : ps[q].name # name
    BY <2>3 DEF Lookup
  <2> QED BY <2>1, <2>2, <2>4
<1>5. Grown(ps, qs)
  BY <1>1, <1>4 DEF Grown
<1> QED BY <1>5 DEF qs

\* What is got has the name and has not been freed.
LEMMA GotLive ==
  ASSUME NEW ps \in Seq(Package), Len(ps) <= MaxPackages,
         NEW name \in Names \cup {Anonymous}, CanGet(ps, name)
  PROVE  /\ Got(ps, name) \in Live(Getting(ps, name)) /\ Got(ps, name) # NULL
         /\ Got(ps, name) \in 1..Len(Getting(ps, name))
         /\ Getting(ps, name)[Got(ps, name)].name = name
<1>1. /\ Getting(ps, name) \in Seq(Package)
      /\ Got(ps, name) \in 1..Len(Getting(ps, name))
      /\ Getting(ps, name)[Got(ps, name)] = [name |-> name, live |-> TRUE]
  BY GetsIt
<1>2. DOMAIN Getting(ps, name) = 1..Len(Getting(ps, name))
  BY <1>1
<1>3. Got(ps, name) # NULL
  BY <1>1 DEF NULL
<1> QED BY <1>1, <1>2, <1>3 DEF Live

\* Where nothing is made, or freed, nothing is another.
LEMMA GrownSame ==
  ASSUME NEW ps \in Seq(Package)
  PROVE  Grown(ps, ps)
<1>1. Len(ps) + 1 .. Len(ps) = {}
  OBVIOUS
<1> QED BY <1>1 DEF Grown

\* CurrentPackage's name is looked up among the packages as they are.
LEMMA GiveBackGrows ==
  ASSUME NEW ps \in Seq(Package), Len(ps) <= MaxPackages,
         NEW frame, frame.name \in Names \cup {Anonymous}, GiveBack(ps, frame)
  PROVE  Grown(ps, packs')
<1>1. CASE frame.name = Anonymous
  BY <1>1, GrownSame DEF GiveBack
<1>2. CASE frame.name # Anonymous
  BY <1>2, GetGrows DEF GiveBack
<1> QED BY <1>1, <1>2

\* The index of a package is one of PACKS, or the step frees none.
LEMMA FreedTyped ==
  ASSUME TypedInv, NEW package \in 0..Len(packs)
  PROVE  /\ Freed(package) \in Seq(Package) /\ Len(Freed(package)) = Len(packs)
         /\ \A p \in 1..Len(packs) : Freed(package)[p].name = packs[p].name
         /\ \A p \in 1..Len(packs) : p # package => Freed(package)[p] = packs[p]
         /\ Live(Freed(package)) = Live(packs) \ {package}
<1>1. packs \in Seq(Package) /\ DOMAIN packs = 1..Len(packs)
  BY DEF TypedInv, Typed
<1>2. CASE package \in 1..Len(packs)
  <2>1. /\ Freed(package) \in Seq(Package) /\ Len(Freed(package)) = Len(packs)
        /\ \A p \in 1..Len(packs) : Freed(package)[p].name = packs[p].name
        /\ ~ Freed(package)[package].live
        /\ \A p \in 1..Len(packs) : p # package => Freed(package)[p] = packs[p]
    BY <1>1, <1>2, FreesIt
  <2>2. DOMAIN Freed(package) = 1..Len(packs)
    BY <2>1
  <2> QED BY <1>1, <2>1, <2>2 DEF Live
<1>3. CASE package = 0
  <2>1. Freed(package) = packs
    BY <1>1, <1>3 DEF Freed
  <2>2. package \notin Live(packs)
    BY <1>1, <1>3 DEF Live
  <2> QED BY <1>1, <2>1, <2>2
<1>4. package \in 1..Len(packs) \/ package = 0
  BY <1>1
<1> QED BY <1>2, <1>3, <1>4

\* Every step frees at most one package and makes at most one.
LEMMA PacksStep ==
  ASSUME TypedInv, [Next]_vars
  PROVE  \/ Grown(packs, packs')
         \/ \E package \in 0..Len(packs) : Grown(Freed(package), packs')
<1>1. packs \in Seq(Package) /\ Len(packs) <= MaxPackages /\ DOMAIN packs = 1..Len(packs)
  BY DEF TypedInv, Typed
<1>2. Default \in Names \cup {Anonymous}
  BY PageEnvironmentAssumption
<1>3. CASE UNCHANGED packs
  BY <1>1, <1>3, GrownSame
<1>4. CASE \E name \in Names \cup {Anonymous} : CanGet(packs, name) /\ packs' = Getting(packs, name)
  BY <1>1, <1>4, GetGrows
<1>5. CASE Delete
  <2>1. PICK package \in Live(packs) : packs' = Freed(package)
    BY <1>5 DEF Delete
  <2>2. package \in 0..Len(packs)
    BY <1>1 DEF Live
  <2>3. Freed(package) \in Seq(Package)
    BY <2>2, FreedTyped
  <2> QED BY <2>1, <2>2, <2>3, GrownSame
<1>6. CASE LeaveNamed \/ LeaveLocal
  <2>1. Depth \in 1..Depth /\ Top \in BodyOf(Len(packs))
    BY <1>6 DEF LeaveNamed, LeaveLocal, Leaves, TypedInv, Typed, Top, Depth
  <2>2. Top.pack \in 0..Len(packs) /\ Top.name \in Names \cup {Anonymous}
    BY <2>1 DEF BodyOf
  <2>3. CASE LeaveNamed
    BY <1>1, <2>2, <2>3, GiveBackGrows DEF LeaveNamed
  <2>4. CASE LeaveLocal
    <3>1. Freed(Top.pack) \in Seq(Package) /\ Len(Freed(Top.pack)) <= MaxPackages
      BY <1>1, <2>2, FreedTyped
    <3>2. Grown(Freed(Top.pack), packs')
      BY <2>2, <2>4, <3>1, GiveBackGrows DEF LeaveLocal
    <3> QED BY <2>2, <3>2
  <2> QED BY <1>6, <2>3, <2>4
<1>7. CASE LeaveLet
  <2>1. frames[Leaving] \in BodyOf(Len(packs))
    BY <1>7, LeaveShape DEF LeaveLet, TypedInv, Typed
  <2>2. frames[Leaving].name \in Names \cup {Anonymous}
    BY <2>1 DEF BodyOf
  <2> QED BY <1>3, <1>4, <1>7, <2>2 DEF LeaveLet
<1>8. CASE InPackage \/ CallLocal \/ CallNamed \/ Refer
  BY <1>2, <1>3, <1>4, <1>8 DEF InPackage, CallLocal, CallNamed, Refer
<1>9. CASE \/ BeginPage \/ AfterPage \/ Body \/ Let \/ Jump \/ UNCHANGED vars
           \/ LeaveIn \/ LeaveBody \/ LeavePage \/ LeaveAfter
  BY <1>3, <1>9 DEF BeginPage, AfterPage, Body, Let, Jump, vars, LeaveIn, LeaveBody,
                    LeavePage, LeaveAfter
<1> QED BY <1>5, <1>6, <1>7, <1>8, <1>9 DEF Next

\* The packages that there are keep their names.
LEMMA NamesKept ==
  ASSUME TypedInv, [Next]_vars
  PROVE  /\ Len(packs) <= Len(packs')
         /\ \A p \in 1..Len(packs) : packs'[p].name = packs[p].name
<1>1. CASE Grown(packs, packs')
  BY <1>1 DEF Grown
<1>2. ASSUME NEW package \in 0..Len(packs), Grown(Freed(package), packs')
      PROVE  /\ Len(packs) <= Len(packs')
             /\ \A p \in 1..Len(packs) : packs'[p].name = packs[p].name
  BY <1>2, FreedTyped DEF Grown
<1> QED BY <1>1, <1>2, PacksStep

\* A name is that of one package at most.
LEMMA UniqueGrows ==
  ASSUME NEW ps \in Seq(Package), NEW qs, Unique(ps), Grown(ps, qs)
  PROVE  Unique(qs)
<1> SUFFICES ASSUME NEW p \in Live(qs), NEW q \in Live(qs),
                    qs[p].name = qs[q].name, qs[p].name # Anonymous
             PROVE  p = q
  BY DEF Unique
<1>1. /\ Len(ps) \in Nat /\ Len(qs) \in Nat /\ DOMAIN ps = 1..Len(ps) /\ DOMAIN qs = 1..Len(qs)
      /\ Len(ps) <= Len(qs)
  BY DEF Grown
<1>2. p \in 1..Len(qs) /\ q \in 1..Len(qs)
  BY <1>1 DEF Live
<1>3. \A x \in Live(qs) : x \in 1..Len(ps) => x \in Live(ps) /\ qs[x] = ps[x]
  BY <1>1 DEF Live, Grown
<1>4. \A x \in 1..Len(qs) : x \in 1..Len(ps) \/ x \in Len(ps) + 1 .. Len(qs)
  BY <1>1
<1>5. CASE p \in 1..Len(ps) /\ q \in 1..Len(ps)
  BY <1>3, <1>5 DEF Unique
<1>6. CASE p \in Len(ps) + 1 .. Len(qs)
  <2>1. q \notin 1..Len(ps)
    BY <1>3, <1>6 DEF Grown
  <2> QED BY <1>2, <1>4, <1>6, <2>1 DEF Grown
<1>7. CASE q \in Len(ps) + 1 .. Len(qs)
  <2>1. p \notin 1..Len(ps)
    BY <1>3, <1>7 DEF Grown
  <2> QED BY <1>2, <1>4, <1>7, <2>1 DEF Grown
<1> QED BY <1>2, <1>4, <1>5, <1>6, <1>7

\* A name stays that of one package at most.
LEMMA NextUnique ==
  ASSUME TypedInv, Unique(packs), [Next]_vars
  PROVE  Unique(packs')
<1>1. CASE Grown(packs, packs')
  BY <1>1, UniqueGrows DEF TypedInv, Typed
<1>2. ASSUME NEW package \in 0..Len(packs), Grown(Freed(package), packs')
      PROVE  Unique(packs')
  <2>1. /\ Freed(package) \in Seq(Package) /\ Len(Freed(package)) = Len(packs)
        /\ \A p \in 1..Len(packs) : Freed(package)[p].name = packs[p].name
        /\ Live(Freed(package)) = Live(packs) \ {package}
    BY FreedTyped
  <2>2. Live(packs) \subseteq 1..Len(packs)
    BY DEF Live, TypedInv, Typed
  <2>3. Unique(Freed(package))
    BY <2>1, <2>2 DEF Unique
  <2> QED BY <1>2, <2>1, <2>3, UniqueGrows
<1> QED BY <1>1, <1>2, PacksStep

\* A body that remains has what it remembers.
LEMMA FramedStays ==
  ASSUME TypedInv, Len(packs) <= Len(packs'),
         \A p \in 1..Len(packs) : packs'[p].name = packs[p].name,
         NEW i \in 1..Depth, Framed(i), \A j \in 1..i : frames'[j] = frames[j]
  PROVE  Framed(i)'
<1>1. Depth \in Nat /\ Len(packs) \in Nat
  BY DEF TypedInv, Typed, Depth
<1>2. frames[i] \in BodyOf(Len(packs))
  BY DEF TypedInv, Typed, Depth
<1>3. /\ frames[i].outer # NULL => packs'[frames[i].outer].name = packs[frames[i].outer].name
      /\ frames[i].pack # NULL => packs'[frames[i].pack].name = packs[frames[i].pack].name
  BY <1>1, <1>2 DEF BodyOf, NULL
<1>4. i \in 1..i /\ frames'[i] = frames[i]
  BY <1>1
<1>5. frames[i].name = Anonymous =>
        frames[i].outer = NULL \/ packs'[frames[i].outer].name = Anonymous
  BY <1>3 DEF Framed
<1>6. frames[i].name # Anonymous =>
        frames[i].outer # NULL /\ packs'[frames[i].outer].name = frames[i].name
  BY <1>3 DEF Framed
<1>7. frames[i].kind = "local" =>
        /\ frames[i].pack # NULL /\ packs'[frames[i].pack].name = Anonymous
        /\ \A j \in 1..i : frames'[j].outer # frames[i].pack
  BY <1>3 DEF Framed
<1> QED BY <1>4, <1>5, <1>6, <1>7 DEF Framed

\* What the body of an operator remembers when it is entered.
LEMMA FramedEnter ==
  ASSUME TypedInv, \A i \in DOMAIN frames : Framed(i), Depth > 0,
         Len(packs) <= Len(packs'),
         \A p \in 1..Len(packs) : packs'[p].name = packs[p].name,
         NEW kind \in Kinds \ {"page", "after"}, NEW pack, NEW outer \in 0..Len(packs),
         Enter(Frame(kind, pack, outer)),
         kind \in {"named", "local"} => outer # NULL,
         kind = "local" => pack = Len(packs) + 1 /\ packs'[pack].name = Anonymous
  PROVE  (\A i \in DOMAIN frames : Framed(i))'
<1> DEFINE frame == Frame(kind, pack, outer)
<1>1. /\ frame.kind = kind /\ frame.pack = pack /\ frame.outer = outer
      /\ frame.name = IF outer = NULL THEN Anonymous ELSE packs[outer].name
  BY DEF Frame
<1>2. frames' = Append(frames, frame)
  BY DEF Enter
<1> HIDE DEF frame
<1>3. Depth \in Nat /\ Len(packs) \in Nat /\ DOMAIN frames = 1..Depth
  BY DEF TypedInv, Typed, Depth
<1>4. /\ DOMAIN frames' = 1..Depth + 1 /\ frames'[Depth + 1] = frame
      /\ \A i \in 1..Depth : frames'[i] = frames[i]
  <2>1. frames \in Seq(BodyOf(Len(packs)) \cup {frame})
    BY SeqOfMore DEF TypedInv, Typed
  <2> QED BY <1>2, <2>1, AppendProperties DEF Depth
<1>5. ASSUME NEW i \in 1..Depth PROVE Framed(i)'
  <2>1. \A j \in 1..i : frames'[j] = frames[j]
    BY <1>3, <1>4
  <2> QED BY <1>3, <2>1, FramedStays
<1>8. PICK top \in Nat : top = Depth + 1
  BY <1>3
<1>6. Framed(top)'
  <2>1. outer # NULL => packs'[outer].name = packs[outer].name
    BY <1>3 DEF NULL
  <2>2. top # 1 /\ frames'[top] = frame
    BY <1>3, <1>4, <1>8
  <2>3. ASSUME kind = "local"
        PROVE  pack # NULL /\ \A j \in 1..top : frames'[j].outer # pack
    <3>1. pack = Len(packs) + 1
      BY <2>3
    <3>2. \A j \in 1..Depth : frames[j].outer \in 0..Len(packs)
      <4> SUFFICES ASSUME NEW j \in 1..Depth PROVE frames[j].outer \in 0..Len(packs)
        OBVIOUS
      <4>1. frames[j] \in BodyOf(Len(packs))
        BY DEF TypedInv, Typed, Depth
      <4> QED BY <4>1 DEF BodyOf
    <3>3. \A x \in 0..Len(packs) : x # pack
      BY <1>3, <3>1
    <3>4. \A j \in 1..top : j \in 1..Depth \/ j = Depth + 1
      BY <1>3, <1>8
    <3>5. ASSUME NEW j \in 1..top PROVE frames'[j].outer # pack
      <4>1. CASE j \in 1..Depth
        BY <1>4, <3>2, <3>3, <4>1
      <4>2. CASE j = Depth + 1
        BY <1>1, <1>4, <3>3, <4>2
      <4> QED BY <3>4, <4>1, <4>2
    <3>6. pack # NULL
      BY <1>3, <3>1 DEF NULL
    <3> QED BY <3>5, <3>6
  <2>4. /\ frame.kind \notin {"page", "after"}
        /\ frame.name = Anonymous => frame.outer = NULL \/ packs'[frame.outer].name = Anonymous
        /\ frame.name # Anonymous => frame.outer # NULL /\ packs'[frame.outer].name = frame.name
        /\ frame.kind \in {"named", "local"} => frame.outer # NULL
    BY <1>1, <2>1
  <2>5. frame.kind = "local" =>
          /\ frame.pack # NULL /\ packs'[frame.pack].name = Anonymous
          /\ \A j \in 1..top : frames'[j].outer # frame.pack
    BY <1>1, <2>3
  <2> QED BY <2>2, <2>4, <2>5 DEF Framed
<1>7. \A i \in 1..Depth + 1 : i \in 1..Depth \/ i = Depth + 1
  BY <1>3
<1> QED BY <1>4, <1>5, <1>6, <1>7, <1>8

\* A function with a package of its own, and mhtml_let within it.
LEMMA FramedCallNamed ==
  ASSUME TypedInv, \A i \in DOMAIN frames : Framed(i), CallNamed
  PROVE  (\A i \in DOMAIN frames : Framed(i))'
<1>1. PICK name \in Names :
        /\ CanGet(packs, name) /\ packs' = Getting(packs, name) /\ current' = Got(packs, name)
        /\ frames' = frames \o
             <<Frame("named", Got(packs, name), current),
               [Frame("let", Got(packs, name), NULL)
                  EXCEPT !.outer = Got(packs, name), !.name = name]>>
  BY DEF CallNamed
<1> DEFINE function == Frame("named", Got(packs, name), current)
           let == [Frame("let", Got(packs, name), NULL)
                     EXCEPT !.outer = Got(packs, name), !.name = name]
<1>2. /\ function.kind = "named" /\ function.outer = current
      /\ function.name = IF current = NULL THEN Anonymous ELSE packs[current].name
      /\ let.kind = "let" /\ let.outer = Got(packs, name) /\ let.name = name
  BY DEF Frame
<1>3. frames' = frames \o <<function, let>>
  BY <1>1
<1> HIDE DEF function, let
<1>4. Depth \in Nat /\ Len(packs) \in Nat /\ DOMAIN frames = 1..Depth /\ Depth > 0
  BY EmptySeq DEF TypedInv, Typed, Depth, CallNamed, Deeper, Evaluating
<1>5. /\ DOMAIN frames' = 1..Depth + 2
      /\ frames'[Depth + 1] = function /\ frames'[Depth + 2] = let
      /\ \A i \in 1..Depth : frames'[i] = frames[i]
  <2>1. frames \in Seq(BodyOf(Len(packs)) \cup {function, let})
        /\ <<function, let>> \in Seq(BodyOf(Len(packs)) \cup {function, let})
    BY SeqOfMore DEF TypedInv, Typed
  <2> QED BY <1>3, <2>1, ConcatProperties DEF Depth
<1>6. /\ Len(packs) <= Len(packs')
      /\ \A p \in 1..Len(packs) : packs'[p].name = packs[p].name
  BY NamesKept DEF Next
<1>7. ASSUME NEW i \in 1..Depth PROVE Framed(i)'
  <2>1. \A j \in 1..i : frames'[j] = frames[j]
    BY <1>4, <1>5
  <2> QED BY <1>4, <1>6, <2>1, FramedStays
<1>11. PICK top \in Nat : top = Depth + 1
  BY <1>4
<1>8. Framed(top)'
  <2>1. current # NULL /\ packs'[current].name = packs[current].name
    <3>1. current \in 0..Len(packs) /\ current # 0
      BY DEF CallNamed, TypedInv, Typed, NULL
    <3>2. current \in 1..Len(packs)
      BY <1>4, <3>1
    <3> QED BY <1>6, <3>1, <3>2 DEF NULL
  <2>2. top # 1 /\ frames'[top] = function
    BY <1>4, <1>5, <1>11
  <2> QED BY <1>2, <2>1, <2>2 DEF Framed
<1>9. Framed(top + 1)'
  <2>1. Got(packs, name) # NULL /\ packs'[Got(packs, name)].name = name
    BY <1>1, GotLive DEF TypedInv, Typed
  <2>2. name # Anonymous
    BY PageEnvironmentAssumption
  <2>3. top + 1 # 1 /\ frames'[top + 1] = let
    BY <1>4, <1>5, <1>11
  <2> QED BY <1>2, <2>1, <2>2, <2>3 DEF Framed
<1>10. \A i \in 1..Depth + 2 : i \in 1..Depth \/ i = Depth + 1 \/ i = Depth + 2
  BY <1>4
<1> QED BY <1>4, <1>5, <1>7, <1>8, <1>9, <1>10, <1>11

\* Bodies have what they remember.
LEMMA NextFramed ==
  ASSUME TypedInv, \A i \in DOMAIN frames : Framed(i), [Next]_vars
  PROVE  (\A i \in DOMAIN frames : Framed(i))'
<1>1. /\ Len(packs) <= Len(packs')
      /\ \A p \in 1..Len(packs) : packs'[p].name = packs[p].name
  BY NamesKept
<1>2. Depth \in Nat /\ Len(packs) \in Nat /\ DOMAIN frames = 1..Depth
  BY DEF TypedInv, Typed, Depth
<1>3. current \in 0..Len(packs) /\ NULL \in 0..Len(packs)
  BY <1>2 DEF TypedInv, Typed, NULL
<1>4. CASE UNCHANGED frames
  BY <1>1, <1>2, <1>4, FramedStays
<1>5. CASE \E kind : Leaves(kind) /\ Leave
  <2>1. /\ Leaving \in 1..Depth /\ Depth' = Leaving - 1
        /\ frames' \in Seq(BodyOf(Len(packs)))
        /\ \A i \in 1..Leaving - 1 : frames'[i] = frames[i]
    BY <1>5, LeaveShape DEF TypedInv, Typed
  <2>2. DOMAIN frames' = 1..Leaving - 1
    BY <2>1 DEF Depth
  <2> SUFFICES ASSUME NEW i \in 1..Leaving - 1 PROVE Framed(i)'
    BY <2>2
  <2>3. i \in 1..Depth /\ \A j \in 1..i : frames'[j] = frames[j]
    BY <1>2, <2>1
  <2> QED BY <1>1, <1>2, <2>3, FramedStays
<1>6. CASE BeginPage \/ AfterPage
  <2>1. PICK kind \in {"page", "after"} : frames' = <<Frame(kind, current, NULL)>>
    BY <1>6 DEF BeginPage, AfterPage
  <2> DEFINE frame == Frame(kind, current, NULL)
  <2>2. frame.kind = kind /\ frame.name = Anonymous /\ frame.outer = NULL
    BY DEF Frame
  <2> HIDE DEF frame
  <2>3. frames' = <<frame>>
    BY <2>1 DEF frame
  <2>4. DOMAIN frames' = {1} /\ frames'[1] = frame
    BY <2>3
  <2>5. Framed(1)'
    BY <2>2, <2>4 DEF Framed
  <2> QED BY <2>4, <2>5
<1>7. CASE InPackage \/ Body \/ Let \/ CallLocal
  <2>1. Depth > 0
    BY <1>2, <1>7, EmptySeq DEF InPackage, Body, Let, CallLocal, Deeper, Evaluating, TypedInv, Typed, Depth
  <2>2. CASE InPackage
    <3>1. PICK pack : Enter(Frame("in", pack, NULL))
      BY <2>2 DEF InPackage
    <3> QED BY <1>1, <1>3, <2>1, <3>1, FramedEnter DEF Kinds
  <2>3. CASE Body \/ Let
    BY <1>1, <1>3, <2>1, <2>3, FramedEnter DEF Kinds, Body, Let
  <2>4. CASE CallLocal
    <3>1. CanGet(packs, Anonymous) /\ packs' = Getting(packs, Anonymous)
      BY <2>4 DEF CallLocal
    <3>2. Got(packs, Anonymous) = Len(packs) + 1 /\ packs'[Got(packs, Anonymous)].name = Anonymous
      <4>1. packs \in Seq(Package) /\ Len(packs) <= MaxPackages
        BY DEF TypedInv, Typed
      <4>2. Got(packs, Anonymous) = Len(packs) + 1
        BY <3>1, <4>1, GetsIt
      <4>3. packs'[Got(packs, Anonymous)].name = Anonymous
        BY <3>1, <4>1, GotLive
      <4> QED BY <4>2, <4>3
    <3> QED BY <1>1, <1>3, <2>1, <2>4, <3>2, FramedEnter DEF Kinds, CallLocal
  <2> QED BY <1>7, <2>2, <2>3, <2>4
<1>8. CASE CallNamed
  BY <1>8, FramedCallNamed
<1>9. CASE Refer \/ Delete \/ Jump \/ UNCHANGED vars
  BY <1>4, <1>9 DEF Refer, Delete, Jump, vars
<1>10. CASE LeaveIn \/ LeaveBody \/ LeaveLet \/ LeaveNamed \/ LeaveLocal \/ LeavePage \/ LeaveAfter
  BY <1>5, <1>10 DEF LeaveIn, LeaveBody, LeaveLet, LeaveNamed, LeaveLocal, LeavePage, LeaveAfter
<1> QED BY <1>6, <1>7, <1>8, <1>9, <1>10 DEF Next

-----------------------------------------------------------------------------
(* Which package is current, on every step *)

Settled == Nesting /\ Undeleted /\ Lively

\* What has not been freed is not when a package is made.
LEMMA LiveGrows ==
  ASSUME NEW ps \in Seq(Package), NEW qs, Grown(ps, qs)
  PROVE  /\ Live(ps) \subseteq Live(qs)
         /\ \A p \in DOMAIN qs : (p \in DOMAIN ps /\ qs[p] = ps[p]) \/ qs[p].live
<1>1. /\ Len(ps) \in Nat /\ Len(qs) \in Nat /\ DOMAIN ps = 1..Len(ps) /\ DOMAIN qs = 1..Len(qs)
      /\ Len(ps) <= Len(qs) /\ \A p \in 1..Len(ps) : qs[p] = ps[p]
      /\ \A p \in Len(ps) + 1 .. Len(qs) : qs[p].live
  BY DEF Grown
<1>2. \A p \in 1..Len(qs) : p \in 1..Len(ps) \/ p \in Len(ps) + 1 .. Len(qs)
  BY <1>1
<1>3. 1..Len(ps) \subseteq 1..Len(qs)
  BY <1>1
<1> QED BY <1>1, <1>2, <1>3 DEF Live

\* Into the body of an operator: in the current package, or in one that is pushed.
LEMMA EnterSettled ==
  ASSUME PackageInv, Deeper,
         NEW kind \in {"in", "local", "let", "body"}, NEW pack, NEW outer \in {NULL, current},
         Enter(Frame(kind, pack, outer)), Grown(packs, packs'),
         kind \in Pushing =>
           /\ Push(pack) /\ pack # NULL
           /\ deleted \subseteq {"once"} => pack \in Live(packs'),
         kind \notin Pushing => pack = current /\ UNCHANGED <<current, pdl>>,
         kind = "local" => outer = current /\ pack = Len(packs) + 1
  PROVE  Settled'
<1> DEFINE frame == Frame(kind, pack, outer)
<1>1. frame.kind = kind /\ frame.pack = pack /\ frame.outer = outer
  BY DEF Frame
<1>2. frames' = Append(frames, frame) /\ UNCHANGED <<jumping, pages, deleted, skipped>>
  BY DEF Enter, history
<1> HIDE DEF frame
<1>3. /\ ~jumping /\ ~jumping' /\ Orderly /\ Depth \in Nat /\ Depth > 0 /\ DOMAIN frames = 1..Depth
      /\ Len(packs) \in Nat
  BY <1>2, EmptySeq DEF Deeper, Evaluating, Orderly, PackageInv, TypedInv, Typed, Depth
<1>4. frames \in Seq(BodyOf(Len(packs)) \cup {frame})
  BY SeqOfMore DEF PackageInv, TypedInv, Typed
<1>5. /\ Depth' = Depth + 1 /\ DOMAIN frames' = 1..Depth + 1 /\ frames'[Depth + 1] = frame
      /\ \A i \in 1..Depth : frames'[i] = frames[i]
      /\ frames' # <<>>
  BY <1>2, <1>4, AppendProperties DEF Depth
<1>6. current \in 0..Len(packs) /\ pdl \in Seq(0..Len(packs))
  BY DEF PackageInv, TypedInv, Typed
<1>7. deleted = {} => current = Top.pack /\ current # NULL
  BY <1>3 DEF PackageInv, Undeleted, Deeper, Evaluating
<1>8. current' = pack
  BY DEF Push, SetDefault
<1>9. Nesting'
  <2> SUFFICES ASSUME deleted \subseteq {"once"}
               PROVE  \E e : /\ Nested(frames', pdl', e, deleted)
                             /\ deleted = {} /\ ~skipped => e[0] = 0
    BY <1>2 DEF Nesting
  <2>1. PICK d : Nested(frames, pdl, d, deleted) /\ (deleted = {} /\ ~skipped => d[0] = 0)
    BY <1>3 DEF PackageInv, Nesting
  <2>2. frame \in BodyOf(Len(packs)) \cup {frame}
    OBVIOUS
  <2>3. CASE kind \in Pushing
    <3>1. pdl' = Append(pdl, current)
      BY <2>3 DEF Push
    <3>2. frame.kind = "local" =>
            current # frame.pack /\ \A j \in 1..Len(pdl) : pdl[j] # frame.pack
      <4> SUFFICES ASSUME frame.kind = "local"
                   PROVE  current # frame.pack /\ \A j \in 1..Len(pdl) : pdl[j] # frame.pack
        OBVIOUS
      <4>1. \A x \in 0..Len(packs) : x # frame.pack
        BY <1>1, <1>3
      <4> QED BY <1>6, <4>1
    <3>3. deleted = {} /\ frames # <<>> =>
            /\ current = frames[Len(frames)].pack
            /\ frame.kind = "local" => frame.outer = frames[Len(frames)].pack
      BY <1>1, <1>7 DEF Top, Depth
    <3>4. frame.kind \in Pushing
      BY <1>1, <2>3
    <3>5. \E e : Nested(Append(frames, frame), Append(pdl, current), e, deleted) /\ e[0] = d[0]
      BY <1>4, <1>6, <2>1, <2>2, <3>2, <3>3, <3>4, NestedPush
    <3> QED BY <1>2, <2>1, <3>1, <3>5
  <2>4. CASE kind \notin Pushing
    <3>1. pdl' = pdl
      BY <2>4
    <3>2. deleted = {} /\ frames # <<>> =>
            /\ frame.kind = "named" => frame.outer = frames[Len(frames)].pack
            /\ frame.kind \in {"body", "let"} => frame.pack = frames[Len(frames)].pack
      BY <1>1, <1>7, <2>4 DEF Top, Depth
    <3>3. \E e : Nested(Append(frames, frame), pdl, e, deleted) /\ e[0] = d[0]
      BY <1>1, <1>4, <1>6, <2>1, <2>2, <2>4, <3>2, NestedMore
    <3> QED BY <1>2, <2>1, <3>1, <3>3
  <2> QED BY <2>3, <2>4
<1>10. Undeleted'
  <2> SUFFICES ASSUME deleted = {}
               PROVE  /\ \A p \in DOMAIN packs' : packs'[p].name # Anonymous => packs'[p].live
                      /\ current' # NULL /\ \A i \in DOMAIN frames' : frames'[i].pack # NULL
                      /\ current' = Top'.pack
                      /\ ~skipped => frames'[1].pack = 1
    BY <1>2, <1>5 DEF Undeleted
  <2>1. \A p \in DOMAIN packs' : packs'[p].name # Anonymous => packs'[p].live
    BY LiveGrows DEF PackageInv, Undeleted, TypedInv, Typed
  <2>2. pack # NULL
    BY <1>7
  <2>3. \A i \in 1..Depth + 1 : i \in 1..Depth \/ i = Depth + 1
    BY <1>3
  <2>4. \A i \in DOMAIN frames' : frames'[i].pack # NULL
    BY <1>1, <1>3, <1>5, <2>2, <2>3 DEF PackageInv, Undeleted
  <2>5. Top' = frame
    BY <1>5 DEF Top
  <2>6. ~skipped => frames'[1].pack = 1
    <3>1. 1 \in 1..Depth
      BY <1>3
    <3> QED BY <1>3, <1>5, <3>1 DEF PackageInv, Undeleted, Deeper, Evaluating
  <2> QED BY <1>1, <1>8, <2>1, <2>2, <2>4, <2>5, <2>6
<1>11. Lively'
  <2> SUFFICES ASSUME deleted \subseteq {"once"}
               PROVE  /\ current' \in Live(packs') \cup {NULL}
                      /\ \A j \in DOMAIN pdl' : pdl'[j] \in Live(packs') \cup {NULL}
                      /\ \A i \in DOMAIN frames' :
                           frames'[i].name = Anonymous => frames'[i].outer \in Live(packs') \cup {NULL}
    BY <1>2 DEF Lively
  <2>1. Live(packs) \subseteq Live(packs')
    BY LiveGrows DEF PackageInv, TypedInv, Typed
  <2>2. current \in Live(packs') \cup {NULL} /\ pack \in Live(packs') \cup {NULL}
    BY <2>1 DEF PackageInv, Lively
  <2>3. \A j \in DOMAIN pdl' : pdl'[j] \in Live(packs') \cup {NULL}
    <3>1. CASE pdl' = pdl
      BY <2>1, <3>1 DEF PackageInv, Lively
    <3>2. CASE pdl' = Append(pdl, current)
      <4>1. /\ DOMAIN pdl' = 1..Len(pdl) + 1 /\ pdl'[Len(pdl) + 1] = current /\ Len(pdl) \in Nat
            /\ DOMAIN pdl = 1..Len(pdl) /\ \A j \in 1..Len(pdl) : pdl'[j] = pdl[j]
        BY <1>6, <3>2, AppendProperties
      <4>2. \A j \in 1..Len(pdl) + 1 : j \in 1..Len(pdl) \/ j = Len(pdl) + 1
        BY <4>1
      <4> QED BY <2>1, <2>2, <4>1, <4>2 DEF PackageInv, Lively
    <3> QED BY <3>1, <3>2 DEF Push
  <2>4. \A i \in 1..Depth + 1 : i \in 1..Depth \/ i = Depth + 1
    BY <1>3
  <2>5. \A i \in DOMAIN frames' :
          frames'[i].name = Anonymous => frames'[i].outer \in Live(packs') \cup {NULL}
    BY <1>1, <1>3, <1>5, <2>1, <2>2, <2>4 DEF PackageInv, Lively
  <2> QED BY <1>8, <2>2, <2>3, <2>5
<1> QED BY <1>9, <1>10, <1>11 DEF Settled

\* As long as no jump passes a body that does not call setjmp(), it is the innermost
\* body that is left.
LEMMA LeavingInnermost ==
  ASSUME PackageInv, NEW kind, Leaves(kind), Leave, ~jumping \/ ~skipped'
  PROVE  Leaving = Depth /\ Orderly
<1>1. CASE ~jumping
  BY <1>1 DEF Leaving, Orderly
<1>2. CASE jumping /\ ~skipped'
  <2>1. ~skipped /\ \A i \in Leaving + 1 .. Depth : frames[i].kind \in Protected
    BY <1>2 DEF Leave
  <2>2. Leaving = target /\ \A i \in target + 1 .. Depth : frames[i].kind \notin Protected
    BY <1>2 DEF Leaving, PackageInv, TypedInv, Inv, IInv, TargetInnermost, Innermost
  <2>3. Depth \in Nat /\ Leaving \in 1..Depth
    BY LeaveShape DEF PackageInv, TypedInv, Typed
  <2>4. target = Depth
    BY <2>1, <2>2, <2>3
  <2> QED BY <2>1, <2>2, <2>4 DEF Orderly
<1> QED BY <1>1, <1>2

\* The body around the innermost one, and what the PDL has of it.
LEMMA Around ==
  ASSUME PackageInv, deleted = {}, Orderly, Depth > 1
  PROVE  /\ frames[Depth - 1].pack # NULL /\ current = Top.pack
         /\ Top.kind \in {"named", "local"} => Top.outer = frames[Depth - 1].pack
         /\ Top.kind \in {"body", "let"} => Top.pack = frames[Depth - 1].pack
         /\ Top.kind \in Pushing => pdl # <<>> /\ Last(pdl) = frames[Depth - 1].pack
<1>1. Depth \in Nat /\ DOMAIN frames = 1..Depth /\ frames # <<>>
  BY DEF PackageInv, TypedInv, Typed, Depth
<1>2. Depth - 1 \in 1..Depth /\ Depth \in 1..Depth
  BY <1>1
<1>3. frames[Depth - 1].pack # NULL /\ current = Top.pack
  BY <1>1, <1>2 DEF PackageInv, Undeleted
<1>4. PICK d : Nested(frames, pdl, d, deleted)
  BY DEF PackageInv, Nesting
<1>5. NestedAt(frames, pdl, d, deleted, Depth) /\ d[Depth] = Len(pdl) /\ d \in [0..Depth -> Nat]
  BY <1>1, <1>2, <1>4 DEF Nested, Depth
<1>6. ASSUME Top.kind \in Pushing
      PROVE  pdl # <<>> /\ Last(pdl) = frames[Depth - 1].pack
  <2>1. d[Depth] = d[Depth - 1] + 1 /\ pdl[Len(pdl)] = frames[Depth - 1].pack
    BY <1>5, <1>6 DEF NestedAt, Top
  <2>2. d[Depth - 1] \in Nat
    BY <1>1, <1>5
  <2>3. Len(pdl) > 0
    BY <1>5, <2>1, <2>2
  <2>4. pdl # <<>>
    BY <2>3
  <2> QED BY <2>1, <2>4 DEF Last
<1>7. /\ Top.kind \in {"named", "local"} => Top.outer = frames[Depth - 1].pack
      /\ Top.kind \in {"body", "let"} => Top.pack = frames[Depth - 1].pack
  BY <1>5 DEF NestedAt, Top
<1> QED BY <1>3, <1>6, <1>7

\* Out of a body that is within another, to that one's package.
LEMMA LeaveSettled ==
  ASSUME PackageInv, NEW kind \in Kinds \ {"page", "after"}, Leaves(kind), Leave,
         UNCHANGED jumping,
         deleted = {} =>
           /\ \A p \in DOMAIN packs' : packs'[p].name # Anonymous => packs'[p].live
           /\ current' # NULL,
         deleted = {} /\ Orderly /\ Leaving = Depth => current' = frames[Depth - 1].pack,
         deleted \subseteq {"once"} =>
           /\ current' \in Live(packs') \cup {NULL}
           /\ \A j \in DOMAIN pdl' : pdl'[j] \in Live(packs') \cup {NULL}
           /\ \A i \in 1..Leaving - 1 :
                frames[i].name = Anonymous => frames[i].outer \in Live(packs') \cup {NULL},
         deleted \subseteq {"once"} /\ Orderly /\ Leaving = Depth =>
           \E e : /\ Nested(frames', pdl', e, deleted)
                  /\ deleted = {} /\ ~skipped => e[0] = 0
  PROVE  Settled'
<1>1. /\ Depth \in Nat /\ Leaving \in 1..Depth /\ frames[Leaving].kind = kind
      /\ frames' \in Seq(BodyOf(Len(packs))) /\ Depth' = Leaving - 1
      /\ \A i \in 1..Leaving - 1 : frames'[i] = frames[i]
  BY LeaveShape DEF PackageInv, TypedInv, Typed
<1>2. /\ DOMAIN frames' = 1..Leaving - 1 /\ DOMAIN frames = 1..Depth
      /\ Len(frames') = Leaving - 1
  BY <1>1 DEF PackageInv, TypedInv, Typed, Depth
<1>3. Leaving > 1
  <2>1. Leaving # 1
    BY <1>1, <1>2 DEF PackageInv, Framed
  <2> QED BY <1>1, <2>1
<1>4. frames' # <<>> /\ Leaving - 1 \in 1..Leaving - 1 /\ 1 \in 1..Leaving - 1
  <2>1. Len(frames') > 0 /\ Leaving - 1 \in 1..Leaving - 1 /\ 1 \in 1..Leaving - 1
    BY <1>1, <1>2, <1>3
  <2>2. frames' # <<>>
    BY <2>1
  <2> QED BY <2>1, <2>2
<1>5. deleted' = deleted /\ (skipped => skipped')
  BY DEF Leave
<1>6. Orderly' => Leaving = Depth /\ Orderly
  BY LeavingInnermost DEF Orderly
<1>7. Nesting'
  BY <1>5, <1>6 DEF Nesting
<1>8. Undeleted'
  <2> SUFFICES ASSUME deleted = {}
               PROVE  /\ \A p \in DOMAIN packs' : packs'[p].name # Anonymous => packs'[p].live
                      /\ current' # NULL /\ \A i \in DOMAIN frames' : frames'[i].pack # NULL
                      /\ Orderly' => current' = Top'.pack
                      /\ ~skipped' => frames'[1].pack = 1
    BY <1>4, <1>5 DEF Undeleted
  <2>1. \A i \in DOMAIN frames' : frames'[i].pack # NULL
    <3>1. \A i \in 1..Leaving - 1 : i \in 1..Depth
      BY <1>1
    <3> QED BY <1>1, <1>2, <3>1 DEF PackageInv, Undeleted
  <2>2. Top' = frames[Leaving - 1]
    BY <1>1, <1>4 DEF Top
  <2>3. Orderly' => current' = Top'.pack
    BY <1>6, <2>2
  <2>4. ~skipped' => frames'[1].pack = 1
    <3>1. frames # <<>> /\ frames'[1] = frames[1]
      BY <1>1, <1>4 DEF Leaves
    <3> QED BY <1>5, <3>1 DEF PackageInv, Undeleted
  <2> QED BY <2>1, <2>3, <2>4
<1>9. Lively'
  BY <1>1, <1>2, <1>5 DEF Lively
<1> QED BY <1>7, <1>8, <1>9 DEF Settled

\* What the bodies that remain account for, where nothing is popped.
LEMMA LeaveNested ==
  ASSUME PackageInv, NEW kind \in Kinds \ Pushing, Leaves(kind), Leave, UNCHANGED pdl,
         deleted \subseteq {"once"}, Orderly, Leaving = Depth
  PROVE  \E e : /\ Nested(frames', pdl', e, deleted)
                /\ deleted = {} /\ ~skipped => e[0] = 0
<1>1. PICK d : Nested(frames, pdl, d, deleted) /\ (deleted = {} /\ ~skipped => d[0] = 0)
  BY DEF PackageInv, Nesting
<1>2. /\ frames \in Seq(BodyOf(Len(packs))) /\ frames' \in Seq(BodyOf(Len(packs)))
      /\ Len(frames) > 0 /\ Len(frames') = Len(frames) - 1
      /\ \A i \in 1..Len(frames') : frames'[i] = frames[i]
      /\ frames[Len(frames)].kind \notin Pushing
  BY LeaveShape DEF PackageInv, TypedInv, Typed, Depth
<1>3. \E e : Nested(frames', pdl, e, deleted) /\ e[0] = d[0]
  BY <1>1, <1>2, NestedLess
<1> QED BY <1>1, <1>3

\* What the bodies that remain account for, after a pop.
LEMMA PopNested ==
  ASSUME PackageInv, NEW kind \in Pushing, Leaves(kind), Leave, pdl' = Popped,
         deleted \subseteq {"once"}, Orderly, Leaving = Depth
  PROVE  \E e : /\ Nested(frames', pdl', e, deleted)
                /\ deleted = {} /\ ~skipped => e[0] = 0
<1>1. PICK d : Nested(frames, pdl, d, deleted) /\ (deleted = {} /\ ~skipped => d[0] = 0)
  BY DEF PackageInv, Nesting
<1>2. /\ frames \in Seq(BodyOf(Len(packs))) /\ frames' \in Seq(BodyOf(Len(packs)))
      /\ Len(frames) > 0 /\ Len(frames') = Len(frames) - 1
      /\ \A i \in 1..Len(frames') : frames'[i] = frames[i]
      /\ frames[Len(frames)].kind \in Pushing
      /\ Len(frames) \in Nat /\ DOMAIN frames = 1..Len(frames)
  BY LeaveShape DEF PackageInv, TypedInv, Typed, Depth
<1>3. Len(frames') > 0
  <2>1. Len(frames) # 1
    BY <1>2 DEF PackageInv, Framed, Pushing
  <2> QED BY <1>2, <2>1
<1>4. /\ pdl \in Seq(0..Len(packs)) /\ Popped \in Seq(0..Len(packs))
      /\ pdl = <<>> => Popped = pdl
      /\ pdl # <<>> => /\ Len(Popped) = Len(pdl) - 1
                       /\ \A i \in 1..Len(pdl) - 1 : Popped[i] = pdl[i]
  BY PdlTyped DEF PackageInv, TypedInv, Typed
<1>5. \A j \in 1..Len(Popped) : Popped[j] = pdl[j]
  BY <1>4
<1>6. Shorter(frames', frames)
  BY <1>2, <1>3 DEF Shorter
<1>7. Less(Popped, pdl)
  <2>1. Len(pdl) \in Nat /\ Len(Popped) \in Nat /\ (pdl = <<>> => Len(pdl) = 0)
    BY <1>4
  <2>2. Len(pdl) > 0 => pdl # <<>>
    BY <2>1
  <2>3. Len(pdl) = 0 => pdl = <<>>
    BY <1>4, EmptySeq
  <2> QED BY <1>4, <1>5, <2>1, <2>2, <2>3 DEF Less
<1>8. \E e : Nested(frames', Popped, e, deleted) /\ Based(e, d, deleted)
  BY <1>1, <1>6, <1>7, NestedPop
<1> QED BY <1>1, <1>8 DEF Based

\* pf_in_package.
LEMMA LeaveInSettled ==
  ASSUME PackageInv, LeaveIn
  PROVE  Settled'
<1>1. /\ Leaves("in") /\ Leave /\ UNCHANGED <<packs, jumping>> /\ pdl' = Popped
      /\ IF pdl = <<>> THEN UNCHANGED current ELSE SetDefault(Last(pdl))
  BY DEF LeaveIn, Restore, Pop
<1>2. Depth \in Nat /\ Leaving \in 1..Depth /\ frames[Leaving].kind = "in" /\ DOMAIN frames = 1..Depth
  BY <1>1, LeaveShape DEF PackageInv, TypedInv, Typed, Depth
<1>3. Leaving # 1
  BY <1>2 DEF PackageInv, Framed
<1>4. current' = current \/ (pdl # <<>> /\ current' = Last(pdl) /\ current' # NULL)
  BY <1>1 DEF SetDefault
<1>5. deleted = {} => current' # NULL
  BY <1>4 DEF PackageInv, Undeleted
<1>6. deleted = {} /\ Orderly /\ Leaving = Depth => current' = frames[Depth - 1].pack
  <2> SUFFICES ASSUME deleted = {}, Orderly, Leaving = Depth
               PROVE  current' = frames[Depth - 1].pack
    OBVIOUS
  <2>1. Depth > 1 /\ Top.kind \in Pushing
    BY <1>2, <1>3 DEF Top, Pushing
  <2>2. pdl # <<>> /\ Last(pdl) = frames[Depth - 1].pack /\ frames[Depth - 1].pack # NULL
    BY <2>1, Around
  <2> QED BY <1>1, <2>2 DEF SetDefault
<1>7. ASSUME deleted \subseteq {"once"}
      PROVE  /\ current' \in Live(packs') \cup {NULL}
             /\ \A j \in DOMAIN pdl' : pdl'[j] \in Live(packs') \cup {NULL}
             /\ \A i \in 1..Leaving - 1 :
                  frames[i].name = Anonymous => frames[i].outer \in Live(packs') \cup {NULL}
  <2>1. /\ current \in Live(packs) \cup {NULL}
        /\ \A j \in DOMAIN pdl : pdl[j] \in Live(packs) \cup {NULL}
        /\ \A i \in DOMAIN frames : frames[i].name = Anonymous => frames[i].outer \in Live(packs) \cup {NULL}
    BY <1>7 DEF PackageInv, Lively
  <2>2. pdl \in Seq(0..Len(packs)) /\ Len(pdl) \in Nat /\ DOMAIN pdl = 1..Len(pdl)
    BY DEF PackageInv, TypedInv, Typed
  <2>3. CASE pdl = <<>>
    <3>1. pdl' = pdl
      BY <1>1, <2>3 DEF Popped
    <3> QED BY <1>1, <1>2, <1>4, <2>1, <2>3, <3>1
  <2>4. CASE pdl # <<>>
    <3>1. /\ pdl' \in Seq(0..Len(packs)) /\ Len(pdl') = Len(pdl) - 1 /\ Len(pdl) > 0
          /\ \A i \in 1..Len(pdl) - 1 : pdl'[i] = pdl[i]
          /\ Last(pdl) = pdl[Len(pdl)]
      BY <1>1, <2>2, <2>4, PdlTyped
    <3>2. DOMAIN pdl' = 1..Len(pdl) - 1 /\ Len(pdl) \in 1..Len(pdl) /\ 1..Len(pdl) - 1 \subseteq 1..Len(pdl)
      BY <2>2, <3>1
    <3>3. Last(pdl) \in Live(packs) \cup {NULL}
      BY <2>1, <2>2, <3>1, <3>2
    <3>4. \A j \in DOMAIN pdl' : pdl'[j] \in Live(packs') \cup {NULL}
      BY <1>1, <2>1, <2>2, <3>1, <3>2
    <3>5. \A i \in 1..Leaving - 1 : i \in DOMAIN frames
      BY <1>2
    <3> QED BY <1>1, <1>4, <2>1, <3>3, <3>4, <3>5
  <2> QED BY <2>3, <2>4
<1>8. deleted = {} => \A p \in DOMAIN packs' : packs'[p].name # Anonymous => packs'[p].live
  BY <1>1 DEF PackageInv, Undeleted
<1>9. "in" \in Pushing /\ "in" \in Kinds \ {"page", "after"}
  BY DEF Pushing, Kinds
<1>10. deleted \subseteq {"once"} /\ Orderly /\ Leaving = Depth =>
         \E e : /\ Nested(frames', pdl', e, deleted)
                /\ deleted = {} /\ ~skipped => e[0] = 0
  BY <1>1, <1>9, PopNested
<1> QED BY <1>1, <1>5, <1>6, <1>7, <1>8, <1>9, <1>10, LeaveSettled
\* page_process_page: on top of what the page before has left.
LEMMA BeginSettled ==
  ASSUME PackageInv, BeginPage \/ AfterPage
  PROVE  Settled'
<1>1. PICK kind \in {"page", "after"} :
        frames = <<>> /\ frames' = <<Frame(kind, current, NULL)>>
        /\ UNCHANGED <<packs, current, pdl, jumping, deleted, skipped>>
  BY DEF BeginPage, AfterPage
<1> DEFINE frame == Frame(kind, current, NULL)
<1>2. frame.kind = kind /\ frame.pack = current /\ frame.outer = NULL
  BY DEF Frame
<1> HIDE DEF frame
<1>3. frames' = <<frame>>
  BY <1>1 DEF frame
<1>4. frames' \in Seq({frame}) /\ Len(frames') = 1 /\ DOMAIN frames' = {1} /\ frames'[1] = frame /\ frames' # <<>>
  BY <1>3
<1>5. Top' = frame
  BY <1>4 DEF Top, Depth
<1>6. deleted = {} /\ ~skipped => current = 1 /\ pdl = <<>>
  BY <1>1 DEF PackageInv, Undeleted
<1>7. Nesting'
  <2>1. Len(pdl) \in Nat
    BY DEF PackageInv, TypedInv, Typed
  <2>2. \E e : Nested(frames', pdl, e, deleted) /\ e[0] = Len(pdl)
    BY <1>2, <1>4, <2>1, NestedPage
  <2>3. pdl = <<>> => Len(pdl) = 0
    OBVIOUS
  <2> QED BY <1>1, <1>6, <2>2, <2>3 DEF Nesting
<1>8. Undeleted'
  BY <1>1, <1>2, <1>4, <1>5, <1>6 DEF PackageInv, Undeleted
<1>9. Lively'
  BY <1>1, <1>2, <1>4 DEF PackageInv, Lively, Live
<1> QED BY <1>7, <1>8, <1>9 DEF Settled

\* pf_in_package: a package by its name, or by carats.
LEMMA InPackageSettled ==
  ASSUME PackageInv, InPackage
  PROVE  Settled'
<1>1. packs \in Seq(Package) /\ Len(packs) <= MaxPackages /\ Deeper
  BY DEF PackageInv, TypedInv, Typed, InPackage
<1>2. "in" \in Pushing /\ "in" \in {"in", "local", "let", "body"} /\ "in" # "local"
  BY DEF Pushing
<1>3. CASE \E name \in Names \cup {Anonymous} :
             /\ CanGet(packs, name) /\ packs' = Getting(packs, name)
             /\ Push(Got(packs, name)) /\ Enter(Frame("in", Got(packs, name), NULL))
  <2>1. PICK name \in Names \cup {Anonymous} :
             /\ CanGet(packs, name) /\ packs' = Getting(packs, name)
             /\ Push(Got(packs, name)) /\ Enter(Frame("in", Got(packs, name), NULL))
    BY <1>3
  <2>2. Grown(packs, packs')
    BY <1>1, <2>1, GetGrows
  <2>3. Got(packs, name) \in Live(packs') /\ Got(packs, name) # NULL
    BY <1>1, <2>1, GotLive
  <2> QED BY <1>1, <1>2, <2>1, <2>2, <2>3, EnterSettled
<1>4. CASE \E k \in DOMAIN pdl :
             /\ Carats(k) # NULL /\ Push(Carats(k)) /\ Enter(Frame("in", Carats(k), NULL))
             /\ UNCHANGED packs
  <2>1. PICK k \in DOMAIN pdl :
             /\ Carats(k) # NULL /\ Push(Carats(k)) /\ Enter(Frame("in", Carats(k), NULL))
             /\ UNCHANGED packs
    BY <1>4
  <2>2. Grown(packs, packs')
    BY <1>1, <2>1, GrownSame
  <2>3. Len(pdl) + 1 - k \in DOMAIN pdl
    BY DEF PackageInv, TypedInv, Typed
  <2>4. deleted \subseteq {"once"} => Carats(k) \in Live(packs')
    BY <2>1, <2>3 DEF PackageInv, Lively, Carats
  <2> QED BY <1>1, <1>2, <2>1, <2>2, <2>4, EnterSettled
<1> QED BY <1>3, <1>4 DEF InPackage

\* The operators that use the current package.
LEMMA BodySettled ==
  ASSUME PackageInv, Body \/ Let
  PROVE  Settled'
<1>1. Grown(packs, packs') /\ Deeper
  BY GrownSame DEF PackageInv, TypedInv, Typed, Body, Let
<1>2. CASE Body
  BY <1>1, <1>2, EnterSettled DEF Body, Pushing
<1>3. CASE Let
  BY <1>1, <1>3, EnterSettled DEF Let, Pushing
<1> QED BY <1>2, <1>3

\* A function with a package of its own that has no name.
LEMMA CallLocalSettled ==
  ASSUME PackageInv, CallLocal
  PROVE  Settled'
<1>1. packs \in Seq(Package) /\ Len(packs) <= MaxPackages
  BY DEF PackageInv, TypedInv, Typed
<1> DEFINE pack == Got(packs, Anonymous)
<1>2. /\ Deeper /\ CanGet(packs, Anonymous) /\ packs' = Getting(packs, Anonymous)
      /\ Push(pack) /\ Enter(Frame("local", pack, current))
  BY DEF CallLocal
<1>3. Grown(packs, packs')
  BY <1>1, <1>2, GetGrows
<1>4. pack \in Live(packs') /\ pack # NULL
  BY <1>1, <1>2, GotLive
<1>5. pack = Len(packs) + 1
  BY <1>1, <1>2, GetsIt
<1>6. "local" \in Pushing
  BY DEF Pushing
<1> HIDE DEF pack
<1> QED BY <1>2, <1>3, <1>4, <1>5, <1>6, EnterSettled
\* symbol_lookup makes the default package current only where there is none.
LEMMA ReferSettled ==
  ASSUME PackageInv, Refer
  PROVE  Settled'
<1>1. packs \in Seq(Package) /\ Len(packs) <= MaxPackages /\ Default \in Names \cup {Anonymous}
  BY PageEnvironmentAssumption DEF PackageInv, TypedInv, Typed
<1>2. /\ current = NULL /\ CanGet(packs, Default)
      /\ packs' = Getting(packs, Default) /\ current' = Got(packs, Default)
      /\ UNCHANGED <<pdl, frames, target, jumping, pages, deleted, skipped>>
  BY DEF Refer, history
<1>3. deleted # {}
  BY <1>2 DEF PackageInv, Undeleted
<1>4. Live(packs) \subseteq Live(packs') /\ current' \in Live(packs')
  <2>1. Grown(packs, packs')
    BY <1>1, <1>2, GetGrows
  <2>2. Got(packs, Default) \in Live(packs')
    BY <1>1, <1>2, GotLive
  <2> QED BY <1>1, <1>2, <2>1, <2>2, LiveGrows
<1>5. Nesting'
  BY <1>2, <1>3 DEF PackageInv, Nesting, Orderly
<1>6. Undeleted'
  BY <1>2, <1>3 DEF Undeleted
<1>7. Lively'
  BY <1>2, <1>4 DEF PackageInv, Lively
<1> QED BY <1>5, <1>6, <1>7 DEF Settled

\* page_return_this_page changes nothing that a body uses.
LEMMA JumpSettled ==
  ASSUME PackageInv, Jump
  PROVE  Settled'
<1>1. /\ ~jumping /\ jumping' /\ frames # <<>>
      /\ UNCHANGED <<packs, current, pdl, frames, target, pages, deleted, skipped>>
  BY DEF Jump, Evaluating, history
<1>2. Orderly
  BY <1>1 DEF Orderly
<1>3. Nesting'
  BY <1>1, <1>2 DEF PackageInv, Nesting
<1>4. Undeleted'
  <2>1. Top' = Top
    BY <1>1 DEF Top, Depth
  <2> QED BY <1>1, <1>2, <2>1 DEF PackageInv, Undeleted
<1>5. Lively'
  BY <1>1 DEF PackageInv, Lively, Live
<1> QED BY <1>3, <1>4, <1>5 DEF Settled

\* A step that changes nothing.
LEMMA StutterSettled ==
  ASSUME PackageInv, UNCHANGED vars
  PROVE  Settled'
<1>1. UNCHANGED <<packs, current, pdl, frames, target, jumping, pages, deleted, skipped>>
  BY DEF vars
<1>2. Top' = Top
  BY <1>1 DEF Top, Depth
<1>3. Nesting'
  BY <1>1 DEF PackageInv, Nesting, Orderly
<1>4. Undeleted'
  BY <1>1, <1>2 DEF PackageInv, Undeleted, Orderly
<1>5. Lively'
  BY <1>1 DEF PackageInv, Lively, Live
<1> QED BY <1>3, <1>4, <1>5 DEF Settled

\* Out of a body that has pushed nothing, in the package that is current anyhow;
\* mhtml_let may put its package's variables back.
LEMMA LeaveBodySettled ==
  ASSUME PackageInv, LeaveBody \/ LeaveLet
  PROVE  Settled'
<1>1. PICK kind \in {"body", "let"} :
        Leaves(kind) /\ Leave /\ UNCHANGED <<jumping, current, pdl>>
        /\ (kind = "body" => UNCHANGED packs) /\ (kind = "let" => LeaveLet)
  BY DEF LeaveBody, LeaveLet, Restore
<1>2. /\ Depth \in Nat /\ Leaving \in 1..Depth /\ frames[Leaving].kind = kind
      /\ frames[Leaving] \in BodyOf(Len(packs)) /\ DOMAIN frames = 1..Depth
      /\ packs \in Seq(Package) /\ Len(packs) <= MaxPackages
  BY <1>1, LeaveShape DEF PackageInv, TypedInv, Typed, Depth
<1>3. Grown(packs, packs')
  <2>1. CASE UNCHANGED packs
    BY <1>2, <2>1, GrownSame
  <2>2. CASE LeaveLet
    <3>1. frames[Leaving].name \in Names \cup {Anonymous}
      BY <1>2 DEF BodyOf
    <3> QED BY <1>2, <2>1, <2>2, <3>1, GetGrows DEF LeaveLet
  <2> QED BY <1>1, <2>1, <2>2
<1>4. /\ Live(packs) \subseteq Live(packs')
      /\ \A p \in DOMAIN packs' : (p \in DOMAIN packs /\ packs'[p] = packs[p]) \/ packs'[p].live
  BY <1>2, <1>3, LiveGrows
<1>5. kind \in Kinds \ {"page", "after"} /\ kind \in Kinds \ Pushing
  BY <1>1 DEF Kinds, Pushing
<1>6. deleted = {} =>
        /\ \A p \in DOMAIN packs' : packs'[p].name # Anonymous => packs'[p].live
        /\ current' # NULL
  BY <1>1, <1>4 DEF PackageInv, Undeleted
<1>7. deleted = {} /\ Orderly /\ Leaving = Depth => current' = frames[Depth - 1].pack
  <2> SUFFICES ASSUME deleted = {}, Orderly, Leaving = Depth
               PROVE  current' = frames[Depth - 1].pack
    OBVIOUS
  <2>1. Depth > 1
    <3>1. Depth # 1
      BY <1>1, <1>2 DEF PackageInv, Framed
    <3> QED BY <1>2, <3>1
  <2> QED BY <1>1, <1>2, <2>1, Around DEF Top
<1>8. deleted \subseteq {"once"} =>
        /\ current' \in Live(packs') \cup {NULL}
        /\ \A j \in DOMAIN pdl' : pdl'[j] \in Live(packs') \cup {NULL}
        /\ \A i \in 1..Leaving - 1 :
             frames[i].name = Anonymous => frames[i].outer \in Live(packs') \cup {NULL}
  <2>1. \A i \in 1..Leaving - 1 : i \in DOMAIN frames
    BY <1>2
  <2> QED BY <1>1, <1>4, <2>1 DEF PackageInv, Lively
<1>9. deleted \subseteq {"once"} /\ Orderly /\ Leaving = Depth =>
        \E e : /\ Nested(frames', pdl', e, deleted)
               /\ deleted = {} /\ ~skipped => e[0] = 0
  BY <1>1, <1>5, LeaveNested
<1> QED BY <1>1, <1>5, <1>6, <1>7, <1>8, <1>9, LeaveSettled

\* Out of a page, with what the PDL has left.
LEMMA LeavePageSettled ==
  ASSUME PackageInv, LeavePage \/ LeaveAfter
  PROVE  Settled'
<1>1. PICK kind \in {"page", "after"} :
        Leaves(kind) /\ Leave /\ UNCHANGED <<packs, current, pdl>>
        /\ (kind = "page" => jumping' = FALSE) /\ (kind = "after" => UNCHANGED jumping)
  BY DEF LeavePage, LeaveAfter
<1>2. /\ Depth \in Nat /\ Leaving \in 1..Depth /\ frames[Leaving].kind = kind
      /\ Depth' = Leaving - 1 /\ DOMAIN frames = 1..Depth
      /\ frames' \in Seq(BodyOf(Len(packs)))
  BY <1>1, LeaveShape DEF PackageInv, TypedInv, Typed, Depth
<1>3. Leaving = 1
  BY <1>1, <1>2 DEF PackageInv, Framed
<1>4. frames' = <<>>
  BY <1>2, <1>3, EmptySeq DEF Depth
<1>5. deleted' = deleted /\ (skipped => skipped')
  BY <1>1 DEF Leave
<1>6. ~jumping'
  BY <1>1, <1>2, <1>3 DEF PackageInv, TypedInv, Inv, IInv, EnvironmentsSaved
<1>7. ASSUME deleted = {}, ~skipped'
      PROVE  current = 1 /\ pdl = <<>>
  <2>1. Leaving = Depth /\ Orderly /\ ~skipped
    BY <1>1, <1>5, <1>7, LeavingInnermost
  <2>2. current = 1
    BY <1>2, <1>3, <1>7, <2>1 DEF PackageInv, Undeleted, Top, Leaves
  <2>3. PICK d : Nested(frames, pdl, d, deleted) /\ d[0] = 0
    BY <1>7, <2>1 DEF PackageInv, Nesting
  <2>4. Len(frames) = 1 /\ frames[1].kind \notin Pushing
    BY <1>1, <1>2, <1>3, <2>1 DEF Depth, Pushing
  <2>5. 1 \in 1..Len(frames) /\ 1 - 1 = 0
    BY <2>4
  <2>6. NestedAt(frames, pdl, d, deleted, 1) /\ d[Len(frames)] = Len(pdl)
    BY <2>3, <2>5 DEF Nested
  <2>7. Len(pdl) = 0
    BY <2>3, <2>4, <2>5, <2>6 DEF NestedAt
  <2>8. pdl = <<>>
    BY <2>7, EmptySeq DEF PackageInv, TypedInv, Typed
  <2> QED BY <2>2, <2>8
<1>8. Nesting'
  <2>1. Len(pdl) \in Nat
    BY DEF PackageInv, TypedInv, Typed
  <2>2. \E e : Nested(frames', pdl, e, deleted) /\ e[0] = Len(pdl)
    BY <1>4, <2>1, NestedNone
  <2>3. pdl = <<>> => Len(pdl) = 0
    OBVIOUS
  <2> QED BY <1>1, <1>5, <1>7, <2>2, <2>3 DEF Nesting
<1>9. Undeleted'
  <2>1. DOMAIN frames' = {}
    BY <1>4
  <2> QED BY <1>1, <1>4, <1>5, <1>7, <2>1 DEF PackageInv, Undeleted
<1>10. Lively'
  <2>1. DOMAIN frames' = {}
    BY <1>4
  <2> QED BY <1>1, <1>5, <2>1 DEF PackageInv, Lively, Live
<1> QED BY <1>8, <1>9, <1>10 DEF Settled
\* A function with a package of its own and mhtml_let within it, one after the other.
LEMMA TwoAppended ==
  ASSUME NEW S, NEW fs \in Seq(S), NEW f \in S, NEW g \in S
  PROVE  fs \o <<f, g>> = Append(Append(fs, f), g)
<1>1. <<f, g>> \in Seq(S) /\ Len(<<f, g>>) = 2
  OBVIOUS
<1>2. /\ fs \o <<f, g>> \in Seq(S) /\ Len(fs \o <<f, g>>) = Len(fs) + 2
      /\ \A i \in 1..Len(fs) + 2 :
           (fs \o <<f, g>>)[i] = IF i <= Len(fs) THEN fs[i] ELSE <<f, g>>[i - Len(fs)]
  BY <1>1, ConcatProperties
<1>3. /\ Append(fs, f) \in Seq(S) /\ Len(Append(fs, f)) = Len(fs) + 1
      /\ Append(fs, f)[Len(fs) + 1] = f
      /\ \A i \in 1..Len(fs) : Append(fs, f)[i] = fs[i]
  BY AppendProperties
<1>4. /\ Append(Append(fs, f), g) \in Seq(S)
      /\ Len(Append(Append(fs, f), g)) = Len(fs) + 1 + 1
      /\ Append(Append(fs, f), g)[Len(fs) + 1 + 1] = g
      /\ \A i \in 1..Len(fs) + 1 : Append(Append(fs, f), g)[i] = Append(fs, f)[i]
  BY <1>3, AppendProperties
<1>5. ASSUME NEW i \in 1..Len(fs) + 2
      PROVE  (fs \o <<f, g>>)[i] = Append(Append(fs, f), g)[i]
  <2>1. CASE i \in 1..Len(fs)
    BY <1>2, <1>3, <1>4, <2>1
  <2>2. CASE i = Len(fs) + 1
    BY <1>2, <1>3, <1>4, <2>2
  <2>3. CASE i = Len(fs) + 1 + 1
    BY <1>2, <1>4, <2>3
  <2> QED BY <2>1, <2>2, <2>3
<1> QED BY <1>2, <1>4, <1>5, SeqEqual

\* mhtml_execute_function of a function whose package has a name.
LEMMA CallNamedSettled ==
  ASSUME PackageInv, CallNamed
  PROVE  Settled'
<1>1. PICK name \in Names :
        /\ CanGet(packs, name) /\ packs' = Getting(packs, name) /\ current' = Got(packs, name)
        /\ frames' = frames \o
             <<Frame("named", Got(packs, name), current),
               [Frame("let", Got(packs, name), NULL)
                  EXCEPT !.outer = Got(packs, name), !.name = name]>>
  BY DEF CallNamed
<1> DEFINE function == Frame("named", Got(packs, name), current)
           let == [Frame("let", Got(packs, name), NULL)
                     EXCEPT !.outer = Got(packs, name), !.name = name]
           S == BodyOf(Len(packs)) \cup {function, let}
<1>2. /\ function.kind = "named" /\ function.pack = current' /\ function.outer = current
      /\ let.kind = "let" /\ let.pack = current' /\ let.name = name
  BY <1>1 DEF Frame
<1>3. frames' = frames \o <<function, let>>
  BY <1>1
<1>4. frames \in Seq(S) /\ function \in S /\ let \in S
  BY SeqOfMore DEF PackageInv, TypedInv, Typed
<1> HIDE DEF function, let, S
<1>5. frames' = Append(Append(frames, function), let)
  BY <1>3, <1>4, TwoAppended
<1>6. /\ ~jumping /\ frames # <<>> /\ Orderly /\ Depth \in Nat /\ Depth > 0 /\ DOMAIN frames = 1..Depth
      /\ UNCHANGED <<pdl, jumping, pages, deleted, skipped>>
  BY <1>4, EmptySeq DEF CallNamed, Deeper, Evaluating, Orderly, Depth, history
<1> DEFINE called == Append(frames, function)
<1>7. /\ called \in Seq(S) /\ Len(called) = Depth + 1 /\ called[Depth + 1] = function
      /\ \A i \in 1..Depth : called[i] = frames[i]
  BY <1>4, AppendProperties DEF Depth
<1>8. frames' = Append(called, let)
  BY <1>5
<1> HIDE DEF called
<1>9. /\ Depth' = Depth + 2 /\ DOMAIN frames' = 1..Depth + 2
      /\ frames'[Depth + 2] = let /\ frames'[Depth + 1] = function
      /\ \A i \in 1..Depth : frames'[i] = frames[i]
      /\ frames' # <<>>
  <2>1. /\ Append(called, let) \in Seq(S) /\ Len(Append(called, let)) = Depth + 1 + 1
        /\ Append(called, let)[Depth + 1 + 1] = let
        /\ \A i \in 1..Depth + 1 : Append(called, let)[i] = called[i]
    BY <1>4, <1>7, AppendProperties
  <2>2. Depth + 1 + 1 = Depth + 2 /\ Depth + 1 \in 1..Depth + 1 /\ 1..Depth \subseteq 1..Depth + 1
    BY <1>6
  <2>3. /\ Len(frames') = Depth + 2 /\ DOMAIN frames' = 1..Depth + 2
        /\ frames'[Depth + 2] = let /\ frames'[Depth + 1] = function
        /\ \A i \in 1..Depth : frames'[i] = frames[i]
    BY <1>7, <1>8, <2>1, <2>2
  <2>4. frames' # <<>>
    BY <1>6, <2>3
  <2> QED BY <2>3, <2>4 DEF Depth
<1>10. current' \in Live(packs') /\ current' # NULL /\ Grown(packs, packs')
  BY <1>1, GotLive, GetGrows DEF PackageInv, TypedInv, Typed
<1>11. /\ Live(packs) \subseteq Live(packs')
       /\ \A p \in DOMAIN packs' : (p \in DOMAIN packs /\ packs'[p] = packs[p]) \/ packs'[p].live
  BY <1>10, LiveGrows DEF PackageInv, TypedInv, Typed
<1>12. \A i \in 1..Depth + 2 : i \in 1..Depth \/ i = Depth + 1 \/ i = Depth + 2
  BY <1>6
<1>13. Nesting'
  <2> SUFFICES ASSUME deleted \subseteq {"once"}
               PROVE  \E e : /\ Nested(frames', pdl, e, deleted)
                             /\ deleted = {} /\ ~skipped => e[0] = 0
    BY <1>6 DEF Nesting
  <2>1. PICK d : Nested(frames, pdl, d, deleted) /\ (deleted = {} /\ ~skipped => d[0] = 0)
    BY <1>6 DEF PackageInv, Nesting
  <2>2. pdl \in Seq(0..Len(packs))
    BY DEF PackageInv, TypedInv, Typed
  <2>3. PICK e : Nested(called, pdl, e, deleted) /\ e[0] = d[0]
    <3>1. deleted = {} => current = frames[Len(frames)].pack
      BY <1>6 DEF PackageInv, Undeleted, Top, Depth
    <3>2. function.kind \notin Pushing
      BY <1>2 DEF Pushing
    <3>3. deleted = {} /\ frames # <<>> =>
            /\ function.kind = "named" => function.outer = frames[Len(frames)].pack
            /\ function.kind \in {"body", "let"} => function.pack = frames[Len(frames)].pack
      BY <1>2, <3>1
    <3>4. \E e : Nested(Append(frames, function), pdl, e, deleted) /\ e[0] = d[0]
      BY <1>4, <2>1, <2>2, <3>2, <3>3, NestedMore
    <3> QED BY <3>4 DEF called
  <2>4. \E f : Nested(frames', pdl, f, deleted) /\ f[0] = e[0]
    <3>1. let.kind \notin Pushing
      BY <1>2 DEF Pushing
    <3>2. deleted = {} /\ called # <<>> =>
            /\ let.kind = "named" => let.outer = called[Len(called)].pack
            /\ let.kind \in {"body", "let"} => let.pack = called[Len(called)].pack
      BY <1>2, <1>7
    <3>3. \E f : Nested(Append(called, let), pdl, f, deleted) /\ f[0] = e[0]
      BY <1>4, <1>7, <2>2, <2>3, <3>1, <3>2, NestedMore
    <3> QED BY <1>8, <3>3
  <2> QED BY <2>1, <2>3, <2>4
<1>14. Undeleted'
  <2> SUFFICES ASSUME deleted = {}
               PROVE  /\ \A p \in DOMAIN packs' : packs'[p].name # Anonymous => packs'[p].live
                      /\ current' # NULL /\ \A i \in DOMAIN frames' : frames'[i].pack # NULL
                      /\ current' = Top'.pack
                      /\ ~skipped => frames'[1].pack = 1
    BY <1>6, <1>9 DEF Undeleted
  <2>1. \A p \in DOMAIN packs' : packs'[p].name # Anonymous => packs'[p].live
    BY <1>11 DEF PackageInv, Undeleted
  <2>2. \A i \in DOMAIN frames' : frames'[i].pack # NULL
    BY <1>2, <1>6, <1>9, <1>10, <1>12 DEF PackageInv, Undeleted
  <2>3. Top' = let
    BY <1>9 DEF Top
  <2>4. ~skipped => frames'[1].pack = 1
    <3>1. 1 \in 1..Depth
      BY <1>6
    <3> QED BY <1>6, <1>9, <3>1 DEF PackageInv, Undeleted
  <2> QED BY <1>2, <1>10, <2>1, <2>2, <2>3, <2>4
<1>15. Lively'
  <2> SUFFICES ASSUME deleted \subseteq {"once"}
               PROVE  /\ current' \in Live(packs') \cup {NULL}
                      /\ \A j \in DOMAIN pdl : pdl[j] \in Live(packs') \cup {NULL}
                      /\ \A i \in DOMAIN frames' :
                           frames'[i].name = Anonymous => frames'[i].outer \in Live(packs') \cup {NULL}
    BY <1>6 DEF Lively
  <2>1. /\ current \in Live(packs') \cup {NULL}
        /\ \A j \in DOMAIN pdl : pdl[j] \in Live(packs') \cup {NULL}
        /\ \A i \in 1..Depth :
             frames[i].name = Anonymous => frames[i].outer \in Live(packs') \cup {NULL}
    BY <1>6, <1>11 DEF PackageInv, Lively
  <2>2. let.name # Anonymous
    BY <1>2, PageEnvironmentAssumption
  <2>3. \A i \in DOMAIN frames' :
          frames'[i].name = Anonymous => frames'[i].outer \in Live(packs') \cup {NULL}
    BY <1>2, <1>9, <1>12, <2>1, <2>2
  <2> QED BY <1>10, <2>1, <2>3
<1> QED BY <1>13, <1>14, <1>15 DEF Settled

\* Of a package that is on the PDL once at most.
LEMMA OnlyOne ==
  ASSUME NEW S, NEW stack \in Seq(S), NEW package, ~ Cardinality(On(stack, package)) > 1
  PROVE  \A i, j \in 1..Len(stack) : stack[i] = package /\ stack[j] = package => i = j
<1> SUFFICES ASSUME NEW i \in 1..Len(stack), NEW j \in 1..Len(stack),
                    stack[i] = package, stack[j] = package, i # j
             PROVE  FALSE
  OBVIOUS
<1> DEFINE T == On(stack, package)
<1>1. IsFiniteSet(T) /\ Cardinality(T) \in Nat
  <2>1. T \in SUBSET (1..Len(stack))
    BY DEF On
  <2>2. IsFiniteSet(1..Len(stack))
    BY FS_Interval
  <2>3. IsFiniteSet(T)
    BY <2>1, <2>2, FS_Subset
  <2> QED BY <2>3, FS_CardinalityType
<1>2. {i, j} \in SUBSET T
  BY DEF On
<1>3. Cardinality({i, j}) = 2
  <2>1. IsFiniteSet({i}) /\ Cardinality({i}) = 1
    BY FS_Singleton
  <2>2. {i, j} = {i} \cup {j} /\ j \notin {i}
    OBVIOUS
  <2>3. Cardinality({i} \cup {j}) = Cardinality({i}) + 1
    BY <2>1, <2>2, FS_AddElement
  <2> DEFINE two == Cardinality({i} \cup {j})
             one == Cardinality({i})
  <2>4. two = one + 1 /\ one = 1
    BY <2>1, <2>3
  <2> HIDE DEF two, one
  <2>5. two = 2
    BY <2>4
  <2> QED BY <2>2, <2>5 DEF two
<1>4. Cardinality({i, j}) <= Cardinality(T)
  BY <1>1, <1>2, FS_Subset
<1> QED BY <1>1, <1>3, <1>4

\* When a package has been deleted, less is known of the bodies.
LEMMA NestedStill ==
  ASSUME NEW fs, NEW stack, NEW d, NEW gone, NEW more, Nested(fs, stack, d, gone), more # {}
  PROVE  Nested(fs, stack, d, more)
BY DEF Nested, NestedAt

\* pf_package_delete.
LEMMA DeleteSettled ==
  ASSUME PackageInv, Delete
  PROVE  Settled'
<1>1. PICK package \in Live(packs) :
        /\ packs' = Freed(package) /\ pdl' = Without(pdl, package)
        /\ current' = (IF package = current THEN NULL ELSE current)
        /\ deleted' = deleted \cup {KindOf(package)}
  BY DEF Delete
<1>2. ~jumping /\ UNCHANGED <<frames, jumping, skipped>>
  BY DEF Delete, Evaluating
<1>3. /\ package \in 0..Len(packs) /\ pdl \in Seq(0..Len(packs)) /\ Len(pdl) \in Nat
      /\ DOMAIN pdl = 1..Len(pdl)
  BY DEF Live, PackageInv, TypedInv, Typed
<1>4. Live(packs') = Live(packs) \ {package}
  BY <1>1, <1>3, FreedTyped DEF PackageInv
<1>5. deleted' # {} /\ (deleted' \subseteq {"once"} => deleted \subseteq {"once"} /\ KindOf(package) = "once")
  BY <1>1
<1>6. /\ pdl' \in Seq(0..Len(packs))
      /\ \/ pdl' = pdl /\ \A i \in 1..Len(pdl) : pdl[i] # package
         \/ \E m \in 1..Len(pdl) : Taken(pdl', pdl, package, m)
  <2>1. /\ Without(pdl, package) \in Seq(0..Len(packs))
        /\ On(pdl, package) = {} => Without(pdl, package) = pdl
        /\ On(pdl, package) # {} => \E m \in 1..Len(pdl) : Taken(Without(pdl, package), pdl, package, m)
    BY <1>3, RemovesLast
  <2>2. On(pdl, package) = {} => \A i \in 1..Len(pdl) : pdl[i] # package
    BY <1>3 DEF On
  <2> QED BY <1>1, <2>1, <2>2
<1>7. Nesting'
  <2> SUFFICES ASSUME deleted' \subseteq {"once"}
               PROVE  \E e : Nested(frames, pdl', e, deleted')
    BY <1>2, <1>5 DEF Nesting
  <2>1. PICK d : Nested(frames, pdl, d, deleted)
    BY <1>2, <1>5 DEF PackageInv, Nesting, Orderly
  <2>2. CASE pdl' = pdl
    BY <1>5, <2>1, <2>2, NestedStill
  <2>3. ASSUME NEW m \in 1..Len(pdl), Taken(pdl', pdl, package, m)
        PROVE  \E e : Nested(frames, pdl', e, deleted')
    <3>1. frames \in Seq(BodyOf(Len(packs)))
      BY DEF PackageInv, TypedInv, Typed
    <3> QED BY <1>3, <1>5, <1>6, <2>1, <2>3, <3>1, NestedDelete
  <2> QED BY <1>6, <2>2, <2>3
<1>8. Undeleted'
  BY <1>5 DEF Undeleted
<1>9. Lively'
  <2> SUFFICES ASSUME deleted' \subseteq {"once"}
               PROVE  /\ current' \in Live(packs') \cup {NULL}
                      /\ \A j \in DOMAIN pdl' : pdl'[j] \in Live(packs') \cup {NULL}
                      /\ \A i \in DOMAIN frames :
                           frames[i].name = Anonymous => frames[i].outer \in Live(packs') \cup {NULL}
    BY <1>2 DEF Lively
  <2>1. /\ current \in Live(packs) \cup {NULL}
        /\ \A j \in 1..Len(pdl) : pdl[j] \in Live(packs) \cup {NULL}
        /\ \A i \in DOMAIN frames : frames[i].name = Anonymous => frames[i].outer \in Live(packs) \cup {NULL}
    BY <1>3, <1>5 DEF PackageInv, Lively
  <2>2. packs[package].name # Anonymous /\ ~ Cardinality(On(pdl, package)) > 1
    BY <1>5 DEF KindOf
  <2>3. ASSUME NEW j \in DOMAIN pdl'
        PROVE  pdl'[j] \in Live(packs') \cup {NULL}
    <3>1. CASE pdl' = pdl /\ \A i \in 1..Len(pdl) : pdl[i] # package
      BY <1>3, <1>4, <2>1, <3>1
    <3>2. ASSUME NEW m \in 1..Len(pdl), Taken(pdl', pdl, package, m)
          PROVE  pdl'[j] \in Live(packs') \cup {NULL}
      <4>1. j \in 1..Len(pdl) - 1 /\ pdl[m] = package
        BY <1>6, <3>2 DEF Taken
      <4>2. CASE j < m
        <5>1. j \in 1..m - 1 /\ j \in 1..Len(pdl) /\ j # m
          BY <1>3, <4>1, <4>2
        <5>2. ASSUME pdl[j] = package PROVE j = m
          BY <1>3, <2>2, <4>1, <5>1, <5>2, OnlyOne
        <5> QED BY <1>4, <2>1, <3>2, <5>1, <5>2 DEF Taken
      <4>3. CASE j >= m
        <5>1. j \in m .. Len(pdl) - 1 /\ j + 1 \in m + 1 .. Len(pdl) /\ j + 1 \in 1..Len(pdl)
              /\ j \in 1..Len(pdl) /\ (m < j => j \in m + 1 .. Len(pdl))
          BY <1>3, <4>1, <4>3
        <5>2. pdl'[j] = pdl[j + 1] \/ (m < j /\ pdl'[j] = pdl[j])
          BY <3>2, <5>1 DEF Taken
        <5>3. pdl[j + 1] # package /\ (m < j => pdl[j] # package)
          BY <3>2, <5>1 DEF Taken
        <5> QED BY <1>4, <2>1, <5>1, <5>2, <5>3
      <4> QED BY <1>3, <4>1, <4>2, <4>3
    <3> QED BY <1>6, <3>1, <3>2
  <2>4. ASSUME NEW i \in DOMAIN frames, frames[i].name = Anonymous
        PROVE  frames[i].outer \in Live(packs') \cup {NULL}
    <3>1. frames[i].outer = NULL \/ packs[frames[i].outer].name = Anonymous
      BY <2>4 DEF PackageInv, Framed
    <3> QED BY <1>4, <2>1, <2>2, <2>4, <3>1
  <2> QED BY <1>1, <1>4, <2>1, <2>3, <2>4
<1> QED BY <1>7, <1>8, <1>9 DEF Settled
\* A package is freed: of the others no two have one name.
LEMMA UniqueFreed ==
  ASSUME TypedInv, Unique(packs), NEW package \in 0..Len(packs)
  PROVE  Unique(Freed(package))
<1>1. /\ Freed(package) \in Seq(Package) /\ Len(Freed(package)) = Len(packs)
      /\ \A p \in 1..Len(packs) : Freed(package)[p].name = packs[p].name
      /\ Live(Freed(package)) = Live(packs) \ {package}
  BY FreedTyped
<1>2. Live(packs) \subseteq 1..Len(packs)
  BY DEF Live, TypedInv, Typed
<1> QED BY <1>1, <1>2 DEF Unique

\* A function's body is never what a jump enters.
LEMMA NotByJump ==
  ASSUME PackageInv, NEW kind \in {"named", "local"}, Leaves(kind)
  PROVE  /\ ~jumping /\ Orderly /\ Leaving = Depth /\ Top.kind = kind
         /\ Depth \in Nat /\ Depth > 1 /\ DOMAIN frames = 1..Depth
         /\ Top \in BodyOf(Len(packs)) /\ Framed(Depth)
<1>1. Depth \in Nat /\ Depth > 0 /\ DOMAIN frames = 1..Depth
  BY EmptySeq DEF Leaves, PackageInv, TypedInv, Typed, Depth
<1>2. ~jumping
  <2> SUFFICES ASSUME jumping PROVE FALSE
    OBVIOUS
  <2>1. target # 0 /\ target \in 0..Depth
    BY <1>1 DEF PackageInv, TypedInv, Inv, IInv, TargetInnermost, EnvironmentsSaved, Innermost, Protected
  <2>2. frames[target].kind \in Protected /\ Leaving = target
    BY <2>1 DEF PackageInv, TypedInv, Inv, IInv, TargetInnermost, Innermost, Leaving
  <2> QED BY <2>2 DEF Leaves, Protected
<1>3. Leaving = Depth /\ Top.kind = kind
  BY <1>2 DEF Leaving, Leaves, Top
<1>4. Depth # 1 /\ Framed(Depth)
  BY <1>1, <1>3 DEF PackageInv, Framed, Top
<1>5. Top \in BodyOf(Len(packs))
  BY <1>1 DEF PackageInv, TypedInv, Typed, Top, Depth
<1> QED BY <1>1, <1>2, <1>3, <1>4, <1>5 DEF Orderly

\* The remembered package is looked up by its name where it has one, and it is the
\* one that is found unless it has been freed.
LEMMA GivesBack ==
  ASSUME PackageInv, NEW kind \in {"named", "local"}, Leaves(kind),
         NEW ps \in Seq(Package), Len(ps) = Len(packs), Unique(ps),
         \A p \in 1..Len(packs) : ps[p].name = packs[p].name,
         deleted = {} => \A p \in DOMAIN ps : ps[p].name # Anonymous => ps[p].live,
         GiveBack(ps, Top)
  PROVE  /\ deleted = {} => /\ current' = Top.outer
                            /\ \A p \in DOMAIN packs' : packs'[p].name # Anonymous => packs'[p].live
         /\ Live(ps) \subseteq Live(packs')
         /\ (Top.name = Anonymous => Top.outer \in Live(ps) \cup {NULL}) =>
              current' \in Live(packs') \cup {NULL}
<1>1. /\ Top \in BodyOf(Len(packs)) /\ Framed(Depth) /\ Len(ps) <= MaxPackages
      /\ DOMAIN ps = 1..Len(packs)
  BY NotByJump DEF PackageInv, TypedInv, Typed
<1>2. Top.outer \in 0..Len(packs) /\ Top.name \in Names \cup {Anonymous}
  BY <1>1 DEF BodyOf
<1>3. Grown(ps, packs')
  BY <1>1, <1>2, GiveBackGrows
<1>4. /\ Live(ps) \subseteq Live(packs')
      /\ \A p \in DOMAIN packs' : (p \in DOMAIN ps /\ packs'[p] = ps[p]) \/ packs'[p].live
  BY <1>3, LiveGrows
<1>5. CASE Top.name = Anonymous
  <2>1. packs' = ps /\ current' = Top.outer
    BY <1>5 DEF GiveBack
  <2> QED BY <1>4, <1>5, <2>1
<1>6. CASE Top.name # Anonymous
  <2>1. CanGet(ps, Top.name) /\ packs' = Getting(ps, Top.name) /\ current' = Got(ps, Top.name)
    BY <1>6 DEF GiveBack
  <2>2. current' \in Live(packs')
    BY <1>1, <1>2, <2>1, GotLive
  <2>3. deleted = {} => current' = Top.outer
    <3> SUFFICES ASSUME deleted = {} PROVE Got(ps, Top.name) = Top.outer
      BY <2>1
    <3>1. Top.outer # NULL /\ packs[Top.outer].name = Top.name
      BY <1>1, <1>6 DEF Framed, Top
    <3>2. Top.outer \in 1..Len(packs)
      BY <1>2, <3>1 DEF NULL
    <3>3. ps[Top.outer].name = Top.name /\ Top.outer \in Live(ps)
      BY <1>1, <1>6, <3>1, <3>2 DEF Live
    <3>4. Top.outer \in Lookup(ps, Top.name)
      BY <1>6, <3>3 DEF Lookup
    <3>5. Got(ps, Top.name) \in Lookup(ps, Top.name)
      BY <3>4 DEF Got
    <3>6. Got(ps, Top.name) \in Live(ps) /\ ps[Got(ps, Top.name)].name = Top.name
      BY <3>5 DEF Lookup
    <3> QED BY <1>6, <3>3, <3>6 DEF Unique
  <2>4. deleted = {} => \A p \in DOMAIN packs' : packs'[p].name # Anonymous => packs'[p].live
    BY <1>4
  <2> QED BY <1>4, <2>2, <2>3, <2>4
<1> QED BY <1>5, <1>6

\* Out of the body of a function whose package has a name.
LEMMA LeaveNamedSettled ==
  ASSUME PackageInv, LeaveNamed
  PROVE  Settled'
<1>1. Leaves("named") /\ Leave /\ GiveBack(packs, Top) /\ UNCHANGED <<pdl, target, jumping>>
  BY DEF LeaveNamed
<1> DEFINE kind == "named"
<1>2. kind \in {"named", "local"} /\ kind \in Kinds \ {"page", "after"} /\ kind \in Kinds \ Pushing
      /\ Leaves(kind)
  BY <1>1 DEF Kinds, Pushing
<1>3. Top.kind = "named"
  BY <1>1, <1>2, NotByJump
<1> HIDE DEF kind
<1>4. /\ ~jumping /\ Orderly /\ Leaving = Depth
      /\ Depth \in Nat /\ Depth > 1 /\ DOMAIN frames = 1..Depth
  BY <1>2, NotByJump
<1>5. packs \in Seq(Package) /\ Unique(packs)
  BY DEF PackageInv, TypedInv, Typed
<1>6. deleted = {} => \A p \in DOMAIN packs : packs[p].name # Anonymous => packs[p].live
  BY DEF PackageInv, Undeleted
<1>7. /\ deleted = {} => /\ current' = Top.outer
                         /\ \A p \in DOMAIN packs' : packs'[p].name # Anonymous => packs'[p].live
      /\ Live(packs) \subseteq Live(packs')
      /\ (Top.name = Anonymous => Top.outer \in Live(packs) \cup {NULL}) =>
           current' \in Live(packs') \cup {NULL}
  BY <1>1, <1>2, <1>5, <1>6, GivesBack
<1>8. deleted = {} => current' = frames[Depth - 1].pack /\ current' # NULL
  BY <1>3, <1>4, <1>7, Around
<1>9. deleted \subseteq {"once"} =>
        /\ current' \in Live(packs') \cup {NULL}
        /\ \A j \in DOMAIN pdl' : pdl'[j] \in Live(packs') \cup {NULL}
        /\ \A i \in 1..Leaving - 1 :
             frames[i].name = Anonymous => frames[i].outer \in Live(packs') \cup {NULL}
  <2>1. (\A i \in 1..Leaving - 1 : i \in DOMAIN frames) /\ Depth \in DOMAIN frames
    BY <1>4
  <2> QED BY <1>1, <1>7, <2>1 DEF PackageInv, Lively, Top
<1>10. deleted \subseteq {"once"} /\ Orderly /\ Leaving = Depth =>
         \E e : /\ Nested(frames', pdl', e, deleted)
                /\ deleted = {} /\ ~skipped => e[0] = 0
  BY <1>1, <1>2, LeaveNested
<1> QED BY <1>1, <1>2, <1>7, <1>8, <1>9, <1>10, LeaveSettled

\* Out of the body of a function with a package that has no name: that is freed, and is
\* not on the PDL any longer.
LEMMA LeaveLocalSettled ==
  ASSUME PackageInv, LeaveLocal
  PROVE  Settled'
<1>1. /\ Leaves("local") /\ Leave /\ pdl' = Without(Popped, Top.pack)
      /\ GiveBack(Freed(Top.pack), Top) /\ UNCHANGED <<target, jumping>>
  BY DEF LeaveLocal
<1> DEFINE kind == "local"
           ps == Freed(Top.pack)
<1>2. kind \in {"named", "local"} /\ kind \in Kinds \ {"page", "after"} /\ kind \in Pushing
      /\ Leaves(kind)
  BY <1>1 DEF Kinds, Pushing
<1>3. Top.kind = "local"
  BY <1>1, <1>2, NotByJump
<1> HIDE DEF kind
<1>4. /\ ~jumping /\ Orderly /\ Leaving = Depth
      /\ Depth \in Nat /\ Depth > 1 /\ DOMAIN frames = 1..Depth
      /\ Top \in BodyOf(Len(packs)) /\ Framed(Depth)
  BY <1>2, NotByJump
<1>5. Top.pack \in 0..Len(packs)
  BY <1>4 DEF BodyOf
<1>6. /\ ps \in Seq(Package) /\ Len(ps) = Len(packs)
      /\ \A p \in 1..Len(packs) : ps[p].name = packs[p].name
      /\ \A p \in 1..Len(packs) : p # Top.pack => ps[p] = packs[p]
      /\ Live(ps) = Live(packs) \ {Top.pack} /\ Unique(ps)
  BY <1>5, FreedTyped, UniqueFreed DEF PackageInv
<1>7. GiveBack(ps, Top)
  BY <1>1
<1> HIDE DEF ps
<1>8. /\ packs[Top.pack].name = Anonymous
      /\ \A j \in 1..Depth : frames[j].outer # Top.pack
  BY <1>3, <1>4 DEF Framed, Top
<1>9. deleted = {} => \A p \in DOMAIN ps : ps[p].name # Anonymous => ps[p].live
  <2>1. DOMAIN ps = 1..Len(packs) /\ DOMAIN packs = 1..Len(packs)
    BY <1>6 DEF PackageInv, TypedInv, Typed
  <2> QED BY <1>6, <1>8, <2>1 DEF PackageInv, Undeleted
<1>10. /\ deleted = {} => /\ current' = Top.outer
                          /\ \A p \in DOMAIN packs' : packs'[p].name # Anonymous => packs'[p].live
       /\ Live(ps) \subseteq Live(packs')
       /\ (Top.name = Anonymous => Top.outer \in Live(ps) \cup {NULL}) =>
            current' \in Live(packs') \cup {NULL}
  BY <1>2, <1>6, <1>7, <1>9, GivesBack
<1>11. deleted = {} => current' = frames[Depth - 1].pack /\ current' # NULL
  BY <1>3, <1>4, <1>10, Around
<1>12. /\ pdl \in Seq(0..Len(packs)) /\ Popped \in Seq(0..Len(packs))
       /\ Len(pdl) \in Nat /\ DOMAIN pdl = 1..Len(pdl)
       /\ Len(Popped) \in Nat /\ Len(Popped) <= Len(pdl)
       /\ \A j \in 1..Len(Popped) : Popped[j] = pdl[j]
  <2>1. pdl \in Seq(0..Len(packs))
    BY DEF PackageInv, TypedInv, Typed
  <2>2. /\ Popped \in Seq(0..Len(packs)) /\ (pdl = <<>> => Popped = pdl)
        /\ pdl # <<>> => /\ Len(pdl) > 0 /\ Len(Popped) = Len(pdl) - 1
                         /\ \A i \in 1..Len(pdl) - 1 : Popped[i] = pdl[i]
    BY <2>1, PdlTyped
  <2>3. Len(pdl) \in Nat /\ DOMAIN pdl = 1..Len(pdl) /\ Len(Popped) \in Nat
    BY <2>1, <2>2
  <2>4. CASE pdl = <<>>
    BY <2>1, <2>2, <2>3, <2>4
  <2>5. CASE pdl # <<>>
    BY <2>1, <2>2, <2>3, <2>5
  <2> QED BY <2>4, <2>5
<1>13. deleted \subseteq {"once"} => pdl' = Popped /\ \A j \in 1..Len(Popped) : pdl[j] # Top.pack
  <2> SUFFICES ASSUME deleted \subseteq {"once"}
               PROVE  pdl' = Popped /\ \A j \in 1..Len(Popped) : pdl[j] # Top.pack
    OBVIOUS
  <2>1. PICK d : Nested(frames, pdl, d, deleted)
    BY <1>4 DEF PackageInv, Nesting
  <2>2. Depth \in 1..Len(frames) /\ d[Depth] = Len(pdl)
    BY <1>4, <2>1 DEF Nested, Depth
  <2>3. NestedAt(frames, pdl, d, deleted, Depth)
    BY <2>1, <2>2 DEF Nested
  <2>4. \A j \in 1..Len(pdl) : pdl[j] # Top.pack
    BY <1>3, <2>2, <2>3 DEF NestedAt, Top
  <2>5. \A j \in 1..Len(Popped) : j \in 1..Len(pdl) /\ Popped[j] # Top.pack
    BY <1>12, <2>4
  <2>6. On(Popped, Top.pack) = {}
    BY <1>12, <2>5 DEF On
  <2>7. Without(Popped, Top.pack) = Popped
    BY <2>6 DEF Without
  <2> QED BY <1>1, <2>4, <2>5, <2>7
<1>14. deleted \subseteq {"once"} =>
         /\ current' \in Live(packs') \cup {NULL}
         /\ \A j \in DOMAIN pdl' : pdl'[j] \in Live(packs') \cup {NULL}
         /\ \A i \in 1..Leaving - 1 :
              frames[i].name = Anonymous => frames[i].outer \in Live(packs') \cup {NULL}
  <2> SUFFICES ASSUME deleted \subseteq {"once"}
               PROVE  /\ current' \in Live(packs') \cup {NULL}
                      /\ \A j \in DOMAIN pdl' : pdl'[j] \in Live(packs') \cup {NULL}
                      /\ \A i \in 1..Leaving - 1 :
                           frames[i].name = Anonymous => frames[i].outer \in Live(packs') \cup {NULL}
    OBVIOUS
  <2>1. \A i \in 1..Depth :
          frames[i].name = Anonymous => frames[i].outer \in Live(ps) \cup {NULL}
    BY <1>4, <1>6, <1>8 DEF PackageInv, Lively
  <2>2. Depth \in 1..Depth /\ \A i \in 1..Leaving - 1 : i \in 1..Depth
    BY <1>4
  <2>3. current' \in Live(packs') \cup {NULL}
    BY <1>10, <2>1, <2>2 DEF Top
  <2>4. ASSUME NEW j \in DOMAIN pdl'
        PROVE  pdl'[j] \in Live(packs') \cup {NULL}
    <3>1. pdl' = Popped
      BY <1>13
    <3>2. j \in 1..Len(Popped)
      BY <1>12, <3>1
    <3>3. j \in DOMAIN pdl /\ pdl'[j] = pdl[j] /\ pdl[j] # Top.pack
      BY <1>12, <1>13, <3>1, <3>2
    <3>4. pdl[j] \in Live(packs) \cup {NULL}
      BY <3>3 DEF PackageInv, Lively
    <3> QED BY <1>6, <1>10, <3>3, <3>4
  <2> QED BY <1>10, <2>1, <2>2, <2>3, <2>4
<1>15. deleted \subseteq {"once"} /\ Orderly /\ Leaving = Depth =>
         \E e : /\ Nested(frames', pdl', e, deleted)
                /\ deleted = {} /\ ~skipped => e[0] = 0
  BY <1>1, <1>2, <1>13, PopNested
<1> QED BY <1>1, <1>2, <1>10, <1>11, <1>14, <1>15, LeaveSettled

\* Every step keeps what is known of the packages.
LEMMA NextPackages ==
  ASSUME PackageInv, [Next]_vars
  PROVE  PackageInv'
<1>1. Inv' /\ Typed'
  BY NextKeeps, NextTyped DEF PackageInv, TypedInv
<1>2. Unique(packs')
  BY NextUnique DEF PackageInv
<1>3. (\A i \in DOMAIN frames : Framed(i))'
  BY NextFramed DEF PackageInv
<1>4. Settled'
  BY BeginSettled, InPackageSettled, BodySettled, CallLocalSettled, CallNamedSettled,
     ReferSettled, DeleteSettled, JumpSettled, LeaveInSettled, LeaveBodySettled,
     LeaveNamedSettled, LeaveLocalSettled, LeavePageSettled, StutterSettled DEF Next
<1> QED BY <1>1, <1>2, <1>3, <1>4 DEF PackageInv, TypedInv, Settled

\* At first there is the default package, and no body.
LEMMA InitPackages == Init => PackageInv
<1> SUFFICES ASSUME Init PROVE PackageInv
  OBVIOUS
<1>1. TypedInv
  BY InitTyped
<1>2. /\ DOMAIN packs = {1} /\ packs[1].live /\ current = 1 /\ pdl = <<>> /\ frames = <<>>
      /\ ~jumping /\ ~skipped /\ deleted = {}
  BY DEF Init
<1>3. Live(packs) = {1} /\ Len(pdl) = 0 /\ DOMAIN pdl = {} /\ DOMAIN frames = {}
  BY <1>2 DEF Live
<1>4. Nesting
  <2>1. Len(pdl) \in Nat
    BY <1>3
  <2>2. \E e : Nested(frames, pdl, e, deleted) /\ e[0] = Len(pdl)
    BY <1>2, <2>1, NestedNone
  <2> QED BY <1>3, <2>2 DEF Nesting
<1>5. Undeleted
  BY <1>2, <1>3 DEF Undeleted, NULL
<1>6. Lively
  BY <1>2, <1>3 DEF Lively
<1> QED BY <1>1, <1>3, <1>4, <1>5, <1>6 DEF PackageInv, Unique

\* What is known of the packages holds in every state.
LEMMA PackageAlways == Spec => []PackageInv
<1>1. Init => PackageInv
  BY InitPackages
<1>2. PackageInv /\ [Next]_vars => PackageInv'
  BY NextPackages
<1> QED BY <1>1, <1>2, PTL DEF Spec

\* A body is evaluated in its package, after any bodies within it too.
THEOREM InItsPackage == Spec => []BodyInItsPackage
<1>1. PackageInv => BodyInItsPackage
  BY DEF PackageInv, Undeleted, BodyInItsPackage, Evaluating, Orderly
<1> QED BY <1>1, PackageAlways, PTL

\* A page finds the default package and an empty PDL, as the one before it did.
THEOREM Alike == Spec => []PagesAlike
<1>1. PackageInv => PagesAlike
  BY DEF PackageInv, Undeleted, PagesAlike
<1> QED BY <1>1, PackageAlways, PTL

\* Nothing that has been freed is current, or will be.
THEOREM NothingDangling == Spec => []NoDangling
<1>1. PackageInv => NoDangling
  BY DEF PackageInv, Lively, NoDangling, Range
<1> QED BY <1>1, PackageAlways, PTL

-----------------------------------------------------------------------------
(* <cgi-exec> *)

\* The commands that have been waited for, of which two deaths end a select().
Released == InState("released")

\* What has been read, is in the pipe and is to be written is all of a stream,
\* and a stream is closed with everything written.
Conserved ==
  pc # "idle" =>
    \A s \in Streams :
      /\ text[s] + pipe[s] + left[s] = total[s]
      /\ writer[s] \/ left[s] = 0

\* No command is there before it is called.
Fresh == \A c \in Calls : c > call => command[c] = "none"

\* A repeated select() is due to a death and a stream that was cut to two, and one
\* that has been left has been gathered whole, unless its time ran out or it was cut.
Whole(s) == s \in late \cup cut \/ text[s] = total[s]
Gathering ==
  /\ 2 * Cardinality(cut) <= Cardinality(Released)
  /\ pc \in {"signal", "select", "read"} => 2 * Cardinality(cut) + intr <= Cardinality(Released)
  /\ pc \in {"signal", "select", "read"} => stream \notin cut
  /\ pc = "signal" => cut = {}
  /\ pc \in {"select", "read"} /\ stream = "out" => "err" \notin cut
  /\ pc \in {"select", "read", "close"} /\ stream = "err" => Whole("out")
  /\ pc = "close" => stream = "err" /\ Whole("err")

Inductive == ExecIInv /\ Conserved /\ Fresh /\ Gathering

\* They can be counted.
LEMMA ReleasedFinite == IsFiniteSet(Released) /\ Cardinality(Released) \in Nat
<1>1. IsFiniteSet(Calls)
  BY CgiExecAssumption, FS_Interval DEF Calls
<1>2. Released \subseteq Calls
  BY DEF Released, InState
<1> QED
  BY <1>1, <1>2, FS_Subset, FS_CardinalityType

LEMMA CutFinite ==
  ASSUME ExecTypeOK
  PROVE  IsFiniteSet(cut) /\ Cardinality(cut) \in Nat
<1>1. IsFiniteSet({"out"} \cup {"err"})
  BY FS_Singleton, FS_Union
<1>2. Streams = {"out"} \cup {"err"}
  BY DEF Streams
<1> QED
  BY <1>1, <1>2, FS_Subset, FS_CardinalityType DEF ExecTypeOK

\* One more is waited for with each signal.
LEMMA OneMore ==
  ASSUME ExecTypeOK, NEW c \in InState("zombie"), command' = [command EXCEPT ![c] = "released"]
  PROVE  Cardinality(Released') = Cardinality(Released) + 1
<1>1. c \in Calls /\ c \notin Released
  BY DEF Released, InState
<1>2. Released' = Released \cup {c}
  BY <1>1 DEF ExecTypeOK, Released, InState
<1> QED
  BY <1>1, <1>2, ReleasedFinite, FS_AddElement

\* Nobody else waits.
LEMMA NoMore ==
  ASSUME ExecTypeOK, Fresh, \/ UNCHANGED command
                        \/ Execute
                        \/ \E c \in Calls : Exit(c)
  PROVE  Released' = Released
<1>1. CASE UNCHANGED command
  BY <1>1 DEF Released, InState
<1>2. CASE Execute
  <2>1. call' \in Calls /\ command[call'] = "none"
    BY <1>2, CgiExecAssumption DEF Execute, ExecTypeOK, Fresh, Calls
  <2> QED
    BY <1>2, <2>1 DEF Execute, ExecTypeOK, Released, InState
<1>3. CASE \E c \in Calls : Exit(c)
  BY <1>3 DEF Exit, ExecTypeOK, Released, InState
<1> QED
  BY <1>1, <1>2, <1>3

\* At first there is no command.
LEMMA InitInductive == ExecInit => Inductive
<1> SUFFICES ASSUME ExecInit PROVE Inductive
  OBVIOUS
<1>1. Nothing \in Amounts /\ Nothing \in [Streams -> 0..Capacity] /\ \A s \in Streams : Nothing[s] = 0
  BY CgiExecAssumption DEF Nothing, Amounts, Streams
<1>2. Nothing \in [Streams -> 0..(OutMax + ErrMax)]
  BY <1>1 DEF Amounts
<1>3. pc \in Places /\ call \in 0..MaxCalls /\ stream \in Streams /\ intr \in 0..1
  BY CgiExecAssumption DEF ExecInit, Places, Streams
<1>4. command \in [Calls -> States] /\ writer \in [Streams -> BOOLEAN]
  BY DEF ExecInit, States
<1>5. ExecTypeOK
  BY <1>1, <1>2, <1>3, <1>4 DEF ExecInit, ExecTypeOK
<1> QED
  BY <1>1, <1>5, ReleasedFinite, FS_EmptySet
     DEF ExecInit, Inductive, ExecIInv, HandlerNeverWaits, Conserved, Fresh, Gathering

-----------------------------------------------------------------------------
(* Each step preserves each part *)

\* What is read has been written, and so the counters are bounded.
LEMMA NextTypeOK == ExecTypeOK /\ Conserved /\ [ExecNext]_execVars => ExecTypeOK'
<1> SUFFICES ASSUME ExecTypeOK, Conserved, [ExecNext]_execVars PROVE ExecTypeOK'
  OBVIOUS
<1> USE CgiExecAssumption DEF ExecTypeOK, Places, States, options, gathering, signals, pipes
<1>0. Nothing \in Amounts /\ Nothing \in [Streams -> 0..Capacity]
  BY DEF Nothing, Amounts, Streams
<1>1. CASE UNCHANGED execVars
  BY <1>1 DEF execVars
<1>2. CASE Execute
  <2>1. Nothing \in [Streams -> 0..(OutMax + ErrMax)]
    BY <1>0 DEF Amounts
  <2>2. call' \in 0..MaxCalls
    BY <1>2 DEF Execute
  <2>3. total' \in Amounts
    BY <1>0, <1>2 DEF Execute
  <2>4. command' \in [Calls -> States] /\ writer' \in [Streams -> BOOLEAN]
    BY <1>2 DEF Execute
  <2>5. pc' \in Places /\ stream' \in Streams /\ intr' \in 0..1 /\ sigchld' \in BOOLEAN
    BY <1>2 DEF Execute, Streams
  <2> QED
    BY <1>0, <1>2, <2>1, <2>2, <2>3, <2>4, <2>5 DEF Execute
<1>3. CASE Signal
  BY <1>3 DEF Signal, First, Streams
<1>4. CASE Close
  BY <1>0, <1>4 DEF Close
<1>5. CASE Select
  BY <1>5 DEF Select
<1>6. CASE Read
  <2>1. stream \in Streams /\ text[stream] + pipe[stream] + left[stream] = total[stream]
    BY <1>6 DEF Read, Conserved
  <2>2. left[stream] \in Nat /\ total[stream] \in 0..(OutMax + ErrMax)
    BY <2>1 DEF Amounts
  <2>3. text[stream] + 1 \in 0..(OutMax + ErrMax) /\ pipe[stream] - 1 \in 0..Capacity
    BY <1>6, <2>1, <2>2 DEF Read
  <2> QED
    BY <1>6, <2>3 DEF Read
<1>7. CASE EndOfFile
  BY <1>7 DEF EndOfFile, Gathered
<1>8. CASE TimeOut
  BY <1>8 DEF TimeOut, Gathered
<1>9. CASE ReleaseChild
  <2>1. command' \in [Calls -> States]
    BY <1>9 DEF ReleaseChild
  <2>2. intr' \in 0..1 /\ stream' \in Streams /\ pc' \in Places /\ cut' \subseteq Streams
    BY <1>9 DEF ReleaseChild, Interrupt, Gathered
  <2> QED
    BY <1>9, <2>1, <2>2 DEF ReleaseChild
<1>10. ASSUME NEW s \in Streams, Write(s) PROVE ExecTypeOK'
  <2>1. left[s] - 1 \in 0..(OutMax + ErrMax) /\ left[s] - 1 <= left[s]
    BY <1>10 DEF Write, Amounts
  <2>2. left' \in Amounts
    BY <1>10, <2>1 DEF Write, Amounts, Streams
  <2>3. pipe[s] + 1 \in 0..Capacity
    BY <1>10 DEF Write
  <2> QED
    BY <1>10, <2>2, <2>3 DEF Write
<1>11. ASSUME NEW s \in Streams, CloseEnd(s) PROVE ExecTypeOK'
  BY <1>11 DEF CloseEnd
<1>12. ASSUME NEW c \in Calls, Exit(c) PROVE ExecTypeOK'
  BY <1>12 DEF Exit
<1> QED
  BY <1>1, <1>2, <1>3, <1>4, <1>5, <1>6, <1>7, <1>8, <1>9, <1>10, <1>11, <1>12 DEF ExecNext, Page

\* A signal is sent for a death, and with it the last of the dead is waited for.
LEMMA NextHandler == ExecTypeOK /\ Fresh /\ HandlerNeverWaits /\ [ExecNext]_execVars => HandlerNeverWaits'
<1> SUFFICES ASSUME ExecTypeOK, Fresh, HandlerNeverWaits, [ExecNext]_execVars PROVE HandlerNeverWaits'
  OBVIOUS
<1> USE DEF HandlerNeverWaits, InState
<1>1. CASE Execute
  <2>1. call' \in Calls /\ command[call'] = "none"
    BY <1>1, CgiExecAssumption DEF Execute, ExecTypeOK, Fresh, Calls
  <2> QED
    BY <1>1, <2>1 DEF Execute, ExecTypeOK
<1>2. CASE ReleaseChild
  BY <1>2 DEF ReleaseChild
<1>3. ASSUME NEW c \in Calls, Exit(c) PROVE HandlerNeverWaits'
  BY <1>3 DEF Exit, ExecTypeOK
<1>4. CASE UNCHANGED <<command, sigchld>>
  BY <1>4
<1> QED
  BY <1>1, <1>2, <1>3, <1>4
     DEF ExecNext, Page, Signal, Close, Select, Read, EndOfFile, TimeOut, Write, CloseEnd, execVars, signals

\* Commands are called one after the other.
LEMMA NextFresh == ExecTypeOK /\ Fresh /\ [ExecNext]_execVars => Fresh'
<1> SUFFICES ASSUME ExecTypeOK, Fresh, [ExecNext]_execVars PROVE Fresh'
  OBVIOUS
<1> USE DEF Fresh, ExecTypeOK
<1>1. CASE Execute
  BY <1>1, CgiExecAssumption DEF Execute, Calls
<1>2. CASE ReleaseChild
  BY <1>2 DEF ReleaseChild, InState, options
<1>3. ASSUME NEW c \in Calls, Exit(c) PROVE Fresh'
  BY <1>3 DEF Exit, options
<1>4. CASE UNCHANGED <<command, call>>
  BY <1>4
<1> QED
  BY <1>1, <1>2, <1>3, <1>4
     DEF ExecNext, Page, Signal, Close, Select, Read, EndOfFile, TimeOut, Write, CloseEnd, execVars, options

\* Text moves from the command to the pipe, and from the pipe to the page.
LEMMA NextConserved == ExecTypeOK /\ Conserved /\ [ExecNext]_execVars => Conserved'
<1> SUFFICES ASSUME ExecTypeOK, Conserved, [ExecNext]_execVars PROVE Conserved'
  OBVIOUS
<1> USE CgiExecAssumption DEF ExecTypeOK, Conserved
<1>0. \A s \in Streams : /\ Nothing[s] = 0 /\ left[s] \in Nat /\ total[s] \in Nat
                         /\ pipe[s] \in Nat /\ text[s] \in Nat
  BY DEF Nothing, Amounts
<1>1. CASE Execute
  <2>1. total' \in [Streams -> Nat]
    BY <1>1 DEF Execute, Nothing, Amounts
  <2>2. \A s \in Streams : writer'[s] \/ total'[s] = 0
    BY <1>0, <1>1 DEF Execute
  <2> QED
    BY <1>0, <1>1, <2>1, <2>2 DEF Execute
<1>2. CASE Close
  BY <1>2 DEF Close
<1>3. CASE Read
  BY <1>0, <1>3 DEF Read
<1>4. ASSUME NEW s \in Streams, Write(s) PROVE Conserved'
  <2>1. ASSUME NEW t \in Streams, t # s, pc # "idle"
        PROVE  text'[t] = text[t] /\ pipe'[t] = pipe[t] /\ left'[t] = left[t]
    BY <1>4, <2>1 DEF Write, gathering, Amounts
  <2>2. /\ text'[s] = text[s] /\ pipe'[s] = pipe[s] + 1 /\ left'[s] = left[s] - 1
        /\ pc' = pc /\ total' = total /\ writer' = writer /\ writer[s]
    BY <1>4 DEF Write, gathering, Amounts
  <2>3. ASSUME pc # "idle", NEW t \in Streams
        PROVE  /\ text'[t] + pipe'[t] + left'[t] = total'[t]
               /\ writer'[t] \/ left'[t] = 0
    <3>1. text[t] + pipe[t] + left[t] = total[t] /\ (writer[t] \/ left[t] = 0)
      BY <2>3
    <3>2. CASE t = s
      BY <1>0, <2>2, <3>1, <3>2
    <3>3. CASE t # s
      BY <2>1, <2>2, <2>3, <3>1, <3>3
    <3> QED
      BY <3>2, <3>3
  <2> QED
    BY <2>2, <2>3
<1>5. ASSUME NEW s \in Streams, CloseEnd(s) PROVE Conserved'
  BY <1>0, <1>5 DEF CloseEnd, gathering
<1>6. CASE UNCHANGED <<text, pipes>> /\ (pc' = "idle" \/ pc # "idle")
  BY <1>6 DEF pipes
<1>7. CASE ReleaseChild
  BY <1>7 DEF ReleaseChild, Interrupt, pipes
<1>8. CASE UNCHANGED <<pc, text, pipes>>
  BY <1>8 DEF pipes
<1> QED
  BY <1>1, <1>2, <1>3, <1>4, <1>5, <1>6, <1>7, <1>8
     DEF ExecNext, Page, Signal, Select, EndOfFile, TimeOut, Exit, execVars, gathering, pipes

\* A stream is left at its end, for its time, or for the second death there.
LEMMA NextGathering == ExecTypeOK /\ Conserved /\ Fresh /\ Gathering /\ [ExecNext]_execVars => Gathering'
<1> SUFFICES ASSUME ExecTypeOK, Conserved, Fresh, Gathering, [ExecNext]_execVars PROVE Gathering'
  OBVIOUS
<1> USE ReleasedFinite, CutFinite DEF ExecTypeOK, Gathering, Whole, Streams
<1>1. CASE Execute
  <2>1. Cardinality(Released') = Cardinality(Released) /\ Cardinality(cut') = 0
    BY <1>1, NoMore, FS_EmptySet DEF Execute
  <2> QED
    BY <1>1, <2>1 DEF Execute
<1>2. CASE Signal
  <2>1. Released' = Released
    BY <1>2, NoMore DEF Signal
  <2> QED
    BY <1>2, <2>1 DEF Signal, First
<1>3. CASE Close
  <2>1. Released' = Released
    BY <1>3, NoMore DEF Close
  <2> QED
    BY <1>3, <2>1 DEF Close, gathering
<1>4. CASE Select
  <2>1. Released' = Released
    BY <1>4, NoMore DEF Select
  <2> QED
    BY <1>4, <2>1 DEF Select, gathering, pipes
<1>5. CASE Read
  <2>1. Released' = Released
    BY <1>5, NoMore DEF Read
  <2>2. stream = "err" => text'["out"] = text["out"]
    BY <1>5 DEF Read
  <2> QED
    BY <1>5, <2>1, <2>2 DEF Read
<1>6. CASE EndOfFile
  <2>1. Released' = Released
    BY <1>6, NoMore DEF EndOfFile
  <2>2. text[stream] = total[stream]
    BY <1>6, CgiExecAssumption DEF EndOfFile, Conserved, Amounts
  <2> QED
    BY <1>6, <2>1, <2>2 DEF EndOfFile, Gathered, First, pipes
<1>7. CASE TimeOut
  <2>1. Released' = Released
    BY <1>7, NoMore DEF TimeOut
  <2> QED
    BY <1>7, <2>1 DEF TimeOut, Gathered, First, pipes
<1>8. CASE ReleaseChild
  <2>1. Cardinality(Released') = Cardinality(Released) + 1
    BY <1>8, OneMore DEF ReleaseChild
  <2>2. CASE cut' = cut /\ pc' = pc /\ stream' = stream /\ (intr' = intr \/ (intr = 0 /\ intr' = 1))
    BY <1>8, <2>1, <2>2 DEF ReleaseChild, pipes
  <2>3. CASE /\ pc = "select" /\ intr = 1
             /\ cut' = cut \cup {stream} /\ Gathered
    <3>1. Cardinality(cut') = Cardinality(cut) + 1
      BY <2>3, FS_AddElement
    <3>2. text' = text /\ total' = total /\ late' = late
      BY <1>8 DEF ReleaseChild, pipes
    <3>3. 2 * Cardinality(cut') <= Cardinality(Released')
      BY <2>1, <2>3, <3>1
    <3>4. CASE stream = "out"
      <4>1. stream' = "err" /\ pc' = "select" /\ intr' = 0
        BY <2>3, <3>4 DEF Gathered, First
      <4> QED
        BY <2>1, <2>3, <3>1, <3>2, <3>3, <3>4, <4>1
    <3>5. CASE stream = "err"
      <4>1. stream' = "err" /\ pc' = "close" /\ intr' = 1
        BY <2>3, <3>5 DEF Gathered, First
      <4> QED
        BY <2>1, <2>3, <3>1, <3>2, <3>3, <3>5, <4>1
    <3> QED
      BY <3>4, <3>5
  <2> QED
    BY <1>8, <2>2, <2>3 DEF ReleaseChild, Interrupt
<1>9. ASSUME NEW s \in Streams, Write(s) \/ CloseEnd(s) PROVE Gathering'
  <2>1. Released' = Released
    BY <1>9, NoMore DEF Write, CloseEnd
  <2> QED
    BY <1>9, <2>1 DEF Write, CloseEnd, gathering
<1>10. ASSUME NEW c \in Calls, Exit(c) PROVE Gathering'
  <2>1. Released' = Released
    BY <1>10, NoMore
  <2> QED
    BY <1>10, <2>1 DEF Exit, gathering, pipes
<1>11. CASE UNCHANGED execVars
  <2>1. Released' = Released
    BY <1>11, NoMore DEF execVars
  <2> QED
    BY <1>11, <2>1 DEF execVars
<1> QED
  BY <1>1, <1>2, <1>3, <1>4, <1>5, <1>6, <1>7, <1>8, <1>9, <1>10, <1>11 DEF ExecNext, Page

\* The inductive invariant of <cgi-exec>.
LEMMA Invariant == ExecSpec => []Inductive
<1>1. Inductive /\ [ExecNext]_execVars => Inductive'
  BY NextTypeOK, NextHandler, NextFresh, NextConserved, NextGathering DEF Inductive, ExecIInv
<1> QED
  BY <1>1, InitInductive, PTL DEF ExecSpec

-----------------------------------------------------------------------------

\* The handler of SIGCHLD (release_child) never waits for a command that runs,
\* however many commands there are and however many die for one signal.
THEOREM NoWaiting == ExecSpec => []ExecIInv
BY Invariant, PTL DEF Inductive

\* <cgi-exec> has all of a command's text, of whatever length, when it comes to its
\* end (shell_execute, gather_input), unless the stream's time ran out or its own
\* select() was ended by two deaths; what other commands did to others is no excuse.
THEOREM Complete == ExecSpec => []OutputWhole
<1>1. Inductive => OutputWhole
  <2> SUFFICES ASSUME Inductive, pc = "close"
               PROVE  /\ \A s \in Streams \ (late \cup cut) : text[s] = total[s]
                      /\ 2 * Cardinality(cut) <= Cardinality(Released)
    BY DEF OutputWhole, Released
  <2> QED
    BY ReleasedFinite, CutFinite DEF Inductive, ExecIInv, ExecTypeOK, Gathering, Whole, Streams
<1> QED
  BY <1>1, Invariant, PTL

=============================================================================

--------------------------- MODULE PageEnvironment ---------------------------
(***************************************************************************)
(* The environments of the pages of one process: which package is current,  *)
(* what is on the package PDL, and where return-this-page jumps to.  The     *)
(* operators that have a body (<in-package>, functions, <with-open-database>  *)
(* ...) nest, and each gives back what it found; a jump enters the innermost  *)
(* one that called setjmp(), which does so, too, and jumps again; packages    *)
(* can be deleted in any body.                                               *)
(*                                                                         *)
(* libmhtml/symbols.c, packfuncs.c and parser.c.  A pointer to a package is *)
(* its index in PACKS, which keeps the packages that have been freed.        *)
(***************************************************************************)
EXTENDS Naturals, Sequences, FiniteSets, SequencesExt, FiniteSetsExt

CONSTANTS
  Names,        \* names of packages
  Default,      \* DEFAULT_PACKAGE_NAME
  Anonymous,    \* the name of those without one
  MaxDepth,     \* bound: how deep bodies nest, the page included
  MaxPackages,  \* bound: how many packages are made
  MaxPages      \* bound: how many pages are processed one after the other

ASSUME PageEnvironmentAssumption ==
  /\ Default \in Names /\ Anonymous \notin Names
  /\ {MaxDepth, MaxPackages, MaxPages} \subseteq Nat /\ MaxPackages > 0

NULL == 0

VARIABLES
  packs,    \* packs[p]: the name of package p, and whether it has not been freed
  current,  \* CurrentPackage
  pdl,      \* PackagePDL
  frames,   \* the bodies that are being evaluated, the innermost last
  target,   \* page_jmp_buffer: which of FRAMES called setjmp(); 0 for none of them
  jumping,  \* whether a longjmp() is under way
  pages,    \* how many pages have been begun
  deleted,  \* the kinds of deletions there have been
  skipped   \* whether a jump has passed a body that does not call setjmp()

vars == <<packs, current, pdl, frames, target, jumping, pages, deleted, skipped>>
history == <<pages, deleted, skipped>>

-----------------------------------------------------------------------------
(* Packages *)

Live(ps) == {p \in DOMAIN ps : ps[p].live}

\* symbol_lookup_package, of names that are not carats.
Lookup(ps, name) == {p \in Live(ps) : name # Anonymous /\ ps[p].name = name}

\* symbol_get_package: the packages afterwards, and the one that is got.
Getting(ps, name) ==
  IF Lookup(ps, name) # {} THEN ps ELSE Append(ps, [name |-> name, live |-> TRUE])

Got(ps, name) ==
  IF Lookup(ps, name) # {} THEN CHOOSE p \in Lookup(ps, name) : TRUE ELSE Len(ps) + 1

CanGet(ps, name) == Lookup(ps, name) # {} \/ Len(ps) < MaxPackages

\* symbol_set_default_package
SetDefault(package) == current' = (IF package = NULL THEN current ELSE package)

Push(package) == pdl' = Append(pdl, current) /\ SetDefault(package)

Popped == IF pdl = <<>> THEN pdl ELSE Front(pdl)

\* Mutant: the package that is popped is not made current.
Pop_Only == pdl' = Popped /\ UNCHANGED current

Pop ==
  /\ pdl' = Popped
  /\ IF pdl = <<>> THEN UNCHANGED current ELSE SetDefault(Last(pdl))

\* package_pdl_remove: the last occurrence only.  What is above it is moved down
\* as far as the first NULL, one that was pushed included; then the PDL is one
\* shorter, and the top of it is lost where there was such a NULL.
On(stack, package) == {i \in DOMAIN stack : stack[i] = package}

\* Mutant: a package that is deleted stays on the PDL.
Without_Not(stack, package) == stack

Without(stack, package) ==
  LET last == Max(On(stack, package))
      Moved(k) == last <= k /\ \A j \in last + 1 .. k : stack[j] # NULL
  IN  IF On(stack, package) = {} THEN stack
      ELSE [k \in 1..Len(stack) - 1 |-> IF Moved(k) THEN stack[k + 1] ELSE stack[k]]

\* symbol_destroy_package
Freed(package) == [packs EXCEPT ![package].live = FALSE]

-----------------------------------------------------------------------------
(* Bodies *)

\* "page": page_process_page; "after": the page after the page's return;
\* "in": <in-package>, <with-local-package>; "let": mhtml_let, a function's body,
\* in the current package; "named" and "local": functions with a package of
\* their own; "body": the other operators, <with-locked-session> among them.
Kinds == {"page", "after", "in", "let", "named", "local", "body"}
Protected == {"page", "in", "let", "body"}

\* PACK is the package of the body; OUTER the one that the code remembers, and
\* NAME that one's name; SAVED what pagefunc_save_environment has saved.
Frame(kind, pack, outer) ==
  [kind |-> kind, pack |-> pack, outer |-> outer,
   name |-> IF outer = NULL THEN Anonymous ELSE packs[outer].name,
   saved |-> target]

Depth == Len(frames)
Top == frames[Depth]
Evaluating == ~jumping /\ frames # <<>>
Deeper == Evaluating /\ Depth < MaxDepth

\* Mutant: setjmp() comes before pagefunc_save_environment.
Enter_Late(frame) ==
  /\ frames' = Append(frames,
                 [frame EXCEPT !.saved = IF frame.kind \in Protected THEN Depth + 1 ELSE @])
  /\ target' = (IF frame.kind \in Protected THEN Depth + 1 ELSE target)
  /\ UNCHANGED <<jumping, history>>

Enter(frame) ==
  /\ frames' = Append(frames, frame)
  /\ target' = (IF frame.kind \in Protected THEN Depth + 1 ELSE target)
  /\ UNCHANGED <<jumping, history>>

-----------------------------------------------------------------------------
(* Into a body *)

\* A name that is k carats: the k-th most recently current package.
Carats(k) == pdl[Len(pdl) + 1 - k]

InPackage ==
  /\ Deeper
  /\ \/ \E name \in Names \cup {Anonymous} :
          /\ CanGet(packs, name) /\ packs' = Getting(packs, name)
          /\ Push(Got(packs, name)) /\ Enter(Frame("in", Got(packs, name), NULL))
     \/ \E k \in DOMAIN pdl :
          /\ Carats(k) # NULL
          /\ Push(Carats(k)) /\ Enter(Frame("in", Carats(k), NULL))
          /\ UNCHANGED packs

Body ==
  /\ Deeper
  /\ Enter(Frame("body", current, NULL))
  /\ UNCHANGED <<packs, current, pdl>>

\* mhtml_let and the functions use the current package without a look at whether
\* there is one.
Let ==
  /\ Deeper /\ current # NULL
  /\ Enter(Frame("let", current, current))
  /\ UNCHANGED <<packs, current, pdl>>

CallLocal ==
  /\ Deeper /\ current # NULL /\ CanGet(packs, Anonymous)
  /\ packs' = Getting(packs, Anonymous)
  /\ Push(Got(packs, Anonymous)) /\ Enter(Frame("local", Got(packs, Anonymous), current))

\* mhtml_execute_function of a function whose package has a name, into mhtml_let.
CallNamed ==
  /\ Deeper /\ Depth + 2 <= MaxDepth /\ current # NULL
  /\ \E name \in Names :
       /\ CanGet(packs, name) /\ packs' = Getting(packs, name) /\ current' = Got(packs, name)
       /\ frames' = frames \o
            <<Frame("named", Got(packs, name), current),
              [Frame("let", Got(packs, name), NULL) EXCEPT !.outer = Got(packs, name), !.name = name]>>
  /\ target' = Depth + 2
  /\ UNCHANGED <<pdl, jumping, history>>

-----------------------------------------------------------------------------
(* In a body *)

\* symbol_lookup and symbol_intern of a name without a package.
Refer ==
  /\ Evaluating /\ current = NULL /\ CanGet(packs, Default)
  /\ packs' = Getting(packs, Default) /\ current' = Got(packs, Default)
  /\ UNCHANGED <<pdl, frames, target, jumping, history>>

KindOf(package) ==
  IF packs[package].name = Anonymous THEN "anonymous"
  ELSE IF Cardinality(On(pdl, package)) > 1 THEN "twice" ELSE "once"

\* pf_package_delete
Delete ==
  /\ Evaluating
  /\ \E package \in Live(packs) :
       /\ \/ packs[package].name # Anonymous
          \/ \E k \in DOMAIN pdl : Carats(k) = package
       /\ packs' = Freed(package) /\ pdl' = Without(pdl, package)
       /\ current' = (IF package = current THEN NULL ELSE current)
       /\ deleted' = deleted \cup {KindOf(package)}
  /\ UNCHANGED <<frames, target, jumping, pages, skipped>>

\* page_return_this_page.  On the page after the page's return it is undefined:
\* the setjmp() that is left is that of a page_process_page that has returned.
Jump ==
  /\ Evaluating /\ frames[1].kind = "page"
  /\ jumping' = TRUE
  /\ UNCHANGED <<packs, current, pdl, frames, target, history>>

-----------------------------------------------------------------------------
(* Out of a body, at its end or by a jump *)

Leaving == IF jumping THEN target ELSE Depth
Leaves(kind) == frames # <<>> /\ frames[Leaving].kind = kind

Leave ==
  /\ frames' = SubSeq(frames, 1, Leaving - 1)
  /\ skipped' = (skipped \/ \E i \in Leaving + 1 .. Depth : frames[i].kind \notin Protected)
  /\ UNCHANGED <<pages, deleted>>

\* pagefunc_restore_environment, and on with the jump.
Restore == target' = frames[Leaving].saved /\ UNCHANGED jumping

\* Mutant: the environment is not restored.
LeaveIn_Keeps ==
  /\ Leaves("in") /\ Leave /\ Pop
  /\ UNCHANGED <<packs, target, jumping>>

\* Mutant: a jump is not passed on by way of the pop.
LeaveIn_NoPop ==
  /\ Leaves("in") /\ Leave /\ Restore
  /\ IF jumping THEN UNCHANGED <<pdl, current>> ELSE Pop
  /\ UNCHANGED packs

LeaveIn ==
  /\ Leaves("in") /\ Leave /\ Restore /\ Pop
  /\ UNCHANGED packs

LeaveBody ==
  /\ Leaves("body") /\ Leave /\ Restore
  /\ UNCHANGED <<packs, current, pdl>>

\* The package's variables are put back, in a new package of the name where the
\* body has deleted it.
LeaveLet ==
  /\ Leaves("let") /\ Leave /\ Restore
  /\ IF frames[Leaving].name = Anonymous THEN UNCHANGED packs
     ELSE CanGet(packs, frames[Leaving].name) /\ packs' = Getting(packs, frames[Leaving].name)
  /\ UNCHANGED <<current, pdl>>

\* CurrentPackage is what it was: by its name, where it has one.
GiveBack(ps, frame) ==
  IF frame.name = Anonymous THEN packs' = ps /\ current' = frame.outer
  ELSE /\ CanGet(ps, frame.name) /\ packs' = Getting(ps, frame.name)
       /\ current' = Got(ps, frame.name)

LeaveNamed ==
  /\ Leaves("named") /\ Leave
  /\ GiveBack(packs, Top)
  /\ UNCHANGED <<pdl, target, jumping>>

\* The pop's package is not made current: the remembered one is.
LeaveLocal ==
  /\ Leaves("local") /\ Leave
  /\ pdl' = Without(Popped, Top.pack)
  /\ GiveBack(Freed(Top.pack), Top)
  /\ UNCHANGED <<target, jumping>>

LeavePage ==
  /\ Leaves("page") /\ Leave
  /\ target' = 0 /\ jumping' = FALSE
  /\ UNCHANGED <<packs, current, pdl>>

LeaveAfter ==
  /\ Leaves("after") /\ Leave
  /\ UNCHANGED <<packs, current, pdl, target, jumping>>

-----------------------------------------------------------------------------
(* Pages *)

\* page_process_page: nothing is done about what the page before has left.
BeginPage ==
  /\ frames = <<>> /\ pages < MaxPages
  /\ pages' = pages + 1
  /\ frames' = <<Frame("page", current, NULL)>> /\ target' = 1
  /\ UNCHANGED <<packs, current, pdl, jumping, deleted, skipped>>

\* loop_over_connections: the last one of the process, which calls no setjmp().
AfterPage ==
  /\ frames = <<>> /\ 0 < pages /\ pages <= MaxPages
  /\ pages' = MaxPages + 1
  /\ frames' = <<Frame("after", current, NULL)>>
  /\ UNCHANGED <<packs, current, pdl, target, jumping, deleted, skipped>>

Init ==
  /\ packs = <<[name |-> Default, live |-> TRUE]>> /\ current = 1 /\ pdl = <<>>
  /\ frames = <<>> /\ target = 0 /\ jumping = FALSE
  /\ pages = 0 /\ deleted = {} /\ skipped = FALSE

Next ==
  \/ BeginPage \/ AfterPage
  \/ InPackage \/ Body \/ Let \/ CallLocal \/ CallNamed
  \/ Refer \/ Delete \/ Jump
  \/ LeaveIn \/ LeaveBody \/ LeaveLet \/ LeaveNamed \/ LeaveLocal \/ LeavePage \/ LeaveAfter

Spec == Init /\ [][Next]_vars

-----------------------------------------------------------------------------
(* Properties *)

Packages == 0..MaxPackages
Frames ==
  [kind : Kinds, pack : Packages, outer : Packages, name : Names \cup {Anonymous},
   saved : 0..MaxDepth]

\* Nothing but packages, the bodies within one page and the setjmp() of one of
\* them: no jump is to a body that has been left.
TypeOK ==
  /\ packs \in Seq([name : Names \cup {Anonymous}, live : BOOLEAN])
  /\ current \in Packages /\ pdl \in Seq(Packages)
  /\ frames \in Seq(Frames) /\ target \in 0..Depth /\ jumping \in BOOLEAN
  /\ pages \in 0..MaxPages + 1 /\ deleted \subseteq {"anonymous", "once", "twice"}
  /\ skipped \in BOOLEAN

\* T is the innermost of the first DEPTH bodies that has called setjmp().
Innermost(t, depth) ==
  /\ t \in 0..depth
  /\ t # 0 => frames[t].kind \in Protected
  /\ \A i \in t + 1 .. depth : frames[i].kind \notin Protected

\* A jump enters every body that has to give something back, one after the
\* other from within: its target is always the innermost.
TargetInnermost == Innermost(target, Depth)

\* Each environment has saved the target of the bodies around it; a jump is in a
\* page, which is around every body.
Saved(i) ==
  /\ frames[i].kind \in Protected => Innermost(frames[i].saved, i - 1)
  /\ frames[i].kind = "page" => i = 1

EnvironmentsSaved ==
  /\ \A i \in DOMAIN frames : Saved(i)
  /\ jumping => frames # <<>> /\ frames[1].kind = "page"

IInv == TargetInnermost /\ EnvironmentsSaved

\* A body is evaluated in its package, also after any bodies within it, as long as
\* no package is deleted.
BodyInItsPackage == Evaluating /\ deleted = {} => current = Top.pack

\* A page leaves to the next one the default package and an empty PDL, unless it
\* has deleted a package or a jump has passed the body of a function.
PagesAlike ==
  frames = <<>> /\ deleted = {} /\ ~skipped => current = 1 /\ pdl = <<>>

\* No package that has been freed is current or will be made so, and mhtml_let
\* can "trust that it exists" of one without a name: unless one has been deleted
\* that was on the PDL twice, or by carats one without a name.
NoDangling ==
  deleted \subseteq {"once"} =>
    /\ {current} \cup Range(pdl) \subseteq Live(packs) \cup {NULL}
    /\ \A i \in DOMAIN frames :
         frames[i].name = Anonymous => frames[i].outer \in Live(packs) \cup {NULL}

=============================================================================

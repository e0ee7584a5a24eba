----------------------------- MODULE PageProcess -----------------------------
(***************************************************************************)
(* What the process that serves a page shares between its parts: the        *)
(* commands it starts, SIGCHLD, whose handler is the release_child of the   *)
(* file that started the last of them (libmhtml/streamfuncs.c or            *)
(* libserver/http.c), and SIGPIPE, which is ignored from the first on.      *)
(***************************************************************************)
EXTENDS Naturals, FiniteSets

CONSTANT MaxChildren \* bound: how many commands the process starts

ASSUME PageProcessAssumption == MaxChildren \in Nat

VARIABLES
  child,    \* child[c]: the state of the c-th command's process
  started,  \* how many have been started
  handler,  \* whose release_child is SIGCHLD's handler
  sigchld,  \* whether a SIGCHLD is pending
  status,   \* http.c's child_status
  told,     \* history: the command whose status that is, 0 for none
  alive     \* FALSE: SIGPIPE has killed the process

process == <<child, started, handler, sigchld, status, told, alive>>

Children == 1..MaxChildren

\* How a command ends: by exit (n), by _exit (127) after execve() has failed, by
\* a signal.
Deaths == {"exit", "127", "killed"}

ChildStates ==
  [at : {"none", "running", "dying", "zombie", "released"}, how : Deaths]

ProcessInit ==
  /\ child = [c \in Children |-> [at |-> "none", how |-> "exit"]]
  /\ started = 0 /\ handler = "none" /\ sigchld = FALSE
  /\ status = "exit" /\ told = 0 /\ alive = TRUE

ProcessTypeOK ==
  /\ child \in [Children -> ChildStates] /\ started \in 0..MaxChildren
  /\ handler \in {"none", "stream", "cgi"} /\ sigchld \in BOOLEAN
  /\ status \in Deaths /\ told \in 0..MaxChildren /\ alive \in BOOLEAN

In(state) == {c \in Children : child[c].at = state}

\* c has not ended.
Runs(c) == child[c].at \in {"running", "dying"}

\* vfork() and what the parent does after it; where the execve() fails the process
\* has ended by then, and its SIGCHLD is lost if there was no handler.
Spawn(whose) ==
  /\ started < MaxChildren
  /\ started' = started + 1
  /\ handler' = whose
  /\ \/ /\ child' = [child EXCEPT ![started'].at = "running"]
        /\ UNCHANGED sigchld
     \/ /\ child' = [child EXCEPT ![started'] = [at |-> "zombie", how |-> "127"]]
        /\ sigchld' = (sigchld \/ handler # "none")
  /\ UNCHANGED <<status, told, alive>>

\* vfork() fails: the parent does the same.
SpawnFails(whose) ==
  /\ handler' = whose
  /\ UNCHANGED <<child, started, sigchld, status, told, alive>>

\* A process that is told to end, unless it has already.
Kill(cs) ==
  child' = [c \in Children |->
    IF c \in cs /\ child[c].at = "running" THEN [child[c] EXCEPT !.at = "dying"] ELSE child[c]]

Die(c) ==
  /\ Runs(c)
  /\ \E how \in {"exit", "killed"} : child' = [child EXCEPT ![c] = [at |-> "zombie", how |-> how]]
  /\ sigchld' = TRUE
  /\ UNCHANGED <<started, handler, status, told, alive>>

\* release_child: one wait() for one signal, whatever number of deaths it is of.
\* Each file has a child_status of its own.
Release ==
  /\ sigchld /\ sigchld' = FALSE
  /\ \E c \in In("zombie") :
       /\ child' = [child EXCEPT ![c].at = "released"]
       /\ IF handler = "cgi" THEN status' = child[c].how /\ told' = c ELSE UNCHANGED <<status, told>>
  /\ UNCHANGED <<started, handler, alive>>

\* Text is written to what nobody reads: the process dies of it, or is told.
BrokenPipe ==
  /\ alive' = (handler # "none")
  /\ UNCHANGED <<child, started, handler, sigchld, status, told>>

=============================================================================

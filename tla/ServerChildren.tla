--------------------------- MODULE ServerChildren ---------------------------
(***************************************************************************)
(* The parent process of server/server.c: loop_over_connections, which     *)
(* forks a child for each connection, and the table of children that        *)
(* add_child, reap_children (SIGCHLD's handler, too) and                    *)
(* check_child_timeouts keep.  The operating system's side is the state of  *)
(* the processes, whose identifiers it uses again.                          *)
(***************************************************************************)
EXTENDS Naturals, SequencesExt

CONSTANTS
  Pids,      \* the process identifiers
  NoPid,     \* what fork() returns when it fails (-1), and no process's pid
  MaxForks,  \* bound: how many connections are made
  ForkFails, \* whether fork() can fail
  Foreign,   \* whether other programs' processes can take a freed pid
  Vanish     \* whether a connection can be gone by the time of accept()

ASSUME ServerChildrenAssumption ==
  /\ NoPid \notin Pids /\ MaxForks \in Nat
  /\ {ForkFails, Foreign, Vanish} \subseteq BOOLEAN

VARIABLES
  children,  \* the table: see Child
  process,   \* process[pid]: [state, serial], the process that has the pid
  sigchld,   \* whether SIGCHLD is pending for the parent
  pc,        \* what the parent does next
  ready,     \* whether the parent's first select() found a connection
  waiting,   \* the number of connections to accept
  arrived,   \* how many connections have been made
  forks,     \* the number of calls of fork(): the last child's serial number
  new        \* the pid that fork() has returned

vars == <<children, process, sigchld, pc, ready, waiting, arrived, forks, new>>
connections == <<waiting, arrived>>

\* An element of the table: late stands for now >= timeout, ended for end # 0.
\* The code has not got the last two: the serial number tells children with one
\* pid apart; an element is fresh that was added before its child had been waited
\* for, and when no other element had its pid.
Child ==
  [pid : Pids \cup {NoPid}, killed : BOOLEAN, late : BOOLEAN, ended : BOOLEAN,
   serial : Nat, fresh : BOOLEAN]

\* free: nobody's; running: a child; dying: it has been sent SIGKILL; zombie: it
\* is dead and not waited for; foreign: not a child of this server.
States == {"free", "running", "dying", "zombie", "foreign"}
Places == {"poll", "check", "reap", "wait", "accept", "fork", "add"}

Init ==
  /\ children = <<>>
  /\ process = [pid \in Pids |-> [state |-> "free", serial |-> 0]]
  /\ sigchld = FALSE /\ pc = "poll" /\ ready = FALSE
  /\ waiting = 0 /\ arrived = 0 /\ forks = 0 /\ new = NoPid

Pidded(s) == {pid \in Pids : process[pid].state = s}

-----------------------------------------------------------------------------
(* The table *)

\* Mutant: a child that has been killed is waited for.
Strike_Wait(child) == IF child.late THEN [child EXCEPT !.killed = TRUE] ELSE child

\* What the loop of check_child_timeouts makes of one child.
Strike(child) ==
  IF ~child.late THEN child
  ELSE IF child.killed THEN [child EXCEPT !.ended = TRUE]
  ELSE [child EXCEPT !.killed = TRUE]

\* Those whom it sends SIGKILL to.
Struck == {i \in DOMAIN children : children[i].late /\ ~children[i].killed}
Victims == {children[i].pid : i \in Struck}

\* find_child: the first with the pid, if any.
Find(table, pid) == SelectInSeq(table, LAMBDA child : child.pid = pid)

\* Mutant: that a child has ended is not noted.
Released_Unmarked == children

\* release_child: the zombies are waited for, and marked where they are found.
Released ==
  LET found == {Find(children, pid) : pid \in Pidded("zombie")}
  IN  [i \in DOMAIN children |->
         IF i \in found THEN [children[i] EXCEPT !.ended = TRUE] ELSE children[i]]

\* Mutant: delete_child deletes the child at the index, and so another child,
\* the one after it, when the two have been shifted.
Delete_Next(table, pid) ==
  LET i == Find(table, pid) IN IF i < Len(table) THEN RemoveAt(table, i + 1) ELSE RemoveAt(table, i)

Delete(table, pid) == RemoveAt(table, Find(table, pid))

\* What reap_children's loop does at one index of the table.
SweepAt(table, i) ==
  IF i <= Len(table) /\ table[i].ended THEN Delete(table, table[i].pid) ELSE table

\* The loop: the child after one that is deleted takes its place, and is not
\* looked at.
Swept(table) ==
  LET sweep[i \in 0..Len(table)] == IF i = 0 THEN table ELSE SweepAt(sweep[i - 1], i)
  IN  sweep[Len(table)]

\* Mutant: one call of waitpid() for one signal, which may stand for two.
ReapChildren_One ==
  \E pid \in Pids :
    /\ Pidded("zombie") # {} => process[pid].state = "zombie"
    /\ children' = Swept([i \in DOMAIN children |->
         IF process[pid].state = "zombie" /\ i = Find(children, pid)
           THEN [children[i] EXCEPT !.ended = TRUE] ELSE children[i]])
    /\ process' = [process EXCEPT ![pid].state = IF @ = "zombie" THEN "free" ELSE @]

\* What is released is bound, for TLC to compute it but once.
ReapChildren ==
  /\ \E released \in {Released} : children' = Swept(released)
  /\ process' = [pid \in Pids |->
       IF process[pid].state = "zombie" THEN [process[pid] EXCEPT !.state = "free"] ELSE process[pid]]

-----------------------------------------------------------------------------
(* loop_over_connections *)

\* select() without waiting
Poll ==
  /\ pc = "poll" /\ pc' = "check"
  /\ ready' = (waiting > 0)
  /\ UNCHANGED <<children, process, sigchld, connections, forks, new>>

\* check_child_timeouts up to its call of reap_children; kill(-1) kills all that
\* the server may.  SIGCHLD is blocked.
Check ==
  /\ pc = "check" /\ pc' = "reap"
  /\ children' = [i \in DOMAIN children |-> Strike(children[i])]
  /\ process' = [pid \in Pids |->
       IF pid \notin Victims /\ NoPid \notin Victims THEN process[pid]
       ELSE IF process[pid].state = "running" THEN [process[pid] EXCEPT !.state = "dying"]
       ELSE IF process[pid].state = "foreign" THEN [process[pid] EXCEPT !.state = "free"]
       ELSE process[pid]]
  /\ UNCHANGED <<sigchld, ready, connections, forks, new>>

\* The rest of it: reap_children, unless there are no children.
Reap ==
  /\ pc = "reap" /\ pc' = (IF ready THEN "accept" ELSE "wait")
  /\ IF children = <<>> THEN UNCHANGED <<children, process>> ELSE ReapChildren
  /\ UNCHANGED <<sigchld, ready, connections, forks, new>>

\* select() for 60 seconds: a connection, the time-out or a signal.
Wait ==
  /\ pc = "wait"
  /\ \/ waiting > 0 /\ pc' = "accept"
     \/ pc' = "poll"
  /\ UNCHANGED <<children, process, sigchld, ready, connections, forks, new>>

\* accept() waits for a connection, whatever select() has said of it.
Accept ==
  /\ pc = "accept" /\ waiting > 0 /\ pc' = "fork"
  /\ waiting' = waiting - 1
  /\ UNCHANGED <<children, process, sigchld, ready, arrived, forks, new>>

Fork ==
  /\ pc = "fork" /\ pc' = "add"
  /\ forks' = forks + 1
  /\ \/ \E pid \in Pidded("free") :
          /\ new' = pid
          /\ process' = [process EXCEPT ![pid] = [state |-> "running", serial |-> forks']]
     \/ (ForkFails \/ Pidded("free") = {}) /\ new' = NoPid /\ UNCHANGED process
  /\ UNCHANGED <<children, sigchld, ready, connections>>

\* The process of the child with the serial number, until it has been waited for.
OfChild(serial) == [state : {"running", "dying", "zombie"}, serial : {serial}]

AddChild ==
  /\ pc = "add" /\ pc' = "poll"
  /\ LET fresh == /\ new # NoPid /\ process[new] \in OfChild(forks)
                  /\ \A i \in DOMAIN children : children[i].pid # new
     IN  children' = Append(children,
           [pid |-> new, killed |-> FALSE, late |-> FALSE, ended |-> FALSE,
            serial |-> forks, fresh |-> fresh])
  /\ UNCHANGED <<process, sigchld, ready, connections, forks, new>>

Parent == Poll \/ Check \/ Reap \/ Wait \/ Accept \/ Fork \/ AddChild

\* SIGCHLD's handler, reap_children, between any two steps where it is not blocked.
Handler ==
  /\ sigchld /\ pc # "reap"
  /\ sigchld' = FALSE
  /\ ReapChildren
  /\ UNCHANGED <<pc, ready, connections, forks, new>>

-----------------------------------------------------------------------------
(* The rest of the system *)

Arrive ==
  /\ arrived < MaxForks
  /\ arrived' = arrived + 1 /\ waiting' = waiting + 1
  /\ UNCHANGED <<children, process, sigchld, pc, ready, forks, new>>

\* The client gives up, or another of the servers accepts the connection.
Leave ==
  /\ Vanish /\ waiting > 0
  /\ waiting' = waiting - 1
  /\ UNCHANGED <<children, process, sigchld, pc, ready, arrived, forks, new>>

\* The time of the first children comes: their times are in the table's order.
Late(i) ==
  /\ i \in DOMAIN children /\ ~children[i].late
  /\ \A j \in 1..(i - 1) : children[j].late
  /\ children' = [children EXCEPT ![i].late = TRUE]
  /\ UNCHANGED <<process, sigchld, pc, ready, connections, forks, new>>

Die(pid) ==
  /\ process' = [process EXCEPT ![pid].state = "zombie"]
  /\ sigchld' = TRUE
  /\ UNCHANGED <<children, pc, ready, connections, forks, new>>

Exits(pid) == process[pid].state = "running" /\ Die(pid)
Killed(pid) == process[pid].state = "dying" /\ Die(pid)

\* Another program's process takes a pid that no process has.
Take(pid) ==
  /\ Foreign /\ process[pid].state = "free"
  /\ process' = [process EXCEPT ![pid] = [state |-> "foreign", serial |-> 0]]
  /\ UNCHANGED <<children, sigchld, pc, ready, connections, forks, new>>

Gone(pid) ==
  /\ process[pid].state = "foreign"
  /\ process' = [process EXCEPT ![pid].state = "free"]
  /\ UNCHANGED <<children, sigchld, pc, ready, connections, forks, new>>

Next ==
  \/ Parent \/ Handler \/ Arrive \/ Leave
  \/ \E i \in DOMAIN children : Late(i)
  \/ \E pid \in Pids : Exits(pid) \/ Killed(pid) \/ Take(pid) \/ Gone(pid)

Spec == Init /\ [][Next]_vars

\* The parent runs, time passes, and those who are sent SIGKILL die; the
\* children themselves need not end.
FairSpec ==
  /\ Spec
  /\ WF_vars(Parent) /\ WF_vars(Handler)
  /\ WF_vars(\E i \in DOMAIN children : Late(i))
  /\ \A pid \in Pids : WF_vars(Killed(pid))

-----------------------------------------------------------------------------
(* Properties *)

TypeOK ==
  /\ children \in Seq(Child)
  /\ process \in [Pids -> [state : States, serial : Nat]]
  /\ sigchld \in BOOLEAN /\ pc \in Places /\ ready \in BOOLEAN
  /\ waiting \in Nat /\ arrived \in Nat /\ forks \in Nat
  /\ new \in Pids \cup {NoPid}

Listed(pid) ==
  \E i \in DOMAIN children :
    children[i].pid = pid /\ ~children[i].killed /\ ~children[i].ended

\* No child is forgotten: one that runs is in the table, and as one that is to be
\* killed yet and has not ended, or about to be put there, however many old
\* entries have its pid.
ChildrenListed ==
  \A pid \in Pidded("running") : Listed(pid) \/ (pc = "add" /\ new = pid)

\* What an entry of the table says of one that is after it.
Before(first, second) ==
  /\ second.late => first.late
  /\ second.killed => first.killed
  /\ second.ended /\ second.pid = first.pid => first.ended
  /\ second.fresh => second.pid # first.pid

\* The table is in the order of the entries' times, and so are the deaths noted
\* in it: delete_child, which takes the first entry of a pid, never takes one
\* that has not ended.
InOrder(table) ==
  /\ \A i \in DOMAIN table : table[i].killed => table[i].late
  /\ \A i, j \in DOMAIN table : i < j => Before(table[i], table[j])

\* Whose the process is that a fresh entry's pid stands for, until the entry has
\* ended.
FreshAreOwn ==
  \A i \in DOMAIN children : children[i].fresh /\ ~children[i].ended =>
    /\ children[i].pid \in Pids
    /\ process[children[i].pid] \in OfChild(children[i].serial)

\* The invariant of the table.
IInv == TypeOK /\ InOrder(children) /\ FreshAreOwn /\ ChildrenListed

\* A dead child has been waited for unless its SIGCHLD is yet to be handled.
ZombiesAnnounced == Pidded("zombie") # {} => sigchld

\* "Check to see if any of our children have been alive too long. If so, kill
\* them": the process that is killed is the child of the entry.  It can be
\* anybody's where the loop of reap_children has passed over the entry of a child
\* that has ended, and where an entry is not fresh: its child was waited for
\* before, or will have its death noted in the older entry of its pid.
KillsItsChild ==
  [][pc = "check" /\ pc' = "reap" =>
       \A i \in Struck : children[i].fresh /\ ~children[i].ended =>
         process[children[i].pid] \in OfChild(children[i].serial)]_vars

\* accept() does not wait for ever.  It may: the connection that select() found
\* can be gone, or another server's, and the listening socket blocks.
AcceptReturns == []<>(pc # "accept")

\* "If the child doesn't die in the time allotted, kill it": no child runs for
\* ever, whichever entries with its pid are still there, as long as the parent
\* comes back from accept() to look.
ChildrenEnd ==
  AcceptReturns =>
    \A pid \in Pids : process[pid].state = "running" ~> process[pid].state # "running"

\* An entry does not stay in the table, not even one that was made after its
\* process had been waited for, that stands for no process at all, or that the
\* loop of reap_children has passed over.
EntriesEnd ==
  AcceptReturns =>
    \A n \in 1..MaxForks :
      (\E i \in DOMAIN children : children[i].serial = n)
        ~> (\A i \in DOMAIN children : children[i].serial # n)

=============================================================================

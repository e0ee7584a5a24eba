------------------------------- MODULE CgiExec -------------------------------
(***************************************************************************)
(* <cgi-exec> of libmhtml/cgi-exec.c: a page that runs shell commands and    *)
(* gathers what each writes to two pipes, the output to its end and then   *)
(* the errors, with a time-out for the first of either.  SIGCHLD's handler *)
(* waits for the commands, those of earlier calls too, and interrupts the  *)
(* select() of the later ones.                                             *)
(*                                                                         *)
(* A unit of text is what one read() takes; Capacity is in those units.    *)
(* Pipes are those of the latest command: nobody reads the earlier ones.   *)
(***************************************************************************)
EXTENDS Naturals, FiniteSets

CONSTANTS
  MaxCalls,   \* bound: how many commands the page runs
  Capacity,   \* what a pipe holds
  OutMax,     \* bound: what a command writes to its output
  ErrMax      \* bound: what it writes to its errors

ASSUME CgiExecAssumption ==
  {MaxCalls, OutMax, ErrMax} \subseteq Nat /\ Capacity \in Nat \ {0}

Calls == 1..MaxCalls
Streams == {"out", "err"}

VARIABLES
  pc,        \* what the page does next
  call,      \* the number of the latest command
  nowait,    \* whether it was called with nowait=true
  timed,     \* whether its time-out comes: it is not timeout=none
  stream,    \* which stream is being gathered
  intr,      \* how often this select() has been interrupted
  text,      \* text[s]: how much of the stream has been gathered
  late,      \* the streams whose time ran out
  cut,       \* history: the streams left at the second end of a select()
  handler,   \* whether release_child is SIGCHLD's handler
  sigchld,   \* whether a SIGCHLD is pending
  command,   \* command[c]: the state of the c-th command's process
  total,     \* total[s]: how much the latest command has to write
  left,      \* left[s]: how much of it has not been written
  pipe,      \* pipe[s]: how much the pipe has in it
  writer     \* writer[s]: whether the pipe's writing end is open anywhere

execVars == <<pc, call, nowait, timed, stream, intr, text, late, cut,
          handler, sigchld, command, total, left, pipe, writer>>
options == <<call, nowait, timed>>
gathering == <<stream, intr, text, late, cut>>
signals == <<handler, sigchld>>
pipes == <<total, left, pipe, writer>>

Places == {"idle", "signal", "select", "read", "close"}
States == {"none", "running", "zombie", "released"}
Amounts == {t \in [Streams -> 0..(OutMax + ErrMax)] : t.out <= OutMax /\ t.err <= ErrMax}
Nothing == [s \in Streams |-> 0]

ExecInit ==
  /\ pc = "idle" /\ call = 0 /\ nowait = FALSE /\ timed = FALSE
  /\ stream = "out" /\ intr = 0 /\ text = Nothing /\ late = {} /\ cut = {}
  /\ handler = FALSE /\ sigchld = FALSE
  /\ command = [c \in Calls |-> "none"]
  /\ total = Nothing /\ left = Nothing /\ pipe = Nothing
  /\ writer = [s \in Streams |-> FALSE]

-----------------------------------------------------------------------------
(* shell_execute *)

\* Where the execve() fails, the process has ended when vfork() returns; SIGCHLD
\* is ignored before the first call, and pending otherwise.
Execute ==
  /\ pc = "idle" /\ call < MaxCalls /\ pc' = "signal"
  /\ call' = call + 1
  /\ nowait' \in BOOLEAN /\ timed' \in BOOLEAN
  /\ stream' = "out" /\ intr' = 0 /\ text' = Nothing /\ late' = {} /\ cut' = {}
  /\ pipe' = Nothing
  /\ \/ /\ command' = [command EXCEPT ![call'] = "zombie"]
        /\ sigchld' = (sigchld \/ handler)
        /\ total' = Nothing /\ writer' = [s \in Streams |-> FALSE]
     \/ /\ command' = [command EXCEPT ![call'] = "running"]
        /\ total' \in (IF nowait' THEN {Nothing} ELSE Amounts)
        /\ writer' = [s \in Streams |-> ~nowait']
        /\ UNCHANGED sigchld
  /\ left' = total'
  /\ UNCHANGED handler

\* Mutant: the errors are gathered first.
First_Errors == "err"

First == "out"

Signal ==
  /\ pc = "signal" /\ pc' = (IF nowait THEN "idle" ELSE "select")
  /\ handler' = TRUE /\ stream' = First
  /\ UNCHANGED <<options, intr, text, late, cut, sigchld, command, pipes>>

\* Mutant: the command is waited for here, too.
Close_Waits ==
  /\ pc = "close" /\ pc' = "idle" /\ command[call] # "running"
  /\ command' = [command EXCEPT ![call] = "released"]
  /\ left' = Nothing /\ pipe' = Nothing
  /\ UNCHANGED <<options, gathering, signals, total, writer>>

\* A command that still writes is killed by SIGPIPE, or told of the error.
Close ==
  /\ pc = "close" /\ pc' = "idle"
  /\ left' = Nothing /\ pipe' = Nothing
  /\ UNCHANGED <<options, gathering, signals, command, total, writer>>

-----------------------------------------------------------------------------
(* gather_input *)

Ready == pipe[stream] > 0 \/ ~writer[stream]

\* On to the errors, or done with both.
Gathered ==
  IF stream = First
  THEN stream' \in Streams \ {First} /\ intr' = 0 /\ pc' = "select"
  ELSE pc' = "close" /\ UNCHANGED <<stream, intr>>

Select ==
  /\ pc = "select" /\ Ready /\ pc' = "read"
  /\ UNCHANGED <<options, gathering, signals, command, pipes>>

TimeOut ==
  /\ pc = "select" /\ ~Ready /\ timed
  /\ late' = late \cup {stream}
  /\ Gathered
  /\ UNCHANGED <<options, text, cut, signals, command, pipes>>

Read ==
  /\ pc = "read" /\ pipe[stream] > 0
  /\ text' = [text EXCEPT ![stream] = @ + 1]
  /\ pipe' = [pipe EXCEPT ![stream] = @ - 1]
  /\ UNCHANGED <<pc, options, stream, intr, late, cut, signals, command, total, left,
                 writer>>

\* Mutant: what is not there yet is taken for the end.
EndOfFile_Early ==
  /\ pc = "read" /\ pipe[stream] = 0
  /\ Gathered
  /\ UNCHANGED <<options, text, late, cut, signals, command, pipes>>

EndOfFile ==
  /\ pc = "read" /\ pipe[stream] = 0 /\ ~writer[stream]
  /\ Gathered
  /\ UNCHANGED <<options, text, late, cut, signals, command, pipes>>

-----------------------------------------------------------------------------
(* SIGCHLD *)

InState(state) == {c \in Calls : command[c] = state}

\* What a signal is to the page: nothing, or the end of a select() that has
\* nothing to report, which is called again once.
Interrupt ==
  \/ UNCHANGED <<pc, stream, intr, cut>>
  \/ /\ pc = "select" /\ ~Ready /\ intr = 0 /\ intr' = 1
     /\ UNCHANGED <<pc, stream, cut>>
  \/ /\ pc = "select" /\ ~Ready /\ intr = 1
     /\ cut' = cut \cup {stream}
     /\ Gathered

\* release_child: one wait() for one signal, whatever number of deaths it is of.
ReleaseChild ==
  /\ sigchld /\ sigchld' = FALSE
  /\ \E c \in InState("zombie") : command' = [command EXCEPT ![c] = "released"]
  /\ Interrupt
  /\ UNCHANGED <<options, text, late, handler, pipes>>

-----------------------------------------------------------------------------
(* The commands *)

Write(s) ==
  /\ writer[s] /\ left[s] > 0 /\ pipe[s] < Capacity
  /\ pipe' = [pipe EXCEPT ![s] = @ + 1]
  /\ left' = [left EXCEPT ![s] = @ - 1]
  /\ UNCHANGED <<pc, options, gathering, signals, command, total, writer>>

\* A command, or what it leaves behind, may close a stream with all of it written.
CloseEnd(s) ==
  /\ writer[s] /\ left[s] = 0
  /\ writer' = [writer EXCEPT ![s] = FALSE]
  /\ UNCHANGED <<pc, options, gathering, signals, command, total, left, pipe>>

\* A process that the command has left behind may have the pipes still.
Exit(c) ==
  /\ command[c] = "running"
  /\ command' = [command EXCEPT ![c] = "zombie"]
  /\ sigchld' = (sigchld \/ handler)
  /\ UNCHANGED <<pc, options, gathering, handler, pipes>>

Page == Signal \/ Close \/ Select \/ Read \/ EndOfFile

ExecNext ==
  \/ Execute \/ Page \/ TimeOut \/ ReleaseChild
  \/ \E s \in Streams : Write(s) \/ CloseEnd(s)
  \/ \E c \in Calls : Exit(c)

ExecSpec == ExecInit /\ [][ExecNext]_execVars

\* The page runs, its time-outs and signals come, and a command that can write
\* does.  With everything written it closes its streams: none keeps them for ever,
\* though one may never end, and may keep one until it has written to the other.
ExecFairSpec ==
  /\ ExecSpec /\ WF_execVars(Page) /\ WF_execVars(TimeOut) /\ WF_execVars(ReleaseChild)
  /\ \A s \in Streams : WF_execVars(Write(s)) /\ WF_execVars(left = Nothing /\ CloseEnd(s))

-----------------------------------------------------------------------------
(* Properties *)

\* No stream is gathered with more than one repeated select(), and the counters
\* of text keep their types.
ExecTypeOK ==
  /\ pc \in Places /\ call \in 0..MaxCalls /\ nowait \in BOOLEAN /\ timed \in BOOLEAN
  /\ stream \in Streams /\ intr \in 0..1
  /\ text \in [Streams -> 0..(OutMax + ErrMax)] /\ late \subseteq Streams /\ cut \subseteq Streams
  /\ handler \in BOOLEAN /\ sigchld \in BOOLEAN
  /\ command \in [Calls -> States]
  /\ total \in Amounts /\ left \in Amounts
  /\ pipe \in [Streams -> 0..Capacity] /\ writer \in [Streams -> BOOLEAN]

\* The wait() of SIGCHLD's handler finds a command that has ended: the page
\* never waits there for one that runs, however many ended for one signal.
HandlerNeverWaits == sigchld => InState("zombie") # {}

\* The invariant of the commands: types, and the wait() of SIGCHLD's handler,
\* which never waits.
ExecIInv == ExecTypeOK /\ HandlerNeverWaits

\* "The variable referenced by VARNAME receives the output of the command": all
\* of it, and of the errors, unless the stream's own time ran out, or this very
\* select() was interrupted twice, each time by the death of a command,
\* earlier ones that were not waited for included.
OutputWhole ==
  pc = "close" =>
    /\ \A s \in Streams \ (late \cup cut) : text[s] = total[s]
    /\ 2 * Cardinality(cut) <= Cardinality(InState("released"))

\* The output was left before its end, for the time or for two deaths.
GivenUp == "out" \in late \cup cut

\* <cgi-exec> comes to its end, with the time-out or without: when the errors fit
\* the pipe that is not read before the output's end, and the output, where it
\* was given up, the pipe that is not read any more.
ExecEnds ==
  \A c \in Calls :
    call = c /\ pc # "idle" /\ total.err <= Capacity
      ~> call # c \/ pc = "idle" \/ (GivenUp /\ total.out > Capacity)

=============================================================================

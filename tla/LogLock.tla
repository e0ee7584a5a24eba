------------------------------ MODULE LogLock ------------------------------
(***************************************************************************)
(* The log files of libserver/logging.c: a message is written under a lock  *)
(* on a file beside the log (lock_logfile), by the parent of                *)
(* server/server.c, by the processes that serve its pages, and by the       *)
(* signal handlers, which interrupt it anywhere, also where it holds a lock *)
(* of that kind.  SIGTERM's, shutdown_cleanly, ends the server: the         *)
(* processes that serve pages have inherited it.                           *)
(***************************************************************************)
EXTENDS Naturals, Sequences

CONSTANTS
  Procs,      \* the processes of the server
  Parents,    \* those of them that run loop_over_connections
  Files,      \* the log files
  NoFile,     \* the name of a log that is not kept
  Configs,    \* the configurations: see Config
  Signals,    \* the signals that are sent
  MaxLogs,    \* bound: messages of the program proper, for each process
  MaxSignals  \* bound: signals

Kinds == {"error", "debug"}

\* Where the messages of each kind go, and mhttpd_log_performance.
Config == [log : [Kinds -> Files \cup {NoFile}], performance : BOOLEAN]

\* The holder of a lock that nobody has.
NoProc == "no process"

ASSUME LogLockAssumption ==
  /\ Parents \subseteq Procs /\ NoProc \notin Procs /\ NoFile \notin Files
  /\ Configs \subseteq Config
  /\ Signals \subseteq {"CHLD", "HUP", "TERM"}
  /\ MaxLogs \in Nat /\ MaxSignals \in Nat

VARIABLES
  stack,     \* stack[p]: the calls that p is in, the handlers' after those they interrupt
  locked,    \* locked[f]: the process that has the lock of f's, or none of them
  pending,   \* pending[p]: the signals that p has been sent
  calls,     \* calls[p]: how many messages the program proper has begun
  sent,      \* how many signals have been sent
  exited,    \* the processes that have ended
  config     \* the configuration the server was started with

logVars == <<stack, locked, pending, calls, sent, exited, config>>

\* A call: whose it is, the messages it has to log, and how far the first is.
Call ==
  [of : {"main", "CHLD", "HUP", "TERM"}, todo : Seq(Kinds),
   at : {"lock", "write", "unlock", "exit"}]

\* Only shutdown_cleanly has something to do after its last message.
Enter(of, todo) == [of |-> of, todo |-> todo, at |-> IF todo = <<>> THEN "exit" ELSE "lock"]

Running(p) == stack[p] # <<>>
Top(p) == stack[p][Len(stack[p])]
Rest(p) == SubSeq(stack[p], 1, Len(stack[p]) - 1)
File(call) == config.log[Head(call.todo)]

LogInit ==
  /\ stack = [p \in Procs |-> <<>>]
  /\ locked = [f \in Files |-> NoProc]
  /\ pending = [p \in Procs |-> {}]
  /\ calls = [p \in Procs |-> 0]
  /\ sent = 0 /\ exited = {}
  /\ config \in Configs

-----------------------------------------------------------------------------
(* mhttpd_log, mhttpd_log_verbatim *)

Log(p) ==
  /\ ~Running(p) /\ p \notin exited /\ calls[p] < MaxLogs
  /\ calls' = [calls EXCEPT ![p] = @ + 1]
  /\ \E kind \in Kinds : stack' = [stack EXCEPT ![p] = <<Enter("main", <<kind>>)>>]
  /\ UNCHANGED <<locked, pending, sent, exited, config>>

Goto(p, place) == stack' = [stack EXCEPT ![p][Len(stack[p])].at = place]

\* The message is done with: on to the next, or back from the call.
Done(p) ==
  LET call == Top(p)
  IN  stack' = [stack EXCEPT ![p] =
        IF Len(call.todo) = 1 /\ call.of # "TERM" THEN Rest(p)
        ELSE Append(Rest(p), Enter(call.of, Tail(call.todo)))]

\* There is no such log.
Skip(p) ==
  /\ Running(p) /\ Top(p).at = "lock" /\ File(Top(p)) = NoFile
  /\ Done(p)
  /\ UNCHANGED <<locked, pending, calls, sent, exited, config>>

\* lock_logfile opens the file anew, so that a lock that the process itself has
\* by another descriptor is in its way like anybody's.
Lock(p) ==
  /\ Running(p) /\ Top(p).at = "lock" /\ File(Top(p)) # NoFile
  /\ locked[File(Top(p))] = NoProc
  /\ locked' = [locked EXCEPT ![File(Top(p))] = p]
  /\ Goto(p, "write")
  /\ UNCHANGED <<pending, calls, sent, exited, config>>

Write(p) ==
  /\ Running(p) /\ Top(p).at = "write"
  /\ Goto(p, "unlock")
  /\ UNCHANGED <<locked, pending, calls, sent, exited, config>>

\* Mutant: the log file is closed, its lock is kept.
Unlock_Not(p) ==
  /\ Running(p) /\ Top(p).at = "unlock"
  /\ Done(p)
  /\ UNCHANGED <<locked, pending, calls, sent, exited, config>>

Unlock(p) ==
  /\ Running(p) /\ Top(p).at = "unlock"
  /\ locked' = [locked EXCEPT ![File(Top(p))] = NoProc]
  /\ Done(p)
  /\ UNCHANGED <<pending, calls, sent, exited, config>>

-----------------------------------------------------------------------------
(* Signals *)

\* A process that serves a page ignores SIGHUP, and has no handler of SIGCHLD.
Handled(p) == IF p \in Parents THEN Signals ELSE Signals \cap {"TERM"}

Send(p, signal) ==
  /\ p \notin exited /\ sent < MaxSignals /\ sent' = sent + 1
  /\ pending' = [pending EXCEPT ![p] = @ \cup {signal}]
  /\ UNCHANGED <<stack, locked, calls, exited, config>>

In(p, handler) == \E i \in DOMAIN stack[p] : stack[p][i].of = handler

\* Mutant: check_child_timeouts does not block SIGCHLD.
Blocked_Handler(p, signal) == In(p, signal)

\* A handler's own signal is blocked while it runs; SIGCHLD is, in
\* check_child_timeouts, where a parent logs its errors, and in reap_children,
\* which shutdown_cleanly calls.
Blocked(p, signal) ==
  \/ In(p, signal)
  \/ /\ signal = "CHLD"
     /\ \/ In(p, "TERM")
        \/ \E i \in DOMAIN stack[p] : stack[p][i].of = "main" /\ stack[p][i].todo = <<"error">>

\* What reap_children logs, of a child that was killed by a signal or not; what
\* reinitialize_server does, before and after it reads the configuration.
Logs(p, signal) ==
  IF signal = "HUP" THEN {<<"error", "error">>}
  ELSE IF p \in Parents /\ config.performance THEN {<<"debug">>, <<"debug", "error">>}
  ELSE {<<>>, <<"error">>}

\* The handler is called.
Deliver(p, signal) ==
  /\ p \notin exited /\ signal \in pending[p] /\ ~Blocked(p, signal)
  /\ signal # "TERM"
  /\ pending' = [pending EXCEPT ![p] = @ \ {signal}]
  /\ \E todo \in Logs(p, signal) :
       stack' = [stack EXCEPT ![p] = IF todo = <<>> THEN @ ELSE Append(@, Enter(signal, todo))]
  /\ UNCHANGED <<locked, calls, sent, exited, config>>

\* shutdown_cleanly sends SIGTERM to all of the server's processes (its own is
\* blocked), and then reaps what has died of it.
Shutdown(p) ==
  /\ p \notin exited /\ "TERM" \in pending[p] /\ ~Blocked(p, "TERM")
  /\ pending' = [q \in Procs |-> IF q = p THEN pending[q] \ {"TERM"} ELSE pending[q] \cup {"TERM"}]
  /\ \E todo \in Logs(p, "TERM") : stack' = [stack EXCEPT ![p] = Append(@, Enter("TERM", todo))]
  /\ UNCHANGED <<locked, calls, sent, exited, config>>

\* Mutant: the handler of SIGTERM returns.
Exit_Not(p) ==
  /\ Running(p) /\ Top(p).at = "exit"
  /\ stack' = [stack EXCEPT ![p] = Rest(p)]
  /\ UNCHANGED <<locked, pending, calls, sent, exited, config>>

\* exit(), with which its locks go, those of the calls it has interrupted, too.
Exit(p) ==
  /\ Running(p) /\ Top(p).at = "exit"
  /\ exited' = exited \cup {p}
  /\ stack' = [stack EXCEPT ![p] = <<>>]
  /\ locked' = [f \in Files |-> IF locked[f] = p THEN NoProc ELSE locked[f]]
  /\ UNCHANGED <<pending, calls, sent, config>>

Step(p) == Skip(p) \/ Lock(p) \/ Write(p) \/ Unlock(p) \/ Exit(p)

LogNext ==
  \/ \E p \in Procs : Log(p) \/ Step(p) \/ Shutdown(p)
  \/ \E p \in Procs : \E signal \in Handled(p) : Send(p, signal)
  \/ \E p \in Parents, signal \in Signals : Deliver(p, signal)

LogSpec == LogInit /\ [][LogNext]_logVars

LogFairSpec == LogSpec /\ \A p \in Procs : WF_logVars(Step(p)) /\ WF_logVars(Shutdown(p))

-----------------------------------------------------------------------------
(* Properties *)

LogTypeOK ==
  /\ stack \in [Procs -> Seq(Call)]
  /\ \A p \in Procs : \A i \in DOMAIN stack[p] :
       stack[p][i].todo = <<>> => stack[p][i].at = "exit" /\ stack[p][i].of = "TERM"
  /\ locked \in [Files -> Procs \cup {NoProc}]
  /\ pending \in [Procs -> SUBSET (Signals \cup {"TERM"})]
  /\ calls \in [Procs -> Nat] /\ sent \in Nat /\ exited \subseteq Procs /\ config \in Configs

\* A lock is its process's only where one of its calls writes or has written to
\* the log that is locked: none is left behind when a call returns, or by exit().
LocksInUse ==
  \A f \in Files, p \in Procs :
    locked[f] = p =>
      \E i \in DOMAIN stack[p] : stack[p][i].at \in {"write", "unlock"} /\ File(stack[p][i]) = f

\* The invariant of the log files: types, no more to do than a process has, and
\* the locks of a process in use by one of its calls.
LogIInv == LogTypeOK /\ LocksInUse

Waits(p) == Running(p) /\ Top(p).at = "lock" /\ File(Top(p)) \in Files

\* Processes that wait, for ever, for each other, or one for itself: in a call
\* that a handler has interrupted, one has the lock that another's handler is at.
Circle(ps) == ps # {} /\ \A p \in ps : Waits(p) /\ locked[File(Top(p))] \in ps

\* The death of a child never makes a process wait for itself: only the handler
\* of SIGHUP or of SIGTERM does, by interrupting an error message or being
\* interrupted at one, and that of SIGCHLD if it writes, as it does to report
\* performance or where both kinds of messages have one log, to the log of the
\* debug message that it interrupts.  So for several processes.
NoCircle ==
  \A ps \in SUBSET Procs :
    Circle(ps) =>
      \/ \E p \in ps : In(p, "HUP") \/ In(p, "TERM")
      \/ /\ config.performance \/ config.log["error"] = config.log["debug"]
         /\ \A p \in ps : File(Top(p)) = config.log["debug"]

NeverCircle == [](\A ps \in SUBSET Procs : ~Circle(ps))

\* Every message is logged, and the process that logs it goes on, as long as no
\* processes wait in a circle.
LogsReturn == NeverCircle => \A p \in Procs : Running(p) ~> ~Running(p)

\* SIGTERM to any process of the server ends all of them, those that log at the
\* time, too, as long as no processes wait in a circle.
ShutsDown == NeverCircle => \A p \in Procs : "TERM" \in pending[p] ~> exited = Procs

=============================================================================

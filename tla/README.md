# Meta-HTML in TLA+

Meta-HTML is an interpreter of HTML pages with a programming language in
them, and a web server (`mhttpd`) that runs it. The parts that are hard to get
right are those where several processes meet: a page is computed by a process
of its own, forked by the server and killed by it when it takes too long; pages
share sessions and databases through files and `flock()`; signals interrupt the
server's bookkeeping and the gathering of a command's output. Within one process,
pages nest bodies that a `longjmp()` can leave, with streams and programs that have to
go with them, and one connection can carry several requests. These are what the modules here
are about. Paths below are relative to `src/`.

Contents: 1 the system, 2 the modules, 3 the runs, 4 fairness, 5 the proofs,
6 where the code and its documentation part, 7 what is not modelled, 8 the plan.

## 1. The system

| component | state it keeps | operations | who it meets, and how |
|---|---|---|---|
| session database access, `libmhtml/session.c` (private half), `gdbm_session.c` | a gdbm file of records (key, access, timeout, data), a lock file | `session_lock_database`, `session_find_internal`, `generic_session_info`, `save_session`, `delete_session`, `generic_all_sessions`, `generic_session_reaper` | processes of pages and tools, through `flock()` |
| session operations, `session.c` (public half), `sessionfuncs.c` | a `SESSION_INFO` in the process's hands between two accesses | create, delete, set, unset, data, timeout, get, require, restore, reap | the database, one access at a time |
| session utilities, `sessions/` | none | the same operations from the command line | the same database |
| session environment lock, `sessionfuncs.c` | `/tmp/meta-html-SID`, a descriptor, a lock on its inode | `session_lock`, body, `session_unlock` | pages of one session, through a file whose name comes and goes |
| database environments, `dbfuncs.c`, `database.c` | a lock file with two names, the gdbm handle and its own lock | `lock_database`, `database_open`, body, `unlock_database` | processes that use the database |
| server process table, `server/server.c` | the array of children | `add_child`, `delete_child`, `reap_children`, `check_child_timeouts`, `loop_over_connections` | children (`fork`, `kill`, `wait`), SIGCHLD, other servers on the socket |
| log files, `libserver/logging.c` | a lock file beside each log | `lock_logfile`, write, `unlock_logfile` | all processes of the server, and its own signal handlers |
| sub-processes, `libmhtml/cgi-exec.c` | two pipes, the interrupted `select()`s | `<cgi-exec>`: fork, gather output, then errors | commands (pipes, deaths), SIGCHLD |
| streams, `libmhtml/streamfuncs.c` | `open_streams`, descriptors, `operation_timed_out_p` | `<with-open-stream>`, `stream-put`, `stream-get`, `stream-get-contents` | files, hosts, programs (pipes, deaths), SIGCHLD, SIGPIPE, jumps |
| life of a connection, `server/server.c` (the child), `libserver/http.c`, `globals.c` | the request, the result, `kept_alive`, `child_status` | read, handle and answer a request, wait for the next, end | the client, the page, CGI programs |
| server shutdown, `server/server.c` | none | `shutdown_cleanly`, SIGTERM's handler in every process | all processes of the server, the logs |
| page environments, `symbols.c`, `packfuncs.c`, `parser.c` | `CurrentPackage`, `PackagePDL`, `page_jmp_buffer` | bodies of operators and functions, `package-delete`, `return-this-page` | the body within it and the page that follows |
| the rest | | page parsing and evaluation, HTTP, documents, data functions, modules, debugger, utilities, tools | see section 7 |

What makes each of them correct, and what is hard in it:

* **Session database access.** One writer or several readers; a search or listing
  is of one instant; a reaper deletes what has timed out and nothing else; a kill
  never leaves the lock behind. Hard: records are visited one at a time, the
  reaper deletes from a list, the process can die or fail to open at any step.
* **Session operations.** An operation is up to three accesses with the database
  free between them: the record can be gone or changed at the second. No NULL
  record may be used, no deleted session may come back unasked, no session in use
  may be reaped, and none that has timed out may stay.
* **Session and database environments.** An update of one body must not undo that
  of another, and nobody may wait for ever for a process that has gone. Hard: the
  name of the lock is removed while others wait for the lock on its inode.
* **Process table.** Every child ends; no child is forgotten; nobody else is
  killed. Hard: the death of a child before it is in the table, one SIGCHLD for
  several deaths, identifiers that are used again, failing `fork()`.
* **Log files.** Every message is written and every logger goes on. Hard: the
  handlers of signals take the locks that the code they interrupt may hold.
* **Sub-processes.** The page gets all of the output, or has run out of time, and
  comes back. Hard: two pipes read one after the other, time-outs, deaths of earlier
  commands that interrupt the `select()` of a later one.
* **Streams.** A variable stands for its stream and a stream for its own descriptor
  within its body; nothing is left after it, however it was left. Hard: numbers
  of descriptors and streams are used again, types change under way, the ends of pipes.
* **Connections.** Each request is answered, in order, with all of its answer, and the
  process ends. Hard: what is left of one request is read as the next; deaths of
  programs interrupt reads, writes and waits; a program and a page that wait for each other.
* **Page environments.** Each body gives back what it found, by its end and by a
  jump alike; no freed package is used; the next page begins as this one did.

The hazards, each at its line, are in `PROJECT.json`.

## 2. The modules

```
SessionData ── SessionAccess ─┬─ SessionStore      (abstract)
     │                        └─ SessionLock       implements SessionStore
     └─ Session ─┬─ SessionHistory                 uses accesses as atomic
                 └─ SessionKeys
LockedSession   DatabaseLock   ServerChildren   LogLock   CgiExec   PageEnvironment

PageProcess ─┬─ Streams
             └─ CgiDocument ── Connection          composes pages, programs, client
```

`M_proofs` holds the theorems about `M`, `Server_proofs` those about ServerChildren and LogLock,
`Page_proofs` those about PageEnvironment and CgiExec (LogLock's and CgiExec's `Spec`, `Init` and the like
have a prefix, so that one module can extend both of a pair). `MCM` and its `.cfg` are an instance for TLC.
An operator whose name has an underscore (`Mode_ReaperReads`) and whose comment
says "Mutant" is not part of a model: it is a wrong variant of the definition that
follows it, which the run's property is known to detect.

**SessionData, SessionAccess.** The record of a session without its `start`, which
the code never reads; the alist of its variables as the set of those that have a
value. `TimedOut` is the comparison of `session.c:261` with its product in an
`int`, wrapped at `INT_MAX`. `Op` is one access with its arguments.

**SessionStore.** The abstract promise: each access takes effect at one instant, or
not at all; a reaper removes records that had timed out when it looked.

**SessionLock.** The private half of `session.c` as it does that: `Call`, open
and wait for the lock, open the database, then `access`, or `scan` a record at a
time, then `reap` a record at a time from `to_be_reaped`, then close and unlock.
Locks and opens can fail; a kill at any point makes the kernel unlock.
`ImplementsStore` is `SessionStore!Spec` under the mapping that the
module ends with: a scan counts as taking effect at its last step, a reaper's
deletions one by one.

**Session.** The public half: each operation is the chain of accesses that the
code makes, the places of `pc` in between, the record it carries in `rec`. An
access is one step, which `SessionLock` justifies. `SidOf` is what
`session_create_sid` depends on, the process and the second. The tools of
`sessions/` are processes whose requests may have `reaps` FALSE, since
`session_reaping` is zero without `-f`. **SessionHistory** adds two
history variables for the property about idle time. **SessionKeys** adds the set of the keys
(`shared`) to which one of the things has happened by which two sessions come to have one key.

**LockedSession.** `<with-locked-session>`: the directory entry, the inodes, each
process's descriptor and lock, and a body that reads the session's record and
writes it back. `LOCKFILE` is `Flock`, a failed one goes on into the body as the code
does; `session_unlock` is two steps, the name's removal and the unlocking. A body may
begin a `with-locked-session` of the same session (`Nest`), which then waits for its own process.

**DatabaseLock.** `<with-open-database>`: the lock file beside the database, renamed
to `.unlock` and then removed by `unlock_database`, and the lock that gdbm takes
itself, without waiting, for which `database_open` fails.

**ServerChildren.** The parent's loop, line by line where a signal can come between:
`poll`, `check`, `reap`, `wait`, `accept`, `fork`, `add`; the handler of SIGCHLD is
an action enabled where the signal is not blocked. The other side is the system: a
pid is free, or a child's that runs, dies or is a zombie, or a foreign process's.
`serial` numbers, which the code has not got, tell apart the children of one pid.

**LogLock.** Each process has a stack of calls, the handlers' on top of those they
interrupt; a call locks, writes and unlocks for each message it has to log.
`Shutdown` and `Exit` are `shutdown_cleanly`: SIGTERM to all, what reaping logs, `exit()`.

**CgiExec.** The page's side, one `select()`, `read()` or `close()` a step, and the
commands' side: writes that block when a pipe is full, ends of streams, deaths.
A process that a command has left behind may keep a pipe open for a time, and a command
may close a stream once all of it is written. `cut` records the streams that were left at the second
interruption of their own `select()`. Only the latest command's pipes are there,
because nobody reads the earlier ones.

**PageEnvironment.** A stack of the bodies under evaluation, with the package each
one is in, what the code remembers for its end and what
`pagefunc_save_environment` saved. A jump goes to `target`, whose operator gives
back and jumps again, as the C code does after each `setjmp()`. A pointer to a package is an index
that stays valid as a name for what was freed. `Without` is `package_pdl_remove` with its
loop that stops at a NULL: where a NULL was pushed above the package, the top of the PDL is lost.

**PageProcess.** What a page's process shares between its parts: the programs it
has started, the handler of SIGCHLD, which is that of whoever started one last, and
SIGPIPE, which kills until a program has been started.

**Streams.** `open_streams` as a sequence, the descriptors as the kernel gives them
out, lowest first, and what each is of; an operation is a `select()`, a `read()` or a
`write()` a step, where something can come between. `holds` is which ends of its pipes a program,
or whoever has them from it, has open: `Drop` closes one at any time, before the program's end or long after it. `Discard` is the end of a body and of
a jump out of it. Data is "there is some" or "the end". `foreign` records that a
stream's end has closed what it did not open.

**CgiDocument, Connection.** The child's part of the main loop. The client's text is a
sequence of units, five kinds, each belonging to a request, and a place in it is a request and
the number of a unit of it (`Positions`); the process reads the unit where
it stands (`pos`), whatever that was meant as, so that a wrong step shows as an answer to
the wrong text. `CgiDocument` is `mhttpd_execute_cgi`: its writes, its reads, its result
code, with the history of what decided that (`late`, `twice`, and `whose` status it was); `Connection` puts it beside pages with programs of their own, whose deaths arrive
anywhere. It is the server built with `USE_KEEP_ALIVE`. A line longer than the buffer of
`http_readline` is not in it.

## 3. The runs

Each property of a passing run has a mutant of the code that breaks it.

| run | instance | what it shows |
|---|---|---|
| `session_lock` | 2 processes, any sequence of the six kinds of access; 2 identifiers, 2 keys; any initial database; one tick of the clock; failures and kills | `IInv` (with `ReapsTheExpired`), `OneWriter`, `ImplementsStore`, `CallsReturn` |
| `session_page` | one page that creates, sets, restores, deletes; one reaper; clock 0..2 with limits 1 and 2, and 3, which `INT_MAX` is too small for | `RemovedIdle`, `ExpiredAreReaped` |
| `session_shared` | two pages on one session, with every operation between them, `session_begin` in both; accesses that fail | `TypeOK`, `UniqueKeys`, `NoResurrection` |
| `locked_session` | 3 pages once each, 4 inodes; failures, bodies within bodies, jumps, kills | `IInv`, `PairExcludes`, `CallsReturn` |
| `locked_session_three` | the same without failures | refutes `NoLostUpdate` |
| `database_lock` | 3 processes once each, readers and creating writers, 5 inodes; failures, kills | `IInv`, `PairNeverBusy`, `NamesRemoved`, `EnvironmentsEnd` |
| `children` | 2 pids, 3 forks; `fork()` fails, connections vanish, pids are used by others | `IInv` (with `ChildrenListed`), `ZombiesAnnounced`, `KillsItsChild`, `ChildrenEnd`, `EntriesEnd`; no deadlock |
| `log_lock` | a parent and a page's process, 1 message of the program each, 2 signals of SIGCHLD, SIGHUP, SIGTERM; 4 configurations | `LogIInv` (with `LocksInUse`), `NoCircle`, `LogsReturn`, `ShutsDown` |
| `cgi_exec` | 3 commands, pipes of 1 unit, texts of up to 2 units | `ExecIInv` (with `HandlerNeverWaits`), `OutputWhole`, `ExecEnds` |
| `streams` | 2 variables, streams 2 deep, 3 opened, 1 program, 7 descriptors, 4 of them opened by number (`Numbers`) | `IInv` (with `OwnStream`), `NothingLeft`, `OperationsReturn` |
| `connection` | 2 requests of six mixtures of page, CGI program, verbatim program, unknown method; 3 programs, pipes of 1 unit, texts of up to 2 | `TypeOK`, `InStep`, `CgiWhole`, `ConnectionEnds` |
| `page_environment` | bodies 4 deep, 3 packages, with and without names, a page and the one after | `TypeOK`, `IInv`, `BodyInItsPackage`, `PagesAlike`, `NoDangling` |

Why the bounds are enough to be of use:

* Locks make pairs of processes wait for each other; two show every pairwise
  conflict in `SessionLock`. The theorems lift the safety part to any number. In `LockedSession` and
  `DatabaseLock` the interesting case needs a holder, one that waits for the old
  inode and one that makes a new one: three. One round each is enough for it, and
  there are as many inodes as can be open and have a name at one time.
* The clock needs the second a session is begun, the second its limit is reached and one
  past it; `MINUTE = 1` makes seconds of minutes. In `session_page` `INT_MAX` is 2 and a page
  may ask for the limit 3, whose product wraps; elsewhere it is above every product.
* Two entries side by side are what the loop that passes over one needs, and a third fork
  uses the pid of the entry passed over again while it is still there: three forks on two
  pids. Three pids with three forks and two with four were checked too, and show nothing more.
* A pipe of one unit is full at once; texts of two units do not fit; two deaths
  end a `select()`, and a third command is what they interrupt.
* Three openings with two levels make a stream end and another take its place, its number
  and its descriptor, while a third is open; seven descriptors are what they can need. The
  death of one program interrupts whatever goes on.
* Two requests on a connection show what the first can do to the second; the
  mixtures are those that differ in the code, and the content of a request for a program
  fills the pipe to it. Three programs: a page leaves two, whose deaths both interrupt the wait for the output
  of the third, or give it their status. `most` of a request bounds what its document does: the
  units that a program writes, and for a page the programs there may have been by its end.
* Two processes make a circle of two, and each signal comes before, within and
  after a message; two signals interrupt a handler once.
* A function within a function within `<in-package>` within a page is four deep: a
  jump then passes an unprotected body into a protected one that is not the page's. A package
  can be on the PDL twice, and one of the three be deleted and made again.

Deadlock is checked except where a process stops by right (its rounds, calls or pages
are used up, it has ended, or a log's owner is done): `locked_session*`, `database_lock`,
`log_lock`, `cgi_exec`, `streams`, `connection`, `page_environment`.

What the properties say, and why they are not evident:

* `NoResurrection`: a page that fetched a session and stores it later can bring
  back one that was deleted in between. The property bounds this: once no store
  is under way, only set-session-data and session_restore make a record.
* `RemovedIdle`: `access` in the record is the time of a fetch, not of the store
  that follows; the idle time counts from the operation's call.
  A limit whose seconds do not fit an `int` is the exception: such a session is removed at once.
* `KillsItsChild`: the process that is killed is the one the entry was made for. The exceptions are
  an entry that has ended and that the sweep passed over, and one that was not `fresh` when it was
  added: its child had been waited for already, or an older entry had its pid, in which
  `release_child`, which looks for the first, then notes the death.
* `NoCircle`: what a SIGCHLD can do and what it cannot, of any set of processes that wait for
  each other. SIGHUP's and SIGTERM's handlers can wait for ever, and so can SIGCHLD's with `log-performance`
  or where errors and debug messages go to one log;
  each exception is reachable. `LogsReturn`, `ShutsDown` say that nothing else stops a message or a shutdown.
* `UniqueKeys`: two pages can begin sessions of one key, since the search and the insertion are two
  accesses (`session.c:153-157`; section 6). The property says that this takes two operations between their
  accesses for the key at one time, and what else it can take: `allow-multiple`; a record that
  set-session-data or session_restore makes (`sessionfuncs.c:586`); a search that cannot open the database,
  which says that there is none. Nothing else doubles a key, whatever else the two pages, the tool and the reapers do.
  Without any one of the four (and for the first, of its two halves) TLC finds the property violated on the run.
* `OwnStream`: a stream's descriptor is still of what it was opened on, after any sequence of
  streams of every type, until an end has closed what it had not opened. `NothingLeft` is about all
  ways out of the bodies, and the failing `vfork()`, which leaks one end of a pipe, is its only exception.
* `OperationsReturn`, `ConnectionEnds`: whoever waits for ever waits for the other end, and only at the
  places named.
* `InStep`: the k-th answer is to the k-th request and to all of its text, as long as no pause or
  death has cut something short (`cut`); with one it is false, as it is of the code.
* `CgiWhole`: when output may be missing: for the time, or for the second signal (`http.c:2307-2315`), for which two
  other programs have died; and when an answer blames the program: exactly where it was killed, if the
  status that decided is its own, and otherwise where that other program was killed. The run reaches all of these.
* `PairExcludes`, `PairNeverBusy`: for two processes the locks do what they are
  for, in spite of the removal of the name; for three they do not (section 6).
* `IInv` of DatabaseLock has `NoLostUpdate` in it: gdbm's own lock repairs what
  the lock file lets through, at the price of skipped bodies.
* `EntriesEnd`: entries that stand for no process (`fork()` failed), for one waited
  for before it was added, or that a loop has skipped, still go.
* `OutputWhole`: a stream is short only where its own time ran out, or its own `select()` was interrupted
  a second time (`cut`), which is marked where `gather_input` leaves its loop; and each stream that was cut takes two
  commands that have been waited for. Commands that were waited for at any other time excuse nothing.
  `ExecEnds` excepts output over the capacity of the pipe that was given up so, and supposes that the errors fit theirs.
* `PagesAlike`, `NoDangling`: each excepted case is reachable and breaks
  the property without its exception.

## 4. Fairness

* `SessionLock`, `Session`, `LockedSession`, `DatabaseLock`, `LogLock`: weak fairness
  of each process's own steps, the scheduler's. None for calls, failures, jumps, kills or the clock.
  `flock()` promises no order, so there is none for who gets a lock:
  `CallsReturn` of SessionLock is conditional on the others coming to rest, since
  readers in turn can keep a writer out for ever. In
  LockedSession each process comes a bounded number of times, and no such condition is needed, but
  `CallsReturn` excepts a process whose body waits for its own lock, and those behind it.
* `Session`'s `ExpiredAreReaped` assumes that sessions keep being begun, and that from
  some time on they are not killed: only that reaps.
* `ServerChildren`: the parent and its handler run, time passes for the entries,
  and SIGKILL kills. Children need not end by themselves. `AcceptReturns` is a hypothesis
  of the properties: `server.c:1143` calls a blocking accept() on a connection that can be gone.
* `CgiExec`: the page runs, time-outs and signals come, commands write what they have to
  when there is room, and close their streams once all is written to both, as does who has them from a command: it is assumed
  that nobody keeps them for ever. That a command ends is not assumed.
* `LogLock`: a process runs, and SIGTERM is delivered. The properties suppose that no
  processes wait in a circle, which `NoCircle` says more of.
* `Streams`: an operation goes on where the code does not wait for the other end; a time-out
  comes where `select()` has nothing to say. A program may close its ends of the pipes at any time, run on
  without them, or end and leave them to others; a host may do anything. One thing is assumed of them: that who
  sends a line sends its end (`ReadLine` may go on for ever without).
* `Connection`: the process goes on, time-outs and pauses end, and a page comes to its end,
  with its programs. Nothing is assumed of the client; of `write()` to
  the client only that it fails when there is none. Of a CGI program it is assumed, as of its environment and not
  as fairness, that it has its ends of the pipes until it ends and that nothing it leaves behind has them (`Gone`):
  one that closes its output early is read as having ended, one that leaves it to another as running on.
* `PageEnvironment` has safety properties only, and no fairness.

## 5. The proofs

TLAPS (SMT, Zenon, and LS4 for the temporal steps) checks these for every value of
the constants that satisfies the modules' named assumptions, which say no more than that
the sets of the instance fit together (a clock of naturals with 0 in it, a NULL that
is no record, flags that are Boolean, a `None` that is no inode).

* **SessionLock_proofs.** `Invariance` of `IInv`, and from it `TypeCorrect`,
  `ReadersOrWriter` (OneWriter), `ReaperExact` (ReapsTheExpired). OneWriter is not
  inductive: it needs the lock held at each place (`HeldMode`), that an exclusive lock
  is the only one (`OneHolder`), and, for the reaper, what a scan has established about
  the database as it is now (`Scanned`), which holds because nobody else can write meanwhile.
  `Refinement` is the step simulation: every step of the
  protocol is a step of SessionStore or leaves its variables alone. Under the
  invariant, the scan's last step finds `seen` to be all of the database, so that its answer is that of one instant.
* **Session_proofs.** `TypeCorrect`: `TypeOK` is inductive as it stands, since it says where
  `rec` is not NULL: each place after a test of the pointer. `MissingStaysMissing` is the action property
  NoResurrection, by a case for each action, under the type invariant. `KeysUnique` is UniqueKeys for any number of
  processes with any requests. `KeyInv` is about one key that nothing has happened to: one record has it at
  most; no record has it while a session is begun with it; and all who are about to store a record with it store
  the same session, the one that has it. Each step keeps that (`KeyShrinks` for those that store nothing, `KeyStored` for
  the two that do), or is one of the four things. `OnlyIdleRemoved`
  is about a page that has its sessions to itself, next to any number of reapers. Its hypothesis (`OnePage`)
  is what the code needs: a second page
  that changes a session stores what it fetched before, and set-session-data does not renew the access time. That
  it can be met is `PageAlone`, which TLC evaluates on the run `session_page`. `UsedInv` says
  that the record was accessed no earlier than the call of the last operation that
  used it. Both rest on what a process's place says of its request and of the record in its hands (`Minds`, `InHand`).
* **LockedSession_proofs.** A lock whose file loses its name before it is unlocked. `Invariance`
  of `IInv`; `Exclusion` of PairExcludes, which
  needs more: a process whose file is not the one of that name has a companion that
  has left its body (`Companion`), because only that one can have removed it. A nested call
  keeps the lock and the inode of the body around it, and so every part of the invariant. `NothingLost`
  (PairLosesNothing) is the other side of the refuted `NoLostUpdate`: two pages, where the file can be opened and locked,
  lose no update, since what a body has read shows all that has been completed (`Kept`). With a lock that fails, whose
  result the code does not look at, two are enough.
* **DatabaseLock_proofs.** `Invariance` of `IInv`: WriterAlone with `Held` and `FreshCopy`; no
  lost update follows from the copy of a writer's body being what the database has. `NamesGo` is
  NamesRemoved: a name that exists has somebody who is going to remove it (`Removers`). `TwoWait` is
  PairNeverBusy, by the argument of LockedSession's `Exclusion`: who uses the database with another inode than
  its name's has a companion that is done with it (`Companion`).
* **Page_proofs, of PageEnvironment.** `EnvironmentsKept` is IInv: a jump's target is the innermost body that
  called `setjmp()`. It needs that each environment has saved the innermost one below it
  (`EnvironmentsSaved`), and, for tlapm, that the frames are a sequence (`Stacked`). `PackageInv` is the
  invariant of the other four theorems. `Unique`: two live packages have not one name, so that what is looked up by
  name is what was found before. `Framed`: what each kind of body has saved. `Nesting`: the PDL is made
  of what each body has pushed, in the bodies' order. `Undeleted`: as long as nothing is deleted the
  current package and the PDL are those that the innermost body must see. `Lively`: nothing freed is current, on the PDL
  or in a body that has no name to look it up by. A property of the innermost body
  is not enough: the end of one body makes the body around it innermost, and a
  jump makes any of them so. Where the code takes off the PDL all
  that is above a body, the proof takes the first that is not, by a least counterexample (`Least`).
* **Page_proofs, of CgiExec.** `NoWaiting` is ExecIInv: SIGCHLD is pending only with a dead command
  to wait for, which needs that commands are counted as they are made (`Fresh`). `Complete` is
  OutputWhole. It needs that what has been read, is in the pipe and is to be written is all
  of a stream (`Conserved`), that the parent leaves a stream at its end,
  for its time, or at the second interruption of its `select()` (`Gathering`), and that each interruption took
  a command that was waited for.
* **Server_proofs, of LogLock.** `LocksFreed` is LogIInv: a process has the lock of a log only where a call
  in progress uses it. The calls are a stack whose top alone moves, so that what a handler does
  leaves the calls under it the locks they use (`Kept`). `ChildrenHarmless` is NoCircle. It needs
  what a stack may look like (`Shape`): one call of each kind, the program's own at the bottom, and SIGCHLD's handler
  only above a debug message of it; without SIGHUP's and SIGTERM's handlers that leaves two calls at most.
* **Server_proofs, of ServerChildren.** `DeathsNoticed` is ZombiesAnnounced, by itself inductive once
  the processes have their type. `NoneForgotten` is IInv: each running child is in the table, not ended and not yet
  given up. delete_child takes the first entry of a pid, whichever that is, and the invariant says which it can be:
  the entries are in the order of their times, deaths are noted in the first of a pid, and so no entry that has
  ended is behind one of its pid that has not (`InOrder`, `Before`). Without it the sweep could take the entry
  of a child that runs for that of one that has ended. The sweep is a recursive function over the table: that it exists
  (`SweepExists`) and that it takes out only entries that have ended (`SweptWeeds`) are inductions over its length.
  `OwnChildKilled` is KillsItsChild, from `FreshAreOwn`.
* **Streams_proofs.** `OnItsOwn` is `IInv` (OwnStream with the types) and `NothingStays` is NothingLeft. A variable
  stands for its stream until it is bound again (`Bound`); every descriptor is some stream's to close, and every
  program some stream's to kill (`Owned`, `Programs`), whose list is empty after the last body, however that was left; and as long
  as no stream has closed what it had not opened, each stream's object is its own and is what its descriptor
  is of (`Proper`). That the descriptors that the system gives out are free, and two of them different, is a lemma (`Lowests`).
* **Connection_proofs.** `TypeCorrect`, `RequestsInStep` (InStep) and `ProgramsWhole` (CgiWhole), from one `Inv`.
  InStep speaks of answers alone, and follows from how far a request has been read at each place of
  the main loop (`Reading`): between requests the process stands where the next one starts, in its headers at their
  end or at the body that `need` counts, and after them at the start of the request behind it, or at the end of what there
  will ever be (`Over`). `Answers` adds where the connection can be closed with an answer cut short. Both hold until a
  pause or an interruption within a request (`cut`), after which they are false, as the run shows. CgiWhole is inductive with
  what a program has written, what is in its pipe and what was read counted together (`Programs`), with the answer waiting for the
  program's end unless its time ran out or a second signal came, and with as many other programs waited for
  as there have been interruptions (`Interruptions`). What it says of the code needs that
  `status` is how the child that `told` names has ended (`Processes`), which no later step changes (`Remembered`).

Inductions over numbers are done as least counterexamples, from the library's theorem that `<` on Nat is well-founded:
its induction rules take an operator as a parameter, which no installed prover can instantiate.

What attempts at these proofs found, and TLC then showed: NoCircle was false where errors and debug messages share
a log, a configuration the run had not got and now has; KillsItsChild was false of an entry that is added
next to an older one of its pid, for which two forks were too few; the bound on packages was asked before a function's
package is freed, instead of after; and `Fork` had no step for a system out of pids.

Only model-checked: the eleven liveness properties, since the prover has no rules for fairness and
ENABLED. `NoLostUpdate` is refuted. Every other property of the runs is a theorem. No
module with a theorem has a RECURSIVE operator.

## 6. Where the code and its documentation part

One has a run that exhibits it and is the finding in `PROJECT.json`: with three pages,
`session_unlock`'s removal of the name (`sessionfuncs.c:339`) lets two into their bodies, where
`sessionfuncs.c:349` says "without introducing any race conditions".

Others were met while reading and modelling. The models have the code's behaviour; the properties are
worded so that they hold with it, or the case is left to section 8:

* Sessions: two pages can begin sessions of one key (`session.c:157`, search and
  insertion are two accesses), where `session.c:153-155` says "if we don't allow multiple sessions with the same
  initial key, and there is already a session present in the database with this key, then fail", and
  `sessionfuncs.c:106-108` "you can decide whether the key must be unique or not"; so does set-session-data, whose records
  all have one key (`sessionfuncs.c:586`). `UniqueKeys` has these as its exceptions. One process repeats an identifier within a second
  (`session.c:467`). A deleted session comes back when a store was under way. set-session-data
  does not renew the access time. `timeout * 60` overflows an `int`. `session_restore` changes
  the access time where a comment says no change takes place (`session.c:180`), and
  `session_get_info` does not store it (`session.c:337`). `reap-sessions` without `-f`
  reaps nothing (`doc/utilities/reap-sessions.mhtml:15`).
  `session_sequential_access` returns NULL for an unreadable record and so ends every scan there.
* `with-locked-session` excludes only other `with-locked-session`s, not plain users of the session (`sessionfuncs.c:346`).
* With three processes a database can be found in use although all wait for its lock (`dbfuncs.c:216`), and the body is skipped.
* A `fork()` that fails is added as pid -1 (`server.c:1145`): at its time-out the
  server kills all it may. A blocked `accept()` stops the time-outs (`server.c:1143`).
* A child that ends before `add_child` (`server.c:1156`) leaves an entry behind; whoever has its pid
  at the time-out is killed. An entry that the sweep passes over (`server.c:812`) can still be there when its pid is
  used again: `find_child` then notes the new child's death in it, and the new entry stays, for
  whoever has the pid at its time-out. Both are exceptions of `KillsItsChild`.
* `release_child` logs in SIGCHLD's handler (`server.c:789`) to a log whose lock the interrupted
  code may have: with `log-performance`, or one log for errors and debug messages, the parent
  waits for itself: an exception of `NoCircle`.
  SIGTERM's handler logs too, in every process; a process that serves a page has
  inherited it, so that SIGTERM to one page ends the server.
* SIGHUP's handler logs as well (`mhttpd.conf:133` invites to send it) and can wait for its own lock; LOCKFILE's result is ignored by `lock_logfile`.
* `<cgi-exec>` loses output to two deaths of earlier commands (`cgi-exec.c:138-145`); a command that fills
  the errors' pipe and the page wait for each other (`cgi-exec.c:246`); output given up at
  its time-out leaves the command blocked in its write.
* Streams: `operation_timed_out_p` is never reset, so that one time-out makes every later operation
  of the process close its stream (`streamfuncs.c:970`). A line of a program is waited for by a
  `select()` on the end that is written to (`streamfuncs.c:868`), which is ready as soon as the program has closed
  its input: the `read()` of the other pipe that follows (`streamfuncs.c:883`) has no time-out, and a program that
  runs on, or one that it has left its output to, keeps the page waiting for as long as it likes. `bytes_left -= bytes_left`
  (`streamfuncs.c:1037`) ends and closes a stream after its first chunk, so that the example at
  `streamfuncs.c:1183` copies one chunk. A stream of type FD that has come to its end closes a descriptor it did
  not open. A reference "must be digits" (`streamfuncs.c:591`), but any text is taken, as number 0.
  Where `vfork()` fails, one end of a pipe is left open.
* Connections: `http_unimplemented_handler` leaves `result->request` NULL, which
  `mhttpd_find_page_for_result` uses (`http.c:558`); PUT, DELETE, LINK and UNLINK go there. A kept
  connection that the client closes leads to the result of the last request, which has been freed
  (`server.c:1569-1578`). 60 seconds, or the death of a program, in the midst of a line make two lines of it
  (`globals.c:698`). What `write()` returns is not looked at. The page after the page's return
  does not run in a process that SIGPIPE has killed. A CGI program's result is told from whichever
  child was waited for last (`http.c:2431`), and one that writes before it has read all of its content can wait
  for the server, which waits for it (`http.c:2420`).
* A name of carats lets `package-delete` delete the anonymous package that
  `mhtml_let` "trusts" to exist (`parser.c:2097`). A package that is deleted from the PDL
  makes the pops of the bodies around it come one body early. A jump past a function with its own
  package makes the next page of the process start in the wrong package.
  `return-this-page` on the page after the return jumps into a frame that is gone
  (`server.c:1608`). A function called when the current package was deleted reads a NULL pointer (`parser.c:2490`).

## 7. What is not modelled

* Page parsing and evaluation, variables, arrays, strings, arithmetic, headers, cookies,
  access control, path resolution: sequential, mostly formatting, within the reach of tests. Of the
  interpreter only the environments are modelled. These, and the vendored libraries (regular
  expressions, gdbm, gd), are most of the repository's lines.
* The contents of gdbm files: a store or delete of one record is atomic.
* The heap: what a handler's `malloc()` does to an interrupted one, and the variables that a
  vfork()ed child changes in its parent.
* The start of the server, the group of servers that `-n` forks, the re-reading of the
  configuration, SSL, `debug_mode`, inetd, the client's name and identity.
* Of streams: the queries and `stream-shutdown`; of requests: HEAD and If-Modified-Since, which are sequential.
* TCP sessions, `require`: on the plan. `with-open-database` within itself, and environments of different kinds
  within each other.
* SQL, images, the Scheme compiler and machine, the debugger, CGI and FastCGI engines,
  database utilities: optional, single-process or third-party.

## 8. The plan

Done, in this order: the session database and its abstract store; session operations; the two
environment locks; the server's children; logs; sub-processes; page environments; shutdown;
streams; the life of a connection.

Next, the models (by extension of a module and of its run where that is possible):

1. Nesting in DatabaseLock, and environments of different kinds in one process; the group of servers that
   `-n` forks, next to ServerChildren.
2. SessionStore implemented by the TCP session protocol, whose server has no lock file.
3. `require.c`: what is loaded once, when it is loaded again; the record's format and key.
4. Pure algorithms over bounded inputs, in one module: the end of a HEAD answer's headers
   (`http.c:2657`), what `mime_headers_from_string` makes of folded lines, what a package name,
   a path of a document or a cookie's time resolves to, against a reference definition.

------------------------------- MODULE Streams -------------------------------
(***************************************************************************)
(* The streams of a page: with-open-stream and the operations within it     *)
(* (libmhtml/streamfuncs.c).  A stream is a place in a stack, to which the  *)
(* page has a number in a variable, and one or two descriptors, which the   *)
(* system gives out again once they are closed.  What there is to read, and *)
(* whether there is room to write, is for the other end to decide.          *)
(***************************************************************************)
EXTENDS PageProcess, Sequences, FiniteSetsExt

CONSTANTS
  Vars,         \* variables that streams are bound to
  Descriptors,  \* descriptors the process may have beside the standard ones, from 1 on
  Numbers,      \* bound: those that a page opens a stream on by their number
  MaxDepth,     \* bound: streams within streams
  MaxOpens      \* bound: streams opened

ASSUME StreamsAssumption ==
  /\ Descriptors \subseteq Nat \ {0} /\ IsFiniteSet(Descriptors) /\ 1 \in Descriptors
  /\ Numbers \subseteq Descriptors
  /\ MaxDepth \in Nat /\ MaxOpens \in Nat

VARIABLES
  fd,        \* what each descriptor is of
  made,      \* how many streams have been opened
  streams,   \* open_streams
  ref,       \* the value of each variable, Unset or a place in streams
  timedOut,  \* operation_timed_out_p
  op,        \* the operation that is going on
  jumping,   \* a longjmp() to page_jmp_buffer leaves the streams
  foreign,   \* history: a stream's end has closed what it had not opened
  holds      \* holds[c]: the ends of its pipes that c, or what it left behind, has

page == <<fd, made, streams, ref, timedOut, op, jumping, foreign>>
own == <<page, holds>>
vars == <<process, own>>

\* The client's connection, and the object of the n-th stream: a file, a host, or
\* the ends of the two pipes of a program.
Free == [of |-> 0, end |-> "none", child |-> 0]
Connection == [of |-> 0, end |-> "host", child |-> 0]
Objects == [of : 0..MaxOpens, end : {"none", "file", "host", "in", "out"}, child : 0..MaxChildren]

\* mhtml_stdin_fileno, mhtml_stdout_fileno and mhtml_stderr_fileno
Standard == 1

Unset == 0
None == 0

\* What a program reads is written to "in", and what it writes is read from "out".
PipeEnds == {"in", "out"}

Kinds == {"FILE", "TCP", "PROG", "FD"}

\* open: not of type CLOSED.  of, shadowed: history, the object it was opened on,
\* and whether its variable has been bound again since.
Stream ==
  [kind : Kinds, var : Vars, fd : Descriptors, ifd : Descriptors \cup {None},
   child : 0..MaxChildren, open : BOOLEAN, of : Objects, shadowed : BOOLEAN]

\* stream-get to a newline or to the end, stream-get-contents by chunks, and
\* stream-put: its select(), and its write().
Operations == {"line", "all", "chunk", "put", "write"}
NoOp == [what |-> "none", i |-> 0]

Init ==
  /\ ProcessInit
  /\ fd = [d \in Descriptors |-> IF d = Standard THEN Connection ELSE Free]
  /\ made = 0 /\ streams = <<>> /\ ref = [v \in Vars |-> Unset]
  /\ timedOut = FALSE /\ op = NoOp /\ jumping = FALSE /\ foreign = FALSE
  /\ holds = [c \in Children |-> {}]

TypeOK ==
  /\ ProcessTypeOK
  /\ fd \in [Descriptors -> Objects] /\ made \in 0..MaxOpens
  /\ Len(streams) <= MaxDepth /\ \A i \in DOMAIN streams : streams[i] \in Stream
  /\ ref \in [Vars -> 0..MaxDepth] /\ timedOut \in BOOLEAN
  /\ op \in [what : Operations \cup {"none"}, i : 0..MaxDepth]
  /\ jumping \in BOOLEAN /\ foreign \in BOOLEAN /\ holds \in [Children -> SUBSET PipeEnds]
  /\ op # NoOp => ~jumping /\ op.i \in DOMAIN streams /\ streams[op.i].open

-----------------------------------------------------------------------------
(* with-open-stream *)

\* The n-th lowest of the free descriptors.
Lowest(n) ==
  CHOOSE d \in Descriptors :
    fd[d] = Free /\ Cardinality({e \in Descriptors : e < d /\ fd[e] = Free}) = n - 1

\* The page may open a stream, and the system has the four descriptors of two pipes.
MayOpen ==
  /\ alive /\ op = NoOp /\ ~jumping
  /\ Len(streams) < MaxDepth /\ made < MaxOpens
  /\ Cardinality({d \in Descriptors : fd[d] = Free}) >= 4

\* add_open_stream, and its number into the variable.
Install(v, kind, d, ifd, c) ==
  /\ made' = made + 1
  /\ streams' = Append([i \in DOMAIN streams |->
                           [streams[i] EXCEPT !.shadowed = @ \/ streams[i].var = v]],
                       [kind |-> kind, var |-> v, fd |-> d, ifd |-> ifd, child |-> c,
                        open |-> TRUE, of |-> fd'[d], shadowed |-> FALSE])
  /\ ref' = [ref EXCEPT ![v] = Len(streams')]
  /\ UNCHANGED <<timedOut, op, jumping, foreign>>

Fresh(end, c) == [of |-> made + 1, end |-> end, child |-> c]

\* A file, or a connection to a host.
Open(v) ==
  /\ MayOpen /\ UNCHANGED <<process, holds>>
  /\ \/ fd' = [fd EXCEPT ![Lowest(1)] = Fresh("file", 0)] /\ Install(v, "FILE", Lowest(1), None, 0)
     \/ fd' = [fd EXCEPT ![Lowest(1)] = Fresh("host", 0)] /\ Install(v, "TCP", Lowest(1), None, 0)

\* *standard-input*, *standard-output* and *standard-error* are of type FILE.
OpenStandard(v) ==
  /\ MayOpen /\ UNCHANGED <<fd, process, holds>>
  /\ Install(v, "FILE", Standard, None, 0)

\* A descriptor by its number, which need not be open.
OpenNumber(v, d) ==
  /\ MayOpen /\ UNCHANGED <<fd, process, holds>>
  /\ Install(v, "FD", d, None, 0)

\* Two pipes, of each of which the parent keeps an end, whether or not there is a
\* child; without one it forgets the end to read from.
OpenProgram(v) ==
  /\ MayOpen
  /\ \/ Spawn("stream")
        /\ fd' = [fd EXCEPT ![Lowest(2)] = Fresh("in", started'), ![Lowest(3)] = Fresh("out", started')]
        /\ holds' = [holds EXCEPT ![started'] = IF child'[started'].at = "running" THEN PipeEnds ELSE {}]
        /\ Install(v, "PROG", Lowest(2), Lowest(3), started')
     \/ /\ SpawnFails("stream")
        /\ fd' = [fd EXCEPT ![Lowest(2)] = Fresh("in", 0), ![Lowest(3)] = Fresh("out", 0)]
        /\ UNCHANGED holds
        /\ Install(v, "PROG", Lowest(2), None, 0)

\* Mutant: whatever its type, a stream's descriptor is closed with it.
Closed_All(s) == {s.fd, s.ifd} \ {None}

\* The descriptors that the end of s closes: those of type FD are left open,
\* unless an operation has made the type CLOSED.
Closed(s) == (IF s.kind = "FD" /\ s.open THEN {} ELSE {s.fd}) \cup ({s.ifd} \ {None})

\* Mutant: the program is left to itself.
Killed_Not(s) == {}

\* The program that the end of s kills.
Killed(s) == IF s.ifd = None THEN {} ELSE {s.child}

\* discard_stream: the stream on the top, at the end of the body or of a jump
\* out of it.  The variable keeps the number.
Discard ==
  /\ alive /\ op = NoOp /\ streams # <<>>
  /\ LET s == streams[Len(streams)] IN
       /\ fd' = [d \in Descriptors |-> IF d \in Closed(s) THEN Free ELSE fd[d]]
       /\ Kill(Killed(s))
       /\ foreign' = \/ foreign
                     \/ s.kind = "FILE" /\ s.of = Connection
                     \/ s.kind = "FD" /\ ~s.open
  /\ streams' = SubSeq(streams, 1, Len(streams) - 1)
  /\ jumping' = (jumping /\ Len(streams) > 1)
  /\ UNCHANGED <<started, handler, sigchld, status, told, alive, made, ref, timedOut, op, holds>>

\* The body leaves by a longjmp().
Jump ==
  /\ alive /\ op = NoOp /\ streams # <<>> /\ ~jumping /\ jumping' = TRUE
  /\ UNCHANGED <<process, fd, made, streams, ref, timedOut, op, foreign, holds>>

-----------------------------------------------------------------------------
(* The operations *)

\* mhtml_get_stream_reference
Reach(v) == IF ref[v] \in DOMAIN streams THEN ref[v] ELSE None

Begin(v) ==
  /\ alive /\ op = NoOp /\ ~jumping
  /\ Reach(v) # None /\ streams[Reach(v)].open
  /\ \E what \in Operations \ {"write"} : op' = [what |-> what, i |-> Reach(v)]
  /\ UNCHANGED <<process, fd, made, streams, ref, timedOut, jumping, foreign, holds>>

Busy(what) == alive /\ op.what = what

\* The stream that is operated on, the object it is written to and whose
\* descriptor select() is given, and the one it is read from.
The == streams[op.i]
Output == fd[The.fd]
Input == IF The.kind # "PROG" THEN Output ELSE IF The.ifd = None THEN Free ELSE fd[The.ifd]

\* The other end of the pipe that o is an end of is open somewhere.
Held(o) == o.child # 0 /\ o.end \in holds[o.child]

\* What select() may say of o; of the write end of a pipe it says that it can be
\* read when nobody reads the pipe.
ReadReady(o) ==
  IF o.end = "file" THEN {TRUE}
  ELSE IF o.end = "in" THEN {~Held(o)}
  ELSE IF o.end = "out" /\ ~Held(o) THEN {TRUE} ELSE BOOLEAN

WriteReady(o) ==
  IF o.end = "file" THEN {TRUE}
  ELSE IF o.end = "out" THEN {FALSE}
  ELSE IF o.end = "in" /\ ~Held(o) THEN {TRUE} ELSE BOOLEAN

Ready == IF op.what = "line" THEN ReadReady(Output) ELSE WriteReady(Output)

\* The operation returns, and leaves the stream open or CLOSED.
Return(open) ==
  /\ op' = NoOp /\ streams' = [streams EXCEPT ![op.i].open = open]
  /\ UNCHANGED <<fd, made, ref, jumping, foreign, holds>>

\* select() fails, or reports nothing in the time there is, or is interrupted.
Selects == alive /\ op.what \in {"line", "put"}
GivesUp == Return(FALSE) /\ timedOut' = TRUE
SelectGivesUp ==
  /\ Selects /\ (Output = Free \/ FALSE \in Ready)
  /\ GivesUp /\ UNCHANGED process

\* Data may come from o; it may come to its end, or an error.
Gives(o) == o.end \in {"file", "host", "out"}

\* Mutant: the parent keeps the ends of the pipes that are the child's.
Ends_Kept(o) == o.end # "out"

Ends(o) == o.end = "out" => ~Held(o)

\* A line is read unit by unit; what has been read is thrown away with the unit
\* where an operation has timed out before.
ReadLine ==
  /\ Busy("line") /\ Output # Free /\ TRUE \in Ready
  /\ \/ Gives(Input) /\ Return(~timedOut)
     \/ Ends(Input) /\ Return(FALSE)
  /\ UNCHANGED <<process, timedOut>>

\* The length of a file is read at once, anything else until its end, and nothing
\* at all from a stream of type FD.
ReadAll ==
  /\ Busy("all")
  /\ \/ The.kind = "FILE" /\ Output.end = "file" /\ Return(~timedOut)
     \/ (The.kind = "FD" \/ Ends(Input)) /\ Return(FALSE)
  /\ UNCHANGED <<process, timedOut>>

\* stream_read_chunk reads once more when it has read something, for 0 bytes, and
\* takes it that this is the end.
ReadChunk ==
  /\ Busy("chunk") /\ (Gives(Input) \/ Ends(Input)) /\ Return(FALSE)
  /\ UNCHANGED <<process, timedOut>>

PutSelect ==
  /\ Busy("put") /\ Output # Free /\ TRUE \in Ready
  /\ op' = [op EXCEPT !.what = "write"]
  /\ UNCHANGED <<process, fd, made, streams, ref, timedOut, jumping, foreign, holds>>

Takes(o) == o.end \in {"file", "host"} \/ Held(o)

\* write() waits until the other end takes all of it, or there is none.
Write ==
  /\ Busy("write") /\ UNCHANGED timedOut
  /\ \/ Takes(Output) /\ Return(~timedOut) /\ UNCHANGED process
     \/ Output.end = "file" /\ Return(FALSE) /\ UNCHANGED process
     \/ Output.end = "host" /\ Return(FALSE) /\ BrokenPipe
     \/ Output.end = "in" /\ ~Held(Output) /\ Return(FALSE) /\ BrokenPipe

\* SIGCHLD: a select() that has nothing to report is not called again, and a
\* write() returns with what it has written.
StreamRelease ==
  /\ alive /\ Release
  /\ \/ Selects /\ FALSE \in Ready /\ Output # Free /\ GivesUp
     \/ ~(Selects /\ Ready = {FALSE}) /\ UNCHANGED own
     \/ Busy("write") /\ ~timedOut /\ op' = [op EXCEPT !.what = "put"]
        /\ UNCHANGED <<fd, made, streams, ref, timedOut, jumping, foreign, holds>>

-----------------------------------------------------------------------------

\* A program, or what it has left behind, closes an end of its pipes, at its own
\* end or at any time before or after.
Drop(c, end) ==
  /\ end \in holds[c] /\ holds' = [holds EXCEPT ![c] = @ \ {end}]
  /\ UNCHANGED <<process, page>>

\* Where the operation waits for as long as the other end likes: a host, or who
\* has the program's end of the pipe.  It is so with a line of a program, too, as
\* soon as nobody reads what is written to it: select() is on that pipe and says
\* that there is something to read, and read() is on the other and has no time-out.
OtherEnd ==
  LET o == IF op.what = "write" THEN Output ELSE Input IN
    /\ \/ op.what \in {"all", "chunk", "write"}
       \/ op.what = "line" /\ The.kind = "PROG" /\ TRUE \in Ready
    /\ o.end = "host" \/ Held(o)

Serve ==
  \/ SelectGivesUp \/ PutSelect
  \/ ~OtherEnd /\ (ReadLine \/ ReadAll \/ ReadChunk \/ Write)

Operate == SelectGivesUp \/ ReadLine \/ ReadAll \/ ReadChunk \/ PutSelect \/ Write

Next ==
  \/ \E v \in Vars :
       \/ Open(v) \/ OpenStandard(v) \/ OpenProgram(v) \/ Begin(v)
       \/ \E d \in Numbers : OpenNumber(v, d)
  \/ Discard \/ Jump \/ Operate \/ StreamRelease
  \/ alive /\ (\E c \in Children : Die(c)) /\ UNCHANGED own
  \/ alive /\ \E c \in Children, end \in PipeEnds : Drop(c, end)

Spec == Init /\ [][Next]_vars

\* An operation goes on for as long as it is not for the other end to decide; a
\* line has an end.
FairSpec == Spec /\ WF_vars(Serve)

-----------------------------------------------------------------------------
(* Properties *)

\* Within the body of a with-open-stream its variable stands for its stream, until
\* it is bound again, and the stream's descriptor is of what it was opened on, until
\* the end of a stream closes what it has not opened: the connection of a stream on
\* *standard-output*, or the descriptor of one of type FD that has come to its end
\* (discard_stream does not see that it is of that type any more).  No two streams
\* share a descriptor that the system gave out twice.
OwnStream ==
  \A i \in DOMAIN streams :
    /\ streams[i].shadowed \/ ref[streams[i].var] = i
    /\ foreign \/ streams[i].kind = "FD" \/ fd[streams[i].fd] = streams[i].of

\* The invariant of the streams: types (an operation is on a stream that is open,
\* and no jump leaves one), and every stream on a descriptor of its own.
IInv == TypeOK /\ OwnStream

\* However the bodies are left, and whatever descriptors have been closed twice, a
\* page outside of all with-open-stream has its connection back, unless a stream's
\* end has closed it, and no other descriptor, except for the end of a pipe that
\* with-open-stream forgets where vfork() fails; no program is left to run.
NothingLeft ==
  streams = <<>> =>
    /\ fd[Standard] = Connection \/ foreign
    /\ \A d \in Descriptors \ {Standard} :
         fd[d] = Free \/ (fd[d].end = "out" /\ fd[d].child = 0)
    /\ In("running") = {}

\* An operation waits for ever only for a host that neither goes on nor leaves, or
\* for who has the program's end of a pipe: select() has its time-out, and the read()
\* of a line too, but of a program that nobody can write to any more.
OperationsReturn == <>[](alive /\ op # NoOp) => <>[]OtherEnd

=============================================================================

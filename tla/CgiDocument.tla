----------------------------- MODULE CgiDocument -----------------------------
(***************************************************************************)
(* A document that is a CGI program: mhttpd_execute_cgi of                   *)
(* libserver/http.c.  The content of the request is written to the program  *)
(* before its output is read; what it leaves behind is a page, or a result  *)
(* code.  Text is in units of what one read() or write() moves.             *)
(***************************************************************************)
EXTENDS PageProcess

CONSTANTS
  Capacity,  \* what a pipe holds
  CgiMax     \* bound: what a program writes, and the content of a request

ASSUME CgiDocumentAssumption == Capacity \in Nat \ {0} /\ CgiMax \in Nat

VARIABLES
  at,      \* what mhttpd_execute_cgi does next
  intr,    \* how often the select() of read_from_fd has been interrupted
  cgi,     \* the program and its pipes: see Cgi
  code     \* result->result_code, 0 for none yet

document == <<at, intr, cgi, code>>

\* child: its process; content, input: what is to be written of the content, and
\* what is in the pipe; more, output, got: what the program has still to write,
\* what is in the pipe, what has been read; late: its time ran out; history: twice:
\* its select() was ended by a second signal, whose: the status of which program
\* decided.
Cgi == [child : 0..MaxChildren, content : 0..CgiMax, input : 0..Capacity,
        more : 0..CgiMax, output : 0..Capacity, got : 0..CgiMax,
        late : BOOLEAN, twice : BOOLEAN, whose : 0..MaxChildren]

NoCgi == [child |-> 0, content |-> 0, input |-> 0, more |-> 0, output |-> 0, got |-> 0,
          late |-> FALSE, twice |-> FALSE, whose |-> 0]

Codes == {0, 200, 302, 304, 404, 500}

DocumentInit == at = "idle" /\ intr = 0 /\ cgi = NoCgi /\ code = 0

DocumentTypeOK ==
  /\ at \in {"idle", "content", "select", "read"} /\ intr \in 0..1
  /\ cgi \in Cgi /\ code \in Codes

\* The program has closed its ends of the pipes, which end before SIGCHLD comes;
\* or there is no program.  Assumed: it keeps them until it ends, and leaves nothing
\* behind that has them.
Gone == cgi.child \notin In("running") \cup In("dying")

-----------------------------------------------------------------------------
(* The server's side *)

\* The program has CONTENT to read, and writes up to MOST.
Execute(content, most) ==
  /\ at = "idle" /\ at' = "content"
  /\ \/ SpawnFails("cgi") /\ cgi' = [NoCgi EXCEPT !.content = content]
     \/ Spawn("cgi") /\ \E more \in 0..most :
          cgi' = [NoCgi EXCEPT !.child = started', !.content = content,
                               !.more = IF child'[started'].at = "running" THEN more ELSE 0]
  /\ intr' = 0 /\ code' = 0

\* One write() of all of the content, which waits for room.
WriteContent ==
  /\ at = "content" /\ cgi.content > 0 /\ ~Gone /\ cgi.input < Capacity
  /\ cgi' = [cgi EXCEPT !.content = @ - 1, !.input = @ + 1]
  /\ UNCHANGED <<process, at, intr, code>>

\* All is written, or the write() fails: the pipe is closed.
ContentDone ==
  /\ at = "content" /\ (cgi.content = 0 \/ Gone) /\ at' = "select"
  /\ cgi' = [cgi EXCEPT !.content = 0]
  /\ UNCHANGED <<process, intr, code>>

Ready == cgi.output > 0 \/ Gone

CgiSelect ==
  /\ at = "select" /\ Ready /\ at' = "read"
  /\ UNCHANGED <<process, intr, cgi, code>>

CgiRead ==
  /\ at = "read" /\ cgi.output > 0
  /\ cgi' = [cgi EXCEPT !.output = @ - 1, !.got = @ + 1]
  /\ UNCHANGED <<process, at, intr, code>>

\* Mutant: a program that leaves nothing behind is an error, whatever its end.
CodeOf_Always(got, how) == IF got > 0 THEN 200 ELSE 500

\* What there is a page of is a success, or a redirection; without one the status
\* of the child that was waited for last decides, and http_get_handler after it.
CodeOf(got, how) == IF got > 0 THEN 200 ELSE IF how = "killed" THEN 500 ELSE 404

\* read_from_fd returns; whatever the program writes from now on fails.
Gathered(program) ==
  /\ at' = "idle"
  /\ code' = CodeOf(cgi.got, status')
  /\ cgi' = [program EXCEPT !.whose = told']

CgiEnd ==
  /\ at = "read" /\ cgi.output = 0 /\ Gone
  /\ UNCHANGED <<process, intr>>
  /\ Gathered(cgi)

\* 90 seconds without any output
CgiTimeOut ==
  /\ at = "select" /\ ~Ready
  /\ UNCHANGED <<process, intr>>
  /\ Gathered([cgi EXCEPT !.late = TRUE])

\* SIGCHLD comes: a write() returns with what it has written, and a select() that
\* has nothing to report is called again, but once only.
CgiRelease ==
  /\ Release
  /\ \/ UNCHANGED document
     \/ /\ at = "content" /\ cgi.content > 0 /\ cgi.input = Capacity
        /\ cgi' = [cgi EXCEPT !.content = 0] /\ UNCHANGED <<at, intr, code>>
     \/ /\ at = "select" /\ ~Ready /\ intr = 0
        /\ intr' = 1 /\ UNCHANGED <<at, cgi, code>>
     \/ /\ at = "select" /\ ~Ready /\ intr = 1
        /\ Gathered([cgi EXCEPT !.twice = TRUE]) /\ UNCHANGED intr

-----------------------------------------------------------------------------
(* The program's side *)

ProgramReads ==
  /\ cgi.input > 0 /\ ~Gone
  /\ cgi' = [cgi EXCEPT !.input = @ - 1]
  /\ UNCHANGED <<process, at, intr, code>>

ProgramWrites ==
  /\ at # "idle" /\ cgi.more > 0 /\ ~Gone /\ cgi.output < Capacity
  /\ cgi' = [cgi EXCEPT !.more = @ - 1, !.output = @ + 1]
  /\ UNCHANGED <<process, at, intr, code>>

CgiServer == WriteContent \/ ContentDone \/ CgiSelect \/ CgiRead \/ CgiEnd \/ CgiRelease

CgiNext == CgiServer \/ CgiTimeOut \/ ProgramReads \/ ProgramWrites

=============================================================================

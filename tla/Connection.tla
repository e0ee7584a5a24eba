----------------------------- MODULE Connection -----------------------------
(***************************************************************************)
(* The process that serves a connection: the child's part of the main loop  *)
(* of server/server.c, built with USE_KEEP_ALIVE, with the reading of       *)
(* requests (libserver/http.c, globals.c) and the documents that are pages  *)
(* or CGI programs.  The client's text comes in units, of which a request   *)
(* has: the first part of its line, the rest of it with the newline, its    *)
(* headers, the empty line, and its content.                                *)
(***************************************************************************)
EXTENDS CgiDocument, Sequences

CONSTANTS
  Scripts,     \* what a client may ask for, one request after another: see Request
  MaxRequests  \* bound: how many it makes on a connection

\* known: its method has a handler of its own; keep: it has a Connection header;
\* body: the units of its content; most: bound: what its document does, the units
\* that a program writes, or a page's programs with those that there have been.
Request ==
  [known : BOOLEAN, keep : BOOLEAN, body : 0..CgiMax, kind : {"page", "cgi", "nph"}, most : 0..CgiMax]

ASSUME ConnectionAssumption == Scripts \subseteq [1..MaxRequests -> Request] /\ MaxRequests \in Nat

VARIABLES
  asked,    \* the requests the client makes
  sent,     \* up to where its text has been sent: see Positions
  there,    \* whether the client is there
  pc,       \* what the process does
  pos,      \* up to where it has been read
  mid,      \* whether the line that is being read has begun
  req,      \* the request that is being read or handled: see Got
  kept,     \* whether the connection is being kept, which flags every request from then on
  open,     \* whether the connection's descriptor is open
  result,   \* the code of the answer, and whether the connection may be kept after it
  answers,  \* history: what has been answered
  cut       \* history: a pause, or a death, ended a line or a write() before its time

conn == <<asked, sent, there, pc, pos, mid, req, kept, open, result, answers, cut>>
vars == <<process, document, conn>>

-----------------------------------------------------------------------------
(* What the client sends *)

\* A position is before the n-th unit of a request, counted from 0; the end of the
\* text is before the first unit of a request that is not made.
Positions ==
  {p \in [of : 1..MaxRequests + 1, n : 0..CgiMax + 3] :
     p.n < IF p.of > MaxRequests THEN 1 ELSE 4 + asked[p.of].body}

Start(r) == [of |-> r, n |-> 0]

Is(p) ==
  CASE p.n = 0 -> "line" [] p.n = 1 -> "rest" [] p.n = 2 -> "head" [] p.n = 3 -> "end"
    [] OTHER -> "body"

After(p) == IF p.n < 3 + asked[p.of].body THEN [p EXCEPT !.n = @ + 1] ELSE Start(p.of + 1)

UpTo(p, q) == p.of < q.of \/ (p.of = q.of /\ p.n <= q.n)

\* from, first: the request its first unit is of, and that unit; known, flag: as it
\* is taken to be; need: what is still to be read of its content.
Got ==
  [from : 0..MaxRequests, known : BOOLEAN, flag : BOOLEAN, length : 0..CgiMax,
   need : 0..CgiMax, first : Positions]

NoRequest == [from |-> 0, known |-> FALSE, flag |-> FALSE, length |-> 0, need |-> 0, first |-> Start(1)]

States ==
  {"wait", "line", "heads", "asked", "content", "page", "cgi", "write", "fin",
   "done", "crashed", "verbatim"}

ConnInit ==
  /\ asked \in Scripts
  /\ sent = Start(1) /\ there = TRUE
  /\ pc = "line" /\ pos = Start(1) /\ mid = FALSE /\ req = NoRequest
  /\ kept = FALSE /\ open = TRUE
  /\ result = [code |-> 0, last |-> FALSE] /\ answers = <<>> /\ cut = FALSE

Init == ProcessInit /\ DocumentInit /\ ConnInit

TypeOK ==
  /\ ProcessTypeOK /\ DocumentTypeOK
  /\ asked \in Scripts /\ sent \in Positions /\ there \in BOOLEAN
  /\ pc \in States /\ pos \in Positions /\ UpTo(pos, sent) /\ mid \in BOOLEAN /\ req \in Got
  /\ kept \in BOOLEAN /\ open \in BOOLEAN /\ cut \in BOOLEAN
  /\ result \in [code : Codes, last : BOOLEAN]
  /\ pc # "cgi" => at = "idle"
  /\ sigchld => handler # "none" /\ In("zombie") # {}

\* The client sends on, whether or not it has been answered, or goes.
Send ==
  /\ there /\ sent.of <= MaxRequests /\ sent' = After(sent)
  /\ UNCHANGED <<process, document, asked, there, pc, pos, mid, req, kept, open, result, answers, cut>>

Leave ==
  /\ there /\ there' = FALSE
  /\ UNCHANGED <<process, document, asked, sent, pc, pos, mid, req, kept, open, result, answers, cut>>

Available == pos # sent

-----------------------------------------------------------------------------
(* Reading a request *)

\* mhttpd_gets has a unit, with the newline or without.
ReadUnit == Available /\ pos' = After(pos) /\ mid' = (Is(pos) \in {"line", "body"})

\* It returns what it has for a line: nothing has come for 60 seconds, or the
\* client is gone, or, with a death, select() is interrupted.
Cut == ~Available /\ mid' = FALSE /\ UNCHANGED pos

\* http_parse_request: what begins in the middle has a method of no handler.
Parsed(p) ==
  [NoRequest EXCEPT !.from = p.of, !.known = (Is(p) = "line" /\ asked[p.of].known),
                    !.flag = kept, !.first = p]

ReadLine ==
  /\ pc = "line" /\ ReadUnit
  /\ req' = IF mid THEN req ELSE Parsed(pos)
  /\ pc' = IF mid' THEN "line" ELSE "heads"
  /\ UNCHANGED <<process, document, asked, sent, there, kept, open, result, answers, cut>>

\* A request that ends before its line has begun is none.  The result of the one
\* before it is then used, which has been freed: its page is written again, or the
\* process crashes, or nothing comes of it.
CutLine ==
  /\ pc = "line" /\ Cut /\ req' = req
  /\ \/ mid /\ pc' = "heads"
     \/ ~mid /\ pc' \in IF kept THEN {"fin", "crashed"} ELSE {"fin"}
  /\ UNCHANGED <<asked, sent, there, kept, open, result, answers>>

\* Mutant: only for a program the content is read.
Content_Cgi(r) == IF asked[r].kind = "cgi" THEN asked[r].body ELSE 0

\* What the Content-Length of the r-th request announces.
Content(r) == asked[r].body

\* Headers end with an empty line.
ReadHeader ==
  /\ pc = "heads" /\ ReadUnit
  /\ pc' = IF ~mid /\ Is(pos) = "end" THEN "asked" ELSE "heads"
  /\ req' = IF ~mid /\ Is(pos) = "head"
            THEN LET n == Content(pos.of) IN
                   [req EXCEPT !.length = n, !.need = n, !.flag = @ \/ asked[pos.of].keep]
            ELSE req
  /\ UNCHANGED <<process, document, asked, sent, there, kept, open, result, answers, cut>>

CutHeader ==
  /\ pc = "heads" /\ Cut /\ req' = req
  /\ pc' = IF mid THEN "heads" ELSE "asked"
  /\ UNCHANGED <<asked, sent, there, kept, open, result, answers>>

-----------------------------------------------------------------------------
(* Handling it *)

\* mhttpd::per-request-function answers with a redirection, and that is all.
Redirected ==
  /\ pc = "asked" /\ pc' = "write" /\ result' = [code |-> 302, last |-> TRUE]
  /\ UNCHANGED <<process, document, asked, sent, there, pos, mid, req, kept, open, answers, cut>>

\* The handler of a method that is not implemented leaves result->request NULL, and
\* mhttpd_find_page_for_result uses it.
Handle ==
  /\ pc = "asked" /\ pc' = (IF req.known THEN "content" ELSE "crashed")
  /\ UNCHANGED <<process, document, asked, sent, there, pos, mid, req, kept, open, result, answers, cut>>

\* mhttpd_read: without a time-out; it has all of the content, or what there was
\* when the client left.
ReadContent ==
  /\ pc = "content" /\ req.need > 0
  /\ IF Available THEN pos' = After(pos) /\ req' = [req EXCEPT !.need = @ - 1]
                  ELSE ~there /\ req' = [req EXCEPT !.need = 0] /\ UNCHANGED pos
  /\ UNCHANGED <<process, document, asked, sent, there, pc, mid, kept, open, result, answers, cut>>

\* The document is a page, or a program, or one that writes to the client itself,
\* whose parent ends at once.
Resolve ==
  /\ pc = "content" /\ req.need = 0
  /\ LET kind == asked[req.from].kind IN
       \/ kind = "page" /\ pc' = "page" /\ UNCHANGED <<process, document>>
       \/ kind = "cgi" /\ pc' = "cgi" /\ Execute(req.length, asked[req.from].most)
       \/ kind = "nph" /\ pc' = "verbatim" /\ UNCHANGED <<process, document>>
  /\ UNCHANGED <<asked, sent, there, pos, mid, req, kept, open, result, answers, cut>>

\* with-open-stream of a program in the page, and its end.
PageProgram ==
  /\ pc = "page" /\ started < asked[req.from].most /\ Spawn("stream")
  /\ UNCHANGED <<document, conn>>

InStream == handler = "stream" /\ started > 0 /\ child[started].at = "running"

PageProgramEnd ==
  /\ pc = "page" /\ InStream /\ Kill({started})
  /\ UNCHANGED <<started, handler, sigchld, status, told, alive, document, conn>>

\* The end of a stream on *standard-output* closes the connection.
PageCloses ==
  /\ pc = "page" /\ open' = FALSE
  /\ UNCHANGED <<process, document, asked, sent, there, pc, pos, mid, req, kept, result, answers, cut>>

PageEnd ==
  /\ pc = "page" /\ ~InStream /\ pc' = "write"
  /\ \E c \in {200, 302, 404} : result' = [code |-> c, last |-> FALSE]
  /\ UNCHANGED <<process, document, asked, sent, there, pos, mid, req, kept, open, answers, cut>>

\* Mutant: the answer does not wait for the end of the program's output.
CgiPage_Early ==
  /\ pc = "cgi" /\ pc' = "write" /\ result' = [code |-> 200, last |-> FALSE]
  /\ UNCHANGED <<process, document, asked, sent, there, pos, mid, req, kept, open, answers, cut>>

\* The answer is the page that the program left, or a code; nothing more is known of it.
CgiPage ==
  /\ pc = "cgi" /\ at = "idle" /\ pc' = "write"
  /\ \/ result' = [code |-> code, last |-> FALSE]
     \/ code = 200 /\ result' = [code |-> 302, last |-> FALSE]
  /\ intr' = 0 /\ cgi' = NoCgi /\ code' = 0
  /\ UNCHANGED <<process, at, asked, sent, there, pos, mid, req, kept, open, answers, cut>>

\* One write() of all of the answer; what it returns is not looked at.
Answered(how) ==
  /\ answers' = Append(answers, [to |-> req.from, first |-> req.first, next |-> pos, how |-> how])
  /\ LET keep == result.code = 200 /\ req.flag /\ ~result.last IN
       /\ pc' = IF keep THEN "wait" ELSE "fin"
       /\ kept' = keep
  /\ UNCHANGED <<asked, sent, there, pos, mid, req, open, result>>

Write ==
  /\ pc = "write" /\ UNCHANGED <<document, cut>>
  /\ \/ open /\ there /\ Answered("whole") /\ UNCHANGED process
     \/ open /\ ~there /\ Answered("none") /\ BrokenPipe
     \/ ~open /\ Answered("none") /\ UNCHANGED process

\* A connection that is kept is waited on for 60 seconds.
Stirs == Available \/ ~there

Wait ==
  /\ pc = "wait" /\ open /\ Stirs /\ pc' = "line"
  /\ UNCHANGED <<process, document, asked, sent, there, pos, mid, req, kept, open, result, answers, cut>>

\* Mutant: it is waited on for ever.
Lapses_Not == ~open

Lapses == ~open \/ ~Stirs

WaitEnds ==
  /\ pc = "wait" /\ Lapses /\ pc' = "fin"
  /\ UNCHANGED <<process, document, asked, sent, there, pos, mid, req, kept, open, result, answers, cut>>

\* shutdown(), 5 seconds for the client to close, the page after the page's return.
Finish ==
  /\ pc = "fin" /\ pc' = "done"
  /\ UNCHANGED <<process, document, asked, sent, there, pos, mid, req, kept, open, result, answers, cut>>

\* SIGCHLD: it ends a select() that has nothing to report, and a write() that waits
\* for the client to take more.
Interrupted ==
  \/ (CutLine \/ CutHeader) /\ there /\ cut' = TRUE
  \/ pc = "wait" /\ open /\ ~Stirs /\ pc' = "fin"
     /\ UNCHANGED <<asked, sent, there, pos, mid, req, kept, open, result, answers, cut>>
  \/ pc = "write" /\ open /\ there /\ Answered("short") /\ cut' = TRUE

Signalled ==
  \/ pc = "cgi" /\ CgiRelease /\ UNCHANGED conn
  \/ pc # "cgi" /\ Release /\ UNCHANGED document /\ (Interrupted \/ UNCHANGED conn)

\* 60 seconds without a unit, or the client is gone.
Pause == (CutLine \/ CutHeader) /\ cut' = TRUE /\ UNCHANGED <<process, document>>

-----------------------------------------------------------------------------

Ended == ~alive \/ pc \in {"done", "crashed", "verbatim"}

Serve ==
  \/ ReadLine \/ ReadHeader \/ Pause \/ Redirected \/ Handle \/ ReadContent \/ Resolve
  \/ PageEnd \/ PageProgramEnd \/ CgiPage \/ Wait \/ WaitEnds \/ Finish
  \/ pc = "cgi" /\ (CgiServer \/ CgiTimeOut) /\ UNCHANGED conn
  \/ (~there \/ ~open) /\ Write

Next ==
  \/ Send \/ Leave
  \/ ~Ended /\ (Serve \/ Write \/ PageProgram \/ PageCloses \/ Signalled)
  \/ ~Ended /\ (ProgramReads \/ ProgramWrites) /\ UNCHANGED conn
  \/ ~Ended /\ (\E c \in Children : Die(c)) /\ UNCHANGED <<document, conn>>

Spec == Init /\ [][Next]_vars

\* The process goes on, and a page comes to its end.
FairSpec == Spec /\ WF_vars(~Ended /\ Serve)

-----------------------------------------------------------------------------
(* Properties *)

\* On a connection that is kept, and without a pause within a request or a death
\* that interrupts the process, requests are taken as they were made: the k-th
\* answer is to the k-th request, which is all of its text and nothing else, with
\* its content where it is not redirected before that; and as long as the client is
\* there it has all of each answer, the last one excepted where a page has closed
\* the connection.
InStep ==
  ~cut => \A k \in DOMAIN answers :
    /\ answers[k].to = k /\ answers[k].first = Start(k)
    /\ k < Len(answers) => answers[k].next = Start(k + 1)
    /\ answers[k].how = "whole" \/ ~there \/ (~open /\ k = Len(answers))

\* What a CGI program has written by its end is what is answered, unless its time
\* ran out, or a second signal ended its select(), for which two other programs of
\* the process have died.  An answer without a page says that the program failed
\* just where it was killed, if the status that decides is its own, and never but for
\* a program that was killed: it is another's where this program's SIGCHLD has not
\* come yet, or another's came after it.
CgiWhole ==
  pc = "cgi" /\ at = "idle" =>
    /\ cgi.output > 0 \/ (cgi.more > 0 /\ ~Gone) => cgi.late \/ cgi.twice
    /\ cgi.twice => \E a, b \in In("released") \ {cgi.child} : a # b
    /\ code = 500 => cgi.got = 0 /\ cgi.whose # 0 /\ child[cgi.whose].how = "killed"
    /\ cgi.whose = cgi.child /\ cgi.child # 0 /\ cgi.got = 0 =>
         (code = 500 <=> child[cgi.child].how = "killed")

\* The process ends, with the page after the page's return unless it is killed,
\* crashes or leaves the client to a program, or it waits for ever for somebody
\* else: for the client's content or to take its answer, for a program to go on once
\* its output has begun, or for one that reads its content no further.
ForOthers ==
  \/ pc = "content" /\ req.need > 0 /\ ~Available /\ there
  \/ pc = "write" /\ there /\ open
  \/ pc = "cgi" /\ at = "content" /\ cgi.content > 0 /\ cgi.input = Capacity /\ ~Gone
  \/ pc = "cgi" /\ at = "read" /\ cgi.output = 0 /\ ~Gone

ConnectionEnds == <>Ended \/ <>[]ForOthers

=============================================================================

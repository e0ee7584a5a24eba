-------------------------- MODULE Connection_proofs --------------------------
(***************************************************************************)
(* Which answer is to which request, and what a program's output becomes,   *)
(* for any requests, programs and commands, and any capacity of the pipes.  *)
(***************************************************************************)
EXTENDS Connection, TLAPS

\* How a command ended, of which 0 is none.
EndOf(c) == IF c = 0 THEN "exit" ELSE child[c].how

\* What is known of the processes that have been started, of those that have not, and
\* of child_status.
Processes ==
  /\ \A c \in Children : c > started => child[c].at = "none"
  /\ handler = "none" => started = 0
  /\ told # 0 => child[told].at = "released"
  /\ status = EndOf(told)

\* All that there is to know of them.
ProcessOK ==
  /\ ProcessTypeOK /\ Processes
  /\ sigchld => handler # "none" /\ In("zombie") # {}

\* How often select() has been interrupted is how many others have been waited for.
Interruptions ==
  /\ intr = 1 => \E a \in In("released") : a # cgi.child
  /\ cgi.twice => \E a, b \in In("released") \ {cgi.child} : a # b

\* A program's output is under way or read; the answer to it waits for its end, and
\* is by the status of a command that was waited for.
Programs ==
  /\ cgi.got + cgi.output + cgi.more <= CgiMax
  /\ Interruptions
  /\ pc = "cgi" /\ at = "idle" =>
       /\ cgi.late \/ cgi.twice \/ (cgi.output = 0 /\ Gone)
       /\ cgi.whose # 0 => child[cgi.whose].at = "released"
       /\ code = CodeOf(cgi.got, EndOf(cgi.whose))

\* The types of the connection's variables, and of its history.
Answer ==
  [to : 0..MaxRequests, first : Positions, next : Positions, how : {"whole", "short", "none"}]

ConnOK ==
  /\ asked \in Scripts /\ sent \in Positions /\ there \in BOOLEAN
  /\ pc \in States /\ pos \in Positions /\ UpTo(pos, sent) /\ mid \in BOOLEAN /\ req \in Got
  /\ kept \in BOOLEAN /\ open \in BOOLEAN /\ cut \in BOOLEAN
  /\ result \in [code : Codes, last : BOOLEAN]
  /\ answers \in Seq(Answer)

\* The request that is being read or handled.
Current == Len(answers) + 1

\* The client has gone, and all of its text has been read.
Over == ~there /\ pos = sent

\* Before the n-th unit of a request, of which n may be the number.
Within(r, n) == IF n = 4 + asked[r].body THEN Start(r + 1) ELSE [of |-> r, n |-> n]

InRequest ==
  \/ pc \in {"heads", "asked", "content", "page", "cgi", "write"}
  \/ pc = "line" /\ mid

Between == pc = "wait" \/ (pc = "line" /\ ~mid)

\* How far a request has been read at each place.
Reading ==
  /\ mid => pc = "line"
  /\ InRequest =>
       /\ req.from = Current /\ req.first = Start(Current) /\ Current <= MaxRequests
       /\ answers # <<>> => answers[Len(answers)].next = Start(Current)
  /\ Between =>
       /\ pos = Start(Current) \/ Over
       /\ answers # <<>> => answers[Len(answers)].next = pos
  /\ pc = "line" /\ mid => pos = [of |-> Current, n |-> 1]
  /\ pc = "heads" =>
       \/ pos = [of |-> Current, n |-> 2]
       \/ pos = [of |-> Current, n |-> 3] /\ req.need = asked[Current].body
  /\ pc = "asked" => pos = Within(Current, 4) /\ req.need = asked[Current].body
  /\ pc = "content" =>
       /\ req.need <= asked[Current].body
       /\ \/ pos = Within(Current, 4 + asked[Current].body - req.need)
          \/ Over /\ req.need = 0
  /\ pc \in {"page", "cgi"} \/ (pc = "write" /\ ~result.last) => pos = Start(Current + 1) \/ Over

\* Each answer is to its request, and whole as long as the client is there.
Answers ==
  /\ ~open => pc \in {"page", "write", "wait", "fin", "done"}
  /\ \A k \in 1..Len(answers) :
       /\ answers[k].to = k /\ answers[k].first = Start(k)
       /\ k < Len(answers) => answers[k].next = Start(k + 1)
       /\ \/ answers[k].how = "whole" \/ ~there
          \/ ~open /\ k = Len(answers) /\ pc \in {"wait", "fin", "done"}

Inv ==
  /\ ProcessOK /\ DocumentTypeOK /\ Programs /\ ConnOK
  /\ pc # "cgi" => at = "idle"
  /\ ~cut => Reading /\ Answers

\* A request is known from its line's beginning on.
Known == req.from = 0 => ~mid /\ pc \in {"line", "fin", "done", "crashed"}

-----------------------------------------------------------------------------
(* The processes *)

\* A command that has been waited for stays as it ended, and one that is gone stays
\* gone.
Remembered == \A c \in Children : child[c].at = "released" => child'[c] = child[c]

StayGone ==
  \A c \in Children : c \in In("running") \cup In("dying") \/ c \notin (In("running") \cup In("dying"))'

LEMMA SameEnd ==
  ASSUME ProcessOK, Remembered, UNCHANGED <<status, told>>
  PROVE  (told' # 0 => child'[told'].at = "released") /\ status' = EndOf(told)'
<1>1. told \in 0..MaxChildren
  BY DEF ProcessOK, ProcessTypeOK
<1>2. told # 0 => told \in Children
  BY <1>1, PageProcessAssumption DEF Children
<1> QED BY <1>2 DEF ProcessOK, Processes, Remembered, EndOf

LEMMA SpawnKeeps ==
  ASSUME ProcessOK, NEW whose \in {"stream", "cgi"}, Spawn(whose)
  PROVE  ProcessOK' /\ started' \in 1..MaxChildren /\ Remembered
<1>1. started' = started + 1 /\ started' \in 1..MaxChildren /\ started' \in Children /\ started \in Nat
  BY PageProcessAssumption DEF Spawn, ProcessOK, ProcessTypeOK, Children
<1>2. child \in [Children -> ChildStates] /\ child[started'] \in ChildStates /\ child[started'].at = "none"
  BY <1>1 DEF ProcessOK, ProcessTypeOK, Processes
<1>3. /\ child'[started'] \in ChildStates
      /\ child' = [child EXCEPT ![started'] = child'[started']]
      /\ sigchld' # sigchld => child'[started'].at = "zombie" /\ handler # "none"
  <2>1. CASE child' = [child EXCEPT ![started'].at = "running"] /\ UNCHANGED sigchld
    <3>1. child'[started'] = [child[started'] EXCEPT !.at = "running"]
      BY <1>1, <1>2, <2>1
    <3> QED BY <1>1, <1>2, <2>1, <3>1 DEF ChildStates
  <2>2. CASE /\ child' = [child EXCEPT ![started'] = [at |-> "zombie", how |-> "127"]]
             /\ sigchld' = (sigchld \/ handler # "none")
    <3>1. child'[started'] = [at |-> "zombie", how |-> "127"]
      BY <1>1, <1>2, <2>2
    <3>2. sigchld' # sigchld => handler # "none"
      BY <2>2 DEF ProcessOK, ProcessTypeOK
    <3> QED BY <1>1, <1>2, <2>2, <3>1, <3>2 DEF ChildStates, Deaths
  <2> QED BY <2>1, <2>2 DEF Spawn
<1>4. \A c \in Children : c # started' => child'[c] = child[c]
  BY <1>1, <1>2, <1>3
<1>5. child' \in [Children -> ChildStates]
  BY <1>2, <1>3
<1>6. sigchld' \in BOOLEAN /\ handler' = whose /\ UNCHANGED <<status, told, alive>>
  BY DEF Spawn, ProcessOK, ProcessTypeOK
<1>7. ProcessTypeOK'
  BY <1>1, <1>5, <1>6 DEF ProcessOK, ProcessTypeOK
<1>8. Remembered
  BY <1>2, <1>4 DEF Remembered
<1>9. Processes'
  <2>1. \A c \in Children : c > started' => child'[c].at = "none"
    BY <1>1, <1>4 DEF ProcessOK, Processes, Children
  <2> QED BY <1>6, <1>8, <2>1, SameEnd DEF ProcessOK, Processes
<1>10. ASSUME sigchld' PROVE In("zombie")' # {}
  <2>1. CASE sigchld
    <3>1. PICK c \in Children : child[c].at = "zombie"
      BY <2>1 DEF ProcessOK, In
    <3>2. c # started'
      BY <1>2, <3>1
    <3> QED BY <1>4, <3>1, <3>2 DEF In
  <2>2. CASE ~sigchld
    BY <1>1, <1>3, <1>10, <2>2 DEF In, ProcessOK, ProcessTypeOK
  <2> QED BY <2>1, <2>2
<1> QED BY <1>1, <1>6, <1>7, <1>8, <1>9, <1>10 DEF ProcessOK

LEMMA SpawnFailsKeeps ==
  ASSUME ProcessOK, NEW whose \in {"stream", "cgi"}, SpawnFails(whose)
  PROVE  ProcessOK' /\ child' = child
BY DEF SpawnFails, ProcessOK, ProcessTypeOK, Processes, EndOf, In

LEMMA KillKeeps ==
  ASSUME ProcessOK, NEW cs, Kill(cs), UNCHANGED <<started, handler, sigchld, status, told, alive>>
  PROVE  ProcessOK' /\ Remembered
<1>1. child \in [Children -> ChildStates]
  BY DEF ProcessOK, ProcessTypeOK
<1>2. \A c \in Children : child'[c] \in ChildStates /\ (child[c].at # "running" => child'[c] = child[c])
  BY <1>1 DEF Kill, ChildStates
<1>3. child' \in [Children -> ChildStates]
  BY <1>2 DEF Kill
<1>4. ProcessTypeOK'
  BY <1>3 DEF ProcessOK, ProcessTypeOK
<1>5. Remembered
  BY <1>2 DEF Remembered
<1>6. Processes'
  <2>1. \A c \in Children : c > started => child'[c].at = "none"
    BY <1>2 DEF ProcessOK, Processes
  <2> QED BY <1>5, <2>1, SameEnd DEF ProcessOK, Processes
<1>7. sigchld' => In("zombie")' # {}
  BY <1>2 DEF ProcessOK, In
<1> QED BY <1>4, <1>5, <1>6, <1>7 DEF ProcessOK

LEMMA DieKeeps ==
  ASSUME ProcessOK, NEW c \in Children, Die(c)
  PROVE  ProcessOK' /\ Remembered /\ StayGone
<1>1. child \in [Children -> ChildStates] /\ child[c].at \in {"running", "dying"}
  BY DEF Die, Runs, ProcessOK, ProcessTypeOK
<1>2. PICK how \in {"exit", "killed"} : child' = [child EXCEPT ![c] = [at |-> "zombie", how |-> how]]
  BY DEF Die
<1>3. child'[c] = [at |-> "zombie", how |-> how] /\ \A k \in Children : k # c => child'[k] = child[k]
  BY <1>1, <1>2
<1>4. child' \in [Children -> ChildStates]
  BY <1>1, <1>2 DEF ChildStates, Deaths
<1>5. sigchld' = TRUE /\ UNCHANGED <<started, handler, status, told, alive>>
  BY DEF Die
<1>6. ProcessTypeOK'
  BY <1>4, <1>5 DEF ProcessOK, ProcessTypeOK
<1>7. c <= started /\ started # 0
  BY <1>1, PageProcessAssumption DEF ProcessOK, ProcessTypeOK, Processes, Children
<1>8. Remembered
  BY <1>1, <1>3 DEF Remembered
<1>9. Processes'
  <2>1. \A k \in Children : k > started' => child'[k].at = "none"
    BY <1>3, <1>5, <1>7, PageProcessAssumption DEF ProcessOK, ProcessTypeOK, Processes, Children
  <2> QED BY <1>5, <1>8, <2>1, SameEnd DEF ProcessOK, Processes
<1>10. handler' # "none" /\ In("zombie")' # {}
  BY <1>3, <1>5, <1>7 DEF ProcessOK, Processes, In
<1> QED BY <1>1, <1>3, <1>6, <1>8, <1>9, <1>10 DEF ProcessOK, StayGone, In

\* The command that is waited for is none of those that were.
LEMMA ReleaseKeeps ==
  ASSUME ProcessOK, Release
  PROVE  /\ ProcessOK' /\ Remembered /\ StayGone
         /\ \E c \in Children : child[c].at = "zombie" /\ child'[c].at = "released"
<1>1. PICK c \in In("zombie") :
        /\ child' = [child EXCEPT ![c].at = "released"]
        /\ (status' = child[c].how /\ told' = c) \/ UNCHANGED <<status, told>>
  BY DEF Release
<1>2. child \in [Children -> ChildStates] /\ c \in Children /\ c \in 1..MaxChildren
  BY DEF ProcessOK, ProcessTypeOK, In, Children
<1>3. child'[c] = [child[c] EXCEPT !.at = "released"] /\ \A k \in Children : k # c => child'[k] = child[k]
  BY <1>1, <1>2
<1>4. child'[c] \in ChildStates /\ child'[c].at = "released" /\ child'[c].how = child[c].how
  BY <1>2, <1>3 DEF ChildStates
<1>5. child' \in [Children -> ChildStates]
  BY <1>1, <1>2, <1>3, <1>4
<1>6. sigchld' = FALSE /\ UNCHANGED <<started, handler, alive>>
  BY DEF Release
<1>7. child[c].at = "zombie" /\ child[c].how \in Deaths
  BY <1>2 DEF In, ChildStates
<1>8. ProcessTypeOK'
  <2>1. c \in 0..MaxChildren
    BY <1>2, PageProcessAssumption
  <2> QED BY <1>1, <1>5, <1>6, <1>7, <2>1 DEF ProcessOK, ProcessTypeOK
<1>9. Remembered
  BY <1>3, <1>7 DEF Remembered
<1>10. Processes'
  <2>1. \A k \in Children : k > started' => child'[k].at = "none"
    BY <1>3, <1>6, <1>7 DEF ProcessOK, Processes
  <2>2. (told' # 0 => child'[told'].at = "released") /\ status' = EndOf(told)'
    <3>1. CASE status' = child[c].how /\ told' = c
      BY <1>2, <1>4, <3>1 DEF EndOf
    <3>2. CASE UNCHANGED <<status, told>>
      BY <1>9, <3>2, SameEnd
    <3> QED BY <1>1, <3>1, <3>2
  <2> QED BY <1>6, <2>1, <2>2 DEF ProcessOK, Processes
<1> QED BY <1>2, <1>3, <1>4, <1>6, <1>7, <1>8, <1>9, <1>10 DEF ProcessOK, StayGone, In

LEMMA BrokenPipeKeeps ==
  ASSUME ProcessOK, BrokenPipe
  PROVE  ProcessOK' /\ child' = child
BY DEF BrokenPipe, ProcessOK, ProcessTypeOK, Processes, EndOf, In

LEMMA SameProcesses ==
  ASSUME ProcessOK, UNCHANGED process
  PROVE  ProcessOK' /\ child' = child
BY DEF process, ProcessOK, ProcessTypeOK, Processes, EndOf, In

-----------------------------------------------------------------------------
(* The programs *)

LEMMA GoneStays ==
  ASSUME Gone, StayGone, cgi'.child = cgi.child
  PROVE  Gone'
BY DEF Gone, StayGone, In

\* What has interrupted a select() has done so for ever.
LEMMA InterruptionsStay ==
  ASSUME Interruptions, Remembered, cgi'.child = cgi.child, cgi'.twice = cgi.twice, intr' = intr
  PROVE  Interruptions'
<1>1. In("released") \subseteq In("released")'
  BY DEF Remembered, In
<1> QED BY <1>1 DEF Interruptions

\* Steps that do not concern the program.
LEMMA OtherPrograms ==
  ASSUME DocumentTypeOK, Programs, UNCHANGED document, Remembered,
         StayGone, pc' = pc \/ pc' # "cgi"
  PROVE  DocumentTypeOK' /\ Programs'
<1>1. DocumentTypeOK' /\ cgi' = cgi /\ at' = at /\ code' = code /\ intr' = intr
  BY DEF document, DocumentTypeOK
<1>2. Gone => Gone'
  BY <1>1, GoneStays
<1>3. Interruptions'
  BY <1>1, InterruptionsStay DEF Programs
<1>4. cgi.whose # 0 => cgi.whose \in Children
  BY PageProcessAssumption DEF DocumentTypeOK, Cgi, Children
<1>5. pc' = "cgi" /\ at' = "idle" =>
        /\ cgi'.whose # 0 => child'[cgi'.whose].at = "released"
        /\ code' = CodeOf(cgi'.got, EndOf(cgi.whose)')
  BY <1>1, <1>4 DEF Programs, Remembered, EndOf
<1> QED BY <1>1, <1>2, <1>3, <1>5 DEF Programs, EndOf

\* Steps of a program that has not ended.
LEMMA UnderWay ==
  ASSUME DocumentTypeOK, Programs, Remembered, at' \in {"content", "select", "read"},
         cgi' \in Cgi, cgi'.child = cgi.child, cgi'.twice = cgi.twice,
         cgi'.got + cgi'.output + cgi'.more <= CgiMax, UNCHANGED <<intr, code>>
  PROVE  DocumentTypeOK' /\ Programs'
BY InterruptionsStay DEF DocumentTypeOK, Programs

LEMMA ExecuteKeeps ==
  ASSUME ProcessOK, DocumentTypeOK, Programs, NEW content \in 0..CgiMax, NEW most \in 0..CgiMax,
         Execute(content, most)
  PROVE  ProcessOK' /\ DocumentTypeOK' /\ Programs' /\ at' = "content"
<1>1. at' = "content" /\ intr' = 0 /\ code' = 0
  BY DEF Execute
<1>2. 0 \in 0..CgiMax /\ 0 \in 0..Capacity /\ 0 \in 0..MaxChildren
  BY CgiDocumentAssumption, PageProcessAssumption
<1>3. NoCgi \in Cgi
  BY <1>2 DEF NoCgi, Cgi
<1>4. CASE SpawnFails("cgi") /\ cgi' = [NoCgi EXCEPT !.content = content]
  <2>1. cgi' \in Cgi /\ cgi'.got = 0 /\ cgi'.output = 0 /\ cgi'.more = 0 /\ cgi'.twice = FALSE
    BY <1>3, <1>4 DEF Cgi, NoCgi
  <2> QED BY <1>1, <1>4, <2>1, SpawnFailsKeeps, CgiDocumentAssumption
          DEF DocumentTypeOK, Programs, Interruptions, Codes
<1>5. CASE Spawn("cgi") /\ \E more \in 0..most :
             cgi' = [NoCgi EXCEPT !.child = started', !.content = content,
                                  !.more = IF child'[started'].at = "running" THEN more ELSE 0]
  <2>1. ProcessOK' /\ started' \in 0..MaxChildren
    BY <1>5, SpawnKeeps, PageProcessAssumption
  <2>2. PICK more \in 0..CgiMax : cgi' = [NoCgi EXCEPT !.child = started', !.content = content, !.more = more]
    <3>1. PICK more \in 0..most :
            cgi' = [NoCgi EXCEPT !.child = started', !.content = content,
                                 !.more = IF child'[started'].at = "running" THEN more ELSE 0]
      BY <1>5
    <3>2. more \in 0..CgiMax
      BY CgiDocumentAssumption
    <3> QED BY <1>2, <3>1, <3>2
  <2>3. cgi' \in Cgi /\ cgi'.got = 0 /\ cgi'.output = 0 /\ cgi'.more = more /\ cgi'.twice = FALSE
    BY <1>3, <2>1, <2>2 DEF Cgi, NoCgi
  <2> QED BY <1>1, <2>1, <2>2, <2>3, CgiDocumentAssumption DEF DocumentTypeOK, Programs, Interruptions, Codes
<1> QED BY <1>4, <1>5 DEF Execute

\* The end of read_from_fd, for its program's, for its time or for a second signal.
LEMMA GatheredKeeps ==
  ASSUME ProcessOK', DocumentTypeOK, Programs, intr' \in 0..1, NEW program \in Cgi, Gathered(program),
         program.got = cgi.got, program.output = cgi.output, program.more = cgi.more,
         program.child = cgi.child,
         program.late \/ program.twice \/ (cgi.output = 0 /\ (cgi'.child = cgi.child => Gone')),
         intr' = 1 => \E a \in In("released")' : a # cgi.child,
         program.twice => \E a, b \in In("released")' \ {cgi.child} : a # b
  PROVE  DocumentTypeOK' /\ Programs'
<1>1. at' = "idle" /\ code' = CodeOf(cgi.got, status') /\ cgi' = [program EXCEPT !.whose = told']
  BY DEF Gathered
<1>2. told' \in 0..MaxChildren /\ status' = EndOf(told)' /\ (told' # 0 => child'[told'].at = "released")
  BY DEF ProcessOK, ProcessTypeOK, Processes
<1>3. /\ cgi' \in Cgi /\ cgi'.got = cgi.got /\ cgi'.output = cgi.output /\ cgi'.more = cgi.more
      /\ cgi'.child = cgi.child /\ cgi'.whose = told'
      /\ cgi'.late = program.late /\ cgi'.twice = program.twice
  BY <1>1, <1>2 DEF Cgi
<1>4. code' \in Codes
  BY <1>1 DEF CodeOf, Codes
<1>5. EndOf(cgi.whose)' = status'
  BY <1>2, <1>3 DEF EndOf
<1>6. Interruptions'
  BY <1>3 DEF Interruptions
<1>7. cgi'.late \/ cgi'.twice \/ (cgi'.output = 0 /\ Gone')
  BY <1>3
<1> QED BY <1>1, <1>2, <1>3, <1>4, <1>5, <1>6, <1>7 DEF DocumentTypeOK, Programs

\* What mhttpd_execute_cgi and its program do.
LEMMA CgiKeeps ==
  ASSUME ProcessOK, DocumentTypeOK, Programs, CgiNext, pc' = pc
  PROVE  ProcessOK' /\ DocumentTypeOK' /\ Programs'
<1>1. /\ cgi \in Cgi /\ at \in {"idle", "content", "select", "read"} /\ intr \in 0..1 /\ code \in Codes
      /\ cgi.got + cgi.output + cgi.more <= CgiMax
  BY DEF DocumentTypeOK, Programs
<1> USE CgiDocumentAssumption
<1>2. ASSUME CgiRelease PROVE ProcessOK' /\ DocumentTypeOK' /\ Programs'
  <2>1. ProcessOK' /\ Remembered /\ StayGone
    BY <1>2, ReleaseKeeps DEF CgiRelease
  <2>2. CASE UNCHANGED document
    BY <2>1, <2>2, OtherPrograms
  <2>3. CASE at = "content" /\ cgi' = [cgi EXCEPT !.content = 0] /\ UNCHANGED <<at, intr, code>>
    <3>1. /\ cgi' \in Cgi /\ cgi'.got = cgi.got /\ cgi'.output = cgi.output /\ cgi'.more = cgi.more
          /\ cgi'.child = cgi.child /\ cgi'.twice = cgi.twice
      BY <1>1, <2>3 DEF Cgi
    <3> QED BY <1>1, <2>1, <2>3, <3>1, UnderWay
  <2>4. ASSUME at = "select", ~Ready
        PROVE  /\ \E c \in In("released")' : c # cgi.child
               /\ intr = 1 => \E a, b \in In("released")' \ {cgi.child} : a # b
    <3>1. PICK c \in Children : child[c].at = "zombie" /\ child'[c].at = "released"
      BY <1>2, ReleaseKeeps DEF CgiRelease
    <3>2. c # cgi.child /\ c \in In("released")'
      BY <2>4, <3>1 DEF Ready, Gone, In
    <3>3. ASSUME intr = 1 PROVE \E a, b \in In("released")' \ {cgi.child} : a # b
      <4>1. PICK a \in In("released") : a # cgi.child
        BY <3>3 DEF Programs, Interruptions
      <4>2. a \in In("released")' /\ a # c
        BY <2>1, <3>1, <4>1 DEF Remembered, In
      <4> QED BY <3>2, <4>1, <4>2
    <3> QED BY <3>2, <3>3
  <2>5. CASE at = "select" /\ ~Ready /\ intr' = 1 /\ UNCHANGED <<at, cgi, code>>
    <3>1. DocumentTypeOK'
      BY <1>1, <2>5 DEF DocumentTypeOK
    <3>2. Interruptions'
      <4>1. In("released") \subseteq In("released")'
        BY <2>1 DEF Remembered, In
      <4>2. cgi.twice => \E a, b \in In("released")' \ {cgi.child} : a # b
        BY <4>1 DEF Programs, Interruptions
      <4>3. \E a \in In("released")' : a # cgi.child
        BY <2>4, <2>5
      <4> QED BY <2>5, <4>2, <4>3 DEF Interruptions
    <3>3. (cgi.got + cgi.output + cgi.more <= CgiMax)' /\ at' # "idle"
      BY <1>1, <2>5
    <3> QED BY <2>1, <3>1, <3>2, <3>3 DEF Programs
  <2>6. CASE at = "select" /\ ~Ready /\ intr = 1 /\ Gathered([cgi EXCEPT !.twice = TRUE]) /\ UNCHANGED intr
    <3> DEFINE program == [cgi EXCEPT !.twice = TRUE]
    <3>1. /\ program \in Cgi /\ program.twice /\ program.got = cgi.got /\ program.output = cgi.output
          /\ program.more = cgi.more /\ program.child = cgi.child
      BY <1>1 DEF Cgi
    <3> HIDE DEF program
    <3> QED BY <1>1, <2>1, <2>4, <2>6, <3>1, GatheredKeeps DEF program
  <2> QED BY <1>2, <2>2, <2>3, <2>5, <2>6 DEF CgiRelease
<1>3. ASSUME UNCHANGED process, ~CgiRelease PROVE ProcessOK' /\ DocumentTypeOK' /\ Programs'
  <2>1. ProcessOK' /\ child' = child /\ Remembered /\ In("released")' = In("released")
    BY <1>3, SameProcesses DEF Remembered, In
  <2>2. CASE WriteContent
    <3>1. cgi.content - 1 \in 0..CgiMax /\ cgi.input + 1 \in 0..Capacity
      BY <1>1, <2>2 DEF WriteContent, Cgi
    <3>2. /\ cgi' \in Cgi /\ cgi'.got = cgi.got /\ cgi'.output = cgi.output /\ cgi'.more = cgi.more
          /\ cgi'.child = cgi.child /\ cgi'.twice = cgi.twice
      BY <1>1, <2>2, <3>1 DEF WriteContent, Cgi
    <3> QED BY <1>1, <2>1, <2>2, <3>2, UnderWay DEF WriteContent
  <2>3. CASE ContentDone
    <3>1. /\ cgi' \in Cgi /\ cgi'.got = cgi.got /\ cgi'.output = cgi.output /\ cgi'.more = cgi.more
          /\ cgi'.child = cgi.child /\ cgi'.twice = cgi.twice
      BY <1>1, <2>3 DEF ContentDone, Cgi
    <3> QED BY <1>1, <2>1, <2>3, <3>1, UnderWay DEF ContentDone
  <2>4. CASE CgiSelect
    BY <1>1, <2>1, <2>4, UnderWay DEF CgiSelect
  <2>5. CASE CgiRead
    <3>1. cgi.got + 1 \in 0..CgiMax /\ cgi.output - 1 \in 0..Capacity
      BY <1>1, <2>5 DEF CgiRead, Cgi
    <3>2. /\ cgi' \in Cgi /\ cgi'.more = cgi.more /\ cgi'.child = cgi.child /\ cgi'.twice = cgi.twice
          /\ cgi'.got = cgi.got + 1 /\ cgi'.output = cgi.output - 1
      BY <1>1, <2>5, <3>1 DEF CgiRead, Cgi
    <3>3. cgi'.got + cgi'.output + cgi'.more <= CgiMax
      BY <1>1, <3>2 DEF Cgi
    <3> QED BY <1>1, <2>1, <2>5, <3>2, <3>3, UnderWay DEF CgiRead
  <2>6. CASE CgiEnd
    <3>1. cgi'.child = cgi.child => Gone'
      BY <2>1, <2>6 DEF CgiEnd, Gone, In
    <3>2. intr' = intr /\ Gathered(cgi) /\ cgi.output = 0
      BY <2>6 DEF CgiEnd
    <3> QED BY <1>1, <2>1, <3>1, <3>2, GatheredKeeps DEF Programs, Interruptions
  <2>7. CASE CgiTimeOut
    <3> DEFINE program == [cgi EXCEPT !.late = TRUE]
    <3>1. /\ program \in Cgi /\ program.late /\ program.got = cgi.got /\ program.output = cgi.output
          /\ program.more = cgi.more /\ program.child = cgi.child /\ program.twice = cgi.twice
      BY <1>1 DEF Cgi
    <3>2. intr' = intr /\ Gathered(program)
      BY <2>7 DEF CgiTimeOut
    <3> HIDE DEF program
    <3> QED BY <1>1, <2>1, <3>1, <3>2, GatheredKeeps DEF Programs, Interruptions
  <2>8. CASE ProgramReads
    <3>1. /\ cgi' \in Cgi /\ cgi'.got = cgi.got /\ cgi'.output = cgi.output /\ cgi'.more = cgi.more
          /\ cgi'.late = cgi.late /\ cgi'.child = cgi.child /\ cgi'.twice = cgi.twice
          /\ cgi'.whose = cgi.whose
      BY <1>1, <2>8 DEF ProgramReads, Cgi
    <3>2. Gone' <=> Gone
      BY <2>1, <3>1 DEF Gone, In
    <3>3. EndOf(cgi.whose)' = EndOf(cgi.whose) /\ Interruptions'
      BY <2>1, <2>8, <3>1, InterruptionsStay DEF EndOf, ProgramReads, Programs
    <3> QED BY <1>1, <2>1, <2>8, <3>1, <3>2, <3>3 DEF ProgramReads, DocumentTypeOK, Programs
  <2>9. CASE ProgramWrites
    <3>1. cgi.more - 1 \in 0..CgiMax /\ cgi.output + 1 \in 0..Capacity
      BY <1>1, <2>9 DEF ProgramWrites, Cgi
    <3>2. /\ cgi' \in Cgi /\ cgi'.more = cgi.more - 1 /\ cgi'.child = cgi.child /\ cgi'.twice = cgi.twice
          /\ cgi'.got = cgi.got /\ cgi'.output = cgi.output + 1
      BY <1>1, <2>9, <3>1 DEF ProgramWrites, Cgi
    <3>3. cgi'.got + cgi'.output + cgi'.more <= CgiMax
      BY <1>1, <3>2 DEF Cgi
    <3> QED BY <1>1, <2>1, <2>9, <3>2, <3>3, UnderWay DEF ProgramWrites
  <2> QED BY <1>3, <2>2, <2>3, <2>4, <2>5, <2>6, <2>7, <2>8, <2>9 DEF CgiNext, CgiServer
<1> QED
  BY <1>2, <1>3 DEF CgiNext, CgiServer, WriteContent, ContentDone, CgiSelect, CgiRead, CgiEnd, CgiTimeOut,
     ProgramReads, ProgramWrites

-----------------------------------------------------------------------------
(* The client's text *)

LEMMA SameText ==
  ASSUME asked' = asked
  PROVE  /\ Positions' = Positions /\ Got' = Got /\ Answer' = Answer
         /\ \A r, n : Within(r, n)' = Within(r, n)
<1>1. Positions' = Positions
  BY DEF Positions
<1>2. Got' = Got /\ Answer' = Answer
  BY <1>1 DEF Got, Answer
<1>3. \A r, n : Within(r, n)' = Within(r, n)
  BY DEF Within
<1> QED BY <1>1, <1>2, <1>3

LEMMA Asked ==
  ASSUME asked \in Scripts, NEW r \in 1..MaxRequests
  PROVE  /\ asked[r] \in Request /\ asked[r].body \in 0..CgiMax /\ asked[r].body \in Nat
         /\ MaxRequests \in Nat /\ CgiMax \in Nat
BY ConnectionAssumption, CgiDocumentAssumption DEF Request

\* A position is of a request, or the end.
LEMMA Position ==
  ASSUME asked \in Scripts, NEW p \in Positions
  PROVE  /\ p = [of |-> p.of, n |-> p.n] /\ p.of \in Nat /\ p.n \in Nat
         /\ \/ p.of \in 1..MaxRequests /\ p.n < 4 + asked[p.of].body
            \/ p = Start(MaxRequests + 1)
<1>1. p \in [of : 1..MaxRequests + 1, n : 0..CgiMax + 3] /\ MaxRequests \in Nat /\ CgiMax \in Nat
  BY ConnectionAssumption, CgiDocumentAssumption DEF Positions
<1>2. p = [of |-> p.of, n |-> p.n] /\ p.of \in 1..MaxRequests + 1 /\ p.n \in Nat
  BY <1>1
<1>3. CASE p.of > MaxRequests
  <2>1. p.of = MaxRequests + 1 /\ p.n < 1
    BY <1>1, <1>2, <1>3 DEF Positions
  <2>2. p.n = 0
    BY <1>2, <2>1
  <2> QED BY <1>1, <1>2, <2>1, <2>2 DEF Start
<1>4. CASE ~(p.of > MaxRequests)
  BY <1>1, <1>2, <1>4 DEF Positions
<1> QED BY <1>3, <1>4

LEMMA Starts ==
  ASSUME asked \in Scripts, NEW r \in 1..MaxRequests + 1
  PROVE  Start(r) \in Positions
<1>1. MaxRequests \in Nat /\ CgiMax \in Nat
  BY ConnectionAssumption, CgiDocumentAssumption
<1>2. Start(r) \in [of : 1..MaxRequests + 1, n : 0..CgiMax + 3]
  BY <1>1 DEF Start
<1>3. CASE r > MaxRequests
  BY <1>2, <1>3 DEF Positions, Start
<1>4. CASE ~(r > MaxRequests)
  <2>1. r \in 1..MaxRequests
    BY <1>1, <1>4
  <2>2. 0 < 4 + asked[r].body
    BY <2>1, Asked
  <2> QED BY <1>2, <1>4, <2>2 DEF Positions, Start
<1> QED BY <1>3, <1>4

\* What is after a unit.
LEMMA Afters ==
  ASSUME asked \in Scripts, NEW p \in Positions, p.of <= MaxRequests
  PROVE  /\ After(p) \in Positions /\ After(p) = Within(p.of, p.n + 1)
         /\ UpTo(p, After(p))
<1>1. p.of \in 1..MaxRequests /\ p.n < 4 + asked[p.of].body /\ p.n \in Nat /\ p = [of |-> p.of, n |-> p.n]
  BY Position, ConnectionAssumption DEF Start
<1>2. asked[p.of].body \in 0..CgiMax /\ asked[p.of].body \in Nat /\ MaxRequests \in Nat /\ CgiMax \in Nat
  BY <1>1, Asked
<1>3. CASE p.n < 3 + asked[p.of].body
  <2>1. After(p) = [of |-> p.of, n |-> p.n + 1]
    BY <1>1, <1>3 DEF After
  <2>2. p.n + 1 # 4 + asked[p.of].body /\ p.n + 1 < 4 + asked[p.of].body /\ p.n + 1 \in 0..CgiMax + 3
    BY <1>1, <1>2, <1>3
  <2>3. p.of \in 1..MaxRequests + 1 /\ ~(p.of > MaxRequests)
    BY <1>1, <1>2
  <2>4. After(p) \in Positions
    BY <2>1, <2>2, <2>3 DEF Positions
  <2>5. UpTo(p, After(p))
    BY <1>1, <2>1 DEF UpTo
  <2> QED BY <2>1, <2>2, <2>4, <2>5 DEF Within
<1>4. CASE ~(p.n < 3 + asked[p.of].body)
  <2>1. After(p) = Start(p.of + 1) /\ p.n + 1 = 4 + asked[p.of].body
    BY <1>1, <1>2, <1>4 DEF After
  <2>2. p.of + 1 \in 1..MaxRequests + 1
    BY <1>1, <1>2
  <2>3. UpTo(p, After(p))
    BY <1>1, <2>1 DEF UpTo, Start
  <2> QED BY <2>1, <2>2, <2>3, Starts DEF Within
<1> QED BY <1>3, <1>4

\* One who reads does not read beyond what has been sent.
LEMMA ReadOn ==
  ASSUME ConnOK, Available, pos' = After(pos), UNCHANGED <<asked, sent>>
  PROVE  /\ pos.of \in 1..MaxRequests /\ pos = [of |-> pos.of, n |-> pos.n] /\ pos.n \in Nat
         /\ asked[pos.of] \in Request /\ asked[pos.of].body \in 0..CgiMax
         /\ pos' \in Positions /\ UpTo(pos, sent)' /\ pos' = Within(pos.of, pos.n + 1)
<1>1. asked \in Scripts /\ pos \in Positions /\ sent \in Positions /\ UpTo(pos, sent) /\ pos # sent
  BY DEF ConnOK, Available
<1>2. /\ pos = [of |-> pos.of, n |-> pos.n] /\ pos.of \in Nat /\ pos.n \in Nat
      /\ sent = [of |-> sent.of, n |-> sent.n] /\ sent.of \in Nat /\ sent.n \in Nat
      /\ MaxRequests \in Nat
  BY <1>1, Position, ConnectionAssumption
<1>3. pos.of < sent.of \/ (pos.of = sent.of /\ pos.n < sent.n)
  BY <1>1, <1>2 DEF UpTo
<1>4. sent.of <= MaxRequests + 1 /\ (sent.of = MaxRequests + 1 => sent.n = 0)
  BY <1>1, <1>2, Position DEF Start
<1>5. pos.of \in 1..MaxRequests
  <2>1. pos.of <= MaxRequests
    BY <1>2, <1>3, <1>4
  <2> QED BY <1>1, <1>2, <2>1, Position DEF Start
<1>6. asked[pos.of] \in Request /\ asked[pos.of].body \in 0..CgiMax /\ asked[pos.of].body \in Nat
  BY <1>1, <1>5, Asked
<1>7. pos' \in Positions /\ pos' = Within(pos.of, pos.n + 1)
  BY <1>1, <1>5, <1>2, Afters
<1>8. UpTo(pos, sent)'
  <2>1. CASE pos.n + 1 = 4 + asked[pos.of].body
    <3>1. pos'.of = pos.of + 1 /\ pos'.n = 0
      BY <1>7, <2>1 DEF Within, Start
    <3>2. pos.of < sent.of
      <4> SUFFICES ASSUME pos.of = sent.of PROVE FALSE
        BY <1>3
      <4>1. sent.n < 4 + asked[pos.of].body
        BY <1>1, <1>2, <1>5, Position DEF Start
      <4> QED BY <1>2, <1>3, <1>6, <2>1, <4>1
    <3> QED BY <1>2, <3>1, <3>2 DEF UpTo
  <2>2. CASE pos.n + 1 # 4 + asked[pos.of].body
    <3>1. pos'.of = pos.of /\ pos'.n = pos.n + 1
      BY <1>7, <2>2 DEF Within
    <3> QED BY <1>2, <1>3, <3>1 DEF UpTo
  <2> QED BY <2>1, <2>2
<1> QED BY <1>2, <1>5, <1>6, <1>7, <1>8

\* The units of a request, and what a line is in the middle of.
LEMMA UnitKinds ==
  ASSUME NEW p
  PROVE  /\ p.n = 0 => Is(p) = "line"
         /\ p.n = 1 => Is(p) = "rest"
         /\ p.n = 2 => Is(p) = "head"
         /\ p.n = 3 => Is(p) = "end"
BY DEF Is

-----------------------------------------------------------------------------
(* The steps *)

\* A step that leaves the processes and the program alone.
LEMMA Elsewhere ==
  ASSUME Inv, UNCHANGED <<process, document>>, pc' = pc \/ (pc' # "cgi" /\ at = "idle")
  PROVE  ProcessOK' /\ DocumentTypeOK' /\ Programs' /\ (pc' # "cgi" => at' = "idle")
<1>1. ProcessOK' /\ child' = child
  BY SameProcesses DEF Inv
<1>2. Remembered /\ StayGone
  BY <1>1 DEF Remembered, StayGone, In
<1>3. DocumentTypeOK' /\ Programs'
  BY <1>2, OtherPrograms DEF Inv
<1> QED BY <1>1, <1>3 DEF Inv, document

\* What is known of the text and the answers does not depend on the rest.
LEMMA SameConn ==
  ASSUME ConnOK, cut \/ (Reading /\ Answers), UNCHANGED conn
  PROVE  ConnOK' /\ (~cut' => Reading' /\ Answers')
<1>1. /\ Positions' = Positions /\ Got' = Got /\ Answer' = Answer
      /\ \A r, n : Within(r, n)' = Within(r, n)
  BY SameText DEF conn
<1>2. ConnOK'
  BY <1>1 DEF conn, ConnOK, UpTo
<1>3. ASSUME ~cut' PROVE Reading' /\ Answers'
  <2>1. Reading /\ Answers
    BY <1>3 DEF conn
  <2>2. Current' = Current /\ Over' = Over /\ InRequest' = InRequest /\ Between' = Between
    BY DEF conn, Current, Over, InRequest, Between
  <2>3. Reading'
    BY <1>1, <2>1, <2>2 DEF conn, Reading
  <2>4. Answers'
    BY <2>1 DEF conn, Answers
  <2> QED BY <2>3, <2>4
<1> QED BY <1>2, <1>3

LEMMA SendKeeps == ASSUME Inv, Send PROVE Inv'
<1>1. /\ UNCHANGED <<process, document, asked, there, pc, pos, mid, req, kept, open, result, answers, cut>>
      /\ there /\ sent.of <= MaxRequests /\ sent' = After(sent)
  BY DEF Send
<1>2. ConnOK
  BY DEF Inv
<1>3. /\ Positions' = Positions /\ Got' = Got /\ Answer' = Answer
      /\ \A r, n : Within(r, n)' = Within(r, n)
  BY <1>1, SameText
<1>4. sent' \in Positions /\ UpTo(sent, sent')
  BY <1>1, <1>2, Afters DEF ConnOK
<1>5. UpTo(pos, sent')
  <2>1. asked \in Scripts /\ pos \in Positions /\ sent \in Positions /\ UpTo(pos, sent)
    BY <1>2 DEF ConnOK
  <2>2. pos.of \in Nat /\ pos.n \in Nat /\ sent.of \in Nat /\ sent.n \in Nat /\ sent'.of \in Nat /\ sent'.n \in Nat
    BY <1>4, <2>1, Position
  <2> QED BY <1>4, <2>1, <2>2 DEF UpTo
<1>6. ConnOK'
  BY <1>1, <1>2, <1>3, <1>4, <1>5 DEF ConnOK, UpTo
<1>7. ASSUME ~cut' PROVE Reading' /\ Answers'
  <2>1. Reading /\ Answers /\ ~Over
    BY <1>1, <1>7 DEF Inv, Over
  <2>2. Current' = Current /\ InRequest' = InRequest /\ Between' = Between
    BY <1>1 DEF Current, InRequest, Between
  <2>3. Reading'
    BY <1>1, <1>3, <2>1, <2>2 DEF Reading
  <2>4. Answers'
    BY <1>1, <2>1 DEF Answers
  <2> QED BY <2>3, <2>4
<1> QED BY <1>1, <1>6, <1>7, Elsewhere DEF Inv

LEMMA LeaveKeeps == ASSUME Inv, Leave PROVE Inv'
<1>1. /\ UNCHANGED <<process, document, asked, sent, pc, pos, mid, req, kept, open, result, answers, cut>>
      /\ there /\ there' = FALSE
  BY DEF Leave
<1>2. /\ Positions' = Positions /\ Got' = Got /\ Answer' = Answer
      /\ \A r, n : Within(r, n)' = Within(r, n)
  BY <1>1, SameText
<1>3. ConnOK'
  BY <1>1, <1>2 DEF Inv, ConnOK, UpTo
<1>4. ASSUME ~cut' PROVE Reading' /\ Answers'
  <2>1. Reading /\ Answers /\ ~Over
    BY <1>1, <1>4 DEF Inv, Over
  <2>2. Current' = Current /\ InRequest' = InRequest /\ Between' = Between
    BY <1>1 DEF Current, InRequest, Between
  <2>3. Reading'
    BY <1>1, <1>2, <2>1, <2>2 DEF Reading
  <2>4. Answers'
    BY <1>1, <2>1 DEF Answers
  <2> QED BY <2>3, <2>4
<1> QED BY <1>1, <1>3, <1>4, Elsewhere DEF Inv

\* http_parse_request.
LEMMA ReadLineKeeps == ASSUME Inv, ReadLine PROVE Inv'
<1>1. /\ UNCHANGED <<process, document, asked, sent, there, kept, open, result, answers, cut>>
      /\ pc = "line" /\ Available /\ pos' = After(pos) /\ mid' = (Is(pos) \in {"line", "body"})
      /\ req' = IF mid THEN req ELSE Parsed(pos)
      /\ pc' = IF mid' THEN "line" ELSE "heads"
  BY DEF ReadLine, ReadUnit
<1>2. ConnOK
  BY DEF Inv
<1>3. /\ Positions' = Positions /\ Got' = Got /\ Answer' = Answer
      /\ \A r, n : Within(r, n)' = Within(r, n)
  BY <1>1, SameText
<1>4. /\ pos.of \in 1..MaxRequests /\ pos = [of |-> pos.of, n |-> pos.n] /\ pos.n \in Nat
      /\ asked[pos.of] \in Request /\ asked[pos.of].body \in 0..CgiMax
      /\ pos' \in Positions /\ UpTo(pos, sent)' /\ pos' = Within(pos.of, pos.n + 1)
  BY <1>1, <1>2, ReadOn
<1>5. Parsed(pos) \in Got /\ Parsed(pos).from = pos.of /\ Parsed(pos).first = pos
  <2>1. NoRequest \in [from : 0..MaxRequests, known : BOOLEAN, flag : BOOLEAN, length : 0..CgiMax,
                       need : 0..CgiMax, first : {Start(1)}]
    BY ConnectionAssumption, CgiDocumentAssumption DEF NoRequest
  <2>2. asked[pos.of].known \in BOOLEAN /\ kept \in BOOLEAN /\ pos \in Positions /\ pos.of \in 0..MaxRequests
    BY <1>2, <1>4 DEF ConnOK, Request
  <2> QED BY <2>1, <2>2 DEF Parsed, Got
<1>6. req' \in Got /\ pc' \in States /\ mid' \in BOOLEAN
  BY <1>1, <1>2, <1>5 DEF ConnOK, States
<1>7. ConnOK'
  BY <1>1, <1>2, <1>3, <1>4, <1>6 DEF ConnOK
<1>8. ASSUME ~cut' PROVE Reading' /\ Answers'
  <2>1. Reading /\ Answers /\ ~Over /\ Current' = Current
    BY <1>1, <1>8 DEF Inv, Over, Available, Current
  <2>2. CASE mid
    <3>1. pos = [of |-> Current, n |-> 1] /\ req' = req /\ InRequest
      BY <1>1, <2>1, <2>2 DEF Reading, InRequest
    <3>2. ~mid' /\ pc' = "heads"
      <4>1. Is(pos) = "rest"
        BY <3>1, UnitKinds
      <4> QED BY <1>1, <4>1
    <3>3. pos' = [of |-> Current, n |-> 2]
      BY <1>4, <3>1 DEF Within
    <3>4. Reading'
      BY <1>1, <2>1, <3>1, <3>2, <3>3 DEF Reading, Between
    <3> QED BY <1>1, <2>1, <3>2, <3>4 DEF Answers
  <2>3. CASE ~mid
    <3>1. pos = Start(Current) /\ req' = Parsed(pos) /\ Between
      BY <1>1, <2>1, <2>3 DEF Reading, Between
    <3>2. mid' /\ pc' = "line" /\ pos.of = Current /\ pos.n = 0
      <4>1. pos.of = Current /\ pos.n = 0
        BY <3>1 DEF Start
      <4>2. Is(pos) = "line"
        BY <4>1, UnitKinds
      <4> QED BY <1>1, <4>1, <4>2
    <3>3. pos' = [of |-> Current, n |-> 1]
      BY <1>4, <3>2 DEF Within
    <3>4. answers # <<>> => answers[Len(answers)].next = Start(Current)
      BY <2>1, <3>1 DEF Reading
    <3>5. Reading'
      BY <1>1, <1>4, <1>5, <2>1, <3>1, <3>2, <3>3, <3>4 DEF Reading, Between
    <3> QED BY <1>1, <2>1, <3>2, <3>5 DEF Answers
  <2> QED BY <2>2, <2>3
<1> QED BY <1>1, <1>7, <1>8, Elsewhere DEF Inv

\* mime_headers_from_fd.
LEMMA ReadHeaderKeeps == ASSUME Inv, ReadHeader PROVE Inv'
<1>1. /\ UNCHANGED <<process, document, asked, sent, there, kept, open, result, answers, cut>>
      /\ pc = "heads" /\ Available /\ pos' = After(pos) /\ mid' = (Is(pos) \in {"line", "body"})
      /\ pc' = IF ~mid /\ Is(pos) = "end" THEN "asked" ELSE "heads"
      /\ req' = IF ~mid /\ Is(pos) = "head"
                THEN [req EXCEPT !.length = asked[pos.of].body, !.need = asked[pos.of].body,
                                 !.flag = @ \/ asked[pos.of].keep]
                ELSE req
  BY DEF ReadHeader, ReadUnit, Content
<1>2. ConnOK
  BY DEF Inv
<1>3. /\ Positions' = Positions /\ Got' = Got /\ Answer' = Answer
      /\ \A r, n : Within(r, n)' = Within(r, n)
  BY <1>1, SameText
<1>4. /\ pos.of \in 1..MaxRequests /\ pos = [of |-> pos.of, n |-> pos.n] /\ pos.n \in Nat
      /\ asked[pos.of] \in Request /\ asked[pos.of].body \in 0..CgiMax
      /\ pos' \in Positions /\ UpTo(pos, sent)' /\ pos' = Within(pos.of, pos.n + 1)
  BY <1>1, <1>2, ReadOn
<1>5. req' \in Got
  <2>1. req \in Got /\ asked[pos.of].keep \in BOOLEAN
    BY <1>2, <1>4 DEF ConnOK, Request
  <2> QED BY <1>1, <1>4, <2>1 DEF Got
<1>6. pc' \in States /\ mid' \in BOOLEAN
  BY <1>1 DEF States
<1>7. ConnOK'
  BY <1>1, <1>2, <1>3, <1>4, <1>5, <1>6 DEF ConnOK
<1>8. ASSUME ~cut' PROVE Reading' /\ Answers'
  <2>1. Reading /\ Answers /\ Current' = Current /\ InRequest /\ ~mid
    BY <1>1, <1>8 DEF Inv, Current, Reading, InRequest
  <2>2. CASE pos = [of |-> Current, n |-> 2]
    <3>1. ~mid' /\ pc' = "heads" /\ Is(pos) = "head"
      <4>1. Is(pos) = "head"
        BY <2>2, UnitKinds
      <4> QED BY <1>1, <4>1
    <3>2. pos' = [of |-> Current, n |-> 3]
      BY <1>4, <2>2 DEF Within
    <3>3. req'.need = asked[Current].body /\ req'.from = req.from /\ req'.first = req.first
      BY <1>1, <1>2, <2>1, <2>2, <3>1 DEF ConnOK, Got
    <3>4. Reading'
      BY <1>1, <2>1, <3>1, <3>2, <3>3 DEF Reading, Between
    <3> QED BY <1>1, <2>1, <3>1, <3>4 DEF Answers
  <2>3. CASE pos = [of |-> Current, n |-> 3] /\ req.need = asked[Current].body
    <3>1. ~mid' /\ pc' = "asked" /\ req' = req
      <4>1. Is(pos) = "end"
        BY <2>3, UnitKinds
      <4> QED BY <1>1, <2>1, <4>1
    <3>2. pos' = Within(Current, 4)
      BY <1>4, <2>3
    <3>3. Reading'
      BY <1>1, <1>3, <2>1, <2>3, <3>1, <3>2 DEF Reading, Between
    <3> QED BY <1>1, <2>1, <3>1, <3>3 DEF Answers
  <2> QED BY <1>1, <2>1, <2>2, <2>3 DEF Reading
<1> QED BY <1>1, <1>7, <1>8, Elsewhere DEF Inv

\* A line that is cut: nothing is promised of what comes after it.
LEMMA CutKeeps ==
  ASSUME Inv, CutLine \/ CutHeader, cut' = TRUE
  PROVE  ConnOK' /\ ~(~cut') /\ pc' # "cgi" /\ pc # "cgi"
<1>1. /\ UNCHANGED <<asked, sent, there, kept, open, result, answers>>
      /\ mid' = FALSE /\ pos' = pos /\ req' = req
  BY DEF CutLine, CutHeader, Cut
<1>2. pc' \in States /\ pc' # "cgi" /\ pc # "cgi"
  BY DEF CutLine, CutHeader, States
<1>3. /\ Positions' = Positions /\ Got' = Got /\ Answer' = Answer
  BY <1>1, SameText
<1>4. ConnOK'
  BY <1>1, <1>2, <1>3 DEF Inv, ConnOK, UpTo
<1> QED BY <1>2, <1>4

LEMMA PauseKeeps == ASSUME Inv, Pause PROVE Inv'
<1>1. (CutLine \/ CutHeader) /\ cut' = TRUE /\ UNCHANGED <<process, document>>
  BY DEF Pause
<1>2. ConnOK' /\ ~(~cut') /\ pc' # "cgi" /\ pc # "cgi"
  BY <1>1, CutKeeps
<1>3. at = "idle"
  BY <1>2 DEF Inv
<1> QED BY <1>1, <1>2, <1>3, Elsewhere DEF Inv

\* A step to another place, by which nothing is read or answered.
LEMMA MovesOn ==
  ASSUME Inv, UNCHANGED <<asked, sent, there, pos, mid, req, kept, answers, cut>>,
         pc' \in States, open' \in BOOLEAN, result' \in [code : Codes, last : BOOLEAN]
  PROVE  /\ ConnOK' /\ Current' = Current /\ Over' = Over
         /\ \A r, n : Within(r, n)' = Within(r, n)
<1>1. /\ Positions' = Positions /\ Got' = Got /\ Answer' = Answer
      /\ \A r, n : Within(r, n)' = Within(r, n)
  BY SameText
<1>2. ConnOK'
  BY <1>1 DEF Inv, ConnOK, UpTo
<1> QED BY <1>1, <1>2 DEF Current, Over

LEMMA RedirectedKeeps == ASSUME Inv, Redirected PROVE Inv'
<1>1. /\ UNCHANGED <<process, document, asked, sent, there, pos, mid, req, kept, open, answers, cut>>
      /\ pc = "asked" /\ pc' = "write" /\ result' = [code |-> 302, last |-> TRUE]
  BY DEF Redirected
<1>2. pc' \in States /\ open' \in BOOLEAN /\ result' \in [code : Codes, last : BOOLEAN] /\ result'.last
  BY <1>1 DEF Inv, ConnOK, States, Codes
<1>3. ConnOK' /\ Current' = Current /\ Over' = Over /\ \A r, n : Within(r, n)' = Within(r, n)
  BY <1>1, <1>2, MovesOn
<1>4. ASSUME ~cut' PROVE Reading' /\ Answers'
  BY <1>1, <1>2, <1>3, <1>4 DEF Inv, Reading, Answers, InRequest, Between
<1>5. at = "idle"
  BY <1>1 DEF Inv
<1> QED BY <1>1, <1>3, <1>4, <1>5, Elsewhere DEF Inv

LEMMA HandleKeeps == ASSUME Inv, Handle PROVE Inv'
<1>1. /\ UNCHANGED <<process, document, asked, sent, there, pos, mid, req, kept, open, result, answers, cut>>
      /\ pc = "asked" /\ pc' \in {"content", "crashed"}
  BY DEF Handle
<1>2. pc' \in States /\ open' \in BOOLEAN /\ result' \in [code : Codes, last : BOOLEAN]
  BY <1>1 DEF Inv, ConnOK, States
<1>3. ConnOK' /\ Current' = Current /\ Over' = Over /\ \A r, n : Within(r, n)' = Within(r, n)
  BY <1>1, <1>2, MovesOn
<1>4. ASSUME ~cut' PROVE Reading' /\ Answers'
  <2>1. Reading /\ Answers /\ InRequest /\ ~mid /\ open /\ pos = Within(Current, 4) /\ req.need = asked[Current].body
    BY <1>1, <1>4 DEF Inv, Reading, Answers, InRequest
  <2>2. asked[Current].body \in Nat
    <3>1. Current \in 1..MaxRequests
      BY <2>1, ConnectionAssumption DEF Inv, ConnOK, Reading, Current
    <3> QED BY <3>1, Asked DEF Inv, ConnOK
  <2>3. pos = Within(Current, 4 + asked[Current].body - req.need) /\ req.need <= asked[Current].body
    BY <2>1, <2>2
  <2>4. Reading'
    BY <1>1, <1>3, <2>1, <2>3 DEF Reading, InRequest, Between
  <2> QED BY <1>1, <1>3, <2>1, <2>4 DEF Answers
<1>5. at = "idle"
  BY <1>1 DEF Inv
<1> QED BY <1>1, <1>3, <1>4, <1>5, Elsewhere DEF Inv

\* mhttpd_read.
LEMMA ReadContentKeeps == ASSUME Inv, ReadContent PROVE Inv'
<1>1. /\ UNCHANGED <<process, document, asked, sent, there, pc, mid, kept, open, result, answers, cut>>
      /\ pc = "content" /\ req.need > 0
      /\ \/ Available /\ pos' = After(pos) /\ req' = [req EXCEPT !.need = @ - 1]
         \/ ~Available /\ ~there /\ req' = [req EXCEPT !.need = 0] /\ pos' = pos
  BY DEF ReadContent
<1>2. ConnOK /\ req \in Got
  BY DEF Inv, ConnOK
<1>3. /\ Positions' = Positions /\ Got' = Got /\ Answer' = Answer
      /\ \A r, n : Within(r, n)' = Within(r, n)
  BY <1>1, SameText
<1>4. req' \in Got /\ req'.from = req.from /\ req'.first = req.first /\ req.need \in Nat
  BY <1>1, <1>2, CgiDocumentAssumption DEF Got
<1>5. CASE Available /\ pos' = After(pos) /\ req' = [req EXCEPT !.need = @ - 1]
  <2>1. /\ pos.of \in 1..MaxRequests /\ pos = [of |-> pos.of, n |-> pos.n] /\ pos.n \in Nat
        /\ asked[pos.of] \in Request /\ asked[pos.of].body \in 0..CgiMax
        /\ pos' \in Positions /\ UpTo(pos, sent)' /\ pos' = Within(pos.of, pos.n + 1)
    BY <1>1, <1>2, <1>5, ReadOn
  <2>2. ConnOK'
    BY <1>1, <1>2, <1>3, <1>4, <2>1 DEF ConnOK
  <2>3. ASSUME ~cut' PROVE Reading' /\ Answers'
    <3>1. Reading /\ Answers /\ ~Over /\ Current' = Current /\ InRequest /\ ~mid
      BY <1>1, <1>5, <2>3 DEF Inv, Over, Available, Current, Reading, InRequest
    <3>2. Current \in 1..MaxRequests
      BY <3>1, ConnectionAssumption DEF Inv, ConnOK, Reading, Current
    <3>3. asked[Current].body \in Nat /\ req.need <= asked[Current].body
      BY <1>1, <1>2, <3>1, <3>2, Asked DEF ConnOK, Reading
    <3>4. pos = Within(Current, 4 + asked[Current].body - req.need)
      BY <1>1, <3>1 DEF Reading
    <3>5. pos = [of |-> Current, n |-> 4 + asked[Current].body - req.need]
      BY <1>1, <1>4, <3>3, <3>4 DEF Within
    <3>6. req'.need = req.need - 1
      BY <1>2, <1>5 DEF Got
    <3>7. pos.n + 1 = 4 + asked[Current].body - req'.need
      BY <1>4, <3>3, <3>5, <3>6
    <3>8. pos' = Within(Current, 4 + asked[Current].body - req'.need) /\ req'.need <= asked[Current].body
      BY <1>4, <2>1, <3>3, <3>5, <3>6, <3>7
    <3>9. Reading'
      BY <1>1, <1>3, <1>4, <3>1, <3>8 DEF Reading, InRequest, Between
    <3> QED BY <1>1, <3>1, <3>9 DEF Answers
  <2> QED BY <1>1, <2>2, <2>3, Elsewhere DEF Inv
<1>6. CASE ~Available /\ ~there /\ req' = [req EXCEPT !.need = 0] /\ pos' = pos
  <2>1. ConnOK'
    BY <1>1, <1>2, <1>3, <1>4, <1>6 DEF ConnOK, UpTo
  <2>2. ASSUME ~cut' PROVE Reading' /\ Answers'
    <3>1. Reading /\ Answers /\ Current' = Current /\ InRequest /\ ~mid
      BY <1>1, <2>2 DEF Inv, Current, Reading, InRequest
    <3>2. Current \in 1..MaxRequests
      BY <3>1, ConnectionAssumption DEF Inv, ConnOK, Reading, Current
    <3>3. asked[Current].body \in Nat /\ req'.need = 0
      BY <1>2, <1>6, <3>2, Asked DEF ConnOK, Got
    <3>4. Over' /\ req'.need <= asked[Current].body
      BY <1>1, <1>6, <3>3 DEF Over, Available
    <3>5. Reading'
      BY <1>1, <1>4, <3>1, <3>3, <3>4 DEF Reading, InRequest, Between
    <3> QED BY <1>1, <3>1, <3>5 DEF Answers
  <2> QED BY <1>1, <2>1, <2>2, Elsewhere DEF Inv
<1> QED BY <1>1, <1>5, <1>6

\* When a document is reached the whole request has been read, or the client is gone.
LEMMA ResolveKeeps == ASSUME Inv, Known, Resolve PROVE Inv'
<1>1. /\ UNCHANGED <<asked, sent, there, pos, mid, req, kept, open, result, answers, cut>>
      /\ pc = "content" /\ req.need = 0
      /\ \/ pc' \in {"page", "verbatim"} /\ UNCHANGED <<process, document>>
         \/ pc' = "cgi" /\ Execute(req.length, asked[req.from].most)
  BY DEF Resolve
<1>2. pc' \in States /\ open' \in BOOLEAN /\ result' \in [code : Codes, last : BOOLEAN]
  BY <1>1 DEF Inv, ConnOK, States
<1>3. ConnOK' /\ Current' = Current /\ Over' = Over /\ \A r, n : Within(r, n)' = Within(r, n)
  BY <1>1, <1>2, MovesOn
<1>4. ASSUME ~cut' PROVE Reading' /\ Answers'
  <2>1. Reading /\ Answers /\ InRequest /\ ~mid /\ open
    BY <1>1, <1>4 DEF Inv, Reading, Answers, InRequest
  <2>2. Current \in 1..MaxRequests
    BY <2>1, ConnectionAssumption DEF Inv, ConnOK, Reading, Current
  <2>3. asked[Current].body \in Nat
    BY <2>2, Asked DEF Inv, ConnOK
  <2>4. pos = Start(Current + 1) \/ Over
    <3>1. 4 + asked[Current].body - req.need = 4 + asked[Current].body
      BY <1>1, <2>3
    <3>2. pos = Within(Current, 4 + asked[Current].body - req.need) \/ Over
      BY <1>1, <2>1 DEF Reading
    <3> QED BY <3>1, <3>2 DEF Within
  <2>5. Reading'
    BY <1>1, <1>3, <2>1, <2>4 DEF Reading, InRequest, Between
  <2> QED BY <1>1, <1>3, <2>1, <2>5 DEF Answers
<1>5. CASE UNCHANGED <<process, document>> /\ pc' # "cgi"
  BY <1>1, <1>3, <1>4, <1>5, Elsewhere DEF Inv
<1>6. CASE pc' = "cgi" /\ Execute(req.length, asked[req.from].most)
  <2>1. req.length \in 0..CgiMax /\ req.from \in 1..MaxRequests
    BY <1>1, ConnectionAssumption DEF Inv, ConnOK, Got, Known
  <2>2. asked[req.from].most \in 0..CgiMax
    BY <2>1, Asked DEF Inv, ConnOK, Request
  <2> QED BY <1>3, <1>4, <1>6, <2>1, <2>2, ExecuteKeeps DEF Inv
<1> QED BY <1>1, <1>5, <1>6

\* The page's programs.
LEMMA PageProgramKeeps == ASSUME Inv, PageProgram \/ PageProgramEnd PROVE Inv'
<1>1. pc = "page" /\ UNCHANGED conn /\ UNCHANGED document
  BY DEF PageProgram, PageProgramEnd
<1>2. ProcessOK' /\ Remembered
  BY SpawnKeeps, KillKeeps DEF Inv, PageProgram, PageProgramEnd
<1>3. DocumentTypeOK' /\ Programs' /\ at' = at
  <2>1. DocumentTypeOK' /\ cgi' = cgi /\ at' = at /\ intr' = intr /\ pc' # "cgi"
    BY <1>1 DEF Inv, document, conn, DocumentTypeOK
  <2> QED BY <1>2, <2>1, InterruptionsStay DEF Inv, Programs
<1>4. ConnOK' /\ (~cut' => Reading' /\ Answers')
  BY <1>1, SameConn DEF Inv
<1> QED BY <1>1, <1>2, <1>3, <1>4 DEF Inv, conn

LEMMA PageClosesKeeps == ASSUME Inv, PageCloses PROVE Inv'
<1>1. /\ UNCHANGED <<process, document, asked, sent, there, pc, pos, mid, req, kept, result, answers, cut>>
      /\ pc = "page" /\ open' = FALSE
  BY DEF PageCloses
<1>2. pc' \in States /\ open' \in BOOLEAN /\ result' \in [code : Codes, last : BOOLEAN]
  BY <1>1 DEF Inv, ConnOK
<1>3. ConnOK' /\ Current' = Current /\ Over' = Over /\ \A r, n : Within(r, n)' = Within(r, n)
  BY <1>1, <1>2, MovesOn
<1>4. ASSUME ~cut' PROVE Reading' /\ Answers'
  BY <1>1, <1>3, <1>4 DEF Inv, Reading, Answers, InRequest, Between
<1> QED BY <1>1, <1>3, <1>4, Elsewhere DEF Inv

LEMMA PageEndKeeps == ASSUME Inv, PageEnd \/ CgiPage PROVE Inv'
<1>0. PageEnd \/ CgiPage
  OBVIOUS
<1>1. /\ UNCHANGED <<process, asked, sent, there, pos, mid, req, kept, open, answers, cut>>
      /\ pc \in {"page", "cgi"} /\ pc' = "write" /\ at = "idle"
  BY DEF Inv, PageEnd, CgiPage
<1>2. pc' \in States /\ open' \in BOOLEAN /\ result' \in [code : Codes, last : BOOLEAN]
  <2>1. code \in Codes /\ 200 \in Codes /\ 302 \in Codes /\ 404 \in Codes
    BY DEF Inv, DocumentTypeOK, Codes
  <2>2. CASE PageEnd
    <3>1. PICK c \in {200, 302, 404} : result' = [code |-> c, last |-> FALSE]
      BY <2>2 DEF PageEnd
    <3> QED BY <1>1, <2>1, <3>1 DEF Inv, ConnOK, States
  <2>3. CASE CgiPage
    <3>1. result' = [code |-> code, last |-> FALSE] \/ result' = [code |-> 302, last |-> FALSE]
      BY <2>3 DEF CgiPage
    <3>2. PICK c \in Codes : result' = [code |-> c, last |-> FALSE]
      BY <2>1, <3>1
    <3> QED BY <1>1, <3>2 DEF Inv, ConnOK, States
  <2> QED BY <1>0, <2>2, <2>3
<1>3. ConnOK' /\ Current' = Current /\ Over' = Over /\ \A r, n : Within(r, n)' = Within(r, n)
  BY <1>1, <1>2, MovesOn
<1>4. ASSUME ~cut' PROVE Reading' /\ Answers'
  BY <1>1, <1>3, <1>4 DEF Inv, Reading, Answers, InRequest, Between
<1>5. CASE PageEnd
  <2>1. UNCHANGED document
    BY <1>5 DEF PageEnd
  <2> QED BY <1>1, <1>3, <1>4, <2>1, Elsewhere DEF Inv
<1>6. CASE CgiPage
  <2>1. at' = "idle" /\ intr' = 0 /\ cgi' = NoCgi /\ code' = 0
    BY <1>1, <1>6 DEF CgiPage
  <2>2. NoCgi \in Cgi
    BY CgiDocumentAssumption, PageProcessAssumption DEF NoCgi, Cgi
  <2>3. DocumentTypeOK' /\ Programs'
    BY <1>1, <2>1, <2>2, CgiDocumentAssumption DEF DocumentTypeOK, Programs, Interruptions, NoCgi, Codes
  <2> QED BY <1>1, <1>3, <1>4, <2>1, <2>3, SameProcesses DEF Inv
<1> QED BY <1>0, <1>5, <1>6

LEMMA WaitKeeps == ASSUME Inv, Wait \/ WaitEnds \/ Finish PROVE Inv'
<1>1. /\ UNCHANGED <<process, document, asked, sent, there, pos, mid, req, kept, open, result, answers, cut>>
      /\ \/ pc = "wait" /\ open /\ pc' = "line"
         \/ pc = "wait" /\ pc' = "fin"
         \/ pc = "fin" /\ pc' = "done"
  BY DEF Wait, WaitEnds, Finish
<1>2. pc' \in States /\ open' \in BOOLEAN /\ result' \in [code : Codes, last : BOOLEAN]
  BY <1>1 DEF Inv, ConnOK, States
<1>3. ConnOK' /\ Current' = Current /\ Over' = Over /\ \A r, n : Within(r, n)' = Within(r, n)
  BY <1>1, <1>2, MovesOn
<1>4. ASSUME ~cut' PROVE Reading' /\ Answers'
  <2>1. Reading /\ Answers /\ ~mid
    BY <1>1, <1>4 DEF Inv, Reading
  <2>2. Reading'
    BY <1>1, <1>3, <2>1 DEF Reading, InRequest, Between
  <2> QED BY <1>1, <1>3, <2>1, <2>2 DEF Answers
<1>5. at = "idle"
  BY <1>1 DEF Inv
<1> QED BY <1>1, <1>3, <1>4, <1>5, Elsewhere DEF Inv

\* loop_over_connections writes the answer, and goes on with the connection or not.
LEMMA AnsweredKeeps ==
  ASSUME Inv, pc = "write", NEW how \in {"whole", "short", "none"}, Answered(how), cut' \in BOOLEAN,
         ~cut' => ~cut /\ (how = "whole" \/ (how = "none" /\ (~there \/ ~open)))
  PROVE  ConnOK' /\ (~cut' => Reading' /\ Answers') /\ pc' # "cgi"
<1> DEFINE new == [to |-> req.from, first |-> req.first, next |-> pos, how |-> how]
<1>1. /\ UNCHANGED <<asked, sent, there, pos, mid, req, open, result>>
      /\ answers' = Append(answers, new)
      /\ pc' \in {"wait", "fin"} /\ kept' \in BOOLEAN
      /\ pc' = "wait" => ~result.last
  BY DEF Answered
<1>2. ConnOK
  BY DEF Inv
<1>3. /\ Positions' = Positions /\ Got' = Got /\ Answer' = Answer
      /\ \A r, n : Within(r, n)' = Within(r, n)
  BY <1>1, SameText
<1>4. new \in Answer
  BY <1>2 DEF ConnOK, Got, Answer
<1>5. answers \in Seq(Answer) /\ Len(answers) \in Nat
  BY <1>2 DEF ConnOK
<1> HIDE DEF new
<1>6. /\ answers' \in Seq(Answer) /\ Len(answers') = Len(answers) + 1 /\ answers' # <<>>
      /\ answers'[Len(answers) + 1] = new
      /\ \A k \in 1..Len(answers) : answers'[k] = answers[k]
  BY <1>1, <1>4, <1>5
<1>7. pc' \in States
  BY <1>1 DEF States
<1>8. ConnOK'
  BY <1>1, <1>2, <1>3, <1>6, <1>7 DEF ConnOK, UpTo
<1>9. ASSUME ~cut' PROVE Reading' /\ Answers'
  <2>1. /\ Reading /\ Answers /\ InRequest /\ ~mid
        /\ how = "whole" \/ (how = "none" /\ (~there \/ ~open))
    BY <1>9 DEF Inv, Reading, InRequest
  <2>2. /\ Current' = Current + 1 /\ Current = Len(answers) + 1 /\ Over' = Over
        /\ Start(Current + 1) = Start(Current')
    BY <1>1, <1>6 DEF Current, Over
  <2>3. new.to = Current /\ new.first = Start(Current) /\ new.next = pos /\ new.how = how
    BY <2>1 DEF Reading, new
  <2>4. pc' = "wait" => pos = Start(Current + 1) \/ Over
    BY <1>1, <2>1 DEF Reading
  <2>5. answers'[Len(answers')].next = pos
    BY <1>6, <2>3
  <2>6. Reading'
    <3>1. ~InRequest' /\ (Between' => pc' = "wait") /\ ~mid' /\ pc' \notin {"line", "heads", "asked", "content", "page", "cgi", "write"}
      BY <1>1, <2>1 DEF InRequest, Between
    <3>2. Between' => /\ pos' = Start(Current') \/ Over'
                      /\ answers' # <<>> => answers'[Len(answers')].next = pos'
      BY <1>1, <2>2, <2>4, <2>5, <3>1
    <3> QED BY <3>1, <3>2 DEF Reading
  <2>7. Answers'
    <3> SUFFICES ASSUME NEW k \in 1..Len(answers')
                 PROVE  /\ answers'[k].to = k /\ answers'[k].first = Start(k)
                        /\ k < Len(answers') => answers'[k].next = Start(k + 1)
                        /\ \/ answers'[k].how = "whole" \/ ~there
                           \/ ~open /\ k = Len(answers')
      BY <1>1 DEF Answers
    <3>1. CASE k \in 1..Len(answers)
      <4>1. /\ answers[k].to = k /\ answers[k].first = Start(k)
            /\ k < Len(answers) => answers[k].next = Start(k + 1)
            /\ answers[k].how = "whole" \/ ~there
        BY <2>1, <3>1 DEF Answers
      <4>2. k = Len(answers) => answers[k].next = Start(k + 1)
        <5>1. answers # <<>> => answers[Len(answers)].next = Start(Current)
          BY <2>1 DEF Reading
        <5>2. k = Len(answers) => answers # <<>>
          BY <1>5, <3>1
        <5> QED BY <2>2, <5>1, <5>2
      <4>3. k < Len(answers) \/ k = Len(answers)
        BY <1>5, <3>1
      <4>4. answers'[k] = answers[k]
        BY <1>6, <3>1
      <4> QED BY <4>1, <4>2, <4>3, <4>4
    <3>2. CASE k = Len(answers) + 1
      <4>1. answers'[k] = new /\ k = Current /\ k = Len(answers')
        BY <1>6, <2>2, <3>2
      <4> QED BY <1>5, <2>1, <2>3, <4>1
    <3> QED BY <1>5, <1>6, <3>1, <3>2
  <2> QED BY <2>6, <2>7
<1> QED BY <1>1, <1>8, <1>9

LEMMA WriteKeeps == ASSUME Inv, Write PROVE Inv'
<1>1. pc = "write" /\ UNCHANGED <<document, cut>> /\ at = "idle"
  BY DEF Write, Inv
<1>2. ProcessOK' /\ child' = child
  BY SameProcesses, BrokenPipeKeeps DEF Write, Inv
<1>3. ConnOK' /\ (~cut' => Reading' /\ Answers') /\ pc' # "cgi"
  <2>1. cut \in BOOLEAN
    BY DEF Inv, ConnOK
  <2>2. CASE open /\ there /\ Answered("whole")
    BY <1>1, <2>1, <2>2, AnsweredKeeps
  <2>3. CASE (~there \/ ~open) /\ Answered("none")
    BY <1>1, <2>1, <2>3, AnsweredKeeps
  <2> QED BY <2>2, <2>3 DEF Write
<1>4. Remembered /\ StayGone
  BY <1>2 DEF Remembered, StayGone, In
<1>5. DocumentTypeOK' /\ Programs'
  BY <1>1, <1>3, <1>4, OtherPrograms DEF Inv
<1> QED BY <1>1, <1>2, <1>3, <1>5 DEF Inv, document

\* SIGCHLD.
LEMMA SignalledKeeps == ASSUME Inv, Signalled PROVE Inv'
<1>1. CASE pc = "cgi" /\ CgiRelease /\ UNCHANGED conn
  <2>1. ProcessOK' /\ DocumentTypeOK' /\ Programs' /\ pc' = pc
    BY <1>1, CgiKeeps DEF Inv, conn, CgiNext, CgiServer
  <2>2. ConnOK' /\ (~cut' => Reading' /\ Answers')
    BY <1>1, SameConn DEF Inv
  <2> QED BY <1>1, <2>1, <2>2 DEF Inv
<1>2. CASE pc # "cgi" /\ Release /\ UNCHANGED document /\ (Interrupted \/ UNCHANGED conn)
  <2>1. ProcessOK' /\ Remembered /\ StayGone /\ at = "idle"
    BY <1>2, ReleaseKeeps DEF Inv
  <2>2. ConnOK' /\ (~cut' => Reading' /\ Answers') /\ pc' # "cgi"
    <3>1. CASE UNCHANGED conn
      BY <1>2, <3>1, SameConn DEF Inv, conn
    <3>2. CASE (CutLine \/ CutHeader) /\ cut' = TRUE
      BY <3>2, CutKeeps
    <3>3. CASE /\ pc = "wait" /\ pc' = "fin"
               /\ UNCHANGED <<asked, sent, there, pos, mid, req, kept, open, result, answers, cut>>
      <4>1. pc' \in States /\ open' \in BOOLEAN /\ result' \in [code : Codes, last : BOOLEAN]
        BY <3>3 DEF Inv, ConnOK, States
      <4>2. ConnOK' /\ Current' = Current /\ Over' = Over /\ \A r, n : Within(r, n)' = Within(r, n)
        BY <3>3, <4>1, MovesOn
      <4> QED BY <3>3, <4>2 DEF Inv, Reading, Answers, InRequest, Between
    <3>4. CASE pc = "write" /\ Answered("short") /\ cut' = TRUE
      BY <3>4, AnsweredKeeps
    <3> QED BY <1>2, <3>1, <3>2, <3>3, <3>4 DEF Interrupted
  <2>3. DocumentTypeOK' /\ Programs'
    BY <1>2, <2>1, <2>2, OtherPrograms DEF Inv
  <2> QED BY <1>2, <2>1, <2>2, <2>3 DEF Inv, document
<1> QED BY <1>1, <1>2 DEF Signalled

\* The program and the process that waits for it, and the end of a command.
LEMMA CgiStepKeeps == ASSUME Inv, CgiNext, UNCHANGED conn, at' # "idle" => pc = "cgi" PROVE Inv'
<1>1. ProcessOK' /\ DocumentTypeOK' /\ Programs'
  BY CgiKeeps DEF Inv, conn
<1>2. ConnOK' /\ (~cut' => Reading' /\ Answers')
  BY SameConn DEF Inv
<1> QED BY <1>1, <1>2 DEF Inv, conn

LEMMA DieStepKeeps == ASSUME Inv, NEW c \in Children, Die(c), UNCHANGED <<document, conn>> PROVE Inv'
<1>1. ProcessOK' /\ Remembered /\ StayGone
  BY DieKeeps DEF Inv
<1>2. ConnOK' /\ (~cut' => Reading' /\ Answers')
  BY SameConn DEF Inv
<1>3. DocumentTypeOK' /\ Programs'
  BY <1>1, OtherPrograms DEF Inv, conn
<1> QED BY <1>1, <1>2, <1>3 DEF Inv, document, conn

-----------------------------------------------------------------------------
(* Theorems *)

LEMMA Initially == Init => Inv
<1> SUFFICES ASSUME Init PROVE Inv
  OBVIOUS
<1>1. ProcessOK
  <2>1. [at |-> "none", how |-> "exit"] \in ChildStates
    BY DEF ChildStates, Deaths
  <2>2. /\ child = [c \in Children |-> [at |-> "none", how |-> "exit"]] /\ started = 0 /\ handler = "none"
        /\ sigchld = FALSE /\ status = "exit" /\ told = 0 /\ alive = TRUE
    BY DEF Init, ProcessInit
  <2>3. child \in [Children -> ChildStates]
    BY <2>1, <2>2
  <2>4. ProcessTypeOK
    <3>1. 0 \in 0..MaxChildren /\ status \in Deaths
      BY <2>2, PageProcessAssumption DEF Deaths
    <3> QED BY <2>2, <2>3, <3>1 DEF ProcessTypeOK
  <2>5. Processes
    BY <2>2 DEF Processes, EndOf
  <2> QED BY <2>2, <2>4, <2>5 DEF ProcessOK
<1>2. DocumentTypeOK /\ Programs /\ at = "idle"
  <2>1. 0 \in 0..CgiMax /\ 0 \in 0..Capacity /\ 0 \in 0..MaxChildren
    BY CgiDocumentAssumption, PageProcessAssumption
  <2>2. NoCgi \in Cgi
    BY <2>1 DEF NoCgi, Cgi
  <2>3. pc = "line" /\ cgi = NoCgi /\ at = "idle" /\ intr = 0 /\ code = 0
    BY DEF Init, DocumentInit, ConnInit
  <2> QED BY <2>2, <2>3, CgiDocumentAssumption DEF DocumentTypeOK, Programs, Interruptions, NoCgi, Codes
<1>3. asked \in Scripts /\ Start(1) \in Positions
  BY Starts, ConnectionAssumption DEF Init, ConnInit
<1>4. NoRequest \in Got
  BY <1>3, ConnectionAssumption, CgiDocumentAssumption DEF NoRequest, Got
<1>5. ConnOK
  <2>1. UpTo(Start(1), Start(1))
    BY DEF UpTo, Start
  <2>2. result \in [code : Codes, last : BOOLEAN] /\ answers \in Seq(Answer)
    BY DEF Init, ConnInit, Codes
  <2>3. /\ sent = Start(1) /\ pos = Start(1) /\ req = NoRequest /\ pc = "line" /\ there = TRUE
        /\ mid = FALSE /\ kept = FALSE /\ open = TRUE /\ cut = FALSE
    BY DEF Init, ConnInit
  <2> QED BY <1>3, <1>4, <2>1, <2>2, <2>3 DEF ConnOK, States
<1>6. Reading /\ Answers
  <2>1. Len(answers) = 0 /\ answers = <<>> /\ pc = "line" /\ ~mid /\ pos = Start(1) /\ open
    BY DEF Init, ConnInit
  <2>2. Reading
    BY <2>1 DEF Reading, InRequest, Between, Current
  <2> QED BY <2>1, <2>2 DEF Answers
<1> QED BY <1>1, <1>2, <1>5, <1>6 DEF Inv

LEMMA NextKeeps == Inv /\ Known /\ [Next]_vars => Inv'
<1> SUFFICES ASSUME Inv, Known, [Next]_vars PROVE Inv'
  OBVIOUS
<1>1. CASE UNCHANGED vars
  <2>1. UNCHANGED process /\ UNCHANGED document /\ UNCHANGED conn
    BY <1>1 DEF vars
  <2> QED BY <2>1, SameConn, Elsewhere DEF Inv, conn
<1>2. CASE Send \/ Leave
  BY <1>2, SendKeeps, LeaveKeeps
<1>3. CASE \/ ReadLine \/ ReadHeader \/ Pause \/ Redirected \/ Handle \/ ReadContent \/ Resolve
           \/ PageEnd \/ CgiPage \/ Wait \/ WaitEnds \/ Finish
  BY <1>3, ReadLineKeeps, ReadHeaderKeeps, PauseKeeps, RedirectedKeeps, HandleKeeps, ReadContentKeeps,
     ResolveKeeps, PageEndKeeps, WaitKeeps
<1>4. CASE PageProgram \/ PageProgramEnd \/ PageCloses \/ Write \/ Signalled
  BY <1>4, PageProgramKeeps, PageClosesKeeps, WriteKeeps, SignalledKeeps
<1>5. CASE pc = "cgi" /\ (CgiServer \/ CgiTimeOut) /\ UNCHANGED conn
  BY <1>5, CgiStepKeeps DEF CgiNext
<1>6. CASE (ProgramReads \/ ProgramWrites) /\ UNCHANGED conn
  <2>1. at' = at
    BY <1>6 DEF ProgramReads, ProgramWrites
  <2> QED BY <1>6, <2>1, CgiStepKeeps DEF CgiNext, Inv
<1>7. ASSUME NEW c \in Children, Die(c), UNCHANGED <<document, conn>> PROVE Inv'
  BY <1>7, DieStepKeeps
<1> QED BY <1>1, <1>2, <1>3, <1>4, <1>5, <1>6, <1>7 DEF Next, Serve

\* A request that is read or handled has a line.
LEMMA KnownKeeps == Inv /\ Known /\ [Next]_vars => Known'
<1> SUFFICES ASSUME Inv, Known, [Next]_vars PROVE Known'
  OBVIOUS
<1> USE DEF Known
<1>1. CASE UNCHANGED conn
  BY <1>1 DEF conn
<1>2. CASE ReadLine
  <2>1. /\ pc' \in {"line", "heads"} /\ req' = IF mid THEN req ELSE Parsed(pos)
        /\ Available /\ pos' = After(pos) /\ UNCHANGED <<asked, sent>>
    BY <1>2 DEF ReadLine, ReadUnit
  <2>2. pos.of # 0
    BY <2>1, ReadOn DEF Inv
  <2>3. Parsed(pos).from = pos.of
    BY DEF Parsed, NoRequest
  <2> QED BY <2>1, <2>2, <2>3
<1>3. CASE ReadHeader
  BY <1>3 DEF ReadHeader, Inv, ConnOK, Got
<1>4. CASE ReadContent
  BY <1>4 DEF ReadContent, Inv, ConnOK, Got
<1>5. CASE CutLine \/ CutHeader
  BY <1>5 DEF CutLine, CutHeader, Cut
<1>6. CASE UNCHANGED <<mid, req>> /\ pc \notin {"line", "fin", "done", "crashed"}
  BY <1>6
<1>7. CASE UNCHANGED <<mid, req, pc>>
  BY <1>7
<1>8. CASE Redirected \/ Handle \/ Resolve \/ PageEnd \/ CgiPage \/ Wait \/ WaitEnds \/ Write
  <2>1. UNCHANGED <<mid, req>> /\ pc \in {"asked", "content", "page", "cgi", "wait", "write"}
    BY <1>8 DEF Redirected, Handle, Resolve, PageEnd, CgiPage, Wait, WaitEnds, Write, Answered
  <2> QED BY <1>6, <2>1
<1>9. CASE Finish
  BY <1>9 DEF Finish
<1>10. CASE Signalled
  <2>1. CASE Interrupted
    BY <1>5, <2>1 DEF Interrupted, Answered
  <2> QED BY <1>1, <1>10, <2>1 DEF Signalled
<1>11. CASE Send \/ Leave \/ PageCloses
  BY <1>7, <1>11 DEF Send, Leave, PageCloses
<1>12. CASE PageProgram \/ PageProgramEnd
  BY <1>1, <1>12 DEF PageProgram, PageProgramEnd
<1> QED
  BY <1>1, <1>2, <1>3, <1>4, <1>5, <1>8, <1>9, <1>10, <1>11, <1>12 DEF Next, Serve, Pause, vars

LEMMA Always == Spec => []Inv
<1>1. Init => Known
  BY DEF Init, ConnInit, Known
<1> QED BY <1>1, Initially, NextKeeps, KnownKeeps, PTL DEF Spec

\* A connection and its program have their types.
THEOREM TypeCorrect == Spec => []TypeOK
<1>1. Inv => TypeOK
  BY DEF Inv, ProcessOK, ConnOK, TypeOK
<1> QED BY <1>1, Always, PTL

\* Without a pause or an interruption within a request, the k-th answer is to the
\* k-th request and all of it, and whole as long as the client is there.
THEOREM RequestsInStep == Spec => []InStep
<1>1. Inv => InStep
  <2> SUFFICES ASSUME Inv, ~cut PROVE InStep
    BY DEF InStep
  <2>1. Answers /\ DOMAIN answers = 1..Len(answers)
    BY DEF Inv, ConnOK
  <2> QED BY <2>1 DEF Answers, InStep
<1> QED BY <1>1, Always, PTL

\* The answer to a request for a program has all that the program has written by its
\* end, unless its time ran out or two others that were left have died meanwhile, and
\* says that it failed just where it was killed, if it is its own status that decides,
\* and but for a program that was killed never.
THEOREM ProgramsWhole == Spec => []CgiWhole
<1>1. Inv => CgiWhole
  <2> SUFFICES ASSUME Inv, pc = "cgi", at = "idle" PROVE CgiWhole
    BY DEF CgiWhole
  <2>1. cgi.output \in Nat /\ cgi.got \in Nat
    BY CgiDocumentAssumption DEF Inv, DocumentTypeOK, Cgi
  <2>2. /\ cgi.late \/ cgi.twice \/ (cgi.output = 0 /\ Gone)
        /\ cgi.twice => \E a, b \in In("released") \ {cgi.child} : a # b
        /\ code = CodeOf(cgi.got, EndOf(cgi.whose))
    BY DEF Inv, Programs, Interruptions
  <2>3. code = 500 <=> cgi.got = 0 /\ EndOf(cgi.whose) = "killed"
    BY <2>1, <2>2 DEF CodeOf
  <2>4. EndOf(cgi.whose) = "killed" <=> cgi.whose # 0 /\ child[cgi.whose].how = "killed"
    BY DEF EndOf
  <2> QED BY <2>1, <2>2, <2>3, <2>4 DEF CgiWhole
<1> QED BY <1>1, Always, PTL
=============================================================================

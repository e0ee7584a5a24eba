--------------------------- MODULE Session_proofs --------------------------
(***************************************************************************)
(* For every set of processes, of requests and of clock values, and even    *)
(* when accesses to the database fail: the session operations never store  *)
(* through a NULL SESSION_INFO, and, set-session-data and session_restore  *)
(* apart, never bring back a session that was already gone.                *)
(***************************************************************************)
EXTENDS SessionHistory, SessionKeys, TLAPS

\* A database after one store or one delete is a database.
LEMMA StoredType ==
  ASSUME db \in Database, NEW s \in Sids, NEW info \in SESSION_INFO \cup {NoInfo}
  PROVE  Stored(s, info) \subseteq Database
  BY DEF Stored, Database

\* So is one without the records that a reaper takes.
LEMMA WithoutType ==
  ASSUME db \in Database, NEW gone
  PROVE  Without(gone) \in Database
  BY DEF Without, Database

\* A fetch gives a record or nothing.
LEMMA FetchedType ==
  ASSUME db \in Database, NEW s \in Sids
  PROVE  Fetched(s) \subseteq SESSION_INFO \cup {NoInfo}
  BY DEF Fetched, Database

\* What Call is given is a request.
LEMMA RequestType ==
  ASSUME NEW p \in Procs, NEW r \in Requests[p]
  PROVE  r \in Request
  BY SessionAssumption

\* At first no operation has a record.
LEMMA InitType == Init => TypeOK
  <1> SUFFICES ASSUME Init PROVE TypeOK
    OBVIOUS
  <1>1. Idle \in Request
    BY SessionAssumption DEF Idle
  <1>2. Idle.sid \in Sids
    BY <1>1 DEF Request
  <1> QED
    BY <1>1, <1>2, ClockAssumption
       DEF Init, TypeOK, Database, Places, Results, HasInfo

\* The records that operations make up, and those they change, are records.
LEMMA MadeTypes ==
  ASSUME TypeOK, NEW p \in Procs
  PROVE  AnonymousRestarted \in SESSION_INFO /\ Saved(req[p]) \in SESSION_INFO
  <1>1. req[p] \in Request /\ now \in Times
    BY DEF TypeOK
  <1> QED
    BY <1>1, ClockAssumption, SessionAssumption
       DEF AnonymousRestarted, Saved, Request, SESSION_INFO

\* The changes that the operations make to a record leave it a record.
LEMMA ChangedTypes ==
  ASSUME TypeOK, NEW p \in Procs, NEW info \in SESSION_INFO
  PROVE  /\ WithData(p, info) \in SESSION_INFO
         /\ Changed(req[p], info) \in SESSION_INFO
         /\ [info EXCEPT !.access = now] \in SESSION_INFO
  <1>1. req[p] \in Request /\ now \in Times
    BY DEF TypeOK
  <1>2. req[p].var \in Vars /\ req[p].timeout \in Timeouts
    BY <1>1 DEF Request
  <1> QED
    BY <1>1, <1>2 DEF WithData, Changed, SESSION_INFO

\* A step that takes a record in hand and goes where one is needed.
LEMMA HoldType ==
  ASSUME TypeOK, NEW p \in Procs, NEW info \in SESSION_INFO,
         Hold(p, info), NEW place \in HasInfo, Goto(p, place),
         db' \in Database, UNCHANGED <<now, req, result>>, target' \in [Procs -> Sids]
  PROVE  TypeOK'
  BY NoInfoAssumption DEF TypeOK, Hold, Goto, Places, HasInfo

\* What follows a session_get_info that found nothing keeps the types.
LEMMA NotThereType ==
  ASSUME TypeOK, NEW p \in Procs, pc[p] \notin HasInfo, NotThere(p),
         db' \in Database, UNCHANGED <<now, req, target>>
  PROVE  TypeOK'
  <1>1. WithData(p, AnonymousRestarted) \in SESSION_INFO
    BY MadeTypes, ChangedTypes
  <1>2. CASE req[p].kind = "data"
    BY <1>1, <1>2, HoldType DEF NotThere, TypeOK, HasInfo
  <1>3. CASE req[p].kind # "data"
    BY <1>3 DEF TypeOK, NotThere, Finish, Goto, Places, Results, HasInfo
  <1> QED
    BY <1>2, <1>3

\* Each step keeps the types, and the records where the code has tested for them.
LEMMA NextType == TypeOK /\ [Next]_vars => TypeOK'
  <1> SUFFICES ASSUME TypeOK, [Next]_vars PROVE TypeOK'
    OBVIOUS
  <1> USE DEF TypeOK, At, Goto, Hold, Finish, Reads, Writes, Places, Results,
              HasInfo
  <1>1. CASE Tick
    BY <1>1 DEF Tick
  <1>2. ASSUME NEW p \in Procs, NEW r \in Requests[p], Call(p, r) PROVE TypeOK'
    <2>1. r \in Request /\ r.sid \in Sids
      BY RequestType DEF Request
    <2>2. Start(r) \in {"name", "find", "clock", "reap", "access"}
      BY DEF Start
    <2> QED
      BY <1>2, <2>1, <2>2 DEF Call
  <1>3. ASSUME NEW p \in Procs, Access(p) PROVE TypeOK'
    <2>1. CASE NotThere(p)
      BY <1>3, <2>1, NotThereType DEF Access
    <2>2. CASE ~NotThere(p)
      BY <1>3, <2>2 DEF Access
    <2> QED
      BY <2>1, <2>2
  <1>4. ASSUME NEW p \in Procs, Expire(p) PROVE TypeOK'
    BY <1>4, StoredType, NotThereType DEF Expire
  <1>5. ASSUME NEW p \in Procs, Refetch(p) PROVE TypeOK'
    <2>1. CASE NotThere(p)
      BY <1>5, <2>1, NotThereType DEF Refetch
    <2>2. ASSUME NEW info \in Fetched(target[p]), info # NoInfo
          PROVE  info \in SESSION_INFO /\ WithData(p, info) \in SESSION_INFO
      BY <2>2, FetchedType, ChangedTypes
    <2>3. CASE ~NotThere(p)
      BY <1>5, <2>2, <2>3, NoInfoAssumption DEF Refetch
    <2> QED
      BY <2>1, <2>3
  <1>6. ASSUME NEW p \in Procs, Body(p) PROVE TypeOK'
    <2>1. Changed(req[p], rec[p]) \in SESSION_INFO
      BY <1>6, ChangedTypes DEF Body
    <2> QED
      BY <1>6, <2>1, NoInfoAssumption DEF Body
  <1>7. ASSUME NEW p \in Procs, Current(p) PROVE TypeOK'
    <2>1. PICK current \in Fetched(target[p]) :
            \/ current = NoInfo /\ Finish(p, "gone")
            \/ /\ current # NoInfo
               /\ Hold(p, [rec[p] EXCEPT !.access = now, !.key = current.key])
               /\ Goto(p, "store") /\ UNCHANGED result
      BY <1>7 DEF Current
    <2>2. CASE current = NoInfo
      BY <1>7, <2>1, <2>2 DEF Current
    <2>3. CASE current # NoInfo
      <3>1. rec[p] \in SESSION_INFO /\ current \in SESSION_INFO
        BY <1>7, <2>3, FetchedType DEF Current
      <3>2. [rec[p] EXCEPT !.access = now, !.key = current.key] \in SESSION_INFO
        BY <3>1 DEF SESSION_INFO
      <3> QED
        BY <1>7, <2>1, <2>3, <3>2, HoldType DEF Current
    <2> QED
      BY <2>2, <2>3
  <1>8. ASSUME NEW p \in Procs, Store(p) PROVE TypeOK'
    BY <1>8, StoredType, NoInfoAssumption DEF Store
  <1>9. ASSUME NEW p \in Procs, Remove(p) PROVE TypeOK'
    BY <1>9, StoredType, NoInfoAssumption DEF Remove
  <1>10. ASSUME NEW p \in Procs, Probe(p) PROVE TypeOK'
    <2> DEFINE Renewed(info) == IF info = NoInfo THEN rec[p]
                                ELSE [info EXCEPT !.access = rec[p].access]
    <2>1. PICK existing \in Fetched(target[p]) : Hold(p, Renewed(existing))
      BY <1>10 DEF Probe
    <2>2. existing \in SESSION_INFO \cup {NoInfo}
      BY FetchedType
    <2>3. rec[p] \in SESSION_INFO
      BY <1>10 DEF Probe
    <2>4. Renewed(existing) \in SESSION_INFO
      BY <2>2, <2>3 DEF SESSION_INFO
    <2> QED
      BY <1>10, <2>1, <2>4, HoldType DEF Probe
  <1>18. ASSUME NEW p \in Procs, Clock(p) PROVE TypeOK'
    BY <1>18, MadeTypes, ChangedTypes, HoldType DEF Clock
  <1>11. ASSUME NEW p \in Procs, Find(p) PROVE TypeOK'
    BY <1>11 DEF Find
  <1>12. ASSUME NEW p \in Procs, Name(p) PROVE TypeOK'
    BY <1>12, NoInfoAssumption, SessionAssumption DEF Name, SESSION_INFO, Request
  <1>13. ASSUME NEW p \in Procs, Insert(p) PROVE TypeOK'
    BY <1>13, StoredType, NoInfoAssumption DEF Insert
  <1>14. ASSUME NEW p \in Procs, Reap(p) PROVE TypeOK'
    BY <1>14, WithoutType DEF Reap
  <1>15. ASSUME NEW p \in Procs, ReapKilled(p) PROVE TypeOK'
    BY <1>15, WithoutType DEF ReapKilled
  <1>16. ASSUME NEW p \in Procs, Kill(p) PROVE TypeOK'
    BY <1>16 DEF Kill
  <1>17. CASE UNCHANGED vars
    BY <1>17 DEF vars
  <1> QED
    BY <1>1, <1>2, <1>3, <1>4, <1>5, <1>6, <1>7, <1>8, <1>9, <1>10, <1>11,
       <1>12, <1>13, <1>14, <1>15, <1>16, <1>17, <1>18 DEF Next, Step, Calls

\* An operation that is about to store or change a record has one.
THEOREM TypeCorrect == Spec => []TypeOK
  BY InitType, NextType, PTL DEF Spec

-----------------------------------------------------------------------------
\* session_restore goes its own way, and no other operation goes it.
OwnPath ==
  \A p \in Procs : pc[p] \in {"clock", "probe"} => req[p].kind = "restore"

\* Each step keeps an operation on its own path.
LEMMA NextPath == TypeOK /\ OwnPath /\ [Next]_vars => OwnPath'
  <1> SUFFICES ASSUME TypeOK, OwnPath, [Next]_vars PROVE OwnPath'
    OBVIOUS
  <1> USE DEF TypeOK, OwnPath, At, Goto, Finish
  <1>1. ASSUME NEW p \in Procs, NEW r \in Requests[p], Call(p, r)
        PROVE  OwnPath'
    BY <1>1 DEF Call, Start
  <1>2. ASSUME NEW p \in Procs, Step(p) \/ ReapKilled(p) \/ Kill(p)
        PROVE  /\ UNCHANGED req
               /\ pc'[p] # "clock" /\ (pc'[p] = "probe" => pc[p] = "clock")
               /\ \A q \in Procs \ {p} : pc'[q] = pc[q]
    BY <1>2 DEF Step, Access, Expire, Refetch, Body, Current, Store, Remove,
                Clock, Probe, Find, Name, Insert, Reap, ReapKilled, Kill, NotThere,
                Reads, Writes
  <1>3. CASE Tick \/ UNCHANGED vars
    BY <1>3 DEF Tick, vars
  <1> QED
    BY <1>1, <1>2, <1>3 DEF Next, Calls

\* The heart of the matter, step by step: nothing stores a session that is
\* gone, and nothing gets ready to.
LEMMA GoneStays ==
  ASSUME TypeOK, OwnPath, [Next]_vars, NEW s \in Sids, Gone(s)
  PROVE  Gone(s)' \/ Making(s)'
  <1> USE DEF Gone, Storing, Retired, TypeOK, At, Goto, Hold, Finish, Reads, Writes
  <1>2. CASE Tick
    BY <1>2, ClockAssumption DEF Tick
  <1>3. ASSUME NEW p \in Procs, NEW r \in Requests[p], Call(p, r) PROVE Gone(s)' \/ Making(s)'
    BY <1>3 DEF Call, Start
  <1>4. ASSUME NEW p \in Procs, Access(p) PROVE Gone(s)' \/ Making(s)'
    BY <1>4 DEF Access, NotThere, Making
  <1>5. ASSUME NEW p \in Procs, Expire(p) PROVE Gone(s)' \/ Making(s)'
    BY <1>5 DEF Expire, NotThere, Stored, Making, Database
  <1>6. ASSUME NEW p \in Procs, Refetch(p) PROVE Gone(s)' \/ Making(s)'
    BY <1>6 DEF Refetch, NotThere, Making
  <1>7. ASSUME NEW p \in Procs, Body(p) PROVE Gone(s)' \/ Making(s)'
    BY <1>7 DEF Body
  <1>8. ASSUME NEW p \in Procs, Current(p) PROVE Gone(s)' \/ Making(s)'
    BY <1>8 DEF Current, Fetched
  <1>9. ASSUME NEW p \in Procs, Store(p) PROVE Gone(s)' \/ Making(s)'
    BY <1>9 DEF Store, Stored, Database
  <1>10. ASSUME NEW p \in Procs, Remove(p) PROVE Gone(s)' \/ Making(s)'
    BY <1>10 DEF Remove, Stored, Database
  <1>11. ASSUME NEW p \in Procs, Probe(p) PROVE Gone(s)' \/ Making(s)'
    BY <1>11 DEF Probe, OwnPath, Making
  <1>18. ASSUME NEW p \in Procs, Clock(p) PROVE Gone(s)' \/ Making(s)'
    BY <1>18 DEF Clock
  <1>12. ASSUME NEW p \in Procs, Find(p) PROVE Gone(s)' \/ Making(s)'
    BY <1>12 DEF Find
  <1>13. ASSUME NEW p \in Procs, Name(p) PROVE Gone(s)' \/ Making(s)'
    <2>1. s # SidOf(p, now)
      BY ClockAssumption DEF SidOf
    <2> QED
      BY <1>13, <2>1 DEF Name
  <1>14. ASSUME NEW p \in Procs, Insert(p) PROVE Gone(s)' \/ Making(s)'
    BY <1>14 DEF Insert, Stored, Database
  <1>15. ASSUME NEW p \in Procs, Reap(p) \/ ReapKilled(p) PROVE Gone(s)' \/ Making(s)'
    BY <1>15 DEF Reap, ReapKilled, Without
  <1>16. ASSUME NEW p \in Procs, Kill(p) PROVE Gone(s)' \/ Making(s)'
    BY <1>16 DEF Kill
  <1>17. CASE UNCHANGED vars
    BY <1>17 DEF vars
  <1> QED
    BY <1>2, <1>3, <1>4, <1>5, <1>6, <1>7, <1>8, <1>9, <1>10, <1>11, <1>12,
       <1>13, <1>14, <1>15, <1>16, <1>17, <1>18 DEF Next, Step, Calls

\* A session that is missing, and that no process is about to store, stays
\* missing until set-session-data or session_restore makes a record for it.
THEOREM MissingStaysMissing == Spec => NoResurrection
  <1>1. Init => OwnPath
    BY DEF Init, OwnPath
  <1>2. TypeOK /\ OwnPath /\ [Next]_vars
          => [\A s \in Sids : Gone(s) => Gone(s)' \/ Making(s)']_vars
    BY GoneStays
  <1> QED
    BY <1>1, <1>2, TypeCorrect, NextPath, PTL DEF Spec, NoResurrection

-----------------------------------------------------------------------------
(* Where operations are *)

\* Every operation is one of its process's.
Asked == \A p \in Procs : pc[p] # "idle" => req[p] \in Requests[p]

\* Where an operation is on its own path.
Paths ==
  \A p \in Procs :
    /\ pc[p] \in {"find", "name", "insert"} => req[p].kind = "create"
    /\ pc[p] \in {"clock", "probe"} => req[p].kind = "restore"
    /\ pc[p] \in {"body", "current"} => req[p].kind \in {"set", "unset", "timeout"}
    /\ pc[p] = "refetch" => req[p].kind # "require"
    /\ pc[p] \in {"access", "expire", "refetch"} =>
         req[p].kind \notin {"create", "restore", "reap"}
    /\ pc[p] = "reap" => req[p].kind \in {"create", "reap"}
    /\ pc[p] = "remove" => req[p].kind = "delete"
    /\ pc[p] = "store" => req[p].kind \in {"set", "unset", "timeout", "data", "restore"}

\* The identifier is the one asked for until session_begin makes one.
Targets ==
  \A p \in Procs :
    pc[p] \in {"access", "expire", "refetch", "body", "current", "clock", "probe", "store", "remove"} =>
      target[p] = req[p].sid

\* What an operation does depends on what it was asked for.
Minds == Asked /\ Paths /\ Targets

\* At first nobody does anything.
LEMMA InitMinds == Init => Minds
BY DEF Init, Minds, Asked, Paths, Targets

\* Steps other than a call, and what they may do of it.
LEMMA StepMinds ==
  ASSUME TypeOK, Minds, NEW p \in Procs, Step(p) \/ ReapKilled(p) \/ Kill(p)
  PROVE  Minds'
<1>1. req' = req
  BY DEF Step, Access, Expire, Refetch, Body, Current, Store, Remove, Clock, Probe, Find, Name,
         Insert, Reap, ReapKilled, Kill, NotThere, Reads, Writes
<1>2. pc' \in [Procs -> Places] /\ pc \in [Procs -> Places]
  BY NextType DEF TypeOK, Next
<1>3. \A q \in Procs \ {p} : pc'[q] = pc[q] /\ target'[q] = target[q]
  BY DEF TypeOK, Step, Access, Expire, Refetch, Body, Current, Store, Remove, Clock, Probe, Find,
         Name, Insert, Reap, ReapKilled, Kill, NotThere, Reads, Writes, Goto, Finish
<1>4. pc'[p] = "idle" \/ pc[p] # "idle"
  BY DEF Step, Access, Expire, Refetch, Body, Current, Store, Remove, Clock, Probe, Find,
         Name, Insert, Reap, ReapKilled, Kill, At
<1>5. Asked'
  BY <1>1, <1>3, <1>4 DEF Minds, Asked
<1>6. /\ pc'[p] \in {"find", "name", "insert"} => req[p].kind = "create"
      /\ pc'[p] \in {"clock", "probe"} => req[p].kind = "restore"
      /\ pc'[p] \in {"body", "current"} => req[p].kind \in {"set", "unset", "timeout"}
      /\ pc'[p] = "refetch" => req[p].kind # "require"
      /\ pc'[p] \in {"access", "expire", "refetch"} => req[p].kind \notin {"create", "restore", "reap"}
      /\ pc'[p] = "reap" => req[p].kind \in {"create", "reap"}
      /\ pc'[p] = "remove" => req[p].kind = "delete"
      /\ pc'[p] = "store" => req[p].kind \in {"set", "unset", "timeout", "data", "restore"}
  BY <1>2 DEF TypeOK, Minds, Paths, Step, Access, Expire, Refetch, Body, Current, Store, Remove,
         Clock, Probe, Find, Name, Insert, Reap, ReapKilled, Kill, NotThere, At, Goto, Finish
<1>7. Paths'
  BY <1>1, <1>3, <1>6 DEF Minds, Paths
<1>8. pc'[p] \in {"access", "expire", "refetch", "body", "current", "clock", "probe", "store", "remove"} =>
        target'[p] = req[p].sid
  BY <1>2 DEF TypeOK, Minds, Targets, Step, Access, Expire, Refetch, Body, Current, Store, Remove,
         Clock, Probe, Find, Name, Insert, Reap, ReapKilled, Kill, NotThere, At, Goto, Finish,
         Reads, Writes
<1>9. Targets'
  BY <1>1, <1>3, <1>8 DEF Minds, Targets
<1> QED BY <1>5, <1>7, <1>9 DEF Minds

\* And so of every step.
LEMMA NextMinds == TypeOK /\ Minds /\ [Next]_vars => Minds'
<1> SUFFICES ASSUME TypeOK, Minds, [Next]_vars PROVE Minds'
  OBVIOUS
<1>1. ASSUME NEW p \in Procs, NEW r \in Requests[p], Call(p, r) PROVE Minds'
  <2>1. /\ pc' = [pc EXCEPT ![p] = Start(r)] /\ req' = [req EXCEPT ![p] = r]
        /\ target' = [target EXCEPT ![p] = r.sid]
    BY <1>1 DEF Call, Goto
  <2>2. \A q \in Procs : /\ pc'[q] = IF q = p THEN Start(r) ELSE pc[q]
                         /\ req'[q] = IF q = p THEN r ELSE req[q]
                         /\ target'[q] = IF q = p THEN r.sid ELSE target[q]
    BY <2>1 DEF TypeOK
  <2>3. r.kind \in Kinds
    BY RequestType DEF Request
  <2>4. Asked'
    BY <2>2 DEF Minds, Asked
  <2>5. Targets'
    BY <2>2 DEF Minds, Targets
  <2>6. Paths'
    <3> SUFFICES ASSUME NEW q \in Procs
                 PROVE  /\ pc'[q] \in {"find", "name", "insert"} => req'[q].kind = "create"
                        /\ pc'[q] \in {"clock", "probe"} => req'[q].kind = "restore"
                        /\ pc'[q] \in {"body", "current"} => req'[q].kind \in {"set", "unset", "timeout"}
                        /\ pc'[q] = "refetch" => req'[q].kind # "require"
                        /\ pc'[q] \in {"access", "expire", "refetch"} =>
                             req'[q].kind \notin {"create", "restore", "reap"}
                        /\ pc'[q] = "reap" => req'[q].kind \in {"create", "reap"}
                        /\ pc'[q] = "remove" => req'[q].kind = "delete"
                        /\ pc'[q] = "store" =>
                             req'[q].kind \in {"set", "unset", "timeout", "data", "restore"}
      BY DEF Paths
    <3>1. CASE q = p
      BY <2>2, <3>1 DEF Start
    <3>2. CASE q # p
      BY <2>2, <3>2 DEF Minds, Paths
    <3> QED BY <3>1, <3>2
  <2> QED BY <2>4, <2>5, <2>6 DEF Minds
<1>2. ASSUME NEW p \in Procs, Step(p) \/ ReapKilled(p) \/ Kill(p) PROVE Minds'
  BY <1>2, StepMinds
<1>3. CASE Tick \/ UNCHANGED vars
  BY <1>3 DEF Tick, vars, Minds, Asked, Paths, Targets
<1> QED BY <1>1, <1>2, <1>3 DEF Next, Calls

-----------------------------------------------------------------------------
(* Keys *)

\* A session that is begun, or restored, has the key that was asked for.
InHand == \A p \in Procs : pc[p] \in {"insert", "probe"} => rec[p].key = req[p].key

\* A step of p is no other process's.
OnlyOf(p) ==
  \A q \in Procs \ {p} :
    pc'[q] = pc[q] /\ req'[q] = req[q] /\ rec'[q] = rec[q] /\ target'[q] = target[q]

LEMMA StepOnlyOf ==
  ASSUME TypeOK, NEW p \in Procs, Step(p) \/ ReapKilled(p) \/ Kill(p)
  PROVE  OnlyOf(p) /\ req' = req
<1>1. req' = req
  BY DEF Step, Access, Expire, Refetch, Body, Current, Store, Remove, Clock, Probe, Find, Name,
         Insert, Reap, ReapKilled, Kill, NotThere, Reads, Writes
<1>2. \A q \in Procs \ {p} : pc'[q] = pc[q] /\ rec'[q] = rec[q]
  BY DEF TypeOK, Step, Access, Expire, Refetch, Body, Current, Store, Remove, Clock, Probe, Find,
         Name, Insert, Reap, ReapKilled, Kill, NotThere, Goto, Finish, Hold
<1>3. \A q \in Procs \ {p} : target'[q] = target[q]
  BY DEF TypeOK, Step, Access, Expire, Refetch, Body, Current, Store, Remove, Clock, Probe, Find,
         Name, Insert, Reap, ReapKilled, Kill, Reads, Writes
<1> QED BY <1>1, <1>2, <1>3 DEF OnlyOf

LEMMA CallOnlyOf ==
  ASSUME TypeOK, NEW p \in Procs, NEW r \in Requests[p], Call(p, r)
  PROVE  OnlyOf(p) /\ pc'[p] = Start(r) /\ req'[p] = r /\ UNCHANGED <<db, rec>>
BY DEF Call, Goto, TypeOK, OnlyOf

LEMMA NextInHand == TypeOK /\ InHand /\ [Next]_vars => InHand'
<1> SUFFICES ASSUME TypeOK, InHand, [Next]_vars PROVE InHand'
  OBVIOUS
<1>1. ASSUME NEW p \in Procs, NEW r \in Requests[p], Call(p, r) PROVE InHand'
  <2>1. OnlyOf(p) /\ pc'[p] \notin {"insert", "probe"}
    BY <1>1, CallOnlyOf DEF Start
  <2> QED BY <2>1 DEF InHand, OnlyOf
<1>2. ASSUME NEW p \in Procs, Step(p) \/ ReapKilled(p) \/ Kill(p) PROVE InHand'
  <2>1. OnlyOf(p) /\ req' = req
    BY <1>2, StepOnlyOf
  <2>2. CASE Clock(p)
    <3>1. rec'[p] = [Saved(req[p]) EXCEPT !.access = now]
      BY <2>2 DEF Clock, Hold, TypeOK
    <3>2. rec'[p].key = req[p].key
      BY <3>1 DEF Saved
    <3> QED BY <2>1, <3>2 DEF InHand, OnlyOf
  <2>3. CASE Name(p)
    <3>1. rec'[p].key = req[p].key
      BY <2>3 DEF Name, Hold, TypeOK
    <3> QED BY <2>1, <3>1 DEF InHand, OnlyOf
  <2>4. CASE ~Clock(p) /\ ~Name(p)
    <3>1. pc'[p] \notin {"insert", "probe"}
      BY <1>2, <2>4 DEF TypeOK, Step, Access, Expire, Refetch, Body, Current, Store, Remove, Probe, Find,
             Insert, Reap, ReapKilled, Kill, NotThere, Goto, Finish
    <3> QED BY <2>1, <3>1 DEF InHand, OnlyOf
  <2> QED BY <2>2, <2>3, <2>4
<1>3. CASE Tick \/ UNCHANGED vars
  BY <1>3 DEF Tick, vars, InHand
<1> QED BY <1>1, <1>2, <1>3 DEF Next, Calls

\* What makes a key unique: no session has it as long as one is begun with it, and who
\* is about to store a record with it stores the session that has it, or the only one
\* that will.
KeyInv(key) ==
  /\ \A s, t \in WithKey(db, key) : s = t
  /\ \A p \in Procs : Beginning(p, key) => WithKey(db, key) = {}
  /\ \A p \in Procs : Rewriting(p, key) => \A s \in WithKey(db, key) : s = target[p]
  /\ \A p, q \in Procs : Rewriting(p, key) /\ Rewriting(q, key) => target[p] = target[q]

\* This is so of every key that nothing has happened to.
KeysInv == \A key \in Keys : key \in shared \/ (KeyInv(key) /\ ~Doubtful(key))

\* A step that stores no record, and takes none in hand but one that is there.
LEMMA KeyShrinks ==
  ASSUME NEW key, KeyInv(key), NEW p \in Procs, OnlyOf(p),
         WithKey(db', key) \subseteq WithKey(db, key),
         Beginning(p, key)' => Beginning(p, key) \/ WithKey(db, key) = {},
         Rewriting(p, key)' => target'[p] \in WithKey(db, key)
  PROVE  KeyInv(key)'
<1>0. WithKey(db, key)' = WithKey(db', key)
  BY DEF WithKey, Present
<1>1. ASSUME NEW q \in Procs, q # p
      PROVE  /\ Beginning(q, key)' => Beginning(q, key)
             /\ Rewriting(q, key)' => Rewriting(q, key) /\ target'[q] = target[q]
  BY <1>1 DEF OnlyOf, Beginning, Rewriting, At
<1>2. ASSUME NEW q \in Procs, Beginning(q, key)' PROVE WithKey(db', key) = {}
  <2>1. CASE q = p
    BY <1>2, <2>1 DEF KeyInv
  <2>2. CASE q # p
    BY <1>1, <1>2, <2>2 DEF KeyInv
  <2> QED BY <2>1, <2>2
<1>3. ASSUME NEW q \in Procs, Rewriting(q, key)'
      PROVE  \A s \in WithKey(db, key) : s = target'[q]
  <2>1. CASE q = p
    BY <1>3, <2>1 DEF KeyInv
  <2>2. CASE q # p
    BY <1>1, <1>3, <2>2 DEF KeyInv
  <2> QED BY <2>1, <2>2
<1>4. ASSUME NEW q \in Procs, NEW r \in Procs, Rewriting(q, key)', Rewriting(r, key)'
      PROVE  target'[q] = target'[r]
  <2>1. CASE q = p /\ r # p
    BY <1>3, <1>4, <2>1
  <2>2. CASE q # p /\ r = p
    BY <1>3, <1>4, <2>2
  <2>3. CASE q # p /\ r # p
    BY <1>1, <1>4, <2>3 DEF KeyInv
  <2> QED BY <2>1, <2>2, <2>3
<1>5. \A s, t \in WithKey(db', key) : s = t
  BY DEF KeyInv
<1>6. \A q \in Procs : (Beginning(q, key)' => WithKey(db', key) = {})
  BY <1>2
<1>7. \A q \in Procs : (Rewriting(q, key)' => \A s \in WithKey(db', key) : s = target'[q])
  BY <1>3
<1>8. \A q, r \in Procs : (Rewriting(q, key)' /\ Rewriting(r, key)' => target'[q] = target'[r])
  BY <1>4
<1> QED BY <1>0, <1>5, <1>6, <1>7, <1>8 DEF KeyInv

\* A step that stores the record in hand.
LEMMA KeyStored ==
  ASSUME TypeOK, InHand, NEW key, KeyInv(key), ~Together(key), NEW p \in Procs, OnlyOf(p),
         pc[p] \in {"store", "insert"}, pc'[p] \in {"idle", "reap"},
         db' = [db EXCEPT ![target[p]] = rec[p]]
  PROVE  KeyInv(key)'
<1>0. WithKey(db, key)' = WithKey(db', key)
  BY DEF WithKey, Present
<1>1. \A s \in Sids : db'[s] = IF s = target[p] THEN rec[p] ELSE db[s]
  BY DEF TypeOK, Database
<1>2. ASSUME NEW q \in Procs
      PROVE  /\ Beginning(q, key)' => q # p /\ Beginning(q, key)
             /\ Rewriting(q, key)' => q # p /\ Rewriting(q, key) /\ target'[q] = target[q]
  BY DEF OnlyOf, Beginning, Rewriting, At
<1>3. CASE rec[p].key # key
  <2>1. WithKey(db', key) \subseteq WithKey(db, key)
    BY <1>1, <1>3 DEF WithKey, Present
  <2>2. ~Beginning(p, key)' /\ ~Rewriting(p, key)'
    BY <1>2
  <2> QED BY <2>1, <2>2, KeyShrinks
<1>4. CASE rec[p].key = key
  <2>1. Beginning(p, key) \/ Rewriting(p, key)
    BY <1>4 DEF InHand, Beginning, Rewriting, At
  <2>2. ASSUME NEW q \in Procs PROVE ~Beginning(q, key)'
    BY <1>2, <2>1 DEF Together
  <2>3. ASSUME NEW q \in Procs, Rewriting(q, key)' PROVE target'[q] = target[p]
    <3>1. q # p /\ Rewriting(q, key) /\ target'[q] = target[q]
      BY <1>2, <2>3
    <3>2. Rewriting(p, key)
      BY <2>1, <3>1 DEF Together
    <3> QED BY <3>1, <3>2 DEF KeyInv
  <2>4. ASSUME NEW s \in WithKey(db, key) PROVE s = target[p]
    BY <2>1 DEF KeyInv
  <2>5. ASSUME NEW s \in WithKey(db', key) PROVE s = target[p]
    BY <1>1, <2>4 DEF WithKey, Present
  <2>6. \A q \in Procs : (Rewriting(q, key)' => \A s \in WithKey(db', key) : s = target'[q])
    BY <2>3, <2>5
  <2>7. \A q, r \in Procs : (Rewriting(q, key)' /\ Rewriting(r, key)' => target'[q] = target'[r])
    BY <2>3
  <2> QED BY <1>0, <2>2, <2>5, <2>6, <2>7 DEF KeyInv
<1> QED BY <1>3, <1>4

\* What set-session-data does where it finds no record.
LEMMA NotThereMakes ==
  ASSUME TypeOK, NEW p \in Procs, NotThere(p), req' = req, NEW key, ~Doubtful(key)'
  PROVE  ~Beginning(p, key)' /\ ~Rewriting(p, key)'
<1>1. CASE req[p].kind = "data"
  <2>1. rec'[p] = WithData(p, AnonymousRestarted) /\ pc'[p] = "store"
    BY <1>1 DEF TypeOK, NotThere, Hold, Goto
  <2>2. rec'[p].key = Restarted
    BY <2>1 DEF WithData, AnonymousRestarted
  <2>3. Rewriting(p, key)' => Brought(key)'
    BY <1>1, <2>1, <2>2 DEF Rewriting, Brought, MadeKey, At
  <2> QED BY <2>1, <2>3 DEF Beginning, Doubtful
<1>2. CASE req[p].kind # "data"
  BY <1>2 DEF TypeOK, NotThere, Finish, Goto, Beginning, Rewriting, At
<1> QED BY <1>1, <1>2

\* What a step of p may do to a key, step by step.
LEMMA KeyStep ==
  ASSUME TypeOK, Minds, InHand, NEW p \in Procs, Step(p) \/ ReapKilled(p) \/ Kill(p),
         NEW key, KeyInv(key), ~Doubtful(key), ~Doubtful(key)', ~Overlooked(key)
  PROVE  KeyInv(key)'
<1>1. OnlyOf(p) /\ req' = req
  BY StepOnlyOf
<1>2. target[p] \in Sids /\ db \in Database /\ ~Together(key)
  BY DEF TypeOK, Doubtful
<1>3. /\ db' = db => WithKey(db', key) \subseteq WithKey(db, key)
      /\ db' = [db EXCEPT ![target[p]] = NoInfo] => WithKey(db', key) \subseteq WithKey(db, key)
      /\ \A gone : db' = Without(gone) => WithKey(db', key) \subseteq WithKey(db, key)
  BY <1>2 DEF WithKey, Present, Database, Without
<1>4. ASSUME WithKey(db', key) \subseteq WithKey(db, key),
             pc'[p] \notin {"name", "insert", "store"}
      PROVE  KeyInv(key)'
  BY <1>1, <1>4, KeyShrinks DEF Beginning, Rewriting, At
<1>5. ASSUME db' = db, target' = target, db[target[p]] # NoInfo, pc'[p] = "store",
             rec'[p].key = db[target[p]].key
      PROVE  KeyInv(key)'
  <2>1. Rewriting(p, key)' => target'[p] \in WithKey(db, key)
    BY <1>2, <1>5 DEF Rewriting, WithKey, Present
  <2> QED BY <1>1, <1>3, <1>5, <2>1, KeyShrinks DEF Beginning
<1>6. ASSUME NEW s \in Sids, NEW info \in Fetched(s), info # NoInfo
      PROVE  info = db[s] /\ info \in SESSION_INFO
  BY <1>2, <1>6 DEF Fetched, Database
<1>7. CASE NotThere(p) /\ (Access(p) \/ Expire(p) \/ Refetch(p))
  <2>1. db' = db \/ db' = [db EXCEPT ![target[p]] = NoInfo]
    BY <1>7 DEF Access, Expire, Refetch, Reads, Stored
  <2> QED BY <1>1, <1>3, <1>7, <2>1, NotThereMakes, KeyShrinks
<1>8. CASE Access(p) /\ ~NotThere(p)
  <2>1. pc'[p] \notin {"name", "insert", "store"} /\ db' = db
    BY <1>8 DEF Access, TypeOK, Goto, Finish, Reads
  <2> QED BY <1>3, <1>4, <2>1
<1>9. CASE Refetch(p) /\ ~NotThere(p)
  <2>1. db' = db /\ target' = target
    BY <1>9 DEF Refetch, Reads
  <2>2. PICK info \in Fetched(target[p]) :
          /\ info # NoInfo
          /\ \/ Finish(p, "ok") \/ Goto(p, "remove") \/ Goto(p, "body")
             \/ Hold(p, WithData(p, info)) /\ Goto(p, "store")
    BY <1>9 DEF Refetch
  <2>3. CASE Finish(p, "ok") \/ Goto(p, "remove") \/ Goto(p, "body")
    <3>1. pc'[p] \notin {"name", "insert", "store"}
      BY <2>3 DEF TypeOK, Goto, Finish
    <3> QED BY <1>3, <1>4, <2>1, <3>1
  <2>4. CASE Hold(p, WithData(p, info)) /\ Goto(p, "store")
    <3>1. rec'[p] = WithData(p, info) /\ pc'[p] = "store"
      BY <2>4 DEF Hold, Goto, TypeOK
    <3>2. info = db[target[p]] /\ rec'[p].key = info.key
      BY <1>2, <1>6, <2>2, <3>1 DEF WithData, SESSION_INFO
    <3> QED BY <1>5, <2>1, <2>2, <3>1, <3>2
  <2> QED BY <2>2, <2>3, <2>4
<1>10. CASE Body(p) \/ Clock(p)
  <2>1. db' = db /\ pc'[p] \in {"current", "probe"}
    BY <1>10 DEF Body, Clock, Reads, Goto, TypeOK
  <2> QED BY <1>3, <1>4, <2>1
<1>11. CASE Current(p)
  <2>1. db' = db /\ target' = target /\ rec[p] \in SESSION_INFO
    BY <1>11 DEF Current, At, Reads, TypeOK, HasInfo
  <2>2. PICK current \in Fetched(target[p]) :
          \/ current = NoInfo /\ Finish(p, "gone")
          \/ /\ current # NoInfo
             /\ Hold(p, [rec[p] EXCEPT !.access = now, !.key = current.key])
             /\ Goto(p, "store") /\ UNCHANGED result
    BY <1>11 DEF Current
  <2>3. CASE current = NoInfo
    <3>1. pc'[p] = "idle"
      BY <2>2, <2>3 DEF Finish, Goto, TypeOK
    <3> QED BY <1>3, <1>4, <2>1, <3>1
  <2>4. CASE current # NoInfo
    <3>1. /\ rec'[p] = [rec[p] EXCEPT !.access = now, !.key = current.key]
          /\ pc'[p] = "store"
      BY <2>2, <2>4 DEF Hold, Goto, TypeOK
    <3>2. current = db[target[p]] /\ rec'[p].key = current.key
      BY <1>2, <1>6, <2>1, <2>4, <3>1 DEF SESSION_INFO
    <3> QED BY <1>5, <2>1, <2>4, <3>1, <3>2
  <2> QED BY <2>3, <2>4
<1>12. CASE Store(p) \/ Insert(p)
  <2>1. /\ pc[p] \in {"store", "insert"} /\ pc'[p] \in {"idle", "reap"}
        /\ db' = [db EXCEPT ![target[p]] = rec[p]] \/ db' = db
    BY <1>12 DEF Store, Insert, At, Finish, Goto, TypeOK, Stored
  <2> QED BY <1>1, <1>2, <1>3, <1>4, <2>1, KeyStored
<1>13. CASE Remove(p)
  <2>1. pc'[p] = "idle" /\ (db' = db \/ db' = [db EXCEPT ![target[p]] = NoInfo])
    BY <1>13 DEF Remove, Stored, Finish, Goto, TypeOK
  <2> QED BY <1>3, <1>4, <2>1
<1>14. CASE Probe(p)
  <2>1. /\ db' = db /\ target' = target /\ pc[p] = "probe" /\ pc'[p] = "store"
        /\ \E existing \in Fetched(target[p]) :
             rec'[p] = IF existing = NoInfo THEN rec[p] ELSE [existing EXCEPT !.access = rec[p].access]
    BY <1>14 DEF Probe, At, Goto, Hold, Reads, TypeOK
  <2>2. PICK existing \in Fetched(target[p]) :
          rec'[p] = IF existing = NoInfo THEN rec[p] ELSE [existing EXCEPT !.access = rec[p].access]
    BY <2>1
  <2>3. CASE existing = NoInfo
    <3>1. rec'[p].key = req[p].key /\ req[p].kind = "restore"
      BY <2>1, <2>2, <2>3 DEF InHand, Minds, Paths
    <3>2. ~Rewriting(p, key)'
      BY <1>1, <2>1, <3>1 DEF Rewriting, Doubtful, Brought, MadeKey
    <3> QED BY <1>1, <1>3, <2>1, <3>2, KeyShrinks DEF Beginning
  <2>4. CASE existing # NoInfo
    <3>1. existing = db[target[p]] /\ rec'[p].key = existing.key
      BY <1>2, <1>6, <2>2, <2>4 DEF SESSION_INFO
    <3> QED BY <1>5, <2>1, <2>4, <3>1
  <2> QED BY <2>3, <2>4
<1>15. CASE Find(p)
  <2>1. db' = db /\ pc[p] = "find" /\ pc'[p] \in {"name", "reap", "idle"}
    BY <1>15 DEF Find, At, Reads, Goto, Finish, TypeOK
  <2>2. Beginning(p, key)' => WithKey(db, key) = {}
    BY <1>1, <2>1 DEF Beginning, Overlooked, At
  <2> QED BY <1>1, <1>3, <2>1, <2>2, KeyShrinks DEF Rewriting, At
<1>16. CASE Name(p)
  <2>1. db' = db /\ pc[p] = "name" /\ pc'[p] = "insert"
    BY <1>16 DEF Name, At, Goto, TypeOK
  <2>2. Beginning(p, key)' => Beginning(p, key)
    BY <1>1, <2>1 DEF Beginning
  <2> QED BY <1>1, <1>3, <2>1, <2>2, KeyShrinks DEF Rewriting, At
<1>17. CASE Reap(p) \/ ReapKilled(p) \/ Kill(p)
  <2>1. WithKey(db', key) \subseteq WithKey(db, key) /\ pc'[p] = "idle"
    BY <1>3, <1>17 DEF Reap, ReapKilled, Kill, Finish, Goto, TypeOK
  <2> QED BY <1>4, <2>1
<1>18. CASE Expire(p)
  BY <1>7, <1>18 DEF Expire
<1> QED
  BY <1>7, <1>8, <1>9, <1>10, <1>11, <1>12, <1>13, <1>14, <1>15, <1>16, <1>17, <1>18 DEF Step

\* Any number of pages and tools, which may all begin sessions with one key: two
\* sessions have it only if something has happened to the key of which UniqueKeys
\* speaks.
THEOREM KeysUnique == KSpec => []UniqueKeys
<1>1. KInit => TypeOK /\ Minds /\ InHand /\ KeysInv
  <2> SUFFICES ASSUME KInit PROVE TypeOK /\ Minds /\ InHand /\ KeysInv
    OBVIOUS
  <2>1. Init /\ \A s \in Sids : db[s] = NoInfo
    BY DEF KInit, Init
  <2>2. \A p \in Procs : pc[p] = "idle"
    BY DEF KInit, Init
  <2>3. \A key : WithKey(db, key) = {}
    BY <2>1 DEF WithKey, Present
  <2>4. \A key : \A p \in Procs : ~Beginning(p, key) /\ ~Rewriting(p, key)
    BY <2>2 DEF Beginning, Rewriting, At
  <2>5. KeysInv
    BY <2>3, <2>4 DEF KeysInv, KeyInv, Doubtful, Together, Multiple, Brought
  <2> QED BY <2>1, <2>2, <2>5, InitType, InitMinds DEF InHand
<1>2. TypeOK /\ Minds /\ InHand /\ KeysInv /\ [KNext]_kvars => KeysInv'
  <2> SUFFICES ASSUME TypeOK, Minds, InHand, KeysInv, [KNext]_kvars,
                      NEW key \in Keys, key \notin shared'
               PROVE  KeyInv(key)' /\ ~Doubtful(key)'
    BY DEF KeysInv
  <2>1. CASE UNCHANGED kvars
    <3>1. key \notin shared /\ UNCHANGED <<db, pc, req, target, rec>>
      BY <2>1 DEF kvars, vars
    <3> QED BY <3>1 DEF KeysInv, KeyInv, Doubtful, Together, Multiple, Brought, Beginning, Rewriting, At
  <2>2. CASE KNext
    <3>1. /\ Next /\ key \notin shared /\ ~Doubtful(key)' /\ ~Overlooked(key)
          /\ KeyInv(key) /\ ~Doubtful(key)
      BY <2>2 DEF KNext, KeysInv
    <3>2. ASSUME NEW p \in Procs, NEW r \in Requests[p], Call(p, r) PROVE KeyInv(key)'
      <4>1. OnlyOf(p) /\ pc'[p] = Start(r) /\ req'[p] = r /\ UNCHANGED <<db, rec>>
        BY <3>2, CallOnlyOf
      <4>2. ~Beginning(p, key)' /\ ~Rewriting(p, key)'
        <5>1. Beginning(p, key)' => Multiple(key)'
          BY <4>1 DEF Beginning, Multiple, Start
        <5> QED BY <3>1, <4>1, <5>1 DEF Doubtful, Start, Rewriting, At
      <4> QED BY <3>1, <4>1, <4>2, KeyShrinks
    <3>3. ASSUME NEW p \in Procs, Step(p) \/ ReapKilled(p) \/ Kill(p) PROVE KeyInv(key)'
      BY <3>1, <3>3, KeyStep
    <3>4. CASE Tick
      BY <3>1, <3>4 DEF Tick, KeyInv, Beginning, Rewriting, At
    <3> QED BY <3>1, <3>2, <3>3, <3>4 DEF Next, Calls
  <2> QED BY <2>1, <2>2
<1>3. TypeOK /\ KeysInv => UniqueKeys
  BY DEF TypeOK, Database, SESSION_INFO, KeysInv, KeyInv, UniqueKeys, WithKey, Present
<1>4. [KNext]_kvars => [Next]_vars
  BY DEF KNext, kvars
<1> QED BY <1>1, <1>2, <1>3, <1>4, NextType, NextMinds, NextInHand, PTL DEF KSpec

-----------------------------------------------------------------------------
(* Idle limits *)

\* Sessions are only removed.
Shrinks == \A s \in Sids : db'[s] = db[s] \/ db'[s] = NoInfo

\* The product that the idle test makes is a number, and the right one unless it
\* is more than an int holds.
LEMMA Product ==
  ASSUME NEW m \in Nat
  PROVE  /\ IntProduct(m, MINUTE) \in Int
         /\ m * MINUTE <= INT_MAX => IntProduct(m, MINUTE) = m * MINUTE
<1> DEFINE n == m * MINUTE
           modulus == 2 * (INT_MAX + 1)
           low == n % modulus
<1>1. n \in Nat /\ INT_MAX \in Nat /\ modulus \in Nat \ {0}
  BY ClockAssumption
<1>2. IntProduct(m, MINUTE) = IF low > INT_MAX THEN low - modulus ELSE low
  BY DEF IntProduct
<1>3. n <= INT_MAX => n < modulus
  BY <1>1
<1> HIDE DEF n, modulus
<1>4. low \in Int
  BY <1>1
<1>5. n < modulus => low = n
  BY <1>1
<1> HIDE DEF low
<1>6. IntProduct(m, MINUTE) \in Int
  BY <1>1, <1>2, <1>4
<1>7. n <= INT_MAX => IntProduct(m, MINUTE) = n
  BY <1>1, <1>2, <1>3, <1>4, <1>5
<1> QED BY <1>6, <1>7 DEF n

\* The histories are of times.
HTypes ==
  /\ began \in [Procs -> Nat] /\ used \in [Sids -> Nat]
  /\ \A p \in Procs : began[p] <= now
  /\ \A s \in Sids : used[s] <= now

\* A time of access that is not before the page's call, nor before the latest call
\* that has changed the session.
Recent(page, s, time) == began[page] <= time /\ used[s] <= time

\* What makes a removal one of an idle session: a record's time of access is not
\* before the latest call that changed it, nor is that of what the page will
\* store; and a record that the page will remove has timed out.
UsedInv(page) ==
  /\ HTypes
  /\ \A s \in Sids : db[s] # NoInfo => used[s] <= db[s].access
  /\ pc[page] \in {"probe", "store", "insert"} => Recent(page, target[page], rec[page].access)
  /\ pc[page] = "expire" =>
       db[target[page]] = NoInfo \/ TimedOut(db[target[page]], now)

\* At first there are no sessions.
LEMMA InitUsed ==
  ASSUME HInit, NEW page \in Procs
  PROVE  UsedInv(page)
BY DEF HInit, Init, UsedInv, HTypes

\* Where reapers are: idle, or reaping.
LEMMA OthersReap ==
  ASSUME TypeOK, Minds, NEW page \in Procs, OnePage(page, {"reap"}), NEW p \in Procs, p # page
  PROVE  pc[p] \in {"idle", "reap"}
<1>1. pc[p] # "idle" => req[p].kind = "reap"
  BY DEF Minds, Asked, OnePage
<1> QED BY <1>1 DEF TypeOK, Places, Minds, Paths

\* Sessions are only removed that have timed out.
Reaps == \A s \in Sids : db'[s] = db[s] \/ (db'[s] = NoInfo /\ s \in Expired(db, now))

\* What a reaper does.
LEMMA OthersReapStep ==
  ASSUME TypeOK, Minds, NEW page \in Procs, OnePage(page, {"reap"}), NEW p \in Procs, p # page,
         Step(p) \/ ReapKilled(p) \/ Kill(p)
  PROVE  /\ Reaps /\ now' = now
         /\ pc'[page] = pc[page] /\ target'[page] = target[page] /\ rec'[page] = rec[page]
<1>1. pc[p] \in {"idle", "reap"}
  BY OthersReap
<1>2. Reap(p) \/ ReapKilled(p)
  BY <1>1 DEF Step, Access, Expire, Refetch, Body, Current, Store, Remove, Clock, Probe, Find, Name,
         Insert, Kill, At
<1>3. Reaps
  BY <1>2 DEF Reaps, Reap, ReapKilled, Without
<1>4. pc'[page] = pc[page] /\ rec'[page] = rec[page]
  BY <1>2 DEF TypeOK, Reap, ReapKilled, Goto, Finish
<1>5. now' = now /\ target' = target
  BY <1>2 DEF Reap, ReapKilled, Writes
<1> QED BY <1>3, <1>4, <1>5

\* Which calls are noted as having changed a session.
LEMMA UsedBy ==
  ASSUME TypeOK, Minds, NEW page \in Procs, OnePage(page, {"reap"}), HTypes, HNext, NEW s \in Sids
  PROVE  \/ used'[s] = used[s]
         \/ /\ pc[page] \in {"store", "insert"} /\ target[page] = s
            /\ pc'[page] # pc[page] /\ result'[page] = "ok"
            /\ used'[s] = Later(used[s], began[page])
<1>1. used'[s] = IF \E p \in Procs : StoredNow(p, s)
                 THEN Later(used[s], began[CHOOSE p \in Procs : StoredNow(p, s)])
                 ELSE used[s]
  BY DEF HNext
<1>2. ASSUME NEW p \in Procs, StoredNow(p, s)
      PROVE  /\ p = page /\ pc[page] \in {"store", "insert"} /\ target[page] = s
             /\ pc'[page] # pc[page] /\ result'[page] = "ok"
  <2>1. pc[p] \in {"store", "insert"} /\ target[p] = s /\ pc'[p] # pc[p] /\ result'[p] = "ok"
    BY <1>2 DEF StoredNow, Does, At
  <2>2. p = page
    BY <2>1, OthersReap
  <2> QED BY <2>1, <2>2
<1>3. CASE \E p \in Procs : StoredNow(p, s)
  <2> DEFINE c == CHOOSE p \in Procs : StoredNow(p, s)
  <2>1. c \in Procs /\ StoredNow(c, s)
    BY <1>3
  <2> HIDE DEF c
  <2>2. /\ c = page /\ pc[page] \in {"store", "insert"} /\ target[page] = s
        /\ pc'[page] # pc[page] /\ result'[page] = "ok"
    BY <1>2, <2>1
  <2>3. used'[s] = Later(used[s], began[c])
    BY <1>1, <1>3 DEF c
  <2> QED BY <2>2, <2>3
<1>4. CASE ~\E p \in Procs : StoredNow(p, s)
  BY <1>1, <1>4
<1> QED BY <1>3, <1>4

\* Whatever happens, the histories are of the past.
LEMMA HTypesStep ==
  ASSUME TypeOK, Minds, NEW page \in Procs, OnePage(page, {"reap"}), HTypes, HNext,
         now' \in Nat, now <= now'
  PROVE  HTypes'
<1>1. now \in Nat
  BY ClockAssumption DEF TypeOK
<1>2. /\ began' = [p \in Procs |-> IF Called(p) THEN now ELSE began[p]]
  BY DEF HNext
<1>3. began' \in [Procs -> Nat] /\ \A p \in Procs : began'[p] <= now'
  BY <1>1, <1>2 DEF HTypes
<1>4. ASSUME NEW s \in Sids PROVE used'[s] \in Nat /\ used'[s] <= now'
  <2>1. used'[s] = used[s] \/ used'[s] = Later(used[s], began[page])
    BY UsedBy
  <2>2. used[s] \in Nat /\ began[page] \in Nat /\ used[s] <= now /\ began[page] <= now
    BY DEF HTypes
  <2> QED BY <1>1, <2>1, <2>2 DEF Later
<1>5. DOMAIN used' = Sids /\ used' = [s \in Sids |-> used'[s]]
  BY DEF HNext
<1> QED BY <1>3, <1>4, <1>5 DEF HTypes

\* Time does not make a record that has timed out one that has not.
LEMMA StillTimedOut ==
  ASSUME NEW info \in SESSION_INFO, NEW early \in Nat, NEW late \in Nat, early <= late,
         TimedOut(info, early)
  PROVE  TimedOut(info, late)
<1>1. info.timeout \in Nat /\ info.access \in Nat
  BY ClockAssumption DEF SESSION_INFO
<1>2. IntProduct(info.timeout, MINUTE) \in Int
  BY <1>1, Product
<1> DEFINE limit == IntProduct(info.timeout, MINUTE)
<1>3. info.timeout # 0 /\ early - info.access >= limit
  BY DEF TimedOut
<1> HIDE DEF limit
<1>4. late - info.access >= limit
  BY <1>1, <1>2, <1>3 DEF limit
<1> QED BY <1>3, <1>4 DEF TimedOut, limit

\* A session whose record has timed out has not been used since.
LEMMA TimedOutIdle ==
  ASSUME TypeOK, NEW page \in Procs, UsedInv(page), NEW s \in Expired(db, now)
  PROVE  /\ db[s].timeout # 0
         /\ \/ now - used[s] >= db[s].timeout * MINUTE
            \/ db[s].timeout * MINUTE > INT_MAX
<1>1. s \in Sids /\ db[s] # NoInfo /\ TimedOut(db[s], now)
  BY DEF Expired, Present
<1>2. db[s] \in SESSION_INFO
  BY <1>1 DEF TypeOK, Database
<1>3. db[s].timeout \in Nat /\ db[s].access \in Nat /\ now \in Nat /\ used[s] \in Nat
  BY <1>1, <1>2, ClockAssumption DEF SESSION_INFO, TypeOK, UsedInv, HTypes
<1>4. used[s] <= db[s].access
  BY <1>1 DEF UsedInv
<1>5. db[s].timeout # 0 /\ now - db[s].access >= IntProduct(db[s].timeout, MINUTE)
  BY <1>1 DEF TimedOut
<1> DEFINE limit == db[s].timeout * MINUTE
<1>6. limit \in Nat /\ INT_MAX \in Nat
  BY <1>3, ClockAssumption
<1>7. limit <= INT_MAX => IntProduct(db[s].timeout, MINUTE) = limit
  BY <1>3, Product
<1> HIDE DEF limit
<1>8. limit <= INT_MAX => now - used[s] >= limit
  BY <1>3, <1>4, <1>5, <1>6, <1>7
<1>9. now - used[s] >= limit \/ limit > INT_MAX
  BY <1>6, <1>8
<1> QED BY <1>5, <1>9 DEF limit

\* A step in which the page does nothing to a session but remove it, and has
\* nothing in hand to store.
LEMMA UsedRemoves ==
  ASSUME TypeOK, Minds, NEW page \in Procs, OnePage(page, {"reap"}), UsedInv(page), HNext,
         Shrinks, now' = now, result'[page] = "ok" => pc[page] \notin {"store", "insert"},
         pc'[page] \notin {"probe", "store", "insert"},
         pc'[page] = "expire" => db'[target'[page]] = NoInfo \/ TimedOut(db'[target'[page]], now)
  PROVE  UsedInv(page)'
<1>1. now \in Nat
  BY ClockAssumption DEF TypeOK
<1>2. HTypes'
  BY <1>1, HTypesStep DEF UsedInv
<1>3. \A s \in Sids : used'[s] = used[s]
  BY UsedBy DEF UsedInv
<1>4. \A s \in Sids : db'[s] # NoInfo => used'[s] <= db'[s].access
  BY <1>3 DEF Shrinks, UsedInv
<1> QED BY <1>2, <1>4 DEF UsedInv

\* One in which it takes a record in hand whose time is now, or is one it had.
LEMMA UsedTaken ==
  ASSUME TypeOK, Minds, NEW page \in Procs, OnePage(page, {"reap"}), UsedInv(page), HNext,
         db' = db, now' = now, pc[page] \notin {"idle", "store", "insert"},
         pc'[page] \in {"probe", "store", "insert"}, target'[page] \in Sids,
         rec'[page].access = now \/ (pc[page] = "probe" /\ target'[page] = target[page]
                                       /\ rec'[page].access = rec[page].access)
  PROVE  UsedInv(page)'
<1>1. now \in Nat
  BY ClockAssumption DEF TypeOK
<1>2. HTypes'
  BY <1>1, HTypesStep DEF UsedInv
<1>3. \A s \in Sids : used'[s] = used[s]
  BY UsedBy DEF UsedInv
<1>4. \A s \in Sids : db'[s] # NoInfo => used'[s] <= db'[s].access
  BY <1>3 DEF UsedInv
<1>5. began'[page] = began[page]
  BY DEF HNext, Called, At
<1>6. began'[page] <= rec'[page].access /\ used'[target'[page]] <= rec'[page].access
  <2>1. CASE rec'[page].access = now
    BY <1>3, <1>5, <2>1 DEF UsedInv, HTypes
  <2>2. CASE rec'[page].access # now
    BY <1>3, <1>5, <2>2 DEF UsedInv, Recent
  <2> QED BY <2>1, <2>2
<1> QED BY <1>2, <1>4, <1>6 DEF UsedInv, Recent

\* One in which it stores it.
LEMMA UsedStored ==
  ASSUME TypeOK, Minds, NEW page \in Procs, OnePage(page, {"reap"}), UsedInv(page), HNext,
         pc[page] \in {"store", "insert"}, db' = [db EXCEPT ![target[page]] = rec[page]],
         now' = now, pc'[page] \in {"idle", "reap"}
  PROVE  UsedInv(page)'
<1>1. now \in Nat /\ target[page] \in Sids
  BY ClockAssumption DEF TypeOK
<1>2. HTypes'
  BY <1>1, HTypesStep DEF UsedInv
<1>3. \A s \in Sids : db'[s] = IF s = target[page] THEN rec[page] ELSE db[s]
  BY DEF TypeOK, Database
<1>4. began[page] <= rec[page].access /\ used[target[page]] <= rec[page].access
  BY DEF UsedInv, Recent
<1>5. ASSUME NEW s \in Sids, db'[s] # NoInfo PROVE used'[s] <= db'[s].access
  <2>1. \/ used'[s] = used[s]
        \/ target[page] = s /\ used'[s] = Later(used[s], began[page])
    BY UsedBy DEF UsedInv
  <2>2. CASE s = target[page]
    BY <1>3, <1>4, <2>1, <2>2 DEF Later
  <2>3. CASE s # target[page]
    BY <1>3, <1>5, <2>1, <2>3 DEF UsedInv
  <2> QED BY <2>2, <2>3
<1> QED BY <1>2, <1>5 DEF UsedInv

\* One that is not the page's.
LEMMA UsedOther ==
  ASSUME TypeOK, Minds, NEW page \in Procs, OnePage(page, {"reap"}), UsedInv(page), HNext,
         Shrinks, now' \in Nat, now <= now',
         pc'[page] = pc[page], target'[page] = target[page], rec'[page] = rec[page]
  PROVE  UsedInv(page)'
<1>1. now \in Nat /\ target[page] \in Sids
  BY ClockAssumption DEF TypeOK
<1>2. HTypes'
  BY <1>1, HTypesStep DEF UsedInv
<1>3. \A s \in Sids : used'[s] = used[s]
  BY UsedBy DEF UsedInv
<1>4. \A s \in Sids : db'[s] # NoInfo => used'[s] <= db'[s].access
  BY <1>3 DEF Shrinks, UsedInv
<1>5. began'[page] = began[page]
  BY DEF HNext, Called, At
<1>6. pc'[page] \in {"probe", "store", "insert"} =>
        began'[page] <= rec'[page].access /\ used'[target'[page]] <= rec'[page].access
  BY <1>1, <1>3, <1>5 DEF UsedInv, Recent
<1>7. ASSUME pc'[page] = "expire", db'[target'[page]] # NoInfo
      PROVE  TimedOut(db'[target'[page]], now')
  <2>1. db'[target'[page]] = db[target[page]] /\ db[target[page]] # NoInfo
    BY <1>1, <1>7 DEF Shrinks
  <2>2. TimedOut(db[target[page]], now)
    BY <1>7, <2>1 DEF UsedInv
  <2>3. db[target[page]] \in SESSION_INFO
    BY <1>1, <2>1 DEF TypeOK, Database
  <2>4. TimedOut(db[target[page]], now')
    BY <1>1, <2>2, <2>3, StillTimedOut
  <2> QED BY <2>1, <2>4
<1> QED BY <1>2, <1>4, <1>6, <1>7 DEF UsedInv, Recent

\* Without set-session-data, an operation that finds no record is over.
LEMMA NotThereEnds ==
  ASSUME TypeOK, NEW page \in Procs, NotThere(page), req[page].kind # "data"
  PROVE  pc'[page] = "idle" /\ result'[page] = "gone"
BY DEF TypeOK, NotThere, Finish, Goto

\* The page's own steps.
LEMMA PageUsed ==
  ASSUME TypeOK, Minds, NEW page \in Procs, OnePage(page, {"reap"}),
         \A r \in Requests[page] : r.kind # "data",
         UsedInv(page), HNext, Step(page) \/ ReapKilled(page) \/ Kill(page)
  PROVE  UsedInv(page)'
<1>1. ~Faults /\ (pc[page] # "idle" => req[page].kind # "data")
  BY DEF OnePage, Minds, Asked
<1>2. \A s : Fetched(s) = {db[s]} /\ \A info : Stored(s, info) = {[db EXCEPT ![s] = info]}
  BY <1>1 DEF Fetched, Stored
<1>3. target[page] \in Sids /\ db \in Database /\ TypeOK'
  BY NextType DEF TypeOK, HNext
<1>4. db' = db => Shrinks
  BY DEF Shrinks
<1>5. db' = [db EXCEPT ![target[page]] = NoInfo] => Shrinks
  BY <1>3 DEF Shrinks, Database
<1>6. \A gone : db' = Without(gone) => Shrinks
  BY DEF Shrinks, Without
<1>7. now' = now
  BY DEF Step, Access, Expire, Refetch, Body, Current, Store, Remove, Clock, Probe, Find, Name,
         Insert, Reap, ReapKilled, Kill, Reads, Writes
<1>8. CASE Access(page)
  <2>1. db' = db /\ target' = target /\ pc[page] = "access"
    BY <1>8 DEF Access, At, Reads
  <2>2. pc'[page] \notin {"probe", "store", "insert"}
    BY <1>1, <1>8, <2>1, NotThereEnds DEF Access, Goto, Finish, TypeOK
  <2>3. pc'[page] = "expire" => TimedOut(db[target[page]], now)
    BY <1>1, <1>2, <1>8, <2>1, NotThereEnds DEF Access, Goto, Finish, TypeOK
  <2> QED BY <1>4, <1>7, <2>1, <2>2, <2>3, UsedRemoves
<1>9. CASE Expire(page)
  <2>1. db' = [db EXCEPT ![target[page]] = NoInfo] /\ pc[page] = "expire" /\ NotThere(page)
    BY <1>2, <1>9 DEF Expire, At
  <2>2. pc'[page] = "idle"
    BY <1>1, <2>1, NotThereEnds
  <2> QED BY <1>5, <1>7, <2>1, <2>2, UsedRemoves
<1>10. CASE Refetch(page)
  <2>1. db' = db /\ pc[page] = "refetch"
    BY <1>10 DEF Refetch, At, Reads
  <2>2. pc'[page] \in {"idle", "remove", "body"}
    BY <1>1, <1>10, <2>1, NotThereEnds DEF Refetch, Goto, Finish, TypeOK
  <2> QED BY <1>4, <1>7, <2>1, <2>2, UsedRemoves
<1>11. CASE Body(page)
  <2>1. db' = db /\ pc[page] = "body" /\ pc'[page] = "current"
    BY <1>11 DEF Body, At, Reads, Goto, TypeOK
  <2> QED BY <1>4, <1>7, <2>1, UsedRemoves
<1>12. CASE Current(page)
  <2>1. db' = db /\ pc[page] = "current" /\ target'[page] \in Sids
    BY <1>3, <1>12 DEF Current, At, Reads, TypeOK
  <2>2. PICK current \in Fetched(target[page]) :
          \/ current = NoInfo /\ Finish(page, "gone")
          \/ /\ current # NoInfo
             /\ Hold(page, [rec[page] EXCEPT !.access = now, !.key = current.key])
             /\ Goto(page, "store") /\ UNCHANGED result
    BY <1>12 DEF Current
  <2>3. CASE Finish(page, "gone")
    <3>1. pc'[page] = "idle"
      BY <2>3 DEF Finish, Goto, TypeOK
    <3> QED BY <1>4, <1>7, <2>1, <3>1, UsedRemoves
  <2>4. CASE Hold(page, [rec[page] EXCEPT !.access = now, !.key = current.key]) /\ Goto(page, "store")
    <3>1. rec[page] \in SESSION_INFO
      BY <2>1 DEF TypeOK, HasInfo
    <3>2. /\ rec'[page] = [rec[page] EXCEPT !.access = now, !.key = current.key]
          /\ pc'[page] = "store"
      BY <2>4 DEF Hold, Goto, TypeOK
    <3>3. rec'[page].access = now
      BY <3>1, <3>2 DEF SESSION_INFO
    <3> QED BY <1>7, <2>1, <3>2, <3>3, UsedTaken
  <2> QED BY <2>2, <2>3, <2>4
<1>13. CASE Store(page)
  <2>1. /\ db' = [db EXCEPT ![target[page]] = rec[page]]
        /\ pc[page] = "store" /\ pc'[page] = "idle"
    BY <1>2, <1>13 DEF Store, At, Finish, Goto, TypeOK
  <2> QED BY <1>7, <2>1, UsedStored
<1>14. CASE Remove(page)
  <2>1. db' = [db EXCEPT ![target[page]] = NoInfo] /\ pc[page] = "remove" /\ pc'[page] = "idle"
    BY <1>2, <1>14 DEF Remove, At, Finish, Goto, TypeOK
  <2> QED BY <1>5, <1>7, <2>1, UsedRemoves
<1>15. CASE Clock(page)
  <2>1. /\ db' = db /\ pc[page] = "clock" /\ pc'[page] = "probe" /\ target'[page] \in Sids
        /\ rec'[page] = [Saved(req[page]) EXCEPT !.access = now]
    BY <1>3, <1>15 DEF Clock, At, Goto, Hold, Reads, TypeOK
  <2>2. rec'[page].access = now
    BY <2>1 DEF Saved
  <2> QED BY <1>7, <2>1, <2>2, UsedTaken
<1>16. CASE Probe(page)
  <2>1. /\ db' = db /\ target' = target /\ pc[page] = "probe" /\ pc'[page] = "store"
        /\ rec'[page] = IF db[target[page]] = NoInfo THEN rec[page]
                        ELSE [db[target[page]] EXCEPT !.access = rec[page].access]
    BY <1>2, <1>16 DEF Probe, At, Goto, Hold, Reads, TypeOK
  <2>2. db[target[page]] # NoInfo => db[target[page]] \in SESSION_INFO
    BY <1>3 DEF Database
  <2>3. rec'[page].access = rec[page].access
    BY <2>1, <2>2 DEF SESSION_INFO
  <2> QED BY <1>3, <1>7, <2>1, <2>3, UsedTaken
<1>17. CASE Find(page)
  <2>1. db' = db /\ pc[page] = "find" /\ pc'[page] \in {"idle", "reap", "name"}
    BY <1>17 DEF Find, At, Reads, Goto, Finish, TypeOK
  <2> QED BY <1>4, <1>7, <2>1, UsedRemoves
<1>18. CASE Name(page)
  <2>1. /\ db' = db /\ pc[page] = "name" /\ pc'[page] = "insert" /\ target'[page] \in Sids
        /\ rec'[page].access = now
    BY <1>3, <1>18 DEF Name, At, Goto, Hold, TypeOK
  <2> QED BY <1>7, <2>1, UsedTaken
<1>19. CASE Insert(page)
  <2>1. /\ db' = [db EXCEPT ![target[page]] = rec[page]]
        /\ pc[page] = "insert" /\ pc'[page] \in {"idle", "reap"}
    BY <1>2, <1>19 DEF Insert, At, Finish, Goto, TypeOK
  <2> QED BY <1>7, <2>1, UsedStored
<1>20. CASE Reap(page) \/ ReapKilled(page)
  <2>1. Shrinks
    BY <1>4, <1>6, <1>20 DEF Reap, ReapKilled
  <2>2. pc[page] = "reap" /\ pc'[page] = "idle"
    BY <1>20 DEF Reap, ReapKilled, At, Finish, Goto, TypeOK
  <2> QED BY <1>7, <2>1, <2>2, UsedRemoves
<1>21. CASE Kill(page)
  <2>1. db' = db /\ pc'[page] = "idle" /\ result'[page] = "none"
    BY <1>21 DEF Kill, Finish, Goto, TypeOK
  <2> QED BY <1>4, <1>7, <2>1, UsedRemoves
<1> QED
  BY <1>8, <1>9, <1>10, <1>11, <1>12, <1>13, <1>14, <1>15, <1>16, <1>17, <1>18, <1>19, <1>20, <1>21
     DEF Step

\* Every step.
LEMMA NextUsed ==
  ASSUME TypeOK, Minds, NEW page \in Procs, OnePage(page, {"reap"}),
         \A r \in Requests[page] : r.kind # "data", UsedInv(page), [HNext]_hvars
  PROVE  UsedInv(page)'
<1>1. now \in Nat /\ now <= now
  BY ClockAssumption DEF TypeOK
<1>2. CASE UNCHANGED hvars
  BY <1>2 DEF hvars, vars, UsedInv, HTypes, Recent
<1>3. ASSUME HNext, NEW p \in Procs, NEW r \in Requests[p], Call(p, r) PROVE UsedInv(page)'
  <2>1. db' = db /\ Shrinks /\ rec' = rec /\ now' = now
    BY <1>3 DEF Call, Shrinks
  <2>2. CASE p = page
    <3>1. pc[page] = "idle" /\ pc'[page] = Start(r)
      BY <1>3, <2>2 DEF Call, At, Goto, TypeOK
    <3>2. pc'[page] \notin {"probe", "store", "insert", "expire"}
      BY <3>1 DEF Start
    <3> QED BY <1>3, <2>1, <3>1, <3>2, UsedRemoves
  <2>3. CASE p # page
    <3>1. pc'[page] = pc[page] /\ target'[page] = target[page]
      BY <1>3, <2>3 DEF Call, Goto, TypeOK
    <3> QED BY <1>1, <1>3, <2>1, <3>1, UsedOther
  <2> QED BY <2>2, <2>3
<1>4. ASSUME HNext, NEW p \in Procs, Step(p) \/ ReapKilled(p) \/ Kill(p) PROVE UsedInv(page)'
  <2>1. CASE p = page
    BY <1>4, <2>1, PageUsed
  <2>2. CASE p # page
    <3>1. Reaps /\ now' = now /\ pc'[page] = pc[page] /\ target'[page] = target[page] /\ rec'[page] = rec[page]
      BY <1>4, <2>2, OthersReapStep
    <3>2. Shrinks
      BY <3>1 DEF Reaps, Shrinks
    <3> QED BY <1>1, <1>4, <3>1, <3>2, UsedOther
  <2> QED BY <2>1, <2>2
<1>5. ASSUME HNext, Tick PROVE UsedInv(page)'
  <2>1. /\ Shrinks /\ now' \in Nat /\ now <= now' /\ pc' = pc /\ target' = target /\ rec' = rec
    BY <1>1, <1>5 DEF Tick, Shrinks
  <2> QED BY <1>5, <2>1, UsedOther
<1> QED BY <1>2, <1>3, <1>4, <1>5 DEF HNext, Next, Calls

\* What a step removes has timed out, or is what the page was asked to remove.
LEMMA RemovesIdle ==
  ASSUME TypeOK, TypeOK', Minds, NEW page \in Procs, OnePage(page, {"reap"}),
         \A r \in Requests[page] : r.kind # "data", UsedInv(page), Next,
         NEW s \in Sids, db[s] # NoInfo, db'[s] = NoInfo,
         ~\E p \in Procs : Does(p, "remove", s)
  PROVE  s \in Expired(db, now)
<1>1. \A p \in Procs : \A t : ~Faults /\ Stored(t, NoInfo) = {[db EXCEPT ![t] = NoInfo]}
                          /\ Stored(t, rec[p]) = {[db EXCEPT ![t] = rec[p]]}
  BY DEF OnePage, Stored
<1>2. CASE db' = db
  BY <1>2
<1>3. ASSUME NEW p \in Procs, p # page, Step(p) \/ ReapKilled(p) \/ Kill(p)
      PROVE  s \in Expired(db, now)
  <2>1. Reaps
    BY <1>3, OthersReapStep
  <2> QED BY <2>1 DEF Reaps
<1>4. CASE Expire(page)
  <2>1. pc[page] = "expire" /\ target[page] \in Sids /\ db' = [db EXCEPT ![target[page]] = NoInfo]
    BY <1>1, <1>4 DEF Expire, At, TypeOK
  <2>2. s = target[page]
    BY <2>1 DEF TypeOK, Database
  <2>3. TimedOut(db[s], now)
    BY <2>1, <2>2 DEF UsedInv
  <2> QED BY <2>3 DEF Expired, Present
<1>5. CASE Remove(page)
  <2>1. /\ pc[page] = "remove" /\ pc'[page] = "idle" /\ target[page] \in Sids
        /\ db' = [db EXCEPT ![target[page]] = NoInfo]
    BY <1>1, <1>5 DEF Remove, At, Finish, Goto, TypeOK
  <2>2. s = target[page]
    BY <2>1 DEF TypeOK, Database
  <2> QED BY <2>1, <2>2 DEF Does, At
<1>6. CASE Store(page) \/ Insert(page)
  <2>1. /\ pc[page] \in {"store", "insert"} /\ target[page] \in Sids
        /\ db' = [db EXCEPT ![target[page]] = rec[page]]
    BY <1>1, <1>6 DEF Store, Insert, At, TypeOK
  <2>2. rec[page] # NoInfo
    BY <2>1 DEF TypeOK, HasInfo
  <2> QED BY <2>1, <2>2 DEF TypeOK, Database
<1>7. CASE Reap(page) \/ ReapKilled(page)
  BY <1>7 DEF Reap, ReapKilled, Without
<1>8. CASE \/ Access(page) \/ Refetch(page) \/ Body(page) \/ Current(page) \/ Clock(page)
           \/ Probe(page) \/ Find(page) \/ Name(page) \/ Kill(page)
  BY <1>2, <1>8 DEF Access, Refetch, Body, Current, Clock, Probe, Find, Name, Kill, Reads
<1>9. ASSUME NEW p \in Procs, Calls(p) PROVE s \in Expired(db, now)
  BY <1>2, <1>9 DEF Calls, Call
<1>10. CASE Tick
  BY <1>2, <1>10 DEF Tick
<1> QED BY <1>3, <1>4, <1>5, <1>6, <1>7, <1>8, <1>9, <1>10 DEF Next, Step

\* A page that has its sessions to itself, but for reapers, and that does not use
\* set-session-data, which does not renew a record, loses none that it has used
\* within the session's limit, for every interleaving with the reapers and the
\* clock.
THEOREM OnlyIdleRemoved ==
  ASSUME NEW page \in Procs, OnePage(page, {"reap"}), \A r \in Requests[page] : r.kind # "data"
  PROVE  HSpec => RemovedIdle
<1> DEFINE A == \A s \in Sids :
                  /\ db[s] # NoInfo /\ db'[s] = NoInfo
                  /\ ~\E p \in Procs : Does(p, "remove", s)
                  => /\ db[s].timeout # 0
                     /\ \/ now - used[s] >= db[s].timeout * MINUTE
                        \/ db[s].timeout * MINUTE > INT_MAX
           HI == TypeOK /\ Minds /\ UsedInv(page)
<1>1. HInit => HI
  BY InitType, InitMinds, InitUsed DEF HInit
<1>2. HI /\ [HNext]_hvars => HI'
  <2>1. [HNext]_hvars => [Next]_vars
    BY DEF HNext, hvars
  <2> QED BY <2>1, NextType, NextMinds, NextUsed
<1>3. HI /\ [HNext]_hvars => [A]_hvars
  <2> SUFFICES ASSUME HI, HNext, NEW s \in Sids, db[s] # NoInfo, db'[s] = NoInfo,
                      ~\E p \in Procs : Does(p, "remove", s)
               PROVE  /\ db[s].timeout # 0
                      /\ \/ now - used[s] >= db[s].timeout * MINUTE
                         \/ db[s].timeout * MINUTE > INT_MAX
    OBVIOUS
  <2>1. Next /\ TypeOK'
    BY NextType DEF HNext
  <2>2. s \in Expired(db, now)
    BY <2>1, RemovesIdle
  <2> QED BY <2>2, TimedOutIdle
<1> HIDE DEF A, HI
<1>4. RemovedIdle <=> [][A]_hvars
  BY DEF RemovedIdle, A
<1>5. HSpec => HInit /\ [][HNext]_hvars
  BY PTL DEF HSpec
<1> QED BY <1>1, <1>2, <1>3, <1>4, <1>5, PTL

=============================================================================

-------------------------- MODULE MCSessionHistory -------------------------
(* SessionHistory on the instances of MCSession. *)
EXTENDS MCSession, SessionHistory

\* What RemovedIdle is proved under.
ASSUME PageAlone ==
  \E page \in Procs :
    /\ OnePage(page, {"reap"})
    /\ \A r \in Requests[page] : r.kind # "data"

=============================================================================

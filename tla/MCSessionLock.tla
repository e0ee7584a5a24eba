--------------------------- MODULE MCSessionLock ---------------------------
(* SessionLock on small instances. *)
EXTENDS SessionLock

CONSTANTS p1, p2, p3, s1, s2

\* One access of each kind, about one identifier and one key.
MCOps ==
  [kind : Kinds, sid : {s1},
   info : {[key |-> "k1", access |-> 1, timeout |-> 1, data |-> {}]}]

=============================================================================

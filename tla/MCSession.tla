----------------------------- MODULE MCSession -----------------------------
(* Session on small instances; each cfg says which pages and tools run. *)
EXTENDS Session, TLC

CONSTANTS p1, p2

MCSids == {p1, p2} \X Times

Req(kind, s) ==
  [kind |-> kind, sid |-> s, key |-> "k1", multiple |-> FALSE, var |-> "v",
   timeout |-> 2, reaps |-> TRUE]

On(kinds, sids) == {Req(k, s) : k \in kinds, s \in sids}
Many(r) == [r EXCEPT !.multiple = TRUE]

\* A page that has its sessions to itself, and a tool that reaps.  A limit of 3 is
\* more than an int holds in MCSessionPage.cfg.
PageAndReaper ==
  (p1 :> On({"create", "set", "timeout", "require"}, {<<p1, 0>>})
           \cup On({"delete"}, {<<p1, 2>>})
           \cup {[Req("timeout", <<p1, 0>>) EXCEPT !.timeout = 3]}
           \cup {[Req("restore", <<p2, 0>>) EXCEPT !.key = Restarted]})
  @@ (p2 :> {Req("reap", <<p1, 0>>)})

\* Two pages of one user's sessions, both of which begin them.
SharedSession ==
  (p1 :> On({"create", "set", "delete", "get", "data"}, {<<p1, 0>>})
           \cup {Many(Req("create", <<p1, 0>>))})
  @@ (p2 :> On({"create", "unset", "timeout", "require", "restore", "reap"}, {<<p1, 0>>}))

=============================================================================

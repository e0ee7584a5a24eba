---------------------------- MODULE SessionData ----------------------------
(***************************************************************************)
(* The record kept for one session and the pure operations on a database   *)
(* of such records, as libmhtml/session.c defines them.  The modules about  *)
(* the session database share it.                                          *)
(*                                                                         *)
(* `start' is never read by the code and is left out; `data' is the set of *)
(* variables the session's alist gives a value to.                         *)
(***************************************************************************)
EXTENDS Integers

CONSTANTS
  Sids,      \* session identifiers
  Keys,      \* the keys sessions are created with
  Vars,      \* names of session variables
  Timeouts,  \* the idle limits in use, in minutes; 0 is "never"
  Times,     \* the values of the clock, in seconds
  MINUTE,    \* seconds in a minute
  INT_MAX,   \* the largest value of a C int
  NoInfo     \* a NULL SESSION_INFO pointer: no such record

SESSION_INFO ==
  [key : Keys, access : Times, timeout : Timeouts, data : SUBSET Vars]

ASSUME NoInfoAssumption == NoInfo \notin SESSION_INFO
ASSUME ClockAssumption ==
  /\ Times \subseteq Nat /\ 0 \in Times
  /\ Timeouts \subseteq Nat
  /\ MINUTE \in Nat \ {0}
  /\ INT_MAX \in Nat \ {0}

Database == [Sids -> SESSION_INFO \cup {NoInfo}]

Present(db) == {s \in Sids : db[s] # NoInfo}

WithKey(db, key) == {s \in Present(db) : db[s].key = key}

\* The product is computed in an int, so it wraps at INT_MAX.
IntProduct(m, n) ==
  LET modulus == 2 * (INT_MAX + 1)
      low     == (m * n) % modulus
  IN  IF low > INT_MAX THEN low - modulus ELSE low

\* The idle test that session_access and generic_session_reaper share.
TimedOut(info, time) ==
  /\ info.timeout # 0
  /\ time - info.access >= IntProduct(info.timeout, MINUTE)

Expired(db, time) == {s \in Present(db) : TimedOut(db[s], time)}

=============================================================================

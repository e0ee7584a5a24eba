----------------------------- MODULE MCLogLock -----------------------------
(* Configurations for LogLock. *)
EXTENDS LogLock

CONSTANTS ErrorLog, DebugLog

Apart == [kind \in Kinds |-> IF kind = "error" THEN ErrorLog ELSE DebugLog]
ErrorsOnly == [kind \in Kinds |-> IF kind = "error" THEN ErrorLog ELSE NoFile]

One == [kind \in Kinds |-> ErrorLog]

\* The two logs apart, as the configuration file has them, without a word about
\* performance and with it; performance asked for where there is no log for it;
\* and one log for both.
Some ==
  {[log |-> Apart, performance |-> FALSE], [log |-> Apart, performance |-> TRUE],
   [log |-> ErrorsOnly, performance |-> TRUE], [log |-> One, performance |-> FALSE]}
=============================================================================

------------------------------ MODULE MCCgiExec ------------------------------
(* Three commands, with and without time-outs, on pipes that hold one unit. *)
EXTENDS CgiExec
=============================================================================

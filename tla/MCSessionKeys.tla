--------------------------- MODULE MCSessionKeys ---------------------------
(* SessionKeys on the instances of MCSession. *)
EXTENDS MCSession, SessionKeys

=============================================================================

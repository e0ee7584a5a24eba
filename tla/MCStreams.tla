----------------------------- MODULE MCStreams -----------------------------
(* Streams within a stream, with a program among them. *)
EXTENDS Streams

=============================================================================

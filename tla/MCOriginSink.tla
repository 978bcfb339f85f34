---------------------------- MODULE MCOriginSink ----------------------------
(* Small instances of the origin's sample sink for TLC. *)
EXTENDS OriginSink
=============================================================================

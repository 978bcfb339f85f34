----------------------------- MODULE MCSession -----------------------------
(* A small instance of a client's session for TLC. *)
EXTENDS ClientSession
=============================================================================

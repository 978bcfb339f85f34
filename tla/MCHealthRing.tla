---------------------------- MODULE MCHealthRing ----------------------------
(* A small instance of the health ring for TLC. *)
EXTENDS HealthRing
=============================================================================

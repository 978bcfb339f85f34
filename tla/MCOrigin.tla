------------------------------ MODULE MCOrigin ------------------------------
(* A small instance of the origin service for TLC. *)
EXTENDS OriginService
=============================================================================

---------------------------- MODULE MCController ----------------------------
(* A small instance of the service without Redis for TLC. *)
EXTENDS Controller

MCKappa == [c \in AccessClass |-> CASE c = HIGH -> 10 [] c = MEDIUM -> 15 [] c = LOW -> 25]
MCMix == [c \in AccessClass |-> CASE c = HIGH -> 25 [] c = MEDIUM -> 40 [] c = LOW -> 35]
=============================================================================

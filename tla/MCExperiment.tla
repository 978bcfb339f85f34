---------------------------- MODULE MCExperiment ----------------------------
(* A small instance of the experiment for TLC. *)
EXTENDS Experiment

MCMatrix == <<[seed |-> 1, mode |-> "baseline"], [seed |-> 1, mode |-> "aaac"]>>
MCMix == [c \in AccessClass |-> CASE c = HIGH -> 10 [] c = MEDIUM -> 20 [] c = LOW -> 70]
=============================================================================

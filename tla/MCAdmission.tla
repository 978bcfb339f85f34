---------------------------- MODULE MCAdmission ----------------------------
(* Small instances of the admission service for TLC. *)
EXTENDS AdmissionInv, TLC

Symmetry == Permutations(Tickets)
=============================================================================

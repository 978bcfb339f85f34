----------------------------- MODULE MCEventLog -----------------------------
(* Small instances of the event log for TLC: buffers of three lines. *)
EXTENDS EventLogInv
=============================================================================

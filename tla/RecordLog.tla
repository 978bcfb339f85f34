----------------------------- MODULE RecordLog -----------------------------
(***************************************************************************)
(* What the event log promises the services that write to it and the       *)
(* analysis that reads it (aaac.common.events; SYSTEM.md 8): every record  *)
(* accepted is stored at most once and in order, and by itself, not only   *)
(* when more records push it out.  A write error may cost the end of a     *)
(* batch, and it may break the log: then nothing is promised about when    *)
(* the records left are stored.  From the moment the service shuts down    *)
(* the order of the lines is given up, not their presence.                 *)
(***************************************************************************)
EXTENDS Integers

VARIABLES
    accepted,   \* how many records have been accepted; they are 1..accepted
    stored,     \* the records in the file
    lost,       \* the records a write error has cost
    open,       \* the service has not begun to shut down
    broken      \* a write error has stopped the log from storing by itself

vars == <<accepted, stored, lost, open, broken>>

Pending == (1..accepted) \ (stored \cup lost)

Init ==
    /\ accepted = 0
    /\ stored = {} /\ lost = {}
    /\ open = TRUE /\ broken = FALSE

Accept ==
    /\ accepted' = accepted + 1
    /\ UNCHANGED <<stored, lost, open, broken>>

\* Store the first of a batch, all of it unless there is an error, and give up the
\* rest: while the service runs, a batch is all that is pending.
Store ==
    /\ \E batch \in SUBSET Pending : \E kept \in SUBSET batch :
          /\ batch # {}
          /\ open => batch = Pending
          /\ \A r \in kept, q \in batch \ kept : r < q
          /\ stored' = stored \cup kept
          /\ lost' = lost \cup (batch \ kept)
          /\ broken' \in {broken, TRUE}
    /\ UNCHANGED <<accepted, open>>

ShutDown ==
    /\ open' = FALSE
    /\ UNCHANGED <<accepted, stored, lost, broken>>

Next == Accept \/ Store \/ ShutDown

Spec == Init /\ [][Next]_vars /\ WF_vars(~broken /\ Store)
=============================================================================

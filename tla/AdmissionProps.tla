--------------------------- MODULE AdmissionProps ---------------------------
(***************************************************************************)
(* What the admission service must get right, and what its documents say   *)
(* of it.                                                                  *)
(***************************************************************************)
EXTENDS Admission

\* The tickets the sweep has taken out of inflight and not yet re-queued.
Sweeping ==
    ctl.expired \cup
    (IF frame[Controller].pc = "idle" THEN {} ELSE {frame[Controller].tid})

\* A ticket is never queued and in flight at once: admit_n and reinsert move it
\* in one step, whatever handlers run between two of them.
OnePlace == Queued \cap inflight = {}

\* No ticket is lost: a WAITING one is queued, an ADMITTED one holds a slot or
\* is held by the sweep that took its slot, so somebody will admit or expire it.
NoTicketLost ==
    \A t \in Tickets :
        /\ hash[t].state = "WAITING" => t \in Queued
        /\ hash[t].state = "ADMITTED" /\ ~Faults => t \in inflight \cup Sweeping

\* A slot is only ever held by an ADMITTED ticket: completing a ticket, however
\* late the report, gives its slot back.
SlotsAreAdmitted == \A t \in inflight : hash[t].state = "ADMITTED"

\* C4, aaac: nobody is admitted past a ticket that joined earlier and waits,
\* however often that ticket timed out.
NoOvertaking ==
    [][Mode = "aaac" =>
       \A t, u \in Queued :
           /\ hash[t].join_seq < hash[u].join_seq
           /\ u \in inflight'
           => t \in inflight']_vars

\* Two queued tickets never share a score, so ZPOPMIN and ZRANK never fall back
\* on comparing ticket ids: every score is a number next_seq gave out once.
DistinctScores ==
    \A t, u \in Queued : waiting[t] = waiting[u] => t = u

\* C5: an admission of the controller never takes the tickets in flight above
\* the C_max it was decided under, though both counts it used are stale by then.
\* (In none mode queue_join takes slots without asking.)
AdmitRespectsCap ==
    [][Mode # "none" /\ ctl.pc = "admit" /\ ctl'.pc = "sweep"
       => Cardinality(inflight') <= ctl.c_max]_vars

\* The sweep frees only slots whose window has passed, though it compares
\* expires_at with a "now" taken before the health poll and the admissions.
SweepsOnlyElapsed ==
    [][ctl.pc = "sweep" /\ ctl'.pc = "requeue"
       => inflight \ inflight' \subseteq elapsed]_vars

\* The waiting counter of /admin/snapshot never reports fewer than there are.
CounterCoversQueue == waiting_counter >= waiting_count

\* A window that passes is handled: the ticket is queued again or completed.
ExpiredIsRequeued ==
    \A t \in Tickets :
        (hash[t].state = "ADMITTED" /\ t \in elapsed)
            ~> (hash[t].state \in {"WAITING", "COMPLETED"})
-----------------------------------------------------------------------------
(* What a document claims and the code does not keep. *)

\* SYSTEM.md 4: "the controller's sweep expires the ticket and C4 re-queues
\* it": an ADMITTED ticket has a slot or a sweep at work on it, failures or not.
SweptIsRequeued ==
    \A t \in Tickets : hash[t].state = "ADMITTED" => t \in inflight \cup Sweeping
=============================================================================

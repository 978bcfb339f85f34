---------------------------- MODULE AdmissionInv ----------------------------
(***************************************************************************)
(* The inductive invariant behind the safety properties of AdmissionProps. *)
(* An action of a handler relies on what the handler did steps ago, so     *)
(* most conjuncts say what a frame still knows of its ticket although      *)
(* other handlers have run in between.                                     *)
(***************************************************************************)
EXTENDS AdmissionProps

Busy(th) == frame[th].pc # "idle"

Exists(t) == hash[t].state # "NONE"

\* Which coroutines a thread runs, and on which ticket.
FramesOK ==
    /\ \A t \in Tickets : frame[t].tid = t
    /\ Busy(Controller) =>
          /\ frame[Controller].tid \in Tickets
          /\ frame[Controller].pc \in {"get", "reseq", "reinsert"}
    /\ \A t \in Tickets : frame[t].pc = "admit" => Mode = "none"
    /\ \A th \in Threads : frame[th].pc = "reseq" => Mode # "aaac"

\* Only the last part of a tick holds tickets in locals.
TickOK == ctl.pc # "requeue" => ctl.expired = {} /\ ~Busy(Controller)

\* A ticket is created once, by its own join, and nothing touches it before.
TicketsOK ==
    /\ \A t \in Tickets : client[t] = "new" => ~Busy(t) /\ ~Exists(t)
    /\ \A t \in Tickets : client[t] \in {"polling", "fetching"} => Exists(t)
    /\ \A t \in Tickets : frame[t].pc = "create" <=> Busy(t) /\ ~Exists(t)
    /\ \A t \in Tickets : t \in Queued \cup inflight \cup Sweeping => Exists(t)
    /\ \A t \in Tickets : Exists(t) => hash[t].join_seq # 0

\* The scores that are, or are about to become, scores of waiting.
ScoresOK ==
    /\ \A th \in Threads : frame[th].pc \in {"create", "reinsert"} => frame[th].score # 0
    /\ Mode = "aaac" =>
          /\ \A t \in Queued : waiting[t] = hash[t].join_seq
          /\ \A th \in Threads :
                frame[th].pc = "reinsert" => frame[th].score = hash[frame[th].tid].join_seq

\* A queued ticket waits, or was completed by a report that came after its
\* re-queue: complete() leaves it in waiting.
QueuedWaits == \A t \in Queued : hash[t].state \in {"WAITING", "COMPLETED"}

\* While the controller is about to admit n tickets, n slots stay free.
SlotsFree ==
    Mode # "none" /\ ctl.pc = "admit" => inflight_count + ctl.n <= ctl.c_max

\* What the tick noted as due has a slot only if its window has passed: a window
\* given since then takes its ticket off the list.
DueOK == ctl.due \cap inflight \subseteq elapsed

\* The numbers that are scores of a ticket, or may yet become one.
Numbers(t) ==
    ({hash[t].join_seq, waiting[t]}
      \cup {frame[th].score : th \in {v \in Threads : /\ frame[v].pc \in {"create", "reinsert"}
                                                     /\ frame[v].tid = t}})
    \ {0}

\* Each has been given out by next_seq, and to one ticket only.
NumbersOK ==
    \A t \in Tickets :
        /\ \A n \in Numbers(t) : n <= seq
        /\ \A u \in Tickets \ {t} : Numbers(t) \cap Numbers(u) = {}

PlacesInv ==
    TypeOK /\ FramesOK /\ TickOK /\ TicketsOK /\ ScoresOK /\ QueuedWaits
    /\ SlotsAreAdmitted /\ NoTicketLost

IInv == PlacesInv /\ SlotsFree /\ DueOK /\ CounterCoversQueue /\ NumbersOK
=============================================================================

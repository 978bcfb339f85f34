----------------------------- MODULE QueueStore -----------------------------
(***************************************************************************)
(* aaac.admission.store.RedisQueueStore: the state one run keeps in Redis  *)
(* and the operations on it.  Each operation is one Lua script or one      *)
(* MULTI/EXEC pipeline (redis-py's default), hence one atomic step; the    *)
(* reads a pipeline makes first are of fields nobody changes (true_class). *)
(* The operators below are the conjuncts an action of module Admission     *)
(* makes of the store call it performs.                                    *)
(*                                                                         *)
(* Left out of the state: true_class, which only labels counters; the      *)
(* completed and timed_out counters, which only ever count up; expires_at  *)
(* beyond the one bit "has it passed".                                     *)
(***************************************************************************)
EXTENDS AccessClasses, Integers, FiniteSets

CONSTANT Tickets            \* the ticket ids of one run

VARIABLES
    seq,        \* aaac:{run}:seq, the last number handed out
    hash,       \* aaac:{run}:ticket:{tid}; state "NONE" when there is no key
    waiting,    \* ZSET aaac:{run}:waiting; score of a member, 0 of a non-member
    inflight,   \* the members of ZSET aaac:{run}:inflight
    elapsed,    \* the admitted tickets whose expires_at is in the past
    waiting_counter     \* the waiting:{c} fields of aaac:{run}:counters, summed

storeVars == <<seq, hash, waiting, inflight, elapsed, waiting_counter>>

States == {"NONE", "WAITING", "ADMITTED", "COMPLETED"}

TicketData ==
    [state : States, attempt : Nat, class : AccessClass, join_seq : Nat]

StoreTypeOK ==
    /\ seq \in Nat
    /\ hash \in [Tickets -> TicketData]
    /\ waiting \in [Tickets -> Nat]
    /\ inflight \in SUBSET Tickets
    /\ elapsed \in SUBSET Tickets
    /\ waiting_counter \in Int

StoreInit ==
    /\ seq = 0
    /\ hash = [t \in Tickets |-> [state |-> "NONE", attempt |-> 0,
                                  class |-> MEDIUM, join_seq |-> 0]]
    /\ waiting = [t \in Tickets |-> 0]
    /\ inflight = {}
    /\ elapsed = {}
    /\ waiting_counter = 0
-----------------------------------------------------------------------------
Queued == {t \in Tickets : waiting[t] # 0}

\* waiting_count and inflight_count, the two ZCARDs.
waiting_count == Cardinality(Queued)
inflight_count == Cardinality(inflight)

\* ZRANK, which the API reports as 0 for a ticket that is not queued.
position(t) ==
    IF t \in Queued
    THEN Cardinality({u \in Queued : waiting[u] < waiting[t]})
    ELSE 0

Smaller(m, n) == IF m < n THEN m ELSE n

\* What ZPOPMIN may return: the n members of least score (all, if fewer).
Lowest(n) ==
    {S \in SUBSET Queued :
        /\ Cardinality(S) = Smaller(n, waiting_count)
        /\ \A t \in S, u \in Queued \ S : waiting[t] <= waiting[u]}

next_seq == seq' = seq + 1

create_ticket(t, join_seq, class) ==
    /\ hash' = [hash EXCEPT ![t] = [state |-> "WAITING", attempt |-> 1,
                                    class |-> class, join_seq |-> join_seq]]
    /\ waiting' = [waiting EXCEPT ![t] = join_seq]
    /\ waiting_counter' = waiting_counter + 1

\* ADMIT_N_LUA, having popped the tickets of S: each gets its window and a slot.
admit(S) ==
    /\ hash' = [t \in Tickets |->
                   IF t \in S THEN [hash[t] EXCEPT !.state = "ADMITTED"] ELSE hash[t]]
    /\ waiting' = [t \in Tickets |-> IF t \in S THEN 0 ELSE waiting[t]]
    /\ inflight' = inflight \cup S
    /\ elapsed' = elapsed \ S
    /\ waiting_counter' = waiting_counter - Cardinality(S)

\* Mutant: the slot in inflight is not given back.
reinsert_keeps_slot(t, score, class, attempt) ==
    /\ hash' = [hash EXCEPT ![t].state = "WAITING", ![t].class = class,
                            ![t].attempt = attempt]
    /\ elapsed' = elapsed \ {t}
    /\ waiting' = [waiting EXCEPT ![t] = score]
    /\ waiting_counter' = waiting_counter + 1
    /\ UNCHANGED inflight

\* Mutant: the waiting counter is not incremented (A15).
reinsert_uncounted(t, score, class, attempt) ==
    /\ hash' = [hash EXCEPT ![t].state = "WAITING", ![t].class = class,
                            ![t].attempt = attempt]
    /\ inflight' = inflight \ {t}
    /\ elapsed' = elapsed \ {t}
    /\ waiting' = [waiting EXCEPT ![t] = score]
    /\ UNCHANGED waiting_counter

\* Mutant: the ticket is not put into waiting.
reinsert_nowhere(t, score, class, attempt) ==
    /\ hash' = [hash EXCEPT ![t].state = "WAITING", ![t].class = class,
                            ![t].attempt = attempt]
    /\ inflight' = inflight \ {t}
    /\ elapsed' = elapsed \ {t}
    /\ waiting_counter' = waiting_counter + 1
    /\ UNCHANGED waiting

reinsert(t, score, class, attempt) ==
    /\ hash' = [hash EXCEPT ![t].state = "WAITING", ![t].class = class,
                            ![t].attempt = attempt]
    /\ inflight' = inflight \ {t}
    /\ elapsed' = elapsed \ {t}
    /\ waiting' = [waiting EXCEPT ![t] = score]
    /\ waiting_counter' = waiting_counter + 1

update_class(t, class) == hash' = [hash EXCEPT ![t].class = class]

\* The tickets of S are the members of inflight whose score is at most "now".
expire_inflight(S) == inflight' = inflight \ S

\* Mutant: the slot in inflight is not given back.
complete_keeps_slot(t) ==
    /\ hash' = [hash EXCEPT ![t].state = "COMPLETED"]
    /\ elapsed' = elapsed \ {t}
    /\ UNCHANGED inflight

complete(t) ==
    /\ hash' = [hash EXCEPT ![t].state = "COMPLETED"]
    /\ inflight' = inflight \ {t}
    /\ elapsed' = elapsed \ {t}
=============================================================================

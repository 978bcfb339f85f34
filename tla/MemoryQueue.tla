---------------------------- MODULE MemoryQueue ----------------------------
(***************************************************************************)
(* aaac.admission.store.InMemoryQueueStore: the store of an admission      *)
(* service without Redis.  Its lock is never held across an await, so an   *)
(* operation never yields and is one step.  Unlike Redis' sorted sets its  *)
(* lists may hold a ticket more than once.                                 *)
(*                                                                         *)
(* An entry of _inflight is counted with its ticket as open (exp is in the *)
(* future), lapsed, or due (exp had passed at the "now" of the tick that   *)
(* is running); the order of _inflight is that of the sweep's answer, of   *)
(* which nothing depends.                                                  *)
(***************************************************************************)
EXTENDS Window, Sequences, FiniteSets

CONSTANT Tickets

ASSUME TicketsAssumption == IsFiniteSet(Tickets)

VARIABLES
    seq,        \* _seq
    tickets,    \* _tickets; state "NONE" of a ticket that is not there
    waiting,    \* _waiting, a list of (score, tid)
    inflight,   \* _inflight
    counter     \* _counters["waiting"], summed over the classes

storeVars == <<seq, tickets, waiting, inflight, counter>>

TicketData == [state : {"NONE", "WAITING", "ADMITTED", "COMPLETED"},
               attempt : Nat, class : AccessClass, join_seq : Nat]

Slots == [open : Nat, lapsed : Nat, due : Nat]
NoSlots == [open |-> 0, lapsed |-> 0, due |-> 0]

StoreTypeOK ==
    /\ seq \in Nat
    /\ tickets \in [Tickets -> TicketData]
    /\ waiting \in Seq([score : Nat, tid : Tickets])
    /\ inflight \in [Tickets -> Slots]
    /\ counter \in Int

StoreInit ==
    /\ seq = 0
    /\ tickets = [t \in Tickets |->
                     [state |-> "NONE", attempt |-> 0, class |-> MEDIUM, join_seq |-> 0]]
    /\ waiting = << >>
    /\ inflight = [t \in Tickets |-> NoSlots]
    /\ counter = 0
-----------------------------------------------------------------------------
HasSlot(t) == inflight[t] # NoSlots

Queued == {waiting[i].tid : i \in DOMAIN waiting}

\* The entries of _inflight, told apart by a number.
Entries(t) == {t} \X (1 .. inflight[t].open + inflight[t].lapsed + inflight[t].due)

inflight_count == Cardinality(UNION {Entries(t) : t \in Tickets})

\* append, then a stable sort by score of what was sorted before: the new entry
\* comes behind all that have the score or less.
Enqueue(score, t) ==
    LET upto == Cardinality({i \in DOMAIN waiting : waiting[i].score <= score})
    IN  waiting' = SubSeq(waiting, 1, upto) \o <<[score |-> score, tid |-> t]>>
                     \o SubSeq(waiting, upto + 1, Len(waiting))

create_ticket(t, number, class) ==
    /\ tickets' = [tickets EXCEPT ![t] = [state |-> "WAITING", attempt |-> 1,
                                          class |-> class, join_seq |-> number]]
    /\ Enqueue(number, t)
    /\ counter' = counter + 1

\* How often t is among the first n of waiting.
Popped(t, n) == Cardinality({i \in 1 .. n : waiting[i].tid = t})

\* n is at most what waits.
admit_n(n) ==
    /\ tickets' = [t \in Tickets |->
          IF Popped(t, n) > 0 THEN [tickets[t] EXCEPT !.state = "ADMITTED"] ELSE tickets[t]]
    /\ waiting' = SubSeq(waiting, n + 1, Len(waiting))
    /\ inflight' = [t \in Tickets |-> [inflight[t] EXCEPT !.open = @ + Popped(t, n)]]
    /\ counter' = counter - n

\* Every slot of the ticket goes, and it is queued whether or not it is already.
reinsert(t, score, class, attempt) ==
    /\ tickets' = [tickets EXCEPT ![t].state = "WAITING", ![t].class = class,
                                  ![t].attempt = attempt]
    /\ inflight' = [inflight EXCEPT ![t] = NoSlots]
    /\ Enqueue(score, t)
    /\ counter' = counter + 1

\* expire_inflight(now) returns the entries that were due at "now".
expire_inflight == inflight' = [t \in Tickets |-> [inflight[t] EXCEPT !.due = 0]]

\* Mutant: only one slot of the ticket is given back.
complete_one(t) ==
    /\ tickets' = [tickets EXCEPT ![t].state = "COMPLETED"]
    /\ inflight' = [inflight EXCEPT ![t].open = IF @ > 0 THEN @ - 1 ELSE 0]

complete(t) ==
    /\ tickets' = [tickets EXCEPT ![t].state = "COMPLETED"]
    /\ inflight' = [inflight EXCEPT ![t] = NoSlots]
=============================================================================

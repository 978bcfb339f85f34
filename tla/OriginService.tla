--------------------------- MODULE OriginService ---------------------------
(***************************************************************************)
(* aaac.origin.service: requests for a record wait in a bounded queue for  *)
(* one of a limited number of service slots, or are shed.  A slot is a     *)
(* permit of an asyncio.Semaphore (Python 3.11, external): releasing one   *)
(* hands it to the first waiter, which goes on at its next turn of the     *)
(* loop, so a request may be cancelled after it was given a slot and       *)
(* before it knows.                                                        *)
(***************************************************************************)
EXTENDS Integers, FiniteSets

CONSTANTS
    Requests,
    concurrency_limit,
    queue_limit

ASSUME RequestsAssumption == IsFiniteSet(Requests)
ASSUME ConcurrencyAssumption == concurrency_limit \in Nat \ {0}
ASSUME QueueLimitAssumption == queue_limit \in Nat

VARIABLES
    req,        \* where each request is
    turn,       \* the place of each request in the semaphore's deque of waiters
    turns,      \* how many requests have ever been put into that deque
    value,      \* the semaphore's free permits
    waiting,    \* OriginState.waiting
    in_flight   \* OriginState.in_flight

vars == <<req, turn, turns, value, waiting, in_flight>>

\* "granted": woken with a permit, not yet running.  "shed": answered 503.
\* "left": cancelled, because the client went away or the service stops.
Places == {"new", "queued", "granted", "serving", "served", "shed", "left"}

At(place) == {r \in Requests : req[r] = place}

TypeOK ==
    /\ req \in [Requests -> Places]
    /\ turn \in [Requests -> Nat]
    /\ turns \in Nat
    /\ value \in Nat /\ waiting \in Nat /\ in_flight \in Nat

Init ==
    /\ req = [r \in Requests |-> "new"]
    /\ turn = [r \in Requests |-> 0]
    /\ turns = 0
    /\ value = concurrency_limit
    /\ waiting = 0 /\ in_flight = 0
-----------------------------------------------------------------------------
(* The semaphore *)

\* Nobody is in the deque and a permit is free.
Unlocked == value > 0 /\ At("queued") \cup At("granted") = {}

\* Mutant: the last to come is woken.
Last(S) == CHOOSE r \in S : \A q \in S : turn[q] <= turn[r]

\* The waiter at the head of the deque.
First(S) == CHOOSE r \in S : \A q \in S : turn[r] <= turn[q]

\* Mutant: nobody is woken.
MoveOnly(r, place, v) ==
    /\ value' = v
    /\ req' = [req EXCEPT ![r] = place]

\* Request r goes to its next place and, if a permit is free now, _wake_up_next
\* hands it to the first of the requests that still wait for one.
MoveAndWake(r, place, v) ==
    LET queued == At("queued") \ {r} IN
    IF queued # {} /\ v > 0
    THEN /\ value' = v - 1
         /\ req' = [req EXCEPT ![r] = place, ![First(queued)] = "granted"]
    ELSE /\ value' = v
         /\ req' = [req EXCEPT ![r] = place]
-----------------------------------------------------------------------------
(* GET /origin/result *)

Shed(r) ==
    /\ req[r] = "new"
    /\ waiting >= queue_limit
    /\ req' = [req EXCEPT ![r] = "shed"]
    /\ UNCHANGED <<turn, turns, value, waiting, in_flight>>

\* waiting goes up and down again without an await: a free slot is taken at once.
Start(r) ==
    /\ req[r] = "new"
    /\ waiting < queue_limit /\ Unlocked
    /\ req' = [req EXCEPT ![r] = "serving"]
    /\ value' = value - 1
    /\ in_flight' = in_flight + 1
    /\ UNCHANGED <<turn, turns, waiting>>

\* Mutant: an await between the check and the increment loses the check.
QueueUnchecked(r) ==
    /\ req[r] = "new"
    /\ ~Unlocked
    /\ req' = [req EXCEPT ![r] = "queued"]
    /\ turns' = turns + 1
    /\ turn' = [turn EXCEPT ![r] = turns']
    /\ waiting' = waiting + 1
    /\ UNCHANGED <<value, in_flight>>

Queue(r) ==
    /\ req[r] = "new"
    /\ waiting < queue_limit /\ ~Unlocked
    /\ req' = [req EXCEPT ![r] = "queued"]
    /\ turns' = turns + 1
    /\ turn' = [turn EXCEPT ![r] = turns']
    /\ waiting' = waiting + 1
    /\ UNCHANGED <<value, in_flight>>

\* acquire() returns, passing a permit on if one is left.
Resume(r) ==
    /\ req[r] = "granted"
    /\ MoveAndWake(r, "serving", value)
    /\ waiting' = waiting - 1
    /\ in_flight' = in_flight + 1
    /\ UNCHANGED <<turn, turns>>

Finish(r) ==
    /\ req[r] = "serving"
    /\ MoveAndWake(r, "served", value + 1)
    /\ in_flight' = in_flight - 1
    /\ UNCHANGED <<turn, turns, waiting>>

\* Cancelled in the queue: nothing was acquired.
LeaveQueue(r) ==
    /\ req[r] = "queued"
    /\ req' = [req EXCEPT ![r] = "left"]
    /\ waiting' = waiting - 1
    /\ UNCHANGED <<turn, turns, value, in_flight>>

\* Mutant: the permit of a request cancelled after its grant is forgotten.
LeaveGrantedKeepsPermit(r) ==
    /\ req[r] = "granted"
    /\ req' = [req EXCEPT ![r] = "left"]
    /\ waiting' = waiting - 1
    /\ UNCHANGED <<turn, turns, value, in_flight>>

\* Cancelled between the grant and the next turn: acquire() gives the permit back.
LeaveGranted(r) ==
    /\ req[r] = "granted"
    /\ MoveAndWake(r, "left", value + 1)
    /\ waiting' = waiting - 1
    /\ UNCHANGED <<turn, turns, in_flight>>

\* Cancelled in service: record_abandoned, and the slot is released.
LeaveService(r) ==
    /\ req[r] = "serving"
    /\ MoveAndWake(r, "left", value + 1)
    /\ in_flight' = in_flight - 1
    /\ UNCHANGED <<turn, turns, waiting>>

Leave(r) == LeaveQueue(r) \/ LeaveGranted(r) \/ LeaveService(r)

\* Every request has been answered or has left.
Quiet ==
    /\ \A r \in Requests : req[r] \in {"served", "shed", "left"}
    /\ UNCHANGED vars

Next ==
    \/ \E r \in Requests : \/ Shed(r) \/ Start(r) \/ Queue(r)
                           \/ Resume(r) \/ Finish(r) \/ Leave(r)
    \/ Quiet

Spec == Init /\ [][Next]_vars

\* The loop runs what is ready and service times are finite.
FairSpec == Spec /\ \A r \in Requests : WF_vars(Resume(r)) /\ WF_vars(Finish(r))
-----------------------------------------------------------------------------
(* What the origin must get right *)

\* service.py: "the queue bound cannot be overshot by concurrent arrivals", and
\* never more requests are in service than there are slots.
WithinLimits == in_flight <= concurrency_limit /\ waiting <= queue_limit

\* Every slot is free, promised to a request that has not run yet, or in use by
\* one the counters know of, whatever is cancelled when.
SlotsAccounted ==
    /\ value + Cardinality(At("granted")) + in_flight = concurrency_limit
    /\ in_flight = Cardinality(At("serving"))
    /\ waiting = Cardinality(At("queued")) + Cardinality(At("granted"))

\* No slot idles while a request waits, unless a request on its way to service
\* will pass it on.
NoIdleSlot == value > 0 /\ At("queued") # {} => At("granted") # {}

\* Slots are given in the order of arrival: a request that gets one leaves no
\* earlier request waiting, and a newcomer leaves nobody waiting.
ServedInTurn ==
    [][\A r \in Requests :
          /\ req[r] \in {"new", "queued"} /\ req'[r] \in {"granted", "serving"}
          => \A q \in At("queued") \ {r} : req[r] = "queued" /\ turn[r] < turn[q]]_vars

\* Every request that waits is served in the end, unless it leaves.
QueuedIsServed ==
    \A r \in Requests : req[r] = "queued" ~> req[r] \in {"served", "left"}
-----------------------------------------------------------------------------
(* The inductive invariant: the properties above, and the order of the turns. *)

Waiters == At("queued") \cup At("granted")

TurnsOK ==
    /\ \A r \in Waiters : turn[r] <= turns
    /\ \A r, q \in Waiters : turn[r] = turn[q] => r = q

OriginInv == TypeOK /\ WithinLimits /\ SlotsAccounted /\ NoIdleSlot /\ TurnsOK
=============================================================================

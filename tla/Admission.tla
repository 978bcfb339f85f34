----------------------------- MODULE Admission -----------------------------
(***************************************************************************)
(* The admission service over its Redis store: the API handlers of         *)
(* aaac.admission.api, handle_timeout of aaac.admission.requeue and one    *)
(* tick after another of aaac.admission.controller, driven by the clients  *)
(* of aaac.client.sdk.                                                     *)
(*                                                                         *)
(* One process, one asyncio loop: a coroutine keeps the loop until it      *)
(* awaits, and every store call and every logger.log is an await.  So an   *)
(* action is one store call with the code up to the next one, and the      *)
(* coroutines interleave between actions.  A coroutine is a thread: the    *)
(* controller's, and one per ticket for the join and the completion        *)
(* reports of its client (one report of a ticket in progress at a time).   *)
(* Log records change nothing the service reads and are left out; the      *)
(* await between a check and an update is kept.                            *)
(***************************************************************************)
EXTENDS QueueStore

CONSTANTS
    Controller,     \* the controller's thread
    Mode,           \* cfg.mode
    max_attempts,   \* cfg.admission.max_attempts
    Caps,           \* the values C_max may take from tick to tick
    Limits,         \* the values int(alpha * control_tick_s) may take
    Estimates,      \* the classes a client's estimate may carry
    Faults,         \* may a coroutine die between two steps?
    AttemptBound    \* bound: attempts after which nothing fails any more

ASSUME ControllerAssumption == Controller \notin Tickets
ASSUME ModeAssumption == Mode \in {"none", "baseline", "aaac"}
ASSUME AttemptsAssumption == max_attempts \in Nat /\ AttemptBound \in Nat
\* max(1, concurrency_limit // 4) is a floor under C_max; alpha has none but 0.
ASSUME LimitsAssumption == Caps \subseteq Nat \ {0} /\ Limits \subseteq Nat
ASSUME EstimatesAssumption == Estimates \subseteq AccessClass
ASSUME FaultsAssumption == Faults \in BOOLEAN
ASSUME TicketsAssumption == IsFiniteSet(Tickets)

VARIABLES
    frame,      \* per thread: the local state of the coroutine it is running
    ctl,        \* the controller's _tick: where it is and its locals
    est,        \* per ticket: its client's one call of /queue/estimate
    client      \* per ticket: where its client is in run_client

vars == <<storeVars, frame, ctl, est, client>>

Threads == Tickets \cup {Controller}

\* "create" and "admit" are queue_join's, "complete" queue_complete's, and
\* "get", "reseq", "reinsert" the steps of handle_timeout(tid).  attempt, class
\* and score are handle_timeout's ticket and score, score also queue_join's seq.
Frame == [pc : {"idle", "create", "admit", "complete", "get", "reseq", "reinsert"},
          tid : Tickets \cup {Controller}, attempt : Nat, class : AccessClass,
          score : Nat]

Idle(th) == [pc |-> "idle", tid |-> th, attempt |-> 0, class |-> MEDIUM, score |-> 0]

\* due is the tick's "now": the tickets whose window had passed when it began.
Tick == [pc : {"rest", "waiting", "inflight", "admit", "sweep", "requeue"},
         due : SUBSET Tickets, total_waiting : Nat, c_max : Nat,
         n : Nat, expired : SUBSET Tickets]

Rest == [pc |-> "rest", due |-> {}, total_waiting |-> 0, c_max |-> 0,
         n |-> 0, expired |-> {}]

\* A sent estimate has been "checked" while queue_estimate logs it.
Estimate == [pc : {"unsent", "checked", "done"}, class : AccessClass]

ClientStates == {"new", "joining", "polling", "fetching", "finished"}

TypeOK ==
    /\ StoreTypeOK
    /\ frame \in [Threads -> Frame]
    /\ ctl \in Tick
    /\ est \in [Tickets -> Estimate]
    /\ client \in [Tickets -> ClientStates]

Init ==
    /\ StoreInit
    /\ frame = [th \in Threads |-> Idle(th)]
    /\ ctl = Rest
    /\ est = [t \in Tickets |-> [pc |-> "unsent", class |-> MEDIUM]]
    /\ client = [t \in Tickets |-> "new"]
-----------------------------------------------------------------------------
(* POST /queue/join *)

JoinSeq(t) ==
    /\ client[t] = "new"
    /\ client' = [client EXCEPT ![t] = "joining"]
    /\ next_seq
    /\ frame' = [frame EXCEPT ![t] = [@ EXCEPT !.pc = "create", !.score = seq']]
    /\ UNCHANGED <<hash, waiting, inflight, elapsed, waiting_counter, ctl, est>>

\* The response goes out: the client has its ticket id and starts polling.
Joined(t) ==
    /\ frame' = [frame EXCEPT ![t] = Idle(t)]
    /\ client' = [client EXCEPT ![t] = "polling"]

JoinCreate(t) ==
    /\ frame[t].pc = "create"
    /\ create_ticket(t, frame[t].score, IF Mode = "none" THEN HIGH ELSE MEDIUM)
    /\ IF Mode = "none"
       THEN /\ frame' = [frame EXCEPT ![t].pc = "admit"]
            /\ UNCHANGED client
       ELSE Joined(t)
    /\ UNCHANGED <<seq, inflight, elapsed, ctl, est>>

\* none mode: admit_n(1), which pops whoever is at the head of the queue.  Its
\* window of 3600 s starts now, so the sweep of a running tick will not take it.
JoinAdmit(t) ==
    /\ frame[t].pc = "admit"
    /\ \E S \in Lowest(1) :
          /\ admit(S)
          /\ ctl' = [ctl EXCEPT !.due = @ \ S]
    /\ Joined(t)
    /\ UNCHANGED <<seq, est>>
-----------------------------------------------------------------------------
(* POST /queue/estimate, which EstimateGate sends once per client *)

\* The state check and guard D2, both on one read of the ticket.
EstimateCheck(t) ==
    /\ client[t] \notin {"new", "joining"}
    /\ est[t].pc = "unsent"
    /\ IF hash[t].state = "WAITING" /\ hash[t].attempt <= 1
       THEN \E c \in Estimates : est' = [est EXCEPT ![t] = [pc |-> "checked", class |-> c]]
       ELSE est' = [est EXCEPT ![t].pc = "done"]
    /\ UNCHANGED <<storeVars, frame, ctl, client>>

EstimateUpdate(t) ==
    /\ est[t].pc = "checked"
    /\ update_class(t, est[t].class)
    /\ est' = [est EXCEPT ![t] = [pc |-> "done", class |-> MEDIUM]]
    /\ UNCHANGED <<seq, waiting, inflight, elapsed, waiting_counter, frame, ctl, client>>
-----------------------------------------------------------------------------
(* The client's poll of GET /queue/status, its fetch and its report *)

\* A token is issued while the window is open; an answer COMPLETED ends the run.
Poll(t) ==
    /\ client[t] = "polling"
    /\ \/ /\ hash[t].state = "ADMITTED" /\ t \notin elapsed
          /\ client' = [client EXCEPT ![t] = "fetching"]
       \/ /\ hash[t].state = "COMPLETED"
          /\ client' = [client EXCEPT ![t] = "finished"]
    /\ UNCHANGED <<storeVars, frame, ctl, est>>

\* Patience runs out, or too many polls in a row go unanswered.
Abandon(t) ==
    /\ client[t] = "polling"
    /\ client' = [client EXCEPT ![t] = "finished"]
    /\ UNCHANGED <<storeVars, frame, ctl, est>>

\* The page arrived: report it and leave, whatever the answer.
ReportSuccess(t) ==
    /\ client[t] = "fetching"
    /\ frame[t].pc = "idle"
    /\ frame' = [frame EXCEPT ![t].pc = "complete"]
    /\ client' = [client EXCEPT ![t] = "finished"]
    /\ UNCHANGED <<storeVars, ctl, est>>

\* It did not: report that and poll on (without the answer, if that times out);
\* after a 503 of the origin the client leaves instead.
ReportFailure(t) ==
    /\ client[t] = "fetching"
    /\ frame[t].pc = "idle"
    /\ hash[t].attempt <= AttemptBound
    /\ frame' = [frame EXCEPT ![t].pc = "get"]
    /\ \E c \in {"polling", "finished"} : client' = [client EXCEPT ![t] = c]
    /\ UNCHANGED <<storeVars, ctl, est>>

\* POST /queue/complete with ok: the ticket's state and attempt are not checked.
CompleteOk(t) ==
    /\ frame[t].pc = "complete"
    /\ complete(t)
    /\ frame' = [frame EXCEPT ![t] = Idle(t)]
    /\ UNCHANGED <<seq, waiting, waiting_counter, ctl, est, client>>
-----------------------------------------------------------------------------
(* handle_timeout(tid), run by a report of a failure and by the sweep *)

\* Mutant: reset-on-failure in every mode.
TimeoutGetResets(th) ==
    /\ frame[th].pc = "get"
    /\ LET t == frame[th].tid IN
       frame' = [frame EXCEPT ![th] =
           [pc |-> "reseq", tid |-> t, attempt |-> hash[t].attempt, class |-> hash[t].class,
            score |-> hash[t].join_seq]]
    /\ UNCHANGED <<storeVars, ctl, est, client>>

\* The ticket is read once, here; nothing below looks at it again.
TimeoutGet(th) ==
    /\ frame[th].pc = "get"
    /\ LET t == frame[th].tid IN
       frame' = [frame EXCEPT ![th] =
           [pc |-> IF Mode = "aaac" THEN "reinsert" ELSE "reseq", tid |-> t,
            attempt |-> hash[t].attempt, class |-> hash[t].class,
            score |-> hash[t].join_seq]]
    /\ UNCHANGED <<storeVars, ctl, est, client>>

\* Mutant: the next number is read and not taken.
TimeoutReseqReads(th) ==
    /\ frame[th].pc = "reseq"
    /\ frame' = [frame EXCEPT ![th] = [@ EXCEPT !.pc = "reinsert", !.score = seq + 1]]
    /\ UNCHANGED <<storeVars, ctl, est, client>>

\* baseline and none: reset-on-failure, a place at the tail.
TimeoutReseq(th) ==
    /\ frame[th].pc = "reseq"
    /\ next_seq
    /\ frame' = [frame EXCEPT ![th] = [@ EXCEPT !.pc = "reinsert", !.score = seq']]
    /\ UNCHANGED <<hash, waiting, inflight, elapsed, waiting_counter, ctl, est, client>>

TimeoutReinsert(th) ==
    /\ frame[th].pc = "reinsert"
    /\ LET f == frame[th] IN
       reinsert(f.tid, f.score, NextClass(f.class, f.attempt, max_attempts), f.attempt + 1)
    /\ frame' = [frame EXCEPT ![th] = Idle(th)]
    /\ UNCHANGED <<seq, ctl, est, client>>
-----------------------------------------------------------------------------
(* AdmissionController._tick *)

\* now = time.time(), before the health poll.
TickStart ==
    /\ ctl.pc = "rest"
    /\ ctl' = [ctl EXCEPT !.pc = "waiting", !.due = elapsed]
    /\ UNCHANGED <<storeVars, frame, est, client>>

TickCountWaiting ==
    /\ ctl.pc = "waiting"
    /\ ctl' = [ctl EXCEPT !.pc = "inflight", !.total_waiting = waiting_count]
    /\ UNCHANGED <<storeVars, frame, est, client>>

\* Mutant: the slots in flight are not subtracted.
AllowanceOfAllSlots(limit, c_max, in_flight, total_waiting) ==
    Smaller(Smaller(limit, total_waiting), c_max)

\* n = min(alpha_limit, max(0, c_max - in_flight), total_waiting)
Allowance(limit, c_max, in_flight, total_waiting) ==
    Smaller(Smaller(limit, total_waiting),
            IF in_flight < c_max THEN c_max - in_flight ELSE 0)

\* C_max and alpha move with the origin's health and the completions seen.
TickDecide ==
    /\ ctl.pc = "inflight"
    /\ \E c_max \in Caps, limit \in Limits :
         LET n == Allowance(limit, c_max, inflight_count, ctl.total_waiting) IN
         ctl' = [ctl EXCEPT !.pc = IF n > 0 THEN "admit" ELSE "sweep",
                            !.total_waiting = 0, !.c_max = c_max, !.n = n]
    /\ UNCHANGED <<storeVars, frame, est, client>>

\* Mutant: the window of an earlier admission stays in force.
TickAdmitOldWindow ==
    /\ ctl.pc = "admit"
    /\ \E S \in Lowest(ctl.n) : admit(S)
    /\ ctl' = [ctl EXCEPT !.pc = "sweep", !.n = 0]
    /\ UNCHANGED <<seq, frame, est, client>>

\* expires_at is "now" plus a window, so nobody admitted here is due this tick.
TickAdmit ==
    /\ ctl.pc = "admit"
    /\ \E S \in Lowest(ctl.n) :
          /\ admit(S)
          /\ ctl' = [ctl EXCEPT !.pc = "sweep", !.n = 0, !.due = @ \ S]
    /\ UNCHANGED <<seq, frame, est, client>>

\* Mutant: the tickets the sweep returns are not handed to handle_timeout.
TickSweepForgets ==
    /\ ctl.pc = "sweep"
    /\ expire_inflight(ctl.due \cap inflight)
    /\ ctl' = [Rest EXCEPT !.pc = "requeue"]
    /\ UNCHANGED <<seq, hash, waiting, elapsed, waiting_counter, frame, est, client>>

TickSweep ==
    /\ ctl.pc = "sweep"
    /\ LET expired == ctl.due \cap inflight IN
         /\ expire_inflight(expired)
         /\ ctl' = [Rest EXCEPT !.pc = "requeue", !.expired = expired]
    /\ UNCHANGED <<seq, hash, waiting, elapsed, waiting_counter, frame, est, client>>

\* for tid in expired_tids: handle_timeout(tid), one after the other.
TickRequeue ==
    /\ ctl.pc = "requeue" /\ frame[Controller].pc = "idle"
    /\ \E t \in ctl.expired :
          /\ frame' = [frame EXCEPT ![Controller] = [@ EXCEPT !.pc = "get", !.tid = t]]
          /\ ctl' = [ctl EXCEPT !.expired = @ \ {t}]
    /\ UNCHANGED <<storeVars, est, client>>

TickEnd ==
    /\ ctl.pc = "requeue" /\ frame[Controller].pc = "idle"
    /\ ctl.expired = {}
    /\ ctl' = Rest
    /\ UNCHANGED <<storeVars, frame, est, client>>
-----------------------------------------------------------------------------
(* Time and failures *)

WindowElapses(t) ==
    /\ t \in inflight \ elapsed
    /\ hash[t].attempt <= AttemptBound
    /\ elapsed' = elapsed \cup {t}
    /\ UNCHANGED <<seq, hash, waiting, inflight, waiting_counter, frame, ctl, est, client>>

\* An exception ends the tick and _loop goes on with the next one; stop()
\* cancels it.  Either way what the tick held in locals is gone.
TickFails ==
    /\ Faults
    /\ ctl.pc # "rest"
    /\ ctl' = Rest
    /\ frame' = [frame EXCEPT ![Controller] = Idle(Controller)]
    /\ UNCHANGED <<storeVars, est, client>>

\* A request dies the same way; the client of a failed join leaves.
RequestFails(t) ==
    /\ Faults
    /\ \/ /\ frame[t].pc # "idle"
          /\ frame' = [frame EXCEPT ![t] = Idle(t)]
          /\ client' = [client EXCEPT ![t] = IF @ = "joining" THEN "finished" ELSE @]
          /\ UNCHANGED est
       \/ /\ est[t].pc = "checked"
          /\ est' = [est EXCEPT ![t] = [pc |-> "done", class |-> MEDIUM]]
          /\ UNCHANGED <<frame, client>>
    /\ UNCHANGED <<storeVars, ctl>>
-----------------------------------------------------------------------------
Join(t) == JoinSeq(t) \/ JoinCreate(t) \/ JoinAdmit(t)

QueueEstimate(t) == EstimateCheck(t) \/ EstimateUpdate(t)

Client(t) == Poll(t) \/ Abandon(t) \/ ReportSuccess(t) \/ ReportFailure(t)

HandleTimeout(th) == TimeoutGet(th) \/ TimeoutReseq(th) \/ TimeoutReinsert(th)

ControllerTick ==
    \/ TickStart \/ TickCountWaiting \/ TickDecide \/ TickAdmit
    \/ TickSweep \/ TickRequeue \/ TickEnd

Next ==
    \/ \E t \in Tickets : \/ Join(t) \/ QueueEstimate(t) \/ Client(t)
                          \/ CompleteOk(t) \/ WindowElapses(t) \/ RequestFails(t)
    \/ \E th \in Threads : HandleTimeout(th)
    \/ ControllerTick
    \/ TickFails

Spec == Init /\ [][Next]_vars

\* The loop runs every coroutine that is ready; nothing makes a client act.
Fairness ==
    /\ WF_vars(ControllerTick)
    /\ \A th \in Threads : WF_vars(HandleTimeout(th))

FairSpec == Spec /\ Fairness
=============================================================================

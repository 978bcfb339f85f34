----------------------------- MODULE Controller -----------------------------
(***************************************************************************)
(* The admission service without Redis: aaac.admission.controller with its *)
(* arithmetic, the handlers of aaac.admission.api and handle_timeout over  *)
(* InMemoryQueueStore.  A coroutine yields at the health poll and at       *)
(* logger.log only, so an action is the code from one of these to the      *)
(* next.  (What a tick that fails half-way leaves behind is the subject of *)
(* Admission, and so are the estimates.)                                   *)
(*                                                                         *)
(* Floats are integers: alpha in 1 / alpha_unit, rounded down, mu_hat in   *)
(* 1 / mu_unit, rounded up because the EWMA never decays to 0.  Whether    *)
(* attempt has reached max_attempts is all that is asked of it: it stops   *)
(* counting there.                                                         *)
(***************************************************************************)
EXTENDS MemoryQueue

CONSTANTS
    Ticker,             \* the thread of AdmissionController._loop
    Mode,               \* cfg.mode
    max_attempts,       \* cfg.admission.max_attempts
    alpha_unit, alpha_min, alpha_max, alpha_increase,
    alpha_decrease,     \* in per cent
    control_tick,       \* control_tick_s, in milliseconds
    mu_unit,
    horizon,            \* MU_HAT_HORIZON_S, in milliseconds
    concurrency_limit,  \* cfg.origin.concurrency_limit
    EntryBound          \* bound: entries in waiting and inflight at which no
                        \* client reports a failure any more

ASSUME TickerAssumption == Ticker \notin Tickets
ASSUME ModeAssumption == Mode \in {"baseline", "aaac"}
ASSUME AttemptsAssumption == max_attempts \in Nat /\ EntryBound \in Nat
ASSUME AlphaAssumption ==
    /\ alpha_unit \in Nat \ {0} /\ alpha_min \in Nat /\ alpha_max \in Nat
    /\ alpha_min <= alpha_max /\ alpha_increase \in Nat /\ alpha_decrease \in 0 .. 100
ASSUME TickAssumption ==
    /\ control_tick \in Nat \ {0} /\ horizon \in Nat \ {0} /\ mu_unit \in Nat \ {0}
    /\ concurrency_limit \in Nat
\* The configuration does not ask for it, and below it the queue may stop: a
\* tick at alpha_min may admit somebody.
ASSUME AllowanceAssumption == alpha_min * control_tick >= alpha_unit * 1000

VARIABLES
    alpha, mu_hat,
    completions_this_tick,
    healthy,    \* what the last health poll made of the origin
    tick,       \* where _tick is, and expired_tids, which may repeat a ticket
    frame,      \* per thread: the handle_timeout it is in the middle of
    client      \* per ticket: where its client is in run_client

controlVars == <<alpha, mu_hat, completions_this_tick, healthy>>
vars == <<storeVars, controlVars, tick, frame, client>>

Threads == Tickets \cup {Ticker}

\* "resume" after the TIMEOUT record, "reinsert" after the DOWNGRADE record.
Frame == [pc : {"idle", "resume", "reinsert"}, tid : Threads,
          attempt : Nat, class : AccessClass, score : Nat]

Idle(th) == [pc |-> "idle", tid |-> th, attempt |-> 0, class |-> MEDIUM, score |-> 0]

Tick == [pc : {"rest", "poll", "sweep", "requeue"}, expired : [Tickets -> Nat]]

Nobody == [t \in Tickets |-> 0]

TypeOK ==
    /\ StoreTypeOK
    /\ alpha \in alpha_min .. alpha_max
    /\ mu_hat \in Nat /\ completions_this_tick \in Nat
    /\ healthy \in BOOLEAN
    /\ tick \in Tick
    /\ frame \in [Threads -> Frame]
    /\ client \in [Tickets -> {"new", "polling", "fetching", "finished"}]

Init ==
    /\ StoreInit
    /\ alpha = alpha_min /\ mu_hat = 0 /\ completions_this_tick = 0
    /\ healthy = TRUE
    /\ tick = [pc |-> "rest", expired |-> Nobody]
    /\ frame = [th \in Threads |-> Idle(th)]
    /\ client = [t \in Tickets |-> "new"]
-----------------------------------------------------------------------------
(* handle_timeout(tid) *)

\* Up to the first record: the ticket is read here and nowhere below.
Begin(th, t) ==
    frame' = [frame EXCEPT ![th] =
        [pc |-> "resume", tid |-> t, attempt |-> tickets[t].attempt,
         class |-> tickets[t].class, score |-> tickets[t].join_seq]]

Retry(attempt) == IF attempt < max_attempts THEN attempt + 1 ELSE attempt

\* Mutant: reset-on-failure in every mode.
ResumeResets(th) ==
    LET f == frame[th]
        class == NextClass(f.class, f.attempt, max_attempts)
    IN  /\ f.pc = "resume"
        /\ seq' = seq + 1
        /\ reinsert(f.tid, seq', class, Retry(f.attempt))
        /\ frame' = [frame EXCEPT ![th] = Idle(th)]
        /\ UNCHANGED <<controlVars, tick, client>>

\* A class that changes is logged, which lets others run; then the ticket is
\* queued again, under a new number in baseline mode.
Resume(th) ==
    LET f == frame[th]
        class == NextClass(f.class, f.attempt, max_attempts)
        score == IF Mode = "aaac" THEN f.score ELSE seq + 1
    IN  /\ f.pc = "resume"
        /\ seq' = IF Mode = "aaac" THEN seq ELSE seq + 1
        /\ IF class = f.class
           THEN /\ reinsert(f.tid, score, class, Retry(f.attempt))
                /\ frame' = [frame EXCEPT ![th] = Idle(th)]
           ELSE /\ frame' = [frame EXCEPT ![th] =
                                [@ EXCEPT !.pc = "reinsert", !.class = class, !.score = score]]
                /\ UNCHANGED <<tickets, waiting, inflight, counter>>
        /\ UNCHANGED <<controlVars, tick, client>>

Reinsert(th) ==
    /\ frame[th].pc = "reinsert"
    /\ LET f == frame[th] IN reinsert(f.tid, f.score, f.class, Retry(f.attempt))
    /\ frame' = [frame EXCEPT ![th] = Idle(th)]
    /\ UNCHANGED <<seq, controlVars, tick, client>>

HandleTimeout(th) == Resume(th) \/ Reinsert(th)
-----------------------------------------------------------------------------
(* The API and its clients *)

\* queue_join, and the client's first poll.
Join(t) ==
    /\ client[t] = "new"
    /\ client' = [client EXCEPT ![t] = "polling"]
    /\ seq' = seq + 1
    /\ create_ticket(t, seq', MEDIUM)
    /\ UNCHANGED <<inflight, controlVars, tick, frame>>

\* queue_status: a token while expires_at, that of the last entry, is not over.
Poll(t) ==
    /\ client[t] = "polling"
    /\ \/ /\ tickets[t].state = "ADMITTED" /\ inflight[t].open > 0
          /\ client' = [client EXCEPT ![t] = "fetching"]
       \/ /\ tickets[t].state = "COMPLETED"
          /\ client' = [client EXCEPT ![t] = "finished"]
    /\ UNCHANGED <<storeVars, controlVars, tick, frame>>

Abandon(t) ==
    /\ client[t] = "polling"
    /\ client' = [client EXCEPT ![t] = "finished"]
    /\ UNCHANGED <<storeVars, controlVars, tick, frame>>

\* queue_complete with ok, and record_completion.
ReportSuccess(t) ==
    /\ client[t] = "fetching" /\ frame[t].pc = "idle"
    /\ client' = [client EXCEPT ![t] = "finished"]
    /\ complete(t)
    /\ completions_this_tick' = completions_this_tick + 1
    /\ UNCHANGED <<seq, waiting, counter, alpha, mu_hat, healthy, tick, frame>>

\* queue_complete without; the client polls on, or leaves after a 503.
ReportFailure(t) ==
    /\ client[t] = "fetching" /\ frame[t].pc = "idle"
    /\ Len(waiting) + inflight_count < EntryBound
    /\ \E c \in {"polling", "finished"} : client' = [client EXCEPT ![t] = c]
    /\ Begin(t, t)
    /\ UNCHANGED <<storeVars, controlVars, tick>>

Lapse(t) ==
    /\ inflight[t].open > 0
    /\ inflight' = [inflight EXCEPT ![t].open = @ - 1, ![t].lapsed = @ + 1]
    /\ UNCHANGED <<seq, tickets, waiting, counter, controlVars, tick, frame, client>>
-----------------------------------------------------------------------------
(* AdmissionController._tick *)

\* The EWMA over MU_HAT_HORIZON_S; a tick longer than that replaces mu_hat.
Ewma(comps, mu) ==
    LET span == IF horizon < control_tick THEN control_tick ELSE horizon IN
    CeilDiv(comps * 1000 * mu_unit + (span - control_tick) * mu, span)

\* now = time.time(), mu_hat, and the health poll goes out.
TickStart ==
    /\ tick.pc = "rest"
    /\ tick' = [tick EXCEPT !.pc = "poll"]
    /\ mu_hat' = Ewma(completions_this_tick, mu_hat)
    /\ completions_this_tick' = 0
    /\ inflight' = [t \in Tickets |->
          [inflight[t] EXCEPT !.lapsed = 0, !.due = @ + inflight[t].lapsed]]
    /\ UNCHANGED <<seq, tickets, waiting, counter, alpha, healthy, frame, client>>

\* What the origin answers; p99_ms is 0 of an origin that served nothing.
Answers == {"idle", "fast", "slow", "erring", "not 200", "no answer"}

\* p99 < target_origin_p95_ms and err_rate < target_origin_err_rate
Healthy(answer) == answer \in {"idle", "fast"}

Clamp(a) == IF a < alpha_min THEN alpha_min ELSE Least(a, alpha_max)

\* Mutant: the additive increase is lost to the clamp.
NextAlphaStuck(ok) == Clamp(IF ok THEN alpha ELSE (alpha * alpha_decrease) \div 100)

\* Additive increase, multiplicative decrease.
NextAlpha(ok) ==
    Clamp(IF ok THEN alpha + alpha_increase ELSE (alpha * alpha_decrease) \div 100)

\* Mutant: without the floor.
CapUnfloored(total_waiting) == ceil_times_mean(mu_hat, mu_unit, total_waiting, Mode)

\* C_max, which is never below a quarter of the origin's slots, nor below 1.
Cap(total_waiting) ==
    LET base == ceil_times_mean(mu_hat, mu_unit, total_waiting, Mode)
        floor == IF concurrency_limit < 8 THEN 1 ELSE concurrency_limit \div 4
    IN  IF base < floor THEN floor ELSE base

\* n = int(min(alpha_limit, capacity_limit, total_waiting))
Allowance(a, cap, total_waiting) ==
    Least((a * control_tick) \div (alpha_unit * 1000),
          Least(IF inflight_count < cap THEN cap - inflight_count ELSE 0, total_waiting))

\* From the answer to the first ADMIT record: nobody runs in between.
TickAdmit ==
    /\ tick.pc = "poll"
    /\ tick' = [tick EXCEPT !.pc = "sweep"]
    /\ \E answer \in Answers : healthy' = Healthy(answer)
    /\ alpha' = NextAlpha(healthy')
    /\ admit_n(Allowance(alpha', Cap(Len(waiting)), Len(waiting)))
    /\ UNCHANGED <<seq, mu_hat, completions_this_tick, frame, client>>

\* The entries the sweep takes, as it takes them.
Due == [t \in Tickets |-> inflight[t].due]

\* Mutant: one that was queued again already is left out.
TickSweepForgets ==
    /\ tick.pc = "sweep"
    /\ expire_inflight
    /\ tick' = [tick EXCEPT !.pc = "requeue"]
    /\ \/ \E t \in {u \in Tickets : Due[u] > 0 /\ u \notin Queued} : Begin(Ticker, t)
       \/ (\A u \in Tickets : Due[u] = 0 \/ u \in Queued) /\ UNCHANGED frame
    /\ UNCHANGED <<seq, tickets, waiting, counter, controlVars, client>>

\* The first of them to be handled is read at once.
TickSweep ==
    /\ tick.pc = "sweep"
    /\ expire_inflight
    /\ IF Due = Nobody
       THEN /\ tick' = [tick EXCEPT !.pc = "requeue"]
            /\ UNCHANGED frame
       ELSE \E t \in {u \in Tickets : Due[u] > 0} :
               /\ tick' = [pc |-> "requeue", expired |-> [Due EXCEPT ![t] = @ - 1]]
               /\ Begin(Ticker, t)
    /\ UNCHANGED <<seq, tickets, waiting, counter, controlVars, client>>

TickRequeue ==
    /\ tick.pc = "requeue" /\ frame[Ticker].pc = "idle"
    /\ \E t \in {u \in Tickets : tick.expired[u] > 0} :
          /\ tick' = [tick EXCEPT !.expired[t] = @ - 1]
          /\ Begin(Ticker, t)
    /\ UNCHANGED <<storeVars, controlVars, client>>

TickEnd ==
    /\ tick.pc = "requeue" /\ frame[Ticker].pc = "idle"
    /\ tick.expired = Nobody
    /\ tick' = [tick EXCEPT !.pc = "rest"]
    /\ UNCHANGED <<storeVars, controlVars, frame, client>>
-----------------------------------------------------------------------------
ControllerTick == TickStart \/ TickAdmit \/ TickSweep \/ TickRequeue \/ TickEnd

Client(t) ==
    \/ Join(t) \/ Poll(t) \/ Abandon(t) \/ ReportSuccess(t) \/ ReportFailure(t)

Next ==
    \/ \E t \in Tickets : Client(t) \/ Lapse(t)
    \/ \E th \in Threads : HandleTimeout(th)
    \/ ControllerTick

Spec == Init /\ [][Next]_vars

\* The loop runs what is ready, and time passes; no client has to do anything.
Fairness ==
    /\ WF_vars(ControllerTick)
    /\ \A th \in Threads : WF_vars(HandleTimeout(th))
    /\ \A t \in Tickets : WF_vars(Lapse(t))

FairSpec == Spec /\ Fairness
-----------------------------------------------------------------------------
(* What the service must get right *)

Handling(t) ==
    tick.expired[t] > 0 \/ (frame[Ticker].pc # "idle" /\ frame[Ticker].tid = t)

\* However often a ticket is handled, queued and admitted at once, it is not
\* lost: a WAITING one is queued, an ADMITTED one has a slot or the sweep has it.
NoTicketLost ==
    \A t \in Tickets :
        /\ tickets[t].state = "WAITING" => t \in Queued
        /\ tickets[t].state = "ADMITTED" => HasSlot(t) \/ Handling(t)

\* Only what is ADMITTED takes part of the cap: a completion gives back every
\* slot of a ticket that was admitted twice.
SlotsAreAdmitted == \A t \in Tickets : HasSlot(t) => tickets[t].state = "ADMITTED"

\* The waiting counter of /admin/snapshot is the length of the queue, with the
\* tickets that are queued twice.
CounterIsLength == counter = Len(waiting)

\* C4, aaac: the queue is in the order of the joins, whoever is re-queued when.
InJoinOrder ==
    Mode = "aaac" =>
        \A i, j \in DOMAIN waiting :
            i < j => tickets[waiting[i].tid].join_seq <= tickets[waiting[j].tid].join_seq

\* C5: admissions never take the slots above the C_max of their tick.
AdmitRespectsCap ==
    [][inflight_count' > inflight_count => inflight_count' <= Cap(Len(waiting))]_vars

\* controller.py: "A cap of zero is not a control decision, it is a deadlock":
\* whatever the origin answers and though nothing may ever complete, the ticket
\* at the head of the queue is admitted, or an earlier one comes back before it.
HeadIsAdmitted ==
    \A t \in Tickets :
        (waiting # << >> /\ Head(waiting).tid = t)
            ~> (tickets[t].state = "ADMITTED" \/ waiting = << >> \/ Head(waiting).tid # t)

\* C5: alpha settles at its maximum if the origin stays healthy from some time
\* on, and at its minimum if it does not recover.
AlphaSettles ==
    /\ <>[]healthy => <>[](alpha = alpha_max)
    /\ <>[]~healthy => <>[](alpha = alpha_min)
=============================================================================

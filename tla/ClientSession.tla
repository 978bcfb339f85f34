--------------------------- MODULE ClientSession ---------------------------
(***************************************************************************)
(* One waiting student, end to end: aaac.client.sdk.run_client with the    *)
(* probe, the estimate gate and the page fetch, against what its ticket    *)
(* sees of the admission and delivery services.                            *)
(*                                                                         *)
(* A call of the client can be lost, answered with an error, or given up   *)
(* by the client's own timeout while the service has yet to handle it: it  *)
(* is then handled late, or never.  The interleavings inside the service's *)
(* handlers are the subject of Admission; here each call is handled in one *)
(* step.                                                                   *)
(***************************************************************************)
EXTENDS Delivery, FiniteSets

CONSTANTS
    Modes,              \* the modes cfg.mode may have
    max_attempts,       \* cfg.admission.max_attempts
    min_rtt_samples,    \* the RTT samples an estimate needs
    MaxFailures,        \* MAX_CONSECUTIVE_ADMISSION_FAILURES
    TransferBound,      \* bound: after so many transfers the client polls no more
    AttemptBound        \* bound: attempts after which the ticket is not admitted

ASSUME ModesAssumption == Modes \subseteq {"none", "baseline", "aaac"}
ASSUME SessionAssumption ==
    /\ max_attempts \in Nat /\ min_rtt_samples \in Nat \ {0} /\ MaxFailures \in Nat \ {0}
    /\ TransferBound \in Nat /\ AttemptBound \in Nat

VARIABLES
    mode,       \* cfg.mode of the service; the client never sees it
    ticket,     \* the service's record of the ticket
    live,       \* the attempts whose window, and so whose token, has not expired
    late,       \* requests the client no longer waits for, not handled so far
    log,        \* history: how many COMPLETE and ESTIMATE records the ticket has
    pc,         \* where run_client is
    call,       \* the request it waits for
    reply,      \* how the service has answered it
    status,     \* the status it is acting on
    page,       \* its transfer
    link,       \* its LinkObservation
    gate,       \* its EstimateGate
    failures,   \* session.consecutive_failures
    transfers,  \* how many transfers it has begun
    impatient,  \* abandon_after_s is over
    outcome,    \* how the session ended
    unusable    \* history: polls in a row that brought no usable status

serviceVars == <<mode, ticket, live, log>>
callVars == <<call, reply, late>>
linkVars == <<link, gate>>
vars == <<serviceVars, callVars, linkVars, pc, status, page, failures, transfers,
          impatient, outcome, unusable>>

\* Only a success carries a token; the service asks no more of it than its ticket.
\* An estimate is the class it ends in: the link sample it is made of is left out.
Estimates == [kind : {"estimate"}, n : {0}, ok : {FALSE}, class : AccessClass]
Reports == [kind : {"report"}, n : Nat, ok : BOOLEAN, class : {LOW}]
NoCall == [kind |-> "none", n |-> 0, ok |-> FALSE, class |-> LOW]

\* loadgen: sessions that compromise a run instead of measuring something.
INVALIDATING_OUTCOMES == {"ADMISSION_UNAVAILABLE", "TICKET_UNKNOWN", "COMPLETED_UNREPORTED"}
Outcome == INVALIDATING_OUTCOMES \cup
           {"COMPLETED", "ABANDONED", "EXPIRED", "ORIGIN_UNAVAILABLE"}

TypeOK ==
    /\ mode \in Modes
    /\ ticket \in [state : {"NONE", "WAITING", "ADMITTED", "COMPLETED", "GONE"},
                   attempt : Nat, class : AccessClass, queued : BOOLEAN]
    /\ live \in SUBSET Nat
    /\ late \in SUBSET (Estimates \cup Reports)
    /\ log \in [completes : Nat, estimates : Nat]
    /\ pc \in {"join", "probe", "loop", "status", "estimate", "estimating", "act",
               "fetch", "resources", "report", "reporting", "ended"}
    /\ call \in Estimates \cup Reports \cup {NoCall}
    /\ reply \in {"none", "ok", "refused"}
    /\ status \in [state : {"NONE", "WAITING", "ADMITTED", "COMPLETED"},
                   attempt : Nat, token : Tokens \cup {NoToken}]
    /\ page \in [ok : BOOLEAN, status : {0, 200, 401, 502, 503},
                 variant : Variants \cup {"none"}]
    /\ link \in [rtts : 0..min_rtt_samples, probes : 0..2, stale : BOOLEAN]
    /\ gate \in [submitted : BOOLEAN, never_qualified : BOOLEAN]
    /\ failures \in 0..MaxFailures /\ unusable \in Nat
    /\ transfers \in Nat
    /\ impatient \in BOOLEAN
    /\ outcome \in Outcome \cup {"none"}

Init ==
    /\ mode \in Modes
    /\ ticket = [state |-> "NONE", attempt |-> 1, class |-> MEDIUM, queued |-> FALSE]
    /\ live = {}
    /\ late = {}
    /\ log = [completes |-> 0, estimates |-> 0]
    /\ pc = "join"
    /\ call = NoCall /\ reply = "none"
    /\ status = [state |-> "NONE", attempt |-> 0, token |-> NoToken]
    /\ page = NoPage
    /\ link = [rtts |-> 0, probes |-> 0, stale |-> FALSE]
    /\ gate = [submitted |-> FALSE, never_qualified |-> FALSE]
    /\ failures = 0 /\ unusable = 0
    /\ transfers = 0
    /\ impatient = FALSE
    /\ outcome = "none"

Ends(o) == pc' = "ended" /\ outcome' = o

\* mark_admitted_without_estimate
Mark == gate' = [gate EXCEPT !.never_qualified = @ \/ ~gate.submitted]
-----------------------------------------------------------------------------
(* Joining, probing, polling *)

\* queue_join: none mode admits at once, with the class of the full page.
Created ==
    IF mode = "none"
    THEN /\ ticket' = [ticket EXCEPT !.state = "ADMITTED", !.class = HIGH]
         /\ live' = {1}
    ELSE /\ ticket' = [ticket EXCEPT !.state = "WAITING", !.queued = TRUE]
         /\ UNCHANGED live

Join ==
    /\ pc = "join"
    /\ Created
    /\ pc' = "probe"
    /\ UNCHANGED <<mode, log, callVars, linkVars, status, page, failures, transfers,
                   impatient, outcome, unusable>>

\* The join fails, or its answer is lost or unreadable: the ticket may exist.
JoinFails ==
    /\ pc = "join"
    /\ Created \/ UNCHANGED <<ticket, live>>
    /\ Ends("ADMISSION_UNAVAILABLE")
    /\ UNCHANGED <<mode, log, callVars, linkVars, status, page, failures, transfers,
                   impatient, unusable>>

\* A probe that fails is a reading too.
Probed == link' = [link EXCEPT !.probes = @ + 1, !.stale = FALSE]

Probe ==
    /\ pc = "probe"
    /\ Probed
    /\ pc' = "loop"
    /\ UNCHANGED <<serviceVars, callVars, gate, status, page, failures, transfers,
                   impatient, outcome, unusable>>

\* Mutant: patience is looked at only while the service answers.
GiveUpIfAnswered ==
    /\ pc = "loop" /\ impatient
    /\ IF failures = 0 THEN Ends("ABANDONED") /\ Mark ELSE UNCHANGED <<pc, outcome, gate>>
    /\ UNCHANGED <<serviceVars, callVars, link, status, page, failures, transfers,
                   impatient, unusable>>

GiveUp ==
    /\ pc = "loop" /\ impatient
    /\ Mark
    /\ Ends("ABANDONED")
    /\ UNCHANGED <<serviceVars, callVars, link, status, page, failures, transfers,
                   impatient, unusable>>

Polls == pc = "loop" /\ ~impatient /\ transfers < TransferBound

\* record_request: any answer below 500 brings an RTT sample.
Sampled == link' = [link EXCEPT !.rtts = IF @ < min_rtt_samples THEN @ + 1 ELSE @]

\* Mutant: any answer below 500 resets the count.
CountFailureSinceAnswer ==
    /\ failures' = IF link' = link THEN failures + 1 ELSE 0
    /\ IF failures' >= MaxFailures
       THEN Ends("ADMISSION_UNAVAILABLE")
       ELSE UNCHANGED <<pc, outcome>>

\* The failures in a row have become too many, or the client sleeps and goes on.
CountFailure ==
    /\ failures' = failures + 1
    /\ IF failures' >= MaxFailures
       THEN Ends("ADMISSION_UNAVAILABLE")
       ELSE UNCHANGED <<pc, outcome>>

\* No answer in time, an answer of 500 or more, or one that does not parse.
PollFails ==
    /\ Polls
    /\ Sampled \/ UNCHANGED link
    /\ CountFailure
    /\ unusable' = unusable + 1
    /\ UNCHANGED <<serviceVars, callVars, gate, status, page, transfers, impatient>>

\* 404: the service has lost the ticket.
PollUnknown ==
    /\ Polls /\ ticket.state = "GONE"
    /\ Sampled
    /\ Mark
    /\ Ends("TICKET_UNKNOWN")
    /\ UNCHANGED <<serviceVars, callVars, status, page, failures, transfers,
                   impatient, unusable>>

\* queue_status: a token for an admitted ticket whose window has not passed.
PollAnswered ==
    /\ Polls /\ ticket.state # "GONE"
    /\ Sampled
    /\ failures' = 0 /\ unusable' = 0
    /\ status' = [state |-> ticket.state, attempt |-> ticket.attempt,
                  token |-> IF ticket.state = "ADMITTED" /\ ticket.attempt \in live
                            THEN issue_token(mode, ticket) ELSE NoToken]
    /\ pc' = "status"
    /\ UNCHANGED <<serviceVars, callVars, gate, page, transfers, impatient, outcome>>
-----------------------------------------------------------------------------
(* Acting on a status *)

\* Probe once more when the wait has outlived the measurement.
Reprobe ==
    /\ pc = "status"
    /\ IF link.probes = 1 /\ link.stale THEN Probed ELSE UNCHANGED link
    /\ pc' = "estimate"
    /\ UNCHANGED <<serviceVars, callVars, gate, status, page, failures, transfers,
                   impatient, outcome, unusable>>

may_submit ==
    ~gate.submitted /\ status.attempt = 1 /\ link.rtts >= min_rtt_samples

\* Whatever classify makes of the sample, it is a class.
SendEstimate ==
    /\ pc = "estimate"
    /\ IF may_submit
       THEN /\ \E c \in AccessClass :
                  call' = [kind |-> "estimate", n |-> 0, ok |-> FALSE, class |-> c]
            /\ pc' = "estimating"
       ELSE /\ UNCHANGED call
            /\ pc' = "act"
    /\ UNCHANGED <<serviceVars, reply, late, linkVars, status, page, failures,
                   transfers, impatient, outcome, unusable>>

\* The client stops waiting for its call: answered, lost, or given up and handled
\* late or never.
Hangs ==
    /\ late' = IF reply = "none" THEN late \cup {call} ELSE late
    /\ call' = NoCall /\ reply' = "none"

\* Mutant: an estimate that was not accepted is sent again.
EstimateReturnsIfAnswered ==
    /\ pc = "estimating"
    /\ Hangs
    /\ gate' = [gate EXCEPT !.submitted = reply = "ok"]
    /\ pc' = "act"
    /\ UNCHANGED <<serviceVars, link, status, page, failures, transfers, impatient,
                   outcome, unusable>>

\* The estimate is spent whatever became of it.
EstimateReturns ==
    /\ pc = "estimating"
    /\ Hangs
    /\ gate' = [gate EXCEPT !.submitted = TRUE]
    /\ pc' = "act"
    /\ UNCHANGED <<serviceVars, link, status, page, failures, transfers, impatient,
                   outcome, unusable>>

\* Nobody sets EXPIRED or ABANDONED; a COMPLETED ticket ends its session.
Act ==
    /\ pc = "act"
    /\ IF status.state = "ADMITTED" /\ status.token # NoToken
       THEN /\ Mark
            /\ pc' = "fetch"
            /\ UNCHANGED outcome
       ELSE /\ IF status.state = "COMPLETED" THEN Ends("COMPLETED")
               ELSE pc' = "loop" /\ UNCHANGED outcome
            /\ UNCHANGED gate
    /\ UNCHANGED <<serviceVars, callVars, link, status, page, failures, transfers,
                   impatient, unusable>>
-----------------------------------------------------------------------------
(* The transfer and its report *)

\* fetch_page up to the document: no answer in time, an error, or the page.
FetchDocument ==
    /\ pc = "fetch"
    /\ transfers' = transfers + 1
    /\ page' \in {NoPage} \cup result(status.token, live)
    /\ pc' = IF page'.status = 200 THEN "resources" ELSE "report"
    /\ UNCHANGED <<serviceVars, callVars, linkVars, status, failures, impatient,
                   outcome, unusable>>

\* Mutant: only the window is a deadline.
OverWindow == status.token.att \notin live

\* The earlier of expires_at and the end of the client's patience has passed.
Over == status.token.att \notin live \/ impatient

\* The rest of the page: every resource has come, and none too late.
FetchResources ==
    /\ pc = "resources"
    /\ \E ok \in BOOLEAN : page' = [page EXCEPT !.ok = ok /\ ~Over]
    /\ pc' = "report"
    /\ UNCHANGED <<serviceVars, callVars, linkVars, status, failures, transfers,
                   impatient, outcome, unusable>>

ReportComplete ==
    /\ pc = "report"
    /\ call' = [kind |-> "report", n |-> transfers, ok |-> page.ok, class |-> LOW]
    /\ pc' = "reporting"
    /\ UNCHANGED <<serviceVars, reply, late, linkVars, status, page, failures,
                   transfers, impatient, outcome, unusable>>

\* Mutant: a report that was not answered counts as one.
ReportReturnsBlind ==
    /\ pc = "reporting"
    /\ Hangs
    /\ IF page.status = 503 THEN Ends("ORIGIN_UNAVAILABLE")
       ELSE IF page.ok THEN Ends("COMPLETED")
       ELSE pc' = "loop" /\ UNCHANGED outcome
    /\ UNCHANGED <<serviceVars, linkVars, status, page, failures, transfers,
                   impatient, unusable>>

\* An origin that sheds load ends the session, as does a page; a missed window
\* does not.
ReportReturns ==
    /\ pc = "reporting"
    /\ Hangs
    /\ IF page.status = 503 THEN Ends("ORIGIN_UNAVAILABLE")
       ELSE IF page.ok
       THEN Ends(IF reply = "ok" THEN "COMPLETED" ELSE "COMPLETED_UNREPORTED")
       ELSE pc' = "loop" /\ UNCHANGED outcome
    /\ UNCHANGED <<serviceVars, linkVars, status, page, failures, transfers,
                   impatient, unusable>>

clientVars == <<linkVars, pc, status, page, failures, transfers, impatient, outcome,
                unusable>>

\* handle_timeout, whatever the state of the ticket.
Requeue ==
    ticket' = [state |-> "WAITING", attempt |-> ticket.attempt + 1, queued |-> TRUE,
               class |-> NextClass(ticket.class, ticket.attempt, max_attempts)]

\* queue_estimate, accepted or not.
HandleEstimate(r) ==
    /\ r.kind = "estimate"
    /\ IF ticket.state = "WAITING" /\ ticket.attempt = 1
       THEN /\ ticket' = [ticket EXCEPT !.class = r.class]
            /\ log' = [log EXCEPT !.estimates = @ + 1]
       ELSE UNCHANGED <<ticket, log>>

\* queue_complete of a success: the ticket is not taken out of the queue.
HandleSuccess(r) ==
    /\ r.kind = "report" /\ r.ok /\ ticket.state # "GONE"
    /\ ticket' = [ticket EXCEPT !.state = "COMPLETED"]
    /\ log' = [log EXCEPT !.completes = @ + 1]

HandleFailure(r) ==
    /\ r.kind = "report" /\ ~r.ok /\ ticket.state # "GONE"
    /\ Requeue
    /\ UNCHANGED log

HandleUnknown(r) ==
    /\ r.kind = "report" /\ ticket.state = "GONE"
    /\ UNCHANGED <<ticket, log>>

Handle(r) ==
    HandleEstimate(r) \/ HandleSuccess(r) \/ HandleFailure(r) \/ HandleUnknown(r)

HandleCall ==
    /\ call # NoCall /\ reply = "none"
    /\ Handle(call)
    /\ reply' = IF ticket.state = "GONE" THEN "refused" ELSE "ok"
    /\ UNCHANGED <<mode, live, late, call, clientVars>>

HandleLate ==
    /\ \E r \in late : Handle(r) /\ late' = late \ {r}
    /\ UNCHANGED <<mode, live, call, reply, clientVars>>

Admit ==
    /\ ticket.queued /\ ticket.attempt <= AttemptBound
    /\ ticket' = [ticket EXCEPT !.state = "ADMITTED", !.queued = FALSE]
    /\ live' = live \cup {ticket.attempt}
    /\ UNCHANGED <<mode, log, callVars, clientVars>>

WindowElapses ==
    /\ \E n \in live : live' = live \ {n}
    /\ UNCHANGED <<mode, ticket, log, callVars, clientVars>>

Sweep ==
    /\ ticket.state = "ADMITTED" /\ ticket.attempt \notin live
    /\ Requeue
    /\ UNCHANGED <<mode, live, log, callVars, clientVars>>

\* A restart on the in-memory store, an eviction, a purge.
TicketLost ==
    /\ ticket.state \notin {"NONE", "GONE"}
    /\ ticket' = [ticket EXCEPT !.state = "GONE", !.queued = FALSE]
    /\ UNCHANGED <<mode, live, log, callVars, clientVars>>
-----------------------------------------------------------------------------
PatienceEnds ==
    /\ ~impatient /\ pc # "ended"
    /\ impatient' = TRUE
    /\ UNCHANGED <<serviceVars, callVars, linkVars, pc, status, page, failures,
                   transfers, outcome, unusable>>

\* The probe is older than PROBE_REFRESH_AFTER_S.
ProbeAges ==
    /\ link.probes > 0 /\ ~link.stale /\ pc # "ended"
    /\ link' = [link EXCEPT !.stale = TRUE]
    /\ UNCHANGED <<serviceVars, callVars, gate, pc, status, page, failures, transfers,
                   impatient, outcome, unusable>>

Ended == pc = "ended" /\ UNCHANGED vars

Poll == PollFails \/ PollUnknown \/ PollAnswered

Transfer == FetchDocument \/ FetchResources \/ ReportComplete \/ ReportReturns

Client ==
    \/ Join \/ JoinFails \/ Probe \/ GiveUp \/ Poll
    \/ Reprobe \/ SendEstimate \/ EstimateReturns \/ Act \/ Transfer

Service == HandleCall \/ HandleLate \/ Admit \/ WindowElapses \/ Sweep \/ TicketLost

Next == Client \/ Service \/ PatienceEnds \/ ProbeAges \/ Ended

Spec == Init /\ [][Next]_vars

\* Every call of the client has a timeout and every sleep an end; time passes.
\* Nothing is assumed of the service: it may never answer, admit or sweep.
Fairness == WF_vars(Client) /\ WF_vars(PatienceEnds)

FairSpec == Spec /\ Fairness
-----------------------------------------------------------------------------
(* What a session must get right *)

\* However calls are lost, late or answered with errors: the log has at most one
\* COMPLETE for a session, and a run whose sessions all ended in a valid outcome
\* has one exactly for those the client calls COMPLETED.  Loadgen reports a run as
\* a clean measurement on the strength of this.
LogAgrees ==
    /\ log.completes <= 1
    /\ pc = "ended" /\ outcome \notin INVALIDATING_OUTCOMES
       => (log.completes = 1 <=> outcome = "COMPLETED")

\* A COMPLETE in the log stands for a page of which every part came within its
\* window and within the client's patience.
DeliveredInTime ==
    [][page'.ok /\ ~page.ok => status.token.att \in live /\ ~impatient]_vars

\* C1: the ticket's class is set by at most one estimate, however late or how
\* often lost its call, also when the service never answers it.
OneEstimate ==
    /\ log.estimates <= 1
    /\ Cardinality({r \in late \cup {call} : r.kind = "estimate"}) <= 1

\* The client blames the service exactly when MaxFailures polls in a row brought
\* no usable status, however it failed to: a slow link that answers now and then
\* is not a broken service, and a service that answers garbage is.
BlamesRightly ==
    /\ unusable <= MaxFailures
    /\ status.state # "NONE" \/ unusable > 0
       => (unusable = MaxFailures <=> outcome = "ADMISSION_UNAVAILABLE")

\* The control conditions serve the full page to everyone (INTEGRATION-ISSUES A1).
FullPageUnlessAdapted == page.status = 200 /\ mode # "aaac" => page.variant = "full"

\* Every session ends, whatever the service does.
SessionEnds == <>(pc = "ended")
=============================================================================

---------------------------- MODULE SessionProofs ----------------------------
(***************************************************************************)
(* Proofs about ClientSession for any mode, any number of attempts and     *)
(* polls, and whatever is lost, late or never answered.                    *)
(***************************************************************************)
EXTENDS ClientSession, FiniteSetTheorems, TLAPS

\* A request that is a success, and one that is an estimate.
IsSuccess(r) == r.kind = "report" /\ r.ok
IsEstimate(r) == r.kind = "estimate"

\* The client waits for one answer, and only there.
CallOK ==
    /\ pc \notin {"estimating", "reporting"} => call = NoCall /\ reply = "none"
    /\ pc = "estimating" => call \in Estimates
    /\ pc = "reporting" => call = [kind |-> "report", n |-> transfers, ok |-> page.ok, class |-> LOW]
    /\ pc # "ended" => outcome = "none"
    /\ pc \in {"join", "probe"} => link.probes = 0 /\ unusable = 0 /\ status.state = "NONE"

\* A page is whole from the end of its transfer to the end of the session.
PageOK ==
    /\ page.ok => page.status = 200 /\ pc \in {"report", "reporting", "ended"}
    /\ pc = "resources" => page.status = 200

\* A COMPLETE record has its report, and no report is handled twice.
CompletesOK ==
    /\ pc \notin {"reporting", "ended"} => log.completes = 0
    /\ pc = "reporting" => log.completes = IF page.ok /\ reply = "ok" THEN 1 ELSE 0
    /\ log.completes \in {0, 1}
    /\ outcome = "COMPLETED" => log.completes = 1
    /\ pc = "ended" /\ log.completes = 1 => outcome \in {"COMPLETED", "COMPLETED_UNREPORTED"}
    /\ \A r \in late : IsSuccess(r) =>
          /\ r = [kind |-> "report", n |-> transfers, ok |-> TRUE, class |-> LOW]
          /\ pc = "ended" /\ outcome = "COMPLETED_UNREPORTED" /\ log.completes = 0
    /\ ticket.state = "COMPLETED" => log.completes = 1
    /\ status.state # "COMPLETED"

\* There is one estimate, unsent, called, late or logged.
EstimatesOK ==
    /\ log.estimates \in {0, 1}
    /\ ~gate.submitted => log.estimates = 0 \/ (pc = "estimating" /\ reply # "none")
    /\ pc = "estimating" => ~gate.submitted
    /\ \A r \in late : IsEstimate(r) => gate.submitted /\ log.estimates = 0
    /\ \A r, q \in late : IsEstimate(r) /\ IsEstimate(q) => r = q

\* failures counts what it should.
FailuresOK ==
    /\ failures = unusable
    /\ unusable = MaxFailures => outcome = "ADMISSION_UNAVAILABLE"
    /\ outcome = "ADMISSION_UNAVAILABLE" =>
          unusable = MaxFailures \/ (unusable = 0 /\ status.state = "NONE")

\* The control conditions have the token of the full page, if they have one.
VariantOK ==
    mode # "aaac" =>
        /\ status.token # NoToken => status.token.var = "full"
        /\ page.status = 200 => page.variant = "full"

FetchOK == pc = "fetch" => status.token # NoToken

IInv ==
    /\ TypeOK /\ CallOK /\ PageOK /\ CompletesOK /\ EstimatesOK /\ FailuresOK
    /\ VariantOK /\ FetchOK

LEMMA NextClassType ==
    ASSUME NEW c \in AccessClass, NEW attempt, NEW limit
    PROVE  NextClass(c, attempt, limit) \in AccessClass
  BY DEF NextClass, Downgrade, AccessClass, HIGH, MEDIUM, LOW

-----------------------------------------------------------------------------
(* Types *)

TicketType == [state : {"NONE", "WAITING", "ADMITTED", "COMPLETED", "GONE"},
               attempt : Nat, class : AccessClass, queued : BOOLEAN]
LogType == [completes : Nat, estimates : Nat]
StatusType == [state : {"NONE", "WAITING", "ADMITTED", "COMPLETED"},
               attempt : Nat, token : Tokens \cup {NoToken}]
PageType == [ok : BOOLEAN, status : {0, 200, 401, 502, 503}, variant : Variants \cup {"none"}]
LinkType == [rtts : 0 .. min_rtt_samples, probes : 0 .. 2, stale : BOOLEAN]
GateType == [submitted : BOOLEAN, never_qualified : BOOLEAN]

LEMMA RequeueType ==
    ASSUME ticket \in TicketType, Requeue
    PROVE  ticket' \in TicketType
<1>1. ticket.attempt + 1 \in Nat /\ ticket.class \in AccessClass
  BY DEF TicketType
<1>2. PICK n, c : n = ticket.attempt + 1 /\ c = NextClass(ticket.class, ticket.attempt, max_attempts)
  OBVIOUS
<1>3. n \in Nat /\ c \in AccessClass
  BY <1>1, <1>2, NextClassType
<1>4. ticket' = [state |-> "WAITING", attempt |-> n, queued |-> TRUE, class |-> c]
  BY <1>2 DEF Requeue
<1> QED BY <1>3, <1>4 DEF TicketType

\* What handling a request does to the ticket's state and to the log.
HandledOK(r) ==
    /\ ticket' \in TicketType /\ log' \in LogType
    /\ IF IsEstimate(r) THEN log'.estimates \in {log.estimates, log.estimates + 1}
                        ELSE log'.estimates = log.estimates
    /\ IF IsSuccess(r) /\ ticket.state # "GONE"
       THEN log'.completes = log.completes + 1
       ELSE log'.completes = log.completes /\ (ticket'.state = "COMPLETED" => ticket.state = "COMPLETED")

LEMMA HandleFacts ==
    ASSUME ticket \in TicketType, log \in LogType, NEW r \in Estimates \cup Reports, Handle(r)
    PROVE  HandledOK(r)
<1> USE DEF HandledOK, IsEstimate, IsSuccess
<1>1. CASE HandleEstimate(r)
  <2>1. r.class \in AccessClass
    BY DEF Estimates, Reports, AccessClass, LOW
  <2>2. [ticket EXCEPT !.class = r.class] \in TicketType
        /\ [ticket EXCEPT !.class = r.class].state = ticket.state
    BY <2>1 DEF TicketType
  <2>3. /\ [log EXCEPT !.estimates = @ + 1] \in LogType
        /\ [log EXCEPT !.estimates = @ + 1].estimates = log.estimates + 1
        /\ [log EXCEPT !.estimates = @ + 1].completes = log.completes
    BY DEF LogType
  <2> QED BY <1>1, <2>2, <2>3 DEF HandleEstimate
<1>2. CASE HandleSuccess(r)
  <2>1. [ticket EXCEPT !.state = "COMPLETED"] \in TicketType
    BY DEF TicketType
  <2>2. /\ [log EXCEPT !.completes = @ + 1] \in LogType
        /\ [log EXCEPT !.completes = @ + 1].completes = log.completes + 1
        /\ [log EXCEPT !.completes = @ + 1].estimates = log.estimates
    BY DEF LogType
  <2> QED BY <1>2, <2>1, <2>2 DEF HandleSuccess
<1>3. CASE HandleFailure(r)
  <2>1. ticket' \in TicketType
    BY <1>3, RequeueType DEF HandleFailure
  <2>2. ticket'.state = "WAITING"
    BY <1>3 DEF HandleFailure, Requeue
  <2> QED BY <1>3, <2>1, <2>2 DEF HandleFailure
<1>4. CASE HandleUnknown(r)
  BY <1>4 DEF HandleUnknown
<1> QED BY <1>1, <1>2, <1>3, <1>4 DEF Handle

-----------------------------------------------------------------------------
(* The client *)

LEMMA MarkFacts ==
    ASSUME gate \in GateType, Mark
    PROVE  gate' \in GateType /\ gate'.submitted = gate.submitted
  BY DEF GateType, Mark

LEMMA ProbedFacts ==
    ASSUME link \in LinkType, link.probes # 2, Probed
    PROVE  link' \in LinkType
<1>1. link.probes + 1 \in 0 .. 2
  BY DEF LinkType
<1> QED BY <1>1 DEF LinkType, Probed

LEMMA SampledFacts ==
    ASSUME SessionAssumption, link \in LinkType, Sampled
    PROVE  link' \in LinkType /\ link'.probes = link.probes
<1>1. (IF link.rtts < min_rtt_samples THEN link.rtts + 1 ELSE link.rtts) \in 0 .. min_rtt_samples
  BY DEF LinkType, SessionAssumption
<1> QED BY <1>1 DEF LinkType, Sampled

LEMMA TokenFacts ==
    ASSUME NEW m, NEW k \in TicketType
    PROVE  issue_token(m, k) \in Tokens /\ (m # "aaac" => issue_token(m, k).var = "full")
<1>1. k.attempt \in Nat
  BY DEF TicketType
<1>2. variant_for(HIGH) = "full" /\ variant_for(k.class) \in Variants
  BY DEF variant_for, HIGH, MEDIUM, LOW, Variants
<1> QED BY <1>1, <1>2 DEF issue_token, Tokens, Variants

LEMMA PageFacts ==
    ASSUME NEW token \in Tokens, NEW windows, NEW p \in {NoPage} \cup result(token, windows)
    PROVE  p \in PageType /\ ~p.ok /\ (p.status = 200 => p.variant = token.var)
<1>1. \A s \in {0, 200, 401, 502, 503}, v \in Variants \cup {"none"} :
          Page(s, v) \in PageType /\ ~Page(s, v).ok /\ Page(s, v).status = s /\ Page(s, v).variant = v
  BY DEF Page, PageType
<1>2. token.var \in Variants
  BY DEF Tokens
<1>3. \/ p = Page(0, "none") \/ p = Page(401, "none") \/ p = Page(502, "none")
      \/ p = Page(503, "none") \/ p = Page(200, token.var)
  BY DEF NoPage, result
<1> QED BY <1>1, <1>2, <1>3

LEMMA ReportsAreReports ==
    ASSUME NEW n \in Nat, NEW ok \in BOOLEAN
    PROVE  [kind |-> "report", n |-> n, ok |-> ok, class |-> LOW] \in Reports
  BY DEF Reports

LEMMA EstimatesAreEstimates ==
    ASSUME NEW c \in AccessClass
    PROVE  [kind |-> "estimate", n |-> 0, ok |-> FALSE, class |-> c] \in Estimates
  BY DEF Estimates

ServiceType == mode \in Modes /\ ticket \in TicketType /\ live \in SUBSET Nat /\ log \in LogType

CallType ==
    /\ late \in SUBSET (Estimates \cup Reports)
    /\ call \in Estimates \cup Reports \cup {NoCall}
    /\ reply \in {"none", "ok", "refused"}

ClientType ==
    /\ pc \in {"join", "probe", "loop", "status", "estimate", "estimating", "act",
               "fetch", "resources", "report", "reporting", "ended"}
    /\ status \in StatusType /\ page \in PageType /\ link \in LinkType /\ gate \in GateType
    /\ failures \in 0 .. MaxFailures /\ unusable \in Nat /\ transfers \in Nat
    /\ impatient \in BOOLEAN /\ outcome \in Outcome \cup {"none"}

LEMMA CreatedFacts ==
    ASSUME ServiceType, Created
    PROVE  ticket' \in TicketType /\ live' \in SUBSET Nat /\ ticket'.state # "COMPLETED"
<1>1. HIGH \in AccessClass
  BY DEF AccessClass
<1>2. [ticket EXCEPT !.state = "ADMITTED", !.class = HIGH] \in TicketType
  BY <1>1 DEF ServiceType, TicketType
<1>3. CASE mode = "none"
  <2>1. ticket' = [ticket EXCEPT !.state = "ADMITTED", !.class = HIGH] /\ live' = {1}
    BY <1>3 DEF Created
  <2>2. ticket'.state = "ADMITTED"
    BY <2>1 DEF ServiceType, TicketType
  <2> QED BY <1>2, <2>1, <2>2
<1>4. CASE mode # "none"
  BY <1>4 DEF Created, ServiceType, TicketType
<1> QED BY <1>3, <1>4

LEMMA Types ==
    /\ TypeOK <=> ServiceType /\ CallType /\ ClientType
    /\ TypeOK' <=> ServiceType' /\ CallType' /\ ClientType'
  BY DEF TypeOK, ServiceType, CallType, ClientType, TicketType, LogType, StatusType,
         PageType, LinkType, GateType

LEMMA GiveUpKeepsInv ==
    ASSUME SessionAssumption, IInv, GiveUp PROVE IInv'
<1> USE DEF GiveUp, serviceVars, callVars, linkVars, Ends
<1>1. ServiceType /\ CallType /\ ClientType
  BY Types DEF IInv
<1>2. gate' \in GateType /\ gate'.submitted = gate.submitted
  BY <1>1, MarkFacts DEF ClientType
<1>3. ServiceType' /\ CallType' /\ ClientType'
  BY <1>1, <1>2 DEF ServiceType, CallType, ClientType, Outcome
<1>4. CallOK'
  BY DEF IInv, CallOK
<1>5. PageOK'
  BY DEF IInv, PageOK
<1>6. CompletesOK'
  BY DEF IInv, CompletesOK
<1>7. EstimatesOK'
  BY <1>2 DEF IInv, EstimatesOK
<1>8. FailuresOK'
  BY DEF IInv, FailuresOK, CallOK
<1>9. VariantOK'
  BY DEF IInv, VariantOK
<1>10. FetchOK'
  BY DEF IInv, FetchOK
<1> QED
  BY <1>3, <1>4, <1>5, <1>6, <1>7, <1>8, <1>9, <1>10, Types DEF IInv

LEMMA JoinKeepsInv ==
    ASSUME SessionAssumption, IInv, Join PROVE IInv'
<1> USE DEF Join, serviceVars, callVars, linkVars
<1>1. ServiceType /\ CallType /\ ClientType
  BY Types DEF IInv
<1>2. ticket' \in TicketType /\ live' \in SUBSET Nat /\ (ticket'.state = "COMPLETED" => ticket.state = "COMPLETED")
  BY <1>1, CreatedFacts DEF ServiceType
<1>3. ServiceType' /\ CallType' /\ ClientType'
  BY <1>1, <1>2 DEF ServiceType, CallType, ClientType
<1>4. CallOK'
  BY DEF IInv, CallOK
<1>5. PageOK'
  BY DEF IInv, PageOK
<1>6. CompletesOK'
  BY <1>2 DEF IInv, CompletesOK
<1>7. EstimatesOK'
  BY DEF IInv, EstimatesOK
<1>8. FailuresOK'
  BY DEF IInv, FailuresOK
<1>9. VariantOK'
  BY DEF IInv, VariantOK
<1>10. FetchOK'
  BY DEF IInv, FetchOK
<1> QED
  BY <1>3, <1>4, <1>5, <1>6, <1>7, <1>8, <1>9, <1>10, Types DEF IInv

LEMMA JoinFailsKeepsInv ==
    ASSUME SessionAssumption, IInv, JoinFails PROVE IInv'
<1> USE DEF JoinFails, serviceVars, callVars, linkVars, Ends
<1>1. ServiceType /\ CallType /\ ClientType
  BY Types DEF IInv
<1>2. ticket' \in TicketType /\ live' \in SUBSET Nat /\ (ticket'.state = "COMPLETED" => ticket.state = "COMPLETED")
  BY <1>1, CreatedFacts DEF ServiceType
<1>3. ServiceType' /\ CallType' /\ ClientType'
  BY <1>1, <1>2 DEF ServiceType, CallType, ClientType, Outcome, INVALIDATING_OUTCOMES
<1>4. CallOK'
  BY DEF IInv, CallOK
<1>5. PageOK'
  BY DEF IInv, PageOK
<1>6. CompletesOK'
  BY <1>2 DEF IInv, CompletesOK, CallOK
<1>7. EstimatesOK'
  BY DEF IInv, EstimatesOK
<1>8. FailuresOK'
  BY DEF IInv, FailuresOK, CallOK
<1>9. VariantOK'
  BY DEF IInv, VariantOK
<1>10. FetchOK'
  BY DEF IInv, FetchOK
<1> QED
  BY <1>3, <1>4, <1>5, <1>6, <1>7, <1>8, <1>9, <1>10, Types DEF IInv

LEMMA ProbeKeepsInv ==
    ASSUME SessionAssumption, IInv, Probe PROVE IInv'
<1> USE DEF Probe, serviceVars, callVars, linkVars
<1>1. ServiceType /\ CallType /\ ClientType
  BY Types DEF IInv
<1>2. link' \in LinkType
  BY <1>1, ProbedFacts DEF ClientType, IInv, CallOK
<1>3. ServiceType' /\ CallType' /\ ClientType'
  BY <1>1, <1>2 DEF ServiceType, CallType, ClientType
<1>4. CallOK'
  BY DEF IInv, CallOK
<1>5. PageOK'
  BY DEF IInv, PageOK
<1>6. CompletesOK'
  BY DEF IInv, CompletesOK
<1>7. EstimatesOK'
  BY DEF IInv, EstimatesOK
<1>8. FailuresOK'
  BY DEF IInv, FailuresOK
<1>9. VariantOK'
  BY DEF IInv, VariantOK
<1>10. FetchOK'
  BY DEF IInv, FetchOK
<1> QED
  BY <1>3, <1>4, <1>5, <1>6, <1>7, <1>8, <1>9, <1>10, Types DEF IInv

LEMMA PollFailsKeepsInv ==
    ASSUME SessionAssumption, IInv, PollFails PROVE IInv'
<1> USE DEF PollFails, serviceVars, callVars, linkVars, Polls, CountFailure, Ends
<1>1. ServiceType /\ CallType /\ ClientType
  BY Types DEF IInv
<1>2. link' \in LinkType /\ link'.probes = link.probes
  BY <1>1, SampledFacts DEF ClientType
<1>3. failures < MaxFailures
  BY <1>1 DEF ClientType, IInv, FailuresOK, CallOK, SessionAssumption
<1>4. ServiceType' /\ CallType' /\ ClientType'
  BY <1>1, <1>2, <1>3 DEF ServiceType, CallType, ClientType, Outcome, INVALIDATING_OUTCOMES, SessionAssumption
<1>5. CallOK'
  BY <1>2 DEF IInv, CallOK
<1>6. PageOK'
  BY DEF IInv, PageOK
<1>7. CompletesOK'
  BY DEF IInv, CompletesOK, CallOK
<1>8. EstimatesOK'
  BY DEF IInv, EstimatesOK
<1>9. FailuresOK'
  BY <1>1, <1>3 DEF IInv, FailuresOK, CallOK, SessionAssumption, ClientType
<1>10. VariantOK'
  BY DEF IInv, VariantOK
<1>11. FetchOK'
  BY DEF IInv, FetchOK
<1> QED
  BY <1>4, <1>5, <1>6, <1>7, <1>8, <1>9, <1>10, <1>11, Types DEF IInv

LEMMA PollUnknownKeepsInv ==
    ASSUME SessionAssumption, IInv, PollUnknown PROVE IInv'
<1> USE DEF PollUnknown, serviceVars, callVars, linkVars, Polls, Ends
<1>1. ServiceType /\ CallType /\ ClientType
  BY Types DEF IInv
<1>2. gate' \in GateType /\ gate'.submitted = gate.submitted
  BY <1>1, MarkFacts DEF ClientType
<1>3. link' \in LinkType /\ link'.probes = link.probes
  BY <1>1, SampledFacts DEF ClientType
<1>4. ServiceType' /\ CallType' /\ ClientType'
  BY <1>1, <1>2, <1>3 DEF ServiceType, CallType, ClientType, Outcome, INVALIDATING_OUTCOMES
<1>5. CallOK'
  BY <1>3 DEF IInv, CallOK
<1>6. PageOK'
  BY DEF IInv, PageOK
<1>7. CompletesOK'
  BY DEF IInv, CompletesOK, CallOK
<1>8. EstimatesOK'
  BY <1>2 DEF IInv, EstimatesOK
<1>9. FailuresOK'
  BY DEF IInv, FailuresOK, CallOK
<1>10. VariantOK'
  BY DEF IInv, VariantOK
<1>11. FetchOK'
  BY DEF IInv, FetchOK
<1> QED
  BY <1>4, <1>5, <1>6, <1>7, <1>8, <1>9, <1>10, <1>11, Types DEF IInv

LEMMA PollAnsweredKeepsInv ==
    ASSUME SessionAssumption, IInv, PollAnswered PROVE IInv'
<1> USE DEF PollAnswered, serviceVars, callVars, linkVars, Polls
<1>1. ServiceType /\ CallType /\ ClientType
  BY Types DEF IInv
<1>2. link' \in LinkType /\ link'.probes = link.probes
  BY <1>1, SampledFacts DEF ClientType
<1>3. PICK token : token = IF ticket.state = "ADMITTED" /\ ticket.attempt \in live
                     THEN issue_token(mode, ticket) ELSE NoToken
  OBVIOUS
<1>4. /\ token \in Tokens \cup {NoToken}
      /\ mode # "aaac" => token = NoToken \/ token.var = "full"
  BY <1>1, <1>3, TokenFacts DEF ServiceType
<1>5. status' = [state |-> ticket.state, attempt |-> ticket.attempt, token |-> token]
  BY <1>3
<1>6. status' \in StatusType /\ status'.state = ticket.state /\ status'.token = token
  BY <1>1, <1>4, <1>5 DEF ServiceType, TicketType, StatusType
<1>7. ticket.state # "COMPLETED" /\ outcome = "none"
  BY DEF IInv, CompletesOK, CallOK
<1>8. ServiceType' /\ CallType' /\ ClientType'
  BY <1>1, <1>2, <1>6 DEF ServiceType, CallType, ClientType
<1>9. CallOK'
  BY <1>2 DEF IInv, CallOK
<1>10. PageOK'
  BY DEF IInv, PageOK
<1>11. CompletesOK'
  BY <1>6, <1>7 DEF IInv, CompletesOK
<1>12. EstimatesOK'
  BY DEF IInv, EstimatesOK
<1>13. FailuresOK'
  BY <1>7 DEF IInv, FailuresOK, SessionAssumption
<1>14. VariantOK'
  BY <1>4, <1>6 DEF IInv, VariantOK
<1>15. FetchOK'
  BY DEF IInv, FetchOK
<1> QED
  BY <1>8, <1>9, <1>10, <1>11, <1>12, <1>13, <1>14, <1>15, Types DEF IInv

LEMMA ReprobeKeepsInv ==
    ASSUME SessionAssumption, IInv, Reprobe PROVE IInv'
<1> USE DEF Reprobe, serviceVars, callVars, linkVars
<1>1. ServiceType /\ CallType /\ ClientType
  BY Types DEF IInv
<1>2. link' \in LinkType
  BY <1>1, ProbedFacts DEF ClientType
<1>3. ServiceType' /\ CallType' /\ ClientType'
  BY <1>1, <1>2 DEF ServiceType, CallType, ClientType
<1>4. CallOK'
  BY DEF IInv, CallOK
<1>5. PageOK'
  BY DEF IInv, PageOK
<1>6. CompletesOK'
  BY DEF IInv, CompletesOK
<1>7. EstimatesOK'
  BY DEF IInv, EstimatesOK
<1>8. FailuresOK'
  BY DEF IInv, FailuresOK
<1>9. VariantOK'
  BY DEF IInv, VariantOK
<1>10. FetchOK'
  BY DEF IInv, FetchOK
<1> QED
  BY <1>3, <1>4, <1>5, <1>6, <1>7, <1>8, <1>9, <1>10, Types DEF IInv

LEMMA SendEstimateKeepsInv ==
    ASSUME SessionAssumption, IInv, SendEstimate PROVE IInv'
<1> USE DEF SendEstimate, serviceVars, callVars, linkVars
<1>1. ServiceType /\ CallType /\ ClientType
  BY Types DEF IInv
<1>2. may_submit => call' \in Estimates
  BY EstimatesAreEstimates
<1>3. ~may_submit => call' = call
  OBVIOUS
<1>4. ServiceType' /\ CallType' /\ ClientType'
  BY <1>1, <1>2, <1>3 DEF ServiceType, CallType, ClientType
<1>5. CallOK'
  BY <1>2, <1>3 DEF IInv, CallOK
<1>6. PageOK'
  BY DEF IInv, PageOK
<1>7. CompletesOK'
  BY DEF IInv, CompletesOK
<1>8. EstimatesOK'
  BY DEF IInv, EstimatesOK, CallOK, may_submit
<1>9. FailuresOK'
  BY DEF IInv, FailuresOK
<1>10. VariantOK'
  BY DEF IInv, VariantOK
<1>11. FetchOK'
  BY DEF IInv, FetchOK
<1> QED
  BY <1>4, <1>5, <1>6, <1>7, <1>8, <1>9, <1>10, <1>11, Types DEF IInv

LEMMA EstimateReturnsKeepsInv ==
    ASSUME SessionAssumption, IInv, EstimateReturns PROVE IInv'
<1> USE DEF EstimateReturns, serviceVars, callVars, linkVars, Hangs
<1>1. ServiceType /\ CallType /\ ClientType
  BY Types DEF IInv
<1>2. gate' \in GateType /\ gate'.submitted
  BY <1>1 DEF ClientType, GateType
<1>3. call \in Estimates /\ ~IsSuccess(call) /\ IsEstimate(call)
  BY DEF IInv, CallOK, Estimates, IsSuccess, IsEstimate
<1>4. late' \in SUBSET (Estimates \cup Reports)
  BY <1>1, <1>3 DEF CallType
<1>5. ServiceType' /\ CallType' /\ ClientType'
  BY <1>1, <1>2, <1>4 DEF ServiceType, CallType, ClientType
<1>6. CallOK'
  BY DEF IInv, CallOK
<1>7. PageOK'
  BY DEF IInv, PageOK
<1>8. CompletesOK'
  BY <1>3 DEF IInv, CompletesOK, CallOK
<1>9. EstimatesOK'
  BY <1>2, <1>3 DEF IInv, EstimatesOK
<1>10. FailuresOK'
  BY DEF IInv, FailuresOK
<1>11. VariantOK'
  BY DEF IInv, VariantOK
<1>12. FetchOK'
  BY DEF IInv, FetchOK
<1> QED
  BY <1>5, <1>6, <1>7, <1>8, <1>9, <1>10, <1>11, <1>12, Types DEF IInv

LEMMA ActKeepsInv ==
    ASSUME SessionAssumption, IInv, Act PROVE IInv'
<1> USE DEF Act, serviceVars, callVars, linkVars, Ends
<1>1. ServiceType /\ CallType /\ ClientType
  BY Types DEF IInv
<1>2. gate' \in GateType /\ gate'.submitted = gate.submitted
  BY <1>1, MarkFacts DEF ClientType
<1>3. ServiceType' /\ CallType' /\ ClientType'
  BY <1>1, <1>2 DEF ServiceType, CallType, ClientType, Outcome
<1>4. CallOK'
  BY DEF IInv, CallOK
<1>5. PageOK'
  BY DEF IInv, PageOK
<1>6. CompletesOK'
  BY DEF IInv, CompletesOK
<1>7. EstimatesOK'
  BY <1>2 DEF IInv, EstimatesOK
<1>8. FailuresOK'
  BY DEF IInv, FailuresOK, CallOK, CompletesOK
<1>9. VariantOK'
  BY DEF IInv, VariantOK
<1>10. FetchOK'
  BY DEF IInv, FetchOK
<1> QED
  BY <1>3, <1>4, <1>5, <1>6, <1>7, <1>8, <1>9, <1>10, Types DEF IInv

LEMMA FetchDocumentKeepsInv ==
    ASSUME SessionAssumption, IInv, FetchDocument PROVE IInv'
<1> USE DEF FetchDocument, serviceVars, callVars, linkVars
<1>1. ServiceType /\ CallType /\ ClientType
  BY Types DEF IInv
<1>2. status.token \in Tokens
  BY <1>1 DEF IInv, FetchOK, ClientType, StatusType
<1>3. page' \in PageType /\ ~page'.ok /\ (page'.status = 200 => page'.variant = status.token.var)
  BY <1>2, PageFacts
<1>4. ServiceType' /\ CallType' /\ ClientType'
  BY <1>1, <1>1, <1>3 DEF ServiceType, CallType, ClientType
<1>5. CallOK'
  BY <1>3 DEF IInv, CallOK
<1>6. PageOK'
  BY <1>3 DEF IInv, PageOK
<1>7. CompletesOK'
  BY <1>3 DEF IInv, CompletesOK
<1>8. EstimatesOK'
  BY DEF IInv, EstimatesOK
<1>9. FailuresOK'
  BY DEF IInv, FailuresOK
<1>10. VariantOK'
  BY <1>3 DEF IInv, VariantOK, FetchOK
<1>11. FetchOK'
  BY DEF IInv, FetchOK
<1> QED
  BY <1>4, <1>5, <1>6, <1>7, <1>8, <1>9, <1>10, <1>11, Types DEF IInv

LEMMA FetchResourcesKeepsInv ==
    ASSUME SessionAssumption, IInv, FetchResources PROVE IInv'
<1> USE DEF FetchResources, serviceVars, callVars, linkVars
<1>1. ServiceType /\ CallType /\ ClientType
  BY Types DEF IInv
<1>2. PICK ok \in BOOLEAN : page' = [page EXCEPT !.ok = ok /\ ~Over]
  OBVIOUS
<1>3. PICK whole \in BOOLEAN : page' = [page EXCEPT !.ok = whole]
  BY <1>2, Zenon
<1>4. page' \in PageType /\ page'.status = page.status /\ page'.variant = page.variant
  BY <1>1, <1>3 DEF ClientType, PageType
<1>5. ServiceType' /\ CallType' /\ ClientType'
  BY <1>1, <1>4 DEF ServiceType, CallType, ClientType
<1>6. CallOK'
  BY <1>4 DEF IInv, CallOK
<1>7. PageOK'
  BY <1>4 DEF IInv, PageOK
<1>8. CompletesOK'
  BY <1>4 DEF IInv, CompletesOK
<1>9. EstimatesOK'
  BY DEF IInv, EstimatesOK
<1>10. FailuresOK'
  BY DEF IInv, FailuresOK
<1>11. VariantOK'
  BY <1>4 DEF IInv, VariantOK
<1>12. FetchOK'
  BY DEF IInv, FetchOK
<1> QED
  BY <1>5, <1>6, <1>7, <1>8, <1>9, <1>10, <1>11, <1>12, Types DEF IInv

LEMMA ReportCompleteKeepsInv ==
    ASSUME SessionAssumption, IInv, ReportComplete PROVE IInv'
<1> USE DEF ReportComplete, serviceVars, callVars, linkVars
<1>1. ServiceType /\ CallType /\ ClientType
  BY Types DEF IInv
<1>2. transfers \in Nat /\ page.ok \in BOOLEAN
  BY <1>1 DEF ClientType, PageType
<1>3. call' \in Reports
  BY <1>2, ReportsAreReports
<1>4. reply = "none" /\ log.completes = 0
  BY DEF IInv, CallOK, CompletesOK
<1>5. ServiceType' /\ CallType' /\ ClientType'
  BY <1>1, <1>3 DEF ServiceType, CallType, ClientType
<1>6. CallOK'
  BY DEF IInv, CallOK
<1>7. PageOK'
  BY DEF IInv, PageOK
<1>8. CompletesOK'
  BY <1>4 DEF IInv, CompletesOK
<1>9. EstimatesOK'
  BY DEF IInv, EstimatesOK
<1>10. FailuresOK'
  BY DEF IInv, FailuresOK
<1>11. VariantOK'
  BY DEF IInv, VariantOK
<1>12. FetchOK'
  BY DEF IInv, FetchOK
<1> QED
  BY <1>5, <1>6, <1>7, <1>8, <1>9, <1>10, <1>11, <1>12, Types DEF IInv

LEMMA ReportReturnsKeepsInv ==
    ASSUME SessionAssumption, IInv, ReportReturns PROVE IInv'
<1> USE DEF ReportReturns, serviceVars, callVars, linkVars, Hangs, Ends
<1>1. ServiceType /\ CallType /\ ClientType
  BY Types DEF IInv
<1>2. transfers \in Nat /\ page.ok \in BOOLEAN
  BY <1>1 DEF ClientType, PageType
<1>3. call = [kind |-> "report", n |-> transfers, ok |-> page.ok, class |-> LOW]
  BY DEF IInv, CallOK
<1>4. call \in Reports /\ ~IsEstimate(call) /\ (IsSuccess(call) <=> page.ok)
  BY <1>2, <1>3, ReportsAreReports DEF IsEstimate, IsSuccess
<1>5. late' \in SUBSET (Estimates \cup Reports) /\ \A r \in late' : r \in late \/ r = call
  BY <1>1, <1>4 DEF CallType
<1>6. ServiceType' /\ CallType' /\ ClientType'
  BY <1>1, <1>5 DEF ServiceType, CallType, ClientType, Outcome, INVALIDATING_OUTCOMES
<1>7. CallOK'
  BY DEF IInv, CallOK
<1>8. PageOK'
  BY DEF IInv, PageOK
<1>9. CompletesOK'
  BY <1>3, <1>4, <1>5 DEF IInv, CompletesOK, CallOK, PageOK
<1>10. EstimatesOK'
  BY <1>4, <1>5 DEF IInv, EstimatesOK
<1>11. FailuresOK'
  BY DEF IInv, FailuresOK, CallOK
<1>12. VariantOK'
  BY DEF IInv, VariantOK
<1>13. FetchOK'
  BY DEF IInv, FetchOK
<1> QED
  BY <1>6, <1>7, <1>8, <1>9, <1>10, <1>11, <1>12, <1>13, Types DEF IInv

LEMMA PatienceEndsKeepsInv ==
    ASSUME SessionAssumption, IInv, PatienceEnds PROVE IInv'
<1> USE DEF PatienceEnds, serviceVars, callVars, linkVars
<1>1. ServiceType /\ CallType /\ ClientType
  BY Types DEF IInv
<1>2. ServiceType' /\ CallType' /\ ClientType'
  BY <1>1 DEF ServiceType, CallType, ClientType
<1>3. CallOK'
  BY DEF IInv, CallOK
<1>4. PageOK'
  BY DEF IInv, PageOK
<1>5. CompletesOK'
  BY DEF IInv, CompletesOK
<1>6. EstimatesOK'
  BY DEF IInv, EstimatesOK
<1>7. FailuresOK'
  BY DEF IInv, FailuresOK
<1>8. VariantOK'
  BY DEF IInv, VariantOK
<1>9. FetchOK'
  BY DEF IInv, FetchOK
<1> QED
  BY <1>2, <1>3, <1>4, <1>5, <1>6, <1>7, <1>8, <1>9, Types DEF IInv

LEMMA ProbeAgesKeepsInv ==
    ASSUME SessionAssumption, IInv, ProbeAges PROVE IInv'
<1> USE DEF ProbeAges, serviceVars, callVars, linkVars
<1>1. ServiceType /\ CallType /\ ClientType
  BY Types DEF IInv
<1>2. link' \in LinkType /\ link'.probes = link.probes
  BY <1>1 DEF ClientType, LinkType
<1>3. ServiceType' /\ CallType' /\ ClientType'
  BY <1>1, <1>2 DEF ServiceType, CallType, ClientType
<1>4. CallOK'
  BY <1>2 DEF IInv, CallOK
<1>5. PageOK'
  BY DEF IInv, PageOK
<1>6. CompletesOK'
  BY DEF IInv, CompletesOK
<1>7. EstimatesOK'
  BY DEF IInv, EstimatesOK
<1>8. FailuresOK'
  BY DEF IInv, FailuresOK
<1>9. VariantOK'
  BY DEF IInv, VariantOK
<1>10. FetchOK'
  BY DEF IInv, FetchOK
<1> QED
  BY <1>3, <1>4, <1>5, <1>6, <1>7, <1>8, <1>9, <1>10, Types DEF IInv

-----------------------------------------------------------------------------
(* The service *)

LEMMA AdmitKeepsInv ==
    ASSUME SessionAssumption, IInv, Admit PROVE IInv'
<1> USE DEF Admit, serviceVars, callVars, linkVars, clientVars
<1>1. ServiceType /\ CallType /\ ClientType
  BY Types DEF IInv
<1>2. ticket' \in TicketType /\ ticket'.state = "ADMITTED" /\ live' \in SUBSET Nat
  BY <1>1 DEF ServiceType, TicketType
<1>3. ServiceType' /\ CallType' /\ ClientType'
  BY <1>1, <1>2 DEF ServiceType, CallType, ClientType
<1>4. CallOK'
  BY DEF IInv, CallOK
<1>5. PageOK'
  BY DEF IInv, PageOK
<1>6. CompletesOK'
  BY <1>2 DEF IInv, CompletesOK
<1>7. EstimatesOK'
  BY DEF IInv, EstimatesOK
<1>8. FailuresOK'
  BY DEF IInv, FailuresOK
<1>9. VariantOK'
  BY DEF IInv, VariantOK
<1>10. FetchOK'
  BY DEF IInv, FetchOK
<1> QED
  BY <1>3, <1>4, <1>5, <1>6, <1>7, <1>8, <1>9, <1>10, Types DEF IInv

LEMMA WindowElapsesKeepsInv ==
    ASSUME SessionAssumption, IInv, WindowElapses PROVE IInv'
<1> USE DEF WindowElapses, serviceVars, callVars, linkVars, clientVars
<1>1. ServiceType /\ CallType /\ ClientType
  BY Types DEF IInv
<1>2. ServiceType' /\ CallType' /\ ClientType'
  BY <1>1 DEF ServiceType, CallType, ClientType
<1>3. CallOK'
  BY DEF IInv, CallOK
<1>4. PageOK'
  BY DEF IInv, PageOK
<1>5. CompletesOK'
  BY DEF IInv, CompletesOK
<1>6. EstimatesOK'
  BY DEF IInv, EstimatesOK
<1>7. FailuresOK'
  BY DEF IInv, FailuresOK
<1>8. VariantOK'
  BY DEF IInv, VariantOK
<1>9. FetchOK'
  BY DEF IInv, FetchOK
<1> QED
  BY <1>2, <1>3, <1>4, <1>5, <1>6, <1>7, <1>8, <1>9, Types DEF IInv

LEMMA SweepKeepsInv ==
    ASSUME SessionAssumption, IInv, Sweep PROVE IInv'
<1> USE DEF Sweep, serviceVars, callVars, linkVars, clientVars
<1>1. ServiceType /\ CallType /\ ClientType
  BY Types DEF IInv
<1>2. ticket' \in TicketType /\ ticket'.state = "WAITING"
  BY <1>1, RequeueType DEF ServiceType, Requeue
<1>3. ServiceType' /\ CallType' /\ ClientType'
  BY <1>1, <1>2 DEF ServiceType, CallType, ClientType
<1>4. CallOK'
  BY DEF IInv, CallOK
<1>5. PageOK'
  BY DEF IInv, PageOK
<1>6. CompletesOK'
  BY <1>2 DEF IInv, CompletesOK
<1>7. EstimatesOK'
  BY DEF IInv, EstimatesOK
<1>8. FailuresOK'
  BY DEF IInv, FailuresOK
<1>9. VariantOK'
  BY DEF IInv, VariantOK
<1>10. FetchOK'
  BY DEF IInv, FetchOK
<1> QED
  BY <1>3, <1>4, <1>5, <1>6, <1>7, <1>8, <1>9, <1>10, Types DEF IInv

LEMMA TicketLostKeepsInv ==
    ASSUME SessionAssumption, IInv, TicketLost PROVE IInv'
<1> USE DEF TicketLost, serviceVars, callVars, linkVars, clientVars
<1>1. ServiceType /\ CallType /\ ClientType
  BY Types DEF IInv
<1>2. ticket' \in TicketType /\ ticket'.state = "GONE"
  BY <1>1 DEF ServiceType, TicketType
<1>3. ServiceType' /\ CallType' /\ ClientType'
  BY <1>1, <1>2 DEF ServiceType, CallType, ClientType
<1>4. CallOK'
  BY DEF IInv, CallOK
<1>5. PageOK'
  BY DEF IInv, PageOK
<1>6. CompletesOK'
  BY <1>2 DEF IInv, CompletesOK
<1>7. EstimatesOK'
  BY DEF IInv, EstimatesOK
<1>8. FailuresOK'
  BY DEF IInv, FailuresOK
<1>9. VariantOK'
  BY DEF IInv, VariantOK
<1>10. FetchOK'
  BY DEF IInv, FetchOK
<1> QED
  BY <1>3, <1>4, <1>5, <1>6, <1>7, <1>8, <1>9, <1>10, Types DEF IInv

LEMMA HandleCallKeepsInv ==
    ASSUME SessionAssumption, IInv, HandleCall PROVE IInv'
<1> USE DEF HandleCall, serviceVars, callVars, linkVars, clientVars
<1>1. ServiceType /\ CallType /\ ClientType
  BY Types DEF IInv
<1>2. pc \in {"estimating", "reporting"}
  BY DEF IInv, CallOK
<1>3. call \in Estimates \cup Reports
  BY <1>1 DEF CallType
<1>4. HandledOK(call)
  BY <1>1, <1>3, HandleFacts DEF ServiceType
<1>5. ticket' \in TicketType /\ log' \in LogType
  BY <1>4 DEF HandledOK
<1>6. pc = "estimating" => IsEstimate(call) /\ ~IsSuccess(call)
  BY <1>2 DEF IInv, CallOK, IsEstimate, IsSuccess, Estimates
<1>7. pc = "reporting" => ~IsEstimate(call) /\ (IsSuccess(call) <=> page.ok)
  BY <1>2 DEF IInv, CallOK, IsEstimate, IsSuccess
<1>8. ServiceType' /\ CallType' /\ ClientType'
  BY <1>1, <1>5 DEF ServiceType, CallType, ClientType
<1>9. CallOK'
  BY <1>2 DEF IInv, CallOK
<1>10. PageOK'
  BY DEF IInv, PageOK
<1>11. CompletesOK'
  BY <1>2, <1>4, <1>6, <1>7 DEF IInv, CompletesOK, HandledOK, CallOK
<1>12. EstimatesOK'
  BY <1>2, <1>4, <1>6, <1>7 DEF IInv, EstimatesOK, HandledOK
<1>13. FailuresOK'
  BY DEF IInv, FailuresOK
<1>14. VariantOK'
  BY DEF IInv, VariantOK
<1>15. FetchOK'
  BY DEF IInv, FetchOK
<1> QED
  BY <1>8, <1>9, <1>10, <1>11, <1>12, <1>13, <1>14, <1>15, Types DEF IInv

LEMMA HandleLateKeepsInv ==
    ASSUME SessionAssumption, IInv, HandleLate PROVE IInv'
<1> USE DEF HandleLate, serviceVars, callVars, linkVars, clientVars
<1>1. ServiceType /\ CallType /\ ClientType
  BY Types DEF IInv
<1>2. PICK r \in late : Handle(r) /\ late' = late \ {r}
  OBVIOUS
<1>3. r \in Estimates \cup Reports /\ (IsEstimate(r) => ~IsSuccess(r))
  BY <1>1 DEF CallType, IsEstimate, IsSuccess
<1>4. HandledOK(r)
  BY <1>1, <1>2, <1>3, HandleFacts DEF ServiceType
<1>5. ticket' \in TicketType /\ log' \in LogType
  BY <1>4 DEF HandledOK
<1>6. IsSuccess(r) => pc = "ended" /\ outcome = "COMPLETED_UNREPORTED" /\ log.completes = 0
  BY <1>2 DEF IInv, CompletesOK
<1>7. IsSuccess(r) => \A q \in late' : ~IsSuccess(q)
  BY <1>2 DEF IInv, CompletesOK
<1>8. log'.completes = log.completes \/ (IsSuccess(r) /\ log'.completes = 1)
  BY <1>1, <1>4, <1>6 DEF HandledOK
<1>9. ticket'.state = "COMPLETED" => ticket.state = "COMPLETED" \/ log'.completes = 1
  BY <1>1, <1>4, <1>6 DEF HandledOK
<1>10. ServiceType' /\ CallType' /\ ClientType'
  BY <1>1, <1>2, <1>5 DEF ServiceType, CallType, ClientType
<1>11. CallOK'
  BY DEF IInv, CallOK
<1>12. PageOK'
  BY DEF IInv, PageOK
<1>13. CompletesOK'
  BY <1>2, <1>3, <1>6, <1>7, <1>8, <1>9 DEF IInv, CompletesOK
<1>14. EstimatesOK'
  BY <1>2, <1>3, <1>4 DEF IInv, EstimatesOK, HandledOK
<1>15. FailuresOK'
  BY DEF IInv, FailuresOK
<1>16. VariantOK'
  BY DEF IInv, VariantOK
<1>17. FetchOK'
  BY DEF IInv, FetchOK
<1> QED
  BY <1>10, <1>11, <1>12, <1>13, <1>14, <1>15, <1>16, <1>17, Types DEF IInv

-----------------------------------------------------------------------------
(* The theorems *)

LEMMA InitInv == ASSUME SessionAssumption, Init PROVE IInv
<1> USE DEF Init, SessionAssumption
<1>1. ServiceType /\ CallType
  BY DEF ServiceType, CallType, TicketType, LogType, AccessClass
<1>2. status \in StatusType /\ page \in PageType /\ link \in LinkType /\ gate \in GateType
  BY DEF StatusType, PageType, LinkType, GateType, NoPage, Page
<1>3. ClientType
  <2>1. failures \in 0 .. MaxFailures /\ unusable \in Nat /\ transfers \in Nat
    OBVIOUS
  <2>2. impatient \in BOOLEAN /\ outcome \in Outcome \cup {"none"} /\ pc = "join"
    OBVIOUS
  <2> QED BY <1>2, <2>1, <2>2 DEF ClientType
<1>4. CallOK /\ PageOK /\ CompletesOK /\ EstimatesOK
  BY DEF CallOK, PageOK, CompletesOK, EstimatesOK, NoPage, Page
<1>5. FailuresOK /\ VariantOK /\ FetchOK
  BY DEF FailuresOK, VariantOK, FetchOK, NoPage, Page
<1> QED BY <1>1, <1>3, <1>4, <1>5, Types DEF IInv

LEMMA StutterKeepsInv == ASSUME IInv, UNCHANGED vars PROVE IInv'
<1> USE DEF vars, serviceVars, callVars, linkVars
<1>1. TypeOK'
  BY DEF IInv, TypeOK
<1>2. CallOK' /\ PageOK' /\ CompletesOK' /\ EstimatesOK'
  BY DEF IInv, CallOK, PageOK, CompletesOK, EstimatesOK
<1>3. FailuresOK' /\ VariantOK' /\ FetchOK'
  BY DEF IInv, FailuresOK, VariantOK, FetchOK
<1> QED BY <1>1, <1>2, <1>3 DEF IInv

LEMMA NextKeepsInv == ASSUME SessionAssumption, IInv, [Next]_vars PROVE IInv'
<1>1. CASE Client
  BY <1>1, JoinKeepsInv, JoinFailsKeepsInv, ProbeKeepsInv, GiveUpKeepsInv, PollFailsKeepsInv,
     PollUnknownKeepsInv, PollAnsweredKeepsInv, ReprobeKeepsInv, SendEstimateKeepsInv,
     EstimateReturnsKeepsInv, ActKeepsInv, FetchDocumentKeepsInv, FetchResourcesKeepsInv,
     ReportCompleteKeepsInv, ReportReturnsKeepsInv DEF Client, Poll, Transfer
<1>2. CASE Service
  BY <1>2, HandleCallKeepsInv, HandleLateKeepsInv, AdmitKeepsInv, WindowElapsesKeepsInv,
     SweepKeepsInv, TicketLostKeepsInv DEF Service
<1>3. CASE PatienceEnds \/ ProbeAges
  BY <1>3, PatienceEndsKeepsInv, ProbeAgesKeepsInv
<1>4. CASE Ended \/ UNCHANGED vars
  BY <1>4, StutterKeepsInv DEF Ended
<1> QED BY <1>1, <1>2, <1>3, <1>4 DEF Next

LEMMA InvHolds == Spec => []IInv
<1>1. Init => IInv
  BY SessionAssumption, InitInv
<1>2. IInv /\ [Next]_vars => IInv'
  BY SessionAssumption, NextKeepsInv
<1> QED BY <1>1, <1>2, PTL DEF Spec

\* However calls are lost or late, the client's variables, the ticket and the log
\* keep their types: it probes twice at most, and stops counting failures at
\* MaxFailures.
THEOREM SessionTypeCorrect == Spec => []TypeOK
<1>1. IInv => TypeOK
  BY DEF IInv
<1> QED BY <1>1, InvHolds, PTL

\* The log of a valid run has a COMPLETE for exactly the sessions that completed,
\* whatever became of their reports.
THEOREM LogAgreesWithClients == Spec => []LogAgrees
<1>1. IInv => LogAgrees
  BY DEF IInv, CompletesOK, LogAgrees, INVALIDATING_OUTCOMES
<1> QED BY <1>1, InvHolds, PTL

\* One estimate at most reaches the service, however often its call is lost.
THEOREM EstimateOnce == Spec => []OneEstimate
<1>1. ASSUME IInv PROVE OneEstimate
  <2>1. log.estimates <= 1
    BY <1>1 DEF IInv, EstimatesOK
  <2> DEFINE sent == {r \in late \cup {call} : r.kind = "estimate"}
  <2>2. \A r, q \in sent : r = q
    BY <1>1 DEF IInv, CallOK, EstimatesOK, IsEstimate, NoCall
  <2>3. CASE sent = {}
    BY <2>1, <2>3, FS_EmptySet DEF OneEstimate
  <2>4. CASE sent # {}
    <3>1. PICK r : sent = {r}
      BY <2>2, <2>4
    <3>2. Cardinality(sent) = 1
      BY <3>1, FS_Singleton
    <3> QED BY <2>1, <3>2 DEF OneEstimate
  <2> QED BY <2>3, <2>4
<1>2. IInv => OneEstimate
  BY <1>1
<1> QED BY <1>2, InvHolds, PTL

\* A client blames the service after MaxFailures unusable polls in a row, and only
\* then.
THEOREM BlameIsDeserved == Spec => []BlamesRightly
<1>1. IInv => BlamesRightly
  BY SessionAssumption DEF IInv, TypeOK, FailuresOK, BlamesRightly, SessionAssumption
<1> QED BY <1>1, InvHolds, PTL

\* Only aaac adapts the page.
THEOREM ControlsServeFullPages == Spec => []FullPageUnlessAdapted
<1>1. IInv => FullPageUnlessAdapted
  BY DEF IInv, VariantOK, FullPageUnlessAdapted
<1> QED BY <1>1, InvHolds, PTL

\* A page is whole only when its last part came within the window of its token and
\* within the client's patience.
THEOREM PagesComeInTime == Spec => DeliveredInTime
<1> DEFINE InTime == page'.ok /\ ~page.ok => status.token.att \in live /\ ~impatient
<1>1. ASSUME IInv, Next PROVE InTime
  <2>1. CASE FetchDocument
    <3>1. status.token \in Tokens
      BY <1>1, <2>1 DEF IInv, TypeOK, FetchOK, FetchDocument
    <3>2. ~page'.ok
      BY <2>1, <3>1, PageFacts DEF FetchDocument
    <3> QED BY <3>2
  <2>2. CASE FetchResources
    <3>1. PICK ok \in BOOLEAN : page' = [page EXCEPT !.ok = ok /\ ~Over]
      BY <2>2 DEF FetchResources
    <3>2. page'.ok = (ok /\ ~Over)
      BY <1>1, <3>1 DEF IInv, TypeOK
    <3> QED BY <3>2 DEF Over
  <2>3. CASE ~FetchDocument /\ ~FetchResources
    <3>1. page' = page
      BY <1>1, <2>3 DEF Next, Client, Service, Poll, Transfer, Join, JoinFails, Probe, GiveUp,
         PollFails, PollUnknown, PollAnswered, Reprobe, SendEstimate, EstimateReturns, Act,
         ReportComplete, ReportReturns, HandleCall, HandleLate, Admit, WindowElapses, Sweep,
         TicketLost, PatienceEnds, ProbeAges, Ended, vars, clientVars
    <3> QED BY <3>1
  <2> QED BY <2>1, <2>2, <2>3
<1>2. IInv /\ [Next]_vars => [InTime]_vars
  BY <1>1
<1> QED BY <1>2, InvHolds, PTL DEF Spec, DeliveredInTime
=============================================================================

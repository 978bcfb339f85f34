------------------------------- MODULE Metrics -------------------------------
(***************************************************************************)
(* aaac.evaluation.metrics over aaac.evaluation.events: what one run's log *)
(* says of its tickets.  A log is [modes, tickets]: the modes its lines    *)
(* name, and per ticket the sequence of its records in the order of their  *)
(* time stamps.  A count of tickets is kept as the set of those counted,   *)
(* and times, bytes and their quantiles are left out: the service logs no  *)
(* bytes but those of a completion (0 with ADMIT, none with TIMEOUT), so   *)
(* goodput is 1 wherever it is defined and only its warning can differ.    *)
(***************************************************************************)
EXTENDS AccessClasses, Sequences, FiniteSets

TicketEvents == {"JOIN", "ADMIT", "COMPLETE", "TIMEOUT", "REQUEUE"}

\* How often e is in the trace s of a ticket.
Times(s, e) == Cardinality({i \in DOMAIN s : s[i] = e})

\* Mutant: an admission counts as a completion.
trace_of_admitted(s) ==
    [joined       |-> Times(s, "JOIN") > 0,
     completed_ok |-> Times(s, "COMPLETE") > 0 \/ Times(s, "ADMIT") > 0,
     admits       |-> Times(s, "ADMIT"),
     timeouts     |-> Times(s, "TIMEOUT"),
     requeues     |-> Times(s, "REQUEUE")]

\* TicketTrace.  A COMPLETE has no "ok" and counts as successful, and a TIMEOUT
\* has no "bytes", so timeouts is timeouts_without_bytes as well.
trace_of(s) ==
    [joined       |-> Times(s, "JOIN") > 0,
     completed_ok |-> Times(s, "COMPLETE") > 0,
     admits       |-> Times(s, "ADMIT"),
     timeouts     |-> Times(s, "TIMEOUT"),
     requeues     |-> Times(s, "REQUEUE")]

\* by_ticket: a ticket is seen if it has a line.
build_traces(log) ==
    [t \in {u \in DOMAIN log.tickets : log.tickets[u] # << >>} |-> trace_of(log.tickets[t])]

class_metrics(traces, members) ==
    [joined    |-> members,
     completed |-> {t \in members : traces[t].completed_ok},
     censored  |-> {t \in members : ~traces[t].completed_ok}]

\* RunMetrics.  Who has no JOIN is left out and reported as such; delta is
\* undefined unless both ends of the scale have joined; attempts are the ADMITs
\* of the completers; upper_bound is the warning that bytes were burned unseen.
compute(log, true_class) ==
    LET traces == build_traces(log)
        usable == {t \in DOMAIN traces : traces[t].joined}
        per_class == [c \in AccessClass |->
                         class_metrics(traces, {t \in usable : true_class[t] = c})]
        overall == class_metrics(traces, usable)
    IN  [no_join       |-> DOMAIN traces \ usable,
         overall       |-> overall,
         per_class     |-> per_class,
         delta_defined |-> per_class[HIGH].joined # {} /\ per_class[LOW].joined # {},
         attempts      |-> [t \in overall.completed |-> traces[t].admits],
         upper_bound   |-> \E t \in usable : traces[t].timeouts > 0]

\* EventLog.single_mode: the mode of a run, or LogIntegrityError.
is_single_mode(log) == Cardinality(log.modes) = 1
=============================================================================

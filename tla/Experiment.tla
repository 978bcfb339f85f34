----------------------------- MODULE Experiment -----------------------------
(***************************************************************************)
(* aaac.evaluation.experiment and loadgen: run_matrix with ComposeRunner,  *)
(* which drives one run after the other against one compose stack, and     *)
(* what is computed from the log that the admission service is writing     *)
(* meanwhile.  A matrix that fails may be started again.                   *)
(*                                                                         *)
(* The admission service is reduced to what reaches Redis and the log:     *)
(* Admission and EventLog have its detail.  A ticket is <<launch,          *)
(* client>>, which launch of the load the client joined in and its index;  *)
(* Redis keeps the tickets of each run id apart.                           *)
(***************************************************************************)
EXTENDS Metrics, Population

CONSTANTS
    Matrix,           \* the [seed, mode] of the runs in their order
    LoadSizes,        \* the n_clients that run.yaml may say
    GeneratedSizes,   \* bound: those a population is generated for
    LaunchBound,      \* bound: how often load is launched; beyond it FLUSHALL fails
    TimeoutBound      \* bound: the TIMEOUTs in the logs

ASSUME MatrixAssumption ==
    /\ Matrix \in Seq([seed : Nat, mode : {"none", "baseline", "aaac"}]) /\ Matrix # << >>
    /\ \A i, j \in DOMAIN Matrix : Matrix[i] = Matrix[j] => i = j
ASSUME LoadAssumption ==
    /\ LoadSizes \subseteq Nat \ {0} /\ LoadSizes # {} /\ IsFiniteSet(LoadSizes)
    /\ GeneratedSizes \subseteq LoadSizes /\ GeneratedSizes # {} /\ LaunchBound \in Nat /\ TimeoutBound \in Nat

VARIABLES
    driver,       \* run_matrix: where it is, in which run and launch, with which
                  \* n_clients, and the load generator it waits for
    populations,  \* population-{seed}.json: its n_clients, 0 if there is none
    config,       \* the run that configs/run.yaml describes
    admission,    \* the admission container and its logger's buffer
    tickets,      \* Redis: per run id and ticket, its state
    handling,     \* the tickets in the middle of handle_timeout
    files,        \* events-{run_id}.jsonl
    load,         \* per class: its load generator
    session,      \* per client: its run_client, or the outcome of it
    timeouts,     \* how many there were, for TimeoutBound
    drove,        \* per launch: the n_clients of the population it replayed
    records       \* the records of run_matrix

stack == <<config, admission, tickets, handling, timeouts, files>>
crowd == <<load, session>>
vars == <<driver, populations, stack, crowd, drove, records>>

RunIds == {Matrix[i] : i \in DOMAIN Matrix}
NoRun == [seed |-> -1, mode |-> "none"]
Seeds == {r.seed : r \in RunIds}
Clients == 0 .. (CHOOSE n \in GeneratedSizes : \A m \in GeneratedSizes : m <= n) - 1
Tickets == (1 .. LaunchBound) \X Clients

Log == [modes : SUBSET {"none", "baseline", "aaac"}, tickets : [Tickets -> Seq(TicketEvents)]]
NoLines == [t \in Tickets |-> << >>]

Outcomes == {"COMPLETED", "COMPLETED_UNREPORTED",
             "ABANDONED"}   \* or any other that reports nothing

Counted == [joined : SUBSET Tickets, completed : SUBSET Tickets, censored : SUBSET Tickets]

RunRecord == [run : RunIds, n : LoadSizes, joined : SUBSET Tickets, completed : SUBSET Tickets,
              attempts : [Tickets -> Nat],
              delta_defined : BOOLEAN, upper_bound : BOOLEAN]

TypeOK ==
    /\ driver \in [pc : {"idle", "population", "configure", "up", "wait", "flush", "launch",
                         "load", "read"},
                   launch : 0 .. LaunchBound, run : DOMAIN Matrix, n : LoadSizes,
                   waits_for : AccessClass]
    /\ populations \in [Seeds -> LoadSizes \cup {0}]
    /\ config \in RunIds \cup {NoRun}
    /\ admission \in [run : RunIds \cup {NoRun}, mode : {"none", "baseline", "aaac"},
                      serving : BOOLEAN, buffer : [Tickets -> Seq(TicketEvents)]]
    /\ tickets \in [RunIds -> [Tickets -> {"NONE", "WAITING", "ADMITTED", "COMPLETED", "GHOST"}]]
    /\ handling \subseteq Tickets /\ timeouts \in 0 .. TimeoutBound
    /\ files \in [RunIds -> Log]
    /\ load \in [AccessClass -> {"none", "running", "ok", "failed"}]
    /\ session \in [Clients -> {"scheduled", "polling", "fetching"} \cup Outcomes]
    /\ drove \in [1 .. LaunchBound -> LoadSizes \cup {0}]
    /\ records \in Seq(RunRecord)

Init ==
    /\ driver = [pc |-> "idle", launch |-> 0, run |-> 1, n |-> CHOOSE n \in LoadSizes : TRUE,
                 waits_for |-> HIGH]
    /\ populations = [s \in Seeds |-> 0]
    /\ config = NoRun
    /\ admission = [run |-> NoRun, mode |-> "none", serving |-> FALSE, buffer |-> NoLines]
    /\ tickets = [r \in RunIds |-> [t \in Tickets |-> "NONE"]]
    /\ handling = {} /\ timeouts = 0
    /\ files = [r \in RunIds |-> [modes |-> {}, tickets |-> NoLines]]
    /\ load = [c \in AccessClass |-> "none"]
    /\ session = [i \in Clients |-> "scheduled"]
    /\ drove = [l \in 1 .. LaunchBound |-> 0]
    /\ records = << >>
-----------------------------------------------------------------------------
(* run_matrix up to the load *)

Run == Matrix[driver.run]

\* An exception that leaves run_matrix: its records are gone with it.
Fail ==
    /\ driver' = [driver EXCEPT !.pc = "idle"]
    /\ records' = << >>

Goto(pc) == driver' = [driver EXCEPT !.pc = pc] /\ UNCHANGED records

\* main; again, if it failed.
Start ==
    /\ driver.pc = "idle" /\ records = << >>
    /\ driver.launch < LaunchBound
    /\ \E n \in IF populations[Matrix[1].seed] = 0 THEN GeneratedSizes ELSE LoadSizes :
          driver' = [driver EXCEPT !.pc = "population", !.run = 1, !.n = n]
    /\ UNCHANGED <<populations, stack, crowd, drove, records>>

\* Mutant: a population of another size is generated anew.
ensure_population_anew ==
    /\ driver.pc = "population"
    /\ populations' = [populations EXCEPT ![Run.seed] = driver.n]
    /\ Goto("configure")
    /\ UNCHANGED <<stack, crowd, drove>>

\* Generated once, and refused if run.yaml has changed since.
ensure_population ==
    /\ driver.pc = "population"
    /\ IF populations[Run.seed] \in {0, driver.n}
       THEN /\ populations' = [populations EXCEPT ![Run.seed] = driver.n]
            /\ Goto("configure")
       ELSE Fail /\ UNCHANGED populations
    /\ UNCHANGED <<stack, crowd, drove>>

WriteConfig ==
    /\ driver.pc = "configure"
    /\ config' = Run
    /\ Goto("up")
    /\ UNCHANGED <<populations, admission, tickets, handling, timeouts, files, crowd, drove>>

\* Mutant: "restart", which keeps AAAC_RUN_ID.
RestartServices ==
    /\ driver.pc = "up"
    /\ admission' = [run |-> IF admission.run = NoRun THEN Run ELSE admission.run,
                     mode |-> config.mode, serving |-> FALSE, buffer |-> NoLines]
    /\ handling' = {}
    /\ Goto("wait")
    /\ UNCHANGED <<populations, config, tickets, timeouts, files, crowd, drove>>

\* docker compose up --force-recreate: the old container has closed its log (see
\* StoreLine) or is killed before it has; the new one has the id of this run and
\* reads its mode from run.yaml.
RecreateServices ==
    /\ driver.pc = "up"
    /\ admission' = [run |-> Run, mode |-> config.mode, serving |-> FALSE, buffer |-> NoLines]
    /\ handling' = {}
    /\ Goto("wait")
    /\ UNCHANGED <<populations, config, tickets, timeouts, files, crowd, drove>>

UpFails ==
    /\ driver.pc = "up"
    /\ Fail
    /\ UNCHANGED <<populations, stack, crowd, drove>>

\* Mutant: no deadline.
wait_for_admission_forever ==
    /\ driver.pc = "wait"
    /\ admission.serving /\ Goto("flush")
    /\ UNCHANGED <<populations, stack, crowd, drove>>

\* Until the snapshot answers, or the deadline.
wait_for_admission ==
    /\ driver.pc = "wait"
    /\ \/ admission.serving /\ Goto("flush")
       \/ ~admission.serving /\ Fail
    /\ UNCHANGED <<populations, stack, crowd, drove>>

\* Mutant: the stale tickets stay.
FlushNothing ==
    /\ driver.pc = "flush"
    /\ Goto("launch")
    /\ UNCHANGED <<populations, stack, crowd, drove>>

FlushAll ==
    /\ driver.pc = "flush"
    /\ \/ /\ driver.launch < LaunchBound
          /\ tickets' = [r \in RunIds |-> [t \in Tickets |-> "NONE"]]
          /\ Goto("launch")
       \/ Fail /\ UNCHANGED tickets
    /\ UNCHANGED <<populations, config, admission, handling, timeouts, files, crowd, drove>>
-----------------------------------------------------------------------------
(* The load *)

Population == 0 .. populations[Run.seed] - 1
by_class(c) == {i \in Population : label(populations[Run.seed], i) = c}

Launch ==
    /\ driver.pc = "launch"
    /\ load' = [c \in AccessClass |-> "running"]
    /\ session' = [i \in Clients |-> "scheduled"]
    /\ drove' = [drove EXCEPT ![driver.launch + 1] = populations[Run.seed]]
    /\ driver' = [driver EXCEPT !.pc = "load", !.launch = @ + 1, !.waits_for = HIGH]
    /\ UNCHANGED <<populations, stack, records>>

\* p.wait() in the order of the classes.
AwaitGenerator ==
    /\ driver.pc = "load" /\ load[driver.waits_for] = "ok"
    /\ driver' = IF driver.waits_for = LOW THEN [driver EXCEPT !.pc = "read"]
                 ELSE [driver EXCEPT !.waits_for = @ + 1]
    /\ UNCHANGED <<populations, stack, crowd, drove, records>>

\* Mutant: without the "finally".
LoadFailsUncleaned ==
    /\ driver.pc = "load" /\ load[driver.waits_for] = "failed"
    /\ Fail
    /\ UNCHANGED <<populations, stack, crowd, drove>>

\* A return code that is not 0: the others are killed, and waited for.
LoadFails ==
    /\ driver.pc = "load" /\ load[driver.waits_for] = "failed"
    /\ Fail
    /\ load' = [c \in AccessClass |-> "none"]
    /\ session' = [i \in Clients |-> "scheduled"]
    /\ UNCHANGED <<populations, stack, drove>>

\* run_population: gather has returned.  How a generator ended shows only when
\* it is waited for, so it is settled then.
GeneratorEnds(c) ==
    /\ load[c] = "running" /\ driver.waits_for = c
    /\ \A i \in by_class(c) : session[i] \in Outcomes
    /\ load' = [load EXCEPT ![c] = "ok"]
    /\ UNCHANGED <<driver, populations, stack, session, drove, records>>

GeneratorFails(c) ==
    /\ load[c] = "running" /\ driver.waits_for = c
    /\ load' = [load EXCEPT ![c] = "failed"]
    /\ UNCHANGED <<driver, populations, stack, session, drove, records>>

Logged(t, e) == admission' = [admission EXCEPT !.buffer[t] = Append(@, e)]

Ticket(i) == <<driver.launch, i>>

Runs(i) ==
    /\ i \in Population
    /\ load[label(populations[Run.seed], i)] = "running"

\* _drive_one, at its arrival and when the semaphore lets it: run_client joins,
\* or finds no service.
Join(i) ==
    /\ Runs(i) /\ session[i] = "scheduled"
    /\ \/ /\ session' = [session EXCEPT ![i] = "polling"]
          /\ tickets' = [tickets EXCEPT ![admission.run][Ticket(i)] = "WAITING"]
          /\ Logged(Ticket(i), "JOIN")
       \/ /\ session' = [session EXCEPT ![i] = "ABANDONED"]
          /\ UNCHANGED <<tickets, admission>>
    /\ UNCHANGED <<driver, populations, config, handling, timeouts, files, load, drove, records>>

Fetch(i) ==
    /\ Runs(i) /\ session[i] = "polling"
    /\ tickets[admission.run][Ticket(i)] = "ADMITTED"
    /\ session' = [session EXCEPT ![i] = "fetching"]
    /\ UNCHANGED <<driver, populations, stack, load, drove, records>>

\* The report of a transfer arrives, whatever has become of the ticket ...
Complete(i) ==
    /\ Runs(i) /\ session[i] = "fetching"
    /\ session' = [session EXCEPT ![i] = "COMPLETED"]
    /\ tickets' = [tickets EXCEPT ![admission.run][Ticket(i)] = "COMPLETED"]
    /\ Logged(Ticket(i), "COMPLETE")
    /\ UNCHANGED <<driver, populations, config, handling, timeouts, files, load, drove, records>>

\* ... or is lost.
Unreported(i) ==
    /\ Runs(i) /\ session[i] = "fetching"
    /\ session' = [session EXCEPT ![i] = "COMPLETED_UNREPORTED"]
    /\ UNCHANGED <<driver, populations, stack, load, drove, records>>

GiveUp(i) ==
    /\ Runs(i) /\ session[i] = "polling"
    /\ session' = [session EXCEPT ![i] = "ABANDONED"]
    /\ UNCHANGED <<driver, populations, stack, load, drove, records>>
-----------------------------------------------------------------------------
(* The admission service *)

\* TIMEOUT, and what follows after the log has been awaited.
TimedOut(t) ==
    /\ t \notin handling
    /\ timeouts < TimeoutBound /\ timeouts' = timeouts + 1
    /\ handling' = handling \cup {t}
    /\ Logged(t, "TIMEOUT")

\* The transfer failed, the client says so and polls again.
FetchFails(i) ==
    /\ Runs(i) /\ session[i] = "fetching"
    /\ tickets[admission.run][Ticket(i)] # "NONE"
    /\ TimedOut(Ticket(i))
    /\ session' = [session EXCEPT ![i] = "polling"]
    /\ UNCHANGED <<driver, populations, config, tickets, files, load, drove, records>>

Serve ==
    /\ admission.run # NoRun /\ ~admission.serving
    /\ admission' = [admission EXCEPT !.serving = TRUE]
    /\ UNCHANGED <<driver, populations, config, tickets, handling, timeouts, files, crowd, drove, records>>

\* A tick admits, also before the service answers and after the load has ended.
Admit(t) ==
    /\ admission.run # NoRun
    /\ tickets[admission.run][t] = "WAITING"
    /\ tickets' = [tickets EXCEPT ![admission.run][t] = "ADMITTED"]
    /\ Logged(t, "ADMIT")
    /\ UNCHANGED <<driver, populations, config, handling, timeouts, files, crowd, drove, records>>

Expire(t) ==
    /\ admission.run # NoRun
    /\ tickets[admission.run][t] = "ADMITTED"
    /\ TimedOut(t)
    /\ UNCHANGED <<driver, populations, config, tickets, files, crowd, drove, records>>

\* reinsert: after FLUSHALL it leaves a hash without join_seq, and the tick
\* that reads it dies before it logs.
Requeue(t) ==
    /\ t \in handling
    /\ handling' = handling \ {t}
    /\ tickets' = [tickets EXCEPT ![admission.run][t] = IF @ \in {"NONE", "GHOST"} THEN "GHOST"
                                                        ELSE "WAITING"]
    /\ Logged(t, "REQUEUE")
    /\ UNCHANGED <<driver, populations, config, timeouts, files, crowd, drove, records>>

\* Mutant: the file is opened with "w".
StoreLineAnew(t) ==
    /\ admission.run # NoRun /\ driver.pc \in {"idle", "up", "read"}
    /\ admission.buffer[t] # << >>
    /\ files' = [files EXCEPT ![admission.run] =
            [modes |-> {admission.mode},
             tickets |-> [NoLines EXCEPT ![t] = admission.buffer[t]]]]
    /\ admission' = [admission EXCEPT !.buffer[t] = << >>]
    /\ UNCHANGED <<driver, populations, config, tickets, handling, timeouts, crowd, drove, records>>

\* The logger's timer, which has CONTROL records to store after every tick.  What
\* is in the file and what in the buffer shows only when the file is read or the
\* service recreated, so it is settled then, line by line.
StoreLine(t) ==
    /\ admission.run # NoRun /\ driver.pc \in {"idle", "up", "read"}
    /\ admission.buffer[t] # << >>
    /\ files' = [files EXCEPT ![admission.run].modes = @ \cup {admission.mode},
                             ![admission.run].tickets[t] = Append(@, Head(admission.buffer[t]))]
    /\ admission' = [admission EXCEPT !.buffer[t] = Tail(@)]
    /\ UNCHANGED <<driver, populations, config, timeouts, tickets, handling, crowd, drove, records>>

StoreControl ==
    /\ admission.run # NoRun /\ driver.pc \in {"idle", "up", "read"}
    /\ admission.mode \notin files[admission.run].modes
    /\ files' = [files EXCEPT ![admission.run].modes = @ \cup {admission.mode}]
    /\ UNCHANGED <<driver, populations, config, timeouts, admission, tickets, handling, crowd, drove, records>>
-----------------------------------------------------------------------------
(* What is read of its log *)

RecordOf(r, log) ==
    LET n == populations[r.seed]
        metrics == compute(log, [t \in Tickets |-> label(n, t[2])])
    IN  [run |-> r, n |-> n,
         joined |-> metrics.overall.joined, completed |-> metrics.overall.completed,
         attempts |-> [t \in Tickets |->
                         IF t \in metrics.overall.completed THEN metrics.attempts[t] ELSE 0],
         delta_defined |-> metrics.delta_defined, upper_bound |-> metrics.upper_bound]

\* EventLog.read, single_mode, compute: of what is in the file by now, unless a
\* line is being written; then the next run, or the end of run_matrix.
Read ==
    /\ driver.pc = "read"
    /\ \/ /\ is_single_mode(files[Run])
          /\ records' = Append(records, RecordOf(Run, files[Run]))
          /\ driver' = IF driver.run = Len(Matrix) THEN [driver EXCEPT !.pc = "idle"]
                       ELSE [driver EXCEPT !.run = @ + 1,
                                !.pc = IF Matrix[driver.run + 1].seed = Run.seed
                                       THEN "configure" ELSE "population"]
       \/ Fail
    /\ load' = [c \in AccessClass |-> "none"]
    /\ session' = [i \in Clients |-> "scheduled"]
    /\ UNCHANGED <<populations, stack, drove>>

\* load_matrix, later, of whichever runs it is asked for and finds.
is_there(r) == populations[r.seed] # 0 /\ is_single_mode(files[r])
load_record(r) == RecordOf(r, files[r])
-----------------------------------------------------------------------------
Prepare ==
    \/ ensure_population \/ WriteConfig \/ RecreateServices \/ UpFails
    \/ wait_for_admission \/ FlushAll
Drive == Prepare \/ Launch \/ AwaitGenerator \/ LoadFails \/ Read

Generator(c) == GeneratorEnds(c) \/ GeneratorFails(c)
Client(i) ==
    \/ Join(i) \/ Fetch(i) \/ Complete(i) \/ Unreported(i) \/ FetchFails(i) \/ GiveUp(i)
Service ==
    \/ Serve \/ StoreControl
    \/ \E t \in Tickets : Admit(t) \/ Expire(t) \/ Requeue(t) \/ StoreLine(t)

Next ==
    \/ Start \/ Drive
    \/ \E c \in AccessClass : Generator(c)
    \/ \E i \in Clients : Client(i)
    \/ Service

Spec == Init /\ [][Next]_vars

\* The driver goes on; a client that has its turn joins and ends, by its
\* patience if nothing else; a generator ends with its clients.  Nothing is
\* asked of the service.
Fairness ==
    /\ WF_driver(Drive)
    /\ WF_load(\E c \in AccessClass : GeneratorEnds(c))
    /\ \A i \in Clients : WF_session(Join(i) \/ Complete(i) \/ Unreported(i) \/ GiveUp(i))

FairSpec == Spec /\ Fairness
-----------------------------------------------------------------------------
(* What makes a result one *)

\* Two modes in one log "would silently mix conditions": no run's records land
\* in the log of another, whichever run failed or was started again.
OneModePerLog == \A r \in RunIds : files[r].modes \subseteq {r.mode}

\* No load generator outlives the run it belongs to.
NoLoadLeftBehind ==
    \A c \in AccessClass : load[c] = "running" => driver.pc = "load"

\* The tickets an aborted attempt left in Redis are not served during the load:
\* their records would land in this run's log.
OnlyOwnTicketsServed ==
    driver.pc \in {"load", "read"} =>
        \A t \in Tickets : t[1] # driver.launch => tickets[Run][t] \in {"NONE", "GHOST"}

\* All that is counted of a seed, by run_matrix or later by load_matrix, was
\* driven by the population recorded with it.
SameLoad ==
    LET IsOfItsLoad(record) == \A t \in record.joined : drove[t[1]] = record.n IN
    /\ \A i \in DOMAIN records : IsOfItsLoad(records[i])
    /\ driver.pc = "idle" => \A r \in RunIds : is_there(r) => IsOfItsLoad(load_record(r))

\* Reading the logs again may find completions that were still in the service's
\* buffer, and misses none.
RereadSeesMore ==
    driver.pc = "idle" =>
        \A i \in DOMAIN records : LET r == records[i].run IN
            is_there(r) /\ records[i].completed \subseteq load_record(r).completed

\* Of this attempt's clients, a record counts those as completers that saw their
\* transfer accepted, each with at least the one admission it needs.
CompletersDidComplete ==
    [][\A i \in DOMAIN records' : i \notin DOMAIN records =>
          \A t \in records'[i].completed :
              /\ t[1] = driver.launch => session[t[2]] = "COMPLETED"
              /\ records'[i].attempts[t] >= 1]_vars

\* Whatever the services do, an attempt at the matrix ends.
MatrixEnds == driver.pc # "idle" ~> driver.pc = "idle"

\* "A per-run id gives M3 a clean file per run that never needs filtering": a
\* record counts the tickets of the run it is a record of.  (Violated: the log
\* of a run that is started again is appended to.)
CountsOwnTickets ==
    [][\A i \in DOMAIN records' : i \notin DOMAIN records =>
          \A t \in records'[i].joined : t[1] = driver.launch]_vars
=============================================================================

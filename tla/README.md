# AAAC in TLA+

AAAC is an admission service for a web portal that opens to a crowd all at once: clients join a
queue, are classified by the quality of their link, get a time window and a payload that fit the
link, and are queued again when they miss the window. This directory holds TLA+ models of its
components, TLC configurations that check them on small instances, and TLAPS proofs of the
properties that matter most for instances of every size.

Paths below are relative to the repository.

## 1. The system

| component | state it keeps | operations | talks to |
|---|---|---|---|
| Queue store (`src/aaac/admission/store.py`) | in Redis: the counter `seq`, the sorted sets `waiting` (score: join number) and `inflight` (score: `expires_at`), one hash per ticket, per-class counters; or the same in Python containers (`InMemoryQueueStore`) | `next_seq`, `create_ticket`, `admit_n`, `reinsert`, `update_class`, `expire_inflight`, `complete`, and reads | called by the API, the re-queue policy, the controller |
| Admission API (`api.py`) | none of its own | `join`, `estimate`, `status`, `complete`, `admin` | store, event log, tokens, re-queue policy |
| Re-queue policy C4 (`requeue.py`) | none | `handle_timeout`: downgrade, new or old score, re-insert | store, event log; called by the sweep *and* by `complete` |
| Controller C5 (`controller.py`, `window.py`) | `alpha`, `mu_hat`, the completions since the last tick | one `_tick` after another: health poll, AIMD, `C_max`, admit, sweep | store, origin (health), event log, re-queue policy |
| Event log (`common/events.py`) | a buffer, a flush task, a file | `log`, timer, `close` | every service |
| Tokens (`common/tokens.py`) | a secret | `issue_token`, `verify_token` | API, delivery, origin |
| Client SDK (`src/aaac/client/`) | one ticket, its token, RTT samples, its patience | `run_client`: join, poll, estimate once, fetch, report | API, delivery |
| Delivery (`src/aaac/delivery/`) | none | `probe`, `result`, `static`: pick the variant from the token, fetch the record | origin |
| Origin (`src/aaac/origin/`) | requests in service, a health ring, samples of both | a bounded number of slow requests; health; sampling | controller (health), event log |
| Estimator (`src/aaac/estimator/`) | a cached model bundle | `classify` with a ladder of fallbacks | client |
| Load and experiments (`src/aaac/evaluation/experiment.py`, `loadgen.py`) | the matrix of runs, populations on disk, three load generators, the records | `run_matrix` with `ComposeRunner`: configure, recreate, flush, launch, read; `load_matrix` | the compose stack, the clients, the event log |
| Metrics (`src/aaac/evaluation/metrics.py`) | none | traces of tickets rebuilt from the log; who joined, completed, is censored | event log |
| Statistics, plots, falsification, testbed | none | offline | records |
| Dashboard (`src/aaac/dashboard/`) | a browser page | draws the SSE stream | API |

The admission service is one process with one asyncio loop. Between two `await`s a coroutine runs
alone; at each `await` (a store call, an event record, the health poll) any other coroutine may run.
Each store call is atomic in Redis: a Lua script, or a `MULTI/EXEC` pipeline. All the difficulty is
in sequences of several store calls:

* a handler reads a ticket, awaits, and writes what it concluded from the read;
* `handle_timeout` is run by the sweep and by the client's failure report, for the same attempt;
* a success report may arrive after the ticket was queued again;
* a tick uses one `now` and two counts that are stale when it acts on them, and can die half-way.

What makes the parts correct:

* **store and API**: a ticket is in one place at a time and never in none; a slot is held only by an
  admitted ticket; numbers are unique; the counters shown to an operator match the queue;
* **C4**: in `aaac` mode a failure costs no place; a timeout handled twice neither loses a ticket nor
  gives it a place it had not;
* **C5**: an admission stays below `C_max`; a sweep takes only windows that have passed; whatever
  expires is queued again; `alpha` and `C_max` can never stop the queue for good; `alpha` goes where
  the origin's health drives it;
* **event log**: no record is lost or written twice; the log reconciles with the store;
* **client**: one estimate, at most one success in the log, the blame where it belongs, a page in time
  and of the size its mode allows, an outcome for every session;
* **origin**: never more requests in service than the limit, a health window that forgets on time;
* **evaluation**: a log has one mode, no load and no ticket outlives its run, the runs of a seed have the
  same load, who is counted as a completer is one, and the matrix ends.

## 2. Modules

```
AccessClasses <- QueueStore <- Admission <- AdmissionProps <- AdmissionInv <- AdmissionProofs
                                                                   ^
                                                              MCAdmission

AccessClasses <- Delivery <- ClientSession <- SessionProofs
                                   ^
                               MCSession

AccessClasses <- Window <- MemoryQueue <- Controller <- ControllerProofs
                                              ^
                                         MCController

AccessClasses <- Metrics, Population <- Experiment <- ExperimentProofs
                                             ^
                                        MCExperiment

RecordLog <--(refinement)-- EventLog <- EventLogInv <- EventLogProofs
                                             ^
                                        MCEventLog

OriginService <- OriginProofs      HealthRing <- HealthProofs      OriginSink <- OriginSinkProofs
       ^                                ^                              ^
    MCOrigin                       MCHealthRing                   MCOriginSink
```

### Admission

* `AccessClasses`: the classes (0 is the fastest link), `Downgrade`, and C4's rule for the next class.
* `QueueStore`: the Redis keys as variables and each operation of `RedisQueueStore` as an operator on
  them. `waiting` maps a ticket to its score (0: not a member), so a ticket can be in the set once,
  as in Redis. `Lowest(n)` is the set of results `ZPOPMIN n` may have.
* `Admission`: the coroutines. A *frame* per ticket (its client's join or report) and one for the
  controller hold the locals of the coroutine that thread is running; `ctl` holds a tick's locals,
  `est` the one estimate of each client, `client` where the client's `run_client` is. An action is
  one store call together with the code up to the next `await`:

  | action | code |
  |---|---|
  | `JoinSeq`, `JoinCreate`, `JoinAdmit` | `queue_join`: `next_seq`, `create_ticket`, and `admit_n(1)` in `none` mode |
  | `EstimateCheck`, `EstimateUpdate` | `queue_estimate` before and after it awaits the log |
  | `Poll`, `Abandon` | `queue_status` and what the client does with it |
  | `ReportSuccess`, `CompleteOk` | the client's report and `queue_complete` with `ok` |
  | `ReportFailure` | `queue_complete` without `ok`, up to `handle_timeout` |
  | `TimeoutGet`, `TimeoutReseq`, `TimeoutReinsert` | `handle_timeout`, for the sweep and for reports |
  | `TickStart` ... `TickEnd` | `_tick`, one action per await that matters |
  | `WindowElapses` | time passes a ticket's `expires_at` |
  | `TickFails`, `RequestFails` | an exception or a cancellation between two awaits |

* `AdmissionProps`: the properties. `AdmissionInv`: the inductive invariant.
* `AdmissionProofs`: the theorems.

What the model abstracts: time is one bit per admitted ticket (`elapsed`), set at any moment, so
every window and every clock is covered; the values of `C_max` and of `alpha * control_tick_s` are
chosen anew at each tick from a set, which covers every arithmetic that stays in it; event records
are left out (the `await` of a record between a read and a write is kept); `true_class` and the
counters that only count up are left out. `Controller` has the arithmetic of the tick.

### Client and delivery

* `Delivery`: what a token authorises (`issue_token`), when it verifies, and the pages that
  `GET /result` may answer. Nobody forges a signature, so a token is the attempt and the variant it was
  issued with, and it lives as long as the window of its attempt.
* `ClientSession`: `run_client` from join to outcome, with the probe (`link`: RTT samples, probes) and the
  `EstimateGate`. A call of the client is one variable with the service's reply to it. The client may
  stop waiting at any moment (`Hangs`): an unanswered call then goes to `late` and is handled late or
  never, also after calls that were made after it.

  | action | code |
  |---|---|
  | `Join`, `JoinFails` | `POST /queue/join`, whose answer may be lost although the ticket exists |
  | `Probe`, `Reprobe`, `ProbeAges` | `run_probe`, and the second probe after a long wait |
  | `PollFails`, `PollUnknown`, `PollAnswered`, `GiveUp` | a turn of the poll loop |
  | `SendEstimate`, `EstimateReturns` | the gate and `submit_estimate` |
  | `Act` | what the client does with a status |
  | `FetchDocument`, `FetchResources` | `fetch_page` with its deadline, the earlier of window and patience |
  | `ReportComplete`, `ReportReturns` | `POST /queue/complete` and the outcome |
  | `HandleCall`, `HandleLate` | the service's handlers of an estimate and of a report |
  | `Admit`, `WindowElapses`, `Sweep`, `TicketLost` | what the service does with the ticket meanwhile |
  | `PatienceEnds` | `abandon_after_s` |

What the model abstracts: the service is reduced to one ticket and one step per call (`Admission` has the
interleavings inside its handlers); backoff, jitter, sizes and measured values are left out, and what
`classify` makes of a measurement is any class. The history variables `log` and `unusable` are compared
with what the client concludes.

### Controller and the in-memory store

* `Window`: `window_for` and the mean window over the waiting classes, in tenths of a second and in per
  cent of the class mix.
* `MemoryQueue`: `InMemoryQueueStore`. `waiting` is a list of entries sorted by score, in which a ticket
  can stand twice: `reinsert` appends without looking, unlike Redis' sorted set. A ticket admitted
  twice has two entries in flight; `inflight` counts them as open, lapsed (their window has passed) and
  due (passed when the tick took its `now`).
* `Controller`: the service over that store. The store's methods are coroutines that never suspend, so
  a coroutine yields only at the health poll and at `logger.log`, and an action is the code between two of these.

  | action | code |
  |---|---|
  | `Join`, `Poll`, `Abandon`, `ReportSuccess`, `ReportFailure` | the API's handlers with what its client does |
  | `Resume`, `Reinsert` | `handle_timeout` after its TIMEOUT and after its DOWNGRADE record |
  | `TickStart` | `now`, the EWMA `mu_hat`, the health poll goes out |
  | `TickAdmit` | AIMD on the answer, `C_max` with its floor, the allowance, `admit_n` |
  | `TickSweep`, `TickRequeue`, `TickEnd` | `expire_inflight` and `handle_timeout` for each of its entries |
  | `Lapse` | a window passes |

What the model abstracts: floats are integers with a unit of their own (`alpha` in `1 / alpha_unit`,
`mu_hat` in `1 / mu_unit`, rounded up because an EWMA of floats never decays to 0); an attempt stops counting at
`max_attempts`, as nothing asks for more of it; ticks that die and estimates are `Admission`'s subject.

### Evaluation

* `Population`: the split of `n` clients into classes by largest remainder and the class of a client.
* `Metrics`: the trace of a ticket from its log lines and who is joined, completed and censored.
* `Experiment`: `run_matrix` with `ComposeRunner` as the `driver`, the compose stack, the three load
  generators with their clients, and what is read of the log. The driver can fail at every step, and
  `main` may then be started again, with the same populations, logs and ids on disk.

  | action | code |
  |---|---|
  | `Start`, `ensure_population` | `main`, the population of a seed |
  | `WriteConfig`, `RecreateServices`, `UpFails`, `wait_for_admission`, `FlushAll` | `ComposeRunner.prepare` and its failures |
  | `Launch`, `AwaitGenerator`, `LoadFails`, `GeneratorEnds`, `GeneratorFails` | the three `docker compose exec` and their `finally` |
  | `Join`, `Fetch`, `Complete`, `Unreported`, `FetchFails`, `GiveUp` | `_drive_one` and its `run_client` |
  | `Serve`, `Admit`, `Expire`, `Requeue` | the admission service, as far as Redis and the log see it |
  | `StoreLine`, `StoreControl` | the logger's flushes |
  | `Read` | `EventLog.read`, `single_mode`, `compute` |

What the model abstracts: the service's queue is gone (any waiting ticket may be admitted); a ticket is
the launch and the index of its client. Which lines of the buffer are in the file, and how a generator
ended, shows only when somebody looks, so the model settles it then; that keeps the instance small
and loses no behaviour that the driver can see. `FLUSHALL` in the middle of a `handle_timeout` leaves a
hash without `join_seq` (`"GHOST"`).

### Event log

* `EventLog`: `EventLogger` with its buffer, its `asyncio.Lock`, its timer task, and the threads that
  write. A thread is a member of `writes`, with the task that awaits it: cancelling the task leaves
  the thread running (`by = "nobody"`). `Handlers` are request handlers; `Ticker` is the controller's
  task, the only logger that `stop()` cancels in the middle of a `log`. A record is its number in the
  order of appends.

  | action | code |
  |---|---|
  | `Log` | `log` up to its wait for the lock |
  | `AppendToBuffer`, `AppendAndFlush` | `log` under the lock: append, start the timer, or flush a full buffer |
  | `TimerWakes`, `TimerFlushes` | `_flush_timer` after its sleep, and once it has the lock |
  | `StartFlush`, `WriteDone`, `WriteFails`, `Resume` | `_flush_unlocked`: the buffer goes to a thread, the thread ends with or without an error, the task goes on |
  | `Stop`, `Close`, `CloserAwaits`, `CloserFlushes` | the lifespan's shutdown: cancel the controller, cancel and await the timer, flush what is left |

  Every write may fail. `lost` is a history variable: the lines of the writes that did. When the
  timer's own flush fails, its dead task stays in `_flush_task` (`"failed"`) and no other timer is ever
  started: lines then wait for a full buffer, or for `close`, which raises the old error.

* `RecordLog`: what the log promises: every record accepted is stored once, in order while the service
  runs, and without waiting for records that come later (weak fairness of `Store`). `EventLog`
  implements it under the mapping at its end (`KeepsRecordLog`). A failed write is the log's right to
  lose its batch, and the promise of promptness ends with the timer (`broken <- flush_task = "failed"`).

### Origin

* `OriginService`: `GET /origin/result` between the bounded queue and the service slots. The slots are an
  `asyncio.Semaphore` of Python 3.11, which is outside the repository and modelled as it is used:
  `MoveAndWake` is a request's step together with `_wake_up_next`, which hands a free permit to the
  head of the deque. The request woken runs at a later turn of the loop (`"granted"`), and can be
  cancelled before. `Shed`, `Start` and `Queue` are the three ways a request begins; `Resume` and
  `Finish` the return of `acquire()` and the end of the service; `LeaveQueue`, `LeaveGranted` and
  `LeaveService` the cancellations.
* `HealthRing`: `HealthWindow`. Time is the number of the current bucket, a latency the number of its
  histogram bucket. `Current` is `_current`, the reset of a bucket that a new lap reaches;
  `RecordServed`, `RecordRejected`, `RecordAbandoned` the observations; `TimePasses` a pause of any
  length; `WindowStats` and `ErrRate` the reports, with `Live` for `_live_buckets`. `seen` holds all
  observations and belongs to the specification, not to the code: the reports are compared with it.
  The assumption `n_err_buckets < n_buckets` (a second is shorter than the window) holds of the
  defaults; `HealthWindow` does not test it.
* `OriginSink`: `JsonlSink`. `Emit` with its full queue, `Get`, `WriteDone`, `WriteFails` of the drain
  task, and `aclose` as `Close`, `ClosePuts` (waits for room), `CloseEnds`.

The origin's three modules share no variable. `OriginService` decides which of `HealthRing`'s
observations a request makes, and the sampler reads the ring and emits into the sink; neither call
waits or can be refused, so each module is checked under every order of calls.

Operators whose comment says *Mutant* are deliberately wrong variants of the definition after them;
no specification uses them. They exist to show that each property can fail.

## 3. Checks

| run | question | result |
|---|---|---|
| `aaac` | admission in `aaac` mode with estimates, and with ticks and requests that may die half-way: one place, cap, order, timely sweeps | holds |
| `none` | the same in `none` mode, where joins admit too and a re-queue takes a new number, without failures: no ticket is lost, scores are unique | holds |
| `live` | a window that passes ends in a re-queue or a completion | holds |
| `orphan` | what the sweep takes is queued again, failures or not | violated |
| `session` | one client against a service that answers, is late, loses and forgets: log, estimate, blame, page and end | holds |
| `control` | the arithmetic of the tick over the in-memory store: no ticket is lost though it may be queued twice, the head is admitted, `alpha` settles | holds |
| `eventlog` | with writes that fail and a shutdown at any moment: order, a complete closed log, and `EventLog` implements `RecordLog` | holds |
| `origin` | limits, slots, turns, and that whoever waits is served | holds |
| `health` | the reports against the observations of their windows | holds |
| `sink` | every sample is accounted for and closing ends | holds |
| `experiment` | a matrix that fails anywhere and is started again: logs, load, tickets, what is counted, and its end | holds |
| `rerun` | a run counts no tickets but its own | violated |

The type invariants and the inductive invariants are theorems for every instance (section 4), so the
runs check the properties only.

**Bounds of admission.** Two tickets are enough for overtaking, for a double timeout, for a join that
admits the wrong ticket and for a re-queue that moves somebody else; three make the state space too
large for a short run. `AttemptBound = 1` lets each attempt numbered 1 fail in every way and stops
failures after that: a ticket can still reach attempts 2 and 3 by a timeout handled twice.
`max_attempts = 2` puts both sides of the floor in reach. `Caps = {1, 2}` lets `C_max` fall below
what is in flight. Clients may stop at any time, so the two large runs use symmetry over tickets;
the liveness run does not. Deadlock is checked: the controller can always take a step. A run with
`Faults = TRUE` includes the behaviours without failures; what holds only without them (the half of
`NoTicketLost` about `ADMITTED` tickets) is checked in `none` and proved for both modes.

**Bounds of the session.** Both `none` and `aaac` mode start in the same run. `max_attempts = 2` and
`AttemptBound = 2`: a re-queue at the floor and above it. `min_rtt_samples = 2`, so that the estimate is
held back once, and `MaxFailures = 2`, so that a count can be reset on its way. `TransferBound = 2`: a
second transfer while the report of the first is still on its way; after it the client polls no more
and its patience ends the session. `baseline` differs from `aaac` here only in the token, where it is
like `none`.

**Bounds of the controller.** Two tickets, `alpha` in 1..3 and `EntryBound = 3`: while fewer than three entries
are queued or in flight, clients may report failures, so a ticket is queued twice and admitted
twice. A failed share of 70 % cuts 3 to 2 and 2 to 1. `horizon` is two ticks, so that `mu_hat` remembers one
earlier tick; the floor of `C_max` is 1.

**Bounds of the experiment.** Two runs of one seed, `baseline` before `aaac`, so that the second inherits the
stack, the population and Redis from the first. A population is generated for one client (in the
LOW class; the generators of the other two have nobody to start), and `run.yaml` may say two at a second attempt. `LaunchBound = 2`: both runs once, or the first
one twice, or one that fails after its load and a second attempt. `TimeoutBound = 1`: one ticket that
is re-queued, before, during or after its load. A finished matrix stops, as do a failed one that
has used its launches and a log that is all in the file: deadlock is not checked there.

**Bounds of the event log.** A buffer is full at three records instead of a hundred, so that it is
empty, filling and full within `MaxRecords = 6`: two full buffers, or any mixture of full buffers and
timers. Two handlers and the controller give a writer, one that waits for the lock and one that comes
later. Nobody can log once `MaxRecords` are appended, so that a buffer may stay partly filled at the
end: the timer must empty it. The `MaxRecords` bound and the shutdown both end the logging, and the
specification's last disjunct (`Exit`) lets a finished system stand still.

**Bounds of the origin.** Five requests for two slots and two places in the queue: one is shed when
all the others hold a slot or a place, and two wait while two are woken. Three buckets, two of them for
the error rate, and a clock of seven buckets: the ring is reused twice, and a pause may skip a whole
lap. Four observations fill a bucket unevenly against its neighbours; two latencies make the median
and the 99th percentile differ. A sink queue of two and six samples: the queue fills and is drained
three times over, and may be full when the closer wants to put its sentinel.

**Fairness.** In `live`: weak fairness of the controller's tick and of `handle_timeout`. The loop in
`_loop` starts a tick after every tick, and asyncio resumes every coroutine whose await is done; nothing
is assumed of clients, of time, or of joins. In `session`: weak fairness of the client and of its
patience, because every call of the client has a timeout and every sleep an end; nothing of the
service, which may never answer, admit or sweep. In `control`: weak fairness of the tick, of
`handle_timeout` and of time (`Lapse`); nothing of clients, who may all stop reporting. In
`experiment`: weak fairness of the driver, of the generators and of the end of a client; nothing of the services. In
`eventlog`: weak fairness of the timer's sleep, of a
thread, and of the closer's steps; strong fairness of `TimerFlushes`, because the timer waits for an
`asyncio.Lock`, which serves its waiters in turn, and other loggers may take it in between. In
`origin`: weak fairness of a woken request and of the end of a service (`service_s` is a finite draw);
none of arrivals and cancellations. In `sink`: weak fairness of the drain task and of the closer.

**Claims that do not hold.** Two have a run and are listed under `findings` in `PROJECT.json`. `orphan`: a
tick that dies between its sweep and its re-queues leaves tickets `ADMITTED` that no sweep will
find. `rerun`: the id of a run, and so the name of its log, is made of its seed and mode; a matrix that
is started again after a failure appends to the log of the attempt that failed, and counts the tickets in it.

The list of runs is kept short, so the following are stated here without a run of their own. Where the
code means to keep a weaker form, that form is checked:

* a class never improves after a downgrade (I2): `queue_estimate` tests the attempt on the ticket it
  read, then awaits the log, then writes (`api.py:262`, `:276`). An admission, a failure and a re-queue
  in between give attempt 2 its better class back;
* in `none` mode a join's ticket is admitted (D3): `admit_n(1)` takes the head of the queue
  (`api.py:171`), which after a failure is another ticket. `NoTicketLost` says the one that joined is still
  queued for a tick;
* a buffered record has a timer: not after the timer's own flush has failed (`events.py:62`). The
  theorem on `BufferIsWatched` excepts that;
* the service checks the attempt of the token in a report (`sdk.py:480`): it does not, and says so
  (`api.py:345`). `LogAgrees` is what the late reports this allows cannot break;
* `_assert_identical_load` (`experiment.py:420`) compares the loads of a seed: its populations come from one
  load of one file, so it never fires. `SameLoad` compares what was driven with what is recorded;
* positions never grow (I1, read literally): a re-queued ticket comes back in front of later ones.
  `NoOvertaking` is what the order of joins gives;
* `in_flight <= C_max` at every tick (I3, read literally): `C_max` may fall below what is in flight.
  `AdmitRespectsCap` is what the controller keeps;
* a timeout is handled once: the sweep and a failure report may both handle it, and then the Redis store's
  waiting counter drifts upwards and the in-memory store queues the ticket twice. `CounterCoversQueue` says that
  the counter never drifts downwards, `OnePlace` that the ticket keeps one place in Redis, and the
  properties of `control` that the duplicates of the in-memory store lose no ticket and no slot;
* `close` empties the buffer: after a failed flush it raises the old error first.
  `ClosedMeansStored` is about a close that returns;
* the sink stores what it accepts: after a failed write the drain task is dead, the samples behind it
  stay in the queue, and `aclose` may wait for room for ever. `EverySampleCounted` and `CloseReturns`
  say where the samples are and when closing ends.

## 4. Proofs

TLAPS proves the following, for every value of the constants that satisfies the named `ASSUME`s.

| module | theorem | statement |
|---|---|---|
| `AdmissionProofs` | `TypeCorrect` | `Spec => []TypeOK` |
| | `PlacesExclude` | `Spec => []OnePlace` |
| | `SlotsGivenBack` | `Spec => []SlotsAreAdmitted` |
| | `TicketsStaySomewhere` | `Spec => []NoTicketLost` |
| | `ScoresAreDistinct` | `Spec => []DistinctScores` |
| | `AdmissionInOrder` | `Spec => NoOvertaking` |
| | `SweepIsTimely` | `Spec => SweepsOnlyElapsed` |
| | `AdmissionWithinCap` | `Spec => AdmitRespectsCap` |
| | `CounterIsUpperBound` | `Spec => []CounterCoversQueue` |
| `EventLogProofs` | `LoggerTypeCorrect` | `Spec => []TypeOK` |
| | `RecordsAreUnique` | `Spec => []RecordOnce` |
| | `FileInOrder` | `Spec => StoredInOrder` |
| | `TimerWatchesBuffer` | `Spec => []BufferIsWatched` |
| | `ClosedLogIsComplete` | `Spec => []ClosedMeansStored` |
| | `ImplementsRecordLog` | the safety part of the refinement of `RecordLog` |
| `SessionProofs` | `SessionTypeCorrect` | `Spec => []TypeOK` |
| | `LogAgreesWithClients` | `Spec => []LogAgrees` |
| | `EstimateOnce` | `Spec => []OneEstimate` |
| | `BlameIsDeserved` | `Spec => []BlamesRightly` |
| | `ControlsServeFullPages` | `Spec => []FullPageUnlessAdapted` |
| | `PagesComeInTime` | `Spec => DeliveredInTime` |
| `ControllerProofs` | `ControllerTypeCorrect` | `Spec => []TypeOK`, so `alpha` never leaves its range |
| | `NoTicketIsLost` | `Spec => []NoTicketLost` |
| | `SlotsBelongToAdmitted` | `Spec => []SlotsAreAdmitted` |
| | `CounterIsExact` | `Spec => []CounterIsLength` |
| | `QueueInJoinOrder` | `Spec => []InJoinOrder` |
| | `AdmissionWithinCap` | `Spec => AdmitRespectsCap` of the in-memory store |
| | `TicksUseRoom` | a tick that finds a queue and room under `C_max` admits somebody; an idle service has room |
| `ExperimentProofs` | `ExperimentTypeCorrect` | `Spec => []TypeOK` |
| | `LogsHaveOneMode` | `Spec => []OneModePerLog` |
| | `NoGeneratorIsLeft` | `Spec => []NoLoadLeftBehind` |
| | `StaleTicketsAreGone` | `Spec => []OnlyOwnTicketsServed` |
| | `ResultsAreOfTheirLoad` | `Spec => []SameLoad` |
| | `RereadingLosesNothing` | `Spec => []RereadSeesMore` |
| | `CountedCompletersCompleted` | `Spec => CompletersDidComplete` |
| | `SharesAddUp` | the classes of a population share out exactly its `n` clients, for every `n` and mix |
| `OriginProofs` | `OriginKeepsLimits` | `Spec => []WithinLimits` |
| | `OriginLosesNoSlot` | `Spec => []SlotsAccounted` |
| | `OriginIsBusy` | `Spec => []NoIdleSlot` |
| | `OriginServesInTurn` | `Spec => ServedInTurn` |
| `HealthProofs` | `RingIsExact` | `Spec => []RingInv` |
| | `ReportsFromTheRightBuckets` | a report adds up every observation of its epochs, each from one bucket, and no other epoch's |
| | `WindowIsExact` | `Spec => []WindowExact` |
| | `ErrRateIsExact` | `Spec => []ErrRateExact` |
| `OriginSinkProofs` | `SinkTypeCorrect` | `Spec => []TypeOK`, so the queue keeps its `maxsize` |
| | `SamplesAccountedFor` | `Spec => []EverySampleCounted` |
| | `CloseIsComplete` | `Spec => []ClosedSinkIsComplete` |
| | `FileKeepsOrder` | `Spec => []FileInOrder` |

**Admission.** The assumptions: the controller is not a ticket, there are finitely many tickets, caps
are positive. `OnePlace` is not inductive: `reinsert` would break it for a ticket whose handler holds
a stale copy, were it not that `reinsert` also leaves `inflight`. What the places rely on is what a
suspended coroutine still knows of its ticket. `PlacesInv` collects that: `FramesOK` (which thread runs
which coroutine, on which ticket), `TickOK` (only the last part of a tick holds tickets), `TicketsOK`
(a ticket exists exactly from its own creation on), `ScoresOK` (a score about to be written is one, and
in `aaac` mode is the ticket's join number), `QueuedWaits` (a queued ticket waits, or was completed by a
late report). `PlacesStep` shows it inductive, one step per action; `SamePlaces` and `AdmitPlaces`
carry the actions that move nothing and those that admit. The other theorems add one conjunct
each: `NoOvertaking` follows from `ScoresOK` and the definition of `ZPOPMIN`; `DueOK` says a slot on a
tick's list has elapsed; `SlotsFree` says the slots a tick counted can only have become more;
`CounterCoversQueue` is inductive over `PlacesInv`. `DistinctScores` is not: a score is about to be written long before it
is in the queue, by a coroutine that sleeps. `NumbersOK` therefore speaks of all `Numbers(t)` that are a
score of ticket `t` or may become one (its join number, its score, what its suspended handlers hold), and
says that each was given out by `next_seq` and that no two tickets have one in common.

**Event log.** `RecordOnce` is inductive only together with what the lock means. `LockOK`: whoever holds
the lock across an await waits for a thread, has emptied the buffer, and is the only task that waits for
one, so the next batch of lines is taken from the buffer after the last one has been written.
`RunningOK`: until the shutdown no thread is left alone, so everything in the file is older than what
a thread holds, and that older than the buffer. `ShutdownOK`: nobody logs any more, and a closed log has
an empty buffer. `PlacesOK`: every record is in the file, lost, in a thread or in the
buffer, and a buffer that is not empty has a timer unless the timer has died. `LogInv` is their conjunction. In `ImplementsRecordLog` an append
maps to `Accept`, the end of a write to `Store`, `Stop` to `ShutDown`, and everything else stutters.

**Origin.** `SlotsAccounted` is a sum of cardinalities over the places of requests, so each step is a
counting lemma (`Moved`, `MoveAndWakeCounts`): what moving one request, and waking another, does to the
size of every place. `TurnsOK` (turns of waiters are distinct) makes `First` unique; that a first waiter
exists comes from the well-foundedness of `<` on the naturals. `OriginInv` is inductive by itself.

**Health ring.** `RingOK` says that a bucket sits at its epoch's place, counts what `seen` holds of that
epoch, and that the window's epochs are all in the ring; two epochs at one place differ by a lap
(`OneEpochPerPlace`). `ReportsFromTheRightBuckets` carries that over to the buckets a report adds up. The
sums themselves are folds over data of any size. Their induction needs no library theorem with an operator
as a parameter: if a sum of cardinalities were not the cardinality of the union, there would be a least
number of buckets for which it is not (`LeastNumber`, from the well-foundedness of `<` on the naturals), and one bucket
less contradicts it (`SumRecursion`, `DisjointCount`, `SumOfCounts`). `WindowCount` applies that to a
counter, `WindowLatencies` to the histogram and its cumulation, from which the percentiles are read.

**Sink.** A queue has one end for samples and one for the drain task, and `aclose` puts its sentinel at the
first. `SentinelOK`: the sentinel is put once, behind every sample, and the task returns only after it
has taken it, so it has then taken all. `OrderOK`: file, hand and queue are one increasing sequence.
`EverySampleCounted` is inductive with these two and `TypeOK`; the sentinel is what a plain count of the
queue would get wrong, so `SamplesCount` separates the two cases.

**Session.** What the client concludes depends on what may still be under way. `CallOK`: the client waits for the call
that `pc` says and for no other. `CompletesOK`: a success is reported by the last report only, because a client
whose page is complete ends with that report; so the log has no `COMPLETE` until it is handled, and
the client that has no answer to it ends in an outcome that is not counted. `EstimatesOK` does the same for
the one estimate, `FailuresOK` ties the count of failures to the history of polls, `VariantOK` and `PageOK`
follow a class from the ticket through the token to the page, `FetchOK` says what a client that fetches holds.

**Controller.** `NoTicketLost` and `SlotsAreAdmitted` hold for any number of entries of a ticket. `TickOK`: whatever the
sweep has taken is handled before the next tick; `FreshOK`: nobody handles a ticket that has not joined;
`FramesOK` and `ScoresOK`: in `aaac` mode every entry, and every one to be made, has the number its ticket
joined with. That `Enqueue` and `admit_n` keep the list sorted is proved once, for lists in which a
ticket repeats. For `AdmitRespectsCap` the entries in flight are counted as pairs of a ticket and a number
(`AllSlots`): `MoreSlots` maps the new ones to the places of the queue they were popped from, one to one, and
`OthersAddNone` goes through the actions that only move entries between open, lapsed and due, or give
them back. `TicksUseRoom` is the step behind `HeadIsAdmitted`, for every configuration: `C_max` is at least 1
(`CapIsPositive`), and `alpha` admits at least one per tick (`AlphaAdmitsSome`). The latter needs
`AllowanceAssumption`, `alpha_min * control_tick_s >= 1`, which `configs/run.yaml` satisfies (5 per second,
ticks of one second) and the code does not test.

**Experiment.** `ModeOK`: the container writes under the mode that its run id says. `RecordsOK`, `LoadOK` and `CrowdOK`
tie the generators to the driver's place. `TicketsOK`: after the flush only this launch's clients have tickets with a
place. `OneModePerLog` and the rest follow from them, together with `DriverOK`, `ServiceOK` and
`PopulationOK`. `SharesAddUp` counts how many classes have a rank below the shortfall.

What a result is worth takes a second inductive invariant, `LogInv`, because the lines that count may be in
the buffer of a container and reach the file at any later time, also after the driver has failed. It is stated of the
`Trace` of a ticket, the lines of the file followed by those of the buffer, which a flush does not change.
`NotYet`: nothing is known of a ticket before its launch. `OwnLoad`: wherever there is a trace of a
ticket (a line, a place in Redis, a `handle_timeout` in progress), its launch replayed the population of that
run. `InOrder`: an admission precedes a completion. `SessionsOK` ties the lines to what the
clients saw. `RecordsUpheld`: the lines that a record was computed from are still there. The actions
fall into a few kinds, each with one lemma: those that touch no trace (`Quiet`), those that append a line
to one (`Logging`), those that move lines from the buffer to the file (`Storing`), and the steps of the driver.

**Model-checked only.** Every invariant and every action property that a passing run checks is a theorem. What is left says
*eventually*, which is out of the prover's reach: `ExpiredIsRequeued`, `SessionEnds`, `HeadIsAdmitted`, `AlphaSettles`,
`MatrixEnds`, `QueuedIsServed`, `CloseReturns` and the liveness of `KeepsRecordLog`.

## 5. Not modelled

* **Estimator inference and training** (`src/aaac/estimator/`): floating-point features, a learned model,
  synthetic data. What reaches the system is one class, which `ClientSession` and `Admission` draw freely.
  The bundle is loaded lazily, and does not change once loaded.
* **Statistics, plots, reports, falsification** (`src/aaac/evaluation/`): numerics and formatting over
  finished records. Of `metrics.py` the times, bytes, quantiles and fairness indices are left out, and the
  metrics of the origin and of the classifier.
* **Testbed, Docker and traffic shaping**: the environment. `docker compose` is modelled as far as the driver
  depends on it.
* **Dashboard**: a page that draws the event stream.
* **Page assets and benchmarks** (`src/aaac/delivery/`): offline tools that build and measure the page.
* **Client harness** (`client/harness.py`): a command line that starts clients and prints outcomes.
* **Configuration, schemas, origin records and service times**: values, loaders without state, and pure
  functions of a seed.

Of the components that are modelled in part: ETA and admin endpoints of the API, the HMAC of a token, the
contents of a page, the sampler's timing, `SyntheticRunner` and the launch lags of the load generator are left out.

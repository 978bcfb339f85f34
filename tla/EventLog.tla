------------------------------ MODULE EventLog ------------------------------
(***************************************************************************)
(* aaac.common.events.EventLogger as the admission service uses it: the    *)
(* handlers and the controller's tick log records; a buffer goes to the    *)
(* file when it is full, when a timer has run, and when the service        *)
(* closes.  A file write is handed to a thread (asyncio.to_thread) and     *)
(* awaited while the logger's asyncio.Lock is held.                        *)
(*                                                                         *)
(* A record is the number of its place in the order of appends, so a set   *)
(* of records stands for their lines in that order.                        *)
(***************************************************************************)
EXTENDS Integers, FiniteSets

CONSTANTS
    Handlers,   \* the request handlers that log
    Ticker,     \* the controller's task, the one logger that stop() cancels
    FlushAt,    \* a buffer of this many records is written: 100 in the code
    MaxRecords  \* bound: nobody starts to log once this many are appended

Loggers == Handlers \cup {Ticker}

ASSUME TasksAssumption ==
    /\ Ticker \notin Handlers
    /\ Loggers \cap {"timer", "closer", "nobody"} = {}
ASSUME FlushAtAssumption == FlushAt \in Nat \ {0}

VARIABLES
    appended,   \* how many records have been appended to the buffer, ever
    buffer,     \* _buffer
    lock,       \* the task that holds _lock
    logging,    \* per logger: where it is in log()
    flush_task, \* _flush_task: none, or where its _flush_timer is
    writes,     \* the write_sync threads under way, each with the task awaiting it
    file,       \* the records whose lines are in the file
    lost,       \* history: the records whose write failed before it reached them
    closer      \* where lifespan's shutdown is

vars == <<appended, buffer, lock, logging, flush_task, writes, file, lost, closer>>

Records == 1..appended

\* A thread outlives the cancellation of the task that awaits it.
Tasks == Loggers \cup {"timer", "closer"}
Writes == [by : Tasks \cup {"nobody"}, lines : SUBSET Records]

TypeOK ==
    /\ appended \in Nat
    /\ buffer \in SUBSET Records /\ Cardinality(buffer) < FlushAt
    /\ lock \in Tasks \cup {"nobody"}
    /\ logging \in [Loggers -> {"idle", "locking", "flushing"}]
    /\ flush_task \in {"none", "sleeping", "locking", "flushing", "failed", "cancelled"}
    /\ writes \in SUBSET Writes
    /\ file \in SUBSET Records /\ lost \in SUBSET Records
    /\ closer \in {"running", "stopped", "awaiting", "locking", "flushing", "closed", "raised"}

Init ==
    /\ appended = 0
    /\ buffer = {}
    /\ lock = "nobody"
    /\ logging = [c \in Loggers |-> "idle"]
    /\ flush_task = "none"
    /\ writes = {}
    /\ file = {}
    /\ lost = {}
    /\ closer = "running"
-----------------------------------------------------------------------------
\* Mutant: the thread is started after the lock is given back.
StartFlushUnlocked(task, lines) ==
    /\ buffer' = {}
    /\ writes' = writes \cup {[by |-> task, lines |-> lines]}
    /\ lock' = "nobody"

\* _flush_unlocked of a nonempty buffer, by the holder of the lock.
StartFlush(task, lines) ==
    /\ buffer' = {}
    /\ writes' = writes \cup {[by |-> task, lines |-> lines]}
    /\ lock' = task

Cancelled(task) ==
    {IF w.by = task THEN [w EXCEPT !.by = "nobody"] ELSE w : w \in writes}

Released(task) == IF lock = task THEN "nobody" ELSE lock

(* log() *)

Log(c) ==
    /\ closer = "running" /\ appended < MaxRecords
    /\ logging[c] = "idle"
    /\ logging' = [logging EXCEPT ![c] = "locking"]
    /\ UNCHANGED <<appended, buffer, lock, flush_task, writes, file, lost, closer>>

\* The buffer has room: append, and see to it that the timer runs.
AppendToBuffer(c) ==
    /\ logging[c] = "locking" /\ lock = "nobody"
    /\ Cardinality(buffer) + 1 < FlushAt
    /\ appended' = appended + 1
    /\ buffer' = buffer \cup {appended'}
    /\ flush_task' = IF flush_task = "none" THEN "sleeping" ELSE flush_task
    /\ logging' = [logging EXCEPT ![c] = "idle"]
    /\ UNCHANGED <<lock, writes, file, lost, closer>>

\* The record fills the buffer: write it, and log() returns when that is done.
AppendAndFlush(c) ==
    /\ logging[c] = "locking" /\ lock = "nobody"
    /\ Cardinality(buffer) + 1 >= FlushAt
    /\ appended' = appended + 1
    /\ StartFlush(c, buffer \cup {appended'})
    /\ logging' = [logging EXCEPT ![c] = "flushing"]
    /\ UNCHANGED <<flush_task, file, lost, closer>>
-----------------------------------------------------------------------------
(* _flush_timer() *)

TimerWakes ==
    /\ flush_task = "sleeping"
    /\ flush_task' = "locking"
    /\ UNCHANGED <<appended, buffer, lock, logging, writes, file, lost, closer>>

TimerFlushes ==
    /\ flush_task = "locking" /\ lock = "nobody"
    /\ IF buffer = {}
       THEN /\ flush_task' = "none"
            /\ UNCHANGED <<buffer, lock, writes>>
       ELSE /\ flush_task' = "flushing"
            /\ StartFlush("timer", buffer)
    /\ UNCHANGED <<appended, logging, file, lost, closer>>
-----------------------------------------------------------------------------
(* The thread and the task that awaits it *)

\* The task goes on after the await: it gives the lock back and ends, in error
\* if the write failed.  Only then is _flush_task not reset.
Resume(task, ok) ==
    /\ lock' = Released(task)
    /\ logging' = [c \in Loggers |-> IF c = task THEN "idle" ELSE logging[c]]
    /\ flush_task' = IF task # "timer" THEN flush_task
                     ELSE IF ok THEN "none" ELSE "failed"
    /\ closer' = IF task # "closer" THEN closer
                 ELSE IF ok THEN "closed" ELSE "raised"

WriteDone(w) ==
    /\ file' = file \cup w.lines
    /\ writes' = writes \ {w}
    /\ Resume(w.by, TRUE)
    /\ UNCHANGED <<appended, buffer, lost>>

\* The file keeps what was written before the error.
WriteFails(w) ==
    /\ \E last \in 0..appended :
          /\ file' = file \cup {r \in w.lines : r <= last}
          /\ lost' = lost \cup {r \in w.lines : r > last}
    /\ writes' = writes \ {w}
    /\ Resume(w.by, FALSE)
    /\ UNCHANGED <<appended, buffer>>
-----------------------------------------------------------------------------
(* The end of the service's lifespan *)

\* The server has waited for its handlers; controller.stop() cancels the tick,
\* wherever it is in log().
Stop ==
    /\ closer = "running"
    /\ \A c \in Handlers : logging[c] = "idle"
    /\ closer' = "stopped"
    /\ logging' = [logging EXCEPT ![Ticker] = "idle"]
    /\ writes' = Cancelled(Ticker)
    /\ lock' = Released(Ticker)
    /\ UNCHANGED <<appended, buffer, flush_task, file, lost>>

\* close(): a timer that sleeps is woken and goes on to flush, unless it has not
\* begun to run; one that waits for the lock or for the thread is cancelled
\* there; the error of one that failed is raised here.
Close ==
    /\ closer = "stopped"
    /\ \/ /\ flush_task = "none"
          /\ closer' = "locking"
          /\ UNCHANGED flush_task
       \/ /\ flush_task \in {"sleeping", "locking"}
          /\ flush_task' \in {"locking", "cancelled"}
          /\ closer' = "awaiting"
       \/ /\ flush_task = "flushing"
          /\ flush_task' = "cancelled"
          /\ closer' = "awaiting"
       \/ /\ flush_task = "failed"
          /\ closer' = "raised"
          /\ UNCHANGED flush_task
    /\ IF flush_task = "flushing"
       THEN writes' = Cancelled("timer") /\ lock' = Released("timer")
       ELSE UNCHANGED <<writes, lock>>
    /\ UNCHANGED <<appended, buffer, logging, file, lost>>

CloserAwaits ==
    /\ closer = "awaiting"
    /\ flush_task \in {"none", "cancelled", "failed"}
    /\ closer' = IF flush_task = "failed" THEN "raised" ELSE "locking"
    /\ UNCHANGED <<appended, buffer, lock, logging, flush_task, writes, file, lost>>

\* Mutant: close() leaves the buffer to the timer.
CloserOnlyAwaits ==
    /\ closer = "locking" /\ lock = "nobody"
    /\ closer' = "closed"
    /\ UNCHANGED <<appended, buffer, lock, logging, flush_task, writes, file, lost>>

CloserFlushes ==
    /\ closer = "locking" /\ lock = "nobody"
    /\ IF buffer = {}
       THEN /\ closer' = "closed"
            /\ UNCHANGED <<buffer, lock, writes>>
       ELSE /\ closer' = "flushing"
            /\ StartFlush("closer", buffer)
    /\ UNCHANGED <<appended, logging, flush_task, file, lost>>

\* The process ends when its threads have.
Exit ==
    /\ closer \in {"closed", "raised"} /\ writes = {}
    /\ UNCHANGED vars
-----------------------------------------------------------------------------
Thread == \E w \in writes : WriteDone(w) \/ WriteFails(w)

Timer == TimerWakes \/ TimerFlushes

Closing == Stop \/ Close \/ CloserAwaits \/ CloserFlushes

Next ==
    \/ \E c \in Loggers : Log(c) \/ AppendToBuffer(c) \/ AppendAndFlush(c)
    \/ Timer \/ Thread \/ Closing \/ Exit

Spec == Init /\ [][Next]_vars

\* A sleep ends, a thread ends, and the loop runs a coroutine that can go on;
\* asyncio.Lock serves its waiters in order, so the timer gets it in the end.
\* Nothing makes a service log or shut down.
Fairness ==
    /\ WF_vars(TimerWakes) /\ SF_vars(TimerFlushes)
    /\ WF_vars(Thread)
    /\ WF_vars(Close \/ CloserAwaits \/ CloserFlushes)

FairSpec == Spec /\ Fairness
-----------------------------------------------------------------------------
(* What the log must get right *)

\* A record is in one place: buffered, in the hands of one thread, in the file, or
\* lost with a failed write.  No cancellation and no failed write makes a line
\* appear twice, and nothing writes again what was lost.
RecordOnce ==
    /\ buffer \cap (file \cup lost) = {} /\ file \cap lost = {}
    /\ \A w \in writes :
          /\ w.lines \cap (buffer \cup file \cup lost) = {}
          /\ \A v \in writes \ {w} : w.lines \cap v.lines = {}

\* While the service runs, the file grows in the order of the appends, whoever
\* flushes and whether or not an earlier write failed.
StoredInOrder ==
    [][closer = "running" => \A r \in file' \ file, q \in file : q < r]_vars

\* SYSTEM.md 8: "buffers up to 100 lines or 500 ms": what waits in the buffer has
\* a timer that will flush it, unless a flush of the timer's own has failed: then
\* no timer is ever started again.  The failed write of a handler does no such harm.
BufferIsWatched ==
    closer = "running" /\ buffer # {} => flush_task \in {"sleeping", "locking", "failed"}

\* Once the service has closed the log and its threads have ended, every record
\* is in the file or was lost in a write that failed, although the shutdown
\* cancels tasks in the middle of a flush.
ClosedMeansStored == closer = "closed" /\ writes = {} => Records = file \cup lost

\* The logger keeps the promise of RecordLog.
Abstract == INSTANCE RecordLog WITH
    accepted <- appended, stored <- file, open <- closer = "running",
    broken <- flush_task = "failed"

KeepsRecordLog == Abstract!Spec
=============================================================================

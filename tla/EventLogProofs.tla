--------------------------- MODULE EventLogProofs ---------------------------
(***************************************************************************)
(* Proofs about the event log, for every number of handlers and every size *)
(* of the buffer.                                                          *)
(***************************************************************************)
EXTENDS EventLogInv, FiniteSetTheorems, TLAPS

\* A buffer stays a finite set of records as records are appended to it.
LEMMA BufferSize ==
    ASSUME TypeOK
    PROVE  /\ IsFiniteSet(buffer)
           /\ Cardinality(buffer) \in Nat
           /\ Cardinality(buffer \cup {appended + 1}) = Cardinality(buffer) + 1
           /\ Cardinality({}) < FlushAt
<1>1. IsFiniteSet(1..appended)
  BY FS_Interval DEF TypeOK
<1>2. IsFiniteSet(buffer)
  BY <1>1, FS_Subset DEF TypeOK, Records
<1>3. appended + 1 \notin buffer
  BY DEF TypeOK, Records
<1>4. Cardinality({}) < FlushAt
  BY FS_EmptySet, FlushAtAssumption
<1> QED
  BY <1>2, <1>3, <1>4, FS_CardinalityType, FS_AddElement

\* The initial state satisfies the invariant.
LEMMA InitInv == Init => LogInv
<1> SUFFICES ASSUME Init PROVE LogInv
  OBVIOUS
<1>1. TypeOK
  BY FS_EmptySet, FlushAtAssumption DEF Init, TypeOK, Records, Tasks
<1> QED
  BY <1>1, TasksAssumption DEF Init, LogInv, LockOK, RecordOnce, RunningOK, ShutdownOK,
     PlacesOK, BufferIsWatched, Records, Loggers

\* log() waiting for the lock keeps the invariant.
LEMMA LogStep == ASSUME LogInv, NEW c \in Loggers, Log(c) PROVE LogInv'
<1> USE DEF Log
<1>1. TypeOK'
  BY DEF LogInv, TypeOK, Records, Writes, Tasks
<1>2. \A d \in Loggers : logging'[d] = "flushing" => logging[d] = "flushing"
  BY DEF LogInv, TypeOK
<1>3. LockOK'
  BY <1>2 DEF LogInv, LockOK
<1>4. RecordOnce' /\ (\A w \in writes : w.lines # {})'
  BY DEF LogInv, RecordOnce
<1>5. RunningOK' /\ ShutdownOK'
  BY DEF LogInv, RunningOK, ShutdownOK
<1>6. PlacesOK'
  BY DEF LogInv, PlacesOK, BufferIsWatched, Records
<1> QED
  BY <1>1, <1>3, <1>4, <1>5, <1>6 DEF LogInv

\* Appending to a buffer with room keeps the invariant.
LEMMA AppendStep == ASSUME LogInv, NEW c \in Loggers, AppendToBuffer(c) PROVE LogInv'
<1> USE DEF AppendToBuffer
<1>0. TypeOK /\ closer = "running"
  BY DEF LogInv, ShutdownOK
<1>1. TypeOK'
  <2>1. buffer' \in SUBSET Records' /\ file' \in SUBSET Records' /\ lost' \in SUBSET Records' /\ appended' \in Nat
    BY <1>0 DEF TypeOK, Records
  <2>2. Cardinality(buffer') < FlushAt
    BY <1>0, BufferSize
  <2>3. writes' \in SUBSET Writes'
    BY <1>0 DEF TypeOK, Writes, Records
  <2> QED
    BY <1>0, <2>1, <2>2, <2>3 DEF TypeOK, Tasks
<1>2. \A d \in Loggers : logging'[d] = "flushing" => logging[d] = "flushing"
  BY <1>0 DEF TypeOK
<1>3. LockOK'
  BY <1>2 DEF LogInv, LockOK
<1>4. RecordOnce' /\ (\A w \in writes : w.lines # {})'
  <2>1. appended' \notin file \cup lost /\ \A w \in writes : appended' \notin w.lines
    BY <1>0 DEF TypeOK, Writes, Records
  <2> QED
    BY <2>1 DEF LogInv, RecordOnce
<1>5. RunningOK'
  <2>1. \A q \in file : q < appended'
    BY <1>0 DEF TypeOK, Records
  <2> QED
    BY <1>0, <2>1 DEF LogInv, RunningOK
<1>6. ShutdownOK'
  BY <1>0 DEF ShutdownOK
<1>7. PlacesOK'
  <2>1. Records' = Records \cup {appended'}
    BY <1>0 DEF TypeOK, Records
  <2> QED
    BY <1>0, <2>1 DEF LogInv, PlacesOK, BufferIsWatched, TypeOK, LockOK, RunningOK
<1> QED
  BY <1>1, <1>3, <1>4, <1>5, <1>6, <1>7 DEF LogInv

\* Starting a flush of the whole buffer, with the lock free, disturbs no record.
LEMMA FlushPlaces ==
    ASSUME LogInv, lock = "nobody", UNCHANGED <<file, lost>>,
           NEW task \in Tasks, NEW lines, lines # {}, StartFlush(task, lines),
           \/ lines = buffer /\ appended' = appended
           \/ lines = buffer \cup {appended + 1} /\ appended' = appended + 1
    PROVE  /\ appended' \in Nat /\ buffer' \in SUBSET Records' /\ Cardinality(buffer') < FlushAt
           /\ lock' \in Tasks /\ writes' \in SUBSET Writes' /\ file' \in SUBSET Records' /\ lost' \in SUBSET Records'
           /\ RecordOnce'
           /\ \A w \in writes' : w.lines # {}
           /\ \A w \in writes' : w.by = "nobody" \/ w.by = lock'
           /\ \A v, w \in writes' : v.by = w.by /\ v.by # "nobody" => v = w
           /\ Records = file \cup lost \cup buffer \cup UNION {w.lines : w \in writes}
              => Records' = file' \cup lost' \cup buffer' \cup UNION {w.lines : w \in writes'}
<1> DEFINE new == [by |-> task, lines |-> lines]
<1> USE DEF StartFlush
<1>0. TypeOK /\ lock' = task /\ buffer' = {} /\ writes' = writes \cup {new}
  BY DEF LogInv
<1>1. lines \in SUBSET Records' /\ appended' \in Nat /\ Records \subseteq Records'
  <2>1. appended \in Nat /\ appended' \in Nat /\ buffer \in SUBSET (1..appended)
    BY <1>0 DEF TypeOK, Records
  <2>2. 1..appended \subseteq 1..appended'
    BY <2>1
  <2>3. buffer \cup {appended + 1} \subseteq 1..(appended + 1)
    BY <2>1
  <2> QED
    BY <2>1, <2>2, <2>3 DEF Records
<1>2. lines \cap (file \cup lost) = {} /\ \A w \in writes : w.lines \cap lines = {}
  <2>1. appended + 1 \notin file \cup lost /\ \A w \in writes : appended + 1 \notin w.lines
    BY <1>0 DEF TypeOK, Writes, Records
  <2> QED
    BY <2>1 DEF LogInv, RecordOnce
<1>3. Cardinality(buffer') < FlushAt
  BY <1>0, BufferSize
<1>4. new \in Writes'
  BY <1>1 DEF Writes
<1>5. writes' \in SUBSET Writes' /\ file' \in SUBSET Records' /\ lost' \in SUBSET Records'
  BY <1>0, <1>1, <1>4 DEF TypeOK, Writes
<1>6. new.by = task /\ new.lines = lines
  OBVIOUS
<1>7. \A w \in writes : w.by = "nobody"
  BY DEF LogInv, LockOK
<1>8. task # "nobody"
  BY TasksAssumption DEF Tasks
<1>9. RecordOnce'
  <2>1. buffer' \cap (file' \cup lost') = {} /\ file' \cap lost' = {}
    BY <1>0 DEF LogInv, RecordOnce
  <2>2. ASSUME NEW w \in writes' PROVE w.lines \cap (buffer' \cup file' \cup lost') = {}
    BY <1>0, <1>2, <1>6 DEF LogInv, RecordOnce
  <2>3. ASSUME NEW w \in writes', NEW v \in writes' \ {w} PROVE w.lines \cap v.lines = {}
    BY <1>0, <1>2, <1>6 DEF LogInv, RecordOnce
  <2> QED
    BY <2>1, <2>2, <2>3 DEF RecordOnce
<1>10. \A w \in writes' : w.lines # {}
  BY <1>0, <1>6 DEF LogInv
<1>11. /\ \A w \in writes' : w.by = "nobody" \/ w.by = lock'
       /\ \A v, w \in writes' : v.by = w.by /\ v.by # "nobody" => v = w
  BY <1>0, <1>6, <1>7, <1>8
<1>12. ASSUME Records = file \cup lost \cup buffer \cup UNION {w.lines : w \in writes}
       PROVE  Records' = file' \cup lost' \cup buffer' \cup UNION {w.lines : w \in writes'}
  <2>1. UNION {w.lines : w \in writes'} = lines \cup UNION {w.lines : w \in writes}
    BY <1>0, <1>6
  <2>2. Records' = Records \cup lines
    <3>1. appended \in Nat /\ buffer \subseteq 1..appended
      BY <1>0 DEF TypeOK, Records
    <3>2. 1..(appended + 1) = (1..appended) \cup {appended + 1}
      BY <3>1
    <3> QED
      BY <3>1, <3>2 DEF Records
  <2>3. lines \cup file \cup lost \cup UNION {w.lines : w \in writes} = Records \cup lines
    BY <1>12
  <2> QED
    BY <1>0, <2>1, <2>2, <2>3
<1> QED
  BY <1>0, <1>1, <1>3, <1>5, <1>9, <1>10, <1>11, <1>12

\* A record that fills the buffer starts a write and keeps the invariant.
LEMMA AppendFlushStep == ASSUME LogInv, NEW c \in Loggers, AppendAndFlush(c) PROVE LogInv'
<1> USE DEF AppendAndFlush
<1>0. TypeOK /\ closer = "running" /\ c \in Tasks /\ UNCHANGED <<flush_task, closer>>
      /\ c \notin {"timer", "closer", "nobody"}
  BY TasksAssumption DEF LogInv, ShutdownOK, Tasks
<1>1. StartFlush(c, buffer \cup {appended + 1}) /\ appended' = appended + 1
  OBVIOUS
<1>2. lock' = c /\ buffer' = {}
  BY <1>1 DEF StartFlush
<1>3. /\ appended' \in Nat /\ buffer' \in SUBSET Records' /\ Cardinality(buffer') < FlushAt
      /\ lock' \in Tasks /\ writes' \in SUBSET Writes' /\ file' \in SUBSET Records' /\ lost' \in SUBSET Records'
      /\ RecordOnce'
      /\ \A w \in writes' : w.lines # {}
      /\ \A w \in writes' : w.by = "nobody" \/ w.by = lock'
      /\ \A v, w \in writes' : v.by = w.by /\ v.by # "nobody" => v = w
      /\ Records = file \cup lost \cup buffer \cup UNION {w.lines : w \in writes}
         => Records' = file' \cup lost' \cup buffer' \cup UNION {w.lines : w \in writes'}
  BY <1>0, <1>1, FlushPlaces
<1>4. TypeOK'
  BY <1>0, <1>3 DEF TypeOK
<1>5. LockOK'
  <2>1. \A d \in Loggers : logging'[d] = "flushing" => d = c \/ logging[d] = "flushing"
    BY <1>0 DEF TypeOK
  <2>2. \A d \in Loggers : logging'[d] = "flushing" => lock' = d
    BY <1>2, <2>1, TasksAssumption DEF LogInv, LockOK
  <2>3. flush_task # "flushing" /\ closer # "flushing"
    BY <1>0 DEF LogInv, LockOK
  <2> QED
    BY <1>0, <1>2, <1>3, <2>2, <2>3 DEF LockOK
<1>6. RunningOK'
  <2>1. writes = {}
    BY <1>0 DEF LogInv, LockOK, RunningOK
  <2>2. \A w \in writes' : w.by = c /\ w.lines = buffer \cup {appended + 1}
    BY <1>1, <2>1 DEF StartFlush
  <2>3. \A q \in file : q < appended + 1
    BY <1>0 DEF TypeOK, Records
  <2> QED
    BY <1>0, <1>2, <2>2, <2>3 DEF LogInv, RunningOK
<1>7. ShutdownOK'
  BY <1>0 DEF ShutdownOK
<1>8. PlacesOK'
  BY <1>0, <1>2, <1>3 DEF LogInv, PlacesOK, BufferIsWatched
<1> QED
  BY <1>3, <1>4, <1>5, <1>6, <1>7, <1>8 DEF LogInv

\* A timer or a closer that takes the free lock keeps the invariant.
LEMMA TimerStep == ASSUME LogInv, Timer PROVE LogInv'
<1>1. CASE TimerWakes
  <2> USE <1>1 DEF TimerWakes
  <2>1. TypeOK'
    BY DEF LogInv, TypeOK, Records, Writes
  <2>2. LockOK' /\ RunningOK' /\ ShutdownOK'
    BY DEF LogInv, LockOK, RunningOK, ShutdownOK
  <2>3. RecordOnce' /\ (\A w \in writes : w.lines # {})'
    BY DEF LogInv, RecordOnce
  <2>4. PlacesOK'
    BY DEF LogInv, PlacesOK, BufferIsWatched, Records
  <2> QED
    BY <2>1, <2>2, <2>3, <2>4 DEF LogInv
<1>2. CASE TimerFlushes /\ buffer = {}
  <2> USE <1>2 DEF TimerFlushes
  <2>1. TypeOK'
    BY DEF LogInv, TypeOK, Records, Writes
  <2>2. LockOK' /\ RunningOK' /\ ShutdownOK'
    BY DEF LogInv, LockOK, RunningOK, ShutdownOK
  <2>3. RecordOnce' /\ (\A w \in writes : w.lines # {})'
    BY DEF LogInv, RecordOnce
  <2>4. PlacesOK'
    BY DEF LogInv, PlacesOK, BufferIsWatched, Records
  <2> QED
    BY <2>1, <2>2, <2>3, <2>4 DEF LogInv
<1>3. CASE TimerFlushes /\ buffer # {}
  <2> USE <1>3 DEF TimerFlushes
  <2>0. /\ TypeOK /\ StartFlush("timer", buffer) /\ UNCHANGED <<appended, logging, file, lost, closer>>
        /\ flush_task' = "flushing" /\ lock = "nobody" /\ "timer" \in Tasks
    BY DEF LogInv, Tasks
  <2>1. lock' = "timer" /\ buffer' = {} /\ writes' = writes \cup {[by |-> "timer", lines |-> buffer]}
    BY <2>0 DEF StartFlush
  <2>2. /\ appended' \in Nat /\ buffer' \in SUBSET Records' /\ Cardinality(buffer') < FlushAt
        /\ lock' \in Tasks /\ writes' \in SUBSET Writes' /\ file' \in SUBSET Records' /\ lost' \in SUBSET Records'
        /\ RecordOnce'
        /\ \A w \in writes' : w.lines # {}
        /\ \A w \in writes' : w.by = "nobody" \/ w.by = lock'
        /\ \A v, w \in writes' : v.by = w.by /\ v.by # "nobody" => v = w
        /\ Records = file \cup lost \cup buffer \cup UNION {w.lines : w \in writes}
           => Records' = file' \cup lost' \cup buffer' \cup UNION {w.lines : w \in writes'}
    BY <2>0, <1>3, FlushPlaces
  <2>3. TypeOK'
    BY <2>0, <2>2 DEF TypeOK
  <2>4. LockOK'
    <3>1. (\A c \in Loggers : logging[c] # "flushing") /\ closer # "flushing"
      BY <2>0, TasksAssumption DEF LogInv, LockOK
    <3> QED
      BY <2>0, <2>1, <2>2, <3>1 DEF LockOK
  <2>5. RunningOK'
    <3>1. closer = "running" => writes = {}
      BY <2>0 DEF LogInv, LockOK, RunningOK
    <3> QED
      BY <2>0, <2>1, <3>1 DEF LogInv, RunningOK
  <2>6. ShutdownOK'
    BY <2>0, <2>1 DEF LogInv, ShutdownOK
  <2>7. PlacesOK'
    BY <2>0, <2>1, <2>2 DEF LogInv, PlacesOK, BufferIsWatched
  <2> QED
    BY <2>2, <2>3, <2>4, <2>5, <2>6, <2>7 DEF LogInv
<1> QED
  BY <1>1, <1>2, <1>3 DEF Timer, TimerFlushes

\* The end of a thread, whether its write succeeded, failed or failed half-way,
\* keeps the invariant.
LEMMA ThreadStep == ASSUME LogInv, Thread PROVE LogInv'
<1>1. PICK w \in writes : WriteDone(w) \/ WriteFails(w)
  BY DEF Thread
<1>2. PICK ok \in BOOLEAN :
        /\ Resume(w.by, ok)
        /\ \E kept \in SUBSET w.lines : file' = file \cup kept /\ lost' = lost \cup (w.lines \ kept)
        /\ writes' = writes \ {w} /\ UNCHANGED <<appended, buffer>>
  <2>1. CASE WriteDone(w)
    BY <2>1 DEF WriteDone
  <2>2. CASE WriteFails(w)
    <3>1. PICK last \in 0..appended : /\ file' = file \cup {r \in w.lines : r <= last}
                                      /\ lost' = lost \cup {r \in w.lines : r > last}
      BY <2>2 DEF WriteFails
    <3>2. w.lines \subseteq Nat /\ last \in Nat
      BY DEF LogInv, TypeOK, Writes, Records
    <3>3. {r \in w.lines : r > last} = w.lines \ {r \in w.lines : r <= last}
      BY <3>2
    <3> QED
      BY <2>2, <3>1, <3>3 DEF WriteFails
  <2> QED
    BY <1>1, <2>1, <2>2
<1>3. PICK kept \in SUBSET w.lines : file' = file \cup kept /\ lost' = lost \cup (w.lines \ kept)
  BY <1>2
<1>4. TypeOK /\ w \in Writes /\ w.lines \in SUBSET Records /\ w.by \in Tasks \cup {"nobody"}
  BY DEF LogInv, TypeOK, Writes
<1>5. /\ w.by = "nobody" => UNCHANGED <<lock, logging, flush_task, closer>>
      /\ w.by # "nobody" => lock = w.by /\ lock' = "nobody"
      /\ w.by # "timer" => UNCHANGED flush_task
      /\ w.by = "timer" => flush_task' = IF ok THEN "none" ELSE "failed"
      /\ w.by # "closer" => UNCHANGED closer
      /\ w.by = "closer" => closer' = IF ok THEN "closed" ELSE "raised"
      /\ \A c \in Loggers : logging'[c] = IF c = w.by THEN "idle" ELSE logging[c]
      /\ logging' \in [Loggers -> {"idle", "locking", "flushing"}]
  <2>1. w.by = "nobody" \/ w.by = lock
    BY DEF LogInv, LockOK
  <2>2. logging' = [c \in Loggers |-> IF c = w.by THEN "idle" ELSE logging[c]]
    BY <1>2 DEF Resume
  <2>3. "nobody" \notin Loggers
    BY TasksAssumption
  <2>4. logging \in [Loggers -> {"idle", "locking", "flushing"}]
    BY <1>4 DEF TypeOK
  <2>5. w.by = "nobody" => logging' = logging
    BY <2>2, <2>3, <2>4
  <2> QED
    BY <1>2, <2>1, <2>2, <2>4, <2>5 DEF Resume, Released
<1>6. TypeOK'
  <2>1. Records' = Records /\ Writes' = Writes
    BY <1>2 DEF Records, Writes
  <2>2. file' \in SUBSET Records' /\ writes' \in SUBSET Writes'
    BY <1>2, <1>3, <1>4, <2>1 DEF TypeOK
  <2>3. lock' \in Tasks \cup {"nobody"}
    BY <1>4, <1>5 DEF TypeOK
  <2>4. /\ flush_task' \in {"none", "sleeping", "locking", "flushing", "failed", "cancelled"}
        /\ closer' \in {"running", "stopped", "awaiting", "locking", "flushing", "closed", "raised"}
    BY <1>4, <1>5 DEF TypeOK
  <2> QED
    BY <1>2, <1>4, <1>5, <2>1, <2>2, <2>3, <2>4 DEF TypeOK
<1>7. LockOK'
  <2>1. CASE w.by = "nobody"
    BY <1>2, <1>5, <2>1 DEF LogInv, LockOK
  <2>2. CASE w.by # "nobody"
    <3>1. \A v \in writes' : v.by = "nobody"
      BY <1>2, <1>5, <2>2 DEF LogInv, LockOK
    <3>2. \A c \in Loggers : logging'[c] # "flushing"
      BY <1>5, <2>2 DEF LogInv, LockOK
    <3>3. flush_task' # "flushing" /\ closer' # "flushing"
      BY <1>5, <2>2 DEF LogInv, LockOK
    <3> QED
      BY <1>5, <2>2, <3>1, <3>2, <3>3 DEF LockOK
  <2> QED
    BY <2>1, <2>2
<1>8. RecordOnce'
  BY <1>2, <1>3 DEF LogInv, RecordOnce
<1>9. RunningOK'
  <2>1. ASSUME closer' = "running"
        PROVE  closer = "running" /\ w.by # "nobody" /\ buffer = {} /\ writes' = {}
    <3>1. closer = "running"
      BY <1>5, <2>1
    <3>2. w.by # "nobody" /\ \A v \in writes : v.by = lock
      BY <3>1 DEF LogInv, RunningOK, LockOK
    <3> QED
      BY <1>2, <1>5, <3>1, <3>2 DEF LogInv, LockOK
  <2>2. flush_task' = "cancelled" => flush_task = "cancelled"
    BY <1>5
  <2> QED
    BY <1>2, <2>1, <2>2 DEF LogInv, RunningOK
<1>10. ShutdownOK'
  <2>1. closer' # "running" => closer # "running"
    BY <1>5 DEF LogInv, LockOK
  <2>2. closer' = "closed" => buffer = {}
    BY <1>5, TasksAssumption DEF LogInv, LockOK, ShutdownOK
  <2> QED
    BY <1>2, <1>5, <2>1, <2>2 DEF LogInv, ShutdownOK
<1>11. PlacesOK'
  <2>1. UNION {v.lines : v \in writes} = w.lines \cup UNION {v.lines : v \in writes'}
    BY <1>2
  <2>2. Records' = file' \cup lost' \cup buffer' \cup UNION {v.lines : v \in writes'}
    BY <1>2, <1>3, <2>1 DEF LogInv, PlacesOK, Records
  <2>3. BufferIsWatched'
    BY <1>2, <1>5 DEF LogInv, LockOK, PlacesOK, BufferIsWatched
  <2> QED
    BY <2>2, <2>3 DEF PlacesOK
<1> QED
  BY <1>2, <1>6, <1>7, <1>8, <1>9, <1>10, <1>11 DEF LogInv

\* Cancelling a task that may be waiting for a thread disturbs no record.
LEMMA CancelPlaces ==
    ASSUME LogInv, NEW task \in Tasks, UNCHANGED <<appended, buffer, file, lost>>,
           writes' = Cancelled(task), lock' = Released(task)
    PROVE  /\ Records' = Records /\ lock' \in Tasks \cup {"nobody"} /\ lock' # task
           /\ writes' \in SUBSET Writes'
           /\ RecordOnce'
           /\ \A w \in writes' : w.lines # {}
           /\ lock' # "nobody" => buffer' = {}
           /\ \A w \in writes' : w.by = "nobody" \/ w.by = lock'
           /\ \A v, w \in writes' : v.by = w.by /\ v.by # "nobody" => v = w
           /\ UNION {w.lines : w \in writes'} = UNION {w.lines : w \in writes}
<1> DEFINE C(w) == IF w.by = task THEN [w EXCEPT !.by = "nobody"] ELSE w
<1>0. TypeOK /\ writes' = {C(w) : w \in writes} /\ task # "nobody"
  BY TasksAssumption DEF LogInv, Cancelled, Tasks
<1>1. \A w \in writes : /\ C(w) \in Writes
                        /\ C(w).lines = w.lines
                        /\ C(w).by = IF w.by = task THEN "nobody" ELSE w.by
                        /\ w.by # task => C(w) = w
  BY <1>0 DEF TypeOK, Writes
<1> HIDE DEF C
<1>2. Records' = Records /\ Writes' = Writes
  BY DEF Records, Writes
<1>3. lock' \in Tasks \cup {"nobody"} /\ lock' # task /\ (lock' # "nobody" => lock' = lock)
  BY <1>0 DEF TypeOK, Released
<1>4. writes' \in SUBSET Writes' /\ \A w \in writes' : w.lines # {}
  BY <1>0, <1>1, <1>2 DEF LogInv
<1>5. RecordOnce'
  <2>1. ASSUME NEW w \in writes, NEW v \in writes, C(v) # C(w)
        PROVE  C(v).lines \cap C(w).lines = {}
    BY <1>1, <2>1 DEF LogInv, RecordOnce
  <2>2. ASSUME NEW w \in writes PROVE C(w).lines \cap (buffer \cup file \cup lost) = {}
    BY <1>1 DEF LogInv, RecordOnce
  <2> QED
    BY <1>0, <2>1, <2>2 DEF LogInv, RecordOnce
<1>6. lock' # "nobody" => buffer' = {}
  BY <1>3 DEF LogInv, LockOK
<1>7. \A w \in writes : C(w).by = "nobody" \/ (w.by # task /\ C(w) = w /\ w.by = lock')
  BY <1>0, <1>1 DEF LogInv, LockOK, Released
<1>8. /\ \A w \in writes' : w.by = "nobody" \/ w.by = lock'
      /\ \A v, w \in writes' : v.by = w.by /\ v.by # "nobody" => v = w
  BY <1>0, <1>7 DEF LogInv, LockOK
<1>9. UNION {w.lines : w \in writes'} = UNION {w.lines : w \in writes}
  BY <1>0, <1>1
<1> QED
  BY <1>2, <1>3, <1>4, <1>5, <1>6, <1>8, <1>9

\* The end of the lifespan up to the cancellation of the tick keeps the invariant.
LEMMA StopStep == ASSUME LogInv, Stop PROVE LogInv'
<1> USE DEF Stop
<1>0. /\ TypeOK /\ Ticker \in Tasks /\ Ticker \in Loggers /\ Ticker \notin {"timer", "closer", "nobody"}
      /\ closer = "running" /\ closer' = "stopped" /\ UNCHANGED <<appended, buffer, flush_task, file, lost>>
  BY TasksAssumption DEF LogInv, Tasks, Loggers
<1>1. /\ Records' = Records /\ lock' \in Tasks \cup {"nobody"} /\ lock' # Ticker
      /\ writes' \in SUBSET Writes'
      /\ RecordOnce'
      /\ \A w \in writes' : w.lines # {}
      /\ lock' # "nobody" => buffer' = {}
      /\ \A w \in writes' : w.by = "nobody" \/ w.by = lock'
      /\ \A v, w \in writes' : v.by = w.by /\ v.by # "nobody" => v = w
      /\ UNION {w.lines : w \in writes'} = UNION {w.lines : w \in writes}
  BY <1>0, CancelPlaces
<1>2. \A c \in Loggers : logging'[c] = "idle"
  BY <1>0 DEF TypeOK, Loggers
<1>3. TypeOK'
  BY <1>0, <1>1 DEF TypeOK
<1>4. LockOK'
  BY <1>0, <1>1, <1>2 DEF LogInv, LockOK, Released
<1>5. RunningOK' /\ ShutdownOK'
  BY <1>0, <1>2 DEF RunningOK, ShutdownOK
<1>6. PlacesOK'
  BY <1>0, <1>1 DEF LogInv, PlacesOK, BufferIsWatched
<1> QED
  BY <1>1, <1>3, <1>4, <1>5, <1>6 DEF LogInv

\* close() up to its wait for the timer keeps the invariant.
LEMMA CloseStep == ASSUME LogInv, Close PROVE LogInv'
<1> USE DEF Close
<1>0. /\ TypeOK /\ closer = "stopped" /\ closer' \in {"locking", "awaiting", "raised"}
      /\ UNCHANGED <<appended, buffer, logging, file, lost>>
      /\ flush_task' \in {"none", "locking", "cancelled", "failed"}
      /\ flush_task' = "failed" => flush_task = "failed"
      /\ closer' = "raised" => flush_task = "failed"
  BY DEF LogInv
<1>1. CASE flush_task = "flushing"
  <2>1. /\ Records' = Records /\ lock' \in Tasks \cup {"nobody"} /\ lock' # "timer"
        /\ writes' \in SUBSET Writes'
        /\ RecordOnce'
        /\ \A w \in writes' : w.lines # {}
        /\ lock' # "nobody" => buffer' = {}
        /\ \A w \in writes' : w.by = "nobody" \/ w.by = lock'
        /\ \A v, w \in writes' : v.by = w.by /\ v.by # "nobody" => v = w
        /\ UNION {w.lines : w \in writes'} = UNION {w.lines : w \in writes}
    BY <1>0, <1>1, CancelPlaces DEF Tasks
  <2>2. TypeOK'
    BY <1>0, <2>1 DEF TypeOK
  <2>3. \A c \in Loggers : logging'[c] = "idle"
    BY <1>0 DEF LogInv, ShutdownOK
  <2>4. LockOK'
    <3>1. lock = "timer" /\ lock' = "nobody"
      BY <1>1 DEF LogInv, LockOK, Released
    <3> QED
      BY <1>0, <2>1, <2>3, <3>1 DEF LockOK
  <2>5. RunningOK' /\ ShutdownOK' /\ PlacesOK'
    BY <1>0, <2>1, <2>3 DEF LogInv, RunningOK, ShutdownOK, PlacesOK, BufferIsWatched
  <2> QED
    BY <2>1, <2>2, <2>4, <2>5 DEF LogInv
<1>2. CASE flush_task # "flushing"
  <2>1. UNCHANGED <<writes, lock>>
    BY <1>2
  <2>2. TypeOK'
    BY <1>0, <2>1 DEF TypeOK, Records, Writes
  <2>3. LockOK' /\ RunningOK' /\ ShutdownOK'
    BY <1>0, <1>2, <2>1 DEF LogInv, LockOK, RunningOK, ShutdownOK
  <2>4. RecordOnce' /\ (\A w \in writes : w.lines # {})'
    BY <1>0, <2>1 DEF LogInv, RecordOnce
  <2>5. PlacesOK'
    BY <1>0, <2>1 DEF LogInv, PlacesOK, BufferIsWatched, Records
  <2> QED
    BY <2>2, <2>3, <2>4, <2>5 DEF LogInv
<1> QED
  BY <1>1, <1>2

\* The rest of close() keeps the invariant.
LEMMA CloserStep == ASSUME LogInv, CloserAwaits \/ CloserFlushes PROVE LogInv'
<1>0. TypeOK /\ closer \in {"awaiting", "locking"} /\ \A c \in Loggers : logging[c] = "idle"
  BY DEF LogInv, ShutdownOK, CloserAwaits, CloserFlushes
<1>1. CASE CloserAwaits \/ (CloserFlushes /\ buffer = {})
  <2>1. /\ UNCHANGED <<appended, buffer, lock, logging, flush_task, writes, file, lost>>
        /\ closer' \in {"raised", "locking", "closed"}
        /\ closer' = "raised" => flush_task = "failed"
        /\ closer' = "closed" => buffer = {}
    BY <1>1 DEF CloserAwaits, CloserFlushes
  <2>2. TypeOK'
    BY <1>0, <2>1 DEF TypeOK, Records, Writes
  <2>3. LockOK' /\ RunningOK' /\ ShutdownOK'
    BY <1>0, <2>1 DEF LogInv, LockOK, RunningOK, ShutdownOK
  <2>4. RecordOnce' /\ (\A w \in writes : w.lines # {})'
    BY <2>1 DEF LogInv, RecordOnce
  <2>5. PlacesOK'
    BY <1>0, <2>1 DEF LogInv, PlacesOK, BufferIsWatched, Records
  <2> QED
    BY <2>2, <2>3, <2>4, <2>5 DEF LogInv
<1>2. CASE CloserFlushes /\ buffer # {}
  <2>1. /\ StartFlush("closer", buffer) /\ lock = "nobody" /\ closer' = "flushing"
        /\ UNCHANGED <<appended, logging, flush_task, file, lost>>
        /\ "closer" \in Tasks /\ lock' = "closer" /\ buffer' = {}
    BY <1>2 DEF CloserFlushes, StartFlush, Tasks
  <2>2. /\ appended' \in Nat /\ buffer' \in SUBSET Records' /\ Cardinality(buffer') < FlushAt
        /\ lock' \in Tasks /\ writes' \in SUBSET Writes' /\ file' \in SUBSET Records' /\ lost' \in SUBSET Records'
        /\ RecordOnce'
        /\ \A w \in writes' : w.lines # {}
        /\ \A w \in writes' : w.by = "nobody" \/ w.by = lock'
        /\ \A v, w \in writes' : v.by = w.by /\ v.by # "nobody" => v = w
        /\ Records = file \cup lost \cup buffer \cup UNION {w.lines : w \in writes}
           => Records' = file' \cup lost' \cup buffer' \cup UNION {w.lines : w \in writes'}
    BY <1>2, <2>1, FlushPlaces
  <2>3. TypeOK'
    BY <1>0, <2>1, <2>2 DEF TypeOK
  <2>4. LockOK'
    <3>1. flush_task # "flushing"
      BY <2>1 DEF LogInv, LockOK
    <3> QED
      BY <1>0, <2>1, <2>2, <3>1 DEF LockOK
  <2>5. RunningOK' /\ ShutdownOK' /\ PlacesOK'
    BY <1>0, <2>1, <2>2 DEF LogInv, RunningOK, ShutdownOK, PlacesOK, BufferIsWatched
  <2> QED
    BY <2>2, <2>3, <2>4, <2>5 DEF LogInv
<1> QED
  BY <1>1, <1>2

\* The invariant is inductive.
LEMMA InvStep == ASSUME LogInv, [Next]_vars PROVE LogInv'
<1>1. CASE UNCHANGED vars
  <2> USE <1>1 DEF vars
  <2>1. TypeOK' /\ LockOK' /\ RunningOK' /\ ShutdownOK'
    BY DEF LogInv, TypeOK, Records, Writes, LockOK, RunningOK, ShutdownOK
  <2>2. RecordOnce' /\ (\A w \in writes : w.lines # {})' /\ PlacesOK'
    BY DEF LogInv, RecordOnce, PlacesOK, BufferIsWatched, Records
  <2> QED
    BY <2>1, <2>2 DEF LogInv
<1>2. CASE \E c \in Loggers : Log(c) \/ AppendToBuffer(c) \/ AppendAndFlush(c)
  BY <1>2, LogStep, AppendStep, AppendFlushStep
<1>3. CASE Timer \/ Thread
  BY <1>3, TimerStep, ThreadStep
<1>4. CASE Closing
  BY <1>4, StopStep, CloseStep, CloserStep DEF Closing
<1> QED
  BY <1>1, <1>2, <1>3, <1>4 DEF Next, Exit

LEMMA Invariance == Spec => []LogInv
BY InitInv, InvStep, PTL DEF Spec
-----------------------------------------------------------------------------
\* No record is ever in two places, so no line can be written twice, whatever
\* is cancelled and whatever write fails.
THEOREM RecordsAreUnique == Spec => []RecordOnce
<1>1. LogInv => RecordOnce
  BY DEF LogInv
<1> QED
  BY <1>1, Invariance, PTL

\* The logger's variables keep their types and its buffer its bound.
THEOREM LoggerTypeCorrect == Spec => []TypeOK
<1>1. LogInv => TypeOK
  BY DEF LogInv
<1> QED
  BY <1>1, Invariance, PTL

\* While the service runs the file grows in the order of the appends.
THEOREM FileInOrder == Spec => StoredInOrder
<1>1. ASSUME LogInv, [Next]_vars, closer = "running", NEW r \in file' \ file, NEW q \in file
      PROVE  q < r
  <2>1. Thread
    BY <1>1 DEF Next, vars, Log, AppendToBuffer, AppendAndFlush, Timer, TimerWakes,
       TimerFlushes, Closing, Stop, Close, CloserAwaits, CloserFlushes, Exit
  <2>2. \E w \in writes : r \in w.lines
    BY <1>1, <2>1 DEF Thread, WriteDone, WriteFails
  <2> QED
    BY <1>1, <2>2 DEF LogInv, RunningOK
<1>2. LogInv /\ [Next]_vars
      => [closer = "running" => \A r \in file' \ file, q \in file : q < r]_vars
  BY <1>1
<1> QED
  BY <1>2, Invariance, PTL DEF Spec, StoredInOrder

\* A buffered record has a live timer, unless a flush of the timer's has failed.
THEOREM TimerWatchesBuffer == Spec => []BufferIsWatched
<1>1. LogInv => BufferIsWatched
  BY DEF LogInv, PlacesOK
<1> QED
  BY <1>1, Invariance, PTL

\* A closed log is complete once its threads have ended, but for the records that
\* a failed write has cost.
THEOREM ClosedLogIsComplete == Spec => []ClosedMeansStored
<1>1. ASSUME LogInv PROVE ClosedMeansStored
  <2> SUFFICES ASSUME closer = "closed", writes = {} PROVE Records = file \cup lost
    BY DEF ClosedMeansStored
  <2>1. UNION {w.lines : w \in writes} = {}
    OBVIOUS
  <2> QED
    BY <1>1, <2>1 DEF LogInv, PlacesOK, ShutdownOK
<1>2. LogInv => ClosedMeansStored
  BY <1>1
<1> QED
  BY <1>2, Invariance, PTL

\* A thread that ends, with or without an error, stores the first of all pending
\* records while the service runs, and of some of them afterwards.
LEMMA ThreadStores ==
    ASSUME LogInv, Thread
    PROVE  Abstract!Store
<1>1. PICK w \in writes : WriteDone(w) \/ WriteFails(w)
  BY DEF Thread
<1>2. /\ w.lines # {} /\ w.lines \subseteq 1..appended /\ w.lines \cap (file \cup lost) = {}
      /\ appended \in Nat
  BY DEF LogInv, RecordOnce, TypeOK, Writes, Records
<1>3. w.lines \in SUBSET Abstract!Pending
  BY <1>2 DEF Abstract!Pending
<1>4. closer = "running" <=> closer' = "running"
  BY <1>1 DEF WriteDone, WriteFails, Resume, LogInv, LockOK
<1>5. UNCHANGED <<appended, closer = "running">>
  BY <1>1, <1>4 DEF WriteDone, WriteFails
<1>6. (flush_task = "failed")' \in {flush_task = "failed", TRUE}
  <2>1. w.by = "timer" => flush_task = "flushing"
    BY TasksAssumption DEF LogInv, LockOK
  <2>2. \/ flush_task' = flush_task
        \/ flush_task = "flushing" /\ flush_task' \in {"none", "failed"}
    BY <1>1, <2>1 DEF WriteDone, WriteFails, Resume
  <2> QED
    BY <2>2
<1>7. (closer = "running") => w.lines = Abstract!Pending
  <2> SUFFICES ASSUME closer = "running" PROVE w.lines = Abstract!Pending
    OBVIOUS
  <2>1. w.by = lock /\ w.by # "nobody" /\ \A v \in writes : v = w
    BY DEF LogInv, LockOK, RunningOK
  <2>2. buffer = {} /\ UNION {v.lines : v \in writes} = w.lines
    BY <2>1 DEF LogInv, LockOK
  <2>3. 1..appended = file \cup lost \cup w.lines
    BY <2>2 DEF LogInv, PlacesOK, Records
  <2> QED
    BY <1>2, <2>3 DEF Abstract!Pending
<1>8. \E kept \in SUBSET w.lines :
         /\ \A r \in kept, q \in w.lines \ kept : r < q
         /\ file' = file \cup kept /\ lost' = lost \cup (w.lines \ kept)
  <2>1. CASE WriteDone(w)
    BY <2>1 DEF WriteDone
  <2>2. CASE WriteFails(w)
    <3>1. PICK last \in 0..appended : /\ file' = file \cup {r \in w.lines : r <= last}
                                      /\ lost' = lost \cup {r \in w.lines : r > last}
      BY <2>2 DEF WriteFails
    <3>2. w.lines \subseteq Nat /\ last \in Nat
      BY <1>2
    <3>3. {r \in w.lines : r > last} = w.lines \ {r \in w.lines : r <= last}
      BY <3>2
    <3>4. \A r \in {r \in w.lines : r <= last}, q \in {r \in w.lines : r > last} : r < q
      BY <3>2
    <3> QED
      BY <3>1, <3>3, <3>4
  <2> QED
    BY <1>1, <2>1, <2>2
<1> QED
  BY <1>2, <1>3, <1>5, <1>6, <1>7, <1>8 DEF Abstract!Store

\* Every step of the logger is a step RecordLog allows, or none: whole batches of
\* which an error may cost the end, next in order while the service runs.
THEOREM ImplementsRecordLog ==
    Spec => Abstract!Init /\ [][Abstract!Next]_(Abstract!vars)
<1>1. Init => Abstract!Init
  BY DEF Init, Abstract!Init
<1>2. ASSUME LogInv, [Next]_vars PROVE [Abstract!Next]_(Abstract!vars)
  <2> USE DEF Abstract!Next, Abstract!vars
  <2>1. CASE /\ UNCHANGED <<appended, file, lost>>
             /\ (closer = "running" <=> closer' = "running")
             /\ (flush_task = "failed" <=> flush_task' = "failed")
    BY <2>1
  <2>2. CASE \E c \in Loggers : AppendToBuffer(c) \/ AppendAndFlush(c)
    BY <2>2 DEF AppendToBuffer, AppendAndFlush, Abstract!Accept
  <2>3. CASE Stop
    BY <2>3 DEF Stop, Abstract!ShutDown
  <2>4. CASE Thread
    BY <1>2, <2>4, ThreadStores
  <2> QED
    BY <1>2, <2>1, <2>2, <2>3, <2>4 DEF Next, vars, Log, Timer, TimerWakes, TimerFlushes,
       Closing, Close, CloserAwaits, CloserFlushes, Exit
<1> QED
  BY <1>1, <1>2, Invariance, PTL DEF Spec
=============================================================================

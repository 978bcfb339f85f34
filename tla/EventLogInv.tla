---------------------------- MODULE EventLogInv ----------------------------
(***************************************************************************)
(* The inductive invariant behind the safety properties of EventLog: what  *)
(* the lock protects and what a shutdown leaves behind.                    *)
(***************************************************************************)
EXTENDS EventLog

\* Holding the lock across an await means waiting for a thread: the holder has
\* emptied the buffer, and no other task waits for a thread.
LockOK ==
    /\ lock # "nobody" => buffer = {}
    /\ \A w \in writes : w.by = "nobody" \/ w.by = lock
    /\ \A v, w \in writes : v.by = w.by /\ v.by # "nobody" => v = w
    /\ \A c \in Loggers : logging[c] = "flushing" => lock = c
    /\ flush_task = "flushing" <=> lock = "timer"
    /\ closer = "flushing" <=> lock = "closer"

\* Threads are left alone by the shutdown only.
RunningOK ==
    closer = "running" =>
       /\ flush_task # "cancelled"
       /\ \A w \in writes : w.by # "nobody"
       /\ \A q \in file : /\ \A r \in buffer : q < r
                          /\ \A w \in writes : \A r \in w.lines : q < r

\* Nobody logs any more once the shutdown has begun.
ShutdownOK ==
    /\ closer # "running" => \A c \in Loggers : logging[c] = "idle"
    /\ closer = "closed" => buffer = {}

\* Every record is somewhere, and the buffer is watched.
PlacesOK ==
    /\ Records = file \cup lost \cup buffer \cup UNION {w.lines : w \in writes}
    /\ BufferIsWatched

LogInv ==
    /\ TypeOK
    /\ LockOK
    /\ RecordOnce
    /\ \A w \in writes : w.lines # {}
    /\ RunningOK
    /\ ShutdownOK
    /\ PlacesOK
=============================================================================

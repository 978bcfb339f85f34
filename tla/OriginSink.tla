----------------------------- MODULE OriginSink -----------------------------
(***************************************************************************)
(* aaac.origin.sinks.JsonlSink: the sampler hands its samples to a bounded *)
(* queue, a task drains the queue into the file through a thread, and      *)
(* closing sends the task a sentinel and awaits it.                        *)
(***************************************************************************)
EXTENDS Integers, Sequences, FiniteSets

CONSTANTS
    queue_maxsize,
    SampleBound,    \* bound: samples emitted
    Faults          \* may a write fail?

ASSUME MaxsizeAssumption == queue_maxsize \in Nat \ {0}
ASSUME SampleAssumption == SampleBound \in Nat
ASSUME FaultsAssumption == Faults \in BOOLEAN

VARIABLES
    emitted,    \* samples emitted so far; a sample is its number
    dropped,    \* JsonlSink.dropped
    queue,      \* the asyncio.Queue
    task,       \* the drain task
    hand,       \* the sample whose line the task is writing
    file,       \* what the file holds
    closer      \* the lifespan that runs the service and then closes the sink

vars == <<emitted, dropped, queue, task, hand, file, closer>>

\* The None of the queue.
Sentinel == 0

TypeOK ==
    /\ emitted \in 0 .. SampleBound /\ dropped \in 0 .. emitted
    /\ queue \in Seq(0 .. SampleBound) /\ Len(queue) <= queue_maxsize
    /\ task \in {"getting", "writing", "returned", "failed"}
    /\ hand \in 0 .. SampleBound
    /\ file \in Seq(1 .. SampleBound)
    /\ closer \in {"serving", "putting", "awaiting", "closed", "raised"}

Init ==
    /\ emitted = 0 /\ dropped = 0
    /\ queue = <<>>
    /\ task = "getting" /\ hand = 0
    /\ file = <<>>
    /\ closer = "serving"
-----------------------------------------------------------------------------
(* The sampler *)

\* Mutant: a sample that does not fit is not counted.
EmitUncounted ==
    /\ closer = "serving" /\ emitted < SampleBound
    /\ emitted' = emitted + 1
    /\ queue' = IF Len(queue) < queue_maxsize THEN Append(queue, emitted') ELSE queue
    /\ UNCHANGED <<dropped, task, hand, file, closer>>

Emit ==
    /\ closer = "serving" /\ emitted < SampleBound
    /\ emitted' = emitted + 1
    /\ \/ Len(queue) < queue_maxsize /\ queue' = Append(queue, emitted') /\ UNCHANGED dropped
       \/ Len(queue) = queue_maxsize /\ dropped' = dropped + 1 /\ UNCHANGED queue
    /\ UNCHANGED <<task, hand, file, closer>>
-----------------------------------------------------------------------------
(* The drain task *)

Get ==
    /\ task = "getting" /\ queue # <<>>
    /\ hand' = Head(queue)
    /\ task' = IF hand' = Sentinel THEN "returned" ELSE "writing"
    /\ queue' = Tail(queue)
    /\ UNCHANGED <<emitted, dropped, file, closer>>

WriteDone ==
    /\ task = "writing"
    /\ file' = Append(file, hand)
    /\ task' = "getting" /\ hand' = 0
    /\ UNCHANGED <<emitted, dropped, queue, closer>>

\* The error of _write ends the task; nobody is told.
WriteFails ==
    /\ Faults
    /\ task = "writing"
    /\ task' = "failed"
    /\ UNCHANGED <<emitted, dropped, queue, hand, file, closer>>
-----------------------------------------------------------------------------
(* aclose *)

\* The lifespan has ended the sampler.
Close ==
    /\ closer = "serving"
    /\ closer' = "putting"
    /\ UNCHANGED <<emitted, dropped, queue, task, hand, file>>

\* Mutant: put_nowait, with the QueueFull suppressed.
ClosePutsNowait ==
    /\ closer = "putting"
    /\ queue' = IF Len(queue) < queue_maxsize THEN Append(queue, Sentinel) ELSE queue
    /\ closer' = "awaiting"
    /\ UNCHANGED <<emitted, dropped, task, hand, file>>

\* Mutant: the task is cancelled instead of asked to finish.
CloseCancels ==
    /\ closer = "putting"
    /\ task' = "returned"
    /\ closer' = "awaiting"
    /\ UNCHANGED <<emitted, dropped, queue, hand, file>>

\* Waits for room.
ClosePuts ==
    /\ closer = "putting" /\ Len(queue) < queue_maxsize
    /\ queue' = Append(queue, Sentinel)
    /\ closer' = "awaiting"
    /\ UNCHANGED <<emitted, dropped, task, hand, file>>

\* The error of the task is raised here, before the file is closed.
CloseEnds ==
    /\ closer = "awaiting"
    /\ \/ task = "returned" /\ closer' = "closed"
       \/ task = "failed" /\ closer' = "raised"
    /\ UNCHANGED <<emitted, dropped, queue, task, hand, file>>

Closer == ClosePuts \/ CloseEnds
Drain == Get \/ WriteDone \/ WriteFails

\* The lifespan has ended, or waits for room that nobody makes.
Stopped ==
    /\ \/ closer \in {"closed", "raised"}
       \/ closer = "putting" /\ task = "failed" /\ Len(queue) = queue_maxsize
    /\ UNCHANGED vars

Next == Emit \/ Drain \/ Close \/ Closer \/ Stopped

Spec == Init /\ [][Next]_vars

\* The loop runs what is ready, a thread ends, and get() wakes the waiting put().
FairSpec == Spec /\ WF_vars(Drain) /\ WF_vars(Closer)
-----------------------------------------------------------------------------
(* What the sink must get right *)

\* The places of the queue that hold a sample.
Samples == {i \in DOMAIN queue : queue[i] # Sentinel}

\* The sample the task has taken out, and not stored.
InHand == task \in {"writing", "failed"}
in_hand == IF InHand THEN 1 ELSE 0

\* A sample is in the file, in the queue, on its way between them or counted as
\* dropped, at any moment and whatever fails: none is lost at a full queue.
EverySampleCounted ==
    emitted = dropped + Len(file) + Cardinality(Samples) + in_hand

\* A sink that closed has stored all that it has not counted as dropped.
ClosedSinkIsComplete == closer = "closed" => emitted = dropped + Len(file)

\* The file holds its samples in the order they were emitted, and none twice.
FileInOrder == \A i, j \in DOMAIN file : i < j => file[i] < file[j]

\* Closing comes to an end, unless a write error has ended the drain task: then
\* the sentinel may wait for ever for room in a queue that nobody drains.
CloseReturns == closer = "putting" ~> closer \in {"closed", "raised"} \/ task = "failed"
-----------------------------------------------------------------------------
(* The inductive invariant *)

\* The sentinel is put once, behind every sample, and ends the task.
SentinelOK ==
    /\ \A i \in DOMAIN queue :
          queue[i] = Sentinel => i = Len(queue) /\ closer \in {"awaiting", "raised"}
    /\ closer \in {"serving", "putting"} => task # "returned"
    /\ task = "returned" => queue = <<>> /\ closer \in {"awaiting", "closed"}
    /\ closer = "closed" => task = "returned"
    /\ closer = "raised" => task = "failed"
    /\ InHand => hand # Sentinel

\* The samples keep the order they were emitted in, from the queue to the file.
OrderOK ==
    /\ FileInOrder
    /\ \A i, j \in Samples : i < j => queue[i] < queue[j]
    /\ \A i \in Samples : queue[i] <= emitted
    /\ \A i \in DOMAIN file, j \in Samples : file[i] < queue[j]
    /\ \A i \in DOMAIN file : file[i] <= emitted /\ (InHand => file[i] < hand)
    /\ InHand => hand <= emitted /\ \A j \in Samples : hand < queue[j]

SinkInv == TypeOK /\ SentinelOK /\ OrderOK /\ EverySampleCounted
=============================================================================

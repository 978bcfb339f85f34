-------------------------- MODULE OriginSinkProofs --------------------------
(***************************************************************************)
(* Proofs that the origin's sample sink accounts for every sample and keeps *)
(* them in order, for every queue size and any number of samples, whether  *)
(* writes fail or not.                                                     *)
(***************************************************************************)
EXTENDS OriginSink, FiniteSetTheorems, SequenceTheorems, TLAPS

\* What the lemmas below know of the sequences of a state.
LEMMA SinkTyped ==
    ASSUME TypeOK
    PROVE  /\ queue \in Seq(Nat) /\ Len(queue) \in Nat /\ DOMAIN queue = 1 .. Len(queue)
           /\ \A i \in 1 .. Len(queue) : queue[i] \in 0 .. SampleBound
           /\ file \in Seq(Nat) /\ Len(file) \in Nat /\ DOMAIN file = 1 .. Len(file)
           /\ \A i \in 1 .. Len(file) : file[i] \in 1 .. SampleBound
           /\ emitted \in Nat /\ dropped \in Nat /\ hand \in Nat
           /\ SampleBound \in Nat /\ queue_maxsize \in Nat /\ queue_maxsize > 0
<1>1. SampleBound \in Nat /\ queue_maxsize \in Nat /\ queue_maxsize > 0
  BY SampleAssumption, MaxsizeAssumption
<1>2. queue \in Seq(0 .. SampleBound) /\ file \in Seq(1 .. SampleBound)
  BY DEF TypeOK
<1>3. queue \in Seq(Nat) /\ file \in Seq(Nat)
  <2>1. 0 .. SampleBound \subseteq Nat /\ 1 .. SampleBound \subseteq Nat
    BY <1>1
  <2>2. QED
    BY <1>2, <2>1, SeqMonotonic
<1>4. QED
  BY <1>1, <1>2, <1>3, LenProperties, ElementOfSeq DEF TypeOK

LEMMA IntervalCount ==
    ASSUME NEW n \in Nat
    PROVE  Cardinality(1 .. n) = n
<1>1. Cardinality(1 .. n) = IF 1 > n THEN 0 ELSE n - 1 + 1
  BY FS_Interval
<1>2. QED
  BY <1>1

\* All of the queue is samples, but for a sentinel at its end.
LEMMA SamplesCount ==
    ASSUME TypeOK, SentinelOK
    PROVE  /\ Cardinality(Samples) \in Nat
           /\ Sentinel \in {queue[i] : i \in DOMAIN queue}
              => Samples = 1 .. (Len(queue) - 1) /\ Cardinality(Samples) = Len(queue) - 1
           /\ Sentinel \notin {queue[i] : i \in DOMAIN queue}
              => Samples = 1 .. Len(queue) /\ Cardinality(Samples) = Len(queue)
<1>1. DOMAIN queue = 1 .. Len(queue) /\ Len(queue) \in Nat
  BY SinkTyped
<1>2. ASSUME NEW i \in DOMAIN queue, queue[i] = Sentinel
      PROVE  Samples = 1 .. (Len(queue) - 1) /\ Cardinality(Samples) = Len(queue) - 1
  <2>1. i = Len(queue) /\ Len(queue) - 1 \in Nat
    BY <1>1, <1>2 DEF SentinelOK
  <2>2. Samples = 1 .. (Len(queue) - 1)
    BY <1>1, <1>2, <2>1 DEF Samples, SentinelOK
  <2>3. QED
    BY <2>1, <2>2, IntervalCount
<1>3. ASSUME \A i \in DOMAIN queue : queue[i] # Sentinel
      PROVE  Samples = 1 .. Len(queue) /\ Cardinality(Samples) = Len(queue)
  <2>1. Samples = 1 .. Len(queue)
    BY <1>1, <1>3 DEF Samples
  <2>2. QED
    BY <1>1, <2>1, IntervalCount
<1>4. Cardinality(Samples) \in Nat
  BY <1>1, <1>2, <1>3
<1>5. QED
  BY <1>2, <1>3, <1>4
\* Where the samples are before a step.
LEMMA CountNow ==
    ASSUME SinkInv
    PROVE  /\ emitted = dropped + Len(file) + Cardinality(Samples) + in_hand
           /\ emitted \in Int /\ dropped \in Int /\ Len(file) \in Int
           /\ Cardinality(Samples) \in Int /\ in_hand \in Int
<1>1. emitted \in Int /\ dropped \in Int /\ Len(file) \in Int /\ Cardinality(Samples) \in Int
  BY SinkTyped, SamplesCount DEF SinkInv
<1>2. in_hand \in Int
  BY DEF in_hand
<1>3. QED
  BY <1>1, <1>2 DEF SinkInv, EverySampleCounted
-----------------------------------------------------------------------------
(* The invariant, action by action *)

LEMMA EmitStep ==
    ASSUME SinkInv, Emit
    PROVE  SinkInv'
<1>0. /\ emitted' = emitted + 1 /\ UNCHANGED <<task, hand, file, closer>>
      /\ closer = "serving" /\ emitted < SampleBound /\ task # "returned"
  BY DEF Emit, SinkInv, SentinelOK
<1>1. CASE queue' = queue /\ dropped' = dropped + 1
  <2>1. TypeOK'
    BY <1>0, <1>1, SinkTyped DEF SinkInv, TypeOK
  <2>2. SentinelOK'
    BY <1>0, <1>1 DEF SinkInv, SentinelOK, InHand
  <2>3. Samples' = Samples
    BY <1>1 DEF Samples
  <2>4. OrderOK'
    <3>1. /\ \A i \in Samples : queue[i] \in Nat
          /\ \A i \in DOMAIN file : file[i] \in Nat
      BY SinkTyped DEF SinkInv, Samples
    <3>2. QED
      BY <1>0, <1>1, <2>3, <3>1, SinkTyped DEF SinkInv, OrderOK, FileInOrder, InHand
  <2>5. EverySampleCounted'
    <3>1. in_hand' = in_hand /\ in_hand \in Int
      BY <1>0 DEF in_hand, InHand
    <3>2. QED
      BY <1>0, <1>1, <2>3, <3>1, CountNow DEF EverySampleCounted
  <2>6. QED
    BY <2>1, <2>2, <2>4, <2>5 DEF SinkInv
<1>2. CASE Len(queue) < queue_maxsize /\ queue' = Append(queue, emitted') /\ dropped' = dropped
  <2>1. /\ queue' \in Seq(0 .. SampleBound) /\ Len(queue') = Len(queue) + 1
        /\ \A i \in 1 .. Len(queue) : queue'[i] = queue[i]
        /\ queue'[Len(queue) + 1] = emitted + 1
    <3>1. queue \in Seq(0 .. SampleBound) /\ emitted + 1 \in 0 .. SampleBound
      BY <1>0, SinkTyped DEF SinkInv, TypeOK
    <3>2. QED
      BY <1>0, <1>2, <3>1, AppendProperties
  <2>2. TypeOK'
    BY <1>0, <1>2, <2>1, SinkTyped DEF SinkInv, TypeOK
  <2>3. /\ DOMAIN queue = 1 .. Len(queue) /\ Len(queue) \in Nat
        /\ DOMAIN queue' = 1 .. (Len(queue) + 1)
    BY <2>1, <2>2, SinkTyped, LenProperties DEF SinkInv
  <2>4. /\ \A i \in DOMAIN queue : queue[i] # Sentinel
        /\ \A i \in DOMAIN queue' : queue'[i] # Sentinel
    <3>1. \A i \in DOMAIN queue : queue[i] # Sentinel
      BY <1>0 DEF SinkInv, SentinelOK
    <3>2. emitted + 1 # Sentinel
      BY SinkTyped DEF Sentinel, SinkInv
    <3>3. QED
      BY <2>1, <2>3, <3>1, <3>2
  <2>5. SentinelOK'
    BY <1>0, <2>4 DEF SinkInv, SentinelOK, InHand
  <2>6. /\ Samples = 1 .. Len(queue) /\ Cardinality(Samples) = Len(queue)
        /\ Samples' = 1 .. (Len(queue) + 1) /\ Cardinality(Samples') = Len(queue) + 1
    <3>1. Samples = 1 .. Len(queue) /\ Samples' = 1 .. (Len(queue) + 1)
      BY <2>3, <2>4 DEF Samples
    <3>2. QED
      BY <2>3, <3>1, IntervalCount
  <2>7. OrderOK'
    <3>1. /\ \A i \in 1 .. Len(queue) : queue[i] \in Nat /\ queue[i] <= emitted
          /\ \A i \in DOMAIN file : file[i] \in Nat /\ file[i] <= emitted
          /\ emitted \in Nat /\ hand \in Nat /\ (InHand => hand <= emitted)
      BY <2>6, SinkTyped DEF SinkInv, OrderOK
    <3>2. \A i, j \in Samples' : i < j => queue'[i] < queue'[j]
      <4>1. ASSUME NEW i \in Samples', NEW j \in Samples', i < j
            PROVE  queue'[i] < queue'[j]
        <5>1. i \in 1 .. Len(queue)
          BY <2>3, <2>6, <4>1
        <5>2. CASE j \in 1 .. Len(queue)
          BY <2>1, <2>6, <4>1, <5>1, <5>2 DEF SinkInv, OrderOK
        <5>3. CASE j = Len(queue) + 1
          BY <2>1, <3>1, <5>1, <5>3
        <5>4. QED
          BY <2>3, <2>6, <5>2, <5>3
      <4>2. QED
        BY <4>1
    <3>3. \A i \in Samples' : \/ i \in Samples /\ queue'[i] = queue[i]
                              \/ queue'[i] = emitted + 1
      BY <2>1, <2>3, <2>6
    <3>4. \A i \in Samples' : queue'[i] <= emitted'
      BY <1>0, <2>6, <3>1, <3>3
    <3>5. \A i \in DOMAIN file, j \in Samples' : file[i] < queue'[j]
      BY <3>1, <3>3 DEF SinkInv, OrderOK
    <3>6. InHand => \A j \in Samples' : hand < queue'[j]
      BY <3>1, <3>3 DEF SinkInv, OrderOK
    <3>7. QED
      BY <1>0, <3>1, <3>2, <3>4, <3>5, <3>6 DEF SinkInv, OrderOK, FileInOrder, InHand
  <2>8. EverySampleCounted'
    <3>1. in_hand' = in_hand /\ in_hand \in Int
      BY <1>0 DEF in_hand, InHand
    <3>2. /\ Cardinality(Samples') = Cardinality(Samples) + 1
          /\ dropped' = dropped /\ emitted' = emitted + 1 /\ file' = file
      BY <1>0, <1>2, <2>6
    <3>3. QED
      BY <3>1, <3>2, CountNow DEF EverySampleCounted
  <2>9. QED
    BY <2>2, <2>5, <2>7, <2>8 DEF SinkInv
<1>3. QED
  BY <1>0, <1>1, <1>2 DEF Emit

LEMMA GetStep ==
    ASSUME SinkInv, Get
    PROVE  SinkInv'
<1>0. /\ task = "getting" /\ queue # <<>> /\ hand' = Head(queue) /\ queue' = Tail(queue)
      /\ task' = IF hand' = Sentinel THEN "returned" ELSE "writing"
      /\ UNCHANGED <<emitted, dropped, file, closer>>
  BY DEF Get
<1>1. /\ queue' \in Seq(0 .. SampleBound) /\ Len(queue') = Len(queue) - 1 /\ Len(queue) \in Nat
      /\ DOMAIN queue = 1 .. Len(queue) /\ DOMAIN queue' = 1 .. (Len(queue) - 1)
      /\ \A i \in 1 .. (Len(queue) - 1) : queue'[i] = queue[i + 1]
      /\ hand' = queue[1] /\ hand' \in 0 .. SampleBound /\ Len(queue) > 0
  <2>1. queue \in Seq(0 .. SampleBound)
    BY DEF SinkInv, TypeOK
  <2>2. /\ queue' \in Seq(0 .. SampleBound) /\ Len(queue') = Len(queue) - 1
        /\ \A i \in 1 .. (Len(queue) - 1) : queue'[i] = queue[i + 1]
        /\ hand' \in 0 .. SampleBound
    BY <1>0, <2>1, HeadTailProperties
  <2>3. Len(queue) \in Nat /\ Len(queue) > 0 /\ DOMAIN queue = 1 .. Len(queue)
    BY <1>0, <2>1, EmptySeq, LenProperties
  <2>4. DOMAIN queue' = 1 .. (Len(queue) - 1)
    BY <2>2, LenProperties
  <2>5. hand' = queue[1]
    BY <1>0, <2>1
  <2>6. QED
    BY <2>2, <2>3, <2>4, <2>5
<1>2. TypeOK'
  BY <1>0, <1>1, SinkTyped DEF SinkInv, TypeOK
<1>3. ~InHand /\ in_hand = 0
  BY <1>0 DEF InHand, in_hand
<1>4. CASE hand' = Sentinel
  <2>1. Len(queue) = 1 /\ closer \in {"awaiting", "raised"}
    <3>1. 1 \in DOMAIN queue /\ queue[1] = Sentinel
      BY <1>1, <1>4
    <3>2. QED
      BY <3>1 DEF SinkInv, SentinelOK
  <2>2. queue' = <<>> /\ Samples' = {}
    BY <1>1, <2>1, EmptySeq DEF Samples
  <2>3. task' = "returned" /\ ~InHand' /\ in_hand' = 0
    BY <1>0, <1>4 DEF InHand, in_hand
  <2>4. closer = "awaiting"
    BY <1>0, <2>1 DEF SinkInv, SentinelOK
  <2>5. SentinelOK'
    BY <1>0, <2>2, <2>3, <2>4 DEF SentinelOK
  <2>6. OrderOK'
    BY <1>0, <2>2, <2>3 DEF SinkInv, OrderOK, FileInOrder
  <2>7. Cardinality(Samples) = 0 /\ Cardinality(Samples') = 0
    <3>1. DOMAIN queue = {1} /\ queue[1] = Sentinel
      BY <1>1, <1>4, <2>1
    <3>2. Samples = {}
      BY <3>1 DEF Samples
    <3>3. QED
      BY <2>2, <3>2, FS_EmptySet
  <2>8. EverySampleCounted'
    BY <1>0, <1>3, <2>3, <2>7, CountNow DEF EverySampleCounted
  <2>9. QED
    BY <1>2, <2>5, <2>6, <2>8 DEF SinkInv
<1>5. CASE hand' # Sentinel
  <2>1. task' = "writing" /\ InHand' /\ in_hand' = 1
    BY <1>0, <1>5 DEF InHand, in_hand
  <2>2. 1 \in Samples
    BY <1>1, <1>5 DEF Samples
  <2>3. \A i \in Samples' : i + 1 \in Samples /\ queue'[i] = queue[i + 1] /\ i \in Nat \ {0}
    BY <1>1 DEF Samples
  <2>4. SentinelOK'
    <3>1. \A i \in DOMAIN queue' : queue'[i] = Sentinel =>
              i = Len(queue') /\ closer \in {"awaiting", "raised"}
      BY <1>1 DEF SinkInv, SentinelOK
    <3>2. closer \notin {"closed", "raised"}
      BY <1>0 DEF SinkInv, SentinelOK
    <3>3. QED
      BY <1>0, <1>5, <2>1, <3>1, <3>2 DEF SentinelOK
  <2>5. OrderOK'
    <3>1. /\ \A i, j \in Samples' : i < j => queue'[i] < queue'[j]
          /\ \A i \in Samples' : queue'[i] <= emitted
          /\ \A i \in DOMAIN file, j \in Samples' : file[i] < queue'[j]
      BY <2>3 DEF SinkInv, OrderOK
    <3>2. /\ hand' <= emitted /\ \A j \in Samples' : hand' < queue'[j]
          /\ \A i \in DOMAIN file : file[i] < hand'
      BY <1>1, <2>2, <2>3 DEF SinkInv, OrderOK
    <3>3. QED
      BY <1>0, <3>1, <3>2 DEF SinkInv, OrderOK, FileInOrder
  <2>6. Cardinality(Samples) = Cardinality(Samples') + 1 /\ Cardinality(Samples') \in Int
    <3>1. CASE Sentinel \in {queue[i] : i \in DOMAIN queue}
      <4>1. Samples = 1 .. (Len(queue) - 1) /\ Cardinality(Samples) = Len(queue) - 1
        BY <3>1, SamplesCount DEF SinkInv
      <4>2. Len(queue) - 2 \in Nat
        BY <1>1, <2>2, <4>1
      <4>3. Samples' = 1 .. (Len(queue) - 2)
        <5>1. \A i \in 1 .. (Len(queue) - 1) : i \in Samples' <=> i + 1 \in Samples
          BY <1>1 DEF Samples
        <5>2. Samples' \subseteq 1 .. (Len(queue) - 1)
          BY <1>1 DEF Samples
        <5>3. \A i \in 1 .. (Len(queue) - 1) : i + 1 \in Samples <=> i \in 1 .. (Len(queue) - 2)
          BY <1>1, <4>1
        <5>4. 1 .. (Len(queue) - 2) \subseteq 1 .. (Len(queue) - 1)
          BY <1>1
        <5>5. QED
          BY <5>1, <5>2, <5>3, <5>4
      <4>4. Cardinality(Samples') = Len(queue) - 2
        BY <4>2, <4>3, IntervalCount
      <4>5. QED
        BY <1>1, <4>1, <4>4
    <3>2. CASE Sentinel \notin {queue[i] : i \in DOMAIN queue}
      <4>1. Samples = 1 .. Len(queue) /\ Cardinality(Samples) = Len(queue)
        BY <3>2, SamplesCount DEF SinkInv
      <4>2. Samples' = 1 .. (Len(queue) - 1) /\ Len(queue) - 1 \in Nat
        <5>1. \A i \in 1 .. (Len(queue) - 1) : i \in Samples' <=> i + 1 \in Samples
          BY <1>1 DEF Samples
        <5>2. Samples' \subseteq 1 .. (Len(queue) - 1)
          BY <1>1 DEF Samples
        <5>3. \A i \in 1 .. (Len(queue) - 1) : i + 1 \in Samples
          BY <1>1, <4>1
        <5>4. Len(queue) - 1 \in Nat
          BY <1>1
        <5>5. QED
          BY <5>1, <5>2, <5>3, <5>4
      <4>3. Cardinality(Samples') = Len(queue) - 1
        BY <4>2, IntervalCount
      <4>4. QED
        BY <1>1, <4>1, <4>3
    <3>3. QED
      BY <3>1, <3>2
  <2>7. EverySampleCounted'
    BY <1>0, <1>3, <2>1, <2>6, CountNow DEF EverySampleCounted
  <2>8. QED
    BY <1>2, <2>4, <2>5, <2>7 DEF SinkInv
<1>6. QED
  BY <1>4, <1>5

LEMMA WriteStep ==
    ASSUME SinkInv, WriteDone \/ WriteFails
    PROVE  SinkInv'
<1>1. CASE WriteDone
  <2>0. /\ task = "writing" /\ file' = Append(file, hand) /\ task' = "getting" /\ hand' = 0
        /\ UNCHANGED <<emitted, dropped, queue, closer>>
    BY <1>1 DEF WriteDone
  <2>1. /\ InHand /\ in_hand = 1 /\ ~InHand' /\ in_hand' = 0 /\ Samples' = Samples
    BY <2>0 DEF InHand, in_hand, Samples
  <2>2. hand \in 1 .. SampleBound
    BY <2>1, SinkTyped DEF SinkInv, TypeOK, SentinelOK, Sentinel
  <2>3. /\ file' \in Seq(1 .. SampleBound) /\ Len(file') = Len(file) + 1 /\ Len(file) \in Nat
        /\ \A i \in 1 .. Len(file) : file'[i] = file[i]
        /\ file'[Len(file) + 1] = hand
        /\ DOMAIN file = 1 .. Len(file) /\ DOMAIN file' = 1 .. (Len(file) + 1)
    <3>1. file \in Seq(1 .. SampleBound)
      BY DEF SinkInv, TypeOK
    <3>2. /\ file' \in Seq(1 .. SampleBound) /\ Len(file') = Len(file) + 1
          /\ \A i \in 1 .. Len(file) : file'[i] = file[i]
          /\ file'[Len(file) + 1] = hand
      BY <2>0, <2>2, <3>1, AppendProperties
    <3>3. QED
      BY <3>1, <3>2, LenProperties
  <2>4. TypeOK'
    BY <2>0, <2>3, SinkTyped DEF SinkInv, TypeOK
  <2>5. SentinelOK'
    BY <2>0, <2>1 DEF SinkInv, SentinelOK
  <2>6. OrderOK'
    <3>1. \A i \in DOMAIN file' : \/ i \in DOMAIN file /\ file'[i] = file[i] /\ file[i] < hand
                                  \/ i = Len(file) + 1 /\ file'[i] = hand
      BY <2>1, <2>3 DEF SinkInv, OrderOK
    <3>2. FileInOrder'
      <4>1. ASSUME NEW i \in DOMAIN file', NEW j \in DOMAIN file', i < j
            PROVE  file'[i] < file'[j]
        <5>1. i \in DOMAIN file
          BY <2>3, <4>1
        <5>2. CASE j \in DOMAIN file
          BY <2>3, <4>1, <5>1, <5>2 DEF SinkInv, OrderOK, FileInOrder
        <5>3. CASE j = Len(file) + 1
          BY <2>3, <3>1, <5>1, <5>3
        <5>4. QED
          BY <2>3, <5>2, <5>3
      <4>2. QED
        BY <4>1 DEF FileInOrder
    <3>3. hand <= emitted /\ \A j \in Samples : hand < queue[j]
      BY <2>1 DEF SinkInv, OrderOK
    <3>4. QED
      BY <2>0, <2>1, <3>1, <3>2, <3>3 DEF SinkInv, OrderOK
  <2>7. EverySampleCounted'
    BY <2>0, <2>1, <2>3, CountNow DEF EverySampleCounted
  <2>8. QED
    BY <2>4, <2>5, <2>6, <2>7 DEF SinkInv
<1>2. CASE WriteFails
  <2>1. /\ task = "writing" /\ task' = "failed"
        /\ UNCHANGED <<emitted, dropped, queue, hand, file, closer>>
    BY <1>2 DEF WriteFails
  <2>2. InHand /\ InHand' /\ in_hand' = in_hand /\ Samples' = Samples
    BY <2>1 DEF InHand, in_hand, Samples
  <2>3. TypeOK' /\ SentinelOK'
    BY <2>1, <2>2 DEF SinkInv, TypeOK, SentinelOK
  <2>4. OrderOK'
    BY <2>1, <2>2 DEF SinkInv, OrderOK, FileInOrder
  <2>5. EverySampleCounted'
    BY <2>1, <2>2, CountNow DEF EverySampleCounted
  <2>6. QED
    BY <2>3, <2>4, <2>5 DEF SinkInv
<1>3. QED
  BY <1>1, <1>2

LEMMA CloserStep ==
    ASSUME SinkInv, Close \/ Closer
    PROVE  SinkInv'
<1>1. CASE Close \/ CloseEnds
  <2>1. UNCHANGED <<emitted, dropped, queue, task, hand, file>>
    BY <1>1 DEF Close, CloseEnds
  <2>2. InHand' = InHand /\ in_hand' = in_hand /\ Samples' = Samples
    BY <2>1 DEF InHand, in_hand, Samples
  <2>3. TypeOK'
    BY <1>1, <2>1 DEF Close, CloseEnds, SinkInv, TypeOK
  <2>4. SentinelOK'
    BY <1>1, <2>1, <2>2 DEF Close, CloseEnds, SinkInv, SentinelOK
  <2>5. OrderOK'
    BY <2>1, <2>2 DEF SinkInv, OrderOK, FileInOrder
  <2>6. EverySampleCounted'
    BY <2>1, <2>2, CountNow DEF EverySampleCounted
  <2>7. QED
    BY <2>3, <2>4, <2>5, <2>6 DEF SinkInv
<1>2. CASE ClosePuts
  <2>0. /\ closer = "putting" /\ Len(queue) < queue_maxsize /\ queue' = Append(queue, Sentinel)
        /\ closer' = "awaiting" /\ UNCHANGED <<emitted, dropped, task, hand, file>>
    BY <1>2 DEF ClosePuts
  <2>1. /\ queue' \in Seq(0 .. SampleBound) /\ Len(queue') = Len(queue) + 1 /\ Len(queue) \in Nat
        /\ \A i \in 1 .. Len(queue) : queue'[i] = queue[i]
        /\ queue'[Len(queue) + 1] = Sentinel
        /\ DOMAIN queue = 1 .. Len(queue) /\ DOMAIN queue' = 1 .. (Len(queue) + 1)
    <3>1. queue \in Seq(0 .. SampleBound) /\ Sentinel \in 0 .. SampleBound
      BY SinkTyped DEF SinkInv, TypeOK, Sentinel
    <3>2. /\ queue' \in Seq(0 .. SampleBound) /\ Len(queue') = Len(queue) + 1
          /\ \A i \in 1 .. Len(queue) : queue'[i] = queue[i]
          /\ queue'[Len(queue) + 1] = Sentinel
      BY <2>0, <3>1, AppendProperties
    <3>3. QED
      BY <3>1, <3>2, LenProperties
  <2>2. /\ \A i \in DOMAIN queue : queue[i] # Sentinel
        /\ task # "returned"
    BY <2>0 DEF SinkInv, SentinelOK
  <2>3. Samples' = Samples
    BY <2>1, <2>2 DEF Samples
  <2>4. InHand' = InHand /\ in_hand' = in_hand
    BY <2>0 DEF InHand, in_hand
  <2>5. TypeOK'
    BY <2>0, <2>1, SinkTyped DEF SinkInv, TypeOK
  <2>6. SentinelOK'
    <3>1. \A i \in DOMAIN queue' : queue'[i] = Sentinel => i = Len(queue')
      BY <2>1, <2>2
    <3>2. QED
      BY <2>0, <2>2, <2>4, <3>1 DEF SinkInv, SentinelOK
  <2>7. OrderOK'
    <3>1. \A i \in Samples : queue'[i] = queue[i]
      BY <2>1 DEF Samples
    <3>2. QED
      BY <2>0, <2>3, <2>4, <3>1 DEF SinkInv, OrderOK, FileInOrder
  <2>8. EverySampleCounted'
    BY <2>0, <2>3, <2>4, CountNow DEF EverySampleCounted
  <2>9. QED
    BY <2>5, <2>6, <2>7, <2>8 DEF SinkInv
<1>3. QED
  BY <1>1, <1>2 DEF Closer
-----------------------------------------------------------------------------
(* The theorems *)

LEMMA SinkInvInit == Init => SinkInv
<1> SUFFICES ASSUME Init PROVE SinkInv
  OBVIOUS
<1>1. queue = <<>> /\ file = <<>> /\ Samples = {} /\ ~InHand
  BY DEF Init, Samples, InHand
<1>2. TypeOK
  BY <1>1, SampleAssumption, MaxsizeAssumption, EmptySeq DEF Init, TypeOK
<1>3. SentinelOK
  BY <1>1 DEF Init, SentinelOK
<1>4. OrderOK
  BY <1>1 DEF OrderOK, FileInOrder
<1>5. EverySampleCounted
  BY <1>1, FS_EmptySet, EmptySeq DEF Init, EverySampleCounted, in_hand
<1>6. QED
  BY <1>2, <1>3, <1>4, <1>5 DEF SinkInv

LEMMA SinkInvStep == SinkInv /\ [Next]_vars => SinkInv'
<1> SUFFICES ASSUME SinkInv, [Next]_vars PROVE SinkInv'
  OBVIOUS
<1>1. CASE UNCHANGED vars
  <2>1. UNCHANGED <<emitted, dropped, queue, task, hand, file, closer>>
    BY <1>1 DEF vars
  <2>2. InHand' = InHand /\ in_hand' = in_hand /\ Samples' = Samples
    BY <2>1 DEF InHand, in_hand, Samples
  <2>3. TypeOK' /\ SentinelOK'
    BY <2>1, <2>2 DEF SinkInv, TypeOK, SentinelOK
  <2>4. OrderOK' /\ EverySampleCounted'
    BY <2>1, <2>2 DEF SinkInv, OrderOK, FileInOrder, EverySampleCounted
  <2>5. QED
    BY <2>3, <2>4 DEF SinkInv
<1>2. QED
  BY <1>1, EmitStep, GetStep, WriteStep, CloserStep DEF Next, Drain, Stopped

\* The sink's queue never holds more than its maxsize, its sentinel included,
\* and its counters and lines keep their types.
THEOREM SinkTypeCorrect == Spec => []TypeOK
<1>1. SinkInv => TypeOK
  BY DEF SinkInv
<1>2. QED
  BY <1>1, SinkInvInit, SinkInvStep, PTL DEF Spec

\* No sample disappears at a full queue, between the queue and the file, or when
\* a write fails: each is stored, on its way or counted as dropped.
THEOREM SamplesAccountedFor == Spec => []EverySampleCounted
<1>1. SinkInv => EverySampleCounted
  BY DEF SinkInv
<1>2. QED
  BY <1>1, SinkInvInit, SinkInvStep, PTL DEF Spec

\* The sentinel comes behind the last sample, so the task returns to a closing
\* lifespan only when everything before it is in the file.
THEOREM CloseIsComplete == Spec => []ClosedSinkIsComplete
<1>1. ASSUME SinkInv, closer = "closed"
      PROVE  emitted = dropped + Len(file)
  <2>1. task = "returned" /\ queue = <<>>
    BY <1>1 DEF SinkInv, SentinelOK
  <2>2. Samples = {} /\ in_hand = 0
    BY <2>1 DEF Samples, in_hand, InHand
  <2>3. QED
    BY <1>1, <2>2, CountNow, FS_EmptySet
<1>2. SinkInv => ClosedSinkIsComplete
  BY <1>1 DEF ClosedSinkIsComplete
<1>3. QED
  BY <1>2, SinkInvInit, SinkInvStep, PTL DEF Spec

\* The drain task writes one line at a time, so the file keeps the order in
\* which the sampler emitted, whatever was dropped in between.
THEOREM FileKeepsOrder == Spec => []FileInOrder
<1>1. SinkInv => FileInOrder
  BY DEF SinkInv, OrderOK
<1>2. QED
  BY <1>1, SinkInvInit, SinkInvStep, PTL DEF Spec
=============================================================================

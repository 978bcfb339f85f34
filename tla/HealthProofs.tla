---------------------------- MODULE HealthProofs ----------------------------
(***************************************************************************)
(* The ring of health.py counts exactly what it should, for every number   *)
(* of buckets, latencies and observations.                                 *)
(***************************************************************************)
EXTENDS HealthRing, FiniteSetTheorems, WellFoundedInduction, TLAPS

\* Two epochs of one window that share a place of the ring are the same.
LEMMA OneEpochPerPlace ==
    ASSUME NEW n \in Nat \ {0}, NEW a \in Nat, NEW b \in Nat,
           b - n < a, a <= b, a % n = b % n
    PROVE  a = b
<1>1. PICK q \in Int : a = n * q + (a % n)
  <2>1. a = n * (a \div n) + (a % n) /\ a \div n \in Int
    BY Z3
  <2> QED
    BY <2>1
<1>2. PICK s \in Int : b = n * s + (b % n)
  <2>1. b = n * (b \div n) + (b % n) /\ b \div n \in Int
    BY Z3
  <2> QED
    BY <2>1
<1>3. PICK m \in Int : m = a % n
  OBVIOUS
<1>4. n * s - n * q = n * (s - q)
  OBVIOUS
<1>5. PICK d \in Int : d = s - q
  OBVIOUS
<1>6. b - a = n * d
  <2>1. b - a = n * s - n * q
    BY <1>1, <1>2, <1>3
  <2> QED
    BY <2>1, <1>4, <1>5
<1>7. d = 0
  BY <1>6
<1> QED
  BY <1>6, <1>7

\* The observations of one epoch and outcome, and those of one latency.
Of(S, e, what) == {o \in S : o.epoch = e /\ o.what = what}
Took(S, e, l) == {o \in S : o.epoch = e /\ o.what = "served" /\ o.ms = l}

\* Describes, set by set.
LEMMA DescribesSets ==
    ASSUME NEW b, NEW S
    PROVE  Describes(b, S) <=>
             /\ b.served = Cardinality(Of(S, b.epoch, "served"))
             /\ b.errors = Cardinality(Of(S, b.epoch, "rejected"))
             /\ b.rejected = Cardinality(Of(S, b.epoch, "rejected"))
             /\ b.abandoned = Cardinality(Of(S, b.epoch, "abandoned"))
             /\ \A l \in Latency : b.hist[l] = Cardinality(Took(S, b.epoch, l))
<1> DEFINE own == {o \in S : o.epoch = b.epoch}
<1>1. \A what : Those(what, own) = Of(S, b.epoch, what)
  BY DEF Those, Of
<1>2. \A l : {o \in Those("served", own) : o.ms = l} = Took(S, b.epoch, l)
  BY DEF Those, Took
<1> QED
  BY <1>1, <1>2 DEF Describes

\* Sets of observations are finite, and grow by one or not at all.
LEMMA OneMore ==
    ASSUME NEW S, IsFiniteSet(S), NEW x, x \notin S, NEW e, NEW what
    PROVE  /\ Cardinality(Of(S, e, what)) \in Nat
           /\ Cardinality(Of(S \cup {x}, e, what)) =
                Cardinality(Of(S, e, what)) + (IF x.epoch = e /\ x.what = what THEN 1 ELSE 0)
<1>1. IsFiniteSet(Of(S, e, what)) /\ x \notin Of(S, e, what)
  BY FS_Subset DEF Of
<1>2. CASE x.epoch = e /\ x.what = what
  <2>1. Of(S \cup {x}, e, what) = Of(S, e, what) \cup {x}
    BY <1>2 DEF Of
  <2>2. PICK T : T = Of(S, e, what)
    OBVIOUS
  <2>3. Cardinality(T \cup {x}) = Cardinality(T) + 1 /\ Cardinality(T) \in Nat
    BY <1>1, <2>2, FS_AddElement, FS_CardinalityType
  <2> QED
    BY <1>2, <2>1, <2>2, <2>3
<1>3. CASE ~ (x.epoch = e /\ x.what = what)
  <2>1. Of(S \cup {x}, e, what) = Of(S, e, what)
    BY <1>3 DEF Of
  <2> QED
    BY <1>1, <1>3, <2>1, FS_CardinalityType
<1> QED
  BY <1>2, <1>3

\* The same of one latency.
LEMMA OneMoreTook ==
    ASSUME NEW S, IsFiniteSet(S), NEW x, x \notin S, NEW e, NEW l
    PROVE  /\ Cardinality(Took(S, e, l)) \in Nat
           /\ Cardinality(Took(S \cup {x}, e, l)) =
                Cardinality(Took(S, e, l))
                + (IF x.epoch = e /\ x.what = "served" /\ x.ms = l THEN 1 ELSE 0)
<1>1. IsFiniteSet(Took(S, e, l)) /\ x \notin Took(S, e, l)
  BY FS_Subset DEF Took
<1>2. CASE x.epoch = e /\ x.what = "served" /\ x.ms = l
  <2>1. Took(S \cup {x}, e, l) = Took(S, e, l) \cup {x}
    BY <1>2 DEF Took
  <2>2. PICK T : T = Took(S, e, l)
    OBVIOUS
  <2>3. Cardinality(T \cup {x}) = Cardinality(T) + 1 /\ Cardinality(T) \in Nat
    BY <1>1, <2>2, FS_AddElement, FS_CardinalityType
  <2> QED
    BY <1>2, <2>1, <2>2, <2>3
<1>3. CASE ~ (x.epoch = e /\ x.what = "served" /\ x.ms = l)
  <2>1. Took(S \cup {x}, e, l) = Took(S, e, l)
    BY <1>3 DEF Took
  <2> QED
    BY <1>1, <1>3, <2>1, FS_CardinalityType
<1> QED
  BY <1>2, <1>3
-----------------------------------------------------------------------------
\* An observation of another epoch is none of a bucket's business.
LEMMA OtherBucket ==
    ASSUME NEW b, NEW S, IsFiniteSet(S), NEW x, x \notin S,
           x.epoch # b.epoch, Describes(b, S)
    PROVE  Describes(b, S \cup {x})
<1>1. \A what : Of(S \cup {x}, b.epoch, what) = Of(S, b.epoch, what)
  BY DEF Of
<1>2. \A l : Took(S \cup {x}, b.epoch, l) = Took(S, b.epoch, l)
  BY DEF Took
<1> QED
  BY <1>1, <1>2, DescribesSets

\* A bucket that is reset describes an epoch without observations.
LEMMA FreshBucket ==
    ASSUME NEW e \in Nat \cup {-1}, NEW S, \A o \in S : o.epoch # e
    PROVE  Fresh(e) \in Bucket /\ Fresh(e).epoch = e /\ Describes(Fresh(e), S)
<1>1. Fresh(e) \in Bucket /\ Fresh(e).epoch = e
  BY DEF Fresh, Bucket
<1>2. \A what : Of(S, e, what) = {}
  BY DEF Of
<1>3. \A l : Took(S, e, l) = {}
  BY DEF Took
<1>4. Describes(Fresh(e), S)
  BY <1>1, <1>2, <1>3, DescribesSets, FS_EmptySet DEF Fresh
<1> QED
  BY <1>1, <1>4

\* What an observation adds to the bucket of its epoch.
Adds(b, x, c) ==
    /\ x.epoch = b.epoch /\ c.epoch = b.epoch /\ c \in Bucket
    /\ x.what \in Outcomes
    /\ c.served = b.served + (IF x.what = "served" THEN 1 ELSE 0)
    /\ c.errors = b.errors + (IF x.what = "rejected" THEN 1 ELSE 0)
    /\ c.rejected = b.rejected + (IF x.what = "rejected" THEN 1 ELSE 0)
    /\ c.abandoned = b.abandoned + (IF x.what = "abandoned" THEN 1 ELSE 0)
    /\ \A l \in Latency :
          c.hist[l] = b.hist[l] + (IF x.what = "served" /\ x.ms = l THEN 1 ELSE 0)

\* A bucket that is updated so describes the observations with the new one.
LEMMA UpdatedBucket ==
    ASSUME NEW b \in Bucket, NEW c, NEW S, IsFiniteSet(S), NEW x, x \notin S,
           Describes(b, S), Adds(b, x, c)
    PROVE  Describes(c, S \cup {x})
<1> DEFINE e == b.epoch
           T == S \cup {x}
<1>1. c.epoch = e /\ x.epoch = e
  BY DEF Adds
<1>2. c.served = Cardinality(Of(T, e, "served"))
  BY <1>1, OneMore, DescribesSets DEF Adds
<1>3. c.errors = Cardinality(Of(T, e, "rejected"))
  BY <1>1, OneMore, DescribesSets DEF Adds
<1>4. c.rejected = Cardinality(Of(T, e, "rejected"))
  BY <1>1, OneMore, DescribesSets DEF Adds
<1>5. c.abandoned = Cardinality(Of(T, e, "abandoned"))
  BY <1>1, OneMore, DescribesSets DEF Adds
<1>6. ASSUME NEW l \in Latency
      PROVE  c.hist[l] = Cardinality(Took(T, e, l))
  <2>1. b.hist[l] = Cardinality(Took(S, e, l))
    BY DescribesSets
  <2>2. c.hist[l] = b.hist[l] + (IF x.what = "served" /\ x.ms = l THEN 1 ELSE 0)
    BY DEF Adds
  <2> QED
    BY <1>1, <2>1, <2>2, OneMoreTook
<1> QED
  BY <1>1, <1>2, <1>3, <1>4, <1>5, <1>6, DescribesSets

\* _current returns a bucket of this epoch that counts what was seen in it.
LEMMA CurrentBucket ==
    ASSUME RingInv
    PROVE  Current \in Bucket /\ Current.epoch = now /\ Describes(Current, seen)
<1> DEFINE i == now % n_buckets
<1>1. i \in DOMAIN buckets /\ i \in 0 .. n_buckets - 1
  BY RingAssumption DEF RingInv, TypeOK
<1>2. CASE buckets[i].epoch = now
  BY <1>1, <1>2 DEF RingInv, TypeOK, RingOK, Current
<1>3. CASE buckets[i].epoch # now
  <2>1. now - n_buckets < now /\ now \in Nat
    BY RingAssumption DEF RingInv, TypeOK
  <2>2. \A o \in seen : o.epoch # now
    BY <1>3, <2>1 DEF RingInv, RingOK
  <2> QED
    BY <1>3, <2>1, <2>2, FreshBucket DEF Current
<1> QED
  BY <1>2, <1>3

\* An observation keeps the invariant if its bucket is updated as Adds says.
LEMMA ObservationKeeps ==
    ASSUME RingInv, NEW what \in Outcomes, NEW ms \in Latency \cup {0}, NEW c,
           what = "served" => ms \in Latency, Observe(what, ms, c),
           Adds(Current, [id |-> Cardinality(seen), epoch |-> now, what |-> what, ms |-> ms], c)
    PROVE  RingInv'
<1> DEFINE x == [id |-> Cardinality(seen), epoch |-> now, what |-> what, ms |-> ms]
           i == now % n_buckets
<1>1. /\ now' = now /\ now \in Nat /\ seen' = seen \cup {x}
      /\ buckets' = [buckets EXCEPT ![i] = c]
      /\ i \in 0 .. n_buckets - 1 /\ n_buckets \in Nat \ {0}
      /\ IsFiniteSet(seen) /\ Cardinality(seen) \in Nat
  BY RingAssumption, FS_CardinalityType DEF Observe, RingInv, TypeOK, SeenOK
<1>2. x \notin seen
  BY <1>1 DEF RingInv, SeenOK
<1>3. c \in Bucket /\ c.epoch = now /\ Describes(c, seen')
  <2>1. Describes(c, seen \cup {x})
    BY <1>1, <1>2, CurrentBucket, UpdatedBucket
  <2> QED
    BY <1>1, <2>1, CurrentBucket DEF Adds
<1>4. TypeOK'
  <2>1. x \in Observation
    BY <1>1 DEF Observation
  <2>2. buckets' \in [0 .. n_buckets - 1 -> Bucket]
    BY <1>1, <1>3 DEF RingInv, TypeOK
  <2>3. \A k \in DOMAIN buckets' : buckets'[k].epoch <= now'
    BY <1>1, <1>3 DEF RingInv, TypeOK
  <2> QED
    BY <1>1, <2>1, <2>2, <2>3 DEF RingInv, TypeOK
<1>5. SeenOK'
  <2>1. IsFiniteSet(seen') /\ Cardinality(seen') = Cardinality(seen) + 1
    BY <1>1, <1>2, FS_AddElement
  <2>2. ASSUME NEW o \in seen
        PROVE  o.id < Cardinality(seen) + 1 /\ o.epoch <= now
    <3>1. o.id \in Nat /\ o.id < Cardinality(seen) /\ o.epoch <= now
      BY DEF RingInv, SeenOK, TypeOK, Observation
    <3> QED
      BY <1>1, <3>1
  <2>3. x.id < Cardinality(seen) + 1 /\ x.epoch <= now
    BY <1>1
  <2>4. \A o \in Those("served", seen') : o.ms \in Latency
    BY <1>1 DEF RingInv, SeenOK, Those
  <2> QED
    BY <1>1, <2>1, <2>2, <2>3, <2>4 DEF SeenOK
<1>6. ASSUME NEW k \in DOMAIN buckets'
      PROVE  /\ buckets'[k].epoch # -1 => buckets'[k].epoch % n_buckets = k
             /\ Describes(buckets'[k], seen')
  <2>1. k \in DOMAIN buckets /\ k \in 0 .. n_buckets - 1
    BY <1>1, <1>6 DEF RingInv, TypeOK
  <2>2. CASE k = i
    BY <1>1, <1>3, <2>1, <2>2 DEF RingInv, TypeOK
  <2>3. CASE k # i
    <3>1. buckets'[k] = buckets[k] /\ buckets[k].epoch # now
      BY <1>1, <2>1, <2>3 DEF RingInv, RingOK
    <3>2. Describes(buckets[k], seen)
      BY <2>1 DEF RingInv, RingOK
    <3>3. Describes(buckets[k], seen \cup {x})
      BY <1>1, <1>2, <3>1, <3>2, OtherBucket
    <3> QED
      BY <1>1, <2>1, <3>1, <3>3 DEF RingInv, RingOK
  <2> QED
    BY <2>2, <2>3
<1>7. ASSUME NEW o \in seen', o.epoch > now' - n_buckets
      PROVE  buckets'[o.epoch % n_buckets].epoch = o.epoch
  <2>1. CASE o = x
    BY <1>1, <1>3, <2>1 DEF RingInv, TypeOK
  <2>2. CASE o \in seen
    <3>1. o.epoch \in Nat /\ o.epoch <= now /\ now - n_buckets < o.epoch
      BY <1>1, <1>7, <2>2 DEF RingInv, TypeOK, SeenOK, Observation
    <3>2. buckets[o.epoch % n_buckets].epoch = o.epoch
      BY <3>1, <1>1, <2>2, <1>7 DEF RingInv, RingOK
    <3>3. CASE o.epoch % n_buckets = i
      BY <1>1, <1>3, <3>1, <3>3, OneEpochPerPlace DEF RingInv, TypeOK
    <3>4. CASE o.epoch % n_buckets # i
      BY <1>1, <3>1, <3>2, <3>4 DEF RingInv, TypeOK
    <3> QED
      BY <3>3, <3>4
  <2> QED
    BY <1>1, <2>1, <2>2
<1> QED
  BY <1>4, <1>5, <1>6, <1>7 DEF RingInv, RingOK
-----------------------------------------------------------------------------
\* The ring is right when the tracker is made.
LEMMA RingInvInit == Init => RingInv
<1> SUFFICES ASSUME Init PROVE RingInv
  OBVIOUS
<1>1. Fresh(-1) \in Bucket /\ Fresh(-1).epoch = -1 /\ Describes(Fresh(-1), {})
  BY FreshBucket
<1>2. IsFiniteSet({})
  BY FS_EmptySet
<1>3. TypeOK
  BY <1>1 DEF Init, TypeOK
<1>4. SeenOK
  BY <1>2 DEF Init, SeenOK, Those
<1>5. RingOK
  BY <1>1 DEF Init, RingOK
<1> QED
  BY <1>3, <1>4, <1>5 DEF RingInv

\* Every observation, and the time that passes between them, keeps it right.
LEMMA RingInvStep ==
    ASSUME RingInv, [Next]_vars
    PROVE  RingInv'
<1>1. /\ Current \in Bucket /\ Current.epoch = now /\ now \in Nat
      /\ n_buckets \in Nat
  BY CurrentBucket, RingAssumption DEF RingInv, TypeOK
<1>2. ASSUME NEW ms \in Latency, RecordServed(ms) PROVE RingInv'
  <2>1. PICK b \in Bucket : b = Current
    BY <1>1
  <2>2. PICK c : c = [b EXCEPT !.served = @ + 1, !.hist[ms] = @ + 1]
    OBVIOUS
  <2>3. Observe("served", ms, c)
    BY <1>2, <2>1, <2>2 DEF RecordServed
  <2>4. PICK x : x = [id |-> Cardinality(seen), epoch |-> now, what |-> "served", ms |-> ms]
    OBVIOUS
  <2>5. x.epoch = b.epoch /\ x.what = "served" /\ x.ms = ms
    BY <1>1, <2>1, <2>4
  <2>6. /\ b.hist \in [Latency -> Nat] /\ c.hist = [b.hist EXCEPT ![ms] = @ + 1]
        /\ b.served \in Nat /\ b.errors \in Nat /\ b.rejected \in Nat /\ b.abandoned \in Nat
        /\ c.served = b.served + 1 /\ c.epoch = b.epoch /\ c.errors = b.errors
        /\ c.rejected = b.rejected /\ c.abandoned = b.abandoned
    BY <2>2 DEF Bucket
  <2>7. c \in Bucket
    <3>1. [b.hist EXCEPT ![ms] = @ + 1] \in [Latency -> Nat]
      BY <2>6
    <3>2. PICK h \in [Latency -> Nat] : h = [b.hist EXCEPT ![ms] = @ + 1]
      BY <3>1
    <3>3. c = [epoch |-> b.epoch, served |-> b.served + 1, errors |-> b.errors,
               rejected |-> b.rejected, abandoned |-> b.abandoned, hist |-> h]
      BY <2>2, <3>2 DEF Bucket
    <3>4. b.epoch \in Nat \cup {-1}
      BY DEF Bucket
    <3> QED
      BY <2>6, <3>2, <3>3, <3>4 DEF Bucket
  <2>8. \A l \in Latency : c.hist[l] = b.hist[l] + (IF ms = l THEN 1 ELSE 0)
    BY <2>6
  <2>9. Adds(b, x, c)
    BY <2>5, <2>6, <2>7, <2>8 DEF Adds, Outcomes
  <2> QED
    <3>1. "served" \in Outcomes /\ ms \in Latency \cup {0}
      BY DEF Outcomes
    <3> QED
      BY <2>1, <2>3, <2>4, <2>9, <3>1, ObservationKeeps
<1>3. CASE RecordRejected
  <2>1. PICK b \in Bucket : b = Current
    BY <1>1
  <2>2. PICK c : c = [b EXCEPT !.rejected = @ + 1, !.errors = @ + 1]
    OBVIOUS
  <2>3. Observe("rejected", 0, c)
    BY <1>3, <2>1, <2>2 DEF RecordRejected
  <2>4. PICK x : x = [id |-> Cardinality(seen), epoch |-> now, what |-> "rejected", ms |-> 0]
    OBVIOUS
  <2>5. x.epoch = b.epoch /\ x.what = "rejected" /\ x.ms = 0
    BY <1>1, <2>1, <2>4
  <2>6. /\ c \in Bucket /\ c.hist = b.hist /\ b.hist \in [Latency -> Nat]
        /\ b.served \in Nat /\ b.errors \in Nat /\ b.rejected \in Nat /\ b.abandoned \in Nat
        /\ c.epoch = b.epoch /\ c.served = b.served
    <3>1. c = [epoch |-> b.epoch, served |-> b.served, errors |-> b.errors + 1,
               rejected |-> b.rejected + 1, abandoned |-> b.abandoned, hist |-> b.hist]
      BY <2>2 DEF Bucket
    <3>2. /\ b.hist \in [Latency -> Nat] /\ b.epoch \in Nat \cup {-1}
          /\ b.served \in Nat /\ b.errors \in Nat /\ b.rejected \in Nat /\ b.abandoned \in Nat
      BY DEF Bucket
    <3> QED
      BY <3>1, <3>2 DEF Bucket
  <2>7. c.errors = b.errors + 1 /\ c.rejected = b.rejected + 1 /\ c.abandoned = b.abandoned
    BY <2>2 DEF Bucket
  <2>8. \A l \in Latency : c.hist[l] = b.hist[l] + 0
    BY <2>6
  <2>9. Adds(b, x, c)
    BY <2>5, <2>6, <2>7, <2>8 DEF Adds, Outcomes
  <2> QED
    <3>1. "rejected" \in Outcomes /\ 0 \in Latency \cup {0}
      BY DEF Outcomes
    <3> QED
      BY <2>1, <2>3, <2>4, <2>9, <3>1, ObservationKeeps
<1>4. CASE RecordAbandoned
  <2>1. PICK b \in Bucket : b = Current
    BY <1>1
  <2>2. PICK c : c = [b EXCEPT !.abandoned = @ + 1]
    OBVIOUS
  <2>3. Observe("abandoned", 0, c)
    BY <1>4, <2>1, <2>2 DEF RecordAbandoned
  <2>4. PICK x : x = [id |-> Cardinality(seen), epoch |-> now, what |-> "abandoned", ms |-> 0]
    OBVIOUS
  <2>5. x.epoch = b.epoch /\ x.what = "abandoned" /\ x.ms = 0
    BY <1>1, <2>1, <2>4
  <2>6. /\ c \in Bucket /\ c.hist = b.hist /\ b.hist \in [Latency -> Nat]
        /\ b.served \in Nat /\ b.errors \in Nat /\ b.rejected \in Nat /\ b.abandoned \in Nat
        /\ c.epoch = b.epoch /\ c.served = b.served
    <3>1. c = [epoch |-> b.epoch, served |-> b.served, errors |-> b.errors,
               rejected |-> b.rejected, abandoned |-> b.abandoned + 1, hist |-> b.hist]
      BY <2>2 DEF Bucket
    <3>2. /\ b.hist \in [Latency -> Nat] /\ b.epoch \in Nat \cup {-1}
          /\ b.served \in Nat /\ b.errors \in Nat /\ b.rejected \in Nat /\ b.abandoned \in Nat
      BY DEF Bucket
    <3> QED
      BY <3>1, <3>2 DEF Bucket
  <2>7. c.errors = b.errors /\ c.rejected = b.rejected /\ c.abandoned = b.abandoned + 1
    BY <2>2 DEF Bucket
  <2>8. \A l \in Latency : c.hist[l] = b.hist[l] + 0
    BY <2>6
  <2>9. Adds(b, x, c)
    BY <2>5, <2>6, <2>7, <2>8 DEF Adds, Outcomes
  <2> QED
    <3>1. "abandoned" \in Outcomes /\ 0 \in Latency \cup {0}
      BY DEF Outcomes
    <3> QED
      BY <2>1, <2>3, <2>4, <2>9, <3>1, ObservationKeeps
<1>5. CASE TimePasses
  <2>1. now' \in Nat /\ now' > now /\ buckets' = buckets /\ seen' = seen
    BY <1>1, <1>5, BoundsAssumption DEF TimePasses
  <2>2. TypeOK'
    <3>1. \A i \in DOMAIN buckets : buckets[i].epoch <= now'
      <4>1. \A i \in DOMAIN buckets : buckets[i].epoch <= now /\ buckets[i].epoch \in Int
        BY DEF RingInv, TypeOK, Bucket
      <4> QED
        BY <1>1, <2>1, <4>1
    <3> QED
      BY <2>1, <3>1 DEF RingInv, TypeOK
  <2>3. SeenOK'
    BY <1>1, <2>1 DEF RingInv, TypeOK, SeenOK, Those, Observation
  <2>4. RingOK'
    <3>1. \A o \in seen : o.epoch > now' - n_buckets => o.epoch > now - n_buckets
      BY <1>1, <2>1 DEF RingInv, TypeOK, Observation
    <3> QED
      BY <2>1, <3>1 DEF RingInv, RingOK
  <2> QED
    BY <2>2, <2>3, <2>4 DEF RingInv
<1>6. CASE UNCHANGED vars
  BY <1>6 DEF vars, RingInv, TypeOK, SeenOK, Those, RingOK
<1> QED
  BY <1>2, <1>3, <1>4, <1>5, <1>6 DEF Next, Report

\* At every moment each bucket of the ring counts exactly the observations of its
\* own epoch, and no epoch of the window with observations is missing from it:
\* the ring that is never swept forgets on time and forgets nothing early.
THEOREM RingIsExact == Spec => []RingInv
BY RingInvInit, RingInvStep, PTL DEF Spec

-----------------------------------------------------------------------------
(* Sums over the buckets of a window *)

\* The least number of a set, by which what a fold computes can be proved.
LEMMA LeastNumber ==
    ASSUME NEW N \in SUBSET Nat, N # {}
    PROVE  \E n \in N : \A m \in N : n <= m
<1> DEFINE R == OpToRel(<, Nat)
<1>1. IsWellFoundedOn(R, Nat)
  BY NatLessThanWellFounded
<1>2. \E n \in N : \A m \in N : <<m, n>> \notin R
  <2> HIDE DEF R
  <2> QED
    BY <1>1, WFMin
<1>3. \A n, m \in N : <<m, n>> \notin R => n <= m
  BY DEF OpToRel
<1> QED
  BY <1>2, <1>3

\* The recursion of the fold behind SumFunctionOnSet(f, S).
SumsTo(f, S, h) ==
    h = [s \in SUBSET S |->
           IF s = {} THEN 0
           ELSE f[CHOOSE i \in s : TRUE] + h[s \ {CHOOSE i \in s : TRUE}]]

\* The fold satisfies its recursion, if any function does.
LEMMA SumRecursion ==
    ASSUME NEW f, NEW S, NEW g, SumsTo(f, S, g)
    PROVE  \E h : SumsTo(f, S, h) /\ SumFunctionOnSet(f, S) = h[S]
<1> DEFINE it == CHOOSE h : h = [s \in SUBSET S |->
                           IF s = {} THEN 0
                           ELSE f[CHOOSE i \in s : TRUE] + h[s \ {CHOOSE i \in s : TRUE}]]
<1>1. it = [s \in SUBSET S |->
              IF s = {} THEN 0
              ELSE f[CHOOSE i \in s : TRUE] + it[s \ {CHOOSE i \in s : TRUE}]]
  BY Zenon DEF SumsTo
<1>2. SumFunctionOnSet(f, S) = it[S]
  BY DEF SumFunctionOnSet, FoldFunctionOnSet, MapThenFoldSet
<1> QED
  <2> HIDE DEF it
  <2> QED
    BY <1>1, <1>2 DEF SumsTo

LEMMA DisjointCount ==
    ASSUME NEW P, NEW Q, IsFiniteSet(P), IsFiniteSet(Q), P \cap Q = {}
    PROVE  Cardinality(P \cup Q) = Cardinality(P) + Cardinality(Q)
<1>1. Cardinality(P \cup Q) = Cardinality(P) + Cardinality(Q) - Cardinality(P \cap Q)
  BY FS_Union
<1>2. Cardinality(P) \in Nat /\ Cardinality(Q) \in Nat /\ Cardinality(P \cap Q) = 0
  BY FS_CardinalityType, FS_EmptySet
<1> QED
  BY <1>1, <1>2

\* f counts the sets of the family A, which share no element and are parts of U.
DisjointParts(f, A, S, U) ==
    /\ \A i \in S : A[i] \subseteq U /\ f[i] = Cardinality(A[i])
    /\ \A i, j \in S : i # j => A[i] \cap A[j] = {}

\* Counts of disjoint sets add up to the count of their union.
LEMMA SumOfCounts ==
    ASSUME NEW S, NEW f, NEW A, NEW U,
           IsFiniteSet(S), IsFiniteSet(U), DisjointParts(f, A, S, U)
    PROVE  SumFunctionOnSet(f, S) = Cardinality(UNION {A[i] : i \in S})
<1> DEFINE All(s) == UNION {A[i] : i \in s}
           pick(s) == CHOOSE i \in s : TRUE
           g == [s \in SUBSET S |-> Cardinality(All(s))]
<1>1. ASSUME NEW s \in SUBSET S, s # {}
      PROVE  /\ pick(s) \in s
             /\ Cardinality(All(s)) = f[pick(s)] + Cardinality(All(s \ {pick(s)}))
  <2>1. PICK x \in s : x = pick(s)
    BY <1>1
  <2>2. All(s) = A[x] \cup All(s \ {x}) /\ A[x] \cap All(s \ {x}) = {}
    BY DEF DisjointParts
  <2>3. IsFiniteSet(A[x]) /\ IsFiniteSet(All(s \ {x}))
    BY FS_Subset DEF DisjointParts
  <2>4. Cardinality(All(s)) = f[x] + Cardinality(All(s \ {x}))
    <3> HIDE DEF All
    <3>1. Cardinality(A[x] \cup All(s \ {x})) = Cardinality(A[x]) + Cardinality(All(s \ {x}))
      BY <2>2, <2>3, DisjointCount
    <3> QED
      BY <2>2, <3>1 DEF DisjointParts
  <2> QED
    BY <2>1, <2>4
<1>2. All({}) = {} /\ Cardinality({}) = 0
  BY FS_EmptySet
<1>3. SumsTo(f, S, g)
  <2>1. \A s \in SUBSET S : g[s] = IF s = {} THEN 0 ELSE f[pick(s)] + g[s \ {pick(s)}]
    <3> HIDE DEF All, pick
    <3> QED
      BY <1>1, <1>2
  <2>2. g = [s \in SUBSET S |-> IF s = {} THEN 0 ELSE f[pick(s)] + g[s \ {pick(s)}]]
    <3> HIDE DEF pick
    <3> QED
      BY <2>1
  <2> HIDE DEF g
  <2> QED
    BY <2>2 DEF SumsTo
<1>4. PICK h : SumsTo(f, S, h) /\ SumFunctionOnSet(f, S) = h[S]
  <2> HIDE DEF g
  <2> QED
    BY <1>3, SumRecursion
<1>5. \A s \in SUBSET S : h[s] = IF s = {} THEN 0 ELSE f[pick(s)] + h[s \ {pick(s)}]
  BY <1>4 DEF SumsTo
<1>6. \A s \in SUBSET S : h[s] = Cardinality(All(s))
  <2> HIDE DEF All, pick
  <2> DEFINE Wrong(s) == h[s] # Cardinality(All(s))
             N == {Cardinality(s) : s \in {r \in SUBSET S : Wrong(r)}}
  <2>1. SUFFICES ASSUME N # {} PROVE FALSE
    OBVIOUS
  <2>2. \A s \in SUBSET S : IsFiniteSet(s) /\ Cardinality(s) \in Nat
    BY FS_Subset, FS_CardinalityType
  <2>3. /\ \A s \in SUBSET S : Wrong(s) => Cardinality(s) \in N
        /\ \A n \in N : \E s \in SUBSET S : Wrong(s) /\ Cardinality(s) = n
    OBVIOUS
  <2>4. PICK n \in N : \A m \in N : n <= m
    <3>1. N \in SUBSET Nat
      BY <2>2
    <3> HIDE DEF N
    <3> QED
      BY <2>1, <3>1, LeastNumber
  <2> HIDE DEF N
  <2>5. PICK s \in SUBSET S : Wrong(s) /\ Cardinality(s) = n
    BY <2>3
  <2>6. s # {}
    BY <1>2, <1>5, <2>5
  <2>7. /\ s \ {pick(s)} \in SUBSET S
        /\ Cardinality(s \ {pick(s)}) = Cardinality(s) - 1
    BY <1>1, <2>2, <2>6, FS_RemoveElement
  <2>8. ~Wrong(s \ {pick(s)})
    <3> HIDE DEF Wrong
    <3>1. Cardinality(s \ {pick(s)}) < n /\ n \in Int
      BY <2>2, <2>5, <2>7
    <3> QED
      BY <2>2, <2>3, <2>4, <2>7, <3>1
  <2>9. h[s] = f[pick(s)] + h[s \ {pick(s)}]
    BY <1>5, <2>6
  <2>10. Cardinality(All(s)) = f[pick(s)] + Cardinality(All(s \ {pick(s)}))
    BY <1>1, <2>6
  <2> QED
    BY <2>5, <2>8, <2>9, <2>10
<1> QED
  BY <1>4, <1>6

-----------------------------------------------------------------------------
(* The reports *)

\* The buckets a report adds up hold every observation of the epochs it is about,
\* each of them in the one bucket of its epoch, as long as the report spans no
\* more than the ring and starts no earlier than it.
THEOREM ReportsFromTheRightBuckets ==
    ASSUME RingInv, NEW epoch \in Int, NEW span \in Nat,
           epoch <= now, epoch - span >= now - n_buckets
    PROVE  /\ \A o \in seen : o.epoch \in (epoch - span + 1) .. epoch =>
                 \E i \in Live(epoch, span) :
                    buckets[i].epoch = o.epoch
                    /\ \A k \in Live(epoch, span) : buckets[k].epoch = o.epoch => k = i
           /\ \A i \in Live(epoch, span) : Describes(buckets[i], seen)
<1>1. /\ now \in Nat /\ n_buckets \in Nat \ {0}
      /\ DOMAIN buckets = 0 .. n_buckets - 1
  BY RingAssumption DEF RingInv, TypeOK
<1>2. ASSUME NEW o \in seen, o.epoch \in (epoch - span + 1) .. epoch
      PROVE  \E i \in Live(epoch, span) :
                buckets[i].epoch = o.epoch
                /\ \A k \in Live(epoch, span) : buckets[k].epoch = o.epoch => k = i
  <2>1. o.epoch \in Nat /\ o.epoch > now - n_buckets
    BY <1>1, <1>2 DEF RingInv, TypeOK, Observation
  <2>2. PICK i : i = o.epoch % n_buckets
    OBVIOUS
  <2>3. i \in 0 .. n_buckets - 1 /\ buckets[i].epoch = o.epoch
    BY <1>1, <2>1, <2>2 DEF RingInv, RingOK
  <2>4. i \in Live(epoch, span)
    BY <1>1, <1>2, <2>3 DEF Live
  <2>5. \A k \in Live(epoch, span) : buckets[k].epoch = o.epoch => k = i
    BY <2>1, <2>2 DEF Live, RingInv, RingOK
  <2> QED
    BY <2>3, <2>4, <2>5
<1>3. \A i \in Live(epoch, span) : Describes(buckets[i], seen)
  BY DEF Live, RingInv, RingOK
<1> QED
  BY <1>2, <1>3

\* A report that the ring can give: of `span' epochs, the last of them `epoch'.
Reportable(epoch, span) ==
    epoch \in Int /\ span \in Nat /\ epoch <= now /\ epoch - span >= now - n_buckets

\* f counts, for each bucket of W, the observations of X that are of its epoch.
CountsBy(f, X, W) ==
    \A i \in W : f[i] = Cardinality({o \in X : o.epoch = buckets[i].epoch})

\* What the buckets of a window count of X adds up to what X has of the window.
LEMMA WindowCount ==
    ASSUME NEW epoch, NEW span, NEW f, NEW X,
           RingInv, Reportable(epoch, span), X \subseteq seen,
           CountsBy(f, X, Live(epoch, span))
    PROVE  SumFunctionOnSet(f, Live(epoch, span))
             = Cardinality({o \in X : o.epoch \in (epoch - span + 1) .. epoch})
<1> DEFINE W == Live(epoch, span)
           A == [i \in W |-> {o \in X : o.epoch = buckets[i].epoch}]
<1>1. IsFiniteSet(W) /\ IsFiniteSet(seen)
  <2>1. W \subseteq 0 .. n_buckets - 1 /\ n_buckets \in Nat
    BY RingAssumption DEF Live, RingInv, TypeOK
  <2>2. IsFiniteSet(0 .. n_buckets - 1)
    BY <2>1, FS_Interval
  <2> QED
    BY <2>1, <2>2, FS_Subset DEF RingInv, SeenOK
<1>2. \A o \in seen : o.epoch \in (epoch - span + 1) .. epoch =>
          \E i \in W : /\ buckets[i].epoch = o.epoch
                       /\ \A k \in W : buckets[k].epoch = o.epoch => k = i
  BY ReportsFromTheRightBuckets DEF Reportable
<1>3. \A i \in W : buckets[i].epoch \in (epoch - span + 1) .. epoch
  BY DEF Live
<1>4. \A i \in W : A[i] \subseteq seen /\ f[i] = Cardinality(A[i])
  BY DEF CountsBy
<1>5. \A i, k \in W : i # k => A[i] \cap A[k] = {}
  BY <1>2, <1>3
<1>6. UNION {A[i] : i \in W} = {o \in X : o.epoch \in (epoch - span + 1) .. epoch}
  BY <1>2, <1>3
<1>7. SumFunctionOnSet(f, W) = Cardinality(UNION {A[i] : i \in W})
  <2> HIDE DEF W, A
  <2>1. DisjointParts(f, A, W, seen)
    BY <1>4, <1>5 DEF DisjointParts
  <2> QED
    BY <1>1, <2>1, SumOfCounts
<1> QED
  BY <1>6, <1>7

\* The counters of a window, added up, are what was observed in it.
LEMMA WindowCounters ==
    ASSUME NEW epoch, NEW span, RingInv, Reportable(epoch, span)
    PROVE  LET window == Live(epoch, span)
               those(what) == Those(what, During((epoch - span + 1) .. epoch))
           IN  /\ Summed("served", window) = Cardinality(those("served"))
               /\ Summed("errors", window) = Cardinality(those("rejected"))
               /\ Summed("rejected", window) = Cardinality(those("rejected"))
               /\ Summed("abandoned", window) = Cardinality(those("abandoned"))
<1> DEFINE window == Live(epoch, span)
<1>1. \A i \in window :
          /\ buckets[i].served = Cardinality(Of(seen, buckets[i].epoch, "served"))
          /\ buckets[i].errors = Cardinality(Of(seen, buckets[i].epoch, "rejected"))
          /\ buckets[i].rejected = Cardinality(Of(seen, buckets[i].epoch, "rejected"))
          /\ buckets[i].abandoned = Cardinality(Of(seen, buckets[i].epoch, "abandoned"))
  BY ReportsFromTheRightBuckets, DescribesSets DEF Reportable
<1>2. \A what, e : Of(seen, e, what) = {o \in Those(what, seen) : o.epoch = e}
  BY DEF Of, Those
<1>3. \A what : {o \in Those(what, seen) : o.epoch \in (epoch - span + 1) .. epoch}
                = Those(what, During((epoch - span + 1) .. epoch))
  BY DEF Those, During
<1>4. ASSUME NEW what, NEW f,
             \A i \in window : f[i] = Cardinality(Of(seen, buckets[i].epoch, what))
      PROVE  SumFunctionOnSet(f, window)
               = Cardinality(Those(what, During((epoch - span + 1) .. epoch)))
  <2>1. Those(what, seen) \subseteq seen
    BY DEF Those
  <2>2. CountsBy(f, Those(what, seen), window)
    BY <1>2, <1>4 DEF CountsBy
  <2>3. SumFunctionOnSet(f, window)
          = Cardinality({o \in Those(what, seen) : o.epoch \in (epoch - span + 1) .. epoch})
    BY <2>1, <2>2, WindowCount
  <2> QED
    BY <1>3, <2>3
<1>5. Summed("served", window) = Cardinality(Those("served", During((epoch - span + 1) .. epoch)))
  <2> DEFINE f == [i \in window |-> buckets[i].served]
  <2>1. SumFunctionOnSet(f, window)
          = Cardinality(Those("served", During((epoch - span + 1) .. epoch)))
    BY <1>1, <1>4
  <2> QED
    BY <2>1 DEF Summed
<1>6. Summed("errors", window) = Cardinality(Those("rejected", During((epoch - span + 1) .. epoch)))
  <2> DEFINE f == [i \in window |-> buckets[i].errors]
  <2>1. SumFunctionOnSet(f, window)
          = Cardinality(Those("rejected", During((epoch - span + 1) .. epoch)))
    BY <1>1, <1>4
  <2> QED
    BY <2>1 DEF Summed
<1>7. Summed("rejected", window)
        = Cardinality(Those("rejected", During((epoch - span + 1) .. epoch)))
  <2> DEFINE f == [i \in window |-> buckets[i].rejected]
  <2>1. SumFunctionOnSet(f, window)
          = Cardinality(Those("rejected", During((epoch - span + 1) .. epoch)))
    BY <1>1, <1>4
  <2> QED
    BY <2>1 DEF Summed
<1>8. Summed("abandoned", window)
        = Cardinality(Those("abandoned", During((epoch - span + 1) .. epoch)))
  <2> DEFINE f == [i \in window |-> buckets[i].abandoned]
  <2>1. SumFunctionOnSet(f, window)
          = Cardinality(Those("abandoned", During((epoch - span + 1) .. epoch)))
    BY <1>1, <1>4
  <2> QED
    BY <2>1 DEF Summed
<1> QED
  BY <1>5, <1>6, <1>7, <1>8

\* The merged histogram, added up to a latency, counts the latencies up to it.
LEMMA WindowLatencies ==
    ASSUME RingInv, NEW l \in Latency
    PROVE  LET live == Live(now, n_buckets)
               merged == [k \in Latency |->
                             SumFunctionOnSet([i \in live |-> buckets[i].hist[k]], live)]
               served == Those("served", During((now - n_buckets + 1) .. now))
           IN  SumFunctionOnSet(merged, 1 .. l) = Cardinality({o \in served : o.ms <= l})
<1> DEFINE live == Live(now, n_buckets)
           merged == [k \in Latency |->
                         SumFunctionOnSet([i \in live |-> buckets[i].hist[k]], live)]
           served == Those("served", During((now - n_buckets + 1) .. now))
           A == [k \in Latency |-> {o \in served : o.ms = k}]
<1>0. /\ Reportable(now, n_buckets) /\ now \in Int /\ n_buckets \in Nat
      /\ hist_buckets \in Nat /\ IsFiniteSet(seen) /\ 1 .. l \subseteq Latency /\ l \in Nat
  BY RingAssumption DEF RingInv, TypeOK, SeenOK, Latency, Reportable
<1>1. ASSUME NEW k \in Latency
      PROVE  merged[k] = Cardinality(A[k])
  <2> DEFINE X == {o \in Those("served", seen) : o.ms = k}
             f == [i \in live |-> buckets[i].hist[k]]
  <2>1. \A i \in live : f[i] = Cardinality(Took(seen, buckets[i].epoch, k))
    BY <1>0, ReportsFromTheRightBuckets, DescribesSets DEF Reportable
  <2>2. \A e : Took(seen, e, k) = {o \in X : o.epoch = e}
    BY DEF Took, Those
  <2>3. {o \in X : o.epoch \in (now - n_buckets + 1) .. now} = A[k]
    BY DEF Those, During
  <2>4. X \subseteq seen
    BY DEF Those
  <2>5. SumFunctionOnSet(f, live)
          = Cardinality({o \in X : o.epoch \in (now - n_buckets + 1) .. now})
    <3>1. CountsBy(f, X, live)
      BY <2>1, <2>2 DEF CountsBy
    <3> HIDE DEF X, f
    <3> QED
      BY <1>0, <2>4, <3>1, WindowCount
  <2> QED
    BY <2>3, <2>5
<1>2. SumFunctionOnSet(merged, 1 .. l) = Cardinality(UNION {A[k] : k \in 1 .. l})
  <2>1. \A k \in 1 .. l : A[k] \subseteq seen /\ merged[k] = Cardinality(A[k])
    <3>1. \A k \in 1 .. l : A[k] \subseteq seen
      BY <1>0 DEF Those, During
    <3> HIDE DEF A, merged
    <3> QED
      BY <1>0, <1>1, <3>1
  <2>2. \A k, m \in 1 .. l : k # m => A[k] \cap A[m] = {}
    BY <1>0
  <2>3. IsFiniteSet(1 .. l)
    BY <1>0, FS_Interval
  <2> HIDE DEF A, merged
  <2>4. DisjointParts(merged, A, 1 .. l, seen)
    BY <2>1, <2>2 DEF DisjointParts
  <2> QED
    BY <1>0, <2>3, <2>4, SumOfCounts
<1>3. UNION {A[k] : k \in 1 .. l} = {o \in served : o.ms <= l}
  <2>1. \A o \in served : o.ms \in Latency
    BY DEF RingInv, SeenOK, Those, During
  <2>2. \A o \in served : o.ms <= l <=> o.ms \in 1 .. l
    BY <1>0, <2>1 DEF Latency
  <2>3. \A k \in 1 .. l : A[k] = {o \in served : o.ms = k}
    BY <1>0
  <2> HIDE DEF A, served
  <2> QED
    BY <2>2, <2>3
<1> QED
  BY <1>2, <1>3

\* The health report is exact: its counters and its percentiles are those of the
\* observations of the last n_buckets epochs, whatever laps of the ring passed
\* without an observation.
THEOREM WindowIsExact == Spec => []WindowExact
<1>1. ASSUME RingInv
      PROVE  WindowExact
  <2> DEFINE live == Live(now, n_buckets)
             merged == [k \in Latency |->
                           SumFunctionOnSet([i \in live |-> buckets[i].hist[k]], live)]
             added == [l \in Latency |-> SumFunctionOnSet(merged, 1 .. l)]
             window == During((now - n_buckets + 1) .. now)
             served == Those("served", window)
             upto == [l \in Latency |-> Cardinality({o \in served : o.ms <= l})]
  <2>1. Reportable(now, n_buckets)
    BY <1>1, RingAssumption DEF RingInv, TypeOK, Reportable
  <2>2. /\ Summed("served", live) = Cardinality(served)
        /\ Summed("errors", live) = Cardinality(Those("rejected", window))
        /\ Summed("rejected", live) = Cardinality(Those("rejected", window))
        /\ Summed("abandoned", live) = Cardinality(Those("abandoned", window))
    BY <1>1, <2>1, WindowCounters
  <2>3. added = upto
    BY <1>1, WindowLatencies
  <2>4. WindowStats =
          [served    |-> Summed("served", live),
           errors    |-> Summed("errors", live),
           rejected  |-> Summed("rejected", live),
           abandoned |-> Summed("abandoned", live),
           p50       |-> Quantile(50, Summed("served", live), added),
           p99       |-> Quantile(99, Summed("served", live), added)]
    BY DEF WindowStats
  <2>5. WindowStats =
          [served    |-> Cardinality(served),
           errors    |-> Cardinality(Those("rejected", window)),
           rejected  |-> Cardinality(Those("rejected", window)),
           abandoned |-> Cardinality(Those("abandoned", window)),
           p50       |-> Quantile(50, Cardinality(served), upto),
           p99       |-> Quantile(99, Cardinality(served), upto)]
    <3> HIDE DEF live, added, upto, served, window
    <3> QED
      BY <2>2, <2>3, <2>4
  <2> QED
    BY <2>5 DEF WindowExact
<1>2. RingInv => WindowExact
  BY <1>1
<1> QED
  BY <1>2, RingIsExact, PTL

\* The error rate is that of the second before the bucket being filled: nothing
\* of it has been recycled, and nothing later is in it.
THEOREM ErrRateIsExact == Spec => []ErrRateExact
<1>1. ASSUME RingInv
      PROVE  ErrRateExact
  <2> DEFINE window == Live(now - 1, n_err_buckets)
             second == During((now - n_err_buckets) .. (now - 1))
  <2>1. /\ Reportable(now - 1, n_err_buckets)
        /\ (now - 1) - n_err_buckets + 1 = now - n_err_buckets
    BY <1>1, RingAssumption, ErrWindowAssumption DEF RingInv, TypeOK, Reportable
  <2>2. /\ Summed("served", window) = Cardinality(Those("served", second))
        /\ Summed("errors", window) = Cardinality(Those("rejected", second))
        /\ Summed("rejected", window) = Cardinality(Those("rejected", second))
    <3>1. second = During(((now - 1) - n_err_buckets + 1) .. (now - 1))
      BY <2>1
    <3> HIDE DEF second
    <3> QED
      BY <1>1, <2>1, <3>1, WindowCounters
  <2>3. Cardinality(Those("rejected", second) \cup Those("served", second))
          = Cardinality(Those("rejected", second)) + Cardinality(Those("served", second))
    <3>1. IsFiniteSet(seen)
      BY <1>1 DEF RingInv, SeenOK
    <3>2. IsFiniteSet(Those("rejected", second)) /\ IsFiniteSet(Those("served", second))
      BY <3>1, FS_Subset DEF Those, During
    <3>3. Those("rejected", second) \cap Those("served", second) = {}
      BY DEF Those
    <3> QED
      BY <3>2, <3>3, DisjointCount
  <2>4. /\ Cardinality(Those("rejected", second)) \in Nat
        /\ Cardinality(Those("served", second)) \in Nat
    BY <1>1, FS_Subset, FS_CardinalityType DEF RingInv, SeenOK, Those, During
  <2>5. Summed("served", window) + Summed("rejected", window)
          = Cardinality(Those("rejected", second) \cup Those("served", second))
    BY <2>2, <2>3, <2>4
  <2> QED
    BY <2>2, <2>5 DEF ErrRate, ErrRateExact
<1>2. RingInv => ErrRateExact
  BY <1>1
<1> QED
  BY <1>2, RingIsExact, PTL
=============================================================================

----------------------------- MODULE HealthRing -----------------------------
(***************************************************************************)
(* aaac.origin.health: what the origin reports of the last window, from a  *)
(* ring of buckets that is never cleaned but by the next observation that  *)
(* falls on the same bucket.  Time is counted in buckets; a latency is the *)
(* number of its histogram bucket.  `seen' records every observation: the  *)
(* reports must be what those of the window say.                           *)
(***************************************************************************)
EXTENDS Integers, FiniteSets, FiniteSetsExt, Functions

CONSTANTS
    n_buckets,      \* buckets of the ring, which span the window
    n_err_buckets,  \* whole buckets that make up the trailing second
    hist_buckets,   \* _HIST_BUCKETS
    SeenBound,      \* bound: observations
    TimeBound       \* bound: buckets the clock goes through

ASSUME RingAssumption == n_buckets \in Nat \ {0} /\ hist_buckets \in Nat \ {0}
\* A second is shorter than the window: the default is five buckets of a second.
ASSUME ErrWindowAssumption == n_err_buckets \in 1 .. (n_buckets - 1)
ASSUME BoundsAssumption == SeenBound \in Nat /\ TimeBound \in Nat

VARIABLES
    now,        \* int(clock / bucket_s)
    buckets,    \* the ring
    seen        \* every observation so far, numbered by its "id"

vars == <<now, buckets, seen>>

Latency == 1 .. hist_buckets
Outcomes == {"served", "rejected", "abandoned"}

Bucket == [epoch : Nat \cup {-1}, served : Nat, errors : Nat, rejected : Nat,
           abandoned : Nat, hist : [Latency -> Nat]]

\* ms is 0 of an outcome that has no latency.
Observation == [id : Nat, epoch : Nat, what : Outcomes, ms : Latency \cup {0}]

\* _Bucket.reset
Fresh(epoch) ==
    [epoch |-> epoch, served |-> 0, errors |-> 0, rejected |-> 0, abandoned |-> 0,
     hist |-> [l \in Latency |-> 0]]

TypeOK ==
    /\ now \in Nat
    /\ buckets \in [0 .. n_buckets - 1 -> Bucket]
    /\ \A i \in DOMAIN buckets : buckets[i].epoch <= now
    /\ seen \subseteq Observation

Init ==
    /\ now = 0
    /\ buckets = [i \in 0 .. n_buckets - 1 |-> Fresh(-1)]
    /\ seen = {}
-----------------------------------------------------------------------------
(* Observations *)

\* Mutant: a bucket of an earlier lap is used as it is.
NeverReset == buckets[now % n_buckets]

\* _current: the bucket of this epoch, which may still hold an earlier lap's.
Current ==
    LET bucket == buckets[now % n_buckets] IN
    IF bucket.epoch = now THEN bucket ELSE Fresh(now)

Observe(what, ms, bucket) ==
    /\ Cardinality(seen) < SeenBound
    /\ seen' = seen \cup
          {[id |-> Cardinality(seen), epoch |-> now, what |-> what, ms |-> ms]}
    /\ buckets' = [buckets EXCEPT ![now % n_buckets] = bucket]
    /\ UNCHANGED now

\* The origin serves with ok = True only: errors are rejections.
RecordServed(ms) ==
    Observe("served", ms, [Current EXCEPT !.served = @ + 1, !.hist[ms] = @ + 1])

RecordRejected ==
    Observe("rejected", 0, [Current EXCEPT !.rejected = @ + 1, !.errors = @ + 1])

RecordAbandoned == Observe("abandoned", 0, [Current EXCEPT !.abandoned = @ + 1])

\* Nothing is observed for a while: whole laps may pass.
TimePasses ==
    /\ now' \in (now + 1) .. TimeBound
    /\ UNCHANGED <<buckets, seen>>

\* GET /origin/health and the sampler read the ring and change nothing.
Report == UNCHANGED vars

Next ==
    \/ Report
    \/ \E ms \in Latency : RecordServed(ms)
    \/ RecordRejected
    \/ RecordAbandoned
    \/ TimePasses

Spec == Init /\ [][Next]_vars
-----------------------------------------------------------------------------
(* Reports *)

\* _live_buckets
Live(epoch, span) ==
    {i \in DOMAIN buckets : buckets[i].epoch \in (epoch - span + 1) .. epoch}

CeilPercent(percent, total) == (percent * total + 99) \div 100

\* The least latency that at least `percent' of the total have or stay below,
\* where upto[l] is how many have latency l or less.
Quantile(percent, total, upto) ==
    IF total = 0 THEN 0
    ELSE Min({l \in Latency : upto[l] >= CeilPercent(percent, total)})

\* One counter of the buckets of a window, added up.
Summed(counter, window) ==
    SumFunctionOnSet([i \in window |-> buckets[i][counter]], window)

\* window_stats, but for the error rate.
WindowStats ==
    LET live == Live(now, n_buckets)
        merged == [l \in Latency |->
                      SumFunctionOnSet([i \in live |-> buckets[i].hist[l]], live)]
        upto == [l \in Latency |-> SumFunctionOnSet(merged, 1 .. l)]
    IN  [served    |-> Summed("served", live),
         errors    |-> Summed("errors", live),
         rejected  |-> Summed("rejected", live),
         abandoned |-> Summed("abandoned", live),
         p50       |-> Quantile(50, Summed("served", live), upto),
         p99       |-> Quantile(99, Summed("served", live), upto)]

\* Mutant: the bucket that is still being filled counts too.
ErrNow ==
    LET window == Live(now, n_err_buckets) IN
    [errors |-> Summed("errors", window),
     total  |-> Summed("served", window) + Summed("rejected", window)]

\* err_rate_1s is errors / total, over whole elapsed buckets.
ErrRate ==
    LET window == Live(now - 1, n_err_buckets) IN
    [errors |-> Summed("errors", window),
     total  |-> Summed("served", window) + Summed("rejected", window)]
-----------------------------------------------------------------------------
(* What the health report must get right *)

During(epochs) == {o \in seen : o.epoch \in epochs}
Those(what, S) == {o \in S : o.what = what}

\* The report is about the observations of the last n_buckets epochs, all of
\* them and no other, however long nothing was observed; rejections are errors
\* but no latencies, and abandoned requests neither.
WindowExact ==
    LET window == During((now - n_buckets + 1) .. now)
        served == Those("served", window)
        count == Cardinality(served)
        upto == [l \in Latency |-> Cardinality({o \in served : o.ms <= l})]
    IN  WindowStats =
          [served    |-> count,
           errors    |-> Cardinality(Those("rejected", window)),
           rejected  |-> Cardinality(Those("rejected", window)),
           abandoned |-> Cardinality(Those("abandoned", window)),
           p50       |-> Quantile(50, count, upto),
           p99       |-> Quantile(99, count, upto)]

\* health.py: err_rate_1s "reads only fully elapsed buckets, so it is a genuine
\* trailing-1 s figure": those of the second before this bucket, none recycled.
ErrRateExact ==
    LET second == During((now - n_err_buckets) .. (now - 1)) IN
    ErrRate = [errors |-> Cardinality(Those("rejected", second)),
               total  |-> Cardinality(Those("rejected", second) \cup Those("served", second))]

\* What a bucket counts is what S holds of its epoch.
Describes(b, S) ==
    LET own == {o \in S : o.epoch = b.epoch} IN
    /\ b.served = Cardinality(Those("served", own))
    /\ b.errors = Cardinality(Those("rejected", own))
    /\ b.rejected = Cardinality(Those("rejected", own))
    /\ b.abandoned = Cardinality(Those("abandoned", own))
    /\ \A l \in Latency : b.hist[l] = Cardinality({o \in Those("served", own) : o.ms = l})

\* Every bucket is at its place and counts the observations of its epoch, and
\* every epoch of the window that has observations is in the ring.
RingOK ==
    /\ \A i \in DOMAIN buckets :
          /\ buckets[i].epoch # -1 => buckets[i].epoch % n_buckets = i
          /\ Describes(buckets[i], seen)
    /\ \A o \in seen : o.epoch > now - n_buckets =>
                          buckets[o.epoch % n_buckets].epoch = o.epoch

\* Observations are told apart, none is of the future, and the served took time.
SeenOK ==
    /\ IsFiniteSet(seen)
    /\ \A o \in seen : o.id < Cardinality(seen) /\ o.epoch <= now
    /\ \A o \in Those("served", seen) : o.ms \in Latency

RingInv == TypeOK /\ SeenOK /\ RingOK
=============================================================================

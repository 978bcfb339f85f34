-------------------------- MODULE ControllerProofs --------------------------
(***************************************************************************)
(* Proofs about Controller for any set of tickets, any configuration and   *)
(* any bound: the queue and the slots of InMemoryQueueStore stay right     *)
(* although a ticket can be queued, and admitted, more than once.          *)
(***************************************************************************)
EXTENDS Controller, FiniteSetTheorems, SequenceTheorems, WellFoundedInduction,
        TLAPS

QueueEntry == [score : Nat, tid : Tickets]

\* The stable sort leaves the queue sorted.
Sorted(q) == \A i, j \in DOMAIN q : i < j => q[i].score <= q[j].score

-----------------------------------------------------------------------------
(* Arithmetic *)

LEMMA DivInNat ==
    ASSUME NEW m \in Nat, NEW n \in Nat, n # 0
    PROVE  m \div n \in Nat
  BY Z3

LEMMA TimesInNat ==
    ASSUME NEW m \in Nat, NEW n \in Nat
    PROVE  m * n \in Nat
  BY SMT

LEMMA CeilDivInNat ==
    ASSUME NEW m \in Nat, NEW n \in Nat, n # 0
    PROVE  CeilDiv(m, n) \in Nat
<1>1. m + n - 1 \in Nat
  OBVIOUS
<1> QED BY <1>1, DivInNat DEF CeilDiv

LEMMA WindowInNat ==
    ASSUME WindowAssumption, NEW c \in AccessClass, NEW mode
    PROVE  window_for(c, mode) \in Nat
<1>1. kappa[c] \in Nat /\ w_base \in Nat /\ w_max \in Nat
  BY DEF WindowAssumption
<1>2. w_base * kappa[c] \in Nat
  BY <1>1, TimesInNat
<1> QED BY <1>1, <1>2 DEF window_for, Least

LEMMA WaitingOfInNat ==
    ASSUME WindowAssumption, NEW c \in AccessClass, NEW total \in Nat
    PROVE  waiting_of(c, total) \in Nat
<1>1. class_mix[c] \in Nat
  BY DEF WindowAssumption
<1>2. total * class_mix[c] \in Nat
  BY <1>1, TimesInNat
<1> QED BY <1>2, DivInNat DEF waiting_of

LEMMA WeightedInNat ==
    ASSUME WindowAssumption, NEW total \in Nat, NEW mode
    PROVE  weight(total) \in Nat /\ weighted_sum(total, mode) \in Nat
<1> DEFINE count(c) == waiting_of(c, total)
           part(c) == waiting_of(c, total) * window_for(c, mode)
<1>1. \A c \in AccessClass : count(c) \in Nat /\ part(c) \in Nat
  BY WaitingOfInNat, WindowInNat, TimesInNat
<1>2. HIGH \in AccessClass /\ MEDIUM \in AccessClass /\ LOW \in AccessClass
  BY DEF AccessClass
<1>3. weight(total) = count(HIGH) + count(MEDIUM) + count(LOW)
  BY DEF weight
<1>4. weighted_sum(total, mode) = part(HIGH) + part(MEDIUM) + part(LOW)
  BY DEF weighted_sum
<1> HIDE DEF count, part
<1> QED BY <1>1, <1>2, <1>3, <1>4

\* C_max before its floor, and C_max, are numbers of slots.
LEMMA BaseInNat ==
    ASSUME WindowAssumption, TickAssumption, mu_hat \in Nat, NEW total \in Nat
    PROVE  ceil_times_mean(mu_hat, mu_unit, total, Mode) \in Nat
<1>1. mu_unit \in Nat /\ mu_unit # 0 /\ w_base \in Nat
  BY DEF TickAssumption, WindowAssumption
<1>2. weight(total) \in Nat /\ weighted_sum(total, Mode) \in Nat
  BY WeightedInNat
<1>3. /\ mu_hat * w_base \in Nat /\ mu_hat * weighted_sum(total, Mode) \in Nat
  BY <1>1, <1>2, TimesInNat
<1>4. ASSUME weight(total) # 0
      PROVE  mu_unit * 10 * weight(total) \in Nat /\ mu_unit * 10 * weight(total) # 0
  BY <1>1, <1>2, <1>4, Z3
<1> QED BY <1>1, <1>3, <1>4, CeilDivInNat DEF ceil_times_mean

LEMMA CapInNat ==
    ASSUME WindowAssumption, TickAssumption, mu_hat \in Nat, NEW total \in Nat
    PROVE  Cap(total) \in Nat
<1>1. concurrency_limit \in Nat
  BY DEF TickAssumption
<1>2. concurrency_limit \div 4 \in Nat
  BY <1>1, DivInNat
<1> QED BY <1>2, BaseInNat DEF Cap

\* Of so many entries each ticket has, all of them.
AllSlots(f) == UNION {{t} \X (1 .. f[t]) : t \in Tickets}

Held(s) == s.open + s.lapsed + s.due

HeldBy(fl) == [t \in Tickets |-> Held(fl[t])]

LEMMA AllSlotsFinite ==
    ASSUME TicketsAssumption, NEW f \in [Tickets -> Nat]
    PROVE  IsFiniteSet(AllSlots(f)) /\ Cardinality(AllSlots(f)) \in Nat
<1> DEFINE F == [t \in Tickets |-> {t} \X (1 .. f[t])]
           S == {F[t] : t \in DOMAIN F}
<1>1. IsFiniteSet(S)
  <2>1. F \in Surjection(Tickets, S)
    BY DEF Surjection
  <2> QED BY <2>1, FS_Surjection DEF TicketsAssumption
<1>2. \A t \in Tickets : IsFiniteSet({t} \X (1 .. f[t]))
  <2> TAKE t \in Tickets
  <2>1. f[t] \in Nat
    OBVIOUS
  <2>2. IsFiniteSet(1 .. f[t])
    BY <2>1, FS_Interval
  <2> QED BY <2>2, FS_Singleton, FS_Product
<1>3. \A s \in S : IsFiniteSet(s)
  BY <1>2
<1>4. S = {{t} \X (1 .. f[t]) : t \in Tickets}
  OBVIOUS
<1> HIDE DEF S
<1>5. IsFiniteSet(UNION S)
  BY <1>1, <1>3, FS_UNION
<1> QED BY <1>4, <1>5, FS_CardinalityType DEF AllSlots

LEMMA CountOfEntries ==
    ASSUME NEW fl \in [Tickets -> Slots]
    PROVE  /\ Cardinality(UNION {{t} \X (1 .. fl[t].open + fl[t].lapsed + fl[t].due) : t \in Tickets})
                = Cardinality(AllSlots(HeldBy(fl)))
           /\ HeldBy(fl) \in [Tickets -> Nat]
<1>1. \A t \in Tickets : Held(fl[t]) \in Nat
  BY DEF Held, Slots
<1>2. \A t \in Tickets :
          {t} \X (1 .. fl[t].open + fl[t].lapsed + fl[t].due) = {t} \X (1 .. HeldBy(fl)[t])
  BY DEF HeldBy, Held
<1>3. {{t} \X (1 .. fl[t].open + fl[t].lapsed + fl[t].due) : t \in Tickets}
        = {{t} \X (1 .. HeldBy(fl)[t]) : t \in Tickets}
  BY <1>2
<1> QED BY <1>1, <1>3 DEF AllSlots, HeldBy

LEMMA SlotCountInNat ==
    ASSUME TicketsAssumption, inflight \in [Tickets -> Slots]
    PROVE  inflight_count \in Nat
<1>1. HeldBy(inflight) \in [Tickets -> Nat] /\ inflight_count = Cardinality(AllSlots(HeldBy(inflight)))
  BY CountOfEntries DEF inflight_count, Entries
<1> QED BY <1>1, AllSlotsFinite
-----------------------------------------------------------------------------
(* The queue *)

LEMMA QueueIsFunction ==
    ASSUME NEW q \in Seq(QueueEntry)
    PROVE  /\ Len(q) \in Nat /\ q \in [1 .. Len(q) -> QueueEntry]
           /\ DOMAIN q = 1 .. Len(q)
           /\ \A i \in 1 .. Len(q) : q[i].score \in Nat /\ q[i].tid \in Tickets
<1>1. Len(q) \in Nat /\ q \in [1 .. Len(q) -> QueueEntry] /\ DOMAIN q = 1 .. Len(q)
  BY LenProperties
<1>2. \A i \in 1 .. Len(q) : q[i] \in QueueEntry
  BY <1>1
<1> QED BY <1>1, <1>2 DEF QueueEntry

\* What a sorted list has of scores up to a bound is a first part of it.
LEMMA LowScoresAreFirst ==
    ASSUME NEW m \in Nat, NEW sc \in [1 .. m -> Nat],
           \A i, j \in 1 .. m : i < j => sc[i] <= sc[j],
           NEW score \in Nat
    PROVE  LET n == Cardinality({i \in 1 .. m : sc[i] <= score}) IN
           /\ n \in 0 .. m
           /\ \A i \in 1 .. m : i <= n <=> sc[i] <= score
<1> DEFINE High == {i \in 1 .. m : ~(sc[i] <= score)}
<1>1. \E n \in 0 .. m : \A i \in 1 .. m : i <= n <=> sc[i] <= score
  <2>1. CASE High = {}
    <3>1. \A i \in 1 .. m : i <= m <=> sc[i] <= score
      BY <2>1
    <3> QED BY <3>1
  <2>2. CASE High # {}
    <3>1. High \subseteq Nat
      OBVIOUS
    <3>2. PICK h \in High : \A k \in High : <<k, h>> \notin OpToRel(<, Nat)
      <4> HIDE DEF High
      <4> QED BY <2>2, <3>1, NatLessThanWellFounded, WFMin
    <3>3. \A k \in High : ~(k < h)
      BY <3>1, <3>2, Zenon DEF OpToRel
    <3>4. \A i \in 1 .. m : i <= h - 1 => sc[i] <= score
      BY <3>3
    <3>5. \A i \in 1 .. m : sc[i] <= score => i <= h - 1
      <4> SUFFICES ASSUME NEW i \in 1 .. m, sc[i] <= score, ~(i <= h - 1)
                   PROVE  FALSE
        OBVIOUS
      <4>1. h \in 1 .. m /\ ~(sc[h] <= score)
        OBVIOUS
      <4>2. i = h \/ h < i
        BY <4>1
      <4>3. sc[h] <= sc[i]
        BY <4>1, <4>2
      <4> QED BY <4>1, <4>3
    <3>6. h - 1 \in 0 .. m
      OBVIOUS
    <3> QED BY <3>4, <3>5, <3>6
  <2> QED BY <2>1, <2>2
<1>2. PICK n \in 0 .. m : \A i \in 1 .. m : i <= n <=> sc[i] <= score
  BY <1>1
<1>3. {i \in 1 .. m : sc[i] <= score} = 1 .. n
  BY <1>2
<1>4. Cardinality(1 .. n) = n
  BY <1>2, FS_Interval
<1> QED BY <1>2, <1>3, <1>4

\* What the stable sort makes of q when an entry is appended.
Enqueued(q, score, t, r) ==
    /\ r \in Seq(QueueEntry) /\ Len(r) = Len(q) + 1 /\ Sorted(r)
    /\ {r[i].tid : i \in DOMAIN r} = {q[i].tid : i \in DOMAIN q} \cup {t}
    /\ \A i \in DOMAIN r :
          r[i] = [score |-> score, tid |-> t] \/ \E j \in DOMAIN q : r[i] = q[j]

\* r is q with e between the first n of its m elements and the others.
InsertedAt(q, m, n, e, r) ==
    /\ \A i \in 1 .. n : r[i] = q[i]
    /\ r[n + 1] = e
    /\ \A i \in n + 2 .. m + 1 : r[i] = q[i - 1]

Insert(q, n, e) == SubSeq(q, 1, n) \o <<e>> \o SubSeq(q, n + 1, Len(q))

LEMMA InsertedElements ==
    ASSUME NEW q \in Seq(QueueEntry), NEW e \in QueueEntry, NEW n \in 0 .. Len(q)
    PROVE  /\ Insert(q, n, e) \in Seq(QueueEntry) /\ Len(Insert(q, n, e)) = Len(q) + 1
           /\ InsertedAt(q, Len(q), n, e, Insert(q, n, e))
<1>0. PICK m : m = Len(q)
  OBVIOUS
<1>1. m = Len(q) /\ m \in Nat /\ n \in Nat /\ n <= m
  BY <1>0, LenProperties
<1>2. PICK a : a = SubSeq(q, 1, n)
  OBVIOUS
<1>3. PICK b : b = SubSeq(q, n + 1, m)
  OBVIOUS
<1>4. a \in Seq(QueueEntry) /\ Len(a) = n /\ \A i \in 1 .. n : a[i] = q[i]
  BY <1>1, <1>2, SubSeqProperties, Z3
<1>5. b \in Seq(QueueEntry) /\ Len(b) = m - n /\ \A i \in 1 .. m - n : b[i] = q[n + i]
  BY <1>1, <1>3, SubSeqProperties, Z3
<1>6. <<e>> \in Seq(QueueEntry) /\ Len(<<e>>) = 1 /\ <<e>>[1] = e
  OBVIOUS
<1>7. PICK o : o = <<e>>
  OBVIOUS
<1>8. PICK ao : ao = a \o o
  OBVIOUS
<1>9. /\ ao \in Seq(QueueEntry) /\ Len(ao) = n + 1
      /\ \A i \in 1 .. n : ao[i] = a[i]
      /\ ao[n + 1] = e
  <2>1. o \in Seq(QueueEntry) /\ Len(o) = 1 /\ o[1] = e
    BY <1>6, <1>7
  <2>2. /\ a \o o \in Seq(QueueEntry) /\ Len(a \o o) = Len(a) + Len(o)
        /\ \A i \in 1 .. Len(a) + Len(o) :
              (a \o o)[i] = IF i <= Len(a) THEN a[i] ELSE o[i - Len(a)]
    BY <1>4, <2>1, ConcatProperties
  <2> QED BY <1>1, <1>4, <1>8, <2>1, <2>2
<1>10. PICK r : r = ao \o b
  OBVIOUS
<1>11. /\ r \in Seq(QueueEntry) /\ Len(r) = Len(ao) + Len(b)
       /\ \A i \in 1 .. Len(ao) + Len(b) : r[i] = IF i <= Len(ao) THEN ao[i] ELSE b[i - Len(ao)]
  BY <1>5, <1>9, <1>10, ConcatProperties
<1>12. Len(r) = m + 1
  BY <1>1, <1>5, <1>9, <1>11
<1>13. \A i \in 1 .. n + 1 : r[i] = ao[i]
  <2> SUFFICES ASSUME NEW i \in 1 .. n + 1 PROVE r[i] = ao[i]
    OBVIOUS
  <2>1. i \in 1 .. Len(ao) + Len(b) /\ i <= Len(ao)
    BY <1>1, <1>5, <1>9
  <2> QED BY <1>11, <2>1
<1>14. \A i \in n + 2 .. m + 1 : r[i] = q[i - 1]
  <2> SUFFICES ASSUME NEW i \in n + 2 .. m + 1 PROVE r[i] = q[i - 1]
    OBVIOUS
  <2>1. r[i] = b[i - (n + 1)]
    <3>1. i \in 1 .. Len(ao) + Len(b) /\ ~(i <= Len(ao)) /\ i - Len(ao) = i - (n + 1)
      BY <1>1, <1>5, <1>9
    <3> QED BY <1>11, <3>1
  <2>2. PICK k : k = i - (n + 1)
    OBVIOUS
  <2>3. k \in 1 .. m - n /\ n + k = i - 1
    BY <1>1, <2>2
  <2> QED BY <1>5, <2>1, <2>2, <2>3
<1>15. r = Insert(q, n, e)
  BY <1>1, <1>2, <1>3, <1>7, <1>8, <1>10 DEF Insert
<1>16. \A i \in 1 .. n : r[i] = q[i]
  <2> SUFFICES ASSUME NEW i \in 1 .. n PROVE r[i] = q[i]
    OBVIOUS
  <2>1. i \in 1 .. n + 1
    BY <1>1
  <2> QED BY <1>4, <1>9, <1>13, <2>1
<1>17. r[n + 1] = e
  <2>1. n + 1 \in 1 .. n + 1
    BY <1>1
  <2> QED BY <1>9, <1>13, <2>1
<1>18. InsertedAt(q, m, n, e, r)
  BY <1>14, <1>16, <1>17 DEF InsertedAt
<1> QED BY <1>1, <1>11, <1>12, <1>15, <1>18

\* The same for entries of the queue, where order and tickets are kept.
LEMMA InsertKeepsOrder ==
    ASSUME NEW m \in Nat, NEW q \in [1 .. m -> QueueEntry],
           NEW n \in 0 .. m, NEW score \in Nat,
           \A i, j \in 1 .. m : i < j => q[i].score <= q[j].score,
           \A i \in 1 .. m : i <= n <=> q[i].score <= score,
           NEW e \in QueueEntry, e.score = score,
           NEW r \in [1 .. m + 1 -> QueueEntry], InsertedAt(q, m, n, e, r)
    PROVE  \A i, j \in 1 .. m + 1 : i < j => r[i].score <= r[j].score
<1> USE DEF InsertedAt
<1>1. \A i \in 1 .. m : q[i].score \in Nat
  BY DEF QueueEntry
<1> SUFFICES ASSUME NEW i \in 1 .. m + 1, NEW j \in 1 .. m + 1, i < j
             PROVE  r[i].score <= r[j].score
  OBVIOUS
<1>2. CASE j <= n
  BY <1>2
<1>3. CASE j = n + 1
  <2>1. i \in 1 .. n /\ i \in 1 .. m /\ i <= n
    BY <1>3
  <2> QED BY <1>3, <2>1
<1>4. CASE n + 1 < j
  <2>1. j \in n + 2 .. m + 1 /\ j - 1 \in 1 .. m /\ ~(j - 1 <= n)
    BY <1>4
  <2>2. r[j] = q[j - 1] /\ ~(q[j - 1].score <= score) /\ q[j - 1].score \in Nat
    BY <1>1, <2>1
  <2>3. CASE i <= n
    <3>1. i \in 1 .. n /\ i \in 1 .. m /\ i < j - 1
      BY <1>4, <2>3
    <3> QED BY <2>1, <2>2, <3>1
  <2>4. CASE i = n + 1
    BY <2>2, <2>4
  <2>5. CASE n + 1 < i
    <3>1. i \in n + 2 .. m + 1 /\ i - 1 \in 1 .. m /\ i - 1 < j - 1
      BY <2>5
    <3> QED BY <2>1, <2>2, <3>1
  <2> QED BY <2>3, <2>4, <2>5
<1> QED BY <1>2, <1>3, <1>4

\* r has the elements of q, and e.
HasAlso(q, m, e, r) ==
    /\ \A i \in 1 .. m + 1 : r[i] = e \/ \E j \in 1 .. m : r[i] = q[j]
    /\ \A j \in 1 .. m : \E i \in 1 .. m + 1 : r[i] = q[j]
    /\ \E i \in 1 .. m + 1 : r[i] = e

LEMMA InsertKeepsEntries ==
    ASSUME NEW m \in Nat, NEW q, NEW n \in 0 .. m, NEW e, NEW r, InsertedAt(q, m, n, e, r)
    PROVE  HasAlso(q, m, e, r)
<1> USE DEF InsertedAt
<1>1. \A i \in 1 .. m + 1 : r[i] = e \/ \E j \in 1 .. m : r[i] = q[j]
  <2> SUFFICES ASSUME NEW i \in 1 .. m + 1
               PROVE  r[i] = e \/ \E j \in 1 .. m : r[i] = q[j]
    OBVIOUS
  <2>1. CASE i <= n
    <3>1. i \in 1 .. n /\ i \in 1 .. m
      BY <2>1
    <3> QED BY <3>1
  <2>2. CASE i = n + 1
    BY <2>2
  <2>3. CASE n + 1 < i
    <3>1. i \in n + 2 .. m + 1 /\ i - 1 \in 1 .. m
      BY <2>3
    <3> QED BY <3>1
  <2> QED BY <2>1, <2>2, <2>3
<1>2. \A j \in 1 .. m : \E i \in 1 .. m + 1 : r[i] = q[j]
  <2> SUFFICES ASSUME NEW j \in 1 .. m
               PROVE  \E i \in 1 .. m + 1 : r[i] = q[j]
    OBVIOUS
  <2>1. CASE j <= n
    <3>1. j \in 1 .. n /\ j \in 1 .. m + 1
      BY <2>1
    <3> QED BY <3>1
  <2>2. CASE n < j
    <3>1. j + 1 \in n + 2 .. m + 1 /\ j + 1 \in 1 .. m + 1 /\ (j + 1) - 1 = j
      BY <2>2
    <3> QED BY <3>1
  <2> QED BY <2>1, <2>2
<1>3. n + 1 \in 1 .. m + 1
  OBVIOUS
<1> QED BY <1>1, <1>2, <1>3 DEF HasAlso

LEMMA EnqueueFacts ==
    ASSUME waiting \in Seq(QueueEntry), Sorted(waiting),
           NEW score \in Nat, NEW t \in Tickets, Enqueue(score, t)
    PROVE  Enqueued(waiting, score, t, waiting')
<1> PICK q : q = waiting
  OBVIOUS
<1> PICK r : r = waiting'
  OBVIOUS
<1>1. PICK m : m = Len(q)
  OBVIOUS
<1>2. PICK e : e = [score |-> score, tid |-> t]
  OBVIOUS
<1>3. /\ m \in Nat /\ q \in [1 .. m -> QueueEntry] /\ DOMAIN q = 1 .. m
      /\ \A i \in 1 .. m : q[i].score \in Nat /\ q[i].tid \in Tickets
  BY <1>1, QueueIsFunction
<1>4. e \in QueueEntry /\ e.score = score /\ e.tid = t
  BY <1>2 DEF QueueEntry
<1>5. \A i, j \in 1 .. m : i < j => q[i].score <= q[j].score
  BY <1>3 DEF Sorted
<1>6. PICK n : n = Cardinality({i \in DOMAIN q : q[i].score <= score})
  OBVIOUS
<1>7. n \in 0 .. m /\ \A i \in 1 .. m : i <= n <=> q[i].score <= score
  <2> DEFINE sc == [i \in 1 .. m |-> q[i].score]
  <2>1. sc \in [1 .. m -> Nat] /\ \A i, j \in 1 .. m : i < j => sc[i] <= sc[j]
    BY <1>3, <1>5
  <2>2. {i \in 1 .. m : sc[i] <= score} = {i \in DOMAIN q : q[i].score <= score}
    BY <1>3
  <2>3. \A i \in 1 .. m : sc[i] = q[i].score
    OBVIOUS
  <2> HIDE DEF sc
  <2>4. n = Cardinality({i \in 1 .. m : sc[i] <= score})
    BY <1>6, <2>2
  <2>5. n \in 0 .. m /\ \A i \in 1 .. m : i <= n <=> sc[i] <= score
    BY <1>3, <2>1, <2>4, LowScoresAreFirst
  <2> QED BY <2>3, <2>5
<1>8. r = Insert(q, n, e)
  BY <1>2, <1>6 DEF Enqueue, Insert
<1>9. n \in 0 .. Len(q) /\ q \in Seq(QueueEntry)
  BY <1>1, <1>7
<1>10. r \in Seq(QueueEntry) /\ Len(r) = Len(q) + 1 /\ InsertedAt(q, Len(q), n, e, r)
  BY <1>4, <1>8, <1>9, InsertedElements
<1>11. /\ r \in [1 .. m + 1 -> QueueEntry] /\ DOMAIN r = 1 .. m + 1
       /\ InsertedAt(q, m, n, e, r)
  BY <1>1, <1>10, QueueIsFunction
<1>12. \A i, j \in 1 .. m + 1 : i < j => r[i].score <= r[j].score
  BY <1>3, <1>4, <1>5, <1>7, <1>11, InsertKeepsOrder
<1>13. Sorted(r)
  BY <1>11, <1>12 DEF Sorted
<1>14. /\ \A i \in 1 .. m + 1 : r[i] = e \/ \E j \in 1 .. m : r[i] = q[j]
       /\ \A j \in 1 .. m : \E i \in 1 .. m + 1 : r[i] = q[j]
       /\ \E i \in 1 .. m + 1 : r[i] = e
  <2>1. HasAlso(q, m, e, r)
    BY <1>3, <1>7, <1>11, InsertKeepsEntries
  <2> QED BY <2>1 DEF HasAlso
<1>15. {r[i].tid : i \in DOMAIN r} = {q[i].tid : i \in DOMAIN q} \cup {t}
  <2>1. \A i \in DOMAIN r : r[i].tid \in {q[j].tid : j \in DOMAIN q} \cup {t}
    BY <1>3, <1>4, <1>11, <1>14
  <2>2. \A j \in DOMAIN q : q[j].tid \in {r[i].tid : i \in DOMAIN r}
    BY <1>3, <1>11, <1>14
  <2>3. t \in {r[i].tid : i \in DOMAIN r}
    BY <1>4, <1>11, <1>14
  <2> QED BY <2>1, <2>2, <2>3
<1>16. \A i \in DOMAIN r : r[i] = e \/ \E j \in DOMAIN q : r[i] = q[j]
  BY <1>3, <1>11, <1>14
<1>17. Enqueued(q, score, t, r)
  BY <1>2, <1>10, <1>13, <1>15, <1>16 DEF Enqueued
<1> QED BY <1>17

\* What is left when the first n are popped.
Dequeued(q, n, r) ==
    /\ r \in Seq(QueueEntry) /\ Len(r) = Len(q) - n /\ Sorted(r)
    /\ \A i \in DOMAIN r : \E j \in DOMAIN q : r[i] = q[j]
    /\ \A i \in DOMAIN q : i \in 1 .. n \/ \E j \in DOMAIN r : r[j] = q[i]

LEMMA DequeueFacts ==
    ASSUME NEW q \in Seq(QueueEntry), Sorted(q), NEW n \in 0 .. Len(q),
           NEW r, r = SubSeq(q, n + 1, Len(q))
    PROVE  Dequeued(q, n, r)
<1>0. PICK m : m = Len(q)
  OBVIOUS
<1>1. m = Len(q) /\ m \in Nat /\ DOMAIN q = 1 .. m /\ n \in Nat /\ n <= m
  BY <1>0, QueueIsFunction
<1>2. /\ r \in Seq(QueueEntry) /\ Len(r) = m - n
      /\ \A i \in 1 .. m - n : r[i] = q[n + i]
  BY <1>1, SubSeqProperties, Z3
<1>3. DOMAIN r = 1 .. m - n
  BY <1>2, QueueIsFunction
<1>4. \A i \in DOMAIN r : r[i] = q[n + i] /\ n + i \in DOMAIN q
  BY <1>1, <1>2, <1>3
<1>5. Sorted(r)
  <2> SUFFICES ASSUME NEW i \in DOMAIN r, NEW j \in DOMAIN r, i < j
               PROVE  r[i].score <= r[j].score
    BY DEF Sorted
  <2>1. n + i < n + j
    BY <1>1, <1>3
  <2>2. q[n + i].score <= q[n + j].score
    BY <1>4, <2>1 DEF Sorted
  <2> QED BY <1>4, <2>2
<1>6. \A i \in DOMAIN q : i \in 1 .. n \/ \E j \in DOMAIN r : r[j] = q[i]
  <2> SUFFICES ASSUME NEW i \in DOMAIN q, i \notin 1 .. n
               PROVE  \E j \in DOMAIN r : r[j] = q[i]
    OBVIOUS
  <2>1. i - n \in DOMAIN r /\ n + (i - n) = i
    BY <1>1, <1>3
  <2> QED BY <1>4, <2>1
<1> QED BY <1>1, <1>2, <1>4, <1>5, <1>6 DEF Dequeued
-----------------------------------------------------------------------------
(* The inductive invariant *)

Assumptions ==
    /\ WindowAssumption /\ TicketsAssumption /\ TickerAssumption /\ ModeAssumption
    /\ AttemptsAssumption /\ AlphaAssumption /\ TickAssumption

QueueOK == Sorted(waiting) /\ CounterIsLength

\* In aaac mode an entry, and one to be, has the number the ticket joined with.
ScoresOK ==
    Mode = "aaac" =>
        \A i \in DOMAIN waiting : waiting[i].score = tickets[waiting[i].tid].join_seq

FramesOK ==
    \A th \in Threads : frame[th].pc # "idle" =>
        /\ frame[th].tid \in Tickets
        /\ Mode = "aaac" => frame[th].score = tickets[frame[th].tid].join_seq

\* What the sweep has taken is handled before the next tick.
TickOK ==
    tick.pc # "requeue" => frame[Ticker].pc = "idle" /\ \A t \in Tickets : tick.expired[t] = 0

\* Nothing is known of a ticket before its client joins.
FreshOK ==
    \A t \in Tickets : client[t] = "new" =>
        /\ tickets[t].state = "NONE" /\ inflight[t] = NoSlots /\ t \notin Queued
        /\ tick.expired[t] = 0
        /\ \A th \in Threads : frame[th].pc # "idle" => frame[th].tid # t

IInv ==
    /\ TypeOK /\ QueueOK /\ ScoresOK /\ FramesOK /\ TickOK /\ FreshOK
    /\ NoTicketLost /\ SlotsAreAdmitted

LEMMA QueueTypes ==
    ASSUME TypeOK
    PROVE  /\ waiting \in Seq(QueueEntry) /\ Len(waiting) \in Nat
           /\ \A i \in DOMAIN waiting : waiting[i].tid \in Tickets /\ waiting[i].score \in Nat
           /\ Queued \subseteq Tickets
<1>1. waiting \in Seq(QueueEntry)
  BY DEF TypeOK, StoreTypeOK, QueueEntry
<1>2. Len(waiting) \in Nat /\ DOMAIN waiting = 1 .. Len(waiting)
  BY <1>1, QueueIsFunction
<1>3. \A i \in DOMAIN waiting : waiting[i].tid \in Tickets /\ waiting[i].score \in Nat
  BY <1>1, <1>2, QueueIsFunction
<1> QED BY <1>1, <1>2, <1>3 DEF Queued

\* What reinsert does to the store.
Reinserted(t, score) ==
    /\ tickets' \in [Tickets -> TicketData] /\ inflight' \in [Tickets -> Slots]
    /\ counter' = counter + 1
    /\ Enqueued(waiting, score, t, waiting')
    /\ tickets'[t].state = "WAITING" /\ inflight'[t] = NoSlots
    /\ \A u \in Tickets : u # t => tickets'[u] = tickets[u] /\ inflight'[u] = inflight[u]
    /\ \A u \in Tickets : tickets'[u].join_seq = tickets[u].join_seq

LEMMA ReinsertFacts ==
    ASSUME TypeOK, QueueOK, NEW t \in Tickets, NEW score \in Nat,
           NEW class \in AccessClass, NEW attempt \in Nat,
           reinsert(t, score, class, attempt)
    PROVE  Reinserted(t, score)
<1>1. tickets \in [Tickets -> TicketData] /\ inflight \in [Tickets -> Slots]
  BY DEF TypeOK, StoreTypeOK
<1>2. PICK d : d = tickets[t]
  OBVIOUS
<1>3. d \in TicketData
  BY <1>1, <1>2
<1>4. PICK e : e = [d EXCEPT !.state = "WAITING", !.class = class, !.attempt = attempt]
  OBVIOUS
<1>5. e \in TicketData /\ e.state = "WAITING" /\ e.join_seq = d.join_seq
  BY <1>3, <1>4 DEF TicketData
<1>6. tickets' = [tickets EXCEPT ![t] = e]
  BY <1>1, <1>2, <1>4 DEF reinsert
<1>7. inflight' = [inflight EXCEPT ![t] = NoSlots] /\ NoSlots \in Slots
  BY DEF reinsert, NoSlots, Slots
<1>8. Enqueued(waiting, score, t, waiting')
  BY QueueTypes, EnqueueFacts DEF reinsert, QueueOK
<1>9. /\ tickets' \in [Tickets -> TicketData] /\ tickets'[t] = e
      /\ \A u \in Tickets : u # t => tickets'[u] = tickets[u]
  BY <1>1, <1>5, <1>6
<1>10. /\ inflight' \in [Tickets -> Slots] /\ inflight'[t] = NoSlots
       /\ \A u \in Tickets : u # t => inflight'[u] = inflight[u]
  BY <1>1, <1>7
<1>11. \A u \in Tickets : tickets'[u].join_seq = tickets[u].join_seq
  BY <1>2, <1>5, <1>9
<1>12. counter' = counter + 1
  BY DEF reinsert
<1> QED BY <1>5, <1>8, <1>9, <1>10, <1>11, <1>12 DEF Reinserted

LEMMA NextClassType ==
    ASSUME NEW c \in AccessClass, NEW attempt, NEW limit
    PROVE  NextClass(c, attempt, limit) \in AccessClass
  BY DEF NextClass, Downgrade, AccessClass, HIGH, MEDIUM, LOW

LEMMA IdleType ==
    ASSUME NEW th \in Threads
    PROVE  Idle(th) \in Frame /\ Idle(th).pc = "idle"
  BY DEF Idle, Frame, AccessClass, HIGH, MEDIUM, LOW

LEMMA SlotsEqual ==
    ASSUME NEW s \in Slots
    PROVE  s = NoSlots <=> s.open = 0 /\ s.lapsed = 0 /\ s.due = 0
  BY DEF Slots, NoSlots

\* The end of a handle_timeout.
LEMMA HandledStep ==
    ASSUME Assumptions, IInv, NEW th \in Threads, frame[th].pc # "idle",
           NEW score \in Nat, Reinserted(frame[th].tid, score),
           Mode = "aaac" => score = frame[th].score,
           seq' \in Nat,
           frame' = [frame EXCEPT ![th] = Idle(th)],
           UNCHANGED <<controlVars, tick, client>>
    PROVE  IInv'
<1> PICK t : t = frame[th].tid
  OBVIOUS
<1>1. t \in Tickets /\ (Mode = "aaac" => score = tickets[t].join_seq)
  BY DEF IInv, FramesOK
<1>2. Reinserted(t, score)
  OBVIOUS
<1>3. frame \in [Threads -> Frame]
  BY DEF IInv, TypeOK
<1>4. /\ frame' \in [Threads -> Frame] /\ frame'[th].pc = "idle"
      /\ \A x \in Threads : x # th => frame'[x] = frame[x]
  BY <1>3, IdleType
<1>5. TypeOK'
  <2>1. counter' \in Int /\ waiting' \in Seq([score : Nat, tid : Tickets])
    BY <1>2 DEF Reinserted, Enqueued, IInv, TypeOK, StoreTypeOK, QueueEntry
  <2> QED BY <1>2, <1>4, <2>1 DEF Reinserted, IInv, TypeOK, StoreTypeOK, controlVars
<1>6. QueueOK'
  <2>1. Len(waiting) \in Nat
    BY QueueTypes DEF IInv
  <2> QED BY <1>2, <2>1 DEF Reinserted, Enqueued, IInv, QueueOK, CounterIsLength
<1>7. Queued' = Queued \cup {t}
  BY <1>2 DEF Reinserted, Enqueued, Queued
<1>8. ScoresOK'
  <2> SUFFICES ASSUME Mode = "aaac", NEW i \in DOMAIN waiting'
               PROVE  waiting'[i].score = tickets'[waiting'[i].tid].join_seq
    BY DEF ScoresOK
  <2>1. waiting'[i] = [score |-> score, tid |-> t] \/ \E j \in DOMAIN waiting : waiting'[i] = waiting[j]
    BY <1>2 DEF Reinserted, Enqueued
  <2>2. CASE waiting'[i] = [score |-> score, tid |-> t]
    BY <1>1, <1>2, <2>2 DEF Reinserted
  <2>3. CASE \E j \in DOMAIN waiting : waiting'[i] = waiting[j]
    <3>1. PICK j \in DOMAIN waiting : waiting'[i] = waiting[j]
      BY <2>3
    <3>2. waiting[j].tid \in Tickets
      BY QueueTypes DEF IInv
    <3> QED BY <1>2, <3>1, <3>2 DEF Reinserted, IInv, ScoresOK
  <2> QED BY <2>1, <2>2, <2>3
<1>9. FramesOK'
  BY <1>2, <1>4 DEF Reinserted, IInv, FramesOK
<1>10. TickOK'
  BY <1>4 DEF IInv, TickOK, Threads
<1>11. client[t] # "new"
  BY <1>1 DEF IInv, FreshOK
<1>12. FreshOK'
  BY <1>2, <1>4, <1>7, <1>11 DEF Reinserted, IInv, FreshOK
<1>13. NoTicketLost'
  <2> SUFFICES ASSUME NEW u \in Tickets
               PROVE  /\ tickets'[u].state = "WAITING" => u \in Queued'
                      /\ tickets'[u].state = "ADMITTED" => inflight'[u] # NoSlots \/ Handling(u)'
    BY DEF NoTicketLost, HasSlot
  <2>1. CASE u = t
    BY <1>2, <1>7, <2>1 DEF Reinserted
  <2>2. CASE u # t
    <3>1. tickets'[u] = tickets[u] /\ inflight'[u] = inflight[u]
      BY <1>2, <2>2 DEF Reinserted
    <3>2. Handling(u) => Handling(u)'
      BY <1>4, <2>2 DEF Handling, Threads
    <3> QED BY <1>7, <3>1, <3>2 DEF IInv, NoTicketLost, HasSlot
  <2> QED BY <2>1, <2>2
<1>14. SlotsAreAdmitted'
  BY <1>2 DEF Reinserted, IInv, SlotsAreAdmitted, HasSlot
<1> QED BY <1>5, <1>6, <1>8, <1>9, <1>10, <1>12, <1>13, <1>14 DEF IInv

LEMMA RetryType ==
    ASSUME AttemptsAssumption, NEW attempt \in Nat
    PROVE  Retry(attempt) \in Nat
  BY DEF Retry, AttemptsAssumption

LEMMA ReinsertKeepsInv ==
    ASSUME Assumptions, IInv, NEW th \in Threads, Reinsert(th)
    PROVE  IInv'
<1> PICK f : f = frame[th]
  OBVIOUS
<1>1. f \in Frame /\ f.pc # "idle"
  BY DEF IInv, TypeOK, Reinsert
<1>2. f.tid \in Tickets
  BY <1>1 DEF IInv, FramesOK
<1>3. f.score \in Nat /\ f.class \in AccessClass /\ f.attempt \in Nat
  BY <1>1 DEF Frame
<1>4. Retry(f.attempt) \in Nat
  BY <1>3, RetryType DEF Assumptions
<1>5. Reinserted(f.tid, f.score)
  BY <1>2, <1>3, <1>4, ReinsertFacts DEF IInv, Reinsert
<1>6. /\ frame' = [frame EXCEPT ![th] = Idle(th)] /\ seq' \in Nat
      /\ UNCHANGED <<controlVars, tick, client>>
  BY DEF Reinsert, IInv, TypeOK, StoreTypeOK
<1> QED BY <1>1, <1>3, <1>5, <1>6, HandledStep

LEMMA ResumeKeepsInv ==
    ASSUME Assumptions, IInv, NEW th \in Threads, Resume(th)
    PROVE  IInv'
<1> PICK f : f = frame[th]
  OBVIOUS
<1> PICK class : class = NextClass(f.class, f.attempt, max_attempts)
  OBVIOUS
<1> PICK score : score = IF Mode = "aaac" THEN f.score ELSE seq + 1
  OBVIOUS
<1>1. f \in Frame /\ f.pc # "idle" /\ seq \in Nat
  BY DEF IInv, TypeOK, StoreTypeOK, Resume
<1>2. f.tid \in Tickets
  BY <1>1 DEF IInv, FramesOK
<1>3. f.score \in Nat /\ f.class \in AccessClass /\ f.attempt \in Nat
  BY <1>1 DEF Frame
<1>4. Retry(f.attempt) \in Nat /\ class \in AccessClass /\ score \in Nat
  BY <1>1, <1>3, RetryType, NextClassType DEF Assumptions
<1>5. seq' \in Nat /\ UNCHANGED <<controlVars, tick, client>>
  BY <1>1 DEF Resume
<1>6. CASE class = f.class
  <2>1. reinsert(f.tid, score, class, Retry(f.attempt)) /\ frame' = [frame EXCEPT ![th] = Idle(th)]
    BY <1>6 DEF Resume
  <2>2. Reinserted(f.tid, score)
    BY <1>2, <1>4, <2>1, ReinsertFacts DEF IInv
  <2>3. Mode = "aaac" => score = f.score
    OBVIOUS
  <2> QED BY <1>1, <1>4, <1>5, <2>1, <2>2, <2>3, HandledStep
<1>7. CASE class # f.class
  <2>1. /\ frame' = [frame EXCEPT ![th] =
                         [f EXCEPT !.pc = "reinsert", !.class = class, !.score = score]]
        /\ UNCHANGED <<tickets, waiting, inflight, counter>>
    BY <1>7 DEF Resume
  <2>2. PICK g : g = [f EXCEPT !.pc = "reinsert", !.class = class, !.score = score]
    OBVIOUS
  <2>3. g \in Frame /\ g.pc = "reinsert" /\ g.tid = f.tid /\ g.score = score
    BY <1>1, <1>4, <2>2 DEF Frame
  <2>4. /\ frame' \in [Threads -> Frame] /\ frame'[th] = g
        /\ \A x \in Threads : x # th => frame'[x] = frame[x]
    BY <2>1, <2>2, <2>3 DEF IInv, TypeOK
  <2>5. TypeOK'
    BY <1>5, <2>1, <2>4 DEF IInv, TypeOK, StoreTypeOK, controlVars
  <2>6. Queued' = Queued /\ QueueOK' /\ ScoresOK'
    BY <2>1 DEF IInv, QueueOK, CounterIsLength, ScoresOK, Queued
  <2>7. FramesOK'
    <3>1. Mode = "aaac" => score = tickets[f.tid].join_seq
      BY <1>1 DEF IInv, FramesOK
    <3> QED BY <1>2, <2>1, <2>3, <2>4, <3>1 DEF IInv, FramesOK
  <2>8. TickOK'
    BY <1>1, <1>5, <2>4 DEF IInv, TickOK, Threads
  <2>9. FreshOK'
    BY <1>1, <1>5, <2>1, <2>3, <2>4, <2>6 DEF IInv, FreshOK
  <2>10. \A u \in Tickets : Handling(u) => Handling(u)'
    BY <1>5, <2>3, <2>4 DEF Handling, Threads
  <2>11. NoTicketLost' /\ SlotsAreAdmitted'
    BY <2>1, <2>6, <2>10 DEF IInv, NoTicketLost, SlotsAreAdmitted, HasSlot
  <2> QED BY <2>5, <2>6, <2>7, <2>8, <2>9, <2>11 DEF IInv
<1> QED BY <1>6, <1>7
-----------------------------------------------------------------------------
(* The steps of the clients *)

\* What create_ticket does to the store.
Created(t, number) ==
    /\ tickets' \in [Tickets -> TicketData] /\ counter' = counter + 1
    /\ Enqueued(waiting, number, t, waiting')
    /\ tickets'[t].state = "WAITING" /\ tickets'[t].join_seq = number
    /\ \A u \in Tickets : u # t => tickets'[u] = tickets[u]

LEMMA CreateFacts ==
    ASSUME TypeOK, QueueOK, NEW t \in Tickets, NEW number \in Nat,
           create_ticket(t, number, MEDIUM)
    PROVE  Created(t, number)
<1>1. tickets \in [Tickets -> TicketData]
  BY DEF TypeOK, StoreTypeOK
<1>2. PICK e : e = [state |-> "WAITING", attempt |-> 1, class |-> MEDIUM, join_seq |-> number]
  OBVIOUS
<1>3. e \in TicketData /\ e.state = "WAITING" /\ e.join_seq = number
  BY <1>2 DEF TicketData, AccessClass, HIGH, MEDIUM, LOW
<1>4. tickets' = [tickets EXCEPT ![t] = e]
  BY <1>2 DEF create_ticket
<1>5. Enqueued(waiting, number, t, waiting')
  BY QueueTypes, EnqueueFacts DEF create_ticket, QueueOK
<1>6. counter' = counter + 1
  BY DEF create_ticket
<1> QED BY <1>1, <1>3, <1>4, <1>5, <1>6 DEF Created

LEMMA JoinKeepsInv ==
    ASSUME Assumptions, IInv, NEW t \in Tickets, Join(t)
    PROVE  IInv'
<1> PICK number : number = seq + 1
  OBVIOUS
<1>1. number \in Nat /\ seq' = number /\ client[t] = "new" /\ client' = [client EXCEPT ![t] = "polling"]
  BY DEF IInv, TypeOK, StoreTypeOK, Join
<1>2. UNCHANGED <<inflight, controlVars, tick, frame>>
  BY DEF Join
<1>3. Created(t, number)
  BY <1>1, CreateFacts DEF IInv, Join
<1>4. /\ tickets[t].state = "NONE" /\ inflight[t] = NoSlots /\ t \notin Queued
      /\ \A th \in Threads : frame[th].pc # "idle" => frame[th].tid # t
  BY <1>1 DEF IInv, FreshOK
<1>5. Queued' = Queued \cup {t}
  BY <1>3 DEF Created, Enqueued, Queued
<1>6. TypeOK'
  <2>1. counter' \in Int /\ waiting' \in Seq([score : Nat, tid : Tickets])
    BY <1>3 DEF Created, Enqueued, IInv, TypeOK, StoreTypeOK, QueueEntry
  <2> QED BY <1>1, <1>2, <1>3, <2>1 DEF Created, IInv, TypeOK, StoreTypeOK, controlVars
<1>7. QueueOK'
  <2>1. Len(waiting) \in Nat
    BY QueueTypes DEF IInv
  <2> QED BY <1>3, <2>1 DEF Created, Enqueued, IInv, QueueOK, CounterIsLength
<1>8. ScoresOK'
  <2> SUFFICES ASSUME Mode = "aaac", NEW i \in DOMAIN waiting'
               PROVE  waiting'[i].score = tickets'[waiting'[i].tid].join_seq
    BY DEF ScoresOK
  <2>1. waiting'[i] = [score |-> number, tid |-> t] \/ \E j \in DOMAIN waiting : waiting'[i] = waiting[j]
    BY <1>3 DEF Created, Enqueued
  <2>2. CASE waiting'[i] = [score |-> number, tid |-> t]
    BY <1>3, <2>2 DEF Created
  <2>3. CASE \E j \in DOMAIN waiting : waiting'[i] = waiting[j]
    <3>1. PICK j \in DOMAIN waiting : waiting'[i] = waiting[j]
      BY <2>3
    <3>2. waiting[j].tid \in Tickets /\ waiting[j].tid # t
      BY <1>4, QueueTypes DEF IInv, Queued
    <3> QED BY <1>3, <3>1, <3>2 DEF Created, IInv, ScoresOK
  <2> QED BY <2>1, <2>2, <2>3
<1>9. FramesOK'
  BY <1>2, <1>3, <1>4 DEF Created, IInv, FramesOK
<1>10. TickOK'
  BY <1>2 DEF IInv, TickOK
<1>11. FreshOK'
  BY <1>1, <1>2, <1>3, <1>5 DEF Created, IInv, TypeOK, FreshOK
<1>12. NoTicketLost' /\ SlotsAreAdmitted'
  BY <1>2, <1>3, <1>4, <1>5 DEF Created, IInv, NoTicketLost, SlotsAreAdmitted, HasSlot, Handling
<1> QED BY <1>6, <1>7, <1>8, <1>9, <1>10, <1>11, <1>12 DEF IInv

\* A step that moves a client on and leaves all else.
LEMMA ClientStep ==
    ASSUME IInv, NEW t \in Tickets, NEW c \in {"polling", "fetching", "finished"},
           client' = [client EXCEPT ![t] = c],
           UNCHANGED <<storeVars, controlVars, tick, frame>>
    PROVE  IInv'
<1> USE DEF storeVars, controlVars
<1>1. TypeOK'
  BY DEF IInv, TypeOK, StoreTypeOK
<1>2. QueueOK' /\ ScoresOK' /\ FramesOK' /\ TickOK' /\ NoTicketLost' /\ SlotsAreAdmitted'
  BY DEF IInv, QueueOK, CounterIsLength, ScoresOK, FramesOK, TickOK, NoTicketLost,
         SlotsAreAdmitted, HasSlot, Queued, Handling
<1>3. FreshOK'
  BY DEF IInv, TypeOK, FreshOK, Queued
<1> QED BY <1>1, <1>2, <1>3 DEF IInv

LEMMA ReportSuccessKeepsInv ==
    ASSUME Assumptions, IInv, NEW t \in Tickets, ReportSuccess(t)
    PROVE  IInv'
<1> PICK d : d = tickets[t]
  OBVIOUS
<1> PICK e : e = [d EXCEPT !.state = "COMPLETED"]
  OBVIOUS
<1>1. d \in TicketData /\ e \in TicketData /\ e.state = "COMPLETED" /\ e.join_seq = d.join_seq
  BY DEF IInv, TypeOK, StoreTypeOK, TicketData
<1>2. /\ tickets' = [tickets EXCEPT ![t] = e] /\ inflight' = [inflight EXCEPT ![t] = NoSlots]
      /\ client' = [client EXCEPT ![t] = "finished"] /\ client[t] # "new"
      /\ completions_this_tick' = completions_this_tick + 1
      /\ UNCHANGED <<seq, waiting, counter, alpha, mu_hat, healthy, tick, frame>>
  BY DEF ReportSuccess, complete
<1>3. /\ tickets' \in [Tickets -> TicketData] /\ tickets'[t] = e
      /\ \A u \in Tickets : u # t => tickets'[u] = tickets[u]
      /\ \A u \in Tickets : tickets'[u].join_seq = tickets[u].join_seq
  BY <1>1, <1>2 DEF IInv, TypeOK, StoreTypeOK
<1>4. NoSlots \in Slots
  BY DEF NoSlots, Slots
<1>5. /\ inflight' \in [Tickets -> Slots] /\ inflight'[t] = NoSlots
      /\ \A u \in Tickets : u # t => inflight'[u] = inflight[u]
  BY <1>2, <1>4 DEF IInv, TypeOK, StoreTypeOK
<1>6. TypeOK'
  BY <1>2, <1>3, <1>5 DEF IInv, TypeOK, StoreTypeOK
<1>7. QueueOK' /\ TickOK' /\ Queued' = Queued
  BY <1>2 DEF IInv, QueueOK, CounterIsLength, TickOK, Queued
<1>8. ScoresOK' /\ FramesOK'
  <2>1. \A i \in DOMAIN waiting : waiting[i].tid \in Tickets
    BY QueueTypes DEF IInv
  <2> QED BY <1>2, <1>3, <2>1 DEF IInv, ScoresOK, FramesOK
<1>9. FreshOK'
  BY <1>2, <1>3, <1>5, <1>7 DEF IInv, TypeOK, FreshOK
<1>10. NoTicketLost' /\ SlotsAreAdmitted'
  BY <1>1, <1>2, <1>3, <1>5, <1>7 DEF IInv, NoTicketLost, SlotsAreAdmitted, HasSlot, Handling
<1> QED BY <1>6, <1>7, <1>8, <1>9, <1>10 DEF IInv

\* handle_timeout has read the ticket.
Began(th, t) ==
    /\ frame' \in [Threads -> Frame]
    /\ frame'[th].pc = "resume" /\ frame'[th].tid = t /\ frame'[th].score = tickets[t].join_seq
    /\ \A x \in Threads : x # th => frame'[x] = frame[x]

LEMMA BeginFacts ==
    ASSUME IInv, NEW th \in Threads, NEW t \in Tickets, Begin(th, t)
    PROVE  Began(th, t)
<1>1. PICK d : d = tickets[t]
  OBVIOUS
<1>2. d.attempt \in Nat /\ d.class \in AccessClass /\ d.join_seq \in Nat
  <2>1. d \in TicketData
    BY <1>1 DEF IInv, TypeOK, StoreTypeOK
  <2> QED BY <2>1 DEF TicketData
<1>3. PICK g : g = [pc |-> "resume", tid |-> t, attempt |-> d.attempt, class |-> d.class,
                    score |-> d.join_seq]
  OBVIOUS
<1>4. g \in Frame /\ g.pc = "resume" /\ g.tid = t /\ g.score = d.join_seq
  BY <1>2, <1>3 DEF Frame, Threads
<1>5. frame' = [frame EXCEPT ![th] = g]
  BY <1>1, <1>3 DEF Begin
<1> QED BY <1>1, <1>4, <1>5 DEF Began, IInv, TypeOK

LEMMA ReportFailureKeepsInv ==
    ASSUME Assumptions, IInv, NEW t \in Tickets, ReportFailure(t)
    PROVE  IInv'
<1>1. /\ client[t] = "fetching" /\ frame[t].pc = "idle"
      /\ UNCHANGED <<storeVars, controlVars, tick>>
  BY DEF ReportFailure
<1>2. PICK c \in {"polling", "finished"} : client' = [client EXCEPT ![t] = c]
  BY DEF ReportFailure
<1>3. t \in Threads /\ t # Ticker /\ Ticker \in Threads
  BY DEF Threads, Assumptions, TickerAssumption
<1>4. Began(t, t)
  BY <1>3, BeginFacts DEF ReportFailure
<1>5. frame'[Ticker] = frame[Ticker]
  BY <1>3, <1>4 DEF Began
<1> USE DEF storeVars, controlVars
<1>6. TypeOK'
  BY <1>1, <1>2, <1>4 DEF Began, IInv, TypeOK, StoreTypeOK
<1>7. QueueOK' /\ ScoresOK' /\ TickOK' /\ NoTicketLost' /\ SlotsAreAdmitted'
  BY <1>1, <1>5 DEF IInv, QueueOK, CounterIsLength, ScoresOK, TickOK, NoTicketLost,
         SlotsAreAdmitted, HasSlot, Queued, Handling
<1>8. FramesOK'
  BY <1>1, <1>4 DEF Began, IInv, FramesOK
<1>9. FreshOK'
  BY <1>1, <1>2, <1>4 DEF Began, IInv, TypeOK, FreshOK, Queued
<1> QED BY <1>6, <1>7, <1>8, <1>9 DEF IInv
-----------------------------------------------------------------------------
(* Time, and the steps of a tick *)

\* A step after which the same tickets have slots, taken by the sweep or not.
LEMMA SlotsStep ==
    ASSUME IInv, TypeOK', TickOK',
           UNCHANGED <<seq, tickets, waiting, counter, frame, client>>,
           \A u \in Tickets : (inflight'[u] = NoSlots <=> inflight[u] = NoSlots),
           \A u \in Tickets : tick'.expired[u] = tick.expired[u]
    PROVE  IInv'
<1>1. Queued' = Queued /\ QueueOK' /\ ScoresOK' /\ FramesOK'
  BY DEF IInv, QueueOK, CounterIsLength, ScoresOK, FramesOK, Queued
<1>2. FreshOK' /\ NoTicketLost' /\ SlotsAreAdmitted'
  BY <1>1 DEF IInv, FreshOK, NoTicketLost, SlotsAreAdmitted, HasSlot, Handling
<1> QED BY <1>1, <1>2 DEF IInv

LEMMA SlotLapses ==
    ASSUME NEW s \in Slots, s.open > 0
    PROVE  LET r == [s EXCEPT !.open = @ - 1, !.lapsed = @ + 1] IN
           r \in Slots /\ r.lapsed # 0 /\ s.open # 0
<1>1. s.open \in Nat /\ s.lapsed \in Nat /\ s.due \in Nat
  BY DEF Slots
<1>2. s.open - 1 \in Nat /\ s.lapsed + 1 \in Nat /\ s.lapsed + 1 # 0 /\ s.open # 0
  BY <1>1
<1>3. PICK o, l : o = s.open - 1 /\ l = s.lapsed + 1
  OBVIOUS
<1>4. [s EXCEPT !.open = o, !.lapsed = l] \in Slots /\ [s EXCEPT !.open = o, !.lapsed = l].lapsed = l
  BY <1>2, <1>3 DEF Slots
<1> QED BY <1>2, <1>3, <1>4

LEMMA SlotsGetDue ==
    ASSUME NEW s \in Slots
    PROVE  LET r == [s EXCEPT !.lapsed = 0, !.due = @ + s.lapsed] IN
           r \in Slots /\ (r = NoSlots <=> s = NoSlots)
<1>1. s.open \in Nat /\ s.lapsed \in Nat /\ s.due \in Nat
  BY DEF Slots
<1>2. PICK d : d = s.due + s.lapsed
  OBVIOUS
<1>3. PICK r : r = [s EXCEPT !.lapsed = 0, !.due = d]
  OBVIOUS
<1>4. d \in Nat /\ (d = 0 <=> s.due = 0 /\ s.lapsed = 0)
  BY <1>1, <1>2
<1>5. r \in Slots /\ r.open = s.open /\ r.lapsed = 0 /\ r.due = d
  BY <1>3, <1>4 DEF Slots
<1>6. r = NoSlots <=> s = NoSlots
  BY <1>4, <1>5, SlotsEqual
<1>7. r = [s EXCEPT !.lapsed = 0, !.due = @ + s.lapsed]
  BY <1>2, <1>3
<1> QED BY <1>5, <1>6, <1>7

LEMMA LapseKeepsInv ==
    ASSUME IInv, NEW t \in Tickets, Lapse(t)
    PROVE  IInv'
<1> PICK s : s = inflight[t]
  OBVIOUS
<1> PICK r : r = [s EXCEPT !.open = @ - 1, !.lapsed = @ + 1]
  OBVIOUS
<1>1. s \in Slots /\ s.open > 0 /\ inflight \in [Tickets -> Slots]
  BY DEF IInv, TypeOK, StoreTypeOK, Lapse
<1>2. r \in Slots /\ r.lapsed # 0 /\ s.open # 0
  BY <1>1, SlotLapses
<1>3. r # NoSlots /\ s # NoSlots
  BY <1>1, <1>2, SlotsEqual
<1>4. inflight' = [inflight EXCEPT ![t] = r]
  BY DEF Lapse
<1>5. inflight' \in [Tickets -> Slots] /\ \A u \in Tickets : (inflight'[u] = NoSlots <=> inflight[u] = NoSlots)
  BY <1>1, <1>2, <1>3, <1>4
<1>6. UNCHANGED <<seq, tickets, waiting, counter, controlVars, tick, frame, client>>
  BY DEF Lapse
<1>7. TypeOK' /\ TickOK'
  BY <1>5, <1>6 DEF IInv, TypeOK, StoreTypeOK, TickOK, controlVars
<1> QED BY <1>5, <1>6, <1>7, SlotsStep

LEMMA EwmaType ==
    ASSUME TickAssumption, NEW comps \in Nat, NEW mu \in Nat
    PROVE  Ewma(comps, mu) \in Nat
<1> PICK span : span = IF horizon < control_tick THEN control_tick ELSE horizon
  OBVIOUS
<1>1. span \in Nat /\ span # 0 /\ span - control_tick \in Nat /\ mu_unit \in Nat
  BY DEF TickAssumption
<1>2. comps * 1000 \in Nat /\ comps * 1000 * mu_unit \in Nat /\ (span - control_tick) * mu \in Nat
  BY <1>1, TimesInNat
<1>3. comps * 1000 * mu_unit + (span - control_tick) * mu \in Nat
  BY <1>2
<1> QED BY <1>1, <1>3, CeilDivInNat DEF Ewma

LEMMA TickStartKeepsInv ==
    ASSUME Assumptions, IInv, TickStart
    PROVE  IInv'
<1>1. /\ tick.pc = "rest" /\ tick' = [tick EXCEPT !.pc = "poll"]
      /\ mu_hat' = Ewma(completions_this_tick, mu_hat) /\ completions_this_tick' = 0
      /\ UNCHANGED <<seq, tickets, waiting, counter, alpha, healthy, frame, client>>
  BY DEF TickStart
<1>2. tick' \in Tick /\ tick'.pc = "poll" /\ tick'.expired = tick.expired
  BY <1>1 DEF IInv, TypeOK, Tick
<1>3. \A u \in Tickets :
          /\ inflight'[u] \in Slots
          /\ (inflight'[u] = NoSlots <=> inflight[u] = NoSlots)
  <2> SUFFICES ASSUME NEW u \in Tickets
               PROVE  /\ inflight'[u] \in Slots
                      /\ (inflight'[u] = NoSlots <=> inflight[u] = NoSlots)
    OBVIOUS
  <2> PICK s : s = inflight[u]
    OBVIOUS
  <2>1. s \in Slots
    BY DEF IInv, TypeOK, StoreTypeOK
  <2>2. PICK r : r = [s EXCEPT !.lapsed = 0, !.due = @ + s.lapsed]
    OBVIOUS
  <2>3. inflight'[u] = r
    BY <2>2 DEF TickStart
  <2>4. r \in Slots /\ (r = NoSlots <=> s = NoSlots)
    BY <2>1, <2>2, SlotsGetDue
  <2> QED BY <2>3, <2>4
<1>4. inflight' \in [Tickets -> Slots]
  <2>1. inflight' = [t \in Tickets |-> [inflight[t] EXCEPT !.lapsed = 0, !.due = @ + inflight[t].lapsed]]
    BY DEF TickStart
  <2>2. \A t \in Tickets : [inflight[t] EXCEPT !.lapsed = 0, !.due = @ + inflight[t].lapsed] = inflight'[t]
    BY <2>1
  <2>3. inflight' = [t \in Tickets |-> inflight'[t]]
    BY <2>1, <2>2
  <2> QED BY <1>3, <2>3
<1>5. mu_hat' \in Nat
  BY <1>1, EwmaType DEF IInv, TypeOK, Assumptions
<1>6. TypeOK' /\ TickOK'
  BY <1>1, <1>2, <1>4, <1>5 DEF IInv, TypeOK, StoreTypeOK, TickOK
<1> QED BY <1>1, <1>2, <1>3, <1>6, SlotsStep

LEMMA NextAlphaType ==
    ASSUME AlphaAssumption, alpha \in alpha_min .. alpha_max, NEW ok \in BOOLEAN
    PROVE  NextAlpha(ok) \in alpha_min .. alpha_max
<1>1. /\ alpha \in Nat /\ alpha_min \in Nat /\ alpha_max \in Nat /\ alpha_min <= alpha_max
      /\ alpha_increase \in Nat /\ alpha_decrease \in Nat
  BY DEF AlphaAssumption
<1>2. alpha * alpha_decrease \in Nat
  BY <1>1, TimesInNat
<1>3. (alpha * alpha_decrease) \div 100 \in Nat
  BY <1>2, DivInNat
<1>4. PICK a : a = IF ok THEN alpha + alpha_increase ELSE (alpha * alpha_decrease) \div 100
  OBVIOUS
<1>5. a \in Nat
  BY <1>1, <1>3, <1>4
<1>6. NextAlpha(ok) = Clamp(a)
  BY <1>4 DEF NextAlpha
<1> QED BY <1>1, <1>5, <1>6 DEF Clamp, Least

LEMMA AllowanceType ==
    ASSUME Assumptions, TypeOK, NEW a \in Nat
    PROVE  Allowance(a, Cap(Len(waiting)), Len(waiting)) \in 0 .. Len(waiting)
<1> PICK total : total = Len(waiting)
  OBVIOUS
<1> PICK cap : cap = Cap(total)
  OBVIOUS
<1>1. total \in Nat
  BY QueueTypes
<1>2. cap \in Nat
  BY <1>1, CapInNat DEF Assumptions, TypeOK
<1>3. inflight_count \in Nat
  BY SlotCountInNat DEF Assumptions, TypeOK, StoreTypeOK
<1>4. a * control_tick \in Nat
  BY TimesInNat DEF Assumptions, TickAssumption
<1>5. alpha_unit * 1000 \in Nat /\ alpha_unit * 1000 # 0
  BY DEF Assumptions, AlphaAssumption
<1>6. (a * control_tick) \div (alpha_unit * 1000) \in Nat
  BY <1>4, <1>5, DivInNat
<1>7. Allowance(a, cap, total) \in 0 .. total
  BY <1>1, <1>2, <1>3, <1>6 DEF Allowance, Least
<1> QED BY <1>7

\* t is among the first n of the queue.
IsPopped(t, n) == \E i \in 1 .. n : waiting[i].tid = t

LEMMA PoppedType ==
    ASSUME NEW t, NEW n \in Nat
    PROVE  Popped(t, n) \in Nat /\ (Popped(t, n) > 0 <=> IsPopped(t, n))
<1> DEFINE P == {i \in 1 .. n : waiting[i].tid = t}
<1>1. IsFiniteSet(1 .. n)
  BY FS_Interval
<1>2. IsFiniteSet(P)
  BY <1>1, FS_Subset
<1>3. Popped(t, n) = Cardinality(P)
  BY DEF Popped
<1>4. P = {} <=> ~IsPopped(t, n)
  BY DEF IsPopped
<1> HIDE DEF P
<1>5. Cardinality(P) \in Nat /\ (Cardinality(P) = 0 <=> P = {})
  BY <1>2, FS_CardinalityType, FS_EmptySet
<1> QED BY <1>3, <1>4, <1>5

LEMMA SlotOpens ==
    ASSUME NEW s \in Slots, NEW k \in Nat
    PROVE  LET r == [s EXCEPT !.open = @ + k] IN
           r \in Slots /\ (k = 0 => r = s) /\ (k > 0 => r # NoSlots)
<1>1. s.open \in Nat /\ s.lapsed \in Nat /\ s.due \in Nat
  BY DEF Slots
<1>2. PICK o : o = s.open + k
  OBVIOUS
<1>3. PICK r : r = [s EXCEPT !.open = o]
  OBVIOUS
<1>4. o \in Nat /\ (k = 0 => o = s.open) /\ (k > 0 => o # 0)
  BY <1>1, <1>2
<1>5. r \in Slots /\ r.open = o
  BY <1>3, <1>4 DEF Slots
<1>6. k = 0 => r = s
  BY <1>3, <1>4 DEF Slots
<1>7. k > 0 => r # NoSlots
  BY <1>4, <1>5, SlotsEqual
<1>8. r = [s EXCEPT !.open = @ + k]
  BY <1>2, <1>3
<1> QED BY <1>5, <1>6, <1>7, <1>8

\* What admit_n does to the store.
Admitted(n) ==
    /\ tickets' \in [Tickets -> TicketData] /\ inflight' \in [Tickets -> Slots]
    /\ counter' = counter - n
    /\ Dequeued(waiting, n, waiting')
    /\ \A t \in Tickets :
          /\ tickets'[t].join_seq = tickets[t].join_seq
          /\ IsPopped(t, n) => tickets'[t].state = "ADMITTED" /\ inflight'[t] # NoSlots
          /\ ~IsPopped(t, n) => tickets'[t] = tickets[t] /\ inflight'[t] = inflight[t]

LEMMA AdmitFacts ==
    ASSUME TypeOK, QueueOK, NEW n \in 0 .. Len(waiting), admit_n(n)
    PROVE  Admitted(n)
<1>0. n \in Nat
  BY QueueTypes
<1>1. tickets \in [Tickets -> TicketData] /\ inflight \in [Tickets -> Slots]
  BY DEF TypeOK, StoreTypeOK
<1>2. Dequeued(waiting, n, waiting') /\ counter' = counter - n
  BY QueueTypes, DequeueFacts DEF admit_n, QueueOK
<1>3. \A t \in Tickets : [tickets[t] EXCEPT !.state = "ADMITTED"] \in TicketData
  <2> SUFFICES ASSUME NEW t \in Tickets PROVE [tickets[t] EXCEPT !.state = "ADMITTED"] \in TicketData
    OBVIOUS
  <2>1. PICK d : d = tickets[t]
    OBVIOUS
  <2>2. d \in TicketData
    BY <1>1, <2>1
  <2>3. [d EXCEPT !.state = "ADMITTED"] \in TicketData
    BY <2>2 DEF TicketData
  <2> QED BY <2>1, <2>3
<1>4. tickets' = [t \in Tickets |->
          IF Popped(t, n) > 0 THEN [tickets[t] EXCEPT !.state = "ADMITTED"] ELSE tickets[t]]
  BY DEF admit_n
<1>5. tickets' \in [Tickets -> TicketData]
  BY <1>1, <1>3, <1>4
<1>6. \A t \in Tickets :
          /\ tickets'[t].join_seq = tickets[t].join_seq
          /\ IsPopped(t, n) => tickets'[t].state = "ADMITTED"
          /\ ~IsPopped(t, n) => tickets'[t] = tickets[t]
  <2> SUFFICES ASSUME NEW t \in Tickets
               PROVE  /\ tickets'[t].join_seq = tickets[t].join_seq
                      /\ IsPopped(t, n) => tickets'[t].state = "ADMITTED"
                      /\ ~IsPopped(t, n) => tickets'[t] = tickets[t]
    OBVIOUS
  <2>1. tickets[t] \in TicketData
    BY <1>1
  <2>2. Popped(t, n) > 0 <=> IsPopped(t, n)
    BY <1>0, PoppedType
  <2>3. [tickets[t] EXCEPT !.state = "ADMITTED"].state = "ADMITTED"
        /\ [tickets[t] EXCEPT !.state = "ADMITTED"].join_seq = tickets[t].join_seq
    BY <2>1 DEF TicketData
  <2>4. tickets'[t] = IF Popped(t, n) > 0 THEN [tickets[t] EXCEPT !.state = "ADMITTED"] ELSE tickets[t]
    BY <1>4
  <2> QED BY <2>2, <2>3, <2>4
<1>7. \A t \in Tickets :
          /\ inflight'[t] \in Slots
          /\ IsPopped(t, n) => inflight'[t] # NoSlots
          /\ ~IsPopped(t, n) => inflight'[t] = inflight[t]
  <2> SUFFICES ASSUME NEW t \in Tickets
               PROVE  /\ inflight'[t] \in Slots
                      /\ IsPopped(t, n) => inflight'[t] # NoSlots
                      /\ ~IsPopped(t, n) => inflight'[t] = inflight[t]
    OBVIOUS
  <2>1. PICK k : k = Popped(t, n)
    OBVIOUS
  <2>2. k \in Nat /\ (k > 0 <=> IsPopped(t, n))
    BY <1>0, <2>1, PoppedType
  <2>3. inflight'[t] = [inflight[t] EXCEPT !.open = @ + k]
    BY <2>1 DEF admit_n
  <2>4. inflight[t] \in Slots
    BY <1>1
  <2> QED BY <2>2, <2>3, <2>4, SlotOpens
<1>8. inflight' \in [Tickets -> Slots]
  <2>1. inflight' = [t \in Tickets |-> inflight'[t]]
    BY DEF admit_n
  <2> QED BY <1>7, <2>1
<1> QED BY <1>2, <1>5, <1>6, <1>7, <1>8 DEF Admitted

LEMMA TickAdmitKeepsInv ==
    ASSUME Assumptions, IInv, TickAdmit
    PROVE  IInv'
<1>1. /\ tick.pc = "poll" /\ tick' = [tick EXCEPT !.pc = "sweep"]
      /\ alpha' = NextAlpha(healthy')
      /\ UNCHANGED <<seq, mu_hat, completions_this_tick, frame, client>>
  BY DEF TickAdmit
<1>2. healthy' \in BOOLEAN
  BY DEF TickAdmit, Healthy
<1>3. alpha' \in alpha_min .. alpha_max
  BY <1>1, <1>2, NextAlphaType DEF IInv, TypeOK, Assumptions
<1>4. alpha' \in Nat
  BY <1>3 DEF Assumptions, AlphaAssumption
<1> PICK n : n = Allowance(alpha', Cap(Len(waiting)), Len(waiting))
  OBVIOUS
<1>5. n \in 0 .. Len(waiting)
  BY <1>4, AllowanceType DEF IInv
<1>6. Admitted(n)
  <2>1. admit_n(n)
    BY DEF TickAdmit
  <2> QED BY <1>5, <2>1, AdmitFacts DEF IInv
<1>7. n \in Nat /\ n <= Len(waiting) /\ Len(waiting) \in Nat /\ DOMAIN waiting = 1 .. Len(waiting)
  BY <1>5, QueueTypes, QueueIsFunction DEF IInv
<1>8. \A i \in 1 .. n : waiting[i].tid \in Queued
  BY <1>7 DEF Queued
<1>9. Queued' \subseteq Queued
  BY <1>6 DEF Admitted, Dequeued, Queued
<1>10. \A t \in Queued : IsPopped(t, n) \/ t \in Queued'
  BY <1>6 DEF Admitted, Dequeued, Queued, IsPopped
<1>11. tick' \in Tick /\ tick'.pc = "sweep" /\ tick'.expired = tick.expired
  BY <1>1 DEF IInv, TypeOK, Tick
<1>12. TypeOK'
  <2>1. counter' \in Int /\ waiting' \in Seq([score : Nat, tid : Tickets])
    BY <1>6, <1>7 DEF Admitted, Dequeued, IInv, TypeOK, StoreTypeOK, QueueEntry
  <2> QED BY <1>1, <1>2, <1>3, <1>6, <1>11, <2>1 DEF Admitted, IInv, TypeOK, StoreTypeOK
<1>13. QueueOK'
  BY <1>6, <1>7 DEF Admitted, Dequeued, IInv, QueueOK, CounterIsLength
<1>14. ScoresOK'
  <2> SUFFICES ASSUME Mode = "aaac", NEW i \in DOMAIN waiting'
               PROVE  waiting'[i].score = tickets'[waiting'[i].tid].join_seq
    BY DEF ScoresOK
  <2>1. PICK j \in DOMAIN waiting : waiting'[i] = waiting[j]
    BY <1>6 DEF Admitted, Dequeued
  <2>2. waiting[j].tid \in Tickets
    BY QueueTypes DEF IInv
  <2> QED BY <1>6, <2>1, <2>2 DEF Admitted, IInv, ScoresOK
<1>15. FramesOK'
  BY <1>1, <1>6 DEF Admitted, IInv, FramesOK
<1>16. TickOK'
  BY <1>1, <1>11 DEF IInv, TickOK
<1>17. FreshOK'
  <2> SUFFICES ASSUME NEW t \in Tickets, client'[t] = "new"
               PROVE  /\ tickets'[t].state = "NONE" /\ inflight'[t] = NoSlots /\ t \notin Queued'
                      /\ tick'.expired[t] = 0
                      /\ \A th \in Threads : frame'[th].pc # "idle" => frame'[th].tid # t
    BY DEF FreshOK
  <2>1. /\ tickets[t].state = "NONE" /\ inflight[t] = NoSlots /\ t \notin Queued
        /\ tick.expired[t] = 0
        /\ \A th \in Threads : frame[th].pc # "idle" => frame[th].tid # t
    BY <1>1 DEF IInv, FreshOK
  <2>2. ~IsPopped(t, n)
    BY <1>8, <2>1 DEF IsPopped
  <2> QED BY <1>1, <1>6, <1>9, <1>11, <2>1, <2>2 DEF Admitted
<1>18. NoTicketLost' /\ SlotsAreAdmitted'
  <2> SUFFICES ASSUME NEW t \in Tickets
               PROVE  /\ tickets'[t].state = "WAITING" => t \in Queued'
                      /\ tickets'[t].state = "ADMITTED" => inflight'[t] # NoSlots \/ Handling(t)'
                      /\ inflight'[t] # NoSlots => tickets'[t].state = "ADMITTED"
    BY DEF NoTicketLost, SlotsAreAdmitted, HasSlot
  <2>1. CASE IsPopped(t, n)
    BY <1>6, <2>1 DEF Admitted
  <2>2. CASE ~IsPopped(t, n)
    <3>1. tickets'[t] = tickets[t] /\ inflight'[t] = inflight[t]
      BY <1>6, <2>2 DEF Admitted
    <3>2. Handling(t)' <=> Handling(t)
      BY <1>1, <1>11 DEF Handling
    <3> QED BY <1>10, <2>2, <3>1, <3>2 DEF IInv, NoTicketLost, SlotsAreAdmitted, HasSlot
  <2> QED BY <2>1, <2>2
<1> QED BY <1>12, <1>13, <1>14, <1>15, <1>16, <1>17, <1>18 DEF IInv

LEMMA SlotSwept ==
    ASSUME NEW s \in Slots
    PROVE  LET r == [s EXCEPT !.due = 0] IN
           /\ r \in Slots /\ (s = NoSlots => r = NoSlots)
           /\ s # NoSlots /\ s.due = 0 => r # NoSlots
<1>1. s.open \in Nat /\ s.lapsed \in Nat /\ s.due \in Nat
  BY DEF Slots
<1>2. PICK r : r = [s EXCEPT !.due = 0]
  OBVIOUS
<1>3. r \in Slots /\ r.open = s.open /\ r.lapsed = s.lapsed /\ r.due = 0
  BY <1>2 DEF Slots
<1>4. s = NoSlots => r = NoSlots
  BY <1>3, SlotsEqual
<1>5. s # NoSlots /\ s.due = 0 => r # NoSlots
  BY <1>3, SlotsEqual
<1> QED BY <1>2, <1>3, <1>4, <1>5

LEMMA TickSweepKeepsInv ==
    ASSUME Assumptions, IInv, TickSweep
    PROVE  IInv'
<1>1. /\ tick.pc = "sweep" /\ expire_inflight
      /\ UNCHANGED <<seq, tickets, waiting, counter, controlVars, client>>
  BY DEF TickSweep
<1>2. /\ frame[Ticker].pc = "idle" /\ \A t \in Tickets : tick.expired[t] = 0
      /\ Ticker \in Threads /\ tick \in Tick
  BY <1>1 DEF IInv, TickOK, TypeOK, Threads
<1>3. \A u \in Tickets :
          /\ inflight'[u] \in Slots /\ (inflight[u] = NoSlots => inflight'[u] = NoSlots)
          /\ inflight[u] # NoSlots /\ inflight[u].due = 0 => inflight'[u] # NoSlots
  <2> SUFFICES ASSUME NEW u \in Tickets
               PROVE  /\ inflight'[u] \in Slots /\ (inflight[u] = NoSlots => inflight'[u] = NoSlots)
                      /\ inflight[u] # NoSlots /\ inflight[u].due = 0 => inflight'[u] # NoSlots
    OBVIOUS
  <2>1. inflight[u] \in Slots
    BY DEF IInv, TypeOK, StoreTypeOK
  <2>2. inflight'[u] = [inflight[u] EXCEPT !.due = 0]
    BY <1>1 DEF expire_inflight
  <2> QED BY <2>1, <2>2, SlotSwept
<1>4. inflight' \in [Tickets -> Slots]
  <2>1. inflight' = [t \in Tickets |-> inflight'[t]]
    BY <1>1 DEF expire_inflight
  <2> QED BY <1>3, <2>1
<1>5. \A u \in Tickets : Due[u] = inflight[u].due /\ Due[u] \in Nat
  <2>1. \A u \in Tickets : inflight[u] \in Slots
    BY DEF IInv, TypeOK, StoreTypeOK
  <2> QED BY <2>1 DEF Due, Slots
<1>6. Due \in [Tickets -> Nat]
  BY <1>5 DEF Due
<1>7. \A u \in Tickets : client[u] = "new" => Due[u] = 0
  <2> SUFFICES ASSUME NEW u \in Tickets, client[u] = "new" PROVE Due[u] = 0
    OBVIOUS
  <2>1. inflight[u] = NoSlots
    BY DEF IInv, FreshOK
  <2> QED BY <1>5, <2>1 DEF NoSlots
\* In both cases what is due is being handled, or was left to be.
<1>8. /\ tick' \in Tick /\ tick'.pc = "requeue" /\ frame' \in [Threads -> Frame]
      /\ \A u \in Tickets : Due[u] > 0 => Handling(u)'
      /\ FramesOK'
      /\ \A u \in Tickets : client[u] = "new" =>
              /\ tick'.expired[u] = 0
              /\ \A th \in Threads : frame'[th].pc # "idle" => frame'[th].tid # u
  <2>1. CASE Due = Nobody
    <3>1. tick' = [tick EXCEPT !.pc = "requeue"] /\ frame' = frame
      BY <2>1 DEF TickSweep
    <3>2. tick' \in Tick /\ tick'.pc = "requeue" /\ tick'.expired = tick.expired
      BY <1>2, <3>1 DEF Tick
    <3>3. \A u \in Tickets : ~(Due[u] > 0)
      BY <2>1 DEF Nobody
    <3>4. FramesOK'
      BY <1>1, <3>1 DEF IInv, FramesOK
    <3> QED BY <1>2, <3>1, <3>2, <3>3, <3>4 DEF IInv, TypeOK, FreshOK
  <2>2. CASE Due # Nobody
    <3>1. PICK t \in Tickets : /\ Due[t] > 0
                               /\ tick' = [pc |-> "requeue", expired |-> [Due EXCEPT ![t] = @ - 1]]
                               /\ Begin(Ticker, t)
      BY <2>2 DEF TickSweep
    <3>2. Began(Ticker, t)
      BY <1>2, <3>1, BeginFacts
    <3>3. PICK k : k = Due[t] - 1
      OBVIOUS
    <3>4. k \in Nat
      BY <1>5, <3>1, <3>3
    <3>5. PICK left : left = [Due EXCEPT ![t] = k]
      OBVIOUS
    <3>6. left \in [Tickets -> Nat] /\ \A u \in Tickets : u # t => left[u] = Due[u]
      BY <1>6, <3>4, <3>5
    <3>7. tick' = [pc |-> "requeue", expired |-> left]
      BY <3>1, <3>3, <3>5
    <3>8. tick' \in Tick /\ tick'.pc = "requeue" /\ tick'.expired = left
      BY <3>6, <3>7 DEF Tick
    <3>9. \A u \in Tickets : Due[u] > 0 => Handling(u)'
      BY <3>2, <3>6, <3>8 DEF Began, Handling
    <3>10. FramesOK'
      BY <1>1, <3>2 DEF Began, IInv, FramesOK
    <3>11. client[t] # "new"
      BY <1>7, <3>1
    <3> QED BY <3>2, <3>6, <3>8, <3>9, <3>10, <3>11, <1>7 DEF Began, IInv, FreshOK
  <2> QED BY <2>1, <2>2
<1>9. TypeOK'
  BY <1>1, <1>4, <1>8 DEF IInv, TypeOK, StoreTypeOK, controlVars
<1>10. Queued' = Queued /\ QueueOK' /\ ScoresOK' /\ TickOK'
  BY <1>1, <1>8 DEF IInv, QueueOK, CounterIsLength, ScoresOK, TickOK, Queued
<1>11. FreshOK'
  BY <1>1, <1>3, <1>8, <1>10 DEF IInv, FreshOK
<1>12. SlotsAreAdmitted'
  BY <1>1, <1>3 DEF IInv, SlotsAreAdmitted, HasSlot
<1>13. NoTicketLost'
  <2> SUFFICES ASSUME NEW u \in Tickets
               PROVE  /\ tickets'[u].state = "WAITING" => u \in Queued'
                      /\ tickets'[u].state = "ADMITTED" => inflight'[u] # NoSlots \/ Handling(u)'
    BY DEF NoTicketLost, HasSlot
  <2>1. tickets'[u].state = "WAITING" => u \in Queued'
    BY <1>1, <1>10 DEF IInv, NoTicketLost
  <2>2. ASSUME tickets'[u].state = "ADMITTED" PROVE inflight'[u] # NoSlots \/ Handling(u)'
    <3>1. inflight[u] # NoSlots
      BY <1>1, <1>2, <2>2 DEF IInv, NoTicketLost, HasSlot, Handling
    <3>2. Due[u] > 0 \/ inflight[u].due = 0
      BY <1>5
    <3> QED BY <1>3, <1>8, <3>1, <3>2
  <2> QED BY <2>1, <2>2
<1> QED BY <1>8, <1>9, <1>10, <1>11, <1>12, <1>13 DEF IInv

LEMMA TickRequeueKeepsInv ==
    ASSUME Assumptions, IInv, TickRequeue
    PROVE  IInv'
<1>1. /\ tick.pc = "requeue" /\ frame[Ticker].pc = "idle"
      /\ UNCHANGED <<storeVars, controlVars, client>>
  BY DEF TickRequeue
<1>2. PICK t \in Tickets : /\ tick.expired[t] > 0
                           /\ tick' = [tick EXCEPT !.expired[t] = @ - 1]
                           /\ Begin(Ticker, t)
  BY DEF TickRequeue
<1>3. Ticker \in Threads /\ tick \in Tick
  BY DEF IInv, TypeOK, Threads
<1>4. Began(Ticker, t)
  BY <1>2, <1>3, BeginFacts
<1>5. PICK x : x = tick.expired
  OBVIOUS
<1>6. x \in [Tickets -> Nat] /\ x[t] > 0
  BY <1>2, <1>3, <1>5 DEF Tick
<1>7. PICK k : k = x[t] - 1
  OBVIOUS
<1>8. k \in Nat
  BY <1>6, <1>7
<1>9. PICK left : left = [x EXCEPT ![t] = k]
  OBVIOUS
<1>10. left \in [Tickets -> Nat] /\ \A u \in Tickets : u # t => left[u] = x[u]
  BY <1>6, <1>8, <1>9
<1>11. tick' = [tick EXCEPT !.expired = left]
  BY <1>2, <1>3, <1>5, <1>7, <1>9 DEF Tick
<1>12. tick' \in Tick /\ tick'.pc = "requeue" /\ tick'.expired = left
  BY <1>1, <1>3, <1>10, <1>11 DEF Tick
<1>13. client[t] # "new"
  BY <1>2 DEF IInv, FreshOK
<1> USE DEF storeVars
<1>14. TypeOK'
  BY <1>1, <1>4, <1>12 DEF Began, IInv, TypeOK, StoreTypeOK, controlVars
<1>15. Queued' = Queued /\ QueueOK' /\ ScoresOK' /\ TickOK' /\ SlotsAreAdmitted'
  BY <1>1, <1>12 DEF IInv, QueueOK, CounterIsLength, ScoresOK, TickOK, SlotsAreAdmitted, HasSlot, Queued
<1>16. FramesOK'
  BY <1>1, <1>4 DEF Began, IInv, FramesOK
<1>17. FreshOK'
  BY <1>1, <1>4, <1>5, <1>10, <1>12, <1>13, <1>15 DEF Began, IInv, FreshOK
<1>18. \A u \in Tickets : Handling(u) => Handling(u)'
  BY <1>1, <1>4, <1>5, <1>10, <1>12 DEF Began, Handling
<1>19. NoTicketLost'
  BY <1>1, <1>15, <1>18 DEF IInv, NoTicketLost, HasSlot
<1> QED BY <1>14, <1>15, <1>16, <1>17, <1>19 DEF IInv

LEMMA TickEndKeepsInv ==
    ASSUME Assumptions, IInv, TickEnd
    PROVE  IInv'
<1>1. /\ frame[Ticker].pc = "idle" /\ tick.expired = Nobody
      /\ tick' = [tick EXCEPT !.pc = "rest"]
      /\ UNCHANGED <<storeVars, controlVars, frame, client>>
  BY DEF TickEnd
<1>2. tick' \in Tick /\ tick'.expired = tick.expired
  BY <1>1 DEF IInv, TypeOK, Tick
<1>3. TypeOK'
  BY <1>1, <1>2 DEF IInv, TypeOK, StoreTypeOK, storeVars, controlVars
<1>4. TickOK'
  BY <1>1, <1>2 DEF TickOK, Nobody
<1> QED BY <1>1, <1>2, <1>3, <1>4, SlotsStep DEF storeVars
-----------------------------------------------------------------------------
(* The cap *)

LEMMA FewerSlots ==
    ASSUME TicketsAssumption, NEW f \in [Tickets -> Nat], NEW g \in [Tickets -> Nat],
           \A t \in Tickets : g[t] <= f[t]
    PROVE  Cardinality(AllSlots(g)) <= Cardinality(AllSlots(f))
<1>1. AllSlots(g) \subseteq AllSlots(f)
  <2> SUFFICES ASSUME NEW t \in Tickets, NEW k \in 1 .. g[t]
               PROVE  <<t, k>> \in AllSlots(f)
    BY DEF AllSlots
  <2>1. k \in 1 .. f[t]
    OBVIOUS
  <2> QED BY <2>1 DEF AllSlots
<1> QED BY <1>1, AllSlotsFinite, FS_Subset

\* No two of 1 .. m have the same h.
Turns(h, m) == \A x, y \in 1 .. m : h[x] = h[y] => x = y

LEMMA SameImage ==
    ASSUME NEW T, NEW m, NEW h \in Injection(1 .. m, T)
    PROVE  Turns(h, m)
  BY DEF Injection, IsInjective, Turns

LEMMA InjectiveFunction ==
    ASSUME NEW S, NEW T, NEW h \in [S -> T], \A x, y \in S : h[x] = h[y] => x = y
    PROVE  h \in Injection(S, T)
  BY DEF Injection, IsInjective

\* Each of n goes to one ticket: there are n more entries at most.
LEMMA MoreSlots ==
    ASSUME TicketsAssumption, NEW f \in [Tickets -> Nat], NEW g \in [Tickets -> Nat],
           NEW n \in Nat, NEW who \in [1 .. n -> Tickets],
           \A t \in Tickets : g[t] = f[t] + Cardinality({i \in 1 .. n : who[i] = t})
    PROVE  Cardinality(AllSlots(g)) <= Cardinality(AllSlots(f)) + n
<1> DEFINE P(t) == {i \in 1 .. n : who[i] = t}
           size(t) == Cardinality(P(t))
           New == {e \in AllSlots(g) : e \notin AllSlots(f)}
           Order(t) == CHOOSE b : b \in Bijection(1 .. size(t), P(t))
           Turn == [e \in New |-> Order(e[1])[e[2] - f[e[1]]]]
<1>1. \A t \in Tickets : size(t) \in Nat /\ Order(t) \in Bijection(1 .. size(t), P(t))
  <2> SUFFICES ASSUME NEW t \in Tickets
               PROVE  size(t) \in Nat /\ Order(t) \in Bijection(1 .. size(t), P(t))
    OBVIOUS
  <2>1. IsFiniteSet(P(t))
    <3>1. IsFiniteSet(1 .. n) /\ P(t) \in SUBSET (1 .. n)
      BY FS_Interval
    <3> QED BY <3>1, FS_Subset
  <2> HIDE DEF P
  <2>2. size(t) \in Nat /\ ExistsBijection(1 .. size(t), P(t))
    BY <2>1, FS_CardinalityType
  <2> QED BY <2>2 DEF ExistsBijection
<1> HIDE DEF Order
<1>2. \A t \in Tickets : g[t] = f[t] + size(t)
  OBVIOUS
<1>a. \A t \in Tickets : P(t) \subseteq 1 .. n /\ \A i \in P(t) : who[i] = t
  OBVIOUS
<1> HIDE DEF size, P
<1>b. \A t \in Tickets : Turns(Order(t), size(t))
  <2> SUFFICES ASSUME NEW t \in Tickets PROVE Turns(Order(t), size(t))
    OBVIOUS
  <2> HIDE DEF New, Turn
  <2>1. Order(t) \in Injection(1 .. size(t), P(t))
    BY <1>1 DEF Bijection
  <2> QED BY <2>1, SameImage
<1>3. ASSUME NEW e \in New
      PROVE  /\ e[1] \in Tickets /\ e[2] \in Nat /\ e = <<e[1], e[2]>>
             /\ e[2] - f[e[1]] \in 1 .. size(e[1])
  <2>1. PICK t \in Tickets : e \in {t} \X (1 .. g[t])
    BY DEF AllSlots
  <2>2. PICK k \in 1 .. g[t] : e = <<t, k>>
    BY <2>1
  <2>3. ~(k \in 1 .. f[t])
    BY <2>2 DEF AllSlots
  <2>4. k \in Nat /\ k >= 1 /\ k <= g[t] /\ f[t] \in Nat /\ size(t) \in Nat /\ g[t] = f[t] + size(t)
    <3>1. f[t] \in Nat /\ g[t] \in Nat
      OBVIOUS
    <3>2. size(t) \in Nat
      BY <1>1
    <3>3. g[t] = f[t] + size(t)
      BY <1>2
    <3> QED BY <3>1, <3>2, <3>3
  <2>5. k - f[t] \in 1 .. size(t)
    BY <2>3, <2>4
  <2> QED BY <2>2, <2>4, <2>5
<1>4. \A e \in New : Turn[e] \in P(e[1])
  BY <1>1, <1>3 DEF Bijection, Injection
<1>5. \A e, d \in New : Turn[e] = Turn[d] => e = d
  <2> SUFFICES ASSUME NEW e \in New, NEW d \in New, Turn[e] = Turn[d]
               PROVE  e = d
    OBVIOUS
  <2>1. e[1] = d[1]
    BY <1>a, <1>3, <1>4
  <2> PICK t \in Tickets : t = e[1]
    BY <1>3
  <2> PICK k : k = e[2] - f[t]
    OBVIOUS
  <2> PICK j : j = d[2] - f[t]
    OBVIOUS
  <2>2. k \in 1 .. size(t) /\ j \in 1 .. size(t) /\ Order(t)[k] = Order(t)[j]
    BY <1>3, <2>1
  <2>3. k = j
    <3>1. Turns(Order(t), size(t))
      BY <1>b
    <3> QED BY <2>2, <3>1 DEF Turns
  <2>4. e[2] \in Nat /\ d[2] \in Nat /\ f[t] \in Nat
    BY <1>3
  <2>5. e[2] = d[2]
    BY <2>3, <2>4
  <2> QED BY <1>3, <2>1, <2>5
<1>6. Turn \in Injection(New, 1 .. n)
  <2>1. \A e \in New : Turn[e] \in 1 .. n
    BY <1>a, <1>3, <1>4
  <2>2. Turn = [e \in New |-> Turn[e]]
    OBVIOUS
  <2> HIDE DEF Turn, New
  <2>3. Turn \in [New -> 1 .. n]
    BY <2>1, <2>2
  <2> QED BY <1>5, <2>3, InjectiveFunction
<1> HIDE DEF Turn
<1>7. IsFiniteSet(New) /\ Cardinality(New) <= n /\ Cardinality(New) \in Nat
  <2>1. IsFiniteSet(1 .. n) /\ Cardinality(1 .. n) = n
    BY FS_Interval
  <2>2. IsFiniteSet(New) /\ Cardinality(New) <= n
    BY <1>6, <2>1, FS_Injection
  <2> QED BY <2>2, FS_CardinalityType
<1>8. AllSlots(g) \in SUBSET (AllSlots(f) \cup New)
  OBVIOUS
<1> HIDE DEF New
<1>9. IsFiniteSet(AllSlots(f) \cup New)
      /\ Cardinality(AllSlots(f) \cup New) <= Cardinality(AllSlots(f)) + Cardinality(New)
  <2>1. IsFiniteSet(AllSlots(f)) /\ Cardinality(AllSlots(f)) \in Nat
    BY AllSlotsFinite
  <2>2. IsFiniteSet(AllSlots(f) \cap New)
    BY <2>1, FS_Intersection
  <2>3. Cardinality(AllSlots(f) \cap New) \in Nat
    BY <2>2, FS_CardinalityType
  <2>4. IsFiniteSet(AllSlots(f) \cup New)
        /\ Cardinality(AllSlots(f) \cup New)
             = Cardinality(AllSlots(f)) + Cardinality(New) - Cardinality(AllSlots(f) \cap New)
    BY <1>7, <2>1, FS_Union
  <2> QED BY <1>7, <2>1, <2>3, <2>4
<1>10. Cardinality(AllSlots(g)) <= Cardinality(AllSlots(f) \cup New)
       /\ Cardinality(AllSlots(g)) \in Nat /\ Cardinality(AllSlots(f)) \in Nat
       /\ Cardinality(AllSlots(f) \cup New) \in Nat
  BY <1>8, <1>9, FS_Subset, AllSlotsFinite, FS_CardinalityType
<1> QED BY <1>7, <1>9, <1>10

\* Nothing but admit_n adds an entry.
LEMMA OthersAddNone ==
    ASSUME IInv, IInv', Next, ~TickAdmit, NEW u \in Tickets
    PROVE  Held(inflight'[u]) <= Held(inflight[u])
<1> PICK s : s = inflight[u]
  OBVIOUS
<1> PICK r : r = inflight'[u]
  OBVIOUS
<1>1. /\ s.open \in Nat /\ s.lapsed \in Nat /\ s.due \in Nat
      /\ r.open \in Nat /\ r.lapsed \in Nat /\ r.due \in Nat
      /\ inflight \in [Tickets -> Slots] /\ s \in Slots
  BY DEF IInv, TypeOK, StoreTypeOK, Slots
<1>2. r = s => Held(r) <= Held(s)
  BY <1>1 DEF Held
<1>3. r = NoSlots => Held(r) <= Held(s)
  BY <1>1 DEF Held, NoSlots
<1>4. CASE inflight' = inflight
  BY <1>2, <1>4
<1>5. CASE \E t \in Tickets : Lapse(t)
  <2>1. PICK t \in Tickets : inflight' = [inflight EXCEPT ![t].open = @ - 1, ![t].lapsed = @ + 1]
    BY <1>5 DEF Lapse
  <2>2. CASE u = t
    <3>1. r = [s EXCEPT !.open = @ - 1, !.lapsed = @ + 1]
      BY <1>1, <2>1, <2>2
    <3>2. r.open = s.open - 1 /\ r.lapsed = s.lapsed + 1 /\ r.due = s.due
      BY <1>1, <3>1 DEF Slots
    <3> QED BY <1>1, <3>2 DEF Held
  <2>3. CASE u # t
    BY <1>1, <1>2, <2>1, <2>3
  <2> QED BY <2>2, <2>3
<1>6. CASE TickStart
  <2>1. r = [s EXCEPT !.lapsed = 0, !.due = @ + s.lapsed]
    BY <1>6 DEF TickStart
  <2>2. r.open = s.open /\ r.lapsed = 0 /\ r.due = s.due + s.lapsed
    BY <1>1, <2>1 DEF Slots
  <2> QED BY <1>1, <2>2 DEF Held
<1>7. CASE TickSweep
  <2>1. r = [s EXCEPT !.due = 0]
    BY <1>7 DEF TickSweep, expire_inflight
  <2>2. r.open = s.open /\ r.lapsed = s.lapsed /\ r.due = 0
    BY <1>1, <2>1 DEF Slots
  <2> QED BY <1>1, <2>2 DEF Held
<1>8. CASE \E t : inflight' = [inflight EXCEPT ![t] = NoSlots]
  BY <1>1, <1>2, <1>3, <1>8
<1>9. CASE \E th \in Threads : HandleTimeout(th)
  BY <1>4, <1>8, <1>9 DEF HandleTimeout, Resume, Reinsert, reinsert
<1>10. CASE \E t \in Tickets : Client(t)
  BY <1>4, <1>8, <1>10 DEF Client, Join, Poll, Abandon, ReportSuccess, ReportFailure, complete, storeVars
<1>11. CASE TickRequeue \/ TickEnd
  BY <1>4, <1>11 DEF TickRequeue, TickEnd, storeVars
<1> QED BY <1>5, <1>6, <1>7, <1>9, <1>10, <1>11 DEF Next, ControllerTick

\* admit_n adds as many entries as it pops.
LEMMA AdmitAdds ==
    ASSUME TicketsAssumption, TypeOK, TypeOK', NEW n \in 0 .. Len(waiting), admit_n(n)
    PROVE  inflight_count' <= inflight_count + n
<1> DEFINE who == [i \in 1 .. n |-> waiting[i].tid]
<1>1. n \in Nat /\ DOMAIN waiting = 1 .. Len(waiting) /\ Len(waiting) \in Nat
  BY QueueTypes, QueueIsFunction
<1>2. who \in [1 .. n -> Tickets]
  BY <1>1, QueueTypes
<1>3. inflight \in [Tickets -> Slots] /\ inflight' \in [Tickets -> Slots]
  BY DEF TypeOK, StoreTypeOK
<1>4. ASSUME NEW t \in Tickets
      PROVE  HeldBy(inflight')[t] = HeldBy(inflight)[t] + Cardinality({i \in 1 .. n : who[i] = t})
  <2> PICK s, r : s = inflight[t] /\ r = inflight'[t]
    OBVIOUS
  <2>1. s \in Slots /\ s.open \in Nat /\ s.lapsed \in Nat /\ s.due \in Nat
    BY <1>3 DEF Slots
  <2>2. PICK k : k = Popped(t, n)
    OBVIOUS
  <2>3. k \in Nat
    BY <1>1, <2>2, PoppedType
  <2>4. r = [s EXCEPT !.open = @ + k]
    BY <2>2 DEF admit_n
  <2>5. r.open = s.open + k /\ r.lapsed = s.lapsed /\ r.due = s.due
    BY <2>1, <2>4 DEF Slots
  <2>6. Held(r) = Held(s) + k
    BY <2>1, <2>3, <2>5 DEF Held
  <2>7. {i \in 1 .. n : who[i] = t} = {i \in 1 .. n : waiting[i].tid = t}
    OBVIOUS
  <2> QED BY <2>2, <2>6, <2>7 DEF HeldBy, Popped
<1> HIDE DEF who
<1>5. /\ inflight_count = Cardinality(AllSlots(HeldBy(inflight)))
      /\ inflight_count' = Cardinality(AllSlots(HeldBy(inflight')))
      /\ HeldBy(inflight) \in [Tickets -> Nat] /\ HeldBy(inflight') \in [Tickets -> Nat]
  BY <1>3, CountOfEntries DEF inflight_count, Entries
<1> QED BY <1>1, <1>2, <1>4, <1>5, MoreSlots
-----------------------------------------------------------------------------
(* The theorems *)

LEMMA InitInv ==
    ASSUME Assumptions, Init
    PROVE  IInv
<1> USE DEF Init, StoreInit
<1>1. waiting = << >> /\ waiting \in Seq([score : Nat, tid : Tickets]) /\ Len(waiting) = 0
      /\ DOMAIN waiting = {}
  OBVIOUS
<1>2. MEDIUM \in AccessClass
  BY DEF AccessClass, HIGH, MEDIUM, LOW
<1>3. [state |-> "NONE", attempt |-> 0, class |-> MEDIUM, join_seq |-> 0] \in TicketData
  BY <1>2 DEF TicketData
<1>4. NoSlots \in Slots
  BY DEF NoSlots, Slots
<1>5. frame \in [Threads -> Frame] /\ \A th \in Threads : frame[th].pc = "idle"
  BY IdleType
<1>6. tick \in Tick /\ \A t \in Tickets : tick.expired[t] = 0
  BY DEF Tick, Nobody
<1>7. alpha \in alpha_min .. alpha_max
  BY DEF Assumptions, AlphaAssumption
<1>8. TypeOK
  BY <1>1, <1>3, <1>4, <1>5, <1>6, <1>7 DEF TypeOK, StoreTypeOK
<1>9. QueueOK /\ ScoresOK /\ Queued = {}
  BY <1>1 DEF QueueOK, Sorted, CounterIsLength, ScoresOK, Queued
<1>10. FramesOK /\ TickOK /\ FreshOK
  BY <1>5, <1>6, <1>9 DEF FramesOK, TickOK, FreshOK, Threads
<1>11. \A t \in Tickets : tickets[t].state = "NONE" /\ inflight[t] = NoSlots
  OBVIOUS
<1>12. NoTicketLost /\ SlotsAreAdmitted
  BY <1>11 DEF NoTicketLost, SlotsAreAdmitted, HasSlot
<1> QED BY <1>8, <1>9, <1>10, <1>12 DEF IInv

LEMMA NextKeepsInv ==
    ASSUME Assumptions, IInv, [Next]_vars
    PROVE  IInv'
<1>1. CASE \E t \in Tickets : Client(t) \/ Lapse(t)
  <2>1. PICK t \in Tickets : Client(t) \/ Lapse(t)
    BY <1>1
  <2>2. CASE Join(t)
    BY <2>2, JoinKeepsInv
  <2>3. CASE Poll(t)
    <3>1. \E c \in {"polling", "fetching", "finished"} : client' = [client EXCEPT ![t] = c]
      BY <2>3 DEF Poll
    <3>2. UNCHANGED <<storeVars, controlVars, tick, frame>>
      BY <2>3 DEF Poll
    <3> QED BY <3>1, <3>2, ClientStep
  <2>4. CASE Abandon(t)
    <3>1. client' = [client EXCEPT ![t] = "finished"] /\ UNCHANGED <<storeVars, controlVars, tick, frame>>
      BY <2>4 DEF Abandon
    <3> QED BY <3>1, ClientStep
  <2>5. CASE ReportSuccess(t)
    BY <2>5, ReportSuccessKeepsInv
  <2>6. CASE ReportFailure(t)
    BY <2>6, ReportFailureKeepsInv
  <2>7. CASE Lapse(t)
    BY <2>7, LapseKeepsInv
  <2> QED BY <2>1, <2>2, <2>3, <2>4, <2>5, <2>6, <2>7 DEF Client
<1>2. CASE \E th \in Threads : HandleTimeout(th)
  BY <1>2, ResumeKeepsInv, ReinsertKeepsInv DEF HandleTimeout
<1>3. CASE ControllerTick
  BY <1>3, TickStartKeepsInv, TickAdmitKeepsInv, TickSweepKeepsInv, TickRequeueKeepsInv,
     TickEndKeepsInv DEF ControllerTick
<1>4. CASE UNCHANGED vars
  <2>1. TypeOK' /\ TickOK'
    BY <1>4 DEF IInv, TypeOK, StoreTypeOK, TickOK, vars, storeVars, controlVars
  <2> QED BY <1>4, <2>1, SlotsStep DEF vars, storeVars, controlVars
<1> QED BY <1>1, <1>2, <1>3, <1>4 DEF Next

LEMMA Assumed == Assumptions
  BY WindowAssumption, TicketsAssumption, TickerAssumption, ModeAssumption, AttemptsAssumption,
     AlphaAssumption, TickAssumption DEF Assumptions

LEMMA InvHolds == Spec => []IInv
<1>1. Init => IInv
  BY Assumed, InitInv
<1>2. IInv /\ [Next]_vars => IInv'
  BY Assumed, NextKeepsInv
<1> QED BY <1>1, <1>2, PTL DEF Spec

\* The store, the controller's numbers and every frame stay within their types:
\* alpha never leaves its bounds, whatever the origin answers, and n is never
\* more than what waits.
THEOREM ControllerTypeCorrect == Spec => []TypeOK
<1>1. IInv => TypeOK
  BY DEF IInv
<1> QED BY <1>1, InvHolds, PTL

\* handle_timeout and _tick of InMemoryQueueStore lose no ticket.
THEOREM NoTicketIsLost == Spec => []NoTicketLost
<1>1. IInv => NoTicketLost
  BY DEF IInv
<1> QED BY <1>1, InvHolds, PTL

\* complete and reinsert give back every slot of their ticket.
THEOREM SlotsBelongToAdmitted == Spec => []SlotsAreAdmitted
<1>1. IInv => SlotsAreAdmitted
  BY DEF IInv
<1> QED BY <1>1, InvHolds, PTL

\* The waiting counter is the length of _waiting.
THEOREM CounterIsExact == Spec => []CounterIsLength
<1>1. IInv => CounterIsLength
  BY DEF IInv, QueueOK
<1> QED BY <1>1, InvHolds, PTL

\* C4: in aaac mode _waiting is in the order of the joins.
THEOREM QueueInJoinOrder == Spec => []InJoinOrder
<1>1. IInv => InJoinOrder
  BY DEF IInv, QueueOK, Sorted, ScoresOK, InJoinOrder
<1> QED BY <1>1, InvHolds, PTL

\* C5: an admission never takes a slot above the C_max its tick computed, whoever
\* fails, expires or completes before it: the entries of inflight are counted and
\* added in one step.
THEOREM AdmissionWithinCap == Spec => AdmitRespectsCap
<1> DEFINE Within == inflight_count' > inflight_count => inflight_count' <= Cap(Len(waiting))
<1>1. ASSUME IInv, IInv', Next PROVE Within
  <2>1. inflight \in [Tickets -> Slots] /\ inflight' \in [Tickets -> Slots]
    BY <1>1 DEF IInv, TypeOK, StoreTypeOK
  <2>2. /\ inflight_count = Cardinality(AllSlots(HeldBy(inflight)))
        /\ inflight_count' = Cardinality(AllSlots(HeldBy(inflight')))
        /\ HeldBy(inflight) \in [Tickets -> Nat] /\ HeldBy(inflight') \in [Tickets -> Nat]
    BY <2>1, CountOfEntries DEF inflight_count, Entries
  <2>3. inflight_count \in Nat /\ inflight_count' \in Nat
    BY <2>2, AllSlotsFinite, TicketsAssumption
  <2>4. CASE ~TickAdmit
    <3>1. \A t \in Tickets : HeldBy(inflight')[t] <= HeldBy(inflight)[t]
      BY <1>1, <2>4, OthersAddNone DEF HeldBy
    <3>2. inflight_count' <= inflight_count
      BY <2>2, <3>1, FewerSlots, TicketsAssumption
    <3> QED BY <2>3, <3>2
  <2>5. CASE TickAdmit
    <3> PICK total, cap, n : /\ total = Len(waiting) /\ cap = Cap(total)
                             /\ n = Allowance(alpha', cap, total)
      OBVIOUS
    <3>1. total \in Nat
      BY <1>1, QueueTypes DEF IInv
    <3>2. cap \in Nat
      BY <1>1, <3>1, Assumed, CapInNat DEF Assumptions, IInv, TypeOK
    <3>3. alpha' \in Nat
      BY <1>1, Assumed DEF Assumptions, AlphaAssumption, IInv, TypeOK
    <3>4. n \in 0 .. Len(waiting)
      BY <1>1, <3>3, Assumed, AllowanceType DEF IInv
    <3>5. inflight_count' <= inflight_count + n
      BY <1>1, <2>5, <3>4, AdmitAdds, TicketsAssumption DEF TickAdmit, IInv
    <3>6. n <= IF inflight_count < cap THEN cap - inflight_count ELSE 0
      <4> PICK a : a = (alpha' * control_tick) \div (alpha_unit * 1000)
        OBVIOUS
      <4> PICK room : room = IF inflight_count < cap THEN cap - inflight_count ELSE 0
        OBVIOUS
      <4>1. n = Least(a, Least(room, total)) /\ room \in Nat
        BY <2>3, <3>2 DEF Allowance
      <4>2. Least(room, total) <= room
        BY <3>1, <4>1 DEF Least
      <4>3. n = a \/ n = Least(room, total)
        BY <4>1 DEF Least
      <4>4. n = a => a < Least(room, total) \/ n = Least(room, total)
        BY <4>1 DEF Least
      <4> QED BY <3>1, <3>4, <4>1, <4>2, <4>3, <4>4 DEF Least
    <3> QED BY <2>3, <3>2, <3>4, <3>5, <3>6
  <2> QED BY <2>4, <2>5
<1>2. IInv /\ IInv' /\ [Next]_vars => [Within]_vars
  BY <1>1
<1> QED BY <1>2, InvHolds, PTL DEF Spec, AdmitRespectsCap

LEMMA DivAtLeastOne ==
    ASSUME NEW m \in Nat, NEW n \in Nat, n # 0, n <= m
    PROVE  m \div n >= 1
  BY Z3

LEMMA TimesGrows ==
    ASSUME NEW a \in Nat, NEW b \in Nat, NEW c \in Nat, a <= b
    PROVE  a * c <= b * c
<1>1. b * c = a * c + (b - a) * c
  OBVIOUS
<1>2. b - a \in Nat
  OBVIOUS
<1>3. (b - a) * c \in Nat /\ a * c \in Nat
  BY <1>2, TimesInNat
<1> QED BY <1>1, <1>3

LEMMA QuotientGrows ==
    ASSUME NEW w \in Nat, NEW x \in Nat, NEW y \in Nat, NEW u \in Nat, w <= x, u # 0, u <= w * y
    PROVE  (x * y) \div u \in Nat /\ (x * y) \div u >= 1
<1>1. w * y <= x * y /\ w * y \in Nat /\ x * y \in Nat
  BY TimesGrows, TimesInNat
<1> PICK p, q : p = w * y /\ q = x * y
  OBVIOUS
<1>2. p \in Nat /\ q \in Nat /\ u <= q
  BY <1>1
<1>3. q \div u \in Nat /\ q \div u >= 1
  BY <1>2, DivInNat, DivAtLeastOne
<1> QED BY <1>3

\* How many alpha lets a tick admit.
AlphaAdmits(a) == (a * control_tick) \div (alpha_unit * 1000)

LEMMA AlphaAdmitsSome ==
    ASSUME Assumptions, AllowanceAssumption, NEW a \in Nat, alpha_min <= a
    PROVE  AlphaAdmits(a) \in Nat /\ AlphaAdmits(a) >= 1
<1>1. alpha_min \in Nat /\ control_tick \in Nat /\ alpha_unit \in Nat /\ alpha_unit # 0
  BY DEF Assumptions, TickAssumption, AlphaAssumption
<1>2. alpha_unit * 1000 \in Nat /\ alpha_unit * 1000 # 0
  BY <1>1
<1>3. alpha_min * control_tick \in Nat
  BY <1>1, TimesInNat
<1>4. alpha_unit * 1000 <= alpha_min * control_tick
  BY <1>2, <1>3 DEF AllowanceAssumption
<1>5. (a * control_tick) \div (alpha_unit * 1000) \in Nat
      /\ (a * control_tick) \div (alpha_unit * 1000) >= 1
  BY <1>1, <1>2, <1>4, QuotientGrows
<1> QED BY <1>5 DEF AlphaAdmits

\* C_max never falls to zero, however slow the completions have been.
LEMMA CapIsPositive ==
    ASSUME Assumptions, mu_hat \in Nat, NEW total \in Nat
    PROVE  Cap(total) \in Nat /\ Cap(total) >= 1
<1>1. Cap(total) \in Nat /\ concurrency_limit \in Nat
  BY CapInNat DEF Assumptions, TickAssumption
<1>2. concurrency_limit >= 8 => concurrency_limit \div 4 >= 1
  BY <1>1, DivAtLeastOne
<1> PICK floor : floor = IF concurrency_limit < 8 THEN 1 ELSE concurrency_limit \div 4
  OBVIOUS
<1>3. floor \in Nat /\ floor >= 1
  BY <1>1, <1>2, DivInNat
<1> PICK base : base = ceil_times_mean(mu_hat, mu_unit, total, Mode)
  OBVIOUS
<1>4. Cap(total) = IF base < floor THEN floor ELSE base
  BY DEF Cap
<1>5. base \in Nat
  BY BaseInNat DEF Assumptions
<1> QED BY <1>1, <1>3, <1>4, <1>5

\* "A cap of zero is not a control decision, it is a deadlock": a tick that finds
\* the queue waiting and a slot free under C_max admits somebody, however unhealthy
\* the origin is; and while nothing is in flight there is such a slot.
RoomIsUsed ==
    TickAdmit /\ waiting # << >> =>
        /\ inflight_count < Cap(Len(waiting)) => Len(waiting') < Len(waiting)
        /\ inflight_count = 0 => inflight_count < Cap(Len(waiting))

\* The controller never stands still by its own arithmetic: neither alpha nor the
\* cap can keep everybody out for good.
THEOREM TicksUseRoom == Spec => [][RoomIsUsed]_vars
<1>1. ASSUME IInv, IInv', Next PROVE RoomIsUsed
  <2> SUFFICES ASSUME TickAdmit, waiting # << >>
               PROVE  /\ inflight_count < Cap(Len(waiting)) => Len(waiting') < Len(waiting)
                      /\ inflight_count = 0 => inflight_count < Cap(Len(waiting))
    BY DEF RoomIsUsed
  <2> PICK total, cap : total = Len(waiting) /\ cap = Cap(total)
    OBVIOUS
  <2>1. total \in Nat /\ total >= 1
    BY <1>1, QueueTypes, EmptySeq DEF IInv
  <2>2. cap \in Nat /\ cap >= 1
    BY <1>1, <2>1, Assumed, CapIsPositive DEF IInv, TypeOK
  <2>3. inflight_count \in Nat
    BY <1>1, SlotCountInNat, TicketsAssumption DEF IInv, TypeOK, StoreTypeOK
  <2>4. ASSUME inflight_count < cap PROVE Len(waiting') < total
    <3> PICK n : n = Allowance(alpha', cap, total)
      OBVIOUS
    <3>1. alpha' \in Nat /\ alpha_min \in Nat /\ alpha_min <= alpha'
      BY <1>1, Assumed DEF Assumptions, AlphaAssumption, IInv, TypeOK
    <3>2. n \in 0 .. total
      BY <1>1, <3>1, Assumed, AllowanceType DEF IInv
    <3>3. AlphaAdmits(alpha') \in Nat /\ AlphaAdmits(alpha') >= 1
      BY <3>1, Assumed, AllowanceAssumption, AlphaAdmitsSome
    <3>4. n >= 1
      <4> PICK a : a = AlphaAdmits(alpha')
        OBVIOUS
      <4>1. a \in Nat /\ a >= 1
        BY <3>3
      <4>2. n = Least(a, Least(cap - inflight_count, total))
        BY <2>4 DEF Allowance, AlphaAdmits
      <4> QED BY <2>1, <2>2, <2>3, <2>4, <4>1, <4>2 DEF Least
    <3>5. Admitted(n)
      <4>1. admit_n(n)
        BY DEF TickAdmit
      <4> QED BY <1>1, <3>2, <4>1, AdmitFacts DEF IInv
    <3>6. Len(waiting') = total - n
      BY <3>5 DEF Admitted, Dequeued
    <3> QED BY <2>1, <3>2, <3>4, <3>6
  <2> QED BY <2>2, <2>3, <2>4
<1>2. IInv /\ IInv' /\ [Next]_vars => [RoomIsUsed]_vars
  BY <1>1
<1> QED BY <1>2, InvHolds, PTL DEF Spec
=============================================================================

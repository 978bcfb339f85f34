---------------------------- MODULE OriginProofs ----------------------------
(***************************************************************************)
(* Proofs about the origin's slots and queue, for every number of          *)
(* requests, slots and places.                                             *)
(***************************************************************************)
EXTENDS OriginService, FiniteSetTheorems, WellFoundedInduction, TLAPS

\* The requests f puts at a place.
Where(f, place) == {r \in Requests : f[r] = place}

\* The requests at a place can be counted.
LEMMA WhereFinite ==
    ASSUME NEW f, NEW place
    PROVE  IsFiniteSet(Where(f, place)) /\ Cardinality(Where(f, place)) \in Nat
<1>1. Where(f, place) \in SUBSET Requests
  BY DEF Where
<1>2. IsFiniteSet(Where(f, place))
  BY <1>1, RequestsAssumption, FS_Subset
<1> QED
  BY <1>2, FS_CardinalityType

\* From f to g, request r goes from one place to another.
Moved(f, g, r, from, to) ==
    /\ Where(g, from) = Where(f, from) \ {r}
    /\ Where(g, to) = Where(f, to) \cup {r}
    /\ \A p : p \notin {from, to} => Where(g, p) = Where(f, p)
    /\ Cardinality(Where(g, from)) = Cardinality(Where(f, from)) - 1
    /\ Cardinality(Where(g, to)) = Cardinality(Where(f, to)) + 1

\* A request that goes from one place to another is counted at the second only.
LEMMA MoveCounts ==
    ASSUME NEW f \in [Requests -> Places], NEW r \in Requests, NEW to \in Places,
           f[r] # to,
           NEW g, g = [f EXCEPT ![r] = to]
    PROVE  g \in [Requests -> Places] /\ Moved(f, g, r, f[r], to)
<1> DEFINE from == f[r]
<1>1. g \in [Requests -> Places]
  OBVIOUS
<1>2. Where(g, from) = Where(f, from) \ {r} /\ r \in Where(f, from)
  BY DEF Where
<1>3. Where(g, to) = Where(f, to) \cup {r} /\ r \notin Where(f, to)
  BY DEF Where
<1>4. \A p : p \notin {from, to} => Where(g, p) = Where(f, p)
  BY DEF Where
<1>5. Cardinality(Where(g, from)) = Cardinality(Where(f, from)) - 1
  BY <1>2, WhereFinite, FS_RemoveElement
<1>6. Cardinality(Where(g, to)) = Cardinality(Where(f, to)) + 1
  BY <1>3, WhereFinite, FS_AddElement
<1> QED
  BY <1>1, <1>2, <1>3, <1>4, <1>5, <1>6 DEF Moved

\* The first of some waiters is one of them and before the others.
LEMMA FirstIsLeast ==
    ASSUME TypeOK, NEW S \in SUBSET Requests, S # {}
    PROVE  First(S) \in S /\ \A q \in S : turn[First(S)] <= turn[q]
<1> DEFINE Turns == {turn[q] : q \in S}
<1>1. Turns \subseteq Nat /\ Turns # {}
  BY DEF TypeOK
<1>2. \E n \in Turns : \A m \in Turns : ~ (<<m, n>> \in OpToRel(<, Nat))
  <2> HIDE DEF Turns
  <2> QED
    BY <1>1, NatLessThanWellFounded, WFMin, Zenon
<1>3. \E n \in Turns : \A m \in Turns : n <= m
  <2>1. \A n, m \in Nat : m < n => <<m, n>> \in OpToRel(<, Nat)
    BY DEF OpToRel
  <2> HIDE DEF Turns
  <2>2. PICK n \in Turns : \A m \in Turns : ~ (<<m, n>> \in OpToRel(<, Nat))
    BY <1>2
  <2>3. \A m \in Turns : ~ (m < n)
    BY <1>1, <2>1, <2>2
  <2> QED
    BY <1>1, <2>3
<1>4. \E r \in S : \A q \in S : turn[r] <= turn[q]
  BY <1>3
<1> QED
  BY <1>4 DEF First
-----------------------------------------------------------------------------
(* Where the requests are before and after a step *)

\* At is Where of req and can be counted, before a step and after it.
LEMMA AtIsWhere ==
    ASSUME NEW place
    PROVE  /\ At(place) = Where(req, place) /\ At(place)' = Where(req', place)
           /\ Cardinality(At(place)) \in Nat /\ Cardinality(At(place)') \in Nat
           /\ (At(place) = {} <=> Cardinality(At(place)) = 0)
           /\ (At(place)' = {} <=> Cardinality(At(place)') = 0)
<1>1. At(place) = Where(req, place) /\ At(place)' = Where(req', place)
  BY DEF At, Where
<1> QED
  BY <1>1, WhereFinite, FS_EmptySet

\* At and Where agree.
LEMMA AtAll == \A p : At(p) = Where(req, p) /\ At(p)' = Where(req', p)
BY DEF At, Where

\* One request moves and nobody is woken.
LEMMA MoveAlone ==
    ASSUME TypeOK, NEW r \in Requests, NEW to \in Places,
           req[r] # to, req' = [req EXCEPT ![r] = to]
    PROVE  req' \in [Requests -> Places] /\ Moved(req, req', r, req[r], to)
BY MoveCounts DEF TypeOK

\* A request moves with v permits free then: the first waiter, if there is one
\* and v > 0, is granted one of them.  mid is where the requests are in between.
LEMMA MoveAndWakeCounts ==
    ASSUME TypeOK, NEW r \in Requests, NEW to \in Places, NEW v \in Nat,
           req[r] \in {"granted", "serving"}, to \in {"serving", "served", "left"},
           req[r] # to, MoveAndWake(r, to, v)
    PROVE  \E mid \in [Requests -> Places], k \in {0, 1} :
           /\ Moved(req, mid, r, req[r], to)
           /\ req' \in [Requests -> Places] /\ value' = v - k /\ value' \in Nat
           /\ Cardinality(At("queued")') = Cardinality(Where(mid, "queued")) - k
           /\ Cardinality(At("granted")') = Cardinality(Where(mid, "granted")) + k
           /\ At("serving")' = Where(mid, "serving")
           /\ Waiters' \subseteq Waiters
           /\ value' > 0 /\ At("queued")' # {} => At("granted")' # {}
           /\ \A p \in Requests :
                 /\ req[p] \in {"new", "queued"} /\ req'[p] \in {"granted", "serving"}
                 => p \in At("queued") /\ p = First(At("queued"))
<1>0. \A p : At(p) = Where(req, p) /\ At(p)' = Where(req', p)
  BY AtAll
<1>1. PICK mid : mid = [req EXCEPT ![r] = to]
  OBVIOUS
<1>2. mid \in [Requests -> Places] /\ Moved(req, mid, r, req[r], to)
  BY <1>1, MoveCounts DEF TypeOK
<1>3. At("queued") \ {r} = At("queued")
  BY DEF At
<1>4. Where(mid, "queued") = At("queued") /\ Where(mid, "granted") \subseteq At("granted")
  BY <1>0, <1>2 DEF Moved
<1>5. CASE At("queued") # {} /\ v > 0
  <2>1. PICK first : first = First(At("queued"))
    OBVIOUS
  <2>2. first \in At("queued") /\ first \in Requests /\ req[first] = "queued" /\ first # r
    BY <1>3, <1>5, <2>1, FirstIsLeast DEF At
  <2>3. value' = v - 1 /\ req' = [mid EXCEPT ![first] = "granted"]
    BY <1>1, <1>3, <1>5, <2>1 DEF MoveAndWake
  <2>4. mid[first] = "queued" /\ "granted" \in Places
    BY <1>1, <2>2 DEF Places, TypeOK
  <2>5. req' \in [Requests -> Places] /\ Moved(mid, req', first, "queued", "granted")
    BY <1>2, <2>2, <2>3, <2>4, MoveCounts
  <2>6. /\ Cardinality(At("queued")') = Cardinality(Where(mid, "queued")) - 1
        /\ Cardinality(At("granted")') = Cardinality(Where(mid, "granted")) + 1
        /\ At("serving")' = Where(mid, "serving")
    BY <1>0, <2>5 DEF Moved
  <2>7. Waiters' \subseteq Waiters
    BY <1>0, <1>4, <2>2, <2>5 DEF Moved, Waiters
  <2>8. At("granted")' # {}
    BY <1>0, <2>5 DEF Moved
  <2>9. \A p \in Requests :
           /\ req[p] \in {"new", "queued"} /\ req'[p] \in {"granted", "serving"}
           => p \in At("queued") /\ p = First(At("queued"))
    BY <1>1, <2>1, <2>2, <2>3 DEF TypeOK
  <2>10. value' = v - 1 /\ value' \in Nat
    BY <1>5, <2>3
  <2> QED
    BY <1>2, <2>5, <2>6, <2>7, <2>8, <2>9, <2>10
<1>6. CASE ~ (At("queued") # {} /\ v > 0)
  <2>1. value' = v /\ req' = mid
    BY <1>1, <1>3, <1>6 DEF MoveAndWake
  <2>2. /\ At("queued")' = At("queued") /\ Waiters' \subseteq Waiters
        /\ At("queued")' = Where(mid, "queued") /\ At("granted")' = Where(mid, "granted")
        /\ At("serving")' = Where(mid, "serving")
    BY <1>0, <1>4, <2>1 DEF Waiters
  <2>3. value' > 0 /\ At("queued")' # {} => At("granted")' # {}
    BY <1>6, <2>1, <2>2
  <2>4. \A p \in Requests :
           /\ req[p] \in {"new", "queued"} /\ req'[p] \in {"granted", "serving"}
           => p \in At("queued") /\ p = First(At("queued"))
    BY <1>1, <2>1 DEF TypeOK
  <2>5. value' = v - 0 /\ value' \in Nat /\ req' \in [Requests -> Places]
    BY <1>2, <2>1
  <2>6. /\ Cardinality(At("queued")') = Cardinality(Where(mid, "queued")) - 0
        /\ Cardinality(At("granted")') = Cardinality(Where(mid, "granted")) + 0
    BY <2>2, WhereFinite
  <2> QED
    BY <1>2, <2>2, <2>3, <2>4, <2>5, <2>6
<1> QED
  BY <1>5, <1>6
-----------------------------------------------------------------------------
(* The inductive invariant *)

\* The invariant holds when the service starts.
LEMMA OriginInvInit == Init => OriginInv
<1> SUFFICES ASSUME Init PROVE OriginInv
  OBVIOUS
<1>1. \A p : p # "new" => At(p) = {}
  BY DEF Init, At
<1>2. Cardinality({}) = 0
  BY FS_EmptySet
<1>3. TypeOK
  BY ConcurrencyAssumption DEF Init, TypeOK, Places
<1>4. WithinLimits /\ SlotsAccounted /\ NoIdleSlot
  <2>1. At("queued") = {} /\ At("granted") = {} /\ At("serving") = {}
    BY <1>1
  <2> QED
    BY <1>2, <2>1, ConcurrencyAssumption, QueueLimitAssumption
       DEF Init, WithinLimits, SlotsAccounted, NoIdleSlot
<1>5. TurnsOK
  BY <1>1 DEF TurnsOK, Waiters
<1> QED
  BY <1>3, <1>4, <1>5 DEF OriginInv

\* Turns stay in order when nobody joins the queue.
LEMMA TurnsKept ==
    ASSUME TypeOK, TurnsOK, Waiters' \subseteq Waiters, turn' = turn, turns' = turns
    PROVE  TurnsOK'
BY DEF TurnsOK

\* The counts of the places as numbers.
LEMMA Counts ==
    /\ Cardinality(At("queued")) \in Nat
    /\ Cardinality(At("granted")) \in Nat
    /\ Cardinality(At("serving")) \in Nat
BY AtIsWhere

\* Every handler of the service keeps the invariant.
LEMMA OriginInvStep ==
    ASSUME OriginInv, [Next]_vars
    PROVE  OriginInv'
<1> USE DEF OriginInv
<1>0. /\ Cardinality(At("queued")) \in Nat /\ Cardinality(At("granted")) \in Nat
      /\ Cardinality(At("serving")) \in Nat
      /\ concurrency_limit \in Nat /\ queue_limit \in Nat
      /\ value \in Nat /\ waiting \in Nat /\ in_flight \in Nat
  BY Counts, ConcurrencyAssumption, QueueLimitAssumption DEF TypeOK
<1>1. /\ "shed" \in Places /\ "serving" \in Places /\ "queued" \in Places
      /\ "served" \in Places /\ "left" \in Places
  BY DEF Places
<1>2. ASSUME NEW r \in Requests, Shed(r) PROVE OriginInv'
  <2>1. /\ req' \in [Requests -> Places] /\ At("queued")' = At("queued")
        /\ At("granted")' = At("granted") /\ At("serving")' = At("serving")
    <3>1. req' \in [Requests -> Places] /\ Moved(req, req', r, "new", "shed")
      BY <1>1, <1>2, MoveAlone DEF Shed
    <3> QED
      BY <3>1, AtAll DEF Moved
  <2>2. Waiters' \subseteq Waiters
    BY <2>1 DEF Waiters
  <2>3. TurnsOK'
    BY <1>2, <2>2, TurnsKept DEF Shed
  <2> QED
    BY <1>2, <2>1, <2>3 DEF Shed, TypeOK, WithinLimits, SlotsAccounted, NoIdleSlot
<1>3. ASSUME NEW r \in Requests, Start(r) PROVE OriginInv'
  <2>1. /\ req' \in [Requests -> Places] /\ At("queued")' = At("queued")
        /\ At("granted")' = At("granted")
        /\ Cardinality(At("serving")') = Cardinality(At("serving")) + 1
    <3>1. req' \in [Requests -> Places] /\ Moved(req, req', r, "new", "serving")
      BY <1>1, <1>3, MoveAlone DEF Start
    <3> QED
      BY <3>1, AtAll DEF Moved
  <2>2. Waiters' \subseteq Waiters
    BY <2>1 DEF Waiters
  <2>3. TurnsOK'
    BY <1>3, <2>2, TurnsKept DEF Start
  <2>4. value' = value - 1 /\ value' \in Nat /\ in_flight' = in_flight + 1 /\ waiting' = waiting
    BY <1>0, <1>3 DEF Start, Unlocked
  <2>5. TypeOK'
    BY <1>3, <2>1, <2>4 DEF Start, TypeOK
  <2>6. SlotsAccounted'
    BY <1>0, <2>1, <2>4 DEF SlotsAccounted
  <2>7. At("queued")' = {}
    BY <1>3, <2>1 DEF Start, Unlocked
  <2> QED
    BY <1>0, <2>3, <2>4, <2>5, <2>6, <2>7, Counts DEF WithinLimits, NoIdleSlot, SlotsAccounted
<1>4. ASSUME NEW r \in Requests, Queue(r) PROVE OriginInv'
  <2>1. /\ req' \in [Requests -> Places] /\ At("queued")' = At("queued") \cup {r}
        /\ At("granted")' = At("granted") /\ At("serving")' = At("serving")
        /\ Cardinality(At("queued")') = Cardinality(At("queued")) + 1
    <3>1. req' \in [Requests -> Places] /\ Moved(req, req', r, "new", "queued")
      BY <1>1, <1>4, MoveAlone DEF Queue
    <3> QED
      BY <3>1, AtAll DEF Moved
  <2>2. TypeOK'
    BY <1>4, <2>1 DEF Queue, TypeOK
  <2>3. SlotsAccounted'
    BY <1>0, <1>4, <2>1 DEF SlotsAccounted, Queue
  <2>4. WithinLimits'
    BY <1>0, <1>4 DEF WithinLimits, Queue
  <2>5. NoIdleSlot'
    <3>1. value > 0 => At("granted") # {}
      BY <1>4 DEF NoIdleSlot, Queue, Unlocked
    <3> QED
      BY <1>4, <2>1, <3>1 DEF NoIdleSlot, Queue
  <2>6. TurnsOK'
    <3>1. Waiters' = Waiters \cup {r} /\ r \notin Waiters /\ Waiters \subseteq Requests
      BY <1>4, <2>1 DEF Waiters, Queue, At
    <3>2. turns' = turns + 1 /\ turn' = [turn EXCEPT ![r] = turns + 1]
      BY <1>4 DEF Queue
    <3>3. turn'[r] = turns + 1 /\ \A q \in Waiters : turn'[q] = turn[q]
      BY <3>1, <3>2 DEF TypeOK
    <3>4. turns \in Nat /\ \A q \in Waiters : turn[q] \in Nat /\ turn[q] <= turns
      BY <3>1 DEF TypeOK, TurnsOK
    <3> QED
      BY <3>1, <3>2, <3>3, <3>4 DEF TurnsOK
  <2> QED
    BY <2>2, <2>3, <2>4, <2>5, <2>6
<1>5. ASSUME NEW r \in Requests, LeaveQueue(r) PROVE OriginInv'
  <2>1. /\ req' \in [Requests -> Places] /\ At("queued")' = At("queued") \ {r}
        /\ At("granted")' = At("granted") /\ At("serving")' = At("serving")
        /\ Cardinality(At("queued")') = Cardinality(At("queued")) - 1
    <3>1. req' \in [Requests -> Places] /\ Moved(req, req', r, "queued", "left")
      BY <1>1, <1>5, MoveAlone DEF LeaveQueue
    <3> QED
      BY <3>1, AtAll DEF Moved
  <2>2. Waiters' \subseteq Waiters
    BY <2>1 DEF Waiters
  <2>3. TurnsOK'
    BY <1>5, <2>2, TurnsKept DEF LeaveQueue
  <2>4. SlotsAccounted'
    BY <1>0, <1>5, <2>1 DEF SlotsAccounted, LeaveQueue
  <2>5. waiting' \in Nat /\ waiting' <= queue_limit
    BY <1>0, <1>5, <2>4, Counts, AtIsWhere DEF LeaveQueue, SlotsAccounted, WithinLimits
  <2> QED
    BY <1>5, <2>1, <2>3, <2>4, <2>5 DEF LeaveQueue, TypeOK, WithinLimits, NoIdleSlot
<1>6. ASSUME NEW r \in Requests, Resume(r) PROVE OriginInv'
  <2>1. PICK mid \in [Requests -> Places], k \in {0, 1} :
           /\ Moved(req, mid, r, "granted", "serving")
           /\ req' \in [Requests -> Places] /\ value' = value - k /\ value' \in Nat
           /\ Cardinality(At("queued")') = Cardinality(Where(mid, "queued")) - k
           /\ Cardinality(At("granted")') = Cardinality(Where(mid, "granted")) + k
           /\ At("serving")' = Where(mid, "serving")
           /\ Waiters' \subseteq Waiters
           /\ value' > 0 /\ At("queued")' # {} => At("granted")' # {}
    BY <1>0, <1>1, <1>6, MoveAndWakeCounts DEF Resume
  <2>2. /\ Cardinality(At("queued")') = Cardinality(At("queued")) - k
        /\ Cardinality(At("granted")') = Cardinality(At("granted")) - 1 + k
        /\ Cardinality(At("serving")') = Cardinality(At("serving")) + 1
    BY <2>1, AtIsWhere DEF Moved
  <2>3. waiting' = waiting - 1 /\ in_flight' = in_flight + 1 /\ turn' = turn /\ turns' = turns
    BY <1>6 DEF Resume
  <2>4. SlotsAccounted'
    BY <1>0, <2>1, <2>2, <2>3 DEF SlotsAccounted
  <2>5. TurnsOK'
    BY <2>1, <2>3, TurnsKept
  <2>6. TypeOK' /\ WithinLimits'
    BY <1>0, <2>1, <2>3, <2>4, AtIsWhere DEF TypeOK, WithinLimits, SlotsAccounted
  <2> QED
    BY <2>1, <2>4, <2>5, <2>6 DEF NoIdleSlot
<1>7. ASSUME NEW r \in Requests, Finish(r) \/ LeaveService(r) PROVE OriginInv'
  <2>1. PICK v \in Nat : v = value + 1
    BY <1>0
  <2>2. PICK to \in {"served", "left"} : MoveAndWake(r, to, v)
    BY <1>7, <2>1 DEF Finish, LeaveService
  <2>3. req[r] = "serving" /\ to \in Places
    BY <1>1, <1>7 DEF Finish, LeaveService
  <2>4. PICK mid \in [Requests -> Places], k \in {0, 1} :
           /\ Moved(req, mid, r, req[r], to)
           /\ req' \in [Requests -> Places] /\ value' = v - k /\ value' \in Nat
           /\ Cardinality(At("queued")') = Cardinality(Where(mid, "queued")) - k
           /\ Cardinality(At("granted")') = Cardinality(Where(mid, "granted")) + k
           /\ At("serving")' = Where(mid, "serving")
           /\ Waiters' \subseteq Waiters
           /\ value' > 0 /\ At("queued")' # {} => At("granted")' # {}
    BY <1>1, <2>1, <2>2, <2>3, MoveAndWakeCounts
  <2>5. /\ Cardinality(At("queued")') = Cardinality(At("queued")) - k
        /\ Cardinality(At("granted")') = Cardinality(At("granted")) + k
        /\ Cardinality(At("serving")') = Cardinality(At("serving")) - 1
    BY <2>3, <2>4, AtIsWhere DEF Moved
  <2>6. waiting' = waiting /\ in_flight' = in_flight - 1 /\ turn' = turn /\ turns' = turns
    BY <1>7 DEF Finish, LeaveService
  <2>7. SlotsAccounted'
    BY <1>0, <2>1, <2>4, <2>5, <2>6 DEF SlotsAccounted
  <2>8. TurnsOK'
    BY <2>4, <2>6, TurnsKept
  <2>9. TypeOK' /\ WithinLimits'
    BY <1>0, <2>1, <2>4, <2>6, <2>7, AtIsWhere DEF TypeOK, WithinLimits, SlotsAccounted
  <2> QED
    BY <2>4, <2>7, <2>8, <2>9 DEF NoIdleSlot
<1>8. ASSUME NEW r \in Requests, LeaveGranted(r) PROVE OriginInv'
  <2>1. PICK v \in Nat : v = value + 1
    BY <1>0
  <2>2. req[r] = "granted" /\ MoveAndWake(r, "left", v)
    BY <1>8, <2>1 DEF LeaveGranted
  <2>3. PICK mid \in [Requests -> Places], k \in {0, 1} :
           /\ Moved(req, mid, r, req[r], "left")
           /\ req' \in [Requests -> Places] /\ value' = v - k /\ value' \in Nat
           /\ Cardinality(At("queued")') = Cardinality(Where(mid, "queued")) - k
           /\ Cardinality(At("granted")') = Cardinality(Where(mid, "granted")) + k
           /\ At("serving")' = Where(mid, "serving")
           /\ Waiters' \subseteq Waiters
           /\ value' > 0 /\ At("queued")' # {} => At("granted")' # {}
    BY <1>1, <2>1, <2>2, MoveAndWakeCounts
  <2>4. /\ Cardinality(At("queued")') = Cardinality(At("queued")) - k
        /\ Cardinality(At("granted")') = Cardinality(At("granted")) - 1 + k
        /\ Cardinality(At("serving")') = Cardinality(At("serving"))
    BY <2>2, <2>3, AtIsWhere DEF Moved
  <2>5. /\ waiting' = waiting - 1 /\ in_flight' = in_flight /\ turn' = turn /\ turns' = turns
    BY <1>8 DEF LeaveGranted
  <2>6. SlotsAccounted'
    BY <1>0, <2>1, <2>3, <2>4, <2>5 DEF SlotsAccounted
  <2>7. TurnsOK'
    BY <2>3, <2>5, TurnsKept
  <2>8. TypeOK' /\ WithinLimits'
    BY <1>0, <2>3, <2>5, <2>6, AtIsWhere DEF TypeOK, WithinLimits, SlotsAccounted
  <2> QED
    BY <2>3, <2>6, <2>7, <2>8 DEF NoIdleSlot
<1>9. CASE UNCHANGED vars
  BY <1>9 DEF vars, TypeOK, WithinLimits, SlotsAccounted, NoIdleSlot, TurnsOK, Waiters, At
<1> QED
  BY <1>2, <1>3, <1>4, <1>5, <1>6, <1>7, <1>8, <1>9 DEF Next, Leave, Quiet

\* The invariant always holds.
LEMMA OriginInvHolds == Spec => []OriginInv
BY OriginInvInit, OriginInvStep, PTL DEF Spec
-----------------------------------------------------------------------------
\* The origin keeps to its two limits: no more requests in service than slots,
\* and, as origin_result's comment says of its check, an unbroken queue bound.
THEOREM OriginKeepsLimits == Spec => []WithinLimits
<1>1. OriginInv => WithinLimits
  BY DEF OriginInv
<1> QED
  BY <1>1, OriginInvHolds, PTL

\* Whichever requests are cancelled when, _serving_slot and the semaphore lose no
\* slot and count no request twice.
THEOREM OriginLosesNoSlot == Spec => []SlotsAccounted
<1>1. OriginInv => SlotsAccounted
  BY DEF OriginInv
<1> QED
  BY <1>1, OriginInvHolds, PTL

\* A free slot while a request waits is on its way to it.
THEOREM OriginIsBusy == Spec => []NoIdleSlot
<1>1. OriginInv => NoIdleSlot
  BY DEF OriginInv
<1> QED
  BY <1>1, OriginInvHolds, PTL

\* A request is given a slot only when it is the first that waits.
LEMMA TurnStep ==
    ASSUME OriginInv, [Next]_vars,
           NEW r \in Requests, req[r] \in {"new", "queued"}, req'[r] \in {"granted", "serving"},
           NEW q \in At("queued") \ {r}
    PROVE  req[r] = "queued" /\ turn[r] < turn[q]
<1> USE DEF OriginInv
<1>1. req \in [Requests -> Places] /\ turn \in [Requests -> Nat] /\ q \in Requests
  BY DEF TypeOK, At
<1>2. PICK p \in Requests : Shed(p) \/ Start(p) \/ Queue(p) \/ LeaveQueue(p)
                            \/ Resume(p) \/ Finish(p) \/ LeaveGranted(p) \/ LeaveService(p)
  BY <1>1 DEF Next, Quiet, Leave, vars
<1>3. CASE Shed(p) \/ Queue(p) \/ LeaveQueue(p)
  BY <1>1, <1>3 DEF Shed, Queue, LeaveQueue
<1>4. CASE Start(p)
  BY <1>1, <1>4 DEF Start, Unlocked
<1>5. CASE Resume(p) \/ Finish(p) \/ LeaveGranted(p) \/ LeaveService(p)
  <2>1. PICK to \in {"serving", "served", "left"}, v \in Nat :
           /\ req[p] \in {"granted", "serving"} /\ req[p] # to /\ MoveAndWake(p, to, v)
    BY <1>5 DEF Resume, Finish, LeaveGranted, LeaveService, TypeOK
  <2>2. to \in Places
    BY DEF Places
  <2>3. r \in At("queued") /\ r = First(At("queued"))
    BY <2>1, <2>2, MoveAndWakeCounts
  <2>4. turn[r] <= turn[q]
    BY <2>3, FirstIsLeast DEF At
  <2>5. turn[r] # turn[q]
    BY <2>3 DEF TurnsOK, Waiters
  <2> QED
    BY <1>1, <2>3, <2>4, <2>5 DEF At
<1> QED
  BY <1>2, <1>3, <1>4, <1>5

\* Slots are given in the order of arrival, cancellations or not.
THEOREM OriginServesInTurn == Spec => ServedInTurn
<1>1. OriginInv /\ [Next]_vars =>
        [\A r \in Requests :
          /\ req[r] \in {"new", "queued"} /\ req'[r] \in {"granted", "serving"}
          => \A q \in At("queued") \ {r} : req[r] = "queued" /\ turn[r] < turn[q]]_vars
  BY TurnStep
<1> QED
  BY <1>1, OriginInvHolds, PTL DEF Spec, ServedInTurn
=============================================================================

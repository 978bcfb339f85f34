-------------------------- MODULE AdmissionProofs --------------------------
(***************************************************************************)
(* Proofs that the admission service keeps its safety properties for every *)
(* set of tickets, every mode and every value of its other constants.      *)
(***************************************************************************)
EXTENDS AdmissionInv, FiniteSetTheorems, TLAPS

\* C4's next class is one of the three, whatever the attempt.
LEMMA NextClassType ==
    ASSUME NEW c \in AccessClass, NEW a \in Nat
    PROVE  NextClass(c, a, max_attempts) \in AccessClass
BY DEF NextClass, Downgrade, AccessClass, HIGH, MEDIUM, LOW

\* The allowance is a number, at most the slots that are free.
LEMMA AllowanceType ==
    ASSUME NEW l \in Nat, NEW c \in Nat, NEW i \in Nat, NEW w \in Nat
    PROVE  /\ Allowance(l, c, i, w) \in Nat
           /\ Allowance(l, c, i, w) > 0 => i + Allowance(l, c, i, w) <= c
BY DEF Allowance, Smaller

\* Every set of tickets is finite, so the counts of the store are numbers.
LEMMA CountsAreNat ==
    ASSUME NEW S \in SUBSET Tickets
    PROVE  IsFiniteSet(S) /\ Cardinality(S) \in Nat
BY TicketsAssumption, FS_Subset, FS_CardinalityType

-----------------------------------------------------------------------------
(* Type correctness *)

\* Init is well typed.
LEMMA TypeInit == Init => TypeOK /\ FramesOK
BY ControllerAssumption
   DEF Init, TypeOK, FramesOK, StoreInit, StoreTypeOK, TicketData, States, Frame, Idle, Tick, Rest,
       Estimate, ClientStates, AccessClass, HIGH, MEDIUM, LOW, Threads, Busy

\* A step of any coroutine, of a client, of time or of a failure keeps the types.
LEMMA TypeStep ==
    ASSUME TypeOK, FramesOK, [Next]_vars
    PROVE  TypeOK'
<1> USE DEF TypeOK, StoreTypeOK
<1>1. ASSUME NEW t \in Tickets, Join(t)
      PROVE  TypeOK'
  <2>1. CASE JoinSeq(t)
    <3>1. seq' \in Nat
      BY <2>1 DEF JoinSeq, next_seq
    <3>2. frame' \in [Threads -> Frame]
      <4>1. frame[t] \in Frame
        BY DEF Threads
      <4>2. [frame[t] EXCEPT !.pc = "create", !.score = seq'] \in Frame
        BY <3>1, <4>1 DEF Frame
      <4>3. QED
        BY <2>1, <4>2 DEF JoinSeq, Threads
    <3>3. QED
      BY <2>1, <3>1, <3>2 DEF JoinSeq, ClientStates
  <2>2. CASE JoinCreate(t)
    BY <2>2 DEF JoinCreate, Joined, create_ticket, Idle, Frame, ClientStates, Threads,
                TicketData, States, AccessClass, HIGH, MEDIUM, LOW
  <2>3. CASE JoinAdmit(t)
    <3>1. PICK S \in SUBSET Tickets : admit(S) /\ ctl' = [ctl EXCEPT !.due = @ \ S]
      BY <2>3 DEF JoinAdmit, Lowest, Queued
    <3>2. StoreTypeOK'
      BY <2>3, <3>1, CountsAreNat DEF JoinAdmit, admit, TicketData, States
    <3>3. ctl' \in Tick
      BY <3>1 DEF Tick
    <3>4. QED
      BY <2>3, <3>2, <3>3 DEF JoinAdmit, Joined, Idle, Frame, ClientStates, Threads,
                              AccessClass, MEDIUM
  <2>4. QED
    BY <1>1, <2>1, <2>2, <2>3 DEF Join
<1>2. ASSUME NEW t \in Tickets, QueueEstimate(t)
      PROVE  TypeOK'
  <2>1. CASE EstimateCheck(t)
    <3>1. est' \in [Tickets -> Estimate]
      BY <2>1, EstimatesAssumption DEF EstimateCheck, Estimate
    <3>2. QED
      BY <2>1, <3>1 DEF EstimateCheck, storeVars
  <2>2. CASE EstimateUpdate(t)
    <3>1. hash' \in [Tickets -> TicketData]
      BY <2>2 DEF EstimateUpdate, update_class, Estimate, TicketData
    <3>2. est' \in [Tickets -> Estimate]
      BY <2>2 DEF EstimateUpdate, Estimate, AccessClass, MEDIUM
    <3>3. QED
      BY <2>2, <3>1, <3>2 DEF EstimateUpdate
  <2>3. QED
    BY <1>2, <2>1, <2>2 DEF QueueEstimate
<1>3. ASSUME NEW t \in Tickets, Client(t)
      PROVE  TypeOK'
  <2>1. CASE Poll(t) \/ Abandon(t)
    <3>1. client' \in [Tickets -> ClientStates]
      BY <2>1 DEF Poll, Abandon, ClientStates
    <3>2. QED
      BY <2>1, <3>1 DEF Poll, Abandon, storeVars
  <2>2. CASE ReportSuccess(t) \/ ReportFailure(t)
    <3>1. frame' \in [Threads -> Frame]
      <4>1. frame[t] \in Frame
        BY DEF Threads
      <4>2. /\ [frame[t] EXCEPT !.pc = "complete"] \in Frame
            /\ [frame[t] EXCEPT !.pc = "get"] \in Frame
        BY <4>1 DEF Frame
      <4>3. QED
        BY <2>2, <4>2 DEF ReportSuccess, ReportFailure, Threads
    <3>2. client' \in [Tickets -> ClientStates]
      BY <2>2 DEF ReportSuccess, ReportFailure, ClientStates
    <3>3. QED
      BY <2>2, <3>1, <3>2 DEF ReportSuccess, ReportFailure, storeVars
  <2>3. QED
    BY <1>3, <2>1, <2>2 DEF Client
<1>4. ASSUME NEW t \in Tickets, CompleteOk(t)
      PROVE  TypeOK'
  BY <1>4 DEF CompleteOk, complete, Idle, Frame, Threads, TicketData, States, AccessClass, MEDIUM
<1>5. ASSUME NEW t \in Tickets, WindowElapses(t)
      PROVE  TypeOK'
  BY <1>5 DEF WindowElapses
<1>6. ASSUME NEW t \in Tickets, RequestFails(t)
      PROVE  TypeOK'
  <2>1. frame' \in [Threads -> Frame]
    <3>1. Idle(t) \in Frame
      BY DEF Idle, Frame, AccessClass, MEDIUM
    <3>2. QED
      BY <1>6, <3>1 DEF RequestFails, Threads
  <2>2. client' \in [Tickets -> ClientStates]
    BY <1>6 DEF RequestFails, ClientStates
  <2>3. est' \in [Tickets -> Estimate]
    BY <1>6 DEF RequestFails, Estimate, AccessClass, MEDIUM
  <2>4. QED
    BY <1>6, <2>1, <2>2, <2>3 DEF RequestFails, storeVars
<1>7. ASSUME NEW th \in Threads, HandleTimeout(th)
      PROVE  TypeOK'
  <2>0. frame[th] \in Frame /\ (Busy(th) => frame[th].tid \in Tickets)
    BY DEF FramesOK, Threads
  <2>1. CASE TimeoutGet(th)
    BY <2>0, <2>1 DEF TimeoutGet, storeVars, Frame, TicketData, Busy
  <2>2. CASE TimeoutReseq(th)
    <3>1. seq' \in Nat
      BY <2>2 DEF TimeoutReseq, next_seq
    <3>2. [frame[th] EXCEPT !.pc = "reinsert", !.score = seq'] \in Frame
      BY <2>0, <3>1 DEF Frame
    <3>3. frame' \in [Threads -> Frame]
      BY <2>2, <3>2 DEF TimeoutReseq
    <3>4. QED
      BY <2>2, <3>1, <3>3 DEF TimeoutReseq
  <2>3. CASE TimeoutReinsert(th)
    BY <2>0, <2>3, NextClassType
       DEF TimeoutReinsert, reinsert, Idle, Frame, Threads, TicketData, States, Busy, AccessClass,
           MEDIUM
  <2>4. QED
    BY <1>7, <2>1, <2>2, <2>3 DEF HandleTimeout
<1>8. CASE ControllerTick
  <2>1. CASE TickStart
    BY <2>1 DEF TickStart, storeVars, Tick
  <2>2. CASE TickCountWaiting
    BY <2>2, CountsAreNat DEF TickCountWaiting, storeVars, Tick, waiting_count, Queued
  <2>3. CASE TickDecide
    <3>1. PICK c_max \in Caps, limit \in Limits :
              ctl' = [ctl EXCEPT
                        !.pc = IF Allowance(limit, c_max, inflight_count, ctl.total_waiting) > 0
                               THEN "admit" ELSE "sweep",
                        !.total_waiting = 0, !.c_max = c_max,
                        !.n = Allowance(limit, c_max, inflight_count, ctl.total_waiting)]
      BY <2>3 DEF TickDecide
    <3>2. /\ c_max \in Nat /\ limit \in Nat
          /\ inflight_count \in Nat /\ ctl.total_waiting \in Nat
      BY CountsAreNat, LimitsAssumption DEF inflight_count, Tick
    <3>3. Allowance(limit, c_max, inflight_count, ctl.total_waiting) \in Nat
      BY <3>2, AllowanceType
    <3>4. ctl' \in Tick
      BY <3>1, <3>2, <3>3 DEF Tick
    <3>5. QED
      BY <2>3, <3>4 DEF TickDecide, storeVars
  <2>4. CASE TickAdmit
    <3>1. PICK S \in SUBSET Tickets :
              admit(S) /\ ctl' = [ctl EXCEPT !.pc = "sweep", !.n = 0, !.due = @ \ S]
      BY <2>4 DEF TickAdmit, Lowest, Queued
    <3>2. StoreTypeOK'
      BY <2>4, <3>1, CountsAreNat DEF TickAdmit, admit, TicketData, States
    <3>3. QED
      BY <2>4, <3>1, <3>2 DEF TickAdmit, Tick
  <2>5. CASE TickSweep
    BY <2>5 DEF TickSweep, expire_inflight, Tick, Rest
  <2>6. CASE TickRequeue
    <3>1. PICK t \in Tickets :
              /\ frame' = [frame EXCEPT ![Controller] = [@ EXCEPT !.pc = "get", !.tid = t]]
              /\ ctl' = [ctl EXCEPT !.expired = @ \ {t}]
      BY <2>6 DEF TickRequeue, Tick
    <3>2. [frame[Controller] EXCEPT !.pc = "get", !.tid = t] \in Frame
      <4>1. frame[Controller] \in Frame
        BY DEF Threads
      <4>2. QED
        BY <4>1 DEF Frame
    <3>3. frame' \in [Threads -> Frame]
      BY <3>1, <3>2 DEF Threads
    <3>4. QED
      BY <2>6, <3>1, <3>3 DEF TickRequeue, storeVars, Tick
  <2>7. CASE TickEnd
    BY <2>7 DEF TickEnd, storeVars, Tick, Rest
  <2>8. QED
    BY <1>8, <2>1, <2>2, <2>3, <2>4, <2>5, <2>6, <2>7 DEF ControllerTick
<1>9. CASE TickFails
  BY <1>9 DEF TickFails, storeVars, Tick, Rest, Idle, Frame, Threads, AccessClass, MEDIUM
<1>10. CASE UNCHANGED vars
  BY <1>10 DEF vars, storeVars
<1>11. QED
  BY <1>1, <1>2, <1>3, <1>4, <1>5, <1>6, <1>7, <1>8, <1>9, <1>10 DEF Next

\* A thread only ever runs the coroutines FramesOK gives it.
LEMMA FramesStep ==
    ASSUME TypeOK, FramesOK, [Next]_vars
    PROVE  FramesOK'
<1>0. /\ frame \in [Threads -> Frame] /\ ctl \in Tick
      /\ \A t \in Tickets : frame[t] \in Frame /\ frame[t].tid = t /\ t # Controller
      /\ Tickets \subseteq Threads /\ Controller \in Threads
      /\ frame[Controller] \in Frame
  BY ControllerAssumption DEF TypeOK, FramesOK, Threads
<1>1. ASSUME NEW t \in Tickets, Join(t) \/ Client(t) \/ CompleteOk(t)
      PROVE  FramesOK'
  <2>1. CASE Join(t)
    <3>1. /\ \A th \in Threads \ {t} : frame'[th] = frame[th]
          /\ frame'[t].tid = t /\ frame'[t].pc # "reseq"
          /\ frame'[t].pc = "admit" => Mode = "none"
      <4>1. CASE JoinSeq(t)
        BY <1>0, <4>1 DEF JoinSeq, Frame
      <4>2. CASE JoinCreate(t)
        BY <1>0, <4>2 DEF JoinCreate, Joined, Idle, Frame
      <4>3. CASE JoinAdmit(t)
        BY <1>0, <4>3 DEF JoinAdmit, Joined, Idle
      <4>4. QED
        BY <2>1, <4>1, <4>2, <4>3 DEF Join
    <3>2. QED
      BY <1>0, <3>1 DEF FramesOK, Busy
  <2>2. CASE Client(t)
    BY <1>0, <2>2
       DEF FramesOK, Client, Poll, Abandon, ReportSuccess, ReportFailure, Busy, Frame, storeVars
  <2>3. CASE CompleteOk(t)
    BY <1>0, <2>3 DEF FramesOK, CompleteOk, Busy, Idle
  <2>4. QED
    BY <1>1, <2>1, <2>2, <2>3
<1>2. ASSUME NEW t \in Tickets, QueueEstimate(t) \/ WindowElapses(t)
      PROVE  FramesOK'
  BY <1>2 DEF FramesOK, QueueEstimate, EstimateCheck, EstimateUpdate, WindowElapses, Busy
<1>3. ASSUME NEW t \in Tickets, RequestFails(t)
      PROVE  FramesOK'
  BY <1>0, <1>3 DEF FramesOK, RequestFails, Busy, Idle, Threads
<1>4. ASSUME NEW th \in Threads, HandleTimeout(th)
      PROVE  FramesOK'
  <2>1. CASE TimeoutGet(th)
    BY <1>0, <2>1 DEF FramesOK, TimeoutGet, Busy, Threads
  <2>2. CASE TimeoutReseq(th)
    BY <1>0, <2>2 DEF FramesOK, TimeoutReseq, Busy, Frame, Threads
  <2>3. CASE TimeoutReinsert(th)
    BY <1>0, <2>3 DEF FramesOK, TimeoutReinsert, Busy, Idle, Threads
  <2>4. QED
    BY <1>4, <2>1, <2>2, <2>3 DEF HandleTimeout
<1>5. CASE TickRequeue
  BY <1>0, <1>5 DEF FramesOK, TickRequeue, Busy, Tick, Frame, Threads
<1>6. CASE ControllerTick /\ ~TickRequeue
  BY <1>6
     DEF FramesOK, ControllerTick, TickStart, TickCountWaiting, TickDecide, TickAdmit, TickSweep,
         TickEnd, Busy
<1>7. CASE TickFails
  BY <1>0, <1>7 DEF FramesOK, TickFails, Busy, Idle, Threads
<1>8. CASE UNCHANGED vars
  BY <1>8 DEF FramesOK, vars, Busy
<1>9. QED
  BY <1>1, <1>2, <1>3, <1>4, <1>5, <1>6, <1>7, <1>8 DEF Next

\* Every variable keeps its type: in particular the class a client's estimate or
\* a timeout writes is a class, and every number the controller computes is one.
THEOREM TypeCorrect == Spec => []TypeOK
<1>1. Init => TypeOK /\ FramesOK
  BY TypeInit
<1>2. TypeOK /\ FramesOK /\ [Next]_vars => (TypeOK /\ FramesOK)'
  BY TypeStep, FramesStep
<1>3. QED
  BY <1>1, <1>2, PTL DEF Spec
-----------------------------------------------------------------------------
(* The places a ticket can be in *)

\* Outside the last part of a tick the controller holds no ticket.
LEMMA TickStep ==
    ASSUME TypeOK, FramesOK, TickOK, [Next]_vars
    PROVE  TickOK'
<1>0. /\ frame \in [Threads -> Frame] /\ ctl \in Tick
      /\ Controller \in Threads /\ Controller \notin Tickets
  BY ControllerAssumption DEF TypeOK, Threads
<1>1. ASSUME NEW t \in Tickets,
             Join(t) \/ QueueEstimate(t) \/ Client(t) \/ CompleteOk(t) \/ WindowElapses(t)
             \/ RequestFails(t)
      PROVE  TickOK'
  <2>1. frame'[Controller] = frame[Controller]
    BY <1>0, <1>1
       DEF Join, JoinSeq, JoinCreate, JoinAdmit, Joined, QueueEstimate, EstimateCheck,
           EstimateUpdate, Client, Poll, Abandon, ReportSuccess, ReportFailure, CompleteOk,
           WindowElapses, RequestFails
  <2>2. ctl'.pc = ctl.pc /\ ctl'.expired = ctl.expired
    BY <1>0, <1>1
       DEF Join, JoinSeq, JoinCreate, JoinAdmit, QueueEstimate, EstimateCheck, EstimateUpdate,
           Client, Poll, Abandon, ReportSuccess, ReportFailure, CompleteOk, WindowElapses,
           RequestFails, Tick
  <2>3. QED
    BY <2>1, <2>2 DEF TickOK, Busy
<1>2. ASSUME NEW th \in Threads, HandleTimeout(th)
      PROVE  TickOK'
  <2>1. UNCHANGED ctl /\ Busy(th) /\ \A v \in Threads \ {th} : frame'[v] = frame[v]
    BY <1>0, <1>2 DEF HandleTimeout, TimeoutGet, TimeoutReseq, TimeoutReinsert, Busy
  <2>2. QED
    BY <1>0, <2>1 DEF TickOK, Busy
<1>3. CASE ControllerTick
  <2>1. CASE TickStart \/ TickCountWaiting \/ TickDecide \/ TickAdmit
    <3>1. ctl'.expired = ctl.expired /\ ctl.pc # "requeue" /\ UNCHANGED frame
      BY <1>0, <2>1 DEF TickStart, TickCountWaiting, TickDecide, TickAdmit, Tick
    <3>2. QED
      BY <3>1 DEF TickOK, Busy
  <2>2. CASE TickSweep
    BY <2>2 DEF TickSweep, TickOK, Rest
  <2>3. CASE TickRequeue
    BY <1>0, <2>3 DEF TickRequeue, TickOK, Tick
  <2>4. CASE TickEnd
    BY <2>4 DEF TickEnd, TickOK, Busy, Rest
  <2>5. QED
    BY <1>3, <2>1, <2>2, <2>3, <2>4 DEF ControllerTick
<1>4. CASE TickFails
  BY <1>0, <1>4 DEF TickFails, TickOK, Busy, Idle, Rest
<1>5. CASE UNCHANGED vars
  BY <1>5 DEF vars, TickOK, Busy
<1>6. QED
  BY <1>1, <1>2, <1>3, <1>4, <1>5 DEF Next

\* What the lemmas below know of the variables of a state.
LEMMA Typed ==
    ASSUME PlacesInv
    PROVE  /\ frame \in [Threads -> Frame] /\ ctl \in Tick /\ hash \in [Tickets -> TicketData]
           /\ waiting \in [Tickets -> Nat] /\ inflight \in SUBSET Tickets
           /\ client \in [Tickets -> ClientStates]
           /\ Tickets \subseteq Threads /\ Controller \in Threads /\ Controller \notin Tickets
           /\ \A th \in Threads : frame[th] \in Frame
BY ControllerAssumption DEF PlacesInv, TypeOK, StoreTypeOK, Threads

\* A step that moves no ticket and changes no frame.
LEMMA SamePlaces ==
    ASSUME PlacesInv, TypeOK', FramesOK', TickOK',
           UNCHANGED <<waiting, inflight, frame>>, ctl'.expired = ctl.expired,
           \A t \in Tickets : /\ hash'[t].state = hash[t].state
                              /\ hash'[t].join_seq = hash[t].join_seq,
           \A t \in Tickets : \/ client'[t] = client[t]
                              \/ client[t] # "new" /\ client'[t] = "finished"
                              \/ client[t] = "polling" /\ client'[t] = "fetching"
    PROVE  PlacesInv'
<1>1. Queued' = Queued /\ Sweeping' = Sweeping
  BY DEF Queued, Sweeping
<1>3. TicketsOK'
  BY <1>1 DEF PlacesInv, TicketsOK, Busy, Exists
<1>4. ScoresOK'
  <2>1. \A th \in Threads : frame[th].pc = "reinsert" => frame[th].tid \in Tickets
    BY Typed DEF PlacesInv, FramesOK, Busy, Threads
  <2>2. QED
    BY <1>1, <2>1 DEF PlacesInv, ScoresOK, Queued
<1>5. QueuedWaits' /\ SlotsAreAdmitted' /\ NoTicketLost'
  BY <1>1, Typed DEF PlacesInv, QueuedWaits, SlotsAreAdmitted, NoTicketLost, Queued
<1>6. QED
  BY <1>3, <1>4, <1>5 DEF PlacesInv

\* Popping the tickets of S out of waiting into inflight; in none mode the join
\* of t does it, and ends.
LEMMA AdmitPlaces ==
    ASSUME PlacesInv, TypeOK', FramesOK', TickOK', NEW S \in SUBSET Queued, admit(S),
           ctl'.expired = ctl.expired,
           \/ UNCHANGED <<frame, client>>
           \/ \E t \in Tickets : frame[t].pc = "admit" /\ Joined(t)
    PROVE  PlacesInv'
<1>1. /\ \A t \in Tickets : hash'[t].state = IF t \in S THEN "ADMITTED" ELSE hash[t].state
      /\ \A t \in Tickets : hash'[t].join_seq = hash[t].join_seq
      /\ \A t \in Tickets : waiting'[t] = IF t \in S THEN 0 ELSE waiting[t]
      /\ inflight' = inflight \cup S
  BY Typed DEF admit, TicketData
<1>2. /\ Queued' = Queued \ S
      /\ \A t \in Tickets : Exists(t)' <=> Exists(t)
  BY <1>1 DEF Queued, Exists, PlacesInv, TicketsOK
<1>3. \A th \in Threads : \/ frame'[th] = frame[th]
                          \/ /\ th \in Tickets
                             /\ frame[th].pc = "admit" /\ frame'[th].pc = "idle"
  BY Typed DEF Joined, Idle
<1>4. Sweeping' = Sweeping
  BY <1>3, Typed DEF Sweeping
<1>5. \A t \in Tickets : \/ client'[t] = client[t]
                         \/ frame[t].pc = "admit" /\ client'[t] = "polling"
  BY Typed DEF Joined
<1>6. TicketsOK'
  BY <1>1, <1>2, <1>3, <1>4, <1>5, Typed DEF PlacesInv, TicketsOK, Busy
<1>7. ScoresOK'
  <2>1. \A th \in Threads : frame[th].pc = "reinsert" => frame[th].tid \in Tickets
    BY Typed DEF PlacesInv, FramesOK, Busy, Threads
  <2>2. QED
    BY <1>1, <1>2, <1>3, <2>1 DEF PlacesInv, ScoresOK, Queued
<1>8. QueuedWaits' /\ SlotsAreAdmitted' /\ NoTicketLost'
  BY <1>1, <1>2, <1>4, Typed DEF PlacesInv, QueuedWaits, SlotsAreAdmitted, NoTicketLost, Queued
<1>9. QED
  BY <1>6, <1>7, <1>8 DEF PlacesInv

\* No step takes a ticket out of its place without putting it into the next.
LEMMA PlacesStep ==
    ASSUME PlacesInv, [Next]_vars
    PROVE  PlacesInv'
<1>0. TypeOK' /\ FramesOK' /\ TickOK'
  BY TypeStep, FramesStep, TickStep DEF PlacesInv
<1>1. ASSUME NEW t \in Tickets, JoinSeq(t)
      PROVE  PlacesInv'
  <2>1. /\ \A th \in Threads \ {t} : frame'[th] = frame[th]
        /\ frame'[t].pc = "create" /\ frame'[t].score # 0
        /\ \A u \in Tickets \ {t} : client'[u] = client[u]
        /\ client[t] = "new" /\ client'[t] = "joining"
        /\ UNCHANGED <<hash, waiting, inflight, ctl>>
    BY <1>1, Typed DEF JoinSeq, next_seq, Frame, PlacesInv, TypeOK, StoreTypeOK
  <2>2. Queued' = Queued /\ Sweeping' = Sweeping /\ \A u \in Tickets : Exists(u)' <=> Exists(u)
    BY <2>1, Typed DEF Queued, Sweeping, Exists
  <2>3. TicketsOK'
    BY <2>1, <2>2, Typed DEF PlacesInv, TicketsOK, Busy
  <2>4. ScoresOK'
    BY <2>1, <2>2, Typed DEF PlacesInv, ScoresOK
  <2>5. QueuedWaits' /\ SlotsAreAdmitted' /\ NoTicketLost'
    BY <2>1, <2>2 DEF PlacesInv, QueuedWaits, SlotsAreAdmitted, NoTicketLost
  <2>6. QED
    BY <1>0, <2>3, <2>4, <2>5 DEF PlacesInv
<1>2. ASSUME NEW t \in Tickets, JoinCreate(t)
      PROVE  PlacesInv'
  <2>1. /\ \A th \in Threads \ {t} : frame'[th] = frame[th]
        /\ frame[t].pc = "create" /\ frame'[t].pc \in {"idle", "admit"}
        /\ \A u \in Tickets \ {t} : client'[u] = client[u]
        /\ client'[t] = client[t] \/ client'[t] = "polling"
        /\ UNCHANGED <<inflight, ctl>>
    <3>1. /\ \/ frame' = [frame EXCEPT ![t].pc = "admit"] /\ client' = client
             \/ Joined(t)
          /\ frame[t].pc = "create" /\ UNCHANGED <<inflight, ctl>>
      BY <1>2 DEF JoinCreate
    <3>2. \A th \in Threads \ {t} : frame'[th] = frame[th]
      BY <3>1, Typed DEF Joined
    <3>3. frame'[t].pc \in {"idle", "admit"}
      BY <3>1, Typed DEF Joined, Idle, Frame
    <3>4. /\ \A u \in Tickets \ {t} : client'[u] = client[u]
          /\ client'[t] = client[t] \/ client'[t] = "polling"
      BY <3>1, Typed DEF Joined
    <3>5. QED
      BY <3>1, <3>2, <3>3, <3>4
  <2>2. /\ \A u \in Tickets \ {t} : hash'[u] = hash[u] /\ waiting'[u] = waiting[u]
        /\ hash'[t].state = "WAITING" /\ hash'[t].join_seq = frame[t].score
        /\ waiting'[t] = frame[t].score /\ frame[t].score # 0
    BY <1>2, <2>1, Typed DEF JoinCreate, create_ticket, PlacesInv, ScoresOK
  <2>3. ~Exists(t) /\ client[t] # "new"
    BY <2>1 DEF PlacesInv, TicketsOK, Busy
  <2>4. Queued' = Queued \cup {t} /\ Sweeping' = Sweeping
    BY <2>1, <2>2, Typed DEF Queued, Sweeping
  <2>5. TicketsOK'
    BY <2>1, <2>2, <2>3, <2>4, Typed DEF PlacesInv, TicketsOK, Busy, Exists
  <2>6. ScoresOK'
    <3>1. \A th \in Threads \ {t} : frame[th].pc = "reinsert" => frame[th].tid \in Tickets \ {t}
      BY <2>1, Typed DEF PlacesInv, FramesOK, TicketsOK, Busy, Threads, Sweeping
    <3>2. QED
      BY <2>1, <2>2, <2>3, <2>4, <3>1, Typed DEF PlacesInv, ScoresOK, Queued
  <2>7. QueuedWaits' /\ SlotsAreAdmitted' /\ NoTicketLost'
    BY <2>1, <2>2, <2>3, <2>4, Typed
       DEF PlacesInv, TicketsOK, Exists, QueuedWaits, SlotsAreAdmitted, NoTicketLost,
           Queued
  <2>8. QED
    BY <1>0, <2>5, <2>6, <2>7 DEF PlacesInv
<1>3. ASSUME NEW t \in Tickets, JoinAdmit(t)
      PROVE  PlacesInv'
  <2>1. PICK S \in SUBSET Queued : admit(S) /\ ctl' = [ctl EXCEPT !.due = @ \ S]
    BY <1>3 DEF JoinAdmit, Lowest
  <2>2. ctl'.expired = ctl.expired
    BY <2>1, Typed DEF Tick
  <2>3. QED
    BY <1>0, <1>3, <2>1, <2>2, AdmitPlaces DEF JoinAdmit
<1>4. ASSUME NEW t \in Tickets, QueueEstimate(t)
      PROVE  PlacesInv'
  <2>1. /\ \A u \in Tickets : hash'[u].state = hash[u].state /\ hash'[u].join_seq = hash[u].join_seq
        /\ UNCHANGED <<waiting, inflight, frame, ctl, client>>
    BY <1>4, Typed
       DEF QueueEstimate, EstimateCheck, EstimateUpdate, update_class, storeVars, TicketData
  <2>2. QED
    BY <1>0, <2>1, SamePlaces
<1>5. ASSUME NEW t \in Tickets, Poll(t) \/ Abandon(t)
      PROVE  PlacesInv'
  <2>1. \A u \in Tickets : \/ client'[u] = client[u]
                           \/ client[u] # "new" /\ client'[u] = "finished"
                           \/ client[u] = "polling" /\ client'[u] = "fetching"
    BY <1>5, Typed DEF Poll, Abandon
  <2>2. UNCHANGED <<hash, waiting, inflight, frame, ctl>>
    BY <1>5 DEF Poll, Abandon, storeVars
  <2>3. QED
    BY <1>0, <2>1, <2>2, SamePlaces
<1>6. ASSUME NEW t \in Tickets, ReportSuccess(t) \/ ReportFailure(t)
      PROVE  PlacesInv'
  <2>1. /\ \A th \in Threads \ {t} : frame'[th] = frame[th]
        /\ frame'[t].pc \in {"complete", "get"}
        /\ \A u \in Tickets \ {t} : client'[u] = client[u]
        /\ client[t] = "fetching" /\ client'[t] \in {"polling", "finished"}
        /\ UNCHANGED <<hash, waiting, inflight, ctl>>
    BY <1>6, Typed DEF ReportSuccess, ReportFailure, storeVars, Frame
  <2>2. Queued' = Queued /\ Sweeping' = Sweeping /\ \A u \in Tickets : Exists(u)' <=> Exists(u)
    BY <2>1, Typed DEF Queued, Sweeping, Exists
  <2>3. TicketsOK'
    BY <2>1, <2>2, Typed DEF PlacesInv, TicketsOK, Busy
  <2>4. ScoresOK'
    BY <2>1, <2>2, Typed DEF PlacesInv, ScoresOK
  <2>5. QueuedWaits' /\ SlotsAreAdmitted' /\ NoTicketLost'
    BY <2>1, <2>2 DEF PlacesInv, QueuedWaits, SlotsAreAdmitted, NoTicketLost
  <2>6. QED
    BY <1>0, <2>3, <2>4, <2>5 DEF PlacesInv
<1>7. ASSUME NEW t \in Tickets, CompleteOk(t)
      PROVE  PlacesInv'
  <2>1. /\ \A th \in Threads \ {t} : frame'[th] = frame[th]
        /\ frame[t].pc = "complete" /\ frame'[t].pc = "idle"
        /\ \A u \in Tickets \ {t} : hash'[u] = hash[u]
        /\ hash'[t].state = "COMPLETED" /\ hash'[t].join_seq = hash[t].join_seq
        /\ inflight' = inflight \ {t}
        /\ UNCHANGED <<waiting, ctl, client>>
        /\ Exists(t)
    BY <1>7, Typed DEF CompleteOk, complete, Idle, TicketData, PlacesInv, TicketsOK, Busy
  <2>2. Queued' = Queued /\ Sweeping' = Sweeping /\ \A u \in Tickets : Exists(u)' <=> Exists(u)
    BY <2>1, Typed DEF Queued, Sweeping, Exists
  <2>3. TicketsOK'
    BY <2>1, <2>2, Typed DEF PlacesInv, TicketsOK, Busy
  <2>4. ScoresOK'
    <3>1. \A th \in Threads : frame[th].pc = "reinsert" => frame[th].tid \in Tickets
      BY Typed DEF PlacesInv, FramesOK, Busy, Threads
    <3>2. QED
      BY <2>1, <2>2, <3>1, Typed DEF PlacesInv, ScoresOK, Queued
  <2>5. QueuedWaits' /\ SlotsAreAdmitted' /\ NoTicketLost'
    BY <2>1, <2>2, Typed DEF PlacesInv, QueuedWaits, SlotsAreAdmitted, NoTicketLost, Queued
  <2>6. QED
    BY <1>0, <2>3, <2>4, <2>5 DEF PlacesInv
<1>8. ASSUME NEW t \in Tickets, WindowElapses(t)
      PROVE  PlacesInv'
  BY <1>0, <1>8, SamePlaces DEF WindowElapses
<1>9. ASSUME NEW t \in Tickets, RequestFails(t)
      PROVE  PlacesInv'
  <2>1. UNCHANGED <<hash, waiting, inflight, ctl>>
    BY <1>9 DEF RequestFails, storeVars
  <2>2. /\ \A th \in Threads \ {t} : frame'[th] = frame[th]
        /\ frame'[t] = frame[t] \/ frame'[t].pc = "idle"
    <3>1. frame' = frame \/ frame' = [frame EXCEPT ![t] = Idle(t)]
      BY <1>9 DEF RequestFails
    <3>2. \A th \in Threads \ {t} : frame'[th] = frame[th]
      BY <3>1, Typed
    <3>3. frame'[t] = frame[t] \/ frame'[t] = Idle(t)
      BY <3>1, Typed
    <3>4. Idle(t).pc = "idle"
      BY DEF Idle
    <3>5. QED
      BY <3>2, <3>3, <3>4
  <2>3. \A u \in Tickets : \/ client'[u] = client[u]
                           \/ client[u] = "joining" /\ client'[u] = "finished"
    BY <1>9, Typed DEF RequestFails
  <2>4. Queued' = Queued /\ Sweeping' = Sweeping /\ \A u \in Tickets : Exists(u)' <=> Exists(u)
    BY <2>1, <2>2, Typed DEF Queued, Sweeping, Exists
  <2>5. TicketsOK'
    BY <2>1, <2>2, <2>3, <2>4, Typed DEF PlacesInv, TicketsOK, Busy
  <2>6. ScoresOK'
    BY <2>1, <2>2, <2>4, Typed DEF PlacesInv, ScoresOK
  <2>7. QueuedWaits' /\ SlotsAreAdmitted' /\ NoTicketLost'
    BY <2>1, <2>2, <2>4 DEF PlacesInv, QueuedWaits, SlotsAreAdmitted, NoTicketLost
  <2>8. QED
    BY <1>0, <2>5, <2>6, <2>7 DEF PlacesInv
<1>10. ASSUME NEW th \in Threads, TimeoutGet(th)
      PROVE  PlacesInv'
  <2>1. /\ \A v \in Threads \ {th} : frame'[v] = frame[v]
        /\ frame[th].pc = "get" /\ frame'[th].pc \in {"reseq", "reinsert"}
        /\ frame'[th].tid = frame[th].tid /\ frame[th].tid \in Tickets
        /\ frame'[th].score = hash[frame[th].tid].join_seq
        /\ UNCHANGED <<hash, waiting, inflight, ctl, client>>
        /\ Exists(frame[th].tid)
    BY <1>10, Typed
       DEF TimeoutGet, storeVars, PlacesInv, FramesOK, TicketsOK, Busy, Sweeping, Threads
  <2>2. /\ Queued' = Queued /\ Sweeping' = Sweeping
        /\ \A u \in Tickets : Exists(u)' <=> Exists(u)
        /\ \A v \in Threads : Busy(v)' <=> Busy(v)
    BY <2>1, Typed DEF Queued, Sweeping, Exists, Busy
  <2>3. TicketsOK'
    BY <2>1, <2>2, Typed DEF PlacesInv, TicketsOK
  <2>4. ScoresOK'
    BY <2>1, <2>2, Typed DEF PlacesInv, ScoresOK, TicketsOK
  <2>5. QueuedWaits' /\ SlotsAreAdmitted' /\ NoTicketLost'
    BY <2>1, <2>2 DEF PlacesInv, QueuedWaits, SlotsAreAdmitted, NoTicketLost
  <2>6. QED
    BY <1>0, <2>3, <2>4, <2>5 DEF PlacesInv
<1>11. ASSUME NEW th \in Threads, TimeoutReseq(th)
      PROVE  PlacesInv'
  <2>1. /\ \A v \in Threads \ {th} : frame'[v] = frame[v]
        /\ frame[th].pc = "reseq" /\ frame'[th].pc = "reinsert"
        /\ frame'[th].tid = frame[th].tid /\ frame'[th].score # 0
        /\ UNCHANGED <<hash, waiting, inflight, ctl, client>>
        /\ Mode # "aaac"
    BY <1>11, Typed
       DEF TimeoutReseq, next_seq, Frame, PlacesInv, TypeOK, StoreTypeOK, FramesOK
  <2>2. /\ Queued' = Queued /\ Sweeping' = Sweeping
        /\ \A u \in Tickets : Exists(u)' <=> Exists(u)
        /\ \A v \in Threads : Busy(v)' <=> Busy(v)
    BY <2>1, Typed DEF Queued, Sweeping, Exists, Busy
  <2>3. TicketsOK'
    BY <2>1, <2>2, Typed DEF PlacesInv, TicketsOK
  <2>4. ScoresOK'
    BY <2>1, <2>2, Typed DEF PlacesInv, ScoresOK
  <2>5. QueuedWaits' /\ SlotsAreAdmitted' /\ NoTicketLost'
    BY <2>1, <2>2 DEF PlacesInv, QueuedWaits, SlotsAreAdmitted, NoTicketLost
  <2>6. QED
    BY <1>0, <2>3, <2>4, <2>5 DEF PlacesInv
<1>12. ASSUME NEW th \in Threads, TimeoutReinsert(th)
      PROVE  PlacesInv'
  <2> DEFINE t == frame[th].tid
  <2>1. /\ \A v \in Threads \ {th} : frame'[v] = frame[v]
        /\ frame[th].pc = "reinsert" /\ frame'[th].pc = "idle"
        /\ UNCHANGED <<ctl, client>>
    BY <1>12, Typed DEF TimeoutReinsert, Idle
  <2>2. t \in Tickets /\ Exists(t)
    BY <2>1, Typed DEF PlacesInv, FramesOK, TicketsOK, Busy, Sweeping, Threads
  <2>3. /\ \A u \in Tickets \ {t} : hash'[u] = hash[u] /\ waiting'[u] = waiting[u]
        /\ hash'[t].state = "WAITING" /\ hash'[t].join_seq = hash[t].join_seq
        /\ waiting'[t] = frame[th].score /\ frame[th].score # 0
        /\ inflight' = inflight \ {t}
    BY <1>12, <2>1, <2>2, Typed
       DEF TimeoutReinsert, reinsert, TicketData, PlacesInv, ScoresOK
  <2>4. /\ Queued' = Queued \cup {t}
        /\ \A u \in Tickets : Exists(u)' <=> Exists(u)
        /\ Sweeping' \subseteq Sweeping /\ Sweeping \subseteq Sweeping' \cup {t}
    BY <2>1, <2>2, <2>3, Typed DEF Queued, Exists, Sweeping
  <2>5. TicketsOK'
    BY <2>1, <2>2, <2>3, <2>4, Typed DEF PlacesInv, TicketsOK, Busy
  <2>6. ScoresOK'
    <3>1. \A v \in Threads : frame[v].pc = "reinsert" => frame[v].tid \in Tickets
      BY Typed DEF PlacesInv, FramesOK, Busy, Threads
    <3>2. QED
      BY <2>1, <2>2, <2>3, <2>4, <3>1, Typed DEF PlacesInv, ScoresOK, Queued
  <2>7. QueuedWaits' /\ SlotsAreAdmitted' /\ NoTicketLost'
    BY <2>1, <2>2, <2>3, <2>4, Typed
       DEF PlacesInv, QueuedWaits, SlotsAreAdmitted, NoTicketLost, Queued
  <2>8. QED
    BY <1>0, <2>5, <2>6, <2>7 DEF PlacesInv
<1>13. CASE TickStart \/ TickCountWaiting \/ TickDecide
  <2>1. UNCHANGED <<hash, waiting, inflight, frame, client>> /\ ctl'.expired = ctl.expired
    BY <1>13, Typed DEF TickStart, TickCountWaiting, TickDecide, storeVars, Tick
  <2>2. QED
    BY <1>0, <2>1, SamePlaces
<1>14. CASE TickAdmit
  <2>1. PICK S \in SUBSET Queued :
            admit(S) /\ ctl' = [ctl EXCEPT !.pc = "sweep", !.n = 0, !.due = @ \ S]
    BY <1>14 DEF TickAdmit, Lowest
  <2>2. ctl'.expired = ctl.expired
    BY <2>1, Typed DEF Tick
  <2>3. QED
    BY <1>0, <1>14, <2>1, <2>2, AdmitPlaces DEF TickAdmit
<1>15. CASE TickSweep
  <2>1. /\ UNCHANGED <<hash, waiting, frame, client>>
        /\ ctl'.expired = ctl.due \cap inflight /\ inflight' = inflight \ ctl'.expired
    BY <1>15 DEF TickSweep, expire_inflight, Rest
  <2>2. ctl.expired = {}
    BY <1>15 DEF PlacesInv, TickOK, TickSweep
  <2>3. QED
    BY <1>0, <2>1, <2>2, Typed
       DEF PlacesInv, TicketsOK, ScoresOK, QueuedWaits, SlotsAreAdmitted, NoTicketLost, Queued,
           Sweeping, Busy, Exists
<1>16. CASE TickRequeue
  <2>1. PICK t \in ctl.expired :
            /\ frame' = [frame EXCEPT ![Controller] = [@ EXCEPT !.pc = "get", !.tid = t]]
            /\ ctl' = [ctl EXCEPT !.expired = @ \ {t}]
    BY <1>16 DEF TickRequeue
  <2>2. /\ \A v \in Tickets : frame'[v] = frame[v]
        /\ frame'[Controller].pc = "get" /\ frame'[Controller].tid = t
        /\ frame[Controller].pc = "idle" /\ ctl'.expired = ctl.expired \ {t}
        /\ UNCHANGED <<hash, waiting, inflight, client>>
    BY <1>16, <2>1, Typed DEF TickRequeue, storeVars, Frame, Tick
  <2>3. Queued' = Queued /\ Sweeping' = Sweeping /\ \A u \in Tickets : Exists(u)' <=> Exists(u)
    BY <2>2 DEF Queued, Sweeping, Exists
  <2>4. TicketsOK'
    BY <2>2, <2>3 DEF PlacesInv, TicketsOK, Busy
  <2>5. ScoresOK'
    BY <2>2, <2>3 DEF PlacesInv, ScoresOK, Threads
  <2>6. QueuedWaits' /\ SlotsAreAdmitted' /\ NoTicketLost'
    BY <2>2, <2>3 DEF PlacesInv, QueuedWaits, SlotsAreAdmitted, NoTicketLost
  <2>7. QED
    BY <1>0, <2>4, <2>5, <2>6 DEF PlacesInv
<1>17. CASE TickEnd
  BY <1>0, <1>17, SamePlaces DEF TickEnd, storeVars, Rest
<1>18. CASE TickFails
  <2>1. /\ \A v \in Tickets : frame'[v] = frame[v]
        /\ frame'[Controller].pc = "idle" /\ ctl'.expired = {} /\ Faults
        /\ UNCHANGED <<hash, waiting, inflight, client>>
    BY <1>18, Typed DEF TickFails, storeVars, Idle, Rest
  <2>2. Queued' = Queued /\ Sweeping' = {} /\ \A u \in Tickets : Exists(u)' <=> Exists(u)
    BY <2>1 DEF Queued, Sweeping, Exists
  <2>3. TicketsOK'
    BY <2>1, <2>2 DEF PlacesInv, TicketsOK, Busy
  <2>4. ScoresOK'
    BY <2>1, <2>2 DEF PlacesInv, ScoresOK, Threads
  <2>5. QueuedWaits' /\ SlotsAreAdmitted' /\ NoTicketLost'
    BY <2>1, <2>2 DEF PlacesInv, QueuedWaits, SlotsAreAdmitted, NoTicketLost
  <2>6. QED
    BY <1>0, <2>3, <2>4, <2>5 DEF PlacesInv
<1>19. CASE UNCHANGED vars
  BY <1>0, <1>19, SamePlaces DEF vars, storeVars
<1>20. QED
  BY <1>1, <1>2, <1>3, <1>4, <1>5, <1>6, <1>7, <1>8, <1>9, <1>10, <1>11, <1>12, <1>13, <1>14, <1>15,
     <1>16, <1>17, <1>18, <1>19 DEF Next, Join, Client, HandleTimeout, ControllerTick

LEMMA PlacesInit == Init => PlacesInv
<1>1. Init => TypeOK /\ FramesOK
  BY TypeInit
<1>2. Init => /\ Queued = {} /\ inflight = {} /\ Sweeping = {}
              /\ \A t \in Tickets : hash[t].state = "NONE" /\ client[t] = "new"
              /\ \A th \in Threads : frame[th].pc = "idle"
              /\ ctl.expired = {}
  BY DEF Init, StoreInit, Queued, Sweeping, Idle, Rest, Threads
<1>3. QED
  BY <1>1, <1>2
     DEF PlacesInv, TickOK, TicketsOK, ScoresOK, QueuedWaits, SlotsAreAdmitted, NoTicketLost, Busy,
         Exists, Threads

\* What admit_n, reinsert, complete and the sweep promise one another holds in
\* every reachable state.
THEOREM PlacesInvariant == Spec => []PlacesInv
<1>1. PlacesInv /\ [Next]_vars => PlacesInv'
  BY PlacesStep
<1>2. QED
  BY <1>1, PlacesInit, PTL DEF Spec

\* A ticket is never queued and in flight at once.
THEOREM PlacesExclude == Spec => []OnePlace
<1>1. PlacesInv => OnePlace
  BY DEF PlacesInv, OnePlace, QueuedWaits, SlotsAreAdmitted
<1>2. QED
  BY <1>1, PlacesInvariant, PTL

\* A late report or a late re-queue never leaves a slot with a ticket that is
\* not admitted.
THEOREM SlotsGivenBack == Spec => []SlotsAreAdmitted
<1>1. PlacesInv => SlotsAreAdmitted
  BY DEF PlacesInv
<1>2. QED
  BY <1>1, PlacesInvariant, PTL

\* A WAITING ticket is in the queue, and as long as no coroutine dies between two
\* steps an ADMITTED one has its slot or is in the hands of the sweep.
THEOREM TicketsStaySomewhere == Spec => []NoTicketLost
<1>1. PlacesInv => NoTicketLost
  BY DEF PlacesInv
<1>2. QED
  BY <1>1, PlacesInvariant, PTL
-----------------------------------------------------------------------------
(* The admissions of the controller: who may be admitted, and how many *)

\* Only admit_n hands out slots.
LEMMA SlotsShrink ==
    ASSUME PlacesInv, [Next]_vars, ~TickAdmit, \A t \in Tickets : ~JoinAdmit(t)
    PROVE  inflight' \subseteq inflight
<1>1. ASSUME NEW t \in Tickets,
             \/ JoinSeq(t) \/ JoinCreate(t) \/ QueueEstimate(t) \/ Client(t)
             \/ WindowElapses(t) \/ RequestFails(t)
      PROVE  inflight' = inflight
  BY <1>1
     DEF JoinSeq, JoinCreate, QueueEstimate, EstimateCheck, EstimateUpdate, Client, Poll, Abandon,
         ReportSuccess, ReportFailure, WindowElapses, RequestFails, storeVars
<1>2. ASSUME NEW t \in Tickets, CompleteOk(t)
      PROVE  inflight' \subseteq inflight
  BY <1>2 DEF CompleteOk, complete
<1>3. ASSUME NEW th \in Threads, HandleTimeout(th)
      PROVE  inflight' \subseteq inflight
  BY <1>3 DEF HandleTimeout, TimeoutGet, TimeoutReseq, TimeoutReinsert, reinsert, storeVars
<1>4. CASE ControllerTick
  BY <1>4
     DEF ControllerTick, TickStart, TickCountWaiting, TickDecide, TickSweep, TickRequeue, TickEnd,
         expire_inflight, storeVars
<1>5. CASE TickFails \/ UNCHANGED vars
  BY <1>5 DEF TickFails, storeVars, vars
<1>6. QED
  BY <1>1, <1>2, <1>3, <1>4, <1>5 DEF Next, Join

\* queue_join admits in none mode only.
LEMMA JoinAdmitMode ==
    ASSUME PlacesInv, NEW t \in Tickets, JoinAdmit(t)
    PROVE  Mode = "none"
BY DEF PlacesInv, FramesOK, JoinAdmit

\* Only the controller moves a tick on.
LEMMA OthersKeepTick ==
    ASSUME PlacesInv, [Next]_vars, ~ControllerTick, ~TickFails
    PROVE  ctl'.pc = ctl.pc /\ ctl'.n = ctl.n /\ ctl'.c_max = ctl.c_max
<1>0. ctl \in Tick
  BY Typed
<1>1. ASSUME NEW t \in Tickets,
             Join(t) \/ QueueEstimate(t) \/ Client(t) \/ CompleteOk(t) \/ WindowElapses(t)
             \/ RequestFails(t)
      PROVE  ctl'.pc = ctl.pc /\ ctl'.n = ctl.n /\ ctl'.c_max = ctl.c_max
  BY <1>0, <1>1
     DEF Join, JoinSeq, JoinCreate, JoinAdmit, QueueEstimate, EstimateCheck, EstimateUpdate, Client,
         Poll, Abandon, ReportSuccess, ReportFailure, CompleteOk, WindowElapses, RequestFails, Tick
<1>2. ASSUME NEW th \in Threads, HandleTimeout(th)
      PROVE  UNCHANGED ctl
  BY <1>2 DEF HandleTimeout, TimeoutGet, TimeoutReseq, TimeoutReinsert
<1>3. QED
  BY <1>1, <1>2 DEF Next, vars

\* C4 in aaac mode keeps the order of joining: a ticket that timed out is still
\* ahead of everybody who joined after it.
THEOREM AdmissionInOrder == Spec => NoOvertaking
<1>1. ASSUME PlacesInv, [Next]_vars, Mode = "aaac",
             NEW t \in Queued, NEW u \in Queued,
             hash[t].join_seq < hash[u].join_seq, u \in inflight'
      PROVE  t \in inflight'
  <2>1. u \notin inflight
    BY <1>1 DEF PlacesInv, QueuedWaits, SlotsAreAdmitted
  <2>2. TickAdmit
    BY <1>1, <2>1, SlotsShrink, JoinAdmitMode
  <2>3. PICK S \in Lowest(ctl.n) : admit(S)
    BY <2>2 DEF TickAdmit
  <2>4. u \in S
    BY <2>1, <2>3, <1>1 DEF admit
  <2>5. t \in Tickets /\ u \in Tickets
    BY DEF Queued
  <2>6. waiting[t] = hash[t].join_seq /\ waiting[u] = hash[u].join_seq
    BY <1>1 DEF PlacesInv, ScoresOK
  <2>7. hash[t].join_seq \in Nat /\ hash[u].join_seq \in Nat
    BY <1>1, <2>5, Typed DEF TicketData
  <2>8. t \in S
    BY <1>1, <2>3, <2>4, <2>6, <2>7 DEF Lowest
  <2>9. QED
    BY <2>3, <2>8 DEF admit
<1>2. PlacesInv /\ [Next]_vars =>
        [Mode = "aaac" =>
           \A t, u \in Queued :
               /\ hash[t].join_seq < hash[u].join_seq
               /\ u \in inflight'
               => t \in inflight']_vars
  BY <1>1
<1>3. PlacesInv /\ [Next]_vars => PlacesInv'
  BY PlacesStep
<1>4. QED
  BY <1>2, <1>3, PlacesInit, PTL DEF Spec, NoOvertaking

-----------------------------------------------------------------------------
(* The sweep *)

\* The windows given while a tick runs take their tickets off its list, so no
\* step makes an unelapsed slot due.
LEMMA DueStep ==
    ASSUME PlacesInv, DueOK, [Next]_vars
    PROVE  DueOK'
<1>0. ctl \in Tick /\ inflight \in SUBSET Tickets
  BY Typed
<1>1. ASSUME NEW t \in Tickets,
             \/ JoinSeq(t) \/ JoinCreate(t) \/ QueueEstimate(t) \/ Client(t)
             \/ WindowElapses(t) \/ RequestFails(t)
      PROVE  DueOK'
  <2>1. UNCHANGED <<ctl, inflight>> /\ elapsed \subseteq elapsed'
    BY <1>1
       DEF JoinSeq, JoinCreate, QueueEstimate, EstimateCheck, EstimateUpdate, update_class, Client,
           Poll, Abandon, ReportSuccess, ReportFailure, WindowElapses, RequestFails, storeVars
  <2>2. QED
    BY <2>1 DEF DueOK
<1>2. ASSUME NEW t \in Tickets, JoinAdmit(t)
      PROVE  DueOK'
  <2>1. PICK S \in Lowest(1) : admit(S) /\ ctl' = [ctl EXCEPT !.due = @ \ S]
    BY <1>2 DEF JoinAdmit
  <2>2. ctl'.due = ctl.due \ S
    BY <1>0, <2>1 DEF Tick
  <2>3. QED
    BY <2>1, <2>2 DEF DueOK, admit
<1>3. ASSUME NEW t \in Tickets, CompleteOk(t)
      PROVE  DueOK'
  BY <1>3 DEF DueOK, CompleteOk, complete
<1>4. ASSUME NEW th \in Threads, HandleTimeout(th)
      PROVE  DueOK'
  BY <1>4
     DEF DueOK, HandleTimeout, TimeoutGet, TimeoutReseq, TimeoutReinsert, reinsert, storeVars
<1>5. CASE TickAdmit
  <2>1. PICK S \in Lowest(ctl.n) :
            admit(S) /\ ctl' = [ctl EXCEPT !.pc = "sweep", !.n = 0, !.due = @ \ S]
    BY <1>5 DEF TickAdmit
  <2>2. ctl'.due = ctl.due \ S
    BY <1>0, <2>1 DEF Tick
  <2>3. QED
    BY <2>1, <2>2 DEF DueOK, admit
<1>6. CASE TickStart \/ TickCountWaiting \/ TickDecide \/ TickRequeue
  <2>1. ctl'.due \in {ctl.due, elapsed} /\ UNCHANGED <<inflight, elapsed>>
    BY <1>0, <1>6 DEF TickStart, TickCountWaiting, TickDecide, TickRequeue, Tick, storeVars
  <2>2. QED
    BY <2>1 DEF DueOK
<1>7. CASE TickSweep \/ TickEnd \/ TickFails
  <2>1. CASE TickSweep
    BY <2>1 DEF DueOK, TickSweep, Rest
  <2>2. CASE TickEnd \/ TickFails
    <3>1. ctl' = Rest
      BY <2>2 DEF TickEnd, TickFails
    <3>2. QED
      BY <3>1 DEF DueOK, Rest
  <2>3. QED
    BY <1>7, <2>1, <2>2
<1>8. CASE UNCHANGED vars
  BY <1>8 DEF DueOK, vars, storeVars
<1>9. QED
  BY <1>1, <1>2, <1>3, <1>4, <1>5, <1>6, <1>7, <1>8 DEF Next, Join, ControllerTick

\* However many handlers run between the "now" of a tick and its sweep, the sweep
\* never takes the slot of a ticket whose window is still open.
THEOREM SweepIsTimely == Spec => SweepsOnlyElapsed
<1>1. Init => DueOK
  BY DEF Init, Rest, DueOK
<1>2. ASSUME PlacesInv, DueOK, [Next]_vars, ctl.pc = "sweep", ctl'.pc = "requeue"
      PROVE  inflight \ inflight' \subseteq elapsed
  <2>0. ctl \in Tick
    BY <1>2, Typed
  <2>1. TickSweep
    <3>1. ~TickFails
      BY <1>2 DEF TickFails, Rest
    <3>2. ControllerTick
      BY <1>2, <3>1, OthersKeepTick
    <3>3. QED
      BY <1>2, <3>2
         DEF ControllerTick, TickStart, TickCountWaiting, TickDecide, TickAdmit, TickRequeue, TickEnd
  <2>2. QED
    BY <1>2, <2>1 DEF TickSweep, expire_inflight, DueOK
<1>3. PlacesInv /\ DueOK /\ [Next]_vars =>
        [ctl.pc = "sweep" /\ ctl'.pc = "requeue" => inflight \ inflight' \subseteq elapsed]_vars
  BY <1>2
<1>4. PlacesInv /\ DueOK /\ [Next]_vars => (PlacesInv /\ DueOK)'
  BY PlacesStep, DueStep
<1>5. QED
  BY <1>1, <1>3, <1>4, PlacesInit, PTL DEF Spec, SweepsOnlyElapsed
-----------------------------------------------------------------------------
(* The number of admissions *)

\* Between TickDecide, which counts the slots in flight, and TickAdmit, which
\* fills some, every other coroutine can only free slots.
LEMMA SlotsFreeStep ==
    ASSUME PlacesInv, SlotsFree, [Next]_vars
    PROVE  SlotsFree'
<1>0. /\ ctl \in Tick /\ inflight \in SUBSET Tickets
      /\ inflight_count \in Nat /\ inflight_count' \in Nat
  <2>1. inflight' \in SUBSET Tickets
    BY PlacesStep, Typed DEF PlacesInv, TypeOK, StoreTypeOK
  <2>2. QED
    BY <2>1, Typed, CountsAreNat DEF inflight_count
<1>1. SUFFICES ASSUME Mode # "none", ctl'.pc = "admit"
               PROVE  inflight_count' + ctl'.n <= ctl'.c_max
  BY DEF SlotsFree
<1>2. CASE TickDecide
  <2>1. PICK c_max \in Caps, limit \in Limits :
            ctl' = [ctl EXCEPT
                      !.pc = IF Allowance(limit, c_max, inflight_count, ctl.total_waiting) > 0
                             THEN "admit" ELSE "sweep",
                      !.total_waiting = 0, !.c_max = c_max,
                      !.n = Allowance(limit, c_max, inflight_count, ctl.total_waiting)]
    BY <1>2 DEF TickDecide
  <2> DEFINE n == Allowance(limit, c_max, inflight_count, ctl.total_waiting)
  <2>2. ctl'.n = n /\ ctl'.c_max = c_max /\ n > 0
    BY <1>0, <1>1, <2>1 DEF Tick
  <2>3. inflight_count + n <= c_max
    BY <1>0, <2>2, AllowanceType, LimitsAssumption DEF Tick
  <2>4. inflight_count' = inflight_count
    BY <1>2 DEF TickDecide, inflight_count, storeVars
  <2>5. QED
    BY <2>2, <2>3, <2>4
<1>3. CASE ~TickDecide
  <2>1. ctl'.pc = ctl.pc /\ ctl'.n = ctl.n /\ ctl'.c_max = ctl.c_max
    <3>1. ~TickFails
      BY <1>1 DEF TickFails, Rest
    <3>2. ~ControllerTick
      <4>1. ~TickStart /\ ~TickCountWaiting /\ ~TickAdmit /\ ~TickRequeue
        BY <1>0, <1>1 DEF TickStart, TickCountWaiting, TickAdmit, TickRequeue, Tick
      <4>2. ~TickSweep
        BY <1>1 DEF TickSweep, Rest
      <4>3. ~TickEnd
        BY <1>1 DEF TickEnd, Rest
      <4>4. QED
        BY <1>3, <4>1, <4>2, <4>3 DEF ControllerTick
    <3>3. QED
      BY <3>1, <3>2, OthersKeepTick
  <2>2. inflight' \subseteq inflight
    <3>1. ~TickAdmit
      BY <1>0, <1>1 DEF TickAdmit, Tick
    <3>2. QED
      BY <1>1, <3>1, SlotsShrink, JoinAdmitMode
  <2>3. inflight_count' <= inflight_count
    BY <1>0, <2>2, CountsAreNat, FS_Subset DEF inflight_count
  <2>4. QED
    BY <1>0, <1>1, <2>1, <2>3 DEF SlotsFree, Tick
<1>4. QED
  BY <1>2, <1>3

\* C5: admit_n(n) never takes inflight above the C_max that n was computed from.
THEOREM AdmissionWithinCap == Spec => AdmitRespectsCap
<1>1. Init => SlotsFree
  BY DEF Init, Rest, SlotsFree
<1>2. ASSUME PlacesInv, SlotsFree, [Next]_vars,
             Mode # "none", ctl.pc = "admit", ctl'.pc = "sweep"
      PROVE  Cardinality(inflight') <= ctl.c_max
  <2>0. ctl \in Tick /\ inflight \in SUBSET Tickets
    BY <1>2, Typed
  <2>1. TickAdmit
    <3>1. ~TickFails
      BY <1>2 DEF TickFails, Rest
    <3>2. ControllerTick
      BY <1>2, <3>1, OthersKeepTick
    <3>3. QED
      BY <1>2, <3>2
         DEF ControllerTick, TickStart, TickCountWaiting, TickDecide, TickSweep, TickRequeue, TickEnd
  <2>2. PICK S \in Lowest(ctl.n) : inflight' = inflight \cup S
    BY <2>1 DEF TickAdmit, admit
  <2>3. /\ S \in SUBSET Tickets /\ Cardinality(S) = Smaller(ctl.n, waiting_count)
        /\ ctl.n \in Nat /\ waiting_count \in Nat
    BY <2>0, CountsAreNat DEF Lowest, Queued, Tick, waiting_count
  <2>4. /\ Cardinality(inflight \cup S) <= Cardinality(inflight) + Cardinality(S)
        /\ Cardinality(inflight \cup S) \in Nat /\ Cardinality(inflight) \in Nat
    <3>1. /\ IsFiniteSet(inflight) /\ IsFiniteSet(S)
          /\ Cardinality(inflight) \in Nat /\ Cardinality(S) \in Nat
          /\ Cardinality(inflight \cap S) \in Nat /\ Cardinality(inflight \cup S) \in Nat
      BY <2>0, <2>3, CountsAreNat
    <3>2. Cardinality(inflight \cup S)
            = Cardinality(inflight) + Cardinality(S) - Cardinality(inflight \cap S)
      BY <3>1, FS_Union
    <3>3. QED
      BY <3>1, <3>2
  <2>5. Cardinality(inflight) + ctl.n <= ctl.c_max /\ ctl.c_max \in Nat
    BY <1>2, <2>0 DEF SlotsFree, inflight_count, Tick
  <2>6. QED
    BY <2>2, <2>3, <2>4, <2>5 DEF Smaller
<1>3. PlacesInv /\ SlotsFree /\ [Next]_vars =>
        [Mode # "none" /\ ctl.pc = "admit" /\ ctl'.pc = "sweep"
         => Cardinality(inflight') <= ctl.c_max]_vars
  BY <1>2
<1>4. PlacesInv /\ SlotsFree /\ [Next]_vars => (PlacesInv /\ SlotsFree)'
  BY PlacesStep, SlotsFreeStep
<1>5. QED
  BY <1>1, <1>3, <1>4, PlacesInit, PTL DEF Spec, AdmitRespectsCap
-----------------------------------------------------------------------------
(* The waiting counter *)

LEMMA CounterStep ==
    ASSUME PlacesInv, CounterCoversQueue, [Next]_vars
    PROVE  CounterCoversQueue'
<1>0. /\ waiting_counter \in Int /\ waiting \in [Tickets -> Nat]
      /\ Queued \in SUBSET Tickets /\ IsFiniteSet(Queued) /\ waiting_count \in Nat
  BY CountsAreNat DEF PlacesInv, TypeOK, StoreTypeOK, Queued, waiting_count
<1>1. ASSUME NEW t \in Tickets, NEW score, waiting' = [waiting EXCEPT ![t] = score],
             waiting_counter' = waiting_counter + 1
      PROVE  CounterCoversQueue'
  <2>1. Queued' \subseteq Queued \cup {t}
    BY <1>0, <1>1 DEF Queued
  <2>2. Cardinality(Queued \cup {t}) <= waiting_count + 1 /\ IsFiniteSet(Queued \cup {t})
    <3>1. /\ IsFiniteSet(Queued \cup {t})
          /\ Cardinality(Queued \cup {t})
               = IF t \in Queued THEN Cardinality(Queued) ELSE Cardinality(Queued) + 1
      BY <1>0, FS_AddElement
    <3>2. QED
      BY <1>0, <3>1 DEF waiting_count
  <2>3. Cardinality(Queued') <= Cardinality(Queued \cup {t}) /\ Cardinality(Queued') \in Nat
    BY <2>1, <2>2, FS_Subset, FS_CardinalityType
  <2>4. Cardinality(Queued \cup {t}) \in Nat
    BY <2>2, FS_CardinalityType
  <2>5. QED
    BY <1>0, <1>1, <2>2, <2>3, <2>4 DEF CounterCoversQueue, waiting_count
<1>2. ASSUME NEW S \in SUBSET Queued, admit(S)
      PROVE  CounterCoversQueue'
  <2>1. Queued' = Queued \ S
    BY <1>0, <1>2 DEF admit, Queued
  <2>2. Cardinality(Queued \ S) = waiting_count - Cardinality(S) /\ Cardinality(S) \in Nat
    <3>1. Queued \cap S = S
      OBVIOUS
    <3>2. QED
      BY <1>0, <3>1, FS_Difference, CountsAreNat DEF waiting_count
  <2>3. QED
    BY <1>0, <1>2, <2>1, <2>2 DEF CounterCoversQueue, waiting_count, admit
<1>3. ASSUME UNCHANGED <<waiting, waiting_counter>>
      PROVE  CounterCoversQueue'
  BY <1>3 DEF CounterCoversQueue, waiting_count, Queued
<1>4. ASSUME NEW t \in Tickets, Join(t)
      PROVE  CounterCoversQueue'
  <2>1. CASE JoinSeq(t)
    BY <1>3, <2>1 DEF JoinSeq
  <2>2. CASE JoinCreate(t)
    BY <1>1, <2>2 DEF JoinCreate, create_ticket
  <2>3. CASE JoinAdmit(t)
    BY <1>2, <2>3 DEF JoinAdmit, Lowest
  <2>4. QED
    BY <1>4, <2>1, <2>2, <2>3 DEF Join
<1>5. ASSUME NEW t \in Tickets,
             QueueEstimate(t) \/ Client(t) \/ CompleteOk(t) \/ WindowElapses(t) \/ RequestFails(t)
      PROVE  CounterCoversQueue'
  BY <1>3, <1>5
     DEF QueueEstimate, EstimateCheck, EstimateUpdate, Client, Poll, Abandon, ReportSuccess,
         ReportFailure, CompleteOk, WindowElapses, RequestFails, storeVars
<1>6. ASSUME NEW th \in Threads, HandleTimeout(th)
      PROVE  CounterCoversQueue'
  <2>1. CASE TimeoutGet(th) \/ TimeoutReseq(th)
    BY <1>3, <2>1 DEF TimeoutGet, TimeoutReseq, storeVars
  <2>2. CASE TimeoutReinsert(th)
    <3>1. frame[th].tid \in Tickets
      BY <2>2, Typed DEF PlacesInv, FramesOK, Busy, Threads, TimeoutReinsert
    <3>2. QED
      BY <1>1, <2>2, <3>1 DEF TimeoutReinsert, reinsert
  <2>3. QED
    BY <1>6, <2>1, <2>2 DEF HandleTimeout
<1>7. CASE TickAdmit
  BY <1>2, <1>7 DEF TickAdmit, Lowest
<1>8. CASE (ControllerTick /\ ~TickAdmit) \/ TickFails \/ UNCHANGED vars
  BY <1>3, <1>8
     DEF ControllerTick, TickStart, TickCountWaiting, TickDecide, TickSweep, TickRequeue, TickEnd,
         TickFails, storeVars, vars
<1>9. QED
  BY <1>4, <1>5, <1>6, <1>7, <1>8 DEF Next

\* The waiting counter an operator sees is never below the length of the queue:
\* a ticket re-queued twice makes it too high, and nothing makes it too low.
THEOREM CounterIsUpperBound == Spec => []CounterCoversQueue
<1>1. Init => CounterCoversQueue
  <2>1. ASSUME Init
        PROVE  CounterCoversQueue
    <3>1. Queued = {}
      BY <2>1 DEF Init, StoreInit, Queued
    <3>2. QED
      BY <2>1, <3>1, FS_EmptySet DEF Init, StoreInit, CounterCoversQueue, waiting_count
  <2>2. QED
    BY <2>1
<1>2. PlacesInv /\ CounterCoversQueue /\ [Next]_vars => (PlacesInv /\ CounterCoversQueue)'
  BY PlacesStep, CounterStep
<1>3. QED
  BY <1>1, <1>2, PlacesInit, PTL DEF Spec
-----------------------------------------------------------------------------
(* The numbers of next_seq *)

\* A frame's score is a number of its ticket.
LEMMA NumbersOfTickets ==
    ASSUME PlacesInv, NEW t \in Tickets
    PROVE  /\ Numbers(t) \subseteq Nat \ {0}
           /\ hash[t].join_seq # 0 => hash[t].join_seq \in Numbers(t)
           /\ waiting[t] # 0 => waiting[t] \in Numbers(t)
           /\ \A th \in Threads :
                  /\ frame[th].pc \in {"create", "reinsert"} /\ frame[th].tid = t
                  => frame[th].score \in Numbers(t)
<1>1. \A th \in Threads : frame[th].score \in Nat
  BY Typed DEF Frame
<1>2. hash[t].join_seq \in Nat /\ waiting[t] \in Nat
  BY Typed DEF TicketData
<1>3. \A th \in Threads : frame[th].pc \in {"create", "reinsert"} => frame[th].score # 0
  BY DEF PlacesInv, ScoresOK
<1>4. QED
  BY <1>1, <1>2, <1>3 DEF Numbers

\* The numbers of a ticket afterwards, when they are all among those of a set.
LEMMA NumbersAfter ==
    ASSUME NEW t \in Tickets, NEW N,
           hash'[t].join_seq \in N \cup {0}, waiting'[t] \in N \cup {0},
           \A th \in Threads :
               /\ frame'[th].pc \in {"create", "reinsert"} /\ frame'[th].tid = t
               => frame'[th].score \in N
    PROVE  Numbers(t)' \subseteq N
BY DEF Numbers

\* A step that gives out no number, and leaves every number with its ticket.
LEMMA NumbersKept ==
    ASSUME NumbersOK, seq \in Nat, seq' = seq,
           \A t \in Tickets : Numbers(t)' \subseteq Numbers(t)
    PROVE  NumbersOK'
<1>1. ASSUME NEW t \in Tickets, NEW n \in Numbers(t)'
      PROVE  n <= seq' /\ \A u \in Tickets \ {t} : n \notin Numbers(u)'
  BY <1>1 DEF NumbersOK
<1>2. QED
  BY <1>1 DEF NumbersOK

\* A step that gives the next number to one ticket.
LEMMA NumberGiven ==
    ASSUME NumbersOK, seq \in Nat, next_seq, NEW t0 \in Tickets,
           \A t \in Tickets : Numbers(t) \subseteq Nat,
           \A t \in Tickets \ {t0} : Numbers(t)' \subseteq Numbers(t),
           Numbers(t0)' \subseteq Numbers(t0) \cup {seq'}
    PROVE  NumbersOK'
<1>1. \A t \in Tickets : \A n \in Numbers(t) : n <= seq /\ n # seq' /\ n <= seq'
  BY DEF NumbersOK, next_seq
<1>2. ASSUME NEW t \in Tickets, NEW n \in Numbers(t)'
      PROVE  n <= seq' /\ \A u \in Tickets \ {t} : n \notin Numbers(u)'
  <2>1. n <= seq'
    BY <1>1, <1>2 DEF next_seq
  <2>2. CASE t # t0 \/ n # seq'
    <3>1. n \in Numbers(t)
      BY <1>2, <2>2
    <3>2. ASSUME NEW u \in Tickets \ {t}, n \in Numbers(u)'
          PROVE  FALSE
      <4>1. n \in Numbers(u)
        BY <1>1, <3>1, <3>2
      <4>2. QED
        BY <3>1, <4>1 DEF NumbersOK
    <3>3. QED
      BY <2>1, <3>2
  <2>3. CASE t = t0 /\ n = seq'
    BY <1>1, <2>1, <2>3
  <2>4. QED
    BY <2>2, <2>3
<1>3. QED
  BY <1>2 DEF NumbersOK

\* A step that changes no number, or forgets those of coroutines that end.
LEMMA SameNumbers ==
    ASSUME PlacesInv, NumbersOK, seq' = seq,
           \A t \in Tickets : /\ hash'[t].join_seq = hash[t].join_seq
                              /\ waiting'[t] \in {waiting[t], 0},
           \A th \in Threads : \/ frame'[th] = frame[th]
                               \/ frame'[th].pc \notin {"create", "reinsert"}
    PROVE  NumbersOK'
<1>1. \A t \in Tickets : Numbers(t)' \subseteq Numbers(t)
  BY DEF Numbers
<1>2. seq \in Nat
  BY DEF PlacesInv, TypeOK, StoreTypeOK
<1>3. QED
  BY <1>1, <1>2, NumbersKept

LEMMA NumbersStep ==
    ASSUME PlacesInv, NumbersOK, [Next]_vars
    PROVE  NumbersOK'
<1>0. /\ seq \in Nat
      /\ \A t \in Tickets : Numbers(t) \subseteq Nat
  BY NumbersOfTickets DEF PlacesInv, TypeOK, StoreTypeOK
<1>1. ASSUME NEW t \in Tickets, JoinSeq(t)
      PROVE  NumbersOK'
  <2>1. /\ \A th \in Threads \ {t} : frame'[th] = frame[th]
        /\ frame'[t].score = seq' /\ frame'[t].tid = t
        /\ UNCHANGED <<hash, waiting>> /\ next_seq
    BY <1>1, Typed DEF JoinSeq, Frame, PlacesInv, FramesOK
  <2>2. \A u \in Tickets \ {t} : Numbers(u)' \subseteq Numbers(u)
    BY <2>1 DEF Numbers
  <2>3. Numbers(t)' \subseteq Numbers(t) \cup {seq'}
    BY <2>1 DEF Numbers
  <2>4. QED
    BY <1>0, <2>1, <2>2, <2>3, NumberGiven
<1>2. ASSUME NEW t \in Tickets, JoinCreate(t)
      PROVE  NumbersOK'
  <2>1. /\ frame[t].pc = "create" /\ frame[t].tid = t
        /\ \A th \in Threads \ {t} : frame'[th] = frame[th]
        /\ frame'[t].pc \in {"admit", "idle"}
        /\ \A u \in Tickets \ {t} : hash'[u] = hash[u] /\ waiting'[u] = waiting[u]
        /\ hash'[t].join_seq = frame[t].score /\ waiting'[t] = frame[t].score
        /\ seq' = seq
    BY <1>2, Typed DEF JoinCreate, Joined, create_ticket, Idle, Frame, PlacesInv, FramesOK
  <2>2. \A u \in Tickets \ {t} : Numbers(u)' \subseteq Numbers(u)
    BY <2>1 DEF Numbers
  <2>3. Numbers(t)' \subseteq Numbers(t)
    <3>1. frame[t].score \in Numbers(t)
      BY <2>1, NumbersOfTickets, Typed
    <3>2. \A th \in Threads :
              /\ frame'[th].pc \in {"create", "reinsert"} /\ frame'[th].tid = t
              => frame'[th].score \in Numbers(t)
      BY <2>1, NumbersOfTickets, Typed
    <3>3. QED
      BY <2>1, <3>1, <3>2, NumbersAfter
  <2>4. QED
    BY <1>0, <2>1, <2>2, <2>3, NumbersKept
<1>3. ASSUME NEW S \in SUBSET Queued, admit(S), seq' = seq,
             \A th \in Threads : frame'[th] = frame[th] \/ frame'[th].pc = "idle"
      PROVE  NumbersOK'
  <2>1. \A u \in Tickets : /\ hash'[u].join_seq = hash[u].join_seq
                           /\ waiting'[u] \in {waiting[u], 0}
    BY <1>3, Typed DEF admit, TicketData
  <2>2. QED
    BY <1>3, <2>1, SameNumbers
<1>4. ASSUME NEW t \in Tickets, JoinAdmit(t)
      PROVE  NumbersOK'
  <2>1. \A th \in Threads : frame'[th] = frame[th] \/ frame'[th].pc = "idle"
    BY <1>4, Typed DEF JoinAdmit, Joined, Idle
  <2>2. QED
    BY <1>3, <1>4, <2>1 DEF JoinAdmit, Lowest
<1>5. ASSUME NEW t \in Tickets, QueueEstimate(t) \/ Client(t) \/ CompleteOk(t) \/ WindowElapses(t)
      PROVE  NumbersOK'
  <2>1. /\ \A u \in Tickets : hash'[u].join_seq = hash[u].join_seq
        /\ UNCHANGED <<seq, waiting>>
    BY <1>5, Typed
       DEF QueueEstimate, EstimateCheck, EstimateUpdate, update_class, Client, Poll, Abandon,
           ReportSuccess, ReportFailure, CompleteOk, complete, WindowElapses, storeVars, TicketData
  <2>2. \A th \in Threads : \/ frame'[th] = frame[th]
                            \/ frame'[th].pc \notin {"create", "reinsert"}
    BY <1>5, Typed
       DEF QueueEstimate, EstimateCheck, EstimateUpdate, Client, Poll, Abandon, ReportSuccess,
           ReportFailure, CompleteOk, WindowElapses, Idle, Frame
  <2>3. QED
    BY <2>1, <2>2, SameNumbers
<1>6. ASSUME NEW t \in Tickets, RequestFails(t)
      PROVE  NumbersOK'
  <2>1. \A th \in Threads : frame'[th] = frame[th] \/ frame'[th].pc = "idle"
    <3>1. frame' = frame \/ frame' = [frame EXCEPT ![t] = Idle(t)]
      BY <1>6 DEF RequestFails
    <3>2. QED
      BY <3>1, Typed DEF Idle
  <2>2. UNCHANGED <<seq, hash, waiting>>
    BY <1>6 DEF RequestFails, storeVars
  <2>3. QED
    BY <2>1, <2>2, SameNumbers
<1>7. ASSUME NEW th \in Threads, HandleTimeout(th)
      PROVE  NumbersOK'
  <2> DEFINE t == frame[th].tid
  <2>1. /\ t \in Tickets /\ Exists(t)
        /\ Busy(th) /\ frame[th].pc # "create"
    BY <1>7, Typed
       DEF HandleTimeout, TimeoutGet, TimeoutReseq, TimeoutReinsert, PlacesInv, FramesOK, TicketsOK,
           Busy, Sweeping, Threads
  <2>2. CASE TimeoutGet(th)
    <3>1. /\ \A v \in Threads \ {th} : frame'[v] = frame[v]
          /\ frame'[th].tid = t /\ frame'[th].score = hash[t].join_seq
          /\ UNCHANGED <<seq, hash, waiting>>
      BY <2>2, Typed DEF TimeoutGet, storeVars
    <3>2. hash[t].join_seq \in Numbers(t)
      BY <2>1, NumbersOfTickets DEF PlacesInv, TicketsOK
    <3>3. \A u \in Tickets : Numbers(u)' \subseteq Numbers(u)
      BY <3>1, <3>2 DEF Numbers
    <3>4. QED
      BY <1>0, <3>1, <3>3, NumbersKept
  <2>3. CASE TimeoutReseq(th)
    <3>1. /\ \A v \in Threads \ {th} : frame'[v] = frame[v]
          /\ frame'[th].tid = t /\ frame'[th].score = seq'
          /\ UNCHANGED <<hash, waiting>> /\ next_seq
      BY <2>3, Typed DEF TimeoutReseq, Frame
    <3>2. \A u \in Tickets \ {t} : Numbers(u)' \subseteq Numbers(u)
      BY <3>1 DEF Numbers
    <3>3. Numbers(t)' \subseteq Numbers(t) \cup {seq'}
      BY <3>1 DEF Numbers
    <3>4. QED
      BY <1>0, <2>1, <3>1, <3>2, <3>3, NumberGiven
  <2>4. CASE TimeoutReinsert(th)
    <3>1. /\ \A v \in Threads \ {th} : frame'[v] = frame[v]
          /\ frame[th].pc = "reinsert" /\ frame'[th].pc = "idle"
          /\ \A u \in Tickets : hash'[u].join_seq = hash[u].join_seq
          /\ \A u \in Tickets \ {t} : waiting'[u] = waiting[u]
          /\ waiting'[t] = frame[th].score
          /\ seq' = seq
      BY <2>1, <2>4, Typed DEF TimeoutReinsert, reinsert, Idle, TicketData
    <3>2. frame[th].score \in Numbers(t)
      BY <2>1, <3>1, NumbersOfTickets
    <3>3. \A u \in Tickets : Numbers(u)' \subseteq Numbers(u)
      BY <3>1, <3>2 DEF Numbers
    <3>4. QED
      BY <1>0, <3>1, <3>3, NumbersKept
  <2>5. QED
    BY <1>7, <2>2, <2>3, <2>4 DEF HandleTimeout
<1>8. CASE TickAdmit
  BY <1>3, <1>8 DEF TickAdmit, Lowest
<1>9. CASE (ControllerTick /\ ~TickAdmit) \/ TickFails \/ UNCHANGED vars
  <2>1. CASE TickRequeue
    <3>1. PICK t \in ctl.expired :
              /\ frame' = [frame EXCEPT ![Controller] = [@ EXCEPT !.pc = "get", !.tid = t]]
              /\ ctl' = [ctl EXCEPT !.expired = @ \ {t}]
      BY <2>1 DEF TickRequeue
    <3>2. /\ \A th \in Threads \ {Controller} : frame'[th] = frame[th]
          /\ frame'[Controller].pc = "get"
      BY <3>1, Typed DEF Frame
    <3>3. UNCHANGED <<seq, hash, waiting>>
      BY <2>1 DEF TickRequeue, storeVars
    <3>4. QED
      BY <3>2, <3>3, SameNumbers
  <2>2. CASE TickFails
    <3>1. \A th \in Threads : frame'[th] = frame[th] \/ frame'[th].pc = "idle"
      BY <2>2, Typed DEF TickFails, Idle
    <3>2. UNCHANGED <<seq, hash, waiting>>
      BY <2>2 DEF TickFails, storeVars
    <3>3. QED
      BY <3>1, <3>2, SameNumbers
  <2>3. CASE (ControllerTick /\ ~TickAdmit /\ ~TickRequeue) \/ UNCHANGED vars
    <3>1. UNCHANGED <<seq, hash, waiting, frame>>
      <4>1. CASE TickStart \/ TickCountWaiting \/ TickSweep \/ TickEnd \/ UNCHANGED vars
        BY <4>1 DEF TickStart, TickCountWaiting, TickSweep, TickEnd, storeVars, vars
      <4>2. CASE TickDecide
        BY <4>2 DEF TickDecide, storeVars
      <4>3. QED
        BY <2>3, <4>1, <4>2 DEF ControllerTick
    <3>2. QED
      BY <3>1, SameNumbers
  <2>4. QED
    BY <1>9, <2>1, <2>2, <2>3
<1>10. QED
  BY <1>1, <1>2, <1>4, <1>5, <1>6, <1>7, <1>8, <1>9 DEF Next, Join

\* A number of next_seq stays with the ticket it was given to, in every mode and
\* through every re-queue: no two queued tickets share a score.
THEOREM ScoresAreDistinct == Spec => []DistinctScores
<1>1. Init => NumbersOK
  <2>1. ASSUME Init
        PROVE  NumbersOK
    <3>1. \A t \in Tickets : hash[t].join_seq = 0 /\ waiting[t] = 0
      BY <2>1 DEF Init, StoreInit
    <3>2. \A th \in Threads : frame[th].pc = "idle"
      BY <2>1 DEF Init, Idle
    <3>3. \A t \in Tickets : Numbers(t) = {}
      BY <3>1, <3>2 DEF Numbers
    <3>4. QED
      BY <3>3 DEF NumbersOK
  <2>2. QED
    BY <2>1
<1>2. PlacesInv /\ NumbersOK /\ [Next]_vars => (PlacesInv /\ NumbersOK)'
  BY PlacesStep, NumbersStep
<1>3. PlacesInv /\ NumbersOK => DistinctScores
  <2>1. ASSUME PlacesInv, NumbersOK, NEW t \in Queued, NEW u \in Queued, waiting[t] = waiting[u]
        PROVE  t = u
    <3>1. t \in Tickets /\ u \in Tickets
      BY DEF Queued
    <3>2. waiting[t] \in Numbers(t) /\ waiting[t] \in Numbers(u)
      BY <2>1, <3>1, NumbersOfTickets DEF Queued
    <3>3. QED
      BY <2>1, <3>1, <3>2 DEF NumbersOK
  <2>2. QED
    BY <2>1 DEF DistinctScores
<1>4. QED
  BY <1>1, <1>2, <1>3, PlacesInit, PTL DEF Spec
=============================================================================

--------------------- MODULE KnowledgeOperation_proofs ----------------------
(***************************************************************************)
(* The knowledge operation is safe for any number of workers, contexts,    *)
(* requests, epochs and faults: its invariants, that it implements         *)
(* AppliedOnce, and that its row follows the transition table.             *)
(***************************************************************************)
EXTENDS KnowledgeOperation, WorkRow_proofs

(* A dispatch that may have executed its request.                          *)
Counts(a) == dispatch[a] \notin {"none", "resolved_without_execution"}
MyRequest(p) == RequestOf[Attempt(p)]

(* The row is in the entity stage or past it.                              *)
RowFits ==
    /\ row.status \in {"entity_pending", "entity_leased", "retry_wait", "complete", "dead_letter"}
    /\ row.status = "retry_wait" => row.target = "entity_pending"

(* There is room for the operation's own write.                            *)
RoomForEffects == ~Accepted => knowledge <= MaxWrites

PlansFit == \A a \in Attempts : plan[a].epoch <= op.epoch

(* What was paid for: by one dispatch that counts, and settled only if the *)
(* provider did execute it.                                                *)
OneCounts == \A a, b \in Attempts : Counts(a) /\ Counts(b) /\ RequestOf[a] = RequestOf[b] => a = b
PaidCounts == \A r \in Requests : paid[r] = 0 \/ \E a \in Attempts : Counts(a) /\ RequestOf[a] = r
SettledIsPaid == \A a \in Attempts : dispatch[a] = "settled" => paid[RequestOf[a]] = 1

(* The writer's lease of a worker in its operation: the epoch tells its    *)
(* acquisition from every later one.                                       *)
LeaseFits(p) ==
    InOperation(p) => /\ worker[p].epoch <= op.epoch
                      /\ worker[p].epoch = op.epoch <=> op.owner = p

(* A worker reserves a request nobody paid for, buys it alone, and         *)
(* proposes what was paid for.                                             *)
PurchaseFits(p) ==
    /\ At(p, "reserve") /\ OpFence(p) =>
          \A a \in Attempts : RequestOf[a] = MyRequest(p) => ~Counts(a)
    /\ At(p, "buy") => Unresolved(Attempt(p)) /\ paid[MyRequest(p)] = 0
    /\ At(p, "save") /\ worker[p].outcome \in {"apply", "hold"} => paid[MyRequest(p)] = 1
    /\ At(p, "save") /\ OpFence(p) /\ worker[p].outcome = "reconcile" =>
          dispatch[Attempt(p)] # "settled"

OneBuys == \A p, q \in Workers : At(p, "buy") /\ At(q, "buy") => p = q

(* The plan a worker carries is the one saved, or a newer one was.         *)
CarriedFits(p) ==
    /\ At(p, "save") => worker[p].outcome \in Outcomes
    /\ worker[p].pc \in {"fresh", "commit"} =>
          /\ worker[p].plan <= worker[p].epoch
          /\ plan[Attempt(p)].epoch = worker[p].plan => plan[Attempt(p)].outcome = worker[p].outcome
    /\ At(p, "commit") => worker[p].outcome = "apply"
    /\ worker[p].pc \in {"release", "finish"} => worker[p].result # "none"
    /\ worker[p].result = "accepted" => Accepted

WorkerFits(p) == LeaseFits(p) /\ PurchaseFits(p) /\ CarriedFits(p)

LedgerInv == PlansFit /\ OneCounts /\ PaidCounts /\ SettledIsPaid

OperationInv ==
    /\ TypeOK /\ RowFits /\ RoomForEffects
    /\ LedgerInv
    /\ UnresolvedIsLatest /\ SettledHasItsAnswer /\ HeldIsNotAccepted
    /\ OneBuys /\ \A p \in Workers : WorkerFits(p)
    /\ CompleteIsAccepted
-----------------------------------------------------------------------------
LEMMA EntityStatusType ==
    {"entity_pending", "entity_leased", "retry_wait", "complete", "dead_letter"} \subseteq Status
  BY DEF Status, NormalTransitions

(* The store's updates of a row in the entity stage.                       *)
LEMMA RowType ==
    ASSUME NEW r \in Row, NEW p \in Workers
    PROVE  /\ \A status \in Status : Moved(r, status) \in Row
           /\ r.status = "entity_pending" => Claimed(r, p) \in Row
           /\ r.status = "entity_leased" => Waiting(r, 1) \in Row
           /\ Beaten(r) \in Row
<1>1. \A status \in Status : Moved(r, status) \in Row
  BY MovedRow
<1>2. r.status = "entity_pending" => Claimed(r, p) \in Row
  BY ClaimedRow DEF PendingStatus
<1>3. r.status = "entity_leased" => Waiting(r, 1) \in Row
  <2>1. 1 \in 1 .. Backoff
    BY TimesType
  <2>2. QED
    BY <2>1, WaitingRow DEF LeasedStatus
<1>4. QED
  BY <1>1, <1>2, <1>3, BeatenRow
-----------------------------------------------------------------------------
(* What a worker remembers after each of the ways to go on.                *)
LEMMA MemoryType ==
    ASSUME TypeOK, NEW p \in Workers
    PROVE  /\ Idle \in Memory
           /\ \A pc \in Pc : Goes(p, pc) => worker' \in [Workers -> Memory]
           /\ Forgets(p) => worker' \in [Workers -> Memory]
           /\ \A result \in {"accepted", "held", "error"} :
                 /\ Ends(p, result) => worker' \in [Workers -> Memory]
                 /\ Releases(p, result) => worker' \in [Workers -> Memory]
           /\ \A outcome \in Outcomes : Proposes(p, outcome) => worker' \in [Workers -> Memory]
<1>0. worker[p] \in Memory /\ worker \in [Workers -> Memory]
  BY DEF TypeOK
<1>1. Idle \in Memory
  BY BoundsAssumption DEF Idle, Memory, Pc, Attempts
<1>2. ASSUME NEW pc \in Pc, Goes(p, pc) PROVE worker' \in [Workers -> Memory]
  BY <1>0, <1>2 DEF Goes, Memory
<1>3. ASSUME Forgets(p) PROVE worker' \in [Workers -> Memory]
  BY <1>0, <1>1, <1>3 DEF Forgets
<1>4. ASSUME NEW result \in {"accepted", "held", "error"}
      PROVE  /\ Ends(p, result) => worker' \in [Workers -> Memory]
             /\ Releases(p, result) => worker' \in [Workers -> Memory]
  <2>1. [Idle EXCEPT !.pc = "finish", !.result = result, !.lost = worker[p].lost] \in Memory
    BY <1>0, <1>1 DEF Memory, Pc, Idle
  <2>2. [Idle EXCEPT !.pc = "release", !.result = result, !.lost = worker[p].lost,
                     !.epoch = worker[p].epoch] \in Memory
    BY <1>0, <1>1 DEF Memory, Pc, Idle
  <2>3. Ends(p, result) => worker' \in [Workers -> Memory]
    BY <1>0, <2>1 DEF Ends
  <2>4. Releases(p, result) => worker' \in [Workers -> Memory]
    BY <1>0, <2>2 DEF Releases
  <2>5. QED
    BY <2>3, <2>4
<1>5. ASSUME NEW outcome \in Outcomes, Proposes(p, outcome) PROVE worker' \in [Workers -> Memory]
  BY <1>0, <1>5 DEF Proposes, Memory, Pc
<1>6. QED
  BY <1>1, <1>2, <1>3, <1>4, <1>5

LEMMA RequestType == ASSUME NEW a \in Attempts PROVE RequestOf[a] \in Requests
  BY RequestAssumption

(* The steps of a worker keep the types.                                   *)
LEMMA WorkerTypeStep ==
    ASSUME OperationInv, NEW p \in Workers, WorkerStep(p) PROVE TypeOK'
<1> USE DEF OperationInv
<1>0. worker[p] \in Memory /\ Attempt(p) \in Attempts /\ op \in OpLease /\ row \in Row
  BY DEF TypeOK, Memory, Attempt
<1>1. CASE Prepare(p)
  <2>1. UNCHANGED <<row, op, plan, dispatch, latest, receipt, knowledge, paid, faults>>
    BY <1>1 DEF Prepare, store
  <2>2. [worker[p] EXCEPT !.pc = "acquire", !.attempt = knowledge] \in Memory
    BY <1>0 DEF Memory, Pc, TypeOK
  <2>3. worker' = [worker EXCEPT ![p].pc = "acquire", ![p].attempt = knowledge]
           => worker' \in [Workers -> Memory]
    BY <2>2 DEF TypeOK
  <2>4. worker' \in [Workers -> Memory]
    BY <1>1, <2>3, MemoryType DEF Prepare
  <2>5. QED
    BY <2>1, <2>4 DEF TypeOK
<1>2. CASE Acquire(p)
  <2>1. UNCHANGED <<row, plan, dispatch, latest, receipt, knowledge, paid, faults>>
    BY <1>2 DEF Acquire
  <2>2. CASE UNCHANGED op /\ (Ends(p, "accepted") \/ Ends(p, "held"))
    BY <2>1, <2>2, MemoryType DEF TypeOK
  <2>3. CASE /\ op.epoch < MaxEpoch
             /\ op' = [owner |-> p, epoch |-> op.epoch + 1, left |-> OpTtl]
             /\ worker' = [worker EXCEPT ![p].pc = "load", ![p].epoch = op.epoch + 1]
    <3>1. op.epoch + 1 \in 0 .. MaxEpoch /\ OpTtl \in 0 .. OpTtl
      BY <1>0, <2>3, BoundsAssumption DEF OpLease
    <3>2. op' \in OpLease
      BY <2>3, <3>1 DEF OpLease
    <3>3. [worker[p] EXCEPT !.pc = "load", !.epoch = op.epoch + 1] \in Memory
      BY <1>0, <3>1 DEF Memory, Pc
    <3>4. worker' \in [Workers -> Memory]
      BY <2>3, <3>3 DEF TypeOK
    <3>5. QED
      BY <2>1, <3>2, <3>4 DEF TypeOK
  <2>4. QED
    BY <1>2, <2>2, <2>3 DEF Acquire
<1>3. CASE LoadPlan(p)
  <2>1. UNCHANGED <<row, op, plan, dispatch, latest, receipt, knowledge, paid, faults>>
    BY <1>3 DEF LoadPlan, store
  <2>2. plan[Attempt(p)] \in Plan
    BY <1>0 DEF TypeOK
  <2>3. [worker[p] EXCEPT !.pc = "fresh", !.outcome = plan[Attempt(p)].outcome,
                          !.plan = plan[Attempt(p)].epoch] \in Memory
    BY <1>0, <2>2 DEF Memory, Pc, Plan
  <2>4. worker' = [worker EXCEPT ![p].pc = "fresh", ![p].outcome = plan[Attempt(p)].outcome,
                                 ![p].plan = plan[Attempt(p)].epoch]
           => worker' \in [Workers -> Memory]
    BY <2>3 DEF TypeOK
  <2>5. worker' \in [Workers -> Memory]
    BY <1>3, <2>4, MemoryType DEF LoadPlan, Pc
  <2>6. QED
    BY <2>1, <2>5 DEF TypeOK
<1>4. CASE Propose(p)
  <2>1. UNCHANGED <<row, op, plan, dispatch, latest, receipt, knowledge, paid, faults>>
    BY <1>4 DEF Propose, store
  <2>2. ASSUME NEW a \in Recorded(RequestOf[Attempt(p)])
        PROVE  (IF dispatch[a] = "settled" /\ plan[a] # NoPlan THEN plan[a].outcome ELSE "reconcile")
                  \in Outcomes
    <3>1. a \in Attempts
      BY <2>2 DEF Recorded
    <3>2. QED
      BY <3>1 DEF Outcomes, SettledHasItsAnswer
  <2>3. worker' \in [Workers -> Memory]
    BY <1>4, <2>2, MemoryType DEF Propose, Pc
  <2>4. QED
    BY <2>1, <2>3 DEF TypeOK
<1>5. CASE Reserve(p)
  <2>1. UNCHANGED <<row, op, plan, receipt, knowledge, paid, faults>>
    BY <1>5 DEF Reserve
  <2>2. worker' \in [Workers -> Memory]
    BY <1>5, MemoryType DEF Reserve, Pc, Outcomes
  <2>3. dispatch' \in [Attempts -> DispatchState] /\ latest' \in Attempts \cup {Nothing}
    BY <1>0, <1>5 DEF Reserve, TypeOK, DispatchState
  <2>4. QED
    BY <2>1, <2>2, <2>3 DEF TypeOK
<1>6. CASE Buy(p)
  <2>1. UNCHANGED <<row, op, plan, dispatch, latest, receipt, knowledge, faults>>
    BY <1>6 DEF Buy, store
  <2>2. worker' \in [Workers -> Memory]
    BY <1>6, MemoryType DEF Buy, Outcomes
  <2>3. paid' \in [Requests -> 0 .. 2]
    BY <1>0, <1>6, RequestType DEF Buy, TypeOK
  <2>4. QED
    BY <2>1, <2>2, <2>3 DEF TypeOK
<1>7. CASE SavePlan(p)
  <2> DEFINE a == Attempt(p)
  <2> DEFINE mine == worker[p].outcome
  <2>1. UNCHANGED <<row, op, latest, receipt, knowledge, paid, faults>>
    BY <1>7 DEF SavePlan
  <2>2. mine \in Outcomes
    BY <1>7 DEF SavePlan, WorkerFits, CarriedFits
  <2>3. CASE UNCHANGED <<plan, dispatch>>
    <3>1. [worker[p] EXCEPT !.pc = "hold", !.outcome = "none"] \in Memory
      BY <1>0 DEF Memory, Pc
    <3>2. \A e \in 0 .. MaxEpoch : [worker[p] EXCEPT !.pc = "fresh", !.plan = e] \in Memory
      BY <1>0 DEF Memory, Pc
    <3>3. plan[a].epoch \in 0 .. MaxEpoch /\ op.epoch \in 0 .. MaxEpoch
      BY <1>0 DEF TypeOK, Plan, OpLease
    <3>4. \/ Releases(p, "error") \/ Releases(p, "held")
          \/ worker' = [worker EXCEPT ![p].pc = "hold", ![p].outcome = "none"]
          \/ worker' = [worker EXCEPT ![p].pc = "fresh", ![p].plan = plan[a].epoch]
          \/ worker' = [worker EXCEPT ![p].pc = "fresh", ![p].plan = op.epoch]
      BY <1>7 DEF SavePlan
    <3>5. worker' \in [Workers -> Memory]
      <4>1. CASE Releases(p, "error") \/ Releases(p, "held")
        BY <4>1, MemoryType
      <4>2. CASE ~(Releases(p, "error") \/ Releases(p, "held"))
        BY <3>1, <3>2, <3>3, <3>4, <4>2 DEF TypeOK
      <4>3. QED
        BY <4>1, <4>2
    <3>6. QED
      BY <2>1, <2>3, <3>5 DEF TypeOK
  <2>4. CASE /\ plan' = [plan EXCEPT ![a] = [outcome |-> mine, epoch |-> op.epoch, held |-> FALSE]]
             /\ dispatch' = [dispatch EXCEPT ![a] = SettledBy(dispatch[a], mine)]
             /\ worker' = [worker EXCEPT ![p].pc = "fresh", ![p].plan = op.epoch]
    <3>1. [outcome |-> mine, epoch |-> op.epoch, held |-> FALSE] \in Plan
      BY <1>0, <2>2 DEF Plan, OpLease
    <3>2. dispatch[a] \in DispatchState /\ SettledBy(dispatch[a], mine) \in DispatchState
      BY <1>0 DEF TypeOK, SettledBy, DispatchState
    <3>3. [worker[p] EXCEPT !.pc = "fresh", !.plan = op.epoch] \in Memory
      BY <1>0 DEF Memory, Pc, OpLease
    <3>4. plan' \in [Attempts -> Plan]
      BY <2>4, <3>1 DEF TypeOK
    <3>5. dispatch' \in [Attempts -> DispatchState]
      BY <2>4, <3>2 DEF TypeOK
    <3>6. worker' \in [Workers -> Memory]
      BY <2>4, <3>3 DEF TypeOK
    <3>7. QED
      BY <2>1, <3>4, <3>5, <3>6 DEF TypeOK
  <2>5. QED
    BY <1>7, <2>3, <2>4 DEF SavePlan
<1>8. CASE CheckFreshness(p)
  <2>1. UNCHANGED <<row, op, plan, dispatch, latest, receipt, knowledge, paid, faults>>
    BY <1>8 DEF CheckFreshness, store
  <2>2. worker' \in [Workers -> Memory]
    BY <1>8, MemoryType DEF CheckFreshness, Pc
  <2>3. QED
    BY <2>1, <2>2 DEF TypeOK
<1>9. CASE Commit(p)
  <2>1. UNCHANGED <<row, op, plan, dispatch, latest, paid>>
    BY <1>9 DEF Commit
  <2>2. worker' \in [Workers -> Memory]
    BY <1>9, MemoryType DEF Commit, Pc
  <2>3. \/ UNCHANGED <<receipt, knowledge>>
        \/ ~Accepted /\ receipt' = Attempt(p) /\ knowledge' = knowledge + 1
    BY <1>9 DEF Commit
  <2>4. receipt' \in Attempts \cup {Nothing} /\ knowledge' \in Attempts
    BY <1>0, <2>3, BoundsAssumption DEF TypeOK, RoomForEffects, Attempts
  <2>5. faults' = faults \/ (faults < MaxFaults /\ faults' = faults + 1)
    BY <1>9 DEF Commit
  <2>6. faults' \in 0 .. MaxFaults
    BY <2>5, BoundsAssumption DEF TypeOK
  <2>7. QED
    BY <2>1, <2>2, <2>4, <2>6 DEF TypeOK
<1>10. CASE Hold(p)
  <2>1. UNCHANGED <<row, op, latest, receipt, knowledge, paid, faults>>
    BY <1>10 DEF Hold
  <2>2. worker' \in [Workers -> Memory]
    BY <1>10, MemoryType DEF Hold
  <2>3. CASE UNCHANGED <<plan, dispatch>>
    BY <2>1, <2>2, <2>3 DEF TypeOK
  <2>4. CASE /\ plan' = [plan EXCEPT ![Attempt(p)].held =
                            plan[Attempt(p)].held \/ (~HeldPlan(p) /\ worker[p].plan > 0)]
             /\ dispatch' = [a \in Attempts |-> IF dispatch[a] = "dispatched" THEN "held" ELSE dispatch[a]]
    <3>1. \A h \in BOOLEAN : [plan[Attempt(p)] EXCEPT !.held = h] \in Plan
      BY <1>0 DEF TypeOK, Plan
    <3> DEFINE held == plan[Attempt(p)].held \/ (~HeldPlan(p) /\ worker[p].plan > 0)
    <3>2. held \in BOOLEAN
      OBVIOUS
    <3>3. plan' = [plan EXCEPT ![Attempt(p)].held = held]
      BY <2>4
    <3> HIDE DEF held
    <3>4. plan' \in [Attempts -> Plan]
      BY <3>1, <3>2, <3>3 DEF TypeOK
    <3>5. dispatch' \in [Attempts -> DispatchState]
      BY <2>4 DEF TypeOK, DispatchState
    <3>6. QED
      BY <2>1, <2>2, <3>4, <3>5 DEF TypeOK
  <2>5. QED
    BY <1>10, <2>3, <2>4 DEF Hold
<1>11. CASE ReleaseOp(p)
  <2>1. UNCHANGED <<row, plan, dispatch, latest, receipt, knowledge, paid>>
    BY <1>11 DEF ReleaseOp
  <2>2. op' \in OpLease
    BY <1>0, <1>11, BoundsAssumption DEF ReleaseOp, OpLease
  <2>3. [Idle EXCEPT !.pc = "finish", !.result = worker[p].result, !.lost = worker[p].lost] \in Memory
    BY <1>0, MemoryType DEF Memory, Pc, Idle
  <2>4. worker' \in [Workers -> Memory]
    BY <1>11, <2>3 DEF ReleaseOp, Ends, TypeOK
  <2>5. faults' = faults \/ (faults < MaxFaults /\ faults' = faults + 1)
    BY <1>11 DEF ReleaseOp
  <2>6. faults' \in 0 .. MaxFaults
    BY <2>5, BoundsAssumption DEF TypeOK
  <2>7. QED
    BY <2>1, <2>2, <2>4, <2>6 DEF TypeOK
<1>12. CASE FinishRow(p)
  <2>1. UNCHANGED <<op, plan, dispatch, latest, receipt, knowledge, paid, faults>>
    BY <1>12 DEF FinishRow, store
  <2>2. worker' \in [Workers -> Memory]
    BY <1>12, MemoryType DEF FinishRow
  <2>3. CASE row' = row
    BY <2>1, <2>2, <2>3 DEF TypeOK
  <2>4. CASE row.status = "entity_leased" /\ row' = RowAfter(p)
    <3>1. worker[p].result \in {"accepted", "held", "error"}
      BY <1>0, <1>12 DEF FinishRow, At, Memory, WorkerFits, CarriedFits
    <3>2. RowAfter(p) \in {Moved(row, "complete"), Waiting(row, 1), Moved(row, "dead_letter")}
      BY <3>1 DEF RowAfter
    <3>3. RowAfter(p) \in Row
      BY <1>0, <2>4, <3>2, RowType, EntityStatusType
    <3>4. QED
      BY <2>1, <2>2, <2>4, <3>3 DEF TypeOK
  <2>5. QED
    BY <1>12, <2>3, <2>4 DEF FinishRow, Fence
<1>13. QED
  BY <1>1, <1>2, <1>3, <1>4, <1>5, <1>6, <1>7, <1>8, <1>9, <1>10, <1>11, <1>12 DEF WorkerStep

(* And so do all others.                                                   *)
LEMMA TypeStep == OperationInv /\ [Next]_vars => TypeOK'
<1> SUFFICES ASSUME OperationInv, [Next]_vars PROVE TypeOK'
  OBVIOUS
<1> USE DEF OperationInv
<1>0. row \in Row /\ op \in OpLease /\ faults \in 0 .. MaxFaults
  BY DEF TypeOK
<1>1. CASE UNCHANGED vars
  BY <1>1 DEF vars, TypeOK
<1>2. ASSUME NEW p \in Workers, ClaimRow(p) PROVE TypeOK'
  <2>1. UNCHANGED <<op, plan, dispatch, latest, receipt, knowledge, paid, faults>>
    BY <1>2 DEF ClaimRow, store
  <2>2. row' \in Row
    BY <1>0, <1>2, RowType DEF ClaimRow
  <2>3. worker' \in [Workers -> Memory]
    BY <1>2, MemoryType DEF ClaimRow, Pc
  <2>4. QED
    BY <2>1, <2>2, <2>3 DEF TypeOK
<1>3. ASSUME NEW p \in Workers, BeatRow(p) PROVE TypeOK'
  <2>1. UNCHANGED <<op, plan, dispatch, latest, receipt, knowledge, paid>>
    BY <1>3 DEF BeatRow, store
  <2>2. row' \in Row
    BY <1>0, <1>3, RowType DEF BeatRow
  <2>3. [worker[p] EXCEPT !.lost = TRUE] \in Memory
    BY DEF TypeOK, Memory
  <2>4. worker' \in [Workers -> Memory]
    BY <1>3, <2>3 DEF BeatRow, TypeOK
  <2>5. faults' = faults \/ (faults < MaxFaults /\ faults' = faults + 1)
    BY <1>3 DEF BeatRow
  <2>6. faults' \in 0 .. MaxFaults
    BY <1>0, <2>5, BoundsAssumption
  <2>7. QED
    BY <2>1, <2>2, <2>4, <2>6 DEF TypeOK
<1>4. ASSUME NEW p \in Workers, RenewOp(p) PROVE TypeOK'
  BY <1>0, <1>4, BoundsAssumption DEF RenewOp, TypeOK, OpLease
<1>5. ASSUME NEW p \in Workers, StorageFails(p) \/ Crash(p) PROVE TypeOK'
  <2>1. UNCHANGED <<row, op, plan, dispatch, latest, receipt, knowledge, paid>>
    BY <1>5 DEF StorageFails, Crash, store
  <2>2. worker' \in [Workers -> Memory]
    BY <1>5, MemoryType DEF StorageFails, Crash
  <2>3. faults' \in 0 .. MaxFaults
    BY <1>0, <1>5, BoundsAssumption DEF StorageFails, Crash
  <2>4. QED
    BY <2>1, <2>2, <2>3 DEF TypeOK
<1>6. ASSUME NEW a \in Attempts, ResolveDispatch(a) PROVE TypeOK'
  BY <1>6 DEF ResolveDispatch, TypeOK, DispatchState
<1>7. CASE RecoverRow
  <2>1. UNCHANGED <<op, plan, dispatch, latest, receipt, knowledge, paid, worker, faults>>
    BY <1>7 DEF RecoverRow, store
  <2>2. Recovered(row, FALSE) = Moved(row, "entity_pending")
    BY <1>7 DEF RecoverRow, Recovered, LeaseExpired, RetryDue, Leased, LeasedStatus,
                PendingStatusFor, RowFits
  <2>3. row' = Moved(row, "entity_pending")
    BY <1>7, <2>2 DEF RecoverRow
  <2>4. row' \in Row
    BY <1>0, <2>3, MovedRow, EntityStatusType
  <2>5. QED
    BY <2>1, <2>4 DEF TypeOK
<1>8. CASE OtherWrites
  BY <1>8, BoundsAssumption DEF OtherWrites, TypeOK, Attempts
<1>9. CASE Tick
  <2>1. UNCHANGED <<plan, dispatch, latest, receipt, knowledge, paid, worker, faults>>
    BY <1>9 DEF Tick
  <2>2. row' \in Row
    BY <1>0, <1>9, AgedRow DEF Tick
  <2>3. op' \in OpLease
    <3>1. Max({op.left, 1}) - 1 \in 0 .. OpTtl
      BY <1>0, BoundsAssumption, CountsDown DEF OpLease
    <3>2. QED
      BY <1>0, <1>9, <3>1 DEF Tick, OpLease
  <2>4. QED
    BY <2>1, <2>2, <2>3 DEF TypeOK
<1>10. CASE SweepRow
  <2>1. UNCHANGED <<op, plan, dispatch, latest, receipt, knowledge, paid, worker, faults>>
    BY <1>10 DEF SweepRow, store
  <2>2. row' \in Row
    BY <1>0, <1>10, SweptRow DEF SweepRow, LeaseExpired, Leased
  <2>3. QED
    BY <2>1, <2>2 DEF TypeOK
<1>11. QED
  BY <1>1, <1>2, <1>3, <1>4, <1>5, <1>6, <1>7, <1>8, <1>9, <1>10, WorkerTypeStep DEF Next
-----------------------------------------------------------------------------
(* A step of one worker that touches nothing in Postgres and buys nothing. *)
LEMMA QuietStep ==
    ASSUME OperationInv, TypeOK', NEW p \in Workers,
           UNCHANGED <<op, plan, dispatch, latest, receipt, knowledge, paid>>,
           \A q \in Workers \ {p} : worker'[q] = worker[q],
           WorkerFits(p)', At(p, "buy")' => At(p, "buy"), RowFits', CompleteIsAccepted'
    PROVE  OperationInv'
<1> USE DEF OperationInv
<1>1. RoomForEffects' /\ LedgerInv' /\ UnresolvedIsLatest' /\ SettledHasItsAnswer' /\ HeldIsNotAccepted'
  BY DEF RoomForEffects, LedgerInv, PlansFit, OneCounts, PaidCounts, SettledIsPaid, Counts,
         UnresolvedIsLatest, Unresolved, SettledHasItsAnswer, HeldIsNotAccepted, Accepted
<1>2. OneBuys'
  BY DEF OneBuys, At
<1>3. ASSUME NEW q \in Workers \ {p} PROVE WorkerFits(q)'
  <2>1. worker'[q] = worker[q] /\ WorkerFits(q)
    OBVIOUS
  <2>2. LeaseFits(q)'
    BY <2>1 DEF WorkerFits, LeaseFits, InOperation
  <2>3. PurchaseFits(q)'
    BY <2>1 DEF WorkerFits, PurchaseFits, At, OpFence, OpLive, Counts, MyRequest, Attempt, Unresolved
  <2>4. CarriedFits(q)'
    BY <2>1 DEF WorkerFits, CarriedFits, At, Attempt, Accepted
  <2>5. QED
    BY <2>2, <2>3, <2>4 DEF WorkerFits
<1>4. QED
  BY <1>1, <1>2, <1>3

(* A worker that is not, or no longer, in the operation remembers nothing  *)
(* that could be untrue but its result.                                    *)
LEMMA OutsideFits ==
    ASSUME NEW p \in Workers,
           worker'[p].pc \in {"idle", "claimed", "acquire", "release", "finish"},
           worker'[p].pc \in {"release", "finish"} => worker'[p].result # "none",
           worker'[p].result = "accepted" => Accepted'
    PROVE  WorkerFits(p)' /\ ~At(p, "buy")'
  BY DEF WorkerFits, LeaseFits, PurchaseFits, CarriedFits, InOperation, At

LEMMA Leaves ==
    ASSUME TypeOK, NEW p \in Workers, NEW result \in {"accepted", "held", "error"},
           Ends(p, result) \/ Releases(p, result), result = "accepted" => Accepted'
    PROVE  /\ WorkerFits(p)' /\ ~At(p, "buy")'
           /\ \A q \in Workers \ {p} : worker'[q] = worker[q]
<1>1. /\ worker'[p].pc \in {"release", "finish"} /\ worker'[p].result = result
      /\ \A q \in Workers \ {p} : worker'[q] = worker[q]
  BY DEF Ends, Releases, TypeOK, Idle
<1>2. QED
  BY <1>1, OutsideFits

LEMMA Forgotten ==
    ASSUME TypeOK, NEW p \in Workers, Forgets(p)
    PROVE  /\ WorkerFits(p)' /\ ~At(p, "buy")'
           /\ \A q \in Workers \ {p} : worker'[q] = worker[q]
<1>1. /\ worker'[p].pc = "idle" /\ worker'[p].result = "none"
      /\ \A q \in Workers \ {p} : worker'[q] = worker[q]
  BY DEF Forgets, TypeOK, Idle
<1>2. QED
  BY <1>1, OutsideFits

(* A worker that ends, gives up or forgets, with nothing else changed.     *)
LEMMA LeavingStep ==
    ASSUME OperationInv, TypeOK', NEW p \in Workers,
           UNCHANGED <<row, op, plan, dispatch, latest, receipt, knowledge, paid>>,
           \/ Forgets(p)
           \/ \E result \in {"accepted", "held", "error"} :
                 /\ Ends(p, result) \/ Releases(p, result)
                 /\ result = "accepted" => Accepted
    PROVE  OperationInv'
<1>1. Accepted' = Accepted /\ RowFits' /\ CompleteIsAccepted'
  BY DEF Accepted, RowFits, CompleteIsAccepted, OperationInv
<1>2. /\ WorkerFits(p)' /\ ~At(p, "buy")'
      /\ \A q \in Workers \ {p} : worker'[q] = worker[q]
  BY <1>1, Leaves, Forgotten DEF OperationInv
<1>3. QED
  BY <1>1, <1>2, QuietStep

(* The dispatches that count are all found by findRecordedPlanningRequest. *)
LEMMA CountedIsRecorded ==
    ASSUME OperationInv, NEW a \in Attempts, Counts(a) PROVE a \in Recorded(RequestOf[a])
<1>1. dispatch[a] \in DispatchState
  BY DEF OperationInv, TypeOK
<1>2. CASE Unresolved(a)
  BY <1>2 DEF OperationInv, UnresolvedIsLatest, Recorded, Known, Counts
<1>3. CASE dispatch[a] = "settled"
  BY <1>3 DEF OperationInv, SettledHasItsAnswer, Recorded, Known, Counts, NoPlan
<1>4. QED
  BY <1>1, <1>2, <1>3 DEF Counts, Unresolved, DispatchState

(* The steps of a worker that change no row in Postgres: all but its       *)
(* writes.                                                                 *)
LEMMA ReadingStep ==
    ASSUME OperationInv, TypeOK', NEW p \in Workers,
           \/ Prepare(p) \/ LoadPlan(p) \/ Propose(p) \/ CheckFreshness(p)
    PROVE  OperationInv'
<1>0. /\ UNCHANGED <<row, op, plan, dispatch, latest, receipt, knowledge, paid>>
      /\ RowFits' /\ CompleteIsAccepted'
  BY DEF Prepare, LoadPlan, Propose, CheckFreshness, store, RowFits, CompleteIsAccepted, Accepted,
         OperationInv
<1>1. worker \in [Workers -> Memory] /\ WorkerFits(p) /\ Attempt(p) \in Attempts
  BY DEF OperationInv, TypeOK, Memory, Attempt
<1>2. CASE Prepare(p)
  <2>1. CASE \/ Forgets(p)
             \/ \E result \in {"accepted", "held", "error"} :
                  (Ends(p, result) \/ Releases(p, result)) /\ (result = "accepted" => Accepted)
    BY <1>0, <2>1, LeavingStep
  <2>2. CASE worker' = [worker EXCEPT ![p].pc = "acquire", ![p].attempt = knowledge]
    <3>1. /\ worker'[p].pc = "acquire" /\ worker'[p].result = worker[p].result
          /\ \A q \in Workers \ {p} : worker'[q] = worker[q]
      BY <1>1, <2>2 DEF Memory
    <3>2. WorkerFits(p)' /\ ~At(p, "buy")'
      BY <1>0, <1>1, <3>1, OutsideFits DEF WorkerFits, CarriedFits, Accepted
    <3>3. QED
      BY <1>0, <3>1, <3>2, QuietStep
  <2>3. QED
    BY <1>2, <2>1, <2>2 DEF Prepare
<1>3. CASE LoadPlan(p)
  <2>1. CASE \E result \in {"accepted", "held", "error"} :
                  (Ends(p, result) \/ Releases(p, result)) /\ (result = "accepted" => Accepted)
    BY <1>0, <2>1, LeavingStep
  <2>2. CASE OpFence(p) /\ worker' = [worker EXCEPT ![p].pc = "fresh",
                   ![p].outcome = plan[Attempt(p)].outcome, ![p].plan = plan[Attempt(p)].epoch]
    <3>1. /\ worker'[p] = [worker[p] EXCEPT !.pc = "fresh",
                   !.outcome = plan[Attempt(p)].outcome, !.plan = plan[Attempt(p)].epoch]
          /\ \A q \in Workers \ {p} : worker'[q] = worker[q]
      BY <1>1, <2>2 DEF Memory
    <3>2. /\ worker'[p].pc = "fresh" /\ worker'[p].attempt = worker[p].attempt
          /\ worker'[p].outcome = plan[Attempt(p)].outcome /\ worker'[p].plan = plan[Attempt(p)].epoch
          /\ worker'[p].epoch = worker[p].epoch /\ worker'[p].result = worker[p].result
      BY <1>1, <3>1 DEF Memory
    <3>3. worker[p].epoch = op.epoch /\ plan[Attempt(p)].epoch <= op.epoch
      BY <1>1, <2>2 DEF OpFence, OperationInv, LedgerInv, PlansFit
    <3>4. LeaseFits(p)'
      BY <1>0, <1>1, <1>3, <3>2 DEF LoadPlan, At, WorkerFits, LeaseFits, InOperation
    <3>5. PurchaseFits(p)' /\ ~At(p, "buy")'
      BY <3>2 DEF PurchaseFits, At
    <3>6. CarriedFits(p)'
      BY <1>0, <1>1, <3>2, <3>3 DEF WorkerFits, CarriedFits, At, Attempt, Accepted
    <3>7. QED
      BY <1>0, <3>1, <3>4, <3>5, <3>6, QuietStep DEF WorkerFits
  <2>3. CASE Goes(p, "propose") \/ Goes(p, "hold")
    <3>1. /\ worker'[p].pc \in {"propose", "hold"}
          /\ worker'[p].epoch = worker[p].epoch /\ worker'[p].result = worker[p].result
          /\ \A q \in Workers \ {p} : worker'[q] = worker[q]
      BY <1>1, <2>3 DEF Goes, Memory
    <3>2. LeaseFits(p)'
      BY <1>0, <1>1, <1>3, <3>1 DEF LoadPlan, At, WorkerFits, LeaseFits, InOperation
    <3>3. PurchaseFits(p)' /\ CarriedFits(p)' /\ ~At(p, "buy")'
      BY <1>0, <1>1, <3>1 DEF PurchaseFits, WorkerFits, CarriedFits, At, Accepted
    <3>4. QED
      BY <1>0, <3>1, <3>2, <3>3, QuietStep DEF WorkerFits
  <2>4. QED
    BY <1>3, <2>1, <2>2, <2>3 DEF LoadPlan
<1>4. CASE Propose(p)
  <2>1. CASE \E result \in {"accepted", "held", "error"} :
                  (Ends(p, result) \/ Releases(p, result)) /\ (result = "accepted" => Accepted)
    BY <1>0, <2>1, LeavingStep
  <2>2. CASE Recorded(RequestOf[Attempt(p)]) = {} /\ Goes(p, "reserve")
    <3>1. /\ worker'[p].pc = "reserve" /\ worker'[p].attempt = worker[p].attempt
          /\ worker'[p].epoch = worker[p].epoch /\ worker'[p].result = worker[p].result
          /\ \A q \in Workers \ {p} : worker'[q] = worker[q]
      BY <1>1, <2>2 DEF Goes, Memory
    <3>2. \A a \in Attempts : RequestOf[a] = MyRequest(p) => ~Counts(a)
      BY <2>2, CountedIsRecorded DEF MyRequest
    <3>3. LeaseFits(p)'
      BY <1>0, <1>1, <1>4, <3>1 DEF Propose, At, WorkerFits, LeaseFits, InOperation
    <3>4. PurchaseFits(p)' /\ ~At(p, "buy")'
      BY <1>0, <3>1, <3>2 DEF PurchaseFits, At, MyRequest, Attempt, Counts
    <3>5. CarriedFits(p)'
      BY <1>0, <1>1, <3>1 DEF WorkerFits, CarriedFits, At, Accepted
    <3>6. QED
      BY <1>0, <3>1, <3>3, <3>4, <3>5, QuietStep DEF WorkerFits
  <2>3. ASSUME NEW a \in Recorded(RequestOf[Attempt(p)]),
               Proposes(p, IF dispatch[a] = "settled" /\ plan[a] # NoPlan
                           THEN plan[a].outcome ELSE "reconcile")
        PROVE  OperationInv'
    <3> DEFINE outcome == IF dispatch[a] = "settled" /\ plan[a] # NoPlan
                          THEN plan[a].outcome ELSE "reconcile"
    <3>1. /\ worker'[p].pc = "save" /\ worker'[p].attempt = worker[p].attempt
          /\ worker'[p].outcome = outcome
          /\ worker'[p].epoch = worker[p].epoch /\ worker'[p].result = worker[p].result
          /\ \A q \in Workers \ {p} : worker'[q] = worker[q]
      BY <1>1, <2>3 DEF Proposes, Memory
    <3>2. a \in Attempts /\ RequestOf[a] = MyRequest(p) /\ Counts(a)
      BY <2>3 DEF Recorded, MyRequest, Counts
    <3>3. dispatch[a] = "settled" => plan[a] # NoPlan /\ plan[a].outcome \in {"apply", "hold"}
                                     /\ paid[MyRequest(p)] = 1
      BY <3>2 DEF OperationInv, SettledHasItsAnswer, LedgerInv, SettledIsPaid, NoPlan
    <3>4. outcome \in Outcomes /\ (outcome # "reconcile" => paid[MyRequest(p)] = 1)
      BY <3>3 DEF Outcomes
    <3>5. outcome = "reconcile" => dispatch[Attempt(p)] # "settled"
      <4> SUFFICES ASSUME outcome = "reconcile", dispatch[Attempt(p)] = "settled" PROVE FALSE
        OBVIOUS
      <4>1. Counts(Attempt(p)) /\ RequestOf[Attempt(p)] = MyRequest(p)
        BY DEF Counts, MyRequest
      <4>2. a = Attempt(p)
        BY <1>1, <3>2, <4>1 DEF OperationInv, LedgerInv, OneCounts
      <4>3. QED
        BY <3>3, <4>2
    <3> HIDE DEF outcome
    <3>6. LeaseFits(p)'
      BY <1>0, <1>1, <1>4, <3>1 DEF Propose, At, WorkerFits, LeaseFits, InOperation
    <3>7. PurchaseFits(p)' /\ ~At(p, "buy")'
      BY <1>0, <3>1, <3>4, <3>5 DEF PurchaseFits, At, MyRequest, Attempt
    <3>8. CarriedFits(p)'
      BY <1>0, <1>1, <3>1, <3>4 DEF WorkerFits, CarriedFits, At, Accepted
    <3>9. QED
      BY <1>0, <3>1, <3>6, <3>7, <3>8, QuietStep DEF WorkerFits
  <2>4. QED
    BY <1>4, <2>1, <2>2, <2>3 DEF Propose
<1>5. CASE CheckFreshness(p)
  <2>1. CASE \E result \in {"accepted", "held", "error"} :
                  (Ends(p, result) \/ Releases(p, result)) /\ (result = "accepted" => Accepted)
    BY <1>0, <2>1, LeavingStep
  <2>2. CASE (Commits(p) /\ Goes(p, "commit")) \/ Goes(p, "hold")
    <3>1. /\ worker'[p].pc \in {"commit", "hold"} /\ worker'[p].attempt = worker[p].attempt
          /\ worker'[p].pc = "commit" => worker[p].outcome = "apply"
          /\ worker'[p].epoch = worker[p].epoch /\ worker'[p].result = worker[p].result
          /\ worker'[p].plan = worker[p].plan /\ worker'[p].outcome = worker[p].outcome
          /\ \A q \in Workers \ {p} : worker'[q] = worker[q]
      BY <1>1, <2>2 DEF Goes, Memory, Commits
    <3>2. LeaseFits(p)'
      BY <1>0, <1>1, <1>5, <3>1 DEF CheckFreshness, At, WorkerFits, LeaseFits, InOperation
    <3>3. PurchaseFits(p)' /\ ~At(p, "buy")'
      BY <3>1 DEF PurchaseFits, At
    <3>4. CarriedFits(p)'
      BY <1>0, <1>1, <1>5, <3>1 DEF CheckFreshness, WorkerFits, CarriedFits, At, Attempt, Accepted
    <3>5. QED
      BY <1>0, <3>1, <3>2, <3>3, <3>4, QuietStep DEF WorkerFits
  <2>3. QED
    BY <1>5, <2>1, <2>2 DEF CheckFreshness
<1>6. QED
  BY <1>2, <1>3, <1>4, <1>5

(* The steps on the row, and the ways a worker is thrown out.              *)
LEMMA RowStep ==
    ASSUME OperationInv, TypeOK', NEW p \in Workers,
           \/ ClaimRow(p) \/ FinishRow(p) \/ BeatRow(p) \/ StorageFails(p) \/ Crash(p)
    PROVE  OperationInv'
<1>0. /\ UNCHANGED <<op, plan, dispatch, latest, receipt, knowledge, paid>>
      /\ Accepted' = Accepted
  BY DEF ClaimRow, FinishRow, BeatRow, StorageFails, Crash, store, Accepted
<1>1. /\ worker \in [Workers -> Memory] /\ WorkerFits(p) /\ row \in Row
      /\ RowFits /\ CompleteIsAccepted /\ OneBuys
  BY DEF OperationInv, TypeOK
<1>2. CASE ClaimRow(p)
  <2>1. row' = Claimed(row, p) /\ row.status = "entity_pending"
    BY <1>2 DEF ClaimRow
  <2>2. row'.status = "entity_leased"
    BY <1>1, <2>1 DEF Claimed, LeasedStatusFor, Row
  <2>3. /\ worker'[p].pc = "claimed" /\ worker'[p].result = worker[p].result
        /\ \A q \in Workers \ {p} : worker'[q] = worker[q]
    BY <1>1, <1>2 DEF ClaimRow, Goes, Memory
  <2>4. WorkerFits(p)' /\ ~At(p, "buy")'
    BY <1>0, <1>1, <2>3, OutsideFits DEF WorkerFits, CarriedFits
  <2>5. RowFits' /\ CompleteIsAccepted'
    BY <2>2 DEF RowFits, CompleteIsAccepted
  <2>6. QED
    BY <1>0, <2>3, <2>4, <2>5, QuietStep
<1>3. CASE FinishRow(p)
  <2>1. /\ WorkerFits(p)' /\ ~At(p, "buy")'
        /\ \A q \in Workers \ {p} : worker'[q] = worker[q]
    BY <1>3, Forgotten DEF FinishRow, OperationInv
  <2>2. CASE row' = row
    BY <1>0, <1>1, <2>1, <2>2, QuietStep DEF RowFits, CompleteIsAccepted
  <2>3. CASE row.status = "entity_leased" /\ row' = RowAfter(p)
    <3>1. worker[p].result \in {"accepted", "held", "error"}
      BY <1>1, <1>3 DEF FinishRow, At, Memory, WorkerFits, CarriedFits
    <3>2. \/ row' = Moved(row, "complete") /\ Accepted
          \/ row' = Waiting(row, 1) \/ row' = Moved(row, "dead_letter")
      BY <1>1, <2>3, <3>1 DEF RowAfter, WorkerFits, CarriedFits
    <3>3. PendingStatusFor[row.status] = "entity_pending"
      BY <2>3 DEF PendingStatusFor
    <3>4. /\ Moved(row, "complete").status = "complete"
          /\ Moved(row, "dead_letter").status = "dead_letter"
      BY <1>1 DEF Moved, Unleased, Row
    <3>5. Waiting(row, 1).status = "retry_wait" /\ Waiting(row, 1).target = "entity_pending"
      <4> DEFINE u == Unleased(row, "retry_wait")
      <4>1. u \in Row /\ u.status = "retry_wait"
        BY <1>1, MovedRow, EntityStatusType DEF Moved, Unleased, Row
      <4> HIDE DEF u
      <4>2. [u EXCEPT !.wait = 1, !.target = "entity_pending"].status = "retry_wait"
        BY <4>1 DEF Row
      <4>3. [u EXCEPT !.wait = 1, !.target = "entity_pending"].target = "entity_pending"
        BY <4>1 DEF Row
      <4>4. QED
        BY <3>3, <4>2, <4>3 DEF Waiting, u
    <3>6. RowFits' /\ CompleteIsAccepted'
      BY <1>0, <3>2, <3>4, <3>5 DEF RowFits, CompleteIsAccepted
    <3>7. QED
      BY <1>0, <2>1, <3>6, QuietStep
  <2>4. QED
    BY <1>3, <2>2, <2>3 DEF FinishRow, Fence
<1>4. CASE BeatRow(p)
  <2>1. /\ worker'[p].pc = worker[p].pc /\ worker'[p].attempt = worker[p].attempt
        /\ worker'[p].epoch = worker[p].epoch /\ worker'[p].result = worker[p].result
        /\ worker'[p].plan = worker[p].plan /\ worker'[p].outcome = worker[p].outcome
        /\ \A q \in Workers \ {p} : worker'[q] = worker[q]
    BY <1>1, <1>4 DEF BeatRow, Memory
  <2>2. RowFits' /\ CompleteIsAccepted'
    <3>1. Beaten(row).status = row.status /\ Beaten(row).target = row.target
      BY <1>1 DEF Beaten, Row
    <3>2. QED
      BY <1>0, <1>1, <1>4, <3>1 DEF BeatRow, RowFits, CompleteIsAccepted
  <2>3. LeaseFits(p)'
    BY <1>0, <1>1, <2>1 DEF WorkerFits, LeaseFits, InOperation
  <2>4. PurchaseFits(p)'
    BY <1>0, <1>1, <2>1 DEF WorkerFits, PurchaseFits, At, OpFence, OpLive, Counts, MyRequest, Attempt,
                            Unresolved
  <2>5. CarriedFits(p)'
    BY <1>0, <1>1, <2>1 DEF WorkerFits, CarriedFits, At, Attempt
  <2>6. QED
    BY <1>0, <2>1, <2>2, <2>3, <2>4, <2>5, QuietStep DEF WorkerFits, At
<1>5. CASE StorageFails(p) \/ Crash(p)
  <2>1. \/ Forgets(p)
        \/ \E result \in {"accepted", "held", "error"} :
             (Ends(p, result) \/ Releases(p, result)) /\ (result = "accepted" => Accepted)
    BY <1>5 DEF StorageFails, Crash
  <2>2. UNCHANGED row
    BY <1>5 DEF StorageFails, Crash
  <2>3. QED
    BY <1>0, <2>1, <2>2, LeavingStep
<1>6. QED
  BY <1>2, <1>3, <1>4, <1>5
(* The writer's lease: an acquisition, a renewal, a release or a tick.     *)
(* Nobody but the one who acquires gains a fence.                          *)
LEMMA LeaseStep ==
    ASSUME OperationInv, TypeOK', RowFits', CompleteIsAccepted',
           UNCHANGED <<plan, dispatch, latest, receipt, knowledge, paid>>,
           op.epoch <= op'.epoch,
           \A q \in Workers : \/ WorkerFits(q)' /\ ~At(q, "buy")'
                             \/ /\ worker'[q] = worker[q]
                                /\ LeaseFits(q)'
                                /\ OpFence(q)' => OpFence(q)
    PROVE  OperationInv'
<1> USE DEF OperationInv
<1>1. PlansFit'
  BY DEF LedgerInv, PlansFit, TypeOK, OpLease, Plan
<1>2. /\ RoomForEffects' /\ OneCounts' /\ PaidCounts' /\ SettledIsPaid'
      /\ UnresolvedIsLatest' /\ SettledHasItsAnswer' /\ HeldIsNotAccepted'
  BY DEF RoomForEffects, LedgerInv, OneCounts, PaidCounts, SettledIsPaid, Counts,
         UnresolvedIsLatest, Unresolved, SettledHasItsAnswer, HeldIsNotAccepted, Accepted
<1>3. ASSUME NEW q \in Workers PROVE WorkerFits(q)'
  <2> SUFFICES ASSUME worker'[q] = worker[q], LeaseFits(q)', OpFence(q)' => OpFence(q)
               PROVE  PurchaseFits(q)' /\ CarriedFits(q)'
    BY DEF WorkerFits
  <2>1. PurchaseFits(q)'
    BY DEF WorkerFits, PurchaseFits, At, Counts, MyRequest, Attempt, Unresolved
  <2>2. CarriedFits(q)'
    BY DEF WorkerFits, CarriedFits, At, Attempt, Accepted
  <2>3. QED
    BY <2>1, <2>2
<1>4. OneBuys'
  BY DEF OneBuys, At
<1>5. QED
  BY <1>1, <1>2, <1>3, <1>4 DEF LedgerInv

LEMMA AcquireStep ==
    ASSUME OperationInv, TypeOK', NEW p \in Workers, Acquire(p) PROVE OperationInv'
<1>0. /\ UNCHANGED <<row, plan, dispatch, latest, receipt, knowledge, paid>>
      /\ RowFits' /\ CompleteIsAccepted'
      /\ worker \in [Workers -> Memory] /\ op \in OpLease
      /\ \A q \in Workers : WorkerFits(q)
  BY DEF Acquire, RowFits, CompleteIsAccepted, Accepted, OperationInv, TypeOK
<1>1. CASE /\ UNCHANGED op
           /\ \E result \in {"accepted", "held", "error"} :
                 (Ends(p, result) \/ Releases(p, result)) /\ (result = "accepted" => Accepted)
  BY <1>0, <1>1, LeavingStep
<1>2. CASE /\ ~OpLive /\ op.epoch < MaxEpoch
           /\ op' = [owner |-> p, epoch |-> op.epoch + 1, left |-> OpTtl]
           /\ worker' = [worker EXCEPT ![p].pc = "load", ![p].epoch = op.epoch + 1]
  <2>1. op.epoch \in Nat /\ op'.epoch = op.epoch + 1 /\ op'.owner = p
    BY <1>0, <1>2 DEF OpLease
  <2>2. /\ worker'[p].pc = "load" /\ worker'[p].epoch = op.epoch + 1
        /\ worker'[p].result = worker[p].result
        /\ \A q \in Workers \ {p} : worker'[q] = worker[q]
    BY <1>0, <1>2 DEF Memory
  <2>3. WorkerFits(p)' /\ ~At(p, "buy")'
    BY <1>0, <2>1, <2>2 DEF WorkerFits, LeaseFits, PurchaseFits, CarriedFits, At, Accepted
  <2>4. ASSUME NEW q \in Workers \ {p}
        PROVE  worker'[q] = worker[q] /\ LeaseFits(q)' /\ ~OpFence(q)'
    <3>1. LeaseFits(q) /\ worker[q].epoch \in Nat
      BY <1>0 DEF WorkerFits, Memory
    <3>2. QED
      BY <2>1, <2>2, <3>1 DEF LeaseFits, InOperation, OpFence
  <2>5. QED
    BY <1>0, <2>1, <2>3, <2>4, LeaseStep
<1>3. QED
  BY <1>1, <1>2 DEF Acquire

LEMMA ReleaseStep ==
    ASSUME OperationInv, TypeOK', NEW p \in Workers, ReleaseOp(p) PROVE OperationInv'
<1>0. /\ UNCHANGED <<row, plan, dispatch, latest, receipt, knowledge, paid>>
      /\ RowFits' /\ CompleteIsAccepted' /\ Accepted' = Accepted
      /\ worker \in [Workers -> Memory] /\ op \in OpLease
      /\ \A q \in Workers : WorkerFits(q)
  BY DEF ReleaseOp, RowFits, CompleteIsAccepted, Accepted, OperationInv, TypeOK
<1>1. op'.epoch = op.epoch /\ op'.owner = op.owner /\ (op'.left = op.left \/ op'.left = 0)
  BY <1>0 DEF ReleaseOp, OpLease
<1>2. worker[p].result \in {"accepted", "held", "error"} /\ (worker[p].result = "accepted" => Accepted)
  BY <1>0 DEF ReleaseOp, At, Memory, WorkerFits, CarriedFits
<1>3. /\ WorkerFits(p)' /\ ~At(p, "buy")'
      /\ \A q \in Workers \ {p} : worker'[q] = worker[q]
  BY <1>0, <1>2, Leaves DEF ReleaseOp, OperationInv
<1>4. ASSUME NEW q \in Workers \ {p}
      PROVE  worker'[q] = worker[q] /\ LeaseFits(q)' /\ (OpFence(q)' => OpFence(q))
  BY <1>0, <1>1, <1>3 DEF WorkerFits, LeaseFits, InOperation, OpFence, OpLive
<1>5. op.epoch <= op'.epoch
  BY <1>0, <1>1 DEF OpLease
<1>6. QED
  BY <1>0, <1>3, <1>4, <1>5, LeaseStep

LEMMA ClockStep ==
    ASSUME OperationInv, TypeOK', Tick \/ \E p \in Workers : RenewOp(p) PROVE OperationInv'
<1>0. /\ UNCHANGED <<plan, dispatch, latest, receipt, knowledge, paid, worker>>
      /\ Accepted' = Accepted
      /\ row \in Row /\ op \in OpLease /\ \A q \in Workers : WorkerFits(q)
      /\ RowFits /\ CompleteIsAccepted
  BY DEF Tick, RenewOp, Accepted, OperationInv, TypeOK
<1>1. row'.status = row.status /\ row'.target = row.target
  BY <1>0 DEF Tick, RenewOp, Aged, Row
<1>2. RowFits' /\ CompleteIsAccepted'
  BY <1>0, <1>1 DEF RowFits, CompleteIsAccepted
<1>3. op'.epoch = op.epoch /\ op'.owner = op.owner
  BY <1>0 DEF Tick, RenewOp, OpLease
<1>4. op.left = 0 => op'.left <= 0
  <2>1. CASE Tick
    <3>1. op'.left = Max({op.left, 1}) - 1
      BY <1>0, <2>1 DEF Tick, OpLease
    <3>2. op.left = 0 => Max({op.left, 1}) \in {0, 1}
      BY MaxWithOne
    <3>3. QED
      BY <3>1, <3>2
  <2>2. CASE \E p \in Workers : RenewOp(p)
    BY <1>0, <2>2 DEF RenewOp, OpFence, OpLive, OpLease
  <2>3. QED
    BY <2>1, <2>2
<1>5. op'.left \in Nat /\ op.left \in Nat
  BY <1>0 DEF OperationInv, TypeOK, OpLease
<1>6. ASSUME NEW q \in Workers
      PROVE  worker'[q] = worker[q] /\ LeaseFits(q)' /\ (OpFence(q)' => OpFence(q))
  BY <1>0, <1>3, <1>4, <1>5 DEF WorkerFits, LeaseFits, InOperation, OpFence, OpLive
<1>7. op.epoch <= op'.epoch
  BY <1>0, <1>3 DEF OpLease
<1>8. QED
  BY <1>0, <1>2, <1>6, <1>7, LeaseStep

(* A reservation: under the lease nothing counts for the request, so that  *)
(* nobody paid for it, and nobody else is about to.                        *)
LEMMA ReserveStep ==
    ASSUME OperationInv, TypeOK', NEW p \in Workers, Reserve(p) PROVE OperationInv'
<1>0. /\ UNCHANGED <<row, op, plan, receipt, knowledge, paid>>
      /\ RowFits' /\ CompleteIsAccepted' /\ Accepted' = Accepted
      /\ worker \in [Workers -> Memory] /\ dispatch \in [Attempts -> DispatchState]
      /\ \A q \in Workers : WorkerFits(q)
      /\ Attempt(p) \in Attempts /\ At(p, "reserve")
  BY DEF Reserve, RowFits, CompleteIsAccepted, Accepted, OperationInv, TypeOK, Memory, Attempt
<1>1. CASE /\ UNCHANGED <<dispatch, latest>>
           /\ \E result \in {"accepted", "held", "error"} :
                 (Ends(p, result) \/ Releases(p, result)) /\ (result = "accepted" => Accepted)
  BY <1>0, <1>1, LeavingStep
<1>2. ASSUME OpLive, op.owner = p, ~(\E a \in Attempts : RequestOf[a] = MyRequest(p) /\ Counts(a)),
             UNCHANGED <<dispatch, latest>>, Proposes(p, "reconcile")
      PROVE  OperationInv'
  <2>1. /\ worker'[p].pc = "save" /\ worker'[p].attempt = worker[p].attempt
        /\ worker'[p].outcome = "reconcile"
        /\ worker'[p].epoch = worker[p].epoch /\ worker'[p].result = worker[p].result
        /\ \A q \in Workers \ {p} : worker'[q] = worker[q]
    BY <1>0, <1>2 DEF Proposes, Memory
  <2>2. dispatch[Attempt(p)] # "settled"
    BY <1>0, <1>2 DEF Counts, MyRequest
  <2>3. LeaseFits(p)'
    BY <1>0, <2>1 DEF At, WorkerFits, LeaseFits, InOperation
  <2>4. PurchaseFits(p)' /\ ~At(p, "buy")'
    BY <1>0, <1>2, <2>1, <2>2 DEF PurchaseFits, At, Attempt
  <2>5. CarriedFits(p)'
    BY <1>0, <2>1 DEF WorkerFits, CarriedFits, At, Outcomes
  <2>6. QED
    BY <1>0, <1>2, <2>1, <2>3, <2>4, <2>5, QuietStep DEF WorkerFits
<1>3. ASSUME OpLive, op.owner = p PROVE ~(\E a \in Attempts : RequestOf[a] = MyRequest(p) /\ Counts(a))
  <2>1. OpFence(p)
    BY <1>0, <1>3 DEF At, WorkerFits, LeaseFits, InOperation, OpFence
  <2>2. QED
    BY <1>0, <2>1 DEF WorkerFits, PurchaseFits
<1>4. ASSUME OpLive, op.owner = p, ~Blocked(Attempt(p)),
             dispatch' = [dispatch EXCEPT ![Attempt(p)] = "dispatched"],
             latest' = Attempt(p), Goes(p, "buy")
      PROVE  OperationInv'
  <2>1. /\ worker'[p].pc = "buy" /\ worker'[p].attempt = worker[p].attempt
        /\ worker'[p].epoch = worker[p].epoch /\ worker'[p].result = worker[p].result
        /\ \A q \in Workers \ {p} : worker'[q] = worker[q]
    BY <1>0, <1>4 DEF Goes, Memory
  <2>2. \A a \in Attempts : ~Unresolved(a)
    BY <1>4 DEF Blocked
  <2>3. \A a \in Attempts : RequestOf[a] = MyRequest(p) => ~Counts(a)
    BY <1>3, <1>4
  <2>4. \A a \in Attempts : dispatch'[a] = IF a = Attempt(p) THEN "dispatched" ELSE dispatch[a]
    BY <1>0, <1>4
  <2>5. paid[MyRequest(p)] = 0 /\ MyRequest(p) \in Requests
    BY <1>0, <2>3, RequestType DEF OperationInv, LedgerInv, PaidCounts, MyRequest
  <2>6. \A q \in Workers : ~At(q, "buy")
    BY <1>0, <2>2 DEF WorkerFits, PurchaseFits, Attempt, Memory
  <2>7. LedgerInv'
    <3>1. PlansFit' /\ SettledIsPaid'
      BY <1>0, <2>4 DEF OperationInv, LedgerInv, PlansFit, SettledIsPaid
    <3>2. OneCounts'
      BY <1>0, <2>3, <2>4 DEF OperationInv, LedgerInv, OneCounts, Counts, MyRequest
    <3>3. PaidCounts'
      BY <1>0, <2>4 DEF OperationInv, LedgerInv, PaidCounts, Counts
    <3>4. QED
      BY <3>1, <3>2, <3>3 DEF LedgerInv
  <2>8. UnresolvedIsLatest' /\ SettledHasItsAnswer' /\ HeldIsNotAccepted' /\ RoomForEffects'
    BY <1>0, <1>4, <2>2, <2>4 DEF OperationInv, UnresolvedIsLatest, Unresolved, SettledHasItsAnswer,
       HeldIsNotAccepted, RoomForEffects, Accepted
  <2>9. OneBuys'
    BY <2>1, <2>6 DEF OneBuys, At
  <2>10. WorkerFits(p)'
    <3>1. LeaseFits(p)'
      BY <1>0, <2>1 DEF At, WorkerFits, LeaseFits, InOperation
    <3>2. PurchaseFits(p)'
      BY <1>0, <2>1, <2>4, <2>5 DEF PurchaseFits, At, MyRequest, Attempt, Unresolved
    <3>3. CarriedFits(p)'
      BY <1>0, <2>1 DEF WorkerFits, CarriedFits, At
    <3>4. QED
      BY <3>1, <3>2, <3>3 DEF WorkerFits
  <2>11. ASSUME NEW q \in Workers \ {p} PROVE WorkerFits(q)'
    <3>1. worker'[q] = worker[q] /\ WorkerFits(q) /\ ~OpFence(q)' /\ ~At(q, "buy")
      BY <1>0, <1>4, <2>1, <2>6 DEF OpFence
    <3>2. LeaseFits(q)'
      BY <1>0, <3>1 DEF WorkerFits, LeaseFits, InOperation
    <3>3. PurchaseFits(q)'
      BY <1>0, <3>1 DEF WorkerFits, PurchaseFits, At, MyRequest, Attempt
    <3>4. CarriedFits(q)'
      BY <1>0, <3>1 DEF WorkerFits, CarriedFits, At, Attempt
    <3>5. QED
      BY <3>2, <3>3, <3>4 DEF WorkerFits
  <2>12. QED
    BY <1>0, <2>7, <2>8, <2>9, <2>10, <2>11 DEF OperationInv
<1>5. QED
  BY <1>1, <1>2, <1>3, <1>4 DEF Reserve

(* The purchase: its request is marked as paid, by the only one who buys.  *)
LEMMA BuyStep ==
    ASSUME OperationInv, TypeOK', NEW p \in Workers, Buy(p) PROVE OperationInv'
<1>0. /\ UNCHANGED <<row, op, plan, dispatch, latest, receipt, knowledge>>
      /\ RowFits' /\ CompleteIsAccepted' /\ Accepted' = Accepted
      /\ worker \in [Workers -> Memory] /\ paid \in [Requests -> 0 .. 2]
      /\ \A q \in Workers : WorkerFits(q)
      /\ Attempt(p) \in Attempts /\ At(p, "buy")
  BY DEF Buy, store, RowFits, CompleteIsAccepted, Accepted, OperationInv, TypeOK, Memory, Attempt
<1>1. /\ Unresolved(Attempt(p)) /\ paid[MyRequest(p)] = 0 /\ MyRequest(p) \in Requests
  BY <1>0, RequestType DEF WorkerFits, PurchaseFits, MyRequest
<1>2. PICK outcome \in Outcomes :
        /\ Proposes(p, outcome)
        /\ \/ outcome = "reconcile" /\ UNCHANGED paid
           \/ paid' = [paid EXCEPT ![MyRequest(p)] = 1]
  BY <1>1 DEF Buy, MyRequest, Outcomes
<1>3. /\ worker'[p].pc = "save" /\ worker'[p].attempt = worker[p].attempt
      /\ worker'[p].outcome = outcome
      /\ worker'[p].epoch = worker[p].epoch /\ worker'[p].result = worker[p].result
      /\ \A q \in Workers \ {p} : worker'[q] = worker[q]
  BY <1>0, <1>2 DEF Proposes, Memory
<1>4. WorkerFits(p)'
  <2>1. LeaseFits(p)'
    BY <1>0, <1>3 DEF At, WorkerFits, LeaseFits, InOperation
  <2>2. outcome # "reconcile" => paid'[MyRequest(p)] = 1
    BY <1>0, <1>1, <1>2
  <2>3. dispatch[Attempt(p)] # "settled"
    BY <1>1 DEF Unresolved
  <2>4. PurchaseFits(p)'
    BY <1>0, <1>3, <2>2, <2>3 DEF PurchaseFits, At, Attempt, MyRequest
  <2>5. CarriedFits(p)'
    BY <1>0, <1>2, <1>3 DEF WorkerFits, CarriedFits, At
  <2>6. QED
    BY <2>1, <2>4, <2>5 DEF WorkerFits
<1>5. CASE UNCHANGED paid
  <2>1. ~At(p, "buy")'
    BY <1>3 DEF At
  <2>2. QED
    BY <1>0, <1>3, <1>4, <1>5, <2>1, QuietStep
<1>6. CASE paid' = [paid EXCEPT ![MyRequest(p)] = 1]
  <2>1. \A r \in Requests : paid'[r] = IF r = MyRequest(p) THEN 1 ELSE paid[r]
    BY <1>0, <1>6
  <2>2. LedgerInv'
    <3>1. PlansFit' /\ OneCounts'
      BY <1>0 DEF OperationInv, LedgerInv, PlansFit, OneCounts, Counts
    <3>2. Counts(Attempt(p)) /\ RequestOf[Attempt(p)] = MyRequest(p)
      BY <1>1 DEF Unresolved, Counts, MyRequest
    <3>3. PaidCounts'
      BY <1>0, <2>1, <3>2 DEF OperationInv, LedgerInv, PaidCounts, Counts
    <3>4. SettledIsPaid'
      BY <1>0, <2>1, RequestType DEF OperationInv, LedgerInv, SettledIsPaid
    <3>5. QED
      BY <3>1, <3>3, <3>4 DEF LedgerInv
  <2>3. UnresolvedIsLatest' /\ SettledHasItsAnswer' /\ HeldIsNotAccepted' /\ RoomForEffects'
    BY <1>0 DEF OperationInv, UnresolvedIsLatest, Unresolved, SettledHasItsAnswer,
       HeldIsNotAccepted, RoomForEffects, Accepted
  <2>4. \A q \in Workers \ {p} : ~At(q, "buy")
    BY <1>0 DEF OperationInv, OneBuys
  <2>5. OneBuys'
    BY <1>3, <2>4 DEF OneBuys, At
  <2>6. ASSUME NEW q \in Workers \ {p} PROVE WorkerFits(q)'
    <3>1. worker'[q] = worker[q] /\ WorkerFits(q) /\ ~At(q, "buy")
      BY <1>0, <1>3, <2>4
    <3>2. LeaseFits(q)'
      BY <1>0, <3>1 DEF WorkerFits, LeaseFits, InOperation
    <3>3. Attempt(q) \in Attempts /\ MyRequest(q) \in Requests
      BY <1>0, RequestType DEF Memory, Attempt, MyRequest
    <3>4. PurchaseFits(q)'
      BY <1>0, <2>1, <3>1, <3>3 DEF WorkerFits, PurchaseFits, At, OpFence, OpLive, Counts, MyRequest,
                              Attempt
    <3>5. CarriedFits(q)'
      BY <1>0, <3>1 DEF WorkerFits, CarriedFits, At, Attempt
    <3>6. QED
      BY <3>2, <3>4, <3>5 DEF WorkerFits
  <2>7. QED
    BY <1>0, <1>4, <2>2, <2>3, <2>5, <2>6 DEF OperationInv
<1>7. QED
  BY <1>2, <1>5, <1>6

(* A plan is saved: a paid answer settles its dispatch, and no answer that *)
(* was settled is overwritten by a wait for reconciliation.                *)
LEMMA SavePlanStep ==
    ASSUME OperationInv, TypeOK', NEW p \in Workers, SavePlan(p) PROVE OperationInv'
<1> DEFINE a == Attempt(p)
<1> DEFINE mine == worker[p].outcome
<1>0. /\ UNCHANGED <<row, op, latest, receipt, knowledge, paid>>
      /\ RowFits' /\ CompleteIsAccepted' /\ Accepted' = Accepted
      /\ worker \in [Workers -> Memory] /\ op \in OpLease
      /\ plan \in [Attempts -> Plan] /\ dispatch \in [Attempts -> DispatchState]
      /\ \A q \in Workers : WorkerFits(q)
      /\ a \in Attempts /\ At(p, "save") /\ mine \in Outcomes
  BY DEF SavePlan, RowFits, CompleteIsAccepted, Accepted, OperationInv, TypeOK, Memory, Attempt,
         WorkerFits, CarriedFits
<1>1. CASE /\ UNCHANGED <<plan, dispatch>>
           /\ \E result \in {"accepted", "held", "error"} :
                 (Ends(p, result) \/ Releases(p, result)) /\ (result = "accepted" => Accepted)
  BY <1>0, <1>1, LeavingStep
<1>2. CASE /\ UNCHANGED <<plan, dispatch>>
           /\ worker' = [worker EXCEPT ![p].pc = "hold", ![p].outcome = "none"]
  <2>1. /\ worker'[p].pc = "hold"
        /\ worker'[p].epoch = worker[p].epoch /\ worker'[p].result = worker[p].result
        /\ \A q \in Workers \ {p} : worker'[q] = worker[q]
    BY <1>0, <1>2 DEF Memory
  <2>2. LeaseFits(p)'
    BY <1>0, <2>1 DEF At, WorkerFits, LeaseFits, InOperation
  <2>3. PurchaseFits(p)' /\ CarriedFits(p)' /\ ~At(p, "buy")'
    BY <1>0, <2>1 DEF PurchaseFits, WorkerFits, CarriedFits, At
  <2>4. QED
    BY <1>0, <1>2, <2>1, <2>2, <2>3, QuietStep DEF WorkerFits
<1>3. CASE /\ UNCHANGED <<plan, dispatch>> /\ OpFence(p) /\ plan[a].outcome = mine
           /\ worker' = [worker EXCEPT ![p].pc = "fresh", ![p].plan = plan[a].epoch]
  <2>1. /\ worker'[p].pc = "fresh" /\ worker'[p].attempt = worker[p].attempt
        /\ worker'[p].outcome = mine /\ worker'[p].plan = plan[a].epoch
        /\ worker'[p].epoch = worker[p].epoch /\ worker'[p].result = worker[p].result
        /\ \A q \in Workers \ {p} : worker'[q] = worker[q]
    BY <1>0, <1>3 DEF Memory
  <2>2. worker[p].epoch = op.epoch /\ plan[a].epoch <= op.epoch
    BY <1>0, <1>3 DEF OpFence, OperationInv, LedgerInv, PlansFit
  <2>3. LeaseFits(p)'
    BY <1>0, <2>1 DEF At, WorkerFits, LeaseFits, InOperation
  <2>4. PurchaseFits(p)' /\ ~At(p, "buy")'
    BY <2>1 DEF PurchaseFits, At
  <2>5. CarriedFits(p)'
    BY <1>0, <1>3, <2>1, <2>2 DEF WorkerFits, CarriedFits, At, Attempt
  <2>6. QED
    BY <1>0, <1>3, <2>1, <2>3, <2>4, <2>5, QuietStep DEF WorkerFits
<1>4. CASE /\ ~Accepted /\ OpFence(p)
           /\ plan' = [plan EXCEPT ![a] = [outcome |-> mine, epoch |-> op.epoch, held |-> FALSE]]
           /\ dispatch' = [dispatch EXCEPT ![a] = SettledBy(dispatch[a], mine)]
           /\ worker' = [worker EXCEPT ![p].pc = "fresh", ![p].plan = op.epoch]
  <2>1. /\ worker'[p].pc = "fresh" /\ worker'[p].attempt = worker[p].attempt
        /\ worker'[p].outcome = mine /\ worker'[p].plan = op.epoch
        /\ worker'[p].epoch = worker[p].epoch /\ worker'[p].result = worker[p].result
        /\ \A q \in Workers \ {p} : worker'[q] = worker[q]
    BY <1>0, <1>4 DEF Memory
  <2>2. /\ worker[p].epoch = op.epoch /\ op.owner = p /\ op.epoch \in Nat
        /\ plan'[a].outcome = mine /\ plan'[a].epoch = op.epoch
        /\ \A b \in Attempts \ {a} : plan'[b] = plan[b] /\ dispatch'[b] = dispatch[b]
        /\ dispatch'[a] = SettledBy(dispatch[a], mine)
    BY <1>0, <1>4 DEF OpFence, OpLease
  <2>3. /\ mine # "reconcile" => paid[MyRequest(p)] = 1
        /\ mine = "reconcile" => dispatch[a] # "settled"
    BY <1>0, <1>4 DEF WorkerFits, PurchaseFits, Outcomes
  <2>4. /\ \A b \in Attempts : Counts(b)' <=> Counts(b)
        /\ \A b \in Attempts : Unresolved(b)' => Unresolved(b)
        /\ dispatch'[a] = "settled" => dispatch[a] = "settled" \/ mine # "reconcile"
        /\ mine = "reconcile" /\ Unresolved(a) => dispatch'[a] \in {"dispatched", "held"}
    BY <1>0, <2>2 DEF Counts, Unresolved, SettledBy, DispatchState
  <2>5. LedgerInv'
    <3>1. PlansFit'
      BY <1>0, <2>2 DEF OperationInv, LedgerInv, PlansFit
    <3>2. OneCounts' /\ PaidCounts'
      BY <1>0, <2>4 DEF OperationInv, LedgerInv, OneCounts, PaidCounts
    <3>3. SettledIsPaid'
      BY <1>0, <2>2, <2>3, <2>4 DEF OperationInv, LedgerInv, SettledIsPaid, MyRequest
    <3>4. QED
      BY <3>1, <3>2, <3>3 DEF LedgerInv
  <2>6. UnresolvedIsLatest' /\ HeldIsNotAccepted' /\ RoomForEffects'
    BY <1>0, <1>4, <2>4 DEF OperationInv, UnresolvedIsLatest, HeldIsNotAccepted, RoomForEffects, Accepted
  <2>7. SettledHasItsAnswer'
    <3>1. dispatch'[a] = "settled" => mine \in {"apply", "hold"}
      BY <1>0, <2>3, <2>4 DEF Outcomes
    <3>2. QED
      BY <2>2, <3>1 DEF OperationInv, SettledHasItsAnswer
  <2>8. OneBuys'
    BY <2>1 DEF OperationInv, OneBuys, At
  <2>9. WorkerFits(p)'
    <3>1. LeaseFits(p)'
      BY <1>0, <2>1 DEF At, WorkerFits, LeaseFits, InOperation
    <3>2. PurchaseFits(p)'
      BY <2>1 DEF PurchaseFits, At
    <3>3. CarriedFits(p)'
      BY <1>0, <2>1, <2>2 DEF WorkerFits, CarriedFits, At, Attempt
    <3>4. QED
      BY <3>1, <3>2, <3>3 DEF WorkerFits
  <2>10. ASSUME NEW q \in Workers \ {p} PROVE WorkerFits(q)'
    <3>1. worker'[q] = worker[q] /\ WorkerFits(q) /\ ~OpFence(q)' /\ worker[q] \in Memory
      BY <1>0, <2>1, <2>2 DEF OpFence
    <3>2. LeaseFits(q)'
      BY <1>0, <3>1 DEF WorkerFits, LeaseFits, InOperation
    <3>3. At(q, "buy") => Unresolved(Attempt(q))'
      <4> SUFFICES ASSUME At(q, "buy") PROVE Unresolved(Attempt(q))'
        OBVIOUS
      <4>1. Unresolved(Attempt(q)) /\ paid[MyRequest(q)] = 0 /\ Attempt(q) \in Attempts
        BY <3>1 DEF WorkerFits, PurchaseFits, Memory, Attempt
      <4>2. Attempt(q)' = Attempt(q)
        BY <3>1 DEF Attempt
      <4>3. CASE Attempt(q) = a
        <5>1. mine = "reconcile"
          BY <1>0, <2>3, <4>1, <4>3 DEF MyRequest, Outcomes
        <5>2. dispatch'[a] \in {"dispatched", "held"}
          BY <2>4, <4>1, <4>3, <5>1
        <5>3. QED
          BY <4>2, <4>3, <5>2 DEF Unresolved
      <4>4. CASE Attempt(q) # a
        BY <2>2, <4>1, <4>2, <4>4 DEF Unresolved
      <4>5. QED
        BY <4>3, <4>4
    <3>4. PurchaseFits(q)'
      BY <1>0, <3>1, <3>3 DEF WorkerFits, PurchaseFits, At, MyRequest, Attempt
    <3>5. CarriedFits(q)'
      <4>1. worker[q].pc \in {"fresh", "commit"} => worker[q].plan < op.epoch
        BY <1>0, <2>2, <3>1 DEF WorkerFits, LeaseFits, InOperation, CarriedFits, Memory
      <4>2. worker[q].attempt \in Attempts
        BY <3>1 DEF Memory
      <4>3. QED
        BY <1>0, <2>2, <3>1, <4>1, <4>2 DEF WorkerFits, CarriedFits, At, Attempt, Memory
    <3>6. QED
      BY <3>2, <3>4, <3>5 DEF WorkerFits
  <2>11. QED
    BY <1>0, <2>5, <2>6, <2>7, <2>8, <2>9, <2>10 DEF OperationInv
<1>5. QED
  BY <1>1, <1>2, <1>3, <1>4 DEF SavePlan

(* The effects are applied, those of a plan that was not held.             *)
LEMMA CommitStep ==
    ASSUME OperationInv, TypeOK', NEW p \in Workers, Commit(p) PROVE OperationInv'
<1>0. /\ UNCHANGED <<row, op, plan, dispatch, latest, paid>>
      /\ worker \in [Workers -> Memory] /\ plan \in [Attempts -> Plan]
      /\ \A q \in Workers : WorkerFits(q)
      /\ Attempt(p) \in Attempts /\ At(p, "commit")
  BY DEF Commit, OperationInv, TypeOK, Memory, Attempt
<1>1. CASE /\ UNCHANGED <<receipt, knowledge>>
           /\ \E result \in {"accepted", "held", "error"} :
                 (Ends(p, result) \/ Releases(p, result)) /\ (result = "accepted" => Accepted)
  BY <1>0, <1>1, LeavingStep
<1>2. CASE UNCHANGED <<receipt, knowledge>> /\ Goes(p, "hold")
  <2>1. /\ worker'[p].pc = "hold"
        /\ worker'[p].epoch = worker[p].epoch /\ worker'[p].result = worker[p].result
        /\ \A q \in Workers \ {p} : worker'[q] = worker[q]
    BY <1>0, <1>2 DEF Goes, Memory
  <2>2. LeaseFits(p)'
    BY <1>0, <2>1 DEF At, WorkerFits, LeaseFits, InOperation
  <2>3. PurchaseFits(p)' /\ CarriedFits(p)' /\ ~At(p, "buy")'
    BY <1>0, <1>2, <2>1 DEF PurchaseFits, WorkerFits, CarriedFits, At, Accepted
  <2>4. RowFits' /\ CompleteIsAccepted'
    BY <1>0, <1>2 DEF OperationInv, RowFits, CompleteIsAccepted, Accepted
  <2>5. QED
    BY <1>0, <1>2, <2>1, <2>2, <2>3, <2>4, QuietStep DEF WorkerFits
<1>3. CASE /\ ~Accepted /\ ~HeldPlan(p) /\ receipt' = Attempt(p) /\ knowledge' = knowledge + 1
           /\ Releases(p, "accepted") \/ Releases(p, "error")
  <2>1. Accepted'
    BY <1>0, <1>3, NothingAssumption DEF Accepted
  <2>2. /\ WorkerFits(p)' /\ ~At(p, "buy")'
        /\ \A q \in Workers \ {p} : worker'[q] = worker[q]
    BY <1>3, <2>1, Leaves DEF OperationInv
  <2>3. LedgerInv' /\ UnresolvedIsLatest' /\ SettledHasItsAnswer' /\ RowFits'
    BY <1>0 DEF OperationInv, LedgerInv, PlansFit, OneCounts, PaidCounts, SettledIsPaid, Counts,
       UnresolvedIsLatest, Unresolved, SettledHasItsAnswer, RowFits
  <2>4. HeldIsNotAccepted'
    <3>1. plan[Attempt(p)].epoch = worker[p].plan /\ ~plan[Attempt(p)].held
      BY <1>3 DEF HeldPlan
    <3>2. plan[Attempt(p)].outcome = "apply"
      BY <1>0, <3>1 DEF WorkerFits, CarriedFits, At
    <3>3. QED
      BY <1>0, <1>3, <3>1, <3>2 DEF HeldIsNotAccepted
  <2>5. RoomForEffects' /\ CompleteIsAccepted'
    BY <2>1 DEF RoomForEffects, CompleteIsAccepted
  <2>6. OneBuys'
    BY <2>2 DEF OperationInv, OneBuys, At
  <2>7. ASSUME NEW q \in Workers \ {p} PROVE WorkerFits(q)'
    <3>1. worker'[q] = worker[q] /\ WorkerFits(q)
      BY <1>0, <2>2
    <3>2. LeaseFits(q)'
      BY <1>0, <3>1 DEF WorkerFits, LeaseFits, InOperation
    <3>3. PurchaseFits(q)'
      BY <1>0, <3>1 DEF WorkerFits, PurchaseFits, At, OpFence, OpLive, Counts, MyRequest, Attempt,
                        Unresolved
    <3>4. CarriedFits(q)'
      BY <1>0, <2>1, <3>1 DEF WorkerFits, CarriedFits, At, Attempt
    <3>5. QED
      BY <3>2, <3>3, <3>4 DEF WorkerFits
  <2>8. QED
    BY <2>2, <2>3, <2>4, <2>5, <2>6, <2>7 DEF OperationInv
<1>4. QED
  BY <1>1, <1>2, <1>3 DEF Commit

(* A hold settles nothing and takes no dispatch away.                      *)
LEMMA HoldStep ==
    ASSUME OperationInv, TypeOK', NEW p \in Workers, Hold(p) PROVE OperationInv'
<1>0. /\ UNCHANGED <<row, op, latest, receipt, knowledge, paid>>
      /\ RowFits' /\ CompleteIsAccepted' /\ Accepted' = Accepted
      /\ worker \in [Workers -> Memory]
      /\ plan \in [Attempts -> Plan] /\ dispatch \in [Attempts -> DispatchState]
      /\ \A q \in Workers : WorkerFits(q)
      /\ Attempt(p) \in Attempts
  BY DEF Hold, RowFits, CompleteIsAccepted, Accepted, OperationInv, TypeOK, Memory, Attempt
<1>1. CASE /\ UNCHANGED <<plan, dispatch>>
           /\ \E result \in {"accepted", "held", "error"} :
                 (Ends(p, result) \/ Releases(p, result)) /\ (result = "accepted" => Accepted)
  BY <1>0, <1>1, LeavingStep
<1>2. CASE /\ ~Accepted /\ Releases(p, "held")
           /\ plan' = [plan EXCEPT ![Attempt(p)].held =
                          plan[Attempt(p)].held \/ (~HeldPlan(p) /\ worker[p].plan > 0)]
           /\ dispatch' = [a \in Attempts |-> IF dispatch[a] = "dispatched" THEN "held" ELSE dispatch[a]]
  <2>1. /\ \A a \in Attempts : plan'[a].outcome = plan[a].outcome /\ plan'[a].epoch = plan[a].epoch
        /\ \A a \in Attempts : Counts(a)' <=> Counts(a)
        /\ \A a \in Attempts : Unresolved(a)' <=> Unresolved(a)
        /\ \A a \in Attempts : dispatch'[a] = "settled" <=> dispatch[a] = "settled"
    BY <1>0, <1>2 DEF Counts, Unresolved, Plan
  <2>2. /\ WorkerFits(p)' /\ ~At(p, "buy")'
        /\ \A q \in Workers \ {p} : worker'[q] = worker[q]
    BY <1>2, Leaves DEF OperationInv
  <2>3. LedgerInv' /\ UnresolvedIsLatest' /\ SettledHasItsAnswer' /\ RoomForEffects' /\ HeldIsNotAccepted'
    BY <1>0, <1>2, <2>1 DEF OperationInv, LedgerInv, PlansFit, OneCounts, PaidCounts, SettledIsPaid,
       UnresolvedIsLatest, SettledHasItsAnswer, RoomForEffects, HeldIsNotAccepted, Accepted
  <2>4. OneBuys'
    BY <2>2 DEF OperationInv, OneBuys, At
  <2>5. ASSUME NEW q \in Workers \ {p} PROVE WorkerFits(q)'
    <3>1. worker'[q] = worker[q] /\ WorkerFits(q) /\ worker[q].attempt \in Attempts
      BY <1>0, <2>2 DEF Memory
    <3>2. LeaseFits(q)'
      BY <1>0, <3>1 DEF WorkerFits, LeaseFits, InOperation
    <3>3. Attempt(q)' = Attempt(q) /\ Attempt(q) \in Attempts /\ (OpFence(q)' <=> OpFence(q))
      BY <1>0, <3>1 DEF Attempt, OpFence, OpLive
    <3>4. At(q, "buy") => Unresolved(Attempt(q))'
      BY <2>1, <3>1, <3>3 DEF WorkerFits, PurchaseFits, Unresolved
    <3>5. PurchaseFits(q)'
      BY <1>0, <2>1, <3>1, <3>3, <3>4 DEF WorkerFits, PurchaseFits, At, MyRequest
    <3>6. CarriedFits(q)'
      BY <1>0, <2>1, <3>1 DEF WorkerFits, CarriedFits, At, Attempt
    <3>7. QED
      BY <3>2, <3>5, <3>6 DEF WorkerFits
  <2>6. QED
    BY <1>0, <2>2, <2>3, <2>4, <2>5 DEF OperationInv
<1>3. QED
  BY <1>1, <1>2 DEF Hold

(* Other works write, an operator resolves a dispatch that was not         *)
(* executed, and the row is recovered or swept.                            *)
LEMMA OutsideStep ==
    ASSUME OperationInv, TypeOK', OtherWrites \/ RecoverRow \/ SweepRow \/ \E a \in Attempts : ResolveDispatch(a)
    PROVE  OperationInv'
<1>0. /\ UNCHANGED <<op, plan, latest, receipt, paid, worker>> /\ Accepted' = Accepted
      /\ dispatch \in [Attempts -> DispatchState] /\ row \in Row
      /\ \A q \in Workers : WorkerFits(q)
  BY DEF OtherWrites, RecoverRow, SweepRow, ResolveDispatch, store, Accepted, OperationInv, TypeOK
<1>1. /\ OneBuys' /\ HeldIsNotAccepted'
      /\ \A q \in Workers : LeaseFits(q)' /\ CarriedFits(q)'
  BY <1>0 DEF OperationInv, OneBuys, At, HeldIsNotAccepted, WorkerFits, LeaseFits, InOperation,
     CarriedFits, Attempt, Accepted
<1>2. CASE OtherWrites \/ RecoverRow \/ SweepRow
  <2>1. dispatch' = dispatch
    BY <1>2 DEF OtherWrites, RecoverRow, SweepRow, store
  <2>2. LedgerInv' /\ UnresolvedIsLatest' /\ SettledHasItsAnswer'
    BY <1>0, <2>1 DEF OperationInv, LedgerInv, PlansFit, OneCounts, PaidCounts, SettledIsPaid,
       Counts, UnresolvedIsLatest, Unresolved, SettledHasItsAnswer
  <2>3. \A q \in Workers : PurchaseFits(q)'
    BY <1>0, <2>1 DEF WorkerFits, PurchaseFits, At, OpFence, OpLive, Counts, MyRequest, Attempt,
       Unresolved
  <2>4. RoomForEffects'
    <3>1. CASE OtherWrites
      BY <1>0, <3>1, BoundsAssumption DEF OtherWrites, OperationInv, RoomForEffects, TypeOK, Attempts
    <3>2. CASE RecoverRow \/ SweepRow
      BY <1>0, <3>2 DEF RecoverRow, SweepRow, store, OperationInv, RoomForEffects
    <3>3. QED
      BY <1>2, <3>1, <3>2
  <2>5. RowFits' /\ CompleteIsAccepted'
    <3>1. CASE OtherWrites
      BY <1>0, <3>1 DEF OtherWrites, OperationInv, RowFits, CompleteIsAccepted
    <3>2. CASE RecoverRow
      <4>1. row' = Moved(row, "entity_pending")
        BY <3>2 DEF RecoverRow, Recovered, LeaseExpired, RetryDue, Leased, LeasedStatus,
                    PendingStatusFor, OperationInv, RowFits
      <4>2. row'.status = "entity_pending"
        BY <1>0, <4>1 DEF Moved, Unleased, Row
      <4>3. QED
        BY <4>2 DEF RowFits, CompleteIsAccepted
    <3>3. CASE SweepRow
      <4>1. /\ row' = Swept(row, FALSE) /\ row.status \in LeasedStatus
            /\ PendingStatusFor[row.status] = "entity_pending"
        BY <3>3 DEF SweepRow, LeaseExpired, Leased, LeasedStatus, PendingStatusFor, OperationInv, RowFits
      <4>2. \/ row'.status = "retry_wait" /\ row'.target = "entity_pending"
            \/ row'.status = "dead_letter"
        BY <1>0, <4>1, SweptRow
      <4>3. QED
        BY <4>2 DEF RowFits, CompleteIsAccepted
    <3>4. QED
      BY <1>2, <3>1, <3>2, <3>3
  <2>6. QED
    BY <1>1, <2>2, <2>3, <2>4, <2>5 DEF OperationInv, WorkerFits
<1>3. ASSUME NEW a \in Attempts, ResolveDispatch(a) PROVE OperationInv'
  <2>1. /\ UNCHANGED <<row, knowledge>>
        /\ Unresolved(a) /\ paid[RequestOf[a]] = 0 /\ \A q \in Workers : ~At(q, "buy")
        /\ dispatch' = [dispatch EXCEPT ![a] = "resolved_without_execution"]
    BY <1>3 DEF ResolveDispatch
  <2>2. /\ \A b \in Attempts : Counts(b)' <=> Counts(b) /\ b # a
        /\ \A b \in Attempts : Unresolved(b)' => Unresolved(b)
        /\ \A b \in Attempts : dispatch'[b] = "settled" => dispatch[b] = "settled"
    BY <1>0, <2>1 DEF Counts, Unresolved
  <2>3. LedgerInv'
    <3>1. PlansFit' /\ OneCounts' /\ SettledIsPaid'
      BY <1>0, <2>2 DEF OperationInv, LedgerInv, PlansFit, OneCounts, SettledIsPaid
    <3>2. PaidCounts'
      BY <1>0, <2>1, <2>2 DEF OperationInv, LedgerInv, PaidCounts
    <3>3. QED
      BY <3>1, <3>2 DEF LedgerInv
  <2>4. UnresolvedIsLatest' /\ SettledHasItsAnswer'
    BY <1>0, <2>2 DEF OperationInv, UnresolvedIsLatest, SettledHasItsAnswer
  <2>5. \A q \in Workers : PurchaseFits(q)'
    <3>1. ASSUME NEW q \in Workers PROVE PurchaseFits(q)'
      <4>1. WorkerFits(q) /\ ~At(q, "buy") /\ Attempt(q) \in Attempts
        BY <1>0, <2>1 DEF OperationInv, TypeOK, Memory, Attempt
      <4>2. Attempt(q)' = Attempt(q) /\ (OpFence(q)' <=> OpFence(q)) /\ (At(q, "buy")' <=> At(q, "buy"))
        BY <1>0 DEF Attempt, OpFence, OpLive, At
      <4>3. QED
        BY <1>0, <2>2, <4>1, <4>2 DEF WorkerFits, PurchaseFits, At, MyRequest
    <3>2. QED
      BY <3>1
  <2>6. RoomForEffects' /\ RowFits' /\ CompleteIsAccepted'
    BY <1>0, <2>1 DEF OperationInv, RoomForEffects, RowFits, CompleteIsAccepted
  <2>7. QED
    BY <1>1, <2>3, <2>4, <2>5, <2>6 DEF OperationInv, WorkerFits
<1>4. QED
  BY <1>2, <1>3

LEMMA OperationInit == Init => OperationInv
<1> SUFFICES ASSUME Init PROVE OperationInv
  OBVIOUS
<1>1. /\ 0 \in Attempts /\ 0 \in 0 .. MaxEpoch /\ 0 \in 0 .. OpTtl /\ 0 \in 0 .. MaxFaults
      /\ 0 \in 0 .. LeaseTtl /\ 0 \in 0 .. Backoff /\ Freshness \in 0 .. Freshness
      /\ 0 \in 0 .. MaxAttempts + 1 /\ 0 <= MaxWrites
  BY BoundsAssumption, TimesAssumption DEF Attempts
<1>2. row \in Row /\ row.status = "entity_pending"
  BY <1>1, EntityStatusType DEF Init, AdmittedRow, Row
<1>3. Idle \in Memory /\ NoPlan \in Plan
  BY <1>1 DEF Idle, Memory, Pc, NoPlan, Plan
<1>4. TypeOK
  <2>1. op \in OpLease /\ worker \in [Workers -> Memory] /\ plan \in [Attempts -> Plan]
    BY <1>1, <1>3 DEF Init, OpLease
  <2>2. knowledge \in Attempts /\ faults \in 0 .. MaxFaults /\ paid \in [Requests -> 0 .. 2]
    BY <1>1 DEF Init
  <2>3. /\ dispatch \in [Attempts -> DispatchState]
        /\ latest \in Attempts \cup {Nothing} /\ receipt \in Attempts \cup {Nothing}
    BY DEF Init, DispatchState
  <2>4. QED
    BY <1>2, <2>1, <2>2, <2>3 DEF TypeOK
<1>5. LedgerInv
  BY <1>1 DEF Init, LedgerInv, PlansFit, NoPlan, OneCounts, PaidCounts, SettledIsPaid, Counts
<1>6. UnresolvedIsLatest /\ SettledHasItsAnswer /\ HeldIsNotAccepted /\ RoomForEffects
  BY <1>1 DEF Init, UnresolvedIsLatest, Unresolved, SettledHasItsAnswer, HeldIsNotAccepted,
              Accepted, RoomForEffects
<1>7. OneBuys /\ \A p \in Workers : WorkerFits(p)
  BY DEF Init, OneBuys, At, Idle, WorkerFits, LeaseFits, InOperation, PurchaseFits, CarriedFits
<1>8. RowFits /\ CompleteIsAccepted
  BY <1>2 DEF RowFits, CompleteIsAccepted
<1>9. QED
  BY <1>4, <1>5, <1>6, <1>7, <1>8 DEF OperationInv

LEMMA OperationStep == OperationInv /\ [Next]_vars => OperationInv'
<1> SUFFICES ASSUME OperationInv, [Next]_vars PROVE OperationInv'
  OBVIOUS
<1>1. TypeOK'
  BY TypeStep
<1>2. CASE UNCHANGED vars
  <2>1. UNCHANGED <<row, op, plan, dispatch, latest, receipt, knowledge, paid, worker>>
    BY <1>2 DEF vars
  <2>2. /\ RowFits' /\ CompleteIsAccepted' /\ op.epoch <= op'.epoch
    BY <2>1 DEF OperationInv, RowFits, CompleteIsAccepted, Accepted, TypeOK, OpLease
  <2>3. \A q \in Workers : worker'[q] = worker[q] /\ LeaseFits(q)' /\ (OpFence(q)' => OpFence(q))
    BY <2>1 DEF OperationInv, WorkerFits, LeaseFits, InOperation, OpFence, OpLive
  <2>4. QED
    BY <1>1, <2>1, <2>2, <2>3, LeaseStep
<1>3. ASSUME NEW p \in Workers, WorkerStep(p) PROVE OperationInv'
  BY <1>1, <1>3, ReadingStep, RowStep, AcquireStep, ReserveStep, BuyStep, SavePlanStep, CommitStep,
     HoldStep, ReleaseStep DEF WorkerStep
<1>4. ASSUME NEW p \in Workers, ClaimRow(p) \/ BeatRow(p) \/ StorageFails(p) \/ Crash(p)
      PROVE  OperationInv'
  BY <1>1, <1>4, RowStep
<1>5. CASE Tick \/ \E p \in Workers : RenewOp(p)
  BY <1>1, <1>5, ClockStep
<1>6. CASE OtherWrites \/ RecoverRow \/ SweepRow \/ \E a \in Attempts : ResolveDispatch(a)
  BY <1>1, <1>6, OutsideStep
<1>7. QED
  BY <1>2, <1>3, <1>4, <1>5, <1>6 DEF Next

LEMMA OperationInvariant == Spec => []OperationInv
  BY OperationInit, OperationStep, PTL DEF Spec
-----------------------------------------------------------------------------
(* Type correctness.                                                       *)
THEOREM OperationTypeCorrect == Spec => []TypeOK
<1>1. OperationInv => TypeOK
  BY DEF OperationInv
<1>2. QED
  BY <1>1, OperationInvariant, PTL

(* The gate in front of every processing looks at the latest dispatch      *)
(* only, and yet misses no unresolved one.                                 *)
THEOREM GateSeesUnresolved == Spec => []UnresolvedIsLatest
<1>1. OperationInv => UnresolvedIsLatest
  BY DEF OperationInv
<1>2. QED
  BY <1>1, OperationInvariant, PTL

(* A paid answer that was settled is never lost to a later plan.           *)
THEOREM PaidAnswerKept == Spec => []SettledHasItsAnswer
<1>1. OperationInv => SettledHasItsAnswer
  BY DEF OperationInv
<1>2. QED
  BY <1>1, OperationInvariant, PTL

(* No stalled worker applies a plan another one held.                      *)
THEOREM HeldPlanNotApplied == Spec => []HeldIsNotAccepted
<1>1. OperationInv => HeldIsNotAccepted
  BY DEF OperationInv
<1>2. QED
  BY <1>1, OperationInvariant, PTL

(* The row in SQLite is complete only with the receipt in Postgres.        *)
THEOREM CompletedIsAccepted == Spec => []CompleteIsAccepted
<1>1. OperationInv => CompleteIsAccepted
  BY DEF OperationInv
<1>2. QED
  BY <1>1, OperationInvariant, PTL

(* A worker pays for a request, commits effects, or changes nothing of     *)
(* what is promised.                                                       *)
LEMMA StepIsPromised ==
    ASSUME OperationInv, [Next]_vars PROVE [Promise!Next]_(Promise!vars)
<1>1. ASSUME NEW p \in Workers, Buy(p) PROVE [Promise!Next]_(Promise!vars)
  <2>1. paid[MyRequest(p)] = 0 /\ MyRequest(p) \in Requests
    BY <1>1, RequestType DEF Buy, OperationInv, WorkerFits, PurchaseFits, TypeOK, Memory, MyRequest, Attempt
  <2>2. UNCHANGED <<knowledge, receipt>>
    BY <1>1 DEF Buy, store
  <2>3. UNCHANGED paid \/ paid' = [paid EXCEPT ![MyRequest(p)] = 1]
    BY <1>1, <2>1 DEF Buy, MyRequest
  <2>4. CASE UNCHANGED paid
    BY <2>2, <2>4 DEF Promise!vars
  <2>5. CASE paid' = [paid EXCEPT ![MyRequest(p)] = 1]
    <3>1. Promise!Pay(MyRequest(p))
      BY <2>1, <2>2, <2>5 DEF Promise!Pay
    <3>2. QED
      BY <2>1, <3>1 DEF Promise!Next, Promise!Pay
  <2>6. QED
    BY <2>3, <2>4, <2>5
<1>2. ASSUME NEW p \in Workers, Commit(p) PROVE [Promise!Next]_(Promise!vars)
  <2>1. UNCHANGED paid
    BY <1>2 DEF Commit
  <2>2. CASE UNCHANGED <<receipt, knowledge>>
    BY <2>1, <2>2 DEF Promise!vars
  <2>3. CASE /\ ~Accepted /\ Attempt(p) = knowledge
             /\ receipt' = Attempt(p) /\ knowledge' = knowledge + 1
    <3>1. Promise!Apply
      BY <2>1, <2>3 DEF Promise!Apply, Accepted
    <3>2. QED
      BY <3>1 DEF Promise!Next
  <2>4. QED
    BY <1>2, <2>2, <2>3 DEF Commit
<1>3. CASE OtherWrites
  <2>1. Promise!OthersWrite
    BY <1>3 DEF OtherWrites, Promise!OthersWrite
  <2>2. QED
    BY <2>1 DEF Promise!Next
<1>4. ASSUME \/ UNCHANGED vars \/ RecoverRow \/ SweepRow \/ Tick \/ \E a \in Attempts : ResolveDispatch(a)
             \/ \E p \in Workers :
                   \/ ClaimRow(p) \/ BeatRow(p) \/ RenewOp(p) \/ StorageFails(p) \/ Crash(p)
                   \/ Prepare(p) \/ Acquire(p) \/ LoadPlan(p) \/ Propose(p) \/ Reserve(p)
                   \/ SavePlan(p) \/ CheckFreshness(p) \/ Hold(p) \/ ReleaseOp(p) \/ FinishRow(p)
      PROVE  UNCHANGED Promise!vars
  <2>1. UNCHANGED <<paid, knowledge, receipt>>
    BY <1>4 DEF vars, RecoverRow, SweepRow, Tick, ResolveDispatch, ClaimRow, BeatRow, RenewOp,
       StorageFails, Crash, Prepare, Acquire, LoadPlan, Propose, Reserve, SavePlan, CheckFreshness, Hold, ReleaseOp,
       FinishRow, store
  <2>2. QED
    BY <2>1 DEF Promise!vars
<1>5. QED
  BY <1>1, <1>2, <1>3, <1>4 DEF Next, WorkerStep

(* The writer's promise is kept: whatever crashes, expires, is replayed or *)
(* reconciled, a request is paid at most once and effects are applied at   *)
(* most once, on the knowledge they were decided on.                       *)
THEOREM OperationKeepsPromise == Spec => KeepsPromise
<1>1. Init => Promise!Init
  BY DEF Init, Promise!Init
<1>2. OperationInv /\ [Next]_vars => [Promise!Next]_(Promise!vars)
  BY StepIsPromised
<1>3. QED
  BY <1>1, <1>2, OperationInvariant, PTL DEF Spec, KeepsPromise, Promise!Spec
-----------------------------------------------------------------------------
(* PaidIsFoundAgain for every instance: what was paid for has a dispatch   *)
(* that counts, and a dispatch that counts is the latest or has its plan.  *)
THEOREM PaidRequestsAreFound == Spec => []PaidIsFoundAgain
<1>1. OperationInv => PaidIsFoundAgain
  <2> SUFFICES ASSUME OperationInv, NEW r \in Requests, paid[r] > 0 PROVE Recorded(r) # {}
    BY DEF PaidIsFoundAgain
  <2>1. PICK a \in Attempts : Counts(a) /\ RequestOf[a] = r
    BY DEF OperationInv, LedgerInv, PaidCounts
  <2>2. a \in Recorded(r)
    BY <2>1, CountedIsRecorded
  <2>3. QED
    BY <2>2
<1>2. QED
  BY <1>1, OperationInvariant, PTL

(* The row's moves: a claim, an ending that fits the stage, a recovery.    *)
LEMMA RowMovesStep ==
    ASSUME OperationInv, [Next]_vars, row'.status # row.status
    PROVE  CanTransition(row.status, row'.status)
<1>0. row \in Row /\ RowFits /\ row' # row
  BY DEF OperationInv, TypeOK
<1>1. CASE \E p \in Workers : ClaimRow(p)
  <2>1. PICK p \in Workers : ClaimRow(p)
    BY <1>1
  <2>2. row.status \in PendingStatus /\ row'.status = LeasedStatusFor[row.status]
    BY <1>0, <2>1, ClaimedRow DEF ClaimRow, PendingStatus
  <2>3. QED
    BY <2>2, StageMoves
<1>2. CASE \E p \in Workers : FinishRow(p)
  <2>1. PICK p \in Workers : FinishRow(p)
    BY <1>2
  <2>2. row.status = "entity_leased" /\ row' = RowAfter(p)
    BY <1>0, <2>1 DEF FinishRow, Fence
  <2>3. worker[p].result \in {"accepted", "held", "error"}
    BY <2>1 DEF FinishRow, At, OperationInv, TypeOK, Memory, WorkerFits, CarriedFits
  <2>4. \/ row' = Moved(row, "complete") \/ row' = Waiting(row, 1) \/ row' = Moved(row, "dead_letter")
    BY <2>2, <2>3 DEF RowAfter
  <2>5. 1 \in 1 .. Backoff /\ row.status \in LeasedStatus
    BY <2>2, TimesType DEF LeasedStatus
  <2>6. row'.status \in {"complete", "retry_wait", "dead_letter"}
    <3>1. \A s \in {"complete", "dead_letter"} : Moved(row, s).status = s
      BY <1>0, StatusType, MovedRow
    <3>2. Waiting(row, 1).status = "retry_wait"
      BY <1>0, <2>5, WaitingRow
    <3>3. QED
      BY <2>4, <3>1, <3>2
  <2>7. QED
    BY <2>2, <2>6 DEF CanTransition, NormalTransitions
<1>3. CASE RecoverRow
  <2>1. /\ row' = Recovered(row, FALSE)
        /\ LeaseExpired(row) \/ RetryDue(row)
        /\ row.status = "retry_wait" => row.target \in PendingStatus
    BY <1>0, <1>3 DEF RecoverRow, RowFits, PendingStatus
  <2>2. row'.status = IF Leased(row) THEN PendingStatusFor[row.status] ELSE row.target
    BY <1>0, <2>1, RecoveredRow
  <2>3. CASE row.status \in LeasedStatus
    BY <2>2, <2>3, StageMoves DEF Leased
  <2>4. CASE row.status \notin LeasedStatus
    <3>1. row.status = "retry_wait" /\ row'.status = row.target
      BY <2>1, <2>2, <2>4 DEF Leased, LeaseExpired, RetryDue
    <3>2. QED
      BY <2>1, <3>1, StageMoves
  <2>5. QED
    BY <2>3, <2>4
<1>4. CASE row' \in {Beaten(row), [Aged(row) EXCEPT !.fresh = row.fresh]}
  <2>1. row'.status = row.status
    BY <1>0, <1>4, BeatenRow, AgedRow
  <2>2. QED
    BY <2>1
<1>5. CASE SweepRow
  BY <1>0, <1>5, SweptMoves DEF SweepRow, LeaseExpired, Leased
<1>6. QED
  BY <1>0, <1>1, <1>2, <1>3, <1>4, <1>5
     DEF Next, WorkerStep, Prepare, Acquire, LoadPlan, Propose, Reserve, Buy, SavePlan, CheckFreshness,
         Commit, Hold, ReleaseOp, BeatRow, RenewOp, StorageFails, Crash, ResolveDispatch, OtherWrites,
         Tick, vars

(* FollowsTransitionTable for every instance: the entity stage never       *)
(* leaves the table, whichever of its two leases expired.                  *)
THEOREM OperationFollowsTable == Spec => FollowsTransitionTable
<1>1. OperationInv /\ [Next]_vars =>
        [row'.status # row.status => CanTransition(row.status, row'.status)]_vars
  BY RowMovesStep
<1>2. QED
  BY <1>1, OperationInvariant, PTL DEF Spec, FollowsTransitionTable
=============================================================================

------------------------- MODULE KnowledgeOperation -------------------------
(***************************************************************************)
(* The last stage of a work: entity workers turn its saved packet into     *)
(* knowledge.  The work row is in the source's SQLite store (WorkRow); the *)
(* plans, paid dispatches, holds and the receipt of the work's one         *)
(* knowledge operation are in Postgres, behind writer_v1, which fences its *)
(* writes by a lease of its own (owner and epoch).  The two leases expire  *)
(* independently, so a worker may hold either without the other.           *)
(*                                                                         *)
(* A worker is shared-worker.ts processLease around                        *)
(* managed-canonical-processor.ts process around progression-processor.ts  *)
(* process; an action is one database or provider call with what the       *)
(* worker decides on its answer.  `assertLease` runs on the answer, so a   *)
(* step whose answer finds the lease gone ends the operation as fenced.    *)
(*                                                                         *)
(* One work, not an article, with an entity_item readiness: the path that  *)
(* pays.  The history watermark and the targets' revisions are `knowledge`,*)
(* a count of the writes of all operations; a context captured at a count  *)
(* is an attempt, and RequestOf gives the request its prompt makes.        *)
(***************************************************************************)
EXTENDS WorkRow

CONSTANTS
    OpTtl,        \* ticks an acquisition or a renewal gives the writer's lease
    MaxEpoch,     \* bound: acquisitions of the writer's lease
    MaxWrites,    \* bound: knowledge writes of other works
    Requests,
    RequestOf,    \* [Attempts -> Requests]: the paid request of a context
    Nothing,      \* no attempt
    MaxFaults     \* bound: worker crashes, storage calls that fail or lose their answer

(* The count moves once more when the work's own effects are applied.      *)
Attempts == 0 .. MaxWrites + 1

ASSUME RequestAssumption == RequestOf \in [Attempts -> Requests]
ASSUME NothingAssumption == Nothing \notin Attempts
ASSUME BoundsAssumption ==
    /\ {OpTtl, MaxEpoch} \subseteq Nat \ {0}
    /\ {MaxWrites, MaxFaults} \subseteq Nat

VARIABLES
    row,        \* the work row
    op,         \* the writer's lease on the operation
    plan,       \* the newest plan revision saved for each attempt
    dispatch,   \* the paid dispatch of each attempt
    latest,     \* the attempt dispatched last
    receipt,    \* the attempt whose plan was accepted
    knowledge,  \* the history watermark
    paid,       \* history: provider executions of each request
    worker,     \* what each worker remembers
    faults

vars == <<row, op, plan, dispatch, latest, receipt, knowledge, paid, worker, faults>>

(* "reconcile": the hold that waits for the provider execution of a        *)
(* dispatch to be reconciled by an operator.                               *)
Outcomes == {"apply", "hold", "reconcile"}

OpLease == [owner : Workers \cup {NoWorker}, epoch : 0 .. MaxEpoch, left : 0 .. OpTtl]

(* A lease saves at most one revision for an attempt, so its epoch tells   *)
(* the revisions of an attempt apart; all but the newest are held.         *)
Plan == [outcome : Outcomes \cup {"none"}, epoch : 0 .. MaxEpoch, held : BOOLEAN]
NoPlan == [outcome |-> "none", epoch |-> 0, held |-> FALSE]

DispatchState == {"none", "dispatched", "settled", "held", "resolved_without_execution"}

Pc == {"idle", "claimed", "acquire", "load", "propose", "reserve", "buy", "save",
       "fresh", "commit", "hold", "release", "finish"}

Memory ==
    [ pc      : Pc,
      attempt : Attempts,
      epoch   : 0 .. MaxEpoch,                          \* of the writer's lease it acquired
      outcome : Outcomes \cup {"none"},                 \* proposed, or of the plan it carries
      plan    : 0 .. MaxEpoch,                          \* the revision it carries, 0 for none
      result  : {"none", "accepted", "held", "error"},  \* how process() ends
      lost    : BOOLEAN ]                               \* leaseLost

Idle == [pc |-> "idle", attempt |-> 0, epoch |-> 0, outcome |-> "none", plan |-> 0,
         result |-> "none", lost |-> FALSE]

Init ==
    /\ row = [AdmittedRow EXCEPT !.status = "entity_pending"]
    /\ op = [owner |-> NoWorker, epoch |-> 0, left |-> 0]
    /\ plan = [a \in Attempts |-> NoPlan]
    /\ dispatch = [a \in Attempts |-> "none"]
    /\ latest = Nothing
    /\ receipt = Nothing
    /\ knowledge = 0
    /\ paid = [r \in Requests |-> 0]
    /\ worker = [p \in Workers |-> Idle]
    /\ faults = 0
-----------------------------------------------------------------------------
store == <<op, plan, dispatch, latest, receipt, knowledge>>

At(p, pc) == worker[p].pc = pc
Goes(p, pc) == worker' = [worker EXCEPT ![p].pc = pc]
Forgets(p) == worker' = [worker EXCEPT ![p] = Idle]
Ends(p, result) ==
    worker' = [worker EXCEPT ![p] =
        [Idle EXCEPT !.pc = "finish", !.result = result, !.lost = worker[p].lost]]
Releases(p, result) ==
    worker' = [worker EXCEPT ![p] =
        [Idle EXCEPT !.pc = "release", !.result = result, !.lost = worker[p].lost, !.epoch = worker[p].epoch]]

Attempt(p) == worker[p].attempt
Accepted == receipt # Nothing

(* writer_v1: the lease a write needs, and the writer's errors.  A fenced  *)
(* or busy operation is a held failure to the worker.                      *)
OpLive == op.left > 0
OpFence(p) == OpLive /\ op.owner = p /\ op.epoch = worker[p].epoch

Unresolved(a) == dispatch[a] \in {"dispatched", "held"}

(* claimWithLease of a schedulable entity row.                             *)
ClaimRow(p) ==
    /\ At(p, "idle")
    /\ row.status = "entity_pending" /\ Claimable(row)
    /\ row' = Claimed(row, p)
    /\ Goes(p, "claimed")
    /\ UNCHANGED <<store, paid, faults>>

(* recoverAccepted: a work whose knowledge was accepted is only completed. *)
(* Otherwise on to savePlanningContext: the last dispatch being held stops *)
(* the processing until an operator has reconciled it.  The receipt is     *)
(* read twice on the way, once is enough here: Acquire reads it again.     *)
Prepare(p) ==
    /\ At(p, "claimed")
    /\ IF Accepted THEN Ends(p, "accepted")
       ELSE IF worker[p].lost THEN Forgets(p)
       ELSE IF latest # Nothing /\ dispatch[latest] = "held" THEN Ends(p, "held")
       ELSE worker' = [worker EXCEPT ![p].pc = "acquire", ![p].attempt = knowledge]
    /\ UNCHANGED <<row, store, paid, faults>>

Acquire(p) ==
    /\ At(p, "acquire")
    /\ IF Accepted THEN Ends(p, "accepted") /\ UNCHANGED op
       ELSE IF OpLive THEN Ends(p, "held") /\ UNCHANGED op
       ELSE /\ op.epoch < MaxEpoch
            /\ op' = [owner |-> p, epoch |-> op.epoch + 1, left |-> OpTtl]
            /\ worker' = [worker EXCEPT ![p].pc = "load", ![p].epoch = op.epoch + 1]
    /\ UNCHANGED <<row, plan, dispatch, latest, receipt, knowledge, paid, faults>>

(* The raced receipt, the plan saved for this attempt unless it was held,  *)
(* and otherwise the packet and the planning configuration, which may be   *)
(* missing and then hold the work.                                         *)
LoadPlan(p) ==
    /\ At(p, "load")
    /\ IF ~OpFence(p) THEN Releases(p, "held")
       ELSE IF Accepted THEN Releases(p, "accepted")
       ELSE LET saved == plan[Attempt(p)]
            IN  IF saved # NoPlan /\ ~saved.held
                THEN worker' = [worker EXCEPT ![p].pc = "fresh", ![p].outcome = saved.outcome,
                                              ![p].plan = saved.epoch]
                ELSE Goes(p, "propose") \/ Goes(p, "hold")
    /\ UNCHANGED <<row, store, paid, faults>>

(* findRecordedPlanningRequest: a dispatch of the same request under any   *)
(* attempt of the operation that is known (the latest, or one with a saved *)
(* plan; a held attempt without a plan is the latest).  Its returned       *)
(* outcome is used again; without one the work waits for reconciliation.   *)
(* (A slip: only a saved plan makes an attempt known.)                     *)
KnownByPlan(a) == plan[a] # NoPlan
Known(a) == a = latest \/ plan[a] # NoPlan

(* (The slip: only a dispatch that waits for reconciliation is found.)     *)
RecordedHeld(r) == {a \in Attempts : Known(a) /\ RequestOf[a] = r /\ dispatch[a] = "held"}

Recorded(r) ==
    {a \in Attempts : /\ Known(a) /\ RequestOf[a] = r
                      /\ dispatch[a] \notin {"none", "resolved_without_execution"}}

Proposes(p, outcome) ==
    worker' = [worker EXCEPT ![p].pc = "save", ![p].outcome = outcome]

Propose(p) ==
    /\ At(p, "propose")
    /\ LET recorded == Recorded(RequestOf[Attempt(p)])
       IN  IF worker[p].lost THEN Releases(p, "held")
           ELSE IF recorded = {} THEN Goes(p, "reserve")
           ELSE IF ~OpFence(p) THEN Releases(p, "held")
           ELSE \E a \in recorded :
                   Proposes(p, IF dispatch[a] = "settled" /\ plan[a] # NoPlan
                               THEN plan[a].outcome ELSE "reconcile")
    /\ UNCHANGED <<row, store, paid, faults>>

(* A reservation is refused while any dispatch of the operation is         *)
(* unresolved, and once its own attempt was dispatched.  (The slip: only   *)
(* its own attempt is looked at.)                                          *)
BlockedByOwn(a) == dispatch[a] \in {"dispatched", "held", "settled"}
Blocked(a) == (\E b \in Attempts : Unresolved(b)) \/ dispatch[a] = "settled"

(* currentLease and reserve_plan_dispatch.  The lease found is any live    *)
(* one of the worker's id, whatever its epoch; ids are assumed distinct    *)
(* (the default is made from the pid), so it is this worker's.             *)
Reserve(p) ==
    /\ At(p, "reserve")
    /\ IF ~OpLive \/ op.owner # p
       THEN Releases(p, "held") /\ UNCHANGED <<dispatch, latest>>
       ELSE IF Accepted
       THEN Releases(p, "error") /\ UNCHANGED <<dispatch, latest>>
       ELSE IF Blocked(Attempt(p))
       THEN Proposes(p, "reconcile") /\ UNCHANGED <<dispatch, latest>>
       ELSE /\ dispatch' = [dispatch EXCEPT ![Attempt(p)] = "dispatched"]
            /\ latest' = Attempt(p)
            /\ Goes(p, "buy")
    /\ UNCHANGED <<row, op, plan, receipt, knowledge, paid, faults>>

(* generateStructured: the provider executes the request and answers an    *)
(* outcome to apply or to hold, or its answer is invalid or gets lost; or  *)
(* it does not execute it at all.  The code cannot tell the failures apart.*)
Buy(p) ==
    /\ At(p, "buy")
    /\ \/ /\ paid' = [paid EXCEPT ![RequestOf[Attempt(p)]] = IF @ = 0 THEN 1 ELSE 2]
          /\ \E outcome \in Outcomes : Proposes(p, outcome)
       \/ Proposes(p, "reconcile") /\ UNCHANGED paid
    /\ UNCHANGED <<row, store, faults>>

(* A saved plan settles an open dispatch, or holds it for reconciliation.  *)
(* (The slip: any saved plan settles it.)                                  *)
SettledByAny(state, outcome) == IF state = "dispatched" THEN "settled" ELSE state
SettledBy(state, outcome) ==
    IF state = "dispatched" THEN IF outcome = "reconcile" THEN "held" ELSE "settled"
    ELSE state

(* The proposal is validated and save_plan run: the plan of an attempt is  *)
(* immutable until it is held.  A proposal that does not validate is held  *)
(* without a plan.                                                         *)
SavePlan(p) ==
    /\ At(p, "save")
    /\ LET a == Attempt(p)
           mine == worker[p].outcome
       IN  \/ /\ OpFence(p) /\ mine # "reconcile"
              /\ worker' = [worker EXCEPT ![p].pc = "hold", ![p].outcome = "none"]
              /\ UNCHANGED <<plan, dispatch>>
           \/ /\ Accepted
              /\ Releases(p, IF OpFence(p) THEN "error" ELSE "held")
              /\ UNCHANGED <<plan, dispatch>>
           \/ /\ ~Accepted /\ ~OpFence(p)
              /\ Releases(p, "held")
              /\ UNCHANGED <<plan, dispatch>>
           \/ /\ ~Accepted /\ OpFence(p)
              /\ plan[a] # NoPlan /\ ~plan[a].held
              /\ IF plan[a].outcome = mine
                 THEN worker' = [worker EXCEPT ![p].pc = "fresh", ![p].plan = plan[a].epoch]
                 ELSE Releases(p, "error")
              /\ UNCHANGED <<plan, dispatch>>
           \/ /\ ~Accepted /\ OpFence(p)
              /\ plan[a] = NoPlan \/ plan[a].held
              /\ plan' = [plan EXCEPT ![a] =
                     [outcome |-> mine, epoch |-> op.epoch, held |-> FALSE]]
              /\ dispatch' = [dispatch EXCEPT ![a] = SettledBy(@, mine)]
              /\ worker' = [worker EXCEPT ![p].pc = "fresh", ![p].plan = op.epoch]
    /\ UNCHANGED <<row, op, latest, receipt, knowledge, paid, faults>>

(* A plan to commit: it asks for effects, on the context as it still is.   *)
(* (The slip: a plan that asks to be held is not looked at.)               *)
CommitsFresh(p) == Attempt(p) = knowledge
Commits(p) == Attempt(p) = knowledge /\ worker[p].outcome = "apply"

(* checkPlanFreshness (targets_current): a plan whose context has changed  *)
(* is held, and so is one that asks for it.                                *)
CheckFreshness(p) ==
    /\ At(p, "fresh")
    /\ IF worker[p].lost \/ ~OpFence(p) THEN Releases(p, "held")
       ELSE IF Commits(p) THEN Goes(p, "commit")
       ELSE Goes(p, "hold")
    /\ UNCHANGED <<row, store, paid, faults>>

HeldPlan(p) ==
    LET saved == plan[Attempt(p)] IN saved.epoch # worker[p].plan \/ saved.held

(* commit: one transaction, which checks the context once more under the   *)
(* writer's lock.  A receipt answers before the lease is looked at; a      *)
(* receipt of another plan is an error.  The answer may get lost.          *)
Commit(p) ==
    /\ At(p, "commit")
    /\ IF Accepted
       THEN /\ Releases(p, IF receipt = Attempt(p) THEN "accepted" ELSE "error")
            /\ UNCHANGED <<receipt, knowledge, faults>>
       ELSE IF ~OpFence(p) \/ HeldPlan(p)
       THEN /\ Releases(p, IF OpFence(p) THEN "error" ELSE "held")
            /\ UNCHANGED <<receipt, knowledge, faults>>
       ELSE IF Attempt(p) # knowledge
       THEN Goes(p, "hold") /\ UNCHANGED <<receipt, knowledge, faults>>
       ELSE /\ receipt' = Attempt(p)
            /\ knowledge' = knowledge + 1
            /\ \/ Releases(p, "accepted") /\ UNCHANGED faults
               \/ faults < MaxFaults /\ Releases(p, "error") /\ faults' = faults + 1
    /\ UNCHANGED <<row, op, plan, dispatch, latest, paid>>

(* hold: the revision the worker carries, if any, can no longer be         *)
(* committed, and whatever dispatch is open waits for reconciliation.      *)
Hold(p) ==
    /\ At(p, "hold")
    /\ IF Accepted
       THEN Releases(p, "error") /\ UNCHANGED <<plan, dispatch>>
       ELSE IF ~OpFence(p)
       THEN Releases(p, "held") /\ UNCHANGED <<plan, dispatch>>
       ELSE /\ plan' = [plan EXCEPT ![Attempt(p)].held = @ \/ (~HeldPlan(p) /\ worker[p].plan > 0)]
            /\ dispatch' = [a \in Attempts |->
                   IF dispatch[a] = "dispatched" THEN "held" ELSE dispatch[a]]
            /\ Releases(p, "held")
    /\ UNCHANGED <<row, op, latest, receipt, knowledge, paid, faults>>

(* The finally block: releaseLease expires the lease if it still is this   *)
(* one; a failure is swallowed.                                            *)
ReleaseOp(p) ==
    /\ At(p, "release")
    /\ \/ /\ op' = IF op.owner = p /\ op.epoch = worker[p].epoch THEN [op EXCEPT !.left = 0] ELSE op
          /\ UNCHANGED faults
       \/ /\ faults < MaxFaults /\ faults' = faults + 1
          /\ UNCHANGED op
    /\ Ends(p, worker[p].result)
    /\ UNCHANGED <<row, plan, dispatch, latest, receipt, knowledge, paid>>

(* Slips: a held work counts as written, and the result as a status.       *)
RowAfterRaw(p) == [row EXCEPT !.status = worker[p].result]
RowAfterAny(p) ==
    IF worker[p].result = "error" THEN Moved(row, "dead_letter") ELSE Moved(row, "complete")

(* The row: complete when the knowledge is accepted, retry_wait after a    *)
(* held failure, dead_letter after any other error, which is not typed as  *)
(* retryable.  A worker that lost its row lease leaves the row alone.      *)
RowAfter(p) ==
    CASE worker[p].result = "accepted" -> Moved(row, "complete")
      [] worker[p].result = "held"     -> Waiting(row, 1)
      [] worker[p].result = "error"    -> Moved(row, "dead_letter")

FinishRow(p) ==
    /\ At(p, "finish")
    /\ row' = IF ~worker[p].lost /\ Fence(row, p, "entity_leased") THEN RowAfter(p) ELSE row
    /\ Forgets(p)
    /\ UNCHANGED <<store, paid, faults>>
-----------------------------------------------------------------------------
(* The heartbeats.  The worker's runs while it processes the row, the      *)
(* writer's inside the operation; one that is refused or fails loses the   *)
(* row lease for the worker, and fences or fails the operation.            *)
BeatRow(p) ==
    /\ ~At(p, "idle") /\ ~worker[p].lost
    /\ \/ /\ MayBeat(row, p)
          /\ row' = Beaten(row)
          /\ UNCHANGED <<worker, faults>>
       \/ /\ ~MayBeat(row, p) \/ faults < MaxFaults
          /\ faults' = IF MayBeat(row, p) THEN faults + 1 ELSE faults
          /\ worker' = [worker EXCEPT ![p].lost = TRUE]
          /\ UNCHANGED row
    /\ UNCHANGED <<store, paid>>

InOperation(p) == worker[p].pc \in {"load", "propose", "reserve", "buy", "save", "fresh", "commit", "hold"}

RenewOp(p) ==
    /\ InOperation(p)
    /\ OpFence(p)
    /\ op' = [op EXCEPT !.left = OpTtl]
    /\ UNCHANGED <<row, plan, dispatch, latest, receipt, knowledge, paid, worker, faults>>

(* A call to Postgres fails: an untyped error, so not a retryable one.     *)
StorageFails(p) ==
    /\ faults < MaxFaults
    /\ \/ worker[p].pc \in {"claimed", "acquire"} /\ Ends(p, "error")
       \/ InOperation(p) /\ ~At(p, "buy") /\ Releases(p, "error")
    /\ faults' = faults + 1
    /\ UNCHANGED <<row, store, paid>>

(* The process dies with all it remembers.                                 *)
Crash(p) ==
    /\ ~At(p, "idle")
    /\ faults < MaxFaults
    /\ faults' = faults + 1
    /\ Forgets(p)
    /\ UNCHANGED <<row, store, paid>>

(* recoverExpiredLeases                                                    *)
RecoverRow ==
    /\ LeaseExpired(row) \/ RetryDue(row)
    /\ row' = Recovered(row, FALSE)
    /\ UNCHANGED <<store, paid, worker, faults>>

(* The lease part of sweepStaleResearchHolds                               *)
SweepRow ==
    /\ LeaseExpired(row)
    /\ row' = Swept(row, FALSE)
    /\ UNCHANGED <<store, paid, worker, faults>>

(* Another work's operation commits to the same knowledge.                 *)
OtherWrites ==
    /\ knowledge < MaxWrites
    /\ knowledge' = knowledge + 1
    /\ UNCHANGED <<row, op, plan, dispatch, latest, receipt, paid, worker, faults>>

(* The reconciliation CLI, with a provider record that the request was not *)
(* executed.  Assumed: the record is final, so no worker may still send    *)
(* it.  Not while a lease is live.                                         *)
ResolveDispatch(a) ==
    /\ ~OpLive
    /\ Unresolved(a)
    /\ paid[RequestOf[a]] = 0
    /\ \A p \in Workers : ~At(p, "buy")
    /\ dispatch' = [dispatch EXCEPT ![a] = "resolved_without_execution"]
    /\ UNCHANGED <<row, op, plan, latest, receipt, knowledge, paid, worker, faults>>

(* Leases and waits run out.  The freshness deadline is far beyond them    *)
(* and is not reached.                                                     *)
Tick ==
    /\ row' = [Aged(row) EXCEPT !.fresh = row.fresh]
    /\ op' = [op EXCEPT !.left = Max({@, 1}) - 1]
    /\ UNCHANGED <<plan, dispatch, latest, receipt, knowledge, paid, worker, faults>>

WorkerStep(p) ==
    \/ Prepare(p) \/ Acquire(p) \/ LoadPlan(p) \/ Propose(p) \/ Reserve(p)
    \/ Buy(p) \/ SavePlan(p) \/ CheckFreshness(p) \/ Commit(p) \/ Hold(p) \/ ReleaseOp(p)
    \/ FinishRow(p)

Next ==
    \/ \E p \in Workers :
          \/ ClaimRow(p) \/ WorkerStep(p) \/ BeatRow(p) \/ RenewOp(p) \/ StorageFails(p) \/ Crash(p)
    \/ \E a \in Attempts : ResolveDispatch(a)
    \/ RecoverRow \/ SweepRow \/ OtherWrites \/ Tick

Spec == Init /\ [][Next]_vars
-----------------------------------------------------------------------------
TypeOK ==
    /\ row \in Row
    /\ op \in OpLease
    /\ plan \in [Attempts -> Plan]
    /\ dispatch \in [Attempts -> DispatchState]
    /\ latest \in Attempts \cup {Nothing}
    /\ receipt \in Attempts \cup {Nothing}
    /\ knowledge \in Attempts
    /\ paid \in [Requests -> 0 .. 2]
    /\ worker \in [Workers -> Memory]
    /\ faults \in 0 .. MaxFaults

(* "The latest dispatch alone cannot establish absence", but at most one   *)
(* dispatch is ever unresolved, and it is the latest: the gate in front of *)
(* every processing, which looks at the latest only, misses none.          *)
UnresolvedIsLatest ==
    \A a \in Attempts : Unresolved(a) => a = latest

(* A paid answer that was settled is kept: its attempt has a plan, whose   *)
(* outcome a later attempt with the same request can use again.            *)
SettledHasItsAnswer ==
    \A a \in Attempts : dispatch[a] = "settled" => plan[a].outcome \in {"apply", "hold"}

(* What the provider executed is found again: whatever got lost, a later   *)
(* attempt with the same request finds the dispatch that paid for it.      *)
PaidIsFoundAgain ==
    \A r \in Requests : paid[r] > 0 => Recorded(r) # {}

(* Accepted effects are those of a plan that was never held.               *)
HeldIsNotAccepted ==
    Accepted => plan[receipt].outcome = "apply" /\ ~plan[receipt].held

(* SQLite and Postgres agree in the end that matters: a completed row has  *)
(* an accepted receipt, whichever lease its worker lost on the way.        *)
CompleteIsAccepted ==
    row.status = "complete" => Accepted

(* Every status change of the entity stage is one the transition table     *)
(* lists, those of recovery and sweep, which do not ask it, included.      *)
FollowsTransitionTable ==
    [][row'.status # row.status => CanTransition(row.status, row'.status)]_vars

(* Whatever crashes, expires, is replayed or reconciled, the operation     *)
(* keeps the writer's promise (AppliedOnce).                               *)
Promise == INSTANCE AppliedOnce WITH applied <- receipt

KeepsPromise == Promise!Spec
=============================================================================

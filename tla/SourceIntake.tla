---------------------------- MODULE SourceIntake ----------------------------
(***************************************************************************)
(* The way of an observation of the News source into research work, and    *)
(* the handover of the source between its legacy and its shared pipeline.  *)
(* All state is in the source's SQLite file, but the candidate queue with  *)
(* its delivery outbox (SqliteNewsStore) and the canonical tables          *)
(* (SqliteSignalPlatformStore) are written by separate transactions.       *)
(*                                                                         *)
(* An ingestor polls the feed (ingestDiscoveredNewsCandidates, intake mode *)
(* active); a backfill is the operator command that evaluates old          *)
(* candidates without admitting any (mode observe), under an adapter of    *)
(* its own: the same signal id, another payload.  An action is the code    *)
(* from one await to the next.  The legacy research worker, the shared     *)
(* research worker (SharedResearch, here only its claims) and the operator *)
(* of the ownership command act beside them.                               *)
(*                                                                         *)
(* Signals are numbered in the order they were observed in, by which both  *)
(* listings go.  One policy generation: a signal has at most one decision. *)
(* Work owed by a decision (repairAdmissions) does not arise: the decision *)
(* and its work are one transaction.                                       *)
(***************************************************************************)
EXTENDS SourceOwnership, FiniteSets, FiniteSetsExt

CONSTANTS
    MaxSignals,   \* bound: observations of the source
    Ingestors,
    Backfills,
    DrainLimit,   \* deliveries one drain attempts
    RetryLimit,   \* undecided signals one poll takes up again
    MaxFaults     \* bound: crashes and failed triages

ASSUME ActorAssumption == Ingestors \cap Backfills = {}
ASSUME LimitAssumption ==
    /\ {MaxSignals, MaxFaults} \subseteq Nat
    /\ {DrainLimit, RetryLimit} \subseteq Nat \ {0}

Signals == 1 .. MaxSignals
Actors == Ingestors \cup Backfills

VARIABLES
    authority,
    operation,   \* the ingestors whose run has an inflight operation row
    abandoned,   \* whether inflight rows of crashed runs are left
    queue,       \* status of each signal's row in news_candidate_observations
    outbox,      \* state of each delivery obligation
    kept,        \* the canonical signal, by the adapter its payload is from
    unit,        \* the decision with its disposition
    work,        \* the research work row, by its lease
    actor,       \* what each ingestor and backfill remembers
    faults

vars == <<authority, operation, abandoned, queue, outbox, kept, unit, work, actor, faults>>

(* "researching" also stands for research_queued; "stranded" is either in  *)
(* the database, of a legacy worker that died; "inert" is observed_only or *)
(* the end of a legacy research.                                           *)
QueueStatus == {"absent", "inert", "pending_research", "researching", "stranded"}

(* The disposition: active_intake with its work, or without any work,      *)
(* no_work_outcome and, of a decision in mode observe, observe_evaluation. *)
Unit == {"none", "research", "no_work"}

Memory ==
    [ pc      : {"idle", "list", "observe", "keep", "load", "decided", "acknowledge", "finish"},
      phase   : {"first", "second", "retry"},   \* drain, drain of what the poll found, retryUntriaged
      batch   : SUBSET Signals,                 \* listed and not yet attempted, oldest first
      failed  : SUBSET Signals,                 \* of the first drain: skipped by the second
      outcome : Unit ]

Idle == [pc |-> "idle", phase |-> "first", batch |-> {}, failed |-> {}, outcome |-> "none"]

Init ==
    /\ authority = NoAuthority
    /\ operation = {}
    /\ abandoned = FALSE
    /\ queue = [s \in Signals |-> "absent"]
    /\ outbox = [s \in Signals |-> "absent"]
    /\ kept = [s \in Signals |-> "absent"]
    /\ unit = [s \in Signals |-> "none"]
    /\ work = [s \in Signals |-> "absent"]
    /\ actor = [p \in Actors |-> Idle]
    /\ faults = 0
-----------------------------------------------------------------------------
source == <<authority, operation, abandoned>>
canonical == <<kept, unit, work>>

At(p, pc) == actor[p].pc = pc
Remembers(p, memory) == actor' = [actor EXCEPT ![p] = memory]
Goes(p, pc) == Remembers(p, [actor[p] EXCEPT !.pc = pc])
Current(p) == Min(actor[p].batch)

Oldest(n, signals) == {s \in signals : Cardinality({t \in signals : t < s}) < n}
Pending == {s \in Signals : outbox[s] = "pending"}

(* listSignalsMissingDecision, which does not look at the outbox.  (The    *)
(* slip: only what is still owed is taken up.)                             *)
UndecidedAndOwed == {s \in Pending : kept[s] # "absent" /\ unit[s] = "none"}
Undecided == {s \in Signals : kept[s] # "absent" /\ unit[s] = "none"}

(* The next of the batch, or what follows it.                              *)
Proceed(p, memory) ==
    LET after == IF p \in Backfills THEN Idle
                 ELSE CASE memory.phase = "first"  -> [memory EXCEPT !.pc = "observe"]
                        [] memory.phase = "second" -> [memory EXCEPT !.pc = "list", !.phase = "retry"]
                        [] memory.phase = "retry"  -> [memory EXCEPT !.pc = "finish"]
    IN  Remembers(p, IF memory.batch = {} THEN after ELSE [memory EXCEPT !.pc = "keep"])

Done(p) ==
    Proceed(p, [actor[p] EXCEPT !.batch = @ \ {Current(p)}, !.outcome = "none"])

(* ingest threw: the obligation stays pending, and the second drain of the *)
(* run does not try it again.                                              *)
Fails(p) ==
    Proceed(p, [actor[p] EXCEPT !.batch = @ \ {Current(p)}, !.outcome = "none",
                                !.failed = IF actor[p].phase = "first" THEN @ \cup {Current(p)} ELSE @])

(* ingest returned, admitted or held: in a drain it is acknowledged.       *)
Returns(p) ==
    IF p \in Ingestors /\ actor[p].phase # "retry" THEN Goes(p, "acknowledge") ELSE Done(p)

(* withSourceOwnershipOperation, for observations only: never refused, and *)
(* tracked as soon as there is an authority.                               *)
StartRun(p) ==
    /\ p \in Ingestors /\ At(p, "idle")
    /\ operation' = IF authority.state = "none" THEN operation ELSE operation \cup {p}
    /\ Goes(p, "list")
    /\ UNCHANGED <<authority, abandoned, queue, outbox, canonical, faults>>

(* The two drains and retryUntriaged list what they will attempt.  The     *)
(* second drain makes up for the failures it skips.  (The slip: it does    *)
(* not.)                                                                   *)
ListedOnce(p) ==
    CASE actor[p].phase = "first"  -> Oldest(DrainLimit, Pending)
      [] actor[p].phase = "second" -> Oldest(DrainLimit, Pending) \ actor[p].failed
      [] actor[p].phase = "retry"  ->
            IF Allows(authority, "shared") THEN Oldest(RetryLimit, Undecided) ELSE {}

Listed(p) ==
    CASE actor[p].phase = "first"  -> Oldest(DrainLimit, Pending)
      [] actor[p].phase = "second" ->
            Oldest(DrainLimit + Cardinality(actor[p].failed), Pending) \ actor[p].failed
      [] actor[p].phase = "retry"  ->
            IF Allows(authority, "shared") THEN Oldest(RetryLimit, Undecided) ELSE {}

List(p) ==
    /\ p \in Ingestors /\ At(p, "list")
    /\ Proceed(p, [actor[p] EXCEPT !.batch = Listed(p)])
    /\ UNCHANGED <<source, queue, outbox, canonical, faults>>

(* insertCandidateObservations: the rows of what the poll found and their  *)
(* obligations in one transaction.  The legacy queue gets the row only     *)
(* while the legacy collector is allowed.                                  *)
Observe(p) ==
    /\ p \in Ingestors /\ At(p, "observe")
    /\ \E n \in 0 .. MaxSignals :
          LET seen == Oldest(n, {s \in Signals : queue[s] = "absent"})
              status == IF Allows(authority, "legacy") THEN "pending_research" ELSE "inert"
          IN  /\ queue' = [s \in Signals |-> IF s \in seen THEN status ELSE queue[s]]
              /\ outbox' = [s \in Signals |-> IF s \in seen THEN "pending" ELSE outbox[s]]
    /\ Remembers(p, [actor[p] EXCEPT !.pc = "list", !.phase = "second"])
    /\ UNCHANGED <<source, canonical, faults>>

(* The operator's backfill reads a legacy candidate.                       *)
StartBackfill(p, s) ==
    /\ p \in Backfills /\ At(p, "idle")
    /\ queue[s] # "absent"
    /\ Remembers(p, [Idle EXCEPT !.pc = "keep", !.batch = {s}])
    /\ UNCHANGED <<source, queue, outbox, canonical, faults>>

(* ingest up to its first await: the signal is persisted before anything   *)
(* can fail, unless it is stored with another payload; a signal that       *)
(* retryUntriaged takes up is the stored one.  Where the shared intake is  *)
(* fenced the observation is held.  (The wrapper's look at the authority   *)
(* and mayAdmit are one here: the first only decides who persists.)        *)
Payload(p) == IF p \in Backfills THEN "legacy" ELSE "live"
Conflicts(p, s) == actor[p].phase # "retry" /\ kept[s] \notin {"absent", Payload(p)}
MayAdmit(p) == p \in Backfills \/ Allows(authority, "shared")

Keep(p) ==
    /\ At(p, "keep")
    /\ LET s == Current(p)
       IN  IF Conflicts(p, s)
           THEN Fails(p) /\ UNCHANGED kept
           ELSE /\ kept' = [kept EXCEPT ![s] = IF @ = "absent" THEN Payload(p) ELSE @]
                /\ IF MayAdmit(p) THEN Goes(p, "load") ELSE Returns(p)
    /\ UNCHANGED <<source, queue, outbox, unit, work, faults>>

(* After the capacity snapshot: a saved unit is resumed, and none of its   *)
(* outcomes is ever turned into work again; otherwise the triage decides,  *)
(* or fails.  In mode observe every decision withholds work.               *)
Load(p) ==
    /\ At(p, "load")
    /\ \/ /\ unit[Current(p)] # "none"
          /\ Returns(p) /\ UNCHANGED faults
       \/ /\ unit[Current(p)] = "none" /\ ~MayAdmit(p)
          /\ Fails(p) /\ UNCHANGED faults
       \/ /\ unit[Current(p)] = "none" /\ MayAdmit(p)
          /\ \E outcome \in IF p \in Backfills THEN {"no_work"} ELSE {"research", "no_work"} :
                Remembers(p, [actor[p] EXCEPT !.pc = "decided", !.outcome = outcome])
          /\ UNCHANGED faults
       \/ /\ unit[Current(p)] = "none" /\ MayAdmit(p)
          /\ faults < MaxFaults /\ faults' = faults + 1
          /\ Fails(p)
    /\ UNCHANGED <<source, queue, outbox, canonical>>

(* appendIntakeUnit: decision, disposition and work in one transaction,    *)
(* which conflicts with a decision saved meanwhile (theirs have different  *)
(* times) and which the admission trigger aborts when the source is not    *)
(* shared any more.  (Slips: the trigger is missing; the decision replaces *)
(* the one saved.)                                                         *)
FitsUnfenced(p, s) == unit[s] = "none"
FitsAgain(p, s) == actor[p].outcome = "research" => Allows(authority, "shared")
Fits(p, s) ==
    /\ unit[s] = "none"
    /\ actor[p].outcome = "research" => Allows(authority, "shared")

Commit(p) ==
    /\ At(p, "decided")
    /\ LET s == Current(p)
       IN  IF Fits(p, s)
           THEN /\ unit' = [unit EXCEPT ![s] = actor[p].outcome]
                /\ work' = [work EXCEPT ![s] = IF actor[p].outcome = "research" THEN "unleased" ELSE @]
                /\ Returns(p)
           ELSE Fails(p) /\ UNCHANGED <<unit, work>>
    /\ UNCHANGED <<source, queue, outbox, kept, faults>>

(* markSourceDeliveryDelivered, in the other store.                        *)
Acknowledge(p) ==
    /\ At(p, "acknowledge")
    /\ outbox' = [outbox EXCEPT ![Current(p)] = "delivered"]
    /\ Done(p)
    /\ UNCHANGED <<source, queue, canonical, faults>>

FinishRun(p) ==
    /\ At(p, "finish")
    /\ operation' = operation \ {p}
    /\ Remembers(p, Idle)
    /\ UNCHANGED <<authority, abandoned, queue, outbox, canonical, faults>>

(* The process dies; its operation row stays inflight.                     *)
Crash(p) ==
    /\ ~At(p, "idle")
    /\ faults < MaxFaults /\ faults' = faults + 1
    /\ operation' = operation \ {p}
    /\ abandoned' = (abandoned \/ p \in operation)
    /\ Remembers(p, Idle)
    /\ UNCHANGED <<authority, queue, outbox, canonical>>
-----------------------------------------------------------------------------
(* The legacy worker: claim, end, and what a new worker does with rows its *)
(* predecessor left.  Claims and requeues are fenced, ends are not.        *)
LegacyClaim(s) ==
    /\ queue[s] = "pending_research" /\ Allows(authority, "legacy")
    /\ queue' = [queue EXCEPT ![s] = "researching"]
    /\ UNCHANGED <<source, outbox, canonical, actor, faults>>

LegacyEnd(s) ==
    /\ queue[s] = "researching"
    /\ queue' = [queue EXCEPT ![s] = "inert"]
    /\ UNCHANGED <<source, outbox, canonical, actor, faults>>

LegacyCrash(s) ==
    /\ queue[s] = "researching"
    /\ faults < MaxFaults /\ faults' = faults + 1
    /\ queue' = [queue EXCEPT ![s] = "stranded"]
    /\ UNCHANGED <<source, outbox, canonical, actor>>

RecoverStaleWork ==
    /\ \E s \in Signals : queue[s] = "stranded"
    /\ Allows(authority, "legacy")
    /\ queue' = [s \in Signals |-> IF queue[s] = "stranded" THEN "pending_research" ELSE queue[s]]
    /\ UNCHANGED <<source, outbox, canonical, actor, faults>>

(* The shared worker's claim, and the end or the recovery of its lease.    *)
SharedClaim(s) ==
    /\ work[s] = "unleased" /\ Allows(authority, "shared")
    /\ work' = [work EXCEPT ![s] = "leased"]
    /\ UNCHANGED <<source, queue, outbox, kept, unit, actor, faults>>

SharedRelease(s) ==
    /\ work[s] = "leased"
    /\ work' = [work EXCEPT ![s] = "unleased"]
    /\ UNCHANGED <<source, queue, outbox, kept, unit, actor, faults>>

(* readSourceOwnershipObligations, read in the transaction of the change.  *)
(* (The slip: the research of the legacy queue is not an obligation.)      *)
DrainedShared ==
    /\ Pending = {}
    /\ \A s \in Signals : work[s] # "leased"
    /\ operation = {} /\ ~abandoned

Drained ==
    /\ Pending = {}
    /\ \A s \in Signals : work[s] # "leased" /\ queue[s] \notin {"researching", "stranded"}
    /\ operation = {} /\ ~abandoned

Operate ==
    /\ authority.revision < MaxRevision
    /\ \/ /\ MayInitialize(authority)
          /\ authority' = Initialized(authority) /\ UNCHANGED abandoned
       \/ /\ MayPause(authority)
          /\ authority' = Paused(authority) /\ UNCHANGED abandoned
       \/ /\ MayResume(authority, Drained)
          /\ \E owner \in Owner : authority' = Resumed(authority, owner)
          /\ UNCHANGED abandoned
       \/ /\ MayReconcile(authority) /\ abandoned
          /\ authority' = Reconciled(authority) /\ abandoned' = FALSE
    /\ UNCHANGED <<operation, queue, outbox, canonical, actor, faults>>

RunStep(p) ==
    \/ List(p) \/ Observe(p) \/ Keep(p) \/ Load(p) \/ Commit(p) \/ Acknowledge(p) \/ FinishRun(p)

Next ==
    \/ \E p \in Actors : StartRun(p) \/ RunStep(p) \/ Crash(p)
    \/ \E p \in Backfills, s \in Signals : StartBackfill(p, s)
    \/ \E s \in Signals :
          LegacyClaim(s) \/ LegacyEnd(s) \/ LegacyCrash(s) \/ SharedClaim(s) \/ SharedRelease(s)
    \/ RecoverStaleWork
    \/ Operate

Spec == Init /\ [][Next]_vars

(* Ingestors poll at an interval and run to their end, operators' commands *)
(* too once started.  Nobody has to start a backfill or change the         *)
(* authority.                                                              *)
FairSpec ==
    /\ Spec
    /\ \A p \in Actors : WF_vars(StartRun(p)) /\ WF_vars(RunStep(p))
-----------------------------------------------------------------------------
TypeOK ==
    /\ authority \in Authority
    /\ operation \subseteq Ingestors
    /\ abandoned \in BOOLEAN
    /\ queue \in [Signals -> QueueStatus]
    /\ outbox \in [Signals -> {"absent", "pending", "delivered"}]
    /\ kept \in [Signals -> {"absent", "live", "legacy"}]
    /\ unit \in [Signals -> Unit]
    /\ work \in [Signals -> {"absent", "unleased", "leased"}]
    /\ actor \in [Actors -> Memory]
    /\ faults \in 0 .. MaxFaults

(* While one pipeline runs the source the other has nothing in flight,     *)
(* not even work it claimed before there was an authority.                 *)
OneOwnerAtWork ==
    authority.state = "running" =>
        \A s \in Signals :
           /\ authority.owner = "shared" => queue[s] \notin {"researching", "stranded"}
           /\ authority.owner = "legacy" => work[s] # "leased"

(* Two that decide about a signal at once leave one decision, with the     *)
(* work that belongs to it.                                                *)
WorkMatchesDecision ==
    \A s \in Signals : work[s] # "absent" <=> unit[s] = "research"

(* What no command gets a paused source past: a row that a legacy worker   *)
(* died with, whose requeue the trigger refuses, and a delivery whose      *)
(* signal a backfill stored with its own payload, which each drain refuses.*)
(* Both are obligations of every resume, and reconcile_abandoned settles   *)
(* neither: such a source stays paused for good.                           *)
Blocked ==
    /\ authority.state = "paused"
    /\ \E s \in Signals :
          queue[s] = "stranded" \/ (outbox[s] = "pending" /\ kept[s] = "legacy")

StaysBlocked == [][Blocked => Blocked']_vars

Promise ==
    INSTANCE AdmittedOnce WITH
        stage <- [s \in Signals |->
                    CASE unit[s] = "research" -> "admitted"
                      [] unit[s] = "no_work"  -> "declined"
                      [] s \in Undecided      -> "kept"
                      [] unit[s] = "none" /\ s \in Pending \ Undecided -> "owed"
                      [] OTHER                -> "unseen"],
        acknowledged <- {s \in Signals : outbox[s] = "delivered"},
        open <- Allows(authority, "shared")

(* Crashes between the two stores, repeated deliveries, failures and       *)
(* changes of the authority between a look at it and the write keep the    *)
(* promise of intake (AdmittedOnce).                                       *)
KeepsPromise == Promise!Spec

(* An obligation whose signal a backfill did not store with its payload    *)
(* first is delivered in the end, however many before it keep failing up   *)
(* to the drain's limit.                                                   *)
DeliveredInTheEnd ==
    \A s \in Signals :
       outbox[s] = "pending" ~> (outbox[s] = "delivered" \/ kept[s] = "legacy")

(* While the shared pipeline stays in charge every observation is decided, *)
(* also one that was held, or whose triage failed or was fenced.           *)
DecidedInTheEnd ==
    (<>[](authority.state = "running" /\ authority.owner = "shared")) =>
        \A s \in Signals : outbox[s] # "absent" ~> unit[s] # "none"
=============================================================================

# Verification of myboon's research pipeline

myboon collects signals from news and prediction markets, researches them with
paid model calls, and turns the result into stories. This directory holds TLA+
models of the part of that system where mistakes cost money or lose work: the
intake of observations and the handover of a source between its two pipelines,
the research workers and the rows and leases they share, the ledger that
reserves and accounts for every paid call, the contained executions of deep
research, the entity workers and the knowledge they write, and the limiter that
bounds Hermes processes. TLC checks the models on small instances; TLAPS proves
the guarantees of the ledger, the research workers and their chain of purchases,
the limiter, the deep stage, the knowledge operation and intake for every
instance.

Paths below are relative to `src/packages/collectors/src/` unless they start
with `src/`.

## 1. Inventory

### Processes and stores

PM2 (`src/ecosystem.config.cjs`) runs one process per lane. The process that
matters here is `myboon-feed-v3-research`: it hosts two `SharedResearchWorker`s
(urgent and background) over one SQLite database per source (news, polymarket),
a poll that runs the stale-hold sweep and then the recovery of expired leases,
and the deep-research runtime. A second process, `myboon-feed-v3-entity-manager`,
takes finished research from the same databases and writes knowledge to Postgres
through one SQL function, `writer_v1`. The lane processes of a source (its
ingestor and its older, "legacy" research worker) work on the same file, and an
ownership table in it says which of the two pipelines may take new work.
Operators use CLIs on the same files: work recovery, reservation reconciliation,
runtime control. SQLite's `BEGIN IMMEDIATE` makes one store method atomic;
nothing is atomic across an `await`, across databases, or between a database and
a provider.

| component | state it keeps | operations | interacts through |
|---|---|---|---|
| work rows (`signal-platform/sqlite-platform-store.ts`, `state-machine.ts`) | status, lease, attempts, retry target, freshness; evidence, manifests, packets, readiness | admit, claim, begin, heartbeat, transition, release, commit checkpoint, commit handoff, recover, sweep | every worker, the poll, operators |
| shared research worker (`research-engine/shared-worker.ts`) | memory only: the lease and what the stage has produced | retrieval stage, synthesis stage | store, retriever, purchase, scheduler |
| primary synthesis purchase (`research-engine/durable-synthesis.ts`) | immutable records `request`, `packet`, `rejected_response`, `unknown_outcome` | one purchase of a synthesis, or its replay | ledger, gateway |
| budget ledger (`research-engine/assignment-budget.ts` over `researchBudgetStore`) | reservation rows, limits of a root | claim, intent, unknown, release, fence, settle | purchases, sweep, reconciliation CLI |
| operator recovery (`signal-platform/operator-recovery-sqlite.ts`) | audit events | put stopped work back | work rows |
| scheduler (`signal-platform/shared-scheduler.ts`) | none | peek all sources in priority order, claim the first that can be had | work rows |
| Hermes limiter (`hermes/limiter.ts`) | one lock file per slot | acquire, release | every process that calls Hermes |
| bounded follow-up (`research-engine/bounded-followup.ts`, `durable-classification.ts`) | immutable records `admission`, `intent`, `decision`, `captures`, results, `final_packet`; two more reservations | ask whether a follow-up is worth it, gather, buy it, resolve | ledger, gateway, retriever |
| article workflow (`research-engine/article-placement.ts`, `durable-article-proposal.ts`, `context-availability.ts`) | classification and proposal results; their reservations | place the article, have an entity proposed, then synthesize | ledger, gateway, managed catalogue |
| deep research worker (`deep-research/worker.ts`, `executor.ts`, `sqlite-execution-registry.ts`) | execution registry; systemd units and workspaces | contained run, packet, handoff, promotion | work rows, systemd |
| entity worker (`entity-manager/shared-worker.ts`, `managed-canonical-processor.ts`, `progression-processor.ts`, `postgres-knowledge-writer.ts`, `src/supabase/migrations/20261003090000_*.sql`) | knowledge operations in Postgres: lease, plans, paid dispatches, holds, receipt | plan, buy, save, commit, hold; reconcile a dispatch | work rows, Postgres, gateway |
| intake and outbox (`signal-platform/source-intake.ts`, `signal-intake.ts`, `active-triage.ts`, `source-delivery-outbox.ts`, `news/`) | candidate queue, delivery obligations, signals, decisions | poll, drain, ingest, triage, admit, backfill | lane store, work rows |
| source ownership (`signal-platform/source-ownership.ts`) | authority and operations of a source; fences as triggers | initialize, pause, resume, reconcile, track a run | intake, both pipelines |
| inference gateway (`inference-gateway/gateway.ts`) | circuits, budgets of a call | readiness, call with limits | providers |
| pipeline store (`pipeline-store/`) | the older ledger of the lanes | stage records, backup, prune | collectors |
| collectors, editorial lanes, API, apps, scout/analyst/reader packages, SQL | their own tables | polling, drafting, reading | not part of the research path |

### What makes each hard, and what makes it correct

* **Ledger.** A call reads, awaits, then writes with a condition; owners crash
  between commitment and call, answers come late, operators fence. Correct: one
  dispatch for a row, one live exposure for an allowance, a root within its
  limit, terminal rows final, a dispatched call never accounted as free.
* **Worker and purchase.** A lease may expire in the middle of anything;
  another worker, the recovery poll, the sweep or an operator then acts on the
  same row. Correct: at most one purchase for each allowance of a root whatever
  happens, every purchase made in its place in the chain, the packet handed off is
  the saved one and is paid for, a handed-off work is never researched again, and
  every lease and retry is resolved in the end.
* **Work rows.** Three writers (recovery, sweep, handoff) do not use the
  transition table. Correct: they follow it all the same; lease fields and
  status agree.
* **Limiter.** File-system calls of separate processes interleave; processes
  die with locks. Correct: holders keep their locks, no more holders than slots,
  and dead locks do not use up the budget.
* **Deep worker.** Its units outlive it; it appends the packet without a fence
  and hands the row on in two calls. Recovery and the sweep take an expired lease
  without asking whether its unit runs. Correct: whatever runs is registered, a
  worker whose lease holds never retries or hands on with its own unit running, a
  unit is left alone only by a crash or a failed call, a saved packet is handed on,
  a row past the stage has one.
* **Entity worker.** The row's lease is in SQLite, the knowledge and a second
  lease in Postgres; they expire apart. Plans go stale while they are bought and
  saved. Correct: no planning request is paid twice, the effects are applied once
  and on the state they were decided on, a held plan is not applied, a complete
  row has its receipt.
* **Intake and ownership.** Delivery is at least once between two stores; the
  fence is looked at before awaits; operators hand the source over while both
  pipelines have work. Correct: kept before acknowledged, decided once, admitted
  only while the source is the shared pipeline's, one pipeline at work, everything
  observed is delivered and decided in the end.
* **Gateway, scheduler** (planned): a circuit shared by callers; strict priority.

`PROJECT.json` lists each hazard at its line, with the property that covers it
or the reason none does yet.

## 2. Modules

| module | models | notes |
|---|---|---|
| `WorkStatus` | statuses, transition table, pending/leased pairing | no state |
| `WorkRow` | one work row and the store's conditional updates on it | condition and new row as separate operators |
| `AssignmentBudget` | one reservation row and the ledger's decisions about it | what was read (`seen`) and what the write meets (`r`) are separate arguments |
| `BudgetLedger` | the ledger of one root, shared by owners | one action per await-free piece of each call; `sent` counts requests that reached the transport and is read by no action |
| `PaidOnce` | abstract: free, held, committed, then charged; held may be refunded; called at most once, after commitment | implemented by `BudgetLedger` and by `SharedResearch` |
| `SharedResearch` | both worker stages, the chain of purchases of a work with the follow-up and the article workflow, recovery, sweep, operator recovery, crashes, the clock | uses `WorkRow` and `AssignmentBudget` |
| `DeepResearch` | one deep work: worker, executor, registry, units, crashes, recovery and the lease part of the sweep | on `WorkRow` |
| `KnowledgeOperation` | one work in the entity stage: both leases, recovery and sweep of the row's, plans, paid dispatches, commit and hold, other works' writes, operator | on `WorkRow` |
| `AppliedOnce` | abstract: a request is paid at most once, effects applied at most once, on the state they were decided on | implemented by `KnowledgeOperation` |
| `SourceOwnership` | the authority over a source and the operator's changes of it | no variables |
| `SourceIntake` | ingestor, backfill, outbox, canonical rows, the claims of both pipelines, the operator | on `SourceOwnership` |
| `AdmittedOnce` | abstract: owed, kept, then declined or, while open, admitted; acknowledged once kept | implemented by `SourceIntake` |
| `HermesLimiter` | acquire and release, one action per file-system call | independent of the rest |
| `MC*` | instances for TLC | constants and symmetry only |
| `SumLemmas` | no part of the code: the sum of a function over a finite set | for the limit of a root |
| `*_proofs` | theorems of `BudgetLedger`, `SharedResearch`, `HermesLimiter`, `DeepResearch`, `KnowledgeOperation`, `SourceIntake` | `WorkRow_proofs` has the lemmas about the store's row updates that three of them share |

The work row is what the research modules share: `SharedResearch` takes a work
from admission to `entity_pending`, `DeepResearch` from `deep_pending` to
`entity_pending` in place of the synthesis, `KnowledgeOperation` from there to
`complete`, each with `WorkRow`'s claims, fences and recovery. `SourceIntake`
ends where a work is admitted; the shared worker is there only as the claims
that a handover has to wait for.

**How state corresponds.** `row[w]` is a line of `signal_platform_research_work`;
its timestamps are the ticks left until them, so `lease_expires_at <= now` is
`lease = 0`. `disk[w]` is what tables and V4 records hold for a work.
`rsv[<<w, a>>]` is the row of allowance `a` of the work's root (the attempt
identity is a function of root and allowance, so there is one),
`calls[<<w, a>>]` the requests dispatched for it: one dispatch of a classifier may make up to three provider
calls under one reservation. `flow[w]` is fixed at the start and says what the
work's configuration and material turn out to need:

| flow | purchases, in order | code |
|---|---|---|
| `ordinary` | `primary`, or none when a compatible packet is reused | `synthesizeWithV4` |
| `exhausted` | the same; a follow-up is configured and no approved source is left | `bounded-followup.ts:67` |
| `followup` | `primary`, `value`, `followup` | `runBoundedFollowup` |
| `placed` | `placement`, `primary` | `synthesizeArticleWithV4` |
| `proposed` | `placement`, `proposal`, `primary` | the same, no entity found |

`worker[p]` is the JavaScript stack of a worker: `pc` names the await it is at. `ledger[k]` is a
row under its allowance and attempt. `file[s]` is the lock file of a slot.
`unit[u]` is a systemd unit with its workspace and its registry line. In
`KnowledgeOperation`, `op` is the operation's lease, `plan[a]`, `dispatch[a]` and
`receipt` are its rows by attempt, an attempt is a captured context, and
`knowledge` counts all writes that would make a context stale; `paid` is history
and no action of the code reads it. In `SourceIntake`, `queue` and `outbox` are
the lane store, `kept`, `unit` and `work` the canonical tables, `operation` and
`abandoned` the tracked runs.

**How actions correspond.** An action is what runs between two awaits, or one
store transaction. A heartbeat check followed by a fenced write is part of the
write, which repeats the fence. `stillOwnsLease` before the dispatch intent
(`durable-synthesis.ts:79`) is an action of its own (`CheckOwnership`), because
the intent after it is fenced by the reservation, not by the lease. A crash
forgets `worker[p]` and nothing else. `PROJECT.json` maps every definition to
its lines.

**Assumptions of the models.**
* The V4 policy is active (`synthesizeWithV4`). The purchases share the steps of
  one discipline (`Buys`), because the four files repeat it; where they differ
  the step says so: what is read before the claim (`HasResult`), which calls can
  tell an abort (`CallAborted`), what a classifier does when its own settlement
  fails (`AfterRefusal`), where a refused purchase leaves its work (`Refused`).
* Articles: one `placement` stands for the classifications an article needs, one
  after the other, each with a reservation of its own. Their requests carry the
  catalogue as it is at the time, so a replay may be refused
  (`attempt_identity_mismatch`) when the catalogue has changed; the model lets
  `ListReservations` refuse it at any time. The same steps under the remaining
  classifications add nothing the one does not show.
* Some records of the follow-up carry the time they were made (`admission`,
  `intent`, non-empty `captures`), so that writing one that exists fails.
* The paid novelty classification of an ordinary work, made before the baseline is
  read, is left out, with the route of a known observation.
* `sweep` forgets itself when nothing is left to do; the code's sweep then returns.
* An action on a source database does not fail half-way (SQLite). A failure of a
  store call as a whole is an outcome where the code distinguishes it
  (`StoreFails`, `RetrievalFails`, `Crash` for the handoff).
* The sweep runs in its apply mode; the report mode changes nothing. Its limit
  (100 rows) is not reached. Recovery's limit is modelled.
* A packet without a readiness decision, and `completeSavedHandoff`, are not
  reached by a shared worker: packet and decision are committed with the status
  that leaves the stage, and operator recovery sends a work with a packet to
  `entity_pending` (`HandedOffIsPastResearch` checks this).
* A saved answer never reports more calls than the reservation's limit; the
  gateway enforces the limit before each call.
* Deep worker: a unit writes one result; the work's linkage does not change
  between two leases; the audit of orphans is a report and changes nothing.
* Entity worker: worker ids are distinct (`currentLease` finds any live lease of
  the id, `managed-canonical-processor.ts:181`; the default id is made from the
  pid). The operator's record that a request was not executed is final. A call
  to Postgres that fails has no effect, except a commit, whose answer may be lost
  after it took effect.
* Intake: News in mode active, one policy generation, one payload for a signal
  from the feed and another from the legacy adapter. A feed that repeats an
  identity with another payload aborts the poll (`news/ingestion.ts:151`) and is
  left out.
* Limiter: a process has one acquisition at a time, a dead pid is not reused.
  A live process may take longer than the grace period to write its metadata
  (`slow` counts how often); another may then take its lock away, which the code
  does not prevent, so what is promised of holders is promised while that has not
  happened.

## 3. Runs

| run | instance | what it shows |
|---|---|---|
| `MCBudgetLedger_workers` | 2 owners, 2 allowances of 2 attempts, 2 calls reserved each, root limit 3 | types, without fences: one dispatch per row, no dispatched call ever reads as free, root within limit, refinement of `PaidOnce` |
| `MCBudgetLedger_fenced` | 2 owners, one may fence up to epoch 2; 1 allowance of 2 attempts | one live exposure per allowance and final terminal rows, also with fences |
| `MCBudgetLedger_fence_race` | 2 owners, one fences, 1 row | **violated** `CallNeverDisappears` |
| `MCBudgetLedger_unknown_race` | 2 owners, 1 row, no fence | **violated** `UnknownClosesOnFinding` |
| `MCSharedResearch_purchase` | 2 workers, 1 work of flow ordinary, followup or proposed, lease of 1 tick, freshness of 2, 2 attempts, 1 operator recovery | each purchase at most once (`PaidOnce` over work and allowance), in its order (`SpendsInOrder`), paid before handed off, packet is the saved record, handed-off work stays past research, lease and status agree |
| `MCSharedResearch_quiet` | 1 worker, a standard and a deep work of flow exhausted, recovery of one row per pass, no operator | every lease and retry of these two works resolves, due retries behind expired leases included; every change, those of recovery, sweep and handoff included, follows the transition table |
| `MCHermesLimiter_reclaim` | 4 processes, 2 slots, 2 crashes, 1 slow writer | holders keep their locks while nobody crashed and no writer was slow; dead locks do not take the whole budget for good |
| `MCHermesLimiter_crash` | 3 processes, 1 slot, 1 crash, no slow writer | **violated** `AtMostMaxConcurrency` |
| `MCDeepResearch_contained` | 2 workers, 2 units, 2 attempts, 1 fault | units are registered, a worker leaves nothing of its own running behind a retry or a handoff, only faults leave a unit unattended (`LeftOnlyByFaults`), packet before handoff, the unit of a saved packet is over and cleaned up, a saved packet is handed on |
| `MCDeepResearch_stranded` | 1 worker, 1 unit, 1 fault | **violated** `CrashStrandsNothing` |
| `MCKnowledgeOperation_promise` | 2 workers, 2 acquisitions of the lease, contexts with requests A, B, A, B, 2 writes of other works, 1 fault | refinement of `AppliedOnce`; the gate misses no unresolved dispatch, what was paid is found again, paid answers are kept, held plans are not applied, a complete row has a receipt |
| `MCSourceIntake_handover` | 1 ingestor, 1 backfill, 2 signals, drain limit 1, 3 changes of the authority, 1 fault | refinement of `AdmittedOnce`; one pipeline at work, work matches decision, a blocked pause lasts, delivery and decision in the end |

**Why the bounds are enough.** Two owners or workers give every race between a
read and a write; a third adds no new pair. A second allowance and a second
attempt are what the root limit and the unique index tell apart; a limit of 3
with reservations of 2 leaves room only when a settlement frees a call. The
flow `placed` is `proposed` without its second purchase; one work is enough for
the chains, which share nothing between works but workers. A
lease of one tick lets it expire at every await, and a freshness of two lets it
expire twice while the work is still claimable; `HoldTtl` 1 lets the sweep meet
every open hold. One operator recovery after any stop is enough for the work to be
bought a second time if anything allowed it. Three processes on the limiter are
a dead holder and two waiters, what its reclaiming races need; with one slot two
holders are already too many, and with two slots and two crashes two are left to
compete. With two deep units the second is started while the first still runs (after a
lease that expired and was swept or recovered), and
one fault between the two is a crash at any call or any call that fails. Two
acquisitions of the operation's lease let a second worker take over from a first
that goes on unaware; two writes of other works make a context stale twice, so
that its request is A, then B, then A again. Two signals under a drain limit of
1 let an old delivery that fails stand before a new one; three changes of the
authority are initialize, resume for one pipeline and pause, or a resume at once
after the second, with every action of both pipelines in between. The quiet run has a fixed set of works (what an endless stream of
expiring leases does to a due retry is not in it) and one worker, because its question is about
rows and not about races (that the table is followed is proved for any number), and a recovery limit of 1 against two works, so
that expired leases compete with due retries. Counters are capped by named
constants: `MaxEpoch`, `MaxAttempts + 1`, `MaxRequeues`, `MaxCrashes`, `MaxSlow`, `HoldTtl`.

**Deadlock.** Checked for all but the research runs.
The research runs turn it off: when every work is complete or stopped, no clock
is left to run and no operator is allowed another recovery, the model stops, as
the system idles.

**Fairness.** `SharedResearch!FairSpec`: time passes; the recovery poll runs
(it is an interval of the research process); a worker that is not crashed
finishes the step it is in, because every fetch and provider call has a timeout.
Nothing is promised of claims, crashes, sweeps, heartbeats or operators, so
`EventuallyQuiet` holds with workers that die in every lease: freshness stops
the claims. `HermesLimiter!FairSpec`: a live process continues, as stages keep
calling Hermes and Hermes calls have a timeout, and the grace period passes.
`DeepResearch!FairSpec`: workers poll and finish their calls (each has a time
limit), recovery runs, systemd ends a unit at its `RuntimeMaxSec`, time passes.
Strong fairness is assumed of two steps, from a claim to the handoff of a packet
that is already saved, while the lease holds: they are two local calls, and a
lease lasts minutes; weak fairness would let the lease expire before them each
time. `SourceIntake!FairSpec`: ingestors poll at an interval and finish their
runs, a backfill once started finishes. Nobody must start a backfill or change the
authority, and both legacy and shared workers may stop.

## 4. Findings

1. **A fence can make an in-flight call disappear**
   (`assignment-budget.ts:308`). `acquireLeaseFence` writes back the state it
   read, and its condition accepts any open state at the same epoch; a dispatch
   intent does not change the epoch. An intent recorded in between is undone, and the
   release that the reconciliation CLI performs next refunds a call that was
   made. The CLI's requirement of a paused source narrows the window.
2. **An unknown outcome can be closed without a finding**
   (`assignment-budget.ts:412`). The rule about unknown outcomes is applied to
   the row that was read, not to the row that is written.
3. **Reclaiming a dead lock can remove a live one** (`hermes/limiter.ts:93`).
   Re-reading before `unlinkSync` narrows the race but does not close it.
4. **A deep work can be stranded between two calls**
   (`deep-research/worker.ts:341`). The row is moved to `research_ready`, without
   a lease, and promoted in a second call. When the worker dies in between, or
   that call fails, nothing takes the row up again, against the platform's
   "A crashed worker cannot strand work." The packet is saved; an operator has to
   promote the row. `SavedPacketIsHandedOff` shows the rest of the stage does
   recover; `StrandedForGood` proves that this row never does.

More observations, which no document of the repository contradicts. A replayed
article is placed again before its paid packet is looked at
(`shared-worker.ts:1031`), so that a catalogue that changed since sends a work
with a paid, settled packet to `dead_letter`. A follow-up that crashed after it
recorded that no source is left cannot record it again
(`bounded-followup.ts:68`, the record has a new time) and is dead-lettered, though
its baseline is paid for. Both are steps of the model (`ListReservations`,
`Admit`), and the money is accounted for; an operator's recovery does not help
either. Two others are listed as hazards: a legacy worker that dies in its research, followed by a
pause of the source, leaves a source that no command can resume
(`source-ownership.ts:421`), because the row blocks every resume and its requeue
is fenced; and a backfill that stores a signal before its delivery was drained
leaves a delivery that can never be acknowledged
(`sqlite-platform-store.ts:2272`), which blocks a resume as well. `StaysBlocked`
states that neither pause ever ends.

Two more concern leases that are taken away. The recovery
(`sqlite-platform-store.ts:978`) and the sweep (`sqlite-platform-store.ts:1576`)
send a deep work whose lease expired to its next claim without asking whether its
unit still runs, so that two units of one work may run side by side; the PRD's
"guaranteed cleanup verification before the lease is released"
(`src/docs/modules/entity-manager/PRDs/2026_08_26_feed_v3_signal_to_knowledge_platform_PRD.md:1067`)
speaks of a release, which a worker does, and that is what `LeavesNothingRunning`
checks. `LeftOnlyByFaults` bounds the rest: the worker of a lost lease still stops
its unit, unless it crashed or a call of its failed. And a live process that needs
longer than the grace period of one second between creating its lock file and
writing it loses the lock (`hermes/limiter.ts:98`), after which two processes
may hold one slot.

The guarantees that do hold with fences (`OneExposurePerAllowance`,
`TerminalIsFinal`) and those that hold only without them are separated in the runs.

Findings 1 to 3 are three places where the code decides on what it read and
writes over what it finds. The theorems say that nothing else is missing there:
`FenceMeetsWhatItRead`, `SettleMeetsWhatItRead` and `ReclaimsAbandoned` are the
comparisons the code does not make, and from each of them the property its run
refutes is proved, for every instance. They are premises about steps; the models
do not have them.

## 5. Proofs

`BudgetLedger_proofs` proves, for any sets of owners, allowances and attempts
and any limits:

| theorem | statement |
|---|---|
| `LedgerTypeCorrect` | `Spec => []TypeOK` |
| `TerminalNeverChanges` | `Spec => TerminalIsFinal` |
| `OneExposure` | `Spec => []OneExposurePerAllowance` |
| `LimitIsKept` | `Spec => []ExposureWithinLimit` |
| `CallsAreNotForgotten` | `Spec /\ [][FenceMeetsWhatItRead]_vars => []CallNeverDisappears` |
| `OneDispatchPerRow` | `Spec /\ [][FenceMeetsWhatItRead]_vars => []SingleDispatch` |
| `LedgerPaysOnce` | `Spec /\ [][FenceMeetsWhatItRead]_vars => PaysOnce`, the refinement of `PaidOnce` |
| `UnfencedLedgerPaysOnce` | `(Fencers = {}) /\ Spec => PaysOnce` |
| `HoldClosesOnFinding` | `Spec /\ [][SettleMeetsWhatItRead]_vars => UnknownClosesOnFinding` |

They rest on the constants' assumptions only: allowances and attempts exist,
`NoResult` is not a result, limits and `MaxEpoch` are numbers and, but for the
root's, positive. The first four hold with any fences.

*Argument.* `LedgerWrites` reduces any step to no write or one of six writes
of one row from a state that is not terminal; `TerminalIsFinal` and
`OneExposurePerAllowance` follow from the form of these writes and the type
invariant.

`ExposureWithinLimit` needs `LimitInv`. An open row counts for its full
reservation (`OpenOwesAll`), so that a settlement never raises what it counts
for, and the rows that count are finitely many, though owners and keys need not
be. A step is then one of two (`LedgerAccounts`): a row that exists already counts
for no more than before, or one row is inserted that fits what the others leave.
What that does to the sum is `SumLemmas`: sums of a function over a finite set,
with an element added or removed and with smaller terms. The fold they are
defined by is recursive over sets, and induction is not to be had; each lemma
there considers a counterexample of least size instead, and before anything
else that sums exist (`SumsExist`) and are unique (`SumsAgree`).

`SingleDispatch` and `CallNeverDisappears` are not inductive: a state with two
owners past their intent satisfies neither's step. `ArmedIsAlone` strengthens
them: an owner between its intent and its dispatch is alone on a row that is
committed and has sent nothing, and a row sends at most once and only when
committed. Every action is shown to keep it (`ArmedStep`), using that a committed
row stays committed (`CommittedStays`), which is exactly what a fence may break
(finding 1). Hence the premise that a fence which goes through finds the state it
had read, about the steps and not about who may fence; owners of whom none fences
satisfy it trivially. The refinement maps a row's state to its phase (`PhaseOf`),
`sent` to the calls, each write to a step of one purchase, and every read to a
stutter. `HoldClosesOnFinding` carries what an owner decided from its read to its
write (`SettlersMay`); without its premise it is finding 2.

`SharedResearch_proofs`, for any workers, works, flows, depths, times and limits:

| theorem | statement |
|---|---|
| `ResearchTypeCorrect` | `Spec => []TypeOK` |
| `LeasesMatch` | `Spec => []LeaseMatchesStatus` |
| `HandoffIsFinal` | `Spec => []HandedOffIsPastResearch` |
| `TableIsFollowed` | `Spec => FollowsTransitionTable` |
| `ResearchPaysOnce` | `Spec => PaysOnce`, the refinement of `PaidOnce` |
| `HandoffIsTheRecord` | `Spec => []PacketIsBaseline` |
| `AccountsAreClosedFirst` | `Spec => []BoughtIsSettled` |
| `SpendingIsOrdered` | `Spec => []SpendsInOrder` |

They assume that works exist, that the deep ones are among them, that times and
limits are positive and that nobody's name is `NoWorker`.

*Argument.* Three invariants, each proved under the ones before it.

* `RowInv`: the row. A step changes the status of a row only from a stage of
  research, along the table, and either keeps the lease as it is or drops it
  (`RowStep`); a worker keeps its work and its stage until it forgets them (`Turn`).
  A worker whose row was taken away is then no longer its owner, which is all
  `LeaseMatchesStatus` needs. A claim is the one step that gives a lease, and a
  handoff (`HandoffStep`) the one that saves a packet; both have the row's status
  in their condition.
* `PaidInv`: the money. A request is made only by a worker that wrote the
  dispatch intent itself, and that intent is written once, from the reserved
  state: no two workers are about to send for one purchase, and a purchase about
  to be sent was never called. Every other write moves a reservation forward
  (`Advances`), which is the refinement.
* `ChainInv`: the chain. The first two say nothing of what a worker still
  believes when others have moved on. `WorkFits` orders what is saved (a call
  implies everything its purchase rests on, `Prior`; a final packet implies its
  purchases are closed, `Backed`), and `MemoryFits` says the same of what a
  worker carries at each point. Both are monotonic: `Grows` lists what any step
  of anybody may do to a work's records, calls and accounts, and `MemoryGrows`
  shows that no such step makes another worker's memory wrong. `Valuing` is the
  exception: a decision is written over `none`, so the one who writes it must be
  alone. The intent, saved once, is what makes it so, and a worker is `Valuing`
  from its intent to its decision.

`HermesLimiter_proofs`, for any processes, slots, crashes and slow writers:

| theorem | statement |
|---|---|
| `LimiterTypeCorrect` | `Spec => []TypeOK` |
| `HoldersKeepTheirLocks` | `Spec => []HolderKeepsItsLock` |
| `BudgetKeptWithoutCrashes` | `Spec => [](alive = Processes /\ slow = 0 => AtMostMaxConcurrency)` |
| `BudgetKept` | `Spec /\ [][ReclaimsAbandoned]_vars => []AtMostMaxConcurrency` |

*Argument.* `HolderKeepsItsLock` is about the paths of holders, but what breaks it
is a process that decided earlier to unlink one. `Undisturbed` strengthens it:
as long as all processes live and no writer was slow, no file is old and none has a dead owner, so
nobody is on the way to a reclaim (`NothingToReclaim`), and a file is its
creator's from the exclusive open until it is dropped (`OwnsItsFile`). Two
processes cannot own one path, so that holders, mapped to their slots, are no
more than slots (`HoldersFitSlots`, by an injection). With crashes and slow writers the count
rests on less, `LivingOwnTheirPaths`: a live process owns its path from the open
to the drop. An unlink is the only step that can take it away, and only if it
removes the lock of a process that lives, which the premise excludes and
finding 3 shows to happen.

`DeepResearch_proofs`, for any workers, executions, attempts, times and faults:

| theorem | statement |
|---|---|
| `DeepTypeCorrect` | `Spec => []TypeOK` |
| `RunningIsKnown` | `Spec => []ActiveIsRegistered` |
| `PacketBeforeHandoff` | `Spec => []HandedOffHasPacket` |
| `NothingRunsOn` | `Spec => LeavesNothingRunning` |
| `DeepFollowsTable` | `Spec => FollowsTransitionTable` |
| `OnlyFaultsLeaveUnits` | `Spec => []LeftOnlyByFaults` |
| `PacketOfEndedUnit` | `Spec => []PacketOutlivesItsUnit` |
| `StrandedForGood` | `Spec => [](Stranded => []Stranded)` |

*Argument.* A worker that lost its lease goes on with its unit while another one
claims the row, so nothing about a unit follows from the row. `OwnUnits` is what
carries the proof: no two workers know the same unit, and only the worker that
knows it starts it. `UnitFits` then says what a worker knows of its unit by where
it is: registered and not running before its spawn, not running when its result is
read, at the handoff and at a failure that may be retried. `NothingRunsOn`
follows, because only the handoff and such a failure let go of a row whose lease
holds; recovery and the sweep need one that expired. `OnlyFaultsLeaveUnits` counts:
a unit that runs is attended by the worker that knows it, or it is left. A step of
one worker leaves at most the unit it knows, and only a step that counts a fault
does (`OneWorkerLeaves`), so that the count keeps up (`LeftGrows`); a worker that finds its lease lost stays with its
unit until it is stopped.
`PacketOutlivesItsUnit` needs more, because the packet names a unit that its
worker may still know: `PacketFits` says that a worker with a result has a unit
that is over, and that the one that saved the packet only goes on to hand it on.
`StrandedForGood` is finding 4 for every instance: once a row is `research_ready`
and no worker is at its promotion, no step changes either.

`KnowledgeOperation_proofs`, for any workers, contexts, requests, epochs, times and
faults:

| theorem | statement |
|---|---|
| `OperationTypeCorrect` | `Spec => []TypeOK` |
| `GateSeesUnresolved` | `Spec => []UnresolvedIsLatest` |
| `PaidAnswerKept` | `Spec => []SettledHasItsAnswer` |
| `HeldPlanNotApplied` | `Spec => []HeldIsNotAccepted` |
| `CompletedIsAccepted` | `Spec => []CompleteIsAccepted` |
| `PaidRequestsAreFound` | `Spec => []PaidIsFoundAgain` |
| `OperationFollowsTable` | `Spec => FollowsTransitionTable` |
| `OperationKeepsPromise` | `Spec => KeepsPromise`, the refinement of `AppliedOnce` |

*Argument.* `OperationInv` adds to the invariants what the workers and the tables
know of each other. `LeaseFits`: a worker's epoch is the operation's exactly while
it is its owner, so a fenced write is never one of an earlier acquisition.
`OneCounts`: of all attempts with the same request at most one was dispatched and
not proved unexecuted; `PurchaseFits`: a worker about to reserve saw none under
this lease, and one about to buy has the unresolved dispatch of its attempt and
an unpaid request; `OneBuys`: it is alone. `PaidCounts` and `SettledIsPaid` tie
the history of payments to the dispatches, and `PaidRequestsAreFound` follows from
the first: a payment has a dispatch that counts, and such a dispatch is the last
one or has its plan, which is all the search for a recorded attempt looks at. `CarriedFits`: the plan a worker
carries is the one saved at its epoch, or a newer one replaced it. Each action
is a lemma (`ReserveStep`, `BuyStep`, `SavePlanStep`, ...), and the steps that
only read are one (`ReadingStep`). The refinement maps `paid`, `knowledge` and
`receipt`: `Buy` is a payment, `Commit` an application, `OtherWrites` another's
write, and everything else stutters.

`SourceIntake_proofs`, for any signals, ingestors, backfills, limits and faults:

| theorem | statement |
|---|---|
| `IntakeTypeCorrect` | `Spec => []TypeOK` |
| `OnePipelineAtWork` | `Spec => []OneOwnerAtWork` |
| `DecisionHasItsWork` | `Spec => []WorkMatchesDecision` |
| `IntakeKeepsPromise` | `Spec => KeepsPromise`, the refinement of `AdmittedOnce` |
| `PausedForGood` | `Spec => StaysBlocked` |

*Argument.* `RowsAgree` relates the two stores (delivered is kept, kept is
observed), `MemoryIsTrue` what a run remembers to the rows it remembers it about:
a run past the write of a signal works on one that is kept. Neither is inductive
without the other. `OneOwnerAtWork` holds because a resume sees both pipelines
drained in the transaction that changes the authority and every claim is fenced
in its own. The refinement computes the stage of a signal from its rows
(`StageOfRows`). `PausedForGood` adds `DeliversLive` to the invariant: a run on its
way to acknowledge a delivery found the signal with the feed's payload, or stored
it, and a signal keeps the payload it has; so a delivery that conflicts with a
backfill stays pending, and with it every resume is refused.

In the three modules over `WorkRow`, that a row follows the transition table
(`TableIsFollowed`, `DeepFollowsTable`, `OperationFollowsTable`) rests on one lemma
about the table itself (`StageMoves` of `WorkRow_proofs`): it lists each claim,
each failure and each recovery of every stage. For the deep and the entity stage the
proof is the check; no run repeats it.

The constants' assumptions are all these proofs rest on: times are positive,
`RequestOf` gives requests, `Nothing` is no attempt, ingestors and backfills are
distinct, limits are positive.

*Only model-checked.* Every invariant and every action property of a passing run
has its theorem, and so have the properties of three of the four runs that expect
a violation, under the premise the code does not meet. What stays with TLC is
liveness, which is beyond the proof system here (fairness is about `ENABLED`):
`EventuallyQuiet`, `CrashesLeaveCapacity`, `SavedPacketIsHandedOff`,
`DeliveredInTheEnd` and `DecidedInTheEnd`; and `CrashStrandsNothing`, which TLC
refutes. That counters stay below their bounds (`MaxEpoch`, `MaxRevision`,
`MaxFaults`) is an assumption of the models that the theorems share, for any
value of the bounds.

## 6. Not modelled

See `components` in `PROJECT.json`. In the modelled files:

* research: `releaseUnknownOutcome` (no caller outside tests), the ordinary
  synthesis path without the ledger (V4 off), knowledge lookups, novelty
  classification and the known-observation route, the decisions of the article
  classifiers (an outcome of `SynthesisFails`), priorities of the scheduler, telemetry and
  execution records, evidence linkage checks (an outcome of `RefuseStage`);
* deep research: the orphan audit, contents of evidence and packets;
* entity stage: articles and `evidence_attachment` readiness, the release of a
  row at shutdown, checkpoint writes of sources and context, the contents of
  plans and their validation (an outcome of `SavePlan`);
* intake: Polymarket's and Hyperliquid's variants, mode shadow, the rules of
  triage (any decision is possible), several policy generations of decisions,
  `repairAdmissions` (owed work cannot arise from one transaction), the prune of
  the lane store;
* ownership: `retire_legacy`, unknown-payment obligations, and the receipts'
  evidence, digests and revision binding; an operator may take any step the state
  allows.

The rest of the repository (apps, API, collectors' parsing, editorial lanes, the
scout and analyst packages) is I/O, presentation or a single poller over SQL, and
is by far the larger part of its lines: the models cover about a quarter of the
lines of the files they touch and a small share of the whole.

## 7. Plan

In this order:

1. The reconciliation CLI with its admission records, as an action of
   `SharedResearch` on any allowance; the novelty classification as one more.
2. The scheduler's strict priority order (what a steady stream of urgent work
   leaves for the rest) and the gateway's circuit.
3. Articles in `KnowledgeOperation`, and Polymarket's variant and several policy
   generations in `SourceIntake`.
4. Proofs: the new purchases as cases of `ChainInv`.

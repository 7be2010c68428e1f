--------------------------- MODULE SharedResearch ---------------------------
(***************************************************************************)
(* The shared research workers on one source database: retrieval and       *)
(* structured synthesis of research work (research-engine/                 *)
(* shared-worker.ts), the chain of purchases a synthesis may need, each    *)
(* under a reservation of its own (durable-synthesis.ts, durable-          *)
(* classification.ts, durable-article-proposal.ts, bounded-followup.ts),   *)
(* recovery of leases, the stale-hold sweep and operator recovery, with    *)
(* workers that crash or lose their lease anywhere.                        *)
(*                                                                         *)
(* An action is what a worker does between two awaits, or one store        *)
(* transaction.  A heartbeat check that is followed by a fenced write is   *)
(* part of that write (the write repeats the fence); the one check nothing *)
(* fences, before the dispatch intent, is an action of its own.            *)
(***************************************************************************)
EXTENDS WorkRow, AssignmentBudget, FiniteSets

CONSTANTS
    Works,        \* research work items, each the root of its own assignment
    Deep,         \* the works whose research depth is deep
    Flows,        \* what the works may turn out to need
    HoldTtl,      \* age, in ticks, at which the sweep settles a hold
    RecoverLimit, \* rows one recovery pass may touch
    MaxRequeues   \* bound: operator recoveries in a behaviour

(* "ordinary"   the primary synthesis, or a compatible packet, is enough   *)
(* "exhausted"  a follow-up is configured and finds no approved source     *)
(* "followup"   it finds one, and asks a classifier whether it is worth it *)
(* "placed"     an article whose entity the classifier finds               *)
(* "proposed"   an article whose entity has to be proposed                 *)
FlowKinds == {"ordinary", "exhausted", "followup", "placed", "proposed"}

ASSUME WorksAssumption == Works # {} /\ Deep \subseteq Works
ASSUME FlowsAssumption == Flows \subseteq FlowKinds /\ Flows # {}
ASSUME BoundsAssumption == {HoldTtl, RecoverLimit} \subseteq Nat \ {0} /\ MaxRequeues \in Nat
ASSUME SavedResultsAssumption == Results = {"packet", "receipt"}

VARIABLES
    row,       \* the work rows
    disk,      \* immutable records saved for a work
    rsv,       \* the reservations, one for each allowance of a work's root
    age,       \* ticks since a reservation row was updated, up to HoldTtl
    worker,    \* what each worker process has in memory
    sweep,     \* the stale-hold sweep in progress
    requeues,  \* operator recoveries so far
    calls,     \* requests dispatched to the provider for a purchase
    flow       \* what each work needs; never changes

ledger == <<rsv, age>>
store  == <<row, disk, ledger>>
others == <<sweep, requeues, calls, flow>>
vars   == <<store, worker, others>>

(* The allowances of a root: the classifier places an article, the gateway *)
(* proposes its entity, a synthesis is bought, the classifier values a     *)
(* follow-up, the follow-up is bought.  "placement" stands for each of the *)
(* classifications an article needs.                                       *)
Allowances == {"placement", "proposal", "primary", "value", "followup"}
Classified(a) == a \in {"placement", "value"}
Purchases == Works \X Allowances

Articles == {"placed", "proposed"}

Packets == {"none", "bought", "reused", "combined"}

(* The immutable V4 records of a work, and what its handoff commits.       *)
Disk ==
    [ manifest  : {"none", "hold", "proceed"},   \* latest retrieval manifest
      evidence  : BOOLEAN,                       \* evidence artifacts exist
      baseline  : {"none", "bought", "reused"},  \* baseline/packet
      results   : SUBSET (Allowances \ {"primary"}),  \* the other paid results
      receipts  : SUBSET Allowances,             \* rejected_response
      admission : BOOLEAN,                       \* followup_decision/admission
      intent    : BOOLEAN,                       \* followup_decision/intent
      decision  : {"none", "worthwhile", "other"},
      captures  : {"none", "empty", "some"},     \* followup_evidence/captures
      final     : Packets,                       \* followup_resolution/final_packet
      packet    : Packets,                       \* canonical research packet
      readiness : {"none", "ready", "resolved", "failed"} ]

NothingSaved ==
    [ manifest |-> "none", evidence |-> FALSE, baseline |-> "none", results |-> {},
      receipts |-> {}, admission |-> FALSE, intent |-> FALSE, decision |-> "none",
      captures |-> "none", final |-> "none", packet |-> "none", readiness |-> "none" ]

(* "plan" .. "route"   retrieval: preflight, planned, fetching, moving on  *)
(* "prepare", "ready"  synthesis before and after its preflight            *)
(* "choose"            the attempt began: reuse a packet or buy one        *)
(* "list" .. "intend"  claiming the allowance, down to the dispatch intent *)
(* "send", "await"     handing the request over, waiting for the provider  *)
(* "settle", "commit"  settleReservation: its read and its compare-and-set *)
(* "unknown", "hold"   recording an unknown outcome, failing the work      *)
(* "lapse"             the provider's own error fails the work             *)
(* "placed"            an article was placed, or its entity proposed       *)
(* "save", "handoff"   the packet is checkpointed and handed off           *)
(* "followup" ..       runBoundedFollowup: what is saved, nothing to ask,  *)
(*   "resolve"         asking whether it is worth it, gathering, the end   *)
Pc ==
    {"idle", "plan", "planned", "fetch", "route", "prepare", "ready", "choose", "list", "insert", "decide",
     "own", "intend", "send", "await", "settle", "commit", "unknown", "hold", "lapse", "placed", "save",
     "handoff", "followup", "admit", "consent", "pledge", "weigh", "doubt", "judge", "regather",
     "gather", "resolve"}

Memory ==
    [ pc     : Pc,
      work   : Works,
      packet : Packets,            \* the packet the worker carries
      buying : Allowances,         \* the allowance it is spending
      seen   : Reservation,        \* the reservation row it last read
      why    : {"none", "response", "replay", "abort", "rejection", "failure"} ]

Blank(w) ==
    [pc |-> "idle", work |-> w, packet |-> "none", buying |-> "primary", seen |-> Absent, why |-> "none"]

Idle == Blank(CHOOSE w \in Works : TRUE)

NoSweep == [holds |-> {}, exposed |-> {}, expired |-> {}]

(* A sweep that has nothing left to do is over.                            *)
Rest(s) == IF s.holds = {} /\ s.expired = {} THEN NoSweep ELSE s

Init ==
    /\ row = [w \in Works |-> AdmittedRow]
    /\ disk = [w \in Works |-> NothingSaved]
    /\ rsv = [k \in Purchases |-> Absent]
    /\ age = [k \in Purchases |-> 0]
    /\ worker = [p \in Workers |-> Idle]
    /\ sweep = NoSweep
    /\ requeues = 0
    /\ calls = [k \in Purchases |-> 0]
    /\ flow \in [Works -> Flows]
-----------------------------------------------------------------------------
At(p, pc) == worker[p].pc = pc

Goes(p, pc) == worker' = [worker EXCEPT ![p].pc = pc]

Becomes(p, memory) == worker' = [worker EXCEPT ![p] = memory]

(* The work is given up: its worker will fail it and remembers no more.    *)
Held(p) == [Blank(worker[p].work) EXCEPT !.pc = "hold"]

Ends(p) == Becomes(p, Idle)

(* A conditional update of the work row: `news` are the rows it may write. *)
SetRow(w, news) == \E r \in news : row' = [row EXCEPT ![w] = r]

(* A fenced update that ends the worker's turn, whether it wins or finds   *)
(* the lease lost.                                                         *)
LastWrite(p, status, news) ==
    LET w == worker[p].work
    IN  /\ IF Fence(row[w], p, status) THEN SetRow(w, news) ELSE UNCHANGED row
        /\ Ends(p)
        /\ UNCHANGED <<disk, ledger, others>>

SetReservation(k, r) == rsv' = [rsv EXCEPT ![k] = r] /\ age' = [age EXCEPT ![k] = 0]

Save(w, field, value) == disk' = [disk EXCEPT ![w][field] = value]

Purchase(p) == <<worker[p].work, worker[p].buying>>

(* A worker turns to the reservation of an allowance.                      *)
Spends(p, allowance, packet) ==
    Becomes(p, [Blank(worker[p].work) EXCEPT !.pc = "list", !.buying = allowance, !.packet = packet])
-----------------------------------------------------------------------------
(* claimNext: the scheduler's peek only proposes, the claim decides.       *)
Claim(p, w) ==
    /\ At(p, "idle")
    /\ Claimable(row[w])
    /\ row[w].status \in {"research_pending", "synthesis_pending"}
    /\ row' = [row EXCEPT ![w] = Claimed(@, p)]
    /\ worker' = [worker EXCEPT ![p] =
           [Blank(w) EXCEPT !.pc = IF row[w].status = "research_pending" THEN "plan" ELSE "prepare"]]
    /\ sweep' = Rest([sweep EXCEPT !.expired = @ \ {w}])   \* the new lease outlives the sweep's time
    /\ UNCHANGED <<disk, ledger, requeues, calls, flow>>

(* The heartbeat interval of a running stage, and heartbeat.check.  A      *)
(* checkpoint that is reused moves on without one.                         *)
Heartbeat(p) ==
    LET w == worker[p].work
    IN  /\ worker[p].pc \notin {"idle", "plan", "planned", "prepare"}
        /\ At(p, "route") => row[w].started
        /\ MayBeat(row[w], p)
        /\ row[w].lease < LeaseTtl
        /\ row' = [row EXCEPT ![w] = Beaten(@)]
        /\ UNCHANGED <<disk, ledger, worker, others>>

StageLease(p) == IF worker[p].pc \in {"plan", "planned", "fetch", "route"}
                 THEN "retrieval_leased" ELSE "synthesis_leased"

(* Synthesis reads its evidence before anything else.                      *)
HasMaterial(p) == At(p, "plan") \/ disk[worker[p].work].evidence

(* preflight gives the lease back (the source may not run, or the gateway  *)
(* is not ready for the stage), expires a stale work, or passes.  It runs  *)
(* again when the context of a synthesis was prepared.                     *)
PreflightStops(p) ==
    /\ worker[p].pc \in {"plan", "prepare", "ready"}
    /\ HasMaterial(p)
    /\ LET r == row[worker[p].work]
       IN  LastWrite(p, StageLease(p),
               {Moved(r, PendingStatusFor[StageLease(p)])}
                   \cup (IF r.fresh = 0 THEN {Moved(r, "expired")} ELSE {}))

PreflightPasses(p) ==
    /\ worker[p].pc \in {"plan", "prepare"}
    /\ HasMaterial(p)
    /\ row[worker[p].work].fresh > 0
    /\ Goes(p, IF At(p, "plan") THEN "planned" ELSE "ready")
    /\ UNCHANGED <<store, others>>

(* failWithoutExecution: broken linkage, an impossible plan, no evidence   *)
(* that is still approved.                                                 *)
RefuseStage(p) ==
    /\ worker[p].pc \in {"planned", "prepare"}
    /\ LastWrite(p, StageLease(p), FailureRows(row[worker[p].work], "never"))

(* The context an article is placed in cannot be read for now: the work    *)
(* waits, without an attempt spent.                                        *)
ContextUnavailable(p) ==
    /\ At(p, "ready")
    /\ flow[worker[p].work] \in Articles
    /\ LastWrite(p, "synthesis_leased", FailureRows(row[worker[p].work], "always"))

(* A saved checkpoint that may proceed is reused without a new attempt.    *)
ReuseCheckpoint(p) ==
    /\ At(p, "planned")
    /\ disk[worker[p].work].manifest = "proceed"
    /\ Goes(p, "route")
    /\ UNCHANGED <<store, others>>

(* beginAttempt of either stage.                                           *)
BeginAttempt(p) ==
    LET w == worker[p].work
    IN  /\ \/ At(p, "planned")
           \/ At(p, "ready")
        /\ IF MayBegin(row[w], p, StageLease(p))
           THEN /\ row' = [row EXCEPT ![w] = Begun(@)]
                /\ Goes(p, IF At(p, "planned") THEN "fetch" ELSE "choose")
           ELSE /\ Ends(p)
                /\ UNCHANGED row
        /\ UNCHANGED <<disk, ledger, others>>

(* commitRetrievalCheckpoint: manifest and evidence, or nothing when the   *)
(* fence is lost.  A manifest that holds may come with optional captures.  *)
CommitCheckpoint(p) ==
    LET w == worker[p].work
    IN  /\ At(p, "fetch")
        /\ IF Fence(row[w], p, "retrieval_leased")
           THEN \E decision \in {"hold", "proceed"}, captured \in BOOLEAN :
                   /\ decision = "proceed" => captured
                   /\ disk' = [disk EXCEPT ![w].manifest = decision,
                                           ![w].evidence = @ \/ captured]
                   /\ Goes(p, "route")
           ELSE /\ Ends(p)
                /\ UNCHANGED disk
        /\ UNCHANGED <<row, ledger, others>>

(* The retriever or the checkpoint commit failed.                          *)
RetrievalFails(p) ==
    /\ At(p, "fetch")
    /\ \E retry \in Retries :
           LastWrite(p, "retrieval_leased", FailureRows(row[worker[p].work], retry))

(* advanceRetrievedWork: deep work that is no article waits for the deep   *)
(* worker, unless the deep queue refuses it; a refusal may only retry in a *)
(* fresh attempt.                                                          *)
Advance(p) ==
    LET w         == worker[p].work
        refusable == IF row[w].started THEN Retries ELSE {"never"}
    IN  /\ At(p, "route")
        /\ disk[w].manifest = "proceed"
        /\ LastWrite(p, "retrieval_leased",
               IF w \in Deep /\ flow[w] \notin Articles
               THEN {Moved(row[w], "deep_pending")}
                        \cup UNION {FailureRows(row[w], retry) : retry \in refusable}
               ELSE {Moved(row[w], "synthesis_pending")})

(* A manifest that holds routes the work through the retry policy.         *)
HoldRetrieval(p) ==
    LET w == worker[p].work
    IN  /\ At(p, "route")
        /\ disk[w].manifest = "hold"
        /\ \E retry \in Retries :
               LastWrite(p, "retrieval_leased", FailureRows(row[w], retry))
-----------------------------------------------------------------------------
(* What surrounds the purchases fails: a knowledge lookup, the catalogue,  *)
(* a judgement an article is held for, a capture, a classifier's own error.*)
SynthesisFails(p) ==
    /\ worker[p].pc \in {"choose", "placed", "gather", "lapse"}
    /\ \E retry \in Retries :
           LastWrite(p, "synthesis_leased", FailureRows(row[worker[p].work], retry))

(* synthesizeWithV4 reads the saved baseline.  A reused packet, saved or   *)
(* found now among compatible results, needs no purchase.                  *)
ChooseReuse(p) ==
    LET w == worker[p].work
    IN  /\ At(p, "choose")
        /\ flow[w] \notin Articles
        /\ disk[w].baseline \in {"none", "reused"}
        /\ worker' = [worker EXCEPT ![p].pc = "save", ![p].packet = "reused"]
        /\ UNCHANGED <<store, others>>

ChoosePurchase(p) ==
    LET w == worker[p].work
    IN  /\ At(p, "choose")
        /\ flow[w] \notin Articles
        /\ disk[w].baseline # "reused"
        /\ Spends(p, "primary", disk[w].baseline)
        /\ UNCHANGED <<store, others>>

(* synthesizeArticleWithV4: every attempt places the article first, and    *)
(* has its entity proposed when there is none, before it looks at the      *)
(* packet that may have been bought.                                       *)
PlaceArticle(p) ==
    /\ At(p, "choose")
    /\ flow[worker[p].work] \in Articles
    /\ Spends(p, "placement", "none")
    /\ UNCHANGED <<store, others>>

ContinueArticle(p) ==
    LET w == worker[p].work
    IN  /\ At(p, "placed")
        /\ IF flow[w] = "proposed" /\ worker[p].buying = "placement"
           THEN Spends(p, "proposal", "none")
           ELSE Spends(p, "primary", disk[w].baseline)
        /\ UNCHANGED <<store, others>>

(* Where a purchase that is refused or stopped leaves its work: held, but  *)
(* a follow-up nobody could value is only not bought.                      *)
Refused(p) ==
    IF worker[p].buying = "value"
    THEN [worker[p] EXCEPT !.pc = "doubt", !.seen = Absent, !.why = "none"]
    ELSE Held(p)

(* Where a purchase that succeeded goes on.                                *)
Onward(p) ==
    LET m == worker[p]
    IN  [m EXCEPT !.seen = Absent, !.why = "none",
                  !.packet = CASE m.buying = "primary"  -> "bought"
                               [] m.buying = "followup" -> "combined"
                               [] OTHER                 -> @,
                  !.pc = CASE m.buying \in {"placement", "proposal"} -> "placed"
                           [] m.buying = "value"                     -> "weigh"
                           [] m.buying = "followup"                  -> "resolve"
                           [] m.buying = "primary"                   ->
                                 IF flow[m.work] \in Articles THEN "handoff" ELSE "save"]

(* claimReservation: the attempt identity is a function of the root and    *)
(* the allowance, so the listing finds this very attempt or nothing.  The  *)
(* request that places an article carries the catalogue as it is now: when *)
(* that has changed, the attempt it finds is refused.                      *)
ListReservations(p) ==
    LET seen == rsv[Purchase(p)]
    IN  /\ At(p, "list")
        /\ \/ worker' = [worker EXCEPT ![p].pc = IF seen.state = "absent" THEN "insert" ELSE "decide",
                                       ![p].seen = seen]
           \/ /\ worker[p].buying = "placement" /\ seen.state # "absent"
              /\ Becomes(p, Held(p))
        /\ UNCHANGED <<store, others>>

(* The insert also loses when other allowances of the root leave no room.  *)
InsertReservation(p) ==
    /\ At(p, "insert")
    /\ \/ /\ rsv[Purchase(p)].state = "absent"
          /\ SetReservation(Purchase(p), NewReservation)
          /\ worker' = [worker EXCEPT ![p].pc = "decide", ![p].seen = NewReservation]
       \/ /\ Becomes(p, Refused(p))
          /\ UNCHANGED ledger
    /\ UNCHANGED <<row, disk, others>>

(* A saved result is replayed: its reservation is settled first, unless it *)
(* is already.  (The slip: a saved follow-up is handed over at once.)      *)
ReplayAtOnce(p) ==
    IF worker[p].seen.state = "settled" \/ worker[p].buying = "followup" THEN Onward(p)
    ELSE [worker[p] EXCEPT !.pc = "settle", !.why = "replay"]
ReplayStep(p) ==
    IF worker[p].seen.state = "settled" THEN Onward(p)
    ELSE [worker[p] EXCEPT !.pc = "settle", !.why = "replay"]

(* The primary result was read before the claim, the others after it.      *)
HasResult(p) ==
    IF worker[p].buying = "primary" THEN worker[p].packet = "bought"
    ELSE worker[p].buying \in disk[worker[p].work].results

(* What a purchase makes of the record the claim returned.                 *)
Decide(p) ==
    LET m         == worker[p]
        rejected  == m.buying \in disk[m.work].receipts
        replaying == ~rejected /\ HasResult(p) /\ m.seen.state \in {"settled", "dispatch_intent"}
        step      == CASE rejected  -> [m EXCEPT !.pc = "settle", !.why = "rejection"]
                       [] replaying -> ReplayStep(p)
                       [] OTHER     ->
                            CASE m.seen.state = "reserved_not_dispatched" -> [m EXCEPT !.pc = "own"]
                              [] m.seen.state = "dispatch_intent"         -> [m EXCEPT !.pc = "unknown"]
                              [] OTHER                                    -> Refused(p)
    IN  /\ At(p, "decide")
        /\ Becomes(p, step)
        /\ UNCHANGED <<store, others>>

(* stillOwnsLease: the lease is renewed, and the source may still run.     *)
CheckOwnership(p) ==
    LET w    == worker[p].work
        next == [own |-> "intend", consent |-> "pledge", regather |-> "gather"]
    IN  /\ worker[p].pc \in DOMAIN next
        /\ \/ /\ MayBeat(row[w], p)
              /\ row' = [row EXCEPT ![w] = Beaten(@)]
              /\ Goes(p, next[worker[p].pc])
           \/ /\ Becomes(p, IF At(p, "own") THEN Refused(p) ELSE Held(p))
              /\ UNCHANGED row
        /\ UNCHANGED <<disk, ledger, others>>

(* recordDispatchIntent: fenced by the reservation, not by the lease.      *)
Intend(p) ==
    LET k == Purchase(p)
    IN  /\ At(p, "intend")
        /\ IF MayIntend(rsv[k], worker[p].seen.epoch)
           THEN SetReservation(k, Intended(rsv[k])) /\ Goes(p, "send")
           ELSE Becomes(p, Refused(p)) /\ UNCHANGED ledger
        /\ UNCHANGED <<row, disk, others>>

Send(p) ==
    /\ At(p, "send")
    /\ calls' = [calls EXCEPT ![Purchase(p)] = @ + 1]
    /\ Goes(p, "await")
    /\ UNCHANGED <<store, sweep, requeues, flow>>

Settles(p, why) == worker' = [worker EXCEPT ![p].pc = "settle", ![p].why = why]

SaveReceipt(p) ==
    Save(worker[p].work, "receipts", disk[worker[p].work].receipts \cup {worker[p].buying})

(* A usable answer is saved before anything else.  The saved baseline is   *)
(* immutable: a packet someone else put there meanwhile turns the answer   *)
(* into a rejected one.                                                    *)
AnswerArrives(p) ==
    LET w == worker[p].work
        a == worker[p].buying
    IN  /\ At(p, "await")
        /\ \/ a # "primary" /\ Save(w, "results", disk[w].results \cup {a}) /\ Settles(p, "response")
           \/ /\ a = "primary" /\ disk[w].baseline = "none"
              /\ Save(w, "baseline", "bought") /\ Settles(p, "response")
           \/ /\ a = "primary" /\ disk[w].baseline # "none"
              /\ SaveReceipt(p) /\ Settles(p, "rejection")
        /\ UNCHANGED <<row, ledger, others>>

(* An answer the gateway or the contract rejects: a receipt is saved.      *)
AnswerRejected(p) ==
    /\ At(p, "await")
    /\ SaveReceipt(p)
    /\ Settles(p, "rejection")
    /\ UNCHANGED <<row, ledger, others>>

(* The gateway stopped the call at its time or budget limit.  The          *)
(* classifier's purchases do not tell that from another failure.           *)
CallAborted(p) ==
    /\ At(p, "await")
    /\ ~Classified(worker[p].buying)
    /\ Settles(p, "abort")
    /\ UNCHANGED <<store, others>>

(* Any other failure of the call says nothing about its outcome.           *)
CallFails(p) ==
    /\ At(p, "await")
    /\ worker' = [worker EXCEPT ![p].pc = "unknown", ![p].why = "failure"]
    /\ UNCHANGED <<store, others>>

How(why) ==
    CASE why \in {"response", "replay"} -> "transport_response_saved"
      [] why = "abort"                  -> "gateway_abort_max_exposure"
      [] why = "rejection"              -> "durable_matching_response"

SavedRef(why) ==
    [response |-> "packet", replay |-> "packet", abort |-> NoResult, rejection |-> "receipt"][why]

AfterSettle(p) ==
    IF worker[p].why \in {"response", "replay"} THEN Onward(p) ELSE Refused(p)

(* A classifier settles a new answer inside the block that records unknown *)
(* outcomes.                                                               *)
AfterRefusal(p) ==
    IF worker[p].why = "response" /\ Classified(worker[p].buying)
    THEN [worker[p] EXCEPT !.pc = "unknown"] ELSE Refused(p)

(* settleReservation, the read: it may go on, succeed as a replay, or be   *)
(* refused.                                                                *)
SettleReads(p) ==
    LET seen == rsv[Purchase(p)]
        why  == worker[p].why
    IN  /\ At(p, "settle")
        /\ Becomes(p,
               IF MaySettle(seen, How(why), SavedRef(why))
               THEN [worker[p] EXCEPT !.seen = seen, !.pc = "commit"]
               ELSE IF ReplaysSettlement(seen, SavedRef(why)) THEN AfterSettle(p) ELSE AfterRefusal(p))
        /\ UNCHANGED <<store, others>>

(* ... and its compare-and-set.                                            *)
SettleCommit(p) ==
    LET k   == Purchase(p)
        ref == SavedRef(worker[p].why)
    IN  /\ At(p, "commit")
        /\ IF SettleCommits(rsv[k])
           THEN /\ SetReservation(k, Settled(rsv[k], worker[p].seen, ref, CallLimit))
                /\ Becomes(p, AfterSettle(p))
           ELSE /\ Becomes(p, AfterRefusal(p))
                /\ UNCHANGED ledger
        /\ UNCHANGED <<row, disk, others>>

(* The answer cannot be saved, or the ledger cannot be written.  An        *)
(* aborted call whose settlement fails still tries to leave an unknown     *)
(* marker behind, and so does a classifier whose answer is lost.           *)
StoreFails(p) ==
    LET m     == worker[p]
        marks == \/ m.pc = "await" /\ Classified(m.buying)
                 \/ m.pc \in {"settle", "commit"} /\ (m.why = "abort" \/ AfterRefusal(p).pc = "unknown")
    IN  /\ m.pc \in {"await", "settle", "commit", "unknown"}
        /\ Becomes(p, IF marks THEN [m EXCEPT !.pc = "unknown"] ELSE Refused(p))
        /\ UNCHANGED <<store, others>>

(* recordUnknownOutcome.  An article is placed by a call whose own error   *)
(* then fails the work.                                                    *)
MarkUnknown(p) ==
    LET k == Purchase(p)
    IN  /\ At(p, "unknown")
        /\ IF MayMarkUnknown(rsv[k], worker[p].seen.epoch)
           THEN SetReservation(k, MarkedUnknown(rsv[k]))
           ELSE UNCHANGED ledger
        /\ Becomes(p, IF worker[p].buying = "placement" /\ worker[p].why = "failure"
                      THEN [Held(p) EXCEPT !.pc = "lapse"] ELSE Refused(p))
        /\ UNCHANGED <<row, disk, others>>

(* ResearchFollowupHold reaches failAfterExecution, which never retries.   *)
HoldWork(p) ==
    /\ At(p, "hold")
    /\ LastWrite(p, "synthesis_leased", FailureRows(row[worker[p].work], "never"))

(* A bought packet is looked at once more when follow-ups are configured.  *)
AfterSave(p) ==
    IF worker[p].packet = "bought" /\ flow[worker[p].work] \in {"exhausted", "followup"}
    THEN "followup" ELSE "handoff"

(* The slip: a baseline that is there is taken for the packet at hand.     *)
SavePacketUnlessSaved(p) ==
    LET w == worker[p].work
    IN  /\ At(p, "save")
        /\ IF disk[w].baseline = "none" THEN Save(w, "baseline", worker[p].packet) ELSE UNCHANGED disk
        /\ Goes(p, AfterSave(p))
        /\ UNCHANGED <<row, ledger, others>>

(* The packet becomes the immutable baseline of the work, or is the one    *)
(* already there; any other baseline fails the work.                       *)
SavePacket(p) ==
    LET w == worker[p].work
    IN  /\ At(p, "save")
        /\ IF disk[w].baseline \in {"none", worker[p].packet}
           THEN Save(w, "baseline", worker[p].packet) /\ Goes(p, AfterSave(p))
           ELSE Becomes(p, Held(p)) /\ UNCHANGED disk
        /\ UNCHANGED <<row, ledger, others>>
-----------------------------------------------------------------------------
(* runBoundedFollowup: a resolution that was saved stands; a question that *)
(* was asked and never answered is not asked again.                        *)
MayAsk(d) == d.decision = "none" /\ ~d.intent

FollowUp(p) ==
    LET w == worker[p].work
        d == disk[w]
    IN  /\ At(p, "followup")
        /\ IF d.final # "none" THEN Becomes(p, [worker[p] EXCEPT !.packet = d.final, !.pc = "handoff"])
           ELSE IF flow[w] = "exhausted" THEN Goes(p, "admit")
           ELSE IF MayAsk(d) THEN Goes(p, "consent")
           ELSE IF d.decision = "none" THEN Becomes(p, Held(p))
           ELSE Goes(p, "judge")
        /\ UNCHANGED <<store, others>>

(* No approved source is left.  The record says when that was found, so it *)
(* cannot be put there twice.                                              *)
Admit(p) ==
    LET w == worker[p].work
    IN  /\ At(p, "admit")
        /\ IF disk[w].admission THEN Becomes(p, Held(p)) /\ UNCHANGED disk
           ELSE Save(w, "admission", TRUE) /\ Goes(p, "resolve")
        /\ UNCHANGED <<row, ledger, others>>

(* The intent to ask is recorded, with its time, before the question.      *)
Pledge(p) ==
    LET w == worker[p].work
    IN  /\ At(p, "pledge")
        /\ IF disk[w].intent THEN Becomes(p, Held(p)) /\ UNCHANGED disk
           ELSE Save(w, "intent", TRUE) /\ Spends(p, "value", worker[p].packet)
        /\ UNCHANGED <<row, ledger, others>>

(* The classifier's answer, or the lack of one, is the decision.           *)
Weigh(p) ==
    /\ At(p, "weigh")
    /\ \E decision \in {"worthwhile", "other"} : Save(worker[p].work, "decision", decision)
    /\ Goes(p, "judge")
    /\ UNCHANGED <<row, ledger, others>>

Doubt(p) ==
    /\ At(p, "doubt")
    /\ Save(worker[p].work, "decision", "other")
    /\ Goes(p, "judge")
    /\ UNCHANGED <<row, ledger, others>>

(* Only a worthwhile follow-up is gathered for, and only new captures are  *)
(* worth a purchase.  (The slip buys whatever was gathered.)               *)
BuysUnseen(d) == d.decision = "worthwhile" /\ d.captures # "none"
BuysFollowUp(d) == d.decision = "worthwhile" /\ d.captures = "some"

Judge(p) ==
    LET d == disk[worker[p].work]
    IN  /\ At(p, "judge")
        /\ \/ BuysFollowUp(d) /\ Spends(p, "followup", worker[p].packet)
           \/ /\ ~BuysFollowUp(d)
              /\ Goes(p, IF d.decision = "worthwhile" /\ d.captures = "none"
                         THEN "regather" ELSE "resolve")
        /\ UNCHANGED <<store, others>>

(* The captures are immutable and carry their times: only an empty batch   *)
(* equals one that is there.                                               *)
Gather(p) ==
    LET w == worker[p].work
    IN  /\ At(p, "gather")
        /\ \E captures \in {"empty", "some"} :
              IF disk[w].captures = "none" \/ (disk[w].captures = "empty" /\ captures = "empty")
              THEN Save(w, "captures", captures) /\ Goes(p, "judge")
              ELSE Becomes(p, Held(p)) /\ UNCHANGED disk
        /\ UNCHANGED <<row, ledger, others>>

(* saveFinal: the baseline, or what the follow-up made of it, for good.    *)
Resolve(p) ==
    LET w == worker[p].work
    IN  /\ At(p, "resolve")
        /\ IF disk[w].final \in {"none", worker[p].packet}
           THEN Save(w, "final", worker[p].packet) /\ Goes(p, "handoff")
           ELSE Becomes(p, Held(p)) /\ UNCHANGED disk
        /\ UNCHANGED <<row, ledger, others>>

(* A record cannot be written.  A decision that cannot is tried once more, *)
(* as a doubt.                                                             *)
RecordFails(p) ==
    /\ worker[p].pc \in {"save", "admit", "pledge", "weigh", "doubt", "judge", "gather", "resolve"}
    /\ Becomes(p, IF At(p, "weigh") THEN [worker[p] EXCEPT !.pc = "doubt"] ELSE Held(p))
    /\ UNCHANGED <<store, others>>
-----------------------------------------------------------------------------
HandoffStatus(readiness) ==
    [ready |-> "entity_pending", resolved |-> "complete", failed |-> "dead_letter"][readiness]

(* commitResearchHandoff: packet, decision and status in one transaction.  *)
HandsOff(w, packet, readiness) ==
    /\ row' = [row EXCEPT ![w] = Moved(@, HandoffStatus(readiness))]
    /\ disk' = [disk EXCEPT ![w].packet = packet, ![w].readiness = readiness]

(* The worker assesses the packet and hands it off, or finds its fence     *)
(* lost.  The decisions it assesses as failed are never retryable.         *)
CommitHandoff(p) ==
    LET w == worker[p].work
    IN  /\ At(p, "handoff")
        /\ IF Fence(row[w], p, "synthesis_leased")
           THEN \E readiness \in {"ready", "resolved", "failed"} :
                   HandsOff(w, worker[p].packet, readiness)
           ELSE UNCHANGED <<row, disk>>
        /\ Ends(p)
        /\ UNCHANGED <<ledger, others>>

(* The process dies, or the handoff transaction fails and the worker       *)
(* leaves the lease to expire: memory is lost, the store is not.           *)
Crash(p) ==
    /\ ~At(p, "idle")
    /\ Ends(p)
    /\ UNCHANGED <<store, others>>
-----------------------------------------------------------------------------
Exposed == {w \in Works : \E a \in Allowances : PaidExposure(rsv[<<w, a>>])}

(* recoverExpiredLeases, one transaction: expired leases first, due        *)
(* retries with what the limit leaves.                                     *)
Recover ==
    LET expired == {w \in Works : LeaseExpired(row[w])}
        due     == {w \in Works : RetryDue(row[w])}
    IN  \E leases \in SUBSET expired, retries \in SUBSET due :
            /\ Cardinality(leases) = Min({RecoverLimit, Cardinality(expired)})
            /\ Cardinality(retries) =
                   Min({RecoverLimit - Cardinality(leases), Cardinality(due)})
            /\ leases \cup retries # {}
            /\ row' = [w \in Works |-> IF w \in leases \cup retries
                                        THEN Recovered(row[w], w \in Exposed) ELSE row[w]]
            /\ UNCHANGED <<disk, ledger, worker, others>>

(* sweepStaleResearchHolds: the aged holds, the exposed roots and the time *)
(* are read first, and not read again.                                     *)
SweepStarts ==
    /\ sweep = NoSweep
    /\ sweep' = Rest([holds   |-> {k \in Purchases : /\ rsv[k].state \in {"dispatch_intent",
                                                                           "execution_outcome_unknown"}
                                                     /\ age[k] = HoldTtl},
                      exposed |-> Exposed,
                      expired |-> {w \in Works : LeaseExpired(row[w])}])
    /\ sweep' # NoSweep
    /\ UNCHANGED <<store, worker, requeues, calls, flow>>

(* One hold settled at its maximum exposure, in a transaction of its own;  *)
(* a hold that was closed meanwhile is passed over.                        *)
SweepSettles(k) ==
    LET accepted == MaySettle(rsv[k], "stale_hold_max_exposure", NoResult)
    IN  /\ k \in sweep.holds
        /\ IF accepted
           THEN SetReservation(k, Settled(rsv[k], rsv[k], NoResult, CallLimit))
           ELSE UNCHANGED ledger
        /\ sweep' = Rest([sweep EXCEPT !.holds = @ \ {k},
                                       !.exposed = IF accepted THEN @ \cup {k[1]} ELSE @])
        /\ UNCHANGED <<row, disk, worker, requeues, calls, flow>>

(* Then the leases that had expired when the sweep began, and still have,  *)
(* retry or are dead-lettered, one update at a time.                       *)
SweepMoves(w) ==
    /\ sweep.holds = {} /\ w \in sweep.expired
    /\ row' = [row EXCEPT ![w] = IF LeaseExpired(@) THEN Swept(@, w \in sweep.exposed) ELSE @]
    /\ sweep' = Rest([sweep EXCEPT !.expired = @ \ {w}])
    /\ UNCHANGED <<disk, ledger, worker, requeues, calls, flow>>

(* Slips: every recovery resumes at the retry target, or overlooks the     *)
(* packet that exists.                                                     *)
RequeueAtTarget(w) == row[w].target
RequeueUnpacked(w) ==
    IF row[w].status = "retry_wait" THEN row[w].target
    ELSE IF disk[w].evidence THEN "synthesis_pending" ELSE "research_pending"

(* recoverCandidate: an operator puts a stopped work back, at the stage    *)
(* its saved records allow.                                                *)
RequeueTarget(w) ==
    IF row[w].status = "retry_wait" THEN row[w].target
    ELSE IF disk[w].packet # "none" THEN "entity_pending"
    ELSE IF disk[w].evidence THEN (IF w \in Deep THEN "deep_pending" ELSE "synthesis_pending")
    ELSE "research_pending"

Requeue(w) ==
    /\ requeues < MaxRequeues
    /\ row[w].status \in {"expired", "dead_letter", "retry_wait"}
    /\ row' = [row EXCEPT ![w] = Moved(@, RequeueTarget(w))]
    /\ requeues' = requeues + 1
    /\ UNCHANGED <<disk, ledger, worker, sweep, calls, flow>>

(* Time passes; only an open hold has an age that matters.                 *)
Tick ==
    /\ row' = [w \in Works |-> Aged(row[w])]
    /\ age' = [k \in Purchases |->
                  IF rsv[k].state \in {"dispatch_intent", "execution_outcome_unknown"}
                  THEN Min({age[k] + 1, HoldTtl}) ELSE 0]
    /\ <<row, age>>' # <<row, age>>
    /\ UNCHANGED <<disk, rsv, worker, others>>

Retrieves(p) ==
    \/ PreflightStops(p) \/ PreflightPasses(p) \/ RefuseStage(p)
    \/ ReuseCheckpoint(p) \/ BeginAttempt(p)
    \/ CommitCheckpoint(p) \/ RetrievalFails(p) \/ Advance(p) \/ HoldRetrieval(p)

Buys(p) ==
    \/ ListReservations(p) \/ InsertReservation(p) \/ Decide(p)
    \/ CheckOwnership(p) \/ Intend(p) \/ Send(p)
    \/ AnswerArrives(p) \/ AnswerRejected(p) \/ CallAborted(p) \/ CallFails(p)
    \/ SettleReads(p) \/ SettleCommit(p) \/ StoreFails(p) \/ MarkUnknown(p)

FollowsUp(p) ==
    \/ FollowUp(p) \/ Admit(p) \/ Pledge(p) \/ Weigh(p) \/ Doubt(p)
    \/ Judge(p) \/ Gather(p) \/ Resolve(p)

Synthesizes(p) ==
    \/ ContextUnavailable(p) \/ SynthesisFails(p)
    \/ ChooseReuse(p) \/ ChoosePurchase(p) \/ PlaceArticle(p) \/ ContinueArticle(p)
    \/ Buys(p) \/ HoldWork(p) \/ SavePacket(p) \/ FollowsUp(p) \/ RecordFails(p)
    \/ CommitHandoff(p)

WorkerStep(p) == Retrieves(p) \/ Synthesizes(p)

Next ==
    \/ \E p \in Workers :
          \/ \E w \in Works : Claim(p, w)
          \/ WorkerStep(p) \/ Heartbeat(p) \/ Crash(p)
    \/ Recover
    \/ SweepStarts \/ (\E k \in Purchases : SweepSettles(k)) \/ (\E w \in Works : SweepMoves(w))
    \/ \E w \in Works : Requeue(w)
    \/ Tick

Spec == Init /\ [][Next]_vars

(* Time passes, the recovery poll runs, and a worker that does not crash   *)
(* finishes its step: every provider call of the code has a time limit.    *)
(* Claims, crashes, sweeps and operators promise nothing.                  *)
Fairness ==
    /\ WF_vars(Tick)
    /\ WF_vars(Recover)
    /\ \A p \in Workers : WF_vars(WorkerStep(p))

FairSpec == Spec /\ Fairness
-----------------------------------------------------------------------------
TypeOK ==
    /\ row \in [Works -> Row]
    /\ disk \in [Works -> Disk]
    /\ rsv \in [Purchases -> Reservation]
    /\ age \in [Purchases -> 0 .. HoldTtl]
    /\ worker \in [Workers -> Memory]
    /\ sweep \in [holds : SUBSET Purchases, exposed : SUBSET Works, expired : SUBSET Works]
    /\ requeues \in 0 .. MaxRequeues
    /\ calls \in [Purchases -> Nat]
    /\ flow \in [Works -> Flows]

(* A lease in the store, the row's status and the worker's memory go       *)
(* together: a row is leased exactly while it names an owner, it waits     *)
(* exactly while it has a target to return to, and a worker whose work it  *)
(* still owns holds the lease of the stage it is running.                  *)
LeaseMatchesStatus ==
    /\ \A w \in Works :
          /\ Leased(row[w]) <=> row[w].owner # NoWorker
          /\ row[w].status = "retry_wait" <=> row[w].target # "none"
    /\ \A p \in Workers :
          ~At(p, "idle") /\ row[worker[p].work].owner = p
              => row[worker[p].work].status = StageLease(p)

(* A saved decision is authoritative: once a packet and its readiness are  *)
(* handed off, the work is past research for good.  No crash, lost lease,  *)
(* recovery or operator brings it back to be synthesized or judged again.  *)
HandedOffIsPastResearch ==
    \A w \in Works :
        disk[w].packet # "none" \/ disk[w].readiness # "none" =>
            /\ disk[w].packet # "none" /\ disk[w].readiness # "none"
            /\ row[w].status \in {"entity_pending", "complete", "dead_letter"}

(* The packet handed off is the immutable record of its work, whichever    *)
(* worker bought, found or replayed it: the resolution of the follow-up    *)
(* where there is one, the baseline where there is none, and a resolution  *)
(* is never of anything but the bought baseline.                           *)
PacketIsBaseline ==
    \A w \in Works :
        /\ disk[w].packet \in {"none", IF disk[w].final = "none" THEN disk[w].baseline ELSE disk[w].final}
        /\ disk[w].final # "none" => disk[w].baseline = "bought"

(* What a packet rests on: the purchases its content came from.            *)
Backing(w) ==
    (CASE disk[w].packet \in {"none", "reused"} -> {}
       [] disk[w].packet = "bought"             -> {"primary"}
       [] disk[w].packet = "combined"           -> {"primary", "value", "followup"})
    \cup (CASE flow[w] \notin Articles -> {}
            [] flow[w] = "placed"      -> {"placement"}
            [] flow[w] = "proposed"    -> {"placement", "proposal"})

(* No packet that money bought reaches Entity before every purchase it     *)
(* rests on was called once and its reservation is settled: the account is *)
(* closed first.                                                           *)
BoughtIsSettled ==
    \A w \in Works : disk[w].packet # "none" =>
        \A a \in Backing(w) : calls[<<w, a>>] = 1 /\ rsv[<<w, a>>].state = "settled"

(* The next purchase of a chain is never on its way before the one it      *)
(* builds on has closed its account, and a follow-up is only bought for a  *)
(* bought baseline, on a decision that it is worthwhile and for captures   *)
(* that are new.                                                           *)
SpendsInOrder ==
    \A w \in Works :
        LET Called(a) == calls[<<w, a>>] > 0
            Closed(a) == calls[<<w, a>>] = 1 /\ rsv[<<w, a>>].state = "settled"
        IN  /\ Called("proposal") => Closed("placement")
            /\ Called("primary") /\ flow[w] \in Articles => Closed("placement")
            /\ Called("primary") /\ flow[w] = "proposed" => Closed("proposal")
            /\ Called("value") => Closed("primary") /\ disk[w].baseline = "bought"
            /\ Called("followup") => /\ Closed("value") /\ disk[w].decision = "worthwhile"
                                     /\ disk[w].captures = "some"

(* The purchases of a chain implement PaidOnce: whatever is recovered,     *)
(* swept, requeued or crashes, each is committed before it is called and   *)
(* is called at most once for a root.                                      *)
Phase == [k \in Purchases |-> PhaseOf(rsv[k])]

Paid == INSTANCE PaidOnce WITH Purchases <- Purchases, phase <- Phase

PaysOnce == Paid!Spec

(* Every status change but an operator's follows the transition table,     *)
(* though recovery, the sweep and the handoff write rows without asking it.*)
FollowsTransitionTable ==
    [][\A w \in Works :
          row'[w].status # row[w].status /\ requeues' = requeues
              => CanTransition(row[w].status, row'[w].status)]_vars

(* Every lease comes back and every retry is taken up: in the end no row   *)
(* is leased or waiting, even when workers crash in mid-purchase.          *)
EventuallyQuiet ==
    <>[](\A w \in Works : row[w].status \notin LeasedStatus \cup {"retry_wait"})
=============================================================================

---------------------------- MODULE DeepResearch ----------------------------
(***************************************************************************)
(* The deep stage of one work: a worker (deep-research/worker.ts) leases   *)
(* the row, runs the research in a transient systemd unit of its own       *)
(* (deep-research/executor.ts), saves the packet and hands the row on.     *)
(* The row (WorkRow) and the packet are in the source's store, the         *)
(* registry of units in a database of its own, and the units and their     *)
(* workspaces are the operating system's: they outlive the worker.         *)
(*                                                                         *)
(* An action is one call to a store, to systemd or to the file system with *)
(* what the worker decides on its answer.  A unit has one workspace and    *)
(* one result; its result is named by the unit.                            *)
(***************************************************************************)
EXTENDS WorkRow

CONSTANTS
    MaxUnits,   \* bound: executions of the work
    MaxFaults   \* bound: worker crashes and calls that fail

ASSUME BoundsAssumption == MaxUnits \in Nat \ {0} /\ MaxFaults \in Nat

VARIABLES
    row,       \* the work row
    packet,    \* the unit whose packet is saved, or 0
    unit,      \* the executions, in the order they were prepared
    worker,    \* what each worker remembers
    faults

vars == <<row, packet, unit, worker, faults>>

Units == 1 .. MaxUnits

(* tree: its workspace exists.  used: its name was given out.              *)
Unit == [used : BOOLEAN, tree : BOOLEAN, registered : BOOLEAN, active : BOOLEAN]
NoUnit == [used |-> FALSE, tree |-> FALSE, registered |-> FALSE, active |-> FALSE]

Pc == {"idle", "leased", "preflight", "check", "prepare", "register", "spawn", "begin", "running",
       "stop", "cleanup", "result", "save", "handoff", "promote", "release", "fail"}

(* How execute() or process() is to end: with a result, with a failure     *)
(* that is retried below the attempt ceiling or never, or fenced off.      *)
Ends == {"result", "bounded", "never", "fenced"}

Memory == [pc : Pc, unit : Units \cup {0}, end : Ends, clean : BOOLEAN]
Idle == [pc |-> "idle", unit |-> 0, end |-> "result", clean |-> FALSE]

Init ==
    /\ row = [AdmittedRow EXCEPT !.status = "deep_pending"]
    /\ packet = 0
    /\ unit = [u \in Units |-> NoUnit]
    /\ worker = [p \in Workers |-> Idle]
    /\ faults = 0
-----------------------------------------------------------------------------
At(p, pc) == worker[p].pc = pc
Mine(p) == worker[p].unit
Goes(p, pc) == worker' = [worker EXCEPT ![p].pc = pc]
Forgets(p) == worker' = [worker EXCEPT ![p] = Idle]
Fails(p, end) == worker' = [worker EXCEPT ![p].pc = "fail", ![p].end = end]

(* terminateAndVerify, then what `end` says, after a cleanup if `clean`.   *)
Stops(p, end, clean) ==
    worker' = [worker EXCEPT ![p].pc = "stop", ![p].end = end, ![p].clean = clean]
Cleans(p, end) == worker' = [worker EXCEPT ![p].pc = "cleanup", ![p].end = end]

Faulty == faults < MaxFaults /\ faults' = faults + 1

(* claimWithLease of a deep row.                                           *)
ClaimRow(p) ==
    /\ At(p, "idle")
    /\ row.status = "deep_pending" /\ Claimable(row)
    /\ row' = Claimed(row, p)
    /\ Goes(p, "leased")
    /\ UNCHANGED <<packet, unit, faults>>

(* The packet of an earlier lease is handed on without another execution   *)
(* (its linkage, checked before it was saved, does not change); a broken   *)
(* linkage or a job that cannot be built fails the work.                   *)
Begin(p) ==
    /\ At(p, "leased")
    /\ IF row.fresh = 0 THEN Fails(p, "never")
       ELSE IF packet # 0 THEN Goes(p, "handoff")
       ELSE Goes(p, "preflight") \/ Fails(p, "never")
    /\ UNCHANGED <<row, packet, unit, faults>>

(* The preflight of the job, asked while others run.                       *)
Preflight(p) ==
    /\ At(p, "preflight")
    /\ Goes(p, "check") \/ Goes(p, "release") \/ Fails(p, "never")
    /\ UNCHANGED <<row, packet, unit, faults>>

Release(p) ==
    /\ At(p, "release")
    /\ row' = IF Fence(row, p, "deep_leased") THEN Moved(row, "deep_pending") ELSE row
    /\ Forgets(p)
    /\ UNCHANGED <<packet, unit, faults>>

(* heartbeat.check before the execution, and the executor's own checks of  *)
(* its platform.                                                           *)
Check(p) ==
    /\ At(p, "check")
    /\ IF MayBeat(row, p)
       THEN row' = Beaten(row) /\ (Goes(p, "prepare") \/ Fails(p, "never"))
       ELSE Forgets(p) /\ UNCHANGED row
    /\ UNCHANGED <<packet, unit, faults>>

(* The workspace of a new unit.  A failure removes it, or leaves it behind *)
(* and is final.                                                           *)
Prepare(p) ==
    /\ At(p, "prepare")
    /\ \E u \in Units :
          /\ ~unit[u].used /\ \A v \in Units : v < u => unit[v].used
          /\ \/ /\ unit' = [unit EXCEPT ![u].used = TRUE, ![u].tree = TRUE]
                /\ worker' = [worker EXCEPT ![p].pc = "register", ![p].unit = u]
                /\ UNCHANGED faults
             \/ /\ Faulty
                /\ \E left \in BOOLEAN :
                      /\ unit' = [unit EXCEPT ![u].used = TRUE, ![u].tree = left]
                      /\ Fails(p, IF left THEN "never" ELSE "bounded")
    /\ UNCHANGED <<row, packet>>

(* What follows a registration that failed.  (The slip: it is only logged.)*)
RegisterLogs(p) == Goes(p, "spawn") /\ UNCHANGED unit
RegisterFails(p) ==
    \E left \in BOOLEAN :
        /\ unit' = [unit EXCEPT ![Mine(p)].tree = left]
        /\ Fails(p, IF left THEN "never" ELSE "bounded")

Register(p) ==
    /\ At(p, "register")
    /\ \/ /\ unit' = [unit EXCEPT ![Mine(p)].registered = TRUE]
          /\ Goes(p, "spawn")
          /\ UNCHANGED faults
       \/ Faulty /\ RegisterFails(p)
    /\ UNCHANGED <<row, packet>>

Spawn(p) ==
    /\ At(p, "spawn")
    /\ \/ /\ unit' = [unit EXCEPT ![Mine(p)].active = TRUE]
          /\ Goes(p, "begin")
          /\ UNCHANGED faults
       \/ /\ Faulty
          /\ Cleans(p, "bounded")
          /\ UNCHANGED unit
    /\ UNCHANGED <<row, packet>>

(* The unit was spawned and the lease it was spawned under is lost: it is  *)
(* terminated.  (The slip: the loss is only reported.)                     *)
RefusedReports(p) == Forgets(p)
Refused(p) == Stops(p, "fenced", FALSE)

(* onExecutionStarted: the attempt begins once its unit has been spawned.  *)
(* Refused, the unit is terminated; if the call fails, it is not.          *)
BeginAttempt(p) ==
    /\ At(p, "begin")
    /\ \/ /\ MayBegin(row, p, "deep_leased")
          /\ row' = Begun(row)
          /\ Goes(p, "running")
          /\ UNCHANGED faults
       \/ /\ ~MayBegin(row, p, "deep_leased")
          /\ Refused(p)
          /\ UNCHANGED <<row, faults>>
       \/ /\ Faulty
          /\ Fails(p, "never")
          /\ UNCHANGED row
    /\ UNCHANGED <<packet, unit>>

(* The completion: the unit ended, and wrote a usable record or none; its  *)
(* time or its output ran over; or the client of systemd failed, with the  *)
(* unit running or not.                                                    *)
Complete(p) ==
    /\ At(p, "running")
    /\ \/ /\ ~unit[Mine(p)].active
          /\ Cleans(p, "result") \/ Cleans(p, "never")
          /\ UNCHANGED faults
       \/ /\ Stops(p, "bounded", TRUE) \/ Stops(p, "never", TRUE)
          /\ UNCHANGED faults
       \/ /\ Faulty
          /\ Stops(p, "bounded", FALSE)
    /\ UNCHANGED <<row, packet, unit>>

(* TERM, the grace period, KILL and the verification that the unit is      *)
(* inactive.  (The slip: TERM is taken to be enough.)                      *)
TermIsEnough(active) == {TRUE, FALSE}
VerifiedInactive(active) == {FALSE}

(* A unit that survives is a final failure, or a lease that is lost anyway.*)
Stop(p) ==
    /\ At(p, "stop")
    /\ \/ /\ \E still \in VerifiedInactive(unit[Mine(p)].active) :
                unit' = [unit EXCEPT ![Mine(p)].active = @ /\ still]
          /\ IF worker[p].end = "fenced" THEN Forgets(p)
             ELSE IF worker[p].clean THEN Cleans(p, worker[p].end)
             ELSE Fails(p, worker[p].end)
          /\ UNCHANGED faults
       \/ /\ Faulty
          /\ IF worker[p].end = "fenced" THEN Forgets(p) ELSE Fails(p, "never")
          /\ UNCHANGED unit
    /\ UNCHANGED <<row, packet>>

(* What follows a cleanup that failed.  (The slip: it is only logged.)     *)
CleanupLogs(p) == IF worker[p].end = "result" THEN Goes(p, "result") ELSE Fails(p, worker[p].end)
CleanupFails(p) == Fails(p, "never")

(* cleanupInactive: refused while the unit is active; the workspace first, *)
(* the registration last.                                                  *)
Cleanup(p) ==
    /\ At(p, "cleanup")
    /\ \/ /\ ~unit[Mine(p)].active
          /\ unit' = [unit EXCEPT ![Mine(p)].tree = FALSE, ![Mine(p)].registered = FALSE]
          /\ IF worker[p].end = "result" THEN Goes(p, "result") ELSE Fails(p, worker[p].end)
          /\ UNCHANGED faults
       \/ /\ unit[Mine(p)].active
          /\ CleanupFails(p)
          /\ UNCHANGED <<unit, faults>>
       \/ /\ ~unit[Mine(p)].active /\ Faulty
          /\ \E left \in BOOLEAN : unit' = [unit EXCEPT ![Mine(p)].tree = left]
          /\ CleanupFails(p)
    /\ UNCHANGED <<row, packet>>

(* (The slip: the row is handed on and the packet appended afterwards.)    *)
PacketLast == "handoff"
PacketFirst == "save"

(* heartbeat.check after the execution; an exit, an output or a packet     *)
(* that is not valid is a failure.                                         *)
Result(p) ==
    /\ At(p, "result")
    /\ IF MayBeat(row, p)
       THEN row' = Beaten(row) /\ (Goes(p, PacketFirst) \/ \E end \in {"bounded", "never"} : Fails(p, end))
       ELSE Forgets(p) /\ UNCHANGED row
    /\ UNCHANGED <<packet, unit, faults>>

(* appendResearchPacket: no fence; one packet of the work, never replaced. *)
Save(p) ==
    /\ At(p, "save")
    /\ IF packet = 0 THEN packet' = Mine(p) /\ Goes(p, "handoff")
       ELSE Fails(p, "never") /\ UNCHANGED packet
    /\ UNCHANGED <<row, unit, faults>>

(* completeHandoff: the fenced transition, and the promotion in a call of  *)
(* its own, which may fail and is not repeated.                            *)
Handoff(p) ==
    /\ At(p, "handoff")
    /\ IF Fence(row, p, "deep_leased")
       THEN row' = Moved(row, "research_ready") /\ Goes(p, "promote")
       ELSE Forgets(p) /\ UNCHANGED row
    /\ UNCHANGED <<packet, unit, faults>>

(* (The slip: the worker's outcome is written for the status.)             *)
PromotedTo(status) == IF status = "research_ready" THEN "handoff_pending" ELSE status
Promoted(status) == IF status = "research_ready" THEN "entity_pending" ELSE status

Promote(p) ==
    /\ At(p, "promote")
    /\ \/ /\ row' = [row EXCEPT !.status = Promoted(@)]
          /\ UNCHANGED faults
       \/ Faulty /\ UNCHANGED row
    /\ Forgets(p)
    /\ UNCHANGED <<packet, unit>>

(* transitionFailure                                                       *)
Fail(p) ==
    /\ At(p, "fail")
    /\ IF Fence(row, p, "deep_leased") THEN row' \in FailureRows(row, worker[p].end)
       ELSE UNCHANGED row
    /\ Forgets(p)
    /\ UNCHANGED <<packet, unit, faults>>
-----------------------------------------------------------------------------
(* The interval of startHeartbeat, until process() ends.                   *)
Beat(p) ==
    /\ worker[p].pc \notin {"idle", "leased", "preflight", "release"}
    /\ MayBeat(row, p)
    /\ row' = Beaten(row)
    /\ UNCHANGED <<packet, unit, worker, faults>>

(* The process dies; units, workspaces and registrations stay.             *)
Crash(p) ==
    /\ ~At(p, "idle")
    /\ Faulty
    /\ Forgets(p)
    /\ UNCHANGED <<row, packet, unit>>

(* A unit exits, or systemd ends it at its RuntimeMaxSec.                  *)
UnitEnds(u) ==
    /\ unit[u].active
    /\ unit' = [unit EXCEPT ![u].active = FALSE]
    /\ UNCHANGED <<row, packet, worker, faults>>

(* recoverExpiredLeases, which the shared research process runs.           *)
RecoverRow ==
    /\ LeaseExpired(row) \/ RetryDue(row)
    /\ row' = Recovered(row, FALSE)
    /\ UNCHANGED <<packet, unit, worker, faults>>

(* The lease part of sweepStaleResearchHolds, which the same process runs  *)
(* in front of the recovery: neither asks whether a unit runs.             *)
SweepRow ==
    /\ LeaseExpired(row)
    /\ row' = Swept(row, FALSE)
    /\ UNCHANGED <<packet, unit, worker, faults>>

(* Leases and waits run out; the freshness deadline is far beyond them and *)
(* is passed at any time, or after all of this.                            *)
Tick ==
    /\ row' = [Aged(row) EXCEPT !.fresh = row.fresh]
    /\ UNCHANGED <<packet, unit, worker, faults>>

GetsStale ==
    /\ row.fresh > 0
    /\ row' = [row EXCEPT !.fresh = @ - 1]
    /\ UNCHANGED <<packet, unit, worker, faults>>

WorkerStep(p) ==
    \/ Begin(p) \/ Preflight(p) \/ Release(p) \/ Check(p) \/ Prepare(p) \/ Register(p) \/ Spawn(p)
    \/ BeginAttempt(p) \/ Complete(p) \/ Stop(p) \/ Cleanup(p) \/ Result(p) \/ Save(p)
    \/ Handoff(p) \/ Promote(p) \/ Fail(p)

Next ==
    \/ \E p \in Workers : ClaimRow(p) \/ WorkerStep(p) \/ Beat(p) \/ Crash(p)
    \/ \E u \in Units : UnitEnds(u)
    \/ RecoverRow \/ SweepRow \/ Tick \/ GetsStale

Spec == Init /\ [][Next]_vars

(* Workers poll and finish their calls, the recovery pass runs, systemd    *)
(* keeps its time limit and time passes.  A lease outlasts the steps from  *)
(* a claim to the handoff of a saved packet: a worker that is again and    *)
(* again at one of them while it holds its lease takes it in time.         *)
FairSpec ==
    /\ Spec
    /\ WF_vars(Tick) /\ WF_vars(RecoverRow)
    /\ WF_vars(\E p \in Workers : ClaimRow(p))
    /\ \A u \in Units : WF_vars(UnitEnds(u))
    /\ \A p \in Workers :
          /\ WF_vars(WorkerStep(p))
          /\ SF_vars(Begin(p) /\ Fence(row, p, "deep_leased"))
          /\ SF_vars(Handoff(p) /\ Fence(row, p, "deep_leased"))
-----------------------------------------------------------------------------
TypeOK ==
    /\ row \in Row
    /\ packet \in Units \cup {0}
    /\ unit \in [Units -> Unit]
    /\ worker \in [Workers -> Memory]
    /\ faults \in 0 .. MaxFaults

(* "It discovers jobs from registered execution metadata": whatever dies   *)
(* or fails, the orphan audit knows every unit that still runs.            *)
ActiveIsRegistered ==
    \A u \in Units : unit[u].active => unit[u].registered /\ unit[u].tree

(* A row past the deep stage has its packet, though the packet is appended *)
(* without a fence and the row moves without looking at it.                *)
HandedOffHasPacket ==
    row.status \in {"research_ready", "entity_pending"} => packet # 0

(* A saved packet is that of an execution that is over: its unit ended,    *)
(* and workspace and registration are gone before the worker sees the      *)
(* result, so the orphan audit never meets the unit of a saved packet.     *)
PacketOutlivesItsUnit ==
    packet # 0 => unit[packet] = [NoUnit EXCEPT !.used = TRUE]

(* A unit is looked after while a worker waits for it or stops it.         *)
Attended(u) == \E p \in Workers : Mine(p) = u /\ worker[p].pc \in {"begin", "running", "stop"}
Left == {u \in Units : unit[u].active /\ ~Attended(u)}

(* Recovery and sweep take an expired lease without asking its unit, so a  *)
(* unit may run on beside that of the next claim.  But a worker that lost  *)
(* its lease still sees its unit to the end: one is left to its time limit *)
(* only by a crash or by a call that failed, and each leaves one at most.  *)
LeftOnlyByFaults == Cardinality(Left) <= faults

(* Every status change of the deep stage is one the transition table       *)
(* lists: the promotion, the recovery and the sweep, which do not ask it,  *)
(* included.                                                               *)
FollowsTransitionTable ==
    [][row'.status # row.status => CanTransition(row.status, row'.status)]_vars

(* A worker that sends its row to a retry or hands it on, while its lease  *)
(* holds, leaves no unit of its own running behind the lease it gives up.  *)
LeavesNothingRunning ==
    [][\A p \in Workers :
          /\ Fence(row, p, "deep_leased") /\ row'.owner = NoWorker
          /\ row'.status \in {"retry_wait", "research_ready"}
          /\ Mine(p) # 0
          => ~unit[Mine(p)].active]_vars

(* A saved packet is not lost when its worker dies or loses its lease: the *)
(* work is handed on, or stops where an operator sees it, unless its       *)
(* freshness ran out.                                                      *)
SavedPacketIsHandedOff ==
    packet # 0 ~> \/ row.status \in {"research_ready", "entity_pending", "dead_letter"}
                  \/ row.fresh = 0

(* "A crashed worker cannot strand work": a work that is ready for the     *)
(* entity stage gets there.                                                *)
CrashStrandsNothing ==
    row.status = "research_ready" ~> row.status # "research_ready"
=============================================================================

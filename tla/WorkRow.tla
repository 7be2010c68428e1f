------------------------------ MODULE WorkRow -------------------------------
(***************************************************************************)
(* One research work row of SqliteSignalPlatformStore and the conditional  *)
(* updates the store offers on it.  Each operator pair is the condition    *)
(* and the new row of one BEGIN IMMEDIATE transaction; a caller whose      *)
(* condition fails gets `false` or `null` and the row stays as it is.      *)
(*                                                                         *)
(* Timestamps are kept as the ticks left until them: a lease has expired   *)
(* (lease_expires_at <= now) when no tick of it is left, a retry is due    *)
(* when its wait is 0, a work is stale when its freshness is 0.  A lease   *)
(* is identified by the worker that holds it: a worker remembers at most   *)
(* one lease and forgets it when it crashes, so two leases of a worker are *)
(* never confused.  Failure categories and priorities are abstracted.      *)
(***************************************************************************)
EXTENDS WorkStatus, Naturals, FiniteSetsExt

CONSTANTS
    Workers,
    NoWorker,     \* lease_owner = lease_id = NULL
    LeaseTtl,     \* ticks a claim or a heartbeat gives a lease
    Backoff,      \* longest wait of a retry, in ticks
    Freshness,    \* ticks from admission to the freshness deadline
    MaxAttempts   \* the attempt ceiling of the workers and of the sweep

ASSUME NoWorkerAssumption == NoWorker \notin Workers
ASSUME TimesAssumption == {LeaseTtl, Backoff, Freshness, MaxAttempts} \subseteq Nat \ {0}

(* The attempt counter is only ever compared with MaxAttempts, so it is    *)
(* kept up to one above it (bound: MaxAttempts + 1).                       *)
Row ==
    [ status   : Status,
      owner    : Workers \cup {NoWorker},
      lease    : 0 .. LeaseTtl,
      wait     : 0 .. Backoff,
      fresh    : 0 .. Freshness,
      attempts : 0 .. MaxAttempts + 1,
      started  : BOOLEAN,
      target   : PendingStatus \cup {"none"} ]

(* admitResearchWork                                                       *)
AdmittedRow ==
    [ status |-> "research_pending", owner |-> NoWorker, lease |-> 0, wait |-> 0,
      fresh |-> Freshness, attempts |-> 0, started |-> FALSE, target |-> "none" ]

Leased(r) == r.status \in LeasedStatus

(* claimWithLease                                                          *)
Claimable(r) ==
    r.status \in PendingStatus /\ r.owner = NoWorker /\ r.fresh > 0 /\ r.wait = 0
Claimed(r, p) ==
    [r EXCEPT !.status = LeasedStatusFor[@], !.owner = p, !.lease = LeaseTtl, !.started = FALSE]

(* The fence every leased update repeats: status, owner and lease identity *)
(* are those of the caller's lease and the lease has not expired.          *)
Fence(r, p, status) == r.status = status /\ r.owner = p /\ r.lease > 0

(* beginAttempt: once per lease.                                           *)
MayBegin(r, p, status) == Fence(r, p, status) /\ ~r.started
Begun(r) == [r EXCEPT !.started = TRUE, !.attempts = Min({@ + 1, MaxAttempts + 1})]

(* heartbeatLease                                                          *)
MayBeat(r, p) == Leased(r) /\ r.owner = p /\ r.lease > 0
Beaten(r) == [r EXCEPT !.lease = LeaseTtl]

Unleased(r, status) ==
    [r EXCEPT !.status = status, !.owner = NoWorker, !.lease = 0, !.wait = 0,
              !.started = FALSE, !.target = "none"]

(* Slips: a transition that forgets to clear the lease, a recovery that    *)
(* starts every expired work over, and one that leaves stale retries.      *)
MovedWithLease(r, status) == [r EXCEPT !.status = status]
RecoveredFromStart(r, exposed) ==
    Unleased(r, IF exposed THEN "dead_letter" ELSE IF Leased(r) THEN "research_pending" ELSE r.target)
RetryDueWhileFresh(r) == r.status = "retry_wait" /\ r.wait = 0 /\ r.fresh > 0

(* transitionLeased to a status that is not a retry, and the commit of     *)
(* commitResearchHandoff; releaseLease is the case of the stage's own      *)
(* pending status.                                                         *)
Moved(r, status) == Unleased(r, status)

(* transitionLeased to retry_wait                                          *)
Waiting(r, ticks) ==
    [Unleased(r, "retry_wait") EXCEPT !.wait = ticks, !.target = PendingStatusFor[r.status]]

(* The outcomes of transitionFailure.  A failure is never retried, retried *)
(* below the attempt ceiling, or always (transient storage outages).       *)
Retries == {"never", "bounded", "always"}

FailureRows(r, retry) ==
    IF r.fresh = 0 THEN {Moved(r, "expired")}
    ELSE IF retry = "always" \/ (retry = "bounded" /\ r.attempts < MaxAttempts)
    THEN {Waiting(r, t) : t \in 1 .. Backoff}
    ELSE {Moved(r, "dead_letter")}

(* recoverExpiredLeases: an expired lease goes back to its stage, whatever *)
(* its attempts, and a due retry to its target; paid exposure stops both.  *)
LeaseExpired(r) == Leased(r) /\ r.lease = 0
RetryDue(r) == r.status = "retry_wait" /\ r.wait = 0
Recovered(r, exposed) ==
    Moved(r, IF exposed THEN "dead_letter"
             ELSE IF Leased(r) THEN PendingStatusFor[r.status] ELSE r.target)

(* The lease part of sweepStaleResearchHolds.                              *)
Swept(r, exposed) ==
    IF ~exposed /\ r.attempts < MaxAttempts THEN Waiting(r, 1) ELSE Moved(r, "dead_letter")

(* One tick of the clock.                                                  *)
Aged(r) ==
    [r EXCEPT !.lease = Max({@, 1}) - 1, !.wait = Max({@, 1}) - 1, !.fresh = Max({@, 1}) - 1]
=============================================================================

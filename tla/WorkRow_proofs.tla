--------------------------- MODULE WorkRow_proofs ---------------------------
(***************************************************************************)
(* What the store's updates of a work row return, for any row: each gives  *)
(* a row again, and the fields by which the modules on top of WorkRow know *)
(* a row by.                                                               *)
(***************************************************************************)
EXTENDS WorkRow, TLAPS

LEMMA MaxWithOne == ASSUME NEW n \in Nat PROVE Max({n, 1}) \in {n, 1} /\ Max({n, 1}) >= n
<1>1. \E m \in {n, 1} : \A k \in {n, 1} : m >= k
  <2>1. CASE n >= 1
    BY <2>1
  <2>2. CASE n < 1
    BY <2>2
  <2>3. QED
    BY <2>1, <2>2
<1>2. Max({n, 1}) \in {n, 1} /\ \A k \in {n, 1} : Max({n, 1}) >= k
  BY <1>1 DEF Max
<1>3. QED
  BY <1>2

(* A countdown stays in its range.                                         *)
LEMMA CountsDown == ASSUME NEW k \in Nat, NEW n \in 0 .. k PROVE Max({n, 1}) - 1 \in 0 .. k
<1>1. n \in Nat
  OBVIOUS
<1>2. Max({n, 1}) \in {n, 1} /\ Max({n, 1}) >= n
  BY <1>1, MaxWithOne
<1>3. Max({n, 1}) >= 1
  <2>1. \E m \in {n, 1} : \A j \in {n, 1} : m >= j
    BY <1>1
  <2>2. QED
    BY <2>1 DEF Max
<1>4. CASE Max({n, 1}) = n
  BY <1>3, <1>4
<1>5. CASE Max({n, 1}) = 1
  BY <1>5
<1>6. QED
  BY <1>2, <1>4, <1>5

LEMMA MinWith == ASSUME NEW n \in Nat, NEW k \in Nat PROVE Min({n, k}) \in {n, k} /\ Min({n, k}) =< k
<1>1. \E m \in {n, k} : \A j \in {n, k} : m =< j
  <2>1. CASE n =< k
    BY <2>1
  <2>2. CASE k < n
    BY <2>2
  <2>3. QED
    BY <2>1, <2>2
<1>2. QED
  BY <1>1 DEF Min

LEMMA TimesType ==
    /\ LeaseTtl \in Nat \ {0} /\ Backoff \in Nat \ {0} /\ Freshness \in Nat \ {0} /\ MaxAttempts \in Nat \ {0}
    /\ 0 \in 0 .. LeaseTtl /\ LeaseTtl \in 0 .. LeaseTtl
    /\ 0 \in 0 .. Backoff /\ 1 \in 0 .. Backoff
  BY TimesAssumption

LEMMA StatusType ==
    /\ PendingStatus \subseteq Status /\ LeasedStatus \subseteq Status
    /\ {"retry_wait", "research_ready", "complete", "expired", "dead_letter"} \subseteq Status
    /\ "none" \notin PendingStatus
    /\ \A s \in PendingStatus : LeasedStatusFor[s] \in LeasedStatus /\ PendingStatusFor[LeasedStatusFor[s]] = s
    /\ \A s \in LeasedStatus : PendingStatusFor[s] \in PendingStatus
<1>1. /\ PendingStatus \subseteq Status /\ LeasedStatus \subseteq Status
      /\ {"retry_wait", "research_ready", "complete", "expired", "dead_letter"} \subseteq Status
      /\ "none" \notin PendingStatus
  BY DEF PendingStatus, LeasedStatus, Status, NormalTransitions
<1>2. \A s \in PendingStatus : LeasedStatusFor[s] \in LeasedStatus /\ PendingStatusFor[LeasedStatusFor[s]] = s
  BY DEF PendingStatus, LeasedStatus, LeasedStatusFor, PendingStatusFor
<1>3. \A s \in LeasedStatus : PendingStatusFor[s] \in PendingStatus
  BY DEF PendingStatus, LeasedStatus, PendingStatusFor
<1>4. QED
  BY <1>1, <1>2, <1>3

LEMMA MovedRow ==
    ASSUME NEW r \in Row, NEW status \in Status
    PROVE  /\ Moved(r, status) \in Row /\ Unleased(r, status) \in Row
           /\ Moved(r, status).status = status /\ Moved(r, status).owner = NoWorker
           /\ Moved(r, status).target = "none" /\ Moved(r, status).fresh = r.fresh
  BY TimesType DEF Moved, Unleased, Row

LEMMA ClaimedRow ==
    ASSUME NEW r \in Row, NEW p \in Workers, r.status \in PendingStatus
    PROVE  /\ Claimed(r, p) \in Row
           /\ Claimed(r, p).status = LeasedStatusFor[r.status]
           /\ Claimed(r, p).owner = p /\ Claimed(r, p).target = r.target
           /\ Claimed(r, p).fresh = r.fresh
  BY TimesType, StatusType DEF Claimed, Row

LEMMA WaitingRow ==
    ASSUME NEW r \in Row, NEW t \in 1 .. Backoff, r.status \in LeasedStatus
    PROVE  /\ Waiting(r, t) \in Row
           /\ Waiting(r, t).status = "retry_wait" /\ Waiting(r, t).owner = NoWorker
           /\ Waiting(r, t).target = PendingStatusFor[r.status]
           /\ Waiting(r, t).fresh = r.fresh
<1> DEFINE u == Unleased(r, "retry_wait")
<1> DEFINE stage == PendingStatusFor[r.status]
<1>1. u \in Row /\ u.status = "retry_wait" /\ u.owner = NoWorker /\ u.fresh = r.fresh
  BY MovedRow, StatusType DEF Moved
<1>2. stage \in PendingStatus /\ t \in 0 .. Backoff
  BY StatusType, TimesType
<1> HIDE DEF u, stage
<1>3. /\ [u EXCEPT !.wait = t, !.target = stage] \in Row
      /\ [u EXCEPT !.wait = t, !.target = stage].status = "retry_wait"
      /\ [u EXCEPT !.wait = t, !.target = stage].owner = NoWorker
      /\ [u EXCEPT !.wait = t, !.target = stage].target = stage
      /\ [u EXCEPT !.wait = t, !.target = stage].fresh = r.fresh
  BY <1>1, <1>2 DEF Row
<1>4. QED
  BY <1>3 DEF Waiting, u, stage

LEMMA BeatenRow ==
    ASSUME NEW r \in Row
    PROVE  /\ Beaten(r) \in Row
           /\ \A field \in {"status", "owner", "target", "started", "fresh"} : Beaten(r)[field] = r[field]
  BY TimesType DEF Beaten, Row

LEMMA BegunRow ==
    ASSUME NEW r \in Row
    PROVE  /\ Begun(r) \in Row
           /\ \A field \in {"status", "owner", "target", "lease", "fresh"} : Begun(r)[field] = r[field]
<1>1. r.attempts + 1 \in Nat /\ MaxAttempts + 1 \in Nat
  BY TimesType DEF Row
<1> DEFINE count == Min({r.attempts + 1, MaxAttempts + 1})
<1>2. count \in 0 .. MaxAttempts + 1
  BY <1>1, MinWith
<1> HIDE DEF count
<1>3. /\ [r EXCEPT !.started = TRUE, !.attempts = count] \in Row
      /\ \A field \in {"status", "owner", "target", "lease", "fresh"} :
            [r EXCEPT !.started = TRUE, !.attempts = count][field] = r[field]
  BY <1>2 DEF Row
<1>4. QED
  BY <1>3 DEF Begun, count

LEMMA FailureRow ==
    ASSUME NEW r \in Row, r.status \in LeasedStatus, NEW retry, NEW s \in FailureRows(r, retry)
    PROVE  /\ s \in Row /\ s.owner = NoWorker
           /\ \/ s.status \in {"expired", "dead_letter"} /\ s.target = "none"
              \/ /\ s.status = "retry_wait" /\ retry \in {"bounded", "always"}
                 /\ s.target = PendingStatusFor[r.status]
<1>1. CASE \E status \in {"expired", "dead_letter"} : s = Moved(r, status)
  <2>1. PICK status \in {"expired", "dead_letter"} : s = Moved(r, status)
    BY <1>1
  <2>2. status \in Status
    BY StatusType
  <2>3. QED
    BY <2>1, <2>2, MovedRow
<1>2. CASE retry \in {"bounded", "always"} /\ \E t \in 1 .. Backoff : s = Waiting(r, t)
  BY <1>2, WaitingRow
<1>3. QED
  BY <1>1, <1>2 DEF FailureRows

LEMMA RecoveredRow ==
    ASSUME NEW r \in Row, NEW exposed \in BOOLEAN,
           LeaseExpired(r) \/ RetryDue(r),
           r.status = "retry_wait" => r.target \in PendingStatus
    PROVE  /\ Recovered(r, exposed) \in Row
           /\ Recovered(r, exposed).owner = NoWorker
           /\ Recovered(r, exposed).status =
                 IF exposed THEN "dead_letter"
                 ELSE IF Leased(r) THEN PendingStatusFor[r.status] ELSE r.target
<1> DEFINE status == IF exposed THEN "dead_letter"
                     ELSE IF Leased(r) THEN PendingStatusFor[r.status] ELSE r.target
<1>1. status \in Status
  BY StatusType DEF Leased, LeaseExpired, RetryDue
<1> HIDE DEF status
<1>2. Moved(r, status) \in Row /\ Moved(r, status).owner = NoWorker /\ Moved(r, status).status = status
  BY <1>1, MovedRow
<1>3. QED
  BY <1>2 DEF Recovered, status

LEMMA SweptRow ==
    ASSUME NEW r \in Row, NEW exposed \in BOOLEAN, r.status \in LeasedStatus
    PROVE  /\ Swept(r, exposed) \in Row
           /\ Swept(r, exposed).owner = NoWorker
           /\ \/ /\ Swept(r, exposed).status = "retry_wait"
                 /\ Swept(r, exposed).target = PendingStatusFor[r.status]
              \/ Swept(r, exposed).status = "dead_letter"
<1>1. 1 \in 1 .. Backoff /\ "dead_letter" \in Status
  BY TimesType, StatusType
<1>2. QED
  BY <1>1, WaitingRow, MovedRow DEF Swept

(* One tick of the clock, with the freshness deadline or without.          *)
LEMMA AgedRow ==
    ASSUME NEW r \in Row
    PROVE  /\ Aged(r) \in Row /\ [Aged(r) EXCEPT !.fresh = r.fresh] \in Row
           /\ \A field \in {"status", "owner", "target", "started", "attempts"} :
                 /\ Aged(r)[field] = r[field]
                 /\ [Aged(r) EXCEPT !.fresh = r.fresh][field] = r[field]
<1> DEFINE lease == Max({r.lease, 1}) - 1
<1> DEFINE wait == Max({r.wait, 1}) - 1
<1> DEFINE fresh == Max({r.fresh, 1}) - 1
<1>1. r.lease \in 0 .. LeaseTtl /\ r.wait \in 0 .. Backoff /\ r.fresh \in 0 .. Freshness
  BY DEF Row
<1>2. lease \in 0 .. LeaseTtl /\ wait \in 0 .. Backoff /\ fresh \in 0 .. Freshness
  BY <1>1, TimesType, CountsDown
<1> HIDE DEF lease, wait, fresh
<1> DEFINE aged == [r EXCEPT !.lease = lease, !.wait = wait, !.fresh = fresh]
<1>3. aged \in Row /\ \A field \in {"status", "owner", "target", "started", "attempts"} : aged[field] = r[field]
  BY <1>2 DEF Row
<1> HIDE DEF aged
<1>4. /\ [aged EXCEPT !.fresh = r.fresh] \in Row
      /\ \A field \in {"status", "owner", "target", "started", "attempts"} :
            [aged EXCEPT !.fresh = r.fresh][field] = r[field]
  BY <1>1, <1>3 DEF Row
<1>5. Aged(r) = aged
  BY DEF Aged, aged, lease, wait, fresh
<1>6. QED
  BY <1>3, <1>4, <1>5
-----------------------------------------------------------------------------
(* The transition table lists every move the store makes on its own: a     *)
(* claim, the failures and the recovery of any stage, a retry's return.    *)
LEMMA StageMoves ==
    /\ \A s \in PendingStatus : CanTransition(s, LeasedStatusFor[s])
    /\ \A s \in LeasedStatus :
          /\ CanTransition(s, PendingStatusFor[s])
          /\ \A t \in {"retry_wait", "expired", "dead_letter"} : CanTransition(s, t)
    /\ \A s \in PendingStatus : CanTransition("retry_wait", s)
<1>1. \A s \in PendingStatus : CanTransition(s, LeasedStatusFor[s]) /\ CanTransition("retry_wait", s)
  BY DEF PendingStatus, LeasedStatusFor, CanTransition, NormalTransitions
<1>2. \A s \in LeasedStatus :
         /\ CanTransition(s, PendingStatusFor[s])
         /\ \A t \in {"retry_wait", "expired", "dead_letter"} : CanTransition(s, t)
  BY DEF LeasedStatus, PendingStatusFor, CanTransition, NormalTransitions
<1>3. QED
  BY <1>1, <1>2

(* So does the sweep.                                                     *)
LEMMA SweptMoves ==
    ASSUME NEW r \in Row, NEW exposed \in BOOLEAN, r.status \in LeasedStatus
    PROVE  CanTransition(r.status, Swept(r, exposed).status)
<1>1. Swept(r, exposed).status \in {"retry_wait", "dead_letter"}
  BY SweptRow
<1>2. QED
  BY <1>1, StageMoves
=============================================================================

----------------------- MODULE SharedResearch_proofs ------------------------
(***************************************************************************)
(* The research workers keep their rows, their packets and their accounts  *)
(* for any number of workers and works and any flows: the invariants of    *)
(* SharedResearch, and that the purchases of a chain implement PaidOnce.   *)
(***************************************************************************)
EXTENDS SharedResearch, WorkRow_proofs

RetrievalPc == {"plan", "planned", "fetch", "route"}
Stage(m) == IF m.pc \in RetrievalPc THEN "retrieval_leased" ELSE "synthesis_leased"

(* The lease fields and the status of a row agree.                         *)
RowFits(r) ==
    /\ Leased(r) <=> r.owner # NoWorker
    /\ r.status = "retry_wait" <=> r.target # "none"

(* A settlement has a reason, and who is past the purchase of a packet     *)
(* carries one.                                                            *)
BuyPc == {"list", "insert", "decide", "own", "intend", "send", "await", "settle", "commit", "unknown"}
CarryPc ==
    {"save", "handoff", "followup", "admit", "consent", "pledge", "weigh", "doubt", "judge", "regather",
     "gather", "resolve"}

Reasoned(m) ==
    /\ m.pc \in {"settle", "commit"} => m.why \in {"response", "replay", "abort", "rejection"}
    /\ m.pc \in CarryPc \/ (m.pc \in BuyPc /\ m.buying \in {"value", "followup"}) => m.packet # "none"
    /\ m.pc = "save" => m.packet \in {"bought", "reused"}

RowInv == TypeOK /\ LeaseMatchesStatus /\ HandedOffIsPastResearch /\ \A p \in Workers : Reasoned(worker[p])
-----------------------------------------------------------------------------
(* What a step may do to a row: it keeps its lease or has none, and its    *)
(* status changes only from the stages of research and along the table.    *)
Open == LeasedStatus \cup {"retry_wait", "research_pending", "synthesis_pending"}

RowStep(w) ==
    /\ row'[w] \in Row /\ RowFits(row'[w])
    /\ row'[w].owner = NoWorker \/ (row'[w].owner = row[w].owner /\ row'[w].status = row[w].status)
    /\ \/ row'[w].status = row[w].status
       \/ row[w].status \in Open /\ CanTransition(row[w].status, row'[w].status)

RowSteps == row' = [w \in Works |-> row'[w]] /\ \A w \in Works : RowStep(w)

(* What a step of a worker may do to its memory: it keeps its work and its *)
(* stage, or forgets, and only the dispatch intent has it send a request.  *)
Turn(p, m) ==
    /\ m \in Memory /\ Becomes(p, m) /\ Reasoned(m)
    /\ m.pc = "send" => worker[p].pc = "intend"
    /\ m.pc = "idle" \/ (m.work = worker[p].work /\ Stage(m) = Stage(worker[p]) /\ worker[p].pc # "idle")

Turns(p) == \E m \in Memory : Turn(p, m)

LEMMA RowsOfInv ==
    ASSUME RowInv, NEW w \in Works PROVE row[w] \in Row /\ RowFits(row[w])
  BY DEF RowInv, TypeOK, LeaseMatchesStatus, RowFits

LEMMA RowsUnchanged == ASSUME RowInv, UNCHANGED row PROVE RowSteps
<1>1. row' = [w \in Works |-> row'[w]]
  BY DEF RowInv, TypeOK
<1>2. QED
  BY <1>1, RowsOfInv DEF RowSteps, RowStep

(* One row is written.                                                     *)
LEMMA RowWritten ==
    ASSUME RowInv, NEW w \in Works, NEW r, row' = [row EXCEPT ![w] = r],
           r \in Row, RowFits(r),
           r.owner = NoWorker \/ (r.owner = row[w].owner /\ r.status = row[w].status),
           \/ r.status = row[w].status
           \/ row[w].status \in Open /\ CanTransition(row[w].status, r.status)
    PROVE  RowSteps
<1>1. row \in [Works -> Row]
  BY DEF RowInv, TypeOK
<1>2. row'[w] = r /\ \A v \in Works \ {w} : row'[v] = row[v]
  BY <1>1
<1>3. row' = [v \in Works |-> row'[v]]
  BY <1>1
<1>4. RowStep(w)
  BY <1>2 DEF RowStep
<1>5. \A v \in Works \ {w} : RowStep(v)
  BY <1>2, RowsOfInv DEF RowStep
<1>6. QED
  BY <1>3, <1>4, <1>5 DEF RowSteps

LEMMA IdleMemory == \A w \in Works : Blank(w) \in Memory /\ Idle \in Memory /\ Idle.pc = "idle" /\ Blank(w).work = w
                       /\ Reasoned(Idle)
<1>0. Absent \in Reservation
  BY CallLimitAssumption DEF Absent, Reservation
<1>1. \A w \in Works : Blank(w) \in Memory
  BY <1>0 DEF Blank, Memory, Pc, Packets, Allowances
<1>2. (CHOOSE w \in Works : TRUE) \in Works
  BY WorksAssumption
<1>3. QED
  BY <1>1, <1>2 DEF Idle, Blank, Reasoned, BuyPc, CarryPc

LEMMA EndsTurn == ASSUME RowInv, NEW p \in Workers, Ends(p) PROVE Turns(p)
<1>1. worker[p].work \in Works
  BY DEF RowInv, TypeOK, Memory
<1>2. QED
  BY <1>1, IdleMemory DEF Ends, Turns, Turn

(* A worker goes on within its stage.                                      *)
LEMMA GoesTurn ==
    ASSUME RowInv, NEW p \in Workers, NEW pc \in Pc, Goes(p, pc), worker[p].pc # "idle",
           pc \in RetrievalPc <=> worker[p].pc \in RetrievalPc, pc \notin {"settle", "commit", "save"},
           pc = "send" => worker[p].pc = "intend",
           pc \in CarryPc \/ (pc \in BuyPc /\ worker[p].buying \in {"value", "followup"})
              => worker[p].packet # "none"
    PROVE  /\ Turns(p) /\ Becomes(p, [worker[p] EXCEPT !.pc = pc])
           /\ [worker[p] EXCEPT !.pc = pc] \in Memory
<1> DEFINE m == [worker[p] EXCEPT !.pc = pc]
<1>1. worker[p] \in Memory
  BY DEF RowInv, TypeOK
<1>2. /\ m \in Memory /\ m.pc = pc /\ m.work = worker[p].work
      /\ m.buying = worker[p].buying /\ m.packet = worker[p].packet
  BY <1>1 DEF Memory
<1>3. Becomes(p, m)
  BY DEF Goes, Becomes
<1>4. Reasoned(m) /\ Stage(m) = Stage(worker[p])
  BY <1>2 DEF Reasoned, Stage
<1> HIDE DEF m
<1>5. Turns(p)
  BY <1>2, <1>3, <1>4 DEF Turns, Turn
<1>6. QED
  BY <1>2, <1>3, <1>5 DEF m

(* The rows that a fenced last write may leave.                            *)
Leaves(status, news) ==
    \A r \in news : /\ r \in Row /\ r.owner = NoWorker /\ RowFits(r)
                     /\ CanTransition(status, r.status)

LEMMA LastWriteStep ==
    ASSUME RowInv, NEW p \in Workers, NEW status \in LeasedStatus, NEW news,
           row[worker[p].work].status = status => Leaves(status, news), LastWrite(p, status, news)
    PROVE  RowSteps /\ Turns(p) /\ UNCHANGED <<disk, ledger, others>>
<1> DEFINE w == worker[p].work
<1>1. w \in Works
  BY DEF RowInv, TypeOK, Memory
<1>2. Ends(p) /\ UNCHANGED <<disk, ledger, others>>
  BY DEF LastWrite
<1>3. CASE UNCHANGED row
  BY <1>2, <1>3, RowsUnchanged, EndsTurn
<1>4. CASE Fence(row[w], p, status) /\ \E r \in news : row' = [row EXCEPT ![w] = r]
  <2>1. PICK r \in news : row' = [row EXCEPT ![w] = r]
    BY <1>4
  <2>2. row[w].status = status /\ status \in Open
    BY <1>4 DEF Fence, Open
  <2>3. /\ r \in Row /\ RowFits(r) /\ r.owner = NoWorker
        /\ row[w].status \in Open /\ CanTransition(row[w].status, r.status)
    BY <2>1, <2>2 DEF Leaves
  <2> HIDE DEF w
  <2>4. RowSteps
    BY <1>1, <2>1, <2>3, RowWritten
  <2>5. QED
    BY <1>2, <2>4, EndsTurn
<1>5. QED
  BY <1>3, <1>4 DEF LastWrite, SetRow

LEMMA MovedLeaves ==
    ASSUME NEW r \in Row, NEW status, NEW next \in Status, next \notin LeasedStatus, next # "retry_wait",
           CanTransition(status, next)
    PROVE  Leaves(status, {Moved(r, next)})
  BY MovedRow DEF Leaves, RowFits, Leased

LEMMA FailureLeaves ==
    ASSUME NEW r \in Row, NEW status \in {"retrieval_leased", "synthesis_leased"}, NEW retry,
           r.status = status
    PROVE  Leaves(status, FailureRows(r, retry))
<1>1. ASSUME NEW s \in FailureRows(r, retry)
      PROVE  s \in Row /\ s.owner = NoWorker /\ RowFits(s) /\ CanTransition(status, s.status)
  <2>1. r.status \in LeasedStatus
    BY DEF LeasedStatus
  <2>2. /\ s \in Row /\ s.owner = NoWorker
        /\ \/ s.status \in {"expired", "dead_letter"} /\ s.target = "none"
           \/ s.status = "retry_wait" /\ s.target = PendingStatusFor[r.status]
    BY <2>1, FailureRow
  <2>3. PendingStatusFor[r.status] # "none"
    BY <2>1, StatusType
  <2>4. s.status \notin LeasedStatus /\ CanTransition(status, s.status)
    BY <2>2 DEF LeasedStatus, CanTransition, NormalTransitions
  <2>5. QED
    BY <2>2, <2>3, <2>4 DEF RowFits, Leased
<1>2. QED
  BY <1>1 DEF Leaves
-----------------------------------------------------------------------------
(* The memory of a worker after each of the ways to go on in a synthesis.  *)
LEMMA MemoryOfInv ==
    ASSUME RowInv, NEW p \in Workers
    PROVE  /\ worker[p] \in Memory /\ worker[p].work \in Works /\ Purchase(p) \in Purchases
           /\ disk[worker[p].work] \in Disk /\ row[worker[p].work] \in Row /\ rsv[Purchase(p)] \in Reservation
           /\ Reasoned(worker[p])
  BY DEF RowInv, TypeOK, Memory, Purchase, Purchases

LEMMA HeldMemory ==
    ASSUME RowInv, NEW p \in Workers
    PROVE  Held(p) \in Memory /\ Held(p).pc = "hold" /\ Held(p).work = worker[p].work
  BY MemoryOfInv, IdleMemory DEF Held, Blank, Memory, Pc

LEMMA SpendsMemory ==
    ASSUME RowInv, NEW p \in Workers, NEW a \in Allowances, NEW packet \in Packets, Spends(p, a, packet)
    PROVE  \E m \in Memory :
              /\ Becomes(p, m) /\ m.pc = "list" /\ m.work = worker[p].work
              /\ m.buying = a /\ m.packet = packet /\ m.seen = Absent /\ m.why = "none"
<1> DEFINE m == [Blank(worker[p].work) EXCEPT !.pc = "list", !.buying = a, !.packet = packet]
<1>1. /\ m \in Memory /\ m.pc = "list" /\ m.work = worker[p].work
      /\ m.buying = a /\ m.packet = packet /\ m.seen = Absent /\ m.why = "none"
  BY MemoryOfInv, IdleMemory DEF Blank, Memory, Pc
<1>2. Becomes(p, m)
  BY DEF Spends
<1>3. QED
  BY <1>1, <1>2

LEMMA RefusedMemory ==
    ASSUME RowInv, NEW p \in Workers
    PROVE  /\ Refused(p) \in Memory /\ Refused(p).work = worker[p].work
           /\ worker[p].buying = "value" =>
                 Refused(p).pc = "doubt" /\ Refused(p).buying = "value" /\ Refused(p).packet = worker[p].packet
           /\ worker[p].buying # "value" => Refused(p).pc = "hold"
<1>1. Absent \in Reservation
  BY CallLimitAssumption DEF Absent, Reservation
<1>2. CASE worker[p].buying = "value"
  BY <1>1, <1>2, MemoryOfInv DEF Refused, Memory, Pc
<1>3. CASE worker[p].buying # "value"
  BY <1>3, HeldMemory DEF Refused
<1>4. QED
  BY <1>2, <1>3

(* Where a purchase that succeeded leads, and with which packet.           *)
OnwardPc(m) ==
    CASE m.buying \in {"placement", "proposal"} -> "placed"
      [] m.buying = "value"                     -> "weigh"
      [] m.buying = "followup"                  -> "resolve"
      [] m.buying = "primary"                   -> IF flow[m.work] \in Articles THEN "handoff" ELSE "save"
OnwardPacket(m) == CASE m.buying = "primary" -> "bought" [] m.buying = "followup" -> "combined" [] OTHER -> m.packet

LEMMA OnwardMemory ==
    ASSUME RowInv, NEW p \in Workers
    PROVE  /\ Onward(p) \in Memory /\ Onward(p).work = worker[p].work /\ Onward(p).buying = worker[p].buying
           /\ Onward(p).pc = OnwardPc(worker[p]) /\ Onward(p).packet = OnwardPacket(worker[p])
           /\ OnwardPc(worker[p]) \in {"placed", "weigh", "resolve", "handoff", "save"}
<1> DEFINE m == worker[p]
<1> DEFINE pc == OnwardPc(worker[p])
<1> DEFINE packet == OnwardPacket(worker[p])
<1>1. m \in Memory /\ Absent \in Reservation
  BY CallLimitAssumption, MemoryOfInv DEF Absent, Reservation
<1>2. pc \in {"placed", "weigh", "resolve", "handoff", "save"}
  BY <1>1 DEF OnwardPc, Memory, Allowances
<1>3. packet \in Packets
  BY <1>1 DEF OnwardPacket, Packets, Memory
<1>4. Onward(p) = [m EXCEPT !.seen = Absent, !.why = "none", !.packet = packet, !.pc = pc]
  BY DEF Onward, OnwardPc, OnwardPacket
<1> HIDE DEF m, pc, packet
<1>5. pc \in Pc
  BY <1>2 DEF Pc
<1>6. QED
  BY <1>1, <1>2, <1>3, <1>4, <1>5 DEF Memory, m, pc, packet
-----------------------------------------------------------------------------
(* What a worker's step does to the rest: records stay records, and what   *)
(* was handed off is not touched, unless it is handed off now.             *)
PastResearch == {"entity_pending", "complete", "dead_letter"}

Keeps ==
    /\ disk' \in [Works -> Disk]
    /\ \A w \in Works :
          \/ disk'[w].packet = disk[w].packet /\ disk'[w].readiness = disk[w].readiness
          \/ disk'[w].packet # "none" /\ disk'[w].readiness # "none" /\ row'[w].status \in PastResearch
    /\ rsv' \in [Purchases -> Reservation] /\ age' \in [Purchases -> 0 .. HoldTtl]
    /\ calls' \in [Purchases -> Nat]
    /\ UNCHANGED <<sweep, requeues, flow>>

Sound(p) == RowSteps /\ Keeps /\ (worker' = worker \/ Turns(p))

LEMMA KeepsAll ==
    ASSUME RowInv, UNCHANGED <<disk, ledger, others>> PROVE Keeps
  BY DEF RowInv, TypeOK, Keeps, ledger, others

LEMMA KeepsSaved ==
    ASSUME RowInv, NEW w \in Works, NEW d \in Disk, disk' = [disk EXCEPT ![w] = d],
           d.packet = disk[w].packet, d.readiness = disk[w].readiness, UNCHANGED <<ledger, others>>
    PROVE  Keeps
  BY DEF RowInv, TypeOK, Keeps, ledger, others

LEMMA KeepsBooked ==
    ASSUME RowInv, NEW k \in Purchases, NEW r \in Reservation, SetReservation(k, r), UNCHANGED <<disk, others>>
    PROVE  Keeps
<1>1. 0 \in 0 .. HoldTtl
  BY BoundsAssumption
<1>2. QED
  BY <1>1 DEF RowInv, TypeOK, Keeps, SetReservation, others

(* The status changes the transition table allows.                         *)
StatusMoves ==
    \A w \in Works : row'[w].status # row[w].status => CanTransition(row[w].status, row'[w].status)

(* A step of a worker keeps the invariant.                                 *)
LEMMA SoundStep == ASSUME RowInv, NEW p \in Workers, Sound(p) PROVE RowInv' /\ StatusMoves
<1>1. row' \in [Works -> Row] /\ \A w \in Works : RowFits(row'[w])
  BY DEF Sound, RowSteps, RowStep
<1>2. worker' \in [Workers -> Memory] /\ \A q \in Workers : Reasoned(worker'[q])
  <2>1. CASE worker' = worker
    BY <2>1 DEF RowInv, TypeOK
  <2>2. CASE Turns(p)
    <3>1. PICK m \in Memory : worker' = [worker EXCEPT ![p] = m] /\ Reasoned(m)
      BY <2>2 DEF Turns, Turn, Becomes
    <3>2. QED
      BY <3>1 DEF RowInv, TypeOK
  <2>3. QED
    BY <2>1, <2>2 DEF Sound
<1>3. TypeOK'
  BY <1>1, <1>2 DEF Sound, Keeps, RowInv, TypeOK
<1>4. ASSUME NEW q \in Workers, worker'[q].pc # "idle", row'[worker'[q].work].owner = q
      PROVE  row'[worker'[q].work].status = Stage(worker'[q])
  <2>1. /\ worker'[q].work = worker[q].work /\ Stage(worker'[q]) = Stage(worker[q])
        /\ worker[q].pc # "idle" /\ worker[q].work \in Works
    <3>1. worker[q].work \in Works
      BY DEF RowInv, TypeOK, Memory
    <3>2. CASE worker' = worker
      BY <1>4, <3>1, <3>2
    <3>3. CASE Turns(p)
      <4>1. PICK m \in Memory : Turn(p, m)
        BY <3>3 DEF Turns
      <4>2. worker'[q] = IF q = p THEN m ELSE worker[q]
        BY <4>1 DEF Turn, Becomes, RowInv, TypeOK
      <4>3. QED
        BY <1>4, <3>1, <4>1, <4>2 DEF Turn
    <3>4. QED
      BY <3>2, <3>3 DEF Sound
  <2>2. q # NoWorker
    BY NoWorkerAssumption
  <2>3. row[worker[q].work].owner = q /\ row'[worker[q].work].status = row[worker[q].work].status
    BY <1>4, <2>1, <2>2 DEF Sound, RowSteps, RowStep
  <2>4. row[worker[q].work].status = Stage(worker[q])
    BY <2>1, <2>3 DEF RowInv, LeaseMatchesStatus, At, StageLease, Stage, RetrievalPc
  <2>5. QED
    BY <2>1, <2>3, <2>4
<1>5. LeaseMatchesStatus'
  BY <1>1, <1>4 DEF LeaseMatchesStatus, RowFits, Leased, At, StageLease, Stage, RetrievalPc
<1>6. HandedOffIsPastResearch'
  <2> SUFFICES ASSUME NEW w \in Works, disk'[w].packet # "none" \/ disk'[w].readiness # "none"
               PROVE  /\ disk'[w].packet # "none" /\ disk'[w].readiness # "none"
                      /\ row'[w].status \in {"entity_pending", "complete", "dead_letter"}
    BY DEF HandedOffIsPastResearch
  <2>1. CASE disk'[w].packet = disk[w].packet /\ disk'[w].readiness = disk[w].readiness
    <3>1. /\ disk'[w].packet # "none" /\ disk'[w].readiness # "none"
          /\ row[w].status \in {"entity_pending", "complete", "dead_letter"}
      BY <2>1 DEF RowInv, HandedOffIsPastResearch
    <3>2. row[w].status \notin Open
      BY <3>1 DEF Open, LeasedStatus
    <3>3. row'[w].status = row[w].status
      BY <3>2 DEF Sound, RowSteps, RowStep
    <3>4. QED
      BY <3>1, <3>3
  <2>2. QED
    BY <2>1 DEF Sound, Keeps, PastResearch
<1>7. StatusMoves
  BY DEF Sound, RowSteps, RowStep, StatusMoves
<1>8. QED
  BY <1>2, <1>3, <1>5, <1>6, <1>7 DEF RowInv
-----------------------------------------------------------------------------
(* The steps of a stage that end it with a fenced write.                   *)
LEMMA EndingStep ==
    ASSUME RowInv, NEW p \in Workers,
           \/ PreflightStops(p) \/ RefuseStage(p) \/ ContextUnavailable(p) \/ RetrievalFails(p)
           \/ Advance(p) \/ HoldRetrieval(p) \/ SynthesisFails(p) \/ HoldWork(p)
    PROVE  Sound(p)
<1> DEFINE r == row[worker[p].work]
<1>1. r \in Row /\ StageLease(p) \in {"retrieval_leased", "synthesis_leased"}
  BY MemoryOfInv DEF StageLease
<1>2. {"retrieval_leased", "synthesis_leased"} \subseteq LeasedStatus
  BY DEF LeasedStatus
<1>3. ASSUME NEW status \in {"retrieval_leased", "synthesis_leased"}, NEW news,
             LastWrite(p, status, news), r.status = status => Leaves(status, news)
      PROVE  Sound(p)
  BY <1>2, <1>3, LastWriteStep, KeepsAll DEF Sound
<1> HIDE DEF r
<1>4. ASSUME NEW status \in {"retrieval_leased", "synthesis_leased"}, NEW retry,
             LastWrite(p, status, FailureRows(r, retry))
      PROVE  Sound(p)
  BY <1>1, <1>3, <1>4, FailureLeaves
<1>5. CASE PreflightStops(p)
  <2> DEFINE status == StageLease(p)
  <2>1. /\ PendingStatusFor[status] \in Status /\ PendingStatusFor[status] \notin LeasedStatus
        /\ PendingStatusFor[status] # "retry_wait"
        /\ CanTransition(status, PendingStatusFor[status]) /\ CanTransition(status, "expired")
    BY <1>1 DEF PendingStatusFor, Status, LeasedStatus, CanTransition, NormalTransitions
  <2>2. "expired" \in Status /\ "expired" \notin LeasedStatus /\ "expired" # "retry_wait"
    BY StatusType DEF LeasedStatus
  <2>3. Leaves(status, {Moved(r, PendingStatusFor[status])}) /\ Leaves(status, {Moved(r, "expired")})
    BY <1>1, <2>1, <2>2, MovedLeaves
  <2>4. LastWrite(p, status, {Moved(r, PendingStatusFor[status])}
                                \cup (IF r.fresh = 0 THEN {Moved(r, "expired")} ELSE {}))
    BY <1>5 DEF PreflightStops, r
  <2>5. Leaves(status, {Moved(r, PendingStatusFor[status])}
                          \cup (IF r.fresh = 0 THEN {Moved(r, "expired")} ELSE {}))
    BY <2>3 DEF Leaves
  <2>6. QED
    BY <1>1, <1>3, <2>4, <2>5
<1>6. CASE RefuseStage(p)
  BY <1>1, <1>4, <1>6 DEF RefuseStage, r
<1>7. CASE ContextUnavailable(p)
  BY <1>4, <1>7 DEF ContextUnavailable, r
<1>8. CASE RetrievalFails(p)
  BY <1>4, <1>8 DEF RetrievalFails, r
<1>9. CASE Advance(p)
  <2>1. /\ {"deep_pending", "synthesis_pending"} \subseteq Status \ (LeasedStatus \cup {"retry_wait"})
        /\ CanTransition("retrieval_leased", "deep_pending")
        /\ CanTransition("retrieval_leased", "synthesis_pending")
    BY DEF Status, LeasedStatus, CanTransition, NormalTransitions
  <2>2. /\ Leaves("retrieval_leased", {Moved(r, "deep_pending")})
        /\ Leaves("retrieval_leased", {Moved(r, "synthesis_pending")})
    BY <1>1, <2>1, MovedLeaves
  <2>3. r.status = "retrieval_leased" => \A retry : Leaves("retrieval_leased", FailureRows(r, retry))
    BY <1>1, FailureLeaves
  <2>4. PICK refusable :
          LastWrite(p, "retrieval_leased",
               IF worker[p].work \in Deep /\ flow[worker[p].work] \notin Articles
               THEN {Moved(r, "deep_pending")} \cup UNION {FailureRows(r, retry) : retry \in refusable}
               ELSE {Moved(r, "synthesis_pending")})
    BY <1>9 DEF Advance, r
  <2>5. CASE worker[p].work \in Deep /\ flow[worker[p].work] \notin Articles
    <3> DEFINE news == {Moved(r, "deep_pending")} \cup UNION {FailureRows(r, retry) : retry \in refusable}
    <3>1. r.status = "retrieval_leased" => Leaves("retrieval_leased", news)
      BY <2>2, <2>3 DEF Leaves
    <3>2. LastWrite(p, "retrieval_leased", news)
      BY <2>4, <2>5
    <3> HIDE DEF news
    <3>3. QED
      BY <1>3, <3>1, <3>2
  <2>6. CASE ~(worker[p].work \in Deep /\ flow[worker[p].work] \notin Articles)
    BY <1>3, <2>2, <2>4, <2>6
  <2>7. QED
    BY <2>5, <2>6
<1>10. CASE HoldRetrieval(p)
  BY <1>4, <1>10 DEF HoldRetrieval, r
<1>11. CASE SynthesisFails(p)
  BY <1>4, <1>11 DEF SynthesisFails, r
<1>12. CASE HoldWork(p)
  BY <1>4, <1>12 DEF HoldWork, r
<1>13. QED
  BY <1>5, <1>6, <1>7, <1>8, <1>9, <1>10, <1>11, <1>12

(* A worker that only moves on, or gives its work up.                      *)
LEMMA StayStep ==
    ASSUME RowInv, NEW p \in Workers, Turns(p), UNCHANGED <<store, others>> PROVE Sound(p)
  BY RowsUnchanged, KeepsAll DEF Sound, store

LEMMA HeldTurn == ASSUME RowInv, NEW p \in Workers, Becomes(p, Held(p)), worker[p].pc # "idle",
                         worker[p].pc \notin RetrievalPc
                  PROVE  Turns(p)
<1>1. Stage(Held(p)) = Stage(worker[p]) /\ Reasoned(Held(p))
  BY HeldMemory DEF Stage, RetrievalPc, Reasoned, CarryPc, BuyPc
<1>2. QED
  BY <1>1, HeldMemory DEF Turns, Turn

LEMMA BeatStep ==
    ASSUME RowInv, NEW p \in Workers, MayBeat(row[worker[p].work], p),
           row' = [row EXCEPT ![worker[p].work] = Beaten(@)]
    PROVE  RowSteps
<1> DEFINE w == worker[p].work
<1>1. w \in Works /\ row[w] \in Row /\ RowFits(row[w])
  BY MemoryOfInv, RowsOfInv
<1>2. row' = [row EXCEPT ![w] = Beaten(row[w])]
  OBVIOUS
<1> HIDE DEF w
<1>3. Beaten(row[w]) \in Row /\ Beaten(row[w]).status = row[w].status
      /\ Beaten(row[w]).owner = row[w].owner /\ Beaten(row[w]).target = row[w].target
  BY <1>1, BeatenRow
<1>4. RowFits(Beaten(row[w]))
  BY <1>1, <1>3 DEF RowFits, Leased
<1>5. QED
  BY <1>1, <1>2, <1>3, <1>4, RowWritten

LEMMA RetrievalStep ==
    ASSUME RowInv, NEW p \in Workers,
           PreflightPasses(p) \/ ReuseCheckpoint(p) \/ BeginAttempt(p) \/ CommitCheckpoint(p)
    PROVE  Sound(p)
<1> DEFINE w == worker[p].work
<1>1. /\ w \in Works /\ row[w] \in Row /\ RowFits(row[w]) /\ disk[w] \in Disk
  BY MemoryOfInv, RowsOfInv
<1>2. ASSUME NEW pc \in {"planned", "ready", "route", "fetch", "choose"}, Goes(p, pc), worker[p].pc # "idle",
             pc \in RetrievalPc <=> worker[p].pc \in RetrievalPc
      PROVE  Turns(p)
  <2>1. pc \in Pc /\ pc \notin CarryPc /\ pc \notin BuyPc /\ pc \notin {"settle", "commit", "save"}
    BY DEF Pc, CarryPc, BuyPc
  <2>2. QED
    BY <1>2, <2>1, GoesTurn
<1>3. CASE PreflightPasses(p)
  <2>1. Turns(p)
    BY <1>2, <1>3 DEF PreflightPasses, At, RetrievalPc
  <2>2. QED
    BY <1>3, <2>1, StayStep DEF PreflightPasses
<1>4. CASE ReuseCheckpoint(p)
  <2>1. Turns(p)
    BY <1>2, <1>4 DEF ReuseCheckpoint, At, RetrievalPc
  <2>2. QED
    BY <1>4, <2>1, StayStep DEF ReuseCheckpoint
<1>5. CASE BeginAttempt(p)
  <2>1. Turns(p)
    BY <1>2, <1>5, EndsTurn DEF BeginAttempt, At, RetrievalPc
  <2>2. CASE UNCHANGED row
    BY <1>5, <2>1, <2>2, RowsUnchanged, KeepsAll DEF BeginAttempt, Sound
  <2>3. CASE row' = [row EXCEPT ![w] = Begun(@)]
    <3>1. row' = [row EXCEPT ![w] = Begun(row[w])]
      BY <2>3
    <3> HIDE DEF w
    <3>2. Begun(row[w]) \in Row /\ Begun(row[w]).status = row[w].status
          /\ Begun(row[w]).owner = row[w].owner /\ Begun(row[w]).target = row[w].target
      BY <1>1, BegunRow
    <3>3. RowFits(Begun(row[w]))
      BY <1>1, <3>2 DEF RowFits, Leased
    <3>4. RowSteps
      BY <1>1, <3>1, <3>2, <3>3, RowWritten
    <3>5. QED
      BY <1>5, <2>1, <3>4, KeepsAll DEF BeginAttempt, Sound
  <2>4. QED
    BY <1>5, <2>2, <2>3 DEF BeginAttempt
<1>6. CASE CommitCheckpoint(p)
  <2>1. Turns(p)
    BY <1>2, <1>6, EndsTurn DEF CommitCheckpoint, At, RetrievalPc
  <2>2. RowSteps
    BY <1>6, RowsUnchanged DEF CommitCheckpoint
  <2>3. CASE UNCHANGED disk
    BY <1>6, <2>1, <2>2, <2>3, KeepsAll DEF CommitCheckpoint, Sound
  <2>4. CASE \E decision \in {"hold", "proceed"}, captured \in BOOLEAN :
                disk' = [disk EXCEPT ![w].manifest = decision, ![w].evidence = @ \/ captured]
    <3>1. PICK decision \in {"hold", "proceed"}, captured \in BOOLEAN :
             disk' = [disk EXCEPT ![w].manifest = decision, ![w].evidence = @ \/ captured]
      BY <2>4
    <3> DEFINE d == [disk[w] EXCEPT !.manifest = decision, !.evidence = disk[w].evidence \/ captured]
    <3>2. disk' = [disk EXCEPT ![w] = d]
      BY <1>1, <3>1 DEF RowInv, TypeOK, Disk
    <3>3. d \in Disk /\ d.packet = disk[w].packet /\ d.readiness = disk[w].readiness
      BY <1>1, <3>1 DEF Disk
    <3> HIDE DEF d
    <3>4. Keeps
      BY <1>1, <1>6, <3>2, <3>3, KeepsSaved DEF CommitCheckpoint
    <3>5. QED
      BY <2>1, <2>2, <3>4 DEF Sound
  <2>5. QED
    BY <1>6, <2>3, <2>4 DEF CommitCheckpoint
<1>7. QED
  BY <1>3, <1>4, <1>5, <1>6

LEMMA HeartbeatStep == ASSUME RowInv, NEW p \in Workers, Heartbeat(p) \/ Crash(p) PROVE Sound(p)
<1>1. CASE Heartbeat(p)
  <2>1. RowSteps
    BY <1>1, BeatStep DEF Heartbeat
  <2>2. QED
    BY <1>1, <2>1, KeepsAll DEF Heartbeat, Sound
<1>2. CASE Crash(p)
  BY <1>2, EndsTurn, StayStep DEF Crash
<1>3. QED
  BY <1>1, <1>2
-----------------------------------------------------------------------------
(* The steps of a synthesis: its worker goes on with a sound memory of the *)
(* same work.                                                              *)
LEMMA SynthesisTurn ==
    ASSUME RowInv, NEW p \in Workers, worker[p].pc \notin RetrievalPc, worker[p].pc # "idle",
           NEW m \in Memory, Becomes(p, m), m.work = worker[p].work, m.pc \notin RetrievalPc, Reasoned(m),
           m.pc = "send" => worker[p].pc = "intend"
    PROVE  Turns(p)
  BY DEF Turns, Turn, Stage

LEMMA SpendsTurn ==
    ASSUME RowInv, NEW p \in Workers, worker[p].pc \notin RetrievalPc, worker[p].pc # "idle",
           NEW a \in Allowances, NEW packet \in Packets, Spends(p, a, packet),
           a \in {"value", "followup"} => packet # "none"
    PROVE  Turns(p)
<1>1. PICK m \in Memory :
         /\ Becomes(p, m) /\ m.pc = "list" /\ m.work = worker[p].work /\ m.buying = a /\ m.packet = packet
  BY SpendsMemory
<1>2. Reasoned(m) /\ m.pc \notin RetrievalPc
  BY <1>1 DEF Reasoned, CarryPc, RetrievalPc
<1>3. QED
  BY <1>1, <1>2, SynthesisTurn

LEMMA RefusedTurn ==
    ASSUME RowInv, NEW p \in Workers, worker[p].pc \in BuyPc
    PROVE  /\ Reasoned(Refused(p)) /\ Refused(p).pc \notin RetrievalPc
           /\ Becomes(p, Refused(p)) => Turns(p)
<1>1. worker[p].pc \notin RetrievalPc /\ worker[p].pc # "idle"
  BY DEF BuyPc, RetrievalPc
<1>2. Reasoned(Refused(p)) /\ Refused(p).pc \notin RetrievalPc
  BY RefusedMemory, MemoryOfInv DEF Reasoned, CarryPc, RetrievalPc, BuyPc
<1>3. QED
  BY <1>1, <1>2, RefusedMemory, SynthesisTurn

LEMMA OnwardTurn ==
    ASSUME RowInv, NEW p \in Workers, worker[p].pc \in BuyPc
    PROVE  /\ Reasoned(Onward(p)) /\ Onward(p).pc \notin RetrievalPc
           /\ Becomes(p, Onward(p)) => Turns(p)
<1>1. worker[p].pc \notin RetrievalPc /\ worker[p].pc # "idle"
  BY DEF BuyPc, RetrievalPc
<1>2. Onward(p).pc \in CarryPc => Onward(p).packet # "none"
  <2>1. worker[p].buying \in Allowances
    BY MemoryOfInv DEF Memory
  <2>2. worker[p].buying = "value" => worker[p].packet # "none"
    BY MemoryOfInv DEF Reasoned
  <2>3. CASE worker[p].buying \in {"placement", "proposal"}
    BY <2>3, OnwardMemory DEF OnwardPc, CarryPc
  <2>4. CASE worker[p].buying \in {"primary", "value", "followup"}
    BY <2>2, <2>4, OnwardMemory DEF OnwardPacket
  <2>5. QED
    BY <2>1, <2>3, <2>4 DEF Allowances
<1>3. Onward(p).pc = "save" => Onward(p).packet \in {"bought", "reused"}
  BY MemoryOfInv, OnwardMemory DEF OnwardPc, OnwardPacket, Memory, Allowances
<1>4. Reasoned(Onward(p)) /\ Onward(p).pc \notin RetrievalPc
  BY <1>2, <1>3, OnwardMemory DEF Reasoned, RetrievalPc, BuyPc
<1>5. QED
  BY <1>1, <1>4, OnwardMemory, SynthesisTurn

(* A worker keeps its purchase and reads or remembers something of it.     *)
LEMMA BuyingTurn ==
    ASSUME RowInv, NEW p \in Workers, worker[p].pc \in BuyPc,
           NEW m \in Memory, Becomes(p, m), m.work = worker[p].work,
           m.pc \in BuyPc, m.buying = worker[p].buying, m.packet = worker[p].packet,
           m.pc = "send" => worker[p].pc = "intend",
           m.pc \in {"settle", "commit"} => m.why \in {"response", "replay", "abort", "rejection"}
    PROVE  Turns(p)
<1>1. worker[p].pc \notin RetrievalPc /\ worker[p].pc # "idle" /\ m.pc \notin RetrievalPc /\ m.pc \notin CarryPc
  BY DEF BuyPc, RetrievalPc, CarryPc
<1>2. Reasoned(m)
  BY <1>1, MemoryOfInv DEF Reasoned, CarryPc
<1>3. QED
  BY <1>1, <1>2, SynthesisTurn

LEMMA WrittenReservation ==
    ASSUME NEW r \in Reservation
    PROVE  /\ NewReservation \in Reservation /\ Intended(r) \in Reservation /\ MarkedUnknown(r) \in Reservation
           /\ \A seen \in Reservation : \A result \in Results \cup {NoResult} :
                 Settled(r, seen, result, CallLimit) \in Reservation
<1>1. CallLimit \in 0 .. CallLimit
  BY CallLimitAssumption
<1>2. QED
  BY <1>1 DEF NewReservation, Intended, MarkedUnknown, Settled, Reservation, OpenStates, TerminalStates

LEMMA ChoiceStep ==
    ASSUME RowInv, NEW p \in Workers,
           ChooseReuse(p) \/ ChoosePurchase(p) \/ PlaceArticle(p) \/ ContinueArticle(p)
    PROVE  Sound(p)
<1> DEFINE w == worker[p].work
<1>1. worker[p].pc \in {"choose", "placed"} /\ UNCHANGED <<store, others>>
  BY DEF ChooseReuse, ChoosePurchase, PlaceArticle, ContinueArticle, At
<1>2. worker[p].pc \notin RetrievalPc /\ worker[p].pc # "idle"
  BY <1>1 DEF RetrievalPc
<1>3. disk[w].baseline \in Packets
  BY MemoryOfInv DEF Disk, Packets
<1>4. CASE ChooseReuse(p)
  <2> DEFINE m == [worker[p] EXCEPT !.pc = "save", !.packet = "reused"]
  <2>1. m \in Memory /\ m.pc = "save" /\ m.packet = "reused" /\ m.work = worker[p].work
    BY MemoryOfInv DEF Memory, Pc, Packets
  <2>2. Becomes(p, m)
    BY <1>4, MemoryOfInv DEF ChooseReuse, Becomes, RowInv, TypeOK
  <2> HIDE DEF m
  <2>3. Reasoned(m) /\ m.pc \notin RetrievalPc
    BY <2>1 DEF Reasoned, RetrievalPc
  <2>4. QED
    BY <1>1, <1>2, <2>1, <2>2, <2>3, SynthesisTurn, StayStep
<1>5. CASE \E a \in {"primary", "placement", "proposal"}, packet \in Packets : Spends(p, a, packet)
  <2>1. PICK a \in {"primary", "placement", "proposal"}, packet \in Packets : Spends(p, a, packet)
    BY <1>5
  <2>2. a \in Allowances
    BY DEF Allowances
  <2>3. QED
    BY <1>1, <1>2, <2>1, <2>2, SpendsTurn, StayStep
<1>6. QED
  <2>1. "none" \in Packets
    BY DEF Packets
  <2>2. QED
    BY <1>3, <1>4, <1>5, <2>1 DEF ChoosePurchase, PlaceArticle, ContinueArticle

(* Claiming the reservation, down to the dispatch.                         *)
LEMMA ClaimingStep ==
    ASSUME RowInv, NEW p \in Workers,
           ListReservations(p) \/ InsertReservation(p) \/ Decide(p) \/ Intend(p) \/ Send(p)
    PROVE  Sound(p)
<1> DEFINE k == Purchase(p)
<1>1. worker[p].pc \in BuyPc /\ worker[p].pc \notin RetrievalPc /\ worker[p].pc # "idle"
  BY DEF ListReservations, InsertReservation, Decide, Intend, Send, At, BuyPc, RetrievalPc
<1>2. k \in Purchases /\ rsv[k] \in Reservation /\ worker[p] \in Memory
  BY MemoryOfInv
<1>3. ASSUME NEW pc \in BuyPc, NEW seen \in Reservation, NEW why \in {"none", "response", "replay", "abort", "rejection", "failure"},
             pc \in {"settle", "commit"} => why \in {"response", "replay", "abort", "rejection"},
             pc = "send" => worker[p].pc = "intend",
             Becomes(p, [worker[p] EXCEPT !.pc = pc, !.seen = seen, !.why = why])
      PROVE  Turns(p)
  <2> DEFINE m == [worker[p] EXCEPT !.pc = pc, !.seen = seen, !.why = why]
  <2>1. /\ m \in Memory /\ m.work = worker[p].work /\ m.pc = pc /\ m.buying = worker[p].buying
        /\ m.packet = worker[p].packet /\ m.why = why
    BY <1>2 DEF Memory, BuyPc, Pc
  <2>2. Becomes(p, m)
    BY <1>3
  <2> HIDE DEF m
  <2>3. QED
    BY <1>1, <1>3, <2>1, <2>2, BuyingTurn
<1>4. ASSUME NEW pc \in BuyPc \ {"settle", "commit"}, Goes(p, pc), pc = "send" => worker[p].pc = "intend"
      PROVE  Turns(p)
  <2>1. Becomes(p, [worker[p] EXCEPT !.pc = pc, !.seen = worker[p].seen, !.why = worker[p].why])
    BY <1>2, <1>4 DEF Goes, Becomes, Memory, RowInv, TypeOK
  <2>2. QED
    BY <1>2, <1>3, <1>4, <2>1 DEF Memory
<1>5. CASE ListReservations(p)
  <2>1. CASE Becomes(p, Held(p))
    BY <1>1, <1>5, <2>1, HeldTurn, StayStep DEF ListReservations
  <2>2. CASE \E pc \in {"insert", "decide"} : worker' = [worker EXCEPT ![p].pc = pc, ![p].seen = rsv[k]]
    <3>1. PICK pc \in {"insert", "decide"} : worker' = [worker EXCEPT ![p].pc = pc, ![p].seen = rsv[k]]
      BY <2>2
    <3>2. Becomes(p, [worker[p] EXCEPT !.pc = pc, !.seen = rsv[k], !.why = worker[p].why])
      BY <1>2, <3>1 DEF Becomes, Memory, RowInv, TypeOK
    <3>3. pc \in BuyPc
      BY DEF BuyPc
    <3>4. Turns(p)
      BY <1>2, <1>3, <3>2, <3>3 DEF Memory
    <3>5. QED
      BY <1>5, <3>4, StayStep DEF ListReservations
  <2>3. QED
    BY <1>5, <2>1, <2>2 DEF ListReservations
<1>6. CASE InsertReservation(p)
  <2>1. RowSteps /\ UNCHANGED <<disk, others>>
    BY <1>6, RowsUnchanged DEF InsertReservation
  <2>2. CASE UNCHANGED ledger /\ Becomes(p, Refused(p))
    BY <1>1, <2>1, <2>2, RefusedTurn, KeepsAll DEF Sound
  <2>3. CASE /\ SetReservation(k, NewReservation)
             /\ worker' = [worker EXCEPT ![p].pc = "decide", ![p].seen = NewReservation]
    <3>1. Becomes(p, [worker[p] EXCEPT !.pc = "decide", !.seen = NewReservation, !.why = worker[p].why])
      BY <1>2, <2>3 DEF Becomes, Memory, RowInv, TypeOK
    <3>2. "decide" \in BuyPc /\ NewReservation \in Reservation
      BY <1>2, WrittenReservation DEF BuyPc
    <3>3. Turns(p)
      BY <1>2, <1>3, <3>1, <3>2 DEF Memory
    <3>4. QED
      BY <1>2, <2>1, <2>3, <3>2, <3>3, KeepsBooked DEF Sound
  <2>4. QED
    BY <1>6, <2>2, <2>3 DEF InsertReservation
<1>7. CASE Decide(p)
  <2>1. UNCHANGED <<store, others>>
    BY <1>7 DEF Decide
  <2>2. CASE Becomes(p, Refused(p)) \/ Becomes(p, Onward(p))
    BY <1>1, <2>1, <2>2, RefusedTurn, OnwardTurn, StayStep
  <2>3. CASE \E pc \in {"own", "unknown"} : Becomes(p, [worker[p] EXCEPT !.pc = pc])
    <3>1. PICK pc \in {"own", "unknown"} : Becomes(p, [worker[p] EXCEPT !.pc = pc])
      BY <2>3
    <3>2. pc \in BuyPc \ {"settle", "commit"}
      BY DEF BuyPc
    <3>3. Turns(p)
      BY <1>4, <3>1, <3>2 DEF Goes, Becomes
    <3>4. QED
      BY <2>1, <3>3, StayStep
  <2>4. CASE \E why \in {"replay", "rejection"} : Becomes(p, [worker[p] EXCEPT !.pc = "settle", !.why = why])
    <3>1. PICK why \in {"replay", "rejection"} : Becomes(p, [worker[p] EXCEPT !.pc = "settle", !.why = why])
      BY <2>4
    <3>2. Becomes(p, [worker[p] EXCEPT !.pc = "settle", !.seen = worker[p].seen, !.why = why])
      BY <1>2, <3>1 DEF Becomes, Memory
    <3>3. "settle" \in BuyPc
      BY DEF BuyPc
    <3>4. Turns(p)
      BY <1>2, <1>3, <3>2, <3>3 DEF Memory
    <3>5. QED
      BY <2>1, <3>4, StayStep
  <2>5. QED
    BY <1>7, <2>2, <2>3, <2>4 DEF Decide, ReplayStep
<1>8. CASE Intend(p)
  <2>1. RowSteps /\ UNCHANGED <<disk, others>>
    BY <1>8, RowsUnchanged DEF Intend
  <2>2. CASE SetReservation(k, Intended(rsv[k])) /\ Goes(p, "send")
    <3>1. "send" \in BuyPc \ {"settle", "commit"} /\ Intended(rsv[k]) \in Reservation
      BY <1>2, WrittenReservation DEF BuyPc
    <3>2. QED
      BY <1>2, <1>4, <1>8, <2>1, <2>2, <3>1, KeepsBooked DEF Sound, Intend, At
  <2>3. CASE UNCHANGED ledger /\ Becomes(p, Refused(p))
    BY <1>1, <2>1, <2>3, RefusedTurn, KeepsAll DEF Sound
  <2>4. QED
    BY <1>8, <2>2, <2>3 DEF Intend
<1>9. CASE Send(p)
  <2>1. RowSteps
    BY <1>9, RowsUnchanged DEF Send, store
  <2>2. "await" \in BuyPc \ {"settle", "commit"}
    BY DEF BuyPc
  <2>3. Turns(p)
    BY <1>4, <1>9, <2>2 DEF Send
  <2>4. Keeps
    BY <1>2, <1>9 DEF Send, RowInv, TypeOK, Keeps, store, ledger
  <2>5. QED
    BY <2>1, <2>3, <2>4 DEF Sound
<1>10. QED
  BY <1>5, <1>6, <1>7, <1>8, <1>9

(* A worker in a purchase remembers another point or another reason.       *)
LEMMA MarkedTurn ==
    ASSUME RowInv, NEW p \in Workers, worker[p].pc \in BuyPc, NEW pc \in BuyPc,
           NEW why \in {"none", "response", "replay", "abort", "rejection", "failure"},
           pc \in {"settle", "commit"} => why \in {"response", "replay", "abort", "rejection"},
           pc # "send",
           Becomes(p, [worker[p] EXCEPT !.pc = pc, !.why = why])
    PROVE  Turns(p)
<1> DEFINE m == [worker[p] EXCEPT !.pc = pc, !.why = why]
<1>1. /\ m \in Memory /\ m.work = worker[p].work /\ m.pc = pc /\ m.buying = worker[p].buying
      /\ m.packet = worker[p].packet /\ m.why = why
  BY MemoryOfInv DEF Memory, BuyPc, Pc
<1>2. Becomes(p, m)
  OBVIOUS
<1> HIDE DEF m
<1>3. QED
  BY <1>1, <1>2, BuyingTurn

LEMMA SettlesTurn ==
    ASSUME RowInv, NEW p \in Workers, worker[p].pc \in BuyPc,
           NEW why \in {"response", "replay", "abort", "rejection"}, Settles(p, why)
    PROVE  Turns(p)
<1>1. Becomes(p, [worker[p] EXCEPT !.pc = "settle", !.why = why])
  BY MemoryOfInv DEF Settles, Becomes, Memory, RowInv, TypeOK
<1>2. "settle" \in BuyPc
  BY DEF BuyPc
<1>3. QED
  BY <1>1, <1>2, MarkedTurn

(* A record of a work is saved; the handed-off packet is none of them.     *)
RecordFields == DOMAIN NothingSaved \ {"packet", "readiness"}

LEMMA SaveStep ==
    ASSUME RowInv, NEW w \in Works, NEW field \in RecordFields, NEW value, Save(w, field, value),
           [disk[w] EXCEPT ![field] = value] \in Disk, UNCHANGED <<row, ledger, others>>
    PROVE  RowSteps /\ Keeps
<1> DEFINE d == [disk[w] EXCEPT ![field] = value]
<1>1. disk[w] \in Disk
  BY DEF RowInv, TypeOK
<1>2. disk' = [disk EXCEPT ![w] = d]
  BY DEF Save, RowInv, TypeOK
<1>3. d.packet = disk[w].packet /\ d.readiness = disk[w].readiness
  BY <1>1 DEF RecordFields, Disk
<1> HIDE DEF d
<1>4. d \in Disk
  BY DEF d
<1>5. QED
  BY <1>2, <1>3, <1>4, KeepsSaved, RowsUnchanged

LEMMA ReceiptStep ==
    ASSUME RowInv, NEW p \in Workers, SaveReceipt(p), UNCHANGED <<row, ledger, others>>
    PROVE  RowSteps /\ Keeps
<1> DEFINE w == worker[p].work
<1> DEFINE d == [disk[w] EXCEPT !.receipts = disk[w].receipts \cup {worker[p].buying}]
<1>1. d \in Disk
  BY MemoryOfInv DEF Disk, Memory
<1>2. "receipts" \in RecordFields
  BY DEF RecordFields, NothingSaved
<1>3. QED
  BY <1>1, <1>2, MemoryOfInv, SaveStep DEF SaveReceipt

LEMMA AnswerStep ==
    ASSUME RowInv, NEW p \in Workers,
           AnswerArrives(p) \/ AnswerRejected(p) \/ CallAborted(p) \/ CallFails(p)
    PROVE  Sound(p)
<1> DEFINE w == worker[p].work
<1> DEFINE a == worker[p].buying
<1>1. worker[p].pc \in BuyPc
  BY DEF AnswerArrives, AnswerRejected, CallAborted, CallFails, At, BuyPc
<1>2. w \in Works /\ disk[w] \in Disk /\ a \in Allowances
  BY MemoryOfInv DEF Memory
<1>3. {"results", "baseline"} \subseteq RecordFields
  BY DEF RecordFields, NothingSaved
<1>4. CASE AnswerArrives(p)
  <2>1. Turns(p) /\ UNCHANGED <<row, ledger, others>>
    BY <1>1, <1>4, SettlesTurn DEF AnswerArrives
  <2>2. CASE a # "primary" /\ Save(w, "results", disk[w].results \cup {a})
    <3>1. [disk[w] EXCEPT !.results = disk[w].results \cup {a}] \in Disk
      BY <1>2, <2>2 DEF Disk
    <3>2. QED
      BY <1>2, <1>3, <2>1, <2>2, <3>1, SaveStep DEF Sound
  <2>3. CASE Save(w, "baseline", "bought")
    <3>1. [disk[w] EXCEPT !.baseline = "bought"] \in Disk
      BY <1>2 DEF Disk
    <3>2. QED
      BY <1>2, <1>3, <2>1, <2>3, <3>1, SaveStep DEF Sound
  <2>4. CASE SaveReceipt(p)
    BY <2>1, <2>4, ReceiptStep DEF Sound
  <2>5. QED
    BY <1>4, <2>2, <2>3, <2>4 DEF AnswerArrives
<1>5. CASE AnswerRejected(p)
  <2>1. Turns(p)
    BY <1>1, <1>5, SettlesTurn DEF AnswerRejected
  <2>2. QED
    BY <1>5, <2>1, ReceiptStep DEF AnswerRejected, Sound
<1>6. CASE CallAborted(p)
  BY <1>1, <1>6, SettlesTurn, StayStep DEF CallAborted
<1>7. CASE CallFails(p)
  <2>1. Becomes(p, [worker[p] EXCEPT !.pc = "unknown", !.why = "failure"])
    BY <1>7, MemoryOfInv DEF CallFails, Becomes, Memory, RowInv, TypeOK
  <2>2. "unknown" \in BuyPc
    BY DEF BuyPc
  <2>3. Turns(p)
    BY <1>1, <2>1, <2>2, MarkedTurn
  <2>4. QED
    BY <1>7, <2>3, StayStep DEF CallFails
<1>8. QED
  BY <1>4, <1>5, <1>6, <1>7

(* Where a settlement leads.                                               *)
LEMMA SettledTurn ==
    ASSUME RowInv, NEW p \in Workers, worker[p].pc \in BuyPc,
           Becomes(p, AfterSettle(p)) \/ Becomes(p, AfterRefusal(p))
    PROVE  Turns(p)
<1>1. CASE Becomes(p, [worker[p] EXCEPT !.pc = "unknown"])
  <2>1. Becomes(p, [worker[p] EXCEPT !.pc = "unknown", !.why = worker[p].why])
    BY <1>1, MemoryOfInv DEF Becomes, Memory
  <2>2. "unknown" \in BuyPc
    BY DEF BuyPc
  <2>3. QED
    BY <2>1, <2>2, MemoryOfInv, MarkedTurn DEF Memory
<1>2. QED
  BY <1>1, RefusedTurn, OnwardTurn DEF AfterSettle, AfterRefusal

LEMMA SettlingStep ==
    ASSUME RowInv, NEW p \in Workers,
           SettleReads(p) \/ SettleCommit(p) \/ StoreFails(p) \/ MarkUnknown(p)
    PROVE  Sound(p)
<1> DEFINE k == Purchase(p)
<1>1. worker[p].pc \in BuyPc
  BY DEF SettleReads, SettleCommit, StoreFails, MarkUnknown, At, BuyPc
<1>2. k \in Purchases /\ rsv[k] \in Reservation /\ worker[p] \in Memory
  BY MemoryOfInv
<1>3. CASE SettleReads(p)
  <2>1. CASE Becomes(p, [worker[p] EXCEPT !.seen = rsv[k], !.pc = "commit"])
    <3> DEFINE m == [worker[p] EXCEPT !.seen = rsv[k], !.pc = "commit"]
    <3>1. /\ m \in Memory /\ m.work = worker[p].work /\ m.pc = "commit" /\ m.buying = worker[p].buying
          /\ m.packet = worker[p].packet /\ m.why = worker[p].why
      BY <1>2 DEF Memory, Pc
    <3>2. m.pc \in BuyPc
      BY <3>1 DEF BuyPc
    <3>3. m.why \in {"response", "replay", "abort", "rejection"}
      BY <1>3, <3>1, MemoryOfInv DEF SettleReads, At, Reasoned
    <3>4. Becomes(p, m)
      BY <2>1
    <3> HIDE DEF m
    <3>5. Turns(p)
      BY <1>1, <3>1, <3>2, <3>3, <3>4, BuyingTurn
    <3>6. QED
      BY <1>3, <3>5, StayStep DEF SettleReads
  <2>2. CASE Becomes(p, AfterSettle(p)) \/ Becomes(p, AfterRefusal(p))
    BY <1>1, <1>3, <2>2, SettledTurn, StayStep DEF SettleReads
  <2>3. QED
    BY <1>3, <2>1, <2>2 DEF SettleReads
<1>4. CASE SettleCommit(p)
  <2>1. Turns(p)
    BY <1>1, <1>4, SettledTurn DEF SettleCommit
  <2>2. RowSteps
    BY <1>4, RowsUnchanged DEF SettleCommit
  <2>3. CASE UNCHANGED ledger
    BY <1>4, <2>1, <2>2, <2>3, KeepsAll DEF SettleCommit, Sound
  <2>4. CASE SetReservation(k, Settled(rsv[k], worker[p].seen, SavedRef(worker[p].why), CallLimit))
    <3>1. worker[p].why \in {"response", "replay", "abort", "rejection"}
      BY <1>4, MemoryOfInv DEF SettleCommit, At, Reasoned
    <3>2. SavedRef(worker[p].why) \in Results \cup {NoResult}
      BY <3>1, SavedResultsAssumption DEF SavedRef
    <3>3. worker[p].seen \in Reservation
      BY <1>2 DEF Memory
    <3>4. Settled(rsv[k], worker[p].seen, SavedRef(worker[p].why), CallLimit) \in Reservation
      BY <1>2, <3>2, <3>3, WrittenReservation
    <3>5. Keeps
      BY <1>2, <1>4, <2>4, <3>4, KeepsBooked DEF SettleCommit
    <3>6. QED
      BY <2>1, <2>2, <3>5 DEF Sound
  <2>5. QED
    BY <1>4, <2>3, <2>4 DEF SettleCommit
<1>5. CASE StoreFails(p)
  <2>1. CASE Becomes(p, Refused(p))
    BY <1>1, <1>5, <2>1, RefusedTurn, StayStep DEF StoreFails
  <2>2. CASE Becomes(p, [worker[p] EXCEPT !.pc = "unknown"])
    <3>1. Becomes(p, [worker[p] EXCEPT !.pc = "unknown", !.why = worker[p].why])
      BY <1>2, <2>2 DEF Becomes, Memory
    <3>2. "unknown" \in BuyPc
      BY DEF BuyPc
    <3>3. Turns(p)
      BY <1>1, <1>2, <3>1, <3>2, MarkedTurn DEF Memory
    <3>4. QED
      BY <1>5, <3>3, StayStep DEF StoreFails
  <2>3. QED
    BY <1>5, <2>1, <2>2 DEF StoreFails
<1>6. CASE MarkUnknown(p)
  <2>1. RowSteps
    BY <1>6, RowsUnchanged DEF MarkUnknown
  <2>2. Turns(p)
    <3>1. CASE Becomes(p, Refused(p))
      BY <1>1, <3>1, RefusedTurn
    <3>2. CASE Becomes(p, [Held(p) EXCEPT !.pc = "lapse"])
      <4> DEFINE m == [Held(p) EXCEPT !.pc = "lapse"]
      <4>1. m \in Memory /\ m.pc = "lapse" /\ m.work = worker[p].work
        BY HeldMemory DEF Memory, Pc
      <4>2. Becomes(p, m)
        BY <3>2
      <4> HIDE DEF m
      <4>3. Reasoned(m) /\ m.pc \notin RetrievalPc /\ worker[p].pc \notin RetrievalPc /\ worker[p].pc # "idle"
        BY <1>1, <4>1 DEF Reasoned, RetrievalPc, CarryPc, BuyPc
      <4>4. QED
        BY <4>1, <4>2, <4>3, SynthesisTurn
    <3>3. QED
      BY <1>6, <3>1, <3>2 DEF MarkUnknown
  <2>3. CASE UNCHANGED ledger
    BY <1>6, <2>1, <2>2, <2>3, KeepsAll DEF MarkUnknown, Sound
  <2>4. CASE SetReservation(k, MarkedUnknown(rsv[k]))
    <3>1. Keeps
      BY <1>2, <1>6, <2>4, WrittenReservation, KeepsBooked DEF MarkUnknown
    <3>2. QED
      BY <2>1, <2>2, <3>1 DEF Sound
  <2>5. QED
    BY <1>6, <2>3, <2>4 DEF MarkUnknown
<1>7. QED
  BY <1>3, <1>4, <1>5, <1>6

LEMMA OwnershipStep == ASSUME RowInv, NEW p \in Workers, CheckOwnership(p) PROVE Sound(p)
<1>1. worker[p].pc \in {"own", "consent", "regather"}
  BY DEF CheckOwnership
<1>2. worker[p].pc # "idle" /\ worker[p].pc \notin RetrievalPc /\ (worker[p].pc = "own" => worker[p].pc \in BuyPc)
  BY <1>1 DEF RetrievalPc, BuyPc
<1>3. Keeps
  BY KeepsAll DEF CheckOwnership
<1>4. CASE UNCHANGED row /\ Becomes(p, IF At(p, "own") THEN Refused(p) ELSE Held(p))
  <2>1. Turns(p)
    BY <1>2, <1>4, RefusedTurn, HeldTurn DEF At
  <2>2. QED
    BY <1>3, <1>4, <2>1, RowsUnchanged DEF Sound
<1>5. CASE /\ MayBeat(row[worker[p].work], p)
           /\ row' = [row EXCEPT ![worker[p].work] = Beaten(@)]
           /\ Goes(p, [own |-> "intend", consent |-> "pledge", regather |-> "gather"][worker[p].pc])
  <2>1. PICK pc \in {"intend", "pledge", "gather"} :
           /\ Goes(p, pc) /\ (pc = "intend" <=> worker[p].pc = "own")
    BY <1>1, <1>5
  <2>2. /\ pc \in Pc /\ pc \notin RetrievalPc /\ pc \notin {"settle", "commit", "save"}
        /\ pc = "intend" => pc \notin CarryPc
        /\ pc # "intend" => pc \notin BuyPc
    BY DEF Pc, RetrievalPc, CarryPc, BuyPc
  <2>3. CASE pc = "intend"
    <3>1. worker[p].buying \in {"value", "followup"} => worker[p].packet # "none"
      BY <1>2, <2>1, <2>3, MemoryOfInv DEF Reasoned
    <3>2. Turns(p)
      BY <1>2, <2>1, <2>2, <2>3, <3>1, GoesTurn
    <3>3. QED
      BY <1>3, <1>5, <3>2, BeatStep DEF Sound
  <2>4. CASE pc # "intend"
    <3>1. worker[p].packet # "none"
      BY <1>1, <2>1, <2>4, MemoryOfInv DEF Reasoned, CarryPc
    <3>2. Turns(p)
      BY <1>2, <2>1, <2>2, <2>4, <3>1, GoesTurn
    <3>3. QED
      BY <1>3, <1>5, <3>2, BeatStep DEF Sound
  <2>5. QED
    BY <2>3, <2>4
<1>6. QED
  BY <1>4, <1>5 DEF CheckOwnership
-----------------------------------------------------------------------------
(* The packet is at hand: saving it, the follow-up, the handoff.           *)
LEMMA CarriesOn ==
    ASSUME RowInv, NEW p \in Workers, worker[p].pc \in CarryPc, NEW pc \in CarryPc \ {"save"}, Goes(p, pc)
    PROVE  Turns(p)
<1>1. /\ worker[p].pc # "idle" /\ worker[p].pc \notin RetrievalPc
      /\ pc \in Pc /\ pc \notin RetrievalPc /\ pc \notin {"settle", "commit", "save", "send"}
  BY DEF CarryPc, RetrievalPc, Pc
<1>2. worker[p].packet # "none"
  BY MemoryOfInv DEF Reasoned
<1>3. QED
  BY <1>1, <1>2, GoesTurn

LEMMA CarriesHeld == ASSUME RowInv, NEW p \in Workers, worker[p].pc \in CarryPc, Becomes(p, Held(p)) PROVE Turns(p)
  BY HeldTurn DEF CarryPc, RetrievalPc

LEMMA CarriesSpends ==
    ASSUME RowInv, NEW p \in Workers, worker[p].pc \in CarryPc, NEW a \in Allowances, Spends(p, a, worker[p].packet)
    PROVE  Turns(p)
<1>1. /\ worker[p].pc # "idle" /\ worker[p].pc \notin RetrievalPc
      /\ worker[p].packet # "none" /\ worker[p].packet \in Packets
  BY MemoryOfInv DEF Reasoned, CarryPc, RetrievalPc, Memory
<1>2. QED
  BY <1>1, SpendsTurn

LEMMA FollowUpStep ==
    ASSUME RowInv, NEW p \in Workers, FollowUp(p) \/ Judge(p) \/ RecordFails(p) PROVE Sound(p)
<1>1. worker[p].pc \in CarryPc /\ UNCHANGED <<store, others>>
  BY DEF FollowUp, Judge, RecordFails, At, CarryPc
<1>2. {"admit", "consent", "judge", "regather", "resolve", "doubt", "handoff"} \subseteq CarryPc
  BY DEF CarryPc
<1>3. CASE \E pc \in CarryPc \ {"save"} : Goes(p, pc)
  BY <1>1, <1>3, CarriesOn, StayStep
<1>4. CASE Becomes(p, Held(p))
  BY <1>1, <1>4, CarriesHeld, StayStep
<1>5. CASE FollowUp(p)
  <2> DEFINE final == disk[worker[p].work].final
  <2>1. CASE final # "none" /\ Becomes(p, [worker[p] EXCEPT !.packet = final, !.pc = "handoff"])
    <3> DEFINE m == [worker[p] EXCEPT !.packet = final, !.pc = "handoff"]
    <3>0. final \in Packets /\ "handoff" \in Pc
      BY MemoryOfInv DEF Disk, Pc
    <3>1. m \in Memory /\ m.pc = "handoff" /\ m.packet = final /\ m.work = worker[p].work
      BY <3>0, MemoryOfInv DEF Memory
    <3>2. Becomes(p, m)
      BY <2>1
    <3> HIDE DEF m
    <3>3. Reasoned(m) /\ m.pc \notin RetrievalPc /\ worker[p].pc \notin RetrievalPc /\ worker[p].pc # "idle"
      BY <1>1, <2>1, <3>1 DEF Reasoned, RetrievalPc, CarryPc
    <3>4. QED
      BY <1>1, <3>1, <3>2, <3>3, SynthesisTurn, StayStep
  <2>2. QED
    BY <1>2, <1>3, <1>4, <1>5, <2>1 DEF FollowUp
<1>6. CASE Judge(p)
  <2>1. "followup" \in Allowances
    BY DEF Allowances
  <2>2. QED
    BY <1>1, <1>2, <1>3, <1>6, <2>1, CarriesSpends, StayStep DEF Judge
<1>7. CASE RecordFails(p)
  <2>1. Becomes(p, [worker[p] EXCEPT !.pc = "doubt"]) => Goes(p, "doubt")
    BY DEF Becomes, Goes
  <2>2. QED
    BY <1>2, <1>3, <1>4, <1>7, <2>1 DEF RecordFails
<1>8. QED
  BY <1>5, <1>6, <1>7

LEMMA RecordStep ==
    ASSUME RowInv, NEW p \in Workers,
           SavePacket(p) \/ Admit(p) \/ Pledge(p) \/ Weigh(p) \/ Doubt(p) \/ Gather(p) \/ Resolve(p)
    PROVE  Sound(p)
<1> DEFINE w == worker[p].work
<1>1. worker[p].pc \in CarryPc /\ UNCHANGED <<row, ledger, others>>
  BY DEF SavePacket, Admit, Pledge, Weigh, Doubt, Gather, Resolve, At, CarryPc
<1>2. w \in Works /\ disk[w] \in Disk /\ worker[p].packet \in Packets
  BY MemoryOfInv DEF Memory
<1>3. {"resolve", "judge", "handoff", "followup"} \subseteq CarryPc /\ "value" \in Allowances
      /\ {"baseline", "admission", "intent", "decision", "captures", "final"} \subseteq RecordFields
  BY DEF CarryPc, Allowances, RecordFields, NothingSaved
<1>4. ASSUME UNCHANGED disk, Becomes(p, Held(p)) PROVE Sound(p)
  BY <1>1, <1>4, CarriesHeld, KeepsAll, RowsUnchanged DEF Sound
<1>5. ASSUME NEW field \in RecordFields, NEW value, Save(w, field, value), [disk[w] EXCEPT ![field] = value] \in Disk,
             (\E pc \in CarryPc \ {"save"} : Goes(p, pc)) \/ Spends(p, "value", worker[p].packet)
      PROVE  Sound(p)
  <2>1. Turns(p)
    BY <1>1, <1>3, <1>5, CarriesOn, CarriesSpends
  <2>2. RowSteps /\ Keeps
    BY <1>1, <1>2, <1>5, SaveStep
  <2>3. QED
    BY <2>1, <2>2 DEF Sound
<1>6. CASE SavePacket(p)
  <2>1. AfterSave(p) \in CarryPc \ {"save"}
    BY <1>3 DEF AfterSave
  <2>2. CASE Save(w, "baseline", worker[p].packet) /\ Goes(p, AfterSave(p)) /\ disk[w].baseline \in {"none", worker[p].packet}
    <3>1. worker[p].packet \in {"bought", "reused"}
      BY <1>6, MemoryOfInv DEF SavePacket, At, Reasoned
    <3>2. [disk[w] EXCEPT !.baseline = worker[p].packet] \in Disk
      BY <1>2, <3>1 DEF Disk
    <3>3. QED
      BY <1>3, <1>5, <2>1, <2>2, <3>2
  <2>3. QED
    BY <1>4, <1>6, <2>2 DEF SavePacket
<1>7. CASE Admit(p)
  <2>1. [disk[w] EXCEPT !.admission = TRUE] \in Disk
    BY <1>2 DEF Disk
  <2>2. QED
    BY <1>3, <1>4, <1>5, <1>7, <2>1 DEF Admit
<1>8. CASE Pledge(p)
  <2>1. [disk[w] EXCEPT !.intent = TRUE] \in Disk
    BY <1>2 DEF Disk
  <2>2. QED
    BY <1>3, <1>4, <1>5, <1>8, <2>1 DEF Pledge
<1>9. CASE Weigh(p) \/ Doubt(p)
  <2>1. PICK decision \in {"worthwhile", "other"} : Save(w, "decision", decision) /\ Goes(p, "judge")
    BY <1>9 DEF Weigh, Doubt
  <2>2. [disk[w] EXCEPT !.decision = decision] \in Disk
    BY <1>2 DEF Disk
  <2>3. QED
    BY <1>3, <1>5, <2>1, <2>2
<1>10. CASE Gather(p)
  <2>1. CASE \E captures \in {"empty", "some"} : Save(w, "captures", captures) /\ Goes(p, "judge")
    <3>1. PICK captures \in {"empty", "some"} : Save(w, "captures", captures) /\ Goes(p, "judge")
      BY <2>1
    <3>2. [disk[w] EXCEPT !.captures = captures] \in Disk
      BY <1>2 DEF Disk
    <3>3. QED
      BY <1>3, <1>5, <3>1, <3>2
  <2>2. QED
    BY <1>4, <1>10, <2>1 DEF Gather
<1>11. CASE Resolve(p)
  <2>1. [disk[w] EXCEPT !.final = worker[p].packet] \in Disk
    BY <1>2 DEF Disk
  <2>2. QED
    BY <1>3, <1>4, <1>5, <1>11, <2>1 DEF Resolve
<1>12. QED
  BY <1>6, <1>7, <1>8, <1>9, <1>10, <1>11

LEMMA HandoffStep == ASSUME RowInv, NEW p \in Workers, CommitHandoff(p) PROVE Sound(p)
<1> DEFINE w == worker[p].work
<1>1. w \in Works /\ row[w] \in Row /\ disk[w] \in Disk /\ UNCHANGED <<ledger, others>>
  BY MemoryOfInv DEF CommitHandoff
<1>2. Turns(p)
  BY EndsTurn DEF CommitHandoff
<1>3. CASE UNCHANGED <<row, disk>>
  BY <1>1, <1>2, <1>3, RowsUnchanged, KeepsAll DEF Sound
<1>4. CASE /\ Fence(row[w], p, "synthesis_leased")
           /\ \E readiness \in {"ready", "resolved", "failed"} : HandsOff(w, worker[p].packet, readiness)
  <2>1. PICK readiness \in {"ready", "resolved", "failed"} : HandsOff(w, worker[p].packet, readiness)
    BY <1>4
  <2> DEFINE next == HandoffStatus(readiness)
  <2> DEFINE d == [disk[w] EXCEPT !.packet = worker[p].packet, !.readiness = readiness]
  <2>2. /\ next \in PastResearch /\ next \in Status /\ next \notin LeasedStatus /\ next # "retry_wait"
        /\ CanTransition("synthesis_leased", next)
    BY DEF HandoffStatus, PastResearch, Status, LeasedStatus, CanTransition, NormalTransitions
  <2>3. row[w].status = "synthesis_leased" /\ "synthesis_leased" \in Open
    BY <1>4 DEF Fence, Open, LeasedStatus
  <2>4. worker[p].packet \in Packets /\ worker[p].packet # "none"
    BY MemoryOfInv DEF Memory, Reasoned, CommitHandoff, At, CarryPc
  <2>5. disk' = [disk EXCEPT ![w] = d] /\ row' = [row EXCEPT ![w] = Moved(row[w], next)]
    BY <1>1, <2>1 DEF HandsOff, RowInv, TypeOK, Disk
  <2>6. d \in Disk /\ d.packet # "none" /\ d.readiness # "none"
    BY <1>1, <2>4 DEF Disk
  <2> HIDE DEF w, next, d
  <2>7. Leaves("synthesis_leased", {Moved(row[w], next)})
    BY <1>1, <2>2, MovedLeaves
  <2>8. RowSteps
    BY <1>1, <2>3, <2>5, <2>7, RowWritten DEF Leaves
  <2>9. row'[w].status \in PastResearch
    BY <1>1, <2>2, <2>5, MovedRow DEF RowInv, TypeOK
  <2>10. Keeps
    BY <1>1, <2>5, <2>6, <2>9 DEF Keeps, RowInv, TypeOK, ledger, others
  <2>11. QED
    BY <1>2, <2>8, <2>10 DEF Sound
<1>5. QED
  BY <1>3, <1>4 DEF CommitHandoff

LEMMA WorkersStep ==
    ASSUME RowInv, NEW p \in Workers, WorkerStep(p) \/ Heartbeat(p) \/ Crash(p) PROVE Sound(p)
<1>1. CASE Retrieves(p)
  BY <1>1, EndingStep, RetrievalStep DEF Retrieves
<1>2. CASE Buys(p)
  BY <1>2, ClaimingStep, OwnershipStep, AnswerStep, SettlingStep DEF Buys
<1>3. CASE FollowsUp(p)
  BY <1>3, FollowUpStep, RecordStep DEF FollowsUp
<1>4. CASE Synthesizes(p)
  BY <1>2, <1>3, <1>4, EndingStep, ChoiceStep, RecordStep, FollowUpStep, HandoffStep DEF Synthesizes
<1>5. QED
  BY <1>1, <1>4, HeartbeatStep DEF WorkerStep
-----------------------------------------------------------------------------
(* The steps of the store's own passes, of the operator and of time: no    *)
(* worker's memory changes, and a lease is only taken away.                *)
LEMMA OutsideStep ==
    ASSUME RowInv, UNCHANGED <<disk, worker, calls, flow>>,
           row' = [w \in Works |-> row'[w]],
           \A w \in Works :
              /\ row'[w] \in Row /\ RowFits(row'[w])
              /\ row'[w].owner = NoWorker \/ (row'[w].owner = row[w].owner /\ row'[w].status = row[w].status)
              /\ \/ row'[w].status = row[w].status
                 \/ row[w].status \in Open
                 \/ disk[w].packet # "none" => row'[w].status \in PastResearch,
           rsv' \in [Purchases -> Reservation], age' \in [Purchases -> 0 .. HoldTtl],
           sweep' \in [holds : SUBSET Purchases, exposed : SUBSET Works, expired : SUBSET Works],
           requeues' \in 0 .. MaxRequeues
    PROVE  RowInv'
<1>1. TypeOK'
  BY DEF RowInv, TypeOK
<1>2. ASSUME NEW q \in Workers, worker[q].pc # "idle", row'[worker[q].work].owner = q
      PROVE  row'[worker[q].work].status = Stage(worker[q])
  <2>1. worker[q].work \in Works /\ q # NoWorker
    BY NoWorkerAssumption, MemoryOfInv
  <2>2. row[worker[q].work].owner = q /\ row'[worker[q].work].status = row[worker[q].work].status
    BY <1>2, <2>1
  <2>3. row[worker[q].work].status = Stage(worker[q])
    BY <1>2, <2>2 DEF RowInv, LeaseMatchesStatus, At, StageLease, Stage, RetrievalPc
  <2>4. QED
    BY <2>2, <2>3
<1>3. LeaseMatchesStatus'
  BY <1>2 DEF LeaseMatchesStatus, RowFits, Leased, At, StageLease, Stage, RetrievalPc
<1>4. HandedOffIsPastResearch'
  BY DEF RowInv, HandedOffIsPastResearch, Open, LeasedStatus, PastResearch
<1>5. QED
  BY <1>1, <1>3, <1>4 DEF RowInv

LEMMA RestType ==
    ASSUME NEW s \in [holds : SUBSET Purchases, exposed : SUBSET Works, expired : SUBSET Works]
    PROVE  Rest(s) \in [holds : SUBSET Purchases, exposed : SUBSET Works, expired : SUBSET Works]
  BY DEF Rest, NoSweep

(* The passes that follow the transition table.                            *)
LEMMA PassStep ==
    ASSUME RowInv, UNCHANGED <<disk, worker, calls, flow, requeues>>, RowSteps,
           rsv' \in [Purchases -> Reservation], age' \in [Purchases -> 0 .. HoldTtl],
           sweep' \in [holds : SUBSET Purchases, exposed : SUBSET Works, expired : SUBSET Works]
    PROVE  RowInv' /\ StatusMoves
<1>1. \A w \in Works :
         /\ row'[w] \in Row /\ RowFits(row'[w])
         /\ row'[w].owner = NoWorker \/ (row'[w].owner = row[w].owner /\ row'[w].status = row[w].status)
         /\ row'[w].status = row[w].status \/ row[w].status \in Open
  BY DEF RowSteps, RowStep
<1>2. requeues' \in 0 .. MaxRequeues
  BY DEF RowInv, TypeOK
<1>3. RowInv'
  BY <1>1, <1>2, OutsideStep DEF RowSteps
<1>4. QED
  BY <1>3 DEF RowSteps, RowStep, StatusMoves

LEMMA StoreTypes ==
    ASSUME RowInv
    PROVE  /\ rsv \in [Purchases -> Reservation] /\ age \in [Purchases -> 0 .. HoldTtl]
           /\ sweep \in [holds : SUBSET Purchases, exposed : SUBSET Works, expired : SUBSET Works]
           /\ requeues \in 0 .. MaxRequeues /\ row \in [Works -> Row]
  BY DEF RowInv, TypeOK

LEMMA RecoverStep == ASSUME RowInv, Recover PROVE RowInv' /\ StatusMoves
<1>1. PICK moved \in SUBSET Works :
         /\ \A w \in moved : LeaseExpired(row[w]) \/ RetryDue(row[w])
         /\ row' = [w \in Works |-> IF w \in moved THEN Recovered(row[w], w \in Exposed) ELSE row[w]]
  <2>1. PICK leases \in SUBSET {w \in Works : LeaseExpired(row[w])},
             retries \in SUBSET {w \in Works : RetryDue(row[w])} :
          row' = [w \in Works |-> IF w \in leases \cup retries THEN Recovered(row[w], w \in Exposed) ELSE row[w]]
    BY DEF Recover
  <2>2. leases \cup retries \in SUBSET Works
    OBVIOUS
  <2>3. \A w \in leases \cup retries : LeaseExpired(row[w]) \/ RetryDue(row[w])
    OBVIOUS
  <2> QED
    BY <2>1, <2>2, <2>3
<1>2. ASSUME NEW w \in moved PROVE RowStep(w)
  <2> DEFINE exposed == w \in Exposed
  <2>1. /\ w \in Works /\ row[w] \in Row /\ RowFits(row[w])
        /\ LeaseExpired(row[w]) \/ RetryDue(row[w])
        /\ exposed \in BOOLEAN
    BY <1>1, RowsOfInv
  <2>2. row'[w] = Recovered(row[w], exposed)
    BY <1>1, <2>1
  <2> HIDE DEF exposed
  <2>3. row[w].status = "retry_wait" => row[w].target \in PendingStatus
    BY <1>1, <1>2, RowsOfInv DEF RowFits, Row
  <2>4. row[w] \in Row /\ (LeaseExpired(row[w]) \/ RetryDue(row[w]))
    BY <1>1, <1>2, RowsOfInv
  <2>5. exposed \in BOOLEAN
    BY DEF exposed
  <2>6. /\ row'[w] \in Row /\ row'[w].owner = NoWorker
        /\ row'[w].status = IF exposed THEN "dead_letter"
                            ELSE IF Leased(row[w]) THEN PendingStatusFor[row[w].status] ELSE row[w].target
    BY <2>2, <2>3, <2>4, <2>5, RecoveredRow
  <2>7. row'[w].target = "none"
    BY <2>2 , <2>4 DEF Recovered, Moved, Unleased, Row
  <2>8. row[w].status \in Open
    BY <2>4 DEF Open, LeaseExpired, RetryDue, Leased
  <2>9. /\ row'[w].status \notin LeasedStatus \cup {"retry_wait"}
        /\ CanTransition(row[w].status, row'[w].status)
    <3>1. CASE exposed
      BY <2>4, <2>6, <3>1 DEF LeaseExpired, RetryDue, Leased, LeasedStatus, CanTransition, NormalTransitions
    <3>2. CASE ~exposed /\ Leased(row[w])
      BY <2>6, <3>2 DEF Leased, LeasedStatus, PendingStatusFor, CanTransition, NormalTransitions
    <3>3. CASE ~exposed /\ ~Leased(row[w])
      BY <2>3, <2>4, <2>6, <3>3 DEF LeaseExpired, RetryDue, LeasedStatus, PendingStatus, CanTransition, NormalTransitions
    <3>4. QED
      BY <3>1, <3>2, <3>3
  <2>10. QED
    BY <2>6, <2>7, <2>8, <2>9 DEF RowStep, RowFits, Leased
<1>3. ASSUME NEW w \in Works \ moved PROVE RowStep(w)
  BY <1>1, RowsOfInv DEF RowStep
<1>4. RowSteps
  BY <1>1, <1>2, <1>3 DEF RowSteps
<1>5. UNCHANGED <<disk, worker, calls, flow, requeues, rsv, age, sweep>>
  BY DEF Recover, ledger, others
<1>6. QED
  BY <1>4, <1>5, StoreTypes, PassStep

LEMMA SweepStep ==
    ASSUME RowInv,
           SweepStarts \/ (\E k \in Purchases : SweepSettles(k)) \/ (\E w \in Works : SweepMoves(w))
    PROVE  RowInv' /\ StatusMoves
<1> DEFINE Sweeps == [holds : SUBSET Purchases, exposed : SUBSET Works, expired : SUBSET Works]
<1>1. CASE SweepStarts
  <2>1. UNCHANGED <<disk, worker, calls, flow, requeues, rsv, age, row>>
    BY <1>1 DEF SweepStarts, store, ledger
  <2>2. sweep' \in Sweeps
    BY <1>1, RestType DEF SweepStarts, Exposed
  <2>3. QED
    BY <2>1, <2>2, StoreTypes, RowsUnchanged, PassStep
<1>2. CASE \E k \in Purchases : SweepSettles(k)
  <2>1. PICK k \in Purchases : SweepSettles(k)
    BY <1>2
  <2>2. UNCHANGED <<disk, worker, calls, flow, requeues, row>>
    BY <2>1 DEF SweepSettles
  <2>3. k[1] \in Works
    BY DEF Purchases
  <2>4. sweep' \in Sweeps
    <3> DEFINE exposed == IF MaySettle(rsv[k], "stale_hold_max_exposure", NoResult)
                          THEN sweep.exposed \cup {k[1]} ELSE sweep.exposed
    <3>1. sweep' = Rest([sweep EXCEPT !.holds = sweep.holds \ {k}, !.exposed = exposed])
      BY <2>1 DEF SweepSettles
    <3>2. exposed \in SUBSET Works
      BY <2>3, StoreTypes
    <3> HIDE DEF exposed
    <3>3. [sweep EXCEPT !.holds = sweep.holds \ {k}, !.exposed = exposed] \in Sweeps
      BY <3>2, StoreTypes
    <3>4. QED
      BY <3>1, <3>3, RestType
  <2>5. rsv' \in [Purchases -> Reservation] /\ age' \in [Purchases -> 0 .. HoldTtl]
    <3>1. rsv[k] \in Reservation /\ NoResult \in Results \cup {NoResult} /\ 0 \in 0 .. HoldTtl
      BY StoreTypes, BoundsAssumption
    <3>2. Settled(rsv[k], rsv[k], NoResult, CallLimit) \in Reservation
      BY <3>1, WrittenReservation
    <3>3. QED
      BY <2>1, <3>1, <3>2, StoreTypes DEF SweepSettles, SetReservation, ledger
  <2>6. QED
    BY <2>2, <2>4, <2>5, RowsUnchanged, PassStep
<1>3. CASE \E w \in Works : SweepMoves(w)
  <2>1. PICK w \in Works : SweepMoves(w)
    BY <1>3
  <2>2. UNCHANGED <<disk, worker, calls, flow, requeues, rsv, age>>
    BY <2>1 DEF SweepMoves, ledger
  <2>3. sweep' \in Sweeps
    <3>1. sweep' = Rest([sweep EXCEPT !.expired = sweep.expired \ {w}])
      BY <2>1 DEF SweepMoves
    <3>2. [sweep EXCEPT !.expired = sweep.expired \ {w}] \in Sweeps
      BY StoreTypes
    <3>3. QED
      BY <3>1, <3>2, RestType
  <2>4. RowSteps
    <3> DEFINE r == row[w]
    <3>1. r \in Row
      BY StoreTypes
    <3>2. CASE ~LeaseExpired(r)
      BY <2>1, <3>2, RowsUnchanged, StoreTypes DEF SweepMoves
    <3>3. CASE LeaseExpired(r)
      <4>1. row' = [row EXCEPT ![w] = Swept(r, w \in sweep.exposed)]
        BY <2>1, <3>3 DEF SweepMoves
      <4>2. r.status \in LeasedStatus /\ r.status \in Open
        BY <3>3 DEF LeaseExpired, Leased, Open
      <4> HIDE DEF r
      <4>3. ASSUME NEW s, s = Waiting(r, 1) \/ s = Moved(r, "dead_letter")
            PROVE  s \in Row /\ s.owner = NoWorker /\ RowFits(s) /\ CanTransition(r.status, s.status)
        <5>1. 1 \in 1 .. Backoff /\ "dead_letter" \in Status
          BY TimesAssumption, StatusType
        <5>2. CASE s = Waiting(r, 1)
          <6>1. /\ s \in Row /\ s.status = "retry_wait" /\ s.owner = NoWorker
                /\ s.target = PendingStatusFor[r.status]
            BY <3>1, <4>2, <5>1, <5>2, WaitingRow
          <6>2. PendingStatusFor[r.status] # "none"
            BY <4>2, StatusType
          <6>3. QED
            BY <4>2, <6>1, <6>2 DEF RowFits, Leased, LeasedStatus, CanTransition, NormalTransitions
        <5>3. CASE s = Moved(r, "dead_letter")
          <6>1. s \in Row /\ s.status = "dead_letter" /\ s.owner = NoWorker /\ s.target = "none"
            BY <3>1, <5>1, <5>3, MovedRow
          <6>2. QED
            BY <4>2, <6>1 DEF RowFits, Leased, LeasedStatus, CanTransition, NormalTransitions
        <5>4. QED
          BY <4>3, <5>2, <5>3
      <4>4. Swept(r, w \in sweep.exposed) = Waiting(r, 1) \/ Swept(r, w \in sweep.exposed) = Moved(r, "dead_letter")
        BY DEF Swept
      <4>5. PICK s : s = Swept(r, w \in sweep.exposed)
        OBVIOUS
      <4>6. row' = [row EXCEPT ![w] = s]
        BY <4>1, <4>5
      <4>7. QED
        BY <4>2, <4>3, <4>4, <4>5, <4>6, RowWritten DEF r
    <3>4. QED
      BY <3>2, <3>3
  <2>5. QED
    BY <2>2, <2>3, <2>4, StoreTypes, PassStep
<1>4. QED
  BY <1>1, <1>2, <1>3

LEMMA TickStep == ASSUME RowInv, Tick PROVE RowInv' /\ StatusMoves
<1>1. ASSUME NEW w \in Works PROVE RowStep(w)
  <2>1. row'[w] = Aged(row[w])
    BY DEF Tick
  <2>2. /\ row'[w] \in Row /\ row'[w].status = row[w].status /\ row'[w].owner = row[w].owner
        /\ row'[w].target = row[w].target
    BY <2>1, AgedRow, StoreTypes
  <2>3. QED
    BY <2>2, RowsOfInv DEF RowStep, RowFits, Leased
<1>2. RowSteps
  BY <1>1 DEF RowSteps, Tick
<1>3. age' \in [Purchases -> 0 .. HoldTtl]
  <2>1. ASSUME NEW k \in Purchases PROVE Min({age[k] + 1, HoldTtl}) \in 0 .. HoldTtl /\ 0 \in 0 .. HoldTtl
    <3>1. age[k] + 1 \in Nat /\ HoldTtl \in Nat
      BY StoreTypes, BoundsAssumption
    <3>2. Min({age[k] + 1, HoldTtl}) \in {age[k] + 1, HoldTtl} /\ Min({age[k] + 1, HoldTtl}) =< HoldTtl
      BY <3>1, MinWith
    <3> HIDE DEF Min
    <3>3. QED
      BY <3>1, <3>2
  <2>2. QED
    BY <2>1 DEF Tick
<1>4. QED
  BY <1>2, <1>3, StoreTypes, PassStep DEF Tick, others

LEMMA RequeueStep == ASSUME RowInv, NEW w \in Works, Requeue(w) PROVE RowInv' /\ requeues' # requeues
<1> DEFINE r == row[w]
<1> DEFINE target == RequeueTarget(w)
<1>1. r \in Row /\ RowFits(r)
  BY RowsOfInv
<1>2. target \in PendingStatus /\ (disk[w].packet # "none" => target \in PastResearch)
  <2>1. r.status = "retry_wait" => r.target \in PendingStatus
    BY <1>1 DEF Row, RowFits
  <2>2. disk[w].packet # "none" => r.status # "retry_wait"
    BY DEF RowInv, HandedOffIsPastResearch
  <2>3. QED
    BY <2>1, <2>2 DEF RequeueTarget, PendingStatus, PastResearch
<1>3. row' = [row EXCEPT ![w] = Moved(r, target)] /\ UNCHANGED <<disk, worker, calls, flow, rsv, age, sweep>>
  BY DEF Requeue, ledger
<1> HIDE DEF r, target
<1>4. target \in Status /\ target \notin LeasedStatus /\ target # "retry_wait"
  BY <1>2, StatusType DEF PendingStatus, LeasedStatus
<1>5. /\ Moved(r, target) \in Row /\ Moved(r, target).status = target /\ Moved(r, target).owner = NoWorker
      /\ RowFits(Moved(r, target))
  BY <1>1, <1>4, MovedRow DEF RowFits, Leased
<1>6. requeues' \in 0 .. MaxRequeues /\ requeues' # requeues
  BY StoreTypes, BoundsAssumption DEF Requeue
<1>7. \A v \in Works :
         /\ row'[v] \in Row /\ RowFits(row'[v])
         /\ row'[v].owner = NoWorker \/ (row'[v].owner = row[v].owner /\ row'[v].status = row[v].status)
         /\ \/ row'[v].status = row[v].status
            \/ row[v].status \in Open
            \/ disk[v].packet # "none" => row'[v].status \in PastResearch
  BY <1>2, <1>3, <1>5, StoreTypes, RowsOfInv
<1>8. row' = [v \in Works |-> row'[v]]
  BY <1>3, StoreTypes
<1>9. RowInv'
  BY <1>3, <1>6, <1>7, <1>8, StoreTypes, OutsideStep
<1>10. QED
  BY <1>6, <1>9

LEMMA ClaimStep == ASSUME RowInv, NEW p \in Workers, NEW w \in Works, Claim(p, w) PROVE RowInv' /\ StatusMoves
<1> DEFINE r == Claimed(row[w], p)
<1> DEFINE m == [Blank(w) EXCEPT !.pc = IF row[w].status = "research_pending" THEN "plan" ELSE "prepare"]
<1>1. row[w] \in Row /\ RowFits(row[w]) /\ p # NoWorker
  BY RowsOfInv, NoWorkerAssumption
<1>2. row[w].status \in {"research_pending", "synthesis_pending"} /\ row[w].status \in PendingStatus
  BY DEF Claim, PendingStatus
<1>3. /\ row' = [row EXCEPT ![w] = r] /\ worker' = [worker EXCEPT ![p] = m]
      /\ UNCHANGED <<disk, rsv, age, requeues, calls, flow>>
  BY DEF Claim, ledger
<1>4. m \in Memory /\ m.work = w /\ m.pc = IF row[w].status = "research_pending" THEN "plan" ELSE "prepare"
  BY IdleMemory DEF Memory, Blank, Pc
<1>5. Reasoned(m) /\ Stage(m) = LeasedStatusFor[row[w].status]
  BY <1>2, <1>4 DEF Reasoned, CarryPc, BuyPc, Stage, RetrievalPc, LeasedStatusFor
<1>6. /\ r \in Row /\ r.status = LeasedStatusFor[row[w].status] /\ r.owner = p /\ r.target = row[w].target
  BY <1>1, <1>2, ClaimedRow
<1>7. RowFits(r) /\ CanTransition(row[w].status, r.status)
  BY <1>1, <1>2, <1>6 DEF RowFits, Leased, LeasedStatusFor, LeasedStatus, CanTransition, NormalTransitions
<1> HIDE DEF r, m
<1>8. sweep' \in [holds : SUBSET Purchases, exposed : SUBSET Works, expired : SUBSET Works]
  <2>1. [sweep EXCEPT !.expired = sweep.expired \ {w}]
           \in [holds : SUBSET Purchases, exposed : SUBSET Works, expired : SUBSET Works]
    BY StoreTypes
  <2>2. QED
    BY <2>1, RestType DEF Claim
<1>9. TypeOK'
  BY <1>3, <1>4, <1>6, <1>8 DEF RowInv, TypeOK
<1>10. \A v \in Works : RowFits(row'[v])
  BY <1>3, <1>7, RowsOfInv, StoreTypes
<1>11. ASSUME NEW q \in Workers, worker'[q].pc # "idle", row'[worker'[q].work].owner = q
       PROVE  row'[worker'[q].work].status = Stage(worker'[q])
  <2>1. CASE q = p
    BY <1>3, <1>4, <1>5, <1>6, <2>1, StoreTypes DEF RowInv, TypeOK
  <2>2. CASE q # p
    <3>1. worker'[q] = worker[q] /\ worker[q].work \in Works
      BY <1>3, <2>2, MemoryOfInv DEF RowInv, TypeOK
    <3>2. worker[q].work # w
      BY <1>3, <1>6, <1>11, <2>2, <3>1, StoreTypes
    <3>3. row'[worker[q].work] = row[worker[q].work]
      BY <1>3, <3>1, <3>2, StoreTypes
    <3>4. row[worker[q].work].status = Stage(worker[q])
      BY <1>11, <3>1, <3>3 DEF RowInv, LeaseMatchesStatus, At, StageLease, Stage, RetrievalPc
    <3>5. QED
      BY <3>1, <3>3, <3>4
  <2>3. QED
    BY <2>1, <2>2
<1>12. LeaseMatchesStatus'
  BY <1>10, <1>11 DEF LeaseMatchesStatus, RowFits, Leased, At, StageLease, Stage, RetrievalPc
<1>13. HandedOffIsPastResearch'
  BY <1>2, <1>3, StoreTypes DEF RowInv, HandedOffIsPastResearch
<1>14. \A q \in Workers : Reasoned(worker'[q])
  BY <1>3, <1>5 DEF RowInv, TypeOK
<1>15. StatusMoves
  BY <1>3, <1>7, StoreTypes DEF StatusMoves
<1>16. QED
  BY <1>9, <1>12, <1>13, <1>14, <1>15 DEF RowInv

LEMMA RowInit == Init => RowInv
<1> SUFFICES ASSUME Init PROVE RowInv
  OBVIOUS
<1>1. AdmittedRow \in Row /\ RowFits(AdmittedRow)
  BY TimesType, StatusType DEF AdmittedRow, Row, RowFits, Leased, LeasedStatus, Status, NormalTransitions
<1>2. NothingSaved \in Disk
  BY DEF NothingSaved, Disk, Packets
<1>3. Absent \in Reservation /\ 0 \in 0 .. HoldTtl /\ 0 \in 0 .. MaxRequeues
  BY CallLimitAssumption, BoundsAssumption DEF Absent, Reservation
<1>4. Idle \in Memory /\ Idle.pc = "idle" /\ Reasoned(Idle)
  BY WorksAssumption, IdleMemory
<1>5. TypeOK
  BY <1>1, <1>2, <1>3, <1>4 DEF Init, TypeOK, NoSweep
<1>6. LeaseMatchesStatus
  BY <1>1, <1>4 DEF Init, LeaseMatchesStatus, RowFits, At
<1>7. HandedOffIsPastResearch
  BY DEF Init, HandedOffIsPastResearch, NothingSaved
<1>8. QED
  BY <1>4, <1>5, <1>6, <1>7 DEF RowInv, Init

LEMMA RowInvStep ==
    RowInv /\ [Next]_vars => RowInv' /\ (requeues' = requeues => StatusMoves)
<1> SUFFICES ASSUME RowInv, [Next]_vars PROVE RowInv' /\ (requeues' = requeues => StatusMoves)
  OBVIOUS
<1>1. CASE UNCHANGED vars
  BY <1>1 DEF vars, store, ledger, others, RowInv, TypeOK, LeaseMatchesStatus, HandedOffIsPastResearch,
              At, StageLease, StatusMoves
<1>2. CASE \E p \in Workers, w \in Works : Claim(p, w)
  BY <1>2, ClaimStep
<1>3. CASE \E p \in Workers : WorkerStep(p) \/ Heartbeat(p) \/ Crash(p)
  BY <1>3, WorkersStep, SoundStep
<1>4. CASE Recover
  BY <1>4, RecoverStep
<1>5. CASE SweepStarts \/ (\E k \in Purchases : SweepSettles(k)) \/ (\E w \in Works : SweepMoves(w))
  BY <1>5, SweepStep
<1>6. CASE \E w \in Works : Requeue(w)
  BY <1>6, RequeueStep
<1>7. CASE Tick
  BY <1>7, TickStep
<1>8. QED
  BY <1>1, <1>2, <1>3, <1>4, <1>5, <1>6, <1>7 DEF Next

LEMMA RowInvariant == Spec => []RowInv
<1>1. Init => RowInv
  BY RowInit
<1>2. RowInv /\ [Next]_vars => RowInv'
  BY RowInvStep
<1>3. QED
  BY <1>1, <1>2, PTL DEF Spec

(* Every variable keeps its type, whatever the workers, the passes and the *)
(* operator do.                                                            *)
THEOREM ResearchTypeCorrect == Spec => []TypeOK
<1>1. RowInv => TypeOK
  BY DEF RowInv
<1>2. QED
  BY <1>1, RowInvariant, PTL

(* A lease, its row's status and its worker's memory never disagree.       *)
THEOREM LeasesMatch == Spec => []LeaseMatchesStatus
<1>1. RowInv => LeaseMatchesStatus
  BY DEF RowInv
<1>2. QED
  BY <1>1, RowInvariant, PTL

(* A packet and its readiness that were handed off are past research for   *)
(* good, for any number of workers that crash, lose leases or are          *)
(* recovered, swept and requeued.                                          *)
THEOREM HandoffIsFinal == Spec => []HandedOffIsPastResearch
<1>1. RowInv => HandedOffIsPastResearch
  BY DEF RowInv
<1>2. QED
  BY <1>1, RowInvariant, PTL

(* No step but an operator's leaves the transition table.                  *)
THEOREM TableIsFollowed == Spec => FollowsTransitionTable
<1>1. RowInv /\ [Next]_vars =>
         [\A w \in Works : row'[w].status # row[w].status /\ requeues' = requeues
                              => CanTransition(row[w].status, row'[w].status)]_vars
  BY RowInvStep DEF StatusMoves
<1>2. QED
  BY <1>1, RowInvariant, PTL DEF Spec, FollowsTransitionTable
-----------------------------------------------------------------------------
(* The purchases.  What the refinement rests on: a request on its way      *)
(* belongs to one worker, whose intent is in the ledger and whose call was *)
(* not made before.                                                        *)
Gone(k) == rsv[k].state \in {"dispatch_intent", "execution_outcome_unknown", "settled"}

PaidInv ==
    /\ \A k \in Purchases : calls[k] \in {0, 1} /\ (calls[k] = 1 => Gone(k))
    /\ \A p \in Workers : At(p, "send") => Gone(Purchase(p)) /\ calls[Purchase(p)] = 0
    /\ \A p, q \in Workers : At(p, "send") /\ At(q, "send") /\ Purchase(p) = Purchase(q) => p = q

(* A write of one reservation moves its phase forward or leaves it.        *)
Advances(s, r) ==
    \/ r.state = s.state
    \/ s.state = "absent" /\ r.state = "reserved_not_dispatched"
    \/ s.state = "reserved_not_dispatched" /\ r.state \in {"dispatch_intent", "execution_outcome_unknown"}
    \/ /\ s.state \in {"dispatch_intent", "execution_outcome_unknown"}
       /\ r.state \in {"execution_outcome_unknown", "settled"}

Booked == \E k \in Purchases, r \in Reservation : rsv' = [rsv EXCEPT ![k] = r] /\ Advances(rsv[k], r)

NoNewSender == \A q \in Workers : worker'[q].pc = "send" => worker'[q] = worker[q]

LEMMA NothingBooked == ASSUME RowInv, UNCHANGED rsv PROVE Booked
<1>1. PICK w \in Works : TRUE
  BY WorksAssumption
<1> DEFINE k == <<w, "primary">>
<1>2. k \in Purchases
  BY DEF Purchases, Allowances
<1> HIDE DEF k
<1>3. rsv[k] \in Reservation /\ rsv' = [rsv EXCEPT ![k] = rsv[k]]
  BY <1>2, StoreTypes
<1>4. QED
  BY <1>2, <1>3 DEF Booked, Advances

LEMMA PhasesOfRow ==
    ASSUME NEW r \in Reservation
    PROVE  /\ r.state = "absent" => PhaseOf(r) = "free"
           /\ r.state = "reserved_not_dispatched" => PhaseOf(r) = "held"
           /\ r.state \in {"dispatch_intent", "execution_outcome_unknown"} => PhaseOf(r) = "committed"
           /\ r.state = "settled" => PhaseOf(r) = "charged"
           /\ r.state = "released" => PhaseOf(r) = "refunded"
           /\ r.state \in {"absent", "reserved_not_dispatched", "dispatch_intent", "execution_outcome_unknown",
                           "settled", "released"}
  BY DEF PhaseOf, PhaseName, Reservation, OpenStates, TerminalStates

(* A write of one reservation is a step of PaidOnce on it.                 *)
LEMMA BookedPhase == ASSUME RowInv, Booked, UNCHANGED calls PROVE [Paid!Next]_(Paid!vars)
<1>1. PICK k \in Purchases, r \in Reservation : rsv' = [rsv EXCEPT ![k] = r] /\ Advances(rsv[k], r)
  BY DEF Booked
<1>2. rsv[k] \in Reservation /\ rsv'[k] = r /\ \A j \in Purchases \ {k} : rsv'[j] = rsv[j]
  BY <1>1, StoreTypes
<1>3. Phase[k] = PhaseOf(rsv[k]) /\ Phase'[k] = PhaseOf(r)
  BY <1>2 DEF Phase
<1>4. Phase' = [Phase EXCEPT ![k] = Phase'[k]]
  BY <1>2 DEF Phase
<1>5. CASE Phase'[k] = Phase[k]
  BY <1>4, <1>5 DEF Paid!vars, Phase
<1>6. \/ Phase'[k] = Phase[k]
      \/ Phase[k] = "free" /\ Phase'[k] = "held"
      \/ Phase[k] = "held" /\ Phase'[k] = "committed"
      \/ Phase[k] = "committed" /\ Phase'[k] = "charged"
  BY <1>1, <1>2, <1>3, PhasesOfRow DEF Advances
<1>7. CASE Phase'[k] # Phase[k]
  BY <1>4, <1>6, <1>7 DEF Paid!Next, Paid!Hold, Paid!Commit, Paid!Charge, Paid!Moves
<1>8. QED
  BY <1>5, <1>7

(* Nothing a booking does disturbs the purchases on their way.             *)
LEMMA BookedStep ==
    ASSUME RowInv, PaidInv, Booked, UNCHANGED calls, NoNewSender
    PROVE  PaidInv' /\ [Paid!Next]_(Paid!vars)
<1>1. \A k \in Purchases : Gone(k) => Gone(k)'
  <2>1. PICK k \in Purchases, r \in Reservation : rsv' = [rsv EXCEPT ![k] = r] /\ Advances(rsv[k], r)
    BY DEF Booked
  <2>2. \A j \in Purchases : rsv'[j] = IF j = k THEN r ELSE rsv[j]
    BY <2>1, StoreTypes
  <2>3. QED
    BY <2>1, <2>2 DEF Gone, Advances
<1>2. ASSUME NEW q \in Workers, worker'[q].pc = "send"
      PROVE  At(q, "send") /\ Purchase(q)' = Purchase(q) /\ Purchase(q) \in Purchases
  BY <1>2, MemoryOfInv DEF NoNewSender, At, Purchase
<1>3. PaidInv'
  BY <1>1, <1>2 DEF PaidInv, At
<1>4. QED
  BY <1>3, BookedPhase

(* The steps of a worker that neither intend nor send.                     *)
LEMMA LedgerOfStep ==
    ASSUME RowInv, NEW p \in Workers,
           Retrieves(p) \/ Synthesizes(p) \/ Heartbeat(p) \/ Crash(p), ~Intend(p), ~Send(p)
    PROVE  Booked /\ UNCHANGED calls
<1> DEFINE k == Purchase(p)
<1>1. k \in Purchases /\ rsv[k] \in Reservation
  BY MemoryOfInv
<1>2. CASE UNCHANGED <<rsv, calls>>
  BY <1>2, NothingBooked
<1>3. CASE Retrieves(p) \/ Heartbeat(p) \/ Crash(p)
  BY <1>2, <1>3 DEF Retrieves, Heartbeat, Crash, PreflightStops, PreflightPasses, RefuseStage, ReuseCheckpoint,
     BeginAttempt, CommitCheckpoint, RetrievalFails, Advance, HoldRetrieval, LastWrite, store, ledger, others
<1>4. CASE FollowsUp(p)
  BY <1>2, <1>4 DEF FollowsUp, FollowUp, Admit, Pledge, Weigh, Doubt, Judge, Gather, Resolve, store, ledger, others
<1>5. CASE Buys(p)
  <2>1. CASE \/ ListReservations(p) \/ Decide(p) \/ CheckOwnership(p) \/ AnswerArrives(p) \/ AnswerRejected(p)
             \/ CallAborted(p) \/ CallFails(p) \/ SettleReads(p) \/ StoreFails(p)
    BY <1>2, <2>1 DEF ListReservations, Decide, CheckOwnership, AnswerArrives, AnswerRejected, CallAborted, CallFails,
       SettleReads, StoreFails, store, ledger, others
  <2>2. ASSUME NEW r \in Reservation, SetReservation(k, r), Advances(rsv[k], r), UNCHANGED calls
        PROVE  Booked /\ UNCHANGED calls
    BY <1>1, <2>2 DEF Booked, SetReservation
  <2>3. CASE InsertReservation(p)
    <3>1. NewReservation \in Reservation /\ NewReservation.state = "reserved_not_dispatched"
      BY <1>1, WrittenReservation DEF NewReservation
    <3>2. CASE UNCHANGED ledger
      BY <1>2, <2>3, <3>2 DEF InsertReservation, ledger, others
    <3>3. CASE ~UNCHANGED ledger
      BY <2>2, <2>3, <3>1, <3>3 DEF InsertReservation, others, Advances
    <3>4. QED
      BY <3>2, <3>3
  <2>4. CASE SettleCommit(p)
    <3> DEFINE r == Settled(rsv[k], worker[p].seen, SavedRef(worker[p].why), CallLimit)
    <3>1. worker[p].seen \in Reservation
      BY MemoryOfInv DEF Memory
    <3>2. worker[p].why \in {"response", "replay", "abort", "rejection"}
      BY <2>4, MemoryOfInv DEF SettleCommit, At, Reasoned
    <3>3. SavedRef(worker[p].why) \in Results \cup {NoResult}
      BY <3>2, SavedResultsAssumption DEF SavedRef
    <3>4. r \in Reservation
      BY <1>1, <3>1, <3>3, WrittenReservation
    <3>5. r.state = "settled"
      BY <1>1 DEF Settled, Reservation
    <3>6. CASE UNCHANGED ledger
      BY <1>2, <2>4, <3>6 DEF SettleCommit, ledger, others
    <3>7. CASE ~UNCHANGED ledger
      <4>1. SettleCommits(rsv[k]) /\ SetReservation(k, r) /\ UNCHANGED calls
        BY <2>4, <3>7 DEF SettleCommit, others
      <4> HIDE DEF r, k
      <4>2. Advances(rsv[k], r)
        BY <3>5, <4>1 DEF Advances, SettleCommits
      <4>3. QED
        BY <2>2, <3>4, <4>1, <4>2
    <3>8. QED
      BY <3>6, <3>7
  <2>5. CASE MarkUnknown(p)
    <3>1. MarkedUnknown(rsv[k]) \in Reservation /\ MarkedUnknown(rsv[k]).state = "execution_outcome_unknown"
      BY <1>1, WrittenReservation DEF MarkedUnknown, Reservation
    <3>2. CASE UNCHANGED ledger
      BY <1>2, <2>5, <3>2 DEF MarkUnknown, ledger, others
    <3>3. CASE ~UNCHANGED ledger
      BY <2>2, <2>5, <3>1, <3>3 DEF MarkUnknown, MayMarkUnknown, others, Advances
    <3>4. QED
      BY <3>2, <3>3
  <2>6. QED
    BY <1>5, <2>1, <2>3, <2>4, <2>5 DEF Buys
<1>6. CASE \/ ContextUnavailable(p) \/ SynthesisFails(p) \/ ChooseReuse(p) \/ ChoosePurchase(p) \/ PlaceArticle(p)
           \/ ContinueArticle(p) \/ HoldWork(p) \/ SavePacket(p) \/ RecordFails(p) \/ CommitHandoff(p)
  BY <1>2, <1>6 DEF ContextUnavailable, SynthesisFails, ChooseReuse, ChoosePurchase, PlaceArticle, ContinueArticle,
     HoldWork, SavePacket, RecordFails, CommitHandoff, LastWrite, store, ledger, others
<1>7. QED
  BY <1>3, <1>4, <1>5, <1>6 DEF Synthesizes

LEMMA OnlyIntends ==
    ASSUME NEW p \in Workers, At(p, "intend"), Retrieves(p) \/ Synthesizes(p) PROVE Intend(p)
<1>1. ~Retrieves(p)
  BY DEF At, Retrieves, PreflightStops, PreflightPasses, RefuseStage, ReuseCheckpoint, BeginAttempt,
     CommitCheckpoint, RetrievalFails, Advance, HoldRetrieval
<1>2. ~FollowsUp(p)
  BY DEF At, FollowsUp, FollowUp, Admit, Pledge, Weigh, Doubt, Judge, Gather, Resolve
<1>3. Buys(p) => Intend(p)
  BY DEF At, Buys, ListReservations, InsertReservation, Decide, CheckOwnership, Send, AnswerArrives, AnswerRejected,
     CallAborted, CallFails, SettleReads, SettleCommit, StoreFails, MarkUnknown
<1>4. QED
  BY <1>1, <1>2, <1>3 DEF At, Synthesizes, ContextUnavailable, SynthesisFails, ChooseReuse, ChoosePurchase,
     PlaceArticle, ContinueArticle, HoldWork, SavePacket, RecordFails, CommitHandoff

LEMMA SilentStep ==
    ASSUME RowInv, NEW p \in Workers, WorkerStep(p) \/ Heartbeat(p) \/ Crash(p), ~Intend(p), ~Send(p)
    PROVE  NoNewSender
<1>1. CASE UNCHANGED worker
  BY <1>1 DEF NoNewSender
<1>2. CASE \E m \in Memory : Becomes(p, m) /\ m.pc # "send"
  BY <1>2 DEF NoNewSender, Becomes, RowInv, TypeOK
<1>3. CASE Crash(p)
  BY <1>2, <1>3, IdleMemory, WorksAssumption DEF Crash, Ends
<1>4. CASE Heartbeat(p)
  BY <1>1, <1>4 DEF Heartbeat
<1>5. CASE WorkerStep(p)
  <2>1. worker[p].pc # "intend"
    BY <1>5, OnlyIntends DEF WorkerStep, At
  <2>2. QED
    BY <1>1, <1>2, <1>5, <2>1, WorkersStep DEF Sound, Turns, Turn
<1>6. QED
  BY <1>3, <1>4, <1>5

LEMMA IntendStep ==
    ASSUME RowInv, PaidInv, NEW p \in Workers, Intend(p)
    PROVE  PaidInv' /\ [Paid!Next]_(Paid!vars)
<1> DEFINE k == Purchase(p)
<1>1. k \in Purchases /\ rsv[k] \in Reservation /\ worker[p] \in Memory /\ UNCHANGED calls
  BY MemoryOfInv DEF Intend, others
<1>2. CASE Becomes(p, Refused(p)) /\ UNCHANGED ledger
  <2>1. Refused(p).pc # "send"
    BY <1>1, RefusedMemory DEF Memory
  <2>2. NoNewSender
    BY <1>2, <2>1 DEF NoNewSender, Becomes, RowInv, TypeOK
  <2>3. Booked
    BY <1>2, NothingBooked DEF ledger
  <2>4. QED
    BY <1>1, <2>2, <2>3, BookedStep
<1>3. CASE MayIntend(rsv[k], worker[p].seen.epoch) /\ SetReservation(k, Intended(rsv[k])) /\ Goes(p, "send")
  <2> DEFINE r == Intended(rsv[k])
  <2>1. r \in Reservation /\ r.state = "dispatch_intent" /\ rsv[k].state = "reserved_not_dispatched"
    BY <1>1, <1>3, WrittenReservation DEF Intended, MayIntend, Reservation
  <2>2. rsv' = [rsv EXCEPT ![k] = r]
    BY <1>3 DEF SetReservation
  <2>3. ~Gone(k) /\ calls[k] = 0
    BY <1>1, <2>1 DEF Gone, PaidInv
  <2> HIDE DEF r
  <2>4. \A j \in Purchases : rsv'[j] = IF j = k THEN r ELSE rsv[j]
    BY <2>2, StoreTypes
  <2>5. \A j \in Purchases : Gone(j) => Gone(j)'
    BY <2>1, <2>4 DEF Gone
  <2>6. \A q \in Workers : /\ worker'[q].pc = IF q = p THEN "send" ELSE worker[q].pc
                           /\ Purchase(q)' = Purchase(q) /\ Purchase(q) \in Purchases
    <3>1. \A q \in Workers : worker'[q] = IF q = p THEN [worker[p] EXCEPT !.pc = "send"] ELSE worker[q]
      BY <1>3 DEF Goes, RowInv, TypeOK
    <3>2. [worker[p] EXCEPT !.pc = "send"].pc = "send"
          /\ [worker[p] EXCEPT !.pc = "send"].work = worker[p].work
          /\ [worker[p] EXCEPT !.pc = "send"].buying = worker[p].buying
      BY <1>1 DEF Memory
    <3>3. QED
      BY <3>1, <3>2, MemoryOfInv DEF Purchase
  <2>7. \A q \in Workers : q # p /\ worker[q].pc = "send" => Purchase(q) # k
    BY <2>3 DEF PaidInv, At
  <2> HIDE DEF k
  <2>8. PaidInv'
    <3>1. \A j \in Purchases : calls'[j] \in {0, 1} /\ (calls'[j] = 1 => Gone(j)')
      BY <1>1, <2>5 DEF PaidInv
    <3>2. \A q \in Workers : worker'[q].pc = "send" => Gone(Purchase(q))' /\ calls'[Purchase(q)'] = 0
      <4> SUFFICES ASSUME NEW q \in Workers, worker'[q].pc = "send"
                   PROVE  Gone(Purchase(q))' /\ calls'[Purchase(q)'] = 0
        OBVIOUS
      <4>1. CASE q = p
        <5>1. Purchase(q)' = k
          BY <2>6, <4>1 DEF k
        <5>2. rsv'[Purchase(q)'].state = "dispatch_intent"
          BY <1>1, <2>1, <2>4, <5>1
        <5>3. QED
          BY <1>1, <2>3, <5>1, <5>2 DEF Gone
      <4>2. CASE q # p
        <5>1. worker[q].pc = "send" /\ Purchase(q)' = Purchase(q) /\ Purchase(q) \in Purchases
          BY <2>6, <4>2
        <5>2. Gone(Purchase(q)) /\ calls[Purchase(q)] = 0
          BY <5>1 DEF PaidInv, At
        <5>3. rsv'[Purchase(q)].state \in {"dispatch_intent", "execution_outcome_unknown", "settled"}
          BY <2>5, <5>1, <5>2 DEF Gone
        <5>4. QED
          BY <1>1, <5>1, <5>2, <5>3 DEF Gone
      <4>3. QED
        BY <4>1, <4>2
    <3>3. \A q, o \in Workers :
             worker'[q].pc = "send" /\ worker'[o].pc = "send" /\ Purchase(q)' = Purchase(o)' => q = o
      BY <2>6, <2>7 DEF PaidInv, At, k
    <3>4. QED
      BY <3>1, <3>2, <3>3 DEF PaidInv, At
  <2>9. Booked
    BY <1>1, <2>1, <2>2 DEF Booked, Advances
  <2>10. QED
    BY <1>1, <2>8, <2>9, BookedPhase
<1>4. QED
  BY <1>2, <1>3 DEF Intend

LEMMA SendStep ==
    ASSUME RowInv, PaidInv, NEW p \in Workers, Send(p)
    PROVE  PaidInv' /\ [Paid!Next]_(Paid!vars)
<1> DEFINE k == Purchase(p)
<1>1. k \in Purchases /\ worker[p] \in Memory /\ UNCHANGED rsv /\ calls \in [Purchases -> Nat]
  BY MemoryOfInv DEF Send, store, ledger, RowInv, TypeOK
<1>2. Gone(k) /\ calls[k] = 0
  BY DEF Send, PaidInv
<1>3. calls' = [calls EXCEPT ![k] = 1] /\ calls'[k] = 1
  BY <1>1, <1>2 DEF Send
<1>4. \A q \in Workers : /\ worker'[q].pc = IF q = p THEN "await" ELSE worker[q].pc
                         /\ Purchase(q)' = Purchase(q) /\ Purchase(q) \in Purchases
  <2>1. \A q \in Workers : worker'[q] = IF q = p THEN [worker[p] EXCEPT !.pc = "await"] ELSE worker[q]
    BY DEF Send, Goes, RowInv, TypeOK
  <2>2. [worker[p] EXCEPT !.pc = "await"].pc = "await"
        /\ [worker[p] EXCEPT !.pc = "await"].work = worker[p].work
        /\ [worker[p] EXCEPT !.pc = "await"].buying = worker[p].buying
    BY <1>1 DEF Memory
  <2>3. QED
    BY <2>1, <2>2, MemoryOfInv DEF Purchase
<1>5. \A q \in Workers : q # p /\ worker[q].pc = "send" => Purchase(q) # k
  BY DEF PaidInv, At, Send
<1>6. PaidInv'
  <2>1. \A j \in Purchases : calls'[j] \in {0, 1} /\ (calls'[j] = 1 => Gone(j)')
    BY <1>1, <1>2, <1>3 DEF PaidInv, Gone
  <2>2. ASSUME NEW q \in Workers, worker'[q].pc = "send"
        PROVE  q # p /\ worker[q].pc = "send" /\ Gone(Purchase(q))' /\ calls'[Purchase(q)'] = 0
    <3>1. q # p /\ worker[q].pc = "send" /\ Purchase(q)' = Purchase(q) /\ Purchase(q) \in Purchases
      BY <1>4, <2>2
    <3>2. Purchase(q) # k /\ Gone(Purchase(q)) /\ calls[Purchase(q)] = 0
      BY <1>5, <3>1 DEF PaidInv, At
    <3>3. QED
      BY <1>1, <1>3, <3>1, <3>2 DEF Gone
  <2>3. QED
    BY <1>4, <2>1, <2>2 DEF PaidInv, At
<1>7. Phase[k] \in {"committed", "charged"} /\ UNCHANGED Phase
  <2>1. rsv[k] \in Reservation
    BY <1>1, StoreTypes
  <2>2. PhaseOf(rsv[k]) \in {"committed", "charged"}
    BY <1>2, <2>1, PhasesOfRow DEF Gone
  <2>3. QED
    BY <1>1, <2>2 DEF Phase
<1> HIDE DEF k
<1>8. QED
  BY <1>1, <1>2, <1>3, <1>6, <1>7 DEF Paid!Next, Paid!Call

LEMMA PaidInit == Init => PaidInv /\ Paid!Init
  BY IdleMemory, WorksAssumption DEF Init, PaidInv, Paid!Init, Phase, PhaseOf, PhaseName, Absent, At

LEMMA PaidStep == RowInv /\ PaidInv /\ [Next]_vars => PaidInv' /\ [Paid!Next]_(Paid!vars)
<1> SUFFICES ASSUME RowInv, PaidInv, [Next]_vars PROVE PaidInv' /\ [Paid!Next]_(Paid!vars)
  OBVIOUS
<1>1. CASE UNCHANGED <<worker, rsv, calls>>
  BY <1>1, NothingBooked, BookedStep DEF NoNewSender
<1>2. ASSUME NEW p \in Workers, NEW w \in Works, Claim(p, w) PROVE PaidInv' /\ [Paid!Next]_(Paid!vars)
  <2>1. NoNewSender
    BY <1>2 DEF Claim, NoNewSender, Blank, RowInv, TypeOK
  <2>2. UNCHANGED <<rsv, calls>>
    BY <1>2 DEF Claim, ledger
  <2>3. QED
    BY <2>1, <2>2, NothingBooked, BookedStep
<1>3. ASSUME NEW p \in Workers, WorkerStep(p) \/ Heartbeat(p) \/ Crash(p)
      PROVE  PaidInv' /\ [Paid!Next]_(Paid!vars)
  <2>1. CASE ~Intend(p) /\ ~Send(p)
    BY <1>3, <2>1, LedgerOfStep, SilentStep, BookedStep DEF WorkerStep
  <2>2. QED
    BY <2>1, IntendStep, SendStep
<1>4. ASSUME NEW k \in Purchases, SweepSettles(k) PROVE PaidInv' /\ [Paid!Next]_(Paid!vars)
  <2>1. UNCHANGED <<worker, calls>> /\ NoNewSender
    BY <1>4 DEF SweepSettles, NoNewSender
  <2>2. CASE UNCHANGED rsv
    BY <1>1, <2>1, <2>2
  <2>3. CASE ~UNCHANGED rsv
    <3> DEFINE r == Settled(rsv[k], rsv[k], NoResult, CallLimit)
    <3>1. rsv[k] \in Reservation /\ NoResult \in Results \cup {NoResult}
      BY StoreTypes
    <3>2. r \in Reservation /\ r.state = "settled"
      BY <3>1, WrittenReservation DEF Settled, Reservation
    <3>3. /\ rsv' = [rsv EXCEPT ![k] = r]
          /\ rsv[k].state \in {"dispatch_intent", "execution_outcome_unknown"}
      BY <1>4, <2>3 DEF SweepSettles, SetReservation, MaySettle, ledger
    <3> HIDE DEF r
    <3>4. Booked
      BY <3>2, <3>3 DEF Booked, Advances
    <3>5. QED
      BY <2>1, <3>4, BookedStep
  <2>4. QED
    BY <2>2, <2>3
<1>5. CASE Recover \/ SweepStarts \/ (\E w \in Works : SweepMoves(w) \/ Requeue(w)) \/ Tick
  BY <1>1, <1>5 DEF Recover, SweepStarts, SweepMoves, Requeue, Tick, store, ledger, others
<1>6. CASE UNCHANGED vars
  BY <1>1, <1>6 DEF vars, store, ledger, others
<1>7. QED
  BY <1>2, <1>3, <1>4, <1>5, <1>6 DEF Next

LEMMA PaidInvariant == Spec => []PaidInv
<1>1. Init => PaidInv
  BY PaidInit
<1>2. RowInv /\ PaidInv /\ [Next]_vars => PaidInv'
  BY PaidStep
<1>3. QED
  BY <1>1, <1>2, RowInvariant, PTL DEF Spec

(* The chain of purchases implements PaidOnce: whatever crashes, is        *)
(* recovered, swept or requeued, a purchase is committed before it is      *)
(* called and called at most once for a root.                              *)
THEOREM ResearchPaysOnce == Spec => PaysOnce
<1>1. Init => Paid!Init
  BY PaidInit
<1>2. RowInv /\ PaidInv /\ [Next]_vars => [Paid!Next]_(Paid!vars)
  BY PaidStep
<1>3. QED
  BY <1>1, <1>2, RowInvariant, PaidInvariant, PTL DEF Spec, PaysOnce, Paid!Spec
-----------------------------------------------------------------------------
(* The chain of purchases.  What is saved for a work, its calls, the       *)
(* states of its reservations and its flow are taken as d, c, s and f, so  *)
(* that what is said of them can be said before and after a step.          *)
FollowedUp == {"exhausted", "followup"}
FollowPc ==
    {"followup", "admit", "consent", "pledge", "weigh", "doubt", "judge", "regather", "gather", "resolve"}

Calls(w) == [a \in Allowances |-> calls[<<w, a>>]]
States(w) == [a \in Allowances |-> rsv[<<w, a>>].state]

Closed(a, c, s) == c[a] = 1 /\ s[a] = "settled"

(* What a purchase may rest on before it is made.                          *)
Prior(a, d, c, s, f) ==
    /\ a = "proposal" => Closed("placement", c, s)
    /\ a = "primary" /\ f \in Articles => Closed("placement", c, s)
    /\ a = "primary" /\ f = "proposed" => Closed("proposal", c, s)
    /\ a \in {"value", "followup"} => Closed("primary", c, s) /\ d.baseline = "bought" /\ f \in FollowedUp
    /\ a = "followup" => Closed("value", c, s) /\ d.decision = "worthwhile" /\ d.captures = "some"

(* What a packet rests on.                                                 *)
Backed(packet, c, s, f) ==
    /\ packet \in {"bought", "combined"} => Closed("primary", c, s)
    /\ packet = "combined" => Closed("value", c, s) /\ Closed("followup", c, s)
    /\ f \in Articles => Closed("placement", c, s)
    /\ f = "proposed" => Closed("proposal", c, s)

(* A packet that may be handed off: the work's record, which no other      *)
(* worker will replace.                                                    *)
Handable(packet, d, f) ==
    /\ packet = IF d.final = "none" THEN d.baseline ELSE d.final
    /\ d.final = "none" => packet = "reused" \/ f \notin FollowedUp

WorkFits(d, c, s, f) ==
    /\ \A a \in Allowances : c[a] = 1 => Prior(a, d, c, s, f)
    /\ d.baseline = "bought" => c["primary"] = 1
    /\ d.baseline = "reused" => f \notin Articles
    /\ \A a \in d.results : c[a] = 1
    /\ d.decision = "worthwhile" => Closed("value", c, s)
    /\ d.decision # "none" => d.intent
    /\ d.final # "none" => d.baseline = "bought" /\ f \in FollowedUp /\ Backed(d.final, c, s, f)
    /\ d.packet # "none" => Handable(d.packet, d, f) /\ Backed(d.packet, c, s, f)

(* A worker's memory and what is saved for its work.                       *)
Obtained(a, d) == IF a = "primary" THEN d.baseline = "bought" ELSE a \in d.results

BuyerFits(m, d, c, s, f) ==
    /\ Prior(m.buying, d, c, s, f)
    /\ m.buying = "primary" /\ m.packet = "bought" => d.baseline = "bought"
    /\ m.buying \in {"value", "followup"} => m.packet = "bought"
    /\ m.pc = "await" => c[m.buying] = 1
    /\ m.pc \in {"settle", "commit"} /\ m.why \in {"response", "replay"} => Obtained(m.buying, d)
    /\ m.pc = "decide" /\ m.seen.state = "settled" => s[m.buying] = "settled"

CarrierFits(m, d, c, s, f) ==
    /\ m.pc = "save" =>
          f \notin Articles /\ (m.packet = "bought" => d.baseline = "bought" /\ Closed("primary", c, s))
    /\ m.pc \in FollowPc => d.baseline = "bought" /\ f \in FollowedUp /\ Closed("primary", c, s)
    /\ m.pc \in FollowPc \ {"resolve"} => m.packet = "bought"
    /\ m.pc = "resolve" => m.packet # "none" /\ Backed(m.packet, c, s, f)
    /\ m.pc = "weigh" => Closed("value", c, s)
    /\ m.pc = "handoff" => Handable(m.packet, d, f) /\ Backed(m.packet, c, s, f)

MemoryFits(m, d, c, s, f) ==
    /\ m.pc \in BuyPc => BuyerFits(m, d, c, s, f)
    /\ m.pc = "placed" =>
          m.buying \in {"placement", "proposal"} /\ Closed(m.buying, c, s) /\ Prior(m.buying, d, c, s, f)
    /\ m.pc \in CarryPc => CarrierFits(m, d, c, s, f)

(* The question of a follow-up is asked by one worker, and once.           *)
Valuing(m) == m.pc \in {"weigh", "doubt"} \/ (m.pc \in BuyPc /\ m.buying = "value")

ChainInv ==
    /\ \A w \in Works : WorkFits(disk[w], Calls(w), States(w), flow[w])
    /\ \A p \in Workers :
          LET w == worker[p].work
          IN  /\ MemoryFits(worker[p], disk[w], Calls(w), States(w), flow[w])
              /\ Valuing(worker[p]) => disk[w].intent /\ disk[w].decision = "none"
    /\ \A p, q \in Workers :
          Valuing(worker[p]) /\ Valuing(worker[q]) /\ worker[p].work = worker[q].work => p = q

(* What any step may do to what is saved for a work.                       *)
Grows(d, c, s, f, dd, cc, ss) ==
    /\ \A a \in Allowances : (c[a] = 1 => cc[a] = 1) /\ (s[a] = "settled" => ss[a] = "settled")
    /\ dd.baseline = d.baseline \/ d.baseline = "none"
    /\ dd.final = d.final \/ (d.final = "none" /\ d.baseline = "bought" /\ f \in FollowedUp)
    /\ d.results \subseteq dd.results
    /\ dd.decision = d.decision \/ d.decision = "none"
    /\ d.captures = "some" => dd.captures = "some"
    /\ d.intent => dd.intent

LEMMA ClosedGrows ==
    ASSUME NEW d, NEW c, NEW s, NEW f, NEW dd, NEW cc, NEW ss, Grows(d, c, s, f, dd, cc, ss), NEW a \in Allowances,
           Closed(a, c, s)
    PROVE  Closed(a, cc, ss)
  BY DEF Grows, Closed

LEMMA PriorGrows ==
    ASSUME NEW d, NEW c, NEW s, NEW f, NEW dd, NEW cc, NEW ss, Grows(d, c, s, f, dd, cc, ss), NEW a \in Allowances,
           Prior(a, d, c, s, f)
    PROVE  Prior(a, dd, cc, ss, f)
<1>1. \A b \in Allowances : Closed(b, c, s) => Closed(b, cc, ss)
  BY ClosedGrows
<1>2. {"placement", "proposal", "primary", "value", "followup"} \subseteq Allowances
  BY DEF Allowances
<1>3. /\ d.baseline = "bought" => dd.baseline = "bought"
      /\ d.decision = "worthwhile" => dd.decision = "worthwhile"
      /\ d.captures = "some" => dd.captures = "some"
  BY DEF Grows
<1>4. QED
  BY <1>1, <1>2, <1>3 DEF Prior

LEMMA BackedGrows ==
    ASSUME NEW d, NEW c, NEW s, NEW f, NEW dd, NEW cc, NEW ss, Grows(d, c, s, f, dd, cc, ss), NEW packet,
           Backed(packet, c, s, f)
    PROVE  Backed(packet, cc, ss, f)
<1>1. \A b \in Allowances : Closed(b, c, s) => Closed(b, cc, ss)
  BY ClosedGrows
<1>2. {"placement", "proposal", "primary", "value", "followup"} \subseteq Allowances
  BY DEF Allowances
<1>3. QED
  BY <1>1, <1>2 DEF Backed

LEMMA HandableGrows ==
    ASSUME NEW d, NEW c, NEW s, NEW f, NEW dd, NEW cc, NEW ss, Grows(d, c, s, f, dd, cc, ss), NEW packet,
           packet # "none", Handable(packet, d, f)
    PROVE  Handable(packet, dd, f)
  BY DEF Grows, Handable

LEMMA MemoryGrows ==
    ASSUME NEW d, NEW c, NEW s, NEW f, NEW dd, NEW cc, NEW ss, Grows(d, c, s, f, dd, cc, ss), NEW m \in Memory,
           Reasoned(m), MemoryFits(m, d, c, s, f)
    PROVE  MemoryFits(m, dd, cc, ss, f)
<1>1. \A a \in Allowances : /\ Closed(a, c, s) => Closed(a, cc, ss)
                            /\ Prior(a, d, c, s, f) => Prior(a, dd, cc, ss, f)
                            /\ c[a] = 1 => cc[a] = 1
                            /\ s[a] = "settled" => ss[a] = "settled"
  BY ClosedGrows, PriorGrows DEF Grows
<1>2. m.buying \in Allowances /\ {"primary", "value"} \subseteq Allowances
  BY DEF Memory, Allowances
<1>3. /\ d.baseline = "bought" => dd.baseline = "bought"
      /\ d.results \subseteq dd.results
  BY DEF Grows
<1>4. Backed(m.packet, c, s, f) => Backed(m.packet, cc, ss, f)
  BY BackedGrows
<1>5. m.packet # "none" /\ Handable(m.packet, d, f) => Handable(m.packet, dd, f)
  BY HandableGrows
<1>6. m.pc = "handoff" => m.packet # "none"
  BY DEF Reasoned, CarryPc
<1>7. m.pc \in BuyPc => BuyerFits(m, dd, cc, ss, f)
  BY <1>1, <1>2, <1>3 DEF MemoryFits, BuyerFits, Obtained
<1>8. m.pc \in CarryPc => CarrierFits(m, dd, cc, ss, f)
  BY <1>1, <1>2, <1>3, <1>4, <1>5, <1>6 DEF MemoryFits, CarrierFits
<1>9. QED
  BY <1>1, <1>2, <1>7, <1>8 DEF MemoryFits

LEMMA GrowsNot == \A d, c, s, f : Grows(d, c, s, f, d, c, s)
  BY DEF Grows

(* One worker's step on its work.                                          *)
LEMMA ChainStep ==
    ASSUME RowInv, ChainInv, NEW p \in Workers, NEW w \in Works, worker[p].work = w,
           NEW m \in Memory, Becomes(p, m), m.pc = "idle" \/ m.work = w, UNCHANGED flow,
           \A v \in Works \ {w} : disk'[v] = disk[v] /\ Calls(v)' = Calls(v) /\ States(v)' = States(v),
           Grows(disk[w], Calls(w), States(w), flow[w], disk'[w], Calls(w)', States(w)'),
           WorkFits(disk'[w], Calls(w)', States(w)', flow[w]),
           m.pc # "idle" => MemoryFits(m, disk'[w], Calls(w)', States(w)', flow[w]),
           Valuing(m) => /\ disk'[w].intent /\ disk'[w].decision = "none"
                         /\ Valuing(worker[p]) \/ ~disk[w].intent,
           disk'[w].decision # disk[w].decision => Valuing(worker[p])
    PROVE  ChainInv'
<1>1. \A q \in Workers : worker'[q] = IF q = p THEN m ELSE worker[q]
  BY DEF Becomes, RowInv, TypeOK
<1>2. \A v \in Works : WorkFits(disk'[v], Calls(v)', States(v)', flow'[v])
  BY DEF ChainInv
<1>3. ASSUME NEW q \in Workers, q # p, NEW v \in Works, worker[q].work = v
      PROVE  /\ MemoryFits(worker[q], disk'[v], Calls(v)', States(v)', flow[v])
             /\ Valuing(worker[q]) => disk'[v].intent /\ disk'[v].decision = "none"
  <2>1. /\ MemoryFits(worker[q], disk[v], Calls(v), States(v), flow[v])
        /\ Valuing(worker[q]) => disk[v].intent /\ disk[v].decision = "none"
    BY <1>3 DEF ChainInv
  <2>2. CASE v # w
    BY <2>1, <2>2
  <2>3. CASE v = w
    <3>1. worker[q] \in Memory /\ Reasoned(worker[q])
      BY MemoryOfInv
    <3>2. MemoryFits(worker[q], disk'[v], Calls(v)', States(v)', flow[v])
      BY <2>1, <2>3, <3>1, MemoryGrows
    <3>3. Valuing(worker[q]) => disk'[w].decision = disk[w].decision
      BY <1>3, <2>3 DEF ChainInv
    <3>4. disk[w].intent => disk'[w].intent
      BY DEF Grows
    <3>5. QED
      BY <2>1, <2>3, <3>2, <3>3, <3>4
  <2>4. QED
    BY <2>2, <2>3
<1>4. ASSUME NEW v \in Works, m.work = v
      PROVE  /\ MemoryFits(m, disk'[v], Calls(v)', States(v)', flow[v])
             /\ Valuing(m) => disk'[v].intent /\ disk'[v].decision = "none"
  <2>1. CASE m.pc = "idle"
    BY <2>1 DEF MemoryFits, Valuing, BuyPc, CarryPc
  <2>2. CASE m.pc # "idle"
    BY <1>4, <2>2
  <2>3. QED
    BY <2>1, <2>2
<1>5. ASSUME NEW q \in Workers
      PROVE  /\ MemoryFits(worker'[q], disk'[worker'[q].work], Calls(worker[q].work)', States(worker[q].work)',
                           flow'[worker'[q].work])
             /\ Valuing(worker'[q]) => disk'[worker'[q].work].intent /\ disk'[worker'[q].work].decision = "none"
  <2>1. worker[q].work \in Works /\ m.work \in Works
    BY MemoryOfInv DEF Memory
  <2>2. CASE q = p
    <3>1. PICK v \in Works : v = m.work
      BY <2>1
    <3>2. worker'[q].work = v /\ worker'[q] = m
      BY <1>1, <2>2, <3>1
    <3>3. Calls(worker[q].work)' = Calls(v)' /\ States(worker[q].work)' = States(v)'
      BY <3>2 DEF Calls, States
    <3>4. QED
      BY <1>4, <3>1, <3>2, <3>3
  <2>3. CASE q # p
    <3>1. PICK v \in Works : v = worker[q].work
      BY <2>1
    <3>2. worker'[q].work = v /\ worker'[q] = worker[q]
      BY <1>1, <2>3, <3>1
    <3>3. Calls(worker[q].work)' = Calls(v)' /\ States(worker[q].work)' = States(v)'
      BY <3>2 DEF Calls, States
    <3>4. QED
      BY <1>3, <2>3, <3>1, <3>2, <3>3
  <2>4. QED
    BY <2>2, <2>3
<1>6. ASSUME NEW q \in Workers, NEW o \in Workers, Valuing(worker'[q]), Valuing(worker'[o]),
             worker'[q].work = worker'[o].work
      PROVE  q = o
  <2>1. CASE q # p /\ o # p
    BY <1>1, <1>6, <2>1 DEF ChainInv
  <2>2. ASSUME NEW n \in Workers, n # p, Valuing(worker[n]), Valuing(m), worker[n].work = m.work PROVE FALSE
    <3>1. m.pc # "idle"
      BY <2>2 DEF Valuing, BuyPc
    <3>2. worker[n].work = w /\ disk[w].intent
      BY <2>2, <3>1 DEF ChainInv
    <3>3. Valuing(worker[p])
      BY <2>2, <3>2
    <3>4. QED
      BY <2>2, <3>2, <3>3 DEF ChainInv
  <2>3. QED
    BY <1>1, <1>6, <2>1, <2>2
<1>7. QED
  BY <1>2, <1>5, <1>6 DEF ChainInv

(* A worker that only moves on, or gives its work up.                      *)
LEMMA ChainStay ==
    ASSUME RowInv, ChainInv, NEW p \in Workers, NEW w \in Works, worker[p].work = w,
           NEW m \in Memory, Becomes(p, m), m.pc = "idle" \/ m.work = w, UNCHANGED <<disk, rsv, calls, flow>>,
           m.pc # "idle" => MemoryFits(m, disk[w], Calls(w), States(w), flow[w]),
           Valuing(m) => Valuing(worker[p])
    PROVE  ChainInv'
<1>1. \A v \in Works : disk'[v] = disk[v] /\ Calls(v)' = Calls(v) /\ States(v)' = States(v)
  BY DEF Calls, States
<1>2. WorkFits(disk[w], Calls(w), States(w), flow[w])
      /\ (Valuing(worker[p]) => disk[w].intent /\ disk[w].decision = "none")
  BY DEF ChainInv
<1>3. Grows(disk[w], Calls(w), States(w), flow[w], disk[w], Calls(w), States(w))
  BY GrowsNot
<1>4. /\ Grows(disk[w], Calls(w), States(w), flow[w], disk'[w], Calls(w)', States(w)')
      /\ WorkFits(disk'[w], Calls(w)', States(w)', flow[w])
      /\ m.pc # "idle" => MemoryFits(m, disk'[w], Calls(w)', States(w)', flow[w])
  BY <1>1, <1>2, <1>3
<1>5. QED
  BY <1>1, <1>2, <1>4, ChainStep

(* One record of its work is saved.                                        *)
LEMMA ChainSaves ==
    ASSUME RowInv, ChainInv, NEW p \in Workers, NEW w \in Works, worker[p].work = w,
           NEW m \in Memory, Becomes(p, m), m.pc = "idle" \/ m.work = w, UNCHANGED <<rsv, calls, flow>>,
           NEW d, disk' = [disk EXCEPT ![w] = d],
           Grows(disk[w], Calls(w), States(w), flow[w], d, Calls(w), States(w)),
           WorkFits(d, Calls(w), States(w), flow[w]),
           m.pc # "idle" => MemoryFits(m, d, Calls(w), States(w), flow[w]),
           Valuing(m) => d.intent /\ d.decision = "none" /\ (Valuing(worker[p]) \/ ~disk[w].intent),
           d.decision # disk[w].decision => Valuing(worker[p])
    PROVE  ChainInv'
<1>1. \A v \in Works : Calls(v)' = Calls(v) /\ States(v)' = States(v)
  BY DEF Calls, States
<1>2. disk'[w] = d /\ \A v \in Works \ {w} : disk'[v] = disk[v]
  BY DEF RowInv, TypeOK
<1>3. /\ Grows(disk[w], Calls(w), States(w), flow[w], disk'[w], Calls(w)', States(w)')
      /\ WorkFits(disk'[w], Calls(w)', States(w)', flow[w])
      /\ m.pc # "idle" => MemoryFits(m, disk'[w], Calls(w)', States(w)', flow[w])
  BY <1>1, <1>2
<1>4. QED
  BY <1>1, <1>2, <1>3, ChainStep

(* What is saved for a work stays in order when each new record is.        *)
LEMMA WorkGrows ==
    ASSUME NEW d, NEW c, NEW s, NEW f, NEW dd, NEW cc, NEW ss, Grows(d, c, s, f, dd, cc, ss),
           WorkFits(d, c, s, f),
           \A a \in Allowances : cc[a] = c[a] \/ Prior(a, dd, cc, ss, f),
           \/ dd.baseline = d.baseline
           \/ (dd.baseline = "bought" => cc["primary"] = 1) /\ (dd.baseline = "reused" => f \notin Articles),
           d.results \subseteq Allowances, \A a \in dd.results : a \in d.results \/ cc[a] = 1,
           dd.decision = d.decision \/ (dd.intent /\ (dd.decision = "worthwhile" => Closed("value", cc, ss))),
           dd.final = d.final \/ Backed(dd.final, cc, ss, f),
           dd.packet = d.packet \/ (Handable(dd.packet, dd, f) /\ Backed(dd.packet, cc, ss, f))
    PROVE  WorkFits(dd, cc, ss, f)
<1>1. \A a \in Allowances : /\ Closed(a, c, s) => Closed(a, cc, ss)
                            /\ Prior(a, d, c, s, f) => Prior(a, dd, cc, ss, f)
                            /\ c[a] = 1 => cc[a] = 1
  BY ClosedGrows, PriorGrows DEF Grows
<1>2. {"primary", "value"} \subseteq Allowances
  BY DEF Allowances
<1>3. \A a \in Allowances : cc[a] = 1 => Prior(a, dd, cc, ss, f)
  BY <1>1 DEF WorkFits
<1>4. (dd.baseline = "bought" => cc["primary"] = 1) /\ (dd.baseline = "reused" => f \notin Articles)
  BY <1>1, <1>2 DEF WorkFits
<1>5. \A a \in dd.results : cc[a] = 1
  BY <1>1 DEF WorkFits
<1>6. (dd.decision = "worthwhile" => Closed("value", cc, ss)) /\ (dd.decision # "none" => dd.intent)
  BY <1>1, <1>2 DEF WorkFits, Grows
<1>7. dd.final # "none" => dd.baseline = "bought" /\ f \in FollowedUp /\ Backed(dd.final, cc, ss, f)
  <2>1. CASE dd.final = d.final
    BY <2>1, BackedGrows DEF WorkFits, Grows
  <2>2. CASE dd.final # d.final
    BY <2>2 DEF Grows
  <2>3. QED
    BY <2>1, <2>2
<1>8. dd.packet # "none" => Handable(dd.packet, dd, f) /\ Backed(dd.packet, cc, ss, f)
  <2>1. CASE dd.packet = d.packet
    BY <2>1, BackedGrows, HandableGrows DEF WorkFits
  <2>2. QED
    BY <2>1
<1>9. QED
  BY <1>3, <1>4, <1>5, <1>6, <1>7, <1>8 DEF WorkFits

(* One reservation of its work is written.                                 *)
LEMMA BookGrows ==
    ASSUME RowInv, ChainInv, NEW w \in Works, NEW b \in Allowances, NEW r \in Reservation,
           rsv' = [rsv EXCEPT ![<<w, b>>] = r], Advances(rsv[<<w, b>>], r)
    PROVE  /\ Grows(disk[w], Calls(w), States(w), flow[w], disk[w], Calls(w), States(w)')
           /\ WorkFits(disk[w], Calls(w), States(w)', flow[w])
           /\ \A v \in Works \ {w} : States(v)' = States(v)
           /\ States(w)'[b] = r.state
<1>1. \A a \in Allowances : <<w, a>> \in Purchases /\ rsv'[<<w, a>>] = IF a = b THEN r ELSE rsv[<<w, a>>]
  BY StoreTypes DEF Purchases
<1>2. \A a \in Allowances : States(w)[a] = rsv[<<w, a>>].state /\ States(w)'[a] = rsv'[<<w, a>>].state
  BY DEF States
<1>3. \A a \in Allowances : States(w)[a] = "settled" => States(w)'[a] = "settled"
  <2>1. rsv[<<w, b>>].state = "settled" => r.state = "settled"
    BY DEF Advances
  <2>2. QED
    BY <1>1, <1>2, <2>1
<1>4. \A v \in Works \ {w} : States(v)' = States(v)
  <2>1. \A v \in Works \ {w}, a \in Allowances : rsv'[<<v, a>>] = rsv[<<v, a>>]
    BY StoreTypes DEF Purchases
  <2>2. QED
    BY <2>1 DEF States
<1>5. Grows(disk[w], Calls(w), States(w), flow[w], disk[w], Calls(w), States(w)')
  BY <1>3 DEF Grows
<1>6. disk[w].results \subseteq Allowances
  BY DEF RowInv, TypeOK, Disk
<1>7. WorkFits(disk[w], Calls(w), States(w), flow[w])
  BY DEF ChainInv
<1>8. WorkFits(disk[w], Calls(w), States(w)', flow[w])
  BY <1>5, <1>6, <1>7, WorkGrows
<1>9. QED
  BY <1>1, <1>2, <1>4, <1>5, <1>8

LEMMA ChainBooks ==
    ASSUME RowInv, ChainInv, NEW p \in Workers, NEW w \in Works, worker[p].work = w,
           NEW b \in Allowances, NEW r \in Reservation,
           rsv' = [rsv EXCEPT ![<<w, b>>] = r], Advances(rsv[<<w, b>>], r),
           NEW m \in Memory, Becomes(p, m), m.pc = "idle" \/ m.work = w, UNCHANGED <<disk, calls, flow>>,
           m.pc # "idle" => MemoryFits(m, disk[w], Calls(w), States(w)', flow[w]),
           Valuing(m) => Valuing(worker[p])
    PROVE  ChainInv'
<1>1. \A v \in Works : disk'[v] = disk[v] /\ Calls(v)' = Calls(v)
  BY DEF Calls
<1>2. Valuing(worker[p]) => disk[w].intent /\ disk[w].decision = "none"
  BY DEF ChainInv
<1>3. /\ Grows(disk[w], Calls(w), States(w), flow[w], disk[w], Calls(w), States(w)')
      /\ WorkFits(disk[w], Calls(w), States(w)', flow[w])
      /\ \A v \in Works \ {w} : States(v)' = States(v)
  BY BookGrows
<1>4. /\ Grows(disk[w], Calls(w), States(w), flow[w], disk'[w], Calls(w)', States(w)')
      /\ WorkFits(disk'[w], Calls(w)', States(w)', flow[w])
      /\ m.pc # "idle" => MemoryFits(m, disk'[w], Calls(w)', States(w)', flow[w])
  BY <1>1, <1>3
<1>5. QED
  BY <1>1, <1>2, <1>3, <1>4, ChainStep

(* What a step of nobody's does to the store.                              *)
LEMMA ChainOutside ==
    ASSUME RowInv, ChainInv, UNCHANGED <<worker, disk, calls, flow>>, Booked
    PROVE  ChainInv'
<1>1. PICK k \in Purchases, r \in Reservation : rsv' = [rsv EXCEPT ![k] = r] /\ Advances(rsv[k], r)
  BY DEF Booked
<1>2. PICK w \in Works, b \in Allowances : k = <<w, b>>
  BY DEF Purchases
<1>3. /\ Grows(disk[w], Calls(w), States(w), flow[w], disk[w], Calls(w), States(w)')
      /\ WorkFits(disk[w], Calls(w), States(w)', flow[w])
      /\ \A v \in Works \ {w} : States(v)' = States(v)
  BY <1>1, <1>2, BookGrows
<1>4. \A v \in Works : disk'[v] = disk[v] /\ Calls(v)' = Calls(v)
  BY DEF Calls
<1>5. \A v \in Works : Grows(disk[v], Calls(v), States(v), flow[v], disk[v], Calls(v), States(v)')
  BY <1>3, GrowsNot
<1>6. \A v \in Works : WorkFits(disk'[v], Calls(v)', States(v)', flow'[v])
  BY <1>3, <1>4 DEF ChainInv
<1>7. ASSUME NEW q \in Workers, NEW v \in Works, worker[q].work = v
      PROVE  MemoryFits(worker[q], disk[v], Calls(v), States(v)', flow[v])
  <2>1. worker[q] \in Memory /\ Reasoned(worker[q])
    BY MemoryOfInv
  <2>2. MemoryFits(worker[q], disk[v], Calls(v), States(v), flow[v])
    BY <1>7 DEF ChainInv
  <2>3. QED
    BY <1>5, <2>1, <2>2, MemoryGrows
<1>8. ASSUME NEW q \in Workers
      PROVE  /\ MemoryFits(worker'[q], disk'[worker'[q].work], Calls(worker[q].work)', States(worker[q].work)',
                           flow'[worker'[q].work])
             /\ Valuing(worker'[q]) => disk'[worker'[q].work].intent /\ disk'[worker'[q].work].decision = "none"
  <2>1. PICK v \in Works : v = worker[q].work
    BY MemoryOfInv
  <2>2. Calls(worker[q].work)' = Calls(v) /\ States(worker[q].work)' = States(v)'
    BY <2>1 DEF Calls, States
  <2>3. QED
    BY <1>7, <2>1, <2>2 DEF ChainInv
<1>9. QED
  BY <1>6, <1>8 DEF ChainInv
-----------------------------------------------------------------------------
(* The memories a step of a worker may leave, and what is saved.           *)
LEMMA TrivialFits ==
    ASSUME NEW m, m.pc \notin BuyPc, m.pc \notin CarryPc, m.pc # "placed"
    PROVE  ~Valuing(m) /\ \A d, c, s, f : MemoryFits(m, d, c, s, f)
  BY DEF MemoryFits, Valuing, CarryPc

LEMMA WorkerFits ==
    ASSUME RowInv, ChainInv, NEW p \in Workers
    PROVE  LET w == worker[p].work
           IN  /\ w \in Works
               /\ WorkFits(disk[w], Calls(w), States(w), flow[w])
               /\ MemoryFits(worker[p], disk[w], Calls(w), States(w), flow[w])
               /\ Valuing(worker[p]) => disk[w].intent /\ disk[w].decision = "none"
  BY MemoryOfInv DEF ChainInv

LEMMA BuyerFitsOn ==
    ASSUME RowInv, NEW p \in Workers, worker[p].pc \in BuyPc, NEW d, NEW c, NEW s, NEW f,
           MemoryFits(worker[p], d, c, s, f), NEW m, m.pc \in BuyPc,
           m.buying = worker[p].buying, m.packet = worker[p].packet,
           m.pc = "await" => c[m.buying] = 1,
           m.pc \in {"settle", "commit"} /\ m.why \in {"response", "replay"} => Obtained(m.buying, d),
           m.pc = "decide" /\ m.seen.state = "settled" => s[m.buying] = "settled"
    PROVE  MemoryFits(m, d, c, s, f) /\ (Valuing(m) => Valuing(worker[p]))
<1>1. m.pc \notin CarryPc /\ m.pc # "placed" /\ m.pc \notin {"weigh", "doubt"}
  BY DEF BuyPc, CarryPc
<1>2. QED
  BY <1>1 DEF MemoryFits, BuyerFits, Valuing

LEMMA RefusedFits ==
    ASSUME RowInv, NEW p \in Workers, worker[p].pc \in BuyPc, NEW d, NEW c, NEW s, NEW f,
           MemoryFits(worker[p], d, c, s, f)
    PROVE  MemoryFits(Refused(p), d, c, s, f) /\ (Valuing(Refused(p)) => Valuing(worker[p]))
<1>1. CASE worker[p].buying = "value"
  <2>1. Refused(p).pc = "doubt" /\ Refused(p).packet = worker[p].packet
    BY <1>1, RefusedMemory
  <2>2. CarrierFits(Refused(p), d, c, s, f)
    BY <1>1, <2>1 DEF MemoryFits, BuyerFits, CarrierFits, Prior, FollowPc
  <2>3. QED
    BY <1>1, <2>1, <2>2 DEF MemoryFits, Valuing, BuyPc
<1>2. CASE worker[p].buying # "value"
  <2>1. Refused(p).pc = "hold"
    BY <1>2, RefusedMemory
  <2>2. QED
    BY <2>1, TrivialFits DEF BuyPc, CarryPc
<1>3. QED
  BY <1>1, <1>2

LEMMA OnwardFits ==
    ASSUME RowInv, NEW p \in Workers, worker[p].pc \in BuyPc, NEW d, NEW c, NEW s, NEW f, f = flow[worker[p].work],
           WorkFits(d, c, s, f), MemoryFits(worker[p], d, c, s, f),
           Obtained(worker[p].buying, d), s[worker[p].buying] = "settled"
    PROVE  MemoryFits(Onward(p), d, c, s, f) /\ (Valuing(Onward(p)) => Valuing(worker[p]))
<1> DEFINE a == worker[p].buying
<1> DEFINE m == Onward(p)
<1>1. a \in Allowances /\ BuyerFits(worker[p], d, c, s, f)
  BY MemoryOfInv DEF Memory, MemoryFits
<1>2. Prior(a, d, c, s, f) /\ Closed(a, c, s)
  BY <1>1 DEF BuyerFits, WorkFits, Obtained, Closed
<1>3. m.buying = a /\ m.pc = OnwardPc(worker[p]) /\ m.packet = OnwardPacket(worker[p])
  BY OnwardMemory
<1>4. FollowedUp \cap Articles = {} /\ "proposed" \in Articles
  BY DEF FollowedUp, Articles
<1> HIDE DEF m
<1>5. CASE a \in {"placement", "proposal"}
  <2>1. m.pc = "placed"
    BY <1>3, <1>5 DEF OnwardPc
  <2>2. QED
    BY <1>2, <1>3, <1>5, <2>1 DEF MemoryFits, Valuing, BuyPc, CarryPc, m
<1>6. CASE a = "value"
  <2>1. m.pc = "weigh" /\ m.packet = worker[p].packet
    BY <1>3, <1>6 DEF OnwardPc, OnwardPacket
  <2>2. CarrierFits(m, d, c, s, f)
    BY <1>1, <1>2, <1>6, <2>1 DEF BuyerFits, CarrierFits, Prior, FollowPc
  <2>3. QED
    BY <1>6, <2>1, <2>2 DEF MemoryFits, Valuing, BuyPc, m
<1>7. CASE a = "followup"
  <2>1. m.pc = "resolve" /\ m.packet = "combined"
    BY <1>3, <1>7 DEF OnwardPc, OnwardPacket
  <2>2. Backed("combined", c, s, f)
    BY <1>2, <1>4, <1>7 DEF Prior, Backed
  <2>3. CarrierFits(m, d, c, s, f)
    BY <1>2, <1>7, <2>1, <2>2 DEF CarrierFits, Prior, FollowPc
  <2>4. QED
    BY <2>1, <2>3 DEF MemoryFits, Valuing, BuyPc, m
<1>8. CASE a = "primary"
  <2>1. m.packet = "bought" /\ d.baseline = "bought"
    BY <1>3, <1>8 DEF OnwardPacket, Obtained
  <2>2. CASE f \in Articles
    <3>1. m.pc = "handoff"
      BY <1>3, <1>8, <2>2 DEF OnwardPc
    <3>2. Handable("bought", d, f)
      BY <1>4, <2>1, <2>2 DEF Handable, WorkFits
    <3>3. Backed("bought", c, s, f)
      BY <1>2, <1>8, <2>2 DEF Prior, Backed
    <3>4. CarrierFits(m, d, c, s, f)
      BY <2>1, <3>1, <3>2, <3>3 DEF CarrierFits, FollowPc
    <3>5. QED
      BY <3>1, <3>4 DEF MemoryFits, Valuing, BuyPc, m
  <2>3. CASE f \notin Articles
    <3>1. m.pc = "save"
      BY <1>3, <1>8, <2>3 DEF OnwardPc
    <3>2. CarrierFits(m, d, c, s, f)
      BY <1>2, <1>8, <2>1, <2>3, <3>1 DEF CarrierFits, FollowPc
    <3>3. QED
      BY <3>1, <3>2 DEF MemoryFits, Valuing, BuyPc, m
  <2>4. QED
    BY <2>2, <2>3
<1>9. QED
  BY <1>1, <1>5, <1>6, <1>7, <1>8 DEF Allowances

(* A worker goes on to a purchase.                                         *)
LEMMA ChainSpends ==
    ASSUME RowInv, ChainInv, NEW p \in Workers, NEW w \in Works, worker[p].work = w,
           NEW a \in Allowances, a # "value", NEW packet \in Packets, Spends(p, a, packet),
           UNCHANGED <<disk, rsv, calls, flow>>,
           Prior(a, disk[w], Calls(w), States(w), flow[w]),
           a = "primary" /\ packet = "bought" => disk[w].baseline = "bought",
           a = "followup" => packet = "bought"
    PROVE  ChainInv'
<1>1. PICK m \in Memory :
         /\ Becomes(p, m) /\ m.pc = "list" /\ m.work = worker[p].work
         /\ m.buying = a /\ m.packet = packet /\ m.seen = Absent /\ m.why = "none"
  BY SpendsMemory
<1>2. ~Valuing(m)
  BY <1>1 DEF Valuing
<1>3. MemoryFits(m, disk[w], Calls(w), States(w), flow[w])
  BY <1>1 DEF MemoryFits, BuyerFits, CarryPc
<1>4. QED
  BY <1>1, <1>2, <1>3, ChainStay

LEMMA ChainHeld ==
    ASSUME RowInv, ChainInv, NEW p \in Workers, UNCHANGED <<disk, rsv, calls, flow>>,
           Becomes(p, Held(p)) \/ Ends(p)
    PROVE  ChainInv'
<1>1. PICK m \in Memory : Becomes(p, m) /\ m.pc \in {"hold", "idle"} /\ (m.pc = "idle" \/ m.work = worker[p].work)
  BY HeldMemory, IdleMemory, WorksAssumption DEF Ends
<1>2. m.pc \notin BuyPc /\ m.pc \notin CarryPc /\ m.pc # "placed"
  BY <1>1 DEF BuyPc, CarryPc
<1>3. ~Valuing(m) /\ \A d, c, s, f : MemoryFits(m, d, c, s, f)
  BY <1>2, TrivialFits
<1>4. PICK w \in Works : worker[p].work = w
  BY MemoryOfInv
<1>5. QED
  BY <1>1, <1>3, <1>4, ChainStay

LEMMA ChainRefused ==
    ASSUME RowInv, ChainInv, NEW p \in Workers, worker[p].pc \in BuyPc, UNCHANGED <<disk, rsv, calls, flow>>,
           Becomes(p, Refused(p))
    PROVE  ChainInv'
<1>1. PICK w \in Works : worker[p].work = w
  BY MemoryOfInv
<1>2. MemoryFits(worker[p], disk[w], Calls(w), States(w), flow[w])
  BY <1>1, WorkerFits
<1>3. MemoryFits(Refused(p), disk[w], Calls(w), States(w), flow[w]) /\ (Valuing(Refused(p)) => Valuing(worker[p]))
  BY <1>2, RefusedFits
<1>4. QED
  BY <1>1, <1>3, RefusedMemory, ChainStay

LEMMA ChainOnward ==
    ASSUME RowInv, ChainInv, NEW p \in Workers, worker[p].pc \in BuyPc, UNCHANGED <<disk, rsv, calls, flow>>,
           Becomes(p, Onward(p)), NEW w \in Works, worker[p].work = w,
           Obtained(worker[p].buying, disk[w]), States(w)[worker[p].buying] = "settled"
    PROVE  ChainInv'
<1>1. WorkFits(disk[w], Calls(w), States(w), flow[w]) /\ MemoryFits(worker[p], disk[w], Calls(w), States(w), flow[w])
  BY WorkerFits
<1>2. MemoryFits(Onward(p), disk[w], Calls(w), States(w), flow[w]) /\ (Valuing(Onward(p)) => Valuing(worker[p]))
  BY <1>1, OnwardFits
<1>3. QED
  BY <1>2, OnwardMemory, ChainStay

(* A worker goes on within a purchase.                                     *)
LEMMA ChainBuys ==
    ASSUME RowInv, ChainInv, NEW p \in Workers, worker[p].pc \in BuyPc, UNCHANGED <<disk, rsv, calls, flow>>,
           NEW w \in Works, worker[p].work = w, NEW m \in Memory, Becomes(p, m), m.work = w, m.pc \in BuyPc,
           m.buying = worker[p].buying, m.packet = worker[p].packet, m.pc # "await",
           m.pc \in {"settle", "commit"} /\ m.why \in {"response", "replay"} => Obtained(m.buying, disk[w]),
           m.pc = "decide" /\ m.seen.state = "settled" => States(w)[m.buying] = "settled"
    PROVE  ChainInv'
<1>1. MemoryFits(worker[p], disk[w], Calls(w), States(w), flow[w])
  BY WorkerFits
<1>2. MemoryFits(m, disk[w], Calls(w), States(w), flow[w]) /\ (Valuing(m) => Valuing(worker[p]))
  BY <1>1, BuyerFitsOn
<1>3. QED
  BY <1>2, ChainStay
-----------------------------------------------------------------------------
(* Step by step: the retrieval, and every end of a turn.                   *)
Alike(d, dd) ==
    \A field \in {"baseline", "results", "decision", "intent", "captures", "final", "packet"} : dd[field] = d[field]

LEMMA AlikeFields ==
    ASSUME NEW d, NEW dd, Alike(d, dd)
    PROVE  /\ dd.baseline = d.baseline /\ dd.results = d.results /\ dd.decision = d.decision
           /\ dd.intent = d.intent /\ dd.captures = d.captures /\ dd.final = d.final /\ dd.packet = d.packet
  BY DEF Alike

(* A record is saved that no purchase looks at.                            *)
LEMMA ChainRecords ==
    ASSUME RowInv, ChainInv, NEW p \in Workers, NEW w \in Works, worker[p].work = w,
           NEW m \in Memory, Becomes(p, m), m.work = w, UNCHANGED <<rsv, calls, flow>>,
           NEW d, disk' = [disk EXCEPT ![w] = d], Alike(disk[w], d),
           MemoryFits(m, disk[w], Calls(w), States(w), flow[w]),
           Valuing(m) => Valuing(worker[p])
    PROVE  ChainInv'
<1>1. /\ d.baseline = disk[w].baseline /\ d.results = disk[w].results /\ d.decision = disk[w].decision
      /\ d.intent = disk[w].intent /\ d.captures = disk[w].captures /\ d.final = disk[w].final
      /\ d.packet = disk[w].packet
  BY AlikeFields
<1>2. Grows(disk[w], Calls(w), States(w), flow[w], d, Calls(w), States(w))
  BY <1>1 DEF Grows
<1>3. /\ WorkFits(disk[w], Calls(w), States(w), flow[w]) /\ disk[w].results \subseteq Allowances
      /\ Valuing(worker[p]) => disk[w].intent /\ disk[w].decision = "none"
  BY WorkerFits, MemoryOfInv DEF Disk
<1>4. WorkFits(d, Calls(w), States(w), flow[w])
  BY <1>1, <1>2, <1>3, WorkGrows
<1>5. MemoryFits(m, d, Calls(w), States(w), flow[w])
  BY <1>1 DEF MemoryFits, BuyerFits, CarrierFits, Prior, Handable, Obtained
<1>6. QED
  BY <1>1, <1>2, <1>3, <1>4, <1>5, ChainSaves

LEMMA ChainMoves ==
    ASSUME RowInv, ChainInv, NEW p \in Workers, UNCHANGED <<disk, rsv, calls, flow>>,
           NEW pc \in Pc, pc \notin BuyPc, pc \notin CarryPc, pc # "placed", Goes(p, pc)
    PROVE  ChainInv'
<1> DEFINE m == [worker[p] EXCEPT !.pc = pc]
<1>1. m \in Memory /\ m.pc = pc /\ m.work = worker[p].work
  BY MemoryOfInv DEF Memory
<1>2. Becomes(p, m)
  BY DEF Goes, Becomes
<1> HIDE DEF m
<1>3. ~Valuing(m) /\ \A d, c, s, f : MemoryFits(m, d, c, s, f)
  BY <1>1, TrivialFits
<1>4. PICK w \in Works : worker[p].work = w
  BY MemoryOfInv
<1>5. QED
  BY <1>1, <1>2, <1>3, <1>4, ChainStay

LEMMA ChainRetrieval == ASSUME RowInv, ChainInv, NEW p \in Workers, Retrieves(p) PROVE ChainInv'
<1>1. {"planned", "ready", "route", "fetch", "choose"} \subseteq Pc
      /\ {"planned", "ready", "route", "fetch", "choose"} \cap (BuyPc \cup CarryPc \cup {"placed"}) = {}
  BY DEF Pc, BuyPc, CarryPc
<1>2. CASE PreflightStops(p) \/ RefuseStage(p) \/ RetrievalFails(p) \/ Advance(p) \/ HoldRetrieval(p)
  BY <1>2, ChainHeld DEF PreflightStops, RefuseStage, RetrievalFails, Advance, HoldRetrieval, LastWrite, ledger, others
<1>3. CASE PreflightPasses(p)
  BY <1>1, <1>3, ChainMoves DEF PreflightPasses, store, ledger, others
<1>4. CASE ReuseCheckpoint(p)
  BY <1>1, <1>4, ChainMoves DEF ReuseCheckpoint, store, ledger, others
<1>5. CASE BeginAttempt(p)
  BY <1>1, <1>5, ChainMoves, ChainHeld DEF BeginAttempt, ledger, others
<1>6. CASE CommitCheckpoint(p)
  <2>1. PICK w \in Works : worker[p].work = w
    BY MemoryOfInv
  <2>2. CASE UNCHANGED disk /\ Ends(p)
    BY <1>6, <2>2, ChainHeld DEF CommitCheckpoint, ledger, others
  <2>3. CASE \E decision \in {"hold", "proceed"}, captured \in BOOLEAN :
                /\ disk' = [disk EXCEPT ![w].manifest = decision, ![w].evidence = @ \/ captured]
                /\ Goes(p, "route")
    <3>1. PICK decision \in {"hold", "proceed"}, captured \in BOOLEAN :
             disk' = [disk EXCEPT ![w].manifest = decision, ![w].evidence = @ \/ captured]
      BY <2>3
    <3> DEFINE d == [disk[w] EXCEPT !.manifest = decision, !.evidence = disk[w].evidence \/ captured]
    <3> DEFINE m == [worker[p] EXCEPT !.pc = "route"]
    <3>2. disk[w] \in Disk
      BY <2>1, MemoryOfInv
    <3>3. disk' = [disk EXCEPT ![w] = d]
      BY <3>1, <3>2 DEF RowInv, TypeOK, Disk
    <3>4. Alike(disk[w], d)
      BY <3>2 DEF Alike, Disk
    <3>5. m \in Memory /\ m.pc = "route" /\ m.work = w
      BY <1>1, <2>1, MemoryOfInv DEF Memory
    <3>6. Becomes(p, m)
      BY <2>3 DEF Goes, Becomes
    <3> HIDE DEF m, d
    <3>7. ~Valuing(m) /\ \A dd, c, s, f : MemoryFits(m, dd, c, s, f)
      BY <1>1, <3>5, TrivialFits
    <3>8. UNCHANGED <<rsv, calls, flow>>
      BY <1>6 DEF CommitCheckpoint, ledger, others
    <3>9. QED
      BY <2>1, <3>3, <3>4, <3>5, <3>6, <3>7, <3>8, ChainRecords
  <2>4. QED
    BY <1>6, <2>1, <2>2, <2>3 DEF CommitCheckpoint
<1>7. QED
  BY <1>2, <1>3, <1>4, <1>5, <1>6 DEF Retrieves

(* What surrounds the purchases.                                           *)
LEMMA ChainChoice ==
    ASSUME RowInv, ChainInv, NEW p \in Workers,
           \/ ContextUnavailable(p) \/ SynthesisFails(p) \/ HoldWork(p)
           \/ ChooseReuse(p) \/ ChoosePurchase(p) \/ PlaceArticle(p) \/ ContinueArticle(p)
    PROVE  ChainInv'
<1>0. PICK w \in Works : worker[p].work = w
  BY MemoryOfInv
<1>1. CASE ContextUnavailable(p) \/ SynthesisFails(p) \/ HoldWork(p)
  BY <1>1, ChainHeld DEF ContextUnavailable, SynthesisFails, HoldWork, LastWrite, ledger, others
<1>2. disk[w] \in Disk /\ disk[w].baseline \in Packets /\ "none" \in Packets
  BY <1>0, MemoryOfInv DEF Disk, Packets
<1>3. {"placement", "proposal", "primary"} \subseteq Allowances /\ Articles = {"placed", "proposed"}
  BY DEF Allowances, Articles
<1>4. CASE ChooseReuse(p)
  <2> DEFINE m == [worker[p] EXCEPT !.pc = "save", !.packet = "reused"]
  <2>1. m \in Memory /\ m.pc = "save" /\ m.packet = "reused" /\ m.work = w
    BY <1>0, MemoryOfInv DEF Memory, Pc, Packets
  <2>2. Becomes(p, m)
    BY <1>4, MemoryOfInv DEF ChooseReuse, Becomes, RowInv, TypeOK
  <2>3. flow[w] \notin Articles /\ UNCHANGED <<disk, rsv, calls, flow>>
    BY <1>0, <1>4 DEF ChooseReuse, store, ledger, others
  <2> HIDE DEF m
  <2>4. MemoryFits(m, disk[w], Calls(w), States(w), flow[w]) /\ ~Valuing(m)
    BY <2>1, <2>3 DEF MemoryFits, CarrierFits, Valuing, BuyPc, FollowPc
  <2>5. QED
    BY <1>0, <2>1, <2>2, <2>3, <2>4, ChainStay
<1>5. CASE ChoosePurchase(p)
  <2>1. Prior("primary", disk[w], Calls(w), States(w), flow[w])
    BY <1>0, <1>3, <1>5 DEF ChoosePurchase, Prior
  <2>2. QED
    BY <1>0, <1>2, <1>3, <1>5, <2>1, ChainSpends DEF ChoosePurchase, store, ledger, others
<1>6. CASE PlaceArticle(p)
  <2>1. Prior("placement", disk[w], Calls(w), States(w), flow[w])
    BY DEF Prior
  <2>2. QED
    BY <1>0, <1>2, <1>3, <1>6, <2>1, ChainSpends DEF PlaceArticle, store, ledger, others
<1>7. CASE ContinueArticle(p)
  <2> DEFINE a == worker[p].buying
  <2>1. a \in {"placement", "proposal"} /\ Closed(a, Calls(w), States(w))
        /\ Prior(a, disk[w], Calls(w), States(w), flow[w])
    BY <1>0, <1>7, WorkerFits DEF ContinueArticle, At, MemoryFits
  <2>2. UNCHANGED <<disk, rsv, calls, flow>>
    BY <1>7 DEF ContinueArticle, store, ledger, others
  <2>3. CASE flow[w] = "proposed" /\ a = "placement"
    <3>1. Prior("proposal", disk[w], Calls(w), States(w), flow[w])
      BY <2>1, <2>3 DEF Prior
    <3>2. Spends(p, "proposal", "none")
      BY <1>0, <1>7, <2>3 DEF ContinueArticle
    <3>3. QED
      BY <1>0, <1>2, <1>3, <2>2, <3>1, <3>2, ChainSpends
  <2>4. CASE ~(flow[w] = "proposed" /\ a = "placement")
    <3>1. Prior("primary", disk[w], Calls(w), States(w), flow[w])
      BY <2>1, <2>4 DEF Prior
    <3>2. Spends(p, "primary", disk[w].baseline)
      BY <1>0, <1>7, <2>4 DEF ContinueArticle
    <3>3. QED
      BY <1>0, <1>2, <1>3, <2>2, <3>1, <3>2, ChainSpends
  <2>5. QED
    BY <2>3, <2>4
<1>8. QED
  BY <1>1, <1>4, <1>5, <1>6, <1>7
-----------------------------------------------------------------------------
(* Step by step: within a purchase.                                        *)
LEMMA ChainMarks ==
    ASSUME RowInv, ChainInv, NEW p \in Workers, worker[p].pc \in BuyPc, UNCHANGED <<disk, rsv, calls, flow>>,
           NEW w \in Works, worker[p].work = w, NEW pc \in BuyPc \ {"await"}, NEW seen \in Reservation,
           NEW why \in {"none", "response", "replay", "abort", "rejection", "failure"},
           Becomes(p, [worker[p] EXCEPT !.pc = pc, !.seen = seen, !.why = why]),
           pc \in {"settle", "commit"} /\ why \in {"response", "replay"} => Obtained(worker[p].buying, disk[w]),
           pc = "decide" /\ seen.state = "settled" => States(w)[worker[p].buying] = "settled"
    PROVE  ChainInv'
<1> DEFINE m == [worker[p] EXCEPT !.pc = pc, !.seen = seen, !.why = why]
<1>1. /\ m \in Memory /\ m.work = w /\ m.pc = pc /\ m.buying = worker[p].buying
      /\ m.packet = worker[p].packet /\ m.why = why /\ m.seen = seen
  BY MemoryOfInv DEF Memory, BuyPc, Pc
<1>2. Becomes(p, m)
  OBVIOUS
<1> HIDE DEF m
<1>3. QED
  BY <1>1, <1>2, ChainBuys

(* The reservation a worker has read or written.                           *)
LEMMA StateOf ==
    ASSUME NEW p \in Workers, RowInv
    PROVE  rsv[Purchase(p)].state = States(worker[p].work)[worker[p].buying]
           /\ calls[Purchase(p)] = Calls(worker[p].work)[worker[p].buying]
  BY MemoryOfInv DEF States, Calls, Purchase, Memory

LEMMA ChainClaims ==
    ASSUME RowInv, ChainInv, NEW p \in Workers, ListReservations(p) \/ InsertReservation(p)
    PROVE  ChainInv'
<1> DEFINE k == Purchase(p)
<1>0. PICK w \in Works : worker[p].work = w
  BY MemoryOfInv
<1>1. worker[p].pc \in BuyPc
  BY DEF ListReservations, InsertReservation, At, BuyPc
<1>2. worker[p] \in Memory /\ rsv[k] \in Reservation /\ rsv[k].state = States(w)[worker[p].buying]
      /\ worker[p].buying \in Allowances /\ worker[p].seen \in Reservation
      /\ worker[p].why \in {"none", "response", "replay", "abort", "rejection", "failure"}
  BY <1>0, MemoryOfInv, StateOf DEF Memory
<1>3. CASE ListReservations(p)
  <2>1. UNCHANGED <<disk, rsv, calls, flow>>
    BY <1>3 DEF ListReservations, store, ledger, others
  <2>2. CASE Becomes(p, Held(p))
    BY <2>1, <2>2, ChainHeld
  <2>3. CASE \E pc \in {"insert", "decide"} : worker' = [worker EXCEPT ![p].pc = pc, ![p].seen = rsv[k]]
    <3>1. PICK pc \in {"insert", "decide"} : worker' = [worker EXCEPT ![p].pc = pc, ![p].seen = rsv[k]]
      BY <2>3
    <3>2. Becomes(p, [worker[p] EXCEPT !.pc = pc, !.seen = rsv[k], !.why = worker[p].why])
      BY <1>2, <3>1 DEF Becomes, Memory, RowInv, TypeOK
    <3>3. pc \in BuyPc \ {"await"} /\ pc \notin {"settle", "commit"}
      BY DEF BuyPc
    <3>4. QED
      BY <1>0, <1>1, <1>2, <2>1, <3>2, <3>3, ChainMarks
  <2>4. QED
    BY <1>3, <2>2, <2>3 DEF ListReservations
<1>4. CASE InsertReservation(p)
  <2>1. UNCHANGED <<disk, calls, flow>>
    BY <1>4 DEF InsertReservation, others
  <2>2. CASE UNCHANGED ledger /\ Becomes(p, Refused(p))
    BY <1>1, <2>1, <2>2, ChainRefused DEF ledger
  <2>3. CASE /\ rsv[k].state = "absent" /\ SetReservation(k, NewReservation)
             /\ worker' = [worker EXCEPT ![p].pc = "decide", ![p].seen = NewReservation]
    <3> DEFINE m == [worker[p] EXCEPT !.pc = "decide", !.seen = NewReservation]
    <3>1. NewReservation \in Reservation /\ NewReservation.state = "reserved_not_dispatched"
      BY <1>2, WrittenReservation DEF NewReservation
    <3>2. /\ m \in Memory /\ m.work = w /\ m.pc = "decide" /\ m.buying = worker[p].buying
          /\ m.packet = worker[p].packet /\ m.seen = NewReservation
      BY <1>0, <1>2, <3>1 DEF Memory, Pc
    <3>3. Becomes(p, m)
      BY <1>2, <2>3 DEF Becomes, Memory, RowInv, TypeOK
    <3> HIDE DEF m
    <3>4. rsv' = [rsv EXCEPT ![<<w, worker[p].buying>>] = NewReservation]
          /\ Advances(rsv[<<w, worker[p].buying>>], NewReservation)
      BY <1>0, <2>3, <3>1 DEF SetReservation, Purchase, Advances
    <3>5. Grows(disk[w], Calls(w), States(w), flow[w], disk[w], Calls(w), States(w)')
      BY <1>2, <3>1, <3>4, BookGrows
    <3>6. MemoryFits(worker[p], disk[w], Calls(w), States(w)', flow[w])
      BY <1>0, <3>5, MemoryOfInv, WorkerFits, MemoryGrows
    <3>7. m.pc \in BuyPc
      BY <3>2 DEF BuyPc
    <3>8. MemoryFits(m, disk[w], Calls(w), States(w)', flow[w]) /\ (Valuing(m) => Valuing(worker[p]))
      BY <1>1, <3>1, <3>2, <3>6, <3>7, BuyerFitsOn
    <3>9. QED
      BY <1>0, <1>2, <2>1, <3>1, <3>2, <3>3, <3>4, <3>8, ChainBooks
  <2>4. QED
    BY <1>4, <2>2, <2>3 DEF InsertReservation
<1>5. QED
  BY <1>3, <1>4

(* A worker goes on with the packet at hand.                               *)
LEMMA ChainGoes ==
    ASSUME RowInv, ChainInv, NEW p \in Workers, NEW w \in Works, worker[p].work = w,
           NEW pc \in CarryPc, Goes(p, pc), UNCHANGED <<disk, rsv, calls, flow>>,
           \A m \in Memory : m.pc = pc /\ m.packet = worker[p].packet
                                => CarrierFits(m, disk[w], Calls(w), States(w), flow[w]),
           pc \in {"weigh", "doubt"} => Valuing(worker[p])
    PROVE  ChainInv'
<1> DEFINE m == [worker[p] EXCEPT !.pc = pc]
<1>1. m \in Memory /\ m.pc = pc /\ m.work = w /\ m.packet = worker[p].packet
  BY MemoryOfInv DEF Memory, CarryPc, Pc
<1>2. Becomes(p, m)
  BY DEF Goes, Becomes
<1> HIDE DEF m
<1>3. m.pc \notin BuyPc /\ m.pc # "placed"
  BY <1>1 DEF BuyPc, CarryPc
<1>4. MemoryFits(m, disk[w], Calls(w), States(w), flow[w]) /\ (Valuing(m) => Valuing(worker[p]))
  BY <1>1, <1>3 DEF MemoryFits, Valuing
<1>5. QED
  BY <1>1, <1>2, <1>4, ChainStay

LEMMA ChainDecides == ASSUME RowInv, ChainInv, NEW p \in Workers, Decide(p) PROVE ChainInv'
<1>0. PICK w \in Works : worker[p].work = w
  BY MemoryOfInv
<1>1. worker[p].pc = "decide" /\ worker[p].pc \in BuyPc /\ UNCHANGED <<disk, rsv, calls, flow>>
  BY DEF Decide, At, BuyPc, store, ledger, others
<1>2. worker[p] \in Memory /\ worker[p].buying \in Allowances /\ worker[p].seen \in Reservation
      /\ worker[p].why \in {"none", "response", "replay", "abort", "rejection", "failure"}
  BY MemoryOfInv DEF Memory
<1>3. BuyerFits(worker[p], disk[w], Calls(w), States(w), flow[w])
  BY <1>0, <1>1, WorkerFits DEF MemoryFits
<1>4. HasResult(p) => Obtained(worker[p].buying, disk[w])
  BY <1>0, <1>3 DEF HasResult, Obtained, BuyerFits
<1>5. {"own", "unknown", "settle"} \subseteq BuyPc \ {"await"}
  BY DEF BuyPc
<1>6. CASE Becomes(p, Refused(p))
  BY <1>1, <1>6, ChainRefused
<1>7. CASE \E pc \in {"own", "unknown"} : Becomes(p, [worker[p] EXCEPT !.pc = pc])
  <2>1. PICK pc \in {"own", "unknown"} : Becomes(p, [worker[p] EXCEPT !.pc = pc])
    BY <1>7
  <2>2. Becomes(p, [worker[p] EXCEPT !.pc = pc, !.seen = worker[p].seen, !.why = worker[p].why])
    BY <1>2, <2>1 DEF Becomes, Memory
  <2>3. QED
    BY <1>0, <1>1, <1>2, <1>5, <2>2, ChainMarks
<1>8. CASE \E why \in {"replay", "rejection"} :
              /\ Becomes(p, [worker[p] EXCEPT !.pc = "settle", !.why = why])
              /\ why = "replay" => HasResult(p)
  <2>1. PICK why \in {"replay", "rejection"} :
           /\ Becomes(p, [worker[p] EXCEPT !.pc = "settle", !.why = why])
           /\ why = "replay" => HasResult(p)
    BY <1>8
  <2>2. Becomes(p, [worker[p] EXCEPT !.pc = "settle", !.seen = worker[p].seen, !.why = why])
    BY <1>2, <2>1 DEF Becomes, Memory
  <2>3. QED
    BY <1>0, <1>1, <1>2, <1>4, <1>5, <2>1, <2>2, ChainMarks
<1>9. CASE Becomes(p, Onward(p)) /\ worker[p].seen.state = "settled" /\ HasResult(p)
  <2>1. States(w)[worker[p].buying] = "settled"
    BY <1>1, <1>3, <1>9 DEF BuyerFits
  <2>2. QED
    BY <1>0, <1>1, <1>4, <1>9, <2>1, ChainOnward
<1>10. QED
  BY <1>6, <1>7, <1>8, <1>9 DEF Decide, ReplayStep

LEMMA ChainOwns == ASSUME RowInv, ChainInv, NEW p \in Workers, CheckOwnership(p) PROVE ChainInv'
<1>0. PICK w \in Works : worker[p].work = w
  BY MemoryOfInv
<1>1. worker[p].pc \in {"own", "consent", "regather"} /\ UNCHANGED <<disk, rsv, calls, flow>>
  BY DEF CheckOwnership, ledger, others
<1>2. worker[p] \in Memory /\ worker[p].seen \in Reservation
      /\ worker[p].why \in {"none", "response", "replay", "abort", "rejection", "failure"}
  BY MemoryOfInv DEF Memory
<1>3. worker[p].pc = "own" => worker[p].pc \in BuyPc
  BY DEF BuyPc
<1>4. CASE Becomes(p, IF At(p, "own") THEN Refused(p) ELSE Held(p))
  BY <1>1, <1>3, <1>4, ChainRefused, ChainHeld DEF At
<1>5. CASE Goes(p, [own |-> "intend", consent |-> "pledge", regather |-> "gather"][worker[p].pc])
  <2>1. CASE worker[p].pc = "own"
    <3>0. Goes(p, "intend")
      BY <1>5, <2>1
    <3>1. Becomes(p, [worker[p] EXCEPT !.pc = "intend", !.seen = worker[p].seen, !.why = worker[p].why])
      BY <1>2, <3>0 DEF Goes, Becomes, Memory
    <3>2. "intend" \in BuyPc \ {"await"}
      BY DEF BuyPc
    <3>3. QED
      BY <1>0, <1>1, <1>2, <1>3, <2>1, <3>1, <3>2, ChainMarks
  <2>2. CASE worker[p].pc # "own"
    <3>1. PICK pc \in {"pledge", "gather"} : Goes(p, pc)
      BY <1>1, <1>5, <2>2
    <3>2. worker[p].pc \in CarryPc /\ worker[p].pc \in FollowPc \ {"resolve"} /\ pc \in CarryPc
      BY <1>1, <2>2 DEF CarryPc, FollowPc
    <3>3. CarrierFits(worker[p], disk[w], Calls(w), States(w), flow[w])
      BY <1>0, <3>2, WorkerFits DEF MemoryFits
    <3>4. \A m \in Memory : m.pc = pc /\ m.packet = worker[p].packet
             => CarrierFits(m, disk[w], Calls(w), States(w), flow[w])
      BY <3>2, <3>3 DEF CarrierFits
    <3>5. QED
      BY <1>0, <1>1, <3>1, <3>2, <3>4, ChainGoes
  <2>3. QED
    BY <2>1, <2>2
<1>6. QED
  BY <1>4, <1>5 DEF CheckOwnership

(* A worker writes the reservation of its purchase and goes on.            *)
LEMMA ChainWrites ==
    ASSUME RowInv, ChainInv, NEW p \in Workers, NEW w \in Works, worker[p].work = w,
           NEW r \in Reservation, SetReservation(Purchase(p), r), Advances(rsv[Purchase(p)], r),
           UNCHANGED <<disk, calls, flow>>, NEW m \in Memory, Becomes(p, m), m.work = w,
           \A s : /\ WorkFits(disk[w], Calls(w), s, flow[w])
                  /\ MemoryFits(worker[p], disk[w], Calls(w), s, flow[w])
                  /\ s[worker[p].buying] = r.state
                  => MemoryFits(m, disk[w], Calls(w), s, flow[w]) /\ (Valuing(m) => Valuing(worker[p]))
    PROVE  ChainInv'
<1>1. worker[p].buying \in Allowances
  BY MemoryOfInv DEF Memory
<1>2. rsv' = [rsv EXCEPT ![<<w, worker[p].buying>>] = r] /\ Advances(rsv[<<w, worker[p].buying>>], r)
  BY DEF SetReservation, Purchase
<1>3. /\ Grows(disk[w], Calls(w), States(w), flow[w], disk[w], Calls(w), States(w)')
      /\ WorkFits(disk[w], Calls(w), States(w)', flow[w])
      /\ States(w)'[worker[p].buying] = r.state
  BY <1>1, <1>2, BookGrows
<1>4. MemoryFits(worker[p], disk[w], Calls(w), States(w)', flow[w])
  BY <1>3, MemoryOfInv, WorkerFits, MemoryGrows
<1>5. MemoryFits(m, disk[w], Calls(w), States(w)', flow[w]) /\ (Valuing(m) => Valuing(worker[p]))
  BY <1>3, <1>4
<1>6. QED
  BY <1>1, <1>2, <1>5, ChainBooks

LEMMA ChainIntends == ASSUME RowInv, ChainInv, NEW p \in Workers, Intend(p) PROVE ChainInv'
<1> DEFINE k == Purchase(p)
<1>0. PICK w \in Works : worker[p].work = w
  BY MemoryOfInv
<1>1. worker[p].pc \in BuyPc /\ UNCHANGED <<disk, calls, flow>>
  BY DEF Intend, At, BuyPc, others
<1>2. CASE Becomes(p, Refused(p)) /\ UNCHANGED ledger
  BY <1>1, <1>2, ChainRefused DEF ledger
<1>3. CASE MayIntend(rsv[k], worker[p].seen.epoch) /\ SetReservation(k, Intended(rsv[k])) /\ Goes(p, "send")
  <2> DEFINE r == Intended(rsv[k])
  <2> DEFINE m == [worker[p] EXCEPT !.pc = "send"]
  <2>1. r \in Reservation /\ Advances(rsv[k], r) /\ SetReservation(k, r)
    BY <1>3, MemoryOfInv, WrittenReservation DEF Intended, MayIntend, Reservation, Advances
  <2>2. /\ m \in Memory /\ m.work = w /\ m.pc = "send" /\ m.buying = worker[p].buying
        /\ m.packet = worker[p].packet
    BY <1>0, MemoryOfInv DEF Memory, Pc
  <2>3. Becomes(p, m) /\ "send" \in BuyPc
    BY <1>3 DEF Goes, Becomes, BuyPc
  <2> HIDE DEF r, m
  <2>4. ASSUME NEW s, MemoryFits(worker[p], disk[w], Calls(w), s, flow[w])
        PROVE  MemoryFits(m, disk[w], Calls(w), s, flow[w]) /\ (Valuing(m) => Valuing(worker[p]))
    BY <1>1, <2>2, <2>3, <2>4, BuyerFitsOn
  <2>5. QED
    BY <1>0, <1>1, <2>1, <2>2, <2>3, <2>4, ChainWrites
<1>4. QED
  BY <1>2, <1>3 DEF Intend

(* The request is handed over: what the purchase rests on is closed.       *)
LEMMA ChainSends == ASSUME RowInv, PaidInv, ChainInv, NEW p \in Workers, Send(p) PROVE ChainInv'
<1> DEFINE k == Purchase(p)
<1> DEFINE a == worker[p].buying
<1> DEFINE m == [worker[p] EXCEPT !.pc = "await"]
<1>0. PICK w \in Works : worker[p].work = w
  BY MemoryOfInv
<1>1. worker[p].pc \in BuyPc /\ UNCHANGED <<disk, rsv, flow>>
  BY DEF Send, At, BuyPc, store, ledger
<1>2. a \in Allowances /\ k = <<w, a>> /\ k \in Purchases /\ calls \in [Purchases -> Nat]
  BY <1>0, MemoryOfInv DEF Memory, Purchase, RowInv, TypeOK
<1>3. calls[k] = 0 /\ calls' = [calls EXCEPT ![k] = 1]
  <2>1. calls[k] = 0
    BY DEF Send, PaidInv
  <2>2. QED
    BY <1>2, <2>1 DEF Send
<1>4. /\ \A v \in Works \ {w} : Calls(v)' = Calls(v)
      /\ \A b \in Allowances : Calls(w)'[b] = IF b = a THEN 1 ELSE Calls(w)[b]
  <2>1. \A v \in Works, b \in Allowances : calls'[<<v, b>>] = IF v = w /\ b = a THEN 1 ELSE calls[<<v, b>>]
    BY <1>2, <1>3 DEF Purchases
  <2>2. QED
    BY <2>1 DEF Calls
<1>5. \A v \in Works : States(v)' = States(v) /\ disk'[v] = disk[v]
  BY <1>1 DEF States
<1>6. /\ m \in Memory /\ m.work = w /\ m.pc = "await" /\ m.buying = a /\ m.packet = worker[p].packet
  BY <1>0, MemoryOfInv DEF Memory, Pc
<1>7. Becomes(p, m) /\ "await" \in BuyPc
  BY DEF Send, Goes, Becomes, BuyPc
<1> HIDE DEF k, m
<1>8. Grows(disk[w], Calls(w), States(w), flow[w], disk[w], Calls(w)', States(w))
  BY <1>4 DEF Grows
<1>9. /\ WorkFits(disk[w], Calls(w), States(w), flow[w]) /\ MemoryFits(worker[p], disk[w], Calls(w), States(w), flow[w])
      /\ Valuing(worker[p]) => disk[w].intent /\ disk[w].decision = "none"
      /\ disk[w].results \subseteq Allowances
  BY <1>0, WorkerFits, MemoryOfInv DEF Disk
<1>10. MemoryFits(worker[p], disk[w], Calls(w)', States(w), flow[w])
  BY <1>8, <1>9, MemoryOfInv, MemoryGrows
<1>11. Prior(a, disk[w], Calls(w)', States(w), flow[w])
  BY <1>1, <1>10 DEF MemoryFits, BuyerFits
<1>12. \A b \in Allowances : Calls(w)'[b] = Calls(w)[b] \/ Prior(b, disk[w], Calls(w)', States(w), flow[w])
  BY <1>4, <1>11
<1>13. WorkFits(disk[w], Calls(w)', States(w), flow[w])
  BY <1>8, <1>9, <1>12, WorkGrows
<1>14. MemoryFits(m, disk[w], Calls(w)', States(w), flow[w]) /\ (Valuing(m) => Valuing(worker[p]))
  BY <1>1, <1>2, <1>4, <1>6, <1>7, <1>10, BuyerFitsOn
<1>15. /\ Grows(disk[w], Calls(w), States(w), flow[w], disk'[w], Calls(w)', States(w)')
       /\ WorkFits(disk'[w], Calls(w)', States(w)', flow[w])
       /\ MemoryFits(m, disk'[w], Calls(w)', States(w)', flow[w])
  BY <1>5, <1>8, <1>13, <1>14
<1>16. QED
  BY <1>0, <1>1, <1>4, <1>5, <1>6, <1>7, <1>9, <1>14, <1>15, ChainStep

LEMMA ChainAnswers ==
    ASSUME RowInv, ChainInv, NEW p \in Workers,
           AnswerArrives(p) \/ AnswerRejected(p) \/ CallAborted(p) \/ CallFails(p)
    PROVE  ChainInv'
<1> DEFINE a == worker[p].buying
<1>0. PICK w \in Works : worker[p].work = w
  BY MemoryOfInv
<1>1. worker[p].pc = "await" /\ worker[p].pc \in BuyPc /\ UNCHANGED <<rsv, calls, flow>>
  BY DEF AnswerArrives, AnswerRejected, CallAborted, CallFails, At, BuyPc, store, ledger, others
<1>2. /\ worker[p] \in Memory /\ a \in Allowances /\ disk[w] \in Disk /\ disk \in [Works -> Disk]
      /\ worker[p].seen \in Reservation
  BY <1>0, MemoryOfInv DEF Memory, RowInv, TypeOK
<1>3. /\ WorkFits(disk[w], Calls(w), States(w), flow[w]) /\ MemoryFits(worker[p], disk[w], Calls(w), States(w), flow[w])
      /\ Valuing(worker[p]) => disk[w].intent /\ disk[w].decision = "none"
      /\ disk[w].results \subseteq Allowances
  BY <1>0, <1>2, WorkerFits DEF Disk
<1>4. Calls(w)[a] = 1
  BY <1>1, <1>3 DEF MemoryFits, BuyerFits
<1>5. ASSUME NEW why \in {"response", "rejection", "abort"}, Settles(p, why)
      PROVE  \E m \in Memory :
                /\ Becomes(p, m) /\ m.work = w /\ m.pc = "settle" /\ m.pc \in BuyPc /\ m.buying = a
                /\ m.packet = worker[p].packet /\ m.why = why
  <2> DEFINE m == [worker[p] EXCEPT !.pc = "settle", !.why = why]
  <2>1. /\ m \in Memory /\ m.work = w /\ m.pc = "settle" /\ m.buying = a /\ m.packet = worker[p].packet /\ m.why = why
    BY <1>0, <1>2 DEF Memory, Pc
  <2>2. Becomes(p, m) /\ "settle" \in BuyPc
    BY <1>2, <1>5 DEF Settles, Becomes, BuyPc, Memory, RowInv, TypeOK
  <2>3. QED
    BY <2>1, <2>2
<1>6. ASSUME SaveReceipt(p), Settles(p, "rejection") PROVE ChainInv'
  <2> DEFINE d == [disk[w] EXCEPT !.receipts = disk[w].receipts \cup {a}]
  <2>1. disk' = [disk EXCEPT ![w] = d]
    BY <1>0, <1>2, <1>6 DEF SaveReceipt, Save
  <2>2. Alike(disk[w], d)
    BY <1>2 DEF Alike, Disk
  <2> HIDE DEF d
  <2>3. PICK m \in Memory :
           /\ Becomes(p, m) /\ m.work = w /\ m.pc = "settle" /\ m.pc \in BuyPc /\ m.buying = a
           /\ m.packet = worker[p].packet /\ m.why = "rejection"
    BY <1>5, <1>6
  <2>4. MemoryFits(m, disk[w], Calls(w), States(w), flow[w]) /\ (Valuing(m) => Valuing(worker[p]))
    BY <1>1, <1>3, <2>3, BuyerFitsOn
  <2>5. QED
    BY <1>0, <1>1, <2>1, <2>2, <2>3, <2>4, ChainRecords
<1>7. CASE AnswerArrives(p)
  <2>1. ASSUME NEW d, disk' = [disk EXCEPT ![w] = d], Settles(p, "response"),
               Grows(disk[w], Calls(w), States(w), flow[w], d, Calls(w), States(w)),
               WorkFits(d, Calls(w), States(w), flow[w]), Obtained(a, d), d.decision = disk[w].decision,
               d.intent = disk[w].intent
        PROVE  ChainInv'
    <3>1. PICK m \in Memory :
             /\ Becomes(p, m) /\ m.work = w /\ m.pc = "settle" /\ m.pc \in BuyPc /\ m.buying = a
             /\ m.packet = worker[p].packet /\ m.why = "response"
      BY <1>5, <2>1
    <3>2. MemoryFits(worker[p], d, Calls(w), States(w), flow[w])
      BY <1>0, <1>3, <2>1, MemoryOfInv, MemoryGrows
    <3>3. MemoryFits(m, d, Calls(w), States(w), flow[w]) /\ (Valuing(m) => Valuing(worker[p]))
      BY <1>1, <2>1, <3>1, <3>2, BuyerFitsOn
    <3>4. QED
      BY <1>0, <1>1, <1>3, <2>1, <3>1, <3>3, ChainSaves
  <2>2. CASE a # "primary" /\ Save(w, "results", disk[w].results \cup {a}) /\ Settles(p, "response")
    <3> DEFINE d == [disk[w] EXCEPT !.results = disk[w].results \cup {a}]
    <3>1. disk' = [disk EXCEPT ![w] = d]
      BY <1>2, <2>2 DEF Save
    <3>2. /\ d.baseline = disk[w].baseline /\ d.results = disk[w].results \cup {a} /\ d.decision = disk[w].decision
          /\ d.intent = disk[w].intent /\ d.captures = disk[w].captures /\ d.final = disk[w].final
          /\ d.packet = disk[w].packet
      BY <1>2 DEF Disk
    <3> HIDE DEF d
    <3>3. Grows(disk[w], Calls(w), States(w), flow[w], d, Calls(w), States(w))
      BY <3>2 DEF Grows
    <3>4. WorkFits(d, Calls(w), States(w), flow[w])
      BY <1>3, <1>4, <3>2, <3>3, WorkGrows
    <3>5. Obtained(a, d)
      BY <2>2, <3>2 DEF Obtained
    <3>6. QED
      BY <2>1, <2>2, <3>1, <3>2, <3>3, <3>4, <3>5
  <2>3. CASE a = "primary" /\ disk[w].baseline = "none" /\ Save(w, "baseline", "bought") /\ Settles(p, "response")
    <3> DEFINE d == [disk[w] EXCEPT !.baseline = "bought"]
    <3>1. disk' = [disk EXCEPT ![w] = d]
      BY <1>2, <2>3 DEF Save
    <3>2. /\ d.baseline = "bought" /\ d.results = disk[w].results /\ d.decision = disk[w].decision
          /\ d.intent = disk[w].intent /\ d.captures = disk[w].captures /\ d.final = disk[w].final
          /\ d.packet = disk[w].packet
      BY <1>2 DEF Disk
    <3> HIDE DEF d
    <3>3. Grows(disk[w], Calls(w), States(w), flow[w], d, Calls(w), States(w))
      BY <2>3, <3>2 DEF Grows
    <3>4. WorkFits(d, Calls(w), States(w), flow[w])
      BY <1>3, <1>4, <2>3, <3>2, <3>3, WorkGrows
    <3>5. Obtained(a, d)
      BY <2>3, <3>2 DEF Obtained
    <3>6. QED
      BY <2>1, <2>3, <3>1, <3>2, <3>3, <3>4, <3>5
  <2>4. QED
    BY <1>0, <1>6, <1>7, <2>2, <2>3 DEF AnswerArrives
<1>8. CASE AnswerRejected(p)
  BY <1>6, <1>8 DEF AnswerRejected
<1>9. CASE CallAborted(p)
  <2>1. UNCHANGED disk /\ Settles(p, "abort")
    BY <1>9 DEF CallAborted, store
  <2>2. PICK m \in Memory :
           /\ Becomes(p, m) /\ m.work = w /\ m.pc = "settle" /\ m.pc \in BuyPc /\ m.buying = a
           /\ m.packet = worker[p].packet /\ m.why = "abort"
    BY <1>5, <2>1
  <2>3. QED
    BY <1>0, <1>1, <2>1, <2>2, ChainBuys
<1>10. CASE CallFails(p)
  <2>1. UNCHANGED disk /\ Becomes(p, [worker[p] EXCEPT !.pc = "unknown", !.seen = worker[p].seen, !.why = "failure"])
    BY <1>2, <1>10 DEF CallFails, Becomes, Memory, RowInv, TypeOK, store
  <2>2. "unknown" \in BuyPc \ {"await"}
    BY DEF BuyPc
  <2>3. QED
    BY <1>0, <1>1, <1>2, <2>1, <2>2, ChainMarks
<1>11. QED
  BY <1>7, <1>8, <1>9, <1>10

LEMMA ChainSettles ==
    ASSUME RowInv, ChainInv, NEW p \in Workers,
           SettleReads(p) \/ SettleCommit(p) \/ StoreFails(p) \/ MarkUnknown(p)
    PROVE  ChainInv'
<1> DEFINE k == Purchase(p)
<1> DEFINE a == worker[p].buying
<1>0. PICK w \in Works : worker[p].work = w
  BY MemoryOfInv
<1>1. worker[p].pc \in BuyPc /\ UNCHANGED <<disk, calls, flow>>
  BY DEF SettleReads, SettleCommit, StoreFails, MarkUnknown, At, BuyPc, store, ledger, others
<1>2. /\ worker[p] \in Memory /\ a \in Allowances /\ worker[p].seen \in Reservation
      /\ worker[p].why \in {"none", "response", "replay", "abort", "rejection", "failure"}
      /\ k \in Purchases /\ rsv[k] \in Reservation /\ rsv[k].state = States(w)[a]
  BY <1>0, MemoryOfInv, StateOf DEF Memory
<1>3. MemoryFits(worker[p], disk[w], Calls(w), States(w), flow[w])
  BY <1>0, WorkerFits
<1>4. {"unknown", "commit"} \subseteq BuyPc \ {"await"}
  BY DEF BuyPc
<1>5. ASSUME UNCHANGED rsv, Becomes(p, [worker[p] EXCEPT !.pc = "unknown"]) PROVE ChainInv'
  <2>1. Becomes(p, [worker[p] EXCEPT !.pc = "unknown", !.seen = worker[p].seen, !.why = worker[p].why])
    BY <1>2, <1>5 DEF Becomes, Memory
  <2>2. QED
    BY <1>0, <1>1, <1>2, <1>4, <1>5, <2>1, ChainMarks
<1>6. ASSUME UNCHANGED rsv, Becomes(p, AfterRefusal(p)) PROVE ChainInv'
  BY <1>1, <1>5, <1>6, ChainRefused DEF AfterRefusal
<1>7. worker[p].pc \in {"settle", "commit"} /\ worker[p].why \in {"response", "replay"} => Obtained(a, disk[w])
  BY <1>1, <1>3 DEF MemoryFits, BuyerFits
<1>8. CASE SettleReads(p)
  <2>1. UNCHANGED rsv /\ worker[p].pc = "settle"
    BY <1>8 DEF SettleReads, At, store, ledger
  <2>2. CASE Becomes(p, [worker[p] EXCEPT !.seen = rsv[k], !.pc = "commit"])
    <3>1. Becomes(p, [worker[p] EXCEPT !.pc = "commit", !.seen = rsv[k], !.why = worker[p].why])
      BY <1>2, <2>2 DEF Becomes, Memory
    <3>2. QED
      BY <1>0, <1>1, <1>2, <1>4, <1>7, <2>1, <3>1, ChainMarks
  <2>3. CASE ReplaysSettlement(rsv[k], SavedRef(worker[p].why)) /\ Becomes(p, AfterSettle(p))
    <3>1. States(w)[a] = "settled"
      BY <1>2, <2>3 DEF ReplaysSettlement
    <3>2. CASE worker[p].why \in {"response", "replay"}
      BY <1>0, <1>1, <1>7, <2>1, <2>3, <3>1, <3>2, ChainOnward DEF AfterSettle
    <3>3. CASE worker[p].why \notin {"response", "replay"}
      BY <1>1, <2>1, <2>3, <3>3, ChainRefused DEF AfterSettle
    <3>4. QED
      BY <3>2, <3>3
  <2>4. QED
    BY <1>6, <1>8, <2>1, <2>2, <2>3 DEF SettleReads
<1>9. CASE SettleCommit(p)
  <2>1. CASE UNCHANGED ledger /\ Becomes(p, AfterRefusal(p))
    BY <1>6, <2>1 DEF ledger
  <2>2. CASE /\ SettleCommits(rsv[k]) /\ Becomes(p, AfterSettle(p))
             /\ SetReservation(k, Settled(rsv[k], worker[p].seen, SavedRef(worker[p].why), CallLimit))
    <3> DEFINE r == Settled(rsv[k], worker[p].seen, SavedRef(worker[p].why), CallLimit)
    <3>1. worker[p].pc = "commit" /\ worker[p].why \in {"response", "replay", "abort", "rejection"}
      BY <1>9, MemoryOfInv DEF SettleCommit, At, Reasoned
    <3>2. SavedRef(worker[p].why) \in Results \cup {NoResult}
      BY <3>1, SavedResultsAssumption DEF SavedRef
    <3>3. r \in Reservation
      BY <1>2, <3>2, WrittenReservation
    <3>4. r.state = "settled"
      BY <1>2 DEF Settled, Reservation
    <3>5. SetReservation(k, r)
      BY <2>2
    <3> HIDE DEF r
    <3>6. Advances(rsv[k], r)
      BY <2>2, <3>4 DEF Advances, SettleCommits
    <3>7. CASE worker[p].why \in {"response", "replay"}
      <4>1. Becomes(p, Onward(p))
        BY <2>2, <3>7 DEF AfterSettle
      <4>2. ASSUME NEW s, WorkFits(disk[w], Calls(w), s, flow[w]), MemoryFits(worker[p], disk[w], Calls(w), s, flow[w]),
                   s[a] = r.state
            PROVE  MemoryFits(Onward(p), disk[w], Calls(w), s, flow[w]) /\ (Valuing(Onward(p)) => Valuing(worker[p]))
        BY <1>0, <1>1, <1>7, <3>1, <3>4, <3>7, <4>2, OnwardFits
      <4>3. QED
        BY <1>0, <1>1, <3>3, <3>5, <3>6, <4>1, <4>2, OnwardMemory, ChainWrites
    <3>8. CASE worker[p].why \notin {"response", "replay"}
      <4>1. Becomes(p, Refused(p))
        BY <2>2, <3>8 DEF AfterSettle
      <4>2. QED
        BY <1>0, <1>1, <3>3, <3>5, <3>6, <4>1, RefusedMemory, RefusedFits, ChainWrites
    <3>9. QED
      BY <3>7, <3>8
  <2>3. QED
    BY <1>9, <2>1, <2>2 DEF SettleCommit
<1>10. CASE StoreFails(p)
  <2>1. UNCHANGED rsv
    BY <1>10 DEF StoreFails, store, ledger
  <2>2. QED
    BY <1>1, <1>5, <1>10, <2>1, ChainRefused DEF StoreFails
<1>11. CASE MarkUnknown(p)
  <2>1. PICK m \in Memory :
           /\ Becomes(p, m) /\ m.work = w
           /\ m = Refused(p) \/ m.pc = "lapse"
    <3> DEFINE m == [Held(p) EXCEPT !.pc = "lapse"]
    <3>1. m \in Memory /\ m.pc = "lapse" /\ m.work = w
      BY <1>0, HeldMemory DEF Memory, Pc
    <3>2. Becomes(p, m) \/ Becomes(p, Refused(p))
      BY <1>11 DEF MarkUnknown
    <3> HIDE DEF m
    <3>3. QED
      BY <1>0, <3>1, <3>2, RefusedMemory
  <2>2. ASSUME NEW s, MemoryFits(worker[p], disk[w], Calls(w), s, flow[w])
        PROVE  MemoryFits(m, disk[w], Calls(w), s, flow[w]) /\ (Valuing(m) => Valuing(worker[p]))
    <3>1. CASE m = Refused(p)
      BY <1>1, <2>2, <3>1, RefusedFits
    <3>2. CASE m.pc = "lapse"
      BY <3>2, TrivialFits DEF BuyPc, CarryPc
    <3>3. QED
      BY <2>1, <3>1, <3>2
  <2>3. CASE UNCHANGED ledger
    BY <1>0, <1>1, <1>3, <2>1, <2>2, <2>3, ChainStay DEF ledger
  <2>4. CASE MayMarkUnknown(rsv[k], worker[p].seen.epoch) /\ SetReservation(k, MarkedUnknown(rsv[k]))
    <3> DEFINE r == MarkedUnknown(rsv[k])
    <3>1. r \in Reservation /\ r.state = "execution_outcome_unknown"
      BY <1>2, WrittenReservation DEF MarkedUnknown, Reservation
    <3>2. SetReservation(k, r)
      BY <2>4
    <3> HIDE DEF r
    <3>3. Advances(rsv[k], r)
      BY <2>4, <3>1 DEF Advances, MayMarkUnknown
    <3>4. QED
      BY <1>0, <1>1, <2>1, <2>2, <3>1, <3>2, <3>3, ChainWrites
  <2>5. QED
    BY <1>11, <2>3, <2>4 DEF MarkUnknown
<1>12. QED
  BY <1>8, <1>9, <1>10, <1>11
-----------------------------------------------------------------------------
(* Step by step: with the packet at hand.                                  *)
LEMMA CarrierOf ==
    ASSUME RowInv, ChainInv, NEW p \in Workers, worker[p].pc \in CarryPc, NEW w \in Works, worker[p].work = w
    PROVE  /\ CarrierFits(worker[p], disk[w], Calls(w), States(w), flow[w])
           /\ WorkFits(disk[w], Calls(w), States(w), flow[w])
           /\ Valuing(worker[p]) => disk[w].intent /\ disk[w].decision = "none"
           /\ disk[w].results \subseteq Allowances /\ disk[w] \in Disk
           /\ worker[p] \in Memory /\ worker[p].packet \in Packets /\ worker[p].packet # "none"
  BY WorkerFits, MemoryOfInv DEF MemoryFits, Disk, Memory, Reasoned

(* A worker with a packet at hand saves a record, and goes on.             *)
LEMMA ChainKeeps ==
    ASSUME RowInv, ChainInv, NEW p \in Workers, NEW w \in Works, worker[p].work = w,
           NEW pc \in CarryPc, pc \notin {"weigh", "doubt"}, Goes(p, pc), UNCHANGED <<rsv, calls, flow>>,
           NEW d, disk' = [disk EXCEPT ![w] = d],
           Grows(disk[w], Calls(w), States(w), flow[w], d, Calls(w), States(w)),
           WorkFits(d, Calls(w), States(w), flow[w]),
           \A m \in Memory : m.pc = pc /\ m.packet = worker[p].packet
                                => CarrierFits(m, d, Calls(w), States(w), flow[w]),
           d.decision # disk[w].decision => Valuing(worker[p])
    PROVE  ChainInv'
<1> DEFINE m == [worker[p] EXCEPT !.pc = pc]
<1>1. m \in Memory /\ m.pc = pc /\ m.work = w /\ m.packet = worker[p].packet
  BY MemoryOfInv DEF Memory, CarryPc, Pc
<1>2. Becomes(p, m)
  BY DEF Goes, Becomes
<1> HIDE DEF m
<1>3. m.pc \notin BuyPc /\ m.pc # "placed" /\ ~Valuing(m)
  BY <1>1 DEF BuyPc, CarryPc, Valuing
<1>4. MemoryFits(m, d, Calls(w), States(w), flow[w])
  BY <1>1, <1>3 DEF MemoryFits
<1>5. QED
  BY <1>1, <1>2, <1>3, <1>4, ChainSaves

LEMMA NotBoth == FollowedUp \cap Articles = {} /\ "proposed" \in Articles
  BY DEF FollowedUp, Articles

LEMMA ChainFollows ==
    ASSUME RowInv, ChainInv, NEW p \in Workers, FollowUp(p) \/ Judge(p) \/ RecordFails(p) PROVE ChainInv'
<1>0. PICK w \in Works : worker[p].work = w
  BY MemoryOfInv
<1>1. worker[p].pc \in CarryPc /\ UNCHANGED <<disk, rsv, calls, flow>>
  BY DEF FollowUp, Judge, RecordFails, At, CarryPc, store, ledger, others
<1>2. /\ CarrierFits(worker[p], disk[w], Calls(w), States(w), flow[w])
      /\ WorkFits(disk[w], Calls(w), States(w), flow[w])
      /\ disk[w] \in Disk /\ worker[p] \in Memory /\ worker[p].packet \in Packets
  BY <1>0, <1>1, CarrierOf
<1>3. CASE Becomes(p, Held(p))
  BY <1>1, <1>3, ChainHeld
<1>4. ASSUME worker[p].pc \in FollowPc \ {"resolve"},
             NEW pc \in {"admit", "consent", "judge", "regather", "resolve", "doubt"}, Goes(p, pc),
             pc = "doubt" => worker[p].pc = "weigh"
      PROVE  ChainInv'
  <2>1. pc \in CarryPc /\ pc \in FollowPc
    BY <1>4 DEF CarryPc, FollowPc
  <2>2. Backed("bought", Calls(w), States(w), flow[w])
    BY <1>2, <1>4, NotBoth DEF CarrierFits, Backed
  <2>3. \A m \in Memory : m.pc = pc /\ m.packet = worker[p].packet
           => CarrierFits(m, disk[w], Calls(w), States(w), flow[w])
    BY <1>2, <1>4, <2>1, <2>2 DEF CarrierFits
  <2>4. pc \in {"weigh", "doubt"} => Valuing(worker[p])
    BY <1>4 DEF Valuing
  <2>5. QED
    BY <1>0, <1>1, <1>4, <2>1, <2>3, <2>4, ChainGoes
<1>5. CASE FollowUp(p)
  <2> DEFINE final == disk[w].final
  <2>1. CASE final # "none" /\ Becomes(p, [worker[p] EXCEPT !.packet = final, !.pc = "handoff"])
    <3> DEFINE m == [worker[p] EXCEPT !.packet = final, !.pc = "handoff"]
    <3>0. final \in Packets /\ "handoff" \in Pc
      BY <1>2 DEF Disk, Pc
    <3>1. m \in Memory /\ m.pc = "handoff" /\ m.packet = final /\ m.work = w
      BY <1>0, <1>2, <3>0 DEF Memory
    <3>2. Becomes(p, m)
      BY <2>1
    <3> HIDE DEF m
    <3>3. Handable(final, disk[w], flow[w]) /\ Backed(final, Calls(w), States(w), flow[w])
      BY <1>2, <2>1 DEF WorkFits, Handable
    <3>4. MemoryFits(m, disk[w], Calls(w), States(w), flow[w]) /\ ~Valuing(m)
      BY <3>1, <3>3 DEF MemoryFits, CarrierFits, Valuing, BuyPc, FollowPc
    <3>5. QED
      BY <1>0, <1>1, <3>1, <3>2, <3>4, ChainStay
  <2>2. worker[p].pc \in FollowPc \ {"resolve"}
    BY <1>5 DEF FollowUp, At, FollowPc
  <2>3. QED
    BY <1>0, <1>3, <1>4, <1>5, <2>1, <2>2 DEF FollowUp
<1>6. CASE Judge(p)
  <2>1. worker[p].pc = "judge" /\ worker[p].pc \in FollowPc \ {"resolve"}
    BY <1>6 DEF Judge, At, FollowPc
  <2>2. CASE BuysFollowUp(disk[w]) /\ Spends(p, "followup", worker[p].packet)
    <3>1. Prior("followup", disk[w], Calls(w), States(w), flow[w])
      BY <1>2, <2>1, <2>2 DEF Prior, BuysFollowUp, CarrierFits, WorkFits
    <3>2. "followup" \in Allowances /\ worker[p].packet = "bought"
      BY <1>2, <2>1 DEF Allowances, CarrierFits
    <3>3. QED
      BY <1>0, <1>1, <1>2, <2>2, <3>1, <3>2, ChainSpends
  <2>3. QED
    BY <1>0, <1>4, <1>6, <2>1, <2>2 DEF Judge
<1>7. CASE RecordFails(p)
  <2>1. CASE worker[p].pc = "weigh" /\ Becomes(p, [worker[p] EXCEPT !.pc = "doubt"])
    <3>1. Goes(p, "doubt") /\ worker[p].pc \in FollowPc \ {"resolve"}
      BY <2>1 DEF Becomes, Goes, FollowPc
    <3>2. QED
      BY <1>4, <2>1, <3>1
  <2>2. QED
    BY <1>3, <1>7, <2>1 DEF RecordFails, At
<1>8. QED
  BY <1>5, <1>6, <1>7

LEMMA ChainSavesPacket == ASSUME RowInv, ChainInv, NEW p \in Workers, SavePacket(p) PROVE ChainInv'
<1> DEFINE packet == worker[p].packet
<1>0. PICK w \in Works : worker[p].work = w
  BY MemoryOfInv
<1>1. worker[p].pc = "save" /\ worker[p].pc \in CarryPc /\ UNCHANGED <<rsv, calls, flow>>
  BY DEF SavePacket, At, CarryPc, ledger, others
<1>2. /\ CarrierFits(worker[p], disk[w], Calls(w), States(w), flow[w])
      /\ WorkFits(disk[w], Calls(w), States(w), flow[w])
      /\ disk[w] \in Disk /\ disk \in [Works -> Disk] /\ disk[w].results \subseteq Allowances
      /\ packet \in {"bought", "reused"}
  BY <1>0, <1>1, CarrierOf, MemoryOfInv DEF Reasoned, RowInv, TypeOK
<1>3. CASE Becomes(p, Held(p)) /\ UNCHANGED disk
  BY <1>1, <1>3, ChainHeld
<1>4. CASE disk[w].baseline \in {"none", packet} /\ Save(w, "baseline", packet) /\ Goes(p, AfterSave(p))
  <2> DEFINE d == [disk[w] EXCEPT !.baseline = packet]
  <2>1. disk' = [disk EXCEPT ![w] = d]
    BY <1>2, <1>4 DEF Save
  <2>2. /\ d.baseline = packet /\ d.results = disk[w].results /\ d.decision = disk[w].decision
        /\ d.intent = disk[w].intent /\ d.captures = disk[w].captures /\ d.final = disk[w].final
        /\ d.packet = disk[w].packet
    BY <1>2 DEF Disk
  <2> HIDE DEF d
  <2>3. flow[w] \notin Articles /\ (packet = "bought" => disk[w].baseline = "bought" /\ Closed("primary", Calls(w), States(w)))
    BY <1>1, <1>2 DEF CarrierFits
  <2>4. Grows(disk[w], Calls(w), States(w), flow[w], d, Calls(w), States(w))
    BY <1>4, <2>2 DEF Grows
  <2>5. WorkFits(d, Calls(w), States(w), flow[w])
    BY <1>2, <1>4, <2>2, <2>3, <2>4, WorkGrows
  <2>6. Backed(packet, Calls(w), States(w), flow[w])
    BY <1>2, <2>3, NotBoth DEF Backed
  <2> DEFINE Kept(pc) == \A m \in Memory : m.pc = pc /\ m.packet = packet => CarrierFits(m, d, Calls(w), States(w), flow[w])
  <2>0. ASSUME NEW pc \in {"followup", "handoff"}, Goes(p, pc), Kept(pc) PROVE ChainInv'
    <3>1. pc \in CarryPc /\ pc \notin {"weigh", "doubt"} /\ d.decision = disk[w].decision
      BY <2>2 DEF CarryPc
    <3>2. \A m \in Memory : m.pc = pc /\ m.packet = worker[p].packet => CarrierFits(m, d, Calls(w), States(w), flow[w])
      BY <2>0
    <3>3. QED
      BY <1>0, <1>1, <2>0, <2>1, <2>4, <2>5, <3>1, <3>2, ChainKeeps
  <2>7. CASE packet = "bought" /\ flow[w] \in FollowedUp
    <3>1. AfterSave(p) = "followup" /\ "followup" \in CarryPc
      BY <1>0, <2>7 DEF AfterSave, FollowedUp, CarryPc
    <3>2. Kept("followup")
      BY <2>2, <2>3, <2>7 DEF CarrierFits
    <3>3. Goes(p, "followup")
      BY <1>4, <3>1
    <3>4. QED
      BY <2>0, <3>2, <3>3
  <2>8. CASE ~(packet = "bought" /\ flow[w] \in FollowedUp)
    <3>1. AfterSave(p) = "handoff" /\ "handoff" \in CarryPc
      BY <1>0, <2>8 DEF AfterSave, FollowedUp, CarryPc
    <3>2. Handable(packet, d, flow[w])
      BY <1>2, <2>2, <2>5, <2>8 DEF Handable, WorkFits
    <3>3. Kept("handoff")
      BY <2>6, <3>2 DEF CarrierFits, FollowPc
    <3>4. Goes(p, "handoff")
      BY <1>4, <3>1
    <3>5. QED
      BY <2>0, <3>3, <3>4
  <2>9. QED
    BY <2>7, <2>8
<1>5. QED
  BY <1>0, <1>3, <1>4 DEF SavePacket

(* The question is asked: nobody has asked it before.                      *)
LEMMA ChainPledges == ASSUME RowInv, ChainInv, NEW p \in Workers, Pledge(p) PROVE ChainInv'
<1>0. PICK w \in Works : worker[p].work = w
  BY MemoryOfInv
<1>1. worker[p].pc = "pledge" /\ worker[p].pc \in CarryPc /\ worker[p].pc \in FollowPc \ {"resolve"}
      /\ UNCHANGED <<rsv, calls, flow>>
  BY DEF Pledge, At, CarryPc, FollowPc, ledger, others
<1>2. /\ CarrierFits(worker[p], disk[w], Calls(w), States(w), flow[w])
      /\ WorkFits(disk[w], Calls(w), States(w), flow[w])
      /\ disk[w] \in Disk /\ disk \in [Works -> Disk] /\ disk[w].results \subseteq Allowances
      /\ worker[p].packet = "bought"
  BY <1>0, <1>1, CarrierOf DEF CarrierFits, RowInv, TypeOK
<1>3. CASE Becomes(p, Held(p)) /\ UNCHANGED disk
  BY <1>1, <1>3, ChainHeld
<1>4. CASE ~disk[w].intent /\ Save(w, "intent", TRUE) /\ Spends(p, "value", worker[p].packet)
  <2> DEFINE d == [disk[w] EXCEPT !.intent = TRUE]
  <2>1. disk' = [disk EXCEPT ![w] = d]
    BY <1>2, <1>4 DEF Save
  <2>2. /\ d.baseline = disk[w].baseline /\ d.results = disk[w].results /\ d.decision = disk[w].decision
        /\ d.intent = TRUE /\ d.captures = disk[w].captures /\ d.final = disk[w].final
        /\ d.packet = disk[w].packet
    BY <1>2 DEF Disk
  <2> HIDE DEF d
  <2>3. d.decision = "none"
    BY <1>2, <1>4, <2>2 DEF WorkFits
  <2>4. Grows(disk[w], Calls(w), States(w), flow[w], d, Calls(w), States(w))
    BY <2>2 DEF Grows
  <2>5. WorkFits(d, Calls(w), States(w), flow[w])
    BY <1>2, <2>2, <2>4, WorkGrows
  <2>6. "value" \in Allowances /\ "bought" \in Packets
    BY DEF Allowances, Packets
  <2>7. PICK m \in Memory :
           /\ Becomes(p, m) /\ m.pc = "list" /\ m.work = worker[p].work
           /\ m.buying = "value" /\ m.packet = "bought" /\ m.seen = Absent /\ m.why = "none"
    BY <1>2, <1>4, <2>6, SpendsMemory
  <2>8. Prior("value", d, Calls(w), States(w), flow[w])
    BY <1>1, <1>2, <2>2 DEF Prior, CarrierFits
  <2>9. MemoryFits(m, d, Calls(w), States(w), flow[w])
    BY <2>7, <2>8 DEF MemoryFits, BuyerFits, CarryPc
  <2>10. QED
    BY <1>0, <1>1, <1>4, <2>1, <2>2, <2>3, <2>4, <2>5, <2>7, <2>9, ChainSaves
<1>5. QED
  BY <1>0, <1>3, <1>4 DEF Pledge

(* The other records of a follow-up.                                       *)
LEMMA ChainFiles ==
    ASSUME RowInv, ChainInv, NEW p \in Workers,
           Admit(p) \/ Weigh(p) \/ Doubt(p) \/ Gather(p) \/ Resolve(p)
    PROVE  ChainInv'
<1>0. PICK w \in Works : worker[p].work = w
  BY MemoryOfInv
<1>1. worker[p].pc \in CarryPc /\ worker[p].pc \in FollowPc /\ UNCHANGED <<rsv, calls, flow>>
      /\ (worker[p].pc = "resolve" => Resolve(p))
  BY DEF Admit, Weigh, Doubt, Gather, Resolve, At, CarryPc, FollowPc, ledger, others
<1>2. /\ CarrierFits(worker[p], disk[w], Calls(w), States(w), flow[w])
      /\ WorkFits(disk[w], Calls(w), States(w), flow[w])
      /\ disk[w] \in Disk /\ disk \in [Works -> Disk] /\ disk[w].results \subseteq Allowances
      /\ worker[p].packet # "none"
      /\ Valuing(worker[p]) => disk[w].intent /\ disk[w].decision = "none"
  BY <1>0, <1>1, CarrierOf DEF RowInv, TypeOK
<1>3. /\ disk[w].baseline = "bought" /\ flow[w] \in FollowedUp /\ Closed("primary", Calls(w), States(w))
      /\ worker[p].pc # "resolve" => worker[p].packet = "bought"
  BY <1>1, <1>2 DEF CarrierFits
<1>4. CASE Becomes(p, Held(p)) /\ UNCHANGED disk
  BY <1>1, <1>4, ChainHeld
<1>5. CASE Admit(p) /\ Save(w, "admission", TRUE) /\ Goes(p, "resolve")
  <2> DEFINE d == [disk[w] EXCEPT !.admission = TRUE]
  <2> DEFINE m == [worker[p] EXCEPT !.pc = "resolve"]
  <2>1. disk' = [disk EXCEPT ![w] = d]
    BY <1>2, <1>5 DEF Save
  <2>2. Alike(disk[w], d)
    BY <1>2 DEF Alike, Disk
  <2>3. m \in Memory /\ m.pc = "resolve" /\ m.work = w /\ m.packet = worker[p].packet
    BY <1>0, MemoryOfInv DEF Memory, Pc
  <2>4. Becomes(p, m) /\ worker[p].packet = "bought"
    BY <1>3, <1>5 DEF Goes, Becomes, Admit, At
  <2> HIDE DEF d, m
  <2>5. Backed("bought", Calls(w), States(w), flow[w])
    BY <1>3, NotBoth DEF Backed
  <2>6. MemoryFits(m, disk[w], Calls(w), States(w), flow[w]) /\ ~Valuing(m)
    BY <1>3, <2>3, <2>4, <2>5 DEF MemoryFits, CarrierFits, Valuing, BuyPc
  <2>7. QED
    BY <1>0, <1>1, <2>1, <2>2, <2>3, <2>4, <2>6, ChainRecords
<1>6. ASSUME NEW pc \in {"judge", "handoff"}, Goes(p, pc), NEW d, disk' = [disk EXCEPT ![w] = d],
             d.baseline = disk[w].baseline, d.results = disk[w].results, d.intent = disk[w].intent,
             d.packet = disk[w].packet,
             d.captures = disk[w].captures \/ disk[w].captures # "some",
             d.decision = disk[w].decision
                \/ (Valuing(worker[p]) /\ (d.decision = "worthwhile" => Closed("value", Calls(w), States(w)))),
             d.final = disk[w].final
                \/ (disk[w].final = "none" /\ Backed(d.final, Calls(w), States(w), flow[w])),
             pc = "judge" => worker[p].pc # "resolve",
             pc = "handoff" => /\ d.final = worker[p].packet
                               /\ Backed(worker[p].packet, Calls(w), States(w), flow[w])
      PROVE  ChainInv'
  <2>1. Grows(disk[w], Calls(w), States(w), flow[w], d, Calls(w), States(w))
    BY <1>2, <1>3, <1>6 DEF Grows
  <2>2. WorkFits(d, Calls(w), States(w), flow[w])
    BY <1>2, <1>6, <2>1, WorkGrows
  <2>3. ASSUME NEW m \in Memory, m.pc = pc, m.packet = worker[p].packet
        PROVE  CarrierFits(m, d, Calls(w), States(w), flow[w])
    <3>1. Handable(worker[p].packet, d, flow[w]) \/ pc = "judge"
      BY <1>2, <1>6 DEF Handable
    <3>2. QED
      BY <1>3, <1>6, <2>3, <3>1 DEF CarrierFits, FollowPc
  <2>4. pc \in CarryPc /\ pc \notin {"weigh", "doubt"}
    BY DEF CarryPc
  <2>5. QED
    BY <1>0, <1>1, <1>6, <2>1, <2>2, <2>3, <2>4, ChainKeeps
<1>7. CASE Weigh(p) \/ Doubt(p)
  <2>1. PICK decision \in {"worthwhile", "other"} :
           /\ Save(w, "decision", decision) /\ Goes(p, "judge")
           /\ decision = "worthwhile" => worker[p].pc = "weigh"
    BY <1>0, <1>7 DEF Weigh, Doubt, At
  <2> DEFINE d == [disk[w] EXCEPT !.decision = decision]
  <2>2. disk' = [disk EXCEPT ![w] = d]
    BY <1>2, <2>1 DEF Save
  <2>3. /\ d.baseline = disk[w].baseline /\ d.results = disk[w].results /\ d.decision = decision
        /\ d.intent = disk[w].intent /\ d.captures = disk[w].captures /\ d.final = disk[w].final
        /\ d.packet = disk[w].packet
    BY <1>2 DEF Disk
  <2> HIDE DEF d
  <2>4. Valuing(worker[p]) /\ worker[p].pc # "resolve"
    BY <1>7 DEF Weigh, Doubt, At, Valuing
  <2>5. decision = "worthwhile" => Closed("value", Calls(w), States(w))
    BY <1>2, <2>1 DEF CarrierFits
  <2>6. QED
    BY <1>6, <2>1, <2>2, <2>3, <2>4, <2>5
<1>8. CASE Gather(p) /\ ~UNCHANGED disk
  <2>1. PICK captures \in {"empty", "some"} :
           Save(w, "captures", captures) /\ Goes(p, "judge") /\ disk[w].captures # "some" /\ worker[p].pc # "resolve"
    BY <1>0, <1>8 DEF Gather, At
  <2> DEFINE d == [disk[w] EXCEPT !.captures = captures]
  <2>2. disk' = [disk EXCEPT ![w] = d]
    BY <1>2, <2>1 DEF Save
  <2>3. /\ d.baseline = disk[w].baseline /\ d.results = disk[w].results /\ d.decision = disk[w].decision
        /\ d.intent = disk[w].intent /\ d.final = disk[w].final /\ d.packet = disk[w].packet
    BY <1>2 DEF Disk
  <2> HIDE DEF d
  <2>4. QED
    BY <1>6, <2>1, <2>2, <2>3
<1>9. CASE disk[w].final \in {"none", worker[p].packet} /\ Save(w, "final", worker[p].packet) /\ Goes(p, "handoff")
           /\ Resolve(p)
  <2> DEFINE d == [disk[w] EXCEPT !.final = worker[p].packet]
  <2>2. disk' = [disk EXCEPT ![w] = d]
    BY <1>2, <1>9 DEF Save
  <2>3. /\ d.baseline = disk[w].baseline /\ d.results = disk[w].results /\ d.decision = disk[w].decision
        /\ d.intent = disk[w].intent /\ d.captures = disk[w].captures /\ d.final = worker[p].packet
        /\ d.packet = disk[w].packet
    BY <1>2 DEF Disk
  <2> HIDE DEF d
  <2>4. Backed(worker[p].packet, Calls(w), States(w), flow[w])
    BY <1>2, <1>9 DEF CarrierFits, Resolve, At
  <2>5. QED
    BY <1>6, <1>9, <2>2, <2>3, <2>4
<1>10. CASE Gather(p) /\ UNCHANGED disk
  <2>1. CASE Becomes(p, Held(p))
    BY <1>4, <1>10, <2>1
  <2>2. CASE \E captures \in {"empty", "some"} : Save(w, "captures", captures) /\ Goes(p, "judge")
    <3>1. Goes(p, "judge") /\ disk' = [disk EXCEPT ![w] = disk[w]] /\ worker[p].pc # "resolve"
      BY <1>2, <1>10, <2>2 DEF Gather, At
    <3>2. QED
      BY <1>6, <3>1
  <2>3. QED
    BY <1>0, <1>10, <2>1, <2>2 DEF Gather
<1>11. QED
  BY <1>0, <1>4, <1>5, <1>7, <1>8, <1>9, <1>10 DEF Admit, Resolve

LEMMA ChainHandsOff == ASSUME RowInv, ChainInv, NEW p \in Workers, CommitHandoff(p) PROVE ChainInv'
<1>0. PICK w \in Works : worker[p].work = w
  BY MemoryOfInv
<1>1. worker[p].pc = "handoff" /\ worker[p].pc \in CarryPc /\ UNCHANGED <<rsv, calls, flow>> /\ Ends(p)
  BY DEF CommitHandoff, At, CarryPc, ledger, others
<1>2. /\ CarrierFits(worker[p], disk[w], Calls(w), States(w), flow[w])
      /\ WorkFits(disk[w], Calls(w), States(w), flow[w])
      /\ disk[w] \in Disk /\ disk \in [Works -> Disk] /\ disk[w].results \subseteq Allowances
  BY <1>0, <1>1, CarrierOf DEF RowInv, TypeOK
<1>3. CASE UNCHANGED disk
  BY <1>1, <1>3, ChainHeld
<1>4. CASE \E readiness \in {"ready", "resolved", "failed"} : HandsOff(w, worker[p].packet, readiness)
  <2>1. PICK readiness \in {"ready", "resolved", "failed"} : HandsOff(w, worker[p].packet, readiness)
    BY <1>4
  <2> DEFINE d == [disk[w] EXCEPT !.packet = worker[p].packet, !.readiness = readiness]
  <2>2. disk' = [disk EXCEPT ![w] = d]
    BY <1>2, <2>1 DEF HandsOff, Disk
  <2>3. /\ d.baseline = disk[w].baseline /\ d.results = disk[w].results /\ d.decision = disk[w].decision
        /\ d.intent = disk[w].intent /\ d.captures = disk[w].captures /\ d.final = disk[w].final
        /\ d.packet = worker[p].packet
    BY <1>2 DEF Disk
  <2> HIDE DEF d
  <2>4. Grows(disk[w], Calls(w), States(w), flow[w], d, Calls(w), States(w))
    BY <2>3 DEF Grows
  <2>5. Handable(worker[p].packet, d, flow[w]) /\ Backed(worker[p].packet, Calls(w), States(w), flow[w])
    BY <1>1, <1>2, <2>3 DEF CarrierFits, Handable
  <2>6. WorkFits(d, Calls(w), States(w), flow[w])
    BY <1>2, <2>3, <2>4, <2>5, WorkGrows
  <2>7. Idle \in Memory /\ Idle.pc = "idle" /\ Becomes(p, Idle)
    BY <1>0, <1>1, IdleMemory DEF Ends
  <2>8. ~Valuing(Idle)
    BY <2>7 DEF Valuing, BuyPc
  <2>9. QED
    BY <1>0, <1>1, <2>2, <2>3, <2>4, <2>6, <2>7, <2>8, ChainSaves
<1>5. QED
  BY <1>0, <1>3, <1>4 DEF CommitHandoff
-----------------------------------------------------------------------------
(* Every step.                                                             *)
LEMMA ChainClaim == ASSUME RowInv, ChainInv, NEW p \in Workers, NEW w \in Works, Claim(p, w) PROVE ChainInv'
<1> DEFINE m == [Blank(w) EXCEPT !.pc = IF row[w].status = "research_pending" THEN "plan" ELSE "prepare"]
<1>1. m \in Memory /\ m.pc \in {"plan", "prepare"}
  BY IdleMemory DEF Memory, Blank, Pc
<1>2. worker' = [worker EXCEPT ![p] = m] /\ UNCHANGED <<disk, rsv, calls, flow>>
  BY DEF Claim, ledger
<1> HIDE DEF m
<1>3. ~Valuing(m) /\ \A d, c, s, f : MemoryFits(m, d, c, s, f)
  BY <1>1, TrivialFits DEF BuyPc, CarryPc
<1>4. \A v : Calls(v)' = Calls(v) /\ States(v)' = States(v)
  BY <1>2 DEF Calls, States
<1>5. \A q \in Workers : worker'[q] = IF q = p THEN m ELSE worker[q]
  BY <1>2 DEF RowInv, TypeOK
<1>6. ASSUME NEW q \in Workers
      PROVE  /\ MemoryFits(worker'[q], disk'[worker'[q].work], Calls(worker[q].work)', States(worker[q].work)',
                           flow'[worker'[q].work])
             /\ Valuing(worker'[q]) => disk'[worker'[q].work].intent /\ disk'[worker'[q].work].decision = "none"
  <2>1. CASE q = p
    BY <1>3, <1>5, <2>1
  <2>2. CASE q # p
    <3>1. PICK v \in Works : v = worker[q].work
      BY MemoryOfInv
    <3>2. worker'[q] = worker[q]
      BY <1>5, <2>2
    <3>3. Calls(worker[q].work)' = Calls(v) /\ States(worker[q].work)' = States(v)
      BY <1>2, <3>1, <3>2 DEF Calls, States
    <3>4. QED
      BY <1>2, <3>1, <3>2, <3>3 DEF ChainInv
  <2>3. QED
    BY <2>1, <2>2
<1>7. \A v \in Works : WorkFits(disk'[v], Calls(v)', States(v)', flow'[v])
  BY <1>2, <1>4 DEF ChainInv
<1>8. \A q, o \in Workers :
         Valuing(worker'[q]) /\ Valuing(worker'[o]) /\ worker'[q].work = worker'[o].work => q = o
  BY <1>3, <1>5 DEF ChainInv
<1>9. QED
  BY <1>6, <1>7, <1>8 DEF ChainInv

LEMMA ChainInit == Init => ChainInv
<1> SUFFICES ASSUME Init PROVE ChainInv
  OBVIOUS
<1>1. PICK w \in Works : TRUE
  BY WorksAssumption
<1>2. /\ disk = [v \in Works |-> NothingSaved] /\ calls = [k \in Purchases |-> 0]
      /\ worker = [p \in Workers |-> Idle] /\ Idle.pc = "idle"
  BY <1>1, IdleMemory DEF Init
<1>3. ~Valuing(Idle) /\ \A d, c, s, f : MemoryFits(Idle, d, c, s, f)
  BY <1>2, TrivialFits DEF BuyPc, CarryPc
<1>4. \A v \in Works, a \in Allowances : Calls(v)[a] = 0
  BY <1>2 DEF Calls, Purchases
<1>5. /\ NothingSaved.baseline = "none" /\ NothingSaved.results = {} /\ NothingSaved.decision = "none"
      /\ NothingSaved.final = "none" /\ NothingSaved.packet = "none"
  BY DEF NothingSaved
<1>6. \A v \in Works : WorkFits(disk[v], Calls(v), States(v), flow[v])
  BY <1>2, <1>4, <1>5 DEF WorkFits
<1>7. QED
  BY <1>2, <1>3, <1>6 DEF ChainInv

LEMMA ChainInvStep == RowInv /\ PaidInv /\ ChainInv /\ [Next]_vars => ChainInv'
<1> SUFFICES ASSUME RowInv, PaidInv, ChainInv, [Next]_vars PROVE ChainInv'
  OBVIOUS
<1>1. ASSUME UNCHANGED <<worker, disk, rsv, calls, flow>> PROVE ChainInv'
  BY <1>1, NothingBooked, ChainOutside
<1>2. ASSUME NEW p \in Workers, WorkerStep(p) \/ Heartbeat(p) \/ Crash(p) PROVE ChainInv'
  <2>1. CASE Retrieves(p)
    BY <2>1, ChainRetrieval
  <2>2. CASE Buys(p)
    BY <2>2, ChainClaims, ChainDecides, ChainOwns, ChainIntends, ChainSends, ChainAnswers, ChainSettles DEF Buys
  <2>3. CASE FollowsUp(p)
    BY <2>3, ChainFollows, ChainPledges, ChainFiles DEF FollowsUp
  <2>4. CASE Synthesizes(p)
    BY <2>2, <2>3, <2>4, ChainChoice, ChainSavesPacket, ChainFollows, ChainHandsOff DEF Synthesizes
  <2>5. CASE Heartbeat(p)
    BY <1>1, <2>5 DEF Heartbeat, ledger, others
  <2>6. CASE Crash(p)
    BY <2>6, ChainHeld DEF Crash, store, ledger, others
  <2>7. QED
    BY <1>2, <2>1, <2>4, <2>5, <2>6 DEF WorkerStep
<1>3. ASSUME NEW k \in Purchases, SweepSettles(k) PROVE ChainInv'
  <2>1. UNCHANGED <<worker, disk, calls, flow>>
    BY <1>3 DEF SweepSettles
  <2>2. CASE UNCHANGED rsv
    BY <1>1, <2>1, <2>2
  <2>3. CASE ~UNCHANGED rsv
    <3> DEFINE r == Settled(rsv[k], rsv[k], NoResult, CallLimit)
    <3>1. rsv[k] \in Reservation /\ NoResult \in Results \cup {NoResult}
      BY StoreTypes
    <3>2. r \in Reservation /\ r.state = "settled"
      BY <3>1, WrittenReservation DEF Settled, Reservation
    <3>3. /\ rsv' = [rsv EXCEPT ![k] = r]
          /\ rsv[k].state \in {"dispatch_intent", "execution_outcome_unknown"}
      BY <1>3, <2>3 DEF SweepSettles, SetReservation, MaySettle, ledger
    <3> HIDE DEF r
    <3>4. Booked
      BY <3>2, <3>3 DEF Booked, Advances
    <3>5. QED
      BY <2>1, <3>4, ChainOutside
  <2>4. QED
    BY <2>2, <2>3
<1>4. CASE Recover \/ SweepStarts \/ (\E w \in Works : SweepMoves(w) \/ Requeue(w)) \/ Tick
  BY <1>1, <1>4 DEF Recover, SweepStarts, SweepMoves, Requeue, Tick, store, ledger, others
<1>5. CASE UNCHANGED vars
  BY <1>1, <1>5 DEF vars, store, ledger, others
<1>6. QED
  BY <1>2, <1>3, <1>4, <1>5, ChainClaim DEF Next

LEMMA ChainInvariant == Spec => []ChainInv
<1>1. Init => ChainInv
  BY ChainInit
<1>2. RowInv /\ PaidInv /\ ChainInv /\ [Next]_vars => ChainInv'
  BY ChainInvStep
<1>3. QED
  BY <1>1, <1>2, RowInvariant, PaidInvariant, PTL DEF Spec

(* Whichever worker bought, found or replayed it, the packet handed off is *)
(* the immutable record of its work.                                       *)
THEOREM HandoffIsTheRecord == Spec => []PacketIsBaseline
<1>1. ChainInv => PacketIsBaseline
  BY DEF ChainInv, WorkFits, Handable, PacketIsBaseline
<1>2. QED
  BY <1>1, ChainInvariant, PTL

(* No bought packet reaches Entity before every purchase it rests on was   *)
(* called once and its account closed.                                     *)
THEOREM AccountsAreClosedFirst == Spec => []BoughtIsSettled
<1>1. ASSUME ChainInv, RowInv, NEW w \in Works, disk[w].packet # "none", NEW a \in Backing(w)
      PROVE  calls[<<w, a>>] = 1 /\ rsv[<<w, a>>].state = "settled"
  <2>1. Backed(disk[w].packet, Calls(w), States(w), flow[w])
    BY <1>1 DEF ChainInv, WorkFits
  <2>2. disk[w].packet \in Packets
    BY <1>1 DEF RowInv, TypeOK, Disk
  <2>3. a \in Allowances /\ Closed(a, Calls(w), States(w))
    BY <1>1, <2>1, <2>2 DEF Backed, Backing, Packets, Articles, Allowances
  <2>4. QED
    BY <2>3 DEF Closed, Calls, States
<1>2. ChainInv /\ RowInv => BoughtIsSettled
  BY <1>1 DEF BoughtIsSettled
<1>3. QED
  BY <1>2, ChainInvariant, RowInvariant, PTL

(* The next purchase of a chain is never on its way before the one it      *)
(* builds on has closed its account.                                       *)
THEOREM SpendingIsOrdered == Spec => []SpendsInOrder
<1>1. ASSUME ChainInv, PaidInv, NEW w \in Works, NEW a \in Allowances, calls[<<w, a>>] > 0
      PROVE  Prior(a, disk[w], Calls(w), States(w), flow[w])
  <2>1. <<w, a>> \in Purchases
    BY DEF Purchases
  <2>2. calls[<<w, a>>] = 1
    BY <1>1, <2>1 DEF PaidInv
  <2>3. QED
    BY <1>1, <2>2 DEF ChainInv, WorkFits, Calls
<1>2. \A w \in Works, a \in Allowances :
         Closed(a, Calls(w), States(w)) <=> calls[<<w, a>>] = 1 /\ rsv[<<w, a>>].state = "settled"
  BY DEF Closed, Calls, States
<1>3. {"placement", "proposal", "primary", "value", "followup"} \subseteq Allowances
  BY DEF Allowances
<1>4. ChainInv /\ PaidInv => SpendsInOrder
  BY <1>1, <1>2, <1>3 DEF SpendsInOrder, Prior
<1>5. QED
  BY <1>4, ChainInvariant, PaidInvariant, PTL
=============================================================================

------------------------ MODULE SourceIntake_proofs ------------------------
(***************************************************************************)
(* Source intake is safe for any number of signals, ingestors, backfills   *)
(* and faults and for any limits: its invariants, that every step of it is *)
(* a step of AdmittedOnce or changes nothing of what that promises, and    *)
(* which pauses last for good.                                             *)
(***************************************************************************)
EXTENDS SourceIntake, WellFoundedInduction, TLAPS

(* The oldest of a batch is one of the batch.                              *)
LEMMA MinOf == ASSUME NEW S \in SUBSET Nat, S # {} PROVE Min(S) \in S
<1>1. PICK x \in S : \A y \in S : ~ (<<y, x>> \in OpToRel(<, Nat))
  BY NatLessThanWellFounded, WFMin
<1>2. \A y \in S : ~(y < x)
  BY <1>1 DEF OpToRel
<1>3. \E m \in S : \A y \in S : m =< y
  BY <1>2
<1>4. QED
  BY <1>3 DEF Min

(* What a run or a backfill remembers is borne out by the rows: it works   *)
(* on observed signals only, and once past the write of the signal, on one *)
(* that is kept.                                                           *)
MemoryFits(m, outbox_, kept_) ==
    /\ m \in Memory
    /\ \A s \in m.batch : outbox_[s] # "absent"
    /\ m.pc \in {"keep", "load", "decided", "acknowledge"} => m.batch # {}
    /\ m.pc \in {"load", "decided", "acknowledge"} => kept_[Min(m.batch)] # "absent"
    /\ m.pc = "decided" => m.outcome \in {"research", "no_work"}

MemoryIsTrue == \A p \in Actors : MemoryFits(actor[p], outbox, kept)

(* What was observed has a queue row and an obligation, what is decided or *)
(* delivered is kept, and what is kept was observed.                       *)
RowsAgree ==
    \A s \in Signals :
       /\ queue[s] = "absent" <=> outbox[s] = "absent"
       /\ kept[s] # "absent" => outbox[s] # "absent"
       /\ outbox[s] = "delivered" => kept[s] # "absent"
       /\ unit[s] # "none" => kept[s] # "absent"

(* Neither is inductive without the other: that an acknowledged signal is  *)
(* kept rests on what the acknowledging run remembers.                     *)
IntakeInv ==
    TypeOK /\ RowsAgree /\ MemoryIsTrue /\ WorkMatchesDecision /\ OneOwnerAtWork

LEMMA CurrentOf ==
    ASSUME TypeOK, MemoryIsTrue, NEW p \in Actors, actor[p].batch # {}
    PROVE  /\ Current(p) \in actor[p].batch
           /\ Current(p) \in Signals
           /\ outbox[Current(p)] # "absent"
<1>1. actor[p] \in Memory /\ actor[p].batch \subseteq Signals
  BY DEF TypeOK, Memory
<1>2. actor[p].batch \in SUBSET Nat
  BY <1>1, LimitAssumption DEF Signals
<1>3. QED
  BY <1>1, <1>2, MinOf DEF Current, MemoryIsTrue, MemoryFits

(* A step after which the one who took it remembers what is borne out,     *)
(* and which takes nothing back of what was observed and kept, leaves      *)
(* everybody's memory true.                                                *)
LEMMA Remembered ==
    ASSUME TypeOK, MemoryIsTrue, NEW p \in Actors, NEW m,
           Remembers(p, m), MemoryFits(m, outbox', kept'),
           \A s \in Signals : outbox[s] # "absent" => outbox'[s] # "absent",
           \A s \in Signals : kept[s] # "absent" => kept'[s] # "absent"
    PROVE  actor' \in [Actors -> Memory] /\ MemoryIsTrue'
<1>1. m \in Memory
  BY DEF MemoryFits
<1>2. actor' = [actor EXCEPT ![p] = m]
  BY DEF Remembers
<1>3. actor' \in [Actors -> Memory]
  BY <1>1, <1>2 DEF TypeOK
<1>4. ASSUME NEW q \in Actors PROVE MemoryFits(actor'[q], outbox', kept')
  <2>1. CASE q = p
    BY <2>1, <1>2 DEF TypeOK
  <2>2. CASE q # p
    <3>1. actor'[q] = actor[q]
      BY <2>2, <1>2 DEF TypeOK
    <3>2. MemoryFits(actor[q], outbox, kept)
      BY DEF MemoryIsTrue
    <3>3. actor[q].batch \subseteq Signals
      BY <3>2 DEF MemoryFits, Memory
    <3>4. actor[q].batch # {} => Min(actor[q].batch) \in Signals
      BY <3>3, CurrentOf DEF Current
    <3>5. QED
      BY <3>1, <3>2, <3>3, <3>4 DEF MemoryFits
  <2>3. QED
    BY <2>1, <2>2
<1>5. QED
  BY <1>3, <1>4 DEF MemoryIsTrue

(* What follows an attempt touches no row, so what is remembered of the    *)
(* rest of the batch stays true.                                           *)
LEMMA Proceeds ==
    ASSUME TypeOK, MemoryIsTrue, NEW p \in Actors, NEW m \in Memory, Proceed(p, m),
           \A s \in m.batch : outbox'[s] # "absent",
           \A s \in Signals : outbox[s] # "absent" => outbox'[s] # "absent",
           \A s \in Signals : kept[s] # "absent" => kept'[s] # "absent"
    PROVE  actor' \in [Actors -> Memory] /\ MemoryIsTrue'
<1> DEFINE after == IF p \in Backfills THEN Idle
                    ELSE CASE m.phase = "first"  -> [m EXCEPT !.pc = "observe"]
                           [] m.phase = "second" -> [m EXCEPT !.pc = "list", !.phase = "retry"]
                           [] m.phase = "retry"  -> [m EXCEPT !.pc = "finish"]
<1> DEFINE next == IF m.batch = {} THEN after ELSE [m EXCEPT !.pc = "keep"]
<1>1. MemoryFits(Idle, outbox', kept')
  BY DEF MemoryFits, Memory, Idle, Unit
<1>2. MemoryFits([m EXCEPT !.pc = "observe"], outbox', kept')
  BY DEF MemoryFits, Memory
<1>3. MemoryFits([m EXCEPT !.pc = "list", !.phase = "retry"], outbox', kept')
  BY DEF MemoryFits, Memory
<1>4. MemoryFits([m EXCEPT !.pc = "finish"], outbox', kept')
  BY DEF MemoryFits, Memory
<1>5. ASSUME m.batch # {} PROVE MemoryFits([m EXCEPT !.pc = "keep"], outbox', kept')
  BY <1>5 DEF MemoryFits, Memory
<1>6. m.phase \in {"first", "second", "retry"}
  BY DEF Memory
<1>7. MemoryFits(next, outbox', kept')
  BY <1>1, <1>2, <1>3, <1>4, <1>5, <1>6
<1>8. Remembers(p, next)
  BY DEF Proceed
<1> HIDE DEF next
<1>9. QED
  BY <1>7, <1>8, Remembered

(* How an attempt ends.                                                    *)
LEMMA AttemptEnds ==
    ASSUME TypeOK, MemoryIsTrue, NEW p \in Actors, actor[p].batch # {},
           Done(p) \/ Fails(p) \/ Returns(p),
           Returns(p) => kept'[Current(p)] # "absent",
           \A s \in Signals : outbox[s] # "absent" => outbox'[s] # "absent",
           \A s \in Signals : kept[s] # "absent" => kept'[s] # "absent"
    PROVE  actor' \in [Actors -> Memory] /\ MemoryIsTrue'
<1>0. /\ actor[p] \in Memory /\ Current(p) \in Signals
      /\ MemoryFits(actor[p], outbox, kept) /\ actor[p].batch \subseteq Signals
  BY CurrentOf DEF TypeOK, MemoryIsTrue, Memory
<1> DEFINE rest == actor[p].batch \ {Current(p)}
<1>1. \A s \in rest : outbox'[s] # "absent"
  BY <1>0 DEF MemoryFits
<1>2. CASE Done(p)
  <2> DEFINE m == [actor[p] EXCEPT !.batch = @ \ {Current(p)}, !.outcome = "none"]
  <2>1. m \in Memory /\ m.batch = rest
    BY <1>0 DEF Memory, Unit
  <2>2. Proceed(p, m)
    BY <1>2 DEF Done
  <2> HIDE DEF m
  <2>3. QED
    BY <1>1, <2>1, <2>2, Proceeds
<1>3. CASE Fails(p)
  <2> DEFINE failed == IF actor[p].phase = "first"
                       THEN actor[p].failed \cup {Current(p)} ELSE actor[p].failed
  <2> DEFINE m == [actor[p] EXCEPT !.batch = @ \ {Current(p)}, !.outcome = "none",
                                   !.failed = failed]
  <2>1. failed \subseteq Signals
    BY <1>0 DEF Memory
  <2>2. Proceed(p, m)
    BY <1>3 DEF Fails
  <2> HIDE DEF failed
  <2>3. m \in Memory /\ m.batch = rest
    BY <1>0, <2>1 DEF Memory, Unit
  <2> HIDE DEF m
  <2>4. QED
    BY <1>1, <2>2, <2>3, Proceeds
<1>4. CASE Returns(p) /\ ~Done(p)
  <2> DEFINE m == [actor[p] EXCEPT !.pc = "acknowledge"]
  <2>1. Remembers(p, m)
    BY <1>4 DEF Returns, Goes
  <2>2. m \in Memory /\ m.batch = actor[p].batch
    BY <1>0 DEF Memory
  <2>3. MemoryFits(m, outbox', kept')
    BY <1>0, <1>4, <2>2 DEF MemoryFits, Current
  <2> HIDE DEF m
  <2>4. QED
    BY <2>1, <2>3, Remembered
<1>5. QED
  BY <1>2, <1>3, <1>4

(* A step of the legacy worker, of the claims or of the operator, who      *)
(* remember nothing.                                                       *)
LEMMA NothingRemembered ==
    ASSUME TypeOK, MemoryIsTrue, UNCHANGED <<actor, outbox, kept>>
    PROVE  actor' \in [Actors -> Memory] /\ MemoryIsTrue'
<1>1. actor' = actor /\ outbox' = outbox /\ kept' = kept
  OBVIOUS
<1>2. actor' \in [Actors -> Memory]
  BY <1>1 DEF TypeOK
<1>3. QED
  BY <1>1, <1>2 DEF MemoryIsTrue

(* What a drain or retryUntriaged lists was observed.                      *)
LEMMA ListedOf ==
    ASSUME TypeOK, RowsAgree, NEW p \in Actors, actor[p].phase \in {"first", "second", "retry"}
    PROVE  Listed(p) \subseteq Signals /\ \A s \in Listed(p) : outbox[s] # "absent"
<1>1. \A n : Oldest(n, Pending) \subseteq Pending /\ Oldest(n, Undecided) \subseteq Undecided
  BY DEF Oldest
<1>2. Pending \subseteq Signals /\ \A s \in Pending : outbox[s] # "absent"
  BY DEF Pending
<1>3. Undecided \subseteq Signals /\ \A s \in Undecided : outbox[s] # "absent"
  BY DEF Undecided, RowsAgree
<1>4. Listed(p) \subseteq Pending \/ Listed(p) \subseteq Undecided
  BY <1>1 DEF Listed
<1>5. QED
  BY <1>2, <1>3, <1>4

(* The steps of a run, of a backfill and of a crash.                       *)
LEMMA ActorStep ==
    ASSUME IntakeInv, NEW p \in Actors,
           StartRun(p) \/ RunStep(p) \/ Crash(p)
    PROVE  IntakeInv'
<1> USE DEF IntakeInv
<1>0. actor[p] \in Memory /\ MemoryFits(actor[p], outbox, kept)
  BY DEF TypeOK, MemoryIsTrue
<1>1. CASE StartRun(p)
  <2> DEFINE m == [actor[p] EXCEPT !.pc = "list"]
  <2>1. MemoryFits(m, outbox', kept')
    BY <1>0, <1>1 DEF StartRun, canonical, MemoryFits, Memory
  <2>2. Remembers(p, m) /\ UNCHANGED <<outbox, kept>>
    BY <1>1 DEF StartRun, canonical, Goes
  <2> HIDE DEF m
  <2>3. actor' \in [Actors -> Memory] /\ MemoryIsTrue'
    BY <2>1, <2>2, Remembered
  <2>4. TypeOK'
    BY <1>1, <2>3 DEF StartRun, canonical, TypeOK
  <2>5. RowsAgree' /\ WorkMatchesDecision' /\ OneOwnerAtWork'
    BY <1>1 DEF StartRun, canonical, RowsAgree, WorkMatchesDecision, OneOwnerAtWork
  <2>6. QED
    BY <2>3, <2>4, <2>5
<1>2. CASE List(p)
  <2> DEFINE m == [actor[p] EXCEPT !.batch = Listed(p)]
  <2>1. m \in Memory /\ \A s \in m.batch : outbox[s] # "absent"
    BY <1>0, ListedOf DEF Memory
  <2>2. Proceed(p, m) /\ UNCHANGED <<outbox, kept>>
    BY <1>2 DEF List, canonical
  <2> HIDE DEF m
  <2>3. actor' \in [Actors -> Memory] /\ MemoryIsTrue'
    BY <2>1, <2>2, Proceeds
  <2>4. TypeOK'
    BY <1>2, <2>3 DEF List, source, canonical, TypeOK
  <2>5. RowsAgree' /\ WorkMatchesDecision' /\ OneOwnerAtWork'
    BY <1>2 DEF List, source, canonical, RowsAgree, WorkMatchesDecision, OneOwnerAtWork
  <2>6. QED
    BY <2>3, <2>4, <2>5
<1>3. CASE Observe(p)
  <2> DEFINE m == [actor[p] EXCEPT !.pc = "list", !.phase = "second"]
  <2>1. PICK seen : /\ \A s \in seen : queue[s] = "absent"
                    /\ queue' = [s \in Signals |->
                          IF s \in seen THEN IF Allows(authority, "legacy")
                                             THEN "pending_research" ELSE "inert"
                          ELSE queue[s]]
                    /\ outbox' = [s \in Signals |-> IF s \in seen THEN "pending" ELSE outbox[s]]
    BY <1>3 DEF Observe, Oldest
  <2>2. MemoryFits(m, outbox', kept')
    BY <1>0, <1>3, <2>1 DEF Observe, canonical, MemoryFits, Memory
  <2>3. Remembers(p, m) /\ UNCHANGED kept
    BY <1>3 DEF Observe, canonical
  <2>4. \A s \in Signals : outbox[s] # "absent" => outbox'[s] # "absent"
    BY <2>1
  <2> HIDE DEF m
  <2>5. actor' \in [Actors -> Memory] /\ MemoryIsTrue'
    BY <2>2, <2>3, <2>4, Remembered
  <2>6. TypeOK'
    BY <1>3, <2>1, <2>5 DEF Observe, source, canonical, TypeOK, QueueStatus
  <2>7. RowsAgree'
    BY <1>3, <2>1 DEF Observe, source, canonical, RowsAgree
  <2>8. WorkMatchesDecision' /\ OneOwnerAtWork'
    BY <1>3, <2>1 DEF Observe, source, canonical, WorkMatchesDecision, OneOwnerAtWork
  <2>9. QED
    BY <2>5, <2>6, <2>7, <2>8
<1>4. CASE Keep(p)
  <2>1. actor[p].batch # {} /\ Current(p) \in Signals /\ outbox[Current(p)] # "absent"
    BY <1>0, <1>4, CurrentOf DEF Keep, At, MemoryFits
  <2>2. CASE Conflicts(p, Current(p))
    <3>1. Fails(p) /\ UNCHANGED <<outbox, kept>>
      BY <1>4, <2>2 DEF Keep
    <3>2. Returns(p) => kept'[Current(p)] # "absent"
      BY <2>1, <2>2, <3>1 DEF Conflicts
    <3>3. actor' \in [Actors -> Memory] /\ MemoryIsTrue'
      BY <2>1, <3>1, <3>2, AttemptEnds
    <3>4. UNCHANGED <<authority, operation, abandoned, queue, outbox, kept, unit, work, faults>>
      BY <1>4, <3>1 DEF Keep, source
    <3>5. QED
      BY <3>3, <3>4 DEF TypeOK, RowsAgree, WorkMatchesDecision, OneOwnerAtWork
  <2>3. CASE ~Conflicts(p, Current(p))
    <3>1. /\ kept' = [kept EXCEPT ![Current(p)] =
                                IF kept[Current(p)] = "absent" THEN Payload(p) ELSE kept[Current(p)]]
          /\ UNCHANGED <<authority, operation, abandoned, queue, outbox, unit, work, faults>>
      BY <1>4, <2>3 DEF Keep, source
    <3>2. Payload(p) \in {"live", "legacy"}
      BY DEF Payload
    <3>3. /\ kept' \in [Signals -> {"absent", "live", "legacy"}]
          /\ kept'[Current(p)] # "absent"
          /\ \A s \in Signals : kept[s] # "absent" => kept'[s] # "absent"
      BY <2>1, <3>1, <3>2 DEF TypeOK
    <3>4. actor' \in [Actors -> Memory] /\ MemoryIsTrue'
      <4>1. CASE Returns(p)
        BY <2>1, <3>1, <3>3, <4>1, AttemptEnds
      <4>2. CASE Goes(p, "load")
        <5> DEFINE m == [actor[p] EXCEPT !.pc = "load"]
        <5>1. MemoryFits(m, outbox', kept')
          BY <1>0, <2>1, <3>1, <3>3 DEF MemoryFits, Memory, Current
        <5>2. Remembers(p, m)
          BY <4>2 DEF Goes
        <5> HIDE DEF m
        <5>3. QED
          BY <3>1, <3>3, <5>1, <5>2, Remembered
      <4>3. QED
        BY <1>4, <2>3, <4>1, <4>2 DEF Keep
    <3>5. TypeOK'
      BY <3>1, <3>3, <3>4 DEF TypeOK
    <3>6. RowsAgree'
      BY <2>1, <3>1, <3>3 DEF RowsAgree
    <3>7. WorkMatchesDecision' /\ OneOwnerAtWork'
      BY <3>1 DEF WorkMatchesDecision, OneOwnerAtWork
    <3>8. QED
      BY <3>4, <3>5, <3>6, <3>7
  <2>4. QED
    BY <2>2, <2>3
<1>5. CASE Load(p)
  <2>1. /\ actor[p].batch # {} /\ Current(p) \in Signals
        /\ kept[Current(p)] # "absent"
    BY <1>0, <1>5, CurrentOf DEF Load, At, MemoryFits, Current
  <2>2. UNCHANGED <<authority, operation, abandoned, queue, outbox, kept, unit, work>>
    BY <1>5 DEF Load, source, canonical
  <2>3. faults' \in 0 .. MaxFaults
    <3>1. faults' = faults \/ (faults < MaxFaults /\ faults' = faults + 1)
      BY <1>5 DEF Load
    <3>2. QED
      BY <3>1, LimitAssumption DEF TypeOK
  <2>4. actor' \in [Actors -> Memory] /\ MemoryIsTrue'
    <3>1. CASE Returns(p) \/ Fails(p)
      BY <2>1, <2>2, <3>1, AttemptEnds
    <3>2. ASSUME NEW outcome \in {"research", "no_work"},
                 Remembers(p, [actor[p] EXCEPT !.pc = "decided", !.outcome = outcome])
          PROVE  actor' \in [Actors -> Memory] /\ MemoryIsTrue'
      <4> DEFINE m == [actor[p] EXCEPT !.pc = "decided", !.outcome = outcome]
      <4>1. MemoryFits(m, outbox', kept')
        BY <1>0, <2>1, <2>2 DEF MemoryFits, Memory, Current, Unit
      <4>2. Remembers(p, m)
        BY <3>2
      <4> HIDE DEF m
      <4>3. QED
        BY <2>2, <4>1, <4>2, Remembered
    <3>3. QED
      BY <1>5, <3>1, <3>2 DEF Load
  <2>5. QED
    BY <2>2, <2>3, <2>4 DEF TypeOK, RowsAgree, WorkMatchesDecision, OneOwnerAtWork
<1>6. CASE Commit(p)
  <2>1. /\ actor[p].batch # {} /\ Current(p) \in Signals
        /\ kept[Current(p)] # "absent" /\ actor[p].outcome \in {"research", "no_work"}
    BY <1>0, <1>6, CurrentOf DEF Commit, At, MemoryFits, Current
  <2>2. UNCHANGED <<authority, operation, abandoned, queue, outbox, kept, faults>>
    BY <1>6 DEF Commit, source
  <2>3. Returns(p) \/ Fails(p)
    BY <1>6 DEF Commit
  <2>4. actor' \in [Actors -> Memory] /\ MemoryIsTrue'
    BY <2>1, <2>2, <2>3, AttemptEnds
  <2>5. \/ UNCHANGED <<unit, work>>
        \/ /\ unit[Current(p)] = "none"
           /\ unit' = [unit EXCEPT ![Current(p)] = actor[p].outcome]
           /\ work' = [work EXCEPT ![Current(p)] = IF actor[p].outcome = "research"
                                                  THEN "unleased" ELSE work[Current(p)]]
    BY <1>6 DEF Commit, Fits
  <2>6. TypeOK'
    BY <2>1, <2>2, <2>4, <2>5 DEF TypeOK, Unit
  <2>7. RowsAgree' /\ WorkMatchesDecision'
    BY <2>1, <2>2, <2>5 DEF RowsAgree, WorkMatchesDecision, TypeOK
  <2>8. OneOwnerAtWork'
    BY <2>1, <2>2, <2>5 DEF OneOwnerAtWork, TypeOK
  <2>9. QED
    BY <2>4, <2>6, <2>7, <2>8
<1>7. CASE Acknowledge(p)
  <2>1. /\ actor[p].batch # {} /\ Current(p) \in Signals
        /\ kept[Current(p)] # "absent" /\ outbox[Current(p)] # "absent"
    BY <1>0, <1>7, CurrentOf DEF Acknowledge, At, MemoryFits, Current
  <2>2. /\ outbox' = [outbox EXCEPT ![Current(p)] = "delivered"]
        /\ Done(p)
        /\ UNCHANGED <<authority, operation, abandoned, queue, kept, unit, work, faults>>
    BY <1>7 DEF Acknowledge, source, canonical
  <2>3. \A s \in Signals : outbox[s] # "absent" => outbox'[s] # "absent"
    BY <2>1, <2>2 DEF TypeOK
  <2>4. actor' \in [Actors -> Memory] /\ MemoryIsTrue'
    BY <2>1, <2>2, <2>3, AttemptEnds
  <2>5. TypeOK'
    BY <2>1, <2>2, <2>4 DEF TypeOK
  <2>6. RowsAgree' /\ WorkMatchesDecision' /\ OneOwnerAtWork'
    BY <2>1, <2>2 DEF RowsAgree, WorkMatchesDecision, OneOwnerAtWork, TypeOK
  <2>7. QED
    BY <2>4, <2>5, <2>6
<1>8. CASE FinishRun(p) \/ Crash(p)
  <2>1. MemoryFits(Idle, outbox', kept')
    BY DEF MemoryFits, Memory, Idle, Unit
  <2>2. Remembers(p, Idle) /\ UNCHANGED <<authority, queue, outbox, kept, unit, work>>
    BY <1>8 DEF FinishRun, Crash, canonical
  <2>3. actor' \in [Actors -> Memory] /\ MemoryIsTrue'
    BY <2>1, <2>2, Remembered
  <2>4. operation' \subseteq Ingestors /\ abandoned' \in BOOLEAN
    BY <1>8 DEF FinishRun, Crash, TypeOK
  <2>5. faults' \in 0 .. MaxFaults
    BY <1>8, LimitAssumption DEF FinishRun, Crash, TypeOK
  <2>6. QED
    BY <2>2, <2>3, <2>4, <2>5 DEF TypeOK, RowsAgree, WorkMatchesDecision, OneOwnerAtWork
<1>9. QED
  BY <1>1, <1>2, <1>3, <1>4, <1>5, <1>6, <1>7, <1>8 DEF RunStep

(* The operator's changes: an owner takes over only when nothing of the    *)
(* other is left.                                                          *)
LEMMA OperatorStep == IntakeInv /\ Operate => IntakeInv'
<1> SUFFICES ASSUME IntakeInv, Operate PROVE IntakeInv'
  OBVIOUS
<1> USE DEF IntakeInv
<1>1. UNCHANGED <<operation, queue, outbox, kept, unit, work, actor, faults>>
  BY DEF Operate, canonical
<1>2. authority \in Authority /\ authority.revision < MaxRevision
  BY DEF Operate, TypeOK
<1>3. \A state \in {"paused", "running"}, owner \in Owner :
         Changed(authority, state, owner) \in Authority
  BY <1>2, RevisionAssumption DEF Changed, Authority
<1>4. authority.owner \in Owner /\ "legacy" \in Owner
  BY <1>2 DEF Authority, Owner
<1>5. authority' \in Authority /\ abandoned' \in BOOLEAN
  BY <1>3, <1>4 DEF Operate, Initialized, Paused, Resumed, Reconciled, TypeOK
<1>6. authority'.state = "running" => Drained
  BY DEF Operate, Initialized, Paused, Resumed, Reconciled, Changed, MayResume
<1>7. actor' \in [Actors -> Memory] /\ MemoryIsTrue'
  BY <1>1, NothingRemembered
<1>8. TypeOK'
  BY <1>1, <1>5, <1>7 DEF TypeOK
<1>9. OneOwnerAtWork'
  BY <1>1, <1>6 DEF OneOwnerAtWork, Drained
<1>10. QED
  BY <1>1, <1>7, <1>8, <1>9 DEF RowsAgree, WorkMatchesDecision

(* The legacy worker and the shared claims.                                *)
LEMMA WorkerStep ==
    ASSUME IntakeInv,
           \/ \E s \in Signals :
                 LegacyClaim(s) \/ LegacyEnd(s) \/ LegacyCrash(s) \/ SharedClaim(s) \/ SharedRelease(s)
           \/ RecoverStaleWork
    PROVE  IntakeInv'
<1> USE DEF IntakeInv
<1>1. UNCHANGED <<authority, operation, abandoned, outbox, kept, unit, actor>>
  BY DEF LegacyClaim, LegacyEnd, LegacyCrash, SharedClaim, SharedRelease, RecoverStaleWork,
         source, canonical
<1>2. actor' \in [Actors -> Memory] /\ MemoryIsTrue'
  BY <1>1, NothingRemembered
<1>3. ASSUME NEW s \in Signals, LegacyClaim(s) \/ LegacyEnd(s) \/ LegacyCrash(s)
      PROVE  IntakeInv'
  <2>1. PICK status \in {"researching", "inert", "stranded"} :
           /\ queue' = [queue EXCEPT ![s] = status]
           /\ queue[s] \in {"pending_research", "researching"}
           /\ queue[s] = "pending_research" => Allows(authority, "legacy")
           /\ work' = work
    BY <1>3 DEF LegacyClaim, LegacyEnd, LegacyCrash, canonical
  <2>2. faults' \in 0 .. MaxFaults
    BY <1>3, LimitAssumption DEF LegacyClaim, LegacyEnd, LegacyCrash, TypeOK
  <2>3. TypeOK'
    BY <1>1, <1>2, <2>1, <2>2 DEF TypeOK, QueueStatus
  <2>4. RowsAgree' /\ WorkMatchesDecision'
    BY <1>1, <2>1 DEF RowsAgree, WorkMatchesDecision, TypeOK
  <2>5. OneOwnerAtWork'
    BY <1>1, <2>1 DEF OneOwnerAtWork, Allows, TypeOK
  <2>6. QED
    BY <1>2, <2>3, <2>4, <2>5
<1>4. CASE RecoverStaleWork
  <2>1. /\ queue' = [s \in Signals |->
                       IF queue[s] = "stranded" THEN "pending_research" ELSE queue[s]]
        /\ UNCHANGED <<work, faults>>
    BY <1>4 DEF RecoverStaleWork, canonical
  <2>2. TypeOK'
    BY <1>1, <1>2, <2>1 DEF TypeOK, QueueStatus
  <2>3. RowsAgree' /\ WorkMatchesDecision' /\ OneOwnerAtWork'
    BY <1>1, <2>1 DEF RowsAgree, WorkMatchesDecision, OneOwnerAtWork
  <2>4. QED
    BY <1>2, <2>2, <2>3
<1>5. ASSUME NEW s \in Signals, SharedClaim(s) \/ SharedRelease(s)
      PROVE  IntakeInv'
  <2>1. PICK lease \in {"leased", "unleased"} :
           /\ work' = [work EXCEPT ![s] = lease]
           /\ work[s] # "absent"
           /\ lease = "leased" => Allows(authority, "shared")
           /\ UNCHANGED <<queue, faults>>
    BY <1>5 DEF SharedClaim, SharedRelease
  <2>2. TypeOK'
    BY <1>1, <1>2, <2>1 DEF TypeOK
  <2>3. RowsAgree' /\ WorkMatchesDecision'
    BY <1>1, <2>1 DEF RowsAgree, WorkMatchesDecision, TypeOK
  <2>4. OneOwnerAtWork'
    BY <1>1, <2>1 DEF OneOwnerAtWork, Allows, TypeOK
  <2>5. QED
    BY <1>2, <2>2, <2>3, <2>4
<1>6. QED
  BY <1>3, <1>4, <1>5

LEMMA BackfillStep ==
    ASSUME IntakeInv, NEW p \in Backfills, NEW s \in Signals, StartBackfill(p, s)
    PROVE  IntakeInv'
<1> USE DEF IntakeInv
<1> DEFINE m == [Idle EXCEPT !.pc = "keep", !.batch = {s}]
<1>1. m \in Memory /\ m.batch = {s} /\ m.pc = "keep"
  BY DEF Idle, Memory, Unit
<1>2. Remembers(p, m) /\ queue[s] # "absent"
  BY DEF StartBackfill
<1>3. UNCHANGED <<authority, operation, abandoned, queue, outbox, kept, unit, work, faults>>
  BY DEF StartBackfill, source, canonical
<1> HIDE DEF m
<1>4. MemoryFits(m, outbox', kept')
  BY <1>1, <1>2, <1>3 DEF MemoryFits, RowsAgree
<1>5. actor' \in [Actors -> Memory] /\ MemoryIsTrue'
  BY <1>2, <1>3, <1>4, Remembered DEF Actors
<1>6. QED
  BY <1>3, <1>5 DEF TypeOK, RowsAgree, WorkMatchesDecision, OneOwnerAtWork

LEMMA IntakeInit == Init => IntakeInv
<1> SUFFICES ASSUME Init PROVE IntakeInv
  OBVIOUS
<1>1. Idle \in Memory /\ MemoryFits(Idle, outbox, kept)
  BY DEF Idle, Memory, Unit, MemoryFits
<1>2. NoAuthority \in Authority
  BY RevisionAssumption DEF NoAuthority, Authority, Owner
<1>3. TypeOK
  <2>1. faults \in 0 .. MaxFaults
    BY LimitAssumption DEF Init
  <2>2. actor \in [Actors -> Memory] /\ authority \in Authority
    BY <1>1, <1>2 DEF Init
  <2>3. QED
    BY <2>1, <2>2 DEF Init, TypeOK, QueueStatus, Unit
<1>4. MemoryIsTrue
  BY <1>1 DEF Init, MemoryIsTrue
<1>5. RowsAgree /\ WorkMatchesDecision /\ OneOwnerAtWork
  BY DEF Init, RowsAgree, WorkMatchesDecision, OneOwnerAtWork, NoAuthority
<1>6. QED
  BY <1>3, <1>4, <1>5 DEF IntakeInv

LEMMA IntakeStep == IntakeInv /\ [Next]_vars => IntakeInv'
<1> SUFFICES ASSUME IntakeInv, [Next]_vars PROVE IntakeInv'
  OBVIOUS
<1>1. CASE UNCHANGED vars
  <2>1. actor' \in [Actors -> Memory] /\ MemoryIsTrue'
    BY <1>1, NothingRemembered DEF vars, IntakeInv
  <2>2. QED
    BY <1>1, <2>1 DEF vars, IntakeInv, TypeOK, RowsAgree, WorkMatchesDecision, OneOwnerAtWork
<1>2. QED
  <2>1. ASSUME NEW p \in Actors, StartRun(p) \/ RunStep(p) \/ Crash(p) PROVE IntakeInv'
    BY <2>1, ActorStep
  <2>2. ASSUME NEW p \in Backfills, NEW s \in Signals, StartBackfill(p, s) PROVE IntakeInv'
    BY <2>2, BackfillStep
  <2>3. QED
    BY <1>1, <2>1, <2>2, WorkerStep, OperatorStep DEF Next

LEMMA IntakeInvariant == Spec => []IntakeInv
  BY IntakeInit, IntakeStep, PTL DEF Spec

(* Type correctness.                                                       *)
THEOREM IntakeTypeCorrect == Spec => []TypeOK
<1>1. IntakeInv => TypeOK
  BY DEF IntakeInv
<1>2. QED
  BY <1>1, IntakeInvariant, PTL

(* Whatever crashes, pauses and handovers: no source is worked on by both  *)
(* pipelines, because an owner takes over only a drained source and the    *)
(* triggers refuse the claims of the other.                                *)
THEOREM OnePipelineAtWork == Spec => []OneOwnerAtWork
<1>1. IntakeInv => OneOwnerAtWork
  BY DEF IntakeInv
<1>2. QED
  BY <1>1, IntakeInvariant, PTL

(* Of any number of runs and backfills that decide about a signal at once  *)
(* one decision is saved, and work exists exactly if it admits any.        *)
THEOREM DecisionHasItsWork == Spec => []WorkMatchesDecision
<1>1. IntakeInv => WorkMatchesDecision
  BY DEF IntakeInv
<1>2. QED
  BY <1>1, IntakeInvariant, PTL
-----------------------------------------------------------------------------
(* The abstract state, as Promise maps it, and the stage of one signal.    *)
Stage == [s \in Signals |->
            CASE unit[s] = "research" -> "admitted"
              [] unit[s] = "no_work"  -> "declined"
              [] s \in Undecided      -> "kept"
              [] unit[s] = "none" /\ s \in Pending \ Undecided -> "owed"
              [] OTHER                -> "unseen"]
Acknowledged == {s \in Signals : outbox[s] = "delivered"}
Open == Allows(authority, "shared")

RowStage(unit_, kept_, outbox_) ==
    IF unit_ = "research" THEN "admitted"
    ELSE IF unit_ = "no_work" THEN "declined"
    ELSE IF kept_ # "absent" THEN "kept"
    ELSE IF outbox_ = "pending" THEN "owed" ELSE "unseen"

LEMMA StageOfRows ==
    TypeOK => Stage = [s \in Signals |-> RowStage(unit[s], kept[s], outbox[s])]
<1> SUFFICES ASSUME TypeOK, NEW s \in Signals
             PROVE  Stage[s] = RowStage(unit[s], kept[s], outbox[s])
  BY DEF Stage
<1>1. unit[s] \in Unit
  BY DEF TypeOK
<1>2. (s \in Undecided) <=> (kept[s] # "absent" /\ unit[s] = "none")
  BY DEF Undecided
<1>3. (s \in Pending) <=> outbox[s] = "pending"
  BY DEF Pending
<1>4. CASE unit[s] = "research"
  BY <1>2, <1>4 DEF Stage, RowStage
<1>5. CASE unit[s] = "no_work"
  BY <1>2, <1>5 DEF Stage, RowStage
<1>6. CASE s \in Undecided
  BY <1>2, <1>6 DEF Stage, RowStage
<1>7. CASE unit[s] = "none" /\ s \notin Undecided
  BY <1>2, <1>3, <1>7 DEF Stage, RowStage
<1>8. QED
  BY <1>1, <1>4, <1>5, <1>6, <1>7 DEF Unit

LEMMA StageOfRowsNext ==
    (TypeOK => Stage = [s \in Signals |-> RowStage(unit[s], kept[s], outbox[s])])'
  BY StageOfRows, PTL

(* A step that touches neither the rows nor the authority is a stutter.    *)
LEMMA Stutter ==
    ASSUME UNCHANGED <<authority, unit, kept, outbox>>
    PROVE  UNCHANGED <<Stage, Acknowledged, Open>>
  BY DEF Stage, Acknowledged, Open, Undecided, Pending

(* Each step that is none.                                                 *)
LEMMA StepIsPromised ==
    ASSUME IntakeInv, IntakeInv', Next
    PROVE  [Promise!Next]_(Promise!vars)
<1> USE DEF IntakeInv
<1>0. /\ Stage = [s \in Signals |-> RowStage(unit[s], kept[s], outbox[s])]
      /\ Stage' = [s \in Signals |-> RowStage(unit'[s], kept'[s], outbox'[s])]
  BY StageOfRows, StageOfRowsNext
<1>1. ASSUME UNCHANGED <<Stage, Acknowledged, Open>>
      PROVE  UNCHANGED Promise!vars
  BY <1>1 DEF Promise!vars, Stage, Acknowledged, Open
<1>2. ASSUME NEW p \in Actors, Observe(p) PROVE Promise!Next
  <2> DEFINE seen == {s \in Signals : queue[s] = "absent" /\ queue'[s] # "absent"}
  <2>1. UNCHANGED <<authority, unit, kept>>
    BY <1>2 DEF Observe, source, canonical
  <2>2. \A s \in Signals : outbox'[s] = IF s \in seen THEN "pending" ELSE outbox[s]
    BY <1>2 DEF Observe, Oldest, TypeOK, RowsAgree
  <2>3. \A s \in seen : outbox[s] = "absent" /\ kept[s] = "absent" /\ unit[s] = "none"
    BY DEF RowsAgree
  <2>4. \A s \in seen : Stage[s] = "unseen"
    BY <1>0, <2>3 DEF RowStage
  <2>5. \A s \in Signals : Stage'[s] = IF s \in seen THEN "owed" ELSE Stage[s]
    BY <1>0, <2>1, <2>2, <2>3 DEF RowStage
  <2>6. Stage' = [s \in Signals |-> IF s \in seen THEN "owed" ELSE Stage[s]]
    BY <1>0, <2>5
  <2>7. UNCHANGED <<Acknowledged, Open>>
    BY <2>1, <2>2, <2>3 DEF Acknowledged, Open
  <2>8. seen \in SUBSET Signals
    OBVIOUS
  <2> HIDE DEF seen
  <2>9. Promise!Observe(seen)
    BY <2>4, <2>6, <2>7 DEF Promise!Observe, Stage, Acknowledged, Open
  <2>10. QED
    BY <2>8, <2>9 DEF Promise!Next, Promise!Observe
<1>3. ASSUME NEW p \in Actors, Keep(p), kept' # kept PROVE Promise!Next
  <2>1. actor[p].batch # {} /\ Current(p) \in Signals /\ outbox[Current(p)] # "absent"
    BY <1>3, CurrentOf DEF Keep, At, MemoryIsTrue, MemoryFits
  <2>2. /\ kept[Current(p)] = "absent"
        /\ kept' = [kept EXCEPT ![Current(p)] = Payload(p)]
        /\ UNCHANGED <<authority, outbox, unit>>
    BY <1>3, <2>1 DEF Keep, source, TypeOK
  <2>3. Payload(p) # "absent"
    BY DEF Payload
  <2>4. outbox[Current(p)] = "pending" /\ unit[Current(p)] = "none"
    BY <2>1, <2>2 DEF RowsAgree, TypeOK, Unit
  <2>5. Stage[Current(p)] = "owed"
    BY <1>0, <2>1, <2>2, <2>4 DEF RowStage
  <2>6. \A s \in Signals : Stage'[s] = IF s = Current(p) THEN "kept" ELSE Stage[s]
    BY <1>0, <2>2, <2>3, <2>4 DEF RowStage, TypeOK
  <2>7. Stage' = [Stage EXCEPT ![Current(p)] = "kept"]
    BY <1>0, <2>6
  <2>8. UNCHANGED <<Acknowledged, Open>>
    BY <2>2 DEF Acknowledged, Open
  <2>9. Promise!Keep(Current(p))
    BY <2>5, <2>7, <2>8 DEF Promise!Keep, Stage, Acknowledged, Open
  <2>10. QED
    BY <2>1, <2>9 DEF Promise!Next, Promise!Keep
<1>4. ASSUME NEW p \in Actors, Commit(p), unit' # unit PROVE Promise!Next
  <2>1. /\ actor[p].batch # {} /\ Current(p) \in Signals
        /\ kept[Current(p)] # "absent" /\ actor[p].outcome \in {"research", "no_work"}
    BY <1>4, CurrentOf DEF Commit, At, MemoryIsTrue, MemoryFits, Current
  <2>2. /\ unit[Current(p)] = "none"
        /\ actor[p].outcome = "research" => Allows(authority, "shared")
        /\ unit' = [unit EXCEPT ![Current(p)] = actor[p].outcome]
        /\ UNCHANGED <<authority, outbox, kept>>
    BY <1>4 DEF Commit, Fits, source
  <2>3. Stage[Current(p)] = "kept"
    BY <1>0, <2>1, <2>2 DEF RowStage
  <2> DEFINE decided == IF actor[p].outcome = "research" THEN "admitted" ELSE "declined"
  <2>4. \A s \in Signals : Stage'[s] = IF s = Current(p) THEN decided ELSE Stage[s]
    BY <1>0, <2>1, <2>2 DEF RowStage, TypeOK
  <2>5. Stage' = [Stage EXCEPT ![Current(p)] = decided]
    BY <1>0, <2>4
  <2>6. UNCHANGED <<Acknowledged, Open>>
    BY <2>2 DEF Acknowledged, Open
  <2>7. decided = "declined" \/ (decided = "admitted" /\ Open)
    BY <2>1, <2>2 DEF Open
  <2> HIDE DEF decided
  <2>8. Promise!Decide(Current(p))
    BY <2>3, <2>5, <2>6, <2>7 DEF Promise!Decide, Stage, Acknowledged, Open
  <2>9. QED
    BY <2>1, <2>8 DEF Promise!Next, Promise!Decide
<1>5. ASSUME NEW p \in Actors, Acknowledge(p) PROVE Promise!Next
  <2>1. /\ actor[p].batch # {} /\ Current(p) \in Signals /\ kept[Current(p)] # "absent"
    BY <1>5, CurrentOf DEF Acknowledge, At, MemoryIsTrue, MemoryFits, Current
  <2>2. /\ outbox' = [outbox EXCEPT ![Current(p)] = "delivered"]
        /\ UNCHANGED <<authority, unit, kept>>
    BY <1>5 DEF Acknowledge, source, canonical
  <2>3. Stage[Current(p)] \notin {"unseen", "owed"}
    BY <1>0, <2>1 DEF RowStage
  <2>4. \A s \in Signals : Stage'[s] = Stage[s]
    BY <1>0, <2>1, <2>2 DEF RowStage, TypeOK
  <2>5. Stage' = Stage
    BY <1>0, <2>4
  <2>6. Acknowledged' = Acknowledged \cup {Current(p)}
    BY <2>1, <2>2 DEF Acknowledged, TypeOK
  <2>7. UNCHANGED Open
    BY <2>2 DEF Open
  <2>8. Promise!Acknowledge(Current(p))
    BY <2>3, <2>5, <2>6, <2>7 DEF Promise!Acknowledge, Stage, Acknowledged, Open
  <2>9. QED
    BY <2>1, <2>8 DEF Promise!Next, Promise!Acknowledge
<1>6. CASE Operate
  <2>1. UNCHANGED <<outbox, unit, kept>>
    BY <1>6 DEF Operate, canonical
  <2>2. UNCHANGED <<Stage, Acknowledged>>
    BY <2>1 DEF Stage, Acknowledged, Undecided, Pending
  <2>3. CASE Open' = Open
    BY <1>1, <2>2, <2>3
  <2>4. CASE Open' # Open
    <3>1. Open \in BOOLEAN /\ Open' \in BOOLEAN
      BY DEF Open, Allows
    <3>2. Open' = ~Open
      BY <2>4, <3>1
    <3>3. Promise!Turn
      BY <2>2, <3>2 DEF Promise!Turn, Stage, Acknowledged, Open
    <3>4. QED
      BY <3>3 DEF Promise!Next
  <2>5. QED
    BY <2>3, <2>4
<1>7. ASSUME NEW p \in Actors,
             \/ StartRun(p) \/ List(p) \/ Load(p) \/ FinishRun(p) \/ Crash(p)
             \/ Keep(p) /\ kept' = kept
             \/ Commit(p) /\ unit' = unit
      PROVE  UNCHANGED Promise!vars
  <2>1. UNCHANGED <<authority, unit, kept, outbox>>
    BY <1>7 DEF StartRun, List, Load, FinishRun, Crash, Keep, Commit, source, canonical
  <2>2. QED
    BY <1>1, <2>1, Stutter
<1>8. ASSUME \/ \E p \in Backfills, s \in Signals : StartBackfill(p, s)
             \/ \E s \in Signals : \/ LegacyClaim(s) \/ LegacyEnd(s) \/ LegacyCrash(s)
                                   \/ SharedClaim(s) \/ SharedRelease(s)
             \/ RecoverStaleWork
      PROVE  UNCHANGED Promise!vars
  <2>1. UNCHANGED <<authority, unit, kept, outbox>>
    BY <1>8 DEF StartBackfill, LegacyClaim, LegacyEnd, LegacyCrash, SharedClaim, SharedRelease,
                RecoverStaleWork, source, canonical
  <2>2. QED
    BY <1>1, <2>1, Stutter
<1>9. QED
  BY <1>2, <1>3, <1>4, <1>5, <1>6, <1>7, <1>8 DEF Next, RunStep

(* Intake keeps the promise of AdmittedOnce: nothing observed is ever      *)
(* acknowledged before it is kept, decided twice, or admitted past the     *)
(* fence of its source, with crashes between its two stores, redeliveries, *)
(* backfills and handovers.                                                *)
THEOREM IntakeKeepsPromise == Spec => KeepsPromise
<1>1. Init => Promise!Init
  <2> SUFFICES ASSUME Init PROVE Promise!Init
    OBVIOUS
  <2>1. Stage = [s \in Signals |-> "unseen"]
    BY DEF Init, Stage, Undecided, Pending
  <2>2. Acknowledged = {}
    BY DEF Init, Acknowledged
  <2>3. Open \in BOOLEAN
    BY DEF Open, Allows
  <2>4. QED
    BY <2>1, <2>2, <2>3 DEF Promise!Init, Stage, Acknowledged, Open
<1>2. IntakeInv /\ IntakeInv' /\ [Next]_vars => [Promise!Next]_(Promise!vars)
  <2>1. ASSUME UNCHANGED vars PROVE UNCHANGED Promise!vars
    <3>1. UNCHANGED <<Stage, Acknowledged, Open>>
      BY <2>1, Stutter DEF vars
    <3>2. QED
      BY <3>1 DEF Promise!vars, Stage, Acknowledged, Open
  <2>2. QED
    BY <2>1, StepIsPromised
<1>3. QED
  BY <1>1, <1>2, IntakeInvariant, PTL DEF Spec, KeepsPromise, Promise!Spec
-----------------------------------------------------------------------------
(* An ingestor acknowledges a delivery only while it works on a signal     *)
(* that is stored with the payload of the feed.                            *)
Delivering(p, m) == p \in Ingestors /\ m.phase # "retry"

LiveFits(p, m, kept_) ==
    /\ m.pc = "acknowledge" => Delivering(p, m)
    /\ m.pc \in {"load", "decided", "acknowledge"} /\ Delivering(p, m)
          => kept_[Min(m.batch)] = "live"

DeliversLive == \A p \in Actors : LiveFits(p, actor[p], kept)

(* A run that goes on to its next signal, or to no signal, has not looked  *)
(* at it yet.                                                              *)
LEMMA ProceedsAnew ==
    ASSUME TypeOK, NEW p \in Actors, NEW m \in Memory, Proceed(p, m)
    PROVE  /\ actor'[p].pc \in {"idle", "observe", "list", "finish", "keep"}
           /\ \A q \in Actors \ {p} : actor'[q] = actor[q]
<1>1. m.phase \in {"first", "second", "retry"}
  BY DEF Memory
<1>2. \A pc, phase \in STRING : /\ [m EXCEPT !.pc = pc].pc = pc
                               /\ [m EXCEPT !.pc = pc, !.phase = phase].pc = pc
  BY DEF Memory
<1>3. QED
  BY <1>1, <1>2 DEF Proceed, Remembers, TypeOK, Idle, Memory

LEMMA EndsAnew ==
    ASSUME TypeOK, NEW p \in Actors, Done(p) \/ Fails(p), Current(p) \in Signals
    PROVE  /\ actor'[p].pc \in {"idle", "observe", "list", "finish", "keep"}
           /\ \A q \in Actors \ {p} : actor'[q] = actor[q]
<1>0. actor[p] \in Memory
  BY DEF TypeOK
<1>1. CASE Done(p)
  <2> DEFINE m == [actor[p] EXCEPT !.batch = @ \ {Current(p)}, !.outcome = "none"]
  <2>1. m \in Memory
    BY <1>0 DEF Memory, Unit
  <2>2. Proceed(p, m)
    BY <1>1 DEF Done
  <2> HIDE DEF m
  <2>3. QED
    BY <2>1, <2>2, ProceedsAnew
<1>2. CASE Fails(p)
  <2> DEFINE failed == IF actor[p].phase = "first"
                       THEN actor[p].failed \cup {Current(p)} ELSE actor[p].failed
  <2> DEFINE m == [actor[p] EXCEPT !.batch = @ \ {Current(p)}, !.outcome = "none",
                                   !.failed = failed]
  <2>1. failed \subseteq Signals
    BY <1>0 DEF Memory
  <2>2. Proceed(p, m)
    BY <1>2 DEF Fails
  <2> HIDE DEF failed
  <2>3. m \in Memory
    BY <1>0, <2>1 DEF Memory, Unit
  <2> HIDE DEF m
  <2>4. QED
    BY <2>2, <2>3, ProceedsAnew
<1>3. QED
  BY <1>1, <1>2

(* A stored signal keeps its payload, so the memory of those who take no   *)
(* part in a step stays right.                                             *)
LEMMA OthersDeliverLive ==
    ASSUME IntakeInv, DeliversLive,
           \A s \in Signals : kept[s] # "absent" => kept'[s] = kept[s],
           NEW q \in Actors, actor'[q] = actor[q]
    PROVE  LiveFits(q, actor'[q], kept')
<1>1. LiveFits(q, actor[q], kept) /\ MemoryFits(actor[q], outbox, kept)
  BY DEF DeliversLive, IntakeInv, MemoryIsTrue
<1>2. actor[q].batch # {} => Min(actor[q].batch) \in Signals
  BY CurrentOf DEF Current, IntakeInv
<1>3. QED
  BY <1>1, <1>2 DEF LiveFits, MemoryFits, Delivering

LEMMA ReturnsLive ==
    ASSUME IntakeInv, NEW p \in Actors, Returns(p), actor[p].batch # {},
           Delivering(p, actor[p]) => kept'[Current(p)] = "live"
    PROVE  /\ LiveFits(p, actor'[p], kept')
           /\ \A q \in Actors \ {p} : actor'[q] = actor[q]
<1>0. actor[p] \in Memory /\ actor \in [Actors -> Memory] /\ TypeOK
  BY DEF IntakeInv, TypeOK
<1>1. CASE Delivering(p, actor[p])
  <2>1. actor' = [actor EXCEPT ![p] = [actor[p] EXCEPT !.pc = "acknowledge"]]
    BY <1>1 DEF Returns, Delivering, Goes, Remembers
  <2>2. actor'[p] = [actor[p] EXCEPT !.pc = "acknowledge"]
    BY <1>0, <2>1
  <2>3. actor'[p].batch = actor[p].batch /\ actor'[p].phase = actor[p].phase
    BY <1>0, <2>2 DEF Memory
  <2>4. QED
    BY <1>1, <2>1, <2>3 DEF LiveFits, Delivering, Current
<1>2. CASE ~Delivering(p, actor[p])
  <2>1. Done(p) /\ Current(p) \in Signals
    BY <1>2, CurrentOf DEF Returns, Delivering, IntakeInv
  <2>2. QED
    BY <1>0, <2>1, EndsAnew DEF LiveFits
<1>3. QED
  BY <1>1, <1>2

LEMMA KeptOnce ==
    ASSUME IntakeInv, [Next]_vars, NEW s \in Signals, kept[s] # "absent"
    PROVE  kept'[s] = kept[s]
<1>1. ASSUME NEW p \in Actors, Keep(p) PROVE kept'[s] = kept[s]
  BY <1>1 DEF Keep, IntakeInv, TypeOK
<1>2. ASSUME ~\E p \in Actors : Keep(p) PROVE kept'[s] = kept[s]
  BY <1>2 DEF Next, RunStep, StartRun, List, Observe, Load, Commit, Acknowledge, FinishRun, Crash,
              StartBackfill, LegacyClaim, LegacyEnd, LegacyCrash, SharedClaim, SharedRelease,
              RecoverStaleWork, Operate, canonical, vars
<1>3. QED
  BY <1>1, <1>2

LEMMA DeliversLiveStep == IntakeInv /\ DeliversLive /\ [Next]_vars => DeliversLive'
<1> SUFFICES ASSUME IntakeInv, DeliversLive, [Next]_vars PROVE DeliversLive'
  OBVIOUS
<1>0. \A s \in Signals : kept[s] # "absent" => kept'[s] = kept[s]
  BY KeptOnce
<1>1. ASSUME NEW p \in Actors, LiveFits(p, actor'[p], kept'),
             \A q \in Actors \ {p} : actor'[q] = actor[q]
      PROVE  DeliversLive'
  BY <1>0, <1>1, OthersDeliverLive DEF DeliversLive
<1>2. ASSUME NEW p \in Actors, StartRun(p) \/ RunStep(p) \/ Crash(p)
      PROVE  DeliversLive'
  <2>0. /\ TypeOK /\ actor[p] \in Memory
        /\ MemoryFits(actor[p], outbox, kept) /\ LiveFits(p, actor[p], kept)
    BY DEF IntakeInv, TypeOK, MemoryIsTrue, DeliversLive
  <2>1. ASSUME actor'[p].pc \in {"idle", "observe", "list", "finish", "keep"},
               \A q \in Actors \ {p} : actor'[q] = actor[q]
        PROVE  DeliversLive'
    BY <1>1, <2>1 DEF LiveFits
  <2>2. actor[p].batch # {} => Current(p) \in Signals /\ Current(p) = Min(actor[p].batch)
    BY CurrentOf DEF IntakeInv, Current
  <2>3. CASE StartRun(p) \/ Observe(p) \/ FinishRun(p) \/ Crash(p)
    <3>1. \/ Remembers(p, [actor[p] EXCEPT !.pc = "list"])
          \/ Remembers(p, [actor[p] EXCEPT !.pc = "list", !.phase = "second"])
          \/ Remembers(p, Idle)
      BY <2>3 DEF StartRun, Observe, FinishRun, Crash, Goes
    <3>2. [actor[p] EXCEPT !.pc = "list"].pc = "list"
      BY <2>0 DEF Memory
    <3>3. [actor[p] EXCEPT !.pc = "list", !.phase = "second"].pc = "list" /\ Idle.pc = "idle"
      BY <2>0 DEF Memory, Idle
    <3>4. QED
      BY <2>0, <2>1, <3>1, <3>2, <3>3 DEF Remembers, TypeOK
  <2>4. CASE List(p)
    <3> DEFINE m == [actor[p] EXCEPT !.batch = Listed(p)]
    <3>1. m \in Memory
      BY <2>0, ListedOf DEF Memory, IntakeInv
    <3>2. Proceed(p, m)
      BY <2>4 DEF List
    <3> HIDE DEF m
    <3>3. QED
      BY <2>0, <2>1, <3>1, <3>2, ProceedsAnew
  <2>5. CASE Keep(p)
    <3>1. actor[p].batch # {} /\ Current(p) \in Signals /\ kept \in [Signals -> {"absent", "live", "legacy"}]
      BY <2>0, <2>2, <2>5 DEF Keep, At, MemoryFits, TypeOK
    <3>2. CASE Conflicts(p, Current(p))
      BY <2>0, <2>1, <2>5, <3>1, <3>2, EndsAnew DEF Keep
    <3>3. CASE ~Conflicts(p, Current(p))
      <4>1. kept'[Current(p)] = IF kept[Current(p)] = "absent" THEN Payload(p) ELSE kept[Current(p)]
        BY <2>5, <3>1, <3>3 DEF Keep
      <4>2. Delivering(p, actor[p]) => kept'[Current(p)] = "live"
        BY <3>1, <3>3, <4>1, ActorAssumption DEF Delivering, Conflicts, Payload
      <4>3. CASE Returns(p)
        BY <1>1, <3>1, <4>2, <4>3, ReturnsLive
      <4>4. CASE Goes(p, "load")
        <5>1. actor'[p] = [actor[p] EXCEPT !.pc = "load"] /\ \A q \in Actors \ {p} : actor'[q] = actor[q]
          BY <2>0, <4>4 DEF Goes, Remembers, TypeOK
        <5>2. actor'[p].pc = "load" /\ actor'[p].batch = actor[p].batch /\ actor'[p].phase = actor[p].phase
          BY <2>0, <5>1 DEF Memory
        <5>3. LiveFits(p, actor'[p], kept')
          BY <2>2, <3>1, <4>2, <5>2 DEF LiveFits, Delivering
        <5>4. QED
          BY <1>1, <5>1, <5>3
      <4>5. QED
        BY <2>5, <3>3, <4>3, <4>4 DEF Keep
    <3>4. QED
      BY <3>2, <3>3
  <2>6. CASE Load(p)
    <3>1. actor[p].batch # {} /\ Current(p) \in Signals /\ kept' = kept
      BY <2>0, <2>2, <2>6 DEF Load, At, MemoryFits, canonical
    <3>2. Delivering(p, actor[p]) => kept'[Current(p)] = "live"
      BY <2>0, <2>2, <2>6, <3>1 DEF Load, At, LiveFits
    <3>3. CASE Returns(p)
      BY <1>1, <3>1, <3>2, <3>3, ReturnsLive
    <3>4. CASE Fails(p)
      BY <2>0, <2>1, <3>1, <3>4, EndsAnew
    <3>5. ASSUME NEW outcome \in {"research", "no_work"},
                 Remembers(p, [actor[p] EXCEPT !.pc = "decided", !.outcome = outcome])
          PROVE  DeliversLive'
      <4>1. actor'[p] = [actor[p] EXCEPT !.pc = "decided", !.outcome = outcome]
        BY <2>0, <3>5 DEF Remembers, TypeOK
      <4>2. \A q \in Actors \ {p} : actor'[q] = actor[q]
        BY <2>0, <3>5 DEF Remembers, TypeOK
      <4>3. actor'[p].pc = "decided" /\ actor'[p].batch = actor[p].batch /\ actor'[p].phase = actor[p].phase
        BY <2>0, <4>1 DEF Memory
      <4>4. LiveFits(p, actor'[p], kept')
        BY <2>2, <3>1, <3>2, <4>3 DEF LiveFits, Delivering
      <4>5. QED
        BY <1>1, <4>2, <4>4
    <3>6. QED
      BY <2>6, <3>3, <3>4, <3>5 DEF Load
  <2>7. CASE Commit(p)
    <3>1. actor[p].batch # {} /\ Current(p) \in Signals /\ kept' = kept
      BY <2>0, <2>2, <2>7 DEF Commit, At, MemoryFits
    <3>2. Delivering(p, actor[p]) => kept'[Current(p)] = "live"
      BY <2>0, <2>2, <2>7, <3>1 DEF Commit, At, LiveFits
    <3>3. CASE Returns(p)
      BY <1>1, <3>1, <3>2, <3>3, ReturnsLive
    <3>4. CASE Fails(p)
      BY <2>0, <2>1, <3>1, <3>4, EndsAnew
    <3>5. QED
      BY <2>7, <3>3, <3>4 DEF Commit
  <2>8. CASE Acknowledge(p)
    <3>1. actor[p].batch # {} /\ Current(p) \in Signals /\ Done(p)
      BY <2>0, <2>2, <2>8 DEF Acknowledge, At, MemoryFits
    <3>2. QED
      BY <2>0, <2>1, <3>1, EndsAnew
  <2>9. QED
    BY <1>2, <2>3, <2>4, <2>5, <2>6, <2>7, <2>8 DEF RunStep
<1>3. ASSUME NEW p \in Backfills, NEW s \in Signals, StartBackfill(p, s)
      PROVE  DeliversLive'
  <2>1. p \in Actors /\ actor \in [Actors -> Memory]
    BY DEF Actors, IntakeInv, TypeOK
  <2>2. actor' = [actor EXCEPT ![p] = [Idle EXCEPT !.pc = "keep", !.batch = {s}]]
    BY <1>3 DEF StartBackfill, Remembers
  <2>3. actor'[p].pc = "keep" /\ \A q \in Actors \ {p} : actor'[q] = actor[q]
    BY <2>1, <2>2 DEF Idle
  <2>4. QED
    BY <1>1, <2>1, <2>3 DEF LiveFits
<1>4. ASSUME UNCHANGED actor PROVE DeliversLive'
  BY <1>0, <1>4, OthersDeliverLive DEF DeliversLive
<1>5. QED
  BY <1>2, <1>3, <1>4 DEF Next, vars, LegacyClaim, LegacyEnd, LegacyCrash, SharedClaim,
     SharedRelease, RecoverStaleWork, Operate

(* What keeps a paused source from a resume stays: the requeue of a row    *)
(* left by a dead worker is fenced, a signal keeps its payload, and no     *)
(* drain acknowledges one of another payload.                              *)
LEMMA BlockedStep == IntakeInv /\ DeliversLive /\ [Next]_vars => (Blocked => Blocked')
<1> SUFFICES ASSUME IntakeInv, DeliversLive, [Next]_vars, Blocked PROVE Blocked'
  OBVIOUS
<1>1. PICK s \in Signals : queue[s] = "stranded" \/ (outbox[s] = "pending" /\ kept[s] = "legacy")
  BY DEF Blocked
<1>2. authority.state = "paused" /\ TypeOK
  BY DEF Blocked, IntakeInv
<1>3. ~Allows(authority, "legacy") /\ ~Drained
  BY <1>1, <1>2 DEF Allows, Drained, Pending
<1>4. authority'.state = "paused"
  <2>1. CASE Operate
    BY <1>2, <1>3, <2>1 DEF Operate, MayInitialize, MayPause, MayResume, Reconciled, Changed
  <2>2. CASE ~Operate
    <3>1. authority' = authority
      BY <2>2 DEF Next, RunStep, StartRun, List, Observe, Keep, Load, Commit, Acknowledge, FinishRun, Crash,
              StartBackfill, LegacyClaim, LegacyEnd, LegacyCrash, SharedClaim, SharedRelease,
              RecoverStaleWork, source, vars
    <3>2. QED
      BY <1>2, <3>1
  <2>3. QED
    BY <2>1, <2>2
<1>5. queue[s] = "stranded" => queue'[s] = "stranded"
  <2>1. CASE \E p \in Actors : Observe(p)
    BY <1>2, <2>1 DEF Observe, Oldest
  <2>2. CASE \E t \in Signals : LegacyClaim(t) \/ LegacyEnd(t) \/ LegacyCrash(t)
    BY <1>2, <2>2 DEF LegacyClaim, LegacyEnd, LegacyCrash, TypeOK
  <2>3. ~RecoverStaleWork
    BY <1>3 DEF RecoverStaleWork
  <2>4. CASE queue' = queue
    BY <2>4
  <2>5. QED
    BY <2>1, <2>2, <2>3, <2>4
       DEF Next, RunStep, StartRun, List, Keep, Load, Commit, Acknowledge, FinishRun, Crash,
           StartBackfill, SharedClaim, SharedRelease, Operate, vars
<1>6. outbox[s] = "pending" /\ kept[s] = "legacy" => outbox'[s] = "pending" /\ kept'[s] = "legacy"
  <2> SUFFICES ASSUME outbox[s] = "pending", kept[s] = "legacy"
               PROVE  outbox'[s] = "pending"
    BY KeptOnce
  <2>1. CASE \E p \in Actors : Observe(p)
    BY <2>1 DEF Observe
  <2>2. ASSUME NEW p \in Actors, Acknowledge(p) PROVE outbox'[s] = "pending"
    <3>1. kept[Current(p)] = "live"
      BY <2>2 DEF DeliversLive, LiveFits, Acknowledge, At, Current
    <3>2. QED
      BY <1>2, <2>2, <3>1 DEF Acknowledge, TypeOK
  <2>3. CASE outbox' = outbox
    BY <2>3
  <2>4. QED
    BY <2>1, <2>2, <2>3
       DEF Next, RunStep, StartRun, List, Keep, Load, Commit, FinishRun, Crash, StartBackfill, LegacyClaim,
           LegacyEnd, LegacyCrash, SharedClaim, SharedRelease, RecoverStaleWork, Operate, vars
<1>7. QED
  BY <1>1, <1>4, <1>5, <1>6 DEF Blocked

(* A paused source that is blocked by the row of a dead legacy worker or   *)
(* by a delivery that conflicts with a backfill is never resumed, whatever *)
(* the operator, both pipelines and any number of polls do.                *)
THEOREM PausedForGood == Spec => StaysBlocked
<1>1. Init => DeliversLive
  BY DEF Init, DeliversLive, LiveFits, Idle
<1>2. IntakeInv /\ DeliversLive /\ [Next]_vars => [Blocked => Blocked']_vars
  BY BlockedStep
<1>3. QED
  BY <1>1, <1>2, DeliversLiveStep, IntakeInvariant, PTL DEF Spec, StaysBlocked
=============================================================================

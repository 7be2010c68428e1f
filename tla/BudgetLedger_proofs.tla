------------------------ MODULE BudgetLedger_proofs -------------------------
(***************************************************************************)
(* What BudgetLedger guarantees for any owners, allowances, attempts and   *)
(* limits.  First the facts about one row, then type correctness, then the *)
(* guarantees that hold with fences, then those that need their absence.   *)
(***************************************************************************)
EXTENDS BudgetLedger, SumLemmas

(* What findings 1 and 2 show is missing: a fence, or a settlement, that   *)
(* goes through finds the row in the state it had read it in.  The code    *)
(* does not compare the two; the theorems with these premises say that     *)
(* nothing else is missing.                                                *)
FenceMeetsWhatItRead ==
    \A o \in Owners :
        CommitFence(o) /\ ledger' # ledger => ledger[call[o].key].state = call[o].seen.state

SettleMeetsWhatItRead ==
    \A o \in Owners :
        CommitSettle(o) /\ ledger' # ledger => ledger[call[o].key].state = call[o].seen.state

(* Every write of the ledger module makes a reservation record again.      *)
LEMMA NewRowType == NewReservation \in Reservation /\ Absent \in Reservation
  BY NoResultAssumption, CallLimitAssumption, SMT
  DEF NewReservation, Absent, Reservation, OpenStates, TerminalStates

(* The row each write of the ledger module leaves is a reservation again.  *)
LEMMA WrittenRowType ==
  ASSUME NEW r \in Reservation, NEW seen \in Reservation
  PROVE  /\ Intended(r) \in Reservation
         /\ MarkedUnknown(r) \in Reservation
         /\ Released(r) \in Reservation
         /\ \A e \in Nat : Fenced(r, seen, e) \in Reservation
         /\ \A result \in Results \cup {NoResult}, charge \in 0 .. CallLimit :
               Settled(r, seen, result, charge) \in Reservation
<1>1. Intended(r) \in Reservation
  BY DEF Intended, Reservation, OpenStates
<1>2. MarkedUnknown(r) \in Reservation
  BY DEF MarkedUnknown, Reservation, OpenStates
<1>3. Released(r) \in Reservation
  <2>1. 0 \in 0 .. CallLimit
    BY CallLimitAssumption
  <2>2. QED
    BY <2>1 DEF Released, Reservation, TerminalStates
<1>4. \A e \in Nat : Fenced(r, seen, e) \in Reservation
  BY DEF Fenced, Reservation
<1>5. ASSUME NEW result \in Results \cup {NoResult}, NEW charge \in 0 .. CallLimit
      PROVE  Settled(r, seen, result, charge) \in Reservation
  BY DEF Settled, Reservation, TerminalStates
<1>6. QED
  BY <1>1, <1>2, <1>3, <1>4, <1>5

(* The memory of an owner with no call in flight is a well-formed call.    *)
LEMMA IdleType == Idle \in Call
<1>1. \E k \in Keys : TRUE
  <2>1. PICK a \in Allowances, t \in Attempts : TRUE
    BY KeysAssumption
  <2>2. <<a, t>> \in Keys
    BY DEF Keys
  <2>3. QED
    BY <2>2
<1>2. QED
  <2>1. (CHOOSE k \in Keys : TRUE) \in Keys
    BY <1>1
  <2>2. QED
    BY <2>1, NewRowType DEF Idle, Call, Pc, Verifications

(* What Holds leaves in an owner's memory is a well-formed call.           *)
LEMMA HoldsType ==
  ASSUME NEW o \in Owners, NEW k \in Keys, NEW r \in Reservation,
         call \in [Owners -> Call], Holds(o, k, r)
  PROVE  call' \in [Owners -> Call]
  BY IdleType DEF Holds, Call, Pc
-----------------------------------------------------------------------------
(* One step of one owner keeps every variable in its type.                 *)
LEMMA TypeStep == TypeOK /\ [Next]_vars => TypeOK'
<1> SUFFICES ASSUME TypeOK, [Next]_vars PROVE TypeOK'
  OBVIOUS
<1> USE DEF TypeOK
<1>1. CASE UNCHANGED vars
  BY <1>1 DEF vars
<1>2. ASSUME NEW o \in Owners, OwnerStep(o) PROVE TypeOK'
  <2> DEFINE k == call[o].key
  <2>0. /\ call[o] \in Call /\ k \in Keys /\ call[o].seen \in Reservation
        /\ ledger[k] \in Reservation /\ sent[k] \in Nat
        /\ call[o].result \in Results \cup {NoResult}
    BY DEF Call
  <2> HIDE DEF k
  <2>1. ASSUME NEW j \in Keys, ListAllowance(o, j) PROVE TypeOK'
    BY <2>1, IdleType DEF ListAllowance, Call, Pc
  <2>2. ASSUME NEW j \in Keys, Lookup(o, j) PROVE TypeOK'
    BY <2>2, HoldsType DEF Lookup
  <2>3. CASE Insert(o)
    <3>1. CASE InsertWins(k)
      BY <2>3, <3>1, <2>0, NewRowType, HoldsType DEF Insert, k
    <3>2. CASE ~InsertWins(k)
      BY <2>3, <3>2, <2>0, IdleType DEF Insert, Ends, k
    <3>3. QED
      BY <3>1, <3>2
  <2>4. CASE RecordDispatchIntent(o)
    <3>1. CASE MayIntend(ledger[k], call[o].seen.epoch)
      <4>1. ledger' = [ledger EXCEPT ![k] = Intended(@)] /\ UNCHANGED sent
        BY <2>4, <3>1 DEF RecordDispatchIntent, k
      <4>2. call' = [call EXCEPT ![o].pc = "armed"]
        BY <2>4, <3>1 DEF RecordDispatchIntent, Becomes, k
      <4>3. ledger' \in [Keys -> Reservation]
        BY <4>1, <2>0, WrittenRowType
      <4>4. call' \in [Owners -> Call]
        BY <4>2, <2>0 DEF Call, Pc
      <4>5. QED
        BY <4>1, <4>3, <4>4
    <3>2. CASE ~MayIntend(ledger[k], call[o].seen.epoch)
      BY <2>4, <3>2, <2>0, IdleType DEF RecordDispatchIntent, Ends, k
    <3>3. QED
      BY <3>1, <3>2
  <2>5. CASE Dispatch(o)
    <3>1. sent' \in [Keys -> Nat]
      BY <2>5, <2>0 DEF Dispatch, k
    <3>2. call' \in [Owners -> Call] /\ UNCHANGED ledger
      BY <2>5, <2>0 DEF Dispatch, Becomes, Call, Pc
    <3>3. QED
      BY <3>1, <3>2
  <2>6. CASE RecordUnknownOutcome(o)
    BY <2>6, <2>0, WrittenRowType DEF RecordUnknownOutcome, k
  <2>7. CASE ReleaseNoDispatch(o)
    BY <2>7, <2>0, WrittenRowType, IdleType DEF ReleaseNoDispatch, Ends, k
  <2>8. CASE ReadForFence(o)
    BY <2>8, <2>0 DEF ReadForFence, Call, Pc, k
  <2>9. CASE CommitFence(o)
    <3>1. call[o].seen.epoch + 1 \in Nat
      BY <2>0 DEF Reservation
    <3>2. Fenced(ledger[k], call[o].seen, call[o].seen.epoch + 1) \in Reservation
      BY <3>1, <2>0, WrittenRowType
    <3>3. QED
      BY <2>9, <3>2, <2>0, IdleType, HoldsType DEF CommitFence, Ends, k
  <2>10. ASSUME NEW how \in Verifications, NEW result \in Results \cup {NoResult},
                ReadForSettle(o, how, result)
         PROVE  TypeOK'
    BY <2>10, <2>0 DEF ReadForSettle, Call, Pc, k
  <2>11. CASE CommitSettle(o)
    <3>1. call' \in [Owners -> Call] /\ UNCHANGED sent
      BY <2>11, IdleType DEF CommitSettle, Ends
    <3>2. CASE UNCHANGED ledger
      BY <3>1, <3>2
    <3>3. ASSUME NEW charge \in 0 .. CallLimit,
                 ledger' = [ledger EXCEPT ![k] = Settled(@, call[o].seen, call[o].result, charge)]
          PROVE  TypeOK'
      BY <3>1, <3>3, <2>0, WrittenRowType
    <3>4. QED
      BY <2>11, <3>2, <3>3 DEF CommitSettle, k
  <2>12. CASE Forget(o)
    BY <2>12, IdleType DEF Forget, Ends
  <2>13. QED
    BY <1>2, <2>1, <2>2, <2>3, <2>4, <2>5, <2>6, <2>7, <2>8, <2>9, <2>10, <2>11, <2>12 DEF OwnerStep
<1>3. QED
  BY <1>1, <1>2 DEF Next

(* Type correctness of the ledger, with or without fences.                 *)
THEOREM LedgerTypeCorrect == Spec => []TypeOK
<1>1. Init => TypeOK
  BY NewRowType, IdleType DEF Init, TypeOK
<1>2. QED
  BY <1>1, TypeStep, PTL DEF Spec
-----------------------------------------------------------------------------
(* How one owner's step changes the row of a key, fences included: at most *)
(* one row changes, and from a state that is not terminal.                 *)
Writes(k) ==
    \/ /\ InsertWins(k)
       /\ ledger' = [ledger EXCEPT ![k] = NewReservation]
    \/ /\ ledger[k].state = "reserved_not_dispatched"
       /\ ledger' = [ledger EXCEPT ![k] = Intended(@)]
    \/ /\ ledger[k].state \in {"reserved_not_dispatched", "dispatch_intent"}
       /\ ledger' = [ledger EXCEPT ![k] = MarkedUnknown(@)]
    \/ /\ ledger[k].state = "reserved_not_dispatched"
       /\ ledger' = [ledger EXCEPT ![k] = Released(@)]
    \/ /\ ledger[k].state \in OpenStates
       /\ \E seen \in Reservation, e \in Nat : ledger' = [ledger EXCEPT ![k] = Fenced(@, seen, e)]
    \/ /\ ledger[k].state \in {"dispatch_intent", "execution_outcome_unknown"}
       /\ \E seen \in Reservation, result \in Results \cup {NoResult}, charge \in 0 .. CallLimit :
             ledger' = [ledger EXCEPT ![k] = Settled(@, seen, result, charge)]

(* Every write of the ledger is one of these, on one row.                  *)
LEMMA LedgerWrites ==
  ASSUME TypeOK, [Next]_vars
  PROVE  UNCHANGED ledger \/ \E k \in Keys : Writes(k)
<1>1. CASE UNCHANGED vars
  BY <1>1 DEF vars
<1>2. ASSUME NEW o \in Owners, OwnerStep(o)
      PROVE  UNCHANGED ledger \/ Writes(call[o].key)
  <2>0. call[o].key \in Keys /\ call[o].seen \in Reservation /\ call[o].result \in Results \cup {NoResult}
    BY DEF TypeOK, Call
  <2>1. CASE Insert(o)
    BY <2>1 DEF Insert, Writes
  <2>2. CASE RecordDispatchIntent(o)
    BY <2>2 DEF RecordDispatchIntent, Writes, MayIntend
  <2>3. CASE RecordUnknownOutcome(o)
    BY <2>3 DEF RecordUnknownOutcome, Writes, MayMarkUnknown
  <2>4. CASE ReleaseNoDispatch(o)
    BY <2>4 DEF ReleaseNoDispatch, Writes, MayRelease
  <2>5. CASE CommitFence(o)
    <3>1. call[o].seen.epoch + 1 \in Nat
      BY <2>0 DEF Reservation
    <3>2. QED
      BY <2>5, <3>1, <2>0 DEF CommitFence, Writes, MayFence
  <2>6. CASE CommitSettle(o)
    BY <2>6, <2>0 DEF CommitSettle, Writes, SettleCommits
  <2>7. QED
    BY <1>2, <2>1, <2>2, <2>3, <2>4, <2>5, <2>6
    DEF OwnerStep, ListAllowance, Lookup, Dispatch, ReadForFence, ReadForSettle, Forget
<1>3. ASSUME NEW o \in Owners PROVE TypeOK => call[o].key \in Keys
  BY DEF TypeOK, Call
<1>4. QED
  BY <1>1, <1>2, <1>3 DEF Next

(* TerminalIsFinal for every instance: no late settlement, fence, unknown  *)
(* outcome or intent touches a settled or released row.                    *)
THEOREM TerminalNeverChanges == Spec => TerminalIsFinal
<1>1. TypeOK /\ [Next]_vars =>
        [\A k \in Keys : ledger[k].state \in TerminalStates => ledger'[k] = ledger[k]]_vars
  <2> SUFFICES ASSUME TypeOK, [Next]_vars, NEW k \in Keys, ledger[k].state \in TerminalStates
               PROVE  ledger'[k] = ledger[k]
    OBVIOUS
  <2>1. CASE UNCHANGED ledger
    BY <2>1
  <2>2. ASSUME NEW j \in Keys, Writes(j) PROVE ledger'[k] = ledger[k]
    <3>1. j # k
      BY <2>2 DEF Writes, InsertWins, TerminalStates, OpenStates
    <3>2. QED
      BY <2>2, <3>1 DEF Writes, TypeOK
  <2>3. QED
    BY <2>1, <2>2, LedgerWrites
<1>2. QED
  BY <1>1, LedgerTypeCorrect, PTL DEF Spec, TerminalIsFinal

(* OneExposurePerAllowance for every instance: two owners may both list a  *)
(* free allowance, and the row of one of them wins.                        *)
THEOREM OneExposure == Spec => []OneExposurePerAllowance
<1>1. Init => OneExposurePerAllowance
  BY DEF Init, OneExposurePerAllowance, Absent
<1>2. OneExposurePerAllowance /\ TypeOK /\ [Next]_vars => OneExposurePerAllowance'
  <2> DEFINE Live(f, k) == f[k].state \notin {"absent", "released"}
  <2> SUFFICES ASSUME OneExposurePerAllowance, TypeOK, [Next]_vars,
                      NEW j \in Keys, NEW k \in Keys, Allowance(j) = Allowance(k),
                      Live(ledger', j), Live(ledger', k)
               PROVE  j = k
    BY DEF OneExposurePerAllowance, Allowance
  <2>1. CASE UNCHANGED ledger
    BY <2>1 DEF OneExposurePerAllowance
  <2>2. ASSUME NEW i \in Keys, Writes(i) PROVE j = k
    <3>1. \A l \in Keys : l # i => ledger'[l] = ledger[l]
      BY <2>2 DEF Writes, TypeOK
    <3>2. CASE InsertWins(i)
      (* every other live row belongs to another allowance *)
      <4>1. \A l \in Keys : l # i /\ Allowance(l) = Allowance(i) => ~Live(ledger, l)
        BY <3>2 DEF InsertWins, Rows, Existing
      <4>2. QED
        BY <4>1, <3>1 DEF OneExposurePerAllowance
    <3>3. CASE Live(ledger, i)
      BY <3>3, <3>1 DEF OneExposurePerAllowance
    <3>4. QED
      BY <2>2, <3>2, <3>3 DEF Writes, OpenStates
  <2>3. QED
    BY <2>1, <2>2, LedgerWrites
<1>3. QED
  BY <1>1, <1>2, LedgerTypeCorrect, PTL DEF Spec
-----------------------------------------------------------------------------
(* Why the limit holds.  The insert checks the limit of its moment; after  *)
(* it nothing may add to what a row counts for.  An open row counts for    *)
(* the most a reservation can, so that its settlement only gives back; a   *)
(* fence, which writes a state back, only ever writes an open one.         *)
OpenOwesAll ==
    /\ \A k \in Keys : ledger[k].state \in OpenStates => ledger[k].charge = CallLimit
    /\ \A o \in Owners : call[o].pc = "fencing" => call[o].seen.state \in OpenStates

LEMMA FencersSawOpen ==
  ASSUME TypeOK, OpenOwesAll, [Next]_vars, NEW p \in Owners, call'[p].pc = "fencing"
  PROVE  call'[p].seen.state \in OpenStates
<1>1. CASE UNCHANGED vars
  BY <1>1 DEF vars, OpenOwesAll
<1>2. ASSUME NEW o \in Owners, OwnerStep(o) PROVE call'[p].seen.state \in OpenStates
  <2>0. call \in [Owners -> Call] /\ Idle.pc = "idle"
    BY DEF TypeOK, Idle
  <2> DEFINE Same == call'[p] = call[p] \/ call'[p].pc # "fencing"
  <2>1. Ends(o) => Same
    BY <2>0 DEF Ends
  <2>2. \A k, r : Holds(o, k, r) => Same
    BY <2>0 DEF Holds, Idle
  <2>3. \A pc : Becomes(o, pc) /\ pc # "fencing" => Same
    BY <2>0 DEF Becomes, Call
  <2>4. \A k \in Keys : ListAllowance(o, k) \/ Lookup(o, k) => Same
    BY <2>0, <2>2 DEF ListAllowance, Lookup, Idle
  <2>5. \A how, result : ReadForSettle(o, how, result) => Same
    BY <2>0 DEF ReadForSettle, Call
  <2>6. Insert(o) \/ RecordDispatchIntent(o) \/ Dispatch(o) \/ CommitFence(o) => Same
    BY <2>1, <2>2, <2>3 DEF Insert, RecordDispatchIntent, Dispatch, CommitFence
  <2>7. RecordUnknownOutcome(o) \/ ReleaseNoDispatch(o) \/ CommitSettle(o) \/ Forget(o) => Same
    BY <2>1 DEF RecordUnknownOutcome, ReleaseNoDispatch, CommitSettle, Forget
  <2>8. CASE ReadForFence(o)
    BY <2>0, <2>8 DEF ReadForFence, OpenOwesAll, Call
  <2>9. CASE Same
    BY <2>9 DEF OpenOwesAll
  <2> HIDE DEF Same
  <2>10. QED
    BY <1>2, <2>4, <2>5, <2>6, <2>7, <2>8, <2>9 DEF OwnerStep
<1>3. QED
  BY <1>1, <1>2 DEF Next

(* The effect of a write on the accounts: a new row, the release of one, or*)
(* a row that goes on counting, for no more than before.                   *)
Accounts(k) ==
    \/ /\ InsertWins(k)
       /\ ledger' = [ledger EXCEPT ![k] = NewReservation]
    \/ /\ k \in Counted
       /\ \E r \in Reservation :
             /\ ledger' = [ledger EXCEPT ![k] = r]
             /\ \/ r.state \in {"settled", "released"} /\ r.charge <= ledger[k].charge
                \/ r.state \in OpenStates /\ r.charge = ledger[k].charge /\ ledger[k].state \in OpenStates

LEMMA LedgerAccounts ==
  ASSUME TypeOK, OpenOwesAll, [Next]_vars
  PROVE  UNCHANGED ledger \/ \E k \in Keys : Accounts(k)
<1>1. CASE UNCHANGED vars
  BY <1>1 DEF vars
<1>2. ASSUME NEW o \in Owners, OwnerStep(o)
      PROVE  UNCHANGED ledger \/ Accounts(call[o].key)
  <2> DEFINE k == call[o].key
             seen == call[o].seen
  <2>0. /\ k \in Keys /\ seen \in Reservation /\ call[o].result \in Results \cup {NoResult}
        /\ ledger[k] \in Reservation
        /\ ledger[k].state \in OpenStates => ledger[k].charge = CallLimit /\ k \in Counted
    BY DEF TypeOK, Call, OpenOwesAll, Counted, Existing, OpenStates
  <2> HIDE DEF k, seen
  <2>1. CASE Insert(o)
    BY <2>1 DEF Insert, Accounts, k
  (* A write from an open row, in the words of Accounts.                   *)
  <2>2. ASSUME NEW r \in Reservation, ledger' = [ledger EXCEPT ![k] = r],
               ledger[k].state \in OpenStates,
               \/ r.state \in {"settled", "released"}
               \/ r.state \in OpenStates /\ r.charge = ledger[k].charge
        PROVE  Accounts(k)
    <3>1. r.charge <= CallLimit
      BY CallLimitAssumption DEF Reservation
    <3>2. QED
      BY <2>0, <2>2, <3>1 DEF Accounts
  <2>3. CASE RecordDispatchIntent(o)
    <3>1. Intended(ledger[k]) \in Reservation /\ Intended(ledger[k]).state \in OpenStates
          /\ Intended(ledger[k]).charge = ledger[k].charge
      BY <2>0, WrittenRowType DEF Intended, Reservation, OpenStates
    <3>2. QED
      BY <2>2, <2>3, <3>1 DEF RecordDispatchIntent, MayIntend, OpenStates, k
  <2>4. CASE RecordUnknownOutcome(o)
    <3>1. MarkedUnknown(ledger[k]) \in Reservation /\ MarkedUnknown(ledger[k]).state \in OpenStates
          /\ MarkedUnknown(ledger[k]).charge = ledger[k].charge
      BY <2>0, WrittenRowType DEF MarkedUnknown, Reservation, OpenStates
    <3>2. QED
      BY <2>2, <2>4, <3>1 DEF RecordUnknownOutcome, MayMarkUnknown, OpenStates, k
  <2>5. CASE ReleaseNoDispatch(o)
    <3>1. Released(ledger[k]) \in Reservation
      BY <2>0, WrittenRowType
    <3>2. Released(ledger[k]).state = "released"
      BY <2>0 DEF Released, Reservation
    <3>3. QED
      BY <2>2, <2>5, <3>1, <3>2 DEF ReleaseNoDispatch, MayRelease, OpenStates, k
  <2>6. CASE CommitFence(o)
    <3> DEFINE r == Fenced(ledger[k], seen, seen.epoch + 1)
    <3>1. seen.epoch + 1 \in Nat /\ seen.state \in OpenStates
      BY <2>0, <2>6 DEF Reservation, CommitFence, OpenOwesAll, seen
    <3>2. r \in Reservation
      BY <2>0, <3>1, WrittenRowType
    <3>3. r.state \in OpenStates /\ r.charge = ledger[k].charge
      BY <2>0, <3>1 DEF Fenced, Reservation
    <3>4. \/ ledger' = [ledger EXCEPT ![k] = r] /\ ledger[k].state \in OpenStates
          \/ UNCHANGED ledger
      BY <2>6 DEF CommitFence, MayFence, k, seen
    <3> HIDE DEF r
    <3>5. QED
      BY <2>2, <3>2, <3>3, <3>4 DEF k
  <2>7. CASE CommitSettle(o) /\ ~UNCHANGED ledger
    <3>1. PICK charge \in 0 .. CallLimit :
             ledger' = [ledger EXCEPT ![k] = Settled(@, seen, call[o].result, charge)]
      BY <2>7 DEF CommitSettle, k, seen
    <3> DEFINE r == Settled(ledger[k], seen, call[o].result, charge)
    <3>2. r \in Reservation
      BY <2>0, WrittenRowType
    <3>3. r.state = "settled"
      BY <2>0 DEF Settled, Reservation
    <3>4. ledger[k].state \in OpenStates
      BY <2>7 DEF CommitSettle, SettleCommits, OpenStates, k
    <3>5. ledger' = [ledger EXCEPT ![k] = r]
      BY <3>1
    <3> HIDE DEF r
    <3>6. QED
      BY <2>2, <3>2, <3>3, <3>4, <3>5 DEF k
  <2>8. QED
    BY <1>2, <2>1, <2>3, <2>4, <2>5, <2>6, <2>7
    DEF OwnerStep, ListAllowance, Lookup, Dispatch, ReadForFence, ReadForSettle, Forget
<1>3. ASSUME NEW o \in Owners PROVE call[o].key \in Keys
  BY DEF TypeOK, Call
<1>4. QED
  BY <1>1, <1>2, <1>3 DEF Next

LEMMA OpenStep ==
  ASSUME TypeOK, OpenOwesAll, [Next]_vars
  PROVE  OpenOwesAll'
<1>1. \A o \in Owners : call'[o].pc = "fencing" => call'[o].seen.state \in OpenStates
  BY FencersSawOpen
<1>2. ASSUME NEW k \in Keys, ledger'[k].state \in OpenStates PROVE ledger'[k].charge = CallLimit
  <2>1. CASE UNCHANGED ledger
    BY <1>2, <2>1 DEF OpenOwesAll
  <2>2. ASSUME NEW j \in Keys, Accounts(j) PROVE ledger'[k].charge = CallLimit
    <3>1. ledger \in [Keys -> Reservation]
      BY DEF TypeOK
    <3>2. CASE j # k
      BY <1>2, <2>2, <3>1, <3>2 DEF Accounts, OpenOwesAll
    <3>3. CASE j = k
      BY <1>2, <2>2, <3>1, <3>3 DEF Accounts, OpenOwesAll, NewReservation, OpenStates
    <3>4. QED
      BY <3>2, <3>3
  <2>3. QED
    BY <2>1, <2>2, LedgerAccounts
<1>3. QED
  BY <1>1, <1>2 DEF OpenOwesAll

(* The invariant about the sum, of which only finitely many rows count.    *)
LimitInv == OpenOwesAll /\ IsFiniteSet(Counted) /\ TotalExposure <= AssignmentLimit

LEMMA LimitStep ==
  ASSUME TypeOK, TypeOK', LimitInv, [Next]_vars
  PROVE  LimitInv'
<1>0. /\ \A k \in Keys : Exposure[k] \in Nat /\ Exposure'[k] \in Nat
      /\ ledger \in [Keys -> Reservation] /\ CallLimit \in Nat /\ AssignmentLimit \in Nat
      /\ \A k \in Counted : Exposure[k] \in Int /\ Exposure'[k] \in Int
      /\ Counted \subseteq Keys
  BY CallLimitAssumption, AssignmentLimitAssumption DEF TypeOK, Exposure, Reservation, Counted, Existing
<1>1. OpenOwesAll'
  BY OpenStep DEF LimitInv
<1>2. CASE UNCHANGED ledger
  BY <1>1, <1>2 DEF LimitInv, TotalExposure, Exposure, Counted, Existing
<1>3. ASSUME NEW k \in Keys, Accounts(k) PROVE LimitInv'
  <2>1. IsFiniteSet(Counted) /\ TotalExposure \in Int /\ TotalExposure <= AssignmentLimit
    BY <1>0, SumInt DEF LimitInv, TotalExposure
  <2>2. \A j \in Keys \ {k} : ledger'[j] = ledger[j] /\ Exposure'[j] = Exposure[j]
                              /\ (j \in Counted' <=> j \in Counted)
    BY <1>0, <1>3 DEF Accounts, Exposure, Counted, Existing
  <2>3. CASE InsertWins(k) /\ ledger' = [ledger EXCEPT ![k] = NewReservation]
    <3>1. k \notin Counted /\ k \in Counted' /\ Exposure'[k] = CallLimit
      BY <1>0, <2>3 DEF InsertWins, Counted, Existing, Exposure, NewReservation
    <3>2. Counted' = Counted \cup {k}
      BY <1>0, <2>2, <3>1 DEF Counted, Existing
    <3>3. IsFiniteSet(Counted')
      BY <2>1, <3>2, FS_AddElement
    <3>4. SumFunctionOnSet(Exposure', Counted \cup {k}) = SumFunctionOnSet(Exposure', Counted) + CallLimit
      BY <1>0, <2>1, <3>1, SumAdd
    <3>5. /\ SumFunctionOnSet(Exposure', Counted) <= TotalExposure
          /\ SumFunctionOnSet(Exposure', Counted) \in Int
      <4>1. \A j \in Counted : Exposure'[j] <= Exposure[j]
        BY <1>0, <2>2, <3>1
      <4>2. QED
        BY <1>0, <2>1, <4>1, SumMonotonic, SumInt DEF TotalExposure
    <3>6. TotalExposure + CallLimit <= AssignmentLimit
      BY <2>3 DEF InsertWins
    <3>7. TotalExposure' <= AssignmentLimit
      BY <1>0, <2>1, <3>2, <3>4, <3>5, <3>6 DEF TotalExposure
    <3>8. QED
      BY <1>1, <3>3, <3>7 DEF LimitInv
  <2>4. CASE k \in Counted /\ Exposure'[k] <= Exposure[k] /\ k \in Counted'
    <3>1. Counted' = Counted
      BY <1>0, <2>2, <2>4 DEF Counted, Existing
    <3>2. /\ SumFunctionOnSet(Exposure', Counted) <= TotalExposure
          /\ SumFunctionOnSet(Exposure', Counted) \in Int
      <4>1. \A j \in Counted : Exposure'[j] <= Exposure[j]
        BY <1>0, <2>2, <2>4
      <4>2. QED
        BY <1>0, <2>1, <4>1, SumMonotonic, SumInt DEF TotalExposure
    <3>3. QED
      BY <1>0, <1>1, <2>1, <3>1, <3>2 DEF LimitInv, TotalExposure
  <2>5. CASE k \in Counted /\ k \notin Counted'
    <3>1. Counted' = Counted \ {k}
      BY <1>0, <2>2, <2>5 DEF Counted, Existing
    <3>2. IsFiniteSet(Counted \ {k})
      BY <2>1, FS_RemoveElement
    <3>3. TotalExposure = Exposure[k] + SumFunctionOnSet(Exposure, Counted \ {k})
      BY <1>0, <2>1, <2>5, SumRemove DEF TotalExposure
    <3>4. SumFunctionOnSet(Exposure', Counted \ {k}) <= SumFunctionOnSet(Exposure, Counted \ {k})
      BY <1>0, <2>2, <3>2, SumMonotonic
    <3>5. SumFunctionOnSet(Exposure', Counted \ {k}) \in Int
          /\ SumFunctionOnSet(Exposure, Counted \ {k}) \in Int
      BY <1>0, <3>2, SumInt
    <3>6. QED
      BY <1>0, <1>1, <2>1, <3>1, <3>2, <3>3, <3>4, <3>5 DEF LimitInv, TotalExposure
  <2>6. CASE k \in Counted /\ Exposure'[k] <= Exposure[k]
    BY <2>4, <2>5, <2>6
  <2>7. QED
    <3>1. ASSUME NEW r \in Reservation, ledger' = [ledger EXCEPT ![k] = r], r.charge <= ledger[k].charge
          PROVE  Exposure'[k] <= Exposure[k]
      BY <1>0, <3>1 DEF Exposure
    <3>2. \A r \in Reservation : r.charge = ledger[k].charge => r.charge <= ledger[k].charge
      BY <1>0 DEF Reservation
    <3>3. QED
      BY <1>3, <2>3, <2>6, <3>1, <3>2 DEF Accounts
<1>4. QED
  BY <1>2, <1>3, LedgerAccounts DEF LimitInv

(* ExposureWithinLimit for every instance, fences included: however owners *)
(* interleave, the rows of a root never count for more calls than its      *)
(* approved limit.                                                         *)
THEOREM LimitIsKept == Spec => []ExposureWithinLimit
<1>1. Init => LimitInv
  <2> SUFFICES ASSUME Init PROVE LimitInv
    OBVIOUS
  <2>1. Counted = {}
    BY DEF Init, Counted, Existing, Absent
  <2>2. OpenOwesAll
    BY DEF Init, OpenOwesAll, Absent, OpenStates, Idle
  <2>3. QED
    BY <2>1, <2>2, SumEmpty, FS_EmptySet, AssignmentLimitAssumption DEF LimitInv, TotalExposure
<1>2. TypeOK /\ TypeOK' /\ LimitInv /\ [Next]_vars => LimitInv'
  BY LimitStep
<1>3. LimitInv => ExposureWithinLimit
  BY DEF LimitInv, ExposureWithinLimit
<1>4. QED
  BY <1>1, <1>2, <1>3, LedgerTypeCorrect, PTL DEF Spec
-----------------------------------------------------------------------------
(* From here on a fence that goes through finds the state it read: then an *)
(* armed owner is the only one, because its row left the reserved state    *)
(* when it got armed, nothing brings it back, and nothing was sent for it  *)
(* before.  Owners that never fence are the case without a premise.        *)
LEMMA NoFencers ==
  ASSUME Fencers = {}
  PROVE  Spec => [][FenceMeetsWhatItRead]_vars
<1> DEFINE NobodyFences == \A o \in Owners : call[o].pc # "fencing"
<1>1. Init => NobodyFences
  BY DEF Init, Idle
<1>2. TypeOK /\ NobodyFences /\ [Next]_vars => NobodyFences'
  <2> SUFFICES ASSUME TypeOK, NobodyFences, [Next]_vars, NEW p \in Owners
               PROVE  call'[p].pc # "fencing"
    OBVIOUS
  <2>1. CASE UNCHANGED vars
    BY <2>1 DEF vars
  <2>2. ASSUME NEW o \in Owners, OwnerStep(o) PROVE call'[p].pc # "fencing"
    <3>1. ~ReadForFence(o)
      BY DEF ReadForFence
    <3>2. call \in [Owners -> Call] /\ Idle.pc # "fencing"
      BY DEF TypeOK, Idle
    <3> DEFINE Kept == call'[p].pc # "fencing"
    <3>3. Ends(o) => Kept
      BY <3>2 DEF Ends
    <3>4. \A k, r : Holds(o, k, r) => Kept
      BY <3>2 DEF Holds, Idle
    <3>5. \A pc : Becomes(o, pc) /\ pc # "fencing" => Kept
      BY <3>2 DEF Becomes, Call, TypeOK
    <3>6. \A k \in Keys : ListAllowance(o, k) \/ Lookup(o, k) => Kept
      BY <3>2, <3>4 DEF ListAllowance, Lookup, Idle
    <3>7. \A how, result : ReadForSettle(o, how, result) => Kept
      BY <3>2 DEF ReadForSettle, TypeOK, Call
    <3>8. Insert(o) \/ RecordDispatchIntent(o) \/ Dispatch(o) => Kept
      BY <3>3, <3>4, <3>5 DEF Insert, RecordDispatchIntent, Dispatch
    <3>9. RecordUnknownOutcome(o) \/ ReleaseNoDispatch(o) \/ CommitSettle(o) \/ Forget(o) => Kept
      BY <3>3 DEF RecordUnknownOutcome, ReleaseNoDispatch, CommitSettle, Forget
    <3>10. ~CommitFence(o)
      BY DEF CommitFence
    <3> HIDE DEF Kept
    <3>11. Kept
      BY <2>2, <3>1, <3>6, <3>7, <3>8, <3>9, <3>10 DEF OwnerStep
    <3>12. QED
      BY <3>11 DEF Kept
  <2>3. QED
    BY <2>1, <2>2 DEF Next
<1>3. NobodyFences => FenceMeetsWhatItRead
  BY DEF FenceMeetsWhatItRead, CommitFence
<1>4. QED
  BY <1>1, <1>2, <1>3, LedgerTypeCorrect, PTL DEF Spec

Committed == {"dispatch_intent", "execution_outcome_unknown", "settled"}

ArmedIsAlone ==
    /\ \A o \in Owners : call[o].pc = "armed" =>
          sent[call[o].key] = 0 /\ ledger[call[o].key].state \in Committed
    /\ \A o, p \in Owners :
          call[o].pc = "armed" /\ call[p].pc = "armed" /\ call[o].key = call[p].key => o = p
    /\ \A k \in Keys :
          sent[k] \in {0, 1} /\ (sent[k] = 1 => ledger[k].state \in Committed)

(* Such a fence changes the state of no row.                               *)
LEMMA FenceKeepsState ==
  ASSUME TypeOK, [FenceMeetsWhatItRead]_vars, NEW o \in Owners, CommitFence(o)
  PROVE  \A k \in Keys : ledger'[k].state = ledger[k].state
<1>1. CASE UNCHANGED ledger
  BY <1>1
<1>2. CASE ledger' # ledger
  <2>1. /\ call[o].key \in Keys /\ ledger \in [Keys -> Reservation]
        /\ ledger[call[o].key].state = call[o].seen.state
    BY <1>2 DEF TypeOK, Call, FenceMeetsWhatItRead, vars
  <2>2. ledger' = [ledger EXCEPT ![call[o].key] = Fenced(@, call[o].seen, call[o].seen.epoch + 1)]
    BY <1>2 DEF CommitFence
  <2>3. QED
    BY <2>1, <2>2 DEF Fenced, Reservation
<1>3. QED
  BY <1>1, <1>2

(* A committed row (intent, unknown or settled) stays one unless a fence   *)
(* writes back a state it read before.                                     *)
LEMMA CommittedStays ==
  ASSUME TypeOK, [Next]_vars, [FenceMeetsWhatItRead]_vars,
         NEW k \in Keys, ledger[k].state \in Committed
  PROVE  ledger'[k].state \in Committed
<1>1. CASE UNCHANGED ledger
  BY <1>1
<1>2. ASSUME NEW o \in Owners, OwnerStep(o), ~UNCHANGED ledger
      PROVE  ledger'[k].state \in Committed
  <2>0. /\ call[o].key \in Keys
        /\ ledger \in [Keys -> Reservation]
        /\ call[o].result \in Results \cup {NoResult}
    BY DEF TypeOK, Call
  <2>1. CASE Insert(o)
    BY <2>1, <2>0, <1>2 DEF Insert, InsertWins, Committed, Reservation
  <2>2. CASE RecordDispatchIntent(o)
    BY <2>2, <2>0, <1>2 DEF RecordDispatchIntent, MayIntend, Intended, Committed, Reservation
  <2>3. CASE RecordUnknownOutcome(o)
    BY <2>3, <2>0 DEF RecordUnknownOutcome, MayMarkUnknown, MarkedUnknown, Committed, Reservation
  <2>4. CASE ReleaseNoDispatch(o)
    BY <2>4, <2>0 DEF ReleaseNoDispatch, MayRelease, Committed
  <2>5. CASE CommitSettle(o)
    BY <2>5, <2>0, <1>2 DEF CommitSettle, Settled, Committed, Reservation
  <2>6. CASE CommitFence(o)
    BY <2>6, <1>2, FenceKeepsState
  <2>7. QED
    BY <1>2, <2>0, <2>1, <2>2, <2>3, <2>4, <2>5, <2>6
    DEF OwnerStep, ListAllowance, Lookup, Dispatch, ReadForFence, ReadForSettle, Forget
<1>3. QED
  BY <1>1, <1>2 DEF Next, vars

(* One step keeps ArmedIsAlone: each of the five conjuncts, per action.    *)
LEMMA ArmedStep ==
  ASSUME TypeOK, [Next]_vars, [FenceMeetsWhatItRead]_vars, ArmedIsAlone
  PROVE  ArmedIsAlone'
<1> DEFINE Rest == \A k \in Keys : ledger[k].state \in Committed => ledger'[k].state \in Committed
<1>0. Rest
  BY CommittedStays
<1>1. CASE UNCHANGED vars
  BY <1>1 DEF vars, ArmedIsAlone
<1>2. ASSUME NEW o \in Owners, OwnerStep(o) PROVE ArmedIsAlone'
  <2>0. call[o].key \in Keys /\ call \in [Owners -> Call] /\ sent \in [Keys -> Nat]
    BY DEF TypeOK, Call
  <2> HIDE DEF Rest
  (* Steps after which the owner is neither armed nor has sent.            *)
  <2>1. ASSUME UNCHANGED sent, call'[o].pc # "armed",
               \A p \in Owners \ {o} : call'[p] = call[p]
        PROVE  ArmedIsAlone'
    <3>1. \A p \in Owners : call'[p].pc = "armed" => call'[p] = call[p]
      BY <2>1
    <3>2. \A p \in Owners : call[p].key \in Keys
      BY DEF TypeOK, Call
    <3>3. QED
      BY <2>1, <3>1, <3>2, <1>0 DEF ArmedIsAlone, Rest
  <2>2. CASE RecordDispatchIntent(o) /\ MayIntend(ledger[call[o].key], call[o].seen.epoch)
    <3> DEFINE k == call[o].key
    <3>1. /\ ledger[k].state = "reserved_not_dispatched" /\ ledger'[k].state = "dispatch_intent"
          /\ UNCHANGED sent
      BY <2>2, <2>0 DEF RecordDispatchIntent, MayIntend, Intended, TypeOK, Reservation
    <3>2. \A p \in Owners \ {o} : call'[p] = call[p]
      BY <2>2, <2>0 DEF RecordDispatchIntent, Becomes
    <3>3. call'[o].pc = "armed" /\ call'[o].key = k
      BY <2>2, <2>0 DEF RecordDispatchIntent, Becomes, Call
    <3>4. sent[k] = 0 /\ \A p \in Owners : call[p].pc = "armed" => call[p].key # k
      BY <3>1, <2>0 DEF ArmedIsAlone, Committed
    <3>5. \A p \in Owners : call[p].key \in Keys
      BY DEF TypeOK, Call
    <3> HIDE DEF k
    <3>7. \A p \in Owners : call'[p].pc = "armed" =>
             sent'[call'[p].key] = 0 /\ ledger'[call'[p].key].state \in Committed
      BY <3>1, <3>2, <3>3, <3>4, <3>5, <1>0 DEF ArmedIsAlone, Committed, Rest
    <3>8. \A p, q \in Owners :
             call'[p].pc = "armed" /\ call'[q].pc = "armed" /\ call'[p].key = call'[q].key => p = q
      BY <3>2, <3>3, <3>4 DEF ArmedIsAlone
    <3>9. \A j \in Keys : sent'[j] \in {0, 1} /\ (sent'[j] = 1 => ledger'[j].state \in Committed)
      BY <3>1, <1>0 DEF ArmedIsAlone, Rest
    <3>10. QED
      BY <3>7, <3>8, <3>9 DEF ArmedIsAlone
  <2>3. CASE Dispatch(o)
    <3> DEFINE k == call[o].key
    <3>1. call[o].pc = "armed" /\ sent[k] = 0 /\ ledger[k].state \in Committed
      BY <2>3 DEF Dispatch, ArmedIsAlone
    <3>2. /\ sent' = [sent EXCEPT ![k] = 1] /\ UNCHANGED ledger
      BY <2>3, <3>1 DEF Dispatch
    <3>3. /\ call'[o].pc = "holding"
          /\ \A p \in Owners \ {o} : call'[p] = call[p]
      BY <2>3, <2>0 DEF Dispatch, Becomes, Call
    <3>4. \A p \in Owners \ {o} : call[p].pc = "armed" => call[p].key # k
      BY <3>1 DEF ArmedIsAlone
    <3>5. k \in Keys /\ \A p \in Owners : call[p].key \in Keys
      BY DEF TypeOK, Call
    <3> HIDE DEF k
    <3>6. \A p \in Owners : call'[p].pc = "armed" => p # o /\ call'[p] = call[p]
      BY <3>3
    <3>7. \A j \in Keys : sent'[j] = IF j = k THEN 1 ELSE sent[j]
      BY <3>2, <2>0
    <3>8. QED
      BY <3>1, <3>2, <3>3, <3>4, <3>5, <3>6, <3>7 DEF ArmedIsAlone
  <2>4. CASE ~Dispatch(o) /\ ~(RecordDispatchIntent(o) /\ MayIntend(ledger[call[o].key], call[o].seen.epoch))
    <3>1. UNCHANGED sent
      BY <1>2, <2>4 DEF OwnerStep, ListAllowance, Lookup, Insert, RecordDispatchIntent, RecordUnknownOutcome,
         ReleaseNoDispatch, ReadForFence, CommitFence, ReadForSettle, CommitSettle, Forget
    <3>3. Idle.pc = "idle"
      BY DEF Idle
    <3> DEFINE Aside == /\ call'[o].pc # "armed"
                        /\ \A p \in Owners \ {o} : call'[p] = call[p]
    <3>4. ASSUME RecordUnknownOutcome(o) PROVE Aside
      BY <3>4 DEF RecordUnknownOutcome
    <3>5. Ends(o) => Aside
      BY <3>3, <2>0 DEF Ends
    <3>6. \A k, r : Holds(o, k, r) => Aside
      BY <2>0 DEF Holds, Idle
    <3>7. ASSUME NEW k \in Keys, ListAllowance(o, k) PROVE Aside
      BY <3>7, <2>0 DEF ListAllowance, Idle
    <3>8. ASSUME NEW k \in Keys, Lookup(o, k) PROVE Aside
      BY <3>8, <3>6 DEF Lookup
    <3>9. ASSUME Insert(o) PROVE Aside
      BY <3>9, <3>5, <3>6 DEF Insert
    <3>10. ASSUME RecordDispatchIntent(o) PROVE Aside
      BY <3>10, <2>4, <3>5 DEF RecordDispatchIntent
    <3>11. ASSUME NEW how \in Verifications, NEW result \in Results \cup {NoResult},
                  ReadForSettle(o, how, result)
           PROVE  Aside
      BY <3>11, <2>0 DEF ReadForSettle, TypeOK, Call
    <3>12. ASSUME ReleaseNoDispatch(o) \/ CommitSettle(o) \/ Forget(o) PROVE Aside
      BY <3>12, <3>5 DEF ReleaseNoDispatch, CommitSettle, Forget
    <3>13. ASSUME ReadForFence(o) \/ CommitFence(o) PROVE Aside
      BY <3>13, <3>5, <3>6, <2>0 DEF ReadForFence, CommitFence, Call
    <3> HIDE DEF Aside
    <3>14. Aside
      BY <1>2, <2>4, <3>4, <3>7, <3>8, <3>9, <3>10, <3>11, <3>12, <3>13 DEF OwnerStep
    <3>15. QED
      BY <3>1, <3>14, <2>1 DEF Aside
  <2>5. QED
    BY <2>2, <2>3, <2>4
<1>3. QED
  BY <1>1, <1>2 DEF Next

(* So ArmedIsAlone holds in every state.                                   *)
LEMMA ArmedInvariant == Spec /\ [][FenceMeetsWhatItRead]_vars => []ArmedIsAlone
<1>1. Init => ArmedIsAlone
  BY DEF Init, ArmedIsAlone, Idle
<1>2. TypeOK /\ ArmedIsAlone /\ [Next]_vars /\ [FenceMeetsWhatItRead]_vars => ArmedIsAlone'
  BY ArmedStep
<1>3. QED
  BY <1>1, <1>2, LedgerTypeCorrect, PTL DEF Spec

(* CallNeverDisappears, as long as fences meet what they read: once the    *)
(* request of a row reached the provider, the row never reads as           *)
(* undispatched again.                                                     *)
THEOREM CallsAreNotForgotten ==
  Spec /\ [][FenceMeetsWhatItRead]_vars => []CallNeverDisappears
<1>1. TypeOK /\ ArmedIsAlone => CallNeverDisappears
  BY DEF TypeOK, ArmedIsAlone, CallNeverDisappears, Committed
<1>2. QED
  BY <1>1, ArmedInvariant, LedgerTypeCorrect, PTL

(* SingleDispatch, as long as fences meet what they read: one row pays for *)
(* one call.                                                               *)
THEOREM OneDispatchPerRow ==
  Spec /\ [][FenceMeetsWhatItRead]_vars => []SingleDispatch
<1>1. TypeOK /\ ArmedIsAlone => SingleDispatch
  <2> SUFFICES ASSUME TypeOK, ArmedIsAlone, NEW k \in Keys
               PROVE  sent[k] + Cardinality(Armed(k)) <= 1
    BY DEF SingleDispatch
  <2>1. sent[k] \in {0, 1}
    BY DEF ArmedIsAlone
  <2>2. CASE Armed(k) = {}
    BY <2>1, <2>2, FS_EmptySet
  <2>3. ASSUME NEW o \in Armed(k) PROVE sent[k] + Cardinality(Armed(k)) <= 1
    <3>1. Armed(k) = {o} /\ sent[k] = 0
      BY <2>3 DEF Armed, ArmedIsAlone
    <3>2. Cardinality(Armed(k)) = 1
      BY <3>1, FS_Singleton
    <3>3. QED
      BY <3>1, <3>2
  <2>4. QED
    BY <2>2, <2>3
<1>2. QED
  BY <1>1, ArmedInvariant, LedgerTypeCorrect, PTL
-----------------------------------------------------------------------------
(* The refinement: each write of a row is a step of PaidOnce on that row,  *)
(* and a dispatch is its Call.                                             *)
LEMMA PhaseOfRow ==
  ASSUME TypeOK, NEW k \in Keys
  PROVE  /\ ledger[k].state = "absent" => Phase[k] = "free"
         /\ ledger[k].state = "reserved_not_dispatched" => Phase[k] = "held"
         /\ ledger[k].state \in {"dispatch_intent", "execution_outcome_unknown"} => Phase[k] = "committed"
         /\ ledger[k].state = "settled" => Phase[k] = "charged"
         /\ ledger[k].state = "released" => Phase[k] = "refunded"
  BY DEF Phase, PhaseOf, PhaseName

(* A step that writes one row moves the phase of that row alone.           *)
LEMMA PhaseMoves ==
  ASSUME TypeOK, TypeOK', NEW k \in Keys, \A j \in Keys \ {k} : ledger'[j] = ledger[j]
  PROVE  Phase' = [Phase EXCEPT ![k] = Phase'[k]]
<1>1. \A j \in Keys : Phase'[j] = IF j = k THEN Phase'[k] ELSE Phase[j]
  BY DEF Phase
<1>2. QED
  BY <1>1 DEF Phase

(* Every step of the ledger is a step of PaidOnce or leaves it unchanged.  *)
LEMMA PaidStep ==
  ASSUME TypeOK, TypeOK', ArmedIsAlone, [Next]_vars, [FenceMeetsWhatItRead]_vars
  PROVE  [Paid!Next]_(Paid!vars)
<1>1. CASE UNCHANGED vars
  BY <1>1 DEF vars, Paid!vars, Phase
<1>2. ASSUME NEW o \in Owners, OwnerStep(o) PROVE [Paid!Next]_(Paid!vars)
  <2> DEFINE k == call[o].key
  <2>0. k \in Keys /\ ledger \in [Keys -> Reservation] /\ sent \in [Keys -> Nat]
    BY DEF TypeOK, Call
  <2> HIDE DEF k
  <2>1. CASE UNCHANGED <<ledger, sent>>
    BY <2>1 DEF Paid!vars, Phase
  <2>2. CASE Dispatch(o)
    <3>1. /\ sent[k] = 0 /\ ledger[k].state \in Committed
          /\ sent' = [sent EXCEPT ![k] = @ + 1] /\ UNCHANGED ledger
      BY <2>2 DEF Dispatch, ArmedIsAlone, k
    <3>2. Phase[k] \in {"committed", "charged"} /\ UNCHANGED Phase
      BY <3>1, <2>0, PhaseOfRow DEF Committed, Phase
    <3>3. sent' = [sent EXCEPT ![k] = 1]
      BY <3>1
    <3>4. QED
      BY <3>1, <3>2, <3>3, <2>0 DEF Paid!Next, Paid!Call
  (* A write of the row of k, with the request counts unchanged.           *)
  <2>3. ASSUME UNCHANGED sent, \A j \in Keys \ {k} : ledger'[j] = ledger[j],
               \/ Phase[k] = "free" /\ Phase'[k] = "held"
               \/ Phase[k] = "held" /\ Phase'[k] \in {"committed", "refunded"}
               \/ Phase[k] = "committed" /\ Phase'[k] \in {"committed", "charged"}
        PROVE  [Paid!Next]_(Paid!vars)
    <3>1. Phase' = [Phase EXCEPT ![k] = Phase'[k]]
      BY <2>3, <2>0, PhaseMoves
    <3>2. DOMAIN Phase = Keys
      BY DEF Phase
    <3>3. CASE Phase'[k] = Phase[k]
      BY <3>1, <3>3, <2>3 DEF Paid!vars, Phase
    <3>4. CASE Phase'[k] # Phase[k]
      BY <3>1, <3>4, <2>3, <2>0
      DEF Paid!Next, Paid!Hold, Paid!Commit, Paid!Charge, Paid!Refund, Paid!Moves
    <3>5. QED
      BY <3>3, <3>4
  <2>4. ASSUME UNCHANGED sent, NEW r \in Reservation, ledger' = [ledger EXCEPT ![k] = r],
               \/ ledger[k].state = "absent" /\ r.state = "reserved_not_dispatched"
               \/ /\ ledger[k].state = "reserved_not_dispatched"
                  /\ r.state \in {"dispatch_intent", "execution_outcome_unknown", "released"}
               \/ /\ ledger[k].state \in {"dispatch_intent", "execution_outcome_unknown"}
                  /\ r.state \in {"execution_outcome_unknown", "settled"}
        PROVE  [Paid!Next]_(Paid!vars)
    <3>1. ledger'[k] = r /\ \A j \in Keys \ {k} : ledger'[j] = ledger[j]
      BY <2>4, <2>0
    <3>2. /\ r.state = "reserved_not_dispatched" => Phase'[k] = "held"
          /\ r.state \in {"dispatch_intent", "execution_outcome_unknown"} => Phase'[k] = "committed"
          /\ r.state = "settled" => Phase'[k] = "charged"
          /\ r.state = "released" => Phase'[k] = "refunded"
      BY <3>1, <2>0 DEF Phase, PhaseOf, PhaseName
    <3>3. QED
      BY <2>3, <2>4, <3>1, <3>2, <2>0, PhaseOfRow
  <2>5. CASE Insert(o) /\ ~UNCHANGED ledger
    BY <2>5, <2>4, NewRowType DEF Insert, InsertWins, NewReservation, k
  <2>6. CASE RecordDispatchIntent(o) /\ ~UNCHANGED ledger
    <3>1. Intended(ledger[k]) \in Reservation /\ Intended(ledger[k]).state = "dispatch_intent"
      BY <2>0, WrittenRowType DEF Intended, Reservation
    <3>2. QED
      BY <2>6, <3>1, <2>4 DEF RecordDispatchIntent, MayIntend, k
  <2>7. CASE RecordUnknownOutcome(o)
    <3>1. MarkedUnknown(ledger[k]) \in Reservation
          /\ MarkedUnknown(ledger[k]).state = "execution_outcome_unknown"
      BY <2>0, WrittenRowType DEF MarkedUnknown, Reservation
    <3>2. QED
      BY <2>7, <3>1, <2>4 DEF RecordUnknownOutcome, MayMarkUnknown, k
  <2>8. CASE ReleaseNoDispatch(o)
    <3>0. ledger[k] \in Reservation
      BY <2>0
    <3>1. Released(ledger[k]) \in Reservation /\ Released(ledger[k]).state = "released"
      <4>1. Released(ledger[k]).state = "released"
        BY <3>0 DEF Released, Reservation
      <4>2. QED
        BY <3>0, <4>1, WrittenRowType
    <3>2. QED
      BY <2>8, <3>1, <2>4 DEF ReleaseNoDispatch, MayRelease, k
  <2>9. CASE CommitSettle(o) /\ ~UNCHANGED ledger
    <3>1. PICK charge \in 0 .. CallLimit :
             ledger' = [ledger EXCEPT ![k] = Settled(@, call[o].seen, call[o].result, charge)]
      BY <2>9 DEF CommitSettle, k
    <3>2. call[o].seen \in Reservation /\ call[o].result \in Results \cup {NoResult}
      BY DEF TypeOK, Call
    <3> DEFINE r == Settled(ledger[k], call[o].seen, call[o].result, charge)
    <3>3. r \in Reservation
      BY <2>0, <3>2, WrittenRowType
    <3>4. r.state = "settled"
      BY <2>0 DEF Settled, Reservation
    <3>5. /\ UNCHANGED sent
          /\ ledger[k].state \in {"dispatch_intent", "execution_outcome_unknown"}
      BY <2>9 DEF CommitSettle, SettleCommits, k
    <3>6. ledger' = [ledger EXCEPT ![k] = r]
      BY <3>1
    <3> HIDE DEF r
    <3>7. QED
      BY <3>3, <3>4, <3>5, <3>6, <2>4
  <2>10. CASE CommitFence(o)
    <3>1. UNCHANGED Phase /\ UNCHANGED sent
      BY <2>10, FenceKeepsState DEF Phase, PhaseOf, CommitFence
    <3>2. QED
      BY <3>1 DEF Paid!vars
  <2>11. QED
    BY <1>2, <2>1, <2>2, <2>5, <2>6, <2>7, <2>8, <2>9, <2>10
    DEF OwnerStep, ListAllowance, Lookup, Insert, RecordDispatchIntent, ReadForFence, ReadForSettle,
        CommitSettle, Forget
<1>3. QED
  BY <1>1, <1>2 DEF Next

(* PaysOnce, as long as fences meet what they read: the ledger implements  *)
(* PaidOnce.                                                               *)
THEOREM LedgerPaysOnce == Spec /\ [][FenceMeetsWhatItRead]_vars => PaysOnce
<1>1. Init => Paid!Init
  BY DEF Init, Paid!Init, Phase, PhaseOf, PhaseName, Absent
<1>2. TypeOK /\ TypeOK' /\ ArmedIsAlone /\ [Next]_vars /\ [FenceMeetsWhatItRead]_vars
      => [Paid!Next]_(Paid!vars)
  BY PaidStep
<1>3. QED
  BY <1>1, <1>2, ArmedInvariant, LedgerTypeCorrect, PTL DEF Spec, PaysOnce, Paid!Spec

(* So it does for owners none of which fences, with no premise on steps.   *)
COROLLARY UnfencedLedgerPaysOnce == (Fencers = {}) /\ Spec => PaysOnce
<1>1. CASE Fencers = {}
  BY <1>1, NoFencers, LedgerPaysOnce
<1>2. QED
  BY <1>1
-----------------------------------------------------------------------------
(* What an owner that settles has read allows what it settles with.        *)
SettlersMay ==
    \A o \in Owners : call[o].pc = "settling" => MaySettle(call[o].seen, call[o].how, call[o].result)

LEMMA SettlersStep ==
  ASSUME TypeOK, SettlersMay, [Next]_vars
  PROVE  SettlersMay'
<1> SUFFICES ASSUME NEW p \in Owners, call'[p].pc = "settling"
             PROVE  MaySettle(call'[p].seen, call'[p].how, call'[p].result)
  BY DEF SettlersMay, MaySettle, SupportsUnknown
<1>1. CASE call'[p] = call[p]
  BY <1>1 DEF SettlersMay
<1>2. CASE UNCHANGED vars
  BY <1>1, <1>2 DEF vars
<1>3. ASSUME NEW o \in Owners, OwnerStep(o)
      PROVE  MaySettle(call'[p].seen, call'[p].how, call'[p].result)
  <2>0. call \in [Owners -> Call] /\ Idle.pc = "idle"
    BY DEF TypeOK, Idle
  <2> DEFINE Same == call'[p] = call[p] \/ call'[p].pc # "settling"
  <2>1. Ends(o) => Same
    BY <2>0 DEF Ends
  <2>2. \A k, r : Holds(o, k, r) => Same
    BY <2>0 DEF Holds, Idle
  <2>3. \A pc : Becomes(o, pc) /\ pc # "settling" => Same
    BY <2>0 DEF Becomes, Call
  <2>4. \A k \in Keys : ListAllowance(o, k) \/ Lookup(o, k) => Same
    BY <2>0, <2>2 DEF ListAllowance, Lookup, Idle
  <2>5. Insert(o) \/ RecordDispatchIntent(o) \/ Dispatch(o) \/ CommitFence(o) => Same
    BY <2>1, <2>2, <2>3 DEF Insert, RecordDispatchIntent, Dispatch, CommitFence
  <2>6. RecordUnknownOutcome(o) \/ ReleaseNoDispatch(o) \/ CommitSettle(o) \/ Forget(o) => Same
    BY <2>1 DEF RecordUnknownOutcome, ReleaseNoDispatch, CommitSettle, Forget
  <2>7. ReadForFence(o) => Same
    BY <2>0 DEF ReadForFence, Call
  <2>8. ASSUME NEW how, NEW result, ReadForSettle(o, how, result), ~Same
        PROVE  MaySettle(call'[p].seen, call'[p].how, call'[p].result)
    <3>1. p = o
      BY <2>0, <2>8 DEF ReadForSettle
    <3>2. call'[o].seen = ledger[call[o].key] /\ call'[o].how = how /\ call'[o].result = result
      BY <2>0, <2>8 DEF ReadForSettle, Call
    <3>3. QED
      BY <2>8, <3>1, <3>2 DEF ReadForSettle
  <2>9. CASE Same
    BY <1>1, <2>9
  <2> HIDE DEF Same
  <2>10. QED
    BY <1>3, <2>4, <2>5, <2>6, <2>7, <2>8, <2>9 DEF OwnerStep
<1>4. QED
  BY <1>2, <1>3 DEF Next

(* UnknownClosesOnFinding, as long as settlements meet what they read: the *)
(* decision taken on the row that was read is then one about the row that  *)
(* is written.                                                             *)
THEOREM HoldClosesOnFinding ==
  Spec /\ [][SettleMeetsWhatItRead]_vars => UnknownClosesOnFinding
<1>1. Init => SettlersMay
  BY DEF Init, SettlersMay, Idle
<1>2. TypeOK /\ SettlersMay /\ [Next]_vars => SettlersMay'
  BY SettlersStep
<1>3. TypeOK /\ SettlersMay /\ [Next]_vars /\ [SettleMeetsWhatItRead]_vars =>
        [\A k \in Keys, o \in Owners :
            /\ ledger[k].state = "execution_outcome_unknown"
            /\ ledger'[k].state = "settled"
            /\ call[o].pc = "settling" /\ call[o].key = k /\ call'[o].pc = "idle"
            => SupportsUnknown(call[o].how, call[o].result)]_vars
  <2> SUFFICES ASSUME TypeOK, SettlersMay, [Next]_vars, SettleMeetsWhatItRead,
                      NEW k \in Keys, NEW o \in Owners,
                      ledger[k].state = "execution_outcome_unknown", ledger'[k].state = "settled",
                      call[o].pc = "settling", call[o].key = k, call'[o].pc = "idle"
               PROVE  SupportsUnknown(call[o].how, call[o].result)
    BY DEF vars
  <2>1. ledger' # ledger /\ call'[o] # call[o]
    OBVIOUS
  <2>2. PICK p \in Owners : OwnerStep(p)
    BY <2>1 DEF Next, vars
  <2>3. p = o
    <3>1. \A q \in Owners \ {p} : call'[q] = call[q]
      <4>0. call \in [Owners -> Call]
        BY DEF TypeOK
      <4>1. QED
        BY <2>2, <4>0
        DEF OwnerStep, ListAllowance, Lookup, Insert, RecordDispatchIntent, Dispatch, RecordUnknownOutcome,
            ReleaseNoDispatch, ReadForFence, CommitFence, ReadForSettle, CommitSettle, Forget, Ends, Holds, Becomes
    <3>2. QED
      BY <2>1, <3>1
  <2>4. CommitSettle(o)
    BY <2>1, <2>2, <2>3 DEF OwnerStep, ListAllowance, Lookup, Insert, RecordDispatchIntent, Dispatch,
       RecordUnknownOutcome, ReleaseNoDispatch, ReadForFence, CommitFence, ReadForSettle, Forget
  <2>5. call[o].seen.state = "execution_outcome_unknown"
    BY <2>1, <2>4 DEF SettleMeetsWhatItRead
  <2>6. QED
    BY <2>5 DEF SettlersMay, MaySettle
<1>4. QED
  BY <1>1, <1>2, <1>3, LedgerTypeCorrect, PTL DEF Spec, UnknownClosesOnFinding
=============================================================================

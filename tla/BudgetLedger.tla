---------------------------- MODULE BudgetLedger ----------------------------
(***************************************************************************)
(* The reservation ledger of one root assignment, shared by owners (worker *)
(* processes, reconcilers, the sweep) that reach it through the            *)
(* compare-and-set port of SqliteSignalPlatformStore.researchBudgetStore.  *)
(* A call that reads and then writes is two actions, because other owners  *)
(* run between its awaits; what it read travels in `seen`.                 *)
(*                                                                         *)
(* `sent` is the world outside: how often the request of a row was handed  *)
(* to the provider's transport.  No action of the ledger reads it.         *)
(***************************************************************************)
EXTENDS AssignmentBudget, FiniteSets, Functions

CONSTANTS
    Owners,
    Allowances,      \* logical allowances of the root assignment
    Attempts,        \* attempt identities under an allowance
    Fencers,         \* the owners that acquire a higher epoch (operator tools)
    AssignmentLimit, \* assignmentLimits.maxProviderCalls
    MaxEpoch         \* bound: no fence goes above this ownership epoch

ASSUME KeysAssumption == Allowances # {} /\ Attempts # {}
ASSUME FencersAssumption == Fencers \subseteq Owners
ASSUME AssignmentLimitAssumption == AssignmentLimit \in Nat
ASSUME MaxEpochAssumption == MaxEpoch \in Nat \ {0}

VARIABLES
    ledger,   \* the reservation rows
    call,     \* what each owner is in the middle of
    sent      \* provider dispatches per row

vars == <<ledger, call, sent>>

Keys == Allowances \X Attempts

Allowance(k) == k[1]

(* "idle"      no call in flight                                           *)
(* "inserting" claimReservation listed the allowance and found it free     *)
(* "holding"   a record of the row was returned to the owner               *)
(* "armed"     recordDispatchIntent succeeded, the transport is next       *)
(* "fencing"   acquireLeaseFence read the row                              *)
(* "settling"  settleReservation read the row and let the call go on       *)
Pc == {"idle", "inserting", "holding", "armed", "fencing", "settling"}

Call ==
    [ pc     : Pc,
      key    : Keys,
      seen   : Reservation,
      how    : Verifications,
      result : Results \cup {NoResult} ]

(* An owner with no call in flight remembers nothing.                      *)
Idle ==
    [ pc     |-> "idle",
      key    |-> CHOOSE k \in Keys : TRUE,
      seen   |-> Absent,
      how    |-> "provider_supported",
      result |-> NoResult ]

Existing == {k \in Keys : ledger[k].state # "absent"}

Rows(a) == {k \in Existing : Allowance(k) = a}

(* The calls a row counts for, and the rows that count.                    *)
Exposure == [k \in Keys |-> ledger[k].charge]

Counted == {k \in Existing : ledger[k].state # "released"}

TotalExposure == SumFunctionOnSet(Exposure, Counted)
-----------------------------------------------------------------------------
Init ==
    /\ ledger = [k \in Keys |-> Absent]
    /\ call = [o \in Owners |-> Idle]
    /\ sent = [k \in Keys |-> 0]

Becomes(o, pc) == call' = [call EXCEPT ![o].pc = pc]

Ends(o) == call' = [call EXCEPT ![o] = Idle]

Holds(o, k, r) ==
    call' = [call EXCEPT ![o] = [Idle EXCEPT !.pc = "holding", !.key = k, !.seen = r]]

(* claimReservation, the listing: every other attempt of the allowance is  *)
(* terminal and none was settled, and this attempt has no row yet.         *)
ListAllowance(o, k) ==
    /\ call[o].pc = "idle"
    /\ ledger[k].state = "absent"
    /\ \A j \in Rows(Allowance(k)) : ledger[j].state = "released"
    /\ call' = [call EXCEPT ![o] = [Idle EXCEPT !.pc = "inserting", !.key = k]]
    /\ UNCHANGED <<ledger, sent>>

(* Slips: the insert without the unique index on live rows, and a limit    *)
(* that ignores the reservation being made.                                *)
InsertWinsByKey(k) ==
    ledger[k].state = "absent" /\ TotalExposure + CallLimit <= AssignmentLimit
InsertWinsBelowLimit(k) ==
    /\ ledger[k].state = "absent"
    /\ \A j \in Rows(Allowance(k)) : ledger[j].state = "released"
    /\ TotalExposure < AssignmentLimit

(* The conditional insert: the primary key, the unique index on rows that  *)
(* are not released, and the assignment limits decide in one transaction.  *)
InsertWins(k) ==
    /\ ledger[k].state = "absent"
    /\ \A j \in Rows(Allowance(k)) : ledger[j].state = "released"
    /\ TotalExposure + CallLimit <= AssignmentLimit

Insert(o) ==
    LET k == call[o].key
    IN  /\ call[o].pc = "inserting"
        /\ IF InsertWins(k)
           THEN /\ ledger' = [ledger EXCEPT ![k] = NewReservation]
                /\ Holds(o, k, NewReservation)
           ELSE /\ Ends(o)
                /\ UNCHANGED ledger
        /\ UNCHANGED sent

(* claimReservation of an attempt that already has a row, and port.get.    *)
Lookup(o, k) ==
    /\ call[o].pc = "idle"
    /\ ledger[k].state # "absent"
    /\ Holds(o, k, ledger[k])
    /\ UNCHANGED <<ledger, sent>>

(* recordDispatchIntent: only an owner it succeeds for may dispatch.       *)
RecordDispatchIntent(o) ==
    LET k == call[o].key
    IN  /\ call[o].pc = "holding"
        /\ IF MayIntend(ledger[k], call[o].seen.epoch)
           THEN /\ ledger' = [ledger EXCEPT ![k] = Intended(@)]
                /\ Becomes(o, "armed")
           ELSE /\ Ends(o)
                /\ UNCHANGED ledger
        /\ UNCHANGED sent

(* The request leaves for the provider; the owner still knows its row.     *)
Dispatch(o) ==
    /\ call[o].pc = "armed"
    /\ sent' = [sent EXCEPT ![call[o].key] = @ + 1]
    /\ Becomes(o, "holding")
    /\ UNCHANGED ledger

RecordUnknownOutcome(o) ==
    LET k == call[o].key
    IN  /\ call[o].pc = "holding"
        /\ MayMarkUnknown(ledger[k], call[o].seen.epoch)
        /\ ledger' = [ledger EXCEPT ![k] = MarkedUnknown(@)]
        /\ UNCHANGED <<call, sent>>

ReleaseNoDispatch(o) ==
    LET k == call[o].key
    IN  /\ call[o].pc = "holding"
        /\ MayRelease(ledger[k], call[o].seen.epoch)
        /\ ledger' = [ledger EXCEPT ![k] = Released(@)]
        /\ Ends(o)
        /\ UNCHANGED sent

(* acquireLeaseFence, the read: terminal rows are refused.                 *)
ReadForFence(o) ==
    LET k == call[o].key
    IN  /\ o \in Fencers
        /\ call[o].pc = "holding"
        /\ ledger[k].state \in OpenStates
        /\ ledger[k].epoch < MaxEpoch
        /\ call' = [call EXCEPT ![o].pc = "fencing", ![o].seen = ledger[k]]
        /\ UNCHANGED <<ledger, sent>>

(* ... and its compare-and-set on the epoch it read.                       *)
CommitFence(o) ==
    LET k    == call[o].key
        seen == call[o].seen
    IN  /\ call[o].pc = "fencing"
        /\ IF MayFence(ledger[k], seen)
           THEN /\ ledger' = [ledger EXCEPT ![k] = Fenced(@, seen, seen.epoch + 1)]
                /\ Holds(o, k, Fenced(ledger[k], seen, seen.epoch + 1))
           ELSE /\ Ends(o)
                /\ UNCHANGED ledger
        /\ UNCHANGED sent

(* settleReservation, the read.  A settlement at maximum exposure names no *)
(* saved result; the others name the one the caller has saved.             *)
ReadForSettle(o, how, result) ==
    LET k == call[o].key
    IN  /\ call[o].pc = "holding"
        /\ (result = NoResult) <=> (how \in {"gateway_abort_max_exposure", "stale_hold_max_exposure"})
        /\ MaySettle(ledger[k], how, result)
        /\ call' = [call EXCEPT ![o].pc = "settling", ![o].seen = ledger[k],
                                ![o].how = how, ![o].result = result]
        /\ UNCHANGED <<ledger, sent>>

(* ... and its compare-and-set, on the state alone.  A saved response may  *)
(* report fewer calls than the approved limit, never more: the inference   *)
(* gateway enforces the limit before each call.                            *)
CommitSettle(o) ==
    LET k == call[o].key
        c == call[o]
    IN  /\ c.pc = "settling"
        /\ IF SettleCommits(ledger[k])
           THEN \E charge \in 0 .. CallLimit :
                   /\ c.result = NoResult => charge = CallLimit
                   /\ ledger' = [ledger EXCEPT ![k] = Settled(@, c.seen, c.result, charge)]
           ELSE UNCHANGED ledger
        /\ Ends(o)
        /\ UNCHANGED sent

(* The owner gives up, crashes or restarts: its memory is gone, rows stay. *)
Forget(o) ==
    /\ call[o].pc # "idle"
    /\ Ends(o)
    /\ UNCHANGED <<ledger, sent>>

OwnerStep(o) ==
    \/ \E k \in Keys : ListAllowance(o, k) \/ Lookup(o, k)
    \/ Insert(o)
    \/ RecordDispatchIntent(o)
    \/ Dispatch(o)
    \/ RecordUnknownOutcome(o)
    \/ ReleaseNoDispatch(o)
    \/ ReadForFence(o)
    \/ CommitFence(o)
    \/ \E how \in Verifications, result \in Results \cup {NoResult} : ReadForSettle(o, how, result)
    \/ CommitSettle(o)
    \/ Forget(o)

Next == \E o \in Owners : OwnerStep(o)

Spec == Init /\ [][Next]_vars
-----------------------------------------------------------------------------
TypeOK ==
    /\ ledger \in [Keys -> Reservation]
    /\ call \in [Owners -> Call]
    /\ sent \in [Keys -> Nat]

Armed(k) == {o \in Owners : call[o].pc = "armed" /\ call[o].key = k}

(* No reservation pays for two provider calls: whatever owners look up,    *)
(* restart, mark unknown or settle, recordDispatchIntent succeeds once per *)
(* row.  Only true of owners whose fences meet what they read.             *)
SingleDispatch ==
    \A k \in Keys : sent[k] + Cardinality(Armed(k)) <= 1

(* "an in-flight call is never made to disappear by a fence"               *)
(* (acquireLeaseFence): the row of a request that reached the provider     *)
(* never reads as not dispatched, and is never released at no charge.      *)
CallNeverDisappears ==
    \A k \in Keys :
        sent[k] > 0 => ledger[k].state \in {"dispatch_intent", "execution_outcome_unknown", "settled"}

(* One logical allowance, one reserved exposure: the listing of            *)
(* claimReservation alone does not ensure it, two owners may both list.    *)
OneExposurePerAllowance ==
    \A j, k \in Keys :
        /\ Allowance(j) = Allowance(k)
        /\ ledger[j].state \notin {"absent", "released"}
        /\ ledger[k].state \notin {"absent", "released"}
        => j = k

(* The root assignment never owes more calls than its approved limit,      *)
(* counting an outcome nobody knows at its reserved maximum.               *)
ExposureWithinLimit == TotalExposure <= AssignmentLimit

(* A settled or released row never changes again, though a settlement, an  *)
(* unknown outcome, a fence or a dispatch intent decided on an earlier     *)
(* read of the row may still be on its way.                                *)
TerminalIsFinal ==
    [][\A k \in Keys : ledger[k].state \in TerminalStates => ledger'[k] = ledger[k]]_vars

(* The ledger implements PaidOnce, as long as fences meet what they read.  *)
Phase == [k \in Keys |-> PhaseOf(ledger[k])]

Paid == INSTANCE PaidOnce WITH Purchases <- Keys, phase <- Phase, calls <- sent

(* Every behaviour of the ledger buys each reservation at most once, after *)
(* committing to it, and never refunds a call that was made.               *)
PaysOnce == Paid!Spec

(* A hold closes only on a finding the module supports: when an unknown    *)
(* outcome becomes settled, the settlement that closes it is one           *)
(* settleReservation accepts for an unknown outcome.                       *)
UnknownClosesOnFinding ==
    [][\A k \in Keys, o \in Owners :
          /\ ledger[k].state = "execution_outcome_unknown"
          /\ ledger'[k].state = "settled"
          /\ call[o].pc = "settling" /\ call[o].key = k /\ call'[o].pc = "idle"
          => SupportsUnknown(call[o].how, call[o].result)]_vars
=============================================================================

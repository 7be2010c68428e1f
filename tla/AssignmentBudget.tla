-------------------------- MODULE AssignmentBudget --------------------------
(***************************************************************************)
(* One row of the D2 reservation ledger and the decisions                  *)
(* research-engine/assignment-budget.ts takes about it.  Pure operators:   *)
(* what a call reads (`seen`) and the row its compare-and-set meets (`r`)  *)
(* are different arguments, because the code awaits between the two.       *)
(*                                                                         *)
(* A row keeps its state, its ownership epoch, the saved result its        *)
(* settlement names (NoResult for a settlement at maximum exposure) and    *)
(* the provider calls it counts for against the assignment limits.         *)
(* Digests, routes, token counts and timestamps are abstracted.            *)
(***************************************************************************)
EXTENDS Naturals

CONSTANTS
    Results,    \* references of saved provider results
    NoResult,   \* settlement.savedResultRef = null
    CallLimit   \* approvedLimits.maxProviderCalls of every reservation

ASSUME NoResultAssumption == NoResult \notin Results
ASSUME CallLimitAssumption == CallLimit \in Nat \ {0}

OpenStates     == {"reserved_not_dispatched", "dispatch_intent", "execution_outcome_unknown"}
TerminalStates == {"settled", "released"}

(* D2SettleVerification.kind                                               *)
Verifications ==
    { "transport_response_saved", "provider_supported", "durable_matching_response",
      "gateway_abort_max_exposure", "stale_hold_max_exposure" }

(* A row that does not exist is the record whose state is "absent".        *)
Reservation ==
    [ state  : {"absent"} \cup OpenStates \cup TerminalStates,
      epoch  : Nat,
      result : Results \cup {NoResult},
      charge : 0 .. CallLimit ]

Absent ==
    [state |-> "absent", epoch |-> 0, result |-> NoResult, charge |-> 0]

NewReservation ==
    [state |-> "reserved_not_dispatched", epoch |-> 1, result |-> NoResult, charge |-> CallLimit]

(* Slips a change to this code could make, each broken by a property of a  *)
(* run: an intent that does not insist on the reserved state, an unknown   *)
(* outcome that does not look at the state, a release of a row whose call  *)
(* may be on its way, a settlement that may be repeated, and one that adds *)
(* its usage to the reserved exposure.                                     *)
MayIntendAgain(r, epoch) ==
    r.state \in {"reserved_not_dispatched", "dispatch_intent"} /\ r.epoch = epoch
MayMarkAnyUnknown(r, epoch) == r.state # "absent" /\ r.epoch = epoch
MayReleaseIntended(r, epoch) == MayIntendAgain(r, epoch)
SettleCommitsAgain(r) == r.state \notin {"reserved_not_dispatched", "released"}
SettledOnTop(r, seen, result, charge) ==
    [r EXCEPT !.state = "settled", !.epoch = seen.epoch, !.result = result, !.charge = @ + charge]

(* recordDispatchIntent: the compare-and-set and the row it writes.        *)
MayIntend(r, epoch) == r.state = "reserved_not_dispatched" /\ r.epoch = epoch
Intended(r) == [r EXCEPT !.state = "dispatch_intent"]

(* recordUnknownOutcome                                                    *)
MayMarkUnknown(r, epoch) ==
    r.state \in {"reserved_not_dispatched", "dispatch_intent"} /\ r.epoch = epoch
MarkedUnknown(r) == [r EXCEPT !.state = "execution_outcome_unknown"]

(* releaseNoDispatch: its first read only repeats what the compare-and-set *)
(* decides.                                                                *)
MayRelease(r, epoch) == r.state = "reserved_not_dispatched" /\ r.epoch = epoch
Released(r) == [r EXCEPT !.state = "released", !.charge = 0]

(* acquireLeaseFence expects any open state at the epoch it read and       *)
(* writes back the state it read.                                          *)
MayFence(r, seen) == r.state \in OpenStates /\ r.epoch = seen.epoch
Fenced(r, seen, epoch) == [r EXCEPT !.state = seen.state, !.epoch = epoch]

(* settleReservation: what the read row must satisfy for the call to go on *)
(* to its compare-and-set ...                                              *)
SupportsUnknown(how, result) ==
    \/ how \in {"provider_supported", "gateway_abort_max_exposure", "stale_hold_max_exposure"}
    \/ how = "durable_matching_response" /\ result # NoResult

MaySettle(seen, how, result) ==
    /\ seen.state \in {"dispatch_intent", "execution_outcome_unknown"}
    /\ seen.state = "execution_outcome_unknown" => SupportsUnknown(how, result)

(* ... when it succeeds at once, replaying the settlement that exists ...  *)
ReplaysSettlement(seen, result) == seen.state = "settled" /\ seen.result = result

(* ... and the compare-and-set, which looks at the state only and writes   *)
(* the epoch that was read.                                                *)
SettleCommits(r) == r.state \in {"dispatch_intent", "execution_outcome_unknown"}
Settled(r, seen, result, charge) ==
    [r EXCEPT !.state = "settled", !.epoch = seen.epoch, !.result = result, !.charge = charge]

(* The recovery sweeps hold back a root whose money may be spent with no   *)
(* saved response to show for it.                                          *)
PaidExposure(r) ==
    \/ r.state \in {"dispatch_intent", "execution_outcome_unknown"}
    \/ r.state = "settled" /\ r.result = NoResult

(* What a row means for the money of its purchase, in the words of PaidOnce. *)
PhaseName ==
    [ absent                    |-> "free",
      reserved_not_dispatched   |-> "held",
      dispatch_intent           |-> "committed",
      execution_outcome_unknown |-> "committed",
      settled                   |-> "charged",
      released                  |-> "refunded" ]
PhaseOf(r) == PhaseName[r.state]
=============================================================================

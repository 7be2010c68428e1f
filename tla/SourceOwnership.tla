--------------------------- MODULE SourceOwnership --------------------------
(***************************************************************************)
(* The durable authority over one source: whether its legacy or its shared *)
(* pipeline may take new work, or neither (source-ownership.ts).  All four *)
(* domains always have the same owner (proposeOwnership), so one is kept.  *)
(* The revision counts the operator's changes.                             *)
(*                                                                         *)
(* Until the authority is initialized, with the ownership feature off, the *)
(* gate is open to both owners and the triggers do not exist.              *)
(***************************************************************************)
EXTENDS Naturals

CONSTANT MaxRevision   \* bound: changes of the authority

ASSUME RevisionAssumption == MaxRevision \in Nat

Owner == {"legacy", "shared"}

Authority ==
    [ state    : {"none", "paused", "running"},
      owner    : Owner,
      revision : 0 .. MaxRevision ]

NoAuthority == [state |-> "none", owner |-> "legacy", revision |-> 0]

(* sourceOwnershipAllowsOnDatabase, and the condition of every trigger of  *)
(* installSourceOwnershipFences, which repeats it inside the transaction   *)
(* that admits, requeues or claims.                                        *)
Allows(authority, owner) ==
    \/ authority.state = "none"
    \/ authority.state = "running" /\ authority.owner = owner

Changed(authority, state, owner) ==
    [state |-> state, owner |-> owner, revision |-> authority.revision + 1]

(* Each change is one transaction of the operator command, on a receipt    *)
(* approved for the present revision.  (A receipt's evidence that the      *)
(* workers were stopped is not relied upon here.)                          *)
MayInitialize(authority) == authority.state = "none"
Initialized(authority) == Changed(authority, "paused", "legacy")

(* (A paused source may be paused again, which only counts a revision.)    *)
MayPause(authority) == authority.state = "running"
Paused(authority) == Changed(authority, "paused", authority.owner)

(* resume_legacy and resume_shared: only when nothing is in flight.  (The  *)
(* slip: the new state and owner are confused.)                            *)
MayResume(authority, drained) == authority.state = "paused" /\ drained
ResumedAs(authority, owner) == Changed(authority, owner, "running")
Resumed(authority, owner) == Changed(authority, "running", owner)

(* reconcile_abandoned                                                     *)
MayReconcile(authority) == authority.state = "paused"
Reconciled(authority) == Changed(authority, "paused", authority.owner)
=============================================================================

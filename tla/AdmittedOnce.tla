---------------------------- MODULE AdmittedOnce ----------------------------
(***************************************************************************)
(* What source intake promises for the observations of a source, with no   *)
(* outbox, polls or retries: an observation is owed until it is kept, it   *)
(* is acknowledged only once it is kept, it is decided at most once, and   *)
(* research work is admitted for it only by that decision and only while   *)
(* intake is open.                                                         *)
(***************************************************************************)
CONSTANT Signals

VARIABLES
    stage,          \* how far each observation came
    acknowledged,   \* the observations that are no longer owed
    open            \* whether research may be admitted

vars == <<stage, acknowledged, open>>

Stage == {"unseen", "owed", "kept", "declined", "admitted"}

Init ==
    /\ stage = [s \in Signals |-> "unseen"]
    /\ acknowledged = {}
    /\ open \in BOOLEAN

(* A poll sees several at once.                                            *)
Observe(seen) ==
    /\ \A s \in seen : stage[s] = "unseen"
    /\ stage' = [s \in Signals |-> IF s \in seen THEN "owed" ELSE stage[s]]
    /\ UNCHANGED <<acknowledged, open>>

Keep(s) ==
    /\ stage[s] = "owed"
    /\ stage' = [stage EXCEPT ![s] = "kept"]
    /\ UNCHANGED <<acknowledged, open>>

Decide(s) ==
    /\ stage[s] = "kept"
    /\ \/ stage' = [stage EXCEPT ![s] = "declined"]
       \/ open /\ stage' = [stage EXCEPT ![s] = "admitted"]
    /\ UNCHANGED <<acknowledged, open>>

Acknowledge(s) ==
    /\ stage[s] \notin {"unseen", "owed"}
    /\ acknowledged' = acknowledged \cup {s}
    /\ UNCHANGED <<stage, open>>

Turn ==
    /\ open' = ~open
    /\ UNCHANGED <<stage, acknowledged>>

Next ==
    \/ \E seen \in SUBSET Signals : Observe(seen)
    \/ \E s \in Signals : Keep(s) \/ Decide(s) \/ Acknowledge(s)
    \/ Turn

Spec == Init /\ [][Next]_vars
=============================================================================

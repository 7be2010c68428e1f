------------------------------ MODULE PaidOnce ------------------------------
(***************************************************************************)
(* What the reservation ledger promises about money, with no owners, no    *)
(* epochs and no compare-and-set: a purchase is free, then held, then      *)
(* committed to the provider, then charged; a held purchase may be         *)
(* refunded; the call is made at most once, and only after the commitment. *)
(***************************************************************************)
EXTENDS Naturals

CONSTANT Purchases

VARIABLES
    phase,   \* "free", "held", "committed", "charged" or "refunded"
    calls    \* provider calls made for the purchase

vars == <<phase, calls>>

Init ==
    /\ phase = [k \in Purchases |-> "free"]
    /\ calls = [k \in Purchases |-> 0]

Moves(k, from, to) ==
    /\ phase[k] = from /\ phase'[k] = to
    /\ phase' = [phase EXCEPT ![k] = to]
    /\ UNCHANGED calls

Hold(k)   == Moves(k, "free", "held")
Commit(k) == Moves(k, "held", "committed")
Charge(k) == Moves(k, "committed", "charged")
Refund(k) == Moves(k, "held", "refunded")

(* The commitment may be charged at its maximum before the call is made.   *)
Call(k) ==
    /\ phase[k] \in {"committed", "charged"}
    /\ calls[k] = 0 /\ calls'[k] = 1
    /\ calls' = [calls EXCEPT ![k] = 1]
    /\ UNCHANGED phase

Next == \E k \in Purchases : Hold(k) \/ Commit(k) \/ Charge(k) \/ Refund(k) \/ Call(k)

Spec == Init /\ [][Next]_vars
=============================================================================

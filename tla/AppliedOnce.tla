---------------------------- MODULE AppliedOnce -----------------------------
(***************************************************************************)
(* What the knowledge writer promises for one work, with no leases, epochs *)
(* or plans: a planning request is paid for at most once, and the effects  *)
(* of the work are applied at most once, decided on the very state of the  *)
(* knowledge they are applied to.                                          *)
(***************************************************************************)
EXTENDS Naturals

CONSTANTS
    Requests,   \* the paid planning requests
    Nothing     \* no effects yet

VARIABLES
    paid,       \* times each request was executed by the provider
    knowledge,  \* the state of the knowledge, as a count of its writes
    applied     \* the state the applied effects were decided on, or Nothing

vars == <<paid, knowledge, applied>>

Init ==
    /\ paid = [r \in Requests |-> 0]
    /\ knowledge = 0
    /\ applied = Nothing

Pay(r) ==
    /\ paid[r] = 0
    /\ paid' = [paid EXCEPT ![r] = 1]
    /\ UNCHANGED <<knowledge, applied>>

OthersWrite ==
    /\ knowledge' = knowledge + 1
    /\ UNCHANGED <<paid, applied>>

Apply ==
    /\ applied = Nothing
    /\ applied' = knowledge
    /\ knowledge' = knowledge + 1
    /\ UNCHANGED paid

Next == (\E r \in Requests : Pay(r)) \/ OthersWrite \/ Apply

Spec == Init /\ [][Next]_vars
=============================================================================

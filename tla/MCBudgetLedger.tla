--------------------------- MODULE MCBudgetLedger ---------------------------
(* Model-checking instances of BudgetLedger.                               *)
EXTENDS BudgetLedger, TLC

CONSTANTS o1, o2

OwnerSymmetry == Permutations(Owners)
=============================================================================

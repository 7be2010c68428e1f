-------------------------- MODULE MCSharedResearch --------------------------
(* Model-checking instances of SharedResearch.                             *)
EXTENDS SharedResearch, TLC

CONSTANTS p1, p2, w1, w2

WorkerSymmetry == Permutations(Workers)
=============================================================================

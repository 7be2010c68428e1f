------------------------ MODULE MCKnowledgeOperation ------------------------
(* A model-checking instance of KnowledgeOperation: the requests of the    *)
(* contexts go A, B, A, ..                                                 *)
EXTENDS KnowledgeOperation, TLC

CONSTANTS A, B

Alternating == [a \in Attempts |-> IF a % 2 = 0 THEN A ELSE B]
WorkerSymmetry == Permutations(Workers)
=============================================================================

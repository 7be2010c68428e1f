--------------------------- MODULE MCDeepResearch ---------------------------
(* Model-checking instances of DeepResearch; the .cfg files give the       *)
(* workers, the executions and the faults.                                 *)
EXTENDS DeepResearch
=============================================================================

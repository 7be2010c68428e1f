-------------------------- MODULE MCHermesLimiter ---------------------------
(* Model-checking instances of HermesLimiter; the .cfg files give the      *)
(* processes, the slots and the crashes.                                   *)
EXTENDS HermesLimiter
=============================================================================

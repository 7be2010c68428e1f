--------------------------- MODULE MCSourceIntake ---------------------------
(* A model-checking instance of SourceIntake.                              *)
EXTENDS SourceIntake
=============================================================================

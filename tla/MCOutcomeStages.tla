--------------------------- MODULE MCOutcomeStages --------------------------
(* Instances of OutcomeStages for TLC. *)
EXTENDS OutcomeStages
=============================================================================

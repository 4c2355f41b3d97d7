------------------------ MODULE MCProductionBatch --------------------------
(* Slots for model checking ProductionBatch. *)
EXTENDS ProductionBatch, TLC

CONSTANTS r1
=============================================================================

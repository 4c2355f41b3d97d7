---------------------------- MODULE MCStateSpine ----------------------------
(* A run, its task and its artifacts for model checking StateSpine. *)
EXTENDS StateSpine, TLC

CONSTANTS x1

FirstWriter == [t \in Task |-> "w1"]
=============================================================================

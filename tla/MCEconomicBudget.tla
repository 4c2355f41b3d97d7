-------------------------- MODULE MCEconomicBudget --------------------------
(* Nodes, categories and amounts for model checking EconomicBudget. *)
EXTENDS EconomicBudget, TLC

CONSTANTS a, b, c

\* Nodes of 2 fen each under one cap of 3.
OneCategory == [n \in Node |-> "api"]
CapThree == [x \in Category |-> 3]
EstimateTwo == [n \in Node |-> 2]
\* The nodes are alike.
Symmetry == Permutations(Node)
=============================================================================

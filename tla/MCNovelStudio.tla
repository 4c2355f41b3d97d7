----------------------------- MODULE MCNovelStudio -----------------------------
(***************************************************************************)
(* The contract alone takes more than the budget, and three snippets of    *)
(* one token each do.                                                      *)
(***************************************************************************)
EXTENDS NovelStudio, TLC

MCTokens == [s \in {"contract"} \cup Material \cup Craft |-> IF s = "contract" THEN 3 ELSE 1]
\* Materials and runs are compared, and never told apart by name.
MCSymmetry == Permutations(Material) \cup Permutations(BibleRun)
=============================================================================

---------------------------- MODULE MCDurableDag ----------------------------
(* Plans and parameters for model checking DurableDag. *)
EXTENDS DurableDag, TLC

\* 2 needs 1, and 4 needs 2 and 3: a chain beside a node of its own, and a join.
BothDeps == (1 :> {}) @@ (2 :> {1}) @@ (3 :> {}) @@ (4 :> {2, 3})
RetryThird == (1 :> 1) @@ (2 :> 1) @@ (3 :> 2) @@ (4 :> 1)
=============================================================================

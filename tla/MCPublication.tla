--------------------------- MODULE MCPublication ----------------------------
(* Actions, candidates and leases for model checking Publication. *)
EXTENDS Publication, TLC

CONSTANTS s1, a1, a2, c1, l1, l2

\* All actions submit one candidate.
OneCandidate == [a \in Action |-> c1]
\* A tick is longer than a window and outlives l1.
Rotating == [l \in Lease |-> IF l = l1 THEN {0} ELSE {0, 1}]
\* The actions have the same candidate and may use the same leases.
Symmetry == Permutations(Action)
OneEach == [l \in Lease |-> 1]
=============================================================================

------------------------- MODULE MCProviderCircuit -------------------------
(* Small instances of ProviderCircuit for TLC. *)
EXTENDS ProviderCircuit, TLC

Providers == {"cheap", "dear"}
CheapFirst == [p \in Providers |-> IF p = "cheap" THEN 1 ELSE 2]
\* Only the second request may use the dear provider.
OthersAreFrugal == [r \in Request |-> IF r = 2 THEN Providers ELSE {"cheap"}]
=============================================================================

--------------------------- MODULE MCContractSync ---------------------------
(* Small instances for model checking the sync of the contracts.            *)
EXTENDS ContractSync, TLC

CONSTANTS s1, s2, c1, c2

One == c1 :> s1
=============================================================================

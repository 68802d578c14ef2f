---------------------------- MODULE MCSettlement ----------------------------
(* Small instances of Settlement for TLC. *)
EXTENDS Settlement, TLC

CONSTANTS v1, v2

Coins == {v1, v2}
CoinSymmetry == Permutations(Coins)

Offchain == {"offchain"}
=============================================================================

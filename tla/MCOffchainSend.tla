--------------------------- MODULE MCOffchainSend ---------------------------
(* Small instances for model checking offchain spends and their recovery.   *)
EXTENDS OffchainSend, TLC

=============================================================================

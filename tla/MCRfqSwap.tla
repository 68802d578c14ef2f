----------------------------- MODULE MCRfqSwap -----------------------------
(* Small instances for model checking the RFQ swap manager.                 *)
EXTENDS RfqSwap, TLC

=============================================================================

---------------------------- MODULE MCBatchJoin -----------------------------
(* Small instances of BatchJoin for TLC. *)
EXTENDS BatchJoin
=============================================================================

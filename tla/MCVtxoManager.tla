--------------------------- MODULE MCVtxoManager ---------------------------
(* The VTXO manager on three VTXOs, one boarding output and one caller.        *)
EXTENDS VtxoManager

CONSTANTS b1, r1

MCBoardings == {b1}
MCCalls == {r1}

\* The first to expire cannot pay its own fee; the second can, and is dust then.
MCValue == [v \in 1..N |-> v]
MCFee == [v \in 1..N |-> 1]

MCFaultSets == {FaultNames}

=============================================================================

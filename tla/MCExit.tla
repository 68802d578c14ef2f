------------------------------- MODULE MCExit -------------------------------
(* Small layouts for model checking the unilateral exit.                    *)
EXTENDS ExitExecutor

\* Two VTXOs of one batch, in two leaves of its tree.
TwoLeaves ==
    [txs |-> {1, 2, 3}, spends |-> <<{}, {1}, {1}>>, inputs |-> <<{}, {1}, {1}>>,
     chain |-> <<{1, 2}, {1, 3}>>, leaf |-> <<2, 3>>]

\* A VTXO of a tree, and one made of another leaf by an offchain send: the Ark
\* transaction 2 spends the checkpoint 3, but the indexer names the leaf 1.
SentOn ==
    [txs |-> {1, 2, 3}, spends |-> <<{}, {1}, {1}>>, inputs |-> <<{}, {3}, {1}>>,
     chain |-> <<{1}, {1, 2, 3}>>, leaf |-> <<1, 2>>]

\* An indexer that answers with a cycle.
Cyclic ==
    [txs |-> {1, 2}, spends |-> <<{2}, {1}>>, inputs |-> <<{}, {1}>>,
     chain |-> <<{1, 2}>>, leaf |-> <<2>>]

SmallLayouts == {TwoLeaves, SentOn, Cyclic}
=============================================================================

------------------------------ MODULE ExitPlan ------------------------------
(***************************************************************************)
(* How a unilateral exit is planned: the chains of the chosen VTXOs are     *)
(* merged into one graph, ordered, and turned into the steps of a package.  *)
(*                                                                         *)
(* Virtual transactions are numbered in the order of their ids, VTXOs too.  *)
(* A layout is what the indexer and the transactions themselves say:        *)
(*   txs         the virtual transactions                                   *)
(*   spends[t]   the parents of t in the indexer's chain, each listed once  *)
(*   inputs[t]   the transactions t really spends                           *)
(*   chain[v]    the transactions of the chain of v                         *)
(*   leaf[v]     the transaction that creates v                             *)
(* Commitments are on the chain from the start and left out.                *)
(*                                                                         *)
(* The algorithms are recursive functions that take one step at a time, and *)
(* no folds or filters of the library: ExitProofs proves what they compute. *)
(***************************************************************************)
EXTENDS Integers, Sequences, FiniteSets, SequencesExt

\* The transactions that are not virtual.
Splitter == 0
Sweep(v) == -v

Vtxos(l) == DOMAIN l.chain
Serves(l, t) == {v \in Vtxos(l) : t \in l.chain[v]}
Ascending(S) ==
    CHOOSE s \in [1 .. Cardinality(S) -> S] : \A m, n \in DOMAIN s : m < n => s[m] < s[n]
FeeOf(funded) == IF funded THEN "package" ELSE "bump"

\* A turn of the loop of buildExitDag, Kahn's algorithm over the indexer's chain:
\* the head of the queue is next, and those it was the last parent of may follow.
Parents(l, t) == l.spends[t] \cap l.txs
Visit(l, s) ==
    LET order == Append(s.order, Head(s.queue))
        freed == {t \in l.txs : /\ Head(s.queue) \in l.spends[t]
                                /\ Parents(l, t) \subseteq ToSet(order)}
    IN  IF s.queue = <<>> THEN s
        ELSE [order |-> order, queue |-> Tail(s.queue) \o Ascending(freed)]

\* The order of buildExitDag.
Kahn(l) ==
    LET N == Cardinality(l.txs)
        Loop[n \in 0 .. N] ==
            IF n = 0
            THEN [order |-> <<>>, queue |-> Ascending({t \in l.txs : Parents(l, t) = {}})]
            ELSE Visit(l, Loop[n - 1])
    IN  Loop[N].order

\* Mutant: the order of the indexer's chain is good enough.
AsListed(items, deps) == items

\* A turn of the loops of topoSortByDeps: an item is ready, or left to the next
\* pass; after the last one the next pass begins.
Sift(produced, deps, s) ==
    LET t == Head(s.remaining)
    IN  IF s.remaining = <<>>
        THEN [ordered |-> s.ordered, remaining |-> s.next, next |-> <<>>]
        ELSE IF deps[t] \cap produced \subseteq ToSet(s.ordered)
        THEN [ordered |-> Append(s.ordered, t), remaining |-> Tail(s.remaining), next |-> s.next]
        ELSE [ordered |-> s.ordered, remaining |-> Tail(s.remaining), next |-> Append(s.next, t)]

\* topoSortByDeps: passes over what remains, each emitting what has become
\* ready, in the incoming order.  There are no more passes than items; one that
\* makes no progress is repeated to no effect.
TopoSort(items, deps) ==
    LET N == Len(items) * (Len(items) + 1)
        Loop[n \in 0 .. N] ==
            IF n = 0 THEN [ordered |-> <<>>, remaining |-> items, next |-> <<>>]
            ELSE Sift(ToSet(items), deps, Loop[n - 1])
    IN  Loop[N].ordered

\* The items that are in S, in order.
Keep(items, S) ==
    LET Kept[n \in 0 .. Len(items)] ==
            IF n = 0 THEN <<>>
            ELSE IF items[n] \in S THEN Append(Kept[n - 1], items[n])
            ELSE Kept[n - 1]
    IN  Kept[Len(items)]

\* The transactions that are not confirmed, by the indexer's chain.
Unconfirmed(l, onchain) == Keep(Kahn(l), l.txs \ onchain)

\* The virtual transactions a package brings on the chain, in order.
Unrolled(l, onchain, active) ==
    Keep(TopoSort(Unconfirmed(l, onchain), l.inputs),
         {t \in l.txs : Serves(l, t) \cap active # {}})

\* A cycle, in the chain or among the inputs, is an error.
Plannable(l, onchain) ==
    /\ Len(Kahn(l)) = Cardinality(l.txs)
    /\ Len(TopoSort(Unconfirmed(l, onchain), l.inputs)) = Len(Unconfirmed(l, onchain))

\* prepare: the package for the VTXOs with a sweep that can be signed.  A
\* package step comes with a fee child that spends the splitter, a bump step
\* gets its child when it is executed.
Plan(l, onchain, active, funded) ==
    LET txs == Unrolled(l, onchain, active)
        unroll == [i \in DOMAIN txs |-> [kind |-> FeeOf(funded), tx |-> txs[i],
                                         forVtxos |-> Serves(l, txs[i]) \cap active]]
        splitter == <<[kind |-> "broadcast", tx |-> Splitter, forVtxos |-> {}]>>
    IN  [steps |-> (IF funded /\ txs # <<>> THEN splitter ELSE <<>>) \o unroll,
         sweeps |-> Ascending(active),
         onchain |-> onchain]
=============================================================================

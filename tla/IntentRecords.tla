--------------------------- MODULE IntentRecords ---------------------------
(***************************************************************************)
(* Settlement intents as the SDK persists them: the states of a row, the   *)
(* reducer that advances a row on a settlement event, the snapshot rule    *)
(* of wallet.settle, the coin lock derived from the rows, and the          *)
(* classification that crash recovery applies to a leftover row.           *)
(*                                                                         *)
(* A row is identified by its intentTxId, the id of the signed proof       *)
(* transaction.  The proof commits to the inputs, to the outputs and to    *)
(* the register message; the message is fresh only when it carries a       *)
(* random cosigner key, which a settle without offchain outputs does not   *)
(* have.  So an id is the inputs plus a tag: the attempt that drew the     *)
(* cosigner key, or 0 when there was none.                                 *)
(***************************************************************************)
EXTENDS Naturals

CONSTANTS
    Vtxos,         \* the wallet's virtual coins (outpoints)
    MaxAttempts,   \* bound: calls of settle() over the wallet's lifetime
    MaxRounds      \* bound: batch rounds the server runs

ASSUME RecordsAssumption ==
    /\ MaxAttempts \in Nat
    /\ MaxRounds \in Nat

Attempts == 1 .. MaxAttempts
Rounds == 1 .. MaxRounds

\* What consumed a coin: nothing, a round, or an ordinary offchain spend.
Unspent == 0
OffchainSpend == MaxRounds + 1
Spends == 0 .. (MaxRounds + 1)

IntentTxIds == [inputs : SUBSET Vtxos, tag : 0 .. MaxAttempts]

\* makeRegisterIntentSignature: the id is fresh exactly when a signer session
\* (a random cosigner key) is part of the signed message.
IntentTxId(inputs, kind, attempt) ==
    [inputs |-> inputs, tag |-> IF kind = "offchain" THEN attempt ELSE 0]

-----------------------------------------------------------------------------
TerminalStates == {"batch_failed", "batch_succeeded", "cancelled"}
PendingStates == {"waiting_to_submit", "waiting_for_batch", "batch_in_progress"}
IntentStates == PendingStates \cup TerminalStates

IsTerminal(state) == state \in TerminalStates

\* One row of the store; "absent" stands for an id that has no row.
Rows == [state : IntentStates \cup {"absent"}, commitment : Spends]
NoRow == [state |-> "absent", commitment |-> Unspent]

\* Monotonic: a terminal state ignores every event, and only the three
\* batch boundary events move a row.
ReduceIntentState(state, event) ==
    IF IsTerminal(state) THEN state
    ELSE CASE event = "started"   -> "batch_in_progress"
           [] event = "finalized" -> "batch_succeeded"
           [] event = "failed"    -> "batch_failed"
           [] OTHER               -> state

ApplySettlementEvent(row, event, round) ==
    [state |-> ReduceIntentState(row.state, event),
     commitment |-> IF event = "finalized" THEN round ELSE row.commitment]

\* Is there anything to save for this event?
EventIsNoOp(row, event) ==
    \/ row.state = "absent"
    \/ ReduceIntentState(row.state, event) = row.state

\* Mutant: terminal stickiness dropped from the snapshot.
OverwriteTerminal(row) == FALSE

\* wallet.settle writes its own view of the row unless a terminal outcome is
\* already recorded; fields it does not patch are kept.
SnapshotIsNoOp(row) == IsTerminal(row.state)

ApplySnapshot(row, state, round) ==
    [state |-> state,
     commitment |-> IF round = Unspent THEN row.commitment ELSE round]

\* The coins no generic spend may select: the inputs of non-terminal rows.
LockedOutpoints(rows) ==
    UNION {id.inputs : id \in {i \in DOMAIN rows : rows[i].state \in PendingStates}}

-----------------------------------------------------------------------------
\* Mutant: only offchain spends count.
OffchainInputsConsumed(id, idx) == \A v \in id.inputs : idx[v] = OffchainSpend

\* classifyIntent: `idx` is what the indexer reported for the inputs.  No
\* caller in the SDK sets validUntil, so its expiry branch never applies.
InputsConsumed(id, idx) ==
    id.inputs # {} /\ \A v \in id.inputs : idx[v] # Unspent

SettlingRounds(id, idx) == {idx[v] : v \in id.inputs} \cap Rounds

\* Mutants: every unconsumed row is cancelled, or none is.
CancelUnconsumed(id, row, idx) ==
    IF IsTerminal(row.state) \/ InputsConsumed(id, idx) THEN row
    ELSE [row EXCEPT !.state = "cancelled"]
KeepUnconsumed(id, row, idx) ==
    IF ~IsTerminal(row.state) /\ InputsConsumed(id, idx)
    THEN [row EXCEPT !.state = "batch_succeeded"] ELSE row

\* The row to save, or the row itself when the outcome cannot be proved.
ClassifyIntent(id, row, idx) ==
    IF IsTerminal(row.state) THEN row
    ELSE IF InputsConsumed(id, idx)
    THEN [state |-> "batch_succeeded",
          commitment |->
              IF row.commitment # Unspent \/ SettlingRounds(id, idx) = {}
              THEN row.commitment
              ELSE CHOOSE r \in SettlingRounds(id, idx) : TRUE]
    ELSE IF row.state = "waiting_to_submit"
    THEN [row EXCEPT !.state = "cancelled"]
    ELSE row
=============================================================================

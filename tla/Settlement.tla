----------------------------- MODULE Settlement -----------------------------
(***************************************************************************)
(* wallet.settle() end to end: the intent store it writes, the coins it    *)
(* hides while in flight, the batch server it registers with, the event    *)
(* stream it follows, process crashes, and the reconciler that repairs     *)
(* leftover rows at boot and when the indexer subscription reconnects.     *)
(*                                                                         *)
(* Every step of the wallet ends where the code awaits: a read of the      *)
(* intent store and the write that follows it are two steps, and so is     *)
(* every call of the server.  The transaction lock admits one settle() at  *)
(* a time, so one program counter stands for all calls.                    *)
(*                                                                         *)
(* The server is external.  It runs batches one after the other, tells     *)
(* every stream of every batch's boundary events, drops members that do    *)
(* not confirm, may fail a batch at any moment, and consumes the members'  *)
(* coins when the batch commits.                                           *)
(***************************************************************************)
EXTENDS IntentRecords, Sequences, FiniteSets

CONSTANTS
    Kinds,         \* subset of {"offchain", "onchain"}: outputs of a settle
    FaultSets,     \* the environments to consider: sets of FaultNames
    MaxCrashes     \* bound: process crashes

FaultNames ==
    {"crash",       \* the process dies and is started again
     "overlap",     \* reconciliation runs while a settle is in flight
     "stream",      \* the event stream errors or closes
     "loss",        \* an event falls into a reconnect gap of the stream
     "rpc",         \* the server acts on a call whose response is lost
     "repo",        \* a read or a write of the intent store fails
     "precheck",    \* assertAnnotatable or assertSpendableNow throws
     "update",      \* updateDbAfterSettle throws
     "indexer",     \* the indexer is unreachable
     "requeue",     \* the server queues the member of a failed batch again
     "spend"}       \* a coin is spent offchain, by another device of the user

ASSUME SettlementAssumption ==
    /\ Kinds \subseteq {"offchain", "onchain"}
    /\ FaultSets \subseteq SUBSET FaultNames
    /\ MaxCrashes \in Nat

VARIABLES
    \* persisted by the wallet
    store,         \* the intent repository
    settledBy,     \* the wallet's own vtxo rows: what it believes consumed them
    \* the server (external)
    consumed,      \* what really consumed each coin
    claims,        \* the coins each attempt registered
    queue,         \* registered attempts waiting for a batch
    round,         \* the current batch
    done,          \* attempts whose batch committed (history)
    chan,          \* events under way to the subscribed stream
    \* the environment
    faults,        \* the faults it may produce, chosen once
    \* the wallet process
    up,            \* is the process running?
    crashes,
    attempts,      \* calls of settle() so far
    pc,            \* where the current settle() is
    job,           \* its inputs and kind
    step,          \* the step of Batch.join
    write,         \* the transition being persisted
    draft,         \* the row about to be saved
    committed,     \* committedTxid: the round Batch.join returned
    pending,       \* _pendingSpendOutpoints
    open,          \* is the stream subscribed?
    \* the reconciler
    rcpc,          \* where the reconciler is
    seen,          \* the rows it listed
    left,          \* the ids still to treat
    idx,           \* the indexer's answer
    fix            \* the row about to be saved, and its id

persisted == <<store, settledBy>>
server == <<consumed, claims, queue, round, done>>
settle == <<attempts, pc, job, step, write, draft, committed, pending, open>>
process == <<up, crashes, faults>>
reconciler == <<rcpc, seen, left, idx, fix>>
vars == <<persisted, server, chan, settle, process, reconciler>>

-----------------------------------------------------------------------------
Phases == {"idle", "started", "confirmed", "finalizing", "forfeited"}
EventTypes == {"started", "finalization", "finalized", "failed"}
Batches == [no : 0 .. MaxRounds, phase : Phases, member : 0 .. MaxAttempts]
Events == [type : EventTypes, round : 0 .. MaxRounds, member : 0 .. MaxAttempts]

\* What one persist call writes: a snapshot of settle, or a batch event.
Snapshots == {"waiting_to_submit", "waiting_for_batch", "cancelled", "batch_succeeded"}
Writes == [what : Snapshots \cup {"started", "finalized", "failed"}, round : Spends]

Pcs == {"idle", "read", "save", "check", "register", "clear", "register_again",
        "join", "confirm", "forfeit", "update", "release", "finally"}
Steps == {"start", "batch_started", "batch_finalization"}

NoIds == [id \in IntentTxIds |-> NoRow]
NoId == [inputs |-> {}, tag |-> 0]
NoWrite == [what |-> "waiting_to_submit", round |-> Unspent]
NoJob == [inputs |-> {}, kind |-> "offchain"]
NoFix == [id |-> NoId, row |-> NoRow]
NoSpends == [v \in Vtxos |-> Unspent]

\* The id under which the current settle() persists, and the one of an attempt.
CurrentId == IntentTxId(job.inputs, job.kind, attempts)

\* Attempts the server holds: queued, or a member of the running batch.
Held == queue \cup (IF round.phase = "idle" THEN {} ELSE {round.member} \ {0})
HeldCoins == UNION {claims[a] : a \in Held}
Ours(e) == e.member = attempts

Emit(type) ==
    chan' = IF open
            THEN Append(chan, [type |-> type, round |-> round'.no, member |-> round'.member])
            ELSE chan

-----------------------------------------------------------------------------
Init ==
    /\ store = NoIds
    /\ settledBy = NoSpends
    /\ consumed = NoSpends
    /\ claims = [a \in Attempts |-> {}]
    /\ queue = {}
    /\ round = [no |-> 0, phase |-> "idle", member |-> 0]
    /\ done = {}
    /\ chan = <<>>
    /\ faults \in FaultSets
    /\ up = TRUE
    /\ crashes = 0
    /\ attempts = 0
    /\ pc = "idle"
    /\ job = NoJob
    /\ step = "start"
    /\ write = NoWrite
    /\ draft = NoRow
    /\ committed = Unspent
    /\ pending = {}
    /\ open = FALSE
    /\ rcpc = "idle"
    /\ seen = NoIds
    /\ left = {}
    /\ idx = NoSpends
    /\ fix = NoFix

-----------------------------------------------------------------------------
(* The settle process.                                                      *)

\* Continue with persisting `what`; every persist is a read, then a write.
Persist(what, r) ==
    /\ pc' = "read"
    /\ write' = [what |-> what, round |-> r]

\* Where settle() goes once a persist call has returned.
AfterPersist ==
    CASE write.what = "waiting_to_submit"              -> "check"
      [] write.what \in {"waiting_for_batch", "started"} -> "join"
      [] write.what = "finalized"                      -> "update"
      [] write.what = "failed"                         -> "release"
      [] OTHER                                         -> "finally"

\* The call ends, and its local variables with it.
Unwind ==
    /\ pc' = "idle" /\ job' = NoJob /\ step' = "start"
    /\ write' = NoWrite /\ draft' = NoRow /\ committed' = Unspent

\* The reconciliation run ends.
EndRecovery ==
    /\ rcpc' = "idle" /\ left' = {} /\ seen' = NoIds /\ idx' = NoSpends /\ fix' = NoFix

\* settle({ inputs, outputs }): explicit inputs are taken as they are, locked
\* or not; only coins the wallet already knows as settled are out of the set.
SettleStart ==
    /\ up /\ pc = "idle" /\ attempts < MaxAttempts
    /\ rcpc = "idle" \/ "overlap" \in faults
    /\ \E inputs \in (SUBSET {v \in Vtxos : settledBy[v] = Unspent}) \ {{}}, kind \in Kinds :
           job' = [inputs |-> inputs, kind |-> kind]
    /\ attempts' = attempts + 1
    /\ Persist("waiting_to_submit", Unspent)
    /\ UNCHANGED <<persisted, server, chan, step, draft, committed, pending, open,
                   process, reconciler>>

\* getIntents of persistIntentSnapshot or persistTransition, with the decision
\* taken on the row read.
PersistRead ==
    /\ up /\ pc = "read"
    /\ LET row == store[CurrentId]
           snapshot == write.what \in Snapshots
           skip == IF snapshot THEN SnapshotIsNoOp(row) ELSE EventIsNoOp(row, write.what)
       IN  \/ /\ skip
              /\ pc' = AfterPersist
              /\ UNCHANGED draft
           \/ /\ ~skip
              /\ pc' = "save"
              /\ draft' = IF snapshot THEN ApplySnapshot(row, write.what, write.round)
                          ELSE ApplySettlementEvent(row, write.what, write.round)
    /\ UNCHANGED <<persisted, server, chan, attempts, job, step, write, committed,
                   pending, open, process, reconciler>>

PersistSave ==
    /\ up /\ pc = "save"
    /\ store' = [store EXCEPT ![CurrentId] = draft]
    /\ draft' = NoRow
    /\ pc' = AfterPersist
    /\ UNCHANGED <<settledBy, server, chan, attempts, job, step, write,
                   committed, pending, open, process, reconciler>>

\* Repository errors are logged, never thrown.
PersistFail ==
    /\ up /\ pc \in {"read", "save"} /\ "repo" \in faults
    /\ draft' = NoRow
    /\ pc' = AfterPersist
    /\ UNCHANGED <<persisted, server, chan, attempts, job, step, write,
                   committed, pending, open, process, reconciler>>

\* Mutant: the coins are not hidden when the call starts.
CheckPassVisible ==
    /\ up /\ pc = "check"
    /\ open' = TRUE
    /\ pc' = "register"
    /\ UNCHANGED <<persisted, server, chan, attempts, job, step, write, draft,
                   committed, pending, process, reconciler>>

\* The checks before anything leaves the wallet, then the coins are hidden and
\* the stream is primed, all before the try block's first await.
CheckPass ==
    /\ up /\ pc = "check"
    /\ pending' = pending \cup job.inputs
    /\ open' = TRUE
    /\ pc' = "register"
    /\ UNCHANGED <<persisted, server, chan, attempts, job, step, write, draft,
                   committed, process, reconciler>>

\* They throw outside the try block: no release, no cancellation.
CheckFail ==
    /\ up /\ pc = "check" /\ "precheck" \in faults
    /\ Unwind
    /\ UNCHANGED <<persisted, server, chan, attempts, pending, open, process, reconciler>>

Acceptable == /\ \A v \in job.inputs : consumed[v] = Unspent
              /\ HeldCoins \cap job.inputs = {}

\* registerIntent accepted; its response may be lost.
RegisterOk ==
    /\ up /\ pc \in {"register", "register_again"}
    /\ Acceptable
    /\ queue' = queue \cup {attempts}
    /\ claims' = [claims EXCEPT ![attempts] = job.inputs]
    /\ \/ Persist("waiting_for_batch", Unspent)
       \/ "rpc" \in faults /\ pc' = "release" /\ UNCHANGED write
    /\ UNCHANGED <<persisted, consumed, round, done, chan, attempts, job, step, draft,
                   committed, pending, open, process, reconciler>>

\* registerIntent refused.  Only the first refusal for a duplicated input is
\* worth a second try.
RegisterRefused ==
    /\ up /\ pc \in {"register", "register_again"}
    /\ ~Acceptable
    /\ pc' = IF pc = "register" /\ \A v \in job.inputs : consumed[v] = Unspent
             THEN "clear" ELSE "release"
    /\ UNCHANGED <<persisted, server, chan, attempts, job, step, write, draft,
                   committed, pending, open, process, reconciler>>

\* deleteIntent reaches queued intents only, never a batch's member.
Deletable == {a \in queue : claims[a] \cap job.inputs # {}}

\* safeRegisterIntent clears the queued intents that hold its inputs, and
\* gives up when there is none.
ClearDuplicates ==
    /\ up /\ pc = "clear"
    /\ queue' = queue \ Deletable
    /\ pc' = IF Deletable # {} THEN "register_again" ELSE "release"
    /\ UNCHANGED <<persisted, consumed, claims, round, done, chan, attempts, job, step,
                   write, draft, committed, pending, open, process, reconciler>>

\* Batch.join takes the next event of the stream.
Receive ==
    /\ up /\ pc = "join" /\ open /\ chan # <<>>
    /\ chan' = Tail(chan)

JoinStarted ==
    /\ Receive
    /\ Head(chan).type = "started"
    /\ pc' = IF Ours(Head(chan)) THEN "confirm" ELSE "join"
    /\ UNCHANGED <<persisted, server, attempts, job, step, write, draft, committed,
                   pending, open, process, reconciler>>

\* Another batch's commitment fails the handler's validation, unless the step
\* (tree signing is not over) ignores the event.
JoinFinalization ==
    /\ Receive
    /\ Head(chan).type = "finalization"
    /\ \/ step = "batch_started" /\ Ours(Head(chan)) /\ pc' = "forfeit"
       \/ step = "batch_started" /\ ~Ours(Head(chan)) /\ pc' \in {"join", "release"}
       \/ step # "batch_started" /\ pc' = "join"
    /\ UNCHANGED <<persisted, server, attempts, job, step, write, draft, committed,
                   pending, open, process, reconciler>>

\* Mutant: the step is not compared either.
JoinAnyFinalized ==
    /\ Receive
    /\ Head(chan).type = "finalized"
    /\ committed' = Head(chan).round
    /\ Persist("finalized", Head(chan).round)
    /\ UNCHANGED <<persisted, server, attempts, job, step, draft, pending, open,
                   process, reconciler>>

\* Only the step is compared, never the batch of the event.
JoinFinalized ==
    /\ Receive
    /\ Head(chan).type = "finalized"
    /\ IF step = "batch_finalization"
       THEN /\ committed' = Head(chan).round
            /\ Persist("finalized", Head(chan).round)
       ELSE UNCHANGED <<pc, write, committed>>
    /\ UNCHANGED <<persisted, server, attempts, job, step, draft, pending, open,
                   process, reconciler>>

\* Any batch's failure ends the settle: the event names no intent.
JoinFailed ==
    /\ Receive
    /\ Head(chan).type = "failed"
    /\ Persist("failed", Unspent)
    /\ UNCHANGED <<persisted, server, attempts, job, step, draft, committed, pending,
                   open, process, reconciler>>

\* "event stream closed", or an error of the event source.  At the bound on
\* batches the server goes away, and the stream with it.
OutOfRounds == round.no = MaxRounds /\ round.phase = "idle" /\ chan = <<>>

JoinStreamEnds ==
    /\ up /\ pc = "join" /\ ("stream" \in faults \/ OutOfRounds)
    /\ pc' = "release"
    /\ UNCHANGED <<persisted, server, chan, attempts, job, step, write, draft,
                   committed, pending, open, process, reconciler>>

IsMember(phase) == round.phase = phase /\ round.member = attempts

\* Mutant: a refused confirmation is tried again for ever.
ConfirmRetry ==
    /\ up /\ pc = "confirm"
    /\ IsMember("started")
    /\ round' = [round EXCEPT !.phase = "confirmed"]
    /\ Persist("started", Unspent) /\ step' = "batch_started"
    /\ UNCHANGED <<persisted, consumed, claims, queue, done, chan, attempts, job, draft,
                   committed, pending, open, process, reconciler>>

\* confirmRegistration: refused once the server no longer waits for it.
Confirm ==
    /\ up /\ pc = "confirm"
    /\ IF IsMember("started")
       THEN /\ round' = [round EXCEPT !.phase = "confirmed"]
            /\ \/ Persist("started", Unspent) /\ step' = "batch_started"
               \/ "rpc" \in faults /\ pc' = "release" /\ UNCHANGED <<write, step>>
       ELSE pc' = "release" /\ UNCHANGED <<round, write, step>>
    /\ UNCHANGED <<persisted, consumed, claims, queue, done, chan, attempts, job, draft,
                   committed, pending, open, process, reconciler>>

\* submitSignedForfeitTxs: from here the server can commit on its own.
Forfeit ==
    /\ up /\ pc = "forfeit"
    /\ IF IsMember("finalizing")
       THEN /\ round' = [round EXCEPT !.phase = "forfeited"]
            /\ \/ pc' = "join" /\ step' = "batch_finalization"
               \/ "rpc" \in faults /\ pc' = "release" /\ UNCHANGED step
       ELSE pc' = "release" /\ UNCHANGED <<round, step>>
    /\ UNCHANGED <<persisted, consumed, claims, queue, done, chan, attempts, job, write,
                   draft, committed, pending, open, process, reconciler>>

\* updateDbAfterSettle.
UpdateOk ==
    /\ up /\ pc = "update"
    /\ settledBy' = [v \in Vtxos |-> IF v \in job.inputs THEN committed ELSE settledBy[v]]
    /\ pc' = "finally"
    /\ UNCHANGED <<store, server, chan, attempts, job, step, write, draft, committed,
                   pending, open, process, reconciler>>

\* A local failure after the commit records the success, not a cancellation.
UpdateThrows ==
    /\ up /\ pc = "update" /\ "update" \in faults
    /\ Persist("batch_succeeded", committed)
    /\ UNCHANGED <<persisted, server, chan, attempts, job, step, draft, committed,
                   pending, open, process, reconciler>>

\* Mutant: the cancellation is not recorded.
ReleaseSilently ==
    /\ up /\ pc = "release"
    /\ queue' = queue \ Deletable
    /\ pc' = "finally"
    /\ UNCHANGED <<persisted, consumed, claims, round, done, chan, attempts, job, step,
                   write, draft, committed, pending, open, process, reconciler>>

\* The catch block before a commit: best-effort deleteIntent, then "cancelled".
Release ==
    /\ up /\ pc = "release"
    /\ queue' \in {queue \ Deletable} \cup (IF "rpc" \in faults THEN {queue} ELSE {})
    /\ Persist("cancelled", Unspent)
    /\ UNCHANGED <<persisted, consumed, claims, round, done, chan, attempts, job, step,
                   draft, committed, pending, open, process, reconciler>>

Finally ==
    /\ up /\ pc = "finally"
    /\ pending' = pending \ job.inputs
    /\ open' = FALSE
    /\ chan' = <<>>
    /\ Unwind
    /\ UNCHANGED <<persisted, server, attempts, process, reconciler>>

-----------------------------------------------------------------------------
(* The server.                                                              *)

\* A batch starts with one of the queued intents, or with strangers only (0).
ServerStart ==
    /\ round.phase = "idle" /\ round.no < MaxRounds
    /\ \E m \in queue \cup {0} :
           /\ round' = [no |-> round.no + 1, phase |-> "started", member |-> m]
           /\ queue' = queue \ {m}
    /\ Emit("started")
    /\ UNCHANGED <<persisted, consumed, claims, done, settle, process, reconciler>>

\* A member that did not confirm in time is dropped; the batch goes on.
ServerDrop ==
    /\ round.phase = "started" /\ round.member # 0
    /\ round' = [round EXCEPT !.member = 0]
    /\ UNCHANGED <<persisted, consumed, claims, queue, done, chan, settle, process,
                   reconciler>>

ServerFinalize ==
    /\ round.phase = "confirmed" \/ (round.phase = "started" /\ round.member = 0)
    /\ round' = [round EXCEPT !.phase = "finalizing"]
    /\ Emit("finalization")
    /\ UNCHANGED <<persisted, consumed, claims, queue, done, settle, process, reconciler>>

\* The commitment transaction is final: the member's coins are consumed.
ServerCommit ==
    /\ round.phase = "forfeited" \/ (round.phase = "finalizing" /\ round.member = 0)
    /\ consumed' = [v \in Vtxos |->
                      IF round.member # 0 /\ v \in claims[round.member] /\ consumed[v] = Unspent
                      THEN round.no ELSE consumed[v]]
    /\ done' = done \cup ({round.member} \ {0})
    /\ round' = [round EXCEPT !.phase = "idle"]
    /\ Emit("finalized")
    /\ UNCHANGED <<persisted, claims, queue, settle, process, reconciler>>

\* A batch fails at any point before its commit; its member is dropped, or
\* queued again for a later batch.
ServerFail ==
    /\ round.phase # "idle"
    /\ round' = [round EXCEPT !.phase = "idle"]
    /\ queue' \in {queue} \cup (IF "requeue" \in faults
                               THEN {queue \cup ({round.member} \ {0})} ELSE {})
    /\ Emit("failed")
    /\ UNCHANGED <<persisted, consumed, claims, done, settle, process, reconciler>>

\* A coin is spent offchain while no batch or queued intent holds it.
OffchainSend ==
    /\ "spend" \in faults
    /\ \E v \in Vtxos \ HeldCoins :
           /\ consumed[v] = Unspent
           /\ consumed' = [consumed EXCEPT ![v] = OffchainSpend]
    /\ UNCHANGED <<persisted, claims, queue, round, done, chan, settle, process,
                   reconciler>>

\* The event stream reconnects without replay: the next event is gone.
LoseEvent ==
    /\ "loss" \in faults /\ chan # <<>>
    /\ chan' = Tail(chan)
    /\ UNCHANGED <<persisted, server, settle, process, reconciler>>

-----------------------------------------------------------------------------
(* The process, and the reconciler that runs inside it.                     *)

\* Everything but the repositories is lost.
Crash ==
    /\ "crash" \in faults /\ up /\ crashes < MaxCrashes
    /\ up' = FALSE
    /\ crashes' = crashes + 1
    /\ Unwind /\ pending' = {} /\ open' = FALSE /\ chan' = <<>>
    /\ EndRecovery
    /\ UNCHANGED <<persisted, server, attempts, faults>>

\* Wallet.create initialises the contract manager, whose boot sync reconciles.
Restart ==
    /\ ~up
    /\ up' = TRUE
    /\ rcpc' = "list"
    /\ UNCHANGED <<persisted, server, chan, settle, crashes, faults, seen, left, idx,
                   fix>>

\* The subscription to the indexer was re-established.
Reconnect ==
    /\ up /\ rcpc = "idle"
    /\ pc = "idle" \/ "overlap" \in faults
    /\ rcpc' = "list"
    /\ UNCHANGED <<persisted, server, chan, settle, process, seen, left, idx, fix>>

\* getIntents over the non-terminal states.
RecoverList ==
    /\ up /\ rcpc = "list"
    /\ LET live == {id \in IntentTxIds : store[id].state \in PendingStates}
       IN  /\ left' = live
           /\ seen' = [id \in IntentTxIds |-> IF id \in live THEN store[id] ELSE NoRow]
           /\ rcpc' = IF live = {} THEN "idle" ELSE "fetch"
    /\ UNCHANGED <<persisted, server, chan, settle, process, idx, fix>>

\* One indexer round trip for every input; a failure ends the run.
RecoverFetch ==
    /\ up /\ rcpc = "fetch"
    /\ \/ rcpc' = "classify" /\ idx' = consumed /\ UNCHANGED <<seen, left, fix>>
       \/ "indexer" \in faults /\ EndRecovery
    /\ UNCHANGED <<persisted, server, chan, settle, process>>

\* classifyIntent, then the re-read of the freshness guard.
RecoverClassify(id) ==
    /\ up /\ rcpc = "classify" /\ id \in left
    /\ LET next == ClassifyIntent(id, seen[id], idx)
       IN  IF next # seen[id] /\ store[id].state = seen[id].state
           THEN /\ fix' = [id |-> id, row |-> next]
                /\ rcpc' = "save"
           ELSE UNCHANGED <<fix, rcpc>>
    /\ left' = left \ {id}
    /\ UNCHANGED <<persisted, server, chan, settle, process, seen, idx>>

\* saveIntent; an error skips the intent.
RecoverSave ==
    /\ up /\ rcpc = "save"
    /\ \/ store' = [store EXCEPT ![fix.id] = fix.row]
       \/ "repo" \in faults /\ UNCHANGED store
    /\ rcpc' = "classify" /\ fix' = NoFix
    /\ UNCHANGED <<settledBy, server, chan, settle, process, seen, left, idx>>

RecoverDone ==
    /\ up /\ rcpc = "classify" /\ left = {}
    /\ EndRecovery
    /\ UNCHANGED <<persisted, server, chan, settle, process>>

-----------------------------------------------------------------------------
Wallet ==
    \/ PersistRead \/ PersistSave \/ PersistFail
    \/ CheckPass \/ CheckFail
    \/ RegisterOk \/ RegisterRefused \/ ClearDuplicates
    \/ JoinStarted \/ JoinFinalization \/ JoinFinalized \/ JoinFailed \/ JoinStreamEnds
    \/ Confirm \/ Forfeit
    \/ UpdateOk \/ UpdateThrows \/ Release \/ Finally

Server ==
    ServerStart \/ ServerDrop \/ ServerFinalize \/ ServerCommit \/ ServerFail

Recovery ==
    \/ RecoverList \/ RecoverFetch \/ RecoverSave \/ RecoverDone
    \/ \E id \in IntentTxIds : RecoverClassify(id)

Next ==
    \/ SettleStart \/ Wallet
    \/ Server \/ OffchainSend \/ LoseEvent
    \/ Crash \/ Restart \/ Reconnect \/ Recovery

Spec == Init /\ [][Next]_vars

\* The event loop resumes every await that has an answer; a crashed app is
\* started again; the server completes or fails the batches it starts.  Nothing
\* makes the subscription reconnect: a stream that stays up never resets.
FairSpec ==
    /\ Spec
    /\ WF_vars(Wallet) /\ WF_vars(Recovery) /\ WF_vars(Restart)
    /\ WF_vars(Server)

-----------------------------------------------------------------------------
TypeOK ==
    /\ store \in [IntentTxIds -> Rows]
    /\ settledBy \in [Vtxos -> Spends]
    /\ consumed \in [Vtxos -> Spends]
    /\ claims \in [Attempts -> SUBSET Vtxos]
    /\ queue \subseteq Attempts
    /\ round \in Batches
    /\ done \subseteq Attempts
    /\ chan \in Seq(Events)
    /\ faults \in FaultSets
    /\ up \in BOOLEAN
    /\ crashes \in 0 .. MaxCrashes
    /\ attempts \in 0 .. MaxAttempts
    /\ pc \in Pcs
    /\ pc # "idle" => attempts \in Attempts
    /\ job \in [inputs : SUBSET Vtxos, kind : {"offchain", "onchain"}]
    /\ step \in Steps
    /\ write \in Writes
    /\ draft \in Rows
    /\ committed \in Spends
    /\ pending \subseteq Vtxos
    /\ open \in BOOLEAN
    /\ rcpc \in {"idle", "list", "fetch", "classify", "save"}
    /\ seen \in [IntentTxIds -> Rows]
    /\ left \subseteq IntentTxIds
    /\ idx \in [Vtxos -> Spends]
    /\ fix \in [id : IntentTxIds, row : Rows]

\* The id and row an attempt with offchain outputs persists under.
RowOf(a) == store[[inputs |-> claims[a], tag |-> a]]

\* As long as the settle() in flight may have an intent at the server, generic
\* coin selection sees none of its inputs: they are hidden before registerIntent
\* and shown again only after the release was attempted.  No coin stays hidden
\* once the call has ended.
HiddenWhileHeld ==
    /\ pc = "idle" => pending = {}
    /\ pc # "idle" /\ attempts \in Held => claims[attempts] \subseteq pending

\* Why it holds: before the coins are hidden nothing of this call can be at the
\* server, afterwards every coin of the call stays hidden until it ends, and an
\* intent the server holds for this call holds this call's coins.
NotRegistered ==
    pc = "check" \/ (pc \in {"read", "save"} /\ write.what = "waiting_to_submit")

HideInv ==
    /\ \A a \in Held : a <= attempts
    /\ pc = "idle" => pending = {}
    /\ pc # "idle" /\ NotRegistered => pending = {} /\ attempts \notin Held
    /\ pc # "idle" /\ ~NotRegistered => pending = job.inputs
    /\ pc # "idle" /\ attempts \in Held => claims[attempts] = job.inputs

\* The coins of an intent that confirmed a batch are locked by the intent store
\* until the batch ends, even when the process has died in between.
LockedInBatch ==
    round.phase \in {"confirmed", "finalizing", "forfeited"} /\ round.member # 0
        => claims[round.member] \subseteq LockedOutpoints(store)

\* A recorded outcome is final: neither a later step of settle() nor recovery
\* rewrites it, as long as the two do not overlap.
TerminalSticky ==
    [][\A id \in IntentTxIds :
         "overlap" \notin faults /\ IsTerminal(store[id].state) => store'[id] = store[id]]_vars

\* Why it holds: without overlap a call and a recovery exclude each other, so the
\* row one of them is about to write still is what it read.
OneWriter ==
    "overlap" \notin faults =>
        /\ ~up => pc = "idle" /\ rcpc = "idle"
        /\ rcpc # "idle" => pc = "idle"
        /\ pc = "save" => ~IsTerminal(store[CurrentId].state)
        /\ rcpc = "save" => ~IsTerminal(store[fix.id].state)

\* An intent whose batch committed is never recorded as cancelled or failed.
CommitNotCancelled ==
    \A a \in done : RowOf(a).state \notin {"cancelled", "batch_failed"}

NeverDisowned ==
    faults \cap {"overlap", "stream", "loss", "rpc", "repo"} = {} => CommitNotCancelled

\* A recorded success names a batch that really consumed the inputs.
SuccessIsCommit ==
    \A id \in IntentTxIds : store[id].state = "batch_succeeded" =>
        /\ \A v \in id.inputs : consumed[v] \in Rounds
        /\ store[id].commitment \in {consumed[v] : v \in id.inputs}

\* The wallet's own rows name the batch that consumed the coin.
OwnRowsReal ==
    \A v \in Vtxos : settledBy[v] # Unspent => consumed[v] = settledBy[v]

\* What is recorded as settled is: an intent as succeeded only with the batch that
\* consumed its inputs, unless they are spent elsewhere as well, and a coin only
\* with the batch that consumed it, unless events of the stream are lost
\* (classifyIntent, updateDbAfterSettle).
OutcomesReal ==
    /\ faults \cap {"loss", "spend"} = {} => SuccessIsCommit
    /\ "loss" \notin faults => OwnRowsReal

\* A coin locked by an intent is locked by a settlement in flight: as long as no
\* process died, nothing stays locked once settle() is over.
LockedMeansInFlight ==
    pc = "idle" /\ crashes = 0 => LockedOutpoints(store) = {}

\* The coin lock follows the batch: held from the confirmation to the end of the
\* batch, across a crash, and given back when the call is over; but for the faults
\* that leave a terminal row over a live batch or a row nobody may write
\* (getLockedVtxoOutpoints).
LocksFollowBatch ==
    /\ faults \cap {"overlap", "stream", "rpc", "repo", "requeue"} = {} => LockedInBatch
    /\ faults \cap {"precheck", "repo"} = {} => LockedMeansInFlight

\* The rows are about to be reconciled: the process will be started again, or has
\* just been, or the subscription was reset.
Reconciling == ~up \/ rcpc = "list"

\* A commit is recorded: by the call that waits for it, by the boot after a crash
\* of that call, and otherwise by the next reconciliation, whenever one comes
\* (reconcileIntents, updateDbAfterSettle).
CommitRecorded ==
    \A a \in Attempts :
        (a \in done /\ ((pc # "idle" /\ attempts = a) \/ Reconciling))
            ~> RowOf(a).state = "batch_succeeded"

\* A row that was never submitted does not outlive a boot or a reset: the first
\* reconciliation that begins after the call is gone releases its coins, even when
\* the process dies under it.  Without one the row stays (reconcileStaleIntents).
LeftoverResolved ==
    \A id \in IntentTxIds :
        (store[id].state = "waiting_to_submit" /\ Reconciling)
            ~> store[id].state # "waiting_to_submit"

\* settle() returns or throws and gives the transaction lock back.
SettleReturns == pc # "idle" ~> pc = "idle"
=============================================================================

# Verification of the Arkade TypeScript SDK

TLA+ models of the TypeScript SDK of Arkade (packages `ts-sdk`, `boltz-swap`
and `swap`), TLC configurations that check them on small instances, and TLAPS
proofs of their main properties. Paths below are relative to
`src/packages/ts-sdk/src/` unless they start with another package.

## 1. Inventory

| component | state it keeps | operations | what is hard | correct when |
|---|---|---|---|---|
| settlement intents (`repositories/intentRepository.ts`, `wallet/intentStateReducer.ts`, `wallet/intentPersistenceHandler.ts`) | one row per intent: state, inputs, commitment | snapshot, batch-event transition, locked outpoints | three writers, read-then-write over an async store | an outcome is final, the lock covers what the server may consume |
| `wallet.settle` (`wallet/wallet.ts`) | transaction lock, pending spends, the stream, `committedTxid` | select, persist, register, join, update, release | every await may fail or be the last one | the rows tell what the batch did, the call ends and lets go of everything |
| intent reconciliation (`wallet/intentReconciliation.ts`) | none (reads rows and indexer) | list, fetch, classify, re-read, save | runs at boot and on reconnect, beside live calls | forces a row terminal only when the outcome is certain |
| batch session (`wallet/batch.ts`, `tree/signingSession.ts`) | step, tree chunks, nonces | start, chunks, sign, forfeit, finish | events lost, of other batches, out of order | forfeits only for the commitment that was checked, one nonce, one signature |
| trees and validation (`tree/`, `wallet/validation.ts`, `wallet/batchExpiry.ts`) | none | create, update, validate | numeric edges, malformed graphs | accepts exactly the well-formed trees that pay everyone |
| offchain send (`wallet/wallet.ts`) | pending transactions, change rows | select, submit, finalize, recover | crash between submit and finalize | no coin is spent twice locally, a submitted transaction is finalized once |
| VTXO manager (`wallet/vtxo-manager.ts`) | timers, cooldowns, in-progress flags | renew, recover, sweep, delegate | timers against user calls, retries | renews before expiry, never two settlements of one coin |
| contract manager and watcher (`contracts/contractManager.ts`, `contracts/contractWatcher.ts`) | contracts, sync cursor, subscription, degraded flag | create, sync, look-ahead, watch, reconnect, poll | events beside syncs, cursor against lost events | no coin of a watched script is missed |
| contract handlers (`contracts/handlers/`) | none | create scripts, select paths | timelock boundaries | offers exactly the paths that are open |
| receive rotation, HD descriptors, secrets (`wallet/walletReceiveRotator.ts`, `wallet/hdDescriptorProvider.ts`, `wallet/contractSecrets.ts`) | next index, current script | rotate, allocate, restore | rotation inside a spend, crash after allocation | no index is used twice, none is lost |
| server info, signers (`wallet/arkInfoSnapshot.ts`, `wallet/inputSignerRouter.ts`, `providers/errors.ts`) | cached info, digest | refresh, migrate, route | stale digest, rotation in flight | signs with the key the script names |
| exit executor, planning, unroll (`wallet/exit/`, `wallet/unroll.ts`) | steps done, dead branches | broadcast, wait, bump, sweep | re-runs, reorganisation, CSV edges | a re-run continues, no step before its parents and its delay |
| delegation, ramps, assets, on-chain wallet (`wallet/delegate.ts`, `wallet/ramps.ts`, `wallet/asset-manager.ts`, `wallet/onchain.ts`) | little | build one request | fees, coin selection | values balance |
| service worker, message bus, expo (`wallet/serviceWorker/`, `worker/`, `wallet/expo/`) | pending requests, handlers, worker state | request, respond, tick, reinitialise | worker restarts, timeouts against late answers | every request is answered once, with its own answer |
| repositories (`repositories/`) | tables, shared connections | get, save, clear, migrate | concurrent opens, migrations | what was saved is read |
| providers, rate gate (`providers/`) | stream iterators, cooldown | requests, streams, back-off | reconnect without replay, shared back-off | spacing is kept, waiters proceed |
| scripts, identities, PSBT fields, Arkade programs, extensions (`script/`, `identity/`, `intent/`, `arkade/`, `extension/`, `musig2/`, `bip322/`) | none | encode, decode, sign | byte layout | round trips |
| history, balance, activity (`utils/transactionHistory.ts`, `wallet/balance.ts`, `wallet/activity.ts`) | none | derive | missing rows | every coin counted once |
| Boltz swaps (`boltz-swap/src/swap-manager.ts`, `arkade-swaps.ts`, `boltz-swap-provider.ts`) | swap rows, socket, poll timers, in-progress set | update, claim, refund, retry | socket and poll deliver the same status, actions overlap | an action runs at most once at a time, every final swap ends |
| Boltz workers (`boltz-swap/src/serviceWorker/`, `expo/`) | pending calls | proxy | as the message bus | as the message bus |
| RFQ swaps (`swap/src/swapManager.ts`, `rfq.ts`, `refund.ts`, `claim.ts`, `restore.ts`, `watch.ts`) | records, key locks, timers | quote, fund, claim, refund, restore | deadlines against the counterparty, crash between steps | never both paths lost, a claim before the refund opens |

How they interact: `settle()` writes the intent rows, calls the server
provider, follows the batch session through callbacks, and updates the coin
rows through the contract manager. The contract manager calls intent
reconciliation at boot and on every reconnect of the watcher's subscription.
The VTXO manager calls `settle()` from timers and events. The swap managers
fund and claim through the wallet. Workers put a message channel between all of
this and the application.

## 2. Plan

1. `IntentRecords`, `Settlement`, `SettlementProofs`: done.
2. `BatchPromise` (what joining a batch promises), `BatchJoin` (the session,
   its handler and its signer) refining it, `BatchJoinProofs`: done.
3. `ExitPlan`, `ExitExecutor`, `ExitProofs`: planning, steps, chain, re-runs, dead
   branches: done.
4. `SwapManager` (Boltz), `RfqSwap`, and their proofs: done.
5. `ContractSync`, `ContractSyncProofs`: manager and watcher, cursor, stream
   and polls: done, without the look-ahead band.
6. `OffchainSend` with pending transactions, `VtxoManager` over the settlement
   as one step, and their proofs, both in `OffchainSendProofs`: done.
7. `WorkerBus`, `WorkerBusProofs`: the message bus and the page-side wallet: done.
8. Left: receive rotation and the look-ahead band it feeds, the rate gate, RFQ
   negotiation before the swap is funded, signer rotation.
9. Left: pure algorithms against reference definitions: tree creation and
   validation, coin selection, path selection, history.

Theorems left: those of the components modelled from here on, their types and
first invariants; what a run checks of safety today is proved (section 13).

## 3. Settlement

`IntentRecords` is the data: the states of a row, `ReduceIntentState` and
`ApplySettlementEvent` (the reducer), `ApplySnapshot` and `SnapshotIsNoOp`
(`persistIntentSnapshot`), `LockedOutpoints`, `ClassifyIntent`. A row's key, the
id of the signed proof transaction, is modelled as the inputs and a tag for the
random cosigner key, because that is what makes two ids equal or different.

`Settlement` is the behaviour. One program counter `pc` stands for `settle()`,
since the transaction lock admits one call at a time; another, `rcpc`, for
`reconcileIntents`. A step ends where the code awaits.

| code | model |
|---|---|
| `persistIntentSnapshot`, `persistTransition` | `PersistRead`, then `PersistSave` or `PersistFail` |
| checks before the `try` block, `_addPendingSpends`, `getEventStream` | `CheckPass`, `CheckFail` |
| `safeRegisterIntent` | `RegisterOk`, `RegisterRefused`, `ClearDuplicates` |
| `Batch.join`, boundary events | `JoinStarted`, `JoinFinalization`, `JoinFinalized`, `JoinFailed`, `JoinStreamEnds` |
| `onBatchStarted`, `handleSettlementFinalizationEvent` | `Confirm`, `Forfeit` |
| `updateDbAfterSettle`, `catch`, `finally` | `UpdateOk`, `UpdateThrows`, `Release`, `Finally` |
| boot, reconnect, `reconcileIntents` | `Restart`, `Reconnect`, `RecoverList`, `RecoverFetch`, `RecoverClassify`, `RecoverSave`, `RecoverDone` |
| the server (external) | `ServerStart`, `ServerDrop`, `ServerFinalize`, `ServerCommit`, `ServerFail` |
| other devices, reconnect gap, death of the process | `OffchainSend`, `LoseEvent`, `Crash` |

The environment draws one set of faults from `FaultSets` and keeps it. Several
properties hold in some environments and not in others; such a property names
the faults it excludes, and for each exclusion that contradicts something the
code says of itself section 14 says what happens.

`Reconnect` is a step that may come and need not: the reconciliation runs at boot
and on `connection_reset`, and a stream that stays up never resets
(`contracts/contractManager.ts`). So a row whose call threw between persisting it
and the `try` block keeps its coins locked until one of the two comes, and the
liveness of leftovers is about a reconciliation that has begun.

Left out: selection of inputs when `settle()` gets none, fees, assets, notes
and boarding inputs, tree signing (between `batch_started` and finalization),
and `validUntil`, which no caller sets.

## 4. Batch session

`BatchJoin` follows `Batch.join` event by event: one action per `case` of its
switch, with the wallet's handler (`createBatchHandler`) and the signer
(`TreeSignerSession`) inside it. A handler that calls the server ends in `pc`
being the name of the call; the call is an action of its own, since the server
moves on meanwhile and then refuses it. `BatchPromise` says in four steps what the
caller relies on.

| code | model |
|---|---|
| `flatVtxoTree`, `flatConnectorTree`, `vtxoTree` | `flat`, `conns`, `tree` |
| `graph`, `myNonces`, `aggregateNonces`, `validatedCommitmentTxid` | `graph`, `nonces`, `aggregated`, `validated` |
| `TxTree.create`, `hasChild`, `buildGraph` | `CreateTree`, `Roots`, `Below` |
| `validateVtxoTxGraph`, `validateBatchRecipients` | `ValidTree` |
| `validateConnectorsTxGraph` and the count of connectors | `ValidConnectors` |
| `assertFinalCommitmentMatchesValidated`, `validateBatchRecipientsWithoutTree` | `FinalCommitmentMatches` |
| `confirmRegistration`, `submitTreeNonces`, `submitTreeSignatures`, `submitSignedForfeitTxs` | `ConfirmRegistration`, `SubmitTreeNonces`, `SubmitTreeSignatures`, `SubmitSignedForfeitTxs` |
| the server (external) | `ServerStart` .. `ServerFail` |

What survives a failed attempt is kept as the code keeps it: chunks and nonces of
an earlier batch stay when the member is queued again and a handler does not
throw. A server fault is a second transaction under the same batch, a commitment
that does not pay the recipients, a cosigner list without the wallet, a bad batch
expiry, or a finalization before the signatures. The wallet hands over at least
one coin that needs a forfeit; boarding inputs and inputs without forfeit are left
out, amounts, scripts and keys are abstract, and a tree has a root and one leaf.

## 5. Unilateral exit

`ExitPlan` is planning: `Kahn` (`buildExitDag`), `TopoSort` (`topoSortByDeps`)
and `Plan` (the package `prepare` assembles). The loops of the two sorts are
recursive functions of the number of turns: a turn of the first is `Visit`, of the
second `Sift`, and both have more turns than they can use. Virtual transactions are numbers in
the order of their ids, 0 is the splitter, `-v` the sweep of VTXO `v`.
`ExitExecutor` runs a package against a chain with a life of its own.

| code | model |
|---|---|
| `prepare`, with the splitter it broadcasts | `Prepare` |
| `status`: every error means "not on chain" | `Status`, `Reads` |
| loop over the steps | `Start`, `CheckStep`, `Send`, `BeginSweeps` |
| `waitConfirmed` | `WaitConfirmed` |
| sweep phase | `PollSweep`, `LookDependency`, `TipUnknown`, `SendSweep`, `EndRound` |
| abort, death, a second run | `Kill`, `Rerun` |
| the chain (external) | `MineSome`, `MineAll`, `Evict`, `Conflict`, `Reorg`, `OthersUnroll` |

A status is read in one step and acted on in the next, so the broadcast races with
other owners, evictions and reorganisations. `depth` counts confirmations, up to
one more than the delay of a sweep. `Mature` covers both kinds of delay: in blocks
the executor waits one block longer than consensus, in seconds the explorer's
clock may be ahead and the sweep is refused as not final. A mempool that has a
transaction already may accept or refuse it again. `Evict` and `Conflict` take only
transactions that nothing in the mempool depends on.

The layouts are two leaves of one tree, an offchain send whose Ark transaction
spends a checkpoint that the indexer does not name as its parent, and a chain with
a cycle. The environments are: conflicts, evictions and kills; reorganisations and
failed reads; other owners and an empty fee wallet; two faults of each. One fault
stops a branch, the second meets the run that retries it.

Left out: fees and coin selection, the choice of exit paths and the signing of
sweeps (`Prepare` drops any VTXOs), a parent the indexer would list twice for one
transaction (the in-degree of `buildExitDag` counts it twice and it would be taken
for a cycle; `spends[t]` is a set), the failed broadcast of the splitter inside
`prepare` (no package results), a status that cannot be read while planning (it
adds a step that the executor skips), and the events the executor yields.

## 6. Boltz swap manager

`SwapManager` follows one swap of any of the four kinds (submarine, reverse, chain
from Ark to Bitcoin and back). Calls of the manager overlap, so each is a `task`
with a program counter, and a step of it runs from one await to the next; the code
of the client that the manager calls back (claims, refunds, co-signature) is part
of these steps. Boltz and the two lockups, `ours` and `theirs`, are external.

| code | model |
|---|---|
| `handleWebSocketMessage`, `handleSwapStatusUpdate` | `Hear`, `Update`, `Save` |
| `pollAllSwaps`, `pollSingleSwap` | `Polled`, `Poll`, or `PollSlowly` and `Answer`; `Receive` |
| `handleSwapNotFound`, `markSwapAsUnknownToProvider` | `NotFound`, `Mark` |
| `executeAutonomousAction`, its lock, its end | `Act`, `Leave` |
| `finalizeMonitoredSwap` and who calls it | `Close` |
| `claimVHTLC`, `claimArk`, `claimBtc` and what they record | `Claim`, `Record`, `Told` |
| `assertClaimSideClaimed`, `signCooperativeClaimForServer` | `ClaimSideClaimed`, `Sign` |
| `refundVHTLC`, `refundArk` and what is made of their outcome | `Refund`, `Outcome` |
| `clearRefundRetry`, `scheduleRefundRetry`, `armRefundRetryTimer` | `Forget`, `Write`, `Remember`, `Keep`, `Fire` |
| `start`, `tryConnectWebSocket`, `stop` | `Start`, `Connect`, `Stop` |
| Boltz, the locktime, death of the process (external) | `BoltzLocks` .. `BoltzAsksEarly`, `Timeout`, `Crash` |

The manager works on an object it was given at start, `copy`, and the repository
has the `row`. A claim or refund of a chain swap writes into the stored record,
everything else writes the whole copy over it. After a stop and a start in one
process there are two objects, and tasks of the first go on with theirs.

Statuses that ask nothing of us are one, `created`; `settled` is the kind's status
of success. A message of the socket is handled when it is sent, with the status
that Boltz has at that moment; older statuses come in through polls, whose answer
may wait (`slow`). A socket that drops is left out, because polling goes on. Saves
do not fail, and the swaps are read and the manager is started in one step. A
lockup is one coin, so a refund succeeds, is deferred, or throws.

`FaultSets` holds environments, as in `Settlement`; `slow` and `polls` cost nothing
of the budget. What the properties exclude, and why:

- `stop`: the second object is written over what the first one saved, and a start
  after a stop may set up neither socket nor polling (`isReconnecting` stays).
- `fail`, for claims and submarine refunds: the code does not retry them.
- `unknown`: a swap that Boltz has forgotten is given up without a refund, which
  the code says it means to do.
- `advance` and `slow` in `RefundDone`, and `slipped`: another call drops the swap
  from under the refund (section 14), or `refundArk` copies a status onto the swap
  that is no longer refundable.
- chain swaps with our coins on Ark in `SwapEnds`: a refund that finds its lockup
  spent throws, and is scheduled again for ever.

Left out: `addSwap`, `removeSwap`, waiting callers, quotes, rate limits, the
polling interval, and managers without automatic actions.

## 7. Contract synchronisation

`ContractSync` is the contract manager and its watcher as far as they keep the
repository in step with the indexer. A coin has two versions, live and spent. The
indexer filters a window by the creation of the coins (`after` in
`providers/indexer.ts`, and the comments of the manager), so the spend of an older
coin is in no delta; what asks for single coins brings it, whatever their age. A
call that is suspended at an await is a task, which holds the answer it got and
saves it later beside the others; a request and its answer are one step, so an
answer is as old as it can be when it is saved.

| code | model |
|---|---|
| `computeSyncWindow`, `cursorCutoff`, `advanceSyncCursor` | `Window`, `Cutoff`, `Advance` |
| `createContract` with its hydration | `CreateContract`, `Adding`, `Hydrate`, `Add` |
| `syncContracts`, `fetchContractVtxosBulk`, `demoteFundedAwaitingContracts` | `Call`, `Write`, `Demoted`, `Save` |
| `reconcilePendingFrontier`: its request, its save | `Pending`, `Frontier` |
| `pruneExitBranches` | `Prune` |
| `getContractsWithVtxos`, `refreshVtxos`, `handleContractEvent` | `Read`, `Refresh`, `Handle` |
| `updateContract`, `setContractWatchState` | `SetWatch` |
| `tryUpdateSubscription`, `withCoalescedSubscription` | `UpdateSubscription`, `Resubscribe` |
| `connect`, `listenLoop`, `scheduleReconnect` | `Open`, `Lose`, `End`, `Reconnect` |
| `handleSubscriptionUpdate`, `pollContracts`, the watcher's baseline | `Hear`, `Poll`, `Live`, `Known` |
| `pollBoardingUtxos`, `selectExpiringVtxos`: the pass's read of the coins | `PassRead` |
| `revalidateBeforeSettle`, `refreshOutpoints` | `Candidates`, `Due`, `Expiring`, `Outpoints` |
| `initialize`, its end, death of the process | `Boot`, `EndSync`, `Crash` |
| the server, the indexer, time (external) | `Change`, `Shown`, `Fresh`, `Tick` |

Assumed of the indexer: a change shows within `Lag`. `MaxFlight` bounds the time a
call is under way, against an overlap of 24 hours in the code. The VTXO manager's
pass is here as far as it corrects rows: it reads all contracts in the cursor's
window and fetches the coins near their expiry (`Life`) one by one. There is one
pass at a time, so it has a slot of its own, task 0.
Coins meet only in the cursor and in the scopes of the syncs, so two scripts
with one coin between them have every such meeting. A subscription request is
one step.

Left out: the look-ahead band, `scan`, deletion of contracts, annotation that
fails, `maxReconnectAttempts` (unlimited by default), the filter on dust. Of the
pass: coins that a lock or a gate keeps from being candidates, candidates for other
reasons than expiry, a second read within one pass, and a pass that is skipped
because a renewal is in progress. Of `refreshOutpoints`: its other callers, an owner
and the refresh after `VTXO_ALREADY_SPENT`; they only correct more rows. And the
listener of the worker (`notifyIncomingFunds`), which saves what an event carries:
the models here are of the manager and the watcher, with or without a worker.

## 8. RFQ swaps

`RfqSwap` follows one swap, a Lightning send, an on-chain send or a Lightning
receive, from its funding to the end of monitoring. A pass of the manager is cut
at its awaits; a callback that moves money is two steps, its effect on the chain
and its return, so that a crash falls between them. The lockup is a set of
outputs which may be funded one after the other.

| code | model |
|---|---|
| `pollSwap`, `ensureRegistered`, `runPass` | `Begin`, `PassStep` and the steps below |
| `readLockupFate` | `ReadFate`, `Fate`, `AfterFate` |
| `driveReceiveClaim`, `claimIfFunded`, `pushClaim` | `ReceiveOpen`, `ReceiveClosed`, `Enough`, `Claim`, `ClaimReturns` |
| `nextOnchainAction`, `classifyOnchainHtlc`, `driveOnchain` | `MayClaimHtlc`, `ReadHtlc`, `SendClaim`, `SendReturns` |
| `driveArkadeRefund`, `pushRefundWithoutReceiver` | `Probe`, `Gate`, `Push`, `PushReturns`, `GivesUp` |
| `setState`, `touch`, `setOnchainState`, `unblock` | `Become`, `Set`, `OnchainState`, `Unblocked` |
| `save`, `settleWaiters`, `finalize`, `retireContract` | `SaveRecord`, `SaveSink`, `AfterSave`, `Conclude`, `EndClean` |
| `restoreFromRepository`, `rebuildRfqSwap` | `Boot`; beside live passes `RestoreReads`, `RestoreTracks` |
| solver, chains, clock, the wallet's key (external) | `Fund` .. `SolverReturns`, `Restored`, `Tick`, `Crash` |

A unit of time is long against the polling interval: `Tick` waits until a pass
has ended in this one. A claim that was sent confirms within the margin of
`ONCHAIN_CLAIM_MARGIN_SECONDS`. Nothing is assumed of the solver.

Left out: `stop` and a later `start`, `removeSwap`, retention, a manager without
automatic actions, swept outputs, the negotiation.

## 9. Offchain sends

`OffchainSend` has `send`, `sendBitcoin` (generic calls, which select inputs
under the transaction lock) and `sendSelectedVtxosToSelf` (named calls, which
chose them before), the persisted flag `hasPendingTx`, and the recovery.

| code | model |
|---|---|
| `_withTxLock` | `Call`, `Holds`, `Leave`, `queue` |
| `_sendImpl`, the sync before its read, its choice of inputs | `Sync`, `Snapshot`, `Select`, `Short`, `Hold` |
| `_submitOffchainSpend`, `_addPendingSpends` | `hidden`, `Refuse`, `Throw` |
| `submitOffchainTx` with `beforeSubmit`, `afterFinalize` | `Mark`, `Submit`, `Finalize`, `Clear` |
| `updateDbAfterOffchainTx` | `Record` |
| rows corrected by the stream, by a full refresh or after a refusal | `Told` |
| `finalizePendingTxs`, called by the worker's `onWalletInitialized` | `View`, `RecView`, `Found`, `RecFlag`, `RecAsk`, `RecFinish`, `RecClear` |
| death and start of the process | `Crash`, `Boot` |

The server registers the spend of the inputs on submission and keeps it until
it is finalized. What a call can select from is not the server's view but the
repository's: `recorded` is the set of coins whose row says spent. The sync before a
read is a delta by creation, so it brings the spends of coins created in its window
(`Young`) only, and it may fail and leave the rows as they are. A spend whose answer,
finalization or `updateDbAfterOffchainTx` is lost leaves its inputs in the rows as
unspent; older ones are offered again and refused by the server. Recovery asks about
the outputs whose rows say spent or preconfirmed; when there is none it asks the
indexer. Recovery runs beside the calls and not under the lock; calls
made while it runs are the environment `eager`.

Left out: amounts, assets, change outputs, ArkadeCash, the snapshot for receive
rotation, and the coins locked by intent rows (section 3).

## 10. VTXO manager

`RenewalFlag` has the flag `renewalInProgress`, who may hold it and `FlagHeld`;
`VtxoManager` extends it and has the poll (settlement of boarding outputs together with
expiring VTXOs, sweep of expired boarding outputs), the renewals of events and
callers beside it, the cooldowns and disposal.

| code | model |
|---|---|
| `renewVtxos` | `Manual`, `Start`, `CallSelect`, `CallCheck`, `CallPrice`, `CallSettle`, `EndCall` |
| `initializeSubscription`, the event's renewal and its cooldown | `Event` |
| `selectExpiringVtxos`, `revalidateBeforeSettle` | `Candidates`, `CallCheck`, `PollCheck` |
| `priceSettlementInputs`, `byExpiryAscending`, `capSettlementBatch` | `Net`, `Batch`, `Total` |
| `pollBoardingUtxos`, `schedulePoll` | `PollStart`, `PollFetch`, `ToSweeping`, `PollSweep`, `EndPoll` |
| `runPeriodicSettle` | `PollDecide` .. `PollSettle` |
| `maybeRefreshAfterVtxoSpent` | `SettleFails` |
| `dispose` | `Dispose`, `Disposed` |

`wallet.settle` is one step: it commits, throws with nothing committed, or
throws after the commitment. The server refuses spent inputs and an output above
its maximum. The fee of the output is part of `Dust`; a renewed VTXO is a new
one and does not expire in the run.

Subdust candidates stay candidates, so a full batch of the soonest to expire may
total less than an output must be; the pass then gives up and the next one selects
the same VTXOs. `Starved` is that state, and `Renewed` is about runs that leave it.

Left out: migration and recovery of VTXOs, rotation before a settlement, the
cross-instance lock (one instance; another one is the environment `elsewhere`).

## 11. Worker and message bus

`WorkerBus` has the bus of one worker, its chain of initializations, its ticks
and handlers, and the page-side wallets of several tabs with their requests.

| code | model |
|---|---|
| `processMessage` and its refusals | `Receive`, `Accepts`, `Refusal`, `HandlerEnds`, `Answer` |
| `onWalletInitialized` that throws | `WalletFails` |
| `waitForInit`, `doInit` | `NextInit`, `InitStop`, `InitDone`, `InitFails` |
| `runTick` | `Tick`, `TickEnd` |
| `sendMessageWithRetry`, `MAX_INIT_WAITS` | `Call`, `Hear`, `Resend`, `Retries`, `GiveUp`, `Answered` |
| `sendMessageDirect`, `sendMessageStreaming` | `Send`, `TimeOut` |
| `reinitialize`, `initializeMessageBus` | `Reinitialize`, `Stage`, `Goes`, `Waiting`, `Release`, `PageHears`, `PageTimeOut` |
| the browser (external) | `Kill` |

`INIT_WALLET` may throw on its way (fault `init`): a failing explorer is enough. The
bus is then initialized and takes requests, while its wallet has no subscription, no
VTXO manager and has made no recovery.

A short request has a deadline, one that streams has none. The kill takes the
worker's state, its inbox and its handlers; answers on their way still arrive.
`hit` is a history: a fault, a stopped handler or a crossed initialization marks
the pages and requests that were under way then, and a page's mark passes on to
the requests that wait for it. `FailsForCause` is about these marks, so a request
that began after a kill has no excuse by it.

Left out: creation and setup of a wallet, the sharing of equal reads, broadcasts,
answers after a handler's own deadline, the payload of events, the handlers of
the single requests (those of the wallet are other modules).

## 12. Runs and bounds

| run | bounds | shows |
|---|---|---|
| `settle_safe` | two calls, two coins, two batches, one crash, five environments | hidden coins, no commit disowned, outcomes final and real, rows locked while the batch may consume |
| `settle_live` | one coin, two calls, two batches, one crash, failing checks and updates | commits are recorded, a reconciliation that has begun releases unsubmitted leftovers, `settle()` returns |
| `join_session` | two batches, three environments | forfeits, trees and nonces belong together, `join` ends, `BatchPromise` is refined |
| `exit_package` | three layouts, sweeps after two blocks, two faults, three environments | order of the steps, branches given up for cause, re-runs bring everything home |
| `swap_manager` | four kinds, two overlapping calls, two starts in a process, two faults, six environments | no signature before the claim, no refund dropped or forgotten, claims and refunds are done, the manager lets go of what is over |
| `contract_sync` | two scripts, one coin, two calls and the pass's slot, `Lag` and `MaxFlight` 1, no overlap, clock 4, one fault, two environments without a stream | a coin the repository lacks is in the next window |
| `contract_stream` | one script and coin, one call beside the pass, no lag, `Life` 1, clock 2, two faults, four environments | the listener comes back, the repository gets every coin and the spends of those near expiry |
| `rfq_swap` | two outputs of which both are needed, both timelocks at 4, margin 2, lag 1, clock 6, two faults, three environments | no preimage for less or for a lost fill, what is told is stored, one report, every swap ends |
| `offchain_send` | an old preconfirmed coin and a young settled one, two generic calls and a named one, two faults, four environments | the flag covers crashes, generic calls do not compete with what is under way or succeeded, recovery finalizes, calls end |
| `vtxo_manager` | three VTXOs, the first cannot pay its fee, the second is dust after it, a boarding output, one caller, `Cap` 1, `Ceiling` 4, `Dust` 2, one fault of any kind | the flag is held by somebody, everything that can be renewed or settled is |
| `worker_bus` | two tabs, a short request and one that streams, two faults, three environments | a request is executed once and fails for cause, ticks go on, the wallet is initialized, requests end |
| `div_pending_flag` | as `offchain_send`, two generic calls, failing calls | section 14 |

Settlement and batches: two calls are needed for a retry and for a leftover of
the first met by the second; two batches for an event of a foreign batch and for
a requeued member; two coins for a call whose inputs overlap a leftover's without
being equal; one crash for every point at which a call can be cut off. At the
bound on batches the server goes away and the stream with it, so a call never
waits for a batch that the bound forbids. In `join_session` a third batch adds no
new kind of mix: chunks of one earlier batch are already mixed with the current
one. It does not check deadlock, because a session ends and the bounded server
stops. Coins are symmetric; the liveness runs use no symmetry.

Boltz swaps: two calls are what the lock keeps apart; two faults let a crash
follow a deferral; `Threshold` is two where the code has ten, so one answer is not
enough and the count can be reset between.

Synchronisation is split in two, since `InWindow` is about answers and clocks and
does not need the stream, and the stream's liveness needs the clock only for a coin
to come near its expiry. Two calls under way are the least that can save in the
other order; beside the pass one is enough for that. A flight of one with a lag of
one and no overlap is the largest that the assumption admits; with a flight of two
TLC finds `InWindow` violated. RFQ: the clock
passes both timelocks, the margin and the lag; two outputs let a partial funding
be completed between the look and the claim. Sends: three calls put one before
and one after the call that a fault hits; the two coins are the two ways in which a
row is put right, by recovery's question and by a delta. VTXO manager: a cap of one
makes a single VTXO the whole prefix. The first is skipped, as it cannot pay; the
second fills the batch and is dust, until it goes into a batch with the boarding
output (the ceiling has room for exactly these two) or another instance spends it;
then the third, which `Renewed` is about, has its turn. Worker: two tabs cross their
initializations; a second fault meets the re-initialization that the first caused.

No deadlock check where the system may stop: a swap that is over, calls that have
ended, a clock at its bound, a manager that is disposed of, a stream that waits on
a worker that was killed.

Fairness:

- `Settlement`, `BatchJoin`: the event loop resumes an await that has an answer
  (`Wallet`, `Recovery`); an app that died is started again; the server completes
  or fails a batch it started. Nothing is assumed of the indexer subscription: it
  need not ever reconnect.
- `ExitExecutor`: polling goes on (`Execute`), the mempool is mined again and
  again (`MineAll`, which packages pay for), and the user runs the package again
  when a run is over with something left or waits for what nobody will send
  (`Rerun`), which is what the code asks of its user ("a later run resumes from
  the chain"). Without it one branch can hold up the others (section 14).
- `SwapManager`: the event loop resumes every task, timer and answer, polls repeat
  while the link is up, the socket opens or its failure leads to polling, the app
  is started again, and time passes. Boltz owes nothing.
- `ContractSync`: calls go on, the watcher's timers fire, a stream whose
  subscription is gone ends, and the VTXO manager's pass begins again: with
  `settlementConfig` on, `pollBoardingUtxos` schedules the next one in its `finally`
  block, whatever came of this one. Nobody has to ask for a refresh. `EndsCurrent` is
  about wallets with that setting (`settles`).
- `RfqSwap`: the timer, the awaits, the restart, time, and the chain for a claim
  that was sent.
- `OffchainSend`: the call that has the lock and recovery go on, the process is
  started again. Nobody has to make a call, and no row has to be corrected out of
  turn (`Told`).
- `VtxoManager`: calls under way go on, the poll's timer fires, cooldowns end.
- `WorkerBus`: messages arrive, handlers and initializations end, pages go on.
  That a build or an `INIT_WALLET` fails, or the worker is killed, is never required.

What the properties of the later modules exclude, and why:

- `EndsCurrent` asks for the spends of coins near their expiry only, and not for
  exit data (section 14).
- `FlagCovers` and `Recovered` are about crashes alone, with calls that fail the flag
  is lost, and about inputs that are preconfirmed or young, the ones recovery finds
  by their rows (section 14).
- `NoOwnConflict` excludes an indexer that lags, as what was spent is then offered
  again. The spend that wins the contest may be one that failed or died, because its
  rows are out of date; unless a sync failed, not over a young coin.
- `Renewed` and `BoardingEnds` end with disposal; `Renewed` excludes that dust fills
  the batches for ever (`Starved`, section 14).
- `WalletInitialized` excludes slow answers and an `INIT_WALLET` that throws. In the
  first case a page that gives up waiting for a build which then succeeds leaves a
  bus without `INIT_WALLET`, hence without subscriptions and without recovery, until
  a request re-initializes it; in the second it stays so (section 14).
- `FailsForCause` counts a kill, a slow answer, a failed build, an `INIT_WALLET` that
  throws and two tabs that initialize at once as causes.
- `Ends` accepts `needs_counterparty` while this wallet cannot sign the refund,
  or has no probe that could retract the refusal.

## 13. Proofs

`SettlementProofs` proves for any coins, bounds, kinds and fault sets, under the
assumptions `RecordsAssumption` and `SettlementAssumption` (bounds are naturals,
kinds and faults are among the named ones):

- `TypeCorrect`: `Spec => []TypeOK`, action by action.
- `CoinsHidden`: `Spec => []HiddenWhileHeld`. Not inductive by itself: that the
  server holds the call's intent says nothing of `pending` before the coins are
  hidden. `HideInv` adds that the server holds intents of calls made so far
  only, that nothing of this call is registered while it is still persisting
  `waiting_to_submit` or checking, and that from then on `pending` is exactly
  the call's inputs. It holds under every fault.
- `OutcomesAreFinal`: `Spec => TerminalSticky`. `OneWriter` says that without
  overlap a call and a recovery exclude each other, so the row either is about
  to write still has the state it read.
- `OutcomesAreReal`: `Spec => []OutcomesReal`. What a call records it heard, and
  what it hears depends on the order of the events in the stream. `Heard` says, for
  each place the call can wait at, what the next event of the stream can be: that
  of its own batch, or a failure (`Failing`, `FinalizationDue`, `StartsDue`), and
  that a finalization it is about to hear is of a batch that consumed its inputs
  (`By`). `Indexed` says that what the indexer once answered still holds, since
  recovery concludes from it. `Real` is about what is about to be recorded,
  `Recorded` about the rows; `RowsInv` ties a row's commitment to its state.
- `CommitsAreOwned`: `Spec => []NeverDisowned`. `Owned` follows the attempt that the
  server may still commit (`Committing`): its row is not failed or cancelled, and
  the call has its forfeits accepted or is recording the success (`Succeeding`).
  That the call's writes and those of recovery keep it needs `Writers`: each writer
  has the row it read (`OneWriter`), a draft is the outcome that was heard
  (`Drafted`), recovery cancels only what waits to be submitted (`Treating`), and the
  row follows the call (`Progress`). `Told` has the invariants about call, server
  and stream in one.
- `LocksGivenBack`: a row that locks coins belongs to the call in flight, for all
  kinds of settlement, when no process died, no check failed and every save
  succeeded (`InFlight`). That is `LockedMeansInFlight`, the second half of
  `LocksFollowBatch`, which holds for more kinds than the whole.
- `LocksFollow`: `Spec => []LocksFollowBatch` if all settlements are `offchain`.
  `OneStart` says that then a call is started by one batch only, which it follows
  phase by phase (`Engaged`, `Steady`, `NoStart`); `LockHeld` that an attempt in an
  unfinished batch has a row that locks its coins. With `onchain` settlements
  `LockedInBatch` is false, as two attempts share a row (section 14); so the run
  and the theorem are about the other kind.

`BatchJoinProofs` proves for any number of batches and any fault sets
(`JoinAssumption`):

- `TypeCorrect`: `Spec => []TypeOK`.
- `OneTree`: `Spec => []OneTreeSigned`. By itself it does not survive a second
  batch, whose chunks join those of the first. `TreeInv` adds that the chunks of
  the validated tree are still among the received ones; a tree with a single root
  that contains them is then of the same batch.
- `ForfeitsOurs`: `Spec => []ForfeitsAreOurs`. `AdmitInv` adds that tree events
  under way are about batches that admitted the wallet, `ForfeitInv` that a
  session about to submit forfeits has compared them with what it validated,
  `Numbered` that only a batch that was started is under way. It holds under
  every fault.
- `PromiseKept`: `Spec => KeepsPromise`, the refinement of `BatchPromise`: the
  initial states map to initial states, and every step to a step or a stutter,
  under the mapping at the end of `BatchJoin` (`phase`, `deal`, `faithful`).
  `Finals` says that a commitment is announced as final once per batch and is the
  last event of it so far, `Sending` that forfeits under way are the first ones,
  `Taken` that what the server took is for one commitment, which is not announced
  again, `Awaited` that with a faithful server the next event after the forfeits is
  the end of that batch, `Ends` that a return ends the session.

`SwapManagerProofs` proves for any calls, starts, thresholds and fault sets
(`SwapAssumption`):

- `TypeCorrect`: `Spec => []TypeOK`, and `OneAction`: `Spec => []SingleAction`. One
  needs the other: a call that ends gives the swap free, which is right only
  because no other call acts. `Locked` has both, with the places of the calls;
  `Typed` adds the type of the poll's answer.
- `ClaimBeforeCosign`: `Spec => []CosignAfterClaim`. `Honest` says that the record,
  every copy and every call that says we claimed tells the truth, and that no
  lockup is there while Boltz says `created`, so a claimed one stays claimed.
- `DropsEmpty`: `Spec => DropsNoCoins`, an action property. `Placed` says that a call
  is only at places its kind of swap has, and that one which swept leaves nothing in
  the lockup; `OneCopy` that a process which is not stopped loads the swap once, so
  the copy a call ends with is the one that is dropped. A call that turns back
  from a due refund does so because another one has the swap, by `Locked`.

`ContractSyncProofs` proves for any scripts, coins, calls, lag, overlap and faults
(`SyncAssumption`):

- `TypeCorrect`: `Spec => []TypeOK`. The type holds times: a call's answer is of
  versions that exist, its start is not in the future and not older than
  `MaxFlight`, the cursor is a time that was. `Times` and `Plain` carry this.
- `NothingFallsBehind`: `Spec => []InWindow`. `Behind` is the property for the
  contracts that were fetched: a coin the repository lacks was created inside the
  window of the next sync. What could break it is a cursor that moves, and a
  contract that counts as fetched. `Fine` is about the calls under way: one that will
  move the cursor brings, or the rows have, whatever lies before the window it will
  leave; the history of a contract brings whatever showed when it was asked for.
  Saves in any order keep this, since rows are written over and never taken away
  (`Keeps`). `Followed` says that a fetched contract is watched, `Bounded` that the
  cursor is not ahead of the cutoff.

The assumption on times is that `MaxFlight` is at most the overlap and one, and at
most the overlap and the lag: a contract that is added while a sync of the others is
under way was fetched no more than a flight before the cursor that this sync leaves,
and the window has to reach back to it. The code's overlap is 24 hours.

`RfqSwapProofs` proves for any outputs, amount, timelocks and faults, if the
HTLC's timelock is not after the lockup's (`RfqAssumption`), from one invariant
`IInv`:

- `TypeCorrect`, and `PaidFor` (`NoneForNothing`): the preimage of an on-chain
  send goes out for a fill that ends up ours.
- `PaidInFull` (`NotForLess`): a receive is claimed for what was agreed. The
  outputs a pass holds were enough when it looked, and outputs do not go away.
- `NewsIsStored` (`ToldIsStored`), `OneReport` (`ReportedOnce`): a pass works on
  the one monitored object, what is not dirty is stored, a swap that was reported
  is not tracked and its record is terminal, so no start tracks it again.
- `RetiredEmpty` (`RetiredIsDone`): a send's contract is retired over an empty
  lockup or a failure.
- `FillTaken` (`TakesFill`, an action property), with two invariants more.
  `Unclaimed` says that no object and no record has a claim before ours was sent, so
  a pass that sees a fill claims it. `Looked` counts the units of time since the fill
  was confirmed: the pass that began before is over within one, the next one has
  looked and sent by the end of the second.

`OffchainSendProofs` proves for any coins, calls and faults (`SendAssumption`).
`IInv` is `TypeOK` and

- `Locked`: the lock is held by the one call that is past it, and hides its inputs;
- `Known`: what the server has of a call, by where the call is;
- `Rows`: no row says spent of a coin that is not, and without lag those of a spend
  that succeeded do; a sync takes nothing back that the server has;
- `Clean` and `Past`: a generic selection under way, and one the server refused, lost
  a coin only to a spend that failed or died (`Lost`);
- `Quiet`: unless `eager`, no call is under way beside recovery;
- `Finds`: recovery sees every preconfirmed output and has what is pending over one
  in its list; with crashes alone, the spent young ones as well;
- `Flagged`: a pending transaction that recovery can check is marked, and when its
  call is over a start will look.

The theorems are `TypeCorrect`, `PendingIsFlagged` (`FlagCovers`), `SelectsUnderLock`
(`NoOwnConflict`), `HiddenInFlight` (`HidesInFlight`) and `RecoveryKeepsFlag`
(`ClearsNoPending`, also with lag and with a sync that fails; without calls beside
the recovery).

Its second half is about `VtxoManager`: it extends `RenewalFlag`, so that
`FlagIsHeld` is about the `FlagHeld` the runs check, and has the rest as the instance `VM`, with
constants and variables of its own. For any VTXOs, prices, limits, callers and
faults it proves `ManagerTypeCorrect` and `FlagIsHeld` (`FlagHeld`); what
`VtxoManager` assumes of its constants is a hypothesis there (`ManagerAssumption`,
which the runs of `VtxoManager` evaluate). `Held` adds that a poll which holds the
flag settles expiring VTXOs, as its `finally` block takes the flag down only then.

`WorkerBusProofs` proves for any tabs, requests and faults:

- `TypeCorrect`: `Spec => [](TypeOK /\ Runs)`, where `Runs` says that an
  initialization which runs is the first of the chain.
- `TicksAlwaysGoOn` (`TicksGoOn`): a bus that is being built is not initialized,
  so the tick that a build schedules is never left out.
- `HandedOnce` (`ExecutedOnce`): of a request there is at most one message,
  handler or answer, there is none while it may be sent again, and what was
  refused was not handed over.
- `NoFailureWithoutCause` (`FailsForCause`). `Cause` says where everything is that
  nothing came in between of: `Going`, that an initialization of a page is in the
  inbox, in the chain, with the handler or answered `ok`, and the last its page sent
  (`Numbered`); `Sound`, that a request is under way, or answered so that it goes
  on; `Up`, that after a retry the bus is initialized or will be.

`ExitProofs` proves for any layouts, delay, bounds and faults (`ExitAssumption`: a
layout is finite, the leaf of a VTXO is in its chain, and what a transaction spends
serves every VTXO that the transaction serves):

- What the planning computes. The provers have no induction over data, but they have
  the least member of a set of naturals (`Least`), and with it a property of every
  turn of a loop is proved of the first turn that would not have it (`Inducted`),
  and a function given by its first value and a step exists (`Iterated`). On these
  rest the lemmas about `Ascending`, `Keep`, `Kahn` and `TopoSort`. `Ordering` and
  `Sorting` are the invariants of the two loops: every transaction is at one place,
  and none is listed before what it waits for.
- `RefusedForCycle`: planning reports an error exactly when the indexer's chain, or
  the inputs of what is unconfirmed, have a cycle. `Freed` says that what is free is
  queued and no member of a cycle ever is. `Pace` counts the turns of the second sort
  against what it has listed: a pass that lists nothing has found everything that is
  left blocked, which is a cycle, so `Len * (Len + 1)` turns are enough.
- `PackageInOrder` (`PlanInOrder`), and `TypeCorrect` with it. `Shaped` adds that a
  step brings a transaction for VTXOs that it serves.
- `BranchFailsForCause` (`GivenUpForCause`), where `CalmInv` is `Founded` (what the
  package was prepared without stays confirmed), `Behind` (the steps behind the
  executor are confirmed, or wanted by dead branches only), `AboutToSend`
  (what is about to be sent is nowhere yet, and a live branch wants it),
  `AboutToSweep` (a sweep about to be sent is nowhere yet, over a confirmed leaf)
  and `Caused`. By `PlanInOrder` the inputs of a step come from steps before it that
  serve all it serves; a live branch wants those too, so they are confirmed, and a
  refusal means that somebody spent an input (`RefusedForCause`).

Every safety property the runs check, invariants and action properties, is a
theorem. The rest of the table is model-checked only:

- Everything under fairness (`CommitRecorded`, `LeftoverResolved`, `SettleReturns`,
  `JoinEnds`, `ClaimDone`, `RefundDone`, `SwapEnds`, `Listens`, `EndsCurrent`,
  `Recovered`, `Ends`, `OpsEnd`, `Renewed`, `BoardingEnds`, `WalletInitialized`,
  `RequestsEnd`): liveness and ENABLED are outside the provers' reach.

## 14. Divergences

`div_pending_flag` checks `FlagOutlives`, which the code says it keeps: a pending
transaction is flagged until a start has looked for it. A spend whose
finalization fails stays pending at the server, the flag stays up; the next spend
that succeeds clears the one flag in `afterFinalize`, and no start looks for the
first transaction again.

Stated in the modules as definitions, and not kept by the code; the environment
in which they fail is in parentheses:

- `Settlement!CommitNotCancelled` (overlap): the freshness guard
  reads, compares and then awaits `saveIntent`; and a live `settle()` is still
  `waiting_to_submit` while it registers. Recovery on reconnect cancels its row,
  the terminal state sticks, the coins are unlocked, and the batch commits. Also
  (stream error): an error after the forfeits were submitted is handled as
  pre-commit.
- `Settlement!OwnRowsReal` (lost events): `BatchFinalized` is compared with the
  step only. When the failure of our batch falls into a reconnect gap, the
  commitment of the next one is returned and recorded.
- `Settlement!LockedInBatch` (kind `onchain`, no fault): without offchain outputs
  the retry has the id of the failed attempt, whose terminal row never opens again.
- `ExitExecutor!BranchesIsolated` (one conflict, `SingleRun`): a transaction that
  reached the mempool and was then lost is waited for without end, before any
  sweep. The SDK's README promises that a failed branch never blocks the others.
- `SwapManager!RetryFindsSwap` (Boltz moving from one failure to the next):
  `handleSwapStatusUpdate` ignores that its action was skipped and finalizes the
  swap of a refund in flight; the retry that refund schedules finds nothing. The
  comment on `executeAutonomousAction` forbids exactly this, and the timer
  callback heeds it.
- `RfqSwap!ReportedOnce` under `RestoringSpec`: `restoreFromRepository` beside a
  live pass tracks a record it read before the pass concluded; the swap is driven
  and reported again.
- `ContractSync!AllCurrent` (no fault): a delta goes by the creation of coins, so
  neither the event of a spend nor any later sync brings the spend of an older coin;
  its row stays live until the coin is near its expiry and the pass fetches it (in a
  worker, until its own listener saves what the event carried, if it came). And
  exit data that an event dropped too early is captured again only while the coin is
  in the window.
- `OffchainSend!RecoveredAll` (crash): "if we crash between submit and finalize, the
  next init recovers via finalizePendingTxs". The rows of old settled inputs still
  say unspent after the crash, so recovery does not ask about them; if it asks about
  others it finds nothing pending and clears the flag.
- `VtxoManager!OverflowRenewed` (no fault): "the overflow is renewed on the next
  cycle". A capped prefix whose VTXOs pay their fees and total less than dust is
  selected by every pass, which then gives up; what expires behind it is not renewed.
- `WorkerBus!WalletInitializedAgain` (init): when `INIT_WALLET` throws, the request
  that waits for the re-initialization fails, the bus stays initialized and takes the
  next ones, and nothing sends `INIT_WALLET` again.
- `VtxoManager!PathsApart` (no fault): the poll looks at `renewalInProgress`
  before it awaits the selection and sets the flag only at the settlement, so an
  event's renewal and the poll submit the same VTXO. The comments there say that
  the paths cannot race; the server refuses the second.
- `WorkerBus!StreamsEnd` (kill): a request that streams has no deadline and does
  not ping, so it waits for ever on a worker that was killed. The comment counts
  on other, short requests to notice, but these do not end it.

Also read in the code, without a definition of its own:

- Settlement: a crash between `registerIntent` and the `waiting_for_batch`
  snapshot lets boot recovery cancel an intent the server holds; `settle()` has no
  timeout of its own, so after a lost event it holds the transaction lock until
  the stream ends; the comment of `intentReconciliation.ts` has reconciliation run
  "on delta sync", while only boot and `connection_reset` call it.
- Boltz: the preimage is given to Boltz before its signature is there, and there
  is no script path to claim by; the status `refundArk` copies can end a deferred
  retry; a save that fails leaves the status in memory and drops its action; a
  failing submarine refund clears its retry, also when the failure passes; a claim
  that fails at the last live status waits for a restart; a crash after a final
  status is saved and before its refund leaves a row that no start resumes;
  `transaction.failed` of a chain swap is not refunded by the manager, although a
  comment in `arkade-swaps.ts` says so; a poll's answer may write an older status
  over a newer one.
- RFQ: a send that ends `failed` retires its contract although the lockup still
  has coins; the funding outpoint and the claim's id are saved only at the end of
  the pass; after a crash between the claim of a receive and its return a later
  top-up of the lockup is not claimed.
- Worker: a tick clears `onNextTick` after an await, so what was queued meanwhile
  is lost; another tab's initialization stops the handlers under running requests
  and starts a second wallet; the worker's identity is compared only at creation
  and re-initialization.

## 15. Not modelled

- Contract handlers, scripts, intents, PSBT fields, identities, the Arkade
  programs and assets extension: byte-level encoding and cryptography, no state
  for a model to explore. Path selection by timelocks is a candidate for a bounded
  check.
- Receive rotation and HD descriptors, server info and signer rotation: stateful
  and next in the plan; their scripts are the contracts of `ContractSync`.
- Unroll: the older step-by-step exit; the executor that replaces it is modelled.
- Delegation, on-chain wallet, ramps, assets: one request or one transaction each.
- Repositories: storage back ends; the modules above take a save as one atomic
  step that may fail, which is what they promise.
- Rate gate: spacing and back-off of requests; it delays calls, which the modules
  allow at every await.
- History, balance and activity: pure derivations from rows.
- Boltz swaps in workers: the swap manager of section 6 behind the bus of
  section 11; the composition has no state of its own.
- RFQ negotiation: quotes and their expiries, before `RfqSwap` begins.

What is left out of a component that is modelled in part is in its section.

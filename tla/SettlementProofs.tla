-------------------------- MODULE SettlementProofs --------------------------
(* Theorems about Settlement, for every number of coins, calls and rounds. *)
EXTENDS Settlement, Integers, TLAPS

-----------------------------------------------------------------------------
(* Types of the helpers.                                                    *)

\* reduceIntentState returns a state.
LEMMA ReduceType ==
    \A s \in IntentStates \cup {"absent"}, e \in {"started", "finalized", "failed"} :
        ReduceIntentState(s, e) \in IntentStates \cup {"absent"}
BY DEF ReduceIntentState, IsTerminal, IntentStates, PendingStates, TerminalStates

\* classifyIntent returns a row.
LEMMA ClassifyType ==
    ASSUME NEW id \in IntentTxIds, NEW row \in Rows, NEW ix \in [Vtxos -> Spends]
    PROVE  ClassifyIntent(id, row, ix) \in Rows
<1>1. CASE SettlingRounds(id, ix) = {}
  BY <1>1 DEF ClassifyIntent, Rows, IntentStates, PendingStates, TerminalStates, IsTerminal
<1>2. CASE SettlingRounds(id, ix) # {}
  <2>1. (CHOOSE r \in SettlingRounds(id, ix) : TRUE) \in SettlingRounds(id, ix)
    BY <1>2
  <2>2. SettlingRounds(id, ix) \subseteq Spends
    BY RecordsAssumption DEF SettlingRounds, Spends, Rounds
  <2> QED
    BY <2>1, <2>2 DEF ClassifyIntent, Rows, IntentStates, PendingStates, TerminalStates, IsTerminal
<1> QED
  BY <1>1, <1>2

\* A pair of the helpers above: what a persist call may be about to save.
LEMMA DraftType ==
    ASSUME NEW row \in Rows, NEW w \in Writes
    PROVE  /\ w.what \in Snapshots => ApplySnapshot(row, w.what, w.round) \in Rows
           /\ w.what \notin Snapshots => ApplySettlementEvent(row, w.what, w.round) \in Rows
<1>1. row.state \in IntentStates \cup {"absent"} /\ row.commitment \in Spends
  BY DEF Rows
<1>2. w.round \in Spends /\ w.what \in Snapshots \cup {"started", "finalized", "failed"}
  BY DEF Writes
<1>3. w.what \in Snapshots => w.what \in IntentStates
  BY DEF Snapshots, IntentStates, PendingStates, TerminalStates
<1>4. w.what \notin Snapshots => w.what \in {"started", "finalized", "failed"}
  BY <1>2
<1>5. w.what \notin Snapshots
        => ReduceIntentState(row.state, w.what) \in IntentStates \cup {"absent"}
  BY <1>1, <1>4, ReduceType
<1> QED
  BY <1>1, <1>2, <1>3, <1>5 DEF ApplySnapshot, ApplySettlementEvent, Rows

\* The values a call and a recovery run start from are of their types.
LEMMA NoThings ==
    /\ NoIds \in [IntentTxIds -> Rows] /\ NoSpends \in [Vtxos -> Spends]
    /\ NoRow \in Rows /\ NoWrite \in Writes /\ Unspent \in Spends
    /\ NoJob \in [inputs : SUBSET Vtxos, kind : {"offchain", "onchain"}]
    /\ NoFix \in [id : IntentTxIds, row : Rows]
<1>1. Unspent \in Spends
  BY RecordsAssumption DEF Unspent, Spends
<1>2. NoRow \in Rows
  BY <1>1 DEF NoRow, Rows
<1>3. NoId \in IntentTxIds
  BY RecordsAssumption DEF NoId, IntentTxIds
<1> QED
  BY <1>1, <1>2, <1>3 DEF NoIds, NoSpends, NoWrite, NoJob, NoFix, Writes, Snapshots

\* The id settle() persists under is an id.
LEMMA CurrentIdType ==
    ASSUME TypeOK PROVE CurrentId \in IntentTxIds
BY RecordsAssumption DEF TypeOK, CurrentId, IntentTxId, IntentTxIds

-----------------------------------------------------------------------------
(* Type correctness.                                                        *)

\* The stream holds events: the first is one, and the rest are.
LEMMA ReceiveType ==
    ASSUME TypeOK, Receive
    PROVE  chan' \in Seq(Events) /\ Head(chan) \in Events
BY DEF TypeOK, Receive

\* A batch event sent to the stream keeps the stream a sequence of events.
LEMMA EmitType ==
    ASSUME TypeOK, NEW t \in EventTypes, Emit(t),
           round' \in Batches
    PROVE  chan' \in Seq(Events)
<1>1. [type |-> t, round |-> round'.no, member |-> round'.member] \in Events
  BY DEF Events, Batches
<1>2. chan \in Seq(Events)
  BY DEF TypeOK
<1> QED
  BY <1>1, <1>2 DEF Emit

\* A closed stream holds no events.
LEMMA EmptyType == <<>> \in Seq(Events)
OBVIOUS

\* The freshly created wallet is well typed.
LEMMA InitType == ASSUME Init PROVE TypeOK
<1> USE NoThings, EmptyType, RecordsAssumption, SettlementAssumption
<1>1. round \in Batches
  BY DEF Init, Phases, Batches
<1>2. attempts \in 0 .. MaxAttempts /\ crashes \in 0 .. MaxCrashes
  BY DEF Init
<1>3. claims \in [Attempts -> SUBSET Vtxos]
  BY DEF Init
<1>4. pc \in Pcs /\ step \in Steps /\ (pc # "idle" => attempts \in Attempts)
  BY DEF Init, Pcs, Steps
<1> QED
  BY <1>1, <1>2, <1>3, <1>4 DEF Init, TypeOK

\* After a persist call settle() continues at one of its program points.
LEMMA AfterPersistType == AfterPersist \in Pcs
BY DEF AfterPersist, Pcs

\* A phase change leaves a batch a batch.
LEMMA PhaseType ==
    ASSUME TypeOK, NEW ph \in Phases
    PROVE  /\ [round EXCEPT !.phase = ph] \in Batches
           /\ [round EXCEPT !.member = 0] \in Batches
BY RecordsAssumption DEF TypeOK, Batches

\* Every step of the wallet, the server and the environment keeps the types.
LEMMA TypeStep ==
    ASSUME TypeOK, [Next]_vars
    PROVE  TypeOK'
<1> USE NoThings, RecordsAssumption, SettlementAssumption
<1> USE DEF persisted, server, settle, process, reconciler
<1>1. CASE SettleStart
  BY <1>1 DEF SettleStart, TypeOK, Persist, Writes, Snapshots, Pcs, Attempts
<1>2. CASE OffchainSend
  BY <1>2 DEF OffchainSend, TypeOK, OffchainSpend, Spends
<1>3. CASE LoseEvent
  <2>1. chan' \in Seq(Events)
    BY <1>3 DEF LoseEvent, TypeOK
  <2> QED
    BY <1>3, <2>1 DEF LoseEvent, TypeOK
<1>4. CASE Crash
  <2>1. crashes' \in 0 .. MaxCrashes
    BY <1>4 DEF Crash, TypeOK
  <2>2. chan' \in Seq(Events)
    BY <1>4, EmptyType DEF Crash
  <2> QED
    BY <1>4, <2>1, <2>2 DEF Crash, Unwind, EndRecovery, TypeOK, Pcs, Steps
<1>5. CASE Restart
  BY <1>5 DEF Restart, TypeOK
<1>6. CASE Reconnect
  BY <1>6 DEF Reconnect, TypeOK
<1>7. CASE PersistRead
  <2>1. store[CurrentId] \in Rows /\ write \in Writes
    BY CurrentIdType DEF TypeOK
  <2>2. draft' \in Rows
    BY <1>7, <2>1, DraftType DEF PersistRead, TypeOK
  <2>3. pc' \in Pcs /\ (pc' # "idle" => attempts' \in Attempts)
    BY <1>7, AfterPersistType DEF PersistRead, TypeOK, Pcs
  <2> QED
    BY <1>7, <2>2, <2>3 DEF PersistRead, TypeOK
<1>8. CASE PersistSave
  BY <1>8, CurrentIdType, AfterPersistType DEF PersistSave, TypeOK
<1>9. CASE PersistFail
  BY <1>9, AfterPersistType DEF PersistFail, TypeOK
<1>10. CASE CheckPass
  BY <1>10 DEF CheckPass, TypeOK, Pcs
<1>11. CASE CheckFail
  BY <1>11 DEF CheckFail, TypeOK, Unwind, Pcs, Steps
<1>12. CASE RegisterOk
  BY <1>12 DEF RegisterOk, TypeOK, Persist, Writes, Snapshots, Pcs
<1>13. CASE RegisterRefused
  BY <1>13 DEF RegisterRefused, TypeOK, Pcs
<1>14. CASE ClearDuplicates
  <2>1. pc' \in Pcs /\ (pc' # "idle" => attempts' \in Attempts)
    BY <1>14 DEF ClearDuplicates, TypeOK, Pcs
  <2> QED
    BY <1>14, <2>1 DEF ClearDuplicates, TypeOK
<1>15. CASE JoinStarted
  <2>1. chan' \in Seq(Events) /\ Head(chan) \in Events /\ pc = "join"
    BY <1>15, ReceiveType DEF JoinStarted, Receive
  <2> QED
    BY <1>15, <2>1 DEF JoinStarted, TypeOK, Pcs
<1>16. CASE JoinFinalization
  <2>1. chan' \in Seq(Events) /\ Head(chan) \in Events /\ pc = "join"
    BY <1>16, ReceiveType DEF JoinFinalization, Receive
  <2> QED
    BY <1>16, <2>1 DEF JoinFinalization, TypeOK, Pcs
<1>17. CASE JoinFinalized
  <2>1. chan' \in Seq(Events) /\ Head(chan) \in Events /\ pc = "join"
    BY <1>17, ReceiveType DEF JoinFinalized, Receive
  <2>2. Head(chan).round \in Spends
    BY <2>1 DEF Events, Spends
  <2>3. pc' \in Pcs /\ attempts' \in Attempts /\ write' \in Writes /\ committed' \in Spends
    BY <1>17, <2>1, <2>2 DEF JoinFinalized, TypeOK, Persist, Pcs, Writes
  <2> QED
    BY <1>17, <2>1, <2>3 DEF JoinFinalized, TypeOK
<1>18. CASE JoinFailed
  <2>1. chan' \in Seq(Events) /\ pc = "join"
    BY <1>18, ReceiveType DEF JoinFailed, Receive
  <2> QED
    BY <1>18, <2>1 DEF JoinFailed, TypeOK, Persist, Pcs, Writes
<1>19. CASE JoinStreamEnds
  BY <1>19 DEF JoinStreamEnds, TypeOK, Pcs
<1>20. CASE Confirm
  <2>1. round' \in Batches
    BY <1>20, PhaseType DEF Confirm, Phases, TypeOK
  <2> QED
    BY <1>20, <2>1 DEF Confirm, TypeOK, Pcs, Steps, Persist, Writes
<1>21. CASE Forfeit
  <2>1. round' \in Batches
    BY <1>21, PhaseType DEF Forfeit, Phases, TypeOK
  <2> QED
    BY <1>21, <2>1 DEF Forfeit, TypeOK, Pcs, Steps
<1>22. CASE UpdateOk
  BY <1>22 DEF UpdateOk, TypeOK, Pcs
<1>23. CASE UpdateThrows
  BY <1>23 DEF UpdateThrows, TypeOK, Persist, Pcs, Writes, Snapshots
<1>24. CASE Release
  BY <1>24 DEF Release, TypeOK, Persist, Pcs, Writes, Snapshots
<1>25. CASE Finally
  BY <1>25, EmptyType DEF Finally, TypeOK, Unwind, Pcs, Steps
<1>26. CASE ServerStart
  <2>1. round' \in Batches
    BY <1>26 DEF ServerStart, TypeOK, Batches, Phases, Attempts
  <2>2. chan' \in Seq(Events)
    BY <1>26, <2>1, EmitType DEF ServerStart, EventTypes
  <2> QED
    BY <1>26, <2>1, <2>2 DEF ServerStart, TypeOK
<1>27. CASE ServerDrop
  <2>1. round' \in Batches
    BY <1>27, PhaseType DEF ServerDrop, Phases
  <2> QED
    BY <1>27, <2>1 DEF ServerDrop, TypeOK
<1>28. CASE ServerFinalize
  <2>1. round' \in Batches
    BY <1>28, PhaseType DEF ServerFinalize, Phases
  <2>2. chan' \in Seq(Events)
    BY <1>28, <2>1, EmitType DEF ServerFinalize, EventTypes
  <2> QED
    BY <1>28, <2>1, <2>2 DEF ServerFinalize, TypeOK
<1>29. CASE ServerCommit
  <2>1. round' \in Batches
    BY <1>29, PhaseType DEF ServerCommit, Phases
  <2>2. chan' \in Seq(Events)
    BY <1>29, <2>1, EmitType DEF ServerCommit, EventTypes
  <2>3. consumed' \in [Vtxos -> Spends]
    BY <1>29 DEF ServerCommit, TypeOK, Batches, Spends
  <2>4. done' \subseteq Attempts
    BY <1>29 DEF ServerCommit, TypeOK, Batches, Attempts
  <2> QED
    BY <1>29, <2>1, <2>2, <2>3, <2>4 DEF ServerCommit, TypeOK
<1>30. CASE ServerFail
  <2>1. round' \in Batches
    BY <1>30, PhaseType DEF ServerFail, Phases
  <2>2. chan' \in Seq(Events)
    BY <1>30, <2>1, EmitType DEF ServerFail, EventTypes
  <2>3. queue' \subseteq Attempts
    BY <1>30 DEF ServerFail, TypeOK, Batches, Attempts
  <2> QED
    BY <1>30, <2>1, <2>2, <2>3 DEF ServerFail, TypeOK
<1>31. CASE RecoverList
  BY <1>31 DEF RecoverList, TypeOK
<1>32. CASE RecoverFetch
  BY <1>32 DEF RecoverFetch, TypeOK, EndRecovery
<1>33. CASE RecoverSave
  <2>1. store' \in [IntentTxIds -> Rows]
    BY <1>33 DEF RecoverSave, TypeOK
  <2> QED
    BY <1>33, <2>1 DEF RecoverSave, TypeOK
<1>34. CASE RecoverDone
  BY <1>34 DEF RecoverDone, TypeOK, EndRecovery
<1>35. ASSUME NEW id \in IntentTxIds, RecoverClassify(id) PROVE TypeOK'
  <2>1. ClassifyIntent(id, seen[id], idx) \in Rows
    BY ClassifyType DEF TypeOK
  <2>2. fix' \in [id : IntentTxIds, row : Rows] /\ rcpc' \in {"classify", "save"}
    BY <1>35, <2>1 DEF RecoverClassify, TypeOK
  <2> QED
    BY <1>35, <2>2 DEF RecoverClassify, TypeOK
<1>36. CASE UNCHANGED vars
  BY <1>36 DEF TypeOK, vars
<1> QED
  BY <1>1, <1>2, <1>3, <1>4, <1>5, <1>6, <1>7, <1>8, <1>9, <1>10, <1>11, 
     <1>12, <1>13, <1>14, <1>15, <1>16, <1>17, <1>18, <1>19, <1>20, 
     <1>21, <1>22, <1>23, <1>24, <1>25, <1>26, <1>27, <1>28, <1>29, 
     <1>30, <1>31, <1>32, <1>33, <1>34, <1>35, <1>36
     DEF Next, Wallet, Server, Recovery

\* Every variable keeps its type, for any coins, calls, rounds and faults.
THEOREM TypeCorrect == Spec => []TypeOK
<1>1. Init => TypeOK
  BY InitType
<1>2. TypeOK /\ [Next]_vars => TypeOK'
  BY TypeStep
<1> QED
  BY <1>1, <1>2, PTL DEF Spec

-----------------------------------------------------------------------------
(* Coins stay hidden while the server may hold them.                        *)

\* Steps that touch neither the call nor what the server holds.
LEMMA HideFrame ==
    ASSUME HideInv, UNCHANGED <<claims, queue, attempts, pc, job, pending>>,
           write'.what = write.what,
           round'.phase = "idle" \/ round' = round
             \/ (round.phase # "idle" /\ round'.member \in {round.member, 0})
    PROVE  HideInv'
BY DEF HideInv, Held, NotRegistered

\* Every step keeps the coins of the call in flight hidden.
LEMMA HideStep ==
    ASSUME TypeOK, HideInv, [Next]_vars
    PROVE  HideInv'
<1> USE RecordsAssumption
<1> USE DEF persisted, server, settle, process, reconciler
<1>1. CASE SettleStart
  BY <1>1 DEF SettleStart, TypeOK, HideInv, Held, NotRegistered, Persist, Attempts
<1>2. CASE Crash
  BY <1>2 DEF Crash, TypeOK, HideInv, Held, NotRegistered, Unwind
<1>3. CASE OffchainSend
  BY <1>3, HideFrame DEF OffchainSend
<1>4. CASE LoseEvent
  BY <1>4, HideFrame DEF LoseEvent
<1>5. CASE Restart
  BY <1>5, HideFrame DEF Restart
<1>6. CASE Reconnect
  BY <1>6, HideFrame DEF Reconnect
<1>7. CASE PersistRead
  BY <1>7 DEF PersistRead, TypeOK, HideInv, Held, NotRegistered, AfterPersist
<1>8. CASE PersistSave
  BY <1>8 DEF PersistSave, TypeOK, HideInv, Held, NotRegistered, AfterPersist
<1>9. CASE PersistFail
  BY <1>9 DEF PersistFail, TypeOK, HideInv, Held, NotRegistered, AfterPersist
<1>10. CASE CheckPass
  BY <1>10 DEF CheckPass, TypeOK, HideInv, Held, NotRegistered
<1>11. CASE CheckFail
  BY <1>11 DEF CheckFail, TypeOK, HideInv, Held, NotRegistered, Unwind
<1>12. CASE RegisterOk
  BY <1>12 DEF RegisterOk, TypeOK, HideInv, Held, NotRegistered, Persist, Acceptable, HeldCoins
<1>13. CASE RegisterRefused
  BY <1>13 DEF RegisterRefused, TypeOK, HideInv, Held, NotRegistered
<1>14. CASE ClearDuplicates
  BY <1>14 DEF ClearDuplicates, TypeOK, HideInv, Held, NotRegistered
<1>15. CASE JoinStarted
  BY <1>15 DEF JoinStarted, TypeOK, HideInv, Held, NotRegistered, Receive
<1>16. CASE JoinFinalization
  BY <1>16 DEF JoinFinalization, TypeOK, HideInv, Held, NotRegistered, Receive
<1>17. CASE JoinFinalized
  BY <1>17 DEF JoinFinalized, TypeOK, HideInv, Held, NotRegistered, Receive, Persist
<1>18. CASE JoinFailed
  BY <1>18 DEF JoinFailed, TypeOK, HideInv, Held, NotRegistered, Receive, Persist
<1>19. CASE JoinStreamEnds
  BY <1>19 DEF JoinStreamEnds, TypeOK, HideInv, Held, NotRegistered
<1>20. CASE Confirm
  <2>1. Held' = Held
    BY <1>20 DEF Confirm, TypeOK, Batches, Held, IsMember
  <2> QED
    BY <1>20, <2>1 DEF Confirm, HideInv, NotRegistered, Persist
<1>21. CASE Forfeit
  <2>1. Held' = Held
    BY <1>21 DEF Forfeit, TypeOK, Batches, Held, IsMember
  <2> QED
    BY <1>21, <2>1 DEF Forfeit, HideInv, NotRegistered
<1>22. CASE UpdateOk
  BY <1>22 DEF UpdateOk, TypeOK, HideInv, Held, NotRegistered
<1>23. CASE UpdateThrows
  BY <1>23 DEF UpdateThrows, TypeOK, HideInv, Held, NotRegistered, Persist
<1>24. CASE Release
  BY <1>24 DEF Release, TypeOK, HideInv, Held, NotRegistered, Persist
<1>25. CASE Finally
  BY <1>25 DEF Finally, TypeOK, HideInv, Held, NotRegistered, Unwind
<1>26. CASE ServerStart
  BY <1>26 DEF ServerStart, TypeOK, HideInv, Held, NotRegistered
<1>27. CASE ServerDrop
  BY <1>27, HideFrame DEF ServerDrop, TypeOK, Batches
<1>28. CASE ServerFinalize
  BY <1>28, HideFrame DEF ServerFinalize, TypeOK, Batches
<1>29. CASE ServerCommit
  BY <1>29, HideFrame DEF ServerCommit, TypeOK, Batches
<1>30. CASE ServerFail
  BY <1>30 DEF ServerFail, TypeOK, HideInv, Held, NotRegistered, Batches
<1>31. CASE RecoverList
  BY <1>31, HideFrame DEF RecoverList
<1>32. CASE RecoverFetch
  BY <1>32, HideFrame DEF RecoverFetch
<1>33. CASE RecoverSave
  BY <1>33, HideFrame DEF RecoverSave
<1>34. CASE RecoverDone
  BY <1>34, HideFrame DEF RecoverDone
<1>35. ASSUME NEW id \in IntentTxIds, RecoverClassify(id) PROVE HideInv'
  BY <1>35, HideFrame DEF RecoverClassify
<1>36. CASE UNCHANGED vars
  BY <1>36, HideFrame DEF vars
<1> QED
  BY <1>1, <1>2, <1>3, <1>4, <1>5, <1>6, <1>7, <1>8, <1>9, <1>10, <1>11, 
     <1>12, <1>13, <1>14, <1>15, <1>16, <1>17, <1>18, <1>19, <1>20, 
     <1>21, <1>22, <1>23, <1>24, <1>25, <1>26, <1>27, <1>28, <1>29, 
     <1>30, <1>31, <1>32, <1>33, <1>34, <1>35, <1>36
     DEF Next, Wallet, Server, Recovery

\* No generic spend can select a coin of the settle() in flight as long as the
\* server may hold its intent, under every fault.
THEOREM CoinsHidden == Spec => []HiddenWhileHeld
<1>1. Init => HideInv
  BY DEF Init, HideInv, Held, NotRegistered
<1>2. TypeOK /\ HideInv /\ [Next]_vars => HideInv'
  BY HideStep
<1>3. HideInv => HiddenWhileHeld
  BY DEF HideInv, HiddenWhileHeld
<1> QED
  BY <1>1, <1>2, <1>3, TypeCorrect, PTL DEF Spec

-----------------------------------------------------------------------------
(* Recorded outcomes are final when recovery and settle() do not overlap.   *)

Final ==
    \A id \in IntentTxIds :
        "overlap" \notin faults /\ IsTerminal(store[id].state) => store'[id] = store[id]

\* Steps that neither write the store nor start or end a writer's work.
LEMMA OneWriterFrame ==
    ASSUME OneWriter, UNCHANGED <<store, faults, up, pc, rcpc, job, attempts, fix>>
    PROVE  OneWriter' /\ Final
BY DEF OneWriter, CurrentId, Final

\* Steps of the call other than those around its saves.
LEMMA OneWriterCall ==
    ASSUME OneWriter, up, pc # "idle", pc' # "save", UNCHANGED <<store, faults, up, rcpc, fix>>
    PROVE  OneWriter' /\ Final
BY DEF OneWriter, Final

\* No step lets two writers work on one row, unless they may overlap.
LEMMA OneWriterStep ==
    ASSUME TypeOK, OneWriter, [Next]_vars
    PROVE  OneWriter' /\ Final
<1> USE DEF persisted, server, settle, process, reconciler
<1>1. CASE SettleStart
  BY <1>1 DEF SettleStart, OneWriter, Final, Persist
<1>2. CASE Crash
  BY <1>2 DEF Crash, OneWriter, Final, Unwind, EndRecovery
<1>3. CASE Restart
  BY <1>3 DEF Restart, OneWriter, Final
<1>4. CASE Reconnect
  BY <1>4 DEF Reconnect, OneWriter, Final
<1>5. CASE OffchainSend
  BY <1>5, OneWriterFrame DEF OffchainSend
<1>6. CASE LoseEvent
  BY <1>6, OneWriterFrame DEF LoseEvent
<1>7. CASE ServerStart
  BY <1>7, OneWriterFrame DEF ServerStart
<1>8. CASE ServerDrop
  BY <1>8, OneWriterFrame DEF ServerDrop
<1>9. CASE ServerFinalize
  BY <1>9, OneWriterFrame DEF ServerFinalize
<1>10. CASE ServerCommit
  BY <1>10, OneWriterFrame DEF ServerCommit
<1>11. CASE ServerFail
  BY <1>11, OneWriterFrame DEF ServerFail
<1>12. CASE PersistRead
  <2>1. pc' = "save" => ~IsTerminal(store[CurrentId].state)
    BY <1>12 DEF PersistRead, SnapshotIsNoOp, EventIsNoOp, ReduceIntentState, AfterPersist
  <2>2. CurrentId' = CurrentId
    BY <1>12 DEF PersistRead, CurrentId
  <2> QED
    BY <1>12, <2>1, <2>2 DEF PersistRead, OneWriter, Final
<1>13. CASE PersistSave
  <2>1. CurrentId \in IntentTxIds
    BY CurrentIdType
  <2>2. pc' # "save" /\ ("overlap" \notin faults => rcpc = "idle")
    BY <1>13 DEF PersistSave, AfterPersist, OneWriter
  <2> QED
    BY <1>13, <2>1, <2>2 DEF PersistSave, OneWriter, Final, TypeOK
<1>14. CASE PersistFail
  <2>1. pc' # "save"
    BY <1>14 DEF PersistFail, AfterPersist
  <2> QED
    BY <1>14, <2>1, OneWriterCall DEF PersistFail
<1>15. CASE CheckPass
  BY <1>15, OneWriterCall DEF CheckPass
<1>16. CASE CheckFail
  BY <1>16, OneWriterCall DEF CheckFail, Unwind
<1>17. CASE RegisterOk
  BY <1>17, OneWriterCall DEF RegisterOk, Persist
<1>18. CASE RegisterRefused
  BY <1>18, OneWriterCall DEF RegisterRefused
<1>19. CASE ClearDuplicates
  BY <1>19, OneWriterCall DEF ClearDuplicates
<1>20. CASE JoinStarted
  BY <1>20, OneWriterCall DEF JoinStarted, Receive
<1>21. CASE JoinFinalization
  BY <1>21, OneWriterCall DEF JoinFinalization, Receive
<1>22. CASE JoinFinalized
  BY <1>22, OneWriterCall DEF JoinFinalized, Receive, Persist
<1>23. CASE JoinFailed
  BY <1>23, OneWriterCall DEF JoinFailed, Receive, Persist
<1>24. CASE JoinStreamEnds
  BY <1>24, OneWriterCall DEF JoinStreamEnds
<1>25. CASE Confirm
  BY <1>25, OneWriterCall DEF Confirm, Persist
<1>26. CASE Forfeit
  BY <1>26, OneWriterCall DEF Forfeit
<1>27. CASE UpdateOk
  BY <1>27, OneWriterCall DEF UpdateOk
<1>28. CASE UpdateThrows
  BY <1>28, OneWriterCall DEF UpdateThrows, Persist
<1>29. CASE Release
  BY <1>29, OneWriterCall DEF Release, Persist
<1>30. CASE Finally
  BY <1>30, OneWriterCall DEF Finally, Unwind
<1>31. CASE RecoverList
  BY <1>31 DEF RecoverList, OneWriter, Final
<1>32. CASE RecoverFetch
  BY <1>32 DEF RecoverFetch, EndRecovery, OneWriter, Final
<1>33. CASE RecoverSave
  <2>1. fix.id \in IntentTxIds
    BY DEF TypeOK
  <2>2. "overlap" \notin faults => pc = "idle"
    BY <1>33 DEF RecoverSave, OneWriter
  <2> QED
    BY <1>33, <2>1, <2>2 DEF RecoverSave, OneWriter, Final, TypeOK
<1>34. CASE RecoverDone
  BY <1>34 DEF RecoverDone, EndRecovery, OneWriter, Final
<1>35. ASSUME NEW id \in IntentTxIds, RecoverClassify(id) PROVE OneWriter' /\ Final
  <2>1. rcpc' = "save" => ~IsTerminal(store[id].state) /\ fix'.id = id
    BY <1>35 DEF RecoverClassify, ClassifyIntent
  <2>2. up /\ ("overlap" \notin faults => pc = "idle")
    BY <1>35 DEF RecoverClassify, OneWriter
  <2> QED
    BY <1>35, <2>1, <2>2 DEF RecoverClassify, OneWriter, Final
<1>36. CASE UNCHANGED vars
  BY <1>36, OneWriterFrame DEF vars
<1> QED
  BY <1>1, <1>2, <1>3, <1>4, <1>5, <1>6, <1>7, <1>8, <1>9, <1>10, <1>11, 
     <1>12, <1>13, <1>14, <1>15, <1>16, <1>17, <1>18, <1>19, <1>20, 
     <1>21, <1>22, <1>23, <1>24, <1>25, <1>26, <1>27, <1>28, <1>29, 
     <1>30, <1>31, <1>32, <1>33, <1>34, <1>35, <1>36
     DEF Next, Wallet, Server, Recovery

\* A terminal row is never written again, by settle() or by recovery, unless
\* the two overlap.
THEOREM OutcomesAreFinal == Spec => TerminalSticky
<1>1. Init => OneWriter
  BY DEF Init, OneWriter
<1>2. TypeOK /\ OneWriter /\ [Next]_vars => OneWriter'
  BY OneWriterStep
<1>3. TypeOK /\ OneWriter /\ [Next]_vars => [Final]_vars
  BY OneWriterStep
<1>4. Spec => [][Final]_vars
  BY <1>1, <1>2, <1>3, TypeCorrect, PTL DEF Spec
<1> QED
  BY <1>4 DEF TerminalSticky, Final

-----------------------------------------------------------------------------
(* What is recorded as settled is.                                          *)

\* The server holds each coin at most once, and only while it is unspent.
HeldFree ==
    /\ round.phase # "idle" => round.no \in Rounds /\ round.member \notin queue
    /\ \A a \in Held \cup done : a <= attempts
    /\ round.member <= attempts
    /\ \A a \in Held : a \notin done /\ \A v \in claims[a] : consumed[v] = Unspent
    /\ \A a, b \in Held : a # b => claims[a] \cap claims[b] = {}

\* Where settle() stands towards its batch.
Saving(what) == pc \in {"read", "save"} /\ write.what = what
Registering == pc \in {"register", "clear", "register_again"}
Waiting == (pc = "join" /\ step = "start") \/ Saving("waiting_for_batch")
Joined == step = "batch_started" /\ (pc = "join" \/ Saving("started"))
Forfeited == pc = "join" /\ step = "batch_finalization"

\* Before it is registered a call is unknown to the server; its stream is open
\* from the checks to the end.
CallInv ==
    /\ pc # "idle" => job.inputs # {}
    /\ pc = "idle" \/ NotRegistered => ~open /\ chan = <<>>
    /\ pc # "idle" /\ ~NotRegistered => open
    /\ pc = "idle" \/ NotRegistered \/ Registering \/ Saving("waiting_for_batch") => step = "start"
    /\ Saving("started") \/ pc = "forfeit" => step = "batch_started"
    /\ pc # "idle" /\ (NotRegistered \/ Registering) =>
           /\ attempts \notin queue \cup done /\ round.member # attempts
           /\ \A i \in DOMAIN chan : chan[i].member # attempts

\* What an event does to the stream.
LEMMA Emits ==
    ASSUME TypeOK, NEW t \in EventTypes, Emit(t), round' \in Batches,
           NEW ev, ev = [type |-> t, round |-> round'.no, member |-> round'.member]
    PROVE  /\ ~open => chan' = chan
           /\ open => chan' = Append(chan, ev)
           /\ \A i \in DOMAIN chan' : \/ i \in DOMAIN chan /\ chan'[i] = chan[i]
                                      \/ open /\ i = Len(chan') /\ chan'[i] = ev
<1>1. ev \in Events
  BY DEF Events, Batches
<1>2. chan \in Seq(Events) /\ Len(chan) \in Nat
  BY DEF TypeOK
<1>3. CASE ~open
  BY <1>3 DEF Emit
<1>4. CASE open
  <2>1. chan' = Append(chan, ev)
    BY <1>4 DEF Emit
  <2>2. Len(chan') = Len(chan) + 1 /\ DOMAIN chan' = 1 .. Len(chan) + 1
    BY <1>1, <1>2, <2>1
  <2>3. \A i \in 1 .. Len(chan) : i \in DOMAIN chan /\ chan'[i] = chan[i]
    BY <1>1, <1>2, <2>1
  <2>4. chan'[Len(chan) + 1] = ev
    BY <1>1, <1>2, <2>1
  <2> QED
    BY <1>2, <1>4, <2>1, <2>2, <2>3, <2>4
<1> QED
  BY <1>3, <1>4

\* The server's batch stays one, and what it sends names its member.
LEMMA ServerEmits ==
    ASSUME TypeOK, ServerStart \/ ServerFinalize \/ ServerCommit \/ ServerFail
    PROVE  /\ round' \in Batches
           /\ \E t \in EventTypes : /\ Emit(t)
                                    /\ \/ ServerStart /\ t = "started"
                                       \/ ServerFinalize /\ t = "finalization"
                                       \/ ServerCommit /\ t = "finalized"
                                       \/ ServerFail /\ t = "failed"
           /\ UNCHANGED <<settle, faults, claims>>
<1> USE DEF server, process
<1>0. {"started", "finalization", "finalized", "failed"} \subseteq EventTypes
  BY DEF EventTypes
<1>1. CASE ServerStart
  <2>1. round' \in Batches
    BY <1>1, RecordsAssumption DEF ServerStart, TypeOK, Batches, Phases, Attempts
  <2>2. Emit("started") /\ UNCHANGED <<settle, faults, claims>>
    BY <1>1 DEF ServerStart
  <2> QED
    BY <1>0, <1>1, <2>1, <2>2
<1>2. CASE ServerFinalize
  <2>1. Emit("finalization") /\ UNCHANGED <<settle, faults, claims>>
    BY <1>2 DEF ServerFinalize
  <2> QED
    BY <1>0, <1>2, <2>1, PhaseType DEF ServerFinalize, Phases
<1>3. CASE ServerCommit
  <2>1. Emit("finalized") /\ UNCHANGED <<settle, faults, claims>>
    BY <1>3 DEF ServerCommit
  <2> QED
    BY <1>0, <1>3, <2>1, PhaseType DEF ServerCommit, Phases
<1>4. CASE ServerFail
  <2>1. Emit("failed") /\ UNCHANGED <<settle, faults, claims>>
    BY <1>4 DEF ServerFail
  <2> QED
    BY <1>0, <1>4, <2>1, PhaseType DEF ServerFail, Phases
<1> QED
  BY <1>1, <1>2, <1>3, <1>4

\* Steps that leave the server alone, but for intents deleted from its queue.
LEMMA HeldFrame ==
    ASSUME TypeOK, HeldFree, UNCHANGED <<consumed, claims, round, done>>,
           queue' \subseteq queue, attempts' \in {attempts, attempts + 1}
    PROVE  HeldFree'
<1>1. Held' \subseteq Held
  BY DEF Held
<1>2. /\ \A a \in Held \cup done : a <= attempts' 
      /\ round.member <= attempts'
  <2>1. \A a \in Held \cup done : a \in Int
    BY RecordsAssumption DEF TypeOK, Held, Attempts, Batches
  <2>2. attempts \in Int /\ round.member \in Int
    BY RecordsAssumption DEF TypeOK, Batches
  <2> QED
    BY <2>1, <2>2 DEF HeldFree
<1> QED
  BY <1>1, <1>2 DEF HeldFree

\* The steps of the call that only change the call.
Inner ==
    \/ PersistRead \/ PersistSave \/ PersistFail \/ CheckPass \/ CheckFail
    \/ RegisterRefused \/ JoinStarted \/ JoinFinalization \/ JoinFinalized \/ JoinFailed
    \/ JoinStreamEnds \/ UpdateOk \/ UpdateThrows \/ Finally

\* They leave the server, the process and the reconciler alone.
LEMMA InnerFrame ==
    ASSUME Inner
    PROVE  UNCHANGED <<consumed, claims, queue, round, done, attempts, faults, up, crashes,
                       rcpc, seen, left, idx, fix>>
BY DEF Inner, PersistRead, PersistSave, PersistFail, CheckPass, CheckFail, RegisterRefused,
       JoinStarted, JoinFinalization, JoinFinalized, JoinFailed, JoinStreamEnds, UpdateOk,
       UpdateThrows, Finally, server, process, reconciler

\* Every step keeps what the server holds apart and unspent.
LEMMA HeldStep ==
    ASSUME TypeOK, HideInv, HeldFree, CallInv, [Next]_vars
    PROVE  HeldFree'
<1> USE RecordsAssumption
<1> USE DEF persisted, server, settle, process, reconciler
<1>0. /\ attempts \in Int /\ round.member \in Int /\ round.no \in 0 .. MaxRounds
      /\ \A a \in Held \cup done \cup queue : a \in Int
  BY DEF TypeOK, Batches, Held, Attempts
<1>1. CASE Inner
  BY <1>1, InnerFrame, HeldFrame
<1>2. CASE SettleStart
  BY <1>2, HeldFrame DEF SettleStart
<1>3. CASE ClearDuplicates \/ Release
  BY <1>3, HeldFrame DEF ClearDuplicates, Release
<1>4. CASE RegisterOk
  <2>1. /\ UNCHANGED <<consumed, round, done, attempts>> /\ queue' = queue \cup {attempts}
        /\ claims' = [claims EXCEPT ![attempts] = job.inputs] /\ Acceptable
        /\ pc # "idle" /\ Registering /\ attempts \in Attempts
    BY <1>4 DEF RegisterOk, Registering, TypeOK
  <2>2. attempts \notin Held \cup done /\ round.member # attempts
    BY <2>1 DEF CallInv, Held
  <2>3. Held' = Held \cup {attempts}
    BY <2>1 DEF Held
  <2>4. /\ \A a \in Held : claims'[a] = claims[a] /\ claims[a] \cap job.inputs = {}
        /\ claims'[attempts] = job.inputs
    BY <1>0, <2>1, <2>2 DEF TypeOK, Acceptable, HeldCoins
  <2>5. \A v \in job.inputs : consumed[v] = Unspent
    BY <2>1 DEF Acceptable
  <2> QED
    BY <1>0, <2>1, <2>2, <2>3, <2>4, <2>5 DEF HeldFree
<1>5. CASE Confirm \/ Forfeit
  <2>1. /\ UNCHANGED <<consumed, claims, queue, done, attempts>>
        /\ \/ round' = round
           \/ /\ round.phase # "idle" /\ round'.phase # "idle"
              /\ round'.no = round.no /\ round'.member = round.member
    BY <1>5 DEF Confirm, Forfeit, IsMember, TypeOK, Batches
  <2>2. Held' = Held
    BY <2>1 DEF Held
  <2> QED
    BY <2>1, <2>2 DEF HeldFree
<1>6. CASE ServerStart
  <2>1. PICK m \in queue \cup {0} :
           /\ round' = [no |-> round.no + 1, phase |-> "started", member |-> m]
           /\ queue' = queue \ {m}
    BY <1>6 DEF ServerStart
  <2>2. UNCHANGED <<consumed, claims, done, attempts>> /\ round.phase = "idle"
        /\ round.no < MaxRounds
    BY <1>6 DEF ServerStart
  <2>3. Held' = Held /\ Held = queue
    BY <2>1, <2>2 DEF Held, TypeOK, Attempts
  <2>4. m <= attempts
    BY <1>0, <2>1, <2>3 DEF HeldFree, TypeOK
  <2>5. round'.no \in Rounds /\ round'.member = m /\ m \notin queue'
    BY <1>0, <2>1, <2>2 DEF Rounds
  <2> QED
    BY <2>2, <2>3, <2>4, <2>5 DEF HeldFree
<1>7. CASE ServerDrop
  <2>1. /\ UNCHANGED <<consumed, claims, queue, done, attempts>> /\ round.phase = "started"
        /\ round'.no = round.no /\ round'.member = 0 /\ round'.phase = "started"
    BY <1>7 DEF ServerDrop, TypeOK, Batches
  <2>2. Held' \subseteq Held
    BY <2>1 DEF Held
  <2>3. 0 \notin queue /\ 0 <= attempts
    BY DEF TypeOK, Attempts
  <2> QED
    BY <2>1, <2>2, <2>3 DEF HeldFree
<1>8. CASE ServerFinalize
  <2>1. /\ UNCHANGED <<consumed, claims, queue, done, attempts>> /\ round.phase # "idle"
        /\ round'.no = round.no /\ round'.member = round.member /\ round'.phase = "finalizing"
    BY <1>8 DEF ServerFinalize, TypeOK, Batches
  <2>2. Held' = Held
    BY <2>1 DEF Held
  <2> QED
    BY <2>1, <2>2 DEF HeldFree
<1>9. CASE ServerCommit
  <2>1. /\ UNCHANGED <<claims, queue, attempts>> /\ round.phase # "idle"
        /\ round'.no = round.no /\ round'.member = round.member /\ round'.phase = "idle"
        /\ done' = done \cup ({round.member} \ {0})
        /\ \A v \in Vtxos : consumed'[v] # consumed[v]
                               => round.member # 0 /\ v \in claims[round.member]
    BY <1>9 DEF ServerCommit, TypeOK, Batches
  <2>2. Held' = queue /\ queue \subseteq Held /\ round.member \notin queue
    BY <2>1 DEF Held, HeldFree
  <2>3. round.member # 0 => round.member \in Held
    BY <2>1 DEF Held
  <2>4. \A a \in queue : a \notin done' /\ \A v \in claims[a] : consumed'[v] = Unspent
    <3> SUFFICES ASSUME NEW a \in queue
                 PROVE  a \notin done' /\ \A v \in claims[a] : consumed'[v] = Unspent
      OBVIOUS
    <3>1. a \in Held /\ a # round.member /\ claims[a] \subseteq Vtxos
      BY <2>2 DEF TypeOK
    <3>2. round.member # 0 => claims[a] \cap claims[round.member] = {}
      BY <2>3, <3>1 DEF HeldFree
    <3>3. \A v \in claims[a] : consumed'[v] = consumed[v]
      BY <2>1, <3>1, <3>2
    <3> QED
      BY <2>1, <3>1, <3>3 DEF HeldFree
  <2>5. \A a \in queue \cup done' : a <= attempts
    BY <1>0, <2>1, <2>2 DEF HeldFree
  <2> QED
    BY <2>1, <2>2, <2>4, <2>5 DEF HeldFree
<1>10. CASE ServerFail
  <2>1. /\ UNCHANGED <<consumed, claims, done, attempts>> /\ round.phase # "idle"
        /\ round'.no = round.no /\ round'.member = round.member /\ round'.phase = "idle"
        /\ queue' \in {queue, queue \cup ({round.member} \ {0})}
    BY <1>10 DEF ServerFail, TypeOK, Batches
  <2>2. Held' \subseteq Held
    BY <2>1 DEF Held
  <2> QED
    BY <2>1, <2>2 DEF HeldFree
<1>11. CASE OffchainSend
  <2>1. PICK v \in Vtxos \ HeldCoins : consumed' = [consumed EXCEPT ![v] = OffchainSpend]
    BY <1>11 DEF OffchainSend
  <2>2. UNCHANGED <<claims, queue, round, done, attempts>>
    BY <1>11 DEF OffchainSend
  <2>3. Held' = Held
    BY <2>2 DEF Held
  <2>4. \A a \in Held : \A w \in claims[a] : consumed'[w] = consumed[w]
    BY <2>1 DEF HeldCoins, TypeOK
  <2> QED
    BY <2>2, <2>3, <2>4 DEF HeldFree
<1>12. CASE LoseEvent \/ Crash \/ Restart \/ Reconnect \/ Recovery \/ UNCHANGED vars
  <2>1. UNCHANGED <<consumed, claims, queue, round, done, attempts>>
    BY <1>12 DEF LoseEvent, Crash, Restart, Reconnect, Recovery, RecoverList, RecoverFetch,
       RecoverClassify, RecoverSave, RecoverDone, vars
  <2> QED
    BY <2>1, HeldFrame
<1> QED
  BY <1>1, <1>2, <1>3, <1>4, <1>5, <1>6, <1>7, <1>8, <1>9, <1>10, <1>11, <1>12
     DEF Next, Wallet, Server, Inner

\* What is left of the stream when its next event is gone.
LEMMA Tails ==
    ASSUME TypeOK, chan # <<>>
    PROVE  /\ Len(Tail(chan)) = Len(chan) - 1 /\ Len(chan) \in Nat \ {0}
           /\ DOMAIN chan = 1 .. Len(chan) /\ Head(chan) = chan[1]
           /\ \A i \in DOMAIN Tail(chan) : /\ i \in Nat /\ i + 1 \in DOMAIN chan
                                           /\ Tail(chan)[i] = chan[i + 1]
BY DEF TypeOK

\* The call as the steps of the server and of the environment find it.
LEMMA CallInvFrame ==
    ASSUME CallInv, UNCHANGED <<pc, job, step, write, open, attempts>>,
           chan # <<>> \/ open \/ chan' = chan,
           attempts \notin queue \cup done => attempts \notin queue' \cup done',
           round.member # attempts => round'.member # attempts,
           ~open /\ chan = <<>> => chan' = <<>>,
           \A i \in DOMAIN chan' : \/ \E j \in DOMAIN chan : chan'[i] = chan[j]
                                   \/ round.member # attempts => chan'[i].member # attempts
    PROVE  CallInv'
BY DEF CallInv, NotRegistered, Registering, Saving

\* Every step keeps a call unknown to the server until it is registered.
LEMMA CallInvStep ==
    ASSUME TypeOK, HideInv, HeldFree, CallInv, [Next]_vars
    PROVE  CallInv'
<1> USE RecordsAssumption
<1> USE DEF persisted, server, settle, process, reconciler
<1>1. CASE SettleStart
  <2>1. /\ attempts \in Int /\ round.member \in Int
        /\ \A a \in queue \cup done : a \in Int /\ a <= attempts
    BY DEF TypeOK, Batches, Attempts, HeldFree, Held
  <2>2. /\ attempts' = attempts + 1 /\ UNCHANGED <<queue, done, round, chan, open, step>>
        /\ pc' = "read" /\ write' = [what |-> "waiting_to_submit", round |-> Unspent]
    BY <1>1 DEF SettleStart, Persist
  <2>6. job'.inputs # {}
    <3>1. PICK inputs \in (SUBSET {v \in Vtxos : settledBy[v] = Unspent}) \ {{}}, kind \in Kinds :
             job' = [inputs |-> inputs, kind |-> kind]
      BY <1>1 DEF SettleStart
    <3>2. inputs # {}
      OBVIOUS
    <3> QED
      BY <3>1, <3>2
  <2>5. chan = <<>> /\ ~open /\ step = "start" /\ round.member <= attempts
    BY <1>1 DEF SettleStart, CallInv, HeldFree
  <2>3. attempts' \notin queue' \cup done' /\ round'.member # attempts'
    BY <2>1, <2>2, <2>5
  <2>4. \A i \in DOMAIN chan' : chan'[i].member # attempts'
    BY <2>2, <2>5
  <2> QED
    BY <2>2, <2>3, <2>4, <2>5, <2>6 DEF CallInv, NotRegistered, Registering, Saving
<1>2. CASE PersistRead \/ PersistSave \/ PersistFail
  <2>1. /\ pc \in {"read", "save"}
        /\ UNCHANGED <<queue, done, round, chan, open, step, attempts, job, write>>
        /\ pc' = "save" \/ pc' = AfterPersist
    BY <1>2 DEF PersistRead, PersistSave, PersistFail
  <2>2. CASE pc' = "save"
    BY <2>1, <2>2 DEF CallInv, NotRegistered, Registering, Saving
  <2>3. CASE pc' = AfterPersist
    BY <2>1, <2>3 DEF CallInv, NotRegistered, Registering, Saving, AfterPersist
  <2> QED
    BY <2>1, <2>2, <2>3
<1>3. CASE CheckPass
  BY <1>3 DEF CheckPass, CallInv, NotRegistered, Registering, Saving
<1>4. CASE CheckFail
  BY <1>4 DEF CheckFail, Unwind, CallInv, NotRegistered, Registering, Saving
<1>5. CASE RegisterOk
  BY <1>5 DEF RegisterOk, Persist, CallInv, NotRegistered, Registering, Saving
<1>6. CASE RegisterRefused
  BY <1>6 DEF RegisterRefused, CallInv, NotRegistered, Registering, Saving
<1>7. CASE ClearDuplicates
  BY <1>7 DEF ClearDuplicates, CallInv, NotRegistered, Registering, Saving
<1>8. CASE JoinStarted \/ JoinFinalization \/ JoinFinalized \/ JoinFailed \/ JoinStreamEnds
  <2>1. /\ pc = "join" /\ UNCHANGED <<job, open, step>>
        /\ \/ pc' = "confirm" \/ pc' = "join" \/ pc' = "release"
           \/ pc' = "forfeit" /\ step = "batch_started"
           \/ pc' = "read" /\ write'.what \in {"finalized", "failed"}
    BY <1>8 DEF JoinStarted, JoinFinalization, JoinFinalized, JoinFailed, JoinStreamEnds,
       Receive, Persist
  <2> QED
    BY <2>1 DEF CallInv, NotRegistered, Registering, Saving
<1>9. CASE Confirm
  BY <1>9 DEF Confirm, Persist, CallInv, NotRegistered, Registering, Saving
<1>10. CASE Forfeit
  BY <1>10 DEF Forfeit, CallInv, NotRegistered, Registering, Saving
<1>11. CASE UpdateOk \/ UpdateThrows
  BY <1>11 DEF UpdateOk, UpdateThrows, Persist, CallInv, NotRegistered, Registering, Saving
<1>12. CASE Release
  BY <1>12 DEF Release, Persist, CallInv, NotRegistered, Registering, Saving
<1>13. CASE Finally
  BY <1>13 DEF Finally, Unwind, CallInv, NotRegistered, Registering, Saving
<1>14. CASE ServerStart \/ ServerFinalize \/ ServerCommit \/ ServerFail
  <2>1. PICK t \in EventTypes : Emit(t)
    BY <1>14, ServerEmits
  <2>2. round' \in Batches /\ UNCHANGED <<settle, faults, claims>>
    BY <1>14, ServerEmits
  <2> DEFINE ev == [type |-> t, round |-> round'.no, member |-> round'.member]
  <2>3. /\ ~open => chan' = chan
        /\ \A i \in DOMAIN chan' : \/ i \in DOMAIN chan /\ chan'[i] = chan[i]
                                   \/ open /\ i = Len(chan') /\ chan'[i] = ev
    BY <2>1, <2>2, Emits
  <2>4. CASE pc = "idle"
    BY <2>2, <2>3, <2>4 DEF CallInv, NotRegistered, Registering, Saving
  <2>5. CASE pc # "idle"
    <3>1. attempts # 0 /\ attempts \in Int
      BY <2>5 DEF TypeOK, Attempts
    <3>2. attempts \notin queue \cup done /\ round.member # attempts
             => attempts \notin queue' \cup done' /\ round'.member # attempts
      BY <1>14, <3>1 DEF ServerStart, ServerFinalize, ServerCommit, ServerFail, TypeOK, Batches
    <3> QED
      BY <2>2, <2>3, <2>5, <3>2 DEF CallInv, NotRegistered, Registering, Saving
  <2> QED
    BY <2>4, <2>5
<1>15. CASE ServerDrop
  <2>1. UNCHANGED <<queue, done, chan, settle>> /\ round'.member = 0
    BY <1>15 DEF ServerDrop, TypeOK, Batches
  <2>2. pc # "idle" => attempts # 0
    BY DEF TypeOK, Attempts
  <2> QED
    BY <2>1, <2>2 DEF CallInv, NotRegistered, Registering, Saving
<1>16. CASE LoseEvent
  <2>1. chan # <<>> /\ chan' = Tail(chan) /\ UNCHANGED <<server, settle>>
    BY <1>16 DEF LoseEvent
  <2>2. \A i \in DOMAIN chan' : \E j \in DOMAIN chan : chan'[i] = chan[j]
    BY <2>1, Tails
  <2> QED
    BY <2>1, <2>2, CallInvFrame
<1>17. CASE Crash
  BY <1>17 DEF Crash, Unwind, CallInv, NotRegistered, Registering, Saving
<1>18. CASE OffchainSend \/ Restart \/ Reconnect \/ Recovery \/ UNCHANGED vars
  <2>1. UNCHANGED <<settle, chan, queue, done, round>>
    BY <1>18 DEF OffchainSend, Restart, Reconnect, Recovery, RecoverList, RecoverFetch,
       RecoverClassify, RecoverSave, RecoverDone, vars
  <2> QED
    BY <2>1, CallInvFrame
<1> QED
  BY <1>1, <1>2, <1>3, <1>4, <1>5, <1>6, <1>7, <1>8, <1>9, <1>10, <1>11, <1>12, <1>13, <1>14,
     <1>15, <1>16, <1>17, <1>18 DEF Next, Wallet, Server

\* The server has not taken the call's confirmation, or no longer holds it.
Unconfirmed == round.member = attempts => round.phase \in {"idle", "started"}

\* The stream has told everything, and the call's batch is in this phase.
At(phase) == Len(chan) = 0 /\ IsMember(phase)

\* The next event is a failure.
Failing == Len(chan) > 0 /\ chan[1].type = "failed"

\* The next event is the call's finalization, and what follows it.
FinalizationDue ==
    /\ Len(chan) > 0 /\ chan[1].type = "finalization" /\ Ours(chan[1])
    /\ \/ Len(chan) = 1 /\ IsMember("finalizing")
       \/ Len(chan) > 1 /\ chan[2].type = "failed" /\ Unconfirmed

\* Each start of a batch with the call is the newest event, or the failure of that
\* batch follows it, as long as the server holds the call.
StartsDue ==
    \A i \in DOMAIN chan : chan[i].type = "started" /\ Ours(chan[i]) =>
        \/ attempts \notin Held
        \/ IsMember("started") /\ i = Len(chan)
        \/ i < Len(chan) /\ chan[i + 1].type = "failed"

By(r, inputs) == r \in Rounds /\ \A v \in inputs : consumed[v] = r

\* What the next event of the stream tells the call.
Heard ==
    "loss" \notin faults =>
    /\ Waiting => Unconfirmed /\ StartsDue
    /\ pc = "confirm" => /\ step = "start" /\ Unconfirmed
                         /\ attempts \in Held => At("started") \/ Failing
    /\ Joined => At("confirmed") \/ Failing \/ FinalizationDue
    /\ pc = "forfeit" => At("finalizing") \/ (Failing /\ Unconfirmed)
    /\ Forfeited => \/ At("forfeited")
                    \/ Failing /\ Unconfirmed /\ attempts \notin done
                    \/ /\ Len(chan) > 0 /\ chan[1].type = "finalized"
                       /\ By(chan[1].round, job.inputs)

\* Does the call follow a batch?
Following == Waiting \/ pc = "confirm" \/ Joined \/ pc = "forfeit" \/ Forfeited

\* A call that follows no batch expects no event.
LEMMA HeardElsewhere ==
    ASSUME ~Following' PROVE Heard'
BY DEF Heard, Following

\* Steps that keep the call where it is and the stream and the server as they were.
LEMMA HeardFrame ==
    ASSUME Heard, UNCHANGED <<chan, round, attempts, job, faults, queue, done>>,
           Waiting' => Waiting, pc' = "confirm" => pc = "confirm" /\ step' = step,
           Joined' => Joined, pc' = "forfeit" => pc = "forfeit", Forfeited' => Forfeited,
           \A v \in job.inputs : consumed[v] # Unspent => consumed'[v] = consumed[v]
    PROVE  Heard'
<1>1. Held' = Held /\ (Unconfirmed => Unconfirmed') /\ (StartsDue => StartsDue')
  BY DEF Held, Unconfirmed, StartsDue, IsMember, Ours
<1>2. /\ \A ph \in Phases : At(ph) => At(ph)'
      /\ Failing => Failing'
      /\ FinalizationDue => FinalizationDue'
  BY DEF At, Failing, FinalizationDue, Unconfirmed, IsMember, Ours
<1>3. ASSUME Len(chan) > 0, By(chan[1].round, job.inputs)
      PROVE  Len(chan') > 0 /\ By(chan[1].round, job.inputs)'
  BY <1>3, RecordsAssumption DEF By, Rounds, Unspent
<1> QED
  BY <1>1, <1>2, <1>3 DEF Heard, Phases

\* The stream after an event: what was to come still comes first.
LEMMA Longer ==
    ASSUME TypeOK, NEW t \in EventTypes, Emit(t), round' \in Batches, open
    PROVE  /\ Len(chan) \in Nat /\ Len(chan') = Len(chan) + 1
           /\ DOMAIN chan = 1 .. Len(chan) /\ DOMAIN chan' = 1 .. Len(chan) + 1
           /\ \A i \in 1 .. Len(chan) : chan'[i] = chan[i]
           /\ chan'[Len(chan) + 1].type = t
           /\ chan'[Len(chan) + 1].round = round'.no
           /\ chan'[Len(chan) + 1].member = round'.member
<1> DEFINE ev == [type |-> t, round |-> round'.no, member |-> round'.member]
<1>1. ev \in Events
  BY DEF Events, Batches
<1>2. chan \in Seq(Events) /\ Len(chan) \in Nat
  BY DEF TypeOK
<1>3. chan' = Append(chan, ev)
  BY DEF Emit
<1>4. Len(chan') = Len(chan) + 1 /\ DOMAIN chan' = 1 .. Len(chan) + 1 /\ DOMAIN chan = 1 .. Len(chan)
  BY <1>1, <1>2, <1>3
<1>5. \A i \in 1 .. Len(chan) : chan'[i] = chan[i]
  BY <1>1, <1>2, <1>3
<1>6. chan'[Len(chan) + 1] = ev
  BY <1>1, <1>2, <1>3
<1> QED
  BY <1>2, <1>4, <1>5, <1>6

\* Where the call stands only depends on the call.
LEMMA SameStage ==
    ASSUME UNCHANGED <<pc, step, write>>
    PROVE  /\ Waiting' = Waiting
           /\ Joined' = Joined
           /\ Forfeited' = Forfeited
           /\ Following' = Following
BY DEF Waiting, Joined, Forfeited, Following, Saving

\* What the server tells next fits where the call stands.
LEMMA HeardServer ==
    ASSUME TypeOK, HideInv, HeldFree, CallInv, Heard, "loss" \notin faults,
           ServerStart \/ ServerFinalize \/ ServerCommit \/ ServerFail
    PROVE  Heard'
<1> USE RecordsAssumption
<1> USE DEF server, settle, process
<1>0. PICK t \in EventTypes :
         /\ Emit(t)
         /\ \/ ServerStart /\ t = "started"
            \/ ServerFinalize /\ t = "finalization"
            \/ ServerCommit /\ t = "finalized"
            \/ ServerFail /\ t = "failed"
  BY ServerEmits
<1>9. UNCHANGED <<settle, faults, claims>> /\ round' \in Batches
  BY ServerEmits
<1>1. CASE ~Following
  BY <1>9, <1>1, SameStage, HeardElsewhere
<1>2. CASE Following
  <2>1. pc # "idle" /\ ~NotRegistered /\ open /\ attempts # 0 /\ attempts \in Attempts
    BY <1>2 DEF Following, Waiting, Joined, Forfeited, Saving, CallInv, NotRegistered, TypeOK,
       Attempts
  <2>2. /\ Len(chan) \in Nat /\ Len(chan') = Len(chan) + 1
        /\ DOMAIN chan = 1 .. Len(chan) /\ DOMAIN chan' = 1 .. Len(chan) + 1
        /\ \A i \in 1 .. Len(chan) : chan'[i] = chan[i]
        /\ chan'[Len(chan) + 1].type = t
        /\ chan'[Len(chan) + 1].round = round'.no
        /\ chan'[Len(chan) + 1].member = round'.member
    BY <1>0, <1>9, <2>1, Longer
  <2>3. UNCHANGED <<pc, step, write, attempts, job>>
    BY <1>9
  <2>4. CASE ServerStart /\ t = "started"
    <3>1. PICK m \in queue \cup {0} :
             /\ round' = [no |-> round.no + 1, phase |-> "started", member |-> m]
             /\ queue' = queue \ {m}
      BY <2>4 DEF ServerStart
    <3>2. round.phase = "idle" /\ done' = done /\ round'.phase = "started"
      BY <2>4, <3>1 DEF ServerStart
    <3>3. Held' = Held
      BY <3>1, <3>2 DEF Held, TypeOK, Attempts
    <3>4. StartsDue => StartsDue'
      BY <2>1, <2>2, <2>3, <2>4, <3>2, <3>3 DEF StartsDue, Ours, IsMember
    <3>5. Unconfirmed'
      BY <3>2 DEF Unconfirmed
    <3>6. \A ph \in Phases \ {"idle"} : ~At(ph)
      BY <3>2 DEF At, IsMember
    <3>7. Failing => Failing'
      BY <2>2 DEF Failing
    <3>8. FinalizationDue => FinalizationDue'
      BY <2>2, <2>3, <3>2, <3>5 DEF FinalizationDue, IsMember, Ours
    <3>9. consumed' = consumed
      BY <2>4 DEF ServerStart
    <3> QED
      BY <2>2, <2>3, <1>9, SameStage, <3>2, <3>3, <3>4, <3>5, <3>6, <3>7, <3>8, <3>9
         DEF Heard, By, Phases
  <2>5. CASE ServerFinalize /\ t = "finalization"
    <3>1. /\ UNCHANGED <<consumed, queue, done>> /\ round' = [round EXCEPT !.phase = "finalizing"]
          /\ round.phase = "confirmed" \/ (round.phase = "started" /\ round.member = 0)
      BY <2>5 DEF ServerFinalize
    <3>2. round'.phase = "finalizing" /\ round'.member = round.member
      BY <3>1 DEF TypeOK, Batches
    <3>3. Held' = Held /\ Unconfirmed' = (round.member # attempts)
      BY <3>1, <3>2, <2>3 DEF Held, Unconfirmed
    <3>4. Unconfirmed => Unconfirmed'
      BY <2>1, <3>1, <3>3 DEF Unconfirmed
    <3>5. StartsDue => StartsDue'
      BY <2>1, <2>2, <2>3, <2>5, <3>1, <3>3 DEF StartsDue, Ours, IsMember
    <3>6. ~At("started") /\ ~At("finalizing") /\ ~At("forfeited")
      BY <2>1, <3>1 DEF At, IsMember
    <3>7. Failing => Failing'
      BY <2>2 DEF Failing
    <3>8. At("confirmed") \/ FinalizationDue => FinalizationDue'
      BY <2>1, <2>2, <2>3, <2>5, <3>1, <3>2, <3>4 DEF FinalizationDue, At, IsMember, Ours
    <3> QED
      BY <2>2, <2>3, <1>9, SameStage, <3>1, <3>3, <3>4, <3>5, <3>6, <3>7, <3>8 DEF Heard, By
  <2>6. CASE ServerFail /\ t = "failed"
    <3>1. /\ UNCHANGED <<consumed, done>> /\ round' = [round EXCEPT !.phase = "idle"]
          /\ round.phase # "idle" /\ queue' \in {queue, queue \cup ({round.member} \ {0})}
      BY <2>6 DEF ServerFail
    <3>2. round'.phase = "idle"
      BY <3>1 DEF TypeOK, Batches
    <3>3. Held' \subseteq Held /\ Unconfirmed'
      BY <3>1, <3>2, <2>3 DEF Held, Unconfirmed
    <3>5. StartsDue => StartsDue'
      BY <2>1, <2>2, <2>3, <2>6, <3>3 DEF StartsDue, Ours
    <3>6. \A ph \in Phases : At(ph) => Failing'
      BY <2>2, <2>6 DEF At, Failing
    <3>7. Failing => Failing'
      BY <2>2 DEF Failing
    <3>8. FinalizationDue => FinalizationDue'
      BY <2>2, <2>3, <2>6, <3>3 DEF FinalizationDue, Ours
    <3>9. At("forfeited") => attempts \notin done
      <4>1. At("forfeited") => attempts \in Held
        BY <2>1 DEF At, IsMember, Held
      <4> QED
        BY <4>1 DEF HeldFree
    <3> QED
      BY <2>2, <2>3, <1>9, SameStage, <3>1, <3>3, <3>5, <3>6, <3>7, <3>8, <3>9
         DEF Heard, By, Phases
  <2>7. CASE ServerCommit /\ t = "finalized"
    <3>1. /\ UNCHANGED queue /\ round' = [round EXCEPT !.phase = "idle"]
          /\ round.phase = "forfeited" \/ (round.phase = "finalizing" /\ round.member = 0)
          /\ done' = done \cup ({round.member} \ {0})
      BY <2>7 DEF ServerCommit
    <3>2. round'.phase = "idle" /\ round'.no = round.no
      BY <3>1 DEF TypeOK, Batches
    <3>3. Held' \subseteq Held /\ Unconfirmed'
      BY <3>1, <3>2, <2>3 DEF Held, Unconfirmed
    <3>4. \A v \in Vtxos : consumed[v] # Unspent => consumed'[v] = consumed[v]
      BY <2>7 DEF ServerCommit
    <3>5. StartsDue => StartsDue'
      BY <2>1, <2>2, <2>3, <2>7, <3>1, <3>3 DEF StartsDue, Ours, IsMember
    <3>6. ~At("started") /\ ~At("confirmed") /\ ~At("finalizing")
      BY <2>1, <3>1 DEF At, IsMember
    <3>7. Failing => Failing'
      BY <2>2 DEF Failing
    <3>8. FinalizationDue => FinalizationDue'
      BY <2>1, <2>2, <2>3, <3>1, <3>3 DEF FinalizationDue, IsMember, Ours
    <3>9. At("forfeited")
            => Len(chan') > 0 /\ chan'[1].type = "finalized" /\ By(chan[1].round, job.inputs)'
      <4> SUFFICES ASSUME At("forfeited")
                   PROVE  /\ Len(chan') > 0 /\ chan'[1].type = "finalized"
                          /\ By(chan[1].round, job.inputs)'
        OBVIOUS
      <4>1. round.member = attempts /\ attempts \in Held /\ round.phase = "forfeited"
        BY <2>1 DEF At, IsMember, Held
      <4>2. claims[attempts] = job.inputs /\ job.inputs \subseteq Vtxos
        BY <2>1, <4>1 DEF HideInv, TypeOK
      <4>3. \A v \in job.inputs : consumed[v] = Unspent
        BY <4>1, <4>2 DEF HeldFree
      <4>4. \A v \in job.inputs : consumed'[v] = round.no
        BY <2>1, <2>7, <4>1, <4>2, <4>3 DEF ServerCommit
      <4>5. round.no \in Rounds
        BY <4>1 DEF HeldFree
      <4>6. Len(chan) = 0 /\ Len(chan') = 1 /\ chan'[1].type = "finalized" /\ chan'[1].round = round.no
        BY <2>2, <2>7, <3>2 DEF At
      <4> QED
        BY <2>3, <4>4, <4>5, <4>6 DEF By
    <3>10. Unconfirmed /\ attempts \notin done => attempts \notin done'
      BY <3>1 DEF Unconfirmed
    <3>11. Len(chan) > 0 /\ chan[1].type = "finalized" /\ By(chan[1].round, job.inputs)
            => Len(chan') > 0 /\ chan'[1].type = "finalized" /\ By(chan[1].round, job.inputs)'
      <4>1. \A v \in job.inputs : v \in Vtxos
        BY DEF TypeOK
      <4> QED
        BY <2>2, <2>3, <3>4, <4>1 DEF By, Rounds, Unspent
    <3> QED
      BY <2>2, <2>3, <1>9, SameStage, <3>3, <3>5, <3>6, <3>7, <3>8, <3>9, <3>10, <3>11
         DEF Heard
  <2> QED
    BY <1>0, <2>4, <2>5, <2>6, <2>7
<1> QED
  BY <1>1, <1>2

\* A call that sees its batch start is about to confirm it, and nothing else comes.
LEMMA HeardReceive ==
    ASSUME TypeOK, CallInv, Heard, "loss" \notin faults,
           JoinStarted \/ JoinFinalization \/ JoinFinalized
    PROVE  Heard'
<1> USE DEF server, process
<1>1. /\ pc = "join" /\ chan # <<>> /\ chan' = Tail(chan)
      /\ UNCHANGED <<round, queue, done, attempts, job, consumed, claims, step, faults>>
  BY DEF JoinStarted, JoinFinalization, JoinFinalized, Receive
<1>2. /\ Len(chan') = Len(chan) - 1 /\ Len(chan) \in Nat \ {0}
      /\ DOMAIN chan = 1 .. Len(chan) /\ Head(chan) = chan[1]
      /\ \A i \in DOMAIN chan' : i \in Nat /\ i + 1 \in DOMAIN chan /\ chan'[i] = chan[i + 1]
  BY <1>1, Tails
<1>3. DOMAIN chan' = 1 .. Len(chan')
  BY <1>1 DEF TypeOK
<1>4. Held' = Held /\ Unconfirmed' = Unconfirmed
  BY <1>1 DEF Held, Unconfirmed
<1>5. StartsDue => StartsDue'
  BY <1>1, <1>2, <1>3, <1>4 DEF StartsDue, Ours, IsMember
<1>6. step \in Steps
  BY DEF TypeOK
<1>7. CASE JoinStarted
  <2>1. Head(chan).type = "started" /\ UNCHANGED write
        /\ pc' = IF Ours(Head(chan)) THEN "confirm" ELSE "join"
    BY <1>7 DEF JoinStarted
  <2>2. step = "start"
    BY <1>1, <1>2, <1>6, <2>1 DEF Heard, Joined, Forfeited, Steps, At, Failing, FinalizationDue
  <2>3. Unconfirmed /\ StartsDue
    BY <1>1, <2>2 DEF Heard, Waiting
  <2>4. CASE ~Ours(Head(chan))
    BY <1>1, <1>4, <1>5, <2>1, <2>2, <2>3, <2>4
       DEF Heard, Waiting, Joined, Forfeited, Saving
  <2>5. CASE Ours(Head(chan))
    <3>1. attempts \in Held => \/ IsMember("started") /\ Len(chan) = 1
                               \/ 1 < Len(chan) /\ chan[2].type = "failed"
      BY <1>2, <2>1, <2>3, <2>5 DEF StartsDue
    <3>2. attempts \in Held => At("started")' \/ Failing'
      <4>1. IsMember("started") /\ Len(chan) = 1 => At("started")'
        BY <1>1, <1>2 DEF At, IsMember
      <4>2. 1 < Len(chan) /\ chan[2].type = "failed" => Failing'
        BY <1>2, <1>3 DEF Failing
      <4> QED
        BY <3>1, <4>1, <4>2
    <3> QED
      BY <1>1, <1>4, <2>1, <2>2, <2>3, <2>5, <3>2
         DEF Heard, Waiting, Joined, Forfeited, Saving
  <2> QED
    BY <2>4, <2>5
<1>8. CASE JoinFinalization
  <2>1. /\ Head(chan).type = "finalization" /\ UNCHANGED write
        /\ \/ step = "batch_started" /\ Ours(Head(chan)) /\ pc' = "forfeit"
           \/ step = "batch_started" /\ ~Ours(Head(chan)) /\ pc' \in {"join", "release"}
           \/ step # "batch_started" /\ pc' = "join"
    BY <1>8 DEF JoinFinalization
  <2>2. step # "batch_finalization"
    BY <1>1, <1>2, <2>1 DEF Heard, Forfeited, At, Failing
  <2>3. CASE step = "start"
    <3>1. Unconfirmed /\ StartsDue
      BY <1>1, <2>3 DEF Heard, Waiting
    <3> QED
      BY <1>1, <1>4, <1>5, <2>1, <2>3, <3>1 DEF Heard, Waiting, Joined, Forfeited, Saving
  <2>4. CASE step = "batch_started"
    <3>1. FinalizationDue
      BY <1>1, <1>2, <2>1, <2>4 DEF Heard, Joined, At, Failing
    <3>2. At("finalizing")' \/ (Failing' /\ Unconfirmed')
      <4>1. Len(chan) = 1 /\ IsMember("finalizing") => At("finalizing")'
        BY <1>1, <1>2 DEF At, IsMember
      <4>2. Len(chan) > 1 /\ chan[2].type = "failed" => Failing'
        BY <1>2, <1>3 DEF Failing
      <4> QED
        BY <1>4, <3>1, <4>1, <4>2 DEF FinalizationDue
    <3>3. pc' = "forfeit"
      BY <1>2, <2>1, <2>4, <3>1 DEF FinalizationDue
    <3> QED
      BY <3>2, <3>3 DEF Heard, Waiting, Joined, Forfeited, Saving
  <2> QED
    BY <1>6, <2>2, <2>3, <2>4 DEF Steps
<1>9. CASE JoinFinalized
  <2>1. Head(chan).type = "finalized"
    BY <1>9 DEF JoinFinalized
  <2>2. CASE step = "batch_finalization"
    <3>1. ~Following'
      BY <1>1, <1>9, <2>2 DEF JoinFinalized, Persist, Following, Waiting, Joined, Forfeited, Saving
    <3> QED
      BY <3>1, HeardElsewhere
  <2>3. CASE step = "batch_started"
    BY <1>1, <1>2, <2>1, <2>3 DEF Heard, Joined, At, Failing, FinalizationDue
  <2>4. CASE step = "start"
    <3>1. Unconfirmed /\ StartsDue /\ UNCHANGED <<pc, write>>
      BY <1>1, <1>9, <2>4 DEF Heard, Waiting, JoinFinalized
    <3> QED
      BY <1>1, <1>4, <1>5, <2>4, <3>1 DEF Heard, Waiting, Joined, Forfeited, Saving
  <2> QED
    BY <1>6, <2>2, <2>3, <2>4 DEF Steps
<1> QED
  BY <1>7, <1>8, <1>9

\* The server's answer to a confirmation and to the forfeits is known with it.
LEMMA HeardAnswer ==
    ASSUME TypeOK, HideInv, CallInv, Heard, "loss" \notin faults, Confirm \/ Forfeit
    PROVE  Heard'
<1> USE DEF server, process
<1>1. UNCHANGED <<chan, attempts, job, done, queue>> /\ attempts # 0
  BY DEF Confirm, Forfeit, TypeOK, Attempts
<1>2. CASE Confirm
  <2>1. CASE ~IsMember("started")
    BY <1>2, <2>1, HeardElsewhere DEF Confirm, Following, Waiting, Joined, Forfeited, Saving
  <2>2. CASE IsMember("started")
    <3>1. At("started") \/ Failing
      BY <1>1, <1>2, <2>2 DEF Heard, Confirm, IsMember, Held
    <3>2. round' = [round EXCEPT !.phase = "confirmed"]
      BY <1>2, <2>2 DEF Confirm
    <3>3. At("confirmed")' \/ Failing'
      BY <1>1, <2>2, <3>1, <3>2 DEF At, Failing, IsMember, TypeOK, Batches
    <3>4. \/ Saving("started")' /\ step' = "batch_started"
          \/ pc' = "release"
      BY <1>2, <2>2 DEF Confirm, Persist, Saving
    <3> QED
      BY <3>3, <3>4 DEF Heard, Waiting, Joined, Forfeited, Saving
  <2> QED
    BY <2>1, <2>2
<1>3. CASE Forfeit
  <2>1. CASE ~IsMember("finalizing")
    BY <1>3, <2>1, HeardElsewhere DEF Forfeit, Following, Waiting, Joined, Forfeited, Saving
  <2>2. CASE IsMember("finalizing")
    <3>1. At("finalizing")
      BY <1>3, <2>2 DEF Heard, Forfeit, IsMember, Unconfirmed
    <3>2. round' = [round EXCEPT !.phase = "forfeited"]
      BY <1>3, <2>2 DEF Forfeit
    <3>3. At("forfeited")'
      BY <1>1, <2>2, <3>1, <3>2 DEF At, IsMember, TypeOK, Batches
    <3>4. \/ pc' = "join" /\ step' = "batch_finalization"
          \/ pc' = "release"
      BY <1>3, <2>2 DEF Forfeit
    <3> QED
      BY <3>3, <3>4 DEF Heard, Waiting, Joined, Forfeited, Saving
  <2> QED
    BY <2>1, <2>2
<1> QED
  BY <1>2, <1>3

\* Every step keeps what the stream is going to tell in line with the call.
LEMMA HeardStep ==
    ASSUME TypeOK, HideInv, HeldFree, CallInv, Heard, [Next]_vars
    PROVE  Heard'
<1> USE RecordsAssumption
<1> USE DEF persisted, server, settle, process, reconciler
<1>a. CASE "loss" \in faults
  <2>1. faults' = faults
    BY DEF Next, vars, Wallet, Server, Recovery, SettleStart, PersistRead, PersistSave,
       PersistFail, CheckPass, CheckFail, RegisterOk, RegisterRefused, ClearDuplicates,
       JoinStarted, JoinFinalization, JoinFinalized, JoinFailed, JoinStreamEnds, Confirm,
       Forfeit, UpdateOk, UpdateThrows, Release, Finally, ServerStart, ServerDrop,
       ServerFinalize, ServerCommit, ServerFail, OffchainSend, LoseEvent, Crash, Restart,
       Reconnect, RecoverList, RecoverFetch, RecoverSave, RecoverDone, RecoverClassify
  <2> QED
    BY <1>a, <2>1 DEF Heard
<1>b. CASE "loss" \notin faults
  <2> USE <1>b
  <2>1. CASE \/ SettleStart \/ CheckPass \/ CheckFail \/ RegisterRefused \/ ClearDuplicates
             \/ JoinFailed \/ JoinStreamEnds \/ UpdateOk \/ UpdateThrows \/ Release \/ Finally
             \/ Crash
    <3>1. \/ pc' \in {"idle", "register", "clear", "register_again", "release", "finally"}
          \/ pc' = "read" /\ write'.what \in {"waiting_to_submit", "failed", "batch_succeeded",
                                              "cancelled"}
      BY <2>1 DEF SettleStart, CheckPass, CheckFail, RegisterRefused, ClearDuplicates,
         JoinFailed, JoinStreamEnds, UpdateOk, UpdateThrows, Release, Finally, Crash, Persist,
         Unwind
    <3> QED
      BY <3>1, HeardElsewhere DEF Following, Waiting, Joined, Forfeited, Saving
  <2>2. CASE PersistRead \/ PersistSave \/ PersistFail
    <3>1. /\ pc \in {"read", "save"}
          /\ UNCHANGED <<server, chan, step, attempts, job, write, faults>>
          /\ pc' = "save" \/ pc' = AfterPersist
      BY <2>2 DEF PersistRead, PersistSave, PersistFail
    <3>2. CASE pc' = "save"
      BY <3>1, <3>2, HeardFrame DEF Waiting, Joined, Forfeited, Saving
    <3>3. CASE pc' = AfterPersist
      <4>1. pc' = "join" => \/ Saving("waiting_for_batch") /\ step = "start"
                            \/ Saving("started") /\ step = "batch_started"
        BY <3>1, <3>3 DEF AfterPersist, CallInv, Saving
      <4>2. pc' \notin {"read", "save", "confirm", "forfeit"}
        BY <3>3 DEF AfterPersist
      <4> QED
        BY <3>1, <4>1, <4>2, HeardFrame DEF Waiting, Joined, Forfeited, Saving
    <3> QED
      BY <3>1, <3>2, <3>3
  <2>3. CASE RegisterOk
    <3>1. /\ Registering /\ pc # "idle" /\ step' = step /\ chan' = chan
          /\ UNCHANGED <<round, attempts>>
          /\ Saving("waiting_for_batch")' \/ pc' = "release"
      BY <2>3 DEF RegisterOk, Registering, Persist, Saving
    <3>2. StartsDue' /\ Unconfirmed' /\ step' = "start"
      BY <3>1 DEF CallInv, StartsDue, Unconfirmed, Ours
    <3> QED
      BY <3>1, <3>2 DEF Heard, Waiting, Joined, Forfeited, Saving
  <2>4. CASE JoinStarted \/ JoinFinalization \/ JoinFinalized
    BY <2>4, HeardReceive
  <2>5. CASE Confirm \/ Forfeit
    BY <2>5, HeardAnswer
  <2>6. CASE ServerStart \/ ServerFinalize \/ ServerCommit \/ ServerFail
    BY <2>6, HeardServer
  <2>7. CASE ServerDrop
    <3>1. /\ round' = [round EXCEPT !.member = 0] /\ round.phase = "started"
          /\ UNCHANGED <<chan, settle, queue, done, consumed, faults>>
      BY <2>7 DEF ServerDrop
    <3>2. CASE ~Following
      BY <3>1, <3>2, SameStage, HeardElsewhere
    <3>3. CASE Following
      <4>1. attempts # 0
        BY <3>3 DEF TypeOK, Attempts, Following, Waiting, Joined, Forfeited, Saving
      <4>2. round'.member = 0 /\ round'.phase = "started" /\ Unconfirmed'
        BY <3>1, <4>1 DEF TypeOK, Batches, Unconfirmed
      <4>3. Held' \subseteq Held /\ (round.member = attempts => attempts \notin Held')
        BY <3>1, <4>1, <4>2 DEF Held, HeldFree
      <4>4. StartsDue => StartsDue'
        BY <3>1, <4>3 DEF StartsDue, Ours, IsMember
      <4>5. ~At("confirmed") /\ ~At("finalizing") /\ ~At("forfeited")
        BY <3>1 DEF At, IsMember
      <4>6. At("started") => attempts \notin Held'
        BY <4>3 DEF At, IsMember
      <4>7. Failing' = Failing
        BY <3>1 DEF Failing
      <4>8. FinalizationDue => FinalizationDue'
        BY <3>1, <4>2 DEF FinalizationDue, IsMember, Ours
      <4> QED
        BY <3>1, SameStage, <4>2, <4>3, <4>4, <4>5, <4>6, <4>7, <4>8 DEF Heard, By
    <3> QED
      BY <3>2, <3>3
  <2>8. CASE OffchainSend \/ Restart \/ Reconnect \/ Recovery \/ UNCHANGED vars
    <3>1. UNCHANGED <<settle, chan, queue, done, round, faults>>
      BY <2>8 DEF OffchainSend, Restart, Reconnect, Recovery, RecoverList, RecoverFetch,
         RecoverClassify, RecoverSave, RecoverDone, vars
    <3>2. \A v \in job.inputs : consumed[v] # Unspent => consumed'[v] = consumed[v]
      <4>1. CASE OffchainSend
        BY <4>1 DEF OffchainSend, TypeOK
      <4>2. CASE Restart \/ Reconnect \/ Recovery \/ UNCHANGED vars
        <5>1. consumed' = consumed
          BY <4>2 DEF Restart, Reconnect, Recovery, RecoverList, RecoverFetch,
             RecoverClassify, RecoverSave, RecoverDone, vars
        <5> QED
          BY <5>1
      <4> QED
        BY <2>8, <4>1, <4>2
    <3> QED
      BY <3>1, <3>2, SameStage, HeardFrame
  <2>9. CASE LoseEvent
    BY <2>9 DEF LoseEvent
  <2> QED
    BY <2>1, <2>2, <2>3, <2>4, <2>5, <2>6, <2>7, <2>8, <2>9 DEF Next, Wallet, Server
<1> QED
  BY <1>a, <1>b

\* A coin, once consumed, stays so, and by what consumed it.
Kept == \A v \in Vtxos : consumed[v] # Unspent => consumed'[v] = consumed[v]

\* No step gives a consumed coin back, and only a spend offchain is none of a batch.
LEMMA KeptStep ==
    ASSUME TypeOK, HeldFree, [Next]_vars
    PROVE  /\ Kept /\ faults' = faults
           /\ \A v \in Vtxos : consumed'[v] = OffchainSpend
                                  => consumed[v] = OffchainSpend \/ "spend" \in faults
<1> USE DEF persisted, server, settle, process, reconciler
<1>1. CASE OffchainSend
  BY <1>1 DEF OffchainSend, TypeOK, Kept
<1>2. CASE ServerCommit
  <2>1. round.no # OffchainSpend
    BY <1>2, RecordsAssumption DEF ServerCommit, HeldFree, Rounds, OffchainSpend
  <2> QED
    BY <1>2, <2>1 DEF ServerCommit, Kept
<1>3. CASE \/ ServerStart \/ ServerDrop \/ ServerFinalize \/ ServerFail \/ SettleStart \/ Wallet
           \/ LoseEvent \/ Crash \/ Restart \/ Reconnect \/ Recovery \/ UNCHANGED vars
  <2>1. consumed' = consumed /\ faults' = faults
    BY <1>3 DEF vars, Wallet, Recovery, SettleStart, PersistRead, PersistSave,
       PersistFail, CheckPass, CheckFail, RegisterOk, RegisterRefused, ClearDuplicates,
       JoinStarted, JoinFinalization, JoinFinalized, JoinFailed, JoinStreamEnds, Confirm,
       Forfeit, UpdateOk, UpdateThrows, Release, Finally, ServerStart, ServerDrop,
       ServerFinalize, ServerFail, LoseEvent, Crash, Restart,
       Reconnect, RecoverList, RecoverFetch, RecoverSave, RecoverDone, RecoverClassify
  <2> QED
    BY <2>1 DEF Kept
<1> QED
  BY <1>1, <1>2, <1>3 DEF Next, Server

\* What the indexer once answered still holds.
Indexed == \A v \in Vtxos : idx[v] # Unspent => consumed[v] = idx[v]

\* Every step keeps the answer of the indexer true.
LEMMA IndexedStep ==
    ASSUME TypeOK, HeldFree, Indexed, [Next]_vars
    PROVE  Indexed'
<1>1. Kept
  BY KeptStep
<1>2. idx' = idx \/ (idx' = consumed /\ consumed' = consumed) \/ idx' = NoSpends
  BY DEF vars, Next, Wallet, Server, Recovery, SettleStart, PersistRead, PersistSave,
     PersistFail, CheckPass, CheckFail, RegisterOk, RegisterRefused, ClearDuplicates,
     JoinStarted, JoinFinalization, JoinFinalized, JoinFailed, JoinStreamEnds, Confirm,
     Forfeit, UpdateOk, UpdateThrows, Release, Finally, ServerStart, ServerDrop,
     ServerFinalize, ServerCommit, ServerFail, OffchainSend, LoseEvent, Crash, Restart,
     Reconnect, RecoverList, RecoverFetch, RecoverSave, RecoverDone, RecoverClassify,
     EndRecovery, persisted, server, settle, process, reconciler
<1> QED
  BY <1>1, <1>2 DEF Indexed, Kept, NoSpends

\* A row without an outcome names no commitment.
Unpaid(row) == row.state \in PendingStates \cup {"absent"} => row.commitment = Unspent

RowsInv ==
    /\ \A id \in IntentTxIds : Unpaid(store[id]) /\ Unpaid(seen[id])
    /\ pc = "save" => Unpaid(draft)
    /\ rcpc = "save" => IsTerminal(fix.row.state)
    /\ pc \in {"read", "save"} /\ write.what \in Snapshots \ {"batch_succeeded"}
          => write.round = Unspent

\* Steps of the call that write no row keep the rows unpaid.
LEMMA RowsFrame ==
    ASSUME RowsInv, UNCHANGED <<store, seen, rcpc, fix>>,
           \/ pc' = pc /\ UNCHANGED <<write, draft>>
           \/ pc' \notin {"read", "save"}
           \/ /\ pc' = "read"
              /\ write'.what \in Snapshots \ {"batch_succeeded"} => write'.round = Unspent
    PROVE  RowsInv'
BY DEF RowsInv, Unpaid

\* The row persist is about to save names a commitment with a success only.
LEMMA DraftUnpaid ==
    ASSUME NEW row \in Rows, NEW w \in Writes, Unpaid(row),
           w.what \in Snapshots \ {"batch_succeeded"} => w.round = Unspent
    PROVE  /\ w.what \in Snapshots /\ ~SnapshotIsNoOp(row)
                => Unpaid(ApplySnapshot(row, w.what, w.round))
           /\ w.what \notin Snapshots /\ ~EventIsNoOp(row, w.what)
                => Unpaid(ApplySettlementEvent(row, w.what, w.round))
<1>1. row.state \in PendingStates \cup TerminalStates \cup {"absent"}
  BY DEF Rows, IntentStates
<1>2. ASSUME w.what \in Snapshots, ~SnapshotIsNoOp(row)
      PROVE  Unpaid(ApplySnapshot(row, w.what, w.round))
  <2>1. row.commitment = Unspent
    BY <1>1, <1>2 DEF SnapshotIsNoOp, IsTerminal, Unpaid
  <2>2. CASE w.what = "batch_succeeded"
    BY <2>2 DEF ApplySnapshot, Unpaid, PendingStates
  <2>3. CASE w.what # "batch_succeeded"
    BY <1>2, <2>1, <2>3 DEF ApplySnapshot, Unpaid
  <2> QED
    BY <2>2, <2>3
<1>3. ASSUME w.what \notin Snapshots, ~EventIsNoOp(row, w.what)
      PROVE  Unpaid(ApplySettlementEvent(row, w.what, w.round))
  <2>1. ~IsTerminal(row.state) /\ row.commitment = Unspent
    BY <1>1, <1>3 DEF EventIsNoOp, ReduceIntentState, IsTerminal, Unpaid
  <2>2. CASE w.what = "finalized"
    BY <2>1, <2>2 DEF ApplySettlementEvent, ReduceIntentState, Unpaid, PendingStates
  <2>3. CASE w.what # "finalized"
    BY <2>1, <2>3 DEF ApplySettlementEvent, Unpaid
  <2> QED
    BY <2>2, <2>3
<1> QED
  BY <1>2, <1>3

\* Every step keeps rows without an outcome unpaid.
LEMMA RowsStep ==
    ASSUME TypeOK, RowsInv, [Next]_vars
    PROVE  RowsInv'
<1> USE DEF persisted, server, settle, process, reconciler
<1>1. CASE PersistRead
  <2>1. store[CurrentId] \in Rows /\ write \in Writes /\ Unpaid(store[CurrentId])
    BY CurrentIdType DEF TypeOK, RowsInv
  <2>2. pc = "read" /\ UNCHANGED <<store, seen, rcpc, fix, write>>
    BY <1>1 DEF PersistRead
  <2>3. CASE pc' = "save"
    <3>1. write.what \in Snapshots \ {"batch_succeeded"} => write.round = Unspent
      BY <2>2 DEF RowsInv
    <3>2. \/ /\ write.what \in Snapshots /\ ~SnapshotIsNoOp(store[CurrentId])
             /\ draft' = ApplySnapshot(store[CurrentId], write.what, write.round)
          \/ /\ write.what \notin Snapshots /\ ~EventIsNoOp(store[CurrentId], write.what)
             /\ draft' = ApplySettlementEvent(store[CurrentId], write.what, write.round)
      BY <1>1, <2>3 DEF PersistRead, AfterPersist
    <3>3. Unpaid(draft')
      BY <2>1, <3>1, <3>2, DraftUnpaid
    <3> QED
      BY <2>2, <2>3, <3>1, <3>3 DEF RowsInv, Unpaid
  <2>4. CASE pc' # "save"
    <3>1. pc' \notin {"read", "save"}
      BY <1>1, <2>4 DEF PersistRead, AfterPersist
    <3> QED
      BY <2>2, <3>1, RowsFrame
  <2> QED
    BY <2>3, <2>4
<1>2. CASE PersistSave
  <2>1. /\ store' = [store EXCEPT ![CurrentId] = draft] /\ Unpaid(draft)
        /\ UNCHANGED <<seen, rcpc, fix>> /\ pc' \notin {"read", "save"}
    BY <1>2 DEF PersistSave, AfterPersist, RowsInv
  <2>2. \A id \in IntentTxIds : store'[id] \in {store[id], draft}
    BY <2>1 DEF TypeOK
  <2> QED
    BY <2>1, <2>2 DEF RowsInv, Unpaid
<1>3. CASE \/ PersistFail \/ SettleStart \/ CheckPass \/ CheckFail \/ RegisterRefused
           \/ ClearDuplicates \/ JoinFailed \/ JoinStreamEnds \/ UpdateOk \/ UpdateThrows
           \/ Release \/ Finally \/ JoinStarted \/ JoinFinalization \/ JoinFinalized \/ RegisterOk
           \/ Confirm \/ Forfeit
  <2>1. /\ UNCHANGED <<store, seen, rcpc, fix>>
        /\ \/ pc' = pc /\ UNCHANGED <<write, draft>>
           \/ pc' \notin {"read", "save"}
           \/ /\ pc' = "read"
              /\ write'.what \in Snapshots \ {"batch_succeeded"} => write'.round = Unspent
    BY <1>3 DEF SettleStart, CheckPass, CheckFail, RegisterRefused, ClearDuplicates,
       JoinFailed, JoinStreamEnds, UpdateOk, UpdateThrows, Release, Finally, JoinStarted,
       JoinFinalization, JoinFinalized, RegisterOk, Confirm, Forfeit, PersistFail, AfterPersist,
       Persist, Unwind, Snapshots
  <2> QED
    BY <2>1, RowsFrame
<1>4. CASE Server \/ OffchainSend \/ LoseEvent \/ UNCHANGED vars
  <2>1. UNCHANGED <<store, seen, rcpc, fix, pc, write, draft>>
    BY <1>4 DEF Server, ServerStart, ServerDrop, ServerFinalize, ServerCommit, ServerFail,
       OffchainSend, LoseEvent, vars
  <2> QED
    BY <2>1, RowsFrame
<1>5. CASE Crash
  BY <1>5 DEF Crash, Unwind, EndRecovery, RowsInv, Unpaid, NoIds, NoRow
<1>6. CASE Restart \/ Reconnect
  BY <1>6 DEF Restart, Reconnect, RowsInv, Unpaid
<1>7. CASE RecoverList
  BY <1>7 DEF RecoverList, RowsInv, Unpaid, NoRow
<1>8. CASE RecoverFetch \/ RecoverDone
  BY <1>8 DEF RecoverFetch, RecoverDone, EndRecovery, RowsInv, Unpaid, NoIds, NoRow
<1>9. CASE RecoverSave
  <2>1. /\ store' = [store EXCEPT ![fix.id] = fix.row] \/ store' = store
        /\ IsTerminal(fix.row.state) /\ rcpc' = "classify"
        /\ UNCHANGED <<seen, pc, write, draft>>
    BY <1>9 DEF RecoverSave, RowsInv
  <2>2. Unpaid(fix.row)
    BY <2>1 DEF Unpaid, IsTerminal, TerminalStates, PendingStates
  <2>3. \A id \in IntentTxIds : store'[id] \in {store[id], fix.row}
    BY <2>1 DEF TypeOK
  <2> QED
    BY <2>1, <2>2, <2>3 DEF RowsInv, Unpaid
<1>10. ASSUME NEW id \in IntentTxIds, RecoverClassify(id) PROVE RowsInv'
  <2>1. /\ UNCHANGED <<store, seen, pc, write, draft>> /\ rcpc = "classify"
        /\ \/ UNCHANGED <<fix, rcpc>>
           \/ /\ fix' = [id |-> id, row |-> ClassifyIntent(id, seen[id], idx)]
              /\ ClassifyIntent(id, seen[id], idx) # seen[id]
    BY <1>10 DEF RecoverClassify
  <2>2. ClassifyIntent(id, seen[id], idx) # seen[id]
           => IsTerminal(ClassifyIntent(id, seen[id], idx).state)
    BY DEF ClassifyIntent, IsTerminal, TerminalStates, TypeOK, Rows
  <2> QED
    BY <2>1, <2>2 DEF RowsInv, Unpaid
<1> QED
  BY <1>1, <1>2, <1>3, <1>4, <1>5, <1>6, <1>7, <1>8, <1>9, <1>10 DEF Next, Wallet, Recovery

\* What is about to be recorded, and what is recorded of the coins, is what happened.
Real ==
    "loss" \notin faults =>
    /\ Saving("finalized") => write.round = committed /\ By(committed, job.inputs)
    /\ Saving("batch_succeeded") => By(write.round, job.inputs)
    /\ pc = "update" => By(committed, job.inputs)
    /\ pc = "save" /\ draft.state = "batch_succeeded" => By(draft.commitment, job.inputs)
    /\ OwnRowsReal

\* What consumed coins is kept.
LEMMA ByKept ==
    ASSUME Kept, NEW r, NEW inputs \in SUBSET Vtxos, By(r, inputs)
    PROVE  r \in Rounds /\ \A v \in inputs : consumed'[v] = r
BY RecordsAssumption DEF Kept, By, Rounds, Unspent

\* Steps that record nothing and bring the call to no recording of a success.
LEMMA RealFrame ==
    ASSUME TypeOK, Real, Kept, UNCHANGED <<settledBy, faults>>,
           \/ UNCHANGED <<pc, write, draft, committed, job>>
           \/ pc' \notin {"read", "save", "update"}
           \/ pc' = "read" /\ write'.what \notin {"finalized", "batch_succeeded"}
    PROVE  Real'
<1>1. "loss" \notin faults => OwnRowsReal'
  BY DEF Real, OwnRowsReal, Kept, TypeOK
<1>2. CASE UNCHANGED <<pc, write, draft, committed, job>>
  <2>1. job.inputs \in SUBSET Vtxos
    BY DEF TypeOK
  <2>2. \A r : By(r, job.inputs) => r \in Rounds /\ \A v \in job.inputs : consumed'[v] = r
    BY <2>1, ByKept
  <2> QED
    BY <1>1, <1>2, <2>2 DEF Real, Saving, By
<1>3. CASE \/ pc' \notin {"read", "save", "update"}
           \/ pc' = "read" /\ write'.what \notin {"finalized", "batch_succeeded"}
  BY <1>1, <1>3 DEF Real, Saving
<1> QED
  BY <1>2, <1>3

\* A row becomes a success only by the batch that is being recorded.
LEMMA DraftPaid ==
    ASSUME NEW row \in Rows, NEW w \in Writes
    PROVE  /\ w.what \in Snapshots /\ w.round # Unspent
                /\ ApplySnapshot(row, w.what, w.round).state = "batch_succeeded"
              => w.what = "batch_succeeded"
                 /\ ApplySnapshot(row, w.what, w.round).commitment = w.round
           /\ w.what \in Snapshots /\ w.what # "batch_succeeded"
              => ApplySnapshot(row, w.what, w.round).state # "batch_succeeded"
           /\ w.what \notin Snapshots /\ ~EventIsNoOp(row, w.what)
                /\ ApplySettlementEvent(row, w.what, w.round).state = "batch_succeeded"
              => w.what = "finalized"
                 /\ ApplySettlementEvent(row, w.what, w.round).commitment = w.round
<1>1. w.what \in Snapshots \cup {"started", "finalized", "failed"}
  BY DEF Writes
<1>2. w.what \notin Snapshots /\ ~EventIsNoOp(row, w.what)
         => ~IsTerminal(row.state) /\ w.what \in {"started", "finalized", "failed"}
  BY <1>1 DEF EventIsNoOp, ReduceIntentState
<1>3. w.what \notin Snapshots /\ ~EventIsNoOp(row, w.what)
        /\ ApplySettlementEvent(row, w.what, w.round).state = "batch_succeeded"
         => w.what = "finalized"
  BY <1>2 DEF ApplySettlementEvent, ReduceIntentState
<1> QED
  BY <1>3 DEF ApplySnapshot, ApplySettlementEvent

\* Every step keeps what is about to be recorded true.
LEMMA RealStep ==
    ASSUME TypeOK, HeldFree, CallInv, Heard, Real, [Next]_vars
    PROVE  Real'
<1> USE DEF persisted, server, settle, process, reconciler
<1>0. Kept /\ faults' = faults
  BY KeptStep
<1>a. /\ job.inputs \in SUBSET Vtxos /\ write \in Writes /\ store[CurrentId] \in Rows
      /\ write.what \in Snapshots \cup {"started", "finalized", "failed"}
  BY CurrentIdType DEF TypeOK, Writes
<1>1. CASE PersistRead
  <2>1. pc = "read" /\ UNCHANGED <<settledBy, consumed, job, write, committed>>
    BY <1>1 DEF PersistRead
  <2>2. CASE pc' = "save"
    <3>1. \/ write.what \in Snapshots /\ draft' = ApplySnapshot(store[CurrentId], write.what, write.round)
          \/ /\ write.what \notin Snapshots /\ ~EventIsNoOp(store[CurrentId], write.what)
             /\ draft' = ApplySettlementEvent(store[CurrentId], write.what, write.round)
      BY <1>1, <2>2 DEF PersistRead, AfterPersist
    <3>2. ASSUME "loss" \notin faults, draft'.state = "batch_succeeded"
          PROVE  By(draft'.commitment, job.inputs)
      <4>1. CASE write.what \in Snapshots
        <5>1. write.what = "batch_succeeded"
          BY <1>a, <3>1, <3>2, <4>1, DraftPaid
        <5>2. By(write.round, job.inputs) /\ write.round # Unspent
          BY <2>1, <3>2, <5>1, RecordsAssumption DEF Real, Saving, By, Rounds, Unspent
        <5>3. draft'.commitment = write.round
          BY <1>a, <3>1, <3>2, <4>1, <5>2, DraftPaid
        <5> QED
          BY <5>2, <5>3
      <4>2. CASE write.what \notin Snapshots
        <5>1. write.what = "finalized" /\ draft'.commitment = write.round
          BY <1>a, <3>1, <3>2, <4>2, DraftPaid
        <5> QED
          BY <2>1, <3>2, <5>1 DEF Real, Saving
      <4> QED
        BY <4>1, <4>2
    <3> QED
      BY <1>0, <2>1, <2>2, <3>2 DEF Real, Saving, By, OwnRowsReal
  <2>3. CASE pc' # "save"
    <3>1. pc' = AfterPersist
      BY <1>1, <2>3 DEF PersistRead
    <3>2. pc' = "update" => write.what = "finalized"
      BY <1>a, <3>1 DEF AfterPersist, Snapshots
    <3>3. pc' \notin {"read", "save"}
      BY <3>1 DEF AfterPersist
    <3> QED
      BY <1>0, <2>1, <3>2, <3>3 DEF Real, Saving, By, OwnRowsReal
  <2> QED
    BY <2>2, <2>3
<1>2. CASE PersistSave \/ PersistFail
  <2>1. /\ pc \in {"read", "save"} /\ pc' = AfterPersist
        /\ UNCHANGED <<settledBy, consumed, job, write, committed>>
    BY <1>2 DEF PersistSave, PersistFail
  <2>2. pc' = "update" => write.what = "finalized"
    BY <1>a, <2>1 DEF AfterPersist, Snapshots
  <2>3. pc' \notin {"read", "save"}
    BY <2>1 DEF AfterPersist
  <2> QED
    BY <1>0, <2>1, <2>2, <2>3 DEF Real, Saving, By, OwnRowsReal
<1>3. CASE \/ SettleStart \/ CheckPass \/ CheckFail \/ RegisterRefused
           \/ ClearDuplicates \/ JoinFailed \/ JoinStreamEnds
           \/ Release \/ Finally \/ JoinStarted \/ JoinFinalization \/ RegisterOk
           \/ Confirm \/ Forfeit \/ Crash
  <2>1. /\ settledBy' = settledBy
        /\ \/ pc' \notin {"read", "save", "update"}
           \/ pc' = "read" /\ write'.what \notin {"finalized", "batch_succeeded"}
    BY <1>3 DEF SettleStart, CheckPass, CheckFail, RegisterRefused, ClearDuplicates,
       JoinFailed, JoinStreamEnds, Release, Finally, JoinStarted,
       JoinFinalization, RegisterOk, Confirm, Forfeit, Crash, Persist, Unwind
  <2> QED
    BY <1>0, <2>1, RealFrame
<1>4. CASE JoinFinalized
  <2>1. /\ pc = "join" /\ chan # <<>> /\ Head(chan).type = "finalized" /\ Head(chan) = chan[1]
        /\ UNCHANGED <<settledBy, consumed, job, draft>> /\ Len(chan) > 0
    BY <1>4, Tails DEF JoinFinalized, Receive
  <2>2. CASE step = "batch_finalization"
    <3>1. "loss" \notin faults => By(Head(chan).round, job.inputs)
      BY <2>1, <2>2 DEF Heard, Forfeited, At, Failing
    <3>2. /\ pc' = "read" /\ committed' = Head(chan).round
          /\ write' = [what |-> "finalized", round |-> Head(chan).round]
      BY <1>4, <2>2 DEF JoinFinalized, Persist
    <3> QED
      BY <1>0, <2>1, <3>1, <3>2 DEF Real, Saving, By, OwnRowsReal
  <2>3. CASE step # "batch_finalization"
    BY <1>0, <1>4, <2>1, <2>3, RealFrame DEF JoinFinalized
  <2> QED
    BY <2>2, <2>3
<1>5. CASE UpdateThrows
  <2>1. /\ pc = "update" /\ pc' = "read" /\ write' = [what |-> "batch_succeeded", round |-> committed]
        /\ UNCHANGED <<settledBy, consumed, job, committed>>
    BY <1>5 DEF UpdateThrows, Persist
  <2> QED
    BY <1>0, <2>1 DEF Real, Saving, By, OwnRowsReal
<1>6. CASE UpdateOk
  <2>1. /\ pc = "update" /\ pc' = "finally" /\ UNCHANGED <<consumed, job, committed>>
        /\ settledBy' = [v \in Vtxos |-> IF v \in job.inputs THEN committed ELSE settledBy[v]]
    BY <1>6 DEF UpdateOk
  <2>2. "loss" \notin faults => OwnRowsReal'
    BY <2>1 DEF Real, OwnRowsReal, By
  <2> QED
    BY <1>0, <2>1, <2>2 DEF Real, Saving
<1>7. CASE Server \/ OffchainSend \/ LoseEvent \/ Restart \/ Reconnect \/ Recovery \/ UNCHANGED vars
  <2>1. UNCHANGED <<settledBy, pc, write, draft, committed, job>>
    BY <1>7 DEF Server, ServerStart, ServerDrop, ServerFinalize, ServerCommit, ServerFail,
       OffchainSend, LoseEvent, Restart, Reconnect, Recovery, RecoverList, RecoverFetch,
       RecoverClassify, RecoverSave, RecoverDone, vars
  <2> QED
    BY <1>0, <2>1, RealFrame
<1> QED
  BY <1>1, <1>2, <1>3, <1>4, <1>5, <1>6, <1>7 DEF Next, Wallet

\* A row that names a success names a batch that consumed its inputs.
Success(id, row) ==
    row.state = "batch_succeeded" =>
        /\ \A v \in id.inputs : consumed[v] \in Rounds
        /\ row.commitment \in {consumed[v] : v \in id.inputs}

\* Rows, and the row recovery is about to save, name a success as it happened.
Recorded ==
    faults \cap {"loss", "spend"} = {} =>
    /\ \A id \in IntentTxIds : Success(id, store[id])
    /\ rcpc = "save" => Success(fix.id, fix.row)
    /\ \A v \in Vtxos : consumed[v] # OffchainSpend

\* A success stays one: the coins stay consumed by what consumed them.
LEMMA SuccessKept ==
    ASSUME TypeOK, Kept, NEW id \in IntentTxIds, NEW row \in Rows, Success(id, row)
    PROVE  row.state = "batch_succeeded" =>
               /\ \A v \in id.inputs : consumed'[v] \in Rounds
               /\ row.commitment \in {consumed'[v] : v \in id.inputs}
<1>1. \A v \in id.inputs : v \in Vtxos
  BY DEF IntentTxIds
<1>2. ASSUME row.state = "batch_succeeded" PROVE \A v \in id.inputs : consumed'[v] = consumed[v]
  BY <1>1, <1>2, RecordsAssumption DEF Success, Kept, Rounds, Unspent
<1> QED
  BY <1>2 DEF Success

\* A batch that consumed all inputs makes a success of a row that names it.
LEMMA BySuccess ==
    ASSUME NEW id \in IntentTxIds, id.inputs # {}, NEW row \in Rows, By(row.commitment, id.inputs)
    PROVE  Success(id, row)
BY DEF Success, By

\* Recovery makes a success of a row only when a batch consumed its inputs.
LEMMA ClassifySuccess ==
    ASSUME TypeOK, NEW id \in IntentTxIds, Indexed, Unpaid(seen[id]),
           \A v \in Vtxos : consumed[v] # OffchainSpend,
           ClassifyIntent(id, seen[id], idx) # seen[id]
    PROVE  Success(id, ClassifyIntent(id, seen[id], idx))
<1> DEFINE next == ClassifyIntent(id, seen[id], idx)
<1>1. seen[id] \in Rows /\ ~IsTerminal(seen[id].state) /\ id.inputs \subseteq Vtxos
  BY DEF TypeOK, ClassifyIntent, IntentTxIds
<1>2. seen[id].commitment = Unspent
  BY <1>1 DEF Unpaid, Rows, IntentStates, IsTerminal
<1>3. CASE InputsConsumed(id, idx)
  <2>1. \A v \in id.inputs : consumed[v] = idx[v] /\ idx[v] \in Rounds
    <3>1. \A v \in id.inputs : v \in Vtxos /\ idx[v] # Unspent /\ idx[v] \in Spends
      BY <1>1, <1>3 DEF InputsConsumed, TypeOK
    <3>2. \A v \in id.inputs : consumed[v] = idx[v] /\ idx[v] # OffchainSpend
      BY <3>1 DEF Indexed
    <3>3. \A r \in Spends : r # Unspent /\ r # OffchainSpend => r \in Rounds
      BY RecordsAssumption DEF Spends, Rounds, OffchainSpend, Unspent
    <3> QED
      BY <3>1, <3>2, <3>3
  <2>2. id.inputs # {}
    BY <1>3 DEF InputsConsumed
  <2>3. SettlingRounds(id, idx) # {}
    BY <2>1, <2>2 DEF SettlingRounds
  <2>4. next.commitment = CHOOSE r \in SettlingRounds(id, idx) : TRUE
    BY <1>1, <1>2, <1>3, <2>3 DEF ClassifyIntent
  <2>5. next.commitment \in SettlingRounds(id, idx)
    BY <2>3, <2>4
  <2>6. next.commitment \in {consumed[v] : v \in id.inputs}
    BY <2>1, <2>5 DEF SettlingRounds
  <2> QED
    BY <2>1, <2>6 DEF Success
<1>4. CASE ~InputsConsumed(id, idx)
  <2>1. next.state = "cancelled"
    BY <1>1, <1>4 DEF ClassifyIntent, Rows
  <2> QED
    BY <2>1 DEF Success
<1> QED
  BY <1>3, <1>4

\* Every step keeps the recorded successes real.
LEMMA RecordedStep ==
    ASSUME TypeOK, HeldFree, CallInv, RowsInv, Real, Indexed, Recorded, [Next]_vars
    PROVE  Recorded'
<1> USE DEF persisted, server, settle, process, reconciler
<1>0. /\ Kept /\ faults' = faults
      /\ \A v \in Vtxos : consumed'[v] = OffchainSpend
                             => consumed[v] = OffchainSpend \/ "spend" \in faults
  BY KeptStep
<1>a. TypeOK'
  BY TypeStep
<1> SUFFICES ASSUME faults \cap {"loss", "spend"} = {}
             PROVE  /\ \A id \in IntentTxIds : Success(id, store[id])'
                    /\ rcpc' = "save" => Success(fix.id, fix.row)'
                    /\ \A v \in Vtxos : consumed'[v] # OffchainSpend
  BY <1>0 DEF Recorded
<1>b. \A id \in IntentTxIds : store[id] \in Rows /\ Success(id, store[id])
  BY DEF Recorded, TypeOK
<1>c. fix.id \in IntentTxIds /\ fix.row \in Rows /\ (rcpc = "save" => Success(fix.id, fix.row))
  BY DEF Recorded, TypeOK
<1>d. \A v \in Vtxos : consumed'[v] # OffchainSpend
  BY <1>0 DEF Recorded
<1>e. ASSUME NEW id \in IntentTxIds, store'[id] = store[id]
      PROVE  Success(id, store[id])'
  <2>1. store[id].state = "batch_succeeded" =>
               /\ \A v \in id.inputs : consumed'[v] \in Rounds
               /\ store[id].commitment \in {consumed'[v] : v \in id.inputs}
    BY <1>0, <1>b, SuccessKept
  <2> QED
    BY <1>e, <2>1 DEF Success
<1>f. ASSUME rcpc = "save", fix' = fix PROVE Success(fix.id, fix.row)'
  <2>1. fix.row.state = "batch_succeeded" =>
               /\ \A v \in fix.id.inputs : consumed'[v] \in Rounds
               /\ fix.row.commitment \in {consumed'[v] : v \in fix.id.inputs}
    BY <1>0, <1>c, <1>f, SuccessKept
  <2> QED
    BY <1>f, <2>1 DEF Success
<1>1. CASE PersistSave
  <2>1. /\ pc = "save" /\ UNCHANGED <<consumed, rcpc, fix>>
        /\ store' = [store EXCEPT ![CurrentId] = draft]
    BY <1>1 DEF PersistSave
  <2>2. CurrentId \in IntentTxIds /\ CurrentId.inputs = job.inputs /\ job.inputs # {} /\ draft \in Rows
    BY <2>1, CurrentIdType DEF CurrentId, IntentTxId, CallInv, TypeOK
  <2>3. Success(CurrentId, draft)
    <3>1. CASE draft.state = "batch_succeeded"
      <4>1. By(draft.commitment, job.inputs)
        BY <2>1, <3>1 DEF Real
      <4> QED
        BY <2>2, <4>1, BySuccess
    <3>2. CASE draft.state # "batch_succeeded"
      BY <3>2 DEF Success
    <3> QED
      BY <3>1, <3>2
  <2>4. ASSUME NEW id \in IntentTxIds PROVE Success(id, store[id])'
    <3>1. CASE id = CurrentId
      <4>1. store'[id] = draft
        BY <2>1, <2>2, <3>1 DEF TypeOK
      <4> QED
        BY <2>1, <2>3, <3>1, <4>1 DEF Success
    <3>2. CASE id # CurrentId
      BY <1>e, <2>1, <3>2 DEF TypeOK
    <3> QED
      BY <3>1, <3>2
  <2> QED
    BY <1>d, <1>f, <2>1, <2>4
<1>2. CASE RecoverSave
  <2>1. /\ rcpc = "save" /\ rcpc' = "classify" /\ consumed' = consumed
        /\ store' = [store EXCEPT ![fix.id] = fix.row] \/ store' = store
    BY <1>2 DEF RecoverSave
  <2>2. ASSUME NEW id \in IntentTxIds PROVE Success(id, store[id])'
    <3>1. store'[id] = store[id] \/ (id = fix.id /\ store'[id] = fix.row)
      BY <1>c, <2>1 DEF TypeOK
    <3>2. CASE store'[id] = store[id]
      BY <1>e, <3>2
    <3>3. CASE id = fix.id /\ store'[id] = fix.row
      BY <1>c, <2>1, <3>3 DEF Success
    <3> QED
      BY <3>1, <3>2, <3>3
  <2> QED
    BY <1>d, <2>1, <2>2
<1>3. ASSUME NEW id \in IntentTxIds, RecoverClassify(id)
      PROVE  /\ \A i \in IntentTxIds : Success(i, store[i])'
             /\ rcpc' = "save" => Success(fix.id, fix.row)'
             /\ \A v \in Vtxos : consumed'[v] # OffchainSpend
  <2>1. /\ rcpc = "classify" /\ UNCHANGED <<store, consumed>>
        /\ \/ UNCHANGED <<fix, rcpc>>
           \/ /\ fix' = [id |-> id, row |-> ClassifyIntent(id, seen[id], idx)]
              /\ ClassifyIntent(id, seen[id], idx) # seen[id]
    BY <1>3 DEF RecoverClassify
  <2>2. Unpaid(seen[id]) /\ \A v \in Vtxos : consumed[v] # OffchainSpend
    BY DEF RowsInv, Recorded
  <2>3. ClassifyIntent(id, seen[id], idx) # seen[id]
           => Success(id, ClassifyIntent(id, seen[id], idx))
    BY <2>2, ClassifySuccess
  <2>4. rcpc' = "save" => Success(fix.id, fix.row)'
    BY <2>1, <2>3 DEF Success
  <2> QED
    BY <1>d, <1>e, <2>1, <2>4
<1>4. CASE \/ SettleStart \/ PersistRead \/ PersistFail \/ CheckPass \/ CheckFail
           \/ RegisterOk \/ RegisterRefused \/ ClearDuplicates \/ JoinStarted
           \/ JoinFinalization \/ JoinFinalized \/ JoinFailed \/ JoinStreamEnds
           \/ Confirm \/ Forfeit \/ UpdateOk \/ UpdateThrows \/ Release \/ Finally
           \/ Server \/ OffchainSend \/ LoseEvent \/ Crash \/ Restart \/ Reconnect
           \/ RecoverList \/ RecoverFetch \/ RecoverDone \/ UNCHANGED vars
  <2>1. store' = store /\ (rcpc' = "save" => rcpc = "save" /\ fix' = fix)
    BY <1>4 DEF SettleStart, PersistRead, PersistFail, CheckPass, CheckFail, RegisterOk,
       RegisterRefused, ClearDuplicates, JoinStarted, JoinFinalization, JoinFinalized, JoinFailed,
       JoinStreamEnds, Confirm, Forfeit, UpdateOk, UpdateThrows, Release, Finally, Server,
       ServerStart, ServerDrop, ServerFinalize, ServerCommit, ServerFail, OffchainSend, LoseEvent,
       Crash, Restart, Reconnect, RecoverList, RecoverFetch, RecoverDone, EndRecovery, vars
  <2> QED
    BY <1>d, <1>e, <1>f, <2>1
<1> QED
  BY <1>1, <1>2, <1>3, <1>4 DEF Next, Wallet, Recovery, Recorded

\* Nothing is recorded as settled that did not settle, as long as no event of the
\* stream is lost and, for intents, their coins are not spent elsewhere as well.
THEOREM OutcomesAreReal == Spec => []OutcomesReal
<1> DEFINE Inv == /\ TypeOK /\ HideInv /\ HeldFree /\ CallInv /\ Heard
                  /\ Indexed /\ RowsInv /\ Real /\ Recorded
<1>1. Init => Inv
  <2> SUFFICES ASSUME Init PROVE Inv
    OBVIOUS
  <2>1. TypeOK
    BY InitType
  <2>2. HideInv /\ HeldFree
    BY RecordsAssumption DEF Init, HideInv, HeldFree, Held, NotRegistered
  <2>3. CallInv
    BY DEF Init, CallInv, NotRegistered, Registering, Saving
  <2>4. Heard
    BY DEF Init, Heard, Waiting, Joined, Forfeited, Saving
  <2>5. Indexed /\ RowsInv
    BY DEF Init, Indexed, RowsInv, NoSpends, NoIds, NoRow, Unpaid
  <2>6. Real
    BY DEF Init, Real, Saving, OwnRowsReal, NoSpends
  <2>7. Recorded
    BY RecordsAssumption
       DEF Init, Recorded, NoIds, NoRow, Success, NoSpends, Unspent, OffchainSpend
  <2> QED
    BY <2>1, <2>2, <2>3, <2>4, <2>5, <2>6, <2>7
<1>2. Inv /\ [Next]_vars => Inv'
  BY TypeStep, HideStep, HeldStep, CallInvStep, HeardStep, IndexedStep, RowsStep, RealStep,
     RecordedStep
<1>3. Inv => OutcomesReal
  BY DEF Real, Recorded, Success, OutcomesReal, SuccessIsCommit
<1> QED
  BY <1>1, <1>2, <1>3, PTL DEF Spec

-----------------------------------------------------------------------------
(* An intent whose batch committed is never disowned.                       *)

\* The state a persist call gives its row, unless it finds nothing to save.
Outcome(what) ==
    CASE what = "started"   -> "batch_in_progress"
      [] what = "finalized" -> "batch_succeeded"
      [] what = "failed"    -> "batch_failed"
      [] OTHER              -> what

Drafted == pc = "save" => draft.state = Outcome(write.what)

\* What persist decides on the row it read.
LEMMA Decides ==
    ASSUME TypeOK, PersistRead
    PROVE  \/ pc' = "save" /\ draft'.state = Outcome(write.what)
           \/ /\ pc' = AfterPersist
              /\ \/ IsTerminal(store[CurrentId].state)
                 \/ store[CurrentId].state = "absent" /\ write.what \notin Snapshots
                 \/ store[CurrentId].state = Outcome(write.what) /\ write.what \notin Snapshots
<1>1. write.what \in Snapshots \cup {"started", "finalized", "failed"}
  BY DEF TypeOK, Writes
<1>2. CASE write.what \in Snapshots
  BY <1>2 DEF PersistRead, SnapshotIsNoOp, ApplySnapshot, Outcome, Snapshots
<1>3. CASE write.what \notin Snapshots
  <2>1. write.what \in {"started", "finalized", "failed"}
    BY <1>1, <1>3
  <2>2. ~IsTerminal(store[CurrentId].state)
           => ReduceIntentState(store[CurrentId].state, write.what) = Outcome(write.what)
    BY <2>1 DEF ReduceIntentState, Outcome
  <2>3. CASE EventIsNoOp(store[CurrentId], write.what)
    BY <1>3, <2>2, <2>3 DEF PersistRead, EventIsNoOp
  <2>4. CASE ~EventIsNoOp(store[CurrentId], write.what)
    <3>1. ~IsTerminal(store[CurrentId].state)
      BY <2>4 DEF EventIsNoOp, ReduceIntentState
    <3>2. pc' = "save"
          /\ draft' = ApplySettlementEvent(store[CurrentId], write.what, write.round)
      BY <1>3, <2>4 DEF PersistRead
    <3> QED
      BY <2>2, <3>1, <3>2 DEF ApplySettlementEvent
  <2> QED
    BY <2>3, <2>4
<1> QED
  BY <1>2, <1>3

\* Every step keeps what persist is about to save what its caller asked for.
LEMMA DraftedStep ==
    ASSUME TypeOK, Drafted, [Next]_vars
    PROVE  Drafted'
<1> USE DEF persisted, server, settle, process, reconciler
<1>1. CASE PersistRead
  <2>1. pc' = "save" => draft'.state = Outcome(write.what)
    BY <1>1, Decides DEF AfterPersist
  <2>2. write' = write
    BY <1>1 DEF PersistRead
  <2> QED
    BY <2>1, <2>2 DEF Drafted
<1>2. CASE PersistSave \/ PersistFail
  BY <1>2 DEF PersistSave, PersistFail, AfterPersist, Drafted
<1>3. CASE \/ SettleStart \/ CheckPass \/ CheckFail
           \/ RegisterOk \/ RegisterRefused \/ ClearDuplicates \/ JoinStarted
           \/ JoinFinalization \/ JoinFinalized \/ JoinFailed \/ JoinStreamEnds
           \/ Confirm \/ Forfeit \/ UpdateOk \/ UpdateThrows \/ Release \/ Finally \/ Crash
  BY <1>3 DEF SettleStart, CheckPass, CheckFail, RegisterOk, Receive,
       RegisterRefused, ClearDuplicates, JoinStarted, JoinFinalization, JoinFinalized, JoinFailed,
       JoinStreamEnds, Confirm, Forfeit, UpdateOk, UpdateThrows, Release, Finally, Crash, Unwind,
       Persist, Drafted
<1>4. CASE \/ Server \/ OffchainSend \/ LoseEvent \/ Restart \/ Reconnect
           \/ Recovery \/ UNCHANGED vars
  BY <1>4 DEF Server, ServerStart, ServerDrop, ServerFinalize, ServerCommit, ServerFail,
       OffchainSend, LoseEvent, Restart, Reconnect, Recovery, RecoverList, RecoverFetch,
       RecoverClassify, RecoverSave, RecoverDone, vars, Drafted
<1> QED
  BY <1>1, <1>2, <1>3, <1>4 DEF Next, Wallet

\* What recovery is about to save: a success when the inputs are consumed, or the
\* cancellation of a row that, without overlap, still waits to be submitted.
Treating ==
    /\ \A id \in left : seen[id].state \in PendingStates
    /\ rcpc = "save" =>
           /\ fix.row.state \in {"batch_succeeded", "cancelled"}
           /\ fix.row.state = "batch_succeeded" =>
                  fix.id.inputs # {} /\ \A v \in fix.id.inputs : consumed[v] # Unspent
           /\ "overlap" \notin faults =>
                  /\ store[fix.id].state \in PendingStates
                  /\ fix.row.state = "cancelled" => store[fix.id].state = "waiting_to_submit"

\* Steps that neither write the store nor belong to recovery.
LEMMA TreatingFrame ==
    ASSUME TypeOK, Treating, Kept, UNCHANGED <<store, rcpc, seen, left, fix, faults>>
    PROVE  Treating'
<1>1. fix.id.inputs \subseteq Vtxos
  BY DEF TypeOK, IntentTxIds
<1> QED
  BY <1>1 DEF Treating, Kept

\* Every step keeps what recovery is about to save justified.
LEMMA TreatingStep ==
    ASSUME TypeOK, HeldFree, OneWriter, Indexed, Treating, [Next]_vars
    PROVE  Treating'
<1> USE DEF persisted, server, settle, process, reconciler
<1>0. Kept /\ faults' = faults
  BY KeptStep
<1>1. CASE PersistSave
  <2>1. /\ pc = "save" /\ UNCHANGED <<rcpc, seen, left, fix, consumed>>
    BY <1>1 DEF PersistSave
  <2>2. "overlap" \notin faults => rcpc = "idle"
    BY <2>1 DEF OneWriter
  <2> QED
    BY <1>0, <2>1, <2>2 DEF Treating
<1>2. CASE \/ SettleStart \/ PersistRead \/ PersistFail \/ CheckPass \/ CheckFail
           \/ RegisterOk \/ RegisterRefused \/ ClearDuplicates \/ JoinStarted
           \/ JoinFinalization \/ JoinFinalized \/ JoinFailed \/ JoinStreamEnds
           \/ Confirm \/ Forfeit \/ UpdateOk \/ UpdateThrows \/ Release \/ Finally
           \/ Server \/ OffchainSend \/ LoseEvent \/ UNCHANGED vars
  <2>1. UNCHANGED <<store, rcpc, seen, left, fix>>
    BY <1>2 DEF SettleStart, PersistRead, PersistFail, CheckPass, CheckFail, RegisterOk,
       RegisterRefused, ClearDuplicates, JoinStarted, JoinFinalization, JoinFinalized, JoinFailed,
       JoinStreamEnds, Confirm, Forfeit, UpdateOk, UpdateThrows, Release, Finally, Server,
       ServerStart, ServerDrop, ServerFinalize, ServerCommit, ServerFail, OffchainSend, LoseEvent,
       vars
  <2> QED
    BY <1>0, <2>1, TreatingFrame
<1>3. CASE Crash \/ RecoverDone \/ RecoverFetch
  BY <1>3 DEF Crash, RecoverDone, RecoverFetch, EndRecovery, Treating
<1>4. CASE Restart \/ Reconnect
  BY <1>4 DEF Restart, Reconnect, Treating
<1>5. CASE RecoverList
  BY <1>5 DEF RecoverList, Treating
<1>6. CASE RecoverSave
  BY <1>6 DEF RecoverSave, Treating
<1>7. ASSUME NEW id \in IntentTxIds, RecoverClassify(id) PROVE Treating'
  <2> DEFINE next == ClassifyIntent(id, seen[id], idx)
  <2>1. /\ id \in left /\ left' = left \ {id} /\ UNCHANGED <<store, seen, consumed>>
        /\ rcpc = "classify"
        /\ \/ UNCHANGED <<fix, rcpc>>
           \/ /\ fix' = [id |-> id, row |-> next] /\ next # seen[id]
              /\ store[id].state = seen[id].state
    BY <1>7 DEF RecoverClassify
  <2>2. seen[id].state \in PendingStates /\ seen[id] \in Rows /\ id.inputs \subseteq Vtxos
    BY <2>1 DEF Treating, TypeOK, IntentTxIds
  <2>3. ASSUME next # seen[id]
        PROVE  /\ next.state \in {"batch_succeeded", "cancelled"}
               /\ next.state = "batch_succeeded" => InputsConsumed(id, idx)
               /\ next.state = "cancelled" => seen[id].state = "waiting_to_submit"
    <3>1. CASE InputsConsumed(id, idx)
      BY <2>2, <2>3, <3>1 DEF ClassifyIntent
    <3>2. CASE ~InputsConsumed(id, idx)
      BY <2>2, <2>3, <3>2 DEF ClassifyIntent, Rows
    <3> QED
      BY <3>1, <3>2
  <2>4. InputsConsumed(id, idx) => id.inputs # {} /\ \A v \in id.inputs : consumed[v] # Unspent
    BY <2>2 DEF InputsConsumed, Indexed
  <2> HIDE DEF next
  <2>5. CASE UNCHANGED <<fix, rcpc>>
    BY <2>1, <2>5 DEF Treating
  <2>6. CASE fix' = [id |-> id, row |-> next] /\ next # seen[id] /\ store[id].state = seen[id].state
    BY <1>0, <2>1, <2>2, <2>3, <2>4, <2>6 DEF Treating
  <2> QED
    BY <2>1, <2>5, <2>6
<1> QED
  BY <1>1, <1>2, <1>3, <1>4, <1>5, <1>6, <1>7 DEF Next, Wallet, Recovery

\* Attempts that are not made yet have no row, nor has a call without an id of its own.
Fresh ==
    /\ \A id \in IntentTxIds : id.tag > attempts => store[id].state = "absent"
    /\ pc # "idle" /\ job.kind = "onchain" =>
           \A id \in IntentTxIds : id.tag = attempts => store[id].state = "absent"

\* The row of the call follows the call.
Follows ==
    pc # "idle" /\ job.kind = "offchain" =>
        /\ Saving("waiting_to_submit") => store[CurrentId].state = "absent"
        /\ pc = "check" \/ Registering \/ Saving("waiting_for_batch") =>
               store[CurrentId].state = "waiting_to_submit"
        /\ (pc = "join" /\ step = "start") \/ pc = "confirm" \/ Saving("started") =>
               store[CurrentId].state \in {"waiting_for_batch", "batch_in_progress"}
        /\ (pc = "join" /\ step # "start") \/ pc = "forfeit" =>
               store[CurrentId].state = "batch_in_progress"

Progress == faults \cap {"overlap", "repo"} = {} => Fresh /\ Follows

\* The tag of the id the call persists under.
LEMMA CurrentTag ==
    ASSUME TypeOK
    PROVE  /\ CurrentId \in IntentTxIds /\ CurrentId.inputs = job.inputs
           /\ job.kind = "offchain" => CurrentId.tag = attempts
           /\ job.kind = "onchain" => CurrentId.tag = 0
BY CurrentIdType DEF CurrentId, IntentTxId

\* Steps that write no row and keep the call where it is, or leave it.
LEMMA ProgressFrame ==
    ASSUME Progress, UNCHANGED <<store, faults, attempts>>,
           \/ UNCHANGED <<pc, step, write, job>>
           \/ pc' = "idle"
           \/ job' = job /\ pc # "idle" /\ pc' \in {"release", "update", "finally"}
           \/ /\ job' = job /\ pc # "idle" /\ pc' = "read"
              /\ write'.what \in {"finalized", "failed", "cancelled", "batch_succeeded"}
    PROVE  Progress'
<1>1. CASE UNCHANGED <<pc, step, write, job>>
  BY <1>1 DEF Progress, Fresh, Follows, CurrentId, Saving, Registering
<1>2. CASE pc' = "idle"
  BY <1>2 DEF Progress, Fresh, Follows
<1>3. CASE \/ job' = job /\ pc # "idle" /\ pc' \in {"release", "update", "finally"}
           \/ /\ job' = job /\ pc # "idle" /\ pc' = "read"
              /\ write'.what \in {"finalized", "failed", "cancelled", "batch_succeeded"}
  BY <1>3 DEF Progress, Fresh, Follows, Saving, Registering
<1> QED
  BY <1>1, <1>2, <1>3

\* Where a persist call leads, and with which row.
LEMMA FollowsPersist ==
    ASSUME TypeOK, CallInv, Drafted, Follows, pc \in {"read", "save"}, pc' = AfterPersist,
           UNCHANGED <<job, attempts, step, write>>, job.kind = "offchain",
           \/ pc = "save" /\ store'[CurrentId] = draft
           \/ /\ pc = "read" /\ store' = store
              /\ \/ IsTerminal(store[CurrentId].state)
                 \/ store[CurrentId].state = "absent" /\ write.what \notin Snapshots
                 \/ store[CurrentId].state = Outcome(write.what) /\ write.what \notin Snapshots
    PROVE  Follows'
<1>1. CurrentId' = CurrentId
  BY DEF CurrentId
<1>2. write.what \in {"waiting_to_submit", "waiting_for_batch", "started"}
        => store'[CurrentId].state = Outcome(write.what)
  BY DEF Drafted, Follows, Saving, IsTerminal, TerminalStates, Snapshots
<1>3. CASE write.what = "waiting_to_submit"
  BY <1>1, <1>2, <1>3 DEF Follows, AfterPersist, Outcome, Saving, Registering
<1>4. CASE write.what = "waiting_for_batch"
  <2>1. step = "start" /\ pc' = "join"
    BY <1>4 DEF CallInv, Saving, AfterPersist
  <2> QED
    BY <1>1, <1>2, <1>4, <2>1 DEF Follows, Outcome, Saving, Registering
<1>5. CASE write.what = "started"
  <2>1. step = "batch_started" /\ pc' = "join"
    BY <1>5 DEF CallInv, Saving, AfterPersist
  <2> QED
    BY <1>1, <1>2, <1>5, <2>1 DEF Follows, Outcome, Saving, Registering
<1>6. CASE write.what \notin {"waiting_to_submit", "waiting_for_batch", "started"}
  <2>1. pc' \in {"update", "release", "finally"}
    BY <1>6 DEF AfterPersist
  <2> QED
    BY <2>1 DEF Follows, Saving, Registering
<1> QED
  BY <1>3, <1>4, <1>5, <1>6

\* Every step keeps the row of the call in line with the call.
LEMMA ProgressStep ==
    ASSUME TypeOK, HeldFree, CallInv, OneWriter, Drafted, Treating, Progress, [Next]_vars
    PROVE  Progress'
<1> USE DEF persisted, server, settle, process, reconciler
<1>0. faults' = faults
  BY KeptStep
<1>a. CASE faults \cap {"overlap", "repo"} # {}
  BY <1>0, <1>a DEF Progress
<1>b. CASE faults \cap {"overlap", "repo"} = {}
  <2>0. "overlap" \notin faults /\ "repo" \notin faults /\ Fresh /\ Follows
    BY <1>b DEF Progress
  <2>a. attempts \in Nat /\ job.kind \in {"offchain", "onchain"}
    BY RecordsAssumption DEF TypeOK
  <2>1. CASE SettleStart
    <3>1. /\ pc = "idle" /\ attempts' = attempts + 1 /\ store' = store
          /\ pc' = "read" /\ write'.what = "waiting_to_submit"
      BY <2>1 DEF SettleStart, Persist
    <3>2. /\ CurrentId' \in IntentTxIds
          /\ job'.kind = "offchain" => CurrentId'.tag = attempts'
      <4>1. TypeOK'
        BY TypeStep
      <4> QED
        BY <4>1, RecordsAssumption DEF TypeOK, CurrentId, IntentTxId, IntentTxIds
    <3>3. \A id \in IntentTxIds : id.tag >= attempts' => store'[id].state = "absent"
      <4> SUFFICES ASSUME NEW id \in IntentTxIds, id.tag >= attempts' PROVE store[id].state = "absent"
        BY <3>1
      <4>1. id.tag \in Int /\ id.tag > attempts
        BY <2>a, <3>1, RecordsAssumption DEF IntentTxIds
      <4> QED
        BY <2>0, <4>1 DEF Fresh
    <3>4. Fresh'
      <4>1. \A id \in IntentTxIds : id.tag \in Int
        BY RecordsAssumption DEF IntentTxIds
      <4> QED
        BY <2>a, <3>1, <3>3, <4>1 DEF Fresh
    <3>5. job'.kind = "offchain" => store'[CurrentId'].state = "absent"
      BY <2>a, <3>1, <3>2, <3>3
    <3>6. Follows'
      BY <3>1, <3>5 DEF Follows, Saving, Registering
    <3> QED
      BY <3>4, <3>6 DEF Progress
  <2>2. CASE PersistRead
    <3>1. /\ pc = "read" /\ UNCHANGED <<store, attempts, job, step, write>>
      BY <2>2 DEF PersistRead
    <3>2. CASE pc' = "save"
      BY <1>0, <2>0, <3>1, <3>2 DEF Progress, Fresh, Follows, CurrentId, Saving, Registering
    <3>3. CASE pc' # "save"
      <4>1. /\ pc' = AfterPersist
            /\ \/ IsTerminal(store[CurrentId].state)
               \/ store[CurrentId].state = "absent" /\ write.what \notin Snapshots
               \/ store[CurrentId].state = Outcome(write.what) /\ write.what \notin Snapshots
        BY <2>2, <3>3, Decides
      <4>2. job.kind = "offchain" => Follows'
        BY <2>0, <3>1, <4>1, FollowsPersist
      <4>3. job.kind = "onchain" => Follows'
        BY <3>1 DEF Follows
      <4> QED
        BY <2>0, <2>a, <3>1, <4>2, <4>3 DEF Progress, Fresh
    <3> QED
      BY <3>2, <3>3
  <2>3. CASE PersistSave
    <3>1. /\ pc = "save" /\ pc' = AfterPersist /\ UNCHANGED <<attempts, job, step, write>>
          /\ store' = [store EXCEPT ![CurrentId] = draft]
      BY <2>3 DEF PersistSave
    <3>2. store'[CurrentId] = draft
      BY <3>1, CurrentIdType DEF TypeOK
    <3>3. \A id \in IntentTxIds : id # CurrentId => store'[id] = store[id]
      BY <3>1 DEF TypeOK
    <3>4. job.kind = "offchain" => Follows'
      BY <2>0, <3>1, <3>2, FollowsPersist
    <3>5. job.kind = "onchain" => Follows'
      BY <3>1 DEF Follows
    <3>6. attempts # 0
      BY <3>1 DEF TypeOK, Attempts
    <3>7. Fresh'
      <4>1. job.kind = "onchain" => ~(CurrentId.tag > attempts) /\ CurrentId.tag # attempts
        BY <2>a, <3>6, CurrentTag
      <4>2. job.kind = "offchain" => ~(CurrentId.tag > attempts)
        BY <2>a, CurrentTag
      <4>3. \A id \in IntentTxIds : id.tag > attempts => store'[id].state = "absent"
        BY <2>0, <2>a, <3>3, <4>1, <4>2 DEF Fresh
      <4>4. job.kind = "onchain" =>
              \A id \in IntentTxIds : id.tag = attempts => store'[id].state = "absent"
        BY <2>0, <3>1, <3>3, <4>1 DEF Fresh
      <4> QED
        BY <3>1, <4>3, <4>4 DEF Fresh
    <3> QED
      BY <2>a, <3>4, <3>5, <3>7 DEF Progress
  <2>4. CASE PersistFail
    BY <2>0, <2>4 DEF PersistFail
  <2>5. CASE CheckPass \/ RegisterRefused \/ ClearDuplicates
    <3>1. /\ UNCHANGED <<store, attempts, job>> /\ (pc = "check" \/ Registering) /\ pc # "idle"
          /\ pc' \in {"register", "clear", "register_again", "release"}
      BY <2>5 DEF CheckPass, RegisterRefused, ClearDuplicates, Registering
    <3> QED
      BY <1>0, <2>0, <3>1 DEF Progress, Fresh, Follows, CurrentId, Saving, Registering
  <2>6. CASE RegisterOk
    <3>1. /\ UNCHANGED <<store, attempts, job>> /\ Registering /\ pc # "idle"
          /\ \/ pc' = "read" /\ write'.what = "waiting_for_batch"
             \/ pc' = "release"
      BY <2>6 DEF RegisterOk, Persist, Registering
    <3> QED
      BY <1>0, <2>0, <3>1 DEF Progress, Fresh, Follows, CurrentId, Saving, Registering
  <2>7. CASE JoinStarted
    <3>1. /\ UNCHANGED <<store, attempts, job, step>> /\ pc = "join" /\ pc' \in {"join", "confirm"}
      BY <2>7 DEF JoinStarted, Receive
    <3> QED
      BY <1>0, <2>0, <3>1 DEF Progress, Fresh, Follows, CurrentId, Saving, Registering
  <2>8. CASE JoinFinalization
    <3>1. /\ UNCHANGED <<store, attempts, job, step>> /\ pc = "join"
          /\ \/ pc' = "join" \/ pc' = "release"
             \/ pc' = "forfeit" /\ step = "batch_started"
      BY <2>8 DEF JoinFinalization, Receive
    <3> QED
      BY <1>0, <2>0, <3>1 DEF Progress, Fresh, Follows, CurrentId, Saving, Registering
  <2>9. CASE JoinFinalized
    <3>1. /\ UNCHANGED <<store, attempts, job, step>> /\ pc = "join"
          /\ \/ UNCHANGED <<pc, write>>
             \/ pc' = "read" /\ write'.what = "finalized"
      BY <2>9 DEF JoinFinalized, Receive, Persist
    <3> QED
      BY <1>0, <3>1, ProgressFrame
  <2>10. CASE Confirm
    <3>1. /\ UNCHANGED <<store, attempts, job>> /\ pc = "confirm"
          /\ \/ pc' = "release"
             \/ pc' = "read" /\ write'.what = "started"
      BY <2>10 DEF Confirm, Persist
    <3> QED
      BY <1>0, <2>0, <3>1 DEF Progress, Fresh, Follows, CurrentId, Saving, Registering
  <2>11. CASE Forfeit
    <3>1. /\ UNCHANGED <<store, attempts, job>> /\ pc = "forfeit"
          /\ \/ pc' = "release"
             \/ pc' = "join" /\ step' = "batch_finalization"
      BY <2>11 DEF Forfeit
    <3> QED
      BY <1>0, <2>0, <3>1 DEF Progress, Fresh, Follows, CurrentId, Saving, Registering
  <2>12. CASE CheckFail \/ JoinFailed \/ JoinStreamEnds \/ UpdateOk \/ UpdateThrows \/ Release
              \/ Finally \/ Crash
    <3>1. /\ UNCHANGED <<store, attempts>>
          /\ \/ pc' = "idle"
             \/ job' = job /\ pc # "idle" /\ pc' \in {"release", "update", "finally"}
             \/ /\ job' = job /\ pc # "idle" /\ pc' = "read"
                /\ write'.what \in {"finalized", "failed", "cancelled", "batch_succeeded"}
      BY <2>12 DEF CheckFail, JoinFailed, JoinStreamEnds, UpdateOk, UpdateThrows, Release,
         Finally, Crash, Receive, Persist, Unwind
    <3> QED
      BY <1>0, <3>1, ProgressFrame
  <2>13. CASE Server \/ OffchainSend \/ LoseEvent \/ Restart \/ Reconnect \/ RecoverList
              \/ RecoverFetch \/ RecoverDone \/ UNCHANGED vars
              \/ \E id \in IntentTxIds : RecoverClassify(id)
    <3>1. UNCHANGED <<store, attempts, pc, step, write, job>>
      BY <2>13 DEF Server, ServerStart, ServerDrop, ServerFinalize, ServerCommit, ServerFail,
         OffchainSend, LoseEvent, Restart, Reconnect, RecoverList, RecoverFetch, RecoverDone,
         RecoverClassify, vars
    <3> QED
      BY <1>0, <3>1, ProgressFrame
  <2>14. CASE RecoverSave
    <3>1. /\ rcpc = "save" /\ UNCHANGED <<attempts, pc>>
          /\ store' = [store EXCEPT ![fix.id] = fix.row] \/ store' = store
      BY <2>14 DEF RecoverSave
    <3>2. pc = "idle" /\ store[fix.id].state # "absent"
      BY <2>0, <3>1 DEF OneWriter, Treating, PendingStates
    <3>3. \A id \in IntentTxIds : store[id].state = "absent" => store'[id] = store[id]
      BY <3>1, <3>2 DEF TypeOK
    <3> QED
      BY <2>0, <3>1, <3>2, <3>3 DEF Progress, Fresh, Follows
  <2> QED
    BY <2>1, <2>2, <2>3, <2>4, <2>5, <2>6, <2>7, <2>8, <2>9, <2>10, <2>11, <2>12, <2>13, <2>14
       DEF Next, Wallet, Recovery
<1> QED
  BY <1>a, <1>b

\* From the forfeits on only the server decides; a committed attempt stays one.
Committing(a) == a \in done \/ (round.phase = "forfeited" /\ round.member = a)

Calm == faults \cap {"overlap", "stream", "loss", "rpc", "repo"} = {}

\* A call that is committed has its forfeits accepted, or records the success.
Succeeding ==
    Forfeited \/ Saving("finalized") \/ Saving("batch_succeeded") \/ pc \in {"update", "finally"}

Owned ==
    Calm =>
        /\ \A a \in Attempts : Committing(a) =>
               RowOf(a).state \notin {"cancelled", "batch_failed", "waiting_to_submit"}
        /\ pc # "idle" /\ Committing(attempts) => Succeeding

\* Steps that neither write a row, nor register, nor give the server the forfeits.
LEMMA OwnedFrame ==
    ASSUME Owned, UNCHANGED <<store, claims, faults>>,
           \A a \in Attempts : Committing(a)' => Committing(a),
           pc' # "idle" => pc # "idle" /\ attempts' = attempts /\ attempts \in Attempts,
           Succeeding /\ Committing(attempts) /\ pc' # "idle" => Succeeding'
    PROVE  Owned'
BY DEF Owned, Calm, RowOf

\* A call that waits for the commit hears of the commit, and of nothing else.
LEMMA Awaits ==
    ASSUME TypeOK, Heard, Owned, Calm, Committing(attempts), pc = "join"
    PROVE  \/ chan = <<>> /\ round.phase # "idle"
           \/ chan # <<>> /\ Head(chan).type = "finalized" /\ step = "batch_finalization"
<1>1. Succeeding /\ "loss" \notin faults
  BY DEF Owned, Calm
<1>2. Forfeited
  BY <1>1 DEF Succeeding, Saving
<1>3. ~(Unconfirmed /\ attempts \notin done)
  BY DEF Committing, Unconfirmed
<1>4. \/ At("forfeited")
      \/ Len(chan) > 0 /\ chan[1].type = "finalized"
  BY <1>1, <1>2, <1>3 DEF Heard
<1>5. chan \in Seq(Events)
  BY DEF TypeOK
<1>6. CASE At("forfeited")
  BY <1>5, <1>6 DEF At, IsMember
<1>7. CASE Len(chan) > 0 /\ chan[1].type = "finalized"
  <2>1. chan # <<>>
    BY <1>7
  <2> QED
    BY <1>2, <1>7, <2>1, Tails DEF Forfeited
<1> QED
  BY <1>4, <1>6, <1>7

\* Every step leaves committed attempts their rows.
LEMMA OwnedStep ==
    ASSUME TypeOK, HideInv, HeldFree, CallInv, Heard, OneWriter, Drafted, Treating, Progress, Owned,
           [Next]_vars
    PROVE  Owned'
<1> USE DEF persisted, server, settle, process, reconciler
<1>0. faults' = faults /\ attempts \in Int
  BY KeptStep, RecordsAssumption DEF TypeOK
<1>9. pc # "idle" => attempts \in Attempts
  BY DEF TypeOK
<1>a. CASE ~Calm
  BY <1>0, <1>a DEF Owned, Calm
<1>b. CASE Calm
  <2>0. /\ "overlap" \notin faults /\ "repo" \notin faults /\ "rpc" \notin faults
        /\ "stream" \notin faults /\ "loss" \notin faults
        /\ faults \cap {"overlap", "repo"} = {}
    BY <1>b DEF Calm
  <2>1. CASE SettleStart
    <3>1. /\ UNCHANGED <<store, claims, done, round>> /\ attempts' = attempts + 1
      BY <2>1 DEF SettleStart
    <3>2. attempts' \notin done' /\ round'.member # attempts'
      BY <1>0, <3>1, RecordsAssumption DEF HeldFree, TypeOK, Batches, Attempts
    <3> QED
      BY <1>b, <3>1, <3>2 DEF Owned, Calm, Committing, RowOf
  <2>2. CASE PersistSave
    <3>1. /\ UNCHANGED <<claims, done, round, attempts, job>> /\ pc = "save" /\ pc' = AfterPersist
          /\ store' = [store EXCEPT ![CurrentId] = draft] /\ write' = write
      BY <2>2 DEF PersistSave
    <3>2. CurrentId \in IntentTxIds /\ CurrentId.tag \in {attempts, 0}
      BY CurrentTag DEF TypeOK
    <3>3. Committing(attempts) => Saving("finalized") \/ Saving("batch_succeeded")
      BY <1>b, <3>1 DEF Owned, Succeeding, Forfeited
    <3>4. Committing(attempts) => draft.state = "batch_succeeded" /\ pc' \in {"update", "finally"}
      BY <3>1, <3>3 DEF Drafted, Saving, Outcome, AfterPersist
    <3>5. ASSUME NEW a \in Attempts, Committing(a)
          PROVE  RowOf(a)'.state \notin {"cancelled", "batch_failed", "waiting_to_submit"}
      <4> DEFINE id == [inputs |-> claims[a], tag |-> a]
      <4>1. id \in IntentTxIds /\ id.tag = a /\ a # 0
        BY RecordsAssumption DEF TypeOK, IntentTxIds, Attempts
      <4>2. RowOf(a) = store[id] /\ RowOf(a)' = store'[id]
        BY <3>1 DEF RowOf
      <4>3. CASE id = CurrentId
        <5>1. a = attempts
          BY <3>2, <4>1, <4>3
        <5>2. store'[id] = draft
          BY <3>1, <3>2, <4>3 DEF TypeOK
        <5> QED
          BY <3>4, <3>5, <4>2, <5>1, <5>2
      <4>4. CASE id # CurrentId
        <5>1. store'[id] = store[id]
          BY <3>1, <4>1, <4>4 DEF TypeOK
        <5> QED
          BY <1>b, <3>5, <4>2, <5>1 DEF Owned
      <4> QED
        BY <4>3, <4>4
    <3>6. Committing(attempts) => Succeeding'
      BY <3>4 DEF Succeeding
    <3> QED
      BY <3>1, <3>5, <3>6 DEF Owned, Committing
  <2>3. CASE RecoverSave
    <3>1. /\ UNCHANGED <<claims, done, round, attempts, pc>> /\ rcpc = "save"
          /\ store' = [store EXCEPT ![fix.id] = fix.row] \/ store' = store
      BY <2>3 DEF RecoverSave
    <3>2. /\ fix.id \in IntentTxIds /\ pc = "idle"
          /\ fix.row.state \in {"batch_succeeded", "cancelled"}
          /\ fix.row.state = "cancelled" => store[fix.id].state = "waiting_to_submit"
      BY <2>0, <3>1 DEF TypeOK, OneWriter, Treating
    <3>3. ASSUME NEW a \in Attempts, Committing(a)
          PROVE  RowOf(a)'.state \notin {"cancelled", "batch_failed", "waiting_to_submit"}
      <4> DEFINE id == [inputs |-> claims[a], tag |-> a]
      <4>1. id \in IntentTxIds
        BY RecordsAssumption DEF TypeOK, IntentTxIds, Attempts
      <4>2. RowOf(a) = store[id] /\ RowOf(a)' = store'[id]
        BY <3>1 DEF RowOf
      <4>3. store[id].state \notin {"cancelled", "batch_failed", "waiting_to_submit"}
        BY <1>b, <3>3, <4>2 DEF Owned
      <4>4. store'[id] = store[id] \/ (id = fix.id /\ store'[id] = fix.row)
        BY <3>1, <3>2, <4>1 DEF TypeOK
      <4> QED
        BY <3>2, <4>2, <4>3, <4>4
    <3> QED
      BY <3>1, <3>2, <3>3 DEF Owned, Committing
  <2>4. CASE RegisterOk
    <3>1. /\ UNCHANGED <<store, done, round, attempts>> /\ pc # "idle" /\ Registering
          /\ claims' = [claims EXCEPT ![attempts] = job.inputs]
      BY <2>4 DEF RegisterOk, Registering
    <3>2. ~Committing(attempts)
      BY <3>1 DEF CallInv, Committing
    <3>3. \A a \in Attempts : Committing(a) => RowOf(a)' = RowOf(a)
      BY <3>1, <3>2 DEF RowOf, TypeOK
    <3> QED
      BY <1>b, <3>1, <3>2, <3>3 DEF Owned, Committing
  <2>5. CASE Forfeit
    <3>1. /\ UNCHANGED <<store, done, claims, attempts, job>> /\ pc = "forfeit"
      BY <2>5 DEF Forfeit
    <3>2. CASE ~IsMember("finalizing")
      <4>1. round' = round
        BY <2>5, <3>2 DEF Forfeit
      <4>2. ~Committing(attempts)
        BY <1>b, <3>1 DEF Owned, Succeeding, Forfeited, Saving
      <4> QED
        BY <1>0, <1>9, <3>1, <4>1, <4>2, OwnedFrame DEF Committing
    <3>3. CASE IsMember("finalizing")
      <4>1. /\ round' = [round EXCEPT !.phase = "forfeited"]
            /\ pc' = "join" /\ step' = "batch_finalization"
        BY <2>0, <2>5, <3>3 DEF Forfeit
      <4>2. attempts \in Held /\ round'.member = attempts
        BY <1>9, <3>1, <3>3, <4>1 DEF IsMember, Held, TypeOK, Batches, Attempts
      <4>3. claims[attempts] = job.inputs
        BY <3>1, <4>2 DEF HideInv
      <4>4. RowOf(attempts).state \notin {"cancelled", "batch_failed", "waiting_to_submit"}
        <5>1. Fresh /\ Follows
          BY <2>0 DEF Progress
        <5>2. CASE job.kind = "offchain"
          <6>1. RowOf(attempts) = store[CurrentId]
            BY <4>3, <5>2 DEF RowOf, CurrentId, IntentTxId
          <6> QED
            BY <3>1, <5>1, <5>2, <6>1 DEF Follows
        <5>3. CASE job.kind = "onchain"
          <6>1. [inputs |-> claims[attempts], tag |-> attempts] \in IntentTxIds
            BY <1>9, <3>1, RecordsAssumption DEF TypeOK, IntentTxIds
          <6>2. RowOf(attempts).state = "absent"
            BY <3>1, <5>1, <5>3, <6>1 DEF Fresh, RowOf
          <6> QED
            BY <6>2
        <5> QED
          BY <5>2, <5>3 DEF TypeOK
      <4>5. \A a \in Attempts : Committing(a)' => Committing(a) \/ a = attempts
        BY <3>1, <4>2 DEF Committing
      <4>6. \A a \in Attempts : RowOf(a)' = RowOf(a)
        BY <3>1 DEF RowOf
      <4>7. Succeeding'
        BY <4>1 DEF Succeeding, Forfeited
      <4> QED
        BY <1>b, <4>4, <4>5, <4>6, <4>7 DEF Owned
    <3> QED
      BY <3>2, <3>3
  <2>6. CASE \/ PersistRead \/ PersistFail \/ CheckPass \/ RegisterRefused \/ ClearDuplicates
             \/ UpdateOk \/ UpdateThrows \/ Release
    <3>1. /\ UNCHANGED <<store, done, round, claims, attempts>> /\ pc # "idle"
          /\ Succeeding => Succeeding'
      BY <2>0, <2>6 DEF PersistRead, PersistFail, CheckPass, RegisterRefused, ClearDuplicates,
         UpdateOk, UpdateThrows, Release, Persist, Succeeding, Forfeited, Saving, AfterPersist
    <3> QED
      BY <1>0, <1>9, <3>1, OwnedFrame DEF Committing
  <2>7. CASE CheckFail \/ Finally \/ Crash
    <3>1. UNCHANGED <<store, done, round, claims>> /\ pc' = "idle"
      BY <2>7 DEF CheckFail, Finally, Crash, Unwind
    <3> QED
      BY <1>0, <3>1, OwnedFrame DEF Committing
  <2>8. CASE JoinStarted \/ JoinFinalization \/ JoinFinalized \/ JoinFailed \/ JoinStreamEnds
    <3>1. /\ UNCHANGED <<store, done, round, claims, attempts>> /\ pc = "join"
      BY <2>8 DEF JoinStarted, JoinFinalization, JoinFinalized, JoinFailed, JoinStreamEnds, Receive
    <3>2. ASSUME Committing(attempts) PROVE Succeeding'
      <4>1. \/ chan = <<>> /\ round.phase # "idle"
            \/ chan # <<>> /\ Head(chan).type = "finalized" /\ step = "batch_finalization"
        BY <1>b, <3>1, <3>2, Awaits
      <4>2. JoinFinalized /\ step = "batch_finalization"
        BY <2>0, <2>8, <4>1 DEF JoinStarted, JoinFinalization, JoinFinalized, JoinFailed,
           JoinStreamEnds, Receive, OutOfRounds
      <4> QED
        BY <4>2 DEF JoinFinalized, Persist, Succeeding, Saving
    <3> QED
      BY <1>0, <1>9, <3>1, <3>2, OwnedFrame DEF Committing
  <2>9. CASE Confirm
    <3>1. /\ UNCHANGED <<store, done, claims, attempts>> /\ pc = "confirm"
          /\ round' = round \/ (round' = [round EXCEPT !.phase = "confirmed"])
      BY <2>9 DEF Confirm
    <3>2. \A a \in Attempts : Committing(a)' => Committing(a)
      BY <3>1 DEF Committing, TypeOK, Batches
    <3>3. ~Succeeding
      BY <3>1 DEF Succeeding, Forfeited, Saving
    <3> QED
      BY <1>0, <1>9, <3>1, <3>2, <3>3, OwnedFrame
  <2>10. CASE Server
    <3>1. UNCHANGED <<store, claims, settle>>
      BY <2>10 DEF Server, ServerStart, ServerDrop, ServerFinalize, ServerCommit, ServerFail
    <3>2. \A a \in Attempts : Committing(a)' => Committing(a)
      BY <2>10 DEF Server, ServerStart, ServerDrop, ServerFinalize, ServerCommit, ServerFail,
         Committing, TypeOK, Batches, Attempts
    <3>3. Succeeding' = Succeeding
      BY <3>1 DEF Succeeding, Forfeited, Saving
    <3> QED
      BY <1>0, <1>9, <3>1, <3>2, <3>3, OwnedFrame
  <2>11. CASE OffchainSend \/ LoseEvent \/ Restart \/ Reconnect \/ RecoverList
              \/ RecoverFetch \/ RecoverDone \/ UNCHANGED vars
              \/ \E id \in IntentTxIds : RecoverClassify(id)
    <3>1. UNCHANGED <<store, done, round, claims, settle>>
      BY <2>11 DEF OffchainSend, LoseEvent, Restart, Reconnect, RecoverList, RecoverFetch,
         RecoverDone, RecoverClassify, vars
    <3>2. Succeeding' = Succeeding
      BY <3>1 DEF Succeeding, Forfeited, Saving
    <3> QED
      BY <1>0, <1>9, <3>1, <3>2, OwnedFrame DEF Committing
  <2> QED
    BY <2>1, <2>2, <2>3, <2>4, <2>5, <2>6, <2>7, <2>8, <2>9, <2>10, <2>11
       DEF Next, Wallet, Recovery
<1> QED
  BY <1>a, <1>b

\* The invariants that describe the call, the server and the stream, together.
Told == TypeOK /\ HideInv /\ HeldFree /\ CallInv /\ Heard /\ Indexed

\* They hold from the start.
LEMMA ToldInit == ASSUME Init PROVE Told
<1>1. TypeOK
  BY InitType
<1>2. HideInv /\ HeldFree
  BY RecordsAssumption DEF Init, HideInv, HeldFree, Held, NotRegistered
<1>3. CallInv
  BY DEF Init, CallInv, NotRegistered, Registering, Saving
<1>4. Heard
  BY DEF Init, Heard, Waiting, Joined, Forfeited, Saving
<1>5. Indexed
  BY DEF Init, Indexed, NoSpends
<1> QED
  BY <1>1, <1>2, <1>3, <1>4, <1>5 DEF Told

\* And every step keeps them.
LEMMA ToldStep == ASSUME Told, [Next]_vars PROVE Told'
BY TypeStep, HideStep, HeldStep, CallInvStep, HeardStep, IndexedStep DEF Told

\* The invariants about who writes which row, together.
Writers == OneWriter /\ Drafted /\ Treating /\ Progress

\* They hold from the start.
LEMMA WritersInit == ASSUME Init PROVE Writers
<1>1. OneWriter /\ Drafted
  BY DEF Init, OneWriter, Drafted
<1>2. Treating
  BY DEF Init, Treating
<1>3. Progress
  BY DEF Init, Progress, Fresh, Follows, NoIds, NoRow
<1> QED
  BY <1>1, <1>2, <1>3 DEF Writers

\* And every step keeps them.
LEMMA WritersStep == ASSUME Told, Writers, [Next]_vars PROVE Writers'
BY OneWriterStep, DraftedStep, TreatingStep, ProgressStep DEF Told, Writers

\* An intent whose batch committed is never recorded as cancelled or failed, as long
\* as the call hears what the server did and its writes reach the store.
THEOREM CommitsAreOwned == Spec => []NeverDisowned
<1> DEFINE Inv == Told /\ Writers /\ Owned
<1>1. Init => Inv
  <2> SUFFICES ASSUME Init PROVE Owned
    BY ToldInit, WritersInit
  <2> QED
    BY DEF Init, Owned, Committing
<1>2. Inv /\ [Next]_vars => Inv'
  BY ToldStep, WritersStep, OwnedStep DEF Told, Writers
<1>3. Inv => NeverDisowned
  <2> SUFFICES ASSUME Inv PROVE NeverDisowned
    OBVIOUS
  <2>1. done \subseteq Attempts
    BY DEF Told, TypeOK
  <2> QED
    BY <2>1 DEF Owned, Calm, Committing, NeverDisowned, CommitNotCancelled
<1> QED
  BY <1>1, <1>2, <1>3, PTL DEF Spec

-----------------------------------------------------------------------------
(* The coin lock follows the batch.                                         *)

\* As long as no process died a row without an outcome belongs to the call in
\* flight, and not even to that one once its outcome is known.
InFlight ==
    faults \cap {"precheck", "repo"} = {} /\ crashes = 0 =>
        \A id \in IntentTxIds : store[id].state \in PendingStates =>
            id = CurrentId /\ pc \notin {"idle", "update", "finally"} /\ ~Saving("batch_succeeded")

\* Steps that leave the rows alone and do not end the call.
LEMMA InFlightFrame ==
    ASSUME InFlight, UNCHANGED <<faults, crashes, store>>,
           \/ UNCHANGED <<job, attempts>> /\ pc' \notin {"idle", "update", "finally"} /\ ~Saving("batch_succeeded")'
           \/ pc \in {"idle", "update", "finally"} \/ Saving("batch_succeeded")
    PROVE  InFlight'
BY DEF InFlight, CurrentId

\* Every step of a wallet whose store works leaves a row without an outcome to the
\* call in flight only.
LEMMA InFlightStep ==
    ASSUME TypeOK, CallInv, Drafted, RowsInv, InFlight, [Next]_vars
    PROVE  InFlight'
<1> USE DEF persisted, server, settle, process, reconciler
<1>0. write.what \in Snapshots \cup {"started", "finalized", "failed"}
  BY DEF TypeOK, Writes
<1>1. CASE PersistRead
  <2>1. pc = "read" /\ UNCHANGED <<faults, crashes, store, job, attempts, write>>
    BY <1>1 DEF PersistRead
  <2>2. CASE pc' = "save"
    BY <2>1, <2>2, InFlightFrame DEF Saving
  <2>3. CASE pc' # "save"
    <3>1. /\ pc' = AfterPersist
          /\ \/ IsTerminal(store[CurrentId].state)
             \/ store[CurrentId].state = "absent" /\ write.what \notin Snapshots
             \/ store[CurrentId].state = Outcome(write.what) /\ write.what \notin Snapshots
      BY <1>1, <2>3, Decides
    <3>2. pc' \in {"update", "finally"} => store[CurrentId].state \notin PendingStates
      BY <1>0, <3>1 DEF AfterPersist, Outcome, IsTerminal, TerminalStates, PendingStates, Snapshots
    <3>3. pc' \notin {"idle", "read", "save"}
      BY <3>1 DEF AfterPersist
    <3> QED
      BY <2>1, <3>2, <3>3 DEF InFlight, CurrentId, Saving
  <2> QED
    BY <2>2, <2>3
<1>2. CASE PersistSave
  <2>1. /\ pc = "save" /\ pc' = AfterPersist /\ UNCHANGED <<faults, crashes, job, attempts, write>>
        /\ store' = [store EXCEPT ![CurrentId] = draft]
    BY <1>2 DEF PersistSave
  <2>2. draft.state = Outcome(write.what)
    BY <2>1 DEF Drafted
  <2>3. pc' \in {"update", "finally"} => draft.state \notin PendingStates
    BY <1>0, <2>1, <2>2 DEF AfterPersist, Outcome, PendingStates, Snapshots
  <2>4. pc' \notin {"idle", "read", "save"}
    BY <2>1 DEF AfterPersist
  <2>5. \A id \in IntentTxIds : \/ id = CurrentId /\ store'[id] = draft
                                \/ id # CurrentId /\ store'[id] = store[id]
    BY <2>1 DEF TypeOK
  <2> QED
    BY <2>1, <2>3, <2>4, <2>5 DEF InFlight, CurrentId, Saving
<1>3. CASE PersistFail \/ CheckFail
  <2>1. faults' = faults /\ faults \cap {"precheck", "repo"} # {}
    BY <1>3 DEF PersistFail, CheckFail
  <2> QED
    BY <2>1 DEF InFlight
<1>4. CASE SettleStart \/ UpdateOk \/ UpdateThrows \/ Finally
  <2>1. UNCHANGED <<faults, crashes, store>> /\ pc \in {"idle", "update", "finally"}
    BY <1>4 DEF SettleStart, UpdateOk, UpdateThrows, Finally
  <2> QED
    BY <2>1, InFlightFrame
<1>5. CASE CheckPass \/ RegisterOk \/ RegisterRefused \/ ClearDuplicates \/ JoinStarted
           \/ JoinFinalization \/ JoinFinalized \/ JoinFailed \/ JoinStreamEnds \/ Confirm
           \/ Forfeit \/ Release
  <2>1. /\ UNCHANGED <<faults, crashes, store, job, attempts>>
        /\ pc' \notin {"idle", "update", "finally"} /\ ~Saving("batch_succeeded")'
    BY <1>5 DEF CheckPass, RegisterOk, RegisterRefused, ClearDuplicates, JoinStarted,
       JoinFinalization, JoinFinalized, JoinFailed, JoinStreamEnds, Confirm, Forfeit, Release,
       Receive, Persist, Saving
  <2> QED
    BY <2>1, InFlightFrame
<1>6. CASE Server \/ OffchainSend \/ LoseEvent \/ Restart \/ Reconnect \/ RecoverList
           \/ RecoverFetch \/ RecoverDone \/ UNCHANGED vars
           \/ \E id \in IntentTxIds : RecoverClassify(id)
  <2>1. UNCHANGED <<store, settle, faults, crashes>>
    BY <1>6 DEF Server, ServerStart, ServerDrop, ServerFinalize, ServerCommit, ServerFail,
       OffchainSend, LoseEvent, Restart, Reconnect, RecoverList, RecoverFetch, RecoverDone,
       RecoverClassify, vars
  <2> QED
    BY <2>1 DEF InFlight, CurrentId, Saving
<1>7. CASE Crash
  BY <1>7 DEF Crash, TypeOK, InFlight
<1>8. CASE RecoverSave
  <2>1. /\ UNCHANGED <<settle, faults, crashes>> /\ rcpc = "save"
        /\ store' = [store EXCEPT ![fix.id] = fix.row] \/ store' = store
    BY <1>8 DEF RecoverSave
  <2>2. fix.row.state \notin PendingStates
    BY <2>1 DEF RowsInv, IsTerminal, TerminalStates, PendingStates
  <2>3. \A id \in IntentTxIds : store'[id].state \in PendingStates => store'[id] = store[id]
    BY <2>1, <2>2 DEF TypeOK
  <2> QED
    BY <2>1, <2>3 DEF InFlight, CurrentId, Saving
<1> QED
  BY <1>1, <1>2, <1>3, <1>4, <1>5, <1>6, <1>7, <1>8 DEF Next, Wallet, Recovery

\* A batch that took the confirmation of its member, and did not end.
Engaged == round.phase \in {"confirmed", "finalizing", "forfeited"}

\* The environments in which the call hears of its own batch only.
Steady == faults \cap {"overlap", "stream", "rpc", "repo", "requeue"} = {}

\* No start of a batch with the call is under way.
NoStart == \A i \in DOMAIN chan : ~(chan[i].type = "started" /\ Ours(chan[i]))

\* The call joins one batch: it is queued before, follows the phases of the batch
\* one by one, and finds no other event in the stream until the batch ends.
OneStart ==
    Steady /\ pc # "idle" =>
        /\ attempts \in queue => pc \notin {"confirm", "forfeit"} /\ ~Joined /\ ~Forfeited /\ NoStart
        /\ IsMember("started") =>
               /\ \A i \in DOMAIN chan : chan[i].type = "started" /\ Ours(chan[i]) => i = Len(chan)
               /\ pc = "confirm" => Len(chan) = 0
        /\ IsMember("confirmed") => Joined /\ Len(chan) = 0
        /\ IsMember("finalizing") =>
               \/ /\ Joined /\ Len(chan) \in {0, 1}
                  /\ Len(chan) = 1 => chan[1].type = "finalization" /\ Ours(chan[1])
               \/ pc = "forfeit" /\ Len(chan) = 0
        /\ IsMember("forfeited") => Forfeited /\ Len(chan) = 0

\* Steps of the call that keep it where it is towards its batch.
LEMMA OneStartFrame ==
    ASSUME OneStart, pc # "idle", UNCHANGED <<chan, round, attempts, faults>>, queue' \subseteq queue,
           pc' = "confirm" <=> pc = "confirm", pc' = "forfeit" <=> pc = "forfeit",
           Joined' = Joined, Forfeited' = Forfeited
    PROVE  OneStart'
BY DEF OneStart, Steady, NoStart, Ours, IsMember

\* The stream tells the call of the batch it joined, phase by phase.
LEMMA OneStartReceive ==
    ASSUME TypeOK, OneStart, Steady, pc # "idle",
           JoinStarted \/ JoinFinalization \/ JoinFinalized \/ JoinFailed
    PROVE  OneStart'
<1> USE DEF server, process
<1>1. /\ pc = "join" /\ chan # <<>> /\ chan' = Tail(chan)
      /\ UNCHANGED <<round, queue, attempts, step, faults>>
  BY DEF JoinStarted, JoinFinalization, JoinFinalized, JoinFailed, Receive
<1>2. /\ Len(chan') = Len(chan) - 1 /\ Len(chan) \in Nat \ {0}
      /\ DOMAIN chan = 1 .. Len(chan) /\ Head(chan) = chan[1]
      /\ \A i \in DOMAIN chan' : i \in Nat /\ i + 1 \in DOMAIN chan /\ chan'[i] = chan[i + 1]
  BY <1>1, Tails
<1>3. NoStart => NoStart'
  BY <1>1, <1>2 DEF NoStart, Ours
<1>4. (\A i \in DOMAIN chan : chan[i].type = "started" /\ Ours(chan[i]) => i = Len(chan))
       => (\A i \in DOMAIN chan' : chan'[i].type = "started" /\ Ours(chan'[i]) => i = Len(chan'))
  BY <1>2
<1>5. \A i \in DOMAIN chan' : Ours(chan[i])' = Ours(chan'[i])
  BY <1>1 DEF Ours
<1>6. CASE IsMember("finalizing")
  <2>1. Joined /\ Len(chan) = 1 /\ chan[1].type = "finalization" /\ Ours(chan[1])
    BY <1>1, <1>2, <1>6 DEF OneStart
  <2>2. pc' = "forfeit" /\ Len(chan') = 0
    BY <1>1, <1>2, <2>1 DEF Joined, JoinStarted, JoinFinalization, JoinFinalized, JoinFailed
  <2>3. attempts \notin queue
    BY <1>1, <2>1 DEF OneStart
  <2> QED
    BY <1>1, <1>6, <2>2, <2>3 DEF OneStart, IsMember
<1>7. CASE ~IsMember("finalizing")
  <2>1. ~IsMember("confirmed") /\ ~IsMember("forfeited")
    BY <1>1, <1>2 DEF OneStart
  <2>2. CASE JoinStarted /\ Ours(Head(chan))
    <3>1. Head(chan).type = "started" /\ pc' = "confirm"
      BY <2>2 DEF JoinStarted
    <3>2. attempts \notin queue
      BY <1>1, <1>2, <2>2, <3>1 DEF OneStart, NoStart
    <3>3. IsMember("started") => Len(chan') = 0
      <4>1. IsMember("started") => 1 = Len(chan)
        BY <1>1, <1>2, <2>2, <3>1 DEF OneStart
      <4> QED
        BY <1>2, <4>1
    <3>4. Len(chan') = 0 => DOMAIN chan' = {}
      BY <1>2
    <3> QED
      BY <1>1, <1>7, <2>1, <3>1, <3>2, <3>3, <3>4 DEF OneStart, IsMember
  <2>3. CASE ~(JoinStarted /\ Ours(Head(chan)))
    <3>1. /\ pc' # "confirm"
          /\ pc' = "forfeit" => Joined
          /\ Joined' => Joined
          /\ Forfeited' => Forfeited
      BY <1>1, <2>3 DEF JoinStarted, JoinFinalization, JoinFinalized, JoinFailed, Joined, Forfeited,
         Persist, Saving
    <3> QED
      BY <1>1, <1>3, <1>4, <1>5, <1>7, <2>1, <3>1 DEF OneStart, IsMember
  <2> QED
    BY <2>2, <2>3
<1> QED
  BY <1>6, <1>7

\* The server lets the call join once, and engages it by its own answers.
LEMMA OneStartServer ==
    ASSUME TypeOK, HeldFree, CallInv, OneStart, Steady, pc # "idle",
           ServerStart \/ ServerFinalize \/ ServerCommit \/ ServerFail
    PROVE  OneStart'
<1> USE DEF server, settle, process
<1>0. PICK t \in EventTypes :
         /\ Emit(t)
         /\ \/ ServerStart /\ t = "started"
            \/ ServerFinalize /\ t = "finalization"
            \/ ServerCommit /\ t = "finalized"
            \/ ServerFail /\ t = "failed"
  BY ServerEmits
<1>1. UNCHANGED <<settle, faults, claims>> /\ round' \in Batches
  BY ServerEmits
<1>2. UNCHANGED <<pc, step, write, attempts, faults, open>> /\ Joined' = Joined
      /\ Forfeited' = Forfeited /\ attempts # 0 /\ attempts \in Attempts
  BY <1>1 DEF Joined, Forfeited, Saving, TypeOK, Attempts
<1>3. CASE open
  <2>1. /\ Len(chan) \in Nat /\ Len(chan') = Len(chan) + 1
        /\ DOMAIN chan = 1 .. Len(chan) /\ DOMAIN chan' = 1 .. Len(chan) + 1
        /\ \A i \in 1 .. Len(chan) : chan'[i] = chan[i]
        /\ chan'[Len(chan) + 1].type = t
        /\ chan'[Len(chan) + 1].round = round'.no
        /\ chan'[Len(chan) + 1].member = round'.member
    BY <1>0, <1>1, <1>3, Longer
  <2>2. t # "started" \/ round'.member # attempts => (NoStart => NoStart')
    BY <1>2, <2>1 DEF NoStart, Ours
  <2>3. CASE ServerStart /\ t = "started"
    <3>1. PICK m \in queue \cup {0} :
             /\ round' = [no |-> round.no + 1, phase |-> "started", member |-> m]
             /\ queue' = queue \ {m}
      BY <2>3 DEF ServerStart
    <3>2. round'.member = m /\ round'.phase = "started"
      BY <3>1
    <3>3. CASE m = attempts
      <4>1. pc # "confirm" /\ NoStart
        BY <1>2, <3>1, <3>3 DEF OneStart
      <4>2. \A i \in DOMAIN chan' : chan'[i].type = "started" /\ chan'[i].member = attempts
               => i = Len(chan')
        BY <2>1, <4>1 DEF NoStart, Ours
      <4> QED
        BY <1>2, <3>1, <3>2, <3>3, <4>1, <4>2 DEF OneStart, IsMember, Ours
    <3>4. CASE m # attempts
      <4>1. NoStart => NoStart'
        BY <2>2, <3>2, <3>4
      <4> QED
        BY <1>2, <3>1, <3>2, <3>4, <4>1 DEF OneStart, IsMember
    <3> QED
      BY <3>3, <3>4
  <2>4. CASE ServerFinalize /\ t = "finalization"
    <3>1. /\ queue' = queue /\ round' = [round EXCEPT !.phase = "finalizing"]
          /\ round.phase = "confirmed" \/ (round.phase = "started" /\ round.member = 0)
      BY <2>4 DEF ServerFinalize
    <3>2. round'.phase = "finalizing" /\ round'.member = round.member
      BY <3>1 DEF TypeOK, Batches
    <3>3. NoStart => NoStart'
      BY <2>2, <2>4
    <3>4. CASE round.member = attempts
      <4>1. Joined /\ Len(chan) = 0
        BY <1>2, <3>1, <3>4 DEF OneStart, IsMember
      <4>2. Len(chan') = 1 /\ chan'[1].type = "finalization" /\ chan'[1].member = attempts
        BY <2>1, <2>4, <3>2, <3>4, <4>1
      <4> QED
        BY <1>2, <3>1, <3>2, <3>3, <4>1, <4>2 DEF OneStart, IsMember, Ours
    <3>5. CASE round.member # attempts
      BY <1>2, <3>1, <3>2, <3>3, <3>5 DEF OneStart, IsMember
    <3> QED
      BY <3>4, <3>5
  <2>5. CASE (ServerCommit /\ t = "finalized") \/ (ServerFail /\ t = "failed")
    <3>1. /\ queue' = queue /\ round' = [round EXCEPT !.phase = "idle"]
      BY <2>5 DEF ServerCommit, ServerFail, Steady
    <3>2. round'.phase = "idle"
      BY <3>1 DEF TypeOK, Batches
    <3>3. NoStart => NoStart'
      BY <2>2, <2>5
    <3> QED
      BY <1>2, <3>1, <3>2, <3>3 DEF OneStart, IsMember
  <2> QED
    BY <1>0, <2>3, <2>4, <2>5
<1>4. CASE ~open
  <2>1. NotRegistered /\ attempts \notin queue /\ round.member # attempts
    BY <1>4 DEF CallInv
  <2>2. attempts \notin queue' /\ round'.member # attempts
    BY <1>2, <2>1 DEF ServerStart, ServerFinalize, ServerCommit, ServerFail, TypeOK, Batches
  <2> QED
    BY <1>2, <2>2 DEF OneStart, IsMember
<1> QED
  BY <1>3, <1>4

\* Every step of a steady environment keeps the call in one batch.
LEMMA OneStartStep ==
    ASSUME TypeOK, HideInv, HeldFree, CallInv, OneStart, [Next]_vars
    PROVE  OneStart'
<1> USE DEF persisted, server, settle, process, reconciler
<1>0. faults' = faults
  BY KeptStep
<1>a. CASE ~Steady
  BY <1>0, <1>a DEF OneStart, Steady
<1>b. CASE Steady
  <2>0. "overlap" \notin faults /\ "repo" \notin faults /\ "rpc" \notin faults
        /\ "stream" \notin faults
    BY <1>b DEF Steady
  <2>1. CASE SettleStart
    <3>1. /\ attempts' \notin queue' /\ round'.member # attempts'
      BY <2>1, RecordsAssumption DEF SettleStart, HeldFree, Held, TypeOK, Batches, Attempts
    <3> QED
      BY <3>1 DEF OneStart, IsMember
  <2>2. CASE CheckFail \/ Finally \/ Crash
    BY <2>2 DEF CheckFail, Finally, Crash, Unwind, OneStart
  <2>3. CASE PersistRead \/ PersistSave \/ PersistFail
    <3>1. /\ pc \in {"read", "save"} /\ UNCHANGED <<server, chan, step, attempts, write>>
          /\ pc' = "save" \/ pc' = AfterPersist
      BY <2>3 DEF PersistRead, PersistSave, PersistFail
    <3>2. pc' \notin {"confirm", "forfeit"} /\ Joined' = Joined /\ Forfeited' = Forfeited
      <4>1. CASE pc' = "save"
        BY <3>1, <4>1 DEF Joined, Forfeited, Saving
      <4>2. CASE pc' = AfterPersist
        <5>1. pc' = "join" => \/ Saving("waiting_for_batch") /\ step = "start"
                              \/ Saving("started") /\ step = "batch_started"
          BY <3>1, <4>2 DEF AfterPersist, CallInv, Saving
        <5>2. Saving("started") => pc' = "join"
          BY <4>2 DEF AfterPersist, Saving
        <5>3. pc' \notin {"read", "save", "confirm", "forfeit"}
          BY <4>2 DEF AfterPersist
        <5> QED
          BY <3>1, <5>1, <5>2, <5>3 DEF Joined, Forfeited, Saving
      <4> QED
        BY <3>1, <4>1, <4>2
    <3> QED
      BY <1>0, <3>1, <3>2, OneStartFrame
  <2>4. CASE RegisterOk
    <3>1. /\ UNCHANGED <<round, attempts, chan, step>> /\ pc # "idle" /\ Registering
          /\ pc' = "read" /\ write'.what = "waiting_for_batch"
      BY <2>0, <2>4 DEF RegisterOk, Registering, Persist
    <3>2. round.member # attempts /\ NoStart
      BY <3>1 DEF CallInv, NoStart, Ours
    <3> QED
      BY <3>1, <3>2 DEF OneStart, NoStart, Ours, IsMember, Joined, Forfeited, Saving
  <2>5. CASE CheckPass \/ RegisterRefused \/ ClearDuplicates \/ UpdateOk \/ UpdateThrows \/ Release
    <3>1. /\ UNCHANGED <<round, attempts, chan, step>> /\ queue' \subseteq queue
          /\ pc \notin {"idle", "join", "confirm", "forfeit", "read", "save"}
          /\ pc' \notin {"idle", "join", "confirm", "forfeit"}
          /\ pc' \in {"read", "save"} => write'.what # "started"
      BY <2>5 DEF CheckPass, RegisterRefused, ClearDuplicates, UpdateOk, UpdateThrows, Release,
         Persist
    <3> QED
      BY <1>0, <3>1, OneStartFrame DEF Joined, Forfeited, Saving
  <2>6. CASE JoinStarted \/ JoinFinalization \/ JoinFinalized \/ JoinFailed
    BY <1>b, <2>6, OneStartReceive DEF JoinStarted, JoinFinalization, JoinFinalized, JoinFailed,
       Receive
  <2>7. CASE JoinStreamEnds
    <3>1. /\ UNCHANGED <<round, attempts, chan, step, queue>> /\ pc = "join" /\ pc' = "release"
          /\ round.phase = "idle"
      BY <2>0, <2>7 DEF JoinStreamEnds, OutOfRounds
    <3> QED
      BY <1>0, <1>b, <3>1 DEF OneStart, NoStart, Ours, IsMember, Joined, Forfeited, Saving
  <2>8. CASE Confirm
    <3>1. /\ UNCHANGED <<attempts, chan, queue>> /\ pc = "confirm" /\ attempts \notin queue
      BY <1>b, <2>8 DEF Confirm, OneStart
    <3>2. CASE IsMember("started")
      <4>1. /\ round' = [round EXCEPT !.phase = "confirmed"] /\ step' = "batch_started"
            /\ pc' = "read" /\ write'.what = "started"
        BY <2>0, <2>8, <3>2 DEF Confirm, Persist
      <4>2. round'.phase = "confirmed" /\ Joined' /\ Len(chan) = 0
        BY <1>b, <3>1, <3>2, <4>1 DEF TypeOK, Batches, Joined, Saving, OneStart
      <4> QED
        BY <3>1, <4>2 DEF OneStart, IsMember
    <3>3. CASE ~IsMember("started")
      <4>1. round' = round /\ pc' = "release"
        BY <2>8, <3>3 DEF Confirm
      <4>2. ~IsMember("confirmed") /\ ~IsMember("finalizing") /\ ~IsMember("forfeited")
        BY <1>b, <3>1 DEF OneStart, Joined, Forfeited, Saving
      <4> QED
        BY <3>1, <3>3, <4>1, <4>2 DEF OneStart, IsMember
    <3> QED
      BY <3>2, <3>3
  <2>9. CASE Forfeit
    <3>1. /\ UNCHANGED <<attempts, chan, queue>> /\ pc = "forfeit" /\ attempts \notin queue
      BY <1>b, <2>9 DEF Forfeit, OneStart
    <3>2. CASE IsMember("finalizing")
      <4>1. /\ round' = [round EXCEPT !.phase = "forfeited"] /\ step' = "batch_finalization"
            /\ pc' = "join"
        BY <2>0, <2>9, <3>2 DEF Forfeit
      <4>2. round'.phase = "forfeited" /\ Forfeited' /\ Len(chan) = 0
        BY <1>b, <3>1, <3>2, <4>1 DEF TypeOK, Batches, Forfeited, Joined, Saving, OneStart
      <4> QED
        BY <3>1, <4>2 DEF OneStart, IsMember
    <3>3. CASE ~IsMember("finalizing")
      <4>1. round' = round /\ pc' = "release"
        BY <2>9, <3>3 DEF Forfeit
      <4>2. ~IsMember("confirmed") /\ ~IsMember("forfeited")
        BY <1>b, <3>1 DEF OneStart, Joined, Forfeited, Saving
      <4> QED
        BY <1>b, <3>1, <3>3, <4>1, <4>2 DEF OneStart, IsMember, Ours
    <3> QED
      BY <3>2, <3>3
  <2>10. CASE ServerStart \/ ServerFinalize \/ ServerCommit \/ ServerFail
    <3>1. CASE pc = "idle"
      <4>1. pc' = pc
        BY <2>10 DEF ServerStart, ServerFinalize, ServerCommit, ServerFail
      <4> QED
        BY <3>1, <4>1 DEF OneStart
    <3>2. CASE pc # "idle"
      BY <1>b, <2>10, <3>2, OneStartServer
    <3> QED
      BY <3>1, <3>2
  <2>11. CASE ServerDrop
    <3>1. UNCHANGED <<queue, chan, settle>> /\ round'.member = 0
      BY <2>11 DEF ServerDrop, TypeOK, Batches
    <3>2. pc # "idle" => attempts # 0
      BY DEF TypeOK, Attempts
    <3> QED
      BY <1>b, <3>1, <3>2 DEF OneStart, IsMember, NoStart, Ours, Joined, Forfeited, Saving
  <2>12. CASE LoseEvent
    <3>1. UNCHANGED <<server, settle>> /\ chan # <<>> /\ chan' = Tail(chan)
      BY <2>12 DEF LoseEvent
    <3>2. /\ Len(chan') = Len(chan) - 1 /\ Len(chan) \in Nat \ {0}
          /\ DOMAIN chan = 1 .. Len(chan)
          /\ \A i \in DOMAIN chan' : i \in Nat /\ i + 1 \in DOMAIN chan /\ chan'[i] = chan[i + 1]
      BY <3>1, Tails
    <3>3. NoStart => NoStart'
      BY <3>1, <3>2 DEF NoStart, Ours
    <3>4. (\A i \in DOMAIN chan : chan[i].type = "started" /\ Ours(chan[i]) => i = Len(chan))
           => (\A i \in DOMAIN chan' : chan'[i].type = "started" /\ chan'[i].member = attempts
                                         => i = Len(chan'))
      BY <3>2 DEF Ours
    <3>5. Joined' = Joined /\ Forfeited' = Forfeited
      BY <3>1 DEF Joined, Forfeited, Saving
    <3> QED
      BY <1>b, <3>1, <3>2, <3>3, <3>4, <3>5 DEF OneStart, IsMember, Ours
  <2>13. CASE OffchainSend \/ Restart \/ Reconnect \/ Recovery \/ UNCHANGED vars
    <3>1. UNCHANGED <<settle, chan, queue, round>>
      BY <2>13 DEF OffchainSend, Restart, Reconnect, Recovery, RecoverList, RecoverFetch,
         RecoverClassify, RecoverSave, RecoverDone, vars
    <3> QED
      BY <1>b, <3>1 DEF OneStart, IsMember, NoStart, Ours, Joined, Forfeited, Saving
  <2> QED
    BY <2>1, <2>2, <2>3, <2>4, <2>5, <2>6, <2>7, <2>8, <2>9, <2>10, <2>11, <2>12, <2>13
       DEF Next, Wallet, Server
<1> QED
  BY <1>a, <1>b

\* The call is of one of the kinds the wallet settles.
OfKinds == pc # "idle" => job.kind \in Kinds

\* Every step keeps it so.
LEMMA OfKindsStep == ASSUME OfKinds, [Next]_vars PROVE OfKinds'
<1> USE DEF persisted, server, settle, process, reconciler
<1>1. CASE SettleStart
  BY <1>1 DEF SettleStart, OfKinds
<1>2. CASE Wallet
  <2>1. (pc # "idle" /\ job' = job) \/ pc' = "idle"
    BY <1>2 DEF Wallet, PersistRead, PersistSave, PersistFail, CheckPass, CheckFail,
       RegisterOk, RegisterRefused, ClearDuplicates, JoinStarted, JoinFinalization, JoinFinalized,
       JoinFailed, JoinStreamEnds, Confirm, Forfeit, UpdateOk, UpdateThrows, Release, Finally,
       Receive, Unwind
  <2> QED
    BY <2>1 DEF OfKinds
<1>3. CASE Server \/ OffchainSend \/ LoseEvent \/ Restart \/ Reconnect \/ Recovery \/ UNCHANGED vars
  BY <1>3 DEF Server, ServerStart, ServerDrop, ServerFinalize, ServerCommit, ServerFail,
     OffchainSend, LoseEvent, Restart, Reconnect, Recovery, RecoverList, RecoverFetch,
     RecoverClassify, RecoverSave, RecoverDone, vars, OfKinds
<1>4. CASE Crash
  BY <1>4 DEF Crash, Unwind, OfKinds
<1> QED
  BY <1>1, <1>2, <1>3, <1>4 DEF Next

\* The row of an attempt in an unfinished batch locks its coins.
LockHeld ==
    Steady /\ Engaged /\ round.member # 0 =>
        RowOf(round.member).state \in {"waiting_for_batch", "batch_in_progress"}

\* Steps that write no row and engage nobody.
LEMMA LockHeldFrame ==
    ASSUME LockHeld, UNCHANGED <<store, faults>>,
           Engaged' /\ round'.member # 0 =>
               Engaged /\ round'.member = round.member /\ claims'[round.member] = claims[round.member]
    PROVE  LockHeld'
BY DEF LockHeld, Steady, RowOf

\* Every step of a steady environment leaves the coins of the batch locked, when
\* every intent has an id of its own.
LEMMA LockHeldStep ==
    ASSUME Kinds \subseteq {"offchain"}, Told, Writers, OneStart, OfKinds, LockHeld, [Next]_vars
    PROVE  LockHeld'
<1> USE DEF persisted, server, settle, process, reconciler
<1>0. faults' = faults /\ TypeOK /\ HideInv /\ HeldFree /\ CallInv
  BY KeptStep DEF Told
<1>a. CASE ~Steady
  BY <1>0, <1>a DEF LockHeld, Steady
<1>b. CASE Steady
  <2>0. "overlap" \notin faults /\ "repo" \notin faults /\ faults \cap {"overlap", "repo"} = {}
    BY <1>b DEF Steady
  <2>a. round.member # 0 => round.member \in Attempts
    BY <1>0, RecordsAssumption DEF TypeOK, Batches, Attempts
  <2>b. round.member # 0 =>
          /\ [inputs |-> claims[round.member], tag |-> round.member] \in IntentTxIds
          /\ RowOf(round.member) = store[[inputs |-> claims[round.member], tag |-> round.member]]
    BY <1>0, <2>a, RecordsAssumption DEF TypeOK, IntentTxIds, Attempts, RowOf
  <2>1. CASE PersistSave
    <3>1. /\ UNCHANGED <<claims, round>> /\ pc = "save"
          /\ store' = [store EXCEPT ![CurrentId] = draft]
      BY <2>1 DEF PersistSave
    <3>2. SUFFICES ASSUME Engaged, round.member # 0
                   PROVE  RowOf(round.member)'.state \in {"waiting_for_batch", "batch_in_progress"}
      BY <3>1 DEF LockHeld, Engaged
    <3> DEFINE id == [inputs |-> claims[round.member], tag |-> round.member]
    <3>3. RowOf(round.member)' = store'[id]
      BY <3>1 DEF RowOf
    <3>4. CurrentId \in IntentTxIds /\ CurrentId.tag = attempts
      BY <1>0, <3>1, CurrentTag DEF OfKinds
    <3>5. CASE id = CurrentId
      <4>1. round.member = attempts
        BY <3>4, <3>5
      <4>2. Joined
        BY <1>b, <3>1, <3>2, <4>1 DEF OneStart, Engaged, IsMember, Forfeited
      <4>3. write.what = "started"
        BY <3>1, <4>2 DEF Joined, Saving
      <4>4. draft.state = "batch_in_progress"
        BY <3>1, <4>3 DEF Writers, Drafted, Outcome
      <4>5. store'[id] = draft
        BY <1>0, <3>1, <3>4, <3>5 DEF TypeOK
      <4> QED
        BY <3>3, <4>4, <4>5
    <3>6. CASE id # CurrentId
      <4>1. store'[id] = store[id]
        BY <1>0, <2>b, <3>1, <3>2, <3>6 DEF TypeOK
      <4> QED
        BY <1>b, <2>b, <3>2, <3>3, <4>1 DEF LockHeld
    <3> QED
      BY <3>5, <3>6
  <2>2. CASE RecoverSave
    <3>1. /\ UNCHANGED <<claims, round>> /\ rcpc = "save"
          /\ store' = [store EXCEPT ![fix.id] = fix.row] \/ store' = store
      BY <2>2 DEF RecoverSave
    <3>2. SUFFICES ASSUME Engaged, round.member # 0
                   PROVE  RowOf(round.member)'.state \in {"waiting_for_batch", "batch_in_progress"}
      BY <3>1 DEF LockHeld, Engaged
    <3> DEFINE id == [inputs |-> claims[round.member], tag |-> round.member]
    <3>3. RowOf(round.member)' = store'[id] /\ RowOf(round.member) = store[id] /\ id \in IntentTxIds
      BY <2>b, <3>1, <3>2 DEF RowOf
    <3>4. store[id].state \in {"waiting_for_batch", "batch_in_progress"}
      BY <1>b, <3>2, <3>3 DEF LockHeld
    <3>5. round.member \in Held
      BY <3>2 DEF Held, Engaged
    <3>6. \A v \in claims[round.member] : consumed[v] = Unspent
      BY <1>0, <3>5 DEF HeldFree
    <3>7. /\ fix.row.state \in {"batch_succeeded", "cancelled"}
          /\ fix.row.state = "batch_succeeded" =>
                 fix.id.inputs # {} /\ \A v \in fix.id.inputs : consumed[v] # Unspent
          /\ fix.row.state = "cancelled" => store[fix.id].state = "waiting_to_submit"
      BY <2>0, <3>1 DEF Writers, Treating
    <3>8. id # fix.id
      <4> SUFFICES ASSUME id = fix.id PROVE FALSE
        OBVIOUS
      <4>1. fix.row.state = "batch_succeeded"
        BY <3>4, <3>7
      <4>2. fix.id.inputs = claims[round.member]
        OBVIOUS
      <4> QED
        BY <3>6, <3>7, <4>1, <4>2
    <3>9. store'[id] = store[id]
      BY <1>0, <3>1, <3>3, <3>8 DEF TypeOK
    <3> QED
      BY <3>3, <3>4, <3>9
  <2>3. CASE RegisterOk
    <3>1. /\ UNCHANGED <<store, round>> /\ Registering /\ pc # "idle"
          /\ claims' = [claims EXCEPT ![attempts] = job.inputs]
      BY <2>3 DEF RegisterOk, Registering
    <3>2. round.member # attempts
      BY <1>0, <3>1 DEF CallInv
    <3>3. round.member # 0 => claims'[round.member] = claims[round.member]
      BY <1>0, <2>a, <3>1, <3>2 DEF TypeOK
    <3> QED
      BY <1>0, <3>1, <3>3, LockHeldFrame DEF Engaged
  <2>4. CASE Confirm
    <3>1. UNCHANGED <<store, claims, attempts>> /\ pc = "confirm"
      BY <2>4 DEF Confirm
    <3>2. CASE ~IsMember("started")
      <4>1. round' = round
        BY <2>4, <3>2 DEF Confirm
      <4> QED
        BY <1>0, <3>1, <4>1, LockHeldFrame DEF Engaged
    <3>3. CASE IsMember("started")
      <4>1. round' = [round EXCEPT !.phase = "confirmed"] /\ attempts \in Attempts
        BY <1>0, <2>4, <3>1, <3>3 DEF Confirm, TypeOK
      <4>2. round'.member = attempts /\ attempts \in Held
        BY <1>0, <3>3, <4>1 DEF TypeOK, Batches, IsMember, Held, Attempts
      <4>3. claims[attempts] = job.inputs /\ job.kind = "offchain"
        BY <1>0, <3>1, <4>2 DEF HideInv, OfKinds
      <4>4. store[CurrentId].state \in {"waiting_for_batch", "batch_in_progress"}
        BY <2>0, <3>1, <4>3 DEF Writers, Progress, Follows
      <4>5. RowOf(attempts) = store[CurrentId]
        BY <4>3 DEF RowOf, CurrentId, IntentTxId
      <4> QED
        BY <3>1, <4>2, <4>4, <4>5 DEF LockHeld, RowOf
    <3> QED
      BY <3>2, <3>3
  <2>5. CASE Forfeit
    <3>1. /\ UNCHANGED <<store, claims>>
          /\ round' = round \/ (IsMember("finalizing") /\ round' = [round EXCEPT !.phase = "forfeited"])
      BY <2>5 DEF Forfeit
    <3>2. Engaged' => Engaged /\ round'.member = round.member
      BY <1>0, <3>1 DEF Engaged, IsMember, TypeOK, Batches
    <3> QED
      BY <1>0, <3>1, <3>2, LockHeldFrame
  <2>6. CASE Server
    <3>1. UNCHANGED <<store, claims>>
      BY <2>6 DEF Server, ServerStart, ServerDrop, ServerFinalize, ServerCommit, ServerFail
    <3>2. Engaged' /\ round'.member # 0 => Engaged /\ round'.member = round.member
      BY <1>0, <2>6 DEF Server, ServerStart, ServerDrop, ServerFinalize, ServerCommit, ServerFail,
         Engaged, TypeOK, Batches
    <3> QED
      BY <1>0, <3>1, <3>2, LockHeldFrame
  <2>7. CASE \/ SettleStart \/ PersistRead \/ PersistFail \/ CheckPass \/ CheckFail
             \/ RegisterRefused \/ ClearDuplicates \/ JoinStarted
             \/ JoinFinalization \/ JoinFinalized \/ JoinFailed \/ JoinStreamEnds
             \/ UpdateOk \/ UpdateThrows \/ Release \/ Finally
             \/ OffchainSend \/ LoseEvent \/ Crash \/ Restart \/ Reconnect
             \/ RecoverList \/ RecoverFetch \/ RecoverDone \/ UNCHANGED vars
             \/ \E id \in IntentTxIds : RecoverClassify(id)
    <3>1. UNCHANGED <<store, claims, round>>
      BY <2>7 DEF SettleStart, PersistRead, PersistFail, CheckPass, CheckFail,
         RegisterRefused, ClearDuplicates, JoinStarted, JoinFinalization, JoinFinalized, JoinFailed,
         JoinStreamEnds, UpdateOk, UpdateThrows, Release, Finally, OffchainSend, LoseEvent,
         Crash, Restart, Reconnect, RecoverList, RecoverFetch, RecoverDone, RecoverClassify, vars
    <3> QED
      BY <1>0, <3>1, LockHeldFrame DEF Engaged
  <2> QED
    BY <2>1, <2>2, <2>3, <2>4, <2>5, <2>6, <2>7 DEF Next, Wallet, Recovery
<1> QED
  BY <1>a, <1>b

\* A coin is locked by a settlement in flight only, as long as no process died: for
\* outputs of every kind.
THEOREM LocksGivenBack == Spec => [](faults \cap {"precheck", "repo"} = {} => LockedMeansInFlight)
<1> DEFINE Inv == Told /\ Drafted /\ RowsInv /\ InFlight
<1>1. Init => Inv
  <2> SUFFICES ASSUME Init PROVE Drafted /\ RowsInv /\ InFlight
    BY ToldInit
  <2> QED
    BY DEF Init, Drafted, RowsInv, Unpaid, InFlight, NoIds, NoRow, PendingStates
<1>2. Inv /\ [Next]_vars => Inv'
  BY ToldStep, DraftedStep, RowsStep, InFlightStep DEF Told
<1>3. Inv => (faults \cap {"precheck", "repo"} = {} => LockedMeansInFlight)
  <2> SUFFICES ASSUME Inv, faults \cap {"precheck", "repo"} = {}, pc = "idle", crashes = 0
               PROVE  LockedOutpoints(store) = {}
    BY DEF LockedMeansInFlight
  <2>1. \A id \in IntentTxIds : store[id].state \notin PendingStates
    BY DEF InFlight
  <2>2. DOMAIN store = IntentTxIds
    BY DEF Told, TypeOK
  <2> QED
    BY <2>1, <2>2 DEF LockedOutpoints
<1> QED
  BY <1>1, <1>2, <1>3, PTL DEF Spec

\* The lock on coins follows the batch when every settle has offchain outputs.  An
\* intent with onchain outputs only may share its id, and so its row, with another
\* attempt on the same inputs, which then speaks for both.
THEOREM LocksFollow ==
    ASSUME Kinds \subseteq {"offchain"}
    PROVE  Spec => []LocksFollowBatch
<1> DEFINE Inv == Told /\ Writers /\ OneStart /\ OfKinds /\ LockHeld
<1>1. Init => Inv
  <2> SUFFICES ASSUME Init PROVE OneStart /\ OfKinds /\ LockHeld
    BY ToldInit, WritersInit
  <2> QED
    BY DEF Init, OneStart, OfKinds, LockHeld, Engaged
<1>2. Inv /\ [Next]_vars => Inv'
  BY ToldStep, WritersStep, OneStartStep, OfKindsStep, LockHeldStep DEF Told
<1>3. Inv => (Steady => LockedInBatch)
  <2> SUFFICES ASSUME Inv, Steady, Engaged, round.member # 0
               PROVE  claims[round.member] \subseteq LockedOutpoints(store)
    BY DEF LockedInBatch, Engaged
  <2> DEFINE id == [inputs |-> claims[round.member], tag |-> round.member]
  <2>1. id \in IntentTxIds /\ id \in DOMAIN store
    <3>1. round.member \in Attempts
      BY RecordsAssumption DEF Told, TypeOK, Batches, Attempts
    <3>2. TypeOK
      BY DEF Told
    <3>3. claims[round.member] \in SUBSET Vtxos /\ DOMAIN store = IntentTxIds
      BY <3>1, <3>2 DEF TypeOK
    <3>4. round.member \in 0 .. MaxAttempts
      BY <3>1, RecordsAssumption DEF Attempts
    <3> QED
      BY <3>3, <3>4 DEF IntentTxIds
  <2>2. store[id].state \in PendingStates
    BY DEF LockHeld, RowOf, PendingStates
  <2> QED
    BY <2>1, <2>2 DEF LockedOutpoints
<1>4. (Steady => LockedInBatch) /\ (faults \cap {"precheck", "repo"} = {} => LockedMeansInFlight)
        => LocksFollowBatch
  BY DEF Steady, LocksFollowBatch
<1> QED
  BY <1>1, <1>2, <1>3, <1>4, LocksGivenBack, PTL DEF Spec
=============================================================================

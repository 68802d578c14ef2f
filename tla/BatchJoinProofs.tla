-------------------------- MODULE BatchJoinProofs ---------------------------
(***************************************************************************)
(* Theorems about BatchJoin, for any number of batches and any faults.      *)
(***************************************************************************)
EXTENDS BatchJoin, FiniteSetTheorems, SequenceTheorems, TLAPS

(* Trees.                                                                   *)

\* The chunks received are finitely many transactions.
LEMMA ChunksFinite ==
    ASSUME NEW s \in Seq(Txs)
    PROVE  Chunks(s) \subseteq Txs /\ IsFiniteSet(Chunks(s))
<1>1. s \in [1 .. Len(s) -> Txs] /\ Len(s) \in Nat /\ DOMAIN s = 1 .. Len(s)
  OBVIOUS
<1>2. IsFiniteSet(1 .. Len(s))
  BY <1>1, FS_Interval
<1>3. s \in Surjection(1 .. Len(s), Chunks(s))
  BY <1>1 DEF Surjection, Chunks
<1>4. IsFiniteSet(Chunks(s))
  BY <1>2, <1>3, FS_Surjection
<1> QED
  BY <1>1, <1>4 DEF Chunks

\* TxTree.create accepts the chunks of one batch only.
LEMMA OneBatchTree ==
    ASSUME NEW s \in Seq(Txs), CreateTree(s) # {}
    PROVE  /\ CreateTree(s) = Chunks(s)
           /\ \A t, u \in Chunks(s) : t.batch = u.batch
<1>1. CreateTree(s) = Chunks(s) /\ Cardinality(Roots(Chunks(s))) = 1
  BY DEF CreateTree
<1>2. IsFiniteSet(Roots(Chunks(s)))
  BY ChunksFinite, FS_Subset DEF Roots
<1>3. PICK r : Roots(Chunks(s)) = {r}
  BY <1>1, <1>2, FS_Singleton
<1>4. \A t \in Chunks(s) : t.batch = r.batch
  <2> SUFFICES ASSUME NEW t \in Chunks(s) PROVE t.batch = r.batch
    OBVIOUS
  <2>1. CASE t.node = "leaf" => Tx(t.batch, "root") \notin Chunks(s)
    BY <2>1, <1>3 DEF Roots
  <2>2. CASE Tx(t.batch, "root") \in Chunks(s)
    <3>1. Tx(t.batch, "root") \in Roots(Chunks(s))
      BY <2>2 DEF Roots, Tx
    <3> QED
      BY <3>1, <1>3 DEF Tx
  <2> QED
    BY <2>1, <2>2
<1> QED
  BY <1>1, <1>4

\* What is created from chunks is a set of transactions.
LEMMA CreateType ==
    ASSUME NEW s \in Seq(Txs)
    PROVE  CreateTree(s) \subseteq Txs
BY ChunksFinite DEF CreateTree

-----------------------------------------------------------------------------
(* Type correctness.                                                        *)

\* The event at the head of the stream is one of those the server sends.
LEMMA HeadType ==
    ASSUME TypeOK, chan # <<>>
    PROVE  e \in Events /\ Tail(chan) \in Seq(Events)
BY DEF TypeOK, e

\* A received event leaves the environment, the server and the stream typed.
LEMMA ReceiveType ==
    ASSUME TypeOK, NEW type, NEW next \in {"recv", "thrown", "returned"} \cup Calls,
           Receive(type, next)
    PROVE  /\ chan' \in Seq(Events) /\ event' \in Events \cup {NoEvent}
           /\ pc' \in {"recv"} \cup Calls \cup Over
           /\ e \in Events /\ e.type = type
           /\ batch' \in 0 .. MaxBatches /\ member' \in BOOLEAN /\ pays' \in BOOLEAN
           /\ queued' \in BOOLEAN /\ sphase' = sphase /\ faults' \in FaultSets
           /\ skip' \in BOOLEAN /\ joined' \subseteq Batches
           /\ forfeited' \subseteq Commitments
BY HeadType DEF TypeOK, Receive, Over, server, mode, history

\* Every handler of an event keeps the types.
LEMMA HandlerType ==
    ASSUME TypeOK,
           \/ OnBatchStarted \/ OnTreeTx \/ OnTreeSigningStarted \/ OnTreeNonces
           \/ OnTreeSignature \/ OnBatchFinalization \/ OnBatchFinalized \/ OnBatchFailed
    PROVE  TypeOK'
<1> USE DEF signer
<1>1. CASE OnBatchStarted
  BY <1>1, ReceiveType DEF OnBatchStarted, TypeOK, Calls
<1>2. CASE OnTreeTx
  <2>1. e \in Events /\ e.type = "TreeTx"
    BY <1>2, ReceiveType DEF OnTreeTx
  <2>2. e.tx \in Txs
    BY <2>1 DEF Events
  <2>3. flat \in Seq(Txs) /\ conns \in Seq(Txs)
    BY DEF TypeOK
  <2>4. Append(flat, e.tx) \in Seq(Txs) /\ Append(conns, e.tx) \in Seq(Txs)
    BY <2>2, <2>3
  <2>5. flat' \in {flat, Append(flat, e.tx)} /\ conns' \in {conns, Append(conns, e.tx)}
    BY <1>2, Zenon DEF OnTreeTx
  <2>6. flat' \in Seq(Txs) /\ conns' \in Seq(Txs)
    BY <2>3, <2>4, <2>5
  <2> QED
    BY <1>2, <2>6, ReceiveType DEF OnTreeTx, TypeOK
<1>3. CASE OnTreeSigningStarted
  <2> DEFINE built == CreateTree(flat)
             signs == built # {} /\ e.cosigner /\ ValidTree(built, e.commitment)
             next == IF step # "batch_started" THEN "recv"
                     ELSE IF built # {} /\ ~e.cosigner THEN "recv"
                     ELSE IF signs THEN "nonces" ELSE "thrown"
  <2>1. Receive("TreeSigningStarted", next) /\ next \in {"recv", "thrown", "nonces"}
    BY <1>3 DEF OnTreeSigningStarted
  <2> HIDE DEF next
  <2>2. e \in Events /\ e.type = "TreeSigningStarted"
    BY <2>1, ReceiveType DEF Calls
  <2>3. e.commitment \in Commitments
    BY <2>2 DEF Events
  <2>4. built \subseteq Txs
    BY CreateType DEF TypeOK
  <2>5. tree' \subseteq Txs /\ graph' \subseteq Txs /\ nonces' \subseteq Txs
        /\ aggregated' \subseteq Txs /\ validated' \in Commitments \cup {NoCommitment}
    BY <1>3, <2>3, <2>4 DEF OnTreeSigningStarted, TypeOK
  <2>6. UNCHANGED <<step, flat, conns, returned>>
    BY <1>3 DEF OnTreeSigningStarted
  <2> QED
    BY <2>1, <2>5, <2>6, ReceiveType DEF TypeOK, Calls
<1>4. CASE OnTreeNonces
  <2> DEFINE known == e.tx \in aggregated
             more == aggregated \cup {e.tx}
             next == IF step # "tree_signing_started" THEN "recv"
                     ELSE IF ~known /\ e.tx \notin nonces \cap graph THEN "thrown"
                     ELSE IF Cardinality(more) # Cardinality(nonces) THEN "recv"
                     ELSE IF graph \subseteq nonces \cap more THEN "signatures" ELSE "thrown"
  <2>1. Receive("TreeNonces", next) /\ next \in {"recv", "thrown", "signatures"}
    BY <1>4 DEF OnTreeNonces
  <2> HIDE DEF next
  <2>2. e \in Events /\ e.type = "TreeNonces"
    BY <2>1, ReceiveType DEF Calls
  <2>3. e.tx \in Txs
    BY <2>2 DEF Events
  <2>4. aggregated' \subseteq Txs
    BY <1>4, <2>3 DEF OnTreeNonces, TypeOK
  <2>5. UNCHANGED <<step, flat, conns, tree, graph, nonces, validated, returned>>
    BY <1>4 DEF OnTreeNonces
  <2> QED
    BY <2>1, <2>4, <2>5, ReceiveType DEF TypeOK, Calls
<1>5. CASE OnTreeSignature
  BY <1>5, ReceiveType DEF OnTreeSignature, TypeOK
<1>6. CASE OnBatchFinalization
  <2>1. PICK next \in {"recv", "forfeits", "thrown"} : Receive("BatchFinalization", next)
    BY <1>6 DEF OnBatchFinalization
  <2>2. tree' \subseteq Txs
    BY <1>6, CreateType DEF OnBatchFinalization, TypeOK
  <2> QED
    BY <1>6, <2>1, <2>2, ReceiveType DEF OnBatchFinalization, TypeOK, Calls
<1>7. CASE OnBatchFinalized
  <2>1. PICK next \in {"recv", "returned"} : Receive("BatchFinalized", next)
    BY <1>7 DEF OnBatchFinalized
  <2>2. e \in Events /\ e.type = "BatchFinalized"
    BY <2>1, ReceiveType
  <2>3. e.commitment \in Commitments
    BY <2>2 DEF Events
  <2> QED
    BY <1>7, <2>1, <2>3, ReceiveType DEF OnBatchFinalized, TypeOK
<1>8. CASE OnBatchFailed
  BY <1>8, ReceiveType DEF OnBatchFailed, TypeOK
<1> QED
  BY <1>1, <1>2, <1>3, <1>4, <1>5, <1>6, <1>7, <1>8

\* A batch that is under way has a number, and forfeits are sent for the
\* commitment of a finalization event.
Numbered ==
    /\ sphase # "idle" => batch \in Batches
    /\ pc = "forfeits" => event.type = "BatchFinalization"

\* Every call of the server keeps the types.
LEMMA CallType ==
    ASSUME TypeOK, Numbered,
           \/ ConfirmRegistration \/ SubmitTreeNonces \/ SubmitTreeSignatures
           \/ SubmitSignedForfeitTxs
    PROVE  TypeOK'
<1> USE DEF signer, server, mode, history, Over
<1>1. CASE ConfirmRegistration
  <2>1. sphase' = "confirmed" => sphase' = sphase \/ batch \in Batches
    BY <1>1 DEF ConfirmRegistration, Call, Numbered
  <2>2. joined' \subseteq Batches
    BY <1>1, <2>1 DEF ConfirmRegistration, Call, TypeOK, Numbered
  <2>3. step' \in Steps /\ pc' \in {"recv", "thrown"} /\ sphase' \in {sphase, "confirmed"}
    BY <1>1 DEF ConfirmRegistration, Call, TypeOK, Steps
  <2> QED
    BY <1>1, <2>2, <2>3 DEF ConfirmRegistration, Call, TypeOK
<1>2. CASE SubmitTreeNonces
  BY <1>2 DEF SubmitTreeNonces, Call, TypeOK, Steps
<1>3. CASE SubmitTreeSignatures
  BY <1>3 DEF SubmitTreeSignatures, Call, TypeOK, Steps
<1>4. CASE SubmitSignedForfeitTxs
  <2>1. event \in Events /\ event.type = "BatchFinalization"
    BY <1>4 DEF SubmitSignedForfeitTxs, Call, TypeOK, Numbered, NoEvent
  <2>2. event.commitment \in Commitments
    BY <2>1 DEF Events
  <2> QED
    BY <1>4, <2>2 DEF SubmitSignedForfeitTxs, Call, TypeOK, Steps
<1> QED
  BY <1>1, <1>2, <1>3, <1>4

\* The server sends events.
LEMMA EmitType ==
    ASSUME TypeOK, NEW s \in Seq(Events), Emit(s)
    PROVE  chan' \in Seq(Events)
BY DEF TypeOK, Emit

\* What the server presents is a commitment of its batch.
LEMMA PresentedType ==
    ASSUME TypeOK, batch \in Batches
    PROVE  Presented \subseteq Commitments
<1>1. Announced \in Commitments
  BY DEF TypeOK, Announced, Commitments
<1>2. [Announced EXCEPT !.alt = TRUE] \in Commitments
  BY <1>1 DEF Commitments
<1> QED
  BY <1>1, <1>2 DEF Presented

\* The transactions of a tree are sent in events.
LEMMA TreeEventsType ==
    ASSUME TypeOK, batch \in Batches, NEW t \in {"TreeTx", "TreeNonces", "TreeSignature"}
    PROVE  TreeEvents(t) \in Seq(Events)
<1>1. Tx(batch, "root") \in Txs /\ Tx(batch, "leaf") \in Txs
  BY DEF Tx, Txs
<1>2. /\ [type |-> t, tx |-> Tx(batch, "root")] \in Events
      /\ [type |-> t, tx |-> Tx(batch, "leaf")] \in Events
  BY <1>1 DEF Events
<1> QED
  BY <1>2 DEF TreeEvents

\* Every step of the server keeps the types.
LEMMA ServerType ==
    ASSUME TypeOK, Numbered, Server
    PROVE  TypeOK'
<1> USE DEF server, mode, history, session
<1> USE JoinAssumption
<1>1. CASE ServerStart
  <2>1. batch' \in Batches /\ batch' \in 0 .. MaxBatches
    BY <1>1 DEF ServerStart, TypeOK, Batches
  <2>2. member' \in BOOLEAN /\ queued' \in BOOLEAN /\ pays' \in BOOLEAN
    BY <1>1 DEF ServerStart, TypeOK
  <2>3. PICK sane \in BOOLEAN :
           Emit(<<[type |-> "BatchStarted", batch |-> batch', member |-> member',
                   sane |-> sane]>>)
    BY <1>1 DEF ServerStart
  <2>4. [type |-> "BatchStarted", batch |-> batch', member |-> member', sane |-> sane]
           \in Events
    BY <2>1, <2>2 DEF Events
  <2>5. <<[type |-> "BatchStarted", batch |-> batch', member |-> member', sane |-> sane]>>
           \in Seq(Events)
    BY <2>4
  <2>6. chan' \in Seq(Events)
    BY <2>3, <2>5, EmitType
  <2> QED
    BY <1>1, <2>1, <2>2, <2>6 DEF ServerStart, TypeOK, signer
<1>2. CASE ServerDrop
  BY <1>2 DEF ServerDrop, TypeOK, signer
<1>3. CASE ServerTree
  <2>1. batch \in Batches
    BY <1>3 DEF ServerTree, Numbered
  <2>2. PICK c \in Presented, cosigner \in BOOLEAN :
           Emit(TreeEvents("TreeTx")
                \o <<[type |-> "TreeSigningStarted", batch |-> batch, commitment |-> c,
                      cosigner |-> cosigner]>>)
    BY <1>3 DEF ServerTree
  <2>3. [type |-> "TreeSigningStarted", batch |-> batch, commitment |-> c,
         cosigner |-> cosigner] \in Events
    BY <2>1, PresentedType DEF Events
  <2>4. TreeEvents("TreeTx")
           \o <<[type |-> "TreeSigningStarted", batch |-> batch, commitment |-> c,
                 cosigner |-> cosigner]>> \in Seq(Events)
    BY <2>1, <2>3, TreeEventsType
  <2>5. chan' \in Seq(Events)
    BY <2>2, <2>4, EmitType
  <2> QED
    BY <1>3, <2>5 DEF ServerTree, TypeOK, signer
<1>4. CASE ServerNonces
  <2>1. batch \in Batches
    BY <1>4 DEF ServerNonces, Numbered
  <2>2. chan' \in Seq(Events)
    BY <1>4, <2>1, TreeEventsType, EmitType DEF ServerNonces
  <2> QED
    BY <1>4, <2>2 DEF ServerNonces, TypeOK, signer
<1>5. CASE ServerFinalize
  <2>1. batch \in Batches
    BY <1>5 DEF ServerFinalize, Numbered
  <2> DEFINE sigs == IF sphase = "signed" THEN TreeEvents("TreeSignature") ELSE <<>>
             link == IF member THEN <<[type |-> "TreeTx", tx |-> Tx(batch, "connector")]>>
                     ELSE <<>>
             end(c) == <<[type |-> "BatchFinalization", batch |-> batch, commitment |-> c]>>
  <2>2. PICK c \in Presented : Emit(sigs \o link \o end(c))
    BY <1>5 DEF ServerFinalize
  <2>3. sigs \in Seq(Events)
    BY <2>1, TreeEventsType
  <2>4. [type |-> "TreeTx", tx |-> Tx(batch, "connector")] \in Events
    BY <2>1 DEF Events, Tx, Txs
  <2>5. [type |-> "BatchFinalization", batch |-> batch, commitment |-> c] \in Events
    BY <2>1, PresentedType DEF Events
  <2>6. link \in Seq(Events) /\ end(c) \in Seq(Events)
    BY <2>4, <2>5
  <2> HIDE DEF sigs, link, end
  <2>7. sigs \o link \o end(c) \in Seq(Events)
    BY <2>3, <2>6
  <2>8. chan' \in Seq(Events)
    BY <2>2, <2>7, EmitType
  <2> QED
    BY <1>5, <2>8 DEF ServerFinalize, TypeOK, signer
<1>6. CASE ServerCommit
  <2>1. batch \in Batches
    BY <1>6 DEF ServerCommit, Numbered
  <2>2. PICK c \in Presented :
           Emit(<<[type |-> "BatchFinalized", batch |-> batch, commitment |-> c]>>)
    BY <1>6 DEF ServerCommit
  <2>3. [type |-> "BatchFinalized", batch |-> batch, commitment |-> c] \in Events
    BY <2>1, PresentedType DEF Events
  <2>4. <<[type |-> "BatchFinalized", batch |-> batch, commitment |-> c]>> \in Seq(Events)
    BY <2>3
  <2>5. chan' \in Seq(Events)
    BY <2>2, <2>4, EmitType
  <2> QED
    BY <1>6, <2>5 DEF ServerCommit, TypeOK, signer
<1>7. CASE ServerFail
  <2>1. batch \in Batches
    BY <1>7 DEF ServerFail, Numbered
  <2>2. [type |-> "BatchFailed", batch |-> batch] \in Events
    BY <2>1 DEF Events
  <2>3. <<[type |-> "BatchFailed", batch |-> batch]>> \in Seq(Events)
    BY <2>2
  <2>4. chan' \in Seq(Events)
    BY <1>7, <2>3, EmitType DEF ServerFail
  <2> QED
    BY <1>7, <2>4 DEF ServerFail, TypeOK, signer
<1> QED
  BY <1>1, <1>2, <1>3, <1>4, <1>5, <1>6, <1>7 DEF Server

\* A batch keeps its number until the next one starts, and only a finalization
\* event leads to the call that sends forfeits.
LEMMA NumberedStep ==
    ASSUME TypeOK, Numbered, [Next]_vars
    PROVE  Numbered'
<1> USE JoinAssumption
<1>1. CASE Join
  <2>1. sphase' # "idle" => sphase # "idle" \/ sphase' = sphase
    BY <1>1 DEF Join, OnBatchStarted, OnTreeTx, OnTreeSigningStarted, OnTreeNonces,
                OnTreeSignature, OnBatchFinalization, OnBatchFinalized, OnBatchFailed,
                Receive, ConfirmRegistration, SubmitTreeNonces, SubmitTreeSignatures,
                SubmitSignedForfeitTxs, Call
  <2>2. batch' = batch
    BY <1>1 DEF Join, OnBatchStarted, OnTreeTx, OnTreeSigningStarted, OnTreeNonces,
                OnTreeSignature, OnBatchFinalization, OnBatchFinalized, OnBatchFailed,
                Receive, ConfirmRegistration, SubmitTreeNonces, SubmitTreeSignatures,
                SubmitSignedForfeitTxs, Call, server
  <2>3. pc' = "forfeits" => OnBatchFinalization
    BY <1>1 DEF Join, OnBatchStarted, OnTreeTx, OnTreeSigningStarted, OnTreeNonces,
                OnTreeSignature, OnBatchFinalized, OnBatchFailed,
                Receive, ConfirmRegistration, SubmitTreeNonces, SubmitTreeSignatures,
                SubmitSignedForfeitTxs, Call
  <2>4. OnBatchFinalization /\ pc' = "forfeits" => event'.type = "BatchFinalization"
    BY DEF OnBatchFinalization, Receive, Calls
  <2> QED
    BY <2>1, <2>2, <2>3, <2>4 DEF Numbered, Batches
<1>2. CASE Server
  <2>1. pc' = pc /\ event' = event
    BY <1>2 DEF Server, ServerStart, ServerDrop, ServerTree, ServerNonces, ServerFinalize,
                ServerCommit, ServerFail, session
  <2>2. CASE ServerStart
    BY <2>1, <2>2 DEF ServerStart, TypeOK, Numbered, Batches
  <2>3. CASE ~ServerStart
    BY <1>2, <2>1, <2>3 DEF Server, ServerDrop, ServerTree, ServerNonces, ServerFinalize,
                ServerCommit, ServerFail, server, Numbered, Batches
  <2> QED
    BY <2>2, <2>3
<1>3. CASE StreamEnds
  BY <1>3 DEF StreamEnds, server, Numbered, Batches
<1>4. CASE LoseEvent
  BY <1>4 DEF LoseEvent, server, session, Numbered, Batches
<1>5. CASE UNCHANGED vars
  BY <1>5 DEF vars, server, Numbered, Batches
<1> QED
  BY <1>1, <1>2, <1>3, <1>4, <1>5 DEF Next

\* Every step keeps the types.
LEMMA TypeStep ==
    ASSUME TypeOK, Numbered, [Next]_vars
    PROVE  TypeOK'
<1>1. CASE Join
  BY <1>1, HandlerType, CallType DEF Join
<1>2. CASE Server
  BY <1>2, ServerType
<1>3. CASE StreamEnds
  BY <1>3 DEF StreamEnds, TypeOK, Over, server, mode, history, signer
<1>4. CASE LoseEvent
  <2>1. chan' \in Seq(Events)
    BY <1>4, HeadType DEF LoseEvent
  <2> QED
    BY <1>4, <2>1 DEF LoseEvent, TypeOK, server, mode, history, session, signer
<1>5. CASE UNCHANGED vars
  BY <1>5 DEF vars, TypeOK, server, mode, history, signer
<1> QED
  BY <1>1, <1>2, <1>3, <1>4, <1>5 DEF Next

\* A new session is well typed.
LEMMA InitTyped == ASSUME Init PROVE TypeOK /\ Numbered
<1>1. <<>> \in Seq(Events) /\ <<>> \in Seq(Txs)
  OBVIOUS
<1>2. batch \in 0 .. MaxBatches
  BY JoinAssumption DEF Init
<1> QED
  BY <1>1, <1>2 DEF Init, TypeOK, Numbered, Steps

\* Every variable of a session keeps its type, whatever the server sends and
\* however much of it is lost.
THEOREM TypeCorrect == Spec => []TypeOK
<1>1. Init => TypeOK /\ Numbered
  BY InitTyped
<1>2. TypeOK /\ Numbered /\ [Next]_vars => TypeOK' /\ Numbered'
  BY TypeStep, NumberedStep
<1> QED
  BY <1>1, <1>2, PTL DEF Spec

-----------------------------------------------------------------------------
(* One tree is signed.                                                      *)

\* Once a tree was validated, its root stays among the chunks, so that a tree
\* of another batch can never be created again.
TreeInv ==
    /\ validated # NoCommitment =>
           /\ ~validated.alt /\ validated.pays
           /\ Tx(validated.batch, "root") \in Chunks(flat)
           /\ tree # {}
           /\ \A t \in tree \cup graph \cup nonces : t.batch = validated.batch
    /\ validated = NoCommitment => nonces = {}
    /\ aggregated \subseteq nonces

\* What TreeSigningStarted does to a session.
LEMMA SigningStarted ==
    ASSUME TypeOK, OnTreeSigningStarted
    PROVE  /\ UNCHANGED <<step, flat, conns, aggregated, returned>>
           /\ \/ UNCHANGED <<tree, graph, nonces, validated>> /\ pc' # "nonces"
              \/ /\ CreateTree(flat) # {} /\ tree' = CreateTree(flat)
                 /\ \/ UNCHANGED <<graph, nonces, validated>> /\ pc' # "nonces"
                    \/ /\ ValidTree(CreateTree(flat), e.commitment)
                       /\ validated' = e.commitment /\ graph' = CreateTree(flat)
                       /\ nonces' = IF nonces = {} THEN CreateTree(flat) ELSE nonces
                       /\ pc' = "nonces"
           /\ pc' \in {"recv", "thrown", "nonces"}
           /\ e.commitment \in Commitments
<1> DEFINE built == CreateTree(flat)
           signs == built # {} /\ e.cosigner /\ ValidTree(built, e.commitment)
           next == IF step # "batch_started" THEN "recv"
                   ELSE IF built # {} /\ ~e.cosigner THEN "recv"
                   ELSE IF signs THEN "nonces" ELSE "thrown"
<1>1. Receive("TreeSigningStarted", next) /\ next \in {"recv", "thrown", "nonces"}
  BY DEF OnTreeSigningStarted
<1>2. e \in Events /\ e.type = "TreeSigningStarted"
  <2> HIDE DEF next
  <2> QED
    BY <1>1, ReceiveType DEF Calls
<1>3. e.commitment \in Commitments
  BY <1>2 DEF Events
<1>4. pc' = next
  BY <1>1 DEF Receive
<1> QED
  BY <1>1, <1>3, <1>4 DEF OnTreeSigningStarted, signer

\* A validated commitment is never replaced by another one.
LEMMA ValidatedStands ==
    ASSUME TypeOK, TreeInv, OnTreeSigningStarted, validated # NoCommitment
    PROVE  validated' = validated
<1>1. CASE validated' # validated
  <2>1. /\ CreateTree(flat) # {} /\ ValidTree(CreateTree(flat), e.commitment)
        /\ validated' = e.commitment /\ e.commitment \in Commitments
    BY <1>1, SigningStarted
  <2>2. /\ CreateTree(flat) = Chunks(flat)
        /\ \A t, u \in Chunks(flat) : t.batch = u.batch
    BY <2>1, OneBatchTree DEF TypeOK
  <2>3. Tx(e.commitment.batch, "root") \in Chunks(flat) /\ ~e.commitment.alt
        /\ e.commitment.pays
    BY <2>1, <2>2 DEF ValidTree
  <2>4. e.commitment.batch = validated.batch
    BY <2>2, <2>3 DEF TreeInv, Tx
  <2>5. validated \in Commitments /\ ~validated.alt /\ validated.pays
    BY DEF TypeOK, TreeInv
  <2>6. e.commitment = validated
    BY <2>1, <2>3, <2>4, <2>5 DEF Commitments
  <2> QED
    BY <2>1, <2>6
<1> QED
  BY <1>1

\* Chunks are only ever added.
LEMMA ChunksGrow ==
    ASSUME NEW s \in Seq(Txs), NEW t \in Txs
    PROVE  Chunks(s) \subseteq Chunks(Append(s, t))
<1>1. \A i \in DOMAIN s : i \in DOMAIN Append(s, t) /\ Append(s, t)[i] = s[i]
  OBVIOUS
<1> QED
  BY <1>1 DEF Chunks

\* Every step keeps the session bound to one tree.
LEMMA TreeStep ==
    ASSUME TypeOK, TypeOK', TreeInv, [Next]_vars
    PROVE  TreeInv'
<1>1. CASE OnTreeTx
  <2>1. e \in Events /\ e.type = "TreeTx"
    BY <1>1, ReceiveType DEF OnTreeTx
  <2>2. e.tx \in Txs
    BY <2>1 DEF Events
  <2>3. flat' \in {flat, Append(flat, e.tx)}
    BY <1>1, Zenon DEF OnTreeTx
  <2>4. Chunks(flat) \subseteq Chunks(flat')
    BY <2>2, <2>3, ChunksGrow DEF TypeOK
  <2>5. UNCHANGED <<tree, graph, nonces, aggregated, validated>>
    BY <1>1 DEF OnTreeTx, signer
  <2> QED
    BY <2>4, <2>5 DEF TreeInv
<1>2. CASE OnTreeSigningStarted
  <2>1. flat' = flat /\ aggregated' = aggregated
    BY <1>2, SigningStarted
  <2>2. CASE UNCHANGED <<tree, graph, nonces, validated>>
    BY <2>1, <2>2 DEF TreeInv
  <2>3. CASE CreateTree(flat) # {} /\ tree' = CreateTree(flat)
    <3>1. CreateTree(flat) = Chunks(flat) /\ \A t, u \in Chunks(flat) : t.batch = u.batch
      BY <2>3, OneBatchTree DEF TypeOK
    <3>2. CASE UNCHANGED <<graph, nonces, validated>>
      <4>1. validated # NoCommitment => \A t \in tree' : t.batch = validated.batch
        BY <2>3, <3>1 DEF TreeInv, Tx
      <4> QED
        BY <2>1, <2>3, <3>2, <4>1 DEF TreeInv
    <3>3. CASE /\ ValidTree(CreateTree(flat), e.commitment)
               /\ validated' = e.commitment /\ graph' = CreateTree(flat)
               /\ nonces' = IF nonces = {} THEN CreateTree(flat) ELSE nonces
      <4>1. /\ Tx(e.commitment.batch, "root") \in Chunks(flat)
            /\ ~e.commitment.alt /\ e.commitment.pays
        BY <3>1, <3>3 DEF ValidTree
      <4>2. \A t \in Chunks(flat) : t.batch = e.commitment.batch
        BY <3>1, <4>1 DEF Tx
      <4>3. \A t \in nonces : t.batch = e.commitment.batch
        <5>1. CASE validated = NoCommitment
          BY <5>1 DEF TreeInv
        <5>2. CASE validated # NoCommitment
          BY <1>2, <3>3, <5>2, ValidatedStands DEF TreeInv
        <5> QED
          BY <5>1, <5>2
      <4>4. validated' # NoCommitment
        BY <1>2, <3>3, SigningStarted DEF Commitments, NoCommitment, Batches
      <4>5. aggregated' \subseteq nonces'
        BY <2>1, <3>3 DEF TreeInv
      <4> QED
        BY <2>1, <2>3, <3>1, <3>3, <4>1, <4>2, <4>3, <4>4, <4>5 DEF TreeInv
    <3> QED
      BY <1>2, <2>3, <3>2, <3>3, SigningStarted
  <2> QED
    BY <1>2, <2>2, <2>3, SigningStarted
<1>3. CASE OnTreeNonces
  <2>1. UNCHANGED <<flat, tree, graph, nonces, validated>>
    BY <1>3 DEF OnTreeNonces
  <2>2. aggregated' \subseteq nonces
    BY <1>3 DEF OnTreeNonces, TreeInv
  <2> QED
    BY <2>1, <2>2 DEF TreeInv
<1>4. CASE OnBatchFinalization
  <2>1. UNCHANGED <<flat, graph, nonces, aggregated, validated>>
    BY <1>4 DEF OnBatchFinalization, signer
  <2>2. tree # {} => tree' = tree
    BY <1>4 DEF OnBatchFinalization
  <2> QED
    BY <2>1, <2>2 DEF TreeInv
<1>5. CASE UNCHANGED <<flat, tree, signer>>
  BY <1>5 DEF signer, TreeInv
<1>6. CASE OnBatchStarted \/ OnTreeSignature \/ OnBatchFinalized \/ OnBatchFailed
  BY <1>5, <1>6 DEF OnBatchStarted, OnTreeSignature, OnBatchFinalized, OnBatchFailed
<1>7. CASE \/ ConfirmRegistration \/ SubmitTreeNonces \/ SubmitTreeSignatures
           \/ SubmitSignedForfeitTxs
  BY <1>5, <1>7 DEF ConfirmRegistration, SubmitTreeNonces, SubmitTreeSignatures,
                    SubmitSignedForfeitTxs, Call
<1>8. CASE Server
  BY <1>5, <1>8 DEF Server, ServerStart, ServerDrop, ServerTree, ServerNonces,
                    ServerFinalize, ServerCommit, ServerFail, session
<1>9. CASE StreamEnds \/ LoseEvent \/ UNCHANGED vars
  BY <1>5, <1>9 DEF StreamEnds, LoseEvent, session, vars
<1> QED
  BY <1>1, <1>2, <1>3, <1>4, <1>6, <1>7, <1>8, <1>9 DEF Next, Join

\* The signer signs one tree at most, the validated one, and every nonce it uses
\* was drawn for a transaction of that tree.
THEOREM OneTree == Spec => []OneTreeSigned
<1>1. Init => TypeOK /\ Numbered /\ TreeInv
  <2> SUFFICES ASSUME Init PROVE TypeOK /\ Numbered /\ TreeInv
    OBVIOUS
  <2>1. TypeOK /\ Numbered
    BY InitTyped
  <2> QED
    BY <2>1 DEF Init, TreeInv
<1>2. TypeOK /\ Numbered /\ TreeInv /\ [Next]_vars => (TypeOK /\ Numbered /\ TreeInv)'
  BY TypeStep, NumberedStep, TreeStep
<1>3. TreeInv => OneTreeSigned
  BY DEF TreeInv, OneTreeSigned
<1> QED
  BY <1>1, <1>2, <1>3, PTL DEF Spec

-----------------------------------------------------------------------------
(* Forfeits are for our batches.                                            *)

\* Tree transactions are sent to members, and members have confirmed.
AdmitInv ==
    /\ \A i \in DOMAIN chan : chan[i].type = "TreeTx" => chan[i].tx.batch \in joined
    /\ \A i \in DOMAIN conns : conns[i].batch \in joined
    /\ member /\ sphase \notin {"idle", "started"} => batch \in joined

\* The order of the steps: a tree is validated before anything depends on it,
\* and what is about to be forfeited was checked.
ForfeitInv ==
    /\ ~skip /\ (\/ pc \in {"nonces", "signatures", "forfeits"}
                 \/ step \in {"tree_signing_started", "tree_nonces_aggregated",
                              "batch_finalization"})
           => validated # NoCommitment
    /\ pc = "forfeits" =>
           /\ event.commitment.pays /\ event.commitment.batch \in joined
           /\ ~skip => event.commitment = validated
    /\ ForfeitsAreOurs

\* Sending events that are about a batch the session joined, or not about a tree.
LEMMA EmitAdmits ==
    ASSUME TypeOK, AdmitInv, NEW s \in Seq(Events), Emit(s),
           \A i \in DOMAIN s : s[i].type = "TreeTx" => s[i].tx.batch \in joined
    PROVE  \A i \in DOMAIN chan' : chan'[i].type = "TreeTx" => chan'[i].tx.batch \in joined
<1>1. chan \in Seq(Events)
  BY DEF TypeOK
<1>2. CASE pc \in Over
  BY <1>2 DEF Emit
<1>3. CASE pc \notin Over
  <2>1. chan' = chan \o s
    BY <1>3 DEF Emit
  <2>2. \A i \in DOMAIN chan' : \/ i \in DOMAIN chan /\ chan'[i] = chan[i]
                                \/ \E j \in DOMAIN s : chan'[i] = s[j]
    <3> SUFFICES ASSUME NEW i \in DOMAIN chan'
                 PROVE \/ i \in DOMAIN chan /\ chan'[i] = chan[i]
                       \/ \E j \in DOMAIN s : chan'[i] = s[j]
      OBVIOUS
    <3>1. i \in 1 .. (Len(chan) + Len(s)) /\ Len(chan) \in Nat /\ Len(s) \in Nat
      BY <1>1, <2>1
    <3>2. CASE i <= Len(chan)
      BY <1>1, <2>1, <3>1, <3>2
    <3>3. CASE i > Len(chan)
      <4>1. i - Len(chan) \in DOMAIN s /\ chan'[i] = s[i - Len(chan)]
        BY <1>1, <2>1, <3>1, <3>3
      <4> QED
        BY <4>1
    <3> QED
      BY <3>1, <3>2, <3>3
  <2> QED
    BY <2>2 DEF AdmitInv
<1> QED
  BY <1>2, <1>3

\* The rest of the stream holds nothing new.
LEMMA TailAdmits ==
    ASSUME TypeOK, AdmitInv, chan # <<>>, chan' = Tail(chan)
    PROVE  /\ \A i \in DOMAIN chan' : chan'[i].type = "TreeTx" => chan'[i].tx.batch \in joined
           /\ e.type = "TreeTx" => e.tx.batch \in joined
<1>1. chan \in Seq(Events)
  BY DEF TypeOK
<1>2. \A i \in DOMAIN chan' : i + 1 \in DOMAIN chan /\ chan'[i] = chan[i + 1]
  BY <1>1
<1>3. 1 \in DOMAIN chan /\ e = chan[1]
  BY <1>1 DEF e
<1> QED
  BY <1>2, <1>3 DEF AdmitInv

\* Three batches of events, the middle one about a joined batch.
LEMMA JoinedSequences ==
    ASSUME NEW a \in Seq(Events), NEW b \in Seq(Events), NEW c \in Seq(Events), NEW J,
           \A i \in DOMAIN a : a[i].type # "TreeTx",
           \A i \in DOMAIN b : b[i].tx.batch \in J,
           \A i \in DOMAIN c : c[i].type # "TreeTx"
    PROVE  /\ a \o b \o c \in Seq(Events)
           /\ \A i \in DOMAIN (a \o b \o c) : (a \o b \o c)[i].type = "TreeTx"
                 => (a \o b \o c)[i].tx.batch \in J
<1>1. a \o b \in Seq(Events)
  OBVIOUS
<1>2. \A i \in DOMAIN (a \o b) : (a \o b)[i].type = "TreeTx" => (a \o b)[i].tx.batch \in J
  <2> SUFFICES ASSUME NEW i \in 1 .. (Len(a) + Len(b)), (a \o b)[i].type = "TreeTx"
               PROVE (a \o b)[i].tx.batch \in J
    OBVIOUS
  <2>1. CASE i <= Len(a)
    BY <2>1
  <2>2. CASE i > Len(a)
    <3>1. i - Len(a) \in DOMAIN b /\ (a \o b)[i] = b[i - Len(a)]
      BY <2>2
    <3> QED
      BY <3>1
  <2> QED
    BY <2>1, <2>2
<1> DEFINE ab == a \o b
<1> HIDE DEF ab
<1>3. \A i \in DOMAIN (ab \o c) : (ab \o c)[i].type = "TreeTx" => (ab \o c)[i].tx.batch \in J
  <2> SUFFICES ASSUME NEW i \in 1 .. (Len(ab) + Len(c)), (ab \o c)[i].type = "TreeTx"
               PROVE (ab \o c)[i].tx.batch \in J
    BY <1>1 DEF ab
  <2>1. CASE i <= Len(ab)
    BY <1>1, <1>2, <2>1 DEF ab
  <2>2. CASE i > Len(ab)
    <3>1. i - Len(ab) \in DOMAIN c /\ (ab \o c)[i] = c[i - Len(ab)]
      BY <1>1, <2>2 DEF ab
    <3> QED
      BY <3>1
  <2> QED
    BY <2>1, <2>2
<1> QED
  BY <1>1, <1>3 DEF ab

\* Chunks and connectors only ever come from batches the session has joined.
LEMMA AdmitStep ==
    ASSUME TypeOK, TypeOK', Numbered, AdmitInv, [Next]_vars
    PROVE  AdmitInv'
<1> USE DEF server, mode, history, session
<1>1. CASE OnTreeTx
  <2>1. chan # <<>> /\ chan' = Tail(chan) /\ e.type = "TreeTx" /\ joined' = joined
        /\ member' = member /\ sphase' = sphase /\ batch' = batch
    BY <1>1 DEF OnTreeTx, Receive
  <2>2. e \in Events
    BY <2>1, HeadType
  <2>3. e.tx \in Txs
    BY <2>1, <2>2 DEF Events
  <2>4. conns' \in {conns, Append(conns, e.tx)}
    BY <1>1, Zenon DEF OnTreeTx
  <2>5. conns \in Seq(Txs)
    BY DEF TypeOK
  <2>6. \A i \in DOMAIN conns' : (i \in DOMAIN conns /\ conns'[i] = conns[i]) \/ conns'[i] = e.tx
    BY <2>3, <2>4, <2>5
  <2>7. \A i \in DOMAIN conns' : conns'[i].batch \in joined'
    BY <2>1, <2>6, TailAdmits DEF AdmitInv
  <2> QED
    BY <2>1, <2>7, TailAdmits DEF AdmitInv
<1>2. CASE \/ OnBatchStarted \/ OnTreeSigningStarted \/ OnTreeNonces
           \/ OnTreeSignature \/ OnBatchFinalization \/ OnBatchFinalized \/ OnBatchFailed
  <2>1. chan # <<>> /\ chan' = Tail(chan) /\ joined' = joined /\ conns' = conns
        /\ member' = member /\ sphase' = sphase /\ batch' = batch
    BY <1>2 DEF OnBatchStarted, OnTreeSigningStarted, OnTreeNonces, OnTreeSignature,
                OnBatchFinalization, OnBatchFinalized, OnBatchFailed, Receive
  <2> QED
    BY <2>1, TailAdmits DEF AdmitInv
<1>3. CASE \/ ConfirmRegistration \/ SubmitTreeNonces \/ SubmitTreeSignatures
           \/ SubmitSignedForfeitTxs
  <2>1. UNCHANGED <<chan, conns, member, batch>> /\ joined \subseteq joined'
    BY <1>3 DEF ConfirmRegistration, SubmitTreeNonces, SubmitTreeSignatures,
                SubmitSignedForfeitTxs, Call
  <2>2. \/ sphase' = sphase \/ (sphase \notin {"idle", "started"})
        \/ (sphase' = "confirmed" /\ joined' = joined \cup {batch})
    BY <1>3 DEF ConfirmRegistration, SubmitTreeNonces, SubmitTreeSignatures,
                SubmitSignedForfeitTxs, Call
  <2> QED
    BY <2>1, <2>2 DEF AdmitInv
<1>4. CASE ServerStart
  <2>1. PICK sane \in BOOLEAN :
           Emit(<<[type |-> "BatchStarted", batch |-> batch', member |-> member',
                   sane |-> sane]>>)
    BY <1>4 DEF ServerStart
  <2> DEFINE ev == [type |-> "BatchStarted", batch |-> batch', member |-> member', sane |-> sane]
  <2>2. batch' \in Batches /\ member' \in BOOLEAN
    BY <1>4, JoinAssumption DEF ServerStart, TypeOK, Batches
  <2>3. ev \in Events
    BY <2>2 DEF Events
  <2>4. <<ev>> \in Seq(Events) /\ \A i \in DOMAIN <<ev>> : <<ev>>[i].type # "TreeTx"
    BY <2>3
  <2>5. \A i \in DOMAIN chan' : chan'[i].type = "TreeTx" => chan'[i].tx.batch \in joined
    <3> HIDE DEF ev
    <3> QED
      BY <2>1, <2>4, EmitAdmits DEF ev
  <2> QED
    BY <1>4, <2>5 DEF ServerStart, AdmitInv
<1>5. CASE ServerDrop
  BY <1>5 DEF ServerDrop, AdmitInv
<1>6. CASE ServerTree
  <2>1. batch \in Batches /\ batch \in joined
    BY <1>6 DEF ServerTree, Numbered, AdmitInv
  <2>2. PICK c \in Presented, cosigner \in BOOLEAN :
           Emit(TreeEvents("TreeTx")
                \o <<[type |-> "TreeSigningStarted", batch |-> batch, commitment |-> c,
                      cosigner |-> cosigner]>>)
    BY <1>6 DEF ServerTree
  <2> DEFINE ev == [type |-> "TreeSigningStarted", batch |-> batch, commitment |-> c,
                    cosigner |-> cosigner]
             evs == TreeEvents("TreeTx") \o <<ev>>
  <2>3. ev \in Events
    BY <2>1, PresentedType DEF Events
  <2>4. evs \in Seq(Events)
    BY <2>1, <2>3, TreeEventsType
  <2>5. \A i \in DOMAIN evs : evs[i].type = "TreeTx" => evs[i].tx.batch \in joined
    BY <2>1 DEF TreeEvents, Tx
  <2>6. \A i \in DOMAIN chan' : chan'[i].type = "TreeTx" => chan'[i].tx.batch \in joined
    BY <2>2, <2>4, <2>5, EmitAdmits
  <2> QED
    BY <1>6, <2>6 DEF ServerTree, AdmitInv
<1>7. CASE ServerNonces
  <2>1. batch \in Batches
    BY <1>7 DEF ServerNonces, Numbered
  <2>2. TreeEvents("TreeNonces") \in Seq(Events)
        /\ \A i \in DOMAIN TreeEvents("TreeNonces") :
              TreeEvents("TreeNonces")[i].type # "TreeTx"
    BY <2>1, TreeEventsType DEF TreeEvents
  <2>3. \A i \in DOMAIN chan' : chan'[i].type = "TreeTx" => chan'[i].tx.batch \in joined
    BY <1>7, <2>2, EmitAdmits DEF ServerNonces
  <2> QED
    BY <1>7, <2>3 DEF ServerNonces, AdmitInv
<1>8. CASE ServerFinalize
  <2>1. batch \in Batches /\ (member => batch \in joined)
    BY <1>8 DEF ServerFinalize, Numbered, AdmitInv
  <2> DEFINE sigs == IF sphase = "signed" THEN TreeEvents("TreeSignature") ELSE <<>>
             link == IF member THEN <<[type |-> "TreeTx", tx |-> Tx(batch, "connector")]>>
                     ELSE <<>>
             end(c) == <<[type |-> "BatchFinalization", batch |-> batch, commitment |-> c]>>
  <2>2. PICK c \in Presented : Emit(sigs \o link \o end(c))
    BY <1>8 DEF ServerFinalize
  <2>3. sigs \in Seq(Events) /\ \A i \in DOMAIN sigs : sigs[i].type # "TreeTx"
    BY <2>1, TreeEventsType DEF TreeEvents
  <2>4. [type |-> "TreeTx", tx |-> Tx(batch, "connector")] \in Events
    BY <2>1 DEF Events, Tx, Txs
  <2>5. [type |-> "BatchFinalization", batch |-> batch, commitment |-> c] \in Events
    BY <2>1, PresentedType DEF Events
  <2>6. link \in Seq(Events) /\ \A i \in DOMAIN link : link[i].tx.batch \in joined
    BY <2>1, <2>4 DEF Tx
  <2>7. end(c) \in Seq(Events) /\ \A i \in DOMAIN end(c) : end(c)[i].type # "TreeTx"
    BY <2>5
  <2> HIDE DEF sigs, link, end
  <2>8. /\ sigs \o link \o end(c) \in Seq(Events)
        /\ \A i \in DOMAIN (sigs \o link \o end(c)) :
              (sigs \o link \o end(c))[i].type = "TreeTx"
                 => (sigs \o link \o end(c))[i].tx.batch \in joined
    BY <2>3, <2>6, <2>7, JoinedSequences
  <2>9. \A i \in DOMAIN chan' : chan'[i].type = "TreeTx" => chan'[i].tx.batch \in joined
    BY <2>2, <2>8, EmitAdmits
  <2> QED
    BY <1>8, <2>1, <2>9 DEF ServerFinalize, AdmitInv
<1>9. CASE ServerCommit
  <2>1. batch \in Batches
    BY <1>9 DEF ServerCommit, Numbered
  <2>2. PICK c \in Presented :
           Emit(<<[type |-> "BatchFinalized", batch |-> batch, commitment |-> c]>>)
    BY <1>9 DEF ServerCommit
  <2> DEFINE ev == [type |-> "BatchFinalized", batch |-> batch, commitment |-> c]
  <2>3. ev \in Events
    BY <2>1, PresentedType DEF Events
  <2>4. <<ev>> \in Seq(Events) /\ \A i \in DOMAIN <<ev>> : <<ev>>[i].type # "TreeTx"
    BY <2>3
  <2>5. \A i \in DOMAIN chan' : chan'[i].type = "TreeTx" => chan'[i].tx.batch \in joined
    BY <2>2, <2>4, EmitAdmits
  <2> QED
    BY <1>9, <2>5 DEF ServerCommit, AdmitInv
<1>10. CASE ServerFail
  <2>1. batch \in Batches
    BY <1>10 DEF ServerFail, Numbered
  <2> DEFINE ev == [type |-> "BatchFailed", batch |-> batch]
  <2>2. ev \in Events
    BY <2>1 DEF Events
  <2>3. <<ev>> \in Seq(Events) /\ \A i \in DOMAIN <<ev>> : <<ev>>[i].type # "TreeTx"
    BY <2>2
  <2>4. \A i \in DOMAIN chan' : chan'[i].type = "TreeTx" => chan'[i].tx.batch \in joined
    BY <1>10, <2>3, EmitAdmits DEF ServerFail
  <2> QED
    BY <1>10, <2>4 DEF ServerFail, AdmitInv
<1>11. CASE StreamEnds \/ UNCHANGED vars
  BY <1>11 DEF StreamEnds, vars, AdmitInv
<1>12. CASE LoseEvent
  BY <1>12, TailAdmits DEF LoseEvent, AdmitInv
<1> QED
  BY <1>1, <1>2, <1>3, <1>4, <1>5, <1>6, <1>7, <1>8, <1>9, <1>10, <1>11, <1>12
  DEF Next, Join, Server

\* Every step keeps the order of the checks, and what was forfeited ours.
LEMMA ForfeitStep ==
    ASSUME TypeOK, TypeOK', Numbered, TreeInv, AdmitInv, ForfeitInv, [Next]_vars
    PROVE  ForfeitInv'
<1> USE DEF history, mode
<1>1. CASE OnTreeSigningStarted
  <2>1. /\ UNCHANGED <<step, skip, joined, forfeited>>
        /\ pc' \in {"recv", "thrown", "nonces"}
        /\ pc' = "nonces" => validated' # NoCommitment
    BY <1>1, SigningStarted DEF OnTreeSigningStarted, Receive, Commitments, NoCommitment,
                                Batches
  <2>2. validated # NoCommitment => validated' = validated
    BY <1>1, ValidatedStands
  <2>3. \A c \in forfeited : c \in Commitments
    BY DEF TypeOK
  <2>4. ForfeitsAreOurs'
    <3> SUFFICES ASSUME NEW c \in forfeited
                 PROVE  c.pays /\ c.batch \in joined /\ (~skip => c = validated')
      BY <2>1 DEF ForfeitsAreOurs
    <3>1. c.pays /\ c.batch \in joined /\ (~skip => c = validated)
      BY DEF ForfeitInv, ForfeitsAreOurs
    <3>2. c # NoCommitment
      BY <2>3 DEF Commitments, NoCommitment, Batches
    <3> QED
      BY <2>2, <3>1, <3>2
  <2> QED
    BY <2>1, <2>2, <2>4 DEF ForfeitInv
<1>2. CASE OnTreeNonces
  <2>1. /\ UNCHANGED <<step, skip, joined, forfeited, validated>>
        /\ pc' \in {"recv", "thrown", "signatures"}
        /\ pc' = "signatures" => step = "tree_signing_started"
    BY <1>2 DEF OnTreeNonces, Receive
  <2> QED
    BY <2>1 DEF ForfeitInv, ForfeitsAreOurs
<1>3. CASE OnBatchFinalization
  <2>1. /\ UNCHANGED <<step, skip, joined, forfeited, validated>>
        /\ pc' \in {"recv", "thrown", "forfeits"}
        /\ pc' = "forfeits" =>
              /\ step = "tree_nonces_aggregated" /\ event' = e
              /\ ValidConnectors(conns, e.commitment)
              /\ FinalCommitmentMatches(e.commitment)
    BY <1>3 DEF OnBatchFinalization, Receive, signer, Calls
  <2>2. CASE pc' = "forfeits"
    <3>1. \E i \in DOMAIN conns : conns[i] = Tx(e.commitment.batch, "connector")
      <4>1. CreateTree(conns) = {Tx(e.commitment.batch, "connector")} /\ conns \in Seq(Txs)
        BY <2>1, <2>2 DEF ValidConnectors, TypeOK
      <4>2. Tx(e.commitment.batch, "connector") \in Chunks(conns)
        BY <4>1, OneBatchTree
      <4> QED
        BY <4>2 DEF Chunks
    <3>2. e.commitment.batch \in joined
      BY <3>1 DEF AdmitInv, Tx
    <3>3. /\ e.commitment.pays
          /\ ~skip => e.commitment = validated /\ validated # NoCommitment
      BY <2>1, <2>2 DEF FinalCommitmentMatches, ForfeitInv, TreeInv
    <3> QED
      BY <2>1, <2>2, <3>2, <3>3 DEF ForfeitInv, ForfeitsAreOurs
  <2>3. CASE pc' # "forfeits"
    BY <2>1, <2>3 DEF ForfeitInv, ForfeitsAreOurs
  <2> QED
    BY <2>2, <2>3
<1>4. CASE OnBatchStarted \/ OnTreeTx \/ OnTreeSignature \/ OnBatchFinalized \/ OnBatchFailed
  <2>1. /\ UNCHANGED <<step, skip, joined, forfeited, validated>>
        /\ pc' \in {"recv", "thrown", "returned", "confirm"}
    BY <1>4 DEF OnBatchStarted, OnTreeTx, OnTreeSignature, OnBatchFinalized, OnBatchFailed,
                Receive, signer
  <2> QED
    BY <2>1 DEF ForfeitInv, ForfeitsAreOurs
<1>5. CASE ConfirmRegistration
  <2>1. /\ UNCHANGED <<skip, forfeited, validated>> /\ joined \subseteq joined'
        /\ pc' \in {"recv", "thrown"}
        /\ step' = step \/ skip \/ step' = "batch_started"
    BY <1>5 DEF ConfirmRegistration, Call, signer
  <2> QED
    BY <2>1 DEF ForfeitInv, ForfeitsAreOurs
<1>6. CASE SubmitTreeNonces \/ SubmitTreeSignatures
  <2>1. /\ UNCHANGED <<skip, forfeited, validated, joined>>
        /\ pc' \in {"recv", "thrown"} /\ pc \in {"nonces", "signatures"}
    BY <1>6 DEF SubmitTreeNonces, SubmitTreeSignatures, Call, signer
  <2> QED
    BY <2>1 DEF ForfeitInv, ForfeitsAreOurs
<1>7. CASE SubmitSignedForfeitTxs
  <2>1. /\ UNCHANGED <<skip, validated, joined>>
        /\ pc' \in {"recv", "thrown"} /\ pc = "forfeits"
        /\ forfeited' = forfeited \cup {event.commitment}
    BY <1>7 DEF SubmitSignedForfeitTxs, Call, signer
  <2> QED
    BY <2>1 DEF ForfeitInv, ForfeitsAreOurs
<1>8. CASE Server \/ LoseEvent
  <2>1. UNCHANGED <<pc, step, event, skip, validated, joined, forfeited>>
    BY <1>8 DEF Server, ServerStart, ServerDrop, ServerTree, ServerNonces, ServerFinalize,
                ServerCommit, ServerFail, LoseEvent, session, signer
  <2> QED
    BY <2>1 DEF ForfeitInv, ForfeitsAreOurs
<1>9. CASE StreamEnds
  BY <1>9 DEF StreamEnds, signer, ForfeitInv, ForfeitsAreOurs
<1>10. CASE UNCHANGED vars
  BY <1>10 DEF vars, signer, ForfeitInv, ForfeitsAreOurs
<1> QED
  BY <1>1, <1>2, <1>3, <1>4, <1>5, <1>6, <1>7, <1>8, <1>9, <1>10 DEF Next, Join

\* Forfeits leave the wallet only for a commitment that pays it, of a batch it
\* was admitted to, and with a tree the one it validated and signed; whatever is
\* lost, requeued or made up by the server.
THEOREM ForfeitsOurs == Spec => []ForfeitsAreOurs
<1> DEFINE Inv == TypeOK /\ Numbered /\ TreeInv /\ AdmitInv /\ ForfeitInv
<1>1. Init => Inv
  <2> SUFFICES ASSUME Init PROVE Inv
    OBVIOUS
  <2>1. TypeOK /\ Numbered
    BY InitTyped
  <2>2. TreeInv /\ ForfeitInv
    BY DEF Init, TreeInv, ForfeitInv, ForfeitsAreOurs
  <2>3. AdmitInv
    BY DEF Init, AdmitInv
  <2> QED
    BY <2>1, <2>2, <2>3
<1>2. Inv /\ [Next]_vars => Inv'
  BY TypeStep, NumberedStep, TreeStep, AdmitStep, ForfeitStep
<1>3. Inv => ForfeitsAreOurs
  BY DEF ForfeitInv
<1> QED
  BY <1>1, <1>2, <1>3, PTL DEF Spec

-----------------------------------------------------------------------------
(* The promise.                                                             *)

\* A commitment is announced as final at most once, last of its batch so far.
Finals ==
    \A i \in DOMAIN chan : chan[i].type = "BatchFinalization" =>
        /\ chan[i].commitment.batch = chan[i].batch
        /\ chan[i].batch <= batch
        /\ chan[i].batch = batch =>
               /\ sphase \in {"finalizing", "forfeited", "idle"}
               /\ sphase = "finalizing" => i = Len(chan)
               /\ sphase = "finalizing" /\ faithful => chan[i].commitment = Announced

\* The forfeits that are being sent are the first ones; while the server waits
\* for them it says nothing.
Sending ==
    pc = "forfeits" =>
        /\ forfeited = {}
        /\ event.commitment.batch = event.batch
        /\ \E i \in DOMAIN conns : conns[i] = Tx(event.batch, "connector")
        /\ event.batch <= batch
        /\ event.batch = batch => sphase \in {"finalizing", "forfeited", "idle"}
        /\ event.batch = batch /\ sphase = "finalizing" =>
               /\ chan = <<>>
               /\ faithful => event.commitment = Announced

\* Forfeits that were taken: their connectors stay, and their batch is not
\* announced as final again.
Taken ==
    pc \notin Over => \A c \in forfeited :
        /\ forfeited = {c}
        /\ \E i \in DOMAIN conns : conns[i] = Tx(c.batch, "connector")
        /\ c.batch <= batch
        /\ c.batch = batch => sphase \in {"forfeited", "idle"}
        /\ \A i \in DOMAIN chan :
               chan[i].type = "BatchFinalization" => chan[i].batch > c.batch

\* What the session waits for once its forfeits were taken.
Awaited ==
    pc \notin Over /\ step = "batch_finalization" =>
        /\ forfeited # {}
        /\ faithful => \A c \in forfeited :
               /\ chan = <<>> => sphase = "forfeited" /\ member /\ Announced = c
               /\ chan # <<>> => \/ Head(chan).type = "BatchFailed"
                                 \/ Head(chan).type = "BatchFinalized" /\ Head(chan).commitment = c

\* A session without a tree validates none, and a return ends the session.
Ends ==
    /\ skip => step # "batch_started" /\ validated = NoCommitment
    /\ returned # NoCommitment <=> pc = "returned"

\* A handler reads one event and leaves the server alone.
LEMMA Reads ==
    ASSUME \/ OnBatchStarted \/ OnTreeTx \/ OnTreeSigningStarted \/ OnTreeNonces
           \/ OnTreeSignature \/ OnBatchFinalization \/ OnBatchFinalized \/ OnBatchFailed
    PROVE  /\ chan # <<>> /\ chan' = Tail(chan) /\ pc = "recv"
           /\ UNCHANGED <<sphase, batch, member, pays, faults, skip, joined, forfeited, step>>
BY DEF OnBatchStarted, OnTreeTx, OnTreeSigningStarted, OnTreeNonces, OnTreeSignature,
       OnBatchFinalization, OnBatchFinalized, OnBatchFailed, Receive, server, mode, history

\* A call is taken, or the session is over.
LEMMA Calling ==
    ASSUME \/ ConfirmRegistration \/ SubmitTreeNonces \/ SubmitTreeSignatures
           \/ SubmitSignedForfeitTxs
    PROVE  /\ UNCHANGED <<chan, batch, member, pays, faults, skip, conns, validated, returned>>
           /\ pc \in Calls
           /\ \/ pc' = "thrown" /\ UNCHANGED <<sphase, step>>
              \/ /\ pc' = "recv" /\ member /\ About(event) = batch
                 /\ \/ /\ sphase = "finalizing" /\ sphase' = "forfeited"
                       /\ step' = "batch_finalization" /\ pc = "forfeits"
                    \/ /\ sphase \notin {"finalizing", "forfeited", "idle"}
                       /\ sphase' \notin {"finalizing", "idle"}
                       /\ step' # "batch_finalization" /\ (skip => step' # "batch_started")
           /\ \/ pc # "forfeits" /\ forfeited' = forfeited
              \/ pc = "forfeits" /\ forfeited' = forfeited \cup {event.commitment}
<1> USE DEF Call, server, mode, signer, history, Calls
<1>1. CASE ConfirmRegistration
  BY <1>1 DEF ConfirmRegistration
<1>2. CASE SubmitTreeNonces
  BY <1>2 DEF SubmitTreeNonces
<1>3. CASE SubmitTreeSignatures
  BY <1>3 DEF SubmitTreeSignatures
<1>4. CASE SubmitSignedForfeitTxs
  BY <1>4 DEF SubmitSignedForfeitTxs
<1> QED
  BY <1>1, <1>2, <1>3, <1>4

\* The server, and a gap of the stream, leave the session alone.
LEMMA Outside ==
    ASSUME Server \/ LoseEvent
    PROVE  UNCHANGED <<pc, step, event, conns, validated, returned, joined, forfeited, faults,
                       skip>>
BY DEF Server, ServerStart, ServerDrop, ServerTree, ServerNonces, ServerFinalize,
       ServerCommit, ServerFail, LoseEvent, session, signer, mode, history

\* What is sent comes after what is under way.
LEMMA EmitParts ==
    ASSUME TypeOK, NEW s \in Seq(Events), Emit(s)
    PROVE  /\ pc \in Over => chan' = <<>>
           /\ pc \notin Over => Len(chan') = Len(chan) + Len(s)
           /\ pc \notin Over /\ chan # <<>> => chan' # <<>> /\ Head(chan') = Head(chan)
           /\ pc \notin Over /\ chan = <<>> => chan' = s
           /\ \A i \in DOMAIN chan' :
                  \/ i \in DOMAIN chan /\ chan'[i] = chan[i]
                  \/ \E j \in DOMAIN s : i = Len(chan) + j /\ chan'[i] = s[j]
<1>1. chan \in Seq(Events) /\ Len(chan) \in Nat /\ Len(s) \in Nat
  BY DEF TypeOK
<1>2. CASE pc \in Over
  BY <1>2 DEF Emit
<1>3. CASE pc \notin Over
  <2>1. chan' = chan \o s
    BY <1>3 DEF Emit
  <2>2. Len(chan') = Len(chan) + Len(s)
    BY <1>1, <2>1
  <2>3. chan # <<>> => chan' # <<>> /\ Head(chan') = Head(chan)
    BY <1>1, <2>1
  <2>4. chan = <<>> => chan' = s
    BY <2>1
  <2>5. ASSUME NEW i \in DOMAIN chan'
        PROVE  \/ i \in DOMAIN chan /\ chan'[i] = chan[i]
               \/ \E j \in DOMAIN s : i = Len(chan) + j /\ chan'[i] = s[j]
    <3>1. i \in 1 .. (Len(chan) + Len(s))
      BY <1>1, <2>1
    <3>2. CASE i <= Len(chan)
      BY <1>1, <2>1, <3>1, <3>2
    <3>3. CASE i > Len(chan)
      <4>1. i - Len(chan) \in DOMAIN s /\ chan'[i] = s[i - Len(chan)]
        BY <1>1, <2>1, <3>1, <3>3
      <4>2. i = Len(chan) + (i - Len(chan))
        BY <1>1, <3>1
      <4> QED
        BY <4>1, <4>2
    <3> QED
      BY <3>1, <3>2, <3>3
  <2> QED
    BY <1>3, <2>2, <2>3, <2>4, <2>5
<1> QED
  BY <1>2, <1>3

\* A faithful server presents what it announced.
LEMMA FaithfulPresents ==
    ASSUME faithful
    PROVE  Presented = {Announced}
BY DEF faithful, Presented, Subtle

\* The steps of the server, but for the announcement of a commitment: how its
\* batch moves on, and what it sends.
Quiet(s) ==
    /\ s \in Seq(Events) /\ Emit(s)
    /\ \A i \in DOMAIN s : s[i].type # "BatchFinalization"
    /\ sphase' # "finalizing"
    /\ batch' \in Int /\ batch <= batch'
    /\ batch' = batch => sphase' = "idle" \/ sphase \notin {"finalizing", "forfeited", "idle"}
    /\ sphase = "forfeited" /\ member =>
           /\ s # <<>>
           /\ \/ Head(s).type = "BatchFailed"
              \/ Head(s).type = "BatchFinalized" /\ (faithful => Head(s).commitment = Announced)

\* Every such step of the server is one of these.
LEMMA QuietServer ==
    ASSUME TypeOK, Numbered,
           ServerStart \/ ServerTree \/ ServerNonces \/ ServerCommit \/ ServerFail
    PROVE  \E s : Quiet(s)
<1> USE DEF server
<1>0. batch \in Int /\ MaxBatches \in Nat
  BY JoinAssumption DEF TypeOK
<1>1. CASE ServerStart
  <2>1. PICK sane \in BOOLEAN :
           Emit(<<[type |-> "BatchStarted", batch |-> batch', member |-> member',
                   sane |-> sane]>>)
    BY <1>1 DEF ServerStart
  <2> DEFINE ev == [type |-> "BatchStarted", batch |-> batch', member |-> member', sane |-> sane]
  <2>2. batch' = batch + 1 /\ sphase = "idle" /\ sphase' = "started" /\ batch < MaxBatches
    BY <1>1 DEF ServerStart
  <2>7. member' \in BOOLEAN
    BY <1>1 DEF ServerStart, TypeOK
  <2>8. batch' \in Batches
    BY <1>0, <2>2 DEF TypeOK, Batches
  <2>3. ev \in Events
    BY <2>7, <2>8 DEF Events
  <2>4. <<ev>> \in Seq(Events) /\ \A i \in DOMAIN <<ev>> : <<ev>>[i].type # "BatchFinalization"
    BY <2>3
  <2>5. Emit(<<ev>>)
    BY <2>1
  <2> HIDE DEF ev
  <2>6. Quiet(<<ev>>)
    BY <1>0, <2>2, <2>4, <2>5 DEF Quiet
  <2> QED
    BY <2>6
<1>2. CASE ServerTree
  <2>1. batch \in Batches
    BY <1>2 DEF ServerTree, Numbered
  <2>2. PICK c \in Presented, cosigner \in BOOLEAN :
           Emit(TreeEvents("TreeTx")
                \o <<[type |-> "TreeSigningStarted", batch |-> batch, commitment |-> c,
                      cosigner |-> cosigner]>>)
    BY <1>2 DEF ServerTree
  <2> DEFINE ev == [type |-> "TreeSigningStarted", batch |-> batch, commitment |-> c,
                    cosigner |-> cosigner]
             evs == TreeEvents("TreeTx") \o <<ev>>
  <2>3. ev \in Events
    BY <2>1, PresentedType DEF Events
  <2>4. evs \in Seq(Events)
    BY <2>1, <2>3, TreeEventsType
  <2>5. \A i \in DOMAIN evs : evs[i].type # "BatchFinalization"
    BY <2>1 DEF TreeEvents
  <2>6. Emit(evs)
    BY <2>2
  <2>7. batch' = batch /\ sphase = "confirmed" /\ sphase' = "nonces"
    BY <1>2 DEF ServerTree
  <2> HIDE DEF evs
  <2>8. Quiet(evs)
    BY <1>0, <2>4, <2>5, <2>6, <2>7 DEF Quiet
  <2> QED
    BY <2>8
<1>3. CASE ServerNonces
  <2>1. batch \in Batches
    BY <1>3 DEF ServerNonces, Numbered
  <2> DEFINE evs == TreeEvents("TreeNonces")
  <2>2. evs \in Seq(Events) /\ \A i \in DOMAIN evs : evs[i].type # "BatchFinalization"
    BY <2>1, TreeEventsType DEF TreeEvents
  <2>3. Emit(evs) /\ batch' = batch /\ sphase = "aggregating" /\ sphase' = "signatures"
    BY <1>3 DEF ServerNonces
  <2> HIDE DEF evs
  <2>4. Quiet(evs)
    BY <1>0, <2>2, <2>3 DEF Quiet
  <2> QED
    BY <2>4
<1>4. CASE ServerCommit
  <2>1. batch \in Batches
    BY <1>4 DEF ServerCommit, Numbered
  <2>2. PICK c \in Presented :
           Emit(<<[type |-> "BatchFinalized", batch |-> batch, commitment |-> c]>>)
    BY <1>4 DEF ServerCommit
  <2> DEFINE ev == [type |-> "BatchFinalized", batch |-> batch, commitment |-> c]
  <2>3. ev \in Events
    BY <2>1, PresentedType DEF Events
  <2>4. <<ev>> \in Seq(Events) /\ \A i \in DOMAIN <<ev>> : <<ev>>[i].type # "BatchFinalization"
    BY <2>3
  <2>5. <<ev>> # <<>> /\ Head(<<ev>>).type = "BatchFinalized"
        /\ (faithful => Head(<<ev>>).commitment = Announced)
    BY FaithfulPresents
  <2>6. Emit(<<ev>>) /\ batch' = batch /\ sphase' = "idle"
    BY <1>4, <2>2 DEF ServerCommit
  <2> HIDE DEF ev
  <2>7. Quiet(<<ev>>)
    BY <1>0, <2>4, <2>5, <2>6 DEF Quiet
  <2> QED
    BY <2>7
<1>5. CASE ServerFail
  <2>1. batch \in Batches
    BY <1>5 DEF ServerFail, Numbered
  <2> DEFINE ev == [type |-> "BatchFailed", batch |-> batch]
  <2>2. ev \in Events
    BY <2>1 DEF Events
  <2>3. <<ev>> \in Seq(Events) /\ \A i \in DOMAIN <<ev>> : <<ev>>[i].type # "BatchFinalization"
    BY <2>2
  <2>4. <<ev>> # <<>> /\ Head(<<ev>>).type = "BatchFailed"
    OBVIOUS
  <2>5. Emit(<<ev>>) /\ batch' = batch /\ sphase' = "idle"
    BY <1>5 DEF ServerFail
  <2> HIDE DEF ev
  <2>6. Quiet(<<ev>>)
    BY <1>0, <2>3, <2>4, <2>5 DEF Quiet
  <2> QED
    BY <2>6
<1> QED
  BY <1>1, <1>2, <1>3, <1>4, <1>5

\* One event after others.
LEMMA OneMore ==
    ASSUME NEW a \in Seq(Events), NEW b \in Seq(Events), Len(b) = 1
    PROVE  /\ a \o b \in Seq(Events) /\ Len(a \o b) = Len(a) + 1
           /\ (a \o b)[Len(a \o b)] = b[1]
           /\ \A i \in DOMAIN (a \o b) : i # Len(a \o b) => i \in DOMAIN a /\ (a \o b)[i] = a[i]
<1>1. a \o b \in Seq(Events) /\ Len(a \o b) = Len(a) + 1 /\ Len(a) \in Nat
  <2>1. a \o b \in Seq(Events)
    OBVIOUS
  <2>2. Len(a \o b) = Len(a) + Len(b)
    BY ConcatProperties
  <2> QED
    BY <2>1, <2>2
<1>2. (a \o b)[Len(a) + 1] = b[1]
  BY <1>1
<1>3. \A i \in 1 .. Len(a) : (a \o b)[i] = a[i]
  BY <1>1
<1>4. DOMAIN (a \o b) = 1 .. (Len(a) + 1) /\ DOMAIN a = 1 .. Len(a)
  BY <1>1
<1> QED
  BY <1>1, <1>2, <1>3, <1>4

\* The announcement of a commitment: it is the last event of what is sent.
LEMMA Announcement ==
    ASSUME TypeOK, Numbered, ServerFinalize
    PROVE  \E s \in Seq(Events) : Emit(s) /\ \A i \in DOMAIN s :
              s[i].type = "BatchFinalization" =>
                  /\ i = Len(s) /\ s[i].batch = batch /\ s[i].commitment.batch = batch
                  /\ faithful => s[i].commitment = Announced
<1>1. batch \in Batches
  BY DEF ServerFinalize, Numbered
<1> DEFINE sigs == IF sphase = "signed" THEN TreeEvents("TreeSignature") ELSE <<>>
           link == IF member THEN <<[type |-> "TreeTx", tx |-> Tx(batch, "connector")]>>
                   ELSE <<>>
           end(c) == <<[type |-> "BatchFinalization", batch |-> batch, commitment |-> c]>>
<1>2. PICK c \in Presented : Emit(sigs \o link \o end(c))
  BY DEF ServerFinalize
<1>3. c.batch = batch /\ (faithful => c = Announced)
  BY <1>2, FaithfulPresents DEF Presented, Announced
<1>4. sigs \in Seq(Events) /\ \A i \in DOMAIN sigs : sigs[i].type # "BatchFinalization"
  BY <1>1, TreeEventsType DEF TreeEvents
<1>5. [type |-> "TreeTx", tx |-> Tx(batch, "connector")] \in Events
  BY <1>1 DEF Events, Tx, Txs
<1>6. [type |-> "BatchFinalization", batch |-> batch, commitment |-> c] \in Events
  BY <1>1, PresentedType DEF Events
<1>7. link \in Seq(Events) /\ \A i \in DOMAIN link : link[i].type # "BatchFinalization"
  BY <1>5
<1>8. /\ end(c) \in Seq(Events) /\ Len(end(c)) = 1
      /\ end(c)[1].batch = batch /\ end(c)[1].commitment = c
  BY <1>6
<1> HIDE DEF sigs, link, end
<1> DEFINE ab == sigs \o link
           s == ab \o end(c)
<1>9. ab \in Seq(Events) /\ \A i \in DOMAIN ab : ab[i].type # "BatchFinalization"
  <2>1. ab \in Seq(Events)
    BY <1>4, <1>7
  <2>2. ASSUME NEW i \in DOMAIN ab PROVE ab[i].type # "BatchFinalization"
    <3>1. i \in 1 .. (Len(sigs) + Len(link)) /\ Len(sigs) \in Nat /\ Len(link) \in Nat
      BY <1>4, <1>7
    <3>2. CASE i <= Len(sigs)
      BY <1>4, <1>7, <3>1, <3>2
    <3>3. CASE i > Len(sigs)
      <4>1. i - Len(sigs) \in DOMAIN link /\ ab[i] = link[i - Len(sigs)]
        BY <1>4, <1>7, <3>1, <3>3
      <4> QED
        BY <4>1, <1>7
    <3> QED
      BY <3>1, <3>2, <3>3
  <2> QED
    BY <2>1, <2>2
<1>10. Emit(s)
  BY <1>2
<1> HIDE DEF ab
<1>11. s \in Seq(Events) /\ Len(s) = Len(ab) + 1 /\ s[Len(s)] = end(c)[1]
  BY <1>8, <1>9, OneMore
<1>12. \A i \in DOMAIN s : i # Len(s) => i \in DOMAIN ab /\ s[i] = ab[i]
  BY <1>8, <1>9, OneMore
<1> HIDE DEF s
<1>13. \A i \in DOMAIN s : s[i].type = "BatchFinalization" => i = Len(s)
  BY <1>9, <1>12
<1> QED
  BY <1>3, <1>8, <1>10, <1>11, <1>13

\* What was announced stays announced while the stream is only read.
LEMMA FinalsRead ==
    ASSUME TypeOK, Finals, chan # <<>>, chan' = Tail(chan),
           UNCHANGED <<sphase, batch, pays, faults>>
    PROVE  Finals'
<1>1. chan \in Seq(Events) /\ chan' \in Seq(Events) /\ Len(chan') = Len(chan) - 1
  BY DEF TypeOK
<1>2. \A i \in DOMAIN chan' : i + 1 \in DOMAIN chan /\ chan'[i] = chan[i + 1] /\ i \in Int
  BY <1>1
<1>3. faithful' = faithful /\ Announced' = Announced
  BY DEF faithful, Announced
<1> SUFFICES ASSUME NEW i \in DOMAIN chan', chan'[i].type = "BatchFinalization"
             PROVE  /\ chan'[i].commitment.batch = chan'[i].batch
                    /\ chan'[i].batch <= batch
                    /\ chan'[i].batch = batch =>
                           /\ sphase \in {"finalizing", "forfeited", "idle"}
                           /\ sphase = "finalizing" => i = Len(chan')
                           /\ sphase = "finalizing" /\ faithful => chan'[i].commitment = Announced
  BY <1>3 DEF Finals
<1>4. i + 1 \in DOMAIN chan /\ chan[i + 1] = chan'[i]
  BY <1>2
<1>5. /\ chan'[i].commitment.batch = chan'[i].batch
      /\ chan'[i].batch <= batch
      /\ chan'[i].batch = batch =>
             /\ sphase \in {"finalizing", "forfeited", "idle"}
             /\ sphase = "finalizing" => i + 1 = Len(chan)
             /\ sphase = "finalizing" /\ faithful => chan'[i].commitment = Announced
  BY <1>4 DEF Finals
<1>6. i + 1 = Len(chan) => i = Len(chan')
  BY <1>1, <1>2
<1> QED
  BY <1>5, <1>6

\* Every step keeps the announcements in order.
LEMMA FinalsStep ==
    ASSUME TypeOK, TypeOK', Numbered, Finals, [Next]_vars
    PROVE  Finals'
<1>0. batch \in Int /\ batch' \in Int
  BY DEF TypeOK
<1>1. CASE \/ OnBatchStarted \/ OnTreeTx \/ OnTreeSigningStarted \/ OnTreeNonces
           \/ OnTreeSignature \/ OnBatchFinalization \/ OnBatchFinalized \/ OnBatchFailed
  BY <1>1, Reads, FinalsRead
<1>2. CASE LoseEvent
  BY <1>2, FinalsRead DEF LoseEvent, server, mode
<1>3. CASE \/ ConfirmRegistration \/ SubmitTreeNonces \/ SubmitTreeSignatures
           \/ SubmitSignedForfeitTxs
  <2>1. /\ UNCHANGED <<chan, batch, pays, faults>>
        /\ \/ sphase' = sphase
           \/ sphase = "finalizing" /\ sphase' = "forfeited"
           \/ sphase \notin {"finalizing", "forfeited", "idle"} /\ sphase' # "finalizing"
    BY <1>3, Calling
  <2>2. faithful' = faithful /\ Announced' = Announced
    BY <2>1 DEF faithful, Announced
  <2> QED
    BY <2>1, <2>2 DEF Finals
<1>4. CASE StreamEnds \/ ServerDrop \/ UNCHANGED vars
  <2>1. UNCHANGED <<chan, batch, pays, faults, sphase>>
    BY <1>4 DEF StreamEnds, ServerDrop, vars, server, mode
  <2>2. faithful' = faithful /\ Announced' = Announced
    BY <2>1 DEF faithful, Announced
  <2> QED
    BY <2>1, <2>2 DEF Finals
<1>5. CASE ServerStart \/ ServerTree \/ ServerNonces \/ ServerCommit \/ ServerFail
  <2>1. PICK s : Quiet(s)
    BY <1>5, QuietServer
  <2>2. \A i \in DOMAIN chan' : chan'[i].type = "BatchFinalization"
                                   => i \in DOMAIN chan /\ chan'[i] = chan[i]
    BY <2>1, EmitParts DEF Quiet
  <2>3. /\ sphase' # "finalizing" /\ batch <= batch'
        /\ batch' = batch => sphase' = "idle" \/ sphase \notin {"finalizing", "forfeited", "idle"}
    BY <2>1 DEF Quiet
  <2> SUFFICES ASSUME NEW i \in DOMAIN chan', chan'[i].type = "BatchFinalization"
               PROVE  /\ chan'[i].commitment.batch = chan'[i].batch
                      /\ chan'[i].batch <= batch'
                      /\ chan'[i].batch = batch' => sphase' \in {"finalizing", "forfeited", "idle"}
    BY <2>3 DEF Finals
  <2>4. /\ chan[i].commitment.batch = chan[i].batch /\ chan[i].batch <= batch
        /\ chan[i].batch = batch => sphase \in {"finalizing", "forfeited", "idle"}
        /\ chan[i] = chan'[i]
    BY <2>2 DEF Finals
  <2>5. chan'[i].batch \in Int
    <3>1. chan'[i] \in Events
      BY DEF TypeOK
    <3> QED
      BY <3>1 DEF Events, Batches
  <2> QED
    BY <1>0, <2>3, <2>4, <2>5
<1>6. CASE ServerFinalize
  <2>1. PICK s \in Seq(Events) : Emit(s) /\ \A i \in DOMAIN s :
              s[i].type = "BatchFinalization" =>
                  /\ i = Len(s) /\ s[i].batch = batch /\ s[i].commitment.batch = batch
                  /\ faithful => s[i].commitment = Announced
    BY <1>6, Announcement
  <2>2. /\ UNCHANGED <<batch, pays, faults>> /\ sphase' = "finalizing"
        /\ sphase \notin {"finalizing", "forfeited", "idle"}
    BY <1>6 DEF ServerFinalize, server, mode
  <2>3. faithful' = faithful /\ Announced' = Announced
    BY <2>2 DEF faithful, Announced
  <2>4. ASSUME NEW i \in DOMAIN chan', chan'[i].type = "BatchFinalization"
        PROVE  /\ chan'[i].commitment.batch = chan'[i].batch
               /\ chan'[i].batch <= batch
               /\ chan'[i].batch = batch =>
                      i = Len(chan') /\ (faithful => chan'[i].commitment = Announced)
    <3>1. CASE i \in DOMAIN chan /\ chan'[i] = chan[i]
      BY <2>2, <2>4, <3>1 DEF Finals
    <3>2. CASE \E j \in DOMAIN s : i = Len(chan) + j /\ chan'[i] = s[j]
      <4>1. PICK j \in DOMAIN s : i = Len(chan) + j /\ chan'[i] = s[j]
        BY <3>2
      <4>2. j = Len(s) /\ s[j].batch = batch /\ s[j].commitment.batch = batch
            /\ (faithful => s[j].commitment = Announced)
        BY <2>1, <2>4, <4>1
      <4>3. pc \notin Over => i = Len(chan')
        BY <2>1, <4>1, <4>2, EmitParts
      <4>4. pc \notin Over
        <5>1. pc \in Over => chan' = <<>>
          BY <2>1, EmitParts
        <5>2. chan' # <<>>
          OBVIOUS
        <5> QED
          BY <5>1, <5>2
      <4> QED
        BY <1>0, <4>1, <4>2, <4>3, <4>4
    <3> QED
      BY <2>1, <3>1, <3>2, EmitParts
  <2> QED
    BY <2>2, <2>3, <2>4 DEF Finals
<1> QED
  BY <1>1, <1>2, <1>3, <1>4, <1>5, <1>6 DEF Next, Join, Server

\* What is left of the stream was on it.
LEMMA TailParts ==
    ASSUME TypeOK, chan # <<>>, chan' = Tail(chan)
    PROVE  /\ \A i \in DOMAIN chan' : i + 1 \in DOMAIN chan /\ chan'[i] = chan[i + 1]
           /\ 1 \in DOMAIN chan /\ e = chan[1]
           /\ Len(chan) = 1 => chan' = <<>>
BY DEF TypeOK, e

\* Only the finalization of a batch makes the session send forfeits.
LEMMA OnlyFinalization ==
    ASSUME \/ OnBatchStarted \/ OnTreeTx \/ OnTreeSigningStarted \/ OnTreeNonces
           \/ OnTreeSignature \/ OnBatchFinalized \/ OnBatchFailed
    PROVE  pc' # "forfeits"
BY DEF OnBatchStarted, OnTreeTx, OnTreeSigningStarted, OnTreeNonces, OnTreeSignature,
       OnBatchFinalized, OnBatchFailed, Receive

\* What the finalization of a batch leads to.
LEMMA Finalization ==
    ASSUME TypeOK, OnBatchFinalization
    PROVE  /\ UNCHANGED <<conns, validated, returned>>
           /\ pc' \in {"recv", "forfeits", "thrown"}
           /\ pc' = "forfeits" =>
                  /\ step = "tree_nonces_aggregated" /\ event' = e
                  /\ e.type = "BatchFinalization"
                  /\ Chunks(conns) = {Tx(e.commitment.batch, "connector")}
<1>1. /\ UNCHANGED <<conns, validated, returned>>
      /\ pc' \in {"recv", "forfeits", "thrown"}
      /\ pc' = "forfeits" =>
             /\ step = "tree_nonces_aggregated" /\ event' = e
             /\ e.type = "BatchFinalization"
             /\ ValidConnectors(conns, e.commitment)
  BY DEF OnBatchFinalization, Receive, signer, Calls
<1>2. ValidConnectors(conns, e.commitment)
         => Chunks(conns) = {Tx(e.commitment.batch, "connector")}
  BY OneBatchTree DEF ValidConnectors, TypeOK
<1> QED
  BY <1>1, <1>2

\* Every step keeps what is being sent the first.
LEMMA SendingStep ==
    ASSUME TypeOK, TypeOK', Numbered, Finals, Sending, Taken, [Next]_vars
    PROVE  Sending'
<1>0. batch \in Int /\ batch' \in Int
  BY DEF TypeOK
<1>1. CASE OnBatchFinalization
  <2> SUFFICES ASSUME pc' = "forfeits" PROVE Sending'
    BY DEF Sending
  <2>1. /\ chan # <<>> /\ chan' = Tail(chan) /\ pc = "recv"
        /\ UNCHANGED <<sphase, batch, pays, faults, forfeited, conns>>
        /\ event' = e /\ e.type = "BatchFinalization"
        /\ Chunks(conns) = {Tx(e.commitment.batch, "connector")}
    BY <1>1, Reads, Finalization
  <2>2. faithful' = faithful /\ Announced' = Announced
    BY <2>1 DEF faithful, Announced
  <2>3. 1 \in DOMAIN chan /\ e = chan[1] /\ (Len(chan) = 1 => chan' = <<>>)
    BY <2>1, TailParts
  <2>4. /\ e.commitment.batch = e.batch /\ e.batch <= batch
        /\ e.batch = batch =>
               /\ sphase \in {"finalizing", "forfeited", "idle"}
               /\ sphase = "finalizing" =>
                      chan' = <<>> /\ (faithful => e.commitment = Announced)
    BY <2>1, <2>3 DEF Finals
  <2>5. \E i \in DOMAIN conns : conns[i] = Tx(e.batch, "connector")
    BY <2>1, <2>4 DEF Chunks
  <2>6. forfeited = {}
    <3> SUFFICES ASSUME NEW c \in forfeited PROVE FALSE
      OBVIOUS
    <3>1. /\ \E i \in DOMAIN conns : conns[i] = Tx(c.batch, "connector")
          /\ e.batch > c.batch
      BY <2>1, <2>3 DEF Taken, Over
    <3>2. Tx(c.batch, "connector") = Tx(e.batch, "connector")
      BY <2>1, <2>4, <3>1 DEF Chunks
    <3>3. c.batch \in Int
      BY DEF TypeOK, Commitments, Batches
    <3> QED
      BY <3>1, <3>2, <3>3 DEF Tx
  <2> QED
    BY <2>1, <2>2, <2>4, <2>5, <2>6 DEF Sending
<1>2. CASE \/ OnBatchStarted \/ OnTreeTx \/ OnTreeSigningStarted \/ OnTreeNonces
           \/ OnTreeSignature \/ OnBatchFinalized \/ OnBatchFailed
  BY <1>2, OnlyFinalization DEF Sending
<1>3. CASE \/ ConfirmRegistration \/ SubmitTreeNonces \/ SubmitTreeSignatures
           \/ SubmitSignedForfeitTxs
  BY <1>3, Calling DEF Sending
<1>4. CASE StreamEnds
  BY <1>4 DEF StreamEnds, Sending
<1>5. CASE ServerDrop \/ UNCHANGED vars
  <2>1. UNCHANGED <<pc, event, conns, chan, batch, pays, faults, sphase, forfeited>>
    BY <1>5 DEF ServerDrop, vars, server, mode, session, history
  <2>2. faithful' = faithful /\ Announced' = Announced
    BY <2>1 DEF faithful, Announced
  <2> QED
    BY <2>1, <2>2 DEF Sending
<1>6. CASE LoseEvent
  <2>1. UNCHANGED <<pc, event, conns, batch, pays, faults, sphase, forfeited>> /\ chan # <<>>
    BY <1>6 DEF LoseEvent, server, mode, session, history
  <2> QED
    BY <2>1 DEF Sending
<1>7. CASE ServerStart \/ ServerTree \/ ServerNonces \/ ServerCommit \/ ServerFail
  <2>1. PICK s : Quiet(s)
    BY <1>7, QuietServer
  <2>2. UNCHANGED <<pc, event, conns, forfeited>>
    BY <1>7, Outside DEF Server
  <2>3. /\ sphase' # "finalizing" /\ batch <= batch'
        /\ batch' = batch => sphase' = "idle" \/ sphase \notin {"finalizing", "forfeited", "idle"}
    BY <2>1 DEF Quiet
  <2> SUFFICES ASSUME pc = "forfeits" PROVE Sending'
    BY <2>2 DEF Sending
  <2>4. /\ forfeited = {} /\ event.commitment.batch = event.batch
        /\ \E i \in DOMAIN conns : conns[i] = Tx(event.batch, "connector")
        /\ event.batch <= batch
        /\ event.batch = batch => sphase \in {"finalizing", "forfeited", "idle"}
    BY DEF Sending
  <2>5. event.batch \in Int
    <3>1. event \in Events /\ event.type = "BatchFinalization"
      BY DEF TypeOK, Numbered, NoEvent
    <3> QED
      BY <3>1 DEF Events, Batches
  <2>6. event.batch <= batch' /\ (event.batch = batch' => sphase' = "idle")
    BY <1>0, <2>3, <2>4, <2>5
  <2> QED
    BY <2>2, <2>3, <2>4, <2>6 DEF Sending
<1>8. CASE ServerFinalize
  <2>1. UNCHANGED <<pc, event, conns, forfeited, batch>>
        /\ sphase \notin {"finalizing", "forfeited", "idle"}
    BY <1>8, Outside DEF Server, ServerFinalize, server
  <2> QED
    BY <2>1 DEF Sending
<1> QED
  BY <1>1, <1>2, <1>3, <1>4, <1>5, <1>6, <1>7, <1>8 DEF Next, Join, Server

\* Connectors are only ever added.
LEMMA ConnectorsStay ==
    ASSUME TypeOK, OnTreeTx, NEW i \in DOMAIN conns
    PROVE  i \in DOMAIN conns' /\ conns'[i] = conns[i]
<1>1. e \in Events /\ e.type = "TreeTx"
  BY ReceiveType DEF OnTreeTx
<1>2. e.tx \in Txs
  BY <1>1 DEF Events
<1>3. conns' \in {conns, Append(conns, e.tx)}
  BY Zenon DEF OnTreeTx
<1> QED
  BY <1>2, <1>3 DEF TypeOK

\* Every step keeps the taken forfeits the only ones.
LEMMA TakenStep ==
    ASSUME TypeOK, TypeOK', Numbered, Finals, Sending, Taken, [Next]_vars
    PROVE  Taken'
<1>0. batch \in Int /\ batch' \in Int /\ \A c \in forfeited : c.batch \in Int
  BY DEF TypeOK, Commitments, Batches
<1>1. CASE \/ OnBatchStarted \/ OnTreeTx \/ OnTreeSigningStarted \/ OnTreeNonces
           \/ OnTreeSignature \/ OnBatchFinalization \/ OnBatchFinalized \/ OnBatchFailed
  <2>1. /\ chan # <<>> /\ chan' = Tail(chan) /\ pc = "recv"
        /\ UNCHANGED <<sphase, batch, forfeited>>
    BY <1>1, Reads
  <2>2. \A i \in DOMAIN conns : i \in DOMAIN conns' /\ conns'[i] = conns[i]
    <3>1. CASE OnTreeTx
      BY <3>1, ConnectorsStay
    <3>2. CASE conns' = conns
      BY <3>2
    <3> QED
      BY <1>1, <3>1, <3>2 DEF OnBatchStarted, OnTreeSigningStarted, OnTreeNonces,
         OnTreeSignature, OnBatchFinalization, OnBatchFinalized, OnBatchFailed
  <2>3. \A i \in DOMAIN chan' : \E j \in DOMAIN chan : chan'[i] = chan[j]
    BY <2>1, TailParts
  <2> SUFFICES ASSUME NEW c \in forfeited
               PROVE  /\ forfeited = {c}
                      /\ \E i \in DOMAIN conns' : conns'[i] = Tx(c.batch, "connector")
                      /\ c.batch <= batch
                      /\ c.batch = batch => sphase \in {"forfeited", "idle"}
                      /\ \A i \in DOMAIN chan' :
                             chan'[i].type = "BatchFinalization" => chan'[i].batch > c.batch
    BY <2>1 DEF Taken
  <2>4. /\ forfeited = {c}
        /\ \E i \in DOMAIN conns : conns[i] = Tx(c.batch, "connector")
        /\ c.batch <= batch
        /\ c.batch = batch => sphase \in {"forfeited", "idle"}
        /\ \A i \in DOMAIN chan :
               chan[i].type = "BatchFinalization" => chan[i].batch > c.batch
    BY <2>1 DEF Taken, Over
  <2> QED
    BY <2>2, <2>3, <2>4
<1>2. CASE \/ ConfirmRegistration \/ SubmitTreeNonces \/ SubmitTreeSignatures
           \/ SubmitSignedForfeitTxs
  <2> SUFFICES ASSUME pc' \notin Over PROVE Taken'
    BY DEF Taken
  <2>1. /\ UNCHANGED <<chan, batch, conns>> /\ pc \in Calls
        /\ About(event) = batch
        /\ \/ sphase = "finalizing" /\ sphase' = "forfeited" /\ pc = "forfeits"
           \/ sphase \notin {"finalizing", "forfeited", "idle"}
        /\ \/ pc # "forfeits" /\ forfeited' = forfeited
           \/ pc = "forfeits" /\ forfeited' = forfeited \cup {event.commitment}
    BY <1>2, Calling DEF Over
  <2>2. CASE pc = "forfeits"
    <3>1. event.type = "BatchFinalization" /\ event.batch = batch
      BY <2>1, <2>2 DEF Numbered, About
    <3>2. /\ forfeited = {} /\ event.commitment.batch = event.batch
          /\ \E i \in DOMAIN conns : conns[i] = Tx(event.batch, "connector")
          /\ sphase \in {"finalizing", "forfeited", "idle"}
          /\ sphase = "finalizing" => chan = <<>>
      BY <2>2, <3>1 DEF Sending
    <3>3. sphase' = "forfeited" /\ chan' = <<>> /\ forfeited' = {event.commitment}
      BY <2>1, <2>2, <3>2
    <3> QED
      BY <1>0, <2>1, <3>1, <3>2, <3>3 DEF Taken
  <2>3. CASE pc # "forfeits"
    <3>1. forfeited' = forfeited /\ sphase \notin {"finalizing", "forfeited", "idle"}
      BY <2>1, <2>3
    <3>2. pc \notin Over
      BY <2>1 DEF Calls, Over
    <3> QED
      BY <2>1, <3>1, <3>2 DEF Taken
  <2> QED
    BY <2>2, <2>3
<1>3. CASE StreamEnds
  BY <1>3 DEF StreamEnds, Taken, Over
<1>4. CASE ServerDrop \/ UNCHANGED vars
  <2>1. UNCHANGED <<pc, conns, chan, batch, sphase, forfeited>>
    BY <1>4 DEF ServerDrop, vars, server, session, history
  <2> QED
    BY <2>1 DEF Taken
<1>5. CASE LoseEvent
  <2>1. UNCHANGED <<pc, conns, batch, sphase, forfeited>> /\ chan # <<>> /\ chan' = Tail(chan)
    BY <1>5 DEF LoseEvent, server, session, history
  <2>2. \A i \in DOMAIN chan' : \E j \in DOMAIN chan : chan'[i] = chan[j]
    BY <2>1, TailParts
  <2> QED
    BY <2>1, <2>2 DEF Taken
<1>6. CASE ServerStart \/ ServerTree \/ ServerNonces \/ ServerCommit \/ ServerFail
  <2>1. PICK s : Quiet(s)
    BY <1>6, QuietServer
  <2>2. UNCHANGED <<pc, conns, forfeited>>
    BY <1>6, Outside DEF Server
  <2>3. /\ batch <= batch'
        /\ batch' = batch => sphase' = "idle" \/ sphase \notin {"finalizing", "forfeited", "idle"}
    BY <2>1 DEF Quiet
  <2>4. \A i \in DOMAIN chan' : chan'[i].type = "BatchFinalization"
                                   => i \in DOMAIN chan /\ chan'[i] = chan[i]
    BY <2>1, EmitParts DEF Quiet
  <2> SUFFICES ASSUME pc \notin Over, NEW c \in forfeited
               PROVE  /\ c.batch <= batch'
                      /\ c.batch = batch' => sphase' \in {"forfeited", "idle"}
    BY <2>2, <2>4 DEF Taken
  <2>5. c.batch <= batch /\ (c.batch = batch => sphase \in {"forfeited", "idle"})
    BY DEF Taken
  <2> QED
    BY <1>0, <2>3, <2>5
<1>7. CASE ServerFinalize
  <2>1. PICK s \in Seq(Events) : Emit(s) /\ \A i \in DOMAIN s :
              s[i].type = "BatchFinalization" => s[i].batch = batch
    BY <1>7, Announcement
  <2>2. UNCHANGED <<pc, conns, forfeited, batch>>
        /\ sphase \notin {"finalizing", "forfeited", "idle"}
    BY <1>7, Outside DEF Server, ServerFinalize, server
  <2> SUFFICES ASSUME pc \notin Over, NEW c \in forfeited, NEW i \in DOMAIN chan',
                      chan'[i].type = "BatchFinalization"
               PROVE  chan'[i].batch > c.batch
    BY <2>2 DEF Taken
  <2>3. c.batch < batch
    BY <1>0, <2>2 DEF Taken
  <2>4. CASE i \in DOMAIN chan /\ chan'[i] = chan[i]
    BY <2>4 DEF Taken
  <2>5. CASE \E j \in DOMAIN s : chan'[i] = s[j]
    BY <1>0, <2>1, <2>3, <2>5
  <2> QED
    BY <2>1, <2>4, <2>5, EmitParts
<1> QED
  BY <1>1, <1>2, <1>3, <1>4, <1>5, <1>6, <1>7 DEF Next, Join, Server

\* Every step keeps the session waiting for the end of its own batch.
LEMMA AwaitedStep ==
    ASSUME TypeOK, TypeOK', Numbered, Sending, Taken, Awaited, [Next]_vars
    PROVE  Awaited'
<1> SUFFICES ASSUME pc' \notin Over, step' = "batch_finalization"
             PROVE  /\ forfeited' # {}
                    /\ faithful' => \A c \in forfeited' :
                         /\ chan' = <<>> => sphase' = "forfeited" /\ member' /\ Announced' = c
                         /\ chan' # <<>> =>
                                \/ Head(chan').type = "BatchFailed"
                                \/ Head(chan').type = "BatchFinalized" /\ Head(chan').commitment = c
  BY DEF Awaited
<1>1. CASE \/ OnBatchStarted \/ OnTreeTx \/ OnTreeSigningStarted \/ OnTreeNonces
           \/ OnTreeSignature \/ OnBatchFinalization \/ OnBatchFinalized \/ OnBatchFailed
  <2>1. /\ chan # <<>> /\ pc = "recv" /\ step = "batch_finalization"
        /\ UNCHANGED <<faults, forfeited>>
    BY <1>1, Reads
  <2>2. forfeited # {}
    BY <2>1 DEF Awaited, Over
  <2>3. ASSUME faithful PROVE FALSE
    <3>1. e.type \in {"BatchFailed", "BatchFinalized"}
      BY <2>1, <2>2, <2>3 DEF Awaited, Over, e
    <3>2. OnBatchFailed \/ OnBatchFinalized
      BY <1>1, <3>1 DEF OnBatchStarted, OnTreeTx, OnTreeSigningStarted, OnTreeNonces,
                        OnTreeSignature, OnBatchFinalization, Receive
    <3> QED
      BY <2>1, <3>2 DEF OnBatchFailed, OnBatchFinalized, Receive, Over
  <2> QED
    BY <2>1, <2>2, <2>3 DEF faithful
<1>2. CASE \/ ConfirmRegistration \/ SubmitTreeNonces \/ SubmitTreeSignatures
           \/ SubmitSignedForfeitTxs
  <2>1. /\ UNCHANGED <<chan, batch, member, pays, faults>> /\ pc \in Calls
        /\ sphase = "finalizing" /\ sphase' = "forfeited" /\ pc = "forfeits"
        /\ member /\ About(event) = batch
        /\ forfeited' = forfeited \cup {event.commitment}
    BY <1>2, Calling DEF Over
  <2>2. event.type = "BatchFinalization" /\ event.batch = batch
    BY <2>1 DEF Numbered, About
  <2>3. forfeited = {} /\ chan = <<>> /\ (faithful => event.commitment = Announced)
    BY <2>1, <2>2 DEF Sending
  <2>4. faithful' = faithful /\ Announced' = Announced
    BY <2>1 DEF faithful, Announced
  <2> QED
    BY <2>1, <2>3, <2>4
<1>3. CASE StreamEnds
  BY <1>3 DEF StreamEnds, Over
<1>4. CASE ServerDrop \/ UNCHANGED vars
  <2>1. /\ UNCHANGED <<pc, step, chan, batch, pays, sphase, forfeited, faults>>
        /\ sphase = "forfeited" => member' = member
    BY <1>4 DEF ServerDrop, vars, server, session, history, mode
  <2>2. faithful' = faithful /\ Announced' = Announced
    BY <2>1 DEF faithful, Announced
  <2> QED
    BY <2>1, <2>2 DEF Awaited
<1>5. CASE LoseEvent
  <2>1. UNCHANGED <<pc, step, forfeited, faults>> /\ "loss" \in faults
    BY <1>5, Outside DEF LoseEvent
  <2>2. ~faithful /\ ~faithful'
    BY <2>1 DEF faithful
  <2> QED
    BY <2>1, <2>2 DEF Awaited
<1>6. CASE Server /\ ~ServerDrop
  <2>1. UNCHANGED <<pc, step, forfeited, faults>>
    BY <1>6, Outside
  <2>2. faithful' = faithful /\ forfeited # {} /\ pc \notin Over
    BY <2>1 DEF faithful, Awaited
  <2> SUFFICES ASSUME faithful, NEW c \in forfeited
               PROVE  /\ chan' # <<>>
                      /\ \/ Head(chan').type = "BatchFailed"
                         \/ Head(chan').type = "BatchFinalized" /\ Head(chan').commitment = c
    BY <2>1, <2>2
  <2>3. /\ chan = <<>> => sphase = "forfeited" /\ member /\ Announced = c
        /\ chan # <<>> => \/ Head(chan).type = "BatchFailed"
                          \/ Head(chan).type = "BatchFinalized" /\ Head(chan).commitment = c
    BY <2>1, <2>2 DEF Awaited
  <2>4. PICK s \in Seq(Events) : Emit(s) /\ (ServerFinalize \/ Quiet(s))
    BY <1>6, QuietServer, Announcement DEF Server, Quiet
  <2>5. CASE chan # <<>>
    BY <2>2, <2>3, <2>4, <2>5, EmitParts
  <2>6. CASE chan = <<>>
    <3>1. chan' = s
      BY <2>2, <2>4, <2>6, EmitParts
    <3>2. ~ServerFinalize
      BY <2>3, <2>6 DEF ServerFinalize
    <3> QED
      BY <2>3, <2>4, <2>6, <3>1, <3>2 DEF Quiet
  <2> QED
    BY <2>5, <2>6
<1> QED
  BY <1>1, <1>2, <1>3, <1>4, <1>5, <1>6 DEF Next, Join

\* Every step keeps a session without a tree bound to none, and a return the end.
LEMMA EndsStep ==
    ASSUME TypeOK, TypeOK', Ends, [Next]_vars
    PROVE  Ends'
<1>1. CASE OnBatchFinalized
  <2>1. e \in Events /\ e.type = "BatchFinalized"
    BY <1>1, HeadType DEF OnBatchFinalized, Receive
  <2>2. e.commitment # NoCommitment
    BY <2>1 DEF Events, Commitments, NoCommitment, Batches
  <2>3. UNCHANGED <<step, skip, validated>> /\ pc = "recv"
    BY <1>1, Reads DEF OnBatchFinalized, signer
  <2>4. \/ pc' = "returned" /\ returned' = e.commitment
        \/ pc' = "recv" /\ returned' = returned
    BY <1>1 DEF OnBatchFinalized, Receive
  <2> QED
    BY <2>2, <2>3, <2>4 DEF Ends
<1>2. CASE OnTreeSigningStarted
  <2>1. UNCHANGED <<step, skip, returned>> /\ pc = "recv" /\ pc' \in {"recv", "thrown", "nonces"}
    BY <1>2, Reads, SigningStarted
  <2>2. skip => validated' = validated
    BY <1>2 DEF OnTreeSigningStarted, Ends, signer
  <2> QED
    BY <2>1, <2>2 DEF Ends
<1>3. CASE \/ OnBatchStarted \/ OnTreeTx \/ OnTreeNonces
           \/ OnTreeSignature \/ OnBatchFinalization \/ OnBatchFailed
  <2>1. UNCHANGED <<step, skip, returned, validated>> /\ pc = "recv" /\ pc' # "returned"
    BY <1>3, Reads DEF OnBatchStarted, OnTreeTx, OnTreeNonces, OnTreeSignature,
                OnBatchFinalization, OnBatchFailed, Receive, signer
  <2> QED
    BY <2>1 DEF Ends
<1>4. CASE \/ ConfirmRegistration \/ SubmitTreeNonces \/ SubmitTreeSignatures
           \/ SubmitSignedForfeitTxs
  <2>1. /\ UNCHANGED <<skip, validated, returned>> /\ pc \in Calls /\ pc' \in {"recv", "thrown"}
        /\ step' = step \/ (skip => step' # "batch_started")
    BY <1>4, Calling
  <2> QED
    BY <2>1 DEF Ends, Calls
<1>5. CASE StreamEnds
  BY <1>5 DEF StreamEnds, Ends, signer, mode
<1>6. CASE Server \/ LoseEvent
  BY <1>6, Outside DEF Ends
<1>7. CASE UNCHANGED vars
  BY <1>7 DEF vars, signer, mode, Ends
<1> QED
  BY <1>1, <1>2, <1>3, <1>4, <1>5, <1>6, <1>7 DEF Next, Join

\* A session that goes on and changes none of its commitments does nothing the
\* promise is about.
LEMMA Stutters ==
    ASSUME UNCHANGED <<forfeited, validated, returned, faults>>,
           pc' = pc \/ (pc \notin Over /\ pc' \notin Over)
    PROVE  UNCHANGED Promise!vars
<1>1. deal' = deal /\ faithful' = faithful
  BY DEF deal, faithful
<1>2. phase' = phase
  <2>1. CASE pc' = pc
    BY <2>1 DEF phase, Over
  <2>2. CASE pc \notin Over /\ pc' \notin Over
    BY <2>2 DEF phase, Over
  <2> QED
    BY <2>1, <2>2
<1> QED
  BY <1>1, <1>2 DEF Promise!vars

\* A session that throws breaks the promise, which it may.
LEMMA Breaks ==
    ASSUME UNCHANGED <<forfeited, validated, returned, faults>>, pc \notin Over, pc' = "thrown"
    PROVE  Promise!Next
<1>1. deal' = deal /\ faithful' = faithful
  BY DEF deal, faithful
<1>2. phase \in {"open", "bound", "given"} /\ phase' = "broken"
  BY DEF phase, Over
<1> QED
  BY <1>1, <1>2 DEF Promise!Next, Promise!Break, Promise!Stands

\* A session bound to no commitment has no deal.
LEMMA NoDeal ==
    ASSUME Ends, pc \notin Over, forfeited = {}
    PROVE  /\ deal = validated
           /\ phase = IF validated # NoCommitment THEN "bound" ELSE "open"
BY DEF Ends, Over, deal, phase

\* Validating a tree binds the session, unless it was bound before.
LEMMA Binds ==
    ASSUME TypeOK, TreeInv, Ends, OnTreeSigningStarted, pc' = "nonces"
    PROVE  Promise!Next \/ UNCHANGED Promise!vars
<1>1. /\ pc = "recv" /\ UNCHANGED <<forfeited, faults, returned>>
      /\ validated' = e.commitment /\ e.commitment \in Commitments
  BY Reads, SigningStarted
<1>2. CASE validated # NoCommitment
  BY <1>1, <1>2, ValidatedStands, Stutters DEF Over
<1>3. CASE validated = NoCommitment /\ forfeited # {}
  <2>1. phase = "given" /\ phase' = "given"
    BY <1>1, <1>3 DEF phase, Over
  <2>2. deal' = deal /\ faithful' = faithful
    BY <1>1, <1>3 DEF deal, faithful
  <2> QED
    BY <2>1, <2>2 DEF Promise!vars
<1>4. CASE validated = NoCommitment /\ forfeited = {}
  <2>1. phase = "open" /\ deal = NoCommitment
    BY <1>1, <1>4, NoDeal DEF Over
  <2>2. validated' # NoCommitment
    BY <1>1 DEF Commitments, NoCommitment, Batches
  <2>3. phase' = "bound"
    BY <1>1, <1>4, <2>2 DEF phase, Over
  <2>4. returned = NoCommitment
    BY <1>1 DEF Ends
  <2>5. deal' = e.commitment /\ faithful' = faithful
    BY <1>1, <1>4, <2>4 DEF deal, faithful
  <2> QED
    BY <1>1, <2>1, <2>3, <2>5 DEF Promise!Next, Promise!Bind, Promise!Stands
<1> QED
  BY <1>2, <1>3, <1>4

\* Sending the forfeits gives the coins away for the deal.
LEMMA Gives ==
    ASSUME TypeOK, Numbered, ForfeitInv, Sending, Ends, SubmitSignedForfeitTxs
    PROVE  Promise!Next
<1>1. /\ pc = "forfeits" /\ pc' \in {"recv", "thrown"}
      /\ UNCHANGED <<validated, returned, faults>> /\ forfeited = {}
      /\ forfeited' = {event.commitment}
  BY Calling DEF SubmitSignedForfeitTxs, Call, Sending
<1>2. event.commitment \in Commitments
  <2>1. event \in Events /\ event.type = "BatchFinalization"
    BY <1>1 DEF TypeOK, Numbered, NoEvent
  <2> QED
    BY <2>1 DEF Events
<1>3. deal = validated /\ phase \in {"open", "bound"}
  BY <1>1, NoDeal DEF Over
<1>4. deal # NoCommitment => event.commitment = deal
  BY <1>1, <1>3 DEF Ends, ForfeitInv
<1>5. returned = NoCommitment
  BY <1>1 DEF Ends
<1>6. deal' = event.commitment /\ faithful' = faithful
  BY <1>1, <1>5 DEF deal, faithful
<1>7. phase' = IF pc' = "recv" THEN "given" ELSE "broken"
  BY <1>1 DEF phase, Over
<1>8. CASE pc' = "recv"
  BY <1>2, <1>3, <1>4, <1>6, <1>7, <1>8 DEF Promise!Next, Promise!Give, Promise!Stands
<1>9. CASE pc' = "thrown"
  BY <1>3, <1>4, <1>6, <1>7, <1>9 DEF Promise!Next, Promise!Break, Promise!Stands
<1> QED
  BY <1>1, <1>8, <1>9

\* Returning keeps the promise: the coins were given away, and if the stream
\* tells everything, for the commitment that is returned.
LEMMA Keeps ==
    ASSUME TypeOK, Taken, Awaited, Ends, OnBatchFinalized, pc' = "returned"
    PROVE  Promise!Next
<1>1. /\ pc = "recv" /\ chan # <<>> /\ UNCHANGED <<forfeited, faults>>
      /\ step = "batch_finalization" /\ returned' = e.commitment
      /\ e.type = "BatchFinalized"
  BY Reads DEF OnBatchFinalized, Receive
<1>2. e.commitment \in Commitments
  BY <1>1, HeadType DEF Events
<1>3. forfeited # {}
  BY <1>1 DEF Awaited, Over
<1>4. returned = NoCommitment
  BY <1>1 DEF Ends
<1>5. PICK c \in forfeited : forfeited = {c}
  BY <1>1, <1>3 DEF Taken, Over
<1>6. deal = c
  BY <1>4, <1>5 DEF deal
<1>7. faithful => e.commitment = c
  BY <1>1, <1>5 DEF Awaited, Over, e
<1>8. e.commitment # NoCommitment
  BY <1>2 DEF Commitments, NoCommitment, Batches
<1>9. deal' = e.commitment /\ faithful' = faithful
  BY <1>1, <1>8 DEF deal, faithful
<1>10. phase = "given" /\ phase' = "kept"
  BY <1>1, <1>3 DEF phase, Over
<1> QED
  BY <1>2, <1>6, <1>7, <1>9, <1>10 DEF Promise!Next, Promise!Keep

\* Every step of the session, the server and the stream is one the promise
\* allows, or none of its business.
LEMMA PromiseStep ==
    ASSUME TypeOK, Numbered, TreeInv, ForfeitInv, Sending, Taken, Awaited, Ends, [Next]_vars
    PROVE  [Promise!Next]_(Promise!vars)
<1>1. CASE OnTreeSigningStarted
  <2>1. CASE pc' = "nonces"
    BY <1>1, <2>1, Binds
  <2>2. CASE pc' # "nonces"
    <3>1. /\ UNCHANGED <<forfeited, validated, returned, faults>> /\ pc = "recv"
          /\ pc' \in {"recv", "thrown"}
      BY <1>1, <2>2, Reads, SigningStarted
    <3> QED
      BY <3>1, Stutters, Breaks DEF Over
  <2> QED
    BY <2>1, <2>2
<1>2. CASE OnBatchFinalized
  <2>1. CASE pc' = "returned"
    BY <1>2, <2>1, Keeps
  <2>2. CASE pc' # "returned"
    <3>1. UNCHANGED <<forfeited, validated, returned, faults>> /\ pc = "recv" /\ pc' = "recv"
      BY <1>2, <2>2, Reads DEF OnBatchFinalized, Receive, signer
    <3> QED
      BY <3>1, Stutters
  <2> QED
    BY <2>1, <2>2
<1>3. CASE \/ OnBatchStarted \/ OnTreeTx \/ OnTreeNonces
           \/ OnTreeSignature \/ OnBatchFinalization \/ OnBatchFailed
  <2>1. /\ UNCHANGED <<forfeited, validated, returned, faults>> /\ pc = "recv"
        /\ pc' \in {"recv", "thrown"} \cup Calls
    BY <1>3, Reads DEF OnBatchStarted, OnTreeTx, OnTreeNonces, OnTreeSignature,
                OnBatchFinalization, OnBatchFailed, Receive, signer, Calls
  <2> QED
    BY <2>1, Stutters, Breaks DEF Over, Calls
<1>4. CASE SubmitSignedForfeitTxs
  BY <1>4, Gives
<1>5. CASE ConfirmRegistration \/ SubmitTreeNonces \/ SubmitTreeSignatures
  <2>1. /\ UNCHANGED <<forfeited, validated, returned, faults>> /\ pc \in Calls
        /\ pc' \in {"recv", "thrown"}
    BY <1>5, Calling DEF ConfirmRegistration, SubmitTreeNonces, SubmitTreeSignatures, Call
  <2> QED
    BY <2>1, Stutters, Breaks DEF Over, Calls
<1>6. CASE StreamEnds
  <2>1. /\ UNCHANGED <<forfeited, validated, returned, faults>> /\ pc = "recv"
        /\ pc' = "thrown"
    BY <1>6 DEF StreamEnds, history, signer, mode
  <2> QED
    BY <2>1, Breaks DEF Over
<1>7. CASE Server \/ LoseEvent
  BY <1>7, Outside, Stutters
<1>8. CASE UNCHANGED vars
  BY <1>8, Stutters DEF vars, history, signer, mode
<1> QED
  BY <1>1, <1>2, <1>3, <1>4, <1>5, <1>6, <1>7, <1>8 DEF Next, Join

\* The batch session implements BatchPromise, for any number of batches and any
\* faults: it binds itself to one commitment, gives coins away for that one only,
\* and returns that one if nothing it was told is missing or made up.
THEOREM PromiseKept == Spec => KeepsPromise
<1> DEFINE Inv == /\ TypeOK /\ Numbered /\ TreeInv /\ AdmitInv /\ ForfeitInv
                  /\ Finals /\ Sending /\ Taken /\ Awaited /\ Ends
<1>1. Init => Inv /\ Promise!Init
  <2> SUFFICES ASSUME Init PROVE Inv /\ Promise!Init
    OBVIOUS
  <2>1. TypeOK /\ Numbered
    BY InitTyped
  <2>2. TreeInv /\ ForfeitInv /\ AdmitInv
    BY DEF Init, TreeInv, ForfeitInv, ForfeitsAreOurs, AdmitInv
  <2>3. Finals /\ Sending /\ Taken /\ Awaited /\ Ends
    BY DEF Init, Finals, Sending, Taken, Awaited, Ends
  <2>4. Promise!Init
    BY DEF Init, Promise!Init, phase, deal, faithful, Over
  <2> QED
    BY <2>1, <2>2, <2>3, <2>4
<1>2. Inv /\ [Next]_vars => Inv'
  BY TypeStep, NumberedStep, TreeStep, AdmitStep, ForfeitStep, FinalsStep, SendingStep,
     TakenStep, AwaitedStep, EndsStep
<1>3. Inv /\ [Next]_vars => [Promise!Next]_(Promise!vars)
  BY PromiseStep
<1> QED
  BY <1>1, <1>2, <1>3, PTL DEF Spec, KeepsPromise, Promise!Spec
=============================================================================

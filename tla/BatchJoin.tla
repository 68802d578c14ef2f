----------------------------- MODULE BatchJoin ------------------------------
(***************************************************************************)
(* One batch session: Batch.join over the event stream, the wallet's batch *)
(* handler and its tree signer, against a server that runs one batch after *)
(* the other.                                                              *)
(*                                                                         *)
(* A handler runs to its end before the next event is read, so the state   *)
(* between two events is a call of the server under way.  The server may   *)
(* move on meanwhile; it then refuses the call.                            *)
(*                                                                         *)
(* A transaction of a tree is its batch and its place: every tree has a    *)
(* root and one leaf, which pays the wallet, and the connector tree is one *)
(* transaction.  The stream carries the tree events of batches the intent  *)
(* is a member of, and the boundary events of every batch.                 *)
(***************************************************************************)
EXTENDS Integers, Sequences, FiniteSets

CONSTANTS
    MaxBatches,    \* bound: batches the server runs
    FaultSets      \* the environments to consider: sets of FaultNames

FaultNames ==
    {"loss",       \* an event falls into a reconnect gap of the stream
     "stream",     \* the stream errors or closes, or the caller aborts
     "requeue",    \* the server queues the member of a failed batch again
     "server"}     \* the server's data is not what it should be

ASSUME JoinAssumption ==
    /\ MaxBatches \in Nat
    /\ FaultSets \subseteq SUBSET FaultNames

VARIABLES
    \* the server (external)
    batch,         \* the current batch
    sphase,        \* how far it is
    member,        \* is the intent in it?
    pays,          \* does its commitment pay the intent's recipients?
    queued,        \* does the intent wait for a batch?
    chan,          \* events under way
    \* the environment
    faults, skip,  \* skip: no offchain outputs, so no tree to sign
    \* the session
    pc,            \* reading the stream, in a call, or over
    step,          \* the step of Batch.join
    event,         \* the event being handled
    flat, conns,   \* the chunks received: vtxo tree and connector tree
    tree,          \* the vtxo tree built from them
    graph,         \* the signer's tree
    nonces,        \* the transactions the signer drew nonces for
    aggregated,    \* the transactions whose nonces it has aggregated
    validated,     \* the commitment whose tree was validated
    returned,      \* the commitment join returned
    \* history
    joined,        \* batches the server accepted our confirmation in
    forfeited      \* commitments the forfeits were submitted for

server == <<batch, member, pays, queued>>
signer == <<graph, nonces, aggregated, validated>>
mode == <<faults, skip>>
history == <<joined, forfeited>>
vars == <<server, sphase, chan, mode, pc, step, event, flat, conns, tree, signer,
          returned, history>>

-----------------------------------------------------------------------------
Batches == 1 .. MaxBatches
Txs == [batch : Batches, node : {"root", "leaf", "connector"}]
Tx(b, n) == [batch |-> b, node |-> n]

\* A batch has one commitment; a server out of order may present another.
Commitments == [batch : Batches, alt : BOOLEAN, pays : BOOLEAN]
NoCommitment == [batch |-> 0, alt |-> FALSE, pays |-> FALSE]

Events ==
    [type : {"BatchStarted"}, batch : Batches, member : BOOLEAN, sane : BOOLEAN]
    \cup [type : {"TreeTx", "TreeNonces", "TreeSignature"}, tx : Txs]
    \cup [type : {"TreeSigningStarted"}, batch : Batches, commitment : Commitments,
          cosigner : BOOLEAN]
    \cup [type : {"BatchFinalization", "BatchFinalized"}, batch : Batches,
          commitment : Commitments]
    \cup [type : {"BatchFailed"}, batch : Batches]
NoEvent == [type |-> "none"]

Steps == {"start", "batch_started", "tree_signing_started", "tree_nonces_aggregated",
          "batch_finalization"}
Calls == {"confirm", "nonces", "signatures", "forfeits"}
Over == {"returned", "thrown"}

Init ==
    /\ batch = 0 /\ sphase = "idle" /\ member = FALSE /\ pays = FALSE /\ queued = TRUE
    /\ chan = <<>>
    /\ faults \in FaultSets /\ skip \in BOOLEAN
    /\ pc = "recv" /\ step = "start" /\ event = NoEvent
    /\ flat = <<>> /\ conns = <<>> /\ tree = {}
    /\ graph = {} /\ nonces = {} /\ aggregated = {}
    /\ validated = NoCommitment /\ returned = NoCommitment
    /\ joined = {} /\ forfeited = {}

-----------------------------------------------------------------------------
(* Trees.                                                                   *)

Chunks(s) == {s[i] : i \in DOMAIN s}

\* Transactions no other received transaction names as its child.
Roots(txs) == {t \in txs : t.node = "leaf" => Tx(t.batch, "root") \notin txs}

\* The transactions of the tree below t.
Below(t, txs) ==
    {u \in txs : u = t \/ (t.node = "root" /\ u = Tx(t.batch, "leaf"))}

\* Mutant: the newest root is taken when there are several.
NewestTree(s) ==
    LET roots == Roots(Chunks(s))
        newest == CHOOSE t \in roots : \A u \in roots : u.batch <= t.batch
    IN  IF roots = {} THEN {} ELSE Below(newest, Chunks(s))

\* TxTree.create: one root, and every chunk reached from it exactly once.  {}
\* stands for the exception.
CreateTree(s) ==
    LET txs == Chunks(s)
    IN  IF /\ Cardinality(Roots(txs)) = 1
           /\ \A t \in Roots(txs) : Cardinality(Below(t, txs)) = Len(s)
        THEN txs ELSE {}

\* validateVtxoTxGraph and validateBatchRecipients: the root spends this
\* commitment, and the leaves pay the recipients.  A tree may be partial.
ValidTree(txs, c) ==
    /\ Tx(c.batch, "root") \in txs /\ ~c.alt
    /\ Tx(c.batch, "leaf") \in txs /\ c.pays

\* Mutant: the connectors' root is not compared with the commitment.
AnyConnectors(s, c) == CreateTree(s) # {}

\* validateConnectorsTxGraph, and enough connectors for the forfeits.  They
\* spend whichever commitment the server presents.
ValidConnectors(s, c) == CreateTree(s) = {Tx(c.batch, "connector")}

\* Mutant: any commitment that pays is as good as the validated one.
AnyPayingCommitment(c) == c.pays

\* The commitment that is about to be signed is the one validated before the
\* tree was signed; without a tree its own outputs pay the recipients.
FinalCommitmentMatches(c) == IF validated # NoCommitment THEN c = validated ELSE c.pays

-----------------------------------------------------------------------------
(* The session.                                                             *)

e == Head(chan)

\* The next event is of this type; the handler ends, calls the server or throws.
Receive(type, next) ==
    /\ pc = "recv" /\ chan # <<>>
    /\ e.type = type
    /\ chan' = Tail(chan)
    /\ pc' = next
    /\ event' = IF next \in Calls THEN e ELSE NoEvent
    /\ UNCHANGED <<server, sphase, mode, history>>

\* The batch expiry is checked before anything is confirmed.
OnBatchStarted ==
    /\ Receive("BatchStarted",
               IF ~e.member THEN "recv" ELSE IF e.sane THEN "confirm" ELSE "thrown")
    /\ UNCHANGED <<step, flat, conns, tree, signer, returned>>

OnTreeTx ==
    /\ Receive("TreeTx", "recv")
    /\ IF step \notin {"batch_started", "tree_nonces_aggregated"} THEN UNCHANGED <<flat, conns>>
       ELSE IF e.tx.node = "connector"
       THEN conns' = Append(conns, e.tx) /\ UNCHANGED flat
       ELSE flat' = Append(flat, e.tx) /\ UNCHANGED conns
    /\ UNCHANGED <<step, tree, signer, returned>>

\* The tree is created and validated, and the signer bound to it.  The signer
\* draws nonces once: a later tree would find those of the first.
OnTreeSigningStarted ==
    LET built == CreateTree(flat)
        signs == built # {} /\ e.cosigner /\ ValidTree(built, e.commitment)
        next == IF step # "batch_started" THEN "recv"
                ELSE IF built # {} /\ ~e.cosigner THEN "recv"
                ELSE IF signs THEN "nonces" ELSE "thrown"
    IN  /\ Receive("TreeSigningStarted", next)
        /\ tree' = IF step = "batch_started" /\ built # {} THEN built ELSE tree
        /\ IF next = "nonces"
           THEN /\ validated' = e.commitment
                /\ graph' = built
                /\ nonces' = IF nonces = {} THEN built ELSE nonces
                /\ UNCHANGED aggregated
           ELSE UNCHANGED signer
        /\ UNCHANGED <<step, flat, conns, returned>>

\* aggregatedNonces, and sign() once every drawn nonce has its aggregate.
OnTreeNonces ==
    LET known == e.tx \in aggregated
        more == aggregated \cup {e.tx}
        next == IF step # "tree_signing_started" THEN "recv"
                ELSE IF ~known /\ e.tx \notin nonces \cap graph THEN "thrown"
                ELSE IF Cardinality(more) # Cardinality(nonces) THEN "recv"
                ELSE IF graph \subseteq nonces \cap more THEN "signatures" ELSE "thrown"
    IN  /\ Receive("TreeNonces", next)
        /\ aggregated' = IF step = "tree_signing_started" /\ next # "thrown" THEN more
                         ELSE aggregated
        /\ UNCHANGED <<step, flat, conns, tree, graph, nonces, validated, returned>>

OnTreeSignature ==
    /\ Receive("TreeSignature",
               IF step = "tree_nonces_aggregated" /\ e.tx \notin tree THEN "thrown" ELSE "recv")
    /\ UNCHANGED <<step, flat, conns, tree, signer, returned>>

\* The trees are completed, the connectors and the commitment checked, and the
\* forfeits signed.
OnBatchFinalization ==
    LET late == tree = {} /\ flat # <<>>
        full == IF late THEN CreateTree(flat) ELSE tree
        safe == /\ full # {} \/ (skip /\ ~late)
                /\ ValidConnectors(conns, e.commitment)
                /\ FinalCommitmentMatches(e.commitment)
    IN  /\ Receive("BatchFinalization",
                   IF step # "tree_nonces_aggregated" THEN "recv"
                   ELSE IF safe THEN "forfeits" ELSE "thrown")
        /\ tree' = IF step = "tree_nonces_aggregated" THEN full ELSE tree
        /\ UNCHANGED <<step, flat, conns, signer, returned>>

OnBatchFinalized ==
    /\ Receive("BatchFinalized", IF step = "batch_finalization" THEN "returned" ELSE "recv")
    /\ returned' = IF step = "batch_finalization" THEN e.commitment ELSE returned
    /\ UNCHANGED <<step, flat, conns, tree, signer>>

\* Mutant: a failure is taken for the end of another batch.
OnFailedContinue ==
    /\ Receive("BatchFailed", "recv")
    /\ UNCHANGED <<step, flat, conns, tree, signer, returned>>

\* The settle handler adds no onBatchFailed of its own: the reason is thrown.
OnBatchFailed ==
    /\ Receive("BatchFailed", "thrown")
    /\ UNCHANGED <<step, flat, conns, tree, signer, returned>>

\* "event stream closed", an error of the event source, or "canceled".
StreamEnds ==
    /\ pc = "recv" /\ "stream" \in faults
    /\ pc' = "thrown"
    /\ UNCHANGED <<server, sphase, chan, mode, step, event, flat, conns, tree, signer,
                   returned, history>>

About(ev) == IF ev.type = "TreeNonces" THEN ev.tx.batch ELSE ev.batch

\* A call about the event's batch, which the server takes in one phase only.
Call(name, from, to, after) ==
    /\ pc = name
    /\ event' = NoEvent
    /\ IF member /\ About(event) = batch /\ sphase = from
       THEN sphase' = to /\ step' = after /\ pc' = "recv"
       ELSE pc' = "thrown" /\ UNCHANGED <<sphase, step>>
    /\ UNCHANGED <<server, chan, mode, flat, conns, tree, signer, returned>>

ConfirmRegistration ==
    /\ Call("confirm", "started", "confirmed",
            IF skip THEN "tree_nonces_aggregated" ELSE "batch_started")
    /\ joined' = IF sphase' = "confirmed" THEN joined \cup {batch} ELSE joined
    /\ UNCHANGED forfeited

SubmitTreeNonces ==
    /\ Call("nonces", "nonces", "aggregating", "tree_signing_started")
    /\ UNCHANGED history

SubmitTreeSignatures ==
    /\ Call("signatures", "signatures", "signed", "tree_nonces_aggregated")
    /\ UNCHANGED history

\* Once sent, the forfeits are out, whatever comes back.
SubmitSignedForfeitTxs ==
    /\ Call("forfeits", "finalizing", "forfeited", "batch_finalization")
    /\ forfeited' = forfeited \cup {event.commitment}
    /\ UNCHANGED joined

-----------------------------------------------------------------------------
(* The server.                                                              *)

Subtle == "server" \in faults
Announced == [batch |-> batch, alt |-> FALSE, pays |-> pays]
\* What the server may present as the commitment of its batch.
Presented == {Announced} \cup (IF Subtle THEN {[Announced EXCEPT !.alt = TRUE]} ELSE {})

Emit(events) == chan' = IF pc \in Over THEN <<>> ELSE chan \o events
TreeEvents(type) ==
    <<[type |-> type, tx |-> Tx(batch, "root")], [type |-> type, tx |-> Tx(batch, "leaf")]>>
session == <<pc, step, event, flat, conns, tree, signer, returned>>

\* Another intent's batch may happen to pay the same recipients.
ServerStart ==
    /\ sphase = "idle" /\ batch < MaxBatches
    /\ batch' = batch + 1 /\ sphase' = "started"
    /\ member' \in {FALSE, queued}
    /\ queued' = (queued /\ ~member')
    /\ pays' \in IF member' /\ ~Subtle THEN {TRUE} ELSE BOOLEAN
    /\ \E sane \in IF Subtle THEN BOOLEAN ELSE {TRUE} :
           Emit(<<[type |-> "BatchStarted", batch |-> batch', member |-> member',
                   sane |-> sane]>>)
    /\ UNCHANGED <<mode, session, history>>

\* A member that did not confirm in time is dropped; the batch goes on.
ServerDrop ==
    /\ sphase = "started" /\ member
    /\ member' = FALSE
    /\ UNCHANGED <<batch, pays, queued, sphase, chan, mode, session, history>>

ServerTree ==
    /\ sphase = "confirmed" /\ member /\ ~skip
    /\ sphase' = "nonces"
    /\ \E c \in Presented, cosigner \in IF Subtle THEN BOOLEAN ELSE {TRUE} :
           Emit(TreeEvents("TreeTx")
                \o <<[type |-> "TreeSigningStarted", batch |-> batch, commitment |-> c,
                      cosigner |-> cosigner]>>)
    /\ UNCHANGED <<server, mode, session, history>>

ServerNonces ==
    /\ sphase = "aggregating"
    /\ sphase' = "signatures"
    /\ Emit(TreeEvents("TreeNonces"))
    /\ UNCHANGED <<server, mode, session, history>>

\* The signed tree and the connectors go to the members, the commitment to all.
\* A server out of order does not wait for the signatures.
ServerFinalize ==
    /\ \/ member /\ sphase = IF skip THEN "confirmed" ELSE "signed"
       \/ member /\ Subtle /\ sphase \in {"nonces", "signatures"}
       \/ ~member /\ sphase = "started"
    /\ sphase' = "finalizing"
    /\ \E c \in Presented :
           Emit((IF sphase = "signed" THEN TreeEvents("TreeSignature") ELSE <<>>)
                \o (IF member THEN <<[type |-> "TreeTx", tx |-> Tx(batch, "connector")]>> ELSE <<>>)
                \o <<[type |-> "BatchFinalization", batch |-> batch, commitment |-> c]>>)
    /\ UNCHANGED <<server, mode, session, history>>

ServerCommit ==
    /\ sphase = IF member THEN "forfeited" ELSE "finalizing"
    /\ sphase' = "idle"
    /\ \E c \in Presented :
           Emit(<<[type |-> "BatchFinalized", batch |-> batch, commitment |-> c]>>)
    /\ UNCHANGED <<server, mode, session, history>>

ServerFail ==
    /\ sphase # "idle"
    /\ sphase' = "idle"
    /\ member' = FALSE
    /\ queued' \in {queued} \cup (IF member /\ "requeue" \in faults THEN {TRUE} ELSE {})
    /\ Emit(<<[type |-> "BatchFailed", batch |-> batch]>>)
    /\ UNCHANGED <<batch, pays, mode, session, history>>

LoseEvent ==
    /\ "loss" \in faults /\ chan # <<>>
    /\ chan' = Tail(chan)
    /\ UNCHANGED <<server, sphase, mode, session, history>>

-----------------------------------------------------------------------------
Join ==
    \/ OnBatchStarted \/ OnTreeTx \/ OnTreeSigningStarted \/ OnTreeNonces
    \/ OnTreeSignature \/ OnBatchFinalization \/ OnBatchFinalized \/ OnBatchFailed
    \/ ConfirmRegistration \/ SubmitTreeNonces \/ SubmitTreeSignatures
    \/ SubmitSignedForfeitTxs

Server ==
    \/ ServerStart \/ ServerDrop \/ ServerTree \/ ServerNonces
    \/ ServerFinalize \/ ServerCommit \/ ServerFail

Next == Join \/ StreamEnds \/ Server \/ LoseEvent

Spec == Init /\ [][Next]_vars

\* The event loop delivers what has arrived, and the server ends its batches.
FairSpec == Spec /\ WF_vars(Join) /\ WF_vars(Server)

-----------------------------------------------------------------------------
TypeOK ==
    /\ batch \in 0 .. MaxBatches
    /\ sphase \in {"idle", "started", "confirmed", "nonces", "aggregating", "signatures",
                   "signed", "finalizing", "forfeited"}
    /\ member \in BOOLEAN /\ pays \in BOOLEAN /\ queued \in BOOLEAN
    /\ chan \in Seq(Events)
    /\ faults \in FaultSets /\ skip \in BOOLEAN
    /\ pc \in {"recv"} \cup Calls \cup Over
    /\ step \in Steps
    /\ event \in Events \cup {NoEvent}
    /\ flat \in Seq(Txs) /\ conns \in Seq(Txs)
    /\ tree \subseteq Txs /\ graph \subseteq Txs
    /\ nonces \subseteq Txs /\ aggregated \subseteq Txs
    /\ validated \in Commitments \cup {NoCommitment}
    /\ returned \in Commitments \cup {NoCommitment}
    /\ joined \subseteq Batches
    /\ forfeited \subseteq Commitments

\* Forfeits leave the wallet for a commitment that pays its recipients, of a
\* batch it was admitted to, and with a tree the one whose tree it signed; also
\* when events are lost or the server presents something else.
ForfeitsAreOurs ==
    \A c \in forfeited :
        /\ c.pays /\ c.batch \in joined
        /\ ~skip => c = validated

\* Signatures are only ever made for the tree of the validated commitment, whole,
\* and with nonces drawn for it.
OneTreeSigned ==
    /\ validated # NoCommitment =>
           \A t \in tree \cup graph \cup nonces : t.batch = validated.batch
    /\ aggregated \subseteq nonces

\* Once admitted to a batch, join ends: every batch ends, and its end is told.
JoinEnds ==
    (pc \notin Over /\ step # "start" /\ "loss" \notin faults) ~> pc \in Over

\* The session as BatchPromise sees it.
phase ==
    CASE pc = "returned" -> "kept"
      [] pc = "thrown" -> "broken"
      [] pc \notin Over /\ forfeited # {} -> "given"
      [] pc \notin Over /\ forfeited = {} /\ validated # NoCommitment -> "bound"
      [] OTHER -> "open"
deal ==
    IF returned # NoCommitment THEN returned
    ELSE IF forfeited # {} THEN CHOOSE c \in forfeited : TRUE
    ELSE validated
faithful == faults \cap {"loss", "server"} = {}

\* The session keeps the promise of BatchPromise.
Promise == INSTANCE BatchPromise WITH None <- NoCommitment

KeepsPromise == Promise!Spec
=============================================================================

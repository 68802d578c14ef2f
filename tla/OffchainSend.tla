---------------------------- MODULE OffchainSend ----------------------------
(***************************************************************************)
(* Offchain spends: selection and submission under the wallet's transaction *)
(* lock, the persisted hasPendingTx flag, and the recovery that a start of  *)
(* the worker makes of transactions that were submitted and not finalized.  *)
(*                                                                         *)
(* An operation is cut at its awaits: a call to the server and its answer   *)
(* are one step, or two outcomes of one step when the answer is lost.       *)
(***************************************************************************)
EXTENDS Integers, FiniteSets, Sequences

CONSTANTS
    Coins,         \* the wallet's virtual outputs
    Preconfirmed,  \* those that no batch has settled yet
    Young,         \* those created since the syncs' window begins
    Ops,           \* the calls that spend offchain
    Named,         \* those whose caller names the inputs
    MaxFaults,     \* bound: faults in a behaviour
    FaultSets      \* the environments to consider: sets of FaultNames

FaultNames ==
    {"crash",      \* the process dies
     "fail",       \* a call of a spend throws, before or after its effect, or a sync
     "recover",    \* the sync of a start fails, or recovery cannot finalize
     "lag",        \* a sync's answer is older than a spend
     "eager"}      \* not a fault: calls are made while recovery is under way

ASSUME SendAssumption ==
    /\ IsFiniteSet(Coins) /\ Preconfirmed \subseteq Coins /\ Young \subseteq Coins
    /\ Named \subseteq Ops /\ MaxFaults \in Nat
    /\ FaultSets \subseteq SUBSET FaultNames

VARIABLES
    faults, budget,
    server,    \* what the server has of an operation's transaction
    pc, coins, \* the operations, and their snapshot or their inputs
    queue,     \* _txLock: the calls in order, the first one runs
    hidden,    \* _pendingSpendOutpoints
    recorded,  \* the coins whose row in the repository says spent
    flag,      \* settings.hasPendingTx, persisted
    up,        \* the process
    rec,       \* finalizePendingTxs, as a start of the worker runs it
    refused    \* history: the operations the server refused for their inputs, with
               \* those that have spent them

ops == <<pc, coins, queue, hidden>>
vars == <<faults, budget, server, ops, recorded, flag, up, rec, refused>>

Idle == [pc |-> "off", seen |-> {}, pending |-> {}, left |-> {}]
Ended == {"done", "failed", "dead"}

Spent == UNION {coins[o] : o \in {p \in Ops : server[p] # "none"}}

Fault(name) == name \in faults /\ budget > 0 /\ budget' = budget - 1
NoFault == UNCHANGED budget

Init ==
    /\ faults \in FaultSets /\ budget = MaxFaults
    /\ server = [o \in Ops |-> "none"]
    /\ pc = [o \in Ops |-> "idle"] /\ coins = [o \in Ops |-> {}]
    /\ queue = <<>> /\ hidden = {} /\ recorded = {}
    /\ flag = FALSE /\ up = TRUE /\ rec = Idle /\ refused = {}

-----------------------------------------------------------------------------
(* A spend.                                                                  *)

\* The opportunistic sync before a read: its answer goes by the creation of a coin,
\* so it brings the spends of young coins only, and those it has not heard of it
\* takes back; when it fails the rows stay as they are.
Sync ==
    \/ /\ NoFault
       /\ \E S \in SUBSET (Spent \cap Young) :
             /\ "lag" \notin faults => S = Spent \cap Young
             /\ recorded' = (recorded \ Young) \cup S
    \/ Fault("fail") /\ UNCHANGED recorded

\* A snapshot is what the rows call unspent after the sync.
Snapshot == Coins \ recorded'

At(o, p) == pc[o] = p
Go(o, p) == pc' = [pc EXCEPT ![o] = p]

\* The call joins the lock's chain; named inputs were chosen before it.
Call(o) ==
    /\ up /\ At(o, "idle") /\ ("eager" \in faults \/ rec.pc = "off")
    /\ IF o \in Named
       THEN /\ Sync
            /\ \E C \in (SUBSET (Snapshot \ hidden)) \ {{}} : coins' = [coins EXCEPT ![o] = C]
       ELSE NoFault /\ UNCHANGED <<coins, recorded>>
    /\ Go(o, "waiting") /\ queue' = Append(queue, o)
    /\ UNCHANGED <<faults, server, hidden, flag, up, rec, refused>>

\* Mutant: nobody waits for the call before.
HoldsNothing(o) == o \in Ops

Holds(o) == queue # <<>> /\ Head(queue) = o

\* The accessor reads contracts and coins once; the lock is held.
Select(o) ==
    /\ At(o, "waiting") /\ Holds(o)
    /\ IF o \in Named
       THEN NoFault /\ UNCHANGED <<coins, recorded>>
       ELSE Sync /\ coins' = [coins EXCEPT ![o] = Snapshot]
    /\ Go(o, "select")
    /\ UNCHANGED <<faults, server, queue, hidden, flag, up, rec, refused>>

\* What every way out of the lock does: the finally blocks.
Leave(o, p) ==
    /\ Go(o, p)
    /\ hidden' = hidden \ coins[o]
    /\ queue' = Tail(queue)
    /\ UNCHANGED coins

\* The selection filters the snapshot, and hides what it took.
Hold(o) ==
    /\ At(o, "select")
    /\ \E C \in (SUBSET (IF o \in Named THEN coins[o] ELSE coins[o] \ hidden)) \ {{}} :
          /\ o \in Named => C = coins[o]
          /\ coins' = [coins EXCEPT ![o] = C]
          /\ hidden' = hidden \cup C
    /\ Go(o, "held")
    /\ UNCHANGED <<faults, budget, server, queue, recorded, flag, up, rec, refused>>

\* Mutant: a selection that falls short returns without the lock's release.
ShortLocked(o) ==
    /\ At(o, "select") /\ o \notin Named /\ Go(o, "failed")
    /\ UNCHANGED <<faults, budget, server, coins, queue, hidden, recorded, flag, up, rec, refused>>

\* Not enough coins for the recipients.
Short(o) ==
    /\ At(o, "select") /\ o \notin Named
    /\ Go(o, "failed") /\ queue' = Tail(queue)
    /\ UNCHANGED <<faults, budget, server, coins, hidden, recorded, flag, up, rec, refused>>

\* Mutant: the caller does not pass the hook.
MarkNothing(o) ==
    /\ At(o, "held") /\ Go(o, "marked")
    /\ UNCHANGED <<faults, budget, server, coins, queue, hidden, recorded, flag, up, rec, refused>>

\* beforeSubmit: the flag is persisted before the server hears of it.
Mark(o) ==
    /\ At(o, "held") /\ flag' = TRUE /\ Go(o, "marked")
    /\ UNCHANGED <<faults, budget, server, coins, queue, hidden, recorded, up, rec, refused>>

Submit(o) ==
    /\ At(o, "marked") /\ coins[o] \cap Spent = {}
    /\ server' = [server EXCEPT ![o] = "registered"]
    /\ \/ NoFault /\ Go(o, "registered") /\ UNCHANGED <<coins, queue, hidden>>
       \/ Fault("fail") /\ Leave(o, "failed")
    /\ UNCHANGED <<faults, recorded, flag, up, rec, refused>>

Refuse(o) ==
    /\ At(o, "marked") /\ coins[o] \cap Spent # {}
    /\ Leave(o, "failed")
    /\ refused' = refused \cup
           {<<o, p>> : p \in {q \in Ops : server[q] # "none" /\ coins[q] \cap coins[o] # {}}}
    /\ UNCHANGED <<faults, budget, server, recorded, flag, up, rec>>

\* The checkpoints are countersigned and handed in.  When recovery has finalized
\* the transaction already the server may refuse a second time.
Finalize(o) ==
    /\ At(o, "registered")
    /\ server' = [server EXCEPT ![o] = "finalized"]
    /\ \/ NoFault /\ Go(o, "finalized") /\ UNCHANGED <<coins, queue, hidden>>
       \/ Fault("fail") /\ Leave(o, "failed")
       \/ NoFault /\ server[o] = "finalized" /\ Leave(o, "failed")
    /\ UNCHANGED <<faults, recorded, flag, up, rec, refused>>

\* afterFinalize: a flag that cannot be cleared does not fail the spend.
Clear(o) ==
    /\ At(o, "finalized")
    /\ \/ NoFault /\ flag' = FALSE
       \/ Fault("fail") /\ UNCHANGED flag
    /\ Go(o, "cleared")
    /\ UNCHANGED <<faults, server, coins, queue, hidden, recorded, up, rec, refused>>

\* updateDbAfterOffchainTx; its failure rejects a spend that was made, and leaves its
\* inputs unspent in the repository.
Record(o) ==
    /\ At(o, "cleared")
    /\ \/ NoFault /\ Leave(o, "done") /\ recorded' = recorded \cup coins[o]
       \/ Fault("fail") /\ Leave(o, "failed") /\ UNCHANGED recorded
    /\ UNCHANGED <<faults, server, flag, up, rec, refused>>

\* A call throws and the server has heard nothing of it: the snapshot, the
\* annotation check, the signer, the flag's write, the connection.
Throw(o) ==
    /\ pc[o] \in {"select", "held", "marked", "registered"} /\ Fault("fail")
    /\ Leave(o, "failed")
    /\ UNCHANGED <<faults, server, recorded, flag, up, rec, refused>>

\* A row is corrected out of turn: by the worker, when the stream tells of the spend
\* (notifyIncomingFunds), by a full refresh, by the refresh of an outpoint that the
\* server has refused.
Told(c) ==
    /\ up /\ c \in Spent /\ recorded' = recorded \cup {c}
    /\ UNCHANGED <<faults, budget, server, ops, flag, up, rec, refused>>

Step(o) ==
    \/ Select(o) \/ Hold(o) \/ Short(o) \/ Mark(o) \/ Submit(o) \/ Refuse(o)
    \/ Finalize(o) \/ Clear(o) \/ Record(o)

-----------------------------------------------------------------------------
(* Recovery.                                                                 *)

Rest == <<faults, ops, up, refused>>

\* Mutant: recovery asks about outputs that can still be spent.
ViewUnspent == Preconfirmed \ recorded'

\* The outputs recovery asks about, by their rows: the spent and the preconfirmed.
View == recorded' \cup Preconfirmed

\* The manager is initialized before, and syncs; a sync that fails is no obstacle.
RecView ==
    /\ rec.pc = "view"
    /\ Sync \/ (Fault("recover") /\ UNCHANGED recorded)
    /\ rec' = [rec EXCEPT !.pc = "flag", !.seen = View]
    /\ UNCHANGED <<Rest, server, flag>>

\* Without rows to ask about, the indexer is asked for all of them.
Found ==
    IF rec.seen # {} THEN {rec.seen}
    ELSE {S \cup Preconfirmed : S \in {T \in SUBSET Spent : "lag" \notin faults => T = Spent}}

\* Nothing is done without the flag; without outputs it stays as it is.
RecFlag ==
    /\ rec.pc = "flag"
    /\ \E S \in Found :
          rec' = IF flag /\ S # {} THEN [rec EXCEPT !.pc = "ask", !.seen = S] ELSE Idle
    /\ UNCHANGED <<Rest, budget, server, recorded, flag>>

\* getPendingTxs, with a proof that the wallet owns the outputs.
RecAsk ==
    /\ rec.pc = "ask"
    /\ LET P == {o \in Ops : server[o] = "registered" /\ coins[o] \cap rec.seen # {}}
       IN  rec' = [rec EXCEPT !.pc = "finish", !.pending = P, !.left = P]
    /\ UNCHANGED <<Rest, budget, server, recorded, flag>>

\* A transaction whose inputs were not all seen cannot be checked, and is left.
RecFinish(o) ==
    /\ rec.pc = "finish" /\ o \in rec.left
    /\ \/ /\ coins[o] \subseteq rec.seen /\ server' = [server EXCEPT ![o] = "finalized"]
          /\ NoFault /\ rec' = [rec EXCEPT !.left = @ \ {o}, !.pending = @ \ {o}]
       \/ /\ \/ coins[o] \subseteq rec.seen /\ Fault("recover")
             \/ ~(coins[o] \subseteq rec.seen) /\ NoFault
             \/ server[o] = "finalized" /\ NoFault
          /\ rec' = [rec EXCEPT !.left = @ \ {o}] /\ UNCHANGED server
    /\ UNCHANGED <<Rest, recorded, flag>>

\* The flag is cleared when nothing that was found is still pending.
RecClear ==
    /\ rec.pc = "finish" /\ rec.left = {}
    /\ flag' = (flag /\ rec.pending # {})
    /\ rec' = Idle
    /\ UNCHANGED <<Rest, budget, server, recorded>>

Recovery == RecView \/ RecFlag \/ RecAsk \/ (\E o \in Ops : RecFinish(o)) \/ RecClear

-----------------------------------------------------------------------------
(* The process.                                                              *)

Crash ==
    /\ up /\ Fault("crash") /\ up' = FALSE
    /\ pc' = [o \in Ops |-> IF pc[o] \in {"idle"} \cup Ended THEN pc[o] ELSE "dead"]
    /\ queue' = <<>> /\ hidden' = {} /\ rec' = Idle
    /\ UNCHANGED <<faults, server, coins, recorded, flag, refused>>

Boot ==
    /\ ~up /\ up' = TRUE /\ rec' = [Idle EXCEPT !.pc = "view"]
    /\ UNCHANGED <<faults, budget, server, ops, recorded, flag, refused>>

Next ==
    \/ \E o \in Ops : Call(o) \/ Step(o) \/ Throw(o)
    \/ \E c \in Coins : Told(c)
    \/ Recovery \/ Crash \/ Boot

Spec == Init /\ [][Next]_vars

\* The call that has the lock goes on, and a process that died is started again;
\* nobody has to make a call, and nothing has to fail.
Fairness ==
    /\ WF_vars(\E o \in Ops : Step(o))
    /\ WF_vars(Recovery) /\ WF_vars(Boot)

FairSpec == Spec /\ Fairness

-----------------------------------------------------------------------------
(* Properties.                                                               *)

\* Every variable has its type.
TypeOK ==
    /\ faults \in FaultSets /\ budget \in Nat
    /\ server \in [Ops -> {"none", "registered", "finalized"}]
    /\ pc \in [Ops -> {"idle", "waiting", "select", "held", "marked", "registered",
                       "finalized", "cleared"} \cup Ended]
    /\ coins \in [Ops -> SUBSET Coins]
    /\ queue \in Seq(Ops) /\ hidden \in SUBSET Coins /\ recorded \in SUBSET Coins
    /\ flag \in BOOLEAN /\ up \in BOOLEAN
    /\ rec \in [pc : {"off", "view", "flag", "ask", "finish"}, seen : SUBSET Coins,
                pending : SUBSET Ops, left : SUBSET Ops]
    /\ refused \in SUBSET (Ops \X Ops)

\* What a start sees all inputs of, by the rows: the other coins are settled and were
\* created before the syncs' window.
Visible(o) == coins[o] \subseteq Preconfirmed \cup Young

\* Wherever the process dies, a transaction that was submitted and not finalized,
\* and that a start can check, has its flag, or no start would look for it
\* (buildAndSubmitOffchainTx).
FlagCovers ==
    faults \subseteq {"crash"} =>
        \A o \in Ops : server[o] = "registered" /\ Visible(o) => flag

\* The same when calls fail as well: what a spend leaves behind is marked until
\* a start has looked at it, whatever spends follow.  It is not so: the next one
\* that succeeds clears the flag.
FlagOutlives ==
    \A o \in Ops : pc[o] \in Ended /\ server[o] = "registered" => flag

\* Recovery clears the flag only when no spend that is over and has a preconfirmed
\* input is still pending, or a transaction it could not finalize would not be tried
\* again: also when its sync fails and when the indexer lags.
ClearsNoPending ==
    [][up' /\ "eager" \notin faults /\ flag /\ ~flag' /\ rec # Idle =>
           \A o \in Ops : pc[o] \in Ended /\ coins[o] \cap Preconfirmed # {}
                           => server[o] # "registered"]_vars

\* A generic send never loses its inputs to a spend of the same wallet that is under
\* way or succeeded, in this process or an earlier one: it selects under the lock
\* (_withTxLock).  The rows of a spend that failed or died after the server had it
\* may be out of date, but those of young inputs are not once a sync went through.
NoOwnConflict ==
    "lag" \notin faults =>
        \A o \in Ops \ Named, p \in Ops : <<o, p>> \in refused =>
            /\ pc[p] \in {"failed", "dead"}
            /\ "fail" \in faults \/ coins[o] \cap coins[p] \cap Young = {}

\* The inputs of the spend in flight, and nothing else, are hidden from readers:
\* a stale entry would keep a coin out of sight until a restart.
HidesInFlight ==
    /\ \A o \in Ops : pc[o] \in {"held", "marked", "registered", "finalized", "cleared"}
                        => coins[o] \subseteq hidden
    /\ queue = <<>> => hidden = {}

\* A transaction a crash cut off between its submission and its finalization is
\* finalized by the next start, whatever the crash before left behind, if its inputs
\* are preconfirmed or young.
Recovered ==
    faults \subseteq {"crash"} =>
        \A o \in Ops :
            (server[o] = "registered" /\ pc[o] = "dead" /\ Visible(o))
            ~> server[o] = "finalized"

\* "if we crash between submit and finalize, the next init recovers via
\* finalizePendingTxs" (buildAndSubmitOffchainTx), with any inputs.  The rows of old
\* settled inputs still say unspent, so that recovery does not ask about them, finds
\* nothing pending and clears the flag; no run checks it.
RecoveredAll ==
    faults \subseteq {"crash"} =>
        \A o \in Ops : (server[o] = "registered" /\ pc[o] = "dead") ~> server[o] = "finalized"

\* Every call ends and frees the lock for the next one, however it ends.
OpsEnd == \A o \in Ops : pc[o] = "waiting" ~> pc[o] \in Ended

=============================================================================

---------------------------- MODULE ExitExecutor ----------------------------
(***************************************************************************)
(* A unilateral exit: a package is prepared once, and Executor runs it,     *)
(* again and again, against a chain that has its own life.                  *)
(*                                                                         *)
(* The executor has no state but the chain.  A step of it ends where it     *)
(* awaits the explorer: what it read may be stale when it broadcasts.       *)
(***************************************************************************)
EXTENDS ExitPlan

CONSTANTS
    Layouts,       \* the layouts to consider
    CSV,           \* delay of the sweeps, in blocks
    MaxFaults,     \* bound: faults in a behaviour
    FaultSets      \* the environments to consider: sets of FaultNames

FaultNames ==
    {"evict",      \* a transaction leaves the mempool
     "reorg",      \* the last block is undone
     "conflict",   \* somebody else spends an input for good
     "others",     \* other owners unroll shared transactions
     "read",       \* the explorer does not answer
     "fees",       \* the fee wallet cannot pay
     "kill"}       \* the process dies, or the caller aborts

ASSUME ExitAssumption ==
    /\ CSV \in Nat \ {0} /\ MaxFaults \in Nat
    /\ FaultSets \subseteq SUBSET FaultNames
    /\ \A l \in Layouts :
           /\ IsFiniteSet(l.txs) /\ l.txs \subseteq Nat \ {0}
           /\ IsFiniteSet(Vtxos(l)) /\ Vtxos(l) \subseteq Nat \ {0}
           /\ l.inputs \in [l.txs -> SUBSET l.txs]
           /\ l.chain \in [Vtxos(l) -> SUBSET l.txs]
           /\ \A v \in Vtxos(l) : l.leaf[v] \in l.chain[v]
           /\ \A t \in l.txs : \A u \in l.inputs[t] : Serves(l, t) \subseteq Serves(l, u)

VARIABLES
    layout, faults, budget,   \* the environment
    pool,          \* transactions in the mempool
    depth,         \* confirmations, up to CSV + 1
    void,          \* transactions that can never confirm
    pkg,           \* the package
    pc,            \* where the executor is
    i,             \* the step it is at
    k,             \* the sweep it is at
    dead,          \* VTXOs whose branch failed
    done,          \* sweeps that are through, one way or the other
    seen           \* history: transactions this run knows to be confirmed

env == <<layout, faults>>
chain == <<pool, depth, void>>
run == <<i, k, dead, done, seen>>
vars == <<env, budget, chain, pkg, pc, run>>

Txs == layout.txs \cup {Splitter} \cup {Sweep(v) : v \in Vtxos(layout)}
IsSweep(t) == t < 0
Inputs(t) ==
    IF t = Splitter THEN {} ELSE IF IsSweep(t) THEN {layout.leaf[-t]} ELSE layout.inputs[t]
Confirmed(t) == depth[t] > 0
Cap == CSV + 1

\* A fault is taken from the budget.
Fault(name) == name \in faults /\ budget > 0 /\ budget' = budget - 1
NoFault == UNCHANGED budget

NoPackage == [steps |-> <<>>, sweeps |-> <<>>, onchain |-> {}]

Init ==
    /\ layout \in Layouts /\ faults \in FaultSets /\ budget = MaxFaults
    /\ pool = {} /\ depth = [t \in Txs |-> 0] /\ void = {}
    /\ pkg = NoPackage
    /\ pc = "unprepared"
    /\ i = 1 /\ k = 1 /\ dead = {} /\ done = {} /\ seen = {}

-----------------------------------------------------------------------------
(* Preparation.                                                             *)

\* A VTXO whose sweep cannot be signed, or is not worth its fee, is left out.
\* The splitter is broadcast at once, so that its coins are reserved.
Prepare ==
    /\ pc = "unprepared"
    /\ \E active \in SUBSET Vtxos(layout), funded \in BOOLEAN :
           LET onchain == {t \in layout.txs : Confirmed(t)}
               plan == Plan(layout, onchain, active, funded)
           IN  IF Plannable(layout, onchain) /\ (plan.steps # <<>> \/ plan.sweeps # <<>>)
               THEN /\ pkg' = plan
                    /\ pool' = IF plan.steps # <<>> /\ funded THEN pool \cup {Splitter} ELSE pool
                    /\ pc' = "idle"
               ELSE pc' = "refused" /\ UNCHANGED <<pkg, pool>>
    /\ UNCHANGED <<env, budget, depth, void, run>>

-----------------------------------------------------------------------------
(* What the explorer says.                                                  *)

\* A status is "none" as well when the explorer does not answer.
Status(t) == IF Confirmed(t) THEN "confirmed" ELSE IF t \in pool THEN "pool" ELSE "none"

Reads(t, s) ==
    \/ s = Status(t) /\ NoFault
    \/ s = "none" /\ Status(t) # "none" /\ Fault("read")

\* The coins a transaction spends are there.  A virtual transaction goes with a
\* fee child, which may not have a second unconfirmed parent; a sweep waits for
\* its delay.
Spendable(t, kind) ==
    /\ t \notin void
    /\ \A u \in Inputs(t) : Confirmed(u)
    /\ kind = "package" => Confirmed(Splitter)
    /\ kind = "sweep" => \A u \in Inputs(t) : depth[u] >= CSV

\* What a broadcast may come back with.  Explorers differ on a transaction the
\* mempool has already.
Accepts(t, kind) ==
    ~Confirmed(t) /\ (t \in pool \/ Spendable(t, kind))
Refuses(t, kind) ==
    t \in pool \/ Confirmed(t) \/ ~Spendable(t, kind)

-----------------------------------------------------------------------------
(* The executor.                                                            *)

Active == ToSet(pkg.sweeps)
Step == pkg.steps[i]

\* Mutant: what failed once is not tried again by the next run.
StartKeeping ==
    /\ pc = "idle"
    /\ pc' = "step" /\ i' = 1 /\ k' = 1 /\ done' = {} /\ seen' = {}
    /\ UNCHANGED <<env, budget, chain, pkg, dead>>

Start ==
    /\ pc = "idle"
    /\ pc' = "step" /\ i' = 1 /\ k' = 1 /\ dead' = {} /\ done' = {} /\ seen' = {}
    /\ UNCHANGED <<env, budget, chain, pkg>>

\* The next step: its branch is dead, or its transaction is there, or on its
\* way, or is to be sent.
CheckStep ==
    /\ pc = "step" /\ i <= Len(pkg.steps)
    /\ \/ /\ Step.kind # "broadcast" /\ Step.forVtxos \subseteq dead
          /\ i' = i + 1 /\ NoFault
          /\ UNCHANGED <<pc, seen>>
       \/ /\ Step.kind = "broadcast" \/ ~(Step.forVtxos \subseteq dead)
          /\ \E s \in {"confirmed", "pool", "none"} :
                 /\ Reads(Step.tx, s)
                 /\ pc' = IF s = "confirmed" THEN "step" ELSE IF s = "pool" THEN "wait" ELSE "send"
                 /\ i' = IF s = "confirmed" THEN i + 1 ELSE i
                 /\ seen' = IF s = "confirmed" THEN seen \cup {Step.tx} ELSE seen
    /\ UNCHANGED <<env, chain, pkg, k, dead, done>>

\* The branches that fail with the step; with the splitter, all that it funds.
Branches ==
    IF Step.kind = "broadcast"
    THEN UNION {pkg.steps[j].forVtxos : j \in {n \in DOMAIN pkg.steps :
                                                   pkg.steps[n].kind = "package"}}
    ELSE Step.forVtxos

Send ==
    /\ pc = "send"
    /\ \/ /\ Accepts(Step.tx, Step.kind) /\ NoFault
          /\ pool' = pool \cup {Step.tx}
          /\ pc' = "wait"
          /\ UNCHANGED <<i, dead>>
       \/ /\ \/ Refuses(Step.tx, Step.kind) /\ NoFault
             \/ Step.kind = "bump" /\ Fault("fees")
          /\ dead' = dead \cup Branches
          /\ pc' = "step" /\ i' = i + 1
          /\ UNCHANGED pool
    /\ UNCHANGED <<env, depth, void, pkg, k, done, seen>>

\* waitConfirmed polls for as long as it takes.
WaitConfirmed ==
    /\ pc = "wait" /\ Confirmed(Step.tx)
    /\ pc' = "step" /\ i' = i + 1
    /\ seen' = seen \cup {Step.tx}
    /\ UNCHANGED <<env, budget, chain, pkg, k, dead, done>>

BeginSweeps ==
    /\ pc = "step" /\ i > Len(pkg.steps)
    /\ pc' = "poll"
    /\ UNCHANGED <<env, budget, chain, pkg, run>>

\* The sweeps still to be done.
Pending == Active \ (dead \cup done)

V == pkg.sweeps[k]

\* One round over the sweeps ends, and with it the run when nothing is left.
EndRound ==
    /\ pc = "poll" /\ k > Len(pkg.sweeps)
    /\ k' = 1
    /\ pc' = IF Pending = {} THEN "over" ELSE "poll"
    /\ UNCHANGED <<env, budget, chain, pkg, i, dead, done, seen>>

PollSweep ==
    /\ pc = "poll" /\ k <= Len(pkg.sweeps)
    /\ IF V \notin Pending
       THEN k' = k + 1 /\ NoFault /\ UNCHANGED <<pc, done>>
       ELSE \E s \in {"confirmed", "pool", "none"} :
                /\ Reads(Sweep(V), s)
                /\ done' = IF s = "confirmed" THEN done \cup {V} ELSE done
                /\ k' = IF s = "none" THEN k ELSE k + 1
                /\ pc' = IF s = "none" THEN "look" ELSE "poll"
    /\ UNCHANGED <<env, chain, pkg, i, dead, seen>>

\* A delay in blocks has passed one block after consensus says so.  One in
\* seconds depends on the clock of the explorer, which may be ahead.
Mature(d) ==
    {m \in BOOLEAN : (m => d >= CSV - 1) /\ (~m => d <= CSV)}

\* The tip is read outside of any try block.
LookDependency ==
    /\ pc = "look"
    /\ \E s \in {"confirmed", "pool", "none"} :
           /\ Reads(layout.leaf[V], s)
           /\ IF s # "confirmed" THEN pc' = "poll" /\ k' = k + 1
              ELSE \E m \in Mature(depth[layout.leaf[V]]) :
                       /\ pc' = IF m THEN "sweep" ELSE "poll"
                       /\ k' = IF m THEN k ELSE k + 1
    /\ UNCHANGED <<env, chain, pkg, i, dead, done, seen>>

TipUnknown ==
    /\ pc = "look" /\ Fault("read")
    /\ pc' = "over"
    /\ UNCHANGED <<env, chain, pkg, run>>

\* Mutant: a sweep that comes too early is taken for a failed one.
NeverEarly(t) == FALSE

\* non-BIP68-final, non-final, premature.
TooEarly(t) ==
    t \notin void /\ \A u \in Inputs(t) : Confirmed(u) /\ depth[u] < CSV

SendSweep ==
    /\ pc = "sweep"
    /\ \/ /\ Accepts(Sweep(V), "sweep")
          /\ pool' = pool \cup {Sweep(V)}
          /\ UNCHANGED done
       \/ /\ TooEarly(Sweep(V))
          /\ UNCHANGED <<pool, done>>
       \/ /\ ~TooEarly(Sweep(V)) /\ Refuses(Sweep(V), "sweep")
          /\ done' = done \cup {V}
          /\ UNCHANGED pool
    /\ pc' = "poll" /\ k' = k + 1
    /\ UNCHANGED <<env, budget, depth, void, pkg, i, dead, seen>>

\* The process dies, or the caller aborts.
Kill ==
    /\ pc \in {"step", "send", "wait", "poll", "look", "sweep"}
    /\ Fault("kill")
    /\ pc' = "idle"
    /\ UNCHANGED <<env, chain, pkg, run>>

Unknown(t) == ~Confirmed(t) /\ t \notin pool

\* The run waits for a transaction that nobody will send.
Stuck ==
    \/ pc = "wait" /\ Unknown(Step.tx)
    \/ pc \in {"poll", "look", "sweep"} /\ \E v \in Pending : Unknown(layout.leaf[v])

\* The user runs the package again: a run that is over has left something, or
\* is stuck.
Rerun ==
    /\ Stuck \/ (pc = "over" /\ \E v \in Active : ~Confirmed(Sweep(v)))
    /\ pc' = "idle"
    /\ UNCHANGED <<env, budget, chain, pkg, run>>

-----------------------------------------------------------------------------
(* The chain.                                                               *)

\* A block takes some of what the mempool has, parents first.
Mine(S) ==
    /\ \A t \in S : \A u \in Inputs(t) : Confirmed(u) \/ u \in S
    /\ pool' = pool \ S
    /\ depth' = [t \in Txs |-> IF t \in S THEN 1
                               ELSE IF Confirmed(t) /\ depth[t] < Cap THEN depth[t] + 1
                               ELSE depth[t]]
    /\ UNCHANGED <<env, budget, void, pkg, pc, run>>

MineSome == \E S \in SUBSET pool : Mine(S)
MineAll == Mine(pool)

\* Transactions nothing in the mempool needs.
Loose(t) == \A u \in pool : t \notin Inputs(u)

Evict ==
    /\ Fault("evict")
    /\ \E t \in pool : Loose(t) /\ pool' = pool \ {t}
    /\ UNCHANGED <<env, depth, void, pkg, pc, run>>

\* The operator sweeps an expired batch, a counterparty takes its path, the
\* splitter's coins are spent.
Conflict ==
    /\ Fault("conflict")
    /\ \E t \in Txs :
           /\ ~Confirmed(t) /\ Loose(t) /\ \A u \in Inputs(t) : Confirmed(u)
           /\ void' = void \cup {t}
           /\ pool' = pool \ {t}
    /\ UNCHANGED <<env, depth, pkg, pc, run>>

\* Sweeps that are no longer final leave the mempool.
Reorg ==
    /\ Fault("reorg")
    /\ \E t \in Txs : depth[t] = 1
    /\ depth' = [t \in Txs |-> IF depth[t] \in {0, Cap} THEN depth[t] ELSE depth[t] - 1]
    /\ pool' = {t \in pool \cup {u \in Txs : depth[u] = 1} :
                    IsSweep(t) => depth'[layout.leaf[-t]] >= CSV}
    /\ UNCHANGED <<env, void, pkg, pc, run>>

OthersUnroll ==
    /\ "others" \in faults
    /\ \E t \in layout.txs :
           /\ t \notin pool /\ ~Confirmed(t) /\ Spendable(t, "bump")
           /\ pool' = pool \cup {t}
    /\ UNCHANGED <<env, budget, depth, void, pkg, pc, run>>

-----------------------------------------------------------------------------
Execute ==
    \/ Start \/ CheckStep \/ Send \/ WaitConfirmed \/ BeginSweeps
    \/ EndRound \/ PollSweep \/ LookDependency \/ SendSweep

Environment == MineSome \/ Evict \/ Conflict \/ Reorg \/ OthersUnroll

OneRun == Prepare \/ Execute \/ TipUnknown \/ Kill \/ Environment

Next == OneRun \/ Rerun

Spec == Init /\ [][Next]_vars

\* Polling goes on, blocks are found and empty the mempool in the end, and the
\* user runs again what did not get through.
Progress == WF_vars(Execute) /\ WF_vars(MineAll)
FairSpec == Spec /\ Progress /\ WF_vars(Rerun)

\* The same without a second run.
SingleRun == Init /\ [][OneRun]_vars /\ Progress

-----------------------------------------------------------------------------

\* What a transaction of the package needs on the chain first.
Needs(s) == Inputs(s.tx) \cup (IF s.kind = "package" THEN {Splitter} ELSE {})

\* The package is whole and in order: a step for every transaction of every
\* VTXO in it that was not confirmed, each once, after all it needs, and a step
\* serves what the steps that need it serve.
PlanInOrder ==
    LET at == DOMAIN pkg.steps
    IN  /\ \A m, n \in at : pkg.steps[m].tx = pkg.steps[n].tx => m = n
        /\ \A n \in at : \A t \in Needs(pkg.steps[n]) \ pkg.onchain :
               \E m \in 1 .. n - 1 :
                   /\ pkg.steps[m].tx = t
                   /\ t # Splitter => pkg.steps[n].forVtxos \subseteq pkg.steps[m].forVtxos
        /\ \A v \in Active : \A t \in layout.chain[v] \ pkg.onchain :
               \E n \in at : pkg.steps[n].tx = t /\ v \in pkg.steps[n].forVtxos

\* A transaction somebody else has spent the inputs of.
Lost(v) == Sweep(v) \in void \/ \E t \in layout.chain[v] \cup {Splitter} : t \in void

\* When nobody interferes, a branch or a sweep is given up only when it can no
\* longer get through; not for the failure of another branch, and not for
\* coming early.
GivenUpForCause ==
    faults \cap {"reorg", "others", "read", "fees"} = {} =>
        \A v \in dead \cup done : Lost(v) \/ Confirmed(Sweep(v))

\* A transaction the package was prepared without is gone.
Missing(v) == \E t \in layout.chain[v] \cap pkg.onchain : Unknown(t)

\* Run again and again, the package brings every VTXO home that nobody takes.
Recovered ==
    \A v \in UNION {Vtxos(l) : l \in Layouts} :
        v \in Active ~> (v \in Vtxos(layout) => Lost(v) \/ Missing(v) \/ Confirmed(Sweep(v)))

\* "one failed branch never blocks the others": not so when a transaction leaves the
\* mempool for good, which waitConfirmed does not notice; no run checks it.
BranchesIsolated ==
    \A v \in UNION {Vtxos(l) : l \in Layouts} :
        v \in Active ~> (v \in Vtxos(layout) => Lost(v) \/ Confirmed(Sweep(v)))
=============================================================================

---------------------------- MODULE SwapManager ----------------------------
(***************************************************************************)
(* The manager of Boltz swaps, seen by one swap: it hears of the swap's     *)
(* status, and claims, refunds or co-signs by itself.                       *)
(*                                                                         *)
(* Several calls of the manager are under way at a time, each suspended at  *)
(* an await.  A step of a task runs from one await to the next.  A task     *)
(* holds the copy of the swap it began with: stop() and start() in one      *)
(* process load another copy, and leave the tasks of the first alone.       *)
(***************************************************************************)
EXTENDS Integers, FiniteSets

CONSTANTS
    Kinds,         \* the kinds of swap to consider
    Tasks,         \* calls that can be under way at a time
    MaxStarts,     \* bound: starts of the manager in one process
    Threshold,     \* answers "unknown swap" that end the monitoring
    MaxFaults,     \* bound: faults in a behaviour
    FaultSets      \* the environments to consider: sets of FaultNames

FaultNames ==
    {"crash",      \* the process dies
     "stop",       \* the manager is stopped, and started again
     "polls",      \* not a fault: the runtime has no WebSocket
     "slow",       \* not a fault: Boltz takes its time to answer a poll
     "fail",       \* a call of an action fails
     "immature",   \* the server takes the locktime for not reached
     "advance",    \* Boltz moves on from one failure to another
     "unknown",    \* Boltz does not know the swap
     "early"}      \* Boltz asks for a signature before the claim

ASSUME SwapAssumption ==
    /\ Tasks \subseteq Nat
    /\ Kinds \subseteq {"submarine", "reverse", "arkToBtc", "btcToArk"}
    /\ MaxStarts \in Nat \ {0} /\ Threshold \in Nat \ {0} /\ MaxFaults \in Nat
    /\ FaultSets \subseteq SUBSET FaultNames

VARIABLES
    kind, faults, budget,      \* the environment
    boltz,         \* the status Boltz gives
    ours,          \* the lockup we funded with Ark coins
    theirs,        \* the lockup that is for us
    timeout,       \* the locktime of our refund is reached
    row,           \* the swap in the repository
    copy,          \* the objects loaded by the starts of this process
    gen,           \* starts of this process
    running,
    mon,           \* the copy in monitoredSwaps, 0 when there is none
    timer,         \* a refund retry is armed
    misses,        \* consecutive answers "unknown swap"
    inProgress,    \* the swap is in swapsInProgress
    task,          \* the calls under way
    answer,        \* the poll under way: its copy and what it will return
    link,          \* "off", "connecting" or "up"
    deaf,          \* isReconnecting or webSocketUnavailable
    cosigned,      \* Boltz got our signature
    slipped        \* history: a call dropped the swap from under another one

env == <<kind, faults>>
htlc == <<ours, theirs, timeout>>
conn == <<link, deaf>>
hist == <<cosigned, slipped>>
life == <<gen, running>>
vars == <<env, budget, boltz, htlc, row, copy, life, mon, timer, misses,
          inProgress, task, answer, conn, hist>>

Idle == [pc |-> "idle"]
None == [status |-> "none"]
Swap(s, retry, txid) == [status |-> s, retry |-> retry, txid |-> txid]

\* A status that is "created" stands for all that ask nothing of us.
Statuses ==
    {"created", "mempool", "confirmed", "pending", "lockupFailed", "failedToPay",
     "settled", "expired", "refunded"}

IsChain == kind \in {"arkToBtc", "btcToArk"}
Claimable(s) == kind # "submarine" /\ s \in {"mempool", "confirmed"}
Refundable(s) ==
    \/ kind = "submarine" /\ s \in {"failedToPay", "lockupFailed", "expired"}
    \/ kind = "arkToBtc" /\ s = "expired"
Signable(s) == kind = "btcToArk" /\ s = "pending"
Final(s) ==
    IF kind = "submarine" THEN s \in {"failedToPay", "settled", "expired"}
                          ELSE s \in {"settled", "expired", "refunded"}

Fault(name) == name \in faults /\ budget > 0 /\ budget' = budget - 1
NoFault == UNCHANGED budget
HasWebSocket == "polls" \notin faults

Init ==
    /\ kind \in Kinds /\ faults \in FaultSets /\ budget = MaxFaults
    /\ boltz = "created"
    /\ ours \in IF kind \in {"submarine", "arkToBtc"} THEN {"none", "locked"} ELSE {"none"}
    /\ theirs = "none" /\ timeout = FALSE
    /\ row = Swap("created", FALSE, FALSE)
    /\ copy = [g \in 1..MaxStarts |-> row] /\ gen = 0 /\ running = FALSE
    /\ mon = 0 /\ timer = FALSE /\ misses = 0 /\ inProgress = FALSE
    /\ task = [t \in Tasks |-> Idle] /\ answer = None
    /\ link = "off" /\ deaf = FALSE /\ cosigned = FALSE /\ slipped = FALSE

-----------------------------------------------------------------------------
(* Boltz and the clock.                                                     *)

manager == <<row, copy, life, mon, timer, misses, inProgress, task, answer, conn, hist>>

\* Boltz locks its side when ours is there; with BTC on our side it is.
BoltzLocks ==
    /\ boltz = "created" /\ NoFault
    /\ \/ kind = "submarine" /\ ours = "locked" /\ UNCHANGED theirs
       \/ kind = "arkToBtc" /\ ours = "locked" /\ theirs' = "locked"
       \/ kind \in {"reverse", "btcToArk"} /\ theirs' = "locked"
    /\ boltz' = "mempool"
    /\ UNCHANGED <<env, ours, timeout, manager>>

BoltzConfirms ==
    /\ boltz = "mempool" /\ kind # "submarine" /\ NoFault
    /\ boltz' = "confirmed"
    /\ UNCHANGED <<env, htlc, manager>>

\* It pays the invoice and takes our lockup, or takes it with the preimage our
\* claim disclosed; with BTC on our side it asks for a signature first.
BoltzSettles ==
    /\ ~Final(boltz) /\ NoFault
    /\ \/ kind = "submarine" /\ boltz = "mempool" /\ ours = "locked" /\ ours' = "taken" /\ boltz' = "settled"
       \/ kind = "arkToBtc" /\ theirs = "claimed" /\ ours = "locked" /\ ours' = "taken" /\ boltz' = "settled"
       \/ kind = "reverse" /\ theirs = "claimed" /\ boltz' = "settled" /\ UNCHANGED ours
       \/ /\ kind = "btcToArk" /\ theirs = "claimed" /\ UNCHANGED ours
          /\ boltz' = IF boltz = "pending" THEN "settled" ELSE "pending"
    /\ UNCHANGED <<env, theirs, timeout, manager>>

BoltzFails ==
    /\ kind = "submarine" /\ boltz = "mempool" /\ NoFault
    /\ boltz' \in {"failedToPay", "lockupFailed"}
    /\ UNCHANGED <<env, htlc, manager>>

BoltzExpires ==
    /\ theirs # "claimed"
    /\ \/ boltz \in {"created", "mempool", "confirmed", "pending"} /\ NoFault
       \/ boltz \in {"failedToPay", "lockupFailed"} /\ Fault("advance")
    /\ boltz' = "expired"
    /\ UNCHANGED <<env, htlc, manager>>

BoltzReclaims ==
    /\ boltz = "expired" /\ theirs = "locked" /\ theirs' = "reclaimed"
    /\ \/ UNCHANGED boltz /\ NoFault
       \/ boltz' = "refunded" /\ Fault("advance")
    /\ UNCHANGED <<env, ours, timeout, manager>>

BoltzAsksEarly ==
    /\ kind = "btcToArk" /\ theirs # "claimed" /\ boltz # "pending" /\ ~Final(boltz) /\ Fault("early")
    /\ boltz' = "pending"
    /\ UNCHANGED <<env, htlc, manager>>

Timeout ==
    /\ ~timeout /\ timeout' = TRUE /\ NoFault
    /\ UNCHANGED <<env, boltz, ours, theirs, manager>>

-----------------------------------------------------------------------------
(* A task.                                                                  *)

Copy(t) == copy[task[t].g]
Set(g, field, v) == copy' = [copy EXCEPT ![g][field] = v]

\* Mutant: a final status drops the swap whatever is armed.
CloseAlways(g, from, ran, armed) ==
    mon' = IF Final(copy'[g].status) /\ from # "resume" THEN 0 ELSE mon

\* Mutant: a retry that is through leaves the swap to the next status.
CloseOnUpdate(g, from, ran, armed) ==
    mon' = IF Final(copy'[g].status) /\ ~armed /\ from = "update" THEN 0 ELSE mon

\* A call ends: on a final status it drops the swap, unless a retry is armed,
\* which then owns the swap.  A retry drops it only when it ran, and start()
\* never does.
Close(g, from, ran, armed) ==
    mon' = IF /\ Final(copy'[g].status) /\ ~armed
              /\ (from = "update") \/ (from = "timer" /\ ran)
           THEN 0 ELSE mon

\* The call returns, and gives the swap free.
Leave(t) ==
    /\ task' = [task EXCEPT ![t] = Idle]
    /\ inProgress' = FALSE
    /\ Close(task[t].g, task[t].from, TRUE, timer')

\* The calls are alike: the first place that is free is taken.
Free(t) == task[t] = Idle /\ \A u \in Tasks : u < t => task[u] # Idle

Goto(t, pc) ==
    /\ task' = [task EXCEPT ![t].pc = pc]
    /\ UNCHANGED <<mon, inProgress>>

\* What a status asks for.
Wanted(s) ==
    IF Claimable(s) THEN "claim" ELSE IF Refundable(s) THEN "refund"
    ELSE IF Signable(s) THEN "sign" ELSE "nothing"

\* executeAutonomousAction, up to its first await.
Act(t, g, from) ==
    LET want == Wanted(copy'[g].status)
    IN  IF inProgress \/ want = "nothing"
        THEN /\ task' = [task EXCEPT ![t] = Idle]
             /\ Close(g, from, ~inProgress, timer')
             /\ slipped' = (slipped \/ (inProgress /\ mon # mon'))
             /\ UNCHANGED inProgress
        ELSE /\ task' = [task EXCEPT ![t] = [pc |-> want, g |-> g, from |-> from]]
             /\ inProgress' = TRUE
             /\ UNCHANGED <<mon, slipped>>

\* A status comes in, for the copy g: it is noted, saved and acted upon.
Update(t, g, s) ==
    /\ Free(t)
    /\ Set(g, "status", s)
    /\ task' = [task EXCEPT ![t] = [pc |-> "save", g |-> g, from |-> "update"]]
    /\ UNCHANGED mon

Save(t) ==
    /\ task[t].pc = "save"
    /\ row' = Copy(t)
    /\ UNCHANGED <<copy, timer>>
    /\ Act(t, task[t].g, "update")
    /\ UNCHANGED <<env, budget, boltz, htlc, life, misses, answer, conn, cosigned>>

\* For BTC, Boltz must sign.
CanClaim == theirs = "locked" /\ (kind = "arkToBtc" => ~Final(boltz))

\* A claim that fails is not tried again by itself.
Claim(t) ==
    /\ task[t].pc = "claim"
    /\ UNCHANGED <<copy, timer>>
    /\ \/ /\ CanClaim /\ theirs' = "claimed" /\ NoFault
          /\ Goto(t, IF kind = "arkToBtc" THEN "told" ELSE "record")
       \/ ~CanClaim /\ UNCHANGED theirs /\ Leave(t) /\ NoFault
       \/ CanClaim /\ UNCHANGED theirs /\ Leave(t) /\ Fault("fail")
    /\ UNCHANGED <<env, boltz, ours, timeout, row, life, misses, answer, conn, hist>>

\* The claim writes what Boltz says now: for a chain swap into the stored
\* record, for a reverse swap over it.
Record(t) ==
    /\ task[t].pc = "record"
    /\ UNCHANGED <<copy, timer>>
    /\ \/ /\ IsChain /\ NoFault
          /\ row' = [row EXCEPT !.status = boltz, !.txid = TRUE]
          /\ Goto(t, "told")
       \/ /\ ~IsChain /\ NoFault
          /\ row' = [Copy(t) EXCEPT !.status = boltz]
          /\ Leave(t)
       \/ Leave(t) /\ UNCHANGED row /\ Fault("fail")
    /\ UNCHANGED <<env, boltz, htlc, life, misses, answer, conn, hist>>

\* The claim's transaction is noted in the copy; a request to sign that came
\* during the claim is served now.
Told(t) ==
    /\ task[t].pc = "told"
    /\ Set(task[t].g, "txid", TRUE)
    /\ UNCHANGED timer
    /\ IF Signable(Copy(t).status) THEN Goto(t, "sign") ELSE Leave(t)
    /\ UNCHANGED <<env, budget, boltz, htlc, row, life, misses, answer, conn, hist>>

\* Mutant: any spend does.
ClaimSideSpent(t) == Copy(t).txid \/ row.txid \/ theirs \in {"claimed", "reclaimed"}

\* A spend counts as ours when it paid us.
ClaimSideClaimed(t) == Copy(t).txid \/ row.txid \/ theirs = "claimed"

Sign(t) ==
    /\ task[t].pc = "sign"
    /\ UNCHANGED <<copy, timer>>
    /\ Leave(t)
    /\ \/ cosigned' = (cosigned \/ ClaimSideClaimed(t)) /\ NoFault
       \/ UNCHANGED cosigned /\ Fault("fail")
    /\ UNCHANGED <<env, boltz, htlc, row, life, misses, answer, conn, slipped>>

\* After the locktime the coins are ours alone to take; before it Boltz must
\* sign, and what it will not sign is deferred.  What is not there, or spent,
\* throws.
Refund(t) ==
    /\ task[t].pc = "refund"
    /\ \/ ours = "locked" /\ ours' = "refunded" /\ Goto(t, "swept") /\ NoFault
       \/ ours = "locked" /\ ~timeout /\ UNCHANGED ours /\ Goto(t, "deferred") /\ NoFault
       \/ ours = "locked" /\ timeout /\ UNCHANGED ours /\ Goto(t, "deferred") /\ Fault("immature")
       \/ ours # "locked" /\ UNCHANGED ours /\ Goto(t, "thrown") /\ NoFault
       \/ ours = "locked" /\ UNCHANGED ours /\ Goto(t, "thrown") /\ Fault("fail")
    /\ UNCHANGED <<env, boltz, theirs, timeout, row, copy, life, timer, misses, answer, conn, hist>>

\* The outcome is saved; of a chain swap, with the status Boltz gives now.
Noted(t) ==
    IF IsChain
    THEN row' = [row EXCEPT !.status = boltz]
    ELSE row' = Copy(t)
NotedStatus(t) == IF IsChain THEN boltz ELSE Copy(t).status

\* clearRefundRetry, up to its save.
Forget(t, status) ==
    /\ copy' = [copy EXCEPT ![task[t].g] = Swap(status, FALSE, Copy(t).txid)]
    /\ UNCHANGED timer
    /\ IF Copy(t).retry THEN Goto(t, "write") ELSE Leave(t)

\* scheduleRefundRetry, up to its save.
Remember(t, status) ==
    /\ copy' = [copy EXCEPT ![task[t].g] = Swap(status, TRUE, Copy(t).txid)]
    /\ UNCHANGED timer
    /\ Goto(t, "keep")

\* What a refund leaves deferred is to be retried.  A refund that throws is
\* retried for a chain swap only.
Outcome(t) ==
    /\ \/ task[t].pc = "swept" /\ Noted(t) /\ Forget(t, NotedStatus(t)) /\ NoFault
       \/ task[t].pc = "deferred" /\ Noted(t) /\ Remember(t, NotedStatus(t)) /\ NoFault
       \/ /\ task[t].pc \in {"swept", "deferred"} /\ IsChain /\ UNCHANGED row
          /\ Remember(t, Copy(t).status) /\ Fault("fail")
       \/ /\ task[t].pc = "thrown" /\ IsChain /\ UNCHANGED row
          /\ Remember(t, Copy(t).status) /\ NoFault
       \/ /\ task[t].pc = "thrown" /\ ~IsChain /\ UNCHANGED row
          /\ Forget(t, Copy(t).status) /\ NoFault
    /\ UNCHANGED <<env, boltz, htlc, life, misses, answer, conn, hist>>

Write(t) ==
    /\ task[t].pc = "write"
    /\ row' = Copy(t)
    /\ UNCHANGED <<copy, timer>>
    /\ Leave(t)
    /\ UNCHANGED <<env, budget, boltz, htlc, life, misses, answer, conn, hist>>

\* The retry is saved first, then armed.
Keep(t) ==
    /\ task[t].pc = "keep"
    /\ row' = Copy(t)
    /\ timer' = TRUE
    /\ UNCHANGED copy
    /\ Leave(t)
    /\ UNCHANGED <<env, budget, boltz, htlc, life, misses, answer, conn, hist>>

\* The retry is due.
Fire(t) ==
    /\ timer /\ Free(t)
    /\ timer' = FALSE
    /\ UNCHANGED copy
    /\ IF running /\ mon # 0
       THEN Act(t, mon, "timer")
       ELSE UNCHANGED <<task, mon, inProgress, slipped>>
    /\ UNCHANGED <<env, budget, boltz, htlc, row, life, misses, answer, conn, cosigned>>

-----------------------------------------------------------------------------
(* How a status comes in.                                                   *)

\* A message of the WebSocket, for a swap that is monitored.
Hear(t) ==
    /\ running /\ link = "up" /\ HasWebSocket
    /\ mon # 0 /\ boltz # copy[mon].status
    /\ Update(t, mon, boltz)
    /\ misses' = 0
    /\ UNCHANGED <<env, budget, boltz, htlc, row, life, timer, inProgress, answer, conn, hist>>

\* Boltz does not know the swap: after enough such answers in a row it is given
\* up as expired, with no refund, unless a retry is armed.
NotFound(t, g) ==
    IF timer \/ misses + 1 < Threshold \/ mon = 0
    THEN /\ misses' = IF timer THEN misses ELSE IF misses + 1 < Threshold THEN misses + 1 ELSE 0
         /\ UNCHANGED <<copy, task, mon>>
    ELSE /\ misses' = 0 /\ mon' = 0
         /\ Set(g, "status", "expired")
         /\ task' = [task EXCEPT ![t] = [pc |-> "mark", g |-> g, from |-> "resume"]]

\* The answer of a poll, for the copy that was polled; nobody asks whether it
\* is monitored still.
Receive(t, g, s) ==
    /\ Free(t)
    /\ UNCHANGED inProgress
    /\ IF s = "unknown" THEN NotFound(t, g)
       ELSE /\ misses' = 0
            /\ IF s # copy[g].status
               THEN Update(t, g, s)
               ELSE UNCHANGED <<copy, task, mon>>

\* A swap with an armed retry is not polled.  Where Boltz is slow to answer the
\* rest goes on meanwhile.
Polled(s) ==
    /\ running /\ link = "up" /\ mon # 0 /\ ~timer /\ answer = None
    /\ \/ s = boltz /\ NoFault
       \/ s = "unknown" /\ Fault("unknown")

Poll(t) ==
    /\ "slow" \notin faults
    /\ \E s \in {boltz, "unknown"} : Polled(s) /\ Receive(t, mon, s)
    /\ UNCHANGED <<env, boltz, htlc, row, life, timer, answer, conn, hist>>

PollSlowly ==
    /\ "slow" \in faults
    /\ \E s \in {boltz, "unknown"} : Polled(s) /\ answer' = [g |-> mon, status |-> s]
    /\ UNCHANGED <<env, boltz, htlc, row, copy, life, mon, timer, misses, inProgress, task, conn, hist>>

Answer(t) ==
    /\ answer # None /\ answer' = None
    /\ Receive(t, answer.g, answer.status)
    /\ UNCHANGED <<env, budget, boltz, htlc, row, life, timer, conn, hist>>

Mark(t) ==
    /\ task[t].pc = "mark"
    /\ row' = Copy(t)
    /\ task' = [task EXCEPT ![t] = Idle]
    /\ UNCHANGED <<env, budget, boltz, htlc, copy, life, mon, timer, misses, inProgress, answer, conn, hist>>

-----------------------------------------------------------------------------
(* The manager's life.                                                      *)

\* Mutant: final is final.
ShouldMonitorActive(s) == ~Final(s.status)

ShouldMonitor(s) == ~Final(s.status) \/ s.retry

\* Mutant: nothing is resumed.
StartOnly(t) ==
    /\ ~running /\ gen < MaxStarts /\ Free(t)
    /\ running' = TRUE /\ gen' = gen + 1
    /\ copy' = [copy EXCEPT ![gen + 1] = row]
    /\ mon' = IF ShouldMonitor(row) THEN gen + 1 ELSE mon
    /\ timer' = (mon' # 0 /\ copy'[mon'].retry)
    /\ link' = IF deaf THEN "off" ELSE IF HasWebSocket THEN "connecting" ELSE "up"
    /\ deaf' = TRUE
    /\ UNCHANGED <<env, budget, boltz, htlc, row, misses, answer, hist, task, inProgress>>

\* The swaps are read and monitored, the link set up, a saved retry armed, and
\* what the status asks for is done.  A map that stop() left filled keeps the
\* copy it has when the new one is not to be monitored.
Start(t) ==
    /\ ~running /\ gen < MaxStarts /\ Free(t)
    /\ running' = TRUE /\ gen' = gen + 1
    /\ copy' = [copy EXCEPT ![gen + 1] = row]
    /\ LET m == IF ShouldMonitor(row) THEN gen + 1 ELSE mon
           armed == m # 0 /\ copy'[m].retry
       IN  /\ timer' = armed
           /\ IF m = 0 \/ armed \/ inProgress \/ Wanted(copy'[m].status) = "nothing"
              THEN UNCHANGED <<task, inProgress>>
              ELSE /\ task' = [task EXCEPT ![t] =
                                [pc |-> Wanted(copy'[m].status), g |-> m, from |-> "resume"]]
                   /\ inProgress' = TRUE
           /\ mon' = m
    /\ link' = IF deaf THEN "off" ELSE IF HasWebSocket THEN "connecting" ELSE "up"
    /\ deaf' = TRUE
    /\ UNCHANGED <<env, budget, boltz, htlc, row, misses, answer, hist>>

\* The socket opens, or its failure leads to polling.  What a stopped manager
\* was connecting to may fail in the next one's time.
Connect ==
    /\ running /\ HasWebSocket /\ deaf /\ link # "up"
    /\ link' = "up" /\ deaf' = FALSE
    /\ UNCHANGED <<env, budget, boltz, htlc, row, copy, life, mon, timer, misses, inProgress, task, answer, hist>>

\* Timers are cleared; what is in progress, monitored or connecting stays so.
Stop ==
    /\ running /\ gen < MaxStarts /\ Fault("stop")
    /\ running' = FALSE /\ timer' = FALSE /\ misses' = 0 /\ link' = "off"
    /\ UNCHANGED <<env, boltz, htlc, row, copy, gen, mon, inProgress, task, answer, deaf, hist>>

Crash ==
    /\ Fault("crash")
    /\ copy' = [g \in 1..MaxStarts |-> Swap("created", FALSE, FALSE)] /\ gen' = 0 /\ running' = FALSE
    /\ mon' = 0 /\ timer' = FALSE /\ misses' = 0 /\ inProgress' = FALSE
    /\ task' = [t \in Tasks |-> Idle] /\ answer' = None
    /\ link' = "off" /\ deaf' = FALSE /\ slipped' = FALSE
    /\ UNCHANGED <<env, boltz, htlc, row, cosigned>>

-----------------------------------------------------------------------------
Boltz ==
    \/ BoltzLocks \/ BoltzConfirms \/ BoltzSettles \/ BoltzFails \/ BoltzExpires
    \/ BoltzReclaims \/ BoltzAsksEarly

Step(t) ==
    \/ Save(t) \/ Claim(t) \/ Record(t) \/ Told(t) \/ Sign(t)
    \/ Refund(t) \/ Outcome(t) \/ Write(t) \/ Keep(t) \/ Mark(t)

Next ==
    \/ Boltz \/ Timeout \/ PollSlowly \/ Connect \/ Stop \/ Crash
    \/ \E t \in Tasks : Step(t) \/ Fire(t) \/ Hear(t) \/ Poll(t) \/ Answer(t) \/ Start(t)

Spec == Init /\ [][Next]_vars

\* The event loop comes round to every task, timer and answer; the manager is
\* started; time passes.  Boltz owes nothing.
Fairness ==
    /\ \A t \in Tasks : WF_vars(Step(t))
    /\ WF_vars(\E t \in Tasks : Fire(t)) /\ WF_vars(\E t \in Tasks : Answer(t))
    /\ WF_vars(\E t \in Tasks : Start(t))
    /\ WF_vars(\E t \in Tasks : Poll(t)) /\ WF_vars(PollSlowly) /\ WF_vars(link = "connecting" /\ Connect)
    /\ WF_vars(Timeout)

FairSpec == Spec /\ Fairness

-----------------------------------------------------------------------------
(* Properties.                                                              *)

Acting(t) == task[t].pc \notin {"idle", "save", "mark"}
Without(names) == faults \cap names = {}

SwapType == [status : Statuses, retry : BOOLEAN, txid : BOOLEAN]
Pcs == {"save", "claim", "record", "told", "sign", "refund", "swept", "deferred",
        "thrown", "write", "keep", "mark"}

\* The variables stay in their types, and swapsInProgress holds the swap just
\* while some call acts on it.
TypeOK ==
    /\ kind \in Kinds /\ faults \in FaultSets /\ budget \in 0..MaxFaults
    /\ boltz \in Statuses
    /\ ours \in {"none", "locked", "taken", "refunded"}
    /\ theirs \in {"none", "locked", "claimed", "reclaimed"}
    /\ row \in SwapType /\ copy \in [1..MaxStarts -> SwapType]
    /\ gen \in 0..MaxStarts /\ mon \in 0..gen /\ misses \in 0..(Threshold - 1)
    /\ task \in [Tasks -> {Idle} \cup
                    [pc : Pcs, g : 1..MaxStarts, from : {"update", "timer", "resume"}]]
    /\ link \in {"off", "connecting", "up"}
    /\ {timeout, running, timer, inProgress, deaf, cosigned, slipped} \subseteq BOOLEAN
    /\ inProgress = (\E t \in Tasks : Acting(t))

\* No two calls of the manager act on the swap at a time, not even across a
\* stop and a start (swapsInProgress in executeAutonomousAction).
SingleAction == \A t, u \in Tasks : Acting(t) /\ Acting(u) => t = u

\* Boltz gets our signature for its own claim only when we have ours
\* (assertClaimSideClaimed), whatever it says the status is.
CosignAfterClaim == cosigned => theirs = "claimed"

\* A swap whose refund is due is not dropped with the coins still locked: but
\* for a submarine refund that threw, another call under way, and a swap Boltz
\* has forgotten (finalizeMonitoredSwap and its callers).
DropsNoCoins ==
    [][(Without({"stop"}) /\ mon # 0 /\ running /\ mon' = 0 /\ running' /\ Refundable(copy'[mon].status))
           => \/ ours # "locked"
              \/ kind = "submarine" /\ \E t \in Tasks : task[t].pc \in {"thrown", "write"}
              \/ kind = "arkToBtc" /\ \E t \in Tasks : task[t].pc \in {"claim", "told"}
              \/ \E t \in Tasks : task'[t] # Idle]_vars

\* What is there to be claimed is claimed while Boltz says so, restarts or not
\* (handleSwapStatusUpdate, resumeActionableSwaps).
ClaimDone ==
    Without({"fail", "stop", "unknown"}) =>
        ((Claimable(boltz) /\ theirs = "locked") ~> ~(Claimable(boltz) /\ theirs = "locked"))

\* A deferred refund that was saved is carried out in the end, restarts or not,
\* unless another call drops the swap from under it
\* (resumePersistedRefundRetries, armRefundRetryTimer).
RefundDone ==
    Without({"fail", "stop", "unknown", "advance", "slow"}) =>
        ((row.retry /\ (~running \/ (timer /\ mon # 0))) ~> (ours # "locked" \/ slipped))

\* The manager lets go of a swap that is over; but for a chain swap with Ark
\* coins of ours, whose refund is retried even when it is done
\* (handleSwapStatusUpdate, armRefundRetryTimer).
SwapEnds ==
    (kind # "arkToBtc" /\ Without({"fail", "stop"})) =>
        (Final(boltz) ~> (running /\ mon = 0))

\* A retry that is armed finds its swap when it fires: a call that was skipped
\* must not drop the swap, since the one in flight owns its outcome
\* (executeAutonomousAction's comment, armRefundRetryTimer).  It does, as the result is
\* ignored; no run checks it.
RetryFindsSwap == timer => mon # 0
=============================================================================

---------------------------- MODULE ContractSync ----------------------------
(***************************************************************************)
(* How the wallet's repository follows the coins of its contracts: the      *)
(* manager syncs windows of the indexer's history and keeps a cursor, the   *)
(* watcher holds a stream of changes and polls the repository.              *)
(*                                                                         *)
(* A coin has two versions, 1 live and 2 spent.  The indexer filters a      *)
(* window by the creation of the coins, so that the spend of an older coin  *)
(* is in no delta; only what fetches coins one by one or in full brings it. *)
(* Every call of the manager that is suspended at an await is a task: it    *)
(* holds the answer it got and saves it later, beside the others.  A        *)
(* request and its answer are one step, so a task's answer is the oldest it *)
(* can be.                                                                  *)
(***************************************************************************)
EXTENDS Integers, Sequences, FiniteSets

CONSTANTS
    Scripts, Coins, ScriptOf,
    Preconfirmed,  \* the coins the indexer calls pending while they are live
    Tasks,         \* calls that can be under way at a time; 0 is the pass's
    Lag,           \* the indexer shows a change after at most this long
    Overlap,       \* how far before the cursor a window begins
    Life,          \* the age at which a coin is near its expiry
    MaxFlight,     \* bound: how long a call can be under way
    MaxTime,       \* bound: the clock
    MaxFaults,     \* bound: faults in a behaviour
    FaultSets      \* the environments to consider: sets of FaultNames

FaultNames ==
    {"crash",      \* the process dies
     "fail",       \* a request fails in a way that can be retried
     "break",      \* the stream breaks
     "end",        \* the stream ends without an error
     "unsubscribed",  \* a subscription request fails
     "nosource",   \* not a fault: the runtime has no EventSource
     "owner",      \* not a fault: the owner changes what is watched
     "settles"}    \* not a fault: settlementConfig is on, and the VTXO manager polls

ASSUME SyncAssumption ==
    /\ Tasks \subseteq Nat /\ 0 \in Tasks /\ Life \in Nat
    /\ ScriptOf \in [Coins -> Scripts] /\ Preconfirmed \subseteq Coins
    /\ Lag \in Nat /\ Overlap \in Nat /\ MaxFlight \in Nat
    /\ MaxFlight <= Overlap + 1 /\ MaxFlight <= Overlap + Lag
    /\ MaxTime \in Nat \ {0} /\ MaxFaults \in Nat
    /\ FaultSets \subseteq SUBSET FaultNames

VARIABLES
    faults, budget, now,       \* the environment
    at,            \* when a version of a coin came to be, 0 when it did not
    rows,          \* the contract repository: the watch state of a contract
    held,          \* the wallet repository: the version of a coin, 0 for none
    pruned,        \* the coins whose exit data was dropped, and not captured since
    cursor,        \* lastSyncTime
    phase,         \* the process: "down", "boot" or "up"
    reg,           \* the watcher's contracts
    base,          \* its baseline: the coins it takes for live
    sub,           \* the scripts of its subscription, {} when there is none
    conn,          \* its connection
    wire,          \* the changes on the stream
    task,          \* the calls under way
    hydrated       \* history: the scripts fetched in full since they are watched

env == <<faults, now, at>>
repo == <<rows, held, pruned, cursor>>
link == <<sub, conn, wire>>
vars == <<env, budget, repo, phase, reg, base, link, task, hydrated>>

Versions == 0..2
WatchStates == {"none", "watched", "awaiting", "retained"}
Idle == [pc |-> "idle"]

Version(c) == IF at[c][2] > 0 THEN 2 ELSE IF at[c][1] > 0 THEN 1 ELSE 0
Watched == {s \in Scripts : reg[s] \in {"watched", "awaiting"}}
Streaming == conn = "connected"

\* computeSyncWindow: the delta begins a while before the cursor.
Window(cur) == IF cur > Overlap THEN cur - Overlap ELSE 0

\* cursorCutoff: frozen at the start of the request.
Cutoff(from) == IF from > Lag THEN from - Lag ELSE 0

\* advanceSyncCursor: never back.
Advance(cur, from) == IF Cutoff(from) > cur THEN Cutoff(from) ELSE cur

Fault(name) == name \in faults /\ budget > 0 /\ budget' = budget - 1
NoFault == UNCHANGED budget
Busy == {t \in Tasks : task[t] # Idle}
\* A new call takes the first slot that is free; the VTXO manager's pass has its own,
\* as there is one at a time (pollInProgress).
Pass == 0
Free(t) == t \notin Busy \cup {Pass} /\ \A u \in Tasks \ {Pass} : u < t => u \in Busy

Init ==
    /\ faults \in FaultSets /\ budget = MaxFaults /\ now = 1
    /\ at = [c \in Coins |-> [v \in 1..2 |-> 0]]
    /\ rows = [s \in Scripts |-> "none"] /\ held = [c \in Coins |-> 0]
    /\ pruned = {} /\ cursor = 0
    /\ phase = "down" /\ reg = [s \in Scripts |-> "none"] /\ base = {}
    /\ sub = {} /\ conn = "off" /\ wire = <<>>
    /\ task = [t \in Tasks |-> Idle]
    /\ hydrated = {}

-----------------------------------------------------------------------------
(* The indexer.                                                             *)

\* A change goes to the stream when it is open and carries the script.
Sent(c, v) ==
    IF Streaming /\ ScriptOf[c] \in sub
    THEN Append(wire, [coin |-> c, version |-> v]) ELSE wire

Change(c) ==
    /\ Version(c) < 2
    /\ at' = [at EXCEPT ![c][Version(c) + 1] = now]
    /\ wire' = Sent(c, Version(c) + 1)
    /\ UNCHANGED <<faults, now, budget, repo, phase, reg, base, sub, conn, task, hydrated>>

\* No call is under way for longer than MaxFlight.
Tick ==
    /\ now < MaxTime
    /\ \A t \in Busy : now - task[t].from < MaxFlight
    /\ now' = now + 1
    /\ UNCHANGED <<faults, at, budget, repo, phase, reg, base, link, task, hydrated>>

\* What the indexer says of a coin: its last change may not show yet.
Shown(c, late) == IF c \in late THEN Version(c) - 1 ELSE Version(c)
Fresh == {c \in Coins : Version(c) > 0 /\ now - at[c][Version(c)] < Lag}

\* The coins of the scripts that were created in the window, as they are now; 0 for
\* the rest.
Answer(scope, after, late) ==
    [c \in Coins |->
        IF ScriptOf[c] \in scope /\ Shown(c, late) > 0 /\ at[c][1] >= after
        THEN Shown(c, late) ELSE 0]

\* The answer for single coins, whenever they were created.
AnswerFor(C, late) == [c \in Coins |-> IF c \in C THEN Shown(c, late) ELSE 0]

-----------------------------------------------------------------------------
(* The manager's requests.                                                  *)

\* tryUpdateSubscription: scripts are added to a subscription, never taken
\* away; with none left it is given up, and the stream that is open for it
\* brings nothing any more.  The first script wakes a parked listener.
Resubscribe(w) ==
    /\ sub' = IF w = {} THEN {} ELSE sub \cup w
    /\ conn' = IF w = {} /\ Streaming THEN "deaf"
               ELSE IF sub = {} /\ w # {} /\ conn = "reconnecting" THEN "connecting"
               ELSE conn
    /\ UNCHANGED wire

WatchedIn(r) == {s \in Scripts : r[s] \in {"watched", "awaiting"}}

\* A subscription request that fails is not repeated.
UpdateSubscription(r) ==
    \/ NoFault /\ Resubscribe(WatchedIn(r))
    \/ Fault("unsubscribed") /\ UNCHANGED link

\* A call of kind "boot", "reset", "refresh", "event" or "pass": a sync of some scripts.
Call(t, kind, scope, after, gone) ==
    \E late \in SUBSET Fresh :
        task' = [task EXCEPT ![t] =
            [pc |-> "save", kind |-> kind, from |-> now,
             waiting |-> {s \in scope : rows[s] = "awaiting"},
             ans |-> Answer(scope, after, late), gone |-> gone]]

Adding(s, w, from, ok) ==
    [pc |-> "add", script |-> s, watch |-> w, from |-> from, ok |-> ok]

\* createContract: the row first, then its whole history; when that fails the
\* contract is watched all the same.
CreateContract(t, s) ==
    /\ phase = "up" /\ Free(t) /\ rows[s] = "none"
    /\ \E w \in IF "owner" \in faults THEN {"watched", "awaiting"} ELSE {"watched"} :
        /\ rows' = [rows EXCEPT ![s] = w]
        /\ \/ /\ NoFault
              /\ \E late \in SUBSET Fresh :
                    task' = [task EXCEPT ![t] =
                        [pc |-> "hydrate", script |-> s, watch |-> w, from |-> now,
                         ans |-> Answer({s}, 0, late)]]
           \/ /\ Fault("fail")
              /\ task' = [task EXCEPT ![t] = Adding(s, w, now, FALSE)]
    /\ UNCHANGED <<env, held, pruned, cursor, phase, reg, base, link, hydrated>>

\* Mutant: the delta of an event moves the cursor as well.
MovesCursorAlways(kind) == TRUE

\* mustUpdateCursor: the syncs over the watched set, in the cursor's window.
MovesCursor(kind) == kind \in {"boot", "reset", "refresh"}

\* What is left of a call once its rows are saved.
Rest(k) ==
    CASE k.kind \in {"boot", "reset"} -> [pc |-> "pending", kind |-> k.kind, from |-> k.from]
      [] k.kind = "pass" -> [pc |-> "expiring", from |-> k.from]
      [] k.kind = "event" /\ k.gone # {} -> [pc |-> "prune", from |-> k.from, gone |-> k.gone]
      [] OTHER -> Idle

\* Rows are written over what is there; exit data is captured for what is live.
Write(ans) ==
    /\ held' = [c \in Coins |-> IF ans[c] > 0 THEN ans[c] ELSE held[c]]
    /\ pruned' = pruned \ {c \in Coins : ans[c] = 1}

Hydrate(t) ==
    /\ task[t].pc = "hydrate"
    /\ LET k == task[t]
       IN  /\ Write(k.ans)
           /\ task' = [task EXCEPT ![t] = Adding(k.script, k.watch, k.from, TRUE)]
    /\ UNCHANGED <<env, budget, rows, cursor, phase, reg, base, link, hydrated>>

\* A contract that waits for funds and has some is no longer watched; whether
\* it waits was read when the call began.
Demoted(k, h) ==
    {s \in k.waiting : reg[s] # "none" /\ \E c \in Coins : ScriptOf[c] = s /\ h[c] > 0}

Save(t) ==
    /\ task[t].pc = "save"
    /\ LET k == task[t]
           done == Demoted(k, held')
       IN  /\ Write(k.ans)
           /\ cursor' = IF MovesCursor(k.kind) THEN Advance(cursor, k.from) ELSE cursor
           /\ rows' = [s \in Scripts |-> IF s \in done THEN "retained" ELSE rows[s]]
           /\ reg' = [s \in Scripts |-> IF s \in done THEN "retained" ELSE reg[s]]
           /\ hydrated' = hydrated \ done
           /\ IF done # {} /\ phase = "up" THEN UpdateSubscription(reg')
                                           ELSE NoFault /\ UNCHANGED link
           /\ task' = [task EXCEPT ![t] = Rest(k)]
    /\ UNCHANGED <<env, phase, base>>

\* What is left of a boot starts the watcher.
EndSync(t) ==
    /\ IF task[t].kind = "boot" THEN phase' = "up" /\ conn' = "connecting"
                                ELSE UNCHANGED <<phase, conn>>
    /\ task' = [task EXCEPT ![t] = Idle]

\* reconcilePendingFrontier: asks for the live preconfirmed coins of the watched set,
\* however old they are.
Pending(t) ==
    /\ task[t].pc = "pending"
    /\ \/ /\ NoFault
          /\ \E late \in SUBSET Fresh :
                LET live == {c \in Preconfirmed : ScriptOf[c] \in Watched /\ Shown(c, late) = 1}
                IN  task' = [task EXCEPT ![t] =
                        [pc |-> "frontier", kind |-> task[t].kind, from |-> task[t].from,
                         ans |-> AnswerFor(live, late)]]
          /\ UNCHANGED <<phase, conn>>
       \/ Fault("fail") /\ EndSync(t)
    /\ UNCHANGED <<env, repo, reg, base, sub, wire, hydrated>>

\* The answer is saved over what other calls have saved meanwhile.
Frontier(t) ==
    /\ task[t].pc = "frontier"
    /\ Write(task[t].ans)
    /\ EndSync(t)
    /\ UNCHANGED <<env, budget, rows, cursor, reg, base, sub, wire, hydrated>>

\* Exit data of the coins an event called spent is dropped.
Prune(t) ==
    /\ task[t].pc = "prune"
    /\ pruned' = pruned \cup task[t].gone
    /\ task' = [task EXCEPT ![t] = Idle]
    /\ UNCHANGED <<env, budget, rows, held, cursor, phase, reg, base, link, hydrated>>

\* getContractsWithVtxos: a sync of the contracts the caller asks for.
Read(t) ==
    /\ phase = "up" /\ Free(t) /\ NoFault
    /\ \E scope \in SUBSET {s \in Scripts : rows[s] # "none"} :
           Call(t, "event", scope, Window(cursor), {})
    /\ UNCHANGED <<env, repo, phase, reg, base, link, hydrated>>

\* A sync with no scripts named is for the watched set.
Refresh(t) ==
    /\ phase = "up" /\ Free(t) /\ NoFault
    /\ Call(t, "refresh", Watched, Window(cursor), {})
    /\ UNCHANGED <<env, repo, phase, reg, base, link, hydrated>>

-----------------------------------------------------------------------------
(* The VTXO manager's pass, as far as it keeps the rows current.            *)

\* The timer: the coins are read, and with them comes a delta of all contracts,
\* unless the request fails.
PassRead(t) ==
    /\ "settles" \in faults /\ phase = "up" /\ t = Pass /\ t \notin Busy
    /\ \/ NoFault /\ Call(t, "pass", {s \in Scripts : rows[s] # "none"}, Window(cursor), {})
       \/ Fault("fail") /\ task' = [task EXCEPT ![t] = [pc |-> "expiring", from |-> now]]
    /\ UNCHANGED <<env, repo, phase, reg, base, link, hydrated>>

\* Mutant: the candidates are taken as the repository has them.
NoCandidates == {}

\* The live coins near their expiry.
Due(c) == now >= at[c][1] + Life
Candidates == {c \in Coins : rows[ScriptOf[c]] # "none" /\ held[c] = 1 /\ Due(c)}

\* revalidateBeforeSettle: the candidates are fetched again before they are renewed; if
\* that fails they are taken as they are.
Expiring(t) ==
    /\ task[t].pc = "expiring"
    /\ \/ /\ Candidates = {} /\ NoFault
          /\ task' = [task EXCEPT ![t] = Idle]
       \/ /\ Candidates # {} /\ NoFault
          /\ \E late \in SUBSET Fresh :
                task' = [task EXCEPT ![t] =
                    [pc |-> "outpoints", from |-> task[t].from, ans |-> AnswerFor(Candidates, late)]]
       \/ /\ Candidates # {} /\ Fault("fail")
          /\ task' = [task EXCEPT ![t] = Idle]
    /\ UNCHANGED <<env, repo, phase, reg, base, link, hydrated>>

\* refreshOutpoints: the rows alone, neither the cursor nor exit data.
Outpoints(t) ==
    /\ task[t].pc = "outpoints"
    /\ held' = [c \in Coins |-> IF task[t].ans[c] > 0 THEN task[t].ans[c] ELSE held[c]]
    /\ task' = [task EXCEPT ![t] = Idle]
    /\ UNCHANGED <<env, budget, rows, pruned, cursor, phase, reg, base, link, hydrated>>

-----------------------------------------------------------------------------
(* The watcher.                                                             *)

Live(s) == {c \in Coins : ScriptOf[c] = s /\ held[c] = 1}
Known(s) == {c \in base : ScriptOf[c] = s}

\* handleContractEvent: a delta of the contract, or nothing when it fails.
Handle(t, s, gone) ==
    \/ NoFault /\ Call(t, "event", {s}, Window(cursor), gone)
    \/ Fault("fail") /\ UNCHANGED task

\* The repository's live coins against the baseline.
Poll(t, s) ==
    /\ phase = "up" /\ s \in Watched /\ Live(s) # Known(s) /\ Free(t)
    /\ base' = (base \ Known(s)) \cup Live(s)
    /\ Handle(t, s, Known(s) \ Live(s))
    /\ UNCHANGED <<env, repo, phase, reg, link, hydrated>>

\* A change comes in; of a script the watcher does not know it is dropped.
Hear(t) ==
    /\ phase = "up" /\ wire # <<>> /\ Free(t)
    /\ wire' = Tail(wire)
    /\ LET c == Head(wire).coin
           spent == Head(wire).version = 2
       IN  IF reg[ScriptOf[c]] = "none"
           THEN NoFault /\ UNCHANGED <<base, task>>
           ELSE /\ base' = IF spent THEN base \ {c} ELSE base \cup {c}
                /\ Handle(t, ScriptOf[c], IF spent THEN {c} ELSE {})
    /\ UNCHANGED <<env, repo, phase, reg, sub, conn, hydrated>>

\* addContract: the baseline is what the repository has.
Add(t) ==
    /\ task[t].pc = "add"
    /\ LET k == task[t]
           s == k.script
       IN  /\ reg' = [reg EXCEPT ![s] = k.watch]
           /\ base' = (base \ Known(s)) \cup Live(s)
           /\ hydrated' = IF k.ok /\ rows[s] # "retained" THEN hydrated \cup {s} ELSE hydrated
    /\ UpdateSubscription(reg')
    /\ task' = [task EXCEPT ![t] = Idle]
    /\ UNCHANGED <<env, repo, phase>>

\* setContractWatchState: what was retained and is watched again is not fetched.
SetWatch(s, w) ==
    /\ "owner" \in faults /\ phase = "up"
    /\ reg[s] # "none" /\ w # rows[s]
    /\ rows' = [rows EXCEPT ![s] = w]
    /\ reg' = [reg EXCEPT ![s] = w]
    /\ hydrated' = IF w = "retained" THEN hydrated \ {s} ELSE hydrated
    /\ UpdateSubscription(reg')
    /\ UNCHANGED <<env, held, pruned, cursor, phase, base, task>>

\* connect: the scripts there are get subscribed and the stream opens.  With no
\* script the listener goes back to the timer; with no EventSource it stays
\* parked, and the polls are all there is.
Open ==
    /\ phase = "up" /\ conn = "connecting" /\ NoFault
    /\ sub' = IF Watched = {} THEN {} ELSE sub \cup Watched
    /\ conn' = IF Watched = {} THEN "reconnecting"
               ELSE IF "nosource" \in faults THEN "parked" ELSE "connected"
    /\ wire' = <<>>
    /\ UNCHANGED <<env, repo, phase, reg, base, task, hydrated>>

\* The connection fails, or the stream breaks: the manager is told at once, and
\* the listener waits for the timer.
Lose(t) ==
    /\ phase = "up" /\ conn \in {"connecting", "connected", "deaf"} /\ Free(t)
    /\ Fault("break")
    /\ conn' = "reconnecting" /\ wire' = <<>>
    /\ Call(t, "reset", Watched, Window(cursor), {})
    /\ UNCHANGED <<env, repo, phase, reg, base, sub, hydrated>>

\* Mutant: only an error makes the listener come back.
EndForGood ==
    /\ phase = "up"
    /\ \/ conn = "deaf" /\ NoFault
       \/ Streaming /\ Fault("end")
    /\ conn' = "parked" /\ wire' = <<>>
    /\ UNCHANGED <<env, repo, phase, reg, base, sub, task, hydrated>>

\* The stream ends in good order, and nobody is told.  It does so when the
\* subscription is gone.
End ==
    /\ phase = "up"
    /\ \/ conn = "deaf" /\ NoFault
       \/ Streaming /\ Fault("end")
    /\ conn' = "reconnecting" /\ wire' = <<>>
    /\ UNCHANGED <<env, repo, phase, reg, base, sub, task, hydrated>>

\* The timer of the reconnection.
Reconnect ==
    /\ phase = "up" /\ conn = "reconnecting"
    /\ conn' = "connecting"
    /\ UNCHANGED <<env, budget, repo, phase, reg, base, sub, wire, task, hydrated>>

-----------------------------------------------------------------------------
(* The process.                                                             *)

\* The contracts are registered, then synced; a failure leaves the wallet with
\* what the repository has.
Boot(t) ==
    /\ phase = "down" /\ Free(t)
    /\ reg' = rows /\ base' = {c \in Coins : held[c] = 1 /\ rows[ScriptOf[c]] # "none"}
    /\ \/ /\ NoFault /\ phase' = "boot" /\ UNCHANGED conn
          /\ Call(t, "boot", WatchedIn(rows), Window(cursor), {})
       \/ /\ Fault("fail") /\ phase' = "up" /\ conn' = "connecting" /\ UNCHANGED task
    /\ UNCHANGED <<env, repo, sub, wire, hydrated>>

Crash ==
    /\ Fault("crash") /\ phase # "down"
    /\ phase' = "down" /\ reg' = [s \in Scripts |-> "none"] /\ base' = {}
    /\ sub' = {} /\ conn' = "off" /\ wire' = <<>>
    /\ task' = [t \in Tasks |-> Idle]
    /\ UNCHANGED <<env, repo, hydrated>>

-----------------------------------------------------------------------------
Step(t) ==
    \/ Hydrate(t) \/ Save(t) \/ Pending(t) \/ Frontier(t) \/ Prune(t) \/ Add(t)
    \/ Expiring(t) \/ Outpoints(t)

Next ==
    \/ \E c \in Coins : Change(c)
    \/ Tick
    \/ \E t \in Tasks :
        \/ \E s \in Scripts : CreateContract(t, s) \/ Poll(t, s)
        \/ Step(t) \/ Read(t) \/ Refresh(t) \/ Hear(t) \/ Lose(t) \/ Boot(t)
        \/ PassRead(t)
    \/ \E s \in Scripts, w \in WatchStates \ {"none"} : SetWatch(s, w)
    \/ Open \/ End \/ Reconnect \/ Crash

Spec == Init /\ [][Next]_vars

\* Every call goes on, the timers of the watcher and of the pass fire, and a stream
\* whose subscription is gone ends.
FairSpec ==
    /\ Spec
    /\ \A t \in Tasks : WF_vars(Step(t))
    /\ WF_vars(\E t \in Tasks : Hear(t) \/ Boot(t))
    /\ WF_vars(\E t \in Tasks, s \in Scripts : Poll(t, s))
    /\ WF_vars(Open) /\ WF_vars(Reconnect) /\ WF_vars(conn = "deaf" /\ End)
    /\ WF_vars(PassRead(Pass))

-----------------------------------------------------------------------------
(* Properties.                                                              *)

Answers == [Coins -> Versions]
AddCalls ==
    [pc : {"add"}, script : Scripts, watch : {"watched", "awaiting"}, from : 1..MaxTime,
     ok : BOOLEAN]
Calls ==
    [pc : {"save"}, kind : {"boot", "reset", "refresh", "event", "pass"}, from : 1..MaxTime,
     waiting : SUBSET Scripts, ans : Answers, gone : SUBSET Coins]
    \cup [pc : {"hydrate"}, script : Scripts, watch : {"watched", "awaiting"},
             from : 1..MaxTime, ans : Answers]
    \cup AddCalls
    \cup [pc : {"pending"}, kind : {"boot", "reset"}, from : 1..MaxTime]
    \cup [pc : {"frontier"}, kind : {"boot", "reset"}, from : 1..MaxTime, ans : Answers]
    \cup [pc : {"prune"}, from : 1..MaxTime, gone : SUBSET Coins]
    \cup [pc : {"expiring"}, from : 1..MaxTime]
    \cup [pc : {"outpoints"}, from : 1..MaxTime, ans : Answers]

\* Types, and the clock against the calls.
TypeOK ==
    /\ faults \in FaultSets /\ budget \in 0..MaxFaults /\ now \in 1..MaxTime
    /\ at \in [Coins -> [1..2 -> 0..MaxTime]]
    /\ rows \in [Scripts -> WatchStates] /\ reg \in [Scripts -> WatchStates]
    /\ held \in [Coins -> Versions] /\ pruned \subseteq Coins /\ base \subseteq Coins
    /\ cursor \in 0..MaxTime /\ phase \in {"down", "boot", "up"}
    /\ sub \subseteq Scripts
    /\ conn \in {"off", "connecting", "connected", "deaf", "reconnecting", "parked"}
    /\ wire \in Seq([coin : Coins, version : {1, 2}])
    /\ hydrated \subseteq Scripts
    /\ task \in [Tasks -> {Idle} \cup Calls]
    /\ \A t \in Busy : task[t].from <= now /\ now - task[t].from <= MaxFlight

\* A coin of a watched contract that the repository does not have is in the window of
\* the next sync, or no delta would ever bring it: the cursor never runs past its
\* creation, whatever calls answer and save in whatever order, the cursor moved by one
\* while another is under way (computeSyncWindow, cursorCutoff, mustUpdateCursor).
InWindow ==
    \A c \in Coins :
        ScriptOf[c] \in hydrated /\ rows[ScriptOf[c]] \in {"watched", "awaiting"}
            /\ held[c] = 0 /\ Version(c) > 0
        => at[c][1] >= Window(cursor)

\* The listener never stays parked while there is something to listen to: a
\* break, an end in good order, a start with no contract, the last contract
\* retired and another one made (scheduleReconnect, tryUpdateSubscription).
Listens ==
    (phase = "up" /\ Watched # {}) ~> (phase # "up" \/ Watched = {} \/ Streaming)

\* Whatever was lost with a stream or saved out of order, while the VTXO manager polls
\* the repository ends up with every coin of a watched contract, and no coin near its
\* expiry stays live in it that is spent: the pass would put it into every batch it
\* proposes, and the others with it (revalidateBeforeSettle).
EndsCurrent ==
    "settles" \in faults =>
    \A c \in Coins :
        <>[](rows[ScriptOf[c]] \in {"watched", "awaiting"} /\ ScriptOf[c] \in hydrated
                 /\ Version(c) > 0
             => held[c] > 0 /\ (Due(c) => held[c] = Version(c)))

\* The same of every coin, whatever its age, and of the exit data of the live ones.  It
\* is not so: the spend of an older coin that the stream tells of, or that it loses, is
\* in no later delta; and what an event called spent too early is captured again only
\* while it is in the window.
AllCurrent ==
    \A c \in Coins :
        <>[](rows[ScriptOf[c]] \in {"watched", "awaiting"} /\ ScriptOf[c] \in hydrated
             => held[c] = Version(c) /\ (c \in pruned => Version(c) = 2))
=============================================================================

----------------------------- MODULE WorkerBus -----------------------------
(***************************************************************************)
(* A wallet in a service worker: the message bus of the worker, its chain   *)
(* of initializations and its ticks, and the pages that send it requests,   *)
(* find it killed, and initialize it again.                                 *)
(***************************************************************************)
EXTENDS Naturals, Sequences, FiniteSets

CONSTANTS
    Pages,         \* page-side wallets, one for each tab
    Requests,      \* requests of their callers
    PageOf,        \* the page of a request
    Streams,       \* the requests that stream: settle, recovery, renewal, restore
    MaxFaults,     \* bound: faults in a behaviour
    FaultSets      \* the environments to consider: sets of FaultNames

FaultNames ==
    {"kill",       \* the browser kills the worker
     "slow",       \* an answer does not come before its deadline
     "build",      \* the services cannot be built
     "init"}       \* INIT_WALLET throws, as when the explorer is out of reach

ASSUME BusAssumption ==
    /\ PageOf \in [Requests -> Pages] /\ Streams \subseteq Requests
    /\ Pages \cap Requests = {}
    /\ MaxFaults \in Nat /\ FaultSets \subseteq SUBSET FaultNames

MaxRetries == 2

VARIABLES
    faults, budget,
    initialized,   \* of the bus
    inits,         \* initChain: the pages whose initialization is queued or running
    phase,         \* of the initialization that is running
    ready,         \* INIT_WALLET was handled since the last initialization
    timer, ticking,\* tickTimeout, tickInProgress
    inbox,         \* messages to the worker
    exec,          \* handlers under way, for the services of now or of before
    out,           \* answers under way
    pc, tries,     \* of a request in sendMessageWithRetry
    reinit, turn,  \* reinitPromise of a page, and the ids of its messages
    times,         \* how often a request was handed to the handler
    hit            \* history: a fault or another tab's initialization came in between

env == <<faults, budget>>
bus == <<initialized, inits, phase, ready>>
ticks == <<timer, ticking>>
client == <<pc, tries, reinit, turn>>
vars == <<env, bus, ticks, inbox, exec, out, client, times, hit>>

Senders == Requests \cup Pages
Ended == {"ok", "failed"}
Msg(kind, from, n) == [kind |-> kind, from |-> from, n |-> n]
Answer(m, res) == [to |-> m.from, n |-> m.n, res |-> res]
Handler(m, of) == [m |-> m, services |-> of]
Busy(s) == IF s \in Pages THEN reinit[s] # "none" ELSE pc[s] \notin {"idle"} \cup Ended

\* A fault is on record with whoever is under way.
Occurs(name) == name \in faults /\ budget > 0 /\ budget' = budget - 1 /\ UNCHANGED faults
Struck == [s \in Senders |-> hit[s] \/ Busy(s)]
Fault(name) == Occurs(name) /\ hit' = Struck
NoFault == UNCHANGED <<env, hit>>

Init ==
    /\ faults \in FaultSets /\ budget = MaxFaults
    /\ initialized = TRUE /\ inits = <<>> /\ phase = "idle" /\ ready = TRUE
    /\ timer = TRUE /\ ticking = FALSE
    /\ inbox = <<>> /\ out = {} /\ exec = {}
    /\ pc = [q \in Requests |-> "idle"] /\ tries = [q \in Requests |-> 0]
    /\ reinit = [p \in Pages |-> "none"] /\ turn = [p \in Pages |-> 0]
    /\ times = [q \in Requests |-> 0] /\ hit = [s \in Senders |-> FALSE]

-----------------------------------------------------------------------------
(* The bus.                                                                  *)

\* acceptsWalletMessages.
Accepts == initialized /\ inits = <<>>

Refusal == IF inits = <<>> THEN "notinit" ELSE "initializing"

\* Another tab initializes the same worker at the same time.
Crossed(p) == \E o \in Pages \ {p} : reinit[o] # "none"

\* processMessage, up to the handler's first await.
Receive ==
    /\ inbox # <<>> /\ inbox' = Tail(inbox)
    /\ LET m == Head(inbox)
       IN  \/ /\ m.kind = "init"
              /\ inits' = Append(inits, m)
              /\ phase' = IF inits = <<>> THEN "stop" ELSE phase
              /\ hit' = [s \in Senders |-> hit[s] \/ (Crossed(m.from) /\ Busy(s))]
              /\ UNCHANGED <<exec, out, times>>
           \/ /\ m.kind # "init" /\ ~Accepts
              /\ out' = out \cup {Answer(m, Refusal)}
              /\ UNCHANGED <<exec, inits, phase, times, hit>>
           \/ /\ m.kind = "status" /\ Accepts
              /\ out' = out \cup {Answer(m, "ok")}
              /\ UNCHANGED <<exec, inits, phase, times, hit>>
           \/ /\ m.kind \in {"wallet", "request"} /\ Accepts
              /\ exec' = exec \cup {Handler(m, "now")}
              /\ times' = IF m.kind = "request" THEN [times EXCEPT ![m.from] = @ + 1] ELSE times
              /\ UNCHANGED <<out, inits, phase, hit>>
    /\ UNCHANGED <<env, initialized, ready, ticks, client>>

\* INIT_WALLET reads the boarding outputs from the chain, subscribes to the incoming
\* funds and starts the VTXO manager (onWalletInitialized); when it throws on the way,
\* the bus is up and its wallet is not.
WalletFails(h) ==
    /\ h.m.kind = "wallet" /\ h.services = "now"
    /\ Fault("init")
    /\ out' = out \cup {Answer(h.m, "error")} /\ UNCHANGED ready

\* The handler is done ("ok" is the wallet's answer, a refusal of its own included);
\* with its wallet disposed of, it may throw.
HandlerEnds(h) ==
    /\ exec' = exec \ {h}
    /\ \/ /\ NoFault /\ out' = out \cup {Answer(h.m, "ok")}
          /\ ready' = (ready \/ (h.m.kind = "wallet" /\ h.services = "now"))
       \/ /\ NoFault /\ h.services = "before"
          /\ out' = out \cup {Answer(h.m, "error")} /\ UNCHANGED ready
       \/ WalletFails(h)
    /\ UNCHANGED <<initialized, inits, phase, ticks, inbox, client, times>>

-----------------------------------------------------------------------------
(* doInit.                                                                   *)

ElseInit == <<inbox, client, times>>

\* The handlers of before are stopped, under the requests they are at.
InitStop ==
    /\ phase = "stop" /\ phase' = "build"
    /\ initialized' = FALSE /\ ready' = FALSE /\ timer' = FALSE
    /\ exec' = {Handler(h.m, "before") : h \in exec}
    /\ hit' = [s \in Senders |-> hit[s] \/ (Busy(s) /\ \E h \in exec : h.m.from = s)]
    /\ UNCHANGED <<ElseInit, env, inits, ticking, out>>

\* The next initialization runs whatever came of this one.
NextInit ==
    /\ inits' = Tail(inits)
    /\ phase' = IF Len(inits) > 1 THEN "stop" ELSE "idle"

\* Mutant: the tick that an initialization stopped is not scheduled again.
InitDoneUnscheduled ==
    /\ phase = "build" /\ NextInit
    /\ initialized' = TRUE /\ UNCHANGED timer
    /\ out' = out \cup {Answer(Head(inits), "ok")}
    /\ NoFault
    /\ UNCHANGED <<ElseInit, ready, ticking, exec>>

\* scheduleNextTick, unless a tick that is under way will do it.
InitDone ==
    /\ phase = "build" /\ NextInit
    /\ initialized' = TRUE /\ timer' = ~ticking
    /\ out' = out \cup {Answer(Head(inits), "ok")}
    /\ NoFault
    /\ UNCHANGED <<ElseInit, ready, ticking, exec>>

InitFails ==
    /\ phase = "build" /\ NextInit
    /\ Fault("build")
    /\ out' = out \cup {Answer(Head(inits), "error")}
    /\ UNCHANGED <<ElseInit, initialized, ready, ticks, exec>>

-----------------------------------------------------------------------------
(* runTick.                                                                  *)

ElseTick == <<env, bus, inbox, exec, out, client, times, hit>>

Tick ==
    /\ timer /\ timer' = FALSE
    /\ ticking' = (ticking \/ inits = <<>>)
    /\ UNCHANGED ElseTick

TickEnd ==
    /\ ticking /\ ticking' = FALSE /\ timer' = TRUE
    /\ UNCHANGED ElseTick

-----------------------------------------------------------------------------
(* The page: sendMessageWithRetry.                                           *)

ElsePage == <<bus, ticks, exec, times>>

At(q, p) == pc[q] = p
Becomes(q, p) == pc' = [pc EXCEPT ![q] = p]
Send(q) == Becomes(q, "sent") /\ inbox' = Append(inbox, Msg("request", q, 0))

\* reinitialize(): q waits for the one that is under way, or starts one.
Reinitialize(q) ==
    LET p == PageOf[q]
    IN  /\ Becomes(q, "reinit")
        /\ IF reinit[p] = "none"
           THEN /\ inbox' = Append(inbox, Msg("init", p, turn[p]))
                /\ reinit' = [reinit EXCEPT ![p] = "bus"]
           ELSE UNCHANGED <<inbox, reinit>>

\* The ping is answered whatever the state of the bus; without an answer the page
\* initializes the worker, dead or not.
Call(q) ==
    /\ At(q, "idle")
    /\ \/ NoFault /\ Send(q) /\ UNCHANGED reinit
       \/ Fault("slow") /\ Reinitialize(q)
    /\ UNCHANGED <<ElsePage, out, tries, turn>>

\* Mutant: a request that was not answered in time is tried again, too.
RetriesAll(q, res) == res \in {"notinit", "slow"} /\ tries[q] < MaxRetries

\* Mutant: a request the bus refused is for the caller to send again.
RetriesNone(q, res) == FALSE

\* What is retried: a request the bus refused.
Retries(q, res) == res = "notinit" /\ tries[q] < MaxRetries

\* The answer to q is res.
Answered(q, res) ==
    /\ \/ res = "ok" /\ Becomes(q, "ok") /\ UNCHANGED <<inbox, tries, reinit>>
       \/ res = "initializing" /\ Becomes(q, "wait") /\ UNCHANGED <<inbox, tries, reinit>>
       \/ Retries(q, res) /\ Reinitialize(q) /\ tries' = [tries EXCEPT ![q] = @ + 1]
       \/ /\ res \notin {"ok", "initializing"} /\ ~Retries(q, res)
          /\ Becomes(q, "failed") /\ UNCHANGED <<inbox, tries, reinit>>
    /\ UNCHANGED turn

\* An answer nobody waits for is dropped.
Hear(q) ==
    \E a \in out :
        /\ a.to = q /\ out' = out \ {a}
        /\ IF At(q, "sent") THEN Answered(q, a.res) ELSE UNCHANGED <<client, inbox>>
        /\ UNCHANGED <<ElsePage, env, hit>>

\* Nothing is left of what s sent last.
Lost(s, n) ==
    /\ \A h \in exec : h.m.from # s \/ h.m.n # n
    /\ \A a \in out : a.to # s \/ a.n # n
    /\ \A i \in DOMAIN inbox : inbox[i].from # s \/ inbox[i].n # n
    /\ \A i \in DOMAIN inits : inits[i].from # s \/ inits[i].n # n

\* Mutant: no request has a deadline, the pings are to tell that the worker is dead.
TimeOutSlow(q) ==
    /\ At(q, "sent") /\ q \notin Streams
    /\ Fault("slow") /\ Answered(q, "slow")
    /\ UNCHANGED <<ElsePage, out>>

\* A request that streams has no deadline.
TimeOut(q) ==
    /\ At(q, "sent") /\ q \notin Streams
    /\ (Lost(q, 0) /\ NoFault) \/ Fault("slow")
    /\ Answered(q, "slow")
    /\ UNCHANGED <<ElsePage, out>>

\* After an initialization it waited for, unless it gives up waiting.
Resend(q) ==
    /\ At(q, "wait") \/ At(q, "resend")
    /\ NoFault /\ Send(q)
    /\ UNCHANGED <<ElsePage, out, tries, reinit, turn>>

GiveUp(q) ==
    /\ At(q, "wait") /\ Fault("slow") /\ Becomes(q, "failed")
    /\ UNCHANGED <<ElsePage, inbox, out, tries, reinit, turn>>

-----------------------------------------------------------------------------
(* The page: reinitialize.                                                   *)

Goes(p, to) ==
    /\ reinit' = [reinit EXCEPT ![p] = to]
    /\ inbox' = Append(inbox, Msg(to, p, turn[p])) /\ UNCHANGED <<pc, turn>>

Waiting(p) == {q \in Requests : PageOf[q] = p /\ At(q, "reinit")}

\* The requests that wait for it go on, or fail with it.
Release(p, to) ==
    /\ reinit' = [reinit EXCEPT ![p] = "none"] /\ turn' = [turn EXCEPT ![p] = @ + 1]
    /\ pc' = [q \in Requests |-> IF q \in Waiting(p) THEN to ELSE pc[q]]
    /\ UNCHANGED inbox

\* Mutant: the wallet is taken as initialized with the bus.
StageBusOnly(p, ok) ==
    \/ ok /\ reinit[p] = "bus" /\ Goes(p, "status")
    \/ ok /\ reinit[p] = "status" /\ Release(p, "resend")
    \/ ~ok /\ Release(p, "failed")

\* The bus, then the wallet, then the check of its identity.
Stage(p, ok) ==
    \/ ok /\ reinit[p] = "bus" /\ Goes(p, "wallet")
    \/ ok /\ reinit[p] = "wallet" /\ Goes(p, "status")
    \/ ok /\ reinit[p] = "status" /\ Release(p, "resend")
    \/ ~ok /\ Release(p, "failed")

\* What struck an initialization struck the requests that wait for it, and is
\* over with it.
Passed(p, h) ==
    [s \in Senders |-> IF s = p THEN h[p] /\ reinit'[p] # "none"
                       ELSE h[s] \/ (h[p] /\ s \in Waiting(p))]

PageHears(p) ==
    \E a \in out :
        /\ a.to = p /\ out' = out \ {a}
        /\ IF reinit[p] # "none" /\ a.n = turn[p]
           THEN Stage(p, a.res = "ok") ELSE UNCHANGED <<pc, reinit, turn, inbox>>
        /\ hit' = Passed(p, hit)
        /\ UNCHANGED <<ElsePage, env, tries>>

PageTimeOut(p) ==
    /\ reinit[p] # "none" /\ Stage(p, FALSE)
    /\ \/ Occurs("slow") /\ hit' = Passed(p, Struck)
       \/ Lost(p, turn[p]) /\ UNCHANGED env /\ hit' = Passed(p, hit)
    /\ UNCHANGED <<ElsePage, out, tries>>

-----------------------------------------------------------------------------

\* The browser kills the worker; the next message starts it, with nothing in memory.
Kill ==
    /\ Fault("kill")
    /\ initialized' = FALSE /\ inits' = <<>> /\ phase' = "idle" /\ ready' = FALSE
    /\ timer' = FALSE /\ ticking' = FALSE /\ exec' = {}
    /\ inbox' \in {inbox, <<>>}
    /\ UNCHANGED <<out, client, times>>

BusStep ==
    \/ Receive \/ (\E h \in exec : HandlerEnds(h))
    \/ InitStop \/ InitDone \/ InitFails \/ Tick \/ TickEnd

RequestStep(q) == Hear(q) \/ TimeOut(q) \/ Resend(q) \/ GiveUp(q)
PageStep(p) == PageHears(p) \/ PageTimeOut(p)

Next ==
    \/ BusStep \/ Kill
    \/ \E q \in Requests : Call(q) \/ RequestStep(q)
    \/ \E p \in Pages : PageStep(p)

Spec == Init /\ [][Next]_vars

\* Messages arrive, handlers and initializations end, and pages go on.
Fairness ==
    /\ WF_vars(Receive) /\ WF_vars(\E h \in exec : HandlerEnds(h))
    /\ WF_vars(InitStop) /\ WF_vars(InitDone) /\ WF_vars(Tick) /\ WF_vars(TickEnd)
    /\ \A q \in Requests : WF_vars(RequestStep(q))
    /\ \A p \in Pages : WF_vars(PageStep(p))

FairSpec == Spec /\ Fairness

-----------------------------------------------------------------------------
(* Properties.                                                               *)

OfRequests == [kind : {"request"}, from : Requests, n : {0}]
Inits == [kind : {"init"}, from : Pages, n : Nat]
Messages == OfRequests \cup Inits \cup [kind : {"wallet", "status"}, from : Pages, n : Nat]

\* The type invariant.
TypeOK ==
    /\ faults \in FaultSets /\ budget \in 0..MaxFaults
    /\ initialized \in BOOLEAN /\ ready \in BOOLEAN /\ timer \in BOOLEAN /\ ticking \in BOOLEAN
    /\ inits \in Seq(Inits) /\ inbox \in Seq(Messages)
    /\ phase \in {"idle", "stop", "build"}
    /\ exec \subseteq [m : Messages, services : {"now", "before"}]
    /\ out \subseteq [to : Senders, n : Nat, res : {"ok", "error", "notinit", "initializing"}]
    /\ pc \in [Requests -> {"idle", "sent", "wait", "reinit", "resend"} \cup Ended]
    /\ tries \in [Requests -> Nat] /\ times \in [Requests -> Nat]
    /\ reinit \in [Pages -> {"none", "bus", "wallet", "status"}] /\ turn \in [Pages -> Nat]
    /\ hit \in [Senders -> BOOLEAN]

\* A request is handed to the wallet at most once, through kills, restarts and
\* waits: a retried send must not pay twice (sendMessageWithRetry).
ExecutedOnce == \A q \in Requests : times[q] <= 1

\* A request fails only when the worker was killed, was slow, could not be built or
\* could not initialize its wallet while it was under way, or the initialization it
\* waited for was, or when two tabs initialized it at once: a worker that was killed
\* before it is brought back for it (reinitialize, MAX_INIT_WAITS).
FailsForCause == \A q \in Requests : At(q, "failed") => hit[q]

\* As long as the bus takes messages and no initialization is under way, a tick is
\* scheduled or runs: the events of the wallet reach the pages by ticks only.
TicksGoOn == Accepts => timer \/ ticking

\* A bus that comes up gets its wallet initialized, which subscribes to the events
\* and recovers the pending transactions, when answers come in time and the wallet's
\* own initialization does not throw: through kills and failed builds.
WalletInitialized ==
    faults \cap {"slow", "init"} = {} => (initialized ~> (ready \/ ~initialized))

\* The same whether INIT_WALLET throws or not.  It does not hold: the bus stays
\* initialized, takes the requests, and nothing has INIT_WALLET sent again; no run
\* checks it.
WalletInitializedAgain ==
    "slow" \notin faults => (initialized ~> (ready \/ ~initialized))

\* A request that does not stream ends, whatever happens to the worker.
RequestsEnd ==
    \A q \in Requests \ Streams : (~At(q, "idle")) ~> (At(q, "ok") \/ At(q, "failed"))

\* "Service-worker death is detected out-of-band via concurrent short requests"
\* (sendMessageStreaming): a request that streams ends, too.  It does not when the
\* worker is killed under it, as it is not told; no run checks it.
StreamsEnd ==
    \A q \in Streams : (~At(q, "idle")) ~> (At(q, "ok") \/ At(q, "failed"))
=============================================================================

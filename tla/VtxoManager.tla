---------------------------- MODULE VtxoManager ----------------------------
(***************************************************************************)
(* The VTXO manager: the poll that settles boarding outputs together with   *)
(* expiring VTXOs and sweeps expired boarding outputs, the renewals that    *)
(* events and callers start beside it, their shared flag and cooldowns, and *)
(* disposal.  wallet.settle is one step here; it takes the transaction lock.*)
(***************************************************************************)
EXTENDS RenewalFlag, Integers, FiniteSets

CONSTANTS
    N,             \* the VTXOs are 1..N, in the order in which they expire
    Boardings,     \* boarding outputs
    Value, Fee,    \* of a VTXO: its value and the fee of its input
    BoardingNet,   \* what a boarding output is worth after its fee
    Dust,          \* the least output the server takes
    Ceiling,       \* vtxoMaxAmount
    Cap,           \* MAX_VTXOS_PER_SETTLEMENT
    MaxFaults,     \* bound: faults in a behaviour
    FaultSets      \* the environments to consider: sets of FaultNames

FaultNames ==
    {"read",       \* a request to the server, the indexer or the chain fails
     "settle",     \* settle() throws and nothing was committed
     "write",      \* settle() throws after the commitment
     "elsewhere",  \* another instance spends a VTXO; the local rows are stale
     "manual",     \* not a fault: a caller renews
     "dispose"}    \* not a fault: the manager is disposed of

Vtxos == 1..N

ASSUME ManagerAssumption ==
    /\ N \in Nat /\ Cap \in Nat \ {0}
    /\ Value \in [Vtxos -> Nat] /\ Fee \in [Vtxos -> Nat]
    /\ BoardingNet \in Nat /\ Dust \in Nat /\ Ceiling \in Nat
    /\ MaxFaults \in Nat /\ FaultSets \subseteq SUBSET FaultNames

VARIABLES
    faults, budget,
    expiring,      \* VTXOs that are close to their expiry
    spent, stale,  \* VTXOs that are spent, and those the rows still show
    age, fate,     \* boarding outputs: their confirmation, and who spent them
    news,          \* a vtxo_received event is on its way
    cool, settled, \* the two cooldowns are over
    known, swept,  \* knownBoardingUtxos, sweptBoardingUtxos
    closing, closed

env == <<faults, expiring, age>>
coins == <<spent, stale, fate, news>>
own == <<known, swept>>
vars == <<env, budget, coins, renewing, cool, settled, call, poll, own, closing, closed>>

NoCall == [pc |-> "off", ins |-> {}]
Timer == [pc |-> "timer", list |-> {}, boards |-> {}, ins |-> {}]

Fault(name) == name \in faults /\ budget > 0 /\ budget' = budget - 1
NoFault == UNCHANGED budget

Init ==
    /\ faults \in FaultSets /\ budget = MaxFaults
    /\ expiring = {} /\ spent = {} /\ stale = {}
    /\ age = [b \in Boardings |-> "unconfirmed"] /\ fate = [b \in Boardings |-> "unspent"]
    /\ news = TRUE
    /\ renewing = FALSE /\ cool = TRUE /\ settled = TRUE
    /\ call = [r \in Calls |-> NoCall] /\ poll = Timer
    /\ known = {} /\ swept = {} /\ closing = FALSE /\ closed = FALSE

-----------------------------------------------------------------------------
(* Selection.                                                                *)

\* getExpiringVtxos, over the local rows.
Candidates == expiring \ (spent \ stale)

\* Mutant: the cap is on what was found, and the fees are looked at afterwards.
CapThenPrice(S, worth, base) ==
    LET Fits[i \in 0..N] ==
            IF i = 0 THEN [ins |-> {}, seen |-> 0]
            ELSE IF i \in S /\ Fits[i - 1].seen < Cap
            THEN [ins |-> IF Fee[i] < Value[i] THEN Fits[i - 1].ins \cup {i} ELSE Fits[i - 1].ins,
                  seen |-> Fits[i - 1].seen + 1]
            ELSE Fits[i - 1]
    IN  S \cap Fits[N].ins

\* The soonest to expire of S that pay for themselves and fit; one that does not
\* fit is passed over.
Batch(S, worth, base) ==
    LET Fits[i \in 0..N] ==
            IF i = 0 THEN [ins |-> {}, total |-> base]
            ELSE LET B == Fits[i - 1]
                 IN  IF /\ i \in S /\ Fee[i] < Value[i]
                        /\ Cardinality(B.ins) < Cap /\ B.total + worth[i] <= Ceiling
                     THEN [ins |-> B.ins \cup {i}, total |-> B.total + worth[i]]
                     ELSE B
    IN  S \cap Fits[N].ins

Net == [v \in Vtxos |-> Value[v] - Fee[v]]

Total(S) ==
    LET Sum[i \in 0..N] == IF i = 0 THEN 0 ELSE Sum[i - 1] + IF i \in S THEN Net[i] ELSE 0
    IN  Sum[N]

-----------------------------------------------------------------------------
(* settle(): what it does to the coins.                                      *)

Commit(ins, boards) ==
    /\ spent' = spent \cup ins
    /\ fate' = [b \in Boardings |-> IF b \in boards THEN "settled" ELSE fate[b]]
    /\ news' = TRUE

\* The server takes unspent inputs, and no output above its ceiling.
Takes(ins, boards) ==
    /\ ins \cap spent = {} /\ \A b \in boards : fate[b] = "unspent"
    /\ BoardingNet * Cardinality(boards) + Total(ins) <= Ceiling

SettleOk(ins, boards) ==
    /\ Takes(ins, boards) /\ Commit(ins, boards) /\ NoFault /\ UNCHANGED stale

\* It throws: it did nothing, or its own bookkeeping failed, or the server has
\* one of the inputs as spent and the rows are put right, unless throttled.
SettleFails(ins, boards) ==
    \/ Fault("settle") /\ UNCHANGED coins
    \/ Takes(ins, boards) /\ Fault("write") /\ Commit(ins, boards) /\ stale' = stale \cup ins
    \/ /\ ins \cap spent # {} /\ NoFault
       /\ \E v \in ins \cap spent : stale' \in {stale, stale \ {v}}
       /\ UNCHANGED <<spent, fate, news>>
    \/ /\ ins \cap spent = {} /\ ~Takes(ins, boards) /\ NoFault /\ UNCHANGED coins

-----------------------------------------------------------------------------
(* renewVtxos.                                                               *)

ElseCall == <<env, settled, poll, own, closing, closed>>

Step(r, p, ins) == call' = [call EXCEPT ![r] = [pc |-> p, ins |-> ins]]

Start(r) == Off(r) /\ ~renewing /\ renewing' = TRUE /\ Step(r, "select", {})

\* An event starts a renewal, or is dropped.
Event ==
    /\ news /\ ~closed /\ news' = FALSE
    /\ \/ cool /\ \E r \in Calls : Start(r)
       \/ (renewing \/ ~cool) /\ UNCHANGED <<renewing, call>>
    /\ UNCHANGED <<ElseCall, budget, spent, stale, fate, cool>>

Manual(r) ==
    /\ Fault("manual") /\ Start(r)
    /\ UNCHANGED <<ElseCall, coins, cool>>

\* Mutant: the flag is taken back only after a settlement that went well.
EndCallOnSuccess(r, ok) ==
    /\ cool' = FALSE /\ Step(r, "off", {})
    /\ renewing' = (renewing /\ ~ok)

\* The finally block; ok tells how it came to it.
EndCall(r, ok) == renewing' = FALSE /\ cool' = FALSE /\ Step(r, "off", {})

CallSelect(r) ==
    /\ call[r].pc = "select"
    /\ \/ /\ Candidates # {} /\ Step(r, "check", Candidates)
          /\ UNCHANGED <<renewing, cool>> /\ NoFault
       \/ Candidates = {} /\ EndCall(r, FALSE) /\ NoFault
       \/ Fault("read") /\ EndCall(r, FALSE)
    /\ UNCHANGED <<ElseCall, coins>>

\* revalidateBeforeSettle: the rows of the candidates are fetched, best effort.
CallCheck(r) ==
    /\ call[r].pc = "check"
    /\ \/ /\ NoFault /\ stale' = stale \ call[r].ins
          /\ Step(r, "price", call[r].ins \ spent)
       \/ Fault("read") /\ UNCHANGED stale /\ Step(r, "price", call[r].ins)
    /\ UNCHANGED <<ElseCall, spent, fate, news, renewing, cool>>

CallPrice(r) ==
    /\ call[r].pc = "price"
    /\ LET B == Batch(call[r].ins, Value, 0)
       IN  \/ /\ B # {} /\ Total(B) >= Dust /\ NoFault /\ Step(r, "settle", B)
              /\ UNCHANGED <<renewing, cool>>
           \/ (B = {} \/ Total(B) < Dust) /\ NoFault /\ EndCall(r, FALSE)
           \/ Fault("read") /\ EndCall(r, FALSE)
    /\ UNCHANGED <<ElseCall, coins>>

CallSettle(r) ==
    /\ call[r].pc = "settle"
    /\ \/ SettleOk(call[r].ins, {}) /\ EndCall(r, TRUE)
       \/ SettleFails(call[r].ins, {}) /\ EndCall(r, FALSE)
    /\ UNCHANGED ElseCall

CallStep(r) == CallSelect(r) \/ CallCheck(r) \/ CallPrice(r) \/ CallSettle(r)

-----------------------------------------------------------------------------
(* The poll.                                                                 *)

ElsePoll == <<env, call, closing, closed>>
Goto(p) == poll' = [poll EXCEPT !.pc = p]
ToSweeping == poll' = [Timer EXCEPT !.pc = "sweep", !.list = poll.list]

\* schedulePoll.
EndPoll == poll' = IF closing THEN [Timer EXCEPT !.pc = "off"] ELSE Timer

PollStart ==
    /\ Polls("timer") /\ Goto("fetch")
    /\ UNCHANGED <<ElsePoll, budget, coins, renewing, cool, settled, own>>

\* The cross-instance lock may be taken, and the request may fail.
PollFetch ==
    /\ Polls("fetch")
    /\ \/ /\ NoFault
          /\ poll' = [poll EXCEPT !.pc = "decide", !.list = {b \in Boardings : fate[b] = "unspent"}]
       \/ Fault("read") /\ EndPoll
    /\ UNCHANGED <<ElsePoll, coins, renewing, cool, settled, own>>

\* A renewal under way is looked for here, and only here.
PollDecide ==
    /\ Polls("decide")
    /\ \/ /\ NoFault
          /\ poll' = [poll EXCEPT !.pc = IF renewing THEN "price" ELSE "select",
                                  !.boards = {b \in poll.list : age[b] = "confirmed"} \ known]
       \/ Fault("read") /\ ToSweeping
    /\ UNCHANGED <<ElsePoll, coins, renewing, cool, settled, own>>

PollSelect ==
    /\ Polls("select")
    /\ \/ NoFault /\ poll' = [poll EXCEPT !.pc = "check", !.ins = Candidates]
       \/ Fault("read") /\ Goto("price")
    /\ UNCHANGED <<ElsePoll, coins, renewing, cool, settled, own>>

PollCheck ==
    /\ Polls("check")
    /\ \/ /\ NoFault /\ stale' = stale \ poll.ins
          /\ poll' = [poll EXCEPT !.pc = "price", !.ins = @ \ spent]
       \/ Fault("read") /\ UNCHANGED stale /\ Goto("price")
    /\ UNCHANGED <<ElsePoll, spent, fate, news, renewing, cool, settled, own>>

PollPrice ==
    /\ Polls("price")
    /\ LET boarded == BoardingNet * Cardinality(poll.boards)
           B == Batch(poll.ins, Net, boarded)
           goes == /\ settled /\ (poll.boards # {} \/ B # {})
                   /\ boarded + Total(B) >= Dust
       IN  \/ /\ goes /\ NoFault
              /\ poll' = [poll EXCEPT !.pc = "settle", !.ins = B]
              /\ renewing' = (renewing \/ B # {})
           \/ ~goes /\ NoFault /\ ToSweeping /\ UNCHANGED renewing
           \/ Fault("read") /\ ToSweeping /\ UNCHANGED renewing
    /\ UNCHANGED <<ElsePoll, coins, cool, settled, own>>

\* Mutant: a boarding output counts as settled from the first attempt.
PollSettleKnows ==
    /\ Polls("settle")
    /\ SettleOk(poll.ins, poll.boards) \/ SettleFails(poll.ins, poll.boards)
    /\ known' = known \cup poll.boards
    /\ settled' = FALSE
    /\ IF poll.ins = {} THEN UNCHANGED <<renewing, cool>> ELSE renewing' = FALSE /\ cool' = FALSE
    /\ ToSweeping
    /\ UNCHANGED <<ElsePoll, swept>>

PollSettle ==
    /\ Polls("settle")
    /\ \/ SettleOk(poll.ins, poll.boards) /\ known' = known \cup poll.boards
       \/ SettleFails(poll.ins, poll.boards) /\ UNCHANGED known
    /\ settled' = FALSE
    /\ IF poll.ins = {} THEN UNCHANGED <<renewing, cool>> ELSE renewing' = FALSE /\ cool' = FALSE
    /\ ToSweeping
    /\ UNCHANGED <<ElsePoll, swept>>

\* What the sweep takes of the list that was fetched before the settlement.
ToSweep == {b \in poll.list : age[b] = "expired"} \ swept

PollSweep ==
    /\ Polls("sweep")
    /\ \/ /\ NoFault /\ ToSweep # {} /\ \A b \in ToSweep : fate[b] = "unspent"
          /\ fate' = [b \in Boardings |-> IF b \in ToSweep THEN "swept" ELSE fate[b]]
          /\ swept' = swept \cup ToSweep
       \/ /\ \/ NoFault /\ (ToSweep = {} \/ \E b \in ToSweep : fate[b] # "unspent")
             \/ Fault("read")
          /\ UNCHANGED <<fate, swept>>
    /\ EndPoll
    /\ UNCHANGED <<ElsePoll, spent, stale, news, renewing, cool, settled, known>>

PollStep ==
    \/ PollStart \/ PollFetch \/ PollDecide \/ PollSelect \/ PollCheck \/ PollPrice
    \/ PollSettle \/ PollSweep

-----------------------------------------------------------------------------
(* Time, other instances, disposal.                                          *)

ElseTime == <<faults, coins, renewing, call, poll, own, closing, closed>>

Age(v) ==
    /\ v \notin expiring /\ \A u \in Vtxos : u < v => u \in expiring
    /\ expiring' = expiring \cup {v}
    /\ UNCHANGED <<ElseTime, budget, age, cool, settled>>

Confirm(b) ==
    /\ age[b] = "unconfirmed" /\ age' = [age EXCEPT ![b] = "confirmed"]
    /\ UNCHANGED <<ElseTime, budget, expiring, cool, settled>>

Expire(b) ==
    /\ age[b] = "confirmed" /\ age' = [age EXCEPT ![b] = "expired"]
    /\ UNCHANGED <<ElseTime, budget, expiring, cool, settled>>

CoolDown ==
    /\ \/ ~cool /\ cool' = TRUE /\ UNCHANGED settled
       \/ ~settled /\ settled' = TRUE /\ UNCHANGED cool
    /\ UNCHANGED <<ElseTime, budget, expiring, age>>

Elsewhere(v) ==
    /\ v \notin spent /\ Fault("elsewhere")
    /\ spent' = spent \cup {v} /\ stale' = stale \cup {v}
    /\ UNCHANGED <<env, fate, news, renewing, cool, settled, call, poll, own, closing, closed>>

Dispose ==
    /\ ~closing /\ Fault("dispose") /\ closing' = TRUE
    /\ poll' = IF Polls("timer") THEN [poll EXCEPT !.pc = "off"] ELSE poll
    /\ UNCHANGED <<env, coins, renewing, cool, settled, call, own, closed>>

\* It waits for a poll under way, half a minute at most, and then stops watching.
Disposed ==
    /\ closing /\ ~closed /\ closed' = TRUE
    /\ UNCHANGED <<env, budget, coins, renewing, cool, settled, call, poll, own, closing>>

Next ==
    \/ Event \/ (\E r \in Calls : Manual(r) \/ CallStep(r)) \/ PollStep
    \/ (\E v \in Vtxos : Age(v) \/ Elsewhere(v))
    \/ (\E b \in Boardings : Confirm(b) \/ Expire(b))
    \/ CoolDown \/ Dispose \/ Disposed

Spec == Init /\ [][Next]_vars

\* Calls under way go on, the poll's timer fires, and cooldowns end.
Fairness ==
    /\ \A r \in Calls : WF_vars(CallStep(r))
    /\ WF_vars(PollStep)
    /\ WF_vars(~cool /\ CoolDown) /\ WF_vars(~settled /\ CoolDown)

FairSpec == Spec /\ Fairness

-----------------------------------------------------------------------------
(* Properties.                                                               *)

CallStates == {"off", "select", "check", "price", "settle"}
PollStates == {"off", "timer", "fetch", "decide", "select", "check", "price", "settle", "sweep"}

\* The type invariant.
TypeOK ==
    /\ faults \in FaultSets /\ budget \in 0..MaxFaults
    /\ expiring \subseteq Vtxos /\ spent \subseteq Vtxos /\ stale \subseteq spent
    /\ age \in [Boardings -> {"unconfirmed", "confirmed", "expired"}]
    /\ fate \in [Boardings -> {"unspent", "settled", "swept"}]
    /\ news \in BOOLEAN /\ renewing \in BOOLEAN /\ cool \in BOOLEAN /\ settled \in BOOLEAN
    /\ call \in [Calls -> [pc : CallStates, ins : SUBSET Vtxos]]
    /\ poll \in [pc : PollStates, list : SUBSET Boardings, boards : SUBSET Boardings,
                ins : SUBSET Vtxos]
    /\ known \subseteq Boardings /\ swept \subseteq Boardings
    /\ closing \in BOOLEAN /\ closed \in BOOLEAN

\* A VTXO that can be renewed by itself.
Renewable(v) == Fee[v] < Value[v] /\ Value[v] <= Ceiling /\ Net[v] >= Dust

\* The VTXOs that are to be renewed and pay for themselves, and a choice of them
\* that leaves out only what comes behind a full batch or is above the ceiling.
Payable == {v \in expiring \ spent : Fee[v] < Value[v]}
Fills(S) ==
    \A v \in Payable \ S :
        LET before == {u \in S : u < v}
        IN  Cardinality(before) >= Cap \/ Total(before) + Net[v] > Ceiling

\* A full batch of the soonest to expire is worth less than an output must be.
Starved ==
    \E S \in SUBSET Payable :
        Cardinality(S) <= Cap /\ Total(S) <= Ceiling /\ Fills(S) /\ Total(S) < Dust

\* Every VTXO close to its expiry that can be renewed is renewed, whoever holds the
\* flag, whichever attempts fail and whatever that cannot pay its fee expires before
\* it, as long as the manager lives and dust does not fill the batches before it
\* (byExpiryAscending, the caps, and the finally blocks of both paths).
Renewed ==
    \A v \in Vtxos :
        [](Renewable(v) /\ v \in expiring /\ v \notin spent /\ []~Starved
              => <>(v \in spent \/ closing))

\* "the overflow is renewed on the next cycle" (renewVtxos): the same, whatever fills
\* the batches.  It is not, when the soonest to expire pay their fees and total less
\* than dust: every pass selects them and gives up; no run checks it.
OverflowRenewed ==
    \A v \in Vtxos :
        (Renewable(v) /\ v \in expiring /\ v \notin spent) ~> (v \in spent \/ closing)

\* A confirmed boarding output is settled or swept in the end: a failed settlement
\* does not make it known, an expired one goes to the sweep.
BoardingEnds ==
    \A b \in Boardings :
        (age[b] # "unconfirmed" /\ fate[b] = "unspent") ~> (fate[b] # "unspent" \/ closing)

\* "so the two paths can't race on the same VTXO inputs" (runPeriodicSettle): the
\* poll and a renewal never submit the same VTXO together.  They do, as the poll looks
\* at the flag before it selects; no run checks it.
PathsApart ==
    \A r \in Calls :
        Polls("settle") /\ call[r].pc = "settle" => poll.ins \cap call[r].ins = {}
=============================================================================

------------------------------ MODULE RfqSwap ------------------------------
(***************************************************************************)
(* A swap under the RFQ swap manager: passes that read the chain, act, and  *)
(* write the record, beside the solver, the clock and crashes.              *)
(*                                                                         *)
(* A pass is cut at its awaits.  A callback that moves money is two steps:  *)
(* what it does on the chain, and its return.                               *)
(***************************************************************************)
EXTENDS Integers, FiniteSets

CONSTANTS
    Outs,          \* the outputs a lockup can get
    Expected,      \* how many of them are the agreed amount
    LockTime,      \* refundLocktime of the lockup
    HtlcTime,      \* refundLocktime of the L1 HTLC
    Margin,        \* ONCHAIN_CLAIM_MARGIN_SECONDS
    Lag,           \* REFUND_MTP_LAG_SECONDS, by which median time trails at most
    MaxTime,       \* bound: the clock
    MaxFaults,     \* bound: faults in a behaviour
    FaultSets      \* the environments to consider: sets of FaultNames

FaultNames ==
    {"crash",      \* the process dies
     "read",       \* the indexer, or the chain source, does not answer
     "action",     \* a callback throws before it did anything
     "write",      \* a store does not take the record
     "unable",     \* not a fault: this wallet cannot sign the refund
     "unprobed"}   \* not a fault: canRefundArkade is not wired

Kinds == {"lightning_send", "onchain_send", "lightning_receive"}

ASSUME RfqAssumption ==
    /\ IsFiniteSet(Outs) /\ Expected \in Nat \ {0}
    /\ LockTime \in Nat /\ HtlcTime \in Nat /\ Margin \in Nat \ {0} /\ Lag \in Nat
    /\ HtlcTime <= LockTime
    /\ MaxTime \in Nat /\ MaxFaults \in Nat
    /\ FaultSets \subseteq SUBSET FaultNames

VARIABLES
    faults, budget, now,   \* the environment
    kind,
    lockup,        \* the outputs: "none", "live", "claimed" or "returned"
    htlc, since,   \* the L1 HTLC, and when it was confirmed, or our claim sent
    able,          \* the wallet can sign the refund
    up,            \* the process
    rec,           \* the repository's record
    row,           \* the contract row: "none", "watched" or "retained"
    obj, live,     \* the swap's objects, and the one in `monitored`, 0 for none
    dirty,
    taken,         \* claimedOutpoints
    refused,       \* refundRefused
    erred,         \* lastClaimError
    pass,          \* the pass that holds the swap's lock
    fetched,       \* what a restore under way has read
    polled,        \* a pass ended in this unit of time
    told, reports  \* history: what waiters were told, and the final reports

world == <<faults, now, kind>>
chain == <<lockup, htlc, since>>
local == <<dirty, taken, refused, erred>>
history == <<told, reports>>
vars == <<world, budget, chain, able, up, rec, row, obj, live, local, pass, fetched,
          polled, history>>

Objects == {1, 2}
States == {"pending", "claimable", "claimed", "needs_counterparty", "settled", "refunded", "failed"}
Terminal == {"settled", "refunded", "failed"}
Fresh == [state |-> "pending", claim |-> FALSE, refund |-> FALSE, funding |-> FALSE]
NoRecord == [state |-> "none"]
NoPass == [pc |-> "idle", obj |-> 0, outs |-> {}, now |-> 0]

LiveOuts == {o \in Outs : lockup[o] = "live"}
Send == kind # "lightning_receive"
Probe == "unprobed" \notin faults

\* A timelock has passed for the chain: surely a while after it did for us.
MayMature(t) == now >= t
HasMatured(t) == now >= t + Lag

Fault(name) == name \in faults /\ budget > 0 /\ budget' = budget - 1
NoFault == UNCHANGED budget

Init ==
    /\ faults \in FaultSets /\ budget = MaxFaults /\ now = 0
    /\ kind \in Kinds
    /\ lockup \in [Outs -> IF Send THEN {"live"} ELSE {"none"}]
    /\ htlc = "none" /\ since = 0
    /\ able = ("unable" \notin faults)
    /\ up = TRUE /\ rec = NoRecord /\ row = "none"
    \* addSwap, with an origin: the first pass writes it.
    /\ obj = [i \in Objects |-> Fresh] /\ live = 1 /\ dirty = TRUE
    /\ taken = {} /\ refused = FALSE /\ erred = FALSE
    /\ pass = NoPass /\ fetched = NoRecord /\ polled = FALSE
    /\ told = "none" /\ reports = 0

-----------------------------------------------------------------------------
(* The solver, the chains and the clock.                                    *)

Elsewhere == <<faults, budget, kind, up, rec, row, obj, live, local, pass, fetched, history>>

\* On a receive the solver funds the lockup, all at once or in parts.
Fund(o) ==
    /\ ~Send /\ lockup[o] = "none" /\ lockup' = [lockup EXCEPT ![o] = "live"]
    /\ UNCHANGED <<Elsewhere, now, able, htlc, since, polled>>

FundHtlc ==
    /\ kind = "onchain_send"
    /\ \/ htlc = "none" /\ htlc' = "seen" /\ UNCHANGED since
       \/ htlc = "seen" /\ htlc' = "confirmed" /\ since' = now
    /\ UNCHANGED <<Elsewhere, now, able, lockup, polled>>

ConfirmClaim ==
    /\ htlc = "claiming" /\ htlc' = "claimed"
    /\ UNCHANGED <<Elsewhere, now, able, lockup, since, polled>>

\* The solver takes the fill back; when our claim was out it has the preimage.
Sweep ==
    /\ MayMature(HtlcTime)
    /\ \/ htlc = "confirmed" /\ htlc' = "swept"
       \/ htlc = "claiming" /\ htlc' = "lost"
    /\ UNCHANGED <<Elsewhere, now, able, lockup, since, polled>>

Spend(how) ==
    \E S \in (SUBSET LiveOuts) \ {{}} :
        lockup' = [o \in Outs |-> IF o \in S THEN how ELSE lockup[o]]

\* Who holds the preimage may claim the lockup: on a Lightning send the solver
\* has it from the payment, on an onchain send from our claim.
SolverClaims ==
    /\ Send
    /\ kind = "onchain_send" => htlc \in {"claiming", "claimed", "lost"}
    /\ Spend("claimed")
    /\ UNCHANGED <<Elsewhere, now, able, htlc, since, polled>>

\* The solver gives a send's lockup back, or takes a receive's back.
SolverReturns ==
    /\ ~Send => MayMature(LockTime)
    /\ Spend("returned")
    /\ UNCHANGED <<Elsewhere, now, able, htlc, since, polled>>

\* The wallet that can sign is restored.
Restored ==
    /\ ~able /\ able' = TRUE
    /\ UNCHANGED <<Elsewhere, now, chain, polled>>

\* A unit of time is long against the interval of the polls, and a claim that
\* was sent confirms within the margin.
Tick ==
    /\ now < MaxTime
    /\ up /\ live # 0 => polled
    /\ htlc = "claiming" => now + 1 < since + Margin
    /\ now' = now + 1 /\ polled' = FALSE
    /\ UNCHANGED <<Elsewhere, able, chain>>

-----------------------------------------------------------------------------
(* A pass (pollSwap, runPass).                                              *)

At(pc) == pass.pc = pc
Goto(pc) == pass' = [pass EXCEPT !.pc = pc]
This == obj[pass.obj]

\* setState, and what else changes of the object.
Set(o) == obj' = [obj EXCEPT ![pass.obj] = o] /\ dirty' = (dirty \/ o # This)
Become(s) == Set([This EXCEPT !.state = s])

Unblocked ==
    IF This.state # "needs_counterparty" THEN This.state
    ELSE IF This.claim THEN "claimed" ELSE "pending"

\* setOnchainState: past the refund window a refusal keeps its label.
OnchainState(s) ==
    IF This.state = "needs_counterparty" /\ now >= LockTime THEN This.state ELSE s

\* What a pass leaves alone until it is saved.
InPass == <<world, able, up, rec, row, live, fetched, polled, history>>

Begin ==
    /\ up /\ live # 0 /\ At("idle")
    /\ pass' = [NoPass EXCEPT !.pc = "fate", !.obj = live]
    /\ row' = IF row = "none" THEN "watched" ELSE row
    /\ UNCHANGED <<world, budget, chain, able, up, rec, obj, live, local, fetched, polled, history>>

\* readLockupFate, of an indexer that answers.
Fate ==
    IF LiveOuts # {} THEN "open"
    ELSE IF \E o \in Outs : lockup[o] = "claimed" THEN "claimed"
    ELSE IF \E o \in Outs : lockup[o] = "returned" THEN "returned"
    ELSE "unknown"

\* Mutant: a swap that is blocked is not driven.
AfterFateBlocked ==
    CASE kind = "lightning_receive" -> "receive"
      [] kind = "onchain_send" /\ This.state \notin {"claimed", "needs_counterparty"} -> "onchain"
      [] OTHER -> "gate"

AfterFate ==
    CASE kind = "lightning_receive" -> "receive"
      [] kind = "onchain_send" /\ This.state # "claimed" -> "onchain"
      [] OTHER -> "gate"

ReadFate ==
    /\ At("fate")
    /\ \/ /\ NoFault /\ Fate \in {"claimed", "returned"}
          /\ Become(IF Fate = "claimed" THEN "settled" ELSE "refunded")
          /\ Goto("save")
       \/ /\ IF Fate \in {"open", "unknown"} THEN NoFault ELSE Fault("read")
          /\ Goto(AfterFate) /\ UNCHANGED <<obj, dirty>>
    /\ UNCHANGED <<InPass, chain, taken, refused, erred>>

\* Mutant: a claim of ours that may be out is not counted.
EnoughAnyway(outs) == outs # {}

\* What is at the lockup is enough to give the preimage away for; once it is
\* out, anything is.
Enough(outs) == This.claim \/ Cardinality(outs) >= Expected

\* driveReceiveClaim and claimIfFunded.
ReceiveOpen ==
    /\ At("receive") /\ now < LockTime
    /\ \/ Fault("read") /\ Goto("save") /\ UNCHANGED <<obj, dirty>>
       \/ /\ NoFault
          /\ CASE LiveOuts = {} -> Become(Unblocked) /\ Goto("save")
               [] LiveOuts # {} /\ This.claim /\ LiveOuts \subseteq taken ->
                    UNCHANGED <<obj, dirty>> /\ Goto("save")
               [] LiveOuts # {} /\ ~(This.claim /\ LiveOuts \subseteq taken) ->
                    IF Enough(LiveOuts)
                    THEN /\ Become("claimable")
                         /\ pass' = [pass EXCEPT !.pc = "claim", !.outs = LiveOuts]
                    ELSE Become("needs_counterparty") /\ Goto("save")
    /\ UNCHANGED <<InPass, chain, taken, refused, erred>>

ReceiveClosed ==
    /\ At("receive") /\ now >= LockTime
    /\ IF now < LockTime + Lag
       THEN IF This.claim THEN UNCHANGED <<obj, dirty>> ELSE Become("needs_counterparty")
       ELSE Become(IF erred /\ ~This.claim THEN "failed" ELSE "refunded")
    /\ Goto("save")
    /\ UNCHANGED <<InPass, budget, chain, taken, refused, erred>>

\* claimLockup: the server takes the spend when all it names is there.
Claim ==
    /\ At("claim")
    /\ \/ /\ NoFault /\ pass.outs \subseteq LiveOuts
          /\ lockup' = [o \in Outs |-> IF o \in pass.outs THEN "claimed" ELSE lockup[o]]
          /\ Goto("claimed") /\ UNCHANGED erred
       \/ /\ IF pass.outs \subseteq LiveOuts THEN Fault("action") ELSE NoFault
          /\ erred' = TRUE /\ Goto("save") /\ UNCHANGED lockup
    /\ UNCHANGED <<InPass, obj, htlc, since, dirty, taken, refused>>

ClaimReturns ==
    /\ At("claimed")
    /\ erred' = FALSE /\ taken' = taken \cup pass.outs
    /\ Set([This EXCEPT !.claim = TRUE, !.state = "claimed"])
    /\ Goto("save")
    /\ UNCHANGED <<InPass, budget, chain, refused>>

\* nextOnchainAction: the claim stays clear of the solver's refund window.
MayClaimHtlc == htlc = "confirmed" /\ now + Margin <= HtlcTime

\* Mutant: while the fill is not there, the pass is over.
ReadHtlcWaits ==
    /\ At("onchain")
    /\ NoFault
    /\ LET seen == [This EXCEPT !.funding = This.funding \/ htlc \in {"seen", "confirmed"}]
       IN  CASE MayClaimHtlc /\ ~This.claim ->
                  Set([seen EXCEPT !.state = OnchainState("claimable")]) /\ Goto("send")
             [] OTHER -> Set(seen) /\ Goto("save")
    /\ UNCHANGED <<InPass, chain, taken, refused, erred>>

\* classifyOnchainHtlc: what is spent reads as never funded when the outpoint
\* is not known.
ReadHtlc ==
    /\ At("onchain")
    /\ \/ Fault("read") /\ Goto("gate") /\ UNCHANGED <<obj, dirty>>
       \/ /\ NoFault
          /\ LET seen == [This EXCEPT !.funding = This.funding \/ htlc \in {"seen", "confirmed"}]
             IN  CASE MayClaimHtlc /\ ~This.claim ->
                        Set([seen EXCEPT !.state = OnchainState("claimable")]) /\ Goto("send")
                   [] htlc \in {"claiming", "claimed"} /\ This.funding ->
                        /\ Set([seen EXCEPT !.claim = TRUE, !.state = OnchainState("claimed")])
                        /\ Goto("gate")
                   [] OTHER -> Set(seen) /\ Goto("gate")
    /\ UNCHANGED <<InPass, chain, taken, refused, erred>>

\* claimOnchainFill looks at the clock again before the preimage goes out.
SendClaim ==
    /\ At("send")
    /\ \/ NoFault /\ MayClaimHtlc /\ htlc' = "claiming" /\ since' = now /\ Goto("sent")
       \/ /\ IF MayClaimHtlc THEN Fault("action") ELSE NoFault
          /\ Goto("save") /\ UNCHANGED <<htlc, since>>
    /\ UNCHANGED <<InPass, obj, lockup, local>>

SendReturns ==
    /\ At("sent")
    /\ Set([This EXCEPT !.claim = TRUE, !.state = OnchainState("claimed")])
    /\ Goto("save")
    /\ UNCHANGED <<InPass, budget, chain, taken, refused, erred>>

\* driveArkadeRefund up to the push.
Gate ==
    /\ At("gate")
    /\ CASE Probe /\ ~able ->
              /\ IF now < LockTime /\ This.state \in {"claimable", "claimed"}
                 THEN UNCHANGED <<obj, dirty>> ELSE Become("needs_counterparty")
              /\ Goto("save") /\ UNCHANGED refused
         [] ~Probe /\ refused -> Goto("save") /\ UNCHANGED <<obj, dirty, refused>>
         [] OTHER ->
              /\ refused' = FALSE /\ Become(Unblocked)
              /\ IF now < LockTime THEN Goto("save")
                 ELSE pass' = [pass EXCEPT !.pc = "push", !.now = now]
    /\ UNCHANGED <<InPass, budget, chain, taken, erred>>

\* The clock was read before the push.
GivesUp(t) == t >= LockTime + Lag

\* refundArkade: everything at the lockup comes back, or there is nothing.
Push ==
    /\ At("push")
    /\ \/ NoFault /\ LiveOuts = {} /\ Become("refunded") /\ Goto("save") /\ UNCHANGED <<lockup, refused>>
       \/ /\ NoFault /\ LiveOuts # {} /\ able
          /\ lockup' = [o \in Outs |-> IF o \in LiveOuts THEN "returned" ELSE lockup[o]]
          /\ Goto("pushed") /\ UNCHANGED <<obj, dirty, refused>>
       \/ /\ NoFault /\ LiveOuts # {} /\ ~able
          /\ refused' = TRUE /\ Become("needs_counterparty") /\ Goto("save") /\ UNCHANGED lockup
       \/ /\ LiveOuts # {} /\ able
          /\ IF HasMatured(LockTime) THEN Fault("action") ELSE NoFault
          /\ IF GivesUp(pass.now) THEN Become("failed") ELSE UNCHANGED <<obj, dirty>>
          /\ Goto("save") /\ UNCHANGED <<lockup, refused>>
    /\ UNCHANGED <<InPass, htlc, since, taken, erred>>

PushReturns ==
    /\ At("pushed")
    /\ Set([This EXCEPT !.refund = TRUE, !.state = "refunded"])
    /\ Goto("save")
    /\ UNCHANGED <<InPass, budget, chain, taken, refused, erred>>

-----------------------------------------------------------------------------
(* The end of a pass: the record, the second store, and then the news.      *)

Decided(o) == o.state \in {"settled", "refunded"} \/ (kind = "onchain_send" /\ o.claim)

\* settleWaiters and finalize.
Conclude ==
    /\ dirty' = FALSE
    /\ told' = IF told # "none" THEN told
               ELSE IF This.state = "failed" THEN "failed"
               ELSE IF Decided(This) THEN "decided" ELSE "none"
    /\ IF This.state \in Terminal /\ live # 0
       THEN /\ live' = 0 /\ taken' = {} /\ refused' = FALSE /\ erred' = FALSE
            /\ reports' = reports + 1
            /\ row' = "retained"
       ELSE UNCHANGED <<live, taken, refused, erred, reports, row>>

EndPass == pass' = NoPass /\ polled' = TRUE
AfterSave == <<world, chain, able, up, obj, fetched>>

\* Nothing changed, and nothing is written.
EndClean ==
    /\ At("save") /\ ~dirty
    /\ Conclude /\ EndPass
    /\ UNCHANGED <<AfterSave, budget, rec>>

\* Mutant: the pass goes on when the record was not written.
SaveRecordAnyway ==
    /\ At("save") /\ dirty /\ Goto("sink")
    /\ \/ NoFault /\ rec' = This
       \/ Fault("write") /\ UNCHANGED rec
    /\ UNCHANGED <<AfterSave, row, live, local, polled, history>>

SaveRecord ==
    /\ At("save") /\ dirty
    /\ \/ NoFault /\ rec' = This /\ Goto("sink") /\ UNCHANGED polled
       \/ Fault("write") /\ EndPass /\ UNCHANGED rec
    /\ UNCHANGED <<AfterSave, row, live, local, history>>

SaveSink ==
    /\ At("sink")
    /\ \/ NoFault /\ Conclude
       \/ Fault("write") /\ UNCHANGED <<row, live, local, history>>
    /\ EndPass
    /\ UNCHANGED <<AfterSave, rec>>

-----------------------------------------------------------------------------
(* The process.                                                             *)

Crash ==
    /\ up /\ Fault("crash")
    /\ up' = FALSE /\ live' = 0 /\ dirty' = FALSE
    /\ taken' = {} /\ refused' = FALSE /\ erred' = FALSE
    /\ pass' = NoPass /\ fetched' = NoRecord /\ polled' = FALSE
    /\ obj' = [i \in Objects |-> Fresh]
    /\ UNCHANGED <<world, chain, able, rec, row, history>>

\* Mutant: swaps that are over are tracked again.
BootAll ==
    /\ ~up /\ up' = TRUE
    /\ IF rec # NoRecord
       THEN live' = 1 /\ obj' = [obj EXCEPT ![1] = rec]
       ELSE UNCHANGED <<live, obj>>
    /\ UNCHANGED <<world, budget, chain, able, rec, row, local, pass, fetched, polled, history>>

\* restoreFromRepository, then start.  A swap whose first record was not written
\* is not there any more.
Boot ==
    /\ ~up /\ up' = TRUE
    /\ IF rec # NoRecord /\ rec.state \notin Terminal
       THEN live' = 1 /\ obj' = [obj EXCEPT ![1] = rec]
       ELSE UNCHANGED <<live, obj>>
    /\ UNCHANGED <<world, budget, chain, able, rec, row, local, pass, fetched, polled, history>>

\* restoreFromRepository while the manager runs: the records, then, a read of
\* the contract later, an object that takes the place of the one there.
RestoreReads ==
    /\ up /\ fetched = NoRecord
    /\ rec # NoRecord /\ rec.state \notin Terminal
    /\ fetched' = rec
    /\ UNCHANGED <<world, budget, chain, able, up, rec, row, obj, live, local, pass, polled, history>>

RestoreTracks ==
    /\ fetched # NoRecord /\ fetched' = NoRecord
    /\ \E i \in Objects :
        /\ i # live /\ (~At("idle") => i # pass.obj)
        /\ obj' = [obj EXCEPT ![i] = fetched] /\ live' = i
    /\ UNCHANGED <<world, budget, chain, able, up, rec, row, local, pass, polled, history>>

-----------------------------------------------------------------------------
PassStep ==
    \/ ReadFate \/ ReceiveOpen \/ ReceiveClosed \/ Claim \/ ClaimReturns
    \/ ReadHtlc \/ SendClaim \/ SendReturns \/ Gate \/ Push \/ PushReturns
    \/ EndClean \/ SaveRecord \/ SaveSink

Next ==
    \/ \E o \in Outs : Fund(o)
    \/ FundHtlc \/ ConfirmClaim \/ Sweep \/ SolverClaims \/ SolverReturns
    \/ Restored \/ Tick
    \/ Begin \/ PassStep
    \/ Crash \/ Boot

Spec == Init /\ [][Next]_vars

\* The same, with an owner who calls restoreFromRepository at any time.
RestoringSpec == Init /\ [][Next \/ RestoreReads \/ RestoreTracks]_vars

\* The manager's timer, its awaits and its restart; time; and the chain for a
\* claim that was sent.  Nothing is assumed of the solver.
FairSpec ==
    /\ Spec
    /\ WF_vars(Begin) /\ WF_vars(PassStep) /\ WF_vars(Boot)
    /\ WF_vars(Tick) /\ WF_vars(ConfirmClaim)

-----------------------------------------------------------------------------
(* Properties.                                                              *)

OutStates == {"none", "live", "claimed", "returned"}
HtlcStates == {"none", "seen", "confirmed", "claiming", "claimed", "swept", "lost"}
Swaps == [state : States, claim : BOOLEAN, refund : BOOLEAN, funding : BOOLEAN]
Pcs == {"idle", "fate", "receive", "claim", "claimed", "onchain", "send", "sent",
        "gate", "push", "pushed", "save", "sink"}
Passes == [pc : Pcs, obj : {0} \cup Objects, outs : SUBSET Outs, now : 0..MaxTime]

\* Types; a claim or a refund that is under way is of the right kind of swap.
TypeOK ==
    /\ faults \in FaultSets /\ budget \in 0..MaxFaults /\ now \in 0..MaxTime
    /\ kind \in Kinds /\ lockup \in [Outs -> OutStates] /\ htlc \in HtlcStates
    /\ since \in 0..now /\ able \in BOOLEAN /\ up \in BOOLEAN
    /\ rec \in Swaps \cup {NoRecord} /\ row \in {"none", "watched", "retained"}
    /\ obj \in [Objects -> Swaps] /\ live \in {0} \cup Objects /\ dirty \in BOOLEAN
    /\ taken \subseteq Outs /\ refused \in BOOLEAN /\ erred \in BOOLEAN
    /\ pass \in Passes /\ fetched \in Swaps \cup {NoRecord} /\ polled \in BOOLEAN
    /\ told \in {"none", "failed", "decided"} /\ reports \in Nat
    /\ At("idle") \/ pass.obj \in Objects
    /\ pass.pc \in {"claim", "claimed", "receive"} => kind = "lightning_receive"
    /\ pass.pc \in {"onchain", "send", "sent"} => kind = "onchain_send"
    /\ pass.pc \in {"gate", "push", "pushed"} => Send

\* The lockup of an onchain send is claimed by nobody who did not pay: the
\* preimage goes out for a fill that ends up ours (ONCHAIN_CLAIM_MARGIN_SECONDS).
NoneForNothing ==
    kind = "onchain_send" /\ (\E o \in Outs : lockup[o] = "claimed")
    => htlc \in {"claiming", "claimed"}

\* A fill that is confirmed in time for an open swap is not lost for any label
\* the swap has, as long as nothing fails (driveOnchain, setOnchainState).
TakesFill ==
    [][live # 0 /\ LiveOuts # {} /\ budget = MaxFaults /\ htlc = "confirmed" /\ htlc' = "swept"
       => since + 2 + Margin > HtlcTime]_vars

\* The preimage of a receive is not given away for less than was agreed
\* (claimIfFunded), whatever arrives between the look and the claim.
NotForLess ==
    [][kind = "lightning_receive" /\ (\A o \in Outs : lockup[o] # "claimed")
       => LET got == {o \in Outs : lockup'[o] = "claimed"}
          IN  got = {} \/ Cardinality(got) >= Expected]_vars

\* What a caller was told, the record says: waiters, and the final report
\* (pollSwap, "Waiters settle AFTER the write").
ToldIsStored ==
    /\ told = "failed" => rec.state = "failed"
    /\ told = "decided" => rec # NoRecord /\ Decided(rec)
    /\ reports > 0 => rec.state \in Terminal

\* The end of a swap is reported once, also across restarts ("Fired once, when
\* a swap leaves monitoring", finalize).
ReportedOnce == reports <= 1

\* A send whose contract is retired has nothing left at the lockup, or it
\* failed (retireContract).
RetiredIsDone == Send /\ row = "retained" => LiveOuts = {} \/ rec.state = "failed"

\* Every swap leaves monitoring, with a send's lockup emptied or the swap
\* failed, or it says that only the counterparty can act.
Ends ==
    <>[](\/ live = 0 /\ (Send /\ rec # NoRecord => LiveOuts = {} \/ rec.state = "failed")
         \/ live # 0 /\ obj[live].state = "needs_counterparty" /\ (~able \/ ~Probe))
=============================================================================

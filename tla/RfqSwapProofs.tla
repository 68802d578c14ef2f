--------------------------- MODULE RfqSwapProofs ---------------------------
(* Theorems about RfqSwap, for every number of outputs, every amount,       *)
(* timelock and number of faults.                                           *)
EXTENDS RfqSwap, TLAPS

-----------------------------------------------------------------------------
(* The inductive invariant.                                                  *)

\* The pass is of the tracked object; a swap that is reported is not tracked.
Held ==
    /\ ~At("idle") => live # 0 /\ pass.obj = live /\ up
    /\ ~up => live = 0
    /\ reports \in {0, 1}
    /\ reports > 0 => live = 0 /\ rec.state \in Terminal

\* What is not dirty is stored; what was told stays so.
Stored ==
    /\ live # 0 /\ ~dirty => rec = obj[live]
    /\ At("sink") => rec = obj[live]
    /\ told = "failed" => rec.state = "failed" /\ live = 0
    /\ told = "decided" =>
         /\ rec # NoRecord
         /\ \/ rec.state \in {"settled", "refunded"} /\ live = 0
            \/ kind = "onchain_send" /\ rec.claim /\ (live # 0 => obj[live].claim)

\* A send that has ended well has nothing left.
Emptied ==
    Send => /\ \A o \in Outs : lockup[o] # "none"
            /\ At("pushed") => LiveOuts = {}
            /\ live # 0 /\ obj[live].state \in {"settled", "refunded"} => LiveOuts = {}
            /\ rec.state \in {"settled", "refunded"} => LiveOuts = {}
            /\ row = "retained" => live = 0 /\ rec.state \in Terminal

\* A preimage that was given away was worth it.
Paid ==
    /\ htlc # "lost"
    /\ htlc = "claiming" => now < since + Margin /\ since + Margin <= HtlcTime
    /\ kind = "onchain_send" /\ (\E o \in Outs : lockup[o] = "claimed")
         => htlc \in {"claiming", "claimed"}
    /\ kind = "lightning_receive" =>
         /\ (live # 0 /\ obj[live].claim) \/ (rec # NoRecord /\ rec.claim) \/ At("claimed")
              => \E o \in Outs : lockup[o] = "claimed"
         /\ At("claim") => pass.outs # {} /\ Enough(pass.outs)

IInv == TypeOK /\ Held /\ Stored /\ Emptied /\ Paid

-----------------------------------------------------------------------------
(* Objects and passes.                                                       *)

LEMMA SetType ==
    ASSUME TypeOK, pass.obj \in Objects, NEW o \in Swaps, Set(o)
    PROVE  /\ obj' \in [Objects -> Swaps] /\ dirty' \in BOOLEAN
           /\ obj'[pass.obj] = o
           /\ ~dirty' => ~dirty /\ o = obj[pass.obj]
BY DEF TypeOK, Set, This

LEMMA SameObject ==
    ASSUME TypeOK, pass.obj \in Objects
    PROVE  This \in Swaps /\ This = obj[pass.obj]
BY DEF TypeOK, This

LEMMA BecomeType ==
    ASSUME TypeOK, pass.obj \in Objects, NEW s \in States, Become(s)
    PROVE  /\ obj' \in [Objects -> Swaps] /\ dirty' \in BOOLEAN
           /\ obj'[pass.obj].state = s /\ obj'[pass.obj].claim = obj[pass.obj].claim
           /\ ~dirty' => ~dirty /\ obj'[pass.obj] = obj[pass.obj]
<1> DEFINE o == [This EXCEPT !.state = s]
<1>1. This \in Swaps /\ This = obj[pass.obj]
  BY SameObject
<1>2. o \in Swaps /\ o.state = s /\ o.claim = This.claim
  BY <1>1 DEF Swaps
<1>3. Set(o)
  BY DEF Become
<1> QED
  BY <1>1, <1>2, <1>3, SetType

LEMMA GotoType ==
    ASSUME TypeOK, NEW pc \in Pcs, Goto(pc)
    PROVE  /\ pass' \in Passes /\ pass'.pc = pc /\ pass'.obj = pass.obj
           /\ pass'.outs = pass.outs
BY DEF TypeOK, Goto, Passes

LEMMA StateTypes ==
    ASSUME TypeOK, pass.obj \in Objects
    PROVE  Unblocked \in {"pending", "claimable", "claimed", "needs_counterparty", "settled",
                         "refunded", "failed"}
           /\ (Unblocked \in {"settled", "refunded", "failed"} => Unblocked = obj[pass.obj].state)
BY SameObject DEF Unblocked, Swaps, States

-----------------------------------------------------------------------------
(* The environment.                                                          *)

\* What the proofs need of a step that leaves the manager alone.
LEMMA Outside ==
    ASSUME RfqAssumption, IInv, UNCHANGED Elsewhere,
           now' \in now..MaxTime, lockup' \in [Outs -> OutStates], htlc' \in HtlcStates,
           since' \in 0..now', able' \in BOOLEAN, polled' \in BOOLEAN,
           Send => {o \in Outs : lockup'[o] = "live"} \subseteq LiveOuts
                   /\ \A o \in Outs : lockup'[o] # "none",
           \A o \in Outs : lockup[o] = "claimed" => lockup'[o] = "claimed",
           Paid'
    PROVE  IInv'
<1> USE DEF IInv
<1>1. TypeOK'
  BY DEF TypeOK, Elsewhere, local, history, RfqAssumption, At, Send
<1>2. Held'
  BY DEF Held, Elsewhere, local, history, At
<1>3. Stored'
  BY DEF Stored, Elsewhere, local, history, At, Decided
<1>4. Emptied'
  BY DEF Emptied, Elsewhere, local, history, At, Send, LiveOuts
<1> QED
  BY <1>1, <1>2, <1>3, <1>4

LEMMA Environment ==
    ASSUME RfqAssumption, IInv,
           \/ \E o \in Outs : Fund(o)
           \/ FundHtlc \/ ConfirmClaim \/ Sweep \/ SolverClaims \/ SolverReturns
           \/ Restored \/ Tick
    PROVE  IInv'
<1> USE DEF Elsewhere, local, chain
<1>0. /\ now \in 0..MaxTime /\ MaxTime \in Nat /\ lockup \in [Outs -> OutStates]
      /\ htlc \in HtlcStates /\ since \in 0..now /\ able \in BOOLEAN /\ polled \in BOOLEAN
      /\ kind \in Kinds
  BY DEF IInv, TypeOK, RfqAssumption
<1>1. ASSUME NEW o \in Outs, Fund(o) PROVE IInv'
  <2>1. lockup' \in [Outs -> OutStates]
        /\ \A p \in Outs : lockup[p] = "claimed" <=> lockup'[p] = "claimed"
    BY <1>1, <1>0 DEF Fund, OutStates
  <2>2. Paid'
    BY <1>1, <2>1 DEF Fund, Paid, IInv, Enough, This, At
  <2> QED
    BY <1>0, <1>1, <2>1, <2>2, Outside DEF Fund
<1>2. CASE FundHtlc
  <2>1. htlc' \in HtlcStates /\ since' \in 0..now'
    BY <1>2, <1>0 DEF FundHtlc, HtlcStates
  <2>2. Paid'
    BY <1>2, <1>0 DEF FundHtlc, Paid, IInv, Enough, This, At
  <2> QED
    BY <1>0, <1>2, <2>1, <2>2, Outside DEF FundHtlc, LiveOuts, IInv, Emptied
<1>3. CASE ConfirmClaim
  <2>1. htlc' \in HtlcStates
    BY <1>3 DEF ConfirmClaim, HtlcStates
  <2>2. Paid'
    BY <1>3, <1>0 DEF ConfirmClaim, Paid, IInv, Enough, This, At
  <2> QED
    BY <1>0, <1>3, <2>1, <2>2, Outside DEF ConfirmClaim, LiveOuts, IInv, Emptied
<1>4. CASE Sweep
  <2>1. now >= HtlcTime
    BY <1>4 DEF Sweep, MayMature
  <2>2. htlc # "claiming"
    BY <2>1, <1>0 DEF IInv, Paid, RfqAssumption
  <2>3. htlc = "confirmed" /\ htlc' = "swept"
    BY <1>4, <2>2 DEF Sweep
  <2>4. Paid'
    BY <1>4, <1>0, <2>3 DEF Sweep, Paid, IInv, Enough, This, At
  <2> QED
    BY <1>0, <1>4, <2>3, <2>4, Outside DEF Sweep, LiveOuts, IInv, Emptied, HtlcStates
<1>5. ASSUME NEW S \in (SUBSET LiveOuts) \ {{}}, NEW how \in {"claimed", "returned"},
             lockup' = [o \in Outs |-> IF o \in S THEN how ELSE lockup[o]]
      PROVE  /\ lockup' \in [Outs -> OutStates]
             /\ {o \in Outs : lockup'[o] = "live"} \subseteq LiveOuts
             /\ \A o \in Outs : lockup[o] # "none" => lockup'[o] # "none"
             /\ \A o \in Outs : lockup[o] = "claimed" => lockup'[o] = "claimed"
             /\ how = "returned" => \A o \in Outs : lockup[o] = "claimed" <=> lockup'[o] = "claimed"
  BY <1>0, <1>5 DEF OutStates, LiveOuts
<1>6. CASE SolverClaims
  <2>1. PICK S \in (SUBSET LiveOuts) \ {{}} :
            lockup' = [o \in Outs |-> IF o \in S THEN "claimed" ELSE lockup[o]]
    BY <1>6 DEF SolverClaims, Spend
  <2>2. kind = "onchain_send" => htlc \in {"claiming", "claimed"}
    BY <1>6 DEF SolverClaims, IInv, Paid
  <2>3. Paid'
    BY <1>6, <2>2 DEF SolverClaims, Paid, IInv, Send
  <2> QED
    BY <1>0, <1>5, <1>6, <2>1, <2>3, Outside DEF SolverClaims, IInv, Emptied
<1>7. CASE SolverReturns
  <2>1. PICK S \in (SUBSET LiveOuts) \ {{}} :
            lockup' = [o \in Outs |-> IF o \in S THEN "returned" ELSE lockup[o]]
    BY <1>7 DEF SolverReturns, Spend
  <2>2. \A o \in Outs : lockup[o] = "claimed" <=> lockup'[o] = "claimed"
    BY <2>1, <1>5
  <2>3. Paid'
    BY <1>7, <2>2 DEF SolverReturns, Paid, IInv, Enough, This, At
  <2> QED
    BY <1>0, <1>5, <1>7, <2>1, <2>3, Outside DEF SolverReturns, IInv, Emptied
<1>8. CASE Restored
  <2>1. Paid'
    BY <1>8 DEF Restored, Paid, IInv, Enough, This, At
  <2> QED
    BY <1>0, <1>8, <2>1, Outside DEF Restored, LiveOuts, IInv, Emptied
<1>9. CASE Tick
  <2>1. now' \in now..MaxTime /\ since' \in 0..now'
    BY <1>9, <1>0 DEF Tick
  <2>2. Paid'
    BY <1>9, <1>0 DEF Tick, Paid, IInv, Enough, This, At
  <2> QED
    BY <1>0, <1>9, <2>1, <2>2, Outside DEF Tick, LiveOuts, IInv, Emptied
<1> QED
  BY <1>1, <1>2, <1>3, <1>4, <1>6, <1>7, <1>8, <1>9

-----------------------------------------------------------------------------
(* A pass.                                                                   *)

\* What the proofs need of a step of a pass before it is saved.
LEMMA Inside ==
    ASSUME RfqAssumption, IInv, UNCHANGED InPass, ~At("idle"), ~At("sink"),
           pass' \in Passes, pass'.obj = pass.obj, pass'.pc \notin {"idle", "sink"},
           pass'.pc \in {"claim", "claimed", "receive"} => kind = "lightning_receive",
           pass'.pc \in {"onchain", "send", "sent"} => kind = "onchain_send",
           pass'.pc \in {"gate", "push", "pushed"} => Send,
           obj' \in [Objects -> Swaps], dirty' \in BOOLEAN,
           ~dirty' => ~dirty /\ obj'[pass.obj] = obj[pass.obj],
           obj[pass.obj].claim => obj'[pass.obj].claim,
           taken' \subseteq Outs, refused' \in BOOLEAN, erred' \in BOOLEAN,
           budget' \in 0..MaxFaults, lockup' \in [Outs -> OutStates], htlc' \in HtlcStates,
           since' \in 0..now,
           Send => {o \in Outs : lockup'[o] = "live"} \subseteq LiveOuts
                   /\ \A o \in Outs : lockup'[o] # "none",
           Send /\ (pass'.pc = "pushed" \/ obj'[pass.obj].state \in {"settled", "refunded"})
             => {o \in Outs : lockup'[o] = "live"} = {},
           Paid'
    PROVE  IInv'
<1> USE DEF IInv, InPass, world, history
<1>0. live # 0 /\ pass.obj = live /\ up
  BY DEF Held
<1>1. TypeOK'
  BY <1>0 DEF TypeOK, At, Send
<1>2. Held'
  BY <1>0 DEF Held, At
<1>3. Stored'
  BY <1>0 DEF Stored, At, Decided
<1>4. Emptied'
  BY <1>0 DEF Emptied, At, Send, LiveOuts
<1> QED
  BY <1>1, <1>2, <1>3, <1>4

\* A pass that runs, with the types it needs.
LEMMA Running ==
    ASSUME RfqAssumption, IInv, ~At("idle")
    PROVE  /\ pass.obj \in Objects /\ pass.obj = live /\ live # 0 /\ up
           /\ This \in Swaps /\ This = obj[live]
           /\ pass \in Passes /\ now \in 0..MaxTime /\ MaxTime \in Nat
           /\ obj \in [Objects -> Swaps] /\ dirty \in BOOLEAN
           /\ taken \subseteq Outs /\ refused \in BOOLEAN /\ erred \in BOOLEAN
           /\ budget \in 0..MaxFaults /\ MaxFaults \in Nat /\ kind \in Kinds
           /\ lockup \in [Outs -> OutStates] /\ htlc \in HtlcStates /\ since \in 0..now
           /\ Send => \A o \in Outs : lockup[o] # "none"
BY SameObject DEF IInv, TypeOK, Held, Emptied

LEMMA Budget ==
    ASSUME RfqAssumption, IInv, NoFault \/ (\E name \in FaultNames : Fault(name))
    PROVE  budget' \in 0..MaxFaults
BY DEF IInv, TypeOK, NoFault, Fault, RfqAssumption

\* A step that leaves the chains alone, and ends nothing.
LEMMA Quiet ==
    ASSUME RfqAssumption, IInv, UNCHANGED InPass, UNCHANGED chain, ~At("idle"), ~At("sink"),
           pass' \in Passes, pass'.obj = pass.obj,
           pass'.pc \notin {"idle", "sink", "claimed", "pushed"},
           pass'.pc = "receive" => kind = "lightning_receive",
           pass'.pc = "claim"
             => kind = "lightning_receive" /\ pass'.outs # {} /\ Enough(pass'.outs),
           pass'.pc \in {"onchain", "send", "sent"} => kind = "onchain_send",
           pass'.pc \in {"gate", "push", "pushed"} => Send,
           obj' \in [Objects -> Swaps], dirty' \in BOOLEAN,
           ~dirty' => ~dirty /\ obj'[pass.obj] = obj[pass.obj],
           obj[pass.obj].claim => obj'[pass.obj].claim,
           kind = "lightning_receive" => obj'[pass.obj].claim = obj[pass.obj].claim,
           taken' \subseteq Outs, refused' \in BOOLEAN, erred' \in BOOLEAN,
           budget' \in 0..MaxFaults,
           Send /\ obj'[pass.obj].state \in {"settled", "refunded"}
             => LiveOuts = {} \/ obj[pass.obj].state \in {"settled", "refunded"}
    PROVE  IInv'
<1>1. pass.obj = live /\ live # 0
  BY Running
<1>2. UNCHANGED <<lockup, htlc, since, kind, now, live, rec>>
  BY DEF chain, InPass, world
<1>3. Paid'
  BY <1>1, <1>2 DEF Paid, IInv, At, Enough, This
<1>4. {o \in Outs : lockup'[o] = "live"} = LiveOuts /\ (\A o \in Outs : lockup'[o] = lockup[o])
  BY <1>2 DEF LiveOuts
<1>5. Send /\ obj'[pass.obj].state \in {"settled", "refunded"} => LiveOuts = {}
  BY <1>1 DEF IInv, Emptied
<1> QED
  BY <1>2, <1>3, <1>4, <1>5, Running, Inside

LEMMA ReadFateStep ==
    ASSUME RfqAssumption, IInv, ReadFate PROVE IInv'
<1>0. At("fate") /\ ~At("idle") /\ ~At("sink")
  BY DEF ReadFate, At
<1>1. UNCHANGED InPass /\ UNCHANGED chain /\ UNCHANGED <<taken, refused, erred>>
  BY DEF ReadFate
<1>2. budget' \in 0..MaxFaults
  BY Budget DEF ReadFate, FaultNames
<1>4. CASE /\ Fate \in {"claimed", "returned"}
           /\ Become(IF Fate = "claimed" THEN "settled" ELSE "refunded") /\ Goto("save")
  <2>1. LiveOuts = {}
    BY <1>4 DEF Fate
  <2>2. PICK s \in {"settled", "refunded"} : Become(s)
    BY <1>4
  <2>3. s \in States
    BY DEF States
  <2>4. /\ obj' \in [Objects -> Swaps] /\ dirty' \in BOOLEAN
        /\ obj'[pass.obj].claim = obj[pass.obj].claim
        /\ ~dirty' => ~dirty /\ obj'[pass.obj] = obj[pass.obj]
    BY <1>0, <2>2, <2>3, Running, BecomeType DEF IInv
  <2>5. pass' \in Passes /\ pass'.pc = "save" /\ pass'.obj = pass.obj
    BY <1>4, GotoType DEF Pcs, IInv
  <2> QED
    BY <1>0, <1>1, <1>2, <2>1, <2>4, <2>5, Running, Quiet
<1>5. CASE Goto(AfterFate) /\ UNCHANGED <<obj, dirty>>
  <2>1. AfterFate \in {"receive", "onchain", "gate"}
        /\ (AfterFate = "receive" => kind = "lightning_receive")
        /\ (AfterFate = "onchain" => kind = "onchain_send")
        /\ (AfterFate = "gate" => Send)
    BY DEF AfterFate, Send
  <2>2. pass' \in Passes /\ pass'.pc = AfterFate /\ pass'.obj = pass.obj
    BY <1>5, <2>1, GotoType DEF Pcs, IInv
  <2> QED
    BY <1>0, <1>1, <1>2, <1>5, <2>1, <2>2, Running, Quiet
<1> QED
  BY <1>4, <1>5 DEF ReadFate

\* Every label that Become can give in a quiet step.
LEMMA Relabel ==
    ASSUME RfqAssumption, IInv, ~At("idle"), NEW s \in States, Become(s)
    PROVE  /\ obj' \in [Objects -> Swaps] /\ dirty' \in BOOLEAN
           /\ obj'[pass.obj].claim = obj[pass.obj].claim /\ obj'[pass.obj].state = s
           /\ ~dirty' => ~dirty /\ obj'[pass.obj] = obj[pass.obj]
BY Running, BecomeType DEF IInv

LEMMA ReceiveOpenStep ==
    ASSUME RfqAssumption, IInv, ReceiveOpen PROVE IInv'
<1>0. At("receive") /\ ~At("idle") /\ ~At("sink") /\ kind = "lightning_receive" /\ ~Send
  BY DEF ReceiveOpen, At, IInv, TypeOK, Send
<1>1. UNCHANGED InPass /\ UNCHANGED chain /\ UNCHANGED <<taken, refused, erred>>
  BY DEF ReceiveOpen
<1>2. budget' \in 0..MaxFaults
  BY Budget DEF ReceiveOpen, FaultNames
<1>3. Unblocked \in States
  BY <1>0, Running, StateTypes DEF States, IInv
<1>4. \/ Goto("save") /\ (UNCHANGED <<obj, dirty>> \/ \E s \in States : Become(s))
      \/ /\ pass' = [pass EXCEPT !.pc = "claim", !.outs = LiveOuts]
         /\ LiveOuts # {} /\ Enough(LiveOuts) /\ \E s \in States : Become(s)
  BY <1>3 DEF ReceiveOpen, States
<1>5. /\ obj' \in [Objects -> Swaps] /\ dirty' \in BOOLEAN
      /\ obj'[pass.obj].claim = obj[pass.obj].claim
      /\ ~dirty' => ~dirty /\ obj'[pass.obj] = obj[pass.obj]
  BY <1>0, <1>4, Relabel, Running
<1>6. CASE Goto("save")
  <2>1. pass' \in Passes /\ pass'.pc = "save" /\ pass'.obj = pass.obj
    BY <1>6, GotoType DEF Pcs, IInv
  <2> QED
    BY <1>0, <1>1, <1>2, <1>5, <2>1, Running, Quiet
<1>7. CASE /\ pass' = [pass EXCEPT !.pc = "claim", !.outs = LiveOuts]
           /\ LiveOuts # {} /\ Enough(LiveOuts)
  <2>1. /\ pass' \in Passes /\ pass'.pc = "claim" /\ pass'.obj = pass.obj
        /\ pass'.outs = LiveOuts
    BY <1>0, <1>7, Running DEF Pcs, Passes, LiveOuts
  <2> QED
    BY <1>0, <1>1, <1>2, <1>5, <1>7, <2>1, Running, Quiet
<1> QED
  BY <1>4, <1>6, <1>7

LEMMA ReceiveClosedStep ==
    ASSUME RfqAssumption, IInv, ReceiveClosed PROVE IInv'
<1>0. At("receive") /\ ~At("idle") /\ ~At("sink") /\ kind = "lightning_receive" /\ ~Send
  BY DEF ReceiveClosed, At, IInv, TypeOK, Send
<1>1. UNCHANGED InPass /\ UNCHANGED chain /\ UNCHANGED <<budget, taken, refused, erred>>
  BY DEF ReceiveClosed
<1>2. UNCHANGED <<obj, dirty>> \/ \E s \in States : Become(s)
  BY DEF ReceiveClosed, States
<1>3. /\ obj' \in [Objects -> Swaps] /\ dirty' \in BOOLEAN
      /\ obj'[pass.obj].claim = obj[pass.obj].claim
      /\ ~dirty' => ~dirty /\ obj'[pass.obj] = obj[pass.obj]
  BY <1>0, <1>2, Relabel, Running
<1>4. pass' \in Passes /\ pass'.pc = "save" /\ pass'.obj = pass.obj
  BY GotoType DEF Pcs, IInv, ReceiveClosed
<1> QED
  BY <1>0, <1>1, <1>3, <1>4, Running, Quiet

\* What the wallet's own spend of the lockup does.
LEMMA OwnSpend ==
    ASSUME RfqAssumption, IInv, ~At("idle"), NEW S \in SUBSET Outs, NEW how \in OutStates,
           how \in {"claimed", "returned"},
           lockup' = [o \in Outs |-> IF o \in S THEN how ELSE lockup[o]],
           \A o \in S : lockup[o] = "live"
    PROVE  /\ lockup' \in [Outs -> OutStates]
           /\ {o \in Outs : lockup'[o] = "live"} = LiveOuts \ S
           /\ Send => \A o \in Outs : lockup'[o] # "none"
           /\ \A o \in Outs : lockup[o] = "claimed" => lockup'[o] = "claimed"
           /\ \A o \in Outs : lockup'[o] = "claimed" => lockup[o] = "claimed" \/ how = "claimed"
           /\ \A o \in S : lockup'[o] = how
BY Running DEF LiveOuts

LEMMA ClaimStep ==
    ASSUME RfqAssumption, IInv, Claim PROVE IInv'
<1>0. At("claim") /\ ~At("idle") /\ ~At("sink") /\ kind = "lightning_receive" /\ ~Send
      /\ pass.outs # {} /\ pass.outs \in SUBSET Outs
  BY DEF Claim, At, IInv, TypeOK, Send, Paid, Passes
<1>1. UNCHANGED InPass /\ UNCHANGED <<obj, htlc, since, dirty, taken, refused>>
  BY DEF Claim
<1>2. budget' \in 0..MaxFaults
  BY Budget DEF Claim, FaultNames
<1>3. CASE /\ pass.outs \subseteq LiveOuts
           /\ lockup' = [o \in Outs |-> IF o \in pass.outs THEN "claimed" ELSE lockup[o]]
           /\ Goto("claimed") /\ UNCHANGED erred
  <2>1. /\ pass' \in Passes /\ pass'.pc = "claimed" /\ pass'.obj = pass.obj
    BY <1>3, GotoType DEF Pcs, IInv
  <2>2. /\ lockup' \in [Outs -> OutStates] /\ \A o \in pass.outs : lockup'[o] = "claimed"
        /\ \A o \in Outs : lockup[o] = "claimed" => lockup'[o] = "claimed"
    BY <1>0, <1>3, OwnSpend DEF OutStates, LiveOuts
  <2>3. Paid'
    BY <1>0, <1>1, <2>1, <2>2 DEF Paid, IInv, At, Enough, This, InPass, world
  <2> QED
    BY <1>0, <1>1, <1>2, <1>3, <2>1, <2>2, <2>3, Running, Inside
<1>4. CASE erred' = TRUE /\ Goto("save") /\ UNCHANGED lockup
  <2>1. /\ pass' \in Passes /\ pass'.pc = "save" /\ pass'.obj = pass.obj
    BY <1>4, GotoType DEF Pcs, IInv
  <2>2. UNCHANGED chain
    BY <1>1, <1>4 DEF chain
  <2> QED
    BY <1>0, <1>1, <1>2, <1>4, <2>1, <2>2, Running, Quiet
<1> QED
  BY <1>3, <1>4 DEF Claim

LEMMA ClaimReturnsStep ==
    ASSUME RfqAssumption, IInv, ClaimReturns PROVE IInv'
<1>0. At("claimed") /\ ~At("idle") /\ ~At("sink") /\ kind = "lightning_receive" /\ ~Send
      /\ pass.outs \in SUBSET Outs /\ \E o \in Outs : lockup[o] = "claimed"
  BY DEF ClaimReturns, At, IInv, TypeOK, Send, Paid, Passes
<1>1. /\ UNCHANGED InPass /\ UNCHANGED <<budget, chain, refused>>
      /\ erred' = FALSE /\ taken' = taken \cup pass.outs
  BY DEF ClaimReturns
<1> DEFINE o == [This EXCEPT !.claim = TRUE, !.state = "claimed"]
<1>2. o \in Swaps /\ o.claim
  BY <1>0, Running DEF Swaps, States
<1>3. /\ obj' \in [Objects -> Swaps] /\ dirty' \in BOOLEAN /\ obj'[pass.obj] = o
      /\ ~dirty' => ~dirty /\ o = obj[pass.obj]
  BY <1>0, <1>2, Running, SetType DEF ClaimReturns, IInv
<1>4. /\ pass' \in Passes /\ pass'.pc = "save" /\ pass'.obj = pass.obj
  BY GotoType DEF Pcs, IInv, ClaimReturns
<1>5. Paid'
  BY <1>0, <1>1, <1>4 DEF Paid, IInv, At, InPass, world, chain
<1>6. taken' \subseteq Outs /\ UNCHANGED <<lockup, htlc, since>>
  BY <1>0, <1>1, Running DEF chain
<1> QED
  BY <1>0, <1>1, <1>2, <1>3, <1>4, <1>5, <1>6, Running, Inside

LEMMA ReadHtlcStep ==
    ASSUME RfqAssumption, IInv, ReadHtlc PROVE IInv'
<1>0. At("onchain") /\ ~At("idle") /\ ~At("sink") /\ kind = "onchain_send" /\ Send
  BY DEF ReadHtlc, At, IInv, TypeOK, Send
<1>1. UNCHANGED InPass /\ UNCHANGED chain /\ UNCHANGED <<taken, refused, erred>>
  BY DEF ReadHtlc
<1>2. budget' \in 0..MaxFaults
  BY Budget DEF ReadHtlc, FaultNames
<1>3. /\ Goto("gate") \/ Goto("send")
      /\ \/ UNCHANGED <<obj, dirty>>
         \/ \E f \in BOOLEAN, c \in {TRUE, This.claim},
               s \in {"claimable", "claimed", This.state} :
              Set([This EXCEPT !.funding = f, !.claim = c, !.state = s])
  <2>1. CASE Goto("gate") /\ UNCHANGED <<obj, dirty>>
    BY <2>1
  <2> DEFINE f == This.funding \/ htlc \in {"seen", "confirmed"}
             seen == [This EXCEPT !.funding = f]
  <2>2. /\ f \in BOOLEAN /\ This \in Swaps
    BY <1>0, Running DEF Swaps
  <2>3. \A s \in {"claimable", "claimed"} : OnchainState(s) \in {s, This.state}
    BY DEF OnchainState
  <2>4. CASE Set([seen EXCEPT !.state = OnchainState("claimable")]) /\ Goto("send")
    <3>1. [seen EXCEPT !.state = OnchainState("claimable")]
            = [This EXCEPT !.funding = f, !.claim = This.claim, !.state = OnchainState("claimable")]
      BY <2>2 DEF Swaps
    <3> QED
      BY <2>2, <2>3, <2>4, <3>1
  <2>5. CASE /\ Set([seen EXCEPT !.claim = TRUE, !.state = OnchainState("claimed")])
             /\ Goto("gate")
    <3>1. [seen EXCEPT !.claim = TRUE, !.state = OnchainState("claimed")]
            = [This EXCEPT !.funding = f, !.claim = TRUE, !.state = OnchainState("claimed")]
      BY <2>2 DEF Swaps
    <3> QED
      BY <2>2, <2>3, <2>5, <3>1
  <2>6. CASE Set(seen) /\ Goto("gate")
    <3>1. seen = [This EXCEPT !.funding = f, !.claim = This.claim, !.state = This.state]
      BY <2>2 DEF Swaps
    <3> QED
      BY <2>2, <2>6, <3>1
  <2> QED
    BY <2>1, <2>4, <2>5, <2>6 DEF ReadHtlc
<1>4. PICK pc \in {"gate", "send"} : Goto(pc)
  BY <1>3
<1>5. /\ pass' \in Passes /\ pass'.pc = pc /\ pass'.obj = pass.obj
  BY <1>4, GotoType DEF Pcs, IInv
<1> DEFINE Kept ==
        /\ obj' \in [Objects -> Swaps] /\ dirty' \in BOOLEAN
        /\ obj[pass.obj].claim => obj'[pass.obj].claim
        /\ obj'[pass.obj].state \in {"claimable", "claimed", obj[pass.obj].state}
        /\ ~dirty' => ~dirty /\ obj'[pass.obj] = obj[pass.obj]
<1>6. Kept
  <2>1. CASE UNCHANGED <<obj, dirty>>
    BY <1>0, <2>1, Running
  <2>2. ASSUME NEW f \in BOOLEAN, NEW c \in {TRUE, This.claim},
               NEW s \in {"claimable", "claimed", This.state},
               Set([This EXCEPT !.funding = f, !.claim = c, !.state = s])
        PROVE  Kept
    <3> DEFINE o == [This EXCEPT !.funding = f, !.claim = c, !.state = s]
    <3>1. o \in Swaps /\ o.state = s /\ (This.claim => o.claim)
      BY <1>0, <2>2, Running DEF Swaps, States
    <3>2. /\ obj' \in [Objects -> Swaps] /\ dirty' \in BOOLEAN /\ obj'[pass.obj] = o
          /\ ~dirty' => ~dirty /\ o = obj[pass.obj]
      BY <1>0, <2>2, <3>1, Running, SetType DEF IInv
    <3>3. This = obj[pass.obj]
      BY DEF This
    <3> QED
      BY <3>1, <3>2, <3>3
  <2> QED
    BY <1>3, <2>1, <2>2
<1> QED
  BY <1>0, <1>1, <1>2, <1>5, <1>6, Running, Quiet

LEMMA SendClaimStep ==
    ASSUME RfqAssumption, IInv, SendClaim PROVE IInv'
<1>0. At("send") /\ ~At("idle") /\ ~At("sink") /\ kind = "onchain_send" /\ Send
  BY DEF SendClaim, At, IInv, TypeOK, Send
<1>1. UNCHANGED InPass /\ UNCHANGED <<obj, lockup, dirty, taken, refused, erred>>
  BY DEF SendClaim, local
<1>2. budget' \in 0..MaxFaults
  BY Budget DEF SendClaim, FaultNames
<1>3. Send /\ obj'[pass.obj].state \in {"settled", "refunded"} => LiveOuts = {}
  BY <1>0, <1>1, Running DEF IInv, Emptied
<1>4. /\ {o \in Outs : lockup'[o] = "live"} = LiveOuts
      /\ \A o \in Outs : lockup'[o] = lockup[o]
  BY <1>1 DEF LiveOuts
<1>5. CASE MayClaimHtlc /\ htlc' = "claiming" /\ since' = now /\ Goto("sent")
  <2>1. /\ pass' \in Passes /\ pass'.pc = "sent" /\ pass'.obj = pass.obj
    BY <1>5, GotoType DEF Pcs, IInv
  <2>2. Paid'
    BY <1>0, <1>1, <1>5, <2>1, Running DEF Paid, IInv, At, InPass, world, MayClaimHtlc, RfqAssumption
  <2> QED
    BY <1>0, <1>1, <1>2, <1>3, <1>4, <1>5, <2>1, <2>2, Running, Inside DEF HtlcStates
<1>6. CASE Goto("save") /\ UNCHANGED <<htlc, since>>
  <2>1. /\ pass' \in Passes /\ pass'.pc = "save" /\ pass'.obj = pass.obj
    BY <1>6, GotoType DEF Pcs, IInv
  <2>2. UNCHANGED chain
    BY <1>1, <1>6 DEF chain
  <2> QED
    BY <1>0, <1>1, <1>2, <1>6, <2>1, <2>2, Running, Quiet
<1> QED
  BY <1>5, <1>6 DEF SendClaim

LEMMA SendReturnsStep ==
    ASSUME RfqAssumption, IInv, SendReturns PROVE IInv'
<1>0. At("sent") /\ ~At("idle") /\ ~At("sink") /\ kind = "onchain_send" /\ Send
  BY DEF SendReturns, At, IInv, TypeOK, Send
<1>1. UNCHANGED InPass /\ UNCHANGED <<budget, chain, taken, refused, erred>>
  BY DEF SendReturns
<1> DEFINE o == [This EXCEPT !.claim = TRUE, !.state = OnchainState("claimed")]
<1>2. o \in Swaps /\ o.claim /\ o.state \in {"claimed", This.state} /\ This = obj[pass.obj]
  BY <1>0, Running DEF Swaps, States, OnchainState, This
<1>3. /\ obj' \in [Objects -> Swaps] /\ dirty' \in BOOLEAN /\ obj'[pass.obj] = o
      /\ ~dirty' => ~dirty /\ o = obj[pass.obj]
  BY <1>0, <1>2, Running, SetType DEF SendReturns, IInv
<1>4. /\ pass' \in Passes /\ pass'.pc = "save" /\ pass'.obj = pass.obj
  BY GotoType DEF Pcs, IInv, SendReturns
<1>5. UNCHANGED chain
  BY <1>1
<1> QED
  BY <1>0, <1>1, <1>2, <1>3, <1>4, <1>5, Running, Quiet

LEMMA GateStep ==
    ASSUME RfqAssumption, IInv, Gate PROVE IInv'
<1>0. At("gate") /\ ~At("idle") /\ ~At("sink") /\ Send /\ kind # "lightning_receive"
  BY DEF Gate, At, IInv, TypeOK, Send
<1>1. UNCHANGED InPass /\ UNCHANGED <<budget, taken, erred>> /\ UNCHANGED chain
  BY DEF Gate
<1>2. /\ \/ Goto("save")
         \/ pass' = [pass EXCEPT !.pc = "push", !.now = now]
      /\ \/ UNCHANGED <<obj, dirty>>
         \/ Become("needs_counterparty")
         \/ Become(Unblocked)
      /\ refused' \in {refused, FALSE}
  BY DEF Gate
<1>3. /\ pass' \in Passes /\ pass'.pc \in {"save", "push"} /\ pass'.obj = pass.obj
  <2>1. CASE Goto("save")
    BY <2>1, GotoType DEF Pcs, IInv
  <2>2. CASE pass' = [pass EXCEPT !.pc = "push", !.now = now]
    BY <1>0, <2>2, Running DEF Passes, Pcs
  <2> QED
    BY <1>2, <2>1, <2>2
<1>4. Unblocked \in States /\ (Unblocked \in Terminal => Unblocked = obj[pass.obj].state)
  BY <1>0, Running, StateTypes DEF States, Terminal, IInv
<1> DEFINE Kept ==
        /\ obj' \in [Objects -> Swaps] /\ dirty' \in BOOLEAN
        /\ obj'[pass.obj].claim = obj[pass.obj].claim
        /\ obj'[pass.obj].state \in {"settled", "refunded"}
             => obj[pass.obj].state \in {"settled", "refunded"}
        /\ ~dirty' => ~dirty /\ obj'[pass.obj] = obj[pass.obj]
<1>5. ASSUME NEW s \in States, Become(s), s \in Terminal => s = obj[pass.obj].state
      PROVE  Kept
  BY <1>0, <1>5, Relabel DEF Terminal
<1>6. Kept
  <2>1. CASE UNCHANGED <<obj, dirty>>
    BY <1>0, <2>1, Running
  <2>2. CASE Become("needs_counterparty")
    BY <1>5, <2>2 DEF States, Terminal
  <2>3. CASE Become(Unblocked)
    BY <1>4, <1>5, <2>3
  <2> QED
    BY <1>2, <2>1, <2>2, <2>3
<1>7. /\ taken' \subseteq Outs /\ refused' \in BOOLEAN /\ erred' \in BOOLEAN
      /\ budget' \in 0..MaxFaults
  BY <1>0, <1>1, <1>2, Running
<1> QED
  BY <1>0, <1>1, <1>3, <1>6, <1>7, Quiet

LEMMA PushStep ==
    ASSUME RfqAssumption, IInv, Push PROVE IInv'
<1>0. At("push") /\ ~At("idle") /\ ~At("sink") /\ Send /\ kind # "lightning_receive"
  BY DEF Push, At, IInv, TypeOK, Send
<1>1. UNCHANGED InPass /\ UNCHANGED <<htlc, since, taken, erred>>
  BY DEF Push
<1>2. budget' \in 0..MaxFaults
  BY Budget DEF Push, FaultNames
<1>3. CASE /\ LiveOuts # {}
           /\ lockup' = [o \in Outs |-> IF o \in LiveOuts THEN "returned" ELSE lockup[o]]
           /\ Goto("pushed") /\ UNCHANGED <<obj, dirty, refused>>
  <2>1. /\ pass' \in Passes /\ pass'.pc = "pushed" /\ pass'.obj = pass.obj
    BY <1>3, GotoType DEF Pcs, IInv
  <2>2. LiveOuts \in SUBSET Outs /\ \A o \in LiveOuts : lockup[o] = "live"
    BY DEF LiveOuts
  <2>3. /\ lockup' \in [Outs -> OutStates] /\ {o \in Outs : lockup'[o] = "live"} = {}
        /\ \A o \in Outs : lockup'[o] # "none"
        /\ \A o \in Outs : lockup'[o] = "claimed" => lockup[o] = "claimed"
    <3>1. lockup \in [Outs -> OutStates] /\ \A o \in Outs : lockup[o] # "none"
      BY <1>0, Running
    <3> QED
      BY <1>3, <3>1 DEF OutStates, LiveOuts
  <2>4. Paid'
    BY <1>0, <1>1, <2>1, <2>3 DEF Paid, IInv, InPass, world
  <2> QED
    BY <1>0, <1>1, <1>2, <1>3, <2>1, <2>3, <2>4, Running, Inside
<1>4. CASE /\ UNCHANGED lockup /\ Goto("save") /\ refused' \in BOOLEAN
           /\ UNCHANGED <<obj, dirty>>
  <2>1. /\ pass' \in Passes /\ pass'.pc = "save" /\ pass'.obj = pass.obj
    BY <1>4, GotoType DEF Pcs, IInv
  <2>2. UNCHANGED chain
    BY <1>1, <1>4 DEF chain
  <2> QED
    BY <1>0, <1>1, <1>2, <1>4, <2>1, <2>2, Running, Quiet
<1>5. ASSUME /\ UNCHANGED lockup /\ Goto("save") /\ refused' \in BOOLEAN,
             NEW s \in States, Become(s), s \in {"settled", "refunded"} => LiveOuts = {}
      PROVE  IInv'
  <2>1. /\ pass' \in Passes /\ pass'.pc = "save" /\ pass'.obj = pass.obj
    BY <1>5, GotoType DEF Pcs, IInv
  <2>2. UNCHANGED chain
    BY <1>1, <1>5 DEF chain
  <2>3. /\ obj' \in [Objects -> Swaps] /\ dirty' \in BOOLEAN
        /\ obj'[pass.obj].claim = obj[pass.obj].claim /\ obj'[pass.obj].state = s
        /\ ~dirty' => ~dirty /\ obj'[pass.obj] = obj[pass.obj]
    BY <1>0, <1>5, Relabel
  <2> QED
    BY <1>0, <1>1, <1>2, <1>5, <2>1, <2>2, <2>3, Running, Quiet
<1>6. refused \in BOOLEAN
  BY <1>0, Running
<1>7. \/ /\ LiveOuts # {}
         /\ lockup' = [o \in Outs |-> IF o \in LiveOuts THEN "returned" ELSE lockup[o]]
         /\ Goto("pushed") /\ UNCHANGED <<obj, dirty, refused>>
      \/ /\ UNCHANGED lockup /\ Goto("save") /\ refused' \in BOOLEAN
         /\ \/ UNCHANGED <<obj, dirty>>
            \/ LiveOuts = {} /\ Become("refunded")
            \/ Become("needs_counterparty")
            \/ Become("failed")
  BY <1>6 DEF Push
<1> QED
  BY <1>3, <1>4, <1>5, <1>7 DEF States

LEMMA PushReturnsStep ==
    ASSUME RfqAssumption, IInv, PushReturns PROVE IInv'
<1>0. /\ At("pushed") /\ ~At("idle") /\ ~At("sink") /\ Send /\ kind # "lightning_receive"
      /\ LiveOuts = {}
  BY DEF PushReturns, At, IInv, TypeOK, Send, Emptied
<1>1. UNCHANGED InPass /\ UNCHANGED <<budget, taken, refused, erred>> /\ UNCHANGED chain
  BY DEF PushReturns
<1> DEFINE o == [This EXCEPT !.refund = TRUE, !.state = "refunded"]
<1>2. o \in Swaps /\ o.claim = This.claim /\ This = obj[pass.obj]
  BY <1>0, Running DEF Swaps, States, This
<1>3. /\ obj' \in [Objects -> Swaps] /\ dirty' \in BOOLEAN /\ obj'[pass.obj] = o
      /\ ~dirty' => ~dirty /\ o = obj[pass.obj]
  BY <1>0, <1>2, Running, SetType DEF PushReturns, IInv
<1>4. /\ pass' \in Passes /\ pass'.pc = "save" /\ pass'.obj = pass.obj
  BY GotoType DEF Pcs, IInv, PushReturns
<1> QED
  BY <1>0, <1>1, <1>2, <1>3, <1>4, Running, Quiet

LEMMA BeginStep ==
    ASSUME RfqAssumption, IInv, Begin PROVE IInv'
<1> USE DEF IInv
<1>0. /\ live # 0 /\ up /\ At("idle")
      /\ pass' = [NoPass EXCEPT !.pc = "fate", !.obj = live]
      /\ row' = IF row = "none" THEN "watched" ELSE row
      /\ UNCHANGED <<world, budget, chain, able, up, rec, obj, live, local, fetched, polled, history>>
  BY DEF Begin
<1> USE DEF world, chain, local, history
<1>1. /\ pass' \in Passes /\ pass'.pc = "fate" /\ pass'.obj = live /\ live \in Objects
      /\ row' \in {"none", "watched", "retained"} /\ (row' = "retained" <=> row = "retained")
  <2>1. pass' = [pc |-> "fate", obj |-> live, outs |-> {}, now |-> 0]
    BY <1>0 DEF NoPass
  <2>2. live \in Objects /\ 0 \in 0..MaxTime /\ row \in {"none", "watched", "retained"}
    BY <1>0 DEF TypeOK, RfqAssumption
  <2> QED
    BY <1>0, <2>1, <2>2 DEF Passes, Pcs
<1>2. TypeOK'
  BY <1>0, <1>1 DEF TypeOK, At, Send
<1>3. Held'
  BY <1>0, <1>1 DEF Held, At
<1>4. Stored'
  BY <1>0, <1>1 DEF Stored, At
<1>5. Emptied'
  BY <1>0, <1>1 DEF Emptied, At, Send, LiveOuts
<1>6. Paid'
  BY <1>0, <1>1 DEF Paid, At
<1> QED
  BY <1>2, <1>3, <1>4, <1>5, <1>6

\* What a swap that is stored tells and leaves behind.
LEMMA Concluding ==
    ASSUME RfqAssumption, IInv, ~At("idle"), Conclude, EndPass, UNCHANGED AfterSave,
           budget' \in 0..MaxFaults, rec' = obj[live]
    PROVE  IInv'
<1> USE DEF IInv
<1> DEFINE o == obj[live]
<1>0. /\ live # 0 /\ This = o /\ o \in Swaps /\ reports = 0 /\ o # NoRecord
  BY Running DEF Held, TypeOK, Swaps, NoRecord, States
<1>1. /\ UNCHANGED <<faults, now, kind, lockup, htlc, since, able, up, obj, fetched>>
      /\ pass' = NoPass /\ polled' = TRUE /\ rec' = o /\ dirty' = FALSE
  BY DEF AfterSave, world, chain, EndPass, Conclude
<1>2. told' = IF told # "none" THEN told
              ELSE IF o.state = "failed" THEN "failed"
              ELSE IF Decided(o) THEN "decided" ELSE "none"
  BY <1>0 DEF Conclude
<1>3. \/ /\ o.state \in Terminal /\ live' = 0 /\ taken' = {} /\ refused' = FALSE
         /\ erred' = FALSE /\ reports' = 1 /\ row' = "retained"
      \/ o.state \notin Terminal /\ UNCHANGED <<live, taken, refused, erred, reports, row>>
  BY <1>0 DEF Conclude
<1>4. pass'.pc = "idle" /\ NoPass \in Passes
  BY <1>1 DEF NoPass, Passes, Pcs, RfqAssumption
<1>5. TypeOK'
  <2>1. told' \in {"none", "failed", "decided"} /\ reports' \in Nat
    BY <1>0, <1>2, <1>3 DEF TypeOK
  <2> QED
    BY <1>0, <1>1, <1>3, <1>4, <2>1 DEF TypeOK, At, Send
<1>6. Held'
  BY <1>0, <1>1, <1>3, <1>4 DEF Held, At
<1>7. Stored'
  BY <1>0, <1>1, <1>2, <1>3, <1>4 DEF Stored, At, Decided, Terminal
<1>8. Emptied'
  BY <1>0, <1>1, <1>3, <1>4 DEF Emptied, At, Send, LiveOuts, Terminal
<1>9. Paid'
  BY <1>0, <1>1, <1>3, <1>4 DEF Paid, At
<1> QED
  BY <1>5, <1>6, <1>7, <1>8, <1>9

LEMMA EndCleanStep ==
    ASSUME RfqAssumption, IInv, EndClean PROVE IInv'
<1>1. ~At("idle") /\ budget' \in 0..MaxFaults /\ rec' = obj[live]
  <2>1. ~At("idle")
    BY DEF EndClean, At
  <2> QED
    BY <2>1, Running DEF EndClean, IInv, Stored
<1> QED
  BY <1>1, Concluding DEF EndClean

LEMMA SaveRecordStep ==
    ASSUME RfqAssumption, IInv, SaveRecord PROVE IInv'
<1> USE DEF IInv
<1>0. At("save") /\ ~At("idle") /\ dirty
  BY DEF SaveRecord, At
<1>1. budget' \in 0..MaxFaults
  BY Budget DEF SaveRecord, FaultNames
<1>2. UNCHANGED <<faults, now, kind, lockup, htlc, since, able, up, obj, fetched, row, live,
                  dirty, taken, refused, erred, told, reports>>
  BY DEF SaveRecord, AfterSave, world, chain, local, history
<1>3. live # 0 /\ up /\ reports = 0 /\ obj[live] \in Swaps /\ This = obj[live]
      /\ pass.obj = live /\ live \in Objects
  BY <1>0, Running DEF Held
<1>4. obj[live] # NoRecord
  BY <1>3 DEF Swaps, NoRecord, States
<1>5. CASE rec' = This /\ Goto("sink") /\ UNCHANGED polled
  <2>1. pass' \in Passes /\ pass'.pc = "sink" /\ pass'.obj = live
    BY <1>3, <1>5, GotoType DEF Pcs
  <2>2. TypeOK'
    BY <1>1, <1>2, <1>3, <1>5, <2>1 DEF TypeOK, At, Send
  <2>3. Held'
    BY <1>2, <1>3, <2>1 DEF Held, At
  <2>4. Stored'
    BY <1>0, <1>2, <1>3, <1>4, <1>5, <2>1 DEF Stored, At
  <2>5. Emptied'
    BY <1>2, <1>3, <1>5, <2>1 DEF Emptied, At, Send, LiveOuts
  <2>6. Paid'
    BY <1>2, <1>3, <1>5, <2>1 DEF Paid, At
  <2> QED
    BY <2>2, <2>3, <2>4, <2>5, <2>6
<1>6. CASE EndPass /\ UNCHANGED rec
  <2>1. pass' \in Passes /\ pass'.pc = "idle" /\ polled' = TRUE
    BY <1>6 DEF EndPass, NoPass, Passes, Pcs, RfqAssumption
  <2>2. TypeOK'
    BY <1>1, <1>2, <1>6, <2>1 DEF TypeOK, At, Send
  <2>3. Held'
    BY <1>2, <1>3, <2>1 DEF Held, At
  <2>4. Stored'
    BY <1>0, <1>2, <1>3, <1>6, <2>1 DEF Stored, At
  <2>5. Emptied'
    BY <1>2, <1>3, <1>6, <2>1 DEF Emptied, At, Send, LiveOuts
  <2>6. Paid'
    BY <1>2, <1>3, <1>6, <2>1 DEF Paid, At
  <2> QED
    BY <2>2, <2>3, <2>4, <2>5, <2>6
<1> QED
  BY <1>5, <1>6 DEF SaveRecord

LEMMA SaveSinkStep ==
    ASSUME RfqAssumption, IInv, SaveSink PROVE IInv'
<1> USE DEF IInv
<1>0. At("sink") /\ ~At("idle") /\ EndPass
  BY DEF SaveSink, At
<1>1. budget' \in 0..MaxFaults
  BY Budget DEF SaveSink, FaultNames
<1>2. UNCHANGED AfterSave /\ rec' = rec /\ rec = obj[live]
  <2>1. rec = obj[live]
    BY <1>0 DEF Stored
  <2> QED
    BY <2>1 DEF SaveSink
<1>3. CASE Conclude
  BY <1>0, <1>1, <1>2, <1>3, Concluding
<1>4. CASE UNCHANGED <<row, live, local, history>>
  <2>0. UNCHANGED <<faults, now, kind, lockup, htlc, since, able, up, obj, fetched, row, live,
                    dirty, taken, refused, erred, told, reports>>
    BY <1>2, <1>4 DEF AfterSave, world, chain, local, history
  <2>1. pass' \in Passes /\ pass'.pc = "idle" /\ polled' = TRUE
    BY <1>0 DEF EndPass, NoPass, Passes, Pcs, RfqAssumption
  <2>2. TypeOK'
    BY <1>1, <1>2, <2>0, <2>1 DEF TypeOK, At, Send
  <2>3. Held'
    BY <1>2, <2>0, <2>1 DEF Held, At
  <2>4. Stored'
    BY <1>2, <2>0, <2>1 DEF Stored, At
  <2>5. Emptied'
    BY <1>2, <2>0, <2>1 DEF Emptied, At, Send, LiveOuts
  <2>6. Paid'
    BY <1>2, <2>0, <2>1 DEF Paid, At
  <2> QED
    BY <2>2, <2>3, <2>4, <2>5, <2>6
<1> QED
  BY <1>3, <1>4 DEF SaveSink

-----------------------------------------------------------------------------
(* The process.                                                              *)

LEMMA CrashStep ==
    ASSUME RfqAssumption, IInv, Crash PROVE IInv'
<1> USE DEF IInv
<1>1. budget' \in 0..MaxFaults
  BY Budget DEF Crash, FaultNames
<1>2. /\ up' = FALSE /\ live' = 0 /\ dirty' = FALSE /\ taken' = {} /\ refused' = FALSE
      /\ erred' = FALSE /\ pass' = NoPass /\ fetched' = NoRecord /\ polled' = FALSE
      /\ obj' = [i \in Objects |-> Fresh]
      /\ UNCHANGED <<faults, now, kind, lockup, htlc, since, able, rec, row, told, reports>>
  BY DEF Crash, world, chain, history
<1>3. NoPass \in Passes /\ NoPass.pc = "idle" /\ Fresh \in Swaps
  BY DEF NoPass, Passes, Pcs, RfqAssumption, Fresh, Swaps, States
<1>4. TypeOK'
  BY <1>1, <1>2, <1>3 DEF TypeOK, At, Send
<1>5. Held'
  BY <1>2, <1>3 DEF Held, At
<1>6. Stored'
  BY <1>2, <1>3 DEF Stored, At
<1>7. Emptied'
  BY <1>2, <1>3 DEF Emptied, At, Send, LiveOuts
<1>8. Paid'
  BY <1>2, <1>3 DEF Paid, At
<1> QED
  BY <1>4, <1>5, <1>6, <1>7, <1>8

LEMMA BootStep ==
    ASSUME RfqAssumption, IInv, Boot PROVE IInv'
<1> USE DEF IInv
<1>1. /\ ~up /\ up' /\ live = 0 /\ At("idle")
      /\ UNCHANGED <<faults, now, kind, budget, lockup, htlc, since, able, rec, row, dirty, taken,
                     refused, erred, pass, fetched, polled, told, reports>>
  BY DEF Boot, world, chain, local, history, Held
<1>2. up' = TRUE
  BY DEF Boot
<1>3. CASE /\ rec # NoRecord /\ rec.state \notin Terminal
           /\ live' = 1 /\ obj' = [obj EXCEPT ![1] = rec]
  <2>1. rec \in Swaps /\ obj' \in [Objects -> Swaps] /\ obj'[1] = rec /\ live' \in Objects
    BY <1>3 DEF TypeOK, Objects
  <2>2. TypeOK'
    BY <1>1, <1>2, <1>3, <2>1 DEF TypeOK, At, Send
  <2>3. Held'
    BY <1>1, <1>2, <1>3 DEF Held, At
  <2>4. Stored'
    BY <1>1, <1>3, <2>1 DEF Stored, At, Terminal
  <2>5. Emptied'
    BY <1>1, <1>3, <2>1 DEF Emptied, At, Send, LiveOuts, Terminal
  <2>6. Paid'
    BY <1>1, <1>3, <2>1 DEF Paid, At
  <2> QED
    BY <2>2, <2>3, <2>4, <2>5, <2>6
<1>4. CASE UNCHANGED <<live, obj>>
  <2>2. TypeOK'
    BY <1>1, <1>2, <1>4 DEF TypeOK, At, Send
  <2>3. Held'
    BY <1>1, <1>2, <1>4 DEF Held, At
  <2>4. Stored'
    BY <1>1, <1>4 DEF Stored, At
  <2>5. Emptied'
    BY <1>1, <1>4 DEF Emptied, At, Send, LiveOuts
  <2>6. Paid'
    BY <1>1, <1>4 DEF Paid, At
  <2> QED
    BY <2>2, <2>3, <2>4, <2>5, <2>6
<1> QED
  BY <1>3, <1>4 DEF Boot

-----------------------------------------------------------------------------
(* The induction.                                                            *)

LEMMA Initially ==
    ASSUME RfqAssumption, Init PROVE IInv
<1>1. NoPass \in Passes /\ NoPass.pc = "idle" /\ Fresh \in Swaps /\ Fresh.claim = FALSE
      /\ NoRecord.state = "none" /\ Fresh.state = "pending"
  BY DEF NoPass, Passes, Pcs, RfqAssumption, Fresh, Swaps, States, NoRecord
<1>2. TypeOK
  <2>1. lockup \in [Outs -> OutStates]
    <3>1. lockup \in [Outs -> {"live"}] \/ lockup \in [Outs -> {"none"}]
      BY DEF Init
    <3> QED
      BY <3>1 DEF OutStates
  <2>2. budget \in 0..MaxFaults /\ now \in 0..MaxTime /\ since \in 0..now
    BY DEF Init, RfqAssumption
  <2>3. /\ obj \in [Objects -> Swaps] /\ live \in {0} \cup Objects /\ pass \in Passes
        /\ At("idle")
    BY <1>1 DEF Init, Objects, At
  <2> QED
    BY <2>1, <2>2, <2>3 DEF Init, TypeOK, HtlcStates, At
<1>3. Held
  BY <1>1 DEF Init, Held, At
<1>4. Stored
  BY <1>1 DEF Init, Stored, At
<1>5. Emptied
  BY <1>1 DEF Init, Emptied, At, Send, LiveOuts, Objects
<1>6. Paid
  BY <1>1 DEF Init, Paid, At, Objects, Send
<1> QED
  BY <1>2, <1>3, <1>4, <1>5, <1>6 DEF IInv

LEMMA Stutter ==
    ASSUME IInv, UNCHANGED vars PROVE IInv'
<1> USE DEF IInv, vars, world, chain, local, history
<1>1. TypeOK'
  BY DEF TypeOK, At, Send
<1>2. Held'
  BY DEF Held, At
<1>3. Stored'
  BY DEF Stored, At, Decided
<1>4. Emptied'
  BY DEF Emptied, At, Send, LiveOuts
<1>5. Paid'
  BY DEF Paid, At, Enough, This
<1> QED
  BY <1>1, <1>2, <1>3, <1>4, <1>5

LEMMA Inductive ==
    ASSUME RfqAssumption, IInv, [Next]_vars PROVE IInv'
<1>1. CASE UNCHANGED vars
  BY <1>1, Stutter
<1>2. CASE PassStep
  BY <1>2, ReadFateStep, ReceiveOpenStep, ReceiveClosedStep, ClaimStep, ClaimReturnsStep,
     ReadHtlcStep, SendClaimStep, SendReturnsStep, GateStep, PushStep, PushReturnsStep,
     EndCleanStep, SaveRecordStep, SaveSinkStep DEF PassStep
<1>3. CASE Begin \/ Crash \/ Boot
  BY <1>3, BeginStep, CrashStep, BootStep
<1> QED
  BY <1>1, <1>2, <1>3, Environment DEF Next

LEMMA Invariant == Spec => []IInv
<1>1. Init => IInv
  BY RfqAssumption, Initially
<1>2. IInv /\ [Next]_vars => IInv'
  BY RfqAssumption, Inductive
<1> QED
  BY <1>1, <1>2, PTL DEF Spec

\* The types, and that a step of a claim or a refund is of the right kind of
\* swap (runPass).
THEOREM TypeCorrect == Spec => []TypeOK
<1>1. IInv => TypeOK
  BY DEF IInv
<1> QED
  BY <1>1, Invariant, PTL

\* The preimage of an onchain send goes out for a fill that ends up ours
\* (nextOnchainAction, ONCHAIN_CLAIM_MARGIN_SECONDS).
THEOREM PaidFor == Spec => []NoneForNothing
<1>1. IInv => NoneForNothing
  BY DEF IInv, Paid, NoneForNothing
<1> QED
  BY <1>1, Invariant, PTL

\* The preimage of a receive is given away for what was agreed (claimIfFunded).
THEOREM PaidInFull == Spec => NotForLess
<1> DEFINE InFull == kind = "lightning_receive" /\ (\A o \in Outs : lockup[o] # "claimed")
       => LET got == {o \in Outs : lockup'[o] = "claimed"}
          IN  got = {} \/ Cardinality(got) >= Expected
<1>1. ASSUME RfqAssumption, IInv, [Next]_vars, kind = "lightning_receive",
             \A o \in Outs : lockup[o] # "claimed"
      PROVE  LET got == {o \in Outs : lockup'[o] = "claimed"}
             IN  got = {} \/ Cardinality(got) >= Expected
  <2> DEFINE got == {o \in Outs : lockup'[o] = "claimed"}
  <2> SUFFICES got # {} => Cardinality(got) >= Expected
    OBVIOUS
  <2>1. CASE Claim
    <3>0. At("claim") /\ ~At("idle") /\ pass.outs \subseteq Outs
      BY <1>1, <2>1 DEF Claim, At, IInv, TypeOK, Passes
    <3>1. CASE lockup' = [o \in Outs |-> IF o \in pass.outs THEN "claimed" ELSE lockup[o]]
      <4>1. got = pass.outs
        BY <1>1, <3>0, <3>1
      <4>2. ~This.claim
        BY <1>1, <3>0, Running DEF IInv, Paid
      <4> QED
        BY <1>1, <3>0, <4>1, <4>2 DEF IInv, Paid, Enough
    <3>2. CASE UNCHANGED lockup
      BY <1>1, <3>2
    <3> QED
      BY <2>1, <3>1, <3>2 DEF Claim
  <2>2. CASE \E o \in Outs : Fund(o)
    <3>1. PICK p \in Outs : lockup' = [lockup EXCEPT ![p] = "live"]
      BY <2>2 DEF Fund
    <3> QED
      BY <1>1, <3>1 DEF IInv, TypeOK
  <2>3. CASE SolverReturns
    BY <1>1, <2>3 DEF SolverReturns, Spend
  <2>4. CASE SolverClaims
    BY <1>1, <2>4 DEF SolverClaims, Send
  <2>5. CASE Push
    <3>1. Send
      BY <1>1, <2>5 DEF Push, At, IInv, TypeOK
    <3> QED
      BY <1>1, <3>1 DEF Send
  <2>6. CASE UNCHANGED lockup
    BY <1>1, <2>6
  <2>7. UNCHANGED lockup \/ Claim \/ SolverReturns \/ SolverClaims \/ Push
        \/ \E o \in Outs : Fund(o)
    BY <1>1 DEF Next, PassStep, vars, chain, FundHtlc, ConfirmClaim, Sweep, Restored, Tick, Begin,
       ReadFate, ReceiveOpen, ReceiveClosed, ClaimReturns, ReadHtlc, SendClaim, SendReturns, Gate,
       PushReturns, EndClean, SaveRecord, SaveSink, AfterSave, Crash, Boot
  <2> QED
    BY <2>1, <2>2, <2>3, <2>4, <2>5, <2>6, <2>7
<1>2. IInv /\ [Next]_vars => [InFull]_vars
  BY <1>1, RfqAssumption
<1> QED
  BY <1>2, Invariant, PTL DEF Spec, NotForLess

\* What a caller was told, the record says (pollSwap).
THEOREM NewsIsStored == Spec => []ToldIsStored
<1>1. IInv => ToldIsStored
  BY DEF IInv, Stored, Held, ToldIsStored, Decided
<1> QED
  BY <1>1, Invariant, PTL

\* One final report, restarts or not (finalize, restoreFromRepository).
THEOREM OneReport == Spec => []ReportedOnce
<1>1. IInv => ReportedOnce
  BY DEF IInv, Held, ReportedOnce
<1> QED
  BY <1>1, Invariant, PTL

\* A contract row is retired over an empty lockup, or a failure
\* (retireContract).
THEOREM RetiredEmpty == Spec => []RetiredIsDone
<1>1. IInv => RetiredIsDone
  BY DEF IInv, Emptied, RetiredIsDone, Terminal
<1> QED
  BY <1>1, Invariant, PTL

-----------------------------------------------------------------------------
(* A fill is taken.                                                          *)

\* While our claim of the fill has not been sent.
Early == kind = "onchain_send" /\ htlc \in {"none", "seen", "confirmed"}

Bare(o) == ~o.claim /\ o.state # "claimed"

\* A claim is on no object and in no record before it is sent.
Unclaimed ==
    /\ htlc # "none" => kind = "onchain_send"
    /\ ~up => budget < MaxFaults
    /\ Early => /\ ~At("sent")
                /\ rec # NoRecord => Bare(rec)
                /\ \A i \in Objects : Bare(obj[i])

\* A fill of an open swap, confirmed in time, while nothing has failed.
Timely ==
    /\ live # 0 /\ LiveOuts # {} /\ budget = MaxFaults
    /\ htlc = "confirmed" /\ since + 2 + Margin <= HtlcTime

\* The pass that saw no fill is over within a unit of time, and in the unit after
\* that the next one has seen it.
Looked ==
    Timely =>
        /\ now <= since + 2
        /\ \/ now = since
           \/ now = since + 1 /\ ~polled
           \/ pass.pc \in {"idle", "fate", "onchain", "send"} /\ (now = since + 2 => ~polled)

LEMMA Forward ==
    ASSUME Next
    PROVE  kind' = kind /\ (Early' => Early)
<1>1. (\E o \in Outs : Fund(o)) \/ FundHtlc \/ ConfirmClaim \/ Sweep \/ SolverClaims
        \/ SolverReturns \/ Restored \/ Tick
      => kind' = kind /\ (Early' => Early)
  BY DEF Fund, FundHtlc, ConfirmClaim, Sweep, SolverClaims, SolverReturns, Restored, Tick,
         Elsewhere, chain, Early
<1>2. PassStep => kind' = kind /\ (Early' => Early)
  BY DEF PassStep, ReadFate, ReceiveOpen, ReceiveClosed, Claim, ClaimReturns, ReadHtlc, SendClaim,
         SendReturns, Gate, Push, PushReturns, EndClean, SaveRecord, SaveSink, AfterSave, InPass,
         world, chain, Early
<1>3. Begin \/ Crash \/ Boot => kind' = kind /\ (Early' => Early)
  BY DEF Begin, Crash, Boot, world, chain, Early
<1> QED
  BY <1>1, <1>2, <1>3 DEF Next

\* An object that a pass gives no claim has none.
LEMMA BareSet ==
    ASSUME RfqAssumption, IInv, ~At("idle"), \A i \in Objects : Bare(obj[i]),
           NEW o \in Swaps, Bare(o), Set(o)
    PROVE  \A i \in Objects : Bare(obj'[i])
BY Running DEF Set, IInv, TypeOK

LEMMA BareBecome ==
    ASSUME RfqAssumption, IInv, ~At("idle"), \A i \in Objects : Bare(obj[i]),
           NEW s \in States \ {"claimed"}, Become(s)
    PROVE  \A i \in Objects : Bare(obj'[i])
<1> DEFINE o == [This EXCEPT !.state = s]
<1>1. This \in Swaps /\ Bare(This)
  BY Running
<1>2. o \in Swaps /\ Bare(o)
  BY <1>1 DEF Swaps, Bare
<1>3. Set(o)
  BY DEF Become
<1> QED
  BY <1>2, <1>3, BareSet

\* A pass of an onchain send gives its object no claim before it is sent.
LEMMA PassBare ==
    ASSUME RfqAssumption, IInv, Early, ~At("sent"), \A i \in Objects : Bare(obj[i]), PassStep
    PROVE  \A i \in Objects : Bare(obj'[i])
<1>1. CASE UNCHANGED obj
  BY <1>1
<1>2. CASE ReadFate
  BY <1>2, BareBecome DEF ReadFate, At, States
<1>3. ~(ReceiveOpen \/ ReceiveClosed \/ Claim \/ ClaimReturns \/ SendReturns)
  BY DEF ReceiveOpen, ReceiveClosed, Claim, ClaimReturns, SendReturns, Early, At, IInv, TypeOK
<1>4. CASE ReadHtlc
  <2>1. ~At("idle") /\ At("onchain")
    BY <1>4 DEF ReadHtlc, At
  <2>2. This \in Swaps /\ Bare(This)
    BY <2>1, Running
  <2> DEFINE seen == [This EXCEPT !.funding = This.funding \/ htlc \in {"seen", "confirmed"}]
  <2>3. seen \in Swaps /\ Bare(seen)
    BY <2>2 DEF Swaps, Bare
  <2>4. OnchainState("claimable") \in States \ {"claimed"}
    BY <2>2 DEF OnchainState, States, Swaps, Bare
  <2>5. /\ [seen EXCEPT !.state = OnchainState("claimable")] \in Swaps
        /\ Bare([seen EXCEPT !.state = OnchainState("claimable")])
    BY <2>2, <2>4 DEF Swaps, Bare
  <2>6. Set(seen) \/ Set([seen EXCEPT !.state = OnchainState("claimable")]) \/ UNCHANGED obj
    BY <1>4 DEF ReadHtlc, Early
  <2> HIDE DEF seen
  <2> QED
    BY <2>1, <2>3, <2>5, <2>6, BareSet
<1>5. CASE Gate
  <2>1. ~At("idle")
    BY <1>5 DEF Gate, At
  <2>2. Unblocked \in States \ {"claimed"}
    BY <2>1, Running DEF Unblocked, Bare, States, Swaps
  <2> QED
    BY <1>5, <2>1, <2>2, BareBecome DEF Gate, States
<1>6. CASE Push
  BY <1>6, BareBecome DEF Push, At, States
<1>7. CASE PushReturns
  <2>1. ~At("idle")
    BY <1>7 DEF PushReturns, At
  <2>2. This \in Swaps /\ Bare(This)
    BY <2>1, Running
  <2>3. /\ [This EXCEPT !.refund = TRUE, !.state = "refunded"] \in Swaps
        /\ Bare([This EXCEPT !.refund = TRUE, !.state = "refunded"])
    BY <2>2 DEF Swaps, Bare, States
  <2> QED
    BY <1>7, <2>1, <2>3, BareSet DEF PushReturns
<1>8. SendClaim \/ EndClean \/ SaveRecord \/ SaveSink => UNCHANGED obj
  BY DEF SendClaim, EndClean, SaveRecord, SaveSink, AfterSave, InPass
<1> QED
  BY <1>1, <1>2, <1>3, <1>4, <1>5, <1>6, <1>7, <1>8 DEF PassStep

\* Faults are only spent.
LEMMA Spent ==
    ASSUME RfqAssumption, IInv, [Next]_vars
    PROVE  budget \in 0..MaxFaults /\ budget' \in 0..budget
<1>1. UNCHANGED budget \/ \E name : Fault(name)
  BY DEF Next, PassStep, vars, Fund, FundHtlc, ConfirmClaim, Sweep, SolverClaims, SolverReturns,
     Restored, Tick, Elsewhere, Begin, ReadFate, ReceiveOpen, ReceiveClosed, Claim, ClaimReturns,
     ReadHtlc, SendClaim, SendReturns, Gate, Push, PushReturns, EndClean, SaveRecord, SaveSink,
     Crash, Boot, NoFault
<1> QED
  BY <1>1 DEF IInv, TypeOK, Fault, RfqAssumption

LEMMA UnclaimedStep ==
    ASSUME RfqAssumption, IInv, Unclaimed, [Next]_vars PROVE Unclaimed'
<1>1. CASE UNCHANGED vars
  BY <1>1 DEF Unclaimed, vars, world, chain, local, Early, At
<1>2. CASE Next
  <2>1. kind' = kind /\ (Early' => Early)
    BY <1>2, Forward
  <2>2. htlc' # "none" => kind = "onchain_send"
    <3>1. CASE FundHtlc
      BY <3>1 DEF FundHtlc
    <3>2. CASE SendClaim
      BY <3>2 DEF SendClaim, At, IInv, TypeOK
    <3>3. htlc' = htlc \/ htlc # "none" \/ FundHtlc \/ SendClaim
      BY <1>2 DEF Next, PassStep, Fund, ConfirmClaim, Sweep, SolverClaims, SolverReturns,
         Restored, Tick, chain, Begin, ReadFate, ReceiveOpen, ReceiveClosed, Claim, ClaimReturns,
         ReadHtlc, SendReturns, Gate, Push, PushReturns, EndClean, SaveRecord, SaveSink, AfterSave,
         Crash, Boot
    <3> QED
      BY <3>1, <3>2, <3>3 DEF Unclaimed
  <2>3. ~up' => budget' < MaxFaults
    <3>1. CASE Crash
      BY <3>1, Spent DEF Crash, Fault, IInv, TypeOK, RfqAssumption
    <3>2. up' = up \/ up' \/ Crash
      BY <1>2 DEF Next, PassStep, Fund, FundHtlc, ConfirmClaim, Sweep, SolverClaims, SolverReturns,
         Restored, Tick, Elsewhere, Begin, ReadFate, ReceiveOpen, ReceiveClosed, Claim,
         ClaimReturns, ReadHtlc, SendClaim, SendReturns, Gate, Push, PushReturns, EndClean,
         SaveRecord, SaveSink, AfterSave, InPass, Boot
    <3> QED
      BY <3>1, <3>2, Spent DEF Unclaimed, RfqAssumption
  <2>4. ASSUME Early' PROVE pass'.pc # "sent"
    <3>1. pass.pc # "sent"
      BY <2>1, <2>4 DEF Unclaimed, At
    <3>2. CASE PassStep
      <4>1. AfterFate \in {"receive", "onchain", "gate"}
        BY DEF AfterFate
      <4>2. pass \in Passes
        BY DEF IInv, TypeOK
      <4>3. CASE SendClaim
        <5>1. Goto("save")
          BY <2>4, <4>3 DEF SendClaim, Early
        <5> QED
          BY <4>2, <5>1 DEF Goto, Passes
      <4>4. CASE ~SendClaim
        <5>1. \/ \E pc \in Pcs \ {"sent"} : Goto(pc)
              \/ pass' = NoPass
              \/ pass' = [pass EXCEPT !.pc = "claim", !.outs = LiveOuts]
              \/ pass' = [pass EXCEPT !.pc = "push", !.now = now]
          BY <3>2, <4>1, <4>4 DEF PassStep, Pcs, ReadFate, ReceiveOpen, ReceiveClosed, Claim,
             ClaimReturns, ReadHtlc, SendReturns, Gate, Push, PushReturns, EndClean, SaveRecord,
             SaveSink, EndPass
        <5>2. /\ \A pc : [pass EXCEPT !.pc = pc].pc = pc
              /\ [pass EXCEPT !.pc = "claim", !.outs = LiveOuts].pc = "claim"
              /\ [pass EXCEPT !.pc = "push", !.now = now].pc = "push"
              /\ NoPass.pc = "idle"
          BY <4>2 DEF Passes, NoPass
        <5> QED
          BY <5>1, <5>2 DEF Goto
      <4> QED
        BY <4>3, <4>4
    <3>3. CASE ~PassStep
      <4>1. pass' = pass \/ pass' = NoPass \/ pass' = [NoPass EXCEPT !.pc = "fate", !.obj = live]
        BY <1>2, <3>3 DEF Next, Fund, FundHtlc, ConfirmClaim, Sweep, SolverClaims,
           SolverReturns, Restored, Tick, Elsewhere, Begin, Crash, Boot
      <4>2. NoPass.pc = "idle" /\ [NoPass EXCEPT !.pc = "fate", !.obj = live].pc = "fate"
        BY DEF NoPass
      <4> QED
        BY <3>1, <4>1, <4>2
    <3> QED
      BY <3>2, <3>3
  <2>5. ASSUME Early' PROVE rec' # NoRecord => Bare(rec')
    <3>1. \A i \in Objects : Bare(obj[i])
      BY <2>1, <2>5 DEF Unclaimed
    <3>2. CASE SaveRecord
      <4>1. ~At("idle") /\ (rec' = rec \/ rec' = This)
        BY <3>2 DEF SaveRecord, At
      <4> QED
        BY <2>1, <2>5, <3>1, <4>1, Running DEF Unclaimed
    <3>3. CASE UNCHANGED rec
      BY <2>1, <2>5, <3>3 DEF Unclaimed
    <3>4. UNCHANGED rec \/ SaveRecord
      BY <1>2 DEF Next, PassStep, Fund, FundHtlc, ConfirmClaim, Sweep, SolverClaims, SolverReturns,
         Restored, Tick, Elsewhere, Begin, ReadFate, ReceiveOpen, ReceiveClosed, Claim,
         ClaimReturns, ReadHtlc, SendClaim, SendReturns, Gate, Push, PushReturns, EndClean,
         SaveSink, AfterSave, InPass, Crash, Boot
    <3> QED
      BY <3>2, <3>3, <3>4
  <2>6. ASSUME Early' PROVE \A i \in Objects : Bare(obj'[i])
    <3>1. /\ Early /\ ~At("sent") /\ \A i \in Objects : Bare(obj[i])
          /\ rec # NoRecord => Bare(rec)
      BY <2>1, <2>6 DEF Unclaimed
    <3>2. CASE PassStep
      BY <3>1, <3>2, PassBare
    <3>3. CASE Crash
      BY <3>3 DEF Crash, Fresh, Bare
    <3>4. CASE Boot
      BY <3>1, <3>4 DEF Boot, IInv, TypeOK
    <3>5. CASE UNCHANGED obj
      BY <3>1, <3>5
    <3>6. UNCHANGED obj \/ PassStep \/ Crash \/ Boot
      BY <1>2 DEF Next, Fund, FundHtlc, ConfirmClaim, Sweep, SolverClaims, SolverReturns,
         Restored, Tick, Elsewhere, Begin
    <3> QED
      BY <3>2, <3>3, <3>4, <3>5, <3>6
  <2> QED
    BY <2>1, <2>2, <2>3, <2>4, <2>5, <2>6 DEF Unclaimed, At
<1> QED
  BY <1>1, <1>2

\* A fill that is in time now was so before, or is confirmed just now.
LEMMA TimelyBefore ==
    ASSUME RfqAssumption, IInv, Unclaimed, Next, Timely'
    PROVE  \/ Timely /\ since' = since
           \/ since' = now /\ now' = now
<1>1. kind = "onchain_send" /\ Send
  BY UnclaimedStep, Forward DEF Timely, Unclaimed, Send
<1>2. budget = MaxFaults /\ budget' = budget
  BY Spent DEF Timely, RfqAssumption
<1>3. up /\ ~Boot /\ ~Crash
  BY <1>2 DEF Unclaimed, Boot, Crash, Fault, IInv, TypeOK, RfqAssumption
<1>4. live # 0
  BY <1>3 DEF Timely, Next, PassStep, Fund, FundHtlc, ConfirmClaim, Sweep, SolverClaims,
     SolverReturns, Restored, Tick, Elsewhere, Begin, ReadFate, ReceiveOpen, ReceiveClosed, Claim,
     ClaimReturns, ReadHtlc, SendClaim, SendReturns, Gate, Push, PushReturns, EndClean, SaveRecord,
     SaveSink, AfterSave, InPass, Conclude
<1>5. LiveOuts # {}
  <2>1. \A o \in Outs : ~Fund(o)
    BY <1>1 DEF Fund
  <2>2. lockup \in [Outs -> OutStates]
    BY DEF IInv, TypeOK
  <2>3. \A o \in Outs : lockup'[o] = "live" => lockup[o] = "live"
    BY <2>1, <2>2 DEF Next, PassStep, FundHtlc, ConfirmClaim, Sweep, SolverClaims,
       SolverReturns, Spend, Restored, Tick, chain, Begin, ReadFate, ReceiveOpen, ReceiveClosed,
       Claim, ClaimReturns, ReadHtlc, SendClaim, SendReturns, Gate, Push, PushReturns, EndClean,
       SaveRecord, SaveSink, AfterSave, Crash, Boot
  <2> QED
    BY <2>3 DEF Timely, LiveOuts
<1>6. \/ htlc = "confirmed" /\ since' = since
      \/ since' = now /\ now' = now
  BY <1>3 DEF Timely, Next, PassStep, Fund, FundHtlc, ConfirmClaim, Sweep, SolverClaims,
     SolverReturns, Restored, Tick, chain, Elsewhere, Begin, ReadFate, ReceiveOpen, ReceiveClosed,
     Claim, ClaimReturns, ReadHtlc, SendClaim, SendReturns, Gate, Push, PushReturns, EndClean,
     SaveRecord, SaveSink, AfterSave
<1> QED
  BY <1>2, <1>4, <1>5, <1>6 DEF Timely

LEMMA LookedStep ==
    ASSUME RfqAssumption, IInv, Unclaimed, Looked, [Next]_vars PROVE Looked'
<1>0. /\ now \in Nat /\ since \in Nat /\ Margin \in Nat /\ HtlcTime \in Nat
      /\ pass \in Passes
  BY DEF IInv, TypeOK, RfqAssumption
<1>1. CASE UNCHANGED vars
  BY <1>1 DEF Looked, Timely, LiveOuts, vars, world, chain, local
<1>2. CASE Next
  <2> SUFFICES ASSUME Timely'
               PROVE  /\ now' <= since' + 2
                      /\ \/ now' = since'
                         \/ now' = since' + 1 /\ ~polled'
                         \/ /\ pass'.pc \in {"idle", "fate", "onchain", "send"}
                            /\ now' = since' + 2 => ~polled'
    BY DEF Looked
  <2>1. CASE since' = now /\ now' = now
    BY <1>0, <2>1
  <2>2. CASE Timely /\ since' = since
    <3>0. /\ now <= since + 2
          /\ \/ now = since
             \/ now = since + 1 /\ ~polled
             \/ /\ pass.pc \in {"idle", "fate", "onchain", "send"}
                /\ now = since + 2 => ~polled
      BY <2>2 DEF Looked
    <3>1. /\ up /\ live # 0 /\ kind = "onchain_send" /\ htlc' = "confirmed"
          /\ budget = MaxFaults /\ budget' = MaxFaults /\ MaxFaults \in Nat
      BY <2>2 DEF Timely, IInv, Held, Unclaimed, RfqAssumption
    <3>2. \A name : ~Fault(name)
      BY <3>1 DEF Fault
    <3>3. CASE Tick
      <4>1. polled /\ now' = now + 1 /\ polled' = FALSE /\ pass' = pass
        BY <3>1, <3>3 DEF Tick, Elsewhere
      <4> QED
        BY <1>0, <2>2, <3>0, <4>1
    <3>4. CASE Begin
      <4>1. UNCHANGED <<now, polled>> /\ pass'.pc = "fate" /\ At("idle")
        BY <3>4 DEF Begin, world, NoPass
      <4> QED
        BY <2>2, <3>0, <4>1 DEF At
    <3>5. CASE PassStep
      <4>1. now' = now
        BY <3>5 DEF PassStep, ReadFate, ReceiveOpen, ReceiveClosed, Claim, ClaimReturns, ReadHtlc,
           SendClaim, SendReturns, Gate, Push, PushReturns, EndClean, SaveRecord, SaveSink,
           AfterSave, InPass, world
      <4>2. CASE At("fate")
        <5>1. ReadFate
          BY <3>5, <4>2 DEF PassStep, At, ReceiveOpen, ReceiveClosed, Claim, ClaimReturns,
             ReadHtlc, SendClaim, SendReturns, Gate, Push, PushReturns, EndClean, SaveRecord,
             SaveSink
        <5>2. Fate = "open"
          BY <2>2 DEF Fate, Timely
        <5>3. ~At("idle") /\ This.state # "claimed"
          BY <2>2, <4>2, Running DEF Unclaimed, Early, Timely, Bare, At
        <5>4. AfterFate = "onchain"
          BY <3>1, <5>3 DEF AfterFate
        <5>5. Goto("onchain") /\ polled' = polled
          BY <5>1, <5>2, <5>4 DEF ReadFate, InPass
        <5> QED
          BY <1>0, <2>2, <3>0, <4>1, <5>5 DEF Goto, Passes
      <4>3. CASE At("onchain")
        <5>1. ReadHtlc
          BY <3>5, <4>3 DEF PassStep, At, ReadFate, ReceiveOpen, ReceiveClosed, Claim,
             ClaimReturns, SendClaim, SendReturns, Gate, Push, PushReturns, EndClean, SaveRecord,
             SaveSink
        <5>2. MayClaimHtlc
          BY <1>0, <2>2, <3>0 DEF MayClaimHtlc, Timely
        <5>3. ~At("idle") /\ ~This.claim
          BY <2>2, <4>3, Running DEF Unclaimed, Early, Timely, Bare, At
        <5>4. polled' = polled
          BY <5>1 DEF ReadHtlc, InPass
        <5>5. Goto("send")
          <6>1. ~Fault("read") /\ htlc \notin {"claiming", "claimed"}
            BY <2>2, <3>2 DEF Timely
          <6> QED
            BY <5>1, <5>2, <5>3, <6>1 DEF ReadHtlc
        <5> QED
          BY <1>0, <2>2, <3>0, <4>1, <5>4, <5>5 DEF Goto, Passes
      <4>4. CASE At("send")
        <5>1. SendClaim
          BY <3>5, <4>4 DEF PassStep, At, ReadFate, ReceiveOpen, ReceiveClosed, Claim,
             ClaimReturns, ReadHtlc, SendReturns, Gate, Push, PushReturns, EndClean, SaveRecord,
             SaveSink
        <5>2. MayClaimHtlc
          BY <1>0, <2>2, <3>0 DEF MayClaimHtlc, Timely
        <5> QED
          BY <3>1, <3>2, <5>1, <5>2 DEF SendClaim
      <4>5. CASE ~At("fate") /\ ~At("onchain") /\ ~At("send")
        <5>1. ~At("idle")
          BY <3>5 DEF PassStep, At, ReadFate, ReceiveOpen, ReceiveClosed, Claim, ClaimReturns,
             ReadHtlc, SendClaim, SendReturns, Gate, Push, PushReturns, EndClean, SaveRecord,
             SaveSink
        <5>2. now = since \/ (now = since + 1 /\ ~polled)
          BY <3>0, <4>5, <5>1 DEF At
        <5>3. polled' = polled \/ pass' = NoPass
          BY <3>5 DEF PassStep, ReadFate, ReceiveOpen, ReceiveClosed, Claim, ClaimReturns,
             ReadHtlc, SendClaim, SendReturns, Gate, Push, PushReturns, EndClean, SaveRecord,
             SaveSink, InPass, EndPass
        <5> QED
          BY <1>0, <2>2, <4>1, <5>2, <5>3 DEF NoPass
      <4> QED
        BY <4>2, <4>3, <4>4, <4>5
    <3>6. ~Crash /\ ~Boot
      BY <3>1, <3>2 DEF Crash, Boot
    <3>7. CASE ~(Tick \/ Begin \/ PassStep)
      <4>1. UNCHANGED <<now, polled, pass>>
        BY <1>2, <3>6, <3>7 DEF Next, Fund, FundHtlc, ConfirmClaim, Sweep, SolverClaims,
           SolverReturns, Restored, Elsewhere, world
      <4> QED
        BY <2>2, <3>0, <4>1
    <3> QED
      BY <3>3, <3>4, <3>5, <3>7
  <2> QED
    BY <1>2, <2>1, <2>2, TimelyBefore
<1> QED
  BY <1>1, <1>2

\* A fill that is confirmed in time for an open swap is not swept, whatever label
\* the swap has, until something fails (driveOnchain, setOnchainState).
THEOREM FillTaken == Spec => TakesFill
<1>1. Init => Unclaimed /\ Looked
  BY DEF Init, Unclaimed, Looked, Timely, NoPass, NoRecord, Fresh, Bare, At
<1>2. IInv /\ Unclaimed /\ Looked /\ [Next]_vars => (Unclaimed /\ Looked)'
  BY RfqAssumption, UnclaimedStep, LookedStep
<1>3. ASSUME IInv, Looked, Next, live # 0, LiveOuts # {}, budget = MaxFaults,
             htlc = "confirmed", htlc' = "swept"
      PROVE  since + 2 + Margin > HtlcTime
  <2>1. Sweep
    BY <1>3 DEF Next, PassStep, Fund, FundHtlc, ConfirmClaim, SolverClaims, SolverReturns,
       Restored, Tick, chain, Begin, ReadFate, ReceiveOpen, ReceiveClosed, Claim, ClaimReturns,
       ReadHtlc, SendClaim, SendReturns, Gate, Push, PushReturns, EndClean, SaveRecord, SaveSink,
       AfterSave, Crash, Boot
  <2>2. now >= HtlcTime
    BY <2>1 DEF Sweep, MayMature
  <2>3. /\ now \in Nat /\ since \in Nat /\ HtlcTime \in Nat /\ Margin \in Nat \ {0}
    BY <1>3, RfqAssumption DEF IInv, TypeOK, RfqAssumption
  <2>4. since + 2 + Margin <= HtlcTime => now <= since + 2
    BY <1>3 DEF Looked, Timely
  <2> QED
    BY <2>2, <2>3, <2>4
<1>4. IInv /\ Looked /\ [Next]_vars
      => [live # 0 /\ LiveOuts # {} /\ budget = MaxFaults /\ htlc = "confirmed" /\ htlc' = "swept"
            => since + 2 + Margin > HtlcTime]_vars
  BY <1>3
<1> QED
  BY <1>1, <1>2, <1>4, Invariant, PTL DEF Spec, TakesFill
=============================================================================

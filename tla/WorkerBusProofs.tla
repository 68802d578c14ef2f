-------------------------- MODULE WorkerBusProofs --------------------------
(***************************************************************************)
(* Proofs about the worker's bus, for any tabs, requests and faults: its    *)
(* types, that its ticks go on, that no request is executed twice, and that *)
(* none fails without a cause.                                              *)
(***************************************************************************)
EXTENDS WorkerBus, SequenceTheorems, TLAPS

Results == {"ok", "error", "notinit", "initializing"}
Answers == [to : Senders, n : Nat, res : Results]
Handlers == [m : Messages, services : {"now", "before"}]
Pcs == {"idle", "sent", "wait", "reinit", "resend"} \cup Ended

BusTyped ==
  /\ initialized \in BOOLEAN /\ ready \in BOOLEAN /\ timer \in BOOLEAN /\ ticking \in BOOLEAN
  /\ inits \in Seq(Inits) /\ phase \in {"idle", "stop", "build"}
  /\ exec \subseteq Handlers
EnvTyped ==
  /\ faults \in FaultSets /\ budget \in 0..MaxFaults /\ times \in [Requests -> Nat]
  /\ hit \in [Senders -> BOOLEAN]
LinkTyped == inbox \in Seq(Messages) /\ out \subseteq Answers
ClientTyped ==
  /\ pc \in [Requests -> Pcs] /\ tries \in [Requests -> Nat]
  /\ reinit \in [Pages -> {"none", "bus", "wallet", "status"}] /\ turn \in [Pages -> Nat]

LEMMA TypeParts ==
  /\ TypeOK <=> BusTyped /\ EnvTyped /\ LinkTyped /\ ClientTyped
  /\ BusTyped' /\ EnvTyped' /\ LinkTyped' /\ ClientTyped' => TypeOK'
  BY DEF TypeOK, BusTyped, EnvTyped, LinkTyped, ClientTyped, Results, Answers, Handlers, Pcs

\* An initialization that runs is the first of the chain.
Runs == phase # "idle" => inits # <<>>

LEMMA AnswerTyped ==
  /\ \A m \in Messages, res \in Results : Answer(m, res) \in Answers
  /\ Inits \subseteq Messages
  BY DEF Answer, Answers, Messages, OfRequests, Inits, Senders

LEMMA FaultTyped ==
  ASSUME EnvTyped, NEW f, UNCHANGED times,
         Fault(f) \/ (Occurs(f) /\ \E p \in Pages : hit' = Passed(p, Struck))
  PROVE  EnvTyped'
<1>1. Struck \in [Senders -> BOOLEAN] BY DEF EnvTyped, Struck, Busy
<1>2. \A p \in Pages : Passed(p, Struck) \in [Senders -> BOOLEAN]
  BY <1>1 DEF Passed, Senders
<1>3. budget' \in 0..MaxFaults /\ faults' = faults
  BY BusAssumption DEF EnvTyped, Fault, Occurs
<1>4. hit' \in [Senders -> BOOLEAN] BY <1>1, <1>2 DEF Fault
<1> QED BY <1>3, <1>4 DEF EnvTyped

LEMMA InitTyped == Init => TypeOK /\ Runs
<1> SUFFICES ASSUME Init PROVE TypeOK /\ Runs
  OBVIOUS
<1>1. LinkTyped /\ BusTyped BY EmptySeq DEF Init, LinkTyped, BusTyped
<1>2. EnvTyped BY BusAssumption DEF Init, EnvTyped
<1>3. ClientTyped BY DEF Init, ClientTyped, Pcs
<1> QED BY <1>1, <1>2, <1>3, TypeParts DEF Init, Runs

\* A message and an initialization are added at the end and taken from the front.
LEMMA QueueTyped ==
  ASSUME NEW S, NEW s \in Seq(S)
  PROVE  /\ \A e \in S : Append(s, e) \in Seq(S) /\ Append(s, e) # <<>>
         /\ s # <<>> => Head(s) \in S /\ Tail(s) \in Seq(S)
         /\ Len(s) > 1 => s # <<>> /\ Tail(s) # <<>>
<1>1. \A e \in S : Append(s, e) \in Seq(S) /\ Append(s, e) # <<>> BY AppendProperties, EmptySeq
<1>2. s # <<>> => Head(s) \in S /\ Tail(s) \in Seq(S) BY HeadTailProperties
<1>3. ASSUME Len(s) > 1 PROVE s # <<>> /\ Tail(s) # <<>>
  <2>1. s # <<>> /\ Len(s) \in Nat BY <1>3, EmptySeq, LenProperties
  <2>2. Len(Tail(s)) = Len(s) - 1 BY <2>1, HeadTailProperties
  <2>3. Len(Tail(s)) # 0 BY <1>3, <2>1, <2>2
  <2> QED BY <2>1, <2>3, EmptySeq
<1> QED BY <1>1, <1>2, <1>3

LEMMA MsgTyped ==
  /\ \A q \in Requests : Msg("request", q, 0) \in Messages
  /\ \A p \in Pages, n \in Nat, k \in {"init", "wallet", "status"} : Msg(k, p, n) \in Messages
  BY DEF Msg, Messages, OfRequests, Inits

LEMMA SendTyped ==
  ASSUME inbox \in Seq(Messages), NEW m \in Messages, inbox' = Append(inbox, m)
  PROVE  inbox' \in Seq(Messages)
  BY QueueTyped

LEMMA InitChainTyped ==
  ASSUME TypeOK, Runs, phase = "build", NextInit
  PROVE  /\ inits' \in Seq(Inits) /\ phase' \in {"idle", "stop"} /\ (phase' # "idle" => inits' # <<>>)
         /\ Head(inits) \in Inits
  BY QueueTyped DEF TypeOK, Runs, NextInit

\* The steps of the bus.
LEMMA BusStepTyped == ASSUME TypeOK, Runs, BusStep PROVE TypeOK' /\ Runs'
<1> USE DEF env, client
<1>0. BusTyped /\ EnvTyped /\ LinkTyped /\ ClientTyped BY TypeParts
<1>1. CASE Receive
  <2>1. Head(inbox) \in Messages /\ inbox' \in Seq(Messages)
    BY <1>1, QueueTyped DEF Receive, TypeOK
  <2>2. ClientTyped' BY <1>0, <1>1 DEF Receive, ClientTyped
  <2>3. CASE Head(inbox).kind = "init"
    <3>1. Head(inbox) \in Inits BY <2>1, <2>3 DEF Messages, OfRequests
    <3>2. inits' = Append(inits, Head(inbox)) /\ phase' = IF inits = <<>> THEN "stop" ELSE phase
      BY <1>1, <2>3 DEF Receive
    <3>3. inits' \in Seq(Inits) /\ inits' # <<>> /\ phase' \in {"idle", "stop", "build"}
      BY <3>1, <3>2, QueueTyped DEF TypeOK
    <3>4. hit' \in [Senders -> BOOLEAN] /\ UNCHANGED <<exec, out, times, faults, budget>>
      BY <1>1, <2>3 DEF Receive
    <3> QED
      BY <1>0, <1>1, <2>1, <2>2, <3>3, <3>4, TypeParts
      DEF Receive, ticks, BusTyped, EnvTyped, LinkTyped, Runs
  <2>4. CASE Head(inbox).kind # "init"
    <3>1. UNCHANGED <<inits, phase, hit, faults, budget>> BY <1>1, <2>4 DEF Receive
    <3>2. exec' \subseteq Handlers /\ out' \subseteq Answers
      <4>1. Handler(Head(inbox), "now") \in Handlers BY <2>1 DEF Handler, Handlers
      <4>2. Answer(Head(inbox), Refusal) \in Answers /\ Answer(Head(inbox), "ok") \in Answers
        BY <2>1, AnswerTyped DEF Refusal, Results
      <4> QED BY <1>0, <1>1, <2>4, <4>1, <4>2 DEF Receive, BusTyped, LinkTyped
    <3>3. times' \in [Requests -> Nat]
      <4>1. Head(inbox).kind = "request" => Head(inbox).from \in Requests
        BY <2>1 DEF Messages, OfRequests, Inits
      <4> QED BY <1>1, <2>4, <4>1 DEF Receive, TypeOK
    <3> QED
      BY <1>0, <1>1, <2>1, <2>2, <3>1, <3>2, <3>3, TypeParts
      DEF Receive, ticks, BusTyped, EnvTyped, LinkTyped, Runs
  <2> QED BY <2>3, <2>4
<1>2. ASSUME NEW h \in exec, HandlerEnds(h) PROVE TypeOK' /\ Runs'
  <2>1. h.m \in Messages BY <1>0 DEF BusTyped, Handlers
  <2>2. out' \subseteq Answers /\ ready' \in BOOLEAN
    BY <1>0, <1>2, <2>1, AnswerTyped DEF HandlerEnds, WalletFails, BusTyped, LinkTyped, Results
  <2>3. EnvTyped'
    <3>1. UNCHANGED times /\ (NoFault \/ Fault("init"))
      BY <1>2 DEF HandlerEnds, WalletFails
    <3>2. CASE NoFault BY <1>0, <3>1, <3>2 DEF NoFault, EnvTyped
    <3>3. CASE Fault("init") BY <1>0, <3>1, <3>3, FaultTyped
    <3> QED BY <3>1, <3>2, <3>3
  <2> QED
    BY <1>0, <1>2, <2>2, <2>3, TypeParts
    DEF HandlerEnds, ticks, BusTyped, LinkTyped, ClientTyped, Runs
<1>3. CASE InitStop
  <2>1. exec' \subseteq Handlers BY <1>0, <1>3 DEF InitStop, BusTyped, Handlers, Handler
  <2> QED
    BY <1>0, <1>3, <2>1, TypeParts
    DEF InitStop, ElseInit, BusTyped, EnvTyped, LinkTyped, ClientTyped, Runs
<1>4. CASE InitDone
  <2>1. out' \subseteq Answers
    BY <1>0, <1>4, InitChainTyped, AnswerTyped DEF InitDone, LinkTyped, Results
  <2> QED
    BY <1>0, <1>4, <2>1, InitChainTyped, TypeParts
    DEF InitDone, NoFault, ElseInit, BusTyped, EnvTyped, LinkTyped, ClientTyped, Runs
<1>5. CASE InitFails
  <2>1. out' \subseteq Answers
    BY <1>0, <1>5, InitChainTyped, AnswerTyped DEF InitFails, LinkTyped, Results
  <2>2. EnvTyped' BY <1>0, <1>5, FaultTyped DEF InitFails, ElseInit
  <2> QED
    BY <1>0, <1>5, <2>1, <2>2, InitChainTyped, TypeParts
    DEF InitFails, ElseInit, ticks, BusTyped, LinkTyped, ClientTyped, Runs
<1>6. CASE Tick \/ TickEnd
  BY <1>0, <1>6, TypeParts
  DEF Tick, TickEnd, ElseTick, bus, BusTyped, EnvTyped, LinkTyped, ClientTyped, Runs
<1> QED BY <1>1, <1>2, <1>3, <1>4, <1>5, <1>6 DEF BusStep

LEMMA ReinitTyped ==
  ASSUME TypeOK, NEW q \in Requests, Reinitialize(q)
  PROVE  /\ pc' \in [Requests -> Pcs] /\ inbox' \in Seq(Messages)
         /\ reinit' \in [Pages -> {"none", "bus", "wallet", "status"}]
<1>1. PageOf[q] \in Pages /\ turn[PageOf[q]] \in Nat BY BusAssumption DEF TypeOK
<1>2. Msg("init", PageOf[q], turn[PageOf[q]]) \in Messages BY <1>1, MsgTyped
<1>3. inbox' \in Seq(Messages) BY <1>2, SendTyped DEF Reinitialize, TypeOK
<1> QED BY <1>1, <1>3 DEF Reinitialize, Becomes, TypeOK, Pcs

LEMMA RequestSendTyped ==
  ASSUME TypeOK, NEW q \in Requests, Send(q)
  PROVE  pc' \in [Requests -> Pcs] /\ inbox' \in Seq(Messages)
  BY MsgTyped, SendTyped DEF Send, Becomes, TypeOK, Pcs

LEMMA AnsweredTyped ==
  ASSUME TypeOK, NEW q \in Requests, NEW res, Answered(q, res)
  PROVE  ClientTyped' /\ inbox' \in Seq(Messages)
<1>1. CASE Reinitialize(q) /\ tries' = [tries EXCEPT ![q] = @ + 1]
  BY <1>1, ReinitTyped DEF Answered, ClientTyped, TypeOK
<1>2. CASE \E p \in {"ok", "wait", "failed"} : Becomes(q, p) /\ UNCHANGED <<inbox, tries, reinit>>
  BY <1>2 DEF Answered, Becomes, ClientTyped, TypeOK, Pcs, Ended
<1> QED BY <1>1, <1>2 DEF Answered

\* The steps of a request.
LEMMA RequestTyped ==
  ASSUME TypeOK, Runs, NEW q \in Requests, Call(q) \/ RequestStep(q)
  PROVE  TypeOK' /\ Runs'
<1> USE DEF ElsePage, bus, ticks
<1>0. BusTyped /\ EnvTyped /\ LinkTyped /\ ClientTyped BY TypeParts
<1>e. /\ BusTyped' /\ EnvTyped' /\ Runs' /\ out' \subseteq Answers
  <2>1. UNCHANGED <<bus, ticks, exec, times>> /\ out' \subseteq out
    BY DEF Call, RequestStep, Hear, TimeOut, Resend, GiveUp
  <2>2. NoFault \/ Fault("slow")
    BY DEF Call, RequestStep, Hear, TimeOut, Resend, GiveUp, NoFault
  <2>3. EnvTyped'
    <3>1. CASE NoFault BY <1>0, <2>1, <3>1 DEF NoFault, env, EnvTyped
    <3>2. CASE Fault("slow") BY <1>0, <2>1, <3>2, FaultTyped
    <3> QED BY <2>2, <3>1, <3>2
  <2> QED BY <1>0, <2>1, <2>3 DEF BusTyped, LinkTyped, Runs
<1>1. ClientTyped' /\ inbox' \in Seq(Messages)
  <2>1. CASE Call(q)
    BY <1>0, <2>1, RequestSendTyped, ReinitTyped DEF Call, ClientTyped
  <2>2. CASE Hear(q)
    <3>1. PICK a \in out : IF At(q, "sent") THEN Answered(q, a.res) ELSE UNCHANGED <<client, inbox>>
      BY <2>2 DEF Hear
    <3>2. CASE Answered(q, a.res) BY <3>2, AnsweredTyped
    <3>3. CASE UNCHANGED <<client, inbox>> BY <1>0, <3>3 DEF client, ClientTyped, LinkTyped
    <3> QED BY <3>1, <3>2, <3>3
  <2>3. CASE TimeOut(q) BY <2>3, AnsweredTyped DEF TimeOut
  <2>4. CASE Resend(q) BY <1>0, <2>4, RequestSendTyped DEF Resend, ClientTyped
  <2>5. CASE GiveUp(q) BY <1>0, <2>5 DEF GiveUp, Becomes, ClientTyped, LinkTyped, Pcs, Ended
  <2> QED BY <2>1, <2>2, <2>3, <2>4, <2>5 DEF RequestStep
<1> QED BY <1>e, <1>1, TypeParts DEF LinkTyped

LEMMA StageTyped ==
  ASSUME TypeOK, NEW p \in Pages, NEW ok, Stage(p, ok), UNCHANGED tries
  PROVE  ClientTyped' /\ inbox' \in Seq(Messages)
<1>1. ASSUME NEW to \in {"wallet", "status"}, Goes(p, to)
      PROVE  ClientTyped' /\ inbox' \in Seq(Messages)
  <2>1. Msg(to, p, turn[p]) \in Messages BY MsgTyped DEF TypeOK
  <2> QED BY <1>1, <2>1, SendTyped DEF Goes, ClientTyped, TypeOK, Pcs
<1>2. ASSUME NEW to \in {"resend", "failed"}, Release(p, to)
      PROVE  ClientTyped' /\ inbox' \in Seq(Messages)
  BY <1>2 DEF Release, ClientTyped, TypeOK, Pcs, Ended
<1> QED BY <1>1, <1>2 DEF Stage

\* The steps of a page.
LEMMA PageTyped ==
  ASSUME TypeOK, Runs, NEW p \in Pages, PageStep(p)
  PROVE  TypeOK' /\ Runs'
<1> USE DEF ElsePage, bus, ticks
<1>0. BusTyped /\ EnvTyped /\ LinkTyped /\ ClientTyped BY TypeParts
<1>1. CASE PageHears(p)
  <2>1. PICK a \in out : IF reinit[p] # "none" /\ a.n = turn[p]
                          THEN Stage(p, a.res = "ok") ELSE UNCHANGED <<pc, reinit, turn, inbox>>
    BY <1>1 DEF PageHears
  <2>2. ClientTyped' /\ inbox' \in Seq(Messages)
    <3>1. CASE Stage(p, a.res = "ok") BY <1>1, <3>1, StageTyped DEF PageHears
    <3>2. CASE UNCHANGED <<pc, reinit, turn, inbox>>
      BY <1>0, <1>1, <3>2 DEF PageHears, ClientTyped, LinkTyped
    <3> QED BY <2>1, <3>1, <3>2
  <2>3. out' \subseteq Answers /\ UNCHANGED env /\ hit' \in [Senders -> BOOLEAN]
    BY <1>0, <1>1 DEF PageHears, LinkTyped, Passed, EnvTyped, Senders
  <2> QED BY <1>0, <1>1, <2>2, <2>3, TypeParts DEF PageHears, env, BusTyped, EnvTyped, LinkTyped, Runs
<1>2. CASE PageTimeOut(p)
  <2>1. ClientTyped' /\ inbox' \in Seq(Messages) BY <1>2, StageTyped DEF PageTimeOut
  <2>2. EnvTyped'
    <3>0. UNCHANGED times BY <1>2 DEF PageTimeOut
    <3>1. CASE Occurs("slow") /\ hit' = Passed(p, Struck) BY <1>0, <3>0, <3>1, FaultTyped
    <3>2. CASE UNCHANGED env /\ hit' = Passed(p, hit)
      BY <1>0, <3>0, <3>2 DEF env, EnvTyped, Passed, Senders
    <3> QED BY <1>2, <3>1, <3>2 DEF PageTimeOut
  <2> QED BY <1>0, <1>2, <2>1, <2>2, TypeParts DEF PageTimeOut, BusTyped, LinkTyped, Runs
<1> QED BY <1>1, <1>2 DEF PageStep

LEMMA KillTyped == ASSUME TypeOK, Kill PROVE TypeOK' /\ Runs'
<1>0. BusTyped /\ EnvTyped /\ LinkTyped /\ ClientTyped BY TypeParts
<1>1. EnvTyped' BY <1>0, FaultTyped DEF Kill
<1>2. inits' \in Seq(Inits) /\ inbox' \in Seq(Messages) BY <1>0, EmptySeq DEF Kill, LinkTyped
<1> QED BY <1>0, <1>1, <1>2, TypeParts DEF Kill, client, BusTyped, LinkTyped, ClientTyped, Runs

LEMMA StepTyped == TypeOK /\ Runs /\ [Next]_vars => TypeOK' /\ Runs'
<1> SUFFICES ASSUME TypeOK, Runs, [Next]_vars PROVE TypeOK' /\ Runs'
  OBVIOUS
<1>1. CASE UNCHANGED vars
  BY <1>1 DEF vars, env, bus, ticks, client, TypeOK, Runs
<1> QED BY <1>1, BusStepTyped, KillTyped, RequestTyped, PageTyped DEF Next

\* The types of the worker's, the pages' and the messages' state hold in every
\* behaviour; an initialization that runs is the first of the chain.
THEOREM TypeCorrect == Spec => [](TypeOK /\ Runs)
<1> QED BY InitTyped, StepTyped, PTL DEF Spec

-----------------------------------------------------------------------------

\* TicksGoOn alone is not inductive: when an initialization fails, the bus must have
\* been taken down before it.
Ticks == TicksGoOn /\ (phase = "build" => ~initialized)

\* A tick is scheduled when the bus comes up, and by each tick that ends.
LEMMA TicksKept == TypeOK /\ Ticks /\ [Next]_vars => Ticks'
<1> SUFFICES ASSUME TypeOK, Ticks, [Next]_vars PROVE Ticks'
  OBVIOUS
<1> USE DEF Ticks, TicksGoOn, Accepts
<1>1. CASE Receive
  <2>1. CASE Head(inbox).kind = "init"
    <3>1. Head(inbox) \in Inits /\ inits \in Seq(Inits)
      BY <1>1, <2>1, QueueTyped DEF Receive, TypeOK, Messages, OfRequests
    <3>2. Append(inits, Head(inbox)) # <<>> BY <3>1, QueueTyped
    <3> QED BY <1>1, <2>1, <3>2 DEF Receive
  <2>2. CASE Head(inbox).kind # "init" BY <1>1, <2>2 DEF Receive, ticks
  <2> QED BY <2>1, <2>2
<1>2. CASE \E h \in exec : HandlerEnds(h) BY <1>2 DEF HandlerEnds, ticks
<1>3. CASE InitStop \/ Kill BY <1>3 DEF InitStop, Kill
<1>4. CASE InitDone
  <2>1. timer' = ~ticking /\ ticking' = ticking /\ phase' # "build"
    BY <1>4 DEF InitDone, NextInit
  <2> QED BY <2>1
<1>5. CASE InitFails
  <2>1. initialized' = initialized /\ ~initialized BY <1>5 DEF InitFails
  <2> QED BY <2>1
<1>6. CASE Tick
  <2>1. UNCHANGED <<initialized, inits, phase>> /\ (inits = <<>> => ticking')
    BY <1>6 DEF Tick, ElseTick, bus
  <2> QED BY <2>1
<1>t. CASE TickEnd BY <1>t DEF TickEnd, ElseTick, bus
<1>7. ASSUME NEW q \in Requests, Call(q) \/ RequestStep(q) PROVE Ticks'
  <2>1. UNCHANGED <<bus, ticks>>
    BY <1>7 DEF Call, RequestStep, Hear, TimeOut, Resend, GiveUp, ElsePage
  <2> QED BY <2>1 DEF bus, ticks
<1>8. ASSUME NEW p \in Pages, PageStep(p) PROVE Ticks'
  <2>1. UNCHANGED <<bus, ticks>> BY <1>8 DEF PageStep, PageHears, PageTimeOut, ElsePage
  <2> QED BY <2>1 DEF bus, ticks
<1>9. CASE UNCHANGED vars BY <1>9 DEF vars, bus, ticks
<1> QED BY <1>1, <1>2, <1>3, <1>4, <1>5, <1>6, <1>t, <1>7, <1>8, <1>9 DEF Next, BusStep

\* As long as the bus takes messages and no initialization is under way, a tick is
\* scheduled or runs, through kills, failed builds and tabs that initialize it at once.
THEOREM TicksAlwaysGoOn == Spec => []TicksGoOn
<1>1. Init => Ticks BY DEF Init, Ticks, TicksGoOn
<1>2. Ticks => TicksGoOn BY DEF Ticks
<1> QED BY <1>1, <1>2, TypeCorrect, TicksKept, PTL DEF Spec

-----------------------------------------------------------------------------

\* What is under way of a request: its message, its handler and its answer.
NoIn(q) == \A i \in DOMAIN inbox : inbox[i].from # q
OneIn(q) == \A i, j \in DOMAIN inbox : inbox[i].from = q /\ inbox[j].from = q => i = j
NoExec(q) == \A h \in exec : h.m.from # q
OneExec(q) == \A g, h \in exec : g.m.from = q /\ h.m.from = q => g = h
NoOut(q) == \A a \in out : a.to # q
OneOut(q) == \A a, b \in out : a.to = q /\ b.to = q => a = b
Unsent == {"idle", "wait", "reinit", "resend"}
Refused(q) == \E a \in out : a.to = q /\ a.res \in {"notinit", "initializing"}

\* There is one of the three at most, and none while the page may send it again; what
\* was refused was not handed to the wallet.
Once(q) ==
  /\ OneIn(q) /\ OneExec(q) /\ OneOut(q)
  /\ NoIn(q) \/ (NoExec(q) /\ NoOut(q) /\ times[q] = 0)
  /\ NoExec(q) \/ NoOut(q)
  /\ pc[q] \in Unsent => NoIn(q) /\ NoExec(q) /\ NoOut(q) /\ times[q] = 0
  /\ Refused(q) => times[q] = 0
  /\ times[q] <= 1
AllOnce == \A q \in Requests : Once(q)

\* The messages of q when another is added, its own is, and the first is taken.
LEMMA InboxOf ==
  ASSUME TypeOK, NEW q \in Requests
  PROVE  /\ \A m \in Messages : inbox' = Append(inbox, m) /\ m.from # q
                => (NoIn(q) => NoIn(q)') /\ (OneIn(q) => OneIn(q)')
         /\ \A m \in Messages : inbox' = Append(inbox, m) /\ NoIn(q) => OneIn(q)'
         /\ inbox # <<>> /\ inbox' = Tail(inbox)
                => /\ NoIn(q) => NoIn(q)'
                   /\ OneIn(q) => OneIn(q)'
                   /\ OneIn(q) /\ Head(inbox).from = q => NoIn(q)'
                   /\ Head(inbox).from = q => ~NoIn(q)
<1>0. inbox \in Seq(Messages) /\ Len(inbox) \in Nat /\ DOMAIN inbox = 1..Len(inbox)
  BY LenProperties DEF TypeOK
<1>1. ASSUME NEW m \in Messages, inbox' = Append(inbox, m)
      PROVE  /\ DOMAIN inbox' = 1..(Len(inbox) + 1)
             /\ \A i \in 1..Len(inbox) : inbox'[i] = inbox[i]
             /\ inbox'[Len(inbox) + 1] = m
  BY <1>0, <1>1, AppendProperties, LenProperties
<1>2. ASSUME inbox # <<>>, inbox' = Tail(inbox)
      PROVE  /\ DOMAIN inbox' = 1..(Len(inbox) - 1)
             /\ \A i \in 1..(Len(inbox) - 1) : inbox'[i] = inbox[i + 1]
             /\ Head(inbox) = inbox[1] /\ Len(inbox) > 0
  BY <1>0, <1>2, HeadTailProperties, LenProperties, EmptySeq
<1>3. ASSUME NEW m \in Messages, inbox' = Append(inbox, m), m.from # q
      PROVE  (NoIn(q) => NoIn(q)') /\ (OneIn(q) => OneIn(q)')
  BY <1>0, <1>1, <1>3 DEF NoIn, OneIn
<1>4. ASSUME NEW m \in Messages, inbox' = Append(inbox, m), NoIn(q) PROVE OneIn(q)'
  BY <1>0, <1>1, <1>4 DEF NoIn, OneIn
<1>5. ASSUME inbox # <<>>, inbox' = Tail(inbox)
      PROVE  /\ NoIn(q) => NoIn(q)'
             /\ OneIn(q) => OneIn(q)'
             /\ OneIn(q) /\ Head(inbox).from = q => NoIn(q)'
             /\ Head(inbox).from = q => ~NoIn(q)
  BY <1>0, <1>2, <1>5 DEF NoIn, OneIn
<1> QED BY <1>3, <1>4, <1>5

\* A step that adds nothing of q.
LEMMA Untouched ==
  ASSUME NEW q \in Requests, Once(q),
         NoIn(q) => NoIn(q)', OneIn(q)', NoExec(q) => NoExec(q)', OneExec(q)',
         \A a \in out' : a.to = q => a \in out,
         times'[q] = times[q], pc'[q] \in Unsent => pc[q] \in Unsent
  PROVE  Once(q)'
<1>1. OneOut(q)' /\ (NoOut(q) => NoOut(q)') /\ (Refused(q)' => Refused(q))
  BY DEF Once, OneOut, NoOut, Refused
<1> QED BY <1>1 DEF Once

\* Pages are no requests.
LEMMA FromPage == \A p \in Pages, q \in Requests : p # q
  BY BusAssumption

LEMMA ReceiveOnce ==
  ASSUME TypeOK, NEW q \in Requests, Once(q), Receive
  PROVE  Once(q)'
<1> DEFINE m == Head(inbox)
<1>1. m \in Messages /\ inbox # <<>> /\ inbox' = Tail(inbox)
  BY QueueTyped DEF Receive, TypeOK
<1>2. pc' = pc BY DEF Receive, client
<1>3. (NoIn(q) => NoIn(q)') /\ OneIn(q)' BY <1>1, InboxOf DEF Once
<1>4. CASE m.from # q
  <2>1. /\ \A a \in out' : a.to = q => a \in out
        /\ \A h \in exec' : h.m.from = q => h \in exec
        /\ exec \subseteq exec'
    BY <1>4 DEF Receive, Answer, Handler
  <2>2. (NoExec(q) => NoExec(q)') /\ OneExec(q)' BY <2>1 DEF Once, NoExec, OneExec
  <2>3. times'[q] = times[q] BY <1>4 DEF Receive, TypeOK
  <2> QED BY <1>2, <1>3, <2>1, <2>2, <2>3, Untouched
<1>5. CASE m.from = q
  <2>1. m.kind = "request"
    BY <1>1, <1>5, FromPage DEF Messages, OfRequests, Inits
  <2>2. NoIn(q)' /\ NoExec(q) /\ NoOut(q) /\ times[q] = 0 /\ pc[q] \notin Unsent
    BY <1>1, <1>5, InboxOf DEF Once
  <2>3. CASE ~Accepts
    <3>1. out' = out \cup {Answer(m, Refusal)} /\ UNCHANGED <<exec, times>>
      BY <2>1, <2>3 DEF Receive
    <3>2. OneOut(q)' BY <2>2, <3>1 DEF NoOut, OneOut
    <3>3. NoExec(q)' /\ OneExec(q)' /\ times'[q] = 0 BY <2>2, <3>1 DEF NoExec, OneExec
    <3> QED BY <1>2, <1>3, <2>2, <3>2, <3>3 DEF Once
  <2>4. CASE Accepts
    <3>1. exec' = exec \cup {Handler(m, "now")} /\ UNCHANGED out /\ times' = [times EXCEPT ![q] = @ + 1]
      BY <1>5, <2>1, <2>4 DEF Receive
    <3>2. OneExec(q)' BY <2>2, <3>1 DEF NoExec, OneExec
    <3>3. NoOut(q)' /\ OneOut(q)' /\ ~Refused(q)' BY <2>2, <3>1 DEF NoOut, OneOut, Refused
    <3>4. times'[q] = 1 BY <2>2, <3>1 DEF TypeOK
    <3> QED BY <1>2, <1>3, <2>2, <3>2, <3>3, <3>4 DEF Once
  <2> QED BY <2>3, <2>4
<1> QED BY <1>4, <1>5

LEMMA HandlerOnce ==
  ASSUME TypeOK, NEW q \in Requests, Once(q), NEW h \in exec, HandlerEnds(h)
  PROVE  Once(q)'
<1>1. /\ pc' = pc /\ times' = times /\ inbox' = inbox /\ exec' = exec \ {h}
      /\ out' \in {out, out \cup {Answer(h.m, "ok")}, out \cup {Answer(h.m, "error")}}
  BY DEF HandlerEnds, WalletFails, client
<1>2. (NoIn(q)' <=> NoIn(q)) /\ OneIn(q)' BY <1>1 DEF Once, NoIn, OneIn
<1>3. (NoExec(q) => NoExec(q)') /\ OneExec(q)' BY <1>1 DEF Once, NoExec, OneExec
<1>4. CASE h.m.from # q
  <2>1. \A a \in out' : a.to = q => a \in out BY <1>1, <1>4 DEF Answer
  <2> QED BY <1>1, <1>2, <1>3, <2>1, Untouched
<1>5. CASE h.m.from = q
  <2>1. NoIn(q) /\ NoOut(q) /\ pc[q] \notin Unsent BY <1>5 DEF Once, NoExec
  <2>2. NoExec(q)' BY <1>1, <1>5 DEF Once, NoExec, OneExec
  <2>3. OneOut(q)' /\ ~Refused(q)' BY <1>1, <2>1 DEF NoOut, OneOut, Refused, Answer
  <2> QED BY <1>1, <1>2, <1>3, <2>1, <2>2, <2>3 DEF Once
<1> QED BY <1>4, <1>5

\* Initializations, ticks and kills.
LEMMA WorkerOnce ==
  ASSUME TypeOK, Runs, NEW q \in Requests, Once(q),
         InitStop \/ InitDone \/ InitFails \/ Tick \/ TickEnd \/ Kill
  PROVE  Once(q)'
<1>1. pc' = pc /\ times' = times /\ (inbox' = inbox \/ inbox' = <<>>)
  BY DEF InitStop, InitDone, InitFails, Tick, TickEnd, Kill, ElseInit, ElseTick, client
<1>2. (NoIn(q) => NoIn(q)') /\ OneIn(q)' BY <1>1 DEF Once, NoIn, OneIn
<1>3. (NoExec(q) => NoExec(q)') /\ OneExec(q)'
  <2>1. CASE InitStop
    <3>1. exec' = {Handler(h.m, "before") : h \in exec} BY <2>1 DEF InitStop
    <3> QED BY <3>1 DEF Once, NoExec, OneExec, Handler
  <2>2. CASE exec' = exec \/ exec' = {} BY <2>2 DEF Once, NoExec, OneExec
  <2> QED BY <2>1, <2>2 DEF InitDone, InitFails, Tick, TickEnd, Kill, ElseTick
<1>4. \A a \in out' : a.to = q => a \in out
  <2>1. CASE InitDone \/ InitFails
    <3>1. Head(inits) \in Inits BY <2>1, InitChainTyped DEF InitDone, InitFails
    <3>2. \A res : Answer(Head(inits), res).to # q BY <3>1, FromPage DEF Answer, Inits
    <3> QED BY <2>1, <3>2 DEF InitDone, InitFails
  <2>2. CASE UNCHANGED out BY <2>2
  <2> QED BY <2>1, <2>2 DEF InitStop, Tick, TickEnd, Kill, ElseTick
<1> QED BY <1>1, <1>2, <1>3, <1>4, Untouched

\* What a request, or a page, does not touch of q.
LEMMA PageSide ==
  ASSUME NEW q \in Requests, Once(q), UNCHANGED ElsePage, out' \subseteq out,
         (NoIn(q) => NoIn(q)') /\ OneIn(q)', pc'[q] \in Unsent => pc[q] \in Unsent
  PROVE  Once(q)'
<1>1. exec' = exec /\ times' = times BY DEF ElsePage
<1>2. (NoExec(q) => NoExec(q)') /\ OneExec(q)' BY <1>1 DEF Once, NoExec, OneExec
<1> QED BY <1>1, <1>2, Untouched

LEMMA InboxKept ==
  ASSUME TypeOK, NEW q \in Requests, Once(q),
         UNCHANGED inbox \/ \E m \in Messages : inbox' = Append(inbox, m) /\ m.from # q
  PROVE  (NoIn(q) => NoIn(q)') /\ OneIn(q)'
<1>1. CASE UNCHANGED inbox BY <1>1 DEF Once, NoIn, OneIn
<1>2. CASE \E m \in Messages : inbox' = Append(inbox, m) /\ m.from # q
  BY <1>2, InboxOf DEF Once
<1> QED BY <1>1, <1>2

\* Initializing the worker adds a message of the page.
LEMMA ReinitOnce ==
  ASSUME TypeOK, NEW q \in Requests, NEW r \in Requests, Reinitialize(r)
  PROVE  UNCHANGED inbox \/ \E m \in Messages : inbox' = Append(inbox, m) /\ m.from # q
<1>1. PageOf[r] \in Pages /\ turn[PageOf[r]] \in Nat BY BusAssumption DEF TypeOK
<1>2. Msg("init", PageOf[r], turn[PageOf[r]]) \in Messages BY <1>1, MsgTyped
<1> QED BY <1>1, <1>2, FromPage DEF Reinitialize, Msg

LEMMA OtherRequest ==
  ASSUME TypeOK, NEW q \in Requests, Once(q), NEW r \in Requests, r # q, Call(r) \/ RequestStep(r)
  PROVE  Once(q)'
<1>1. UNCHANGED ElsePage /\ out' \subseteq out
  BY DEF Call, RequestStep, Hear, TimeOut, Resend, GiveUp
<1>2. \/ Send(r) \/ Reinitialize(r)
      \/ UNCHANGED inbox /\ (UNCHANGED pc \/ \E p : Becomes(r, p))
  BY DEF Call, RequestStep, Hear, TimeOut, Resend, GiveUp, Answered, client
<1>3. pc'[q] = pc[q] BY <1>2 DEF Send, Reinitialize, Becomes, TypeOK
<1>4. UNCHANGED inbox \/ \E m \in Messages : inbox' = Append(inbox, m) /\ m.from # q
  <2>1. CASE Send(r) BY <2>1, MsgTyped DEF Send, Msg
  <2> QED BY <1>2, <2>1, ReinitOnce
<1> QED BY <1>1, <1>3, <1>4, InboxKept, PageSide

\* A message of q is added while there is nothing of it.
LEMMA SendOnce ==
  ASSUME TypeOK, NEW q \in Requests, Once(q), pc[q] \in Unsent, Send(q),
         UNCHANGED <<exec, out, times>>
  PROVE  Once(q)'
<1>1. NoIn(q) /\ NoExec(q) /\ NoOut(q) /\ times[q] = 0 BY DEF Once
<1>2. OneIn(q)' BY <1>1, MsgTyped, InboxOf DEF Send
<1>3. NoExec(q)' /\ OneExec(q)' /\ NoOut(q)' /\ OneOut(q)' /\ ~Refused(q)'
  BY <1>1 DEF NoExec, OneExec, NoOut, OneOut, Refused
<1>4. pc'[q] \notin Unsent BY DEF Send, Becomes, TypeOK, Unsent
<1> QED BY <1>1, <1>2, <1>3, <1>4 DEF Once

LEMMA HearOnce ==
  ASSUME TypeOK, NEW q \in Requests, Once(q), Hear(q)
  PROVE  Once(q)'
<1>1. PICK a \in out :
        /\ a.to = q /\ out' = out \ {a}
        /\ IF At(q, "sent") THEN Answered(q, a.res) ELSE UNCHANGED <<client, inbox>>
        /\ UNCHANGED <<ElsePage, env, hit>>
  BY DEF Hear
<1>2. NoIn(q) /\ NoExec(q) /\ NoOut(q)'
  BY <1>1 DEF Once, NoOut, OneOut
<1>3. CASE ~At(q, "sent")
  BY <1>1, <1>3, InboxKept, PageSide DEF client
<1>4. CASE At(q, "sent")
  <2>1. UNCHANGED inbox \/ \E m \in Messages : inbox' = Append(inbox, m) /\ m.from # q
    BY <1>1, <1>4, ReinitOnce DEF Answered
  <2>2. NoIn(q)' /\ OneIn(q)' BY <1>2, <2>1, InboxKept
  <2>3. CASE pc'[q] \in Unsent
    <3>1. a.res \in {"notinit", "initializing"}
      BY <1>1, <1>4, <2>3 DEF Answered, Retries, Becomes, TypeOK, Unsent, Pcs
    <3>2. times[q] = 0 BY <1>1, <3>1 DEF Once, Refused
    <3>3. NoExec(q)' /\ OneExec(q)' /\ OneOut(q)' /\ ~Refused(q)' /\ times'[q] = 0
      BY <1>1, <1>2, <3>2 DEF ElsePage, NoExec, OneExec, NoOut, OneOut, Refused
    <3> QED BY <1>2, <2>2, <3>2, <3>3 DEF Once
  <2>4. CASE pc'[q] \notin Unsent
    BY <1>1, <1>2, <2>2, <2>4, PageSide
  <2> QED BY <2>3, <2>4
<1> QED BY <1>3, <1>4

LEMMA OwnRequest ==
  ASSUME TypeOK, NEW q \in Requests, Once(q), Call(q) \/ RequestStep(q)
  PROVE  Once(q)'
<1>1. CASE Call(q)
  <2>1. UNCHANGED <<ElsePage, out>> /\ pc[q] \in Unsent BY <1>1 DEF Call, At, Unsent
  <2>2. CASE Send(q) BY <2>1, <2>2, SendOnce DEF ElsePage
  <2>3. CASE Reinitialize(q) BY <2>1, <2>3, ReinitOnce, InboxKept, PageSide
  <2> QED BY <1>1, <2>2, <2>3 DEF Call
<1>2. CASE TimeOut(q)
  <2>1. Becomes(q, "failed") /\ UNCHANGED <<inbox, ElsePage, out>>
    BY <1>2 DEF TimeOut, Answered, Retries
  <2>2. pc'[q] \notin Unsent BY <2>1 DEF Becomes, TypeOK, Unsent
  <2> QED BY <2>1, <2>2, InboxKept, PageSide
<1>3. CASE Resend(q)
  BY <1>3, SendOnce DEF Resend, At, Unsent, ElsePage
<1>4. CASE GiveUp(q)
  <2>1. pc'[q] \notin Unsent BY <1>4 DEF GiveUp, Becomes, TypeOK, Unsent
  <2> QED BY <1>4, <2>1, InboxKept, PageSide DEF GiveUp
<1> QED BY <1>1, <1>2, <1>3, <1>4, HearOnce DEF RequestStep

LEMMA PageOnce ==
  ASSUME TypeOK, NEW q \in Requests, Once(q), NEW p \in Pages, PageStep(p)
  PROVE  Once(q)'
<1>1. UNCHANGED ElsePage /\ out' \subseteq out BY DEF PageStep, PageHears, PageTimeOut
<1>2. UNCHANGED <<pc, inbox>> \/ \E ok : Stage(p, ok)
  BY DEF PageStep, PageHears, PageTimeOut
<1>3. CASE UNCHANGED <<pc, inbox>> BY <1>1, <1>3, InboxKept, PageSide
<1>4. CASE \E ok : Stage(p, ok)
  <2>1. CASE \E to \in {"wallet", "status"} : Goes(p, to)
    <3>1. \A to \in {"wallet", "status"} :
            Msg(to, p, turn[p]) \in Messages /\ Msg(to, p, turn[p]).from # q
      BY MsgTyped, FromPage DEF TypeOK, Msg
    <3> QED BY <1>1, <2>1, <3>1, InboxKept, PageSide DEF Goes
  <2>2. CASE \E to \in {"resend", "failed"} : Release(p, to)
    <3>1. pc'[q] \in Unsent => pc[q] \in Unsent
      BY <2>2 DEF Release, Waiting, At, Unsent
    <3> QED BY <1>1, <2>2, <3>1, InboxKept, PageSide DEF Release
  <2> QED BY <1>4, <2>1, <2>2 DEF Stage
<1> QED BY <1>2, <1>3, <1>4

LEMMA InitOnce == Init => AllOnce
  BY DEF Init, AllOnce, Once, NoIn, OneIn, NoExec, OneExec, NoOut, OneOut, Refused

LEMMA StepOnce == TypeOK /\ Runs /\ AllOnce /\ [Next]_vars => AllOnce'
<1> SUFFICES ASSUME TypeOK, Runs, AllOnce, [Next]_vars, NEW q \in Requests PROVE Once(q)'
  BY DEF AllOnce
<1>0. Once(q) BY DEF AllOnce
<1>1. CASE UNCHANGED vars
  <2>1. UNCHANGED <<inbox, exec, out, times, pc>> BY <1>1 DEF vars, client
  <2> QED
    BY <1>0, <2>1 DEF Once, NoIn, OneIn, NoExec, OneExec, NoOut, OneOut, Refused
<1>2. CASE BusStep BY <1>0, <1>2, ReceiveOnce, HandlerOnce, WorkerOnce DEF BusStep
<1>3. CASE Kill BY <1>0, <1>3, WorkerOnce
<1>4. CASE \E r \in Requests : Call(r) \/ RequestStep(r)
  BY <1>0, <1>4, OtherRequest, OwnRequest
<1>5. CASE \E p \in Pages : PageStep(p) BY <1>0, <1>5, PageOnce
<1> QED BY <1>1, <1>2, <1>3, <1>4, <1>5 DEF Next

\* A request is handed to the wallet at most once, however often the worker is killed,
\* initialized by two tabs, or late: only what was refused is sent again.
THEOREM HandedOnce == Spec => []ExecutedOnce
<1>1. AllOnce => ExecutedOnce BY DEF AllOnce, Once, ExecutedOnce
<1> QED BY <1>1, InitOnce, StepOnce, TypeCorrect, PTL DEF Spec

-----------------------------------------------------------------------------

\* What page p sent for the initialization it is at, wherever it is.
Mine(p, m) == m.from = p /\ m.n = turn[p]
InBox(p) == \E i \in DOMAIN inbox : Mine(p, inbox[i])
InChain(p) == \E i \in DOMAIN inits : Mine(p, inits[i])
InExec(p) == \E h \in exec : Mine(p, h.m)
InOut(p) == \E a \in out : a.to = p /\ a.n = turn[p]
NoInit(p) == \A i \in DOMAIN inbox : inbox[i].from = p => inbox[i].kind # "init"

\* A page numbers what it sends: what it will send is not under way.
Turned(p, n) == n <= turn[p] /\ (n = turn[p] => reinit[p] # "none")
Numbered(p) ==
  /\ \A i \in DOMAIN inbox : inbox[i].from = p => Turned(p, inbox[i].n)
  /\ \A i \in DOMAIN inits : inits[i].from = p => Turned(p, inits[i].n)
  /\ \A h \in exec : h.m.from = p => Turned(p, h.m.n)
  /\ \A a \in out : a.to = p => Turned(p, a.n)

\* The bus is up, and p will not take it down.
Settled(p) == Accepts /\ NoInit(p)

\* What p sent is handled by the services of now.
Served(p) == \A h \in exec : Mine(p, h.m) => h.services = "now"

\* An initialization nothing came in between of is under way, or well answered; its
\* first message is the last of its page, and the bus is up from its answer on.
Going(p) ==
  /\ InBox(p) \/ InChain(p) \/ InExec(p) \/ InOut(p)
  /\ \A a \in out : a.to = p /\ a.n = turn[p] => a.res = "ok"
  /\ Served(p)
  /\ reinit[p] = "bus" =>
        /\ \A i \in DOMAIN inbox : Mine(p, inbox[i]) =>
              /\ inbox[i].kind = "init"
              /\ \A j \in DOMAIN inbox : j > i /\ inbox[j].from = p => inbox[j].kind # "init"
        /\ \A i \in DOMAIN inits : Mine(p, inits[i]) => i = Len(inits) /\ NoInit(p)
        /\ ~InExec(p)
        /\ InOut(p) => Settled(p)
  /\ reinit[p] # "bus" => Settled(p)
PageCause(p) == Numbered(p) /\ (reinit[p] # "none" /\ ~hit[p] => Going(p))

\* A request nothing came in between of is under way, or answered so that it goes on;
\* once it had the worker initialized, the bus is up or will be.
Up == initialized \/ inits # <<>>
IsOf(q, m) == m.from = q /\ m.n = 0
Under(q) ==
  \/ \E i \in DOMAIN inbox : IsOf(q, inbox[i])
  \/ \E h \in exec : IsOf(q, h.m)
  \/ \E a \in out : a.to = q /\ a.n = 0
Sound(q) ==
  /\ Under(q)
  /\ \A h \in exec : h.m.from = q => h.services = "now"
  /\ \A a \in out : a.to = q =>
        a.res \in {"ok", "initializing"} \/ (a.res = "notinit" /\ tries[q] = 0)
RequestCause(q) ==
  /\ At(q, "failed") => hit[q]
  /\ At(q, "idle") => tries[q] = 0
  /\ At(q, "sent") /\ ~hit[q] => Sound(q)
  /\ pc[q] \in {"sent", "wait", "resend"} /\ tries[q] > 0 /\ ~hit[q] => Up

Cause == (\A p \in Pages : PageCause(p)) /\ (\A q \in Requests : RequestCause(q))

LEMMA Appended ==
  ASSUME NEW S, NEW s \in Seq(S), NEW e \in S, NEW t, t = Append(s, e)
  PROVE  /\ Len(s) \in Nat /\ Len(t) = Len(s) + 1
         /\ DOMAIN s = 1..Len(s) /\ DOMAIN t = 1..(Len(s) + 1)
         /\ \A i \in DOMAIN s : t[i] = s[i]
         /\ t[Len(s) + 1] = e
  BY AppendProperties, LenProperties

LEMMA Tailed ==
  ASSUME NEW S, NEW s \in Seq(S), s # <<>>, NEW t, t = Tail(s)
  PROVE  /\ Len(s) \in Nat \ {0} /\ Len(t) = Len(s) - 1
         /\ DOMAIN s = 1..Len(s) /\ DOMAIN t = 1..(Len(s) - 1)
         /\ \A i \in DOMAIN t : t[i] = s[i + 1]
         /\ Head(s) = s[1]
  BY HeadTailProperties, LenProperties, EmptySeq

LEMMA FromOne ==
  ASSUME NEW m \in Messages
  PROVE  /\ m.from \in Requests => m.kind = "request" /\ m.n = 0
         /\ m.from \in Pages => m.kind \in {"init", "wallet", "status"} /\ m.n \in Nat
  BY BusAssumption DEF Messages, OfRequests, Inits

LEMMA Parts ==
  /\ \A m, r : Answer(m, r).to = m.from /\ Answer(m, r).n = m.n /\ Answer(m, r).res = r
  /\ \A m, of : Handler(m, of).m = m /\ Handler(m, of).services = of
  BY DEF Answer, Handler

\* What a step of another leaves of a page.
LEMMA PageKept ==
  ASSUME TypeOK, NEW p \in Pages, PageCause(p), UNCHANGED <<initialized, inits, exec>>,
         turn'[p] = turn[p], reinit'[p] = reinit[p], hit[p] => hit'[p],
         out' \subseteq out, \A a \in out : a.to = p => a \in out',
         UNCHANGED inbox \/ \E m \in Messages : inbox' = Append(inbox, m) /\ m.from # p
  PROVE  PageCause(p)'
<1>1. /\ DOMAIN inbox \subseteq DOMAIN inbox' /\ DOMAIN inbox \subseteq Nat /\ DOMAIN inbox' \subseteq Nat
      /\ \A i \in DOMAIN inbox : inbox'[i] = inbox[i]
      /\ \A i \in DOMAIN inbox' : inbox'[i].from = p => i \in DOMAIN inbox
  <2>1. CASE UNCHANGED inbox
    <3>1. DOMAIN inbox = 1..Len(inbox) /\ Len(inbox) \in Nat BY LenProperties DEF TypeOK
    <3> QED BY <2>1, <3>1
  <2>2. CASE \E m \in Messages : inbox' = Append(inbox, m) /\ m.from # p
    <3>1. PICK m \in Messages : inbox' = Append(inbox, m) /\ m.from # p BY <2>2
    <3>2. /\ Len(inbox) \in Nat /\ DOMAIN inbox = 1..Len(inbox)
          /\ DOMAIN inbox' = 1..(Len(inbox) + 1)
          /\ \A i \in DOMAIN inbox : inbox'[i] = inbox[i]
          /\ inbox'[Len(inbox) + 1] = m
      BY <3>1, Appended DEF TypeOK
    <3>3. DOMAIN inbox \subseteq DOMAIN inbox' /\ DOMAIN inbox \subseteq Nat /\ DOMAIN inbox' \subseteq Nat
      BY <3>2
    <3>4. \A i \in DOMAIN inbox' : i \in DOMAIN inbox \/ inbox'[i] = m
      BY <3>2
    <3> QED BY <3>1, <3>2, <3>3, <3>4
  <2> QED BY <2>1, <2>2
<1>2. Numbered(p)'
  BY <1>1 DEF PageCause, Numbered, Turned
<1>3. ASSUME Going(p) PROVE Going(p)'
  <2>1. (NoInit(p) => NoInit(p)') /\ (Accepts => Accepts') BY <1>1 DEF NoInit, Accepts
  <2>2. /\ InBox(p) => InBox(p)'
        /\ InChain(p) => InChain(p)'
        /\ InExec(p) <=> InExec(p)'
        /\ InOut(p) <=> InOut(p)'
    BY <1>1 DEF InBox, InChain, InExec, InOut, Mine
  <2>3. \A a \in out' : a.to = p /\ a.n = turn'[p] => a.res = "ok"
    BY <1>3 DEF Going
  <2>4. ASSUME reinit[p] = "bus", NEW i \in DOMAIN inbox', inbox'[i].from = p, inbox'[i].n = turn[p]
        PROVE  /\ inbox'[i].kind = "init"
               /\ \A j \in DOMAIN inbox' : j > i /\ inbox'[j].from = p => inbox'[j].kind # "init"
    BY <1>1, <1>3, <2>4 DEF Going, Mine
  <2>5. ASSUME reinit[p] = "bus", NEW i \in DOMAIN inits, Mine(p, inits[i])
        PROVE  i = Len(inits) /\ NoInit(p)'
    BY <1>3, <2>1, <2>5 DEF Going, Mine
  <2> QED BY <1>3, <2>1, <2>2, <2>3, <2>4, <2>5 DEF Going, Settled, Served, Mine
<1> QED BY <1>2, <1>3 DEF PageCause

\* A request starts an initialization: nothing of its number is under way.
LEMMA ReinitCause ==
  ASSUME TypeOK, NEW p \in Pages, PageCause(p), NEW q \in Requests, Reinitialize(q),
         UNCHANGED <<initialized, inits, exec, turn>>, hit[p] => hit'[p],
         out' \subseteq out, \A a \in out : a.to = p => a \in out'
  PROVE  PageCause(p)'
<1> DEFINE o == PageOf[q]
           m == Msg("init", o, turn[o])
<1>1. o \in Pages /\ turn[o] \in Nat BY BusAssumption DEF TypeOK
<1>2. m \in Messages /\ m.from = o /\ m.kind = "init" /\ m.n = turn[o]
  BY <1>1, MsgTyped DEF Msg
<1>3. CASE o # p \/ reinit[o] # "none"
  <2>1. UNCHANGED inbox \/ \E e \in Messages : inbox' = Append(inbox, e) /\ e.from # p
    BY <1>2, <1>3 DEF Reinitialize
  <2>2. reinit'[p] = reinit[p] BY <1>1, <1>3 DEF Reinitialize, TypeOK
  <2> QED BY <2>1, <2>2, PageKept
<1>4. CASE o = p /\ reinit[o] = "none"
  <2>1. inbox' = Append(inbox, m) /\ reinit'[p] = "bus"
    BY <1>1, <1>4 DEF Reinitialize, TypeOK
  <2> HIDE DEF m
  <2>2. /\ Len(inbox) \in Nat /\ DOMAIN inbox = 1..Len(inbox)
        /\ DOMAIN inbox' = 1..(Len(inbox) + 1)
        /\ \A i \in DOMAIN inbox : inbox'[i] = inbox[i]
        /\ inbox'[Len(inbox) + 1] = m
    BY <1>2, <2>1, Appended DEF TypeOK
  <2>3. \A i \in DOMAIN inbox' : i \in DOMAIN inbox \/ (i = Len(inbox) + 1 /\ inbox'[i] = m)
    BY <2>2
  <2>4. /\ \A i \in DOMAIN inbox : inbox[i].from = p => inbox[i].n <= turn[p] /\ inbox[i].n # turn[p]
        /\ \A i \in DOMAIN inits : inits[i].from = p => inits[i].n <= turn[p] /\ inits[i].n # turn[p]
        /\ \A h \in exec : h.m.from = p => h.m.n <= turn[p] /\ h.m.n # turn[p]
        /\ \A a \in out : a.to = p => a.n <= turn[p] /\ a.n # turn[p]
    BY <1>4 DEF PageCause, Numbered, Turned
  <2>5. Numbered(p)'
    BY <1>1, <1>2, <1>4, <2>1, <2>2, <2>3, <2>4 DEF Numbered, Turned
  <2>6. Going(p)'
    <3>1. InBox(p)' BY <1>2, <1>4, <2>2 DEF InBox, Mine
    <3>2. ~InOut(p)' /\ ~InExec(p)' /\ ~InChain(p)'
      BY <2>4 DEF InOut, InExec, InChain, Mine
    <3>3. ASSUME NEW i \in DOMAIN inbox', inbox'[i].from = p, inbox'[i].n = turn'[p]
          PROVE  /\ inbox'[i].kind = "init"
                 /\ \A j \in DOMAIN inbox' : ~(j > i)
      <4>1. i = Len(inbox) + 1 /\ inbox'[i] = m BY <2>2, <2>3, <2>4, <3>3
      <4> QED BY <1>2, <2>2, <4>1
    <3>4. Served(p)' BY <3>2 DEF Served, InExec
    <3> QED BY <2>1, <3>1, <3>2, <3>3, <3>4 DEF Going, Mine, InOut, InChain
  <2> QED BY <2>5, <2>6 DEF PageCause
<1> QED BY <1>3, <1>4

\* Pages, requests and what strikes them.
LEMMA StruckFacts ==
  ASSUME EnvTyped
  PROVE  /\ \A p \in Pages : reinit[p] # "none" => Struck[p]
         /\ \A q \in Requests : pc[q] \in {"sent", "wait", "reinit", "resend"} => Struck[q]
         /\ \A s \in Senders : hit[s] => Struck[s]
  BY FromPage DEF Struck, Busy, Senders, Ended

\* The request that steps may belong to another page.
LEMMA RequestPageCause ==
  ASSUME TypeOK, NEW p \in Pages, PageCause(p), NEW q \in Requests, Call(q) \/ RequestStep(q)
  PROVE  PageCause(p)'
<1>1. /\ UNCHANGED <<initialized, inits, exec, turn>> /\ out' \subseteq out
      /\ \A a \in out : a.to = p => a \in out'
  BY FromPage
     DEF Call, RequestStep, Hear, TimeOut, Resend, GiveUp, ElsePage, bus, Answered, client
<1>2. hit[p] => hit'[p]
  <2>1. UNCHANGED hit \/ hit' = Struck
    BY DEF Call, RequestStep, Hear, TimeOut, Resend, GiveUp, NoFault, Fault
  <2> QED BY <2>1, StruckFacts, TypeParts DEF Senders
<1>3. \/ Reinitialize(q)
      \/ (UNCHANGED inbox \/ \E m \in Messages : inbox' = Append(inbox, m) /\ m.from # p)
           /\ UNCHANGED reinit
  <2>1. CASE Send(q) /\ UNCHANGED reinit
    BY <2>1, MsgTyped, FromPage DEF Send, Msg
  <2> QED
    BY <2>1 DEF Call, RequestStep, Hear, TimeOut, Resend, GiveUp, Answered, client
<1> QED BY <1>1, <1>2, <1>3, ReinitCause, PageKept

LEMMA StageForms ==
  ASSUME TypeOK, NEW p \in Pages, NEW ok, Stage(p, ok)
  PROVE  \/ /\ ok /\ reinit[p] = "bus" /\ Goes(p, "wallet")
         \/ /\ ok /\ reinit[p] = "wallet" /\ Goes(p, "status")
         \/ /\ ok /\ reinit[p] = "status" /\ Release(p, "resend")
         \/ /\ ~ok /\ Release(p, "failed")
  BY DEF Stage

\* What a page does to another page.
LEMMA OtherPageCause ==
  ASSUME TypeOK, NEW p \in Pages, PageCause(p), NEW o \in Pages, o # p, PageStep(o)
  PROVE  PageCause(p)'
<1>1. /\ UNCHANGED <<initialized, inits, exec>> /\ out' \subseteq out
      /\ \A a \in out : a.to = p => a \in out'
  BY DEF PageStep, PageHears, PageTimeOut, ElsePage, bus
<1>2. UNCHANGED <<pc, reinit, turn, inbox>> \/ \E ok : Stage(o, ok)
  BY DEF PageStep, PageHears, PageTimeOut
<1>3. /\ turn'[p] = turn[p] /\ reinit'[p] = reinit[p]
      /\ UNCHANGED inbox \/ \E m \in Messages : inbox' = Append(inbox, m) /\ m.from # p
  <2>1. ASSUME NEW to \in {"wallet", "status"}, Goes(o, to)
        PROVE  /\ turn'[p] = turn[p] /\ reinit'[p] = reinit[p]
               /\ \E m \in Messages : inbox' = Append(inbox, m) /\ m.from # p
    <3>1. Msg(to, o, turn[o]) \in Messages /\ Msg(to, o, turn[o]).from = o
      BY MsgTyped DEF TypeOK, Msg
    <3> QED BY <2>1, <3>1 DEF Goes, TypeOK
  <2>2. ASSUME NEW to, Release(o, to)
        PROVE  turn'[p] = turn[p] /\ reinit'[p] = reinit[p] /\ UNCHANGED inbox
    BY <2>2 DEF Release, TypeOK
  <2> QED BY <1>2, <2>1, <2>2, StageForms
<1>4. hit[p] => hit'[p]
  <2>1. hit' = Passed(o, hit) \/ hit' = Passed(o, Struck)
    BY DEF PageStep, PageHears, PageTimeOut
  <2>2. p \in Senders /\ p # o BY DEF Senders
  <2> QED BY <2>1, <2>2, StruckFacts, TypeParts DEF Passed
<1> QED BY <1>1, <1>3, <1>4, PageKept

\* A page that is done numbers on.
LEMMA ReleaseCause ==
  ASSUME TypeOK, NEW p \in Pages, PageCause(p), NEW to, Release(p, to),
         UNCHANGED <<inits, exec>>, out' \subseteq out
  PROVE  PageCause(p)'
<1>1. turn[p] \in Nat /\ turn'[p] = turn[p] + 1 /\ reinit'[p] = "none" /\ UNCHANGED inbox
  BY DEF Release, TypeOK
<1>2. /\ \A i \in DOMAIN inbox : inbox[i].from = p => inbox[i].n \in Nat
      /\ \A i \in DOMAIN inits : inits[i].from = p => inits[i].n \in Nat
      /\ \A h \in exec : h.m.from = p => h.m.n \in Nat
      /\ \A a \in out : a.to = p => a.n \in Nat
  <2>1. \A i \in DOMAIN inbox : inbox[i] \in Messages BY ElementOfSeq, LenProperties DEF TypeOK
  <2>2. \A i \in DOMAIN inits : inits[i] \in Inits BY ElementOfSeq, LenProperties DEF TypeOK
  <2> QED BY <2>1, <2>2, FromOne DEF TypeOK, Inits
<1>3. Numbered(p)' BY <1>1, <1>2 DEF PageCause, Numbered, Turned
<1> QED BY <1>1, <1>3 DEF PageCause

LEMMA GoesNumbered ==
  ASSUME TypeOK, NEW p \in Pages, Numbered(p), NEW to \in {"wallet", "status"}, Goes(p, to),
         UNCHANGED <<inits, exec>>, out' \subseteq out, reinit[p] # "none"
  PROVE  Numbered(p)'
<1> DEFINE m == Msg(to, p, turn[p])
<1>1. m \in Messages /\ m.from = p /\ m.kind = to /\ m.n = turn[p]
  BY MsgTyped DEF TypeOK, Msg
<1>2. inbox' = Append(inbox, m) /\ turn' = turn /\ reinit'[p] = to
  BY DEF Goes, TypeOK
<1> HIDE DEF m
<1>3. /\ Len(inbox) \in Nat /\ DOMAIN inbox = 1..Len(inbox)
      /\ DOMAIN inbox' = 1..(Len(inbox) + 1)
      /\ \A i \in DOMAIN inbox : inbox'[i] = inbox[i]
      /\ inbox'[Len(inbox) + 1] = m
  BY <1>1, <1>2, Appended DEF TypeOK
<1>4. \A i \in DOMAIN inbox' : i \in DOMAIN inbox \/ inbox'[i] = m
  BY <1>3
<1>5. turn[p] \in Nat BY DEF TypeOK
<1>6. \A i \in DOMAIN inbox' : inbox'[i].from = p => Turned(p, inbox'[i].n)
  BY <1>1, <1>3, <1>4, <1>5 DEF Numbered, Turned
<1> QED BY <1>2, <1>6 DEF Numbered, Turned

\* The next message of the page, once the bus is up.
LEMMA GoesCause ==
  ASSUME TypeOK, NEW p \in Pages, PageCause(p), NEW to \in {"wallet", "status"}, Goes(p, to),
         UNCHANGED <<initialized, inits, exec>>, out' \subseteq out, reinit[p] # "none",
         \A a \in out' : a.to = p /\ a.n = turn[p] => a.res = "ok",
         hit[p] => hit'[p], ~hit[p] => Settled(p) /\ Served(p)
  PROVE  PageCause(p)'
<1> DEFINE m == Msg(to, p, turn[p])
<1>1. m \in Messages /\ m.from = p /\ m.kind = to /\ m.n = turn[p]
  BY MsgTyped DEF TypeOK, Msg
<1>2. inbox' = Append(inbox, m) /\ turn' = turn /\ reinit'[p] = to
  BY DEF Goes, TypeOK
<1> HIDE DEF m
<1>3. /\ Len(inbox) \in Nat /\ DOMAIN inbox = 1..Len(inbox)
      /\ DOMAIN inbox' = 1..(Len(inbox) + 1)
      /\ \A i \in DOMAIN inbox : inbox'[i] = inbox[i]
      /\ inbox'[Len(inbox) + 1] = m
  BY <1>1, <1>2, Appended DEF TypeOK
<1>4. \A i \in DOMAIN inbox' : i \in DOMAIN inbox \/ inbox'[i] = m
  BY <1>3
<1>5. Numbered(p)' BY GoesNumbered DEF PageCause
<1>6. ASSUME ~hit[p] PROVE Going(p)'
  <2>1. Settled(p)'
    <3>1. NoInit(p) /\ Accepts BY <1>6 DEF Settled
    <3>2. NoInit(p)' BY <1>1, <1>3, <1>4, <3>1 DEF NoInit
    <3> QED BY <3>1, <3>2 DEF Settled, Accepts
  <2>2. InBox(p)' BY <1>1, <1>2, <1>3 DEF InBox, Mine
  <2>3. Served(p)' BY <1>2, <1>6 DEF Served, Mine
  <2> QED BY <1>2, <2>1, <2>2, <2>3 DEF Going
<1> QED BY <1>5, <1>6 DEF PageCause

LEMMA OwnPageCause ==
  ASSUME TypeOK, NEW p \in Pages, PageCause(p), PageStep(p)
  PROVE  PageCause(p)'
<1>1. UNCHANGED <<initialized, inits, exec>> /\ out' \subseteq out
  BY DEF PageStep, PageHears, PageTimeOut, ElsePage, bus
<1>2. CASE PageHears(p)
  <2>1. PICK a \in out :
          /\ a.to = p /\ out' = out \ {a}
          /\ IF reinit[p] # "none" /\ a.n = turn[p]
             THEN Stage(p, a.res = "ok") ELSE UNCHANGED <<pc, reinit, turn, inbox>>
          /\ hit' = Passed(p, hit)
    BY <1>2 DEF PageHears
  <2>2. hit'[p] <=> hit[p] /\ reinit'[p] # "none"
    BY <2>1 DEF Passed, Senders
  <2>3. CASE ~(reinit[p] # "none" /\ a.n = turn[p])
    <3>1. UNCHANGED <<pc, reinit, turn, inbox>> BY <2>1, <2>3
    <3>2. Numbered(p)' BY <1>1, <3>1 DEF PageCause, Numbered, Turned
    <3>3. ASSUME reinit[p] # "none", ~hit[p] PROVE Going(p)'
      <4>1. Going(p) BY <3>3 DEF PageCause
      <4>2. InOut(p)' <=> InOut(p)
        BY <2>1, <2>3, <3>1, <3>3 DEF InOut
      <4>3. /\ InBox(p)' <=> InBox(p)
            /\ InChain(p)' <=> InChain(p)
            /\ InExec(p)' <=> InExec(p)
            /\ Settled(p)' <=> Settled(p)
            /\ NoInit(p)' <=> NoInit(p)
        BY <1>1, <3>1 DEF InBox, InChain, InExec, Settled, NoInit, Accepts, Mine
      <4> QED BY <1>1, <3>1, <4>1, <4>2, <4>3 DEF Going, Served, Mine
    <3> QED BY <2>2, <3>1, <3>2, <3>3 DEF PageCause
  <2>4. CASE reinit[p] # "none" /\ a.n = turn[p]
    <3>1. ~hit[p] => Going(p) /\ InOut(p) /\ Settled(p) /\ Served(p)
      BY <2>1, <2>4 DEF PageCause, Going, InOut
    <3>2. ASSUME NEW to \in {"wallet", "status"}, Goes(p, to) PROVE PageCause(p)'
      <4>1. \A b \in out' : b.to = p /\ b.n = turn[p] => b.res = "ok" \/ hit[p]
        BY <1>1, <3>1 DEF Going
      <4>2. hit[p] => hit'[p] BY <2>2, <3>2 DEF Goes, TypeOK
      <4>3. CASE ~hit[p]
        <5>1. \A b \in out' : b.to = p /\ b.n = turn[p] => b.res = "ok" BY <4>1, <4>3
        <5> QED BY <1>1, <2>4, <3>1, <3>2, <4>2, <4>3, <5>1, GoesCause
      <4>4. CASE hit[p]
        <5>1. hit'[p] BY <4>2, <4>4
        <5>2. Numbered(p)' BY <1>1, <2>4, <3>2, GoesNumbered DEF PageCause
        <5> QED BY <5>1, <5>2 DEF PageCause
      <4> QED BY <4>3, <4>4
    <3>3. ASSUME NEW to, Release(p, to) PROVE PageCause(p)'
      BY <1>1, <3>3, ReleaseCause
    <3> QED BY <2>1, <2>4, <3>2, <3>3, StageForms
  <2> QED BY <2>3, <2>4
<1>3. CASE PageTimeOut(p)
  <2>1. Release(p, "failed") BY <1>3 DEF PageTimeOut, Stage
  <2> QED BY <1>1, <2>1, ReleaseCause
<1> QED BY <1>2, <1>3 DEF PageStep

\* The inbox as it is taken, with what is left of it.
LEMMA Taken ==
  ASSUME TypeOK, inbox # <<>>, inbox' = Tail(inbox)
  PROVE  /\ 1 \in DOMAIN inbox /\ Head(inbox) = inbox[1]
         /\ \A i \in DOMAIN inbox' : i \in Nat \ {0} /\ i + 1 \in DOMAIN inbox /\ inbox'[i] = inbox[i + 1]
         /\ \A i \in DOMAIN inbox : i \in Nat \ {0}
         /\ \A i \in DOMAIN inbox : i # 1 => i - 1 \in DOMAIN inbox' /\ inbox'[i - 1] = inbox[i]
<1>1. /\ Len(inbox) \in Nat \ {0} /\ DOMAIN inbox = 1..Len(inbox)
      /\ DOMAIN inbox' = 1..(Len(inbox) - 1)
      /\ \A i \in DOMAIN inbox' : inbox'[i] = inbox[i + 1]
      /\ Head(inbox) = inbox[1]
  BY Tailed DEF TypeOK
<1>2. \A i \in DOMAIN inbox : i # 1 => i - 1 \in DOMAIN inbox' /\ inbox'[i - 1] = inbox[i]
  <2> SUFFICES ASSUME NEW i \in DOMAIN inbox, i # 1
               PROVE  i - 1 \in DOMAIN inbox' /\ inbox'[i - 1] = inbox[i]
    OBVIOUS
  <2>1. i - 1 \in DOMAIN inbox' /\ (i - 1) + 1 = i BY <1>1
  <2> QED BY <1>1, <2>1
<1> QED BY <1>1, <1>2

\* An initialization is queued: the page's own, or one that crosses it.
LEMMA ReceiveInitCause ==
  ASSUME TypeOK, NEW p \in Pages, PageCause(p), Receive, Head(inbox).kind = "init"
  PROVE  PageCause(p)'
<1> DEFINE m == Head(inbox)
<1>1. /\ inbox # <<>> /\ inbox' = Tail(inbox) /\ inits' = Append(inits, m)
      /\ hit' = [s \in Senders |-> hit[s] \/ (Crossed(m.from) /\ Busy(s))]
      /\ UNCHANGED <<exec, out, initialized, reinit, turn>>
  <2>1. UNCHANGED <<initialized, client>> /\ inbox # <<>> /\ inbox' = Tail(inbox) BY DEF Receive
  <2>2. /\ inits' = Append(inits, m)
        /\ hit' = [s \in Senders |-> hit[s] \/ (Crossed(m.from) /\ Busy(s))]
        /\ UNCHANGED <<exec, out>>
    BY DEF Receive
  <2> QED BY <2>1, <2>2 DEF client
<1>2. m \in Inits
  <2>1. m \in Messages BY <1>1, QueueTyped DEF TypeOK
  <2> QED BY <2>1 DEF Messages, OfRequests
<1>3. /\ 1 \in DOMAIN inbox /\ m = inbox[1]
      /\ \A i \in DOMAIN inbox' : i \in Nat \ {0} /\ i + 1 \in DOMAIN inbox /\ inbox'[i] = inbox[i + 1]
      /\ \A i \in DOMAIN inbox : i \in Nat \ {0}
      /\ \A i \in DOMAIN inbox : i # 1 => i - 1 \in DOMAIN inbox' /\ inbox'[i - 1] = inbox[i]
  BY <1>1, Taken
<1> HIDE DEF m
<1>4. /\ Len(inits) \in Nat /\ DOMAIN inits = 1..Len(inits) /\ Len(inits') = Len(inits) + 1
      /\ DOMAIN inits' = 1..(Len(inits) + 1)
      /\ \A i \in DOMAIN inits : inits'[i] = inits[i]
      /\ inits'[Len(inits) + 1] = m
  BY <1>1, <1>2, Appended DEF TypeOK
<1>5. \A i \in DOMAIN inits' : i \in DOMAIN inits \/ (i = Len(inits) + 1 /\ inits'[i] = m)
  BY <1>4
<1>6. Numbered(p)'
  BY <1>1, <1>3, <1>4, <1>5 DEF PageCause, Numbered, Turned
<1>7. ASSUME reinit[p] # "none", ~hit'[p] PROVE Going(p)'
  <2>1. ~hit[p] /\ ~(Crossed(m.from) /\ Busy(p)) BY <1>1, <1>7 DEF Senders
  <2>2. Going(p) BY <1>7, <2>1 DEF PageCause
  <2>3. m.from = p
    <3>1. Busy(p) BY <1>7 DEF Busy
    <3> QED BY <1>7, <2>1, <3>1 DEF Crossed
  <2>4. ~NoInit(p) BY <1>2, <1>3, <2>3 DEF NoInit, Inits
  <2>5. reinit[p] = "bus" /\ ~InOut(p) /\ ~InExec(p) /\ ~InChain(p)
    BY <2>2, <2>4 DEF Going, Settled, InChain
  <2>6. InBox(p) BY <2>2, <2>5 DEF Going
  <2>7. \A i \in DOMAIN inits' : Mine(p, inits'[i]) => i = Len(inits') /\ Mine(p, m)
    BY <1>4, <1>5, <2>5 DEF InChain
  <2>8. CASE Mine(p, m)
    <3>1. \A j \in DOMAIN inbox : j > 1 /\ inbox[j].from = p => inbox[j].kind # "init"
      BY <1>3, <2>2, <2>5, <2>8 DEF Going
    <3>2. NoInit(p)' BY <1>3, <3>1 DEF NoInit
    <3>3. \A i \in DOMAIN inbox' : ~Mine(p, inbox'[i])
      <4> SUFFICES ASSUME NEW i \in DOMAIN inbox', Mine(p, inbox'[i]) PROVE FALSE
        OBVIOUS
      <4>1. i + 1 \in DOMAIN inbox /\ inbox'[i] = inbox[i + 1] /\ i + 1 > 1 BY <1>3
      <4>2. inbox[i + 1].kind = "init" /\ inbox[i + 1].from = p
        BY <2>2, <2>5, <4>1 DEF Going, Mine
      <4> QED BY <3>1, <4>1, <4>2
    <3>4. InChain(p)'
      <4>1. Len(inits) + 1 \in DOMAIN inits' BY <1>4
      <4> QED BY <1>1, <1>4, <2>8, <4>1 DEF InChain, Mine
    <3>5. ~InOut(p)' /\ ~InExec(p)' BY <1>1, <2>5 DEF InOut, InExec, Mine
    <3>6. Served(p)' BY <3>5 DEF Served, InExec
    <3> QED BY <1>1, <2>5, <2>7, <3>2, <3>3, <3>4, <3>5, <3>6 DEF Going, Mine, InOut
  <2>9. CASE ~Mine(p, m)
    <3>1. InBox(p)'
      <4>1. PICK i \in DOMAIN inbox : Mine(p, inbox[i]) BY <2>6 DEF InBox
      <4>2. i - 1 \in DOMAIN inbox' /\ inbox'[i - 1] = inbox[i] BY <1>3, <2>9, <4>1
      <4> QED BY <1>1, <4>1, <4>2 DEF InBox, Mine
    <3>2. ~InOut(p)' /\ ~InExec(p)' /\ ~InChain(p)'
      BY <1>1, <2>5, <2>7, <2>9 DEF InOut, InExec, InChain, Mine
    <3>3. ASSUME NEW i \in DOMAIN inbox', Mine(p, inbox'[i])
          PROVE  /\ inbox'[i].kind = "init"
                 /\ \A j \in DOMAIN inbox' : j > i /\ inbox'[j].from = p => inbox'[j].kind # "init"
      <4>1. i + 1 \in DOMAIN inbox /\ inbox'[i] = inbox[i + 1] BY <1>3
      <4>2. /\ inbox[i + 1].kind = "init"
            /\ \A j \in DOMAIN inbox : j > i + 1 /\ inbox[j].from = p => inbox[j].kind # "init"
        BY <2>2, <2>5, <3>3, <4>1 DEF Going
      <4>3. \A j \in DOMAIN inbox' : j > i => j + 1 > i + 1 BY <1>3
      <4> QED BY <1>3, <4>1, <4>2, <4>3
    <3>4. Served(p)' BY <3>2 DEF Served, InExec
    <3> QED BY <1>1, <2>5, <3>1, <3>2, <3>3, <3>4 DEF Going, Mine, InOut, InChain
  <2> QED BY <2>8, <2>9
<1> QED BY <1>1, <1>6, <1>7 DEF PageCause

\* Another message is taken; the page's own is refused by a bus that is down only.
LEMMA ReceiveOtherCause ==
  ASSUME TypeOK, NEW p \in Pages, PageCause(p), Receive, Head(inbox).kind # "init"
  PROVE  PageCause(p)'
<1> DEFINE m == Head(inbox)
<1>1. /\ inbox # <<>> /\ inbox' = Tail(inbox)
      /\ UNCHANGED <<inits, hit, initialized, reinit, turn>>
  <2>1. UNCHANGED <<initialized, client>> /\ inbox # <<>> /\ inbox' = Tail(inbox) BY DEF Receive
  <2>2. UNCHANGED <<inits, hit>> BY DEF Receive
  <2> QED BY <2>1, <2>2 DEF client
<1>2. m \in Messages BY <1>1, QueueTyped DEF TypeOK
<1>3. /\ 1 \in DOMAIN inbox /\ m = inbox[1]
      /\ \A i \in DOMAIN inbox' : i \in Nat \ {0} /\ i + 1 \in DOMAIN inbox /\ inbox'[i] = inbox[i + 1]
      /\ \A i \in DOMAIN inbox : i \in Nat \ {0}
      /\ \A i \in DOMAIN inbox : i # 1 => i - 1 \in DOMAIN inbox' /\ inbox'[i - 1] = inbox[i]
  BY <1>1, Taken
<1>4. \/ /\ ~Accepts /\ out' = out \cup {Answer(m, Refusal)} /\ exec' = exec
      \/ /\ Accepts /\ m.kind = "status" /\ out' = out \cup {Answer(m, "ok")} /\ exec' = exec
      \/ /\ Accepts /\ m.kind \in {"wallet", "request"}
         /\ exec' = exec \cup {Handler(m, "now")} /\ out' = out
  BY DEF Receive
<1>5. m.kind # "init" OBVIOUS
<1> HIDE DEF m
<1>6. /\ \A a \in out' : a \in out \/ (a.to = m.from /\ a.n = m.n /\ (Accepts => a.res = "ok"))
      /\ \A h \in exec' : h \in exec \/ h.m = m
      /\ out \subseteq out' /\ exec \subseteq exec'
  BY <1>4 DEF Answer, Handler
<1>7. Numbered(p)'
  <2>1. m.from = p => Turned(p, m.n) BY <1>3 DEF PageCause, Numbered
  <2> QED BY <1>1, <1>3, <1>6, <2>1 DEF PageCause, Numbered, Turned
<1>8. ASSUME reinit[p] # "none", ~hit[p] PROVE Going(p)'
  <2>1. Going(p) BY <1>8 DEF PageCause
  <2>2. (NoInit(p) => NoInit(p)') /\ (Accepts <=> Accepts')
    BY <1>1, <1>3 DEF NoInit, Accepts
  <2>3. (InChain(p) => InChain(p)') /\ (InExec(p) => InExec(p)') /\ (InOut(p) => InOut(p)')
    BY <1>1, <1>6 DEF InChain, InExec, InOut, Mine
  <2>4. Mine(p, m) => reinit[p] # "bus" /\ Accepts
    BY <1>3, <1>5, <2>1 DEF Going, Settled
  <2>5. Mine(p, m) => InExec(p)' \/ InOut(p)'
    <3>1. ASSUME Mine(p, m) PROVE m.kind \in {"wallet", "status"}
      BY <1>2, <1>5, <3>1, FromOne DEF Mine
    <3>2. CASE Mine(p, m) /\ m.kind = "status"
      <4>1. out' = out \cup {Answer(m, "ok")} BY <1>4, <2>4, <3>2
      <4> QED BY <1>1, <3>2, <4>1, Parts DEF InOut, Mine
    <3>3. CASE Mine(p, m) /\ m.kind = "wallet"
      <4>1. exec' = exec \cup {Handler(m, "now")} BY <1>4, <2>4, <3>3
      <4> QED BY <1>1, <3>3, <4>1, Parts DEF InExec, Mine
    <3> QED BY <3>1, <3>2, <3>3
  <2>6. InBox(p) => InBox(p)' \/ Mine(p, m)
    <3> SUFFICES ASSUME NEW i \in DOMAIN inbox, Mine(p, inbox[i]), i # 1 PROVE InBox(p)'
      BY <1>3 DEF InBox
    <3>1. i - 1 \in DOMAIN inbox' /\ inbox'[i - 1] = inbox[i] BY <1>3
    <3> QED BY <1>1, <3>1 DEF InBox, Mine
  <2>7. \A a \in out' : a.to = p /\ a.n = turn[p] => a.res = "ok" /\ (Mine(p, m) \/ InOut(p))
    BY <1>6, <2>1, <2>4 DEF Going, Mine, InOut
  <2>8. ASSUME reinit[p] = "bus"
        PROVE  /\ ~InExec(p)' /\ (InOut(p)' => InOut(p))
               /\ \A i \in DOMAIN inbox' : Mine(p, inbox'[i]) =>
                    /\ inbox'[i].kind = "init"
                    /\ \A j \in DOMAIN inbox' : j > i /\ inbox'[j].from = p => inbox'[j].kind # "init"
    <3>1. ~InExec(p)'
      BY <1>1, <1>6, <2>1, <2>4, <2>8 DEF Going, InExec, Mine
    <3>2. InOut(p)' => InOut(p)
      BY <1>1, <2>4, <2>7, <2>8 DEF InOut
    <3>3. ASSUME NEW i \in DOMAIN inbox', Mine(p, inbox'[i])
          PROVE  /\ inbox'[i].kind = "init"
                 /\ \A j \in DOMAIN inbox' : j > i /\ inbox'[j].from = p => inbox'[j].kind # "init"
      <4>1. i + 1 \in DOMAIN inbox /\ inbox'[i] = inbox[i + 1] BY <1>3
      <4>2. /\ inbox[i + 1].kind = "init"
            /\ \A j \in DOMAIN inbox : j > i + 1 /\ inbox[j].from = p => inbox[j].kind # "init"
        BY <2>1, <2>8, <3>3, <4>1 DEF Going
      <4>3. \A j \in DOMAIN inbox' : j > i => j + 1 > i + 1 BY <1>3
      <4> QED BY <1>3, <4>1, <4>2, <4>3
    <3> QED BY <3>1, <3>2, <3>3
  <2>9. InBox(p)' \/ InChain(p)' \/ InExec(p)' \/ InOut(p)'
    BY <2>1, <2>3, <2>5, <2>6 DEF Going
  <2>10. Settled(p) => Settled(p)' BY <2>2 DEF Settled
  <2>11. reinit[p] = "bus" => \A i \in DOMAIN inits : Mine(p, inits[i]) => i = Len(inits) /\ NoInit(p)'
    BY <2>1, <2>2 DEF Going
  <2>12. Served(p)'
    <3>1. \A h \in exec' : h \in exec \/ h = Handler(m, "now") BY <1>4, <2>4
    <3>2. Handler(m, "now").services = "now" BY Parts
    <3> QED BY <1>1, <2>1, <3>1, <3>2 DEF Going, Served, Mine
  <2> QED BY <1>1, <2>1, <2>7, <2>8, <2>9, <2>10, <2>11, <2>12 DEF Going, Mine
<1> QED BY <1>1, <1>7, <1>8 DEF PageCause

LEMMA HandlerCause ==
  ASSUME TypeOK, NEW p \in Pages, PageCause(p), NEW h \in exec, HandlerEnds(h)
  PROVE  PageCause(p)'
<1>1. /\ UNCHANGED <<inbox, inits, initialized, reinit, turn>> /\ exec' = exec \ {h}
      /\ \/ out' = out \cup {Answer(h.m, "ok")} /\ UNCHANGED hit
         \/ h.services = "before" /\ out' = out \cup {Answer(h.m, "error")} /\ UNCHANGED hit
         \/ out' = out \cup {Answer(h.m, "error")} /\ hit' = Struck
  BY DEF HandlerEnds, WalletFails, NoFault, Fault, client
<1>3. hit[p] => hit'[p] BY <1>1, StruckFacts, TypeParts DEF Senders
<1>4. /\ \A a \in out' : a \in out \/ (a.to = h.m.from /\ a.n = h.m.n)
      /\ out \subseteq out'
  BY <1>1 DEF Answer
<1>5. Numbered(p)'
  <2>1. h.m.from = p => Turned(p, h.m.n) BY DEF PageCause, Numbered
  <2> QED BY <1>1, <1>4, <2>1 DEF PageCause, Numbered, Turned
<1>6. ASSUME reinit[p] # "none", ~hit'[p] PROVE Going(p)'
  <2>0. Mine(p, h.m) => out' = out \cup {Answer(h.m, "ok")}
    <3>1. Going(p) BY <1>3, <1>6 DEF PageCause
    <3>2. Mine(p, h.m) => h.services = "now" BY <3>1 DEF Going, Served
    <3>3. ~(hit' = Struck) BY <1>6, StruckFacts, TypeParts
    <3> QED BY <1>1, <3>2, <3>3
  <2>1. Going(p) BY <1>3, <1>6 DEF PageCause
  <2>2. Mine(p, h.m) => reinit[p] # "bus" /\ InOut(p)'
    <3>1. Mine(p, h.m) => InExec(p) BY DEF InExec
    <3>2. Mine(p, h.m) => reinit[p] # "bus" BY <2>1, <3>1 DEF Going
    <3>3. Mine(p, h.m) => InOut(p)' BY <1>1, <2>0, Parts DEF InOut, Mine
    <3> QED BY <3>2, <3>3
  <2>3. /\ InBox(p)' <=> InBox(p)
        /\ InChain(p)' <=> InChain(p)
        /\ InExec(p) => InExec(p)' \/ Mine(p, h.m)
        /\ InExec(p)' => InExec(p)
        /\ InOut(p) => InOut(p)'
        /\ InOut(p)' => InOut(p) \/ Mine(p, h.m)
        /\ Settled(p)' <=> Settled(p)
        /\ NoInit(p)' <=> NoInit(p)
    BY <1>1, <1>4 DEF InBox, InChain, InExec, InOut, Settled, NoInit, Accepts, Mine
  <2>4. \A a \in out' : a.to = p /\ a.n = turn'[p] => a.res = "ok"
    <3> SUFFICES ASSUME NEW a \in out', a.to = p, a.n = turn[p] PROVE a.res = "ok"
      BY <1>1
    <3>1. CASE a \in out BY <2>1, <3>1 DEF Going
    <3>2. CASE a \notin out
      <4>1. Mine(p, h.m) BY <1>4, <3>2 DEF Mine
      <4>2. a = Answer(h.m, "ok") BY <2>0, <3>2, <4>1
      <4> QED BY <4>2, Parts
    <3> QED BY <3>1, <3>2
  <2> QED BY <1>1, <2>1, <2>2, <2>3, <2>4 DEF Going, Served, Mine
<1> QED BY <1>1, <1>5, <1>6 DEF PageCause

LEMMA InitStopCause ==
  ASSUME TypeOK, Runs, NEW p \in Pages, PageCause(p), InitStop
  PROVE  PageCause(p)'
<1>1. /\ UNCHANGED <<inbox, inits, out, reinit, turn>> /\ inits # <<>>
      /\ exec' = {Handler(h.m, "before") : h \in exec}
  BY DEF InitStop, ElseInit, client, Runs
<1>2. hit[p] => hit'[p] BY DEF InitStop, Senders
<1>3. \A h \in exec' : \E g \in exec : h.m = g.m BY <1>1 DEF Handler
<1>4. Numbered(p)' BY <1>1, <1>3 DEF PageCause, Numbered, Turned
<1>5. ASSUME reinit[p] # "none", Going(p) PROVE Going(p)'
  <2>1. reinit[p] = "bus" /\ ~InOut(p) /\ ~InExec(p)
    BY <1>1, <1>5 DEF Going, Settled, Accepts
  <2>2. ~InExec(p)' BY <1>1, <1>3, <2>1 DEF InExec, Mine
  <2>3. /\ InBox(p)' <=> InBox(p)
        /\ InChain(p)' <=> InChain(p)
        /\ InOut(p)' <=> InOut(p)
        /\ NoInit(p)' <=> NoInit(p)
    BY <1>1 DEF InBox, InChain, InOut, NoInit, Mine
  <2>4. Served(p)' BY <2>2 DEF Served, InExec
  <2> QED BY <1>1, <1>5, <2>1, <2>2, <2>3, <2>4 DEF Going, Mine
<1> QED BY <1>1, <1>2, <1>4, <1>5 DEF PageCause

\* The initialization at the head of the chain is done: the last of the page's own
\* leaves the bus up, with no other in the chain.
LEMMA InitDoneCause ==
  ASSUME TypeOK, Runs, NEW p \in Pages, PageCause(p), InitDone
  PROVE  PageCause(p)'
<1> DEFINE m == Head(inits)
<1>1. /\ UNCHANGED <<inbox, exec, hit, reinit, turn>> /\ inits # <<>> /\ inits' = Tail(inits)
      /\ initialized' = TRUE /\ out' = out \cup {Answer(m, "ok")}
  BY DEF InitDone, NextInit, NoFault, ElseInit, client, Runs
<1>2. /\ Len(inits) \in Nat \ {0} /\ Len(inits') = Len(inits) - 1
      /\ DOMAIN inits = 1..Len(inits) /\ DOMAIN inits' = 1..(Len(inits) - 1)
      /\ \A i \in DOMAIN inits' : inits'[i] = inits[i + 1]
      /\ m = inits[1] /\ inits' \in Seq(Inits)
  BY <1>1, Tailed, QueueTyped DEF TypeOK
<1>3. /\ 1 \in DOMAIN inits
      /\ \A i \in DOMAIN inits' : i + 1 \in DOMAIN inits /\ inits'[i] = inits[i + 1]
      /\ \A i \in DOMAIN inits : i # 1 => i - 1 \in DOMAIN inits' /\ inits'[i - 1] = inits[i]
  <2>1. \A i \in DOMAIN inits : i # 1 => i - 1 \in DOMAIN inits' /\ (i - 1) + 1 = i
    BY <1>2
  <2> QED BY <1>2, <2>1
<1> HIDE DEF m
<1>4. /\ \A a \in out' : a \in out \/ (a.to = m.from /\ a.n = m.n /\ a.res = "ok")
      /\ out \subseteq out'
  BY <1>1 DEF Answer
<1>5. Numbered(p)'
  <2>1. m.from = p => Turned(p, m.n) BY <1>2, <1>3 DEF PageCause, Numbered
  <2> QED BY <1>1, <1>3, <1>4, <2>1 DEF PageCause, Numbered, Turned
<1>6. ASSUME reinit[p] # "none", ~hit[p] PROVE Going(p)'
  <2>1. Going(p) BY <1>6 DEF PageCause
  <2>2. reinit[p] = "bus" /\ ~InOut(p) /\ ~InExec(p)
    BY <1>1, <2>1 DEF Going, Settled, Accepts
  <2>3. /\ InBox(p)' <=> InBox(p)
        /\ InExec(p)' <=> InExec(p)
        /\ NoInit(p)' <=> NoInit(p)
    BY <1>1 DEF InBox, InExec, NoInit, Mine
  <2>4. \A a \in out' : a.to = p /\ a.n = turn'[p] => a.res = "ok"
    BY <1>1, <1>4, <2>1 DEF Going
  <2>5. \A i \in DOMAIN inits' : Mine(p, inits'[i]) => i = Len(inits') /\ NoInit(p)
    <3> SUFFICES ASSUME NEW i \in DOMAIN inits', Mine(p, inits'[i])
                 PROVE  i = Len(inits') /\ NoInit(p)
      OBVIOUS
    <3>1. i + 1 \in DOMAIN inits /\ Mine(p, inits[i + 1]) BY <1>3
    <3>2. i + 1 = Len(inits) /\ NoInit(p) BY <2>1, <2>2, <3>1 DEF Going
    <3>3. i \in Nat BY <1>2
    <3> QED BY <1>2, <3>2, <3>3
  <2>6. CASE Mine(p, m)
    <3>1. 1 = Len(inits) /\ NoInit(p) BY <1>2, <1>3, <2>1, <2>2, <2>6 DEF Going
    <3>2. inits' = <<>>
      <4>1. Len(inits) \in Nat /\ Len(inits') = Len(inits) - 1 BY <1>2
      <4>2. Len(inits') = 0 BY <3>1, <4>1
      <4> QED BY <1>2, <4>2, EmptySeq
    <3>3. Settled(p)' BY <1>1, <2>3, <3>1, <3>2 DEF Settled, Accepts
    <3>4. InOut(p)' BY <1>1, <2>6, Parts DEF InOut, Mine
    <3> QED BY <1>1, <2>1, <2>2, <2>3, <2>4, <2>5, <3>3, <3>4 DEF Going, Served, Mine
  <2>7. CASE ~Mine(p, m)
    <3>1. ~InOut(p)' BY <1>1, <1>4, <2>2, <2>7 DEF InOut, Mine
    <3>2. InChain(p) => InChain(p)'
      <4> SUFFICES ASSUME NEW i \in DOMAIN inits, Mine(p, inits[i]) PROVE InChain(p)'
        BY DEF InChain
      <4>1. i # 1 BY <1>2, <2>7
      <4>2. i - 1 \in DOMAIN inits' /\ inits'[i - 1] = inits[i] BY <1>3, <4>1
      <4> QED BY <1>1, <4>2 DEF InChain, Mine
    <3> QED BY <1>1, <2>1, <2>2, <2>3, <2>4, <2>5, <3>1, <3>2 DEF Going, Served, Mine
  <2> QED BY <2>6, <2>7
<1> QED BY <1>1, <1>5, <1>6 DEF PageCause

\* A fault strikes every page that is at an initialization.
LEMMA FaultCause ==
  ASSUME TypeOK, Runs, NEW p \in Pages, PageCause(p), InitFails \/ Kill
  PROVE  PageCause(p)'
<1>1. UNCHANGED <<reinit, turn>> /\ (reinit[p] # "none" => hit'[p])
  BY StruckFacts, TypeParts DEF InitFails, Kill, ElseInit, client, Fault
<1>2. CASE Kill
  <2>1. inits' = <<>> /\ exec' = {} /\ UNCHANGED out /\ (inbox' = inbox \/ inbox' = <<>>)
    BY <1>2 DEF Kill
  <2>2. Numbered(p)' BY <1>1, <2>1 DEF PageCause, Numbered, Turned
  <2> QED BY <1>1, <2>2 DEF PageCause
<1>3. CASE InitFails
  <2>1. /\ inits # <<>> /\ inits' = Tail(inits) /\ out' = out \cup {Answer(Head(inits), "error")}
        /\ UNCHANGED <<inbox, exec>>
    BY <1>3 DEF InitFails, NextInit, ElseInit, Runs
  <2>2. /\ 1 \in DOMAIN inits /\ Head(inits) = inits[1]
        /\ \A i \in DOMAIN inits' : i + 1 \in DOMAIN inits /\ inits'[i] = inits[i + 1]
    <3>1. /\ Len(inits) \in Nat \ {0}
          /\ DOMAIN inits = 1..Len(inits) /\ DOMAIN inits' = 1..(Len(inits) - 1)
          /\ \A i \in DOMAIN inits' : inits'[i] = inits[i + 1]
          /\ Head(inits) = inits[1]
      BY <2>1, Tailed DEF TypeOK
    <3> QED BY <3>1
  <2>3. \A a \in out' : a \in out \/ (a.to = inits[1].from /\ a.n = inits[1].n)
    BY <2>1, <2>2 DEF Answer
  <2>4. Numbered(p)' BY <1>1, <2>1, <2>2, <2>3 DEF PageCause, Numbered, Turned
  <2> QED BY <1>1, <2>4 DEF PageCause
<1> QED BY <1>2, <1>3

LEMMA SamePageCause ==
  ASSUME NEW p \in Pages, PageCause(p),
         UNCHANGED <<inbox, inits, exec, out, initialized, reinit, turn, hit>>
  PROVE  PageCause(p)'
<1>1. /\ InBox(p)' <=> InBox(p)
      /\ InChain(p)' <=> InChain(p)
      /\ InExec(p)' <=> InExec(p)
      /\ InOut(p)' <=> InOut(p)
      /\ Settled(p)' <=> Settled(p)
      /\ NoInit(p)' <=> NoInit(p)
  BY DEF InBox, InChain, InExec, InOut, Settled, NoInit, Accepts, Mine
<1>2. Numbered(p)' BY DEF PageCause, Numbered, Turned
<1>3. Going(p) => Going(p)' BY <1>1 DEF Going, Served, Mine
<1> QED BY <1>2, <1>3 DEF PageCause

LEMMA PageCauseStep ==
  ASSUME TypeOK, Runs, NEW p \in Pages, PageCause(p), [Next]_vars
  PROVE  PageCause(p)'
<1>1. CASE BusStep
  <2>1. CASE Tick \/ TickEnd
    BY <2>1, SamePageCause DEF Tick, TickEnd, ElseTick, bus, client
  <2> QED
    BY <1>1, <2>1, ReceiveInitCause, ReceiveOtherCause, HandlerCause, InitStopCause,
       InitDoneCause, FaultCause
    DEF BusStep
<1>2. CASE Kill BY <1>2, FaultCause
<1>3. CASE \E q \in Requests : Call(q) \/ RequestStep(q) BY <1>3, RequestPageCause
<1>4. CASE \E o \in Pages : PageStep(o) BY <1>4, OtherPageCause, OwnPageCause
<1>5. CASE UNCHANGED vars BY <1>5, SamePageCause DEF vars, bus, client
<1> QED BY <1>1, <1>2, <1>3, <1>4, <1>5 DEF Next

\* What a step of another leaves of a request.
LEMMA RequestKept ==
  ASSUME NEW q \in Requests, RequestCause(q), pc'[q] = pc[q], tries'[q] = tries[q],
         hit[q] => hit'[q],
         pc[q] = "sent" /\ ~hit'[q] /\ Under(q) => Under(q)',
         \A h \in exec' : h.m.from = q /\ pc[q] = "sent" /\ ~hit'[q] => h \in exec,
         \A a \in out' : a.to = q => a \in out,
         pc[q] \in {"sent", "wait", "resend"} /\ ~hit'[q] /\ Up => Up'
  PROVE  RequestCause(q)'
<1>1. ASSUME At(q, "sent"), ~hit'[q] PROVE Sound(q)'
  <2>1. Sound(q) BY <1>1 DEF RequestCause
  <2> QED BY <1>1, <2>1 DEF Sound, At
<1> QED BY <1>1 DEF RequestCause, At

LEMMA InboxUnder ==
  ASSUME TypeOK, NEW q \in Requests, UNCHANGED exec, \A a \in out : a.to = q => a \in out',
         UNCHANGED inbox \/ \E m \in Messages : inbox' = Append(inbox, m)
  PROVE  Under(q) => Under(q)'
<1>1. \A i \in DOMAIN inbox : i \in DOMAIN inbox' /\ inbox'[i] = inbox[i]
  <2>1. CASE UNCHANGED inbox BY <2>1
  <2>2. ASSUME NEW m \in Messages, inbox' = Append(inbox, m)
        PROVE  \A i \in DOMAIN inbox : i \in DOMAIN inbox' /\ inbox'[i] = inbox[i]
    <3>1. /\ Len(inbox) \in Nat
          /\ DOMAIN inbox = 1..Len(inbox) /\ DOMAIN inbox' = 1..(Len(inbox) + 1)
          /\ \A i \in DOMAIN inbox : inbox'[i] = inbox[i]
      BY <2>2, Appended DEF TypeOK
    <3> QED BY <3>1
  <2> QED BY <2>1, <2>2
<1> QED BY <1>1 DEF Under, IsOf

\* A request that is handed over, or refused: with the bus up it is not for want of an
\* initialization.
LEMMA ReceiveRequestCause ==
  ASSUME TypeOK, NEW q \in Requests, RequestCause(q), Receive
  PROVE  RequestCause(q)'
<1> DEFINE m == Head(inbox)
<1>1. inbox # <<>> /\ inbox' = Tail(inbox) /\ UNCHANGED <<initialized, pc, tries>>
  <2>1. UNCHANGED <<initialized, client>> /\ inbox # <<>> /\ inbox' = Tail(inbox) BY DEF Receive
  <2> QED BY <2>1 DEF client
<1>2. m \in Messages BY <1>1, QueueTyped DEF TypeOK
<1>3. hit[q] => hit'[q] BY DEF Receive, Senders
<1>4. Up => Up'
  <2>1. CASE m.kind = "init"
    <3>1. inits' = Append(inits, m) /\ m \in Inits
      BY <1>2, <2>1 DEF Receive, Messages, OfRequests
    <3>2. inits' # <<>> BY <3>1, QueueTyped DEF TypeOK
    <3> QED BY <1>1, <3>2 DEF Up
  <2>2. CASE m.kind # "init"
    <3>1. inits' = inits BY <2>2 DEF Receive
    <3> QED BY <1>1, <3>1 DEF Up
  <2> QED BY <2>1, <2>2
<1>5. \A i \in DOMAIN inbox : i = 1 \/ (i - 1 \in DOMAIN inbox' /\ inbox'[i - 1] = inbox[i])
  BY <1>1, Taken
<1>6. m = inbox[1] BY <1>1, Taken
<1>7. CASE m.from # q
  <2>1. /\ \A a \in out' : a.to = q => a \in out
        /\ \A h \in exec' : h.m.from = q => h \in exec
        /\ exec \subseteq exec' /\ out \subseteq out'
    BY <1>7 DEF Receive, Answer, Handler
  <2>2. Under(q) => Under(q)'
    <3>1. ASSUME NEW i \in DOMAIN inbox, IsOf(q, inbox[i]) PROVE Under(q)'
      <4>1. i # 1 BY <1>6, <1>7, <3>1 DEF IsOf
      <4>2. i - 1 \in DOMAIN inbox' /\ inbox'[i - 1] = inbox[i] BY <1>5, <4>1
      <4> QED BY <3>1, <4>2 DEF Under, IsOf
    <3> QED BY <2>1, <3>1 DEF Under, IsOf
  <2> QED BY <1>1, <1>3, <1>4, <2>1, <2>2, RequestKept
<1>8. CASE m.from = q
  <2>1. m.kind = "request" /\ m.n = 0 BY <1>2, <1>8, FromOne
  <2>2. ASSUME At(q, "sent"), ~hit'[q] PROVE Sound(q)'
    <3>1. Sound(q) /\ (tries[q] > 0 => Up) BY <1>3, <2>2 DEF RequestCause, At
    <3>2. CASE Accepts
      <4>1. exec' = exec \cup {Handler(m, "now")} /\ UNCHANGED out
        BY <2>1, <3>2 DEF Receive
      <4>2. Handler(m, "now").m = m /\ Handler(m, "now").services = "now" BY Parts
      <4>3. Under(q)' BY <1>8, <2>1, <4>1, <4>2 DEF Under, IsOf
      <4>4. \A h \in exec' : h.m.from = q => h.services = "now"
        BY <3>1, <4>1, <4>2 DEF Sound
      <4> QED BY <1>1, <3>1, <4>1, <4>3, <4>4 DEF Sound
    <3>3. CASE ~Accepts
      <4>1. out' = out \cup {Answer(m, Refusal)} /\ UNCHANGED exec
        BY <2>1, <3>3 DEF Receive
      <4>2. /\ Answer(m, Refusal).to = q /\ Answer(m, Refusal).n = 0
            /\ Answer(m, Refusal).res = Refusal
        BY <1>8, <2>1, Parts
      <4>3. Refusal = "initializing" \/ (Refusal = "notinit" /\ ~Up)
        BY <3>3 DEF Refusal, Accepts, Up
      <4>4. Refusal = "notinit" => Refusal = "notinit" /\ tries[q] = 0
        BY <3>1, <4>3 DEF TypeOK
      <4>5. Under(q)' BY <4>1, <4>2 DEF Under
      <4>6. \A a \in out' : a.to = q =>
              a.res \in {"ok", "initializing"} \/ (a.res = "notinit" /\ tries[q] = 0)
        BY <3>1, <4>1, <4>2, <4>3, <4>4 DEF Sound
      <4> QED BY <1>1, <3>1, <4>1, <4>5, <4>6 DEF Sound
    <3> QED BY <3>2, <3>3
  <2> QED BY <1>1, <1>3, <1>4, <2>2 DEF RequestCause, At
<1> QED BY <1>7, <1>8

LEMMA HandlerRequestCause ==
  ASSUME TypeOK, NEW q \in Requests, RequestCause(q), NEW h \in exec, HandlerEnds(h)
  PROVE  RequestCause(q)'
<1>1. /\ UNCHANGED <<inbox, inits, initialized, pc, tries>> /\ exec' = exec \ {h}
      /\ \/ out' = out \cup {Answer(h.m, "ok")}
         \/ h.services = "before" /\ out' = out \cup {Answer(h.m, "error")}
         \/ h.m.kind = "wallet" /\ out' = out \cup {Answer(h.m, "error")}
      /\ UNCHANGED hit \/ hit' = Struck
  BY DEF HandlerEnds, WalletFails, NoFault, Fault, client
<1>h. hit[q] => hit'[q] BY <1>1, StruckFacts, TypeParts DEF Senders
<1>2. Up => Up' BY <1>1 DEF Up
<1>3. CASE h.m.from # q
  <2>1. /\ \A a \in out' : a.to = q => a \in out
        /\ out \subseteq out'
    BY <1>1, <1>3 DEF Answer
  <2>2. Under(q) => Under(q)' BY <1>1, <1>3, <2>1 DEF Under, IsOf
  <2> QED BY <1>1, <1>2, <1>h, <2>1, <2>2, RequestKept
<1>4. CASE h.m.from = q
  <2>1. h.m \in Messages BY DEF TypeOK
  <2>2. h.m.n = 0 BY <1>4, <2>1, FromOne
  <2>3. ASSUME At(q, "sent"), ~hit'[q] PROVE Sound(q)'
    <3>1. Sound(q) BY <1>h, <2>3 DEF RequestCause
    <3>2. h.services = "now" BY <1>4, <3>1 DEF Sound
    <3>3. out' = out \cup {Answer(h.m, "ok")} BY <1>1, <1>4, <2>1, <3>2, FromOne
    <3>4. /\ Answer(h.m, "ok").to = q /\ Answer(h.m, "ok").n = 0
          /\ Answer(h.m, "ok").res = "ok"
      BY <1>4, <2>2, Parts
    <3>5. Under(q)' BY <3>3, <3>4 DEF Under
    <3> QED BY <1>1, <3>1, <3>3, <3>4, <3>5 DEF Sound
  <2> QED BY <1>1, <1>2, <1>h, <2>3 DEF RequestCause, At
<1> QED BY <1>3, <1>4

\* Initializations strike the requests that are handed over, faults all of them.
LEMMA WorkerRequestCause ==
  ASSUME TypeOK, Runs, NEW q \in Requests, RequestCause(q),
         InitStop \/ InitDone \/ InitFails \/ Tick \/ TickEnd \/ Kill
  PROVE  RequestCause(q)'
<1>0. UNCHANGED <<pc, tries>>
  BY DEF InitStop, InitDone, InitFails, Tick, TickEnd, Kill, ElseInit, ElseTick, client
<1>1. CASE InitStop
  <2>1. /\ UNCHANGED <<inbox, out, inits>> /\ inits # <<>>
        /\ exec' = {Handler(h.m, "before") : h \in exec}
        /\ hit' = [s \in Senders |-> hit[s] \/ (Busy(s) /\ \E h \in exec : h.m.from = s)]
    BY <1>1 DEF InitStop, ElseInit, Runs
  <2>2. hit[q] => hit'[q] BY <2>1 DEF Senders
  <2>3. pc[q] = "sent" /\ ~hit'[q] => \A h \in exec : h.m.from # q
    BY <2>1, FromPage DEF Senders, Busy, Ended
  <2>4. \A h \in exec' : \E g \in exec : h.m = g.m BY <2>1, Parts
  <2>5. pc[q] = "sent" /\ ~hit'[q] /\ Under(q) => Under(q)'
    BY <2>1, <2>3 DEF Under, IsOf
  <2> QED BY <1>0, <2>1, <2>2, <2>3, <2>4, <2>5, RequestKept DEF Up
<1>2. CASE InitDone
  <2>1. UNCHANGED <<inbox, exec, hit>> /\ initialized' = TRUE
    BY <1>2 DEF InitDone, ElseInit, NoFault
  <2>2. out' = out \cup {Answer(Head(inits), "ok")} /\ Head(inits).from # q
    <3>1. Head(inits) \in Inits BY <1>2, InitChainTyped DEF InitDone
    <3> QED BY <1>2, <3>1, FromPage DEF InitDone, Inits
  <2>3. /\ \A a \in out' : a.to = q => a \in out
        /\ out \subseteq out'
    BY <2>2, Parts
  <2>4. Under(q) => Under(q)' BY <2>1, <2>3 DEF Under, IsOf
  <2> QED BY <1>0, <2>1, <2>3, <2>4, RequestKept DEF Up
<1>3. CASE Tick \/ TickEnd
  <2>1. UNCHANGED <<inbox, exec, out, hit, initialized, inits>>
    BY <1>3 DEF Tick, TickEnd, ElseTick, bus
  <2>2. (Under(q) => Under(q)') /\ (Up => Up') BY <2>1 DEF Under, Up, IsOf
  <2> QED BY <1>0, <2>1, <2>2, RequestKept
<1>4. CASE InitFails \/ Kill
  <2>1. hit' = Struck BY <1>4 DEF InitFails, Kill, Fault
  <2>2. hit[q] => hit'[q] BY <2>1, StruckFacts, TypeParts DEF Senders
  <2>3. pc[q] \in {"sent", "wait", "resend"} => hit'[q] BY <2>1, StruckFacts, TypeParts
  <2> QED BY <1>0, <2>2, <2>3 DEF RequestCause, At
<1> QED BY <1>1, <1>2, <1>3, <1>4

LEMMA OtherRequestCause ==
  ASSUME TypeOK, NEW q \in Requests, RequestCause(q), NEW r \in Requests, r # q,
         Call(r) \/ RequestStep(r)
  PROVE  RequestCause(q)'
<1>1. /\ UNCHANGED <<initialized, inits, exec>> /\ out' \subseteq out
      /\ \A a \in out : a.to = q => a \in out'
  BY DEF Call, RequestStep, Hear, TimeOut, Resend, GiveUp, ElsePage, bus
<1>2. hit[q] => hit'[q]
  <2>1. UNCHANGED hit \/ hit' = Struck
    BY DEF Call, RequestStep, Hear, TimeOut, Resend, GiveUp, NoFault, Fault
  <2> QED BY <2>1, StruckFacts, TypeParts DEF Senders
<1>3. \/ Send(r) \/ Reinitialize(r)
      \/ UNCHANGED inbox /\ (UNCHANGED pc \/ \E x : Becomes(r, x))
  BY DEF Call, RequestStep, Hear, TimeOut, Resend, GiveUp, Answered, client
<1>4. pc'[q] = pc[q] BY <1>3 DEF Send, Reinitialize, Becomes, TypeOK
<1>5. tries'[q] = tries[q]
  BY DEF Call, RequestStep, Hear, TimeOut, Resend, GiveUp, Answered, client, TypeOK
<1>6. UNCHANGED inbox \/ \E m \in Messages : inbox' = Append(inbox, m)
  <2>1. CASE Send(r) BY <2>1, MsgTyped DEF Send
  <2> QED BY <1>3, <2>1, ReinitOnce
<1>7. Under(q) => Under(q)' BY <1>1, <1>6, InboxUnder
<1> QED BY <1>1, <1>2, <1>4, <1>5, <1>7, RequestKept DEF Up

\* A request is sent while nothing of it is under way.
LEMMA SendCause ==
  ASSUME TypeOK, NEW q \in Requests, Once(q), RequestCause(q), pc[q] \in Unsent, Send(q),
         UNCHANGED <<initialized, inits, exec, out, tries, hit>>,
         tries[q] > 0 /\ ~hit[q] => Up
  PROVE  RequestCause(q)'
<1> DEFINE m == Msg("request", q, 0)
<1>1. m \in Messages /\ IsOf(q, m) BY MsgTyped DEF Msg, IsOf
<1>2. NoExec(q) /\ NoOut(q) BY DEF Once
<1>3. pc'[q] = "sent" /\ inbox' = Append(inbox, m) BY DEF Send, Becomes, TypeOK
<1> HIDE DEF m
<1>4. /\ Len(inbox) \in Nat /\ DOMAIN inbox' = 1..(Len(inbox) + 1)
      /\ inbox'[Len(inbox) + 1] = m
  BY <1>1, <1>3, Appended DEF TypeOK
<1>5. Len(inbox) + 1 \in DOMAIN inbox' BY <1>4
<1>6. Sound(q)'
  <2>1. Under(q)' BY <1>1, <1>4, <1>5 DEF Under, IsOf
  <2> QED BY <1>2, <2>1 DEF Sound, NoExec, NoOut
<1> QED BY <1>3, <1>6 DEF RequestCause, At, Up

LEMMA AnsweredCause ==
  ASSUME TypeOK, NEW q \in Requests, RequestCause(q), At(q, "sent"),
         NEW res, Answered(q, res), UNCHANGED <<initialized, inits>>, hit[q] => hit'[q],
         hit'[q] \/ res \in {"ok", "initializing"} \/ (res = "notinit" /\ tries[q] = 0)
  PROVE  RequestCause(q)'
<1>1. CASE Becomes(q, "ok")
  <2>1. pc'[q] = "ok" BY <1>1 DEF Becomes, TypeOK
  <2> QED BY <2>1 DEF RequestCause, At
<1>2. CASE res = "initializing" /\ Becomes(q, "wait") /\ UNCHANGED tries
  <2>1. pc'[q] = "wait" BY <1>2 DEF Becomes, TypeOK
  <2> QED BY <1>2, <2>1 DEF RequestCause, At, Up
<1>3. CASE Reinitialize(q)
  <2>1. pc'[q] = "reinit" BY <1>3 DEF Reinitialize, Becomes, TypeOK
  <2> QED BY <2>1 DEF RequestCause, At
<1>4. CASE res \notin {"ok", "initializing"} /\ ~Retries(q, res) /\ Becomes(q, "failed")
  <2>1. pc'[q] = "failed" BY <1>4 DEF Becomes, TypeOK
  <2>2. ~(res = "notinit" /\ tries[q] = 0) BY <1>4 DEF Retries, MaxRetries
  <2> QED BY <1>4, <2>1, <2>2 DEF RequestCause, At
<1> QED BY <1>1, <1>2, <1>3, <1>4 DEF Answered

LEMMA OwnRequestCause ==
  ASSUME TypeOK, NEW q \in Requests, Once(q), RequestCause(q), Call(q) \/ RequestStep(q)
  PROVE  RequestCause(q)'
<1>1. UNCHANGED <<initialized, inits, exec>>
  BY DEF Call, RequestStep, Hear, TimeOut, Resend, GiveUp, ElsePage, bus
<1>2. hit' = Struck => (hit[q] => hit'[q]) /\ (pc[q] \in {"sent", "wait"} => hit'[q])
  BY StruckFacts, TypeParts DEF Senders
<1>3. CASE Call(q)
  <2>1. CASE Send(q) /\ NoFault
    <3>1. pc[q] \in Unsent /\ tries[q] = 0 /\ UNCHANGED <<out, tries, hit>>
      BY <1>3, <2>1 DEF Call, At, Unsent, RequestCause, NoFault
    <3> QED BY <1>1, <2>1, <3>1, SendCause
  <2>2. CASE Reinitialize(q)
    <3>1. pc'[q] = "reinit" BY <2>2 DEF Reinitialize, Becomes, TypeOK
    <3> QED BY <3>1 DEF RequestCause, At
  <2> QED BY <1>3, <2>1, <2>2 DEF Call
<1>4. CASE Hear(q)
  <2>1. PICK a \in out :
          /\ a.to = q /\ out' = out \ {a}
          /\ IF At(q, "sent") THEN Answered(q, a.res) ELSE UNCHANGED <<client, inbox>>
          /\ UNCHANGED <<env, hit>>
    BY <1>4 DEF Hear
  <2>2. CASE At(q, "sent")
    <3>1. hit[q] \/ a.res \in {"ok", "initializing"} \/ (a.res = "notinit" /\ tries[q] = 0)
      BY <2>1, <2>2 DEF RequestCause, Sound
    <3> QED BY <1>1, <2>1, <2>2, <3>1, AnsweredCause
  <2>3. CASE ~At(q, "sent")
    <3>1. UNCHANGED <<pc, tries, inbox, hit>> BY <2>1, <2>3 DEF client
    <3> QED BY <1>1, <2>3, <3>1 DEF RequestCause, At, Up
  <2> QED BY <2>2, <2>3
<1>5. CASE TimeOut(q)
  <2>1. At(q, "sent") /\ Answered(q, "slow") BY <1>5 DEF TimeOut
  <2>2. hit'[q]
    <3>1. CASE Fault("slow") BY <1>2, <2>1, <3>1 DEF Fault, At
    <3>2. CASE Lost(q, 0) /\ NoFault
      <4>1. ~Under(q) BY <3>2 DEF Lost, Under, IsOf
      <4>2. hit[q] BY <2>1, <4>1 DEF RequestCause, Sound
      <4> QED BY <3>2, <4>2 DEF NoFault
    <3> QED BY <1>5, <3>1, <3>2 DEF TimeOut
  <2> QED BY <1>1, <2>1, <2>2, AnsweredCause
<1>6. CASE Resend(q)
  <2>1. pc[q] \in Unsent /\ UNCHANGED <<out, tries, hit>> /\ Send(q)
    BY <1>6 DEF Resend, At, Unsent, NoFault
  <2>2. tries[q] > 0 /\ ~hit[q] => Up BY <1>6 DEF Resend, At, RequestCause
  <2> QED BY <1>1, <2>1, <2>2, SendCause
<1>7. CASE GiveUp(q)
  <2>1. pc'[q] = "failed" /\ hit'[q]
    BY <1>2, <1>7 DEF GiveUp, Becomes, At, Fault, TypeOK
  <2> QED BY <2>1 DEF RequestCause, At
<1> QED BY <1>3, <1>4, <1>5, <1>6, <1>7 DEF RequestStep

\* A page whose initialization nothing came in between of does not fail the requests
\* that wait for it, and has the bus up when it lets them go.
LEMMA PageRequestCause ==
  ASSUME TypeOK, NEW q \in Requests, RequestCause(q), NEW p \in Pages, PageCause(p), PageStep(p)
  PROVE  RequestCause(q)'
<1>1. /\ UNCHANGED <<initialized, inits, exec, tries>> /\ out' \subseteq out
      /\ \A a \in out : a.to = q => a \in out'
  BY FromPage DEF PageStep, PageHears, PageTimeOut, ElsePage, bus
<1>2. Up <=> Up' BY <1>1 DEF Up
<1>3. /\ hit[q] => hit'[q]
      /\ hit[p] /\ q \in Waiting(p) => hit'[q]
      /\ hit' = Passed(p, Struck) /\ q \in Waiting(p) => hit'[q]
  <2>1. hit' = Passed(p, hit) \/ hit' = Passed(p, Struck)
    BY DEF PageStep, PageHears, PageTimeOut
  <2>2. q \in Senders /\ q # p /\ p \in Senders BY FromPage DEF Senders
  <2>3. (hit[q] => Struck[q]) /\ (hit[p] => Struck[p]) /\ (q \in Waiting(p) => Struck[q])
    BY <2>2, StruckFacts, TypeParts DEF Waiting, At
  <2> QED BY <2>1, <2>2, <2>3 DEF Passed
<1>4. UNCHANGED <<pc, inbox>> \/ \E ok : Stage(p, ok)
  BY DEF PageStep, PageHears, PageTimeOut
<1>5. CASE pc'[q] = pc[q] /\ (UNCHANGED inbox \/ \E m \in Messages : inbox' = Append(inbox, m))
  <2>1. Under(q) => Under(q)' BY <1>1, <1>5, InboxUnder
  <2> QED BY <1>1, <1>2, <1>3, <1>5, <2>1, RequestKept
<1>6. CASE \E to \in {"wallet", "status"} : Goes(p, to)
  <2>1. \A to \in {"wallet", "status"} : Msg(to, p, turn[p]) \in Messages
    BY MsgTyped DEF TypeOK
  <2> QED BY <1>5, <1>6, <2>1 DEF Goes
<1>7. ASSUME NEW to \in {"resend", "failed"}, Release(p, to), Stage(p, to = "resend")
      PROVE  RequestCause(q)'
  <2>1. CASE q \notin Waiting(p)
    BY <1>5, <1>7, <2>1 DEF Release
  <2>2. CASE q \in Waiting(p)
    <3>1. pc'[q] = to BY <1>7, <2>2 DEF Release
    <3>2. to = "resend" => (~hit[p] => Up)
      <4>1. to = "resend" => reinit[p] = "status"
        BY <1>7 DEF Stage, Goes, Release, TypeOK
      <4> QED BY <4>1 DEF PageCause, Going, Settled, Accepts, Up
    <3>3. to = "failed" => hit'[q]
      <4>1. ASSUME to = "failed", PageHears(p) PROVE hit'[q]
        <5>1. PICK a \in out :
                /\ a.to = p
                /\ IF reinit[p] # "none" /\ a.n = turn[p]
                   THEN Stage(p, a.res = "ok") ELSE UNCHANGED <<pc, reinit, turn, inbox>>
          BY <4>1 DEF PageHears
        <5>2. pc'[q] # pc[q] BY <2>2, <3>1, <4>1 DEF Waiting, At
        <5>3. reinit[p] # "none" /\ a.n = turn[p] /\ Stage(p, a.res = "ok")
          BY <5>1, <5>2
        <5>4. a.res # "ok"
          BY <3>1, <4>1, <5>2, <5>3 DEF Stage, Goes, Release, TypeOK
        <5>5. hit[p] BY <5>1, <5>3, <5>4 DEF PageCause, Going
        <5> QED BY <1>3, <2>2, <5>5
      <4>2. ASSUME PageTimeOut(p) PROVE hit'[q]
        <5>1. CASE hit' = Passed(p, Struck) BY <1>3, <2>2, <5>1
        <5>2. CASE Lost(p, turn[p])
          <6>1. ~InBox(p) /\ ~InChain(p) /\ ~InExec(p) /\ ~InOut(p)
            BY <5>2 DEF Lost, InBox, InChain, InExec, InOut, Mine
          <6>2. hit[p] BY <4>2, <6>1 DEF PageTimeOut, PageCause, Going
          <6> QED BY <1>3, <2>2, <6>2
        <5> QED BY <4>2, <5>1, <5>2 DEF PageTimeOut
      <4> QED BY <4>1, <4>2 DEF PageStep
    <3> QED BY <1>1, <1>2, <1>3, <1>7, <2>2, <3>1, <3>2, <3>3 DEF RequestCause, At
  <2> QED BY <2>1, <2>2
<1>8. CASE UNCHANGED <<pc, inbox>> BY <1>5, <1>8
<1>9. CASE \E ok : Stage(p, ok)
  BY <1>6, <1>7, <1>9 DEF Stage
<1> QED BY <1>4, <1>8, <1>9

LEMMA RequestCauseStep ==
  ASSUME TypeOK, Runs, AllOnce, Cause, [Next]_vars, NEW q \in Requests
  PROVE  RequestCause(q)'
<1>0. Once(q) /\ RequestCause(q) BY DEF AllOnce, Cause
<1>1. CASE BusStep
  BY <1>0, <1>1, ReceiveRequestCause, HandlerRequestCause, WorkerRequestCause DEF BusStep
<1>2. CASE Kill BY <1>0, <1>2, WorkerRequestCause
<1>3. CASE \E r \in Requests : Call(r) \/ RequestStep(r)
  BY <1>0, <1>3, OtherRequestCause, OwnRequestCause
<1>4. CASE \E p \in Pages : PageStep(p) BY <1>0, <1>4, PageRequestCause DEF Cause
<1>5. CASE UNCHANGED vars
  <2>1. UNCHANGED <<inbox, inits, exec, out, initialized, pc, tries, hit>>
    BY <1>5 DEF vars, bus, client
  <2>2. (Under(q) => Under(q)') /\ (Up => Up') BY <2>1 DEF Under, Up, IsOf
  <2> QED BY <1>0, <2>1, <2>2, RequestKept
<1> QED BY <1>1, <1>2, <1>3, <1>4, <1>5 DEF Next

LEMMA InitCause == Init => Cause
<1> SUFFICES ASSUME Init PROVE Cause
  OBVIOUS
<1>1. ASSUME NEW p \in Pages PROVE PageCause(p)
  BY <1>1 DEF Init, PageCause, Numbered
<1>2. ASSUME NEW q \in Requests PROVE RequestCause(q)
  BY <1>2 DEF Init, RequestCause, At
<1> QED BY <1>1, <1>2 DEF Cause

\* A request fails only for a cause: a fault that struck it, or the initialization it
\* waited for, while it was under way, or another tab's initialization that crossed
\* its own.  A worker that died before is brought back and the request sent again
\* (sendMessageWithRetry, reinitialize), for any number of tabs and requests.
THEOREM NoFailureWithoutCause == Spec => []FailsForCause
<1>1. Cause => FailsForCause BY DEF Cause, RequestCause, FailsForCause
<1>2. TypeOK /\ Runs /\ AllOnce /\ Cause /\ [Next]_vars => Cause'
  BY PageCauseStep, RequestCauseStep DEF Cause
<1>3. Spec => []AllOnce BY InitOnce, StepOnce, TypeCorrect, PTL DEF Spec
<1> QED BY <1>1, <1>2, <1>3, InitCause, TypeCorrect, PTL DEF Spec
=============================================================================

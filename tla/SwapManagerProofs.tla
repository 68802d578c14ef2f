------------------------- MODULE SwapManagerProofs -------------------------
(* Theorems about SwapManager, for every number of calls, starts and faults. *)
EXTENDS SwapManager, TLAPS

Calls == [pc : Pcs, g : 1..MaxStarts, from : {"update", "timer", "resume"}]

\* The lock and the calls: what swapsInProgress is for.
Locked ==
    /\ task \in [Tasks -> {Idle} \cup Calls]
    /\ inProgress \in BOOLEAN
    /\ \A t \in Tasks : Acting(t) => inProgress
    /\ inProgress => \E t \in Tasks : Acting(t)
    /\ SingleAction

\* The other variables are of their types.
Typed ==
    /\ kind \in Kinds /\ faults \in FaultSets /\ budget \in 0..MaxFaults
    /\ boltz \in Statuses
    /\ ours \in {"none", "locked", "taken", "refunded"}
    /\ theirs \in {"none", "locked", "claimed", "reclaimed"}
    /\ row \in SwapType /\ copy \in [1..MaxStarts -> SwapType]
    /\ gen \in 0..MaxStarts /\ mon \in 0..gen /\ misses \in 0..(Threshold - 1)
    /\ link \in {"off", "connecting", "up"}
    /\ {timeout, running, timer, deaf, cosigned, slipped} \subseteq BOOLEAN
    /\ answer \in {None} \cup [g : 1..MaxStarts, status : Statuses \cup {"unknown"}]

-----------------------------------------------------------------------------
(* The steps of a call.                                                     *)

\* A call that changes its place leaves the other calls alone.
LEMMA Place ==
    ASSUME Locked, NEW t \in Tasks, NEW s \in {Idle} \cup Calls,
           task' = [task EXCEPT ![t] = s]
    PROVE  /\ task' \in [Tasks -> {Idle} \cup Calls]
           /\ task'[t] = s
           /\ \A u \in Tasks : u # t => task'[u] = task[u]
BY DEF Locked

\* A call that acts is not idle, so it has a copy and an origin.
LEMMA ActingCall ==
    ASSUME Locked, NEW t \in Tasks, task[t].pc # "idle"
    PROVE  task[t] \in Calls
BY DEF Locked, Idle

\* A call that leaves gives the swap free.
LEMMA LeaveLocked ==
    ASSUME Locked, NEW t \in Tasks, Acting(t), Leave(t)
    PROVE  Locked'
<1>1. task' = [task EXCEPT ![t] = Idle] /\ inProgress' = FALSE
  BY DEF Leave
<1>2. /\ task' \in [Tasks -> {Idle} \cup Calls]
      /\ task'[t] = Idle
      /\ \A u \in Tasks : u # t => task'[u] = task[u]
  BY <1>1, Place
<1>3. \A u \in Tasks : ~Acting(u)'
  BY <1>2 DEF Locked, SingleAction, Acting, Idle
<1> QED
  BY <1>1, <1>2, <1>3 DEF Locked, SingleAction

\* A call that goes on keeps the swap.
LEMMA GotoLocked ==
    ASSUME Locked, NEW t \in Tasks, Acting(t),
           NEW pc \in Pcs \ {"save", "mark"}, Goto(t, pc)
    PROVE  Locked'
<1>1. task[t] \in Calls
  BY ActingCall DEF Acting
<1>2. [task[t] EXCEPT !.pc = pc] \in Calls /\ [task[t] EXCEPT !.pc = pc].pc = pc
  BY <1>1 DEF Calls
<1>3. task' = [task EXCEPT ![t] = [task[t] EXCEPT !.pc = pc]] /\ inProgress' = inProgress
  BY DEF Goto
<1>4. /\ task' \in [Tasks -> {Idle} \cup Calls]
      /\ task'[t].pc = pc
      /\ \A u \in Tasks : u # t => task'[u] = task[u]
  BY <1>2, <1>3, Place
<1>5. \A u \in Tasks : Acting(u)' <=> Acting(u)
  BY <1>4 DEF Acting, Pcs
<1> QED
  BY <1>3, <1>4, <1>5 DEF Locked, SingleAction

\* A call that was not acting, and is not now, changes nothing of the lock.
LEMMA AsideLocked ==
    ASSUME Locked, NEW t \in Tasks, ~Acting(t), NEW s \in {Idle} \cup Calls,
           s.pc \in {"idle", "save", "mark"},
           task' = [task EXCEPT ![t] = s], inProgress' = inProgress
    PROVE  Locked'
<1>1. /\ task' \in [Tasks -> {Idle} \cup Calls]
      /\ task'[t] = s
      /\ \A u \in Tasks : u # t => task'[u] = task[u]
  BY Place
<1>2. \A u \in Tasks : Acting(u)' <=> Acting(u)
  BY <1>1 DEF Acting
<1> QED
  BY <1>1, <1>2 DEF Locked, SingleAction

\* A call that takes the swap finds it free.
LEMMA TakeLocked ==
    ASSUME Locked, NEW t \in Tasks, ~inProgress, NEW s \in Calls,
           s.pc \notin {"idle", "save", "mark"},
           task' = [task EXCEPT ![t] = s], inProgress' = TRUE
    PROVE  Locked'
<1>1. /\ task' \in [Tasks -> {Idle} \cup Calls]
      /\ task'[t] = s
      /\ \A u \in Tasks : u # t => task'[u] = task[u]
  BY Place
<1>2. \A u \in Tasks : Acting(u)' <=> u = t
  BY <1>1 DEF Acting, Locked
<1> QED
  BY <1>1, <1>2 DEF Locked, SingleAction

\* executeAutonomousAction turns back or takes the swap.
LEMMA ActLocked ==
    ASSUME Locked, NEW t \in Tasks, ~Acting(t), NEW g \in 1..MaxStarts,
           NEW from \in {"update", "timer", "resume"}, Act(t, g, from)
    PROVE  Locked'
<1> DEFINE want == Wanted(copy'[g].status)
<1>1. want \in {"claim", "refund", "sign", "nothing"}
  BY DEF Wanted
<1>2. CASE inProgress \/ want = "nothing"
  <2>1. task' = [task EXCEPT ![t] = Idle] /\ inProgress' = inProgress
    BY <1>2 DEF Act
  <2> QED
    BY <2>1, AsideLocked DEF Idle
<1>3. CASE ~(inProgress \/ want = "nothing")
  <2> DEFINE s == [pc |-> want, g |-> g, from |-> from]
  <2>1. task' = [task EXCEPT ![t] = s] /\ inProgress' = TRUE
    BY <1>3 DEF Act
  <2>2. s \in Calls /\ s.pc \notin {"idle", "save", "mark"}
    BY <1>1, <1>3 DEF Calls, Pcs
  <2> HIDE DEF s, want
  <2> QED
    BY <1>3, <2>1, <2>2, TakeLocked
<1> QED
  BY <1>2, <1>3

\* A status that comes in is not acted upon yet.
LEMMA UpdateLocked ==
    ASSUME Locked, NEW t \in Tasks, NEW g \in 1..MaxStarts, NEW s,
           Update(t, g, s), UNCHANGED inProgress
    PROVE  Locked'
<1>1. [pc |-> "save", g |-> g, from |-> "update"] \in Calls
  BY DEF Calls, Pcs
<1>2. task' = [task EXCEPT ![t] = [pc |-> "save", g |-> g, from |-> "update"]]
  BY DEF Update
<1>3. ~Acting(t)
  BY DEF Update, Free, Acting, Idle
<1> QED
  BY <1>1, <1>2, <1>3, AsideLocked

\* Nor is an answer that Boltz does not know the swap.
LEMMA ReceiveLocked ==
    ASSUME Locked, NEW t \in Tasks, NEW g \in 1..MaxStarts, NEW s, Receive(t, g, s)
    PROVE  Locked'
<1>1. Free(t) /\ UNCHANGED inProgress
  BY DEF Receive
<1>2. ~Acting(t)
  BY <1>1 DEF Free, Acting, Idle
<1>3. CASE UNCHANGED task
  BY <1>1, <1>3 DEF Locked, SingleAction, Acting
<1>4. CASE s = "unknown" /\ ~UNCHANGED task
  <2>1. [pc |-> "mark", g |-> g, from |-> "resume"] \in Calls
    BY DEF Calls, Pcs
  <2>2. task' = [task EXCEPT ![t] = [pc |-> "mark", g |-> g, from |-> "resume"]]
    BY <1>4 DEF Receive, NotFound
  <2> QED
    BY <1>1, <1>2, <2>1, <2>2, AsideLocked
<1>5. CASE s # "unknown" /\ ~UNCHANGED task
  <2>1. Update(t, g, s)
    BY <1>5 DEF Receive
  <2> QED
    BY <1>1, <2>1, UpdateLocked
<1> QED
  BY <1>3, <1>4, <1>5

-----------------------------------------------------------------------------
(* The lock is kept.                                                        *)

\* The steps of a call that is under way keep the lock.
LEMMA CallLocked ==
    ASSUME Locked, Typed, NEW t \in Tasks, Step(t)
    PROVE  Locked'
<1>1. task[t].pc # "idle"
  BY DEF Step, Save, Claim, Record, Told, Sign, Refund, Outcome, Write, Keep, Mark
<1>2. task[t] \in Calls
  BY <1>1, ActingCall
<1>3. CASE Save(t)
  <2>1. Act(t, task[t].g, "update") /\ ~Acting(t)
    BY <1>3 DEF Save, Acting
  <2> QED
    BY <1>2, <2>1, ActLocked DEF Calls
<1>4. CASE Mark(t)
  <2>1. task' = [task EXCEPT ![t] = Idle] /\ inProgress' = inProgress /\ ~Acting(t)
    BY <1>4 DEF Mark, Acting
  <2> QED
    BY <2>1, AsideLocked DEF Idle
<1>5. CASE ~Save(t) /\ ~Mark(t)
  <2>1. Acting(t)
    BY <1>5 DEF Step, Acting, Claim, Record, Told, Sign, Refund, Outcome, Write, Keep
  <2>2. Leave(t) \/ \E pc \in Pcs \ {"save", "mark"} : Goto(t, pc)
    BY <1>5 DEF Step, Pcs, Claim, Record, Told, Sign, Refund, Outcome, Write, Keep,
                Forget, Remember
  <2> QED
    BY <2>1, <2>2, LeaveLocked, GotoLocked
<1> QED
  BY <1>3, <1>4, <1>5

\* Whatever starts a call keeps the lock.
LEMMA BeginLocked ==
    ASSUME Locked, Typed, NEW t \in Tasks,
           Fire(t) \/ Hear(t) \/ Poll(t) \/ Answer(t) \/ Start(t)
    PROVE  Locked'
<1> USE SwapAssumption
<1>1. mon # 0 => mon \in 1..MaxStarts
  BY DEF Typed
<1>2. CASE Fire(t)
  <2>1. ~Acting(t)
    BY <1>2 DEF Fire, Free, Acting, Idle
  <2>2. CASE running /\ mon # 0
    <3>1. Act(t, mon, "timer")
      BY <1>2, <2>2 DEF Fire
    <3> QED
      BY <1>1, <2>1, <2>2, <3>1, ActLocked
  <2>3. CASE ~(running /\ mon # 0)
    BY <1>2, <2>3 DEF Fire, Locked, SingleAction, Acting
  <2> QED
    BY <2>2, <2>3
<1>3. CASE Hear(t)
  BY <1>1, <1>3, UpdateLocked DEF Hear
<1>4. CASE Poll(t)
  BY <1>1, <1>4, ReceiveLocked DEF Poll, Polled
<1>5. CASE Answer(t)
  <2>1. answer.g \in 1..MaxStarts
    BY <1>5 DEF Typed, Answer
  <2> QED
    BY <1>5, <2>1, ReceiveLocked DEF Answer
<1>6. CASE Start(t)
  <2>1. ~Acting(t)
    BY <1>6 DEF Start, Free, Acting, Idle
  <2>2. CASE UNCHANGED <<task, inProgress>>
    BY <2>2 DEF Locked, SingleAction, Acting
  <2>3. CASE ~UNCHANGED <<task, inProgress>>
    <3> DEFINE m == IF ShouldMonitor(row) THEN gen + 1 ELSE mon
               want == Wanted(copy'[m].status)
               s == [pc |-> want, g |-> m, from |-> "resume"]
    <3>1. /\ task' = [task EXCEPT ![t] = s] /\ inProgress' = TRUE
          /\ ~inProgress /\ m # 0 /\ want # "nothing"
      BY <1>6, <2>3 DEF Start
    <3>2. want \in {"claim", "refund", "sign", "nothing"}
      BY DEF Wanted
    <3>3. m \in 1..MaxStarts
      BY <1>1, <1>6, <3>1 DEF Start, Typed
    <3>4. s \in Calls /\ s.pc \notin {"idle", "save", "mark"}
      BY <3>1, <3>2, <3>3 DEF Calls, Pcs
    <3> HIDE DEF s, want, m
    <3> QED
      BY <3>1, <3>4, TakeLocked
  <2> QED
    BY <2>2, <2>3
<1> QED
  BY <1>2, <1>3, <1>4, <1>5, <1>6

\* Every step keeps the lock.
LEMMA LockedStep ==
    ASSUME Locked, Typed, [Next]_vars
    PROVE  Locked'
<1>1. CASE UNCHANGED <<task, inProgress>>
  BY <1>1 DEF Locked, SingleAction, Acting
<1>2. CASE Crash
  BY <1>2 DEF Crash, Locked, SingleAction, Acting, Idle
<1>3. CASE \E t \in Tasks : Step(t)
  BY <1>3, CallLocked
<1>4. CASE \E t \in Tasks : Fire(t) \/ Hear(t) \/ Poll(t) \/ Answer(t) \/ Start(t)
  BY <1>4, BeginLocked
<1>5. Boltz \/ Timeout \/ PollSlowly \/ Connect \/ Stop => UNCHANGED <<task, inProgress>>
  BY DEF Boltz, BoltzLocks, BoltzConfirms, BoltzSettles, BoltzFails, BoltzExpires,
         BoltzReclaims, BoltzAsksEarly, Timeout, PollSlowly, Connect, Stop, manager
<1> QED
  BY <1>1, <1>2, <1>3, <1>4, <1>5 DEF Next, vars

-----------------------------------------------------------------------------
(* Type correctness.                                                        *)

\* A call that ends drops the swap or leaves the map as it is.
LEMMA CloseType ==
    ASSUME Typed, gen' = gen, NEW g, NEW from, NEW ran, NEW armed, Close(g, from, ran, armed)
    PROVE  mon' \in 0..gen'
BY DEF Typed, Close

\* So does a call that leaves.
LEMMA LeaveType ==
    ASSUME Typed, gen' = gen, NEW t \in Tasks, Leave(t)
    PROVE  mon' \in 0..gen'
BY CloseType DEF Leave

\* A call that goes on leaves the map alone.
LEMMA GotoType ==
    ASSUME Typed, gen' = gen, NEW t \in Tasks, NEW pc, Goto(t, pc)
    PROVE  mon' \in 0..gen'
BY DEF Goto, Typed

\* A call that turns back may end, one that takes the swap leaves the map alone.
LEMMA ActType ==
    ASSUME Typed, gen' = gen, NEW t \in Tasks, NEW g, NEW from, Act(t, g, from)
    PROVE  mon' \in 0..gen' /\ slipped' \in BOOLEAN
<1>1. CASE inProgress \/ Wanted(copy'[g].status) = "nothing"
  <2>1. Close(g, from, ~inProgress, timer') /\ slipped' \in BOOLEAN
    BY <1>1 DEF Act
  <2> QED
    BY <2>1, CloseType
<1>2. CASE ~(inProgress \/ Wanted(copy'[g].status) = "nothing")
  BY <1>2 DEF Act, Typed
<1> QED
  BY <1>1, <1>2

\* A copy of the swap with other fields is a copy of a swap.
LEMMA CopyType ==
    ASSUME Typed, NEW g \in 1..MaxStarts, NEW s \in Statuses, NEW r \in BOOLEAN
    PROVE  /\ [copy EXCEPT ![g] = Swap(s, r, copy[g].txid)] \in [1..MaxStarts -> SwapType]
           /\ [copy EXCEPT ![g].status = s] \in [1..MaxStarts -> SwapType]
           /\ [copy EXCEPT ![g].txid = TRUE] \in [1..MaxStarts -> SwapType]
           /\ copy[g] \in SwapType
           /\ [copy[g] EXCEPT !.status = s] \in SwapType
           /\ [row EXCEPT !.status = s] \in SwapType
           /\ [row EXCEPT !.status = s, !.txid = TRUE] \in SwapType
<1>1. copy[g] \in SwapType /\ row \in SwapType /\ copy \in [1..MaxStarts -> SwapType]
  BY DEF Typed
<1>2. Swap(s, r, copy[g].txid) \in SwapType
  BY <1>1 DEF Swap, SwapType
<1>3. [copy[g] EXCEPT !.status = s] \in SwapType /\ [copy[g] EXCEPT !.txid = TRUE] \in SwapType
  BY <1>1 DEF SwapType
<1>4. /\ [row EXCEPT !.status = s] \in SwapType
      /\ [row EXCEPT !.status = s, !.txid = TRUE] \in SwapType
  BY <1>1 DEF SwapType
<1> QED
  BY <1>1, <1>2, <1>3, <1>4

\* Boltz, the clock and the connection stay in the types.
LEMMA OutsideType ==
    ASSUME Typed, Boltz \/ Timeout \/ PollSlowly \/ Connect \/ Stop \/ Crash
    PROVE  Typed'
<1> USE SwapAssumption DEF Typed, Fault, NoFault, env, htlc, life, conn, hist, manager
<1>1. CASE BoltzLocks
  BY <1>1 DEF BoltzLocks, Statuses
<1>2. CASE BoltzConfirms
  BY <1>2 DEF BoltzConfirms, Statuses
<1>3. CASE BoltzSettles
  BY <1>3 DEF BoltzSettles, Statuses
<1>4. CASE BoltzFails
  BY <1>4 DEF BoltzFails, Statuses
<1>5. CASE BoltzExpires
  BY <1>5 DEF BoltzExpires, Statuses
<1>6. CASE BoltzReclaims
  BY <1>6 DEF BoltzReclaims, Statuses
<1>7. CASE BoltzAsksEarly
  BY <1>7 DEF BoltzAsksEarly, Statuses
<1>8. CASE Timeout
  BY <1>8 DEF Timeout
<1>9. CASE PollSlowly
  BY <1>9 DEF PollSlowly, Polled
<1>10. CASE Connect
  BY <1>10 DEF Connect
<1>11. CASE Stop
  <2>1. budget' \in 0..MaxFaults /\ misses' \in 0..(Threshold - 1)
    BY <1>11 DEF Stop
  <2> QED
    BY <1>11, <2>1 DEF Stop
<1>12. CASE Crash
  <2>1. budget' \in 0..MaxFaults /\ misses' \in 0..(Threshold - 1)
    BY <1>12 DEF Crash
  <2>2. gen' \in 0..MaxStarts /\ mon' \in 0..gen'
    BY <1>12 DEF Crash
  <2>3. Swap("created", FALSE, FALSE) \in SwapType
    BY DEF Swap, SwapType, Statuses
  <2>4. copy' \in [1..MaxStarts -> SwapType]
    BY <1>12, <2>3 DEF Crash
  <2> QED
    BY <1>12, <2>1, <2>2, <2>4 DEF Crash
<1> QED
  BY <1>1, <1>2, <1>3, <1>4, <1>5, <1>6, <1>7, <1>8, <1>9, <1>10, <1>11, <1>12 DEF Boltz

\* So do the steps of a call.
LEMMA CallType ==
    ASSUME Locked, Typed, NEW t \in Tasks, Step(t)
    PROVE  Typed'
<1> USE SwapAssumption
<1>1. gen' = gen /\ answer' = answer /\ UNCHANGED <<env, life, conn, misses, boltz, timeout>>
  BY DEF Step, Save, Claim, Record, Told, Sign, Refund, Outcome, Write, Keep, Mark, life, htlc
<1>2. task[t] \in Calls
  BY ActingCall DEF Step, Save, Claim, Record, Told, Sign, Refund, Outcome, Write, Keep, Mark
<1>3. task[t].g \in 1..MaxStarts
  BY <1>2 DEF Calls
<1>4. budget' \in 0..MaxFaults
  <2>1. UNCHANGED budget \/ \E name \in FaultNames : Fault(name)
    BY DEF Step, Save, Claim, Record, Told, Sign, Refund, Outcome, Write, Keep, Mark,
           NoFault, FaultNames
  <2> QED
    BY <2>1 DEF Typed, Fault
<1>5. mon' \in 0..gen' /\ slipped' \in BOOLEAN
  <2>1. CASE Save(t)
    BY <1>1, <2>1, ActType DEF Save
  <2>2. CASE Mark(t)
    BY <1>1, <2>2 DEF Mark, Typed, hist
  <2>3. CASE ~Save(t) /\ ~Mark(t)
    <3>1. Leave(t) \/ \E pc : Goto(t, pc)
      BY <2>3 DEF Step, Claim, Record, Told, Sign, Refund, Outcome, Write, Keep, Forget, Remember
    <3>2. slipped' = slipped
      BY <2>3 DEF Step, Claim, Record, Told, Sign, Refund, Outcome, Write, Keep, hist
    <3> QED
      BY <1>1, <3>1, <3>2, LeaveType, GotoType DEF Typed
  <2> QED
    BY <2>1, <2>2, <2>3
<1>6. /\ ours' \in {"none", "locked", "taken", "refunded"}
      /\ theirs' \in {"none", "locked", "claimed", "reclaimed"}
  BY DEF Step, Save, Claim, Record, Told, Sign, Refund, Outcome, Write, Keep, Mark, htlc, Typed
<1>7. cosigned' \in BOOLEAN /\ timer' \in BOOLEAN
  BY DEF Step, Save, Claim, Record, Told, Sign, Refund, Outcome, Write, Keep, Mark, hist, Typed,
         Forget, Remember
<1>8. row' \in SwapType /\ copy' \in [1..MaxStarts -> SwapType]
  <2>1. boltz \in Statuses /\ copy[task[t].g] \in SwapType /\ copy[task[t].g].status \in Statuses
    BY <1>3 DEF Typed, SwapType
  <2>2. row \in SwapType /\ copy \in [1..MaxStarts -> SwapType]
    BY DEF Typed
  <2>3. row' \in SwapType
    <3>1. row' \in {row, copy[task[t].g], [row EXCEPT !.status = boltz],
                   [row EXCEPT !.status = boltz, !.txid = TRUE],
                   [copy[task[t].g] EXCEPT !.status = boltz]}
      BY DEF Step, Save, Claim, Record, Told, Sign, Refund, Outcome, Write, Keep, Mark, Copy, Noted
    <3>2. /\ [copy[task[t].g] EXCEPT !.status = boltz] \in SwapType
          /\ [row EXCEPT !.status = boltz] \in SwapType
          /\ [row EXCEPT !.status = boltz, !.txid = TRUE] \in SwapType
      BY <1>3, <2>1, CopyType
    <3> QED
      BY <2>1, <2>2, <3>1, <3>2
  <2>4. copy' \in [1..MaxStarts -> SwapType]
    <3>1. CASE Outcome(t)
      <4>1. \E s \in Statuses, r \in BOOLEAN :
                copy' = [copy EXCEPT ![task[t].g] = Swap(s, r, copy[task[t].g].txid)]
        BY <2>1, <3>1 DEF Outcome, Forget, Remember, Copy, NotedStatus
      <4>2. PICK s \in Statuses, r \in BOOLEAN :
                copy' = [copy EXCEPT ![task[t].g] = Swap(s, r, copy[task[t].g].txid)]
        BY <4>1
      <4>3. [copy EXCEPT ![task[t].g] = Swap(s, r, copy[task[t].g].txid)]
                \in [1..MaxStarts -> SwapType]
        BY <1>3, CopyType
      <4> QED
        BY <4>2, <4>3
    <3>2. CASE Told(t)
      BY <1>3, <2>1, <3>2, CopyType DEF Told, Set
    <3>3. CASE ~Outcome(t) /\ ~Told(t)
      BY <2>2, <3>3 DEF Step, Save, Claim, Record, Sign, Refund, Write, Keep, Mark
    <3> QED
      BY <3>1, <3>2, <3>3
  <2> QED
    BY <2>3, <2>4
<1> QED
  BY <1>1, <1>4, <1>5, <1>6, <1>7, <1>8 DEF Typed, env, life, conn

\* An answer is a status or "unknown"; either way the types are kept.
LEMMA ReceiveType ==
    ASSUME Typed, gen' = gen, NEW t \in Tasks, NEW g \in 1..MaxStarts,
           NEW s \in Statuses \cup {"unknown"}, Receive(t, g, s)
    PROVE  /\ misses' \in 0..(Threshold - 1) /\ mon' \in 0..gen'
           /\ copy' \in [1..MaxStarts -> SwapType]
<1> USE SwapAssumption
<1>1. CASE s = "unknown"
  <2>1. misses' \in 0..(Threshold - 1) /\ mon' \in 0..gen'
    BY <1>1 DEF Receive, NotFound, Typed
  <2>2. copy' = copy \/ copy' = [copy EXCEPT ![g].status = "expired"]
    BY <1>1 DEF Receive, NotFound, Set
  <2>3. "expired" \in Statuses /\ TRUE \in BOOLEAN
    BY DEF Statuses
  <2>4. [copy EXCEPT ![g].status = "expired"] \in [1..MaxStarts -> SwapType]
    BY <2>3, CopyType
  <2> QED
    BY <2>1, <2>2, <2>4 DEF Typed
<1>2. CASE s # "unknown"
  <2>1. misses' \in 0..(Threshold - 1) /\ mon' \in 0..gen'
    BY <1>2 DEF Receive, Update, Typed
  <2>2. copy' = copy \/ copy' = [copy EXCEPT ![g].status = s]
    BY <1>2 DEF Receive, Update, Set
  <2>3. s \in Statuses /\ TRUE \in BOOLEAN
    BY <1>2
  <2>4. [copy EXCEPT ![g].status = s] \in [1..MaxStarts -> SwapType]
    BY <2>3, CopyType
  <2> QED
    BY <2>1, <2>2, <2>4 DEF Typed
<1> QED
  BY <1>1, <1>2

\* Whatever starts a call keeps the types.
LEMMA BeginType ==
    ASSUME Locked, Typed, NEW t \in Tasks,
           Fire(t) \/ Hear(t) \/ Poll(t) \/ Answer(t) \/ Start(t)
    PROVE  Typed'
<1> USE SwapAssumption
<1>1. mon # 0 => mon \in 1..MaxStarts
  BY DEF Typed
<1>2. CASE Fire(t)
  <2>1. gen' = gen /\ mon' \in 0..gen' /\ slipped' \in BOOLEAN
    <3>1. CASE running /\ mon # 0
      BY <1>2, <3>1, ActType DEF Fire, life
    <3>2. CASE ~(running /\ mon # 0)
      BY <1>2, <3>2 DEF Fire, Typed, life
    <3> QED
      BY <3>1, <3>2
  <2> QED
    BY <1>2, <2>1 DEF Fire, Typed, env, htlc, life, conn
<1>3. CASE Hear(t)
  <2>1. boltz \in Statuses /\ mon \in 1..MaxStarts
    BY <1>1, <1>3 DEF Hear, Typed
  <2>2. copy' \in [1..MaxStarts -> SwapType]
    BY <1>3, <2>1, CopyType DEF Hear, Update, Set
  <2>3. misses' \in 0..(Threshold - 1)
    BY <1>3 DEF Hear
  <2> QED
    BY <1>3, <2>2, <2>3 DEF Hear, Update, Typed, env, htlc, life, conn, hist
<1>4. CASE Poll(t)
  <2>1. PICK s \in {boltz, "unknown"} : Polled(s) /\ Receive(t, mon, s)
    BY <1>4 DEF Poll
  <2>2. mon \in 1..MaxStarts /\ s \in Statuses \cup {"unknown"} /\ gen' = gen
    BY <1>1, <1>4, <2>1 DEF Poll, Polled, Typed, life
  <2>3. /\ misses' \in 0..(Threshold - 1) /\ mon' \in 0..gen'
        /\ copy' \in [1..MaxStarts -> SwapType]
    BY <2>1, <2>2, ReceiveType
  <2>4. budget' \in 0..MaxFaults
    BY <2>1 DEF Polled, Fault, NoFault, Typed
  <2> QED
    BY <1>4, <2>3, <2>4 DEF Poll, Typed, env, htlc, life, conn, hist
<1>5. CASE Answer(t)
  <2>1. answer.g \in 1..MaxStarts /\ answer.status \in Statuses \cup {"unknown"} /\ gen' = gen
    BY <1>5 DEF Answer, Typed, life
  <2>2. /\ misses' \in 0..(Threshold - 1) /\ mon' \in 0..gen'
        /\ copy' \in [1..MaxStarts -> SwapType]
    BY <1>5, <2>1, ReceiveType DEF Answer
  <2> QED
    BY <1>5, <2>2 DEF Answer, Typed, env, htlc, life, conn, hist
<1>6. CASE Start(t)
  <2>1. gen' \in 0..MaxStarts /\ mon' \in 0..gen'
    BY <1>6 DEF Start, Typed
  <2>2. copy' \in [1..MaxStarts -> SwapType]
    BY <1>6 DEF Start, Typed
  <2>3. mon' # 0 => copy'[mon'].retry \in BOOLEAN
    BY <2>1, <2>2 DEF SwapType
  <2>4. timer' \in BOOLEAN
    BY <1>6, <2>3 DEF Start
  <2>5. link' \in {"off", "connecting", "up"}
    BY <1>6 DEF Start
  <2> QED
    BY <1>6, <2>1, <2>2, <2>4, <2>5 DEF Start, Typed, env, htlc, hist
<1> QED
  BY <1>2, <1>3, <1>4, <1>5, <1>6

\* Every step keeps the types.
LEMMA TypedStep ==
    ASSUME Locked, Typed, [Next]_vars
    PROVE  Typed'
<1>1. CASE UNCHANGED vars
  BY <1>1 DEF vars, env, htlc, life, conn, hist, Typed
<1>2. CASE Next
  BY <1>2, OutsideType, CallType, BeginType DEF Next
<1> QED
  BY <1>1, <1>2

\* A first start of the program is well typed, and nothing holds the swap.
LEMMA Begin == ASSUME Init PROVE Locked /\ Typed
<1> USE SwapAssumption
<1>1. Locked
  BY DEF Init, Locked, SingleAction, Acting, Idle
<1>2. row \in SwapType
  BY DEF Init, Swap, SwapType, Statuses
<1>3. copy \in [1..MaxStarts -> SwapType]
  BY <1>2 DEF Init
<1>4. ours \in {"none", "locked", "taken", "refunded"}
  BY DEF Init
<1>5. /\ budget \in 0..MaxFaults /\ gen \in 0..MaxStarts /\ mon \in 0..gen
      /\ misses \in 0..(Threshold - 1)
  BY DEF Init
<1>6. boltz \in Statuses /\ link \in {"off", "connecting", "up"}
  BY DEF Init, Statuses
<1> QED
  BY <1>1, <1>2, <1>3, <1>4, <1>5, <1>6 DEF Init, Typed

\* The lock and the types are what TypeOK and SingleAction say, and more.
LEMMA Means == ASSUME Locked, Typed PROVE TypeOK /\ SingleAction
BY DEF Locked, Typed, TypeOK, Calls

\* They hold throughout.
LEMMA Invariant == Spec => [](Locked /\ Typed)
<1>1. Init => Locked /\ Typed
  BY Begin
<1>2. Locked /\ Typed /\ [Next]_vars => (Locked /\ Typed)'
  BY LockedStep, TypedStep
<1> QED
  BY <1>1, <1>2, PTL DEF Spec

\* The variables stay in their types, and swapsInProgress holds the swap just
\* while some call acts on it (executeAutonomousAction and its finally block).
THEOREM TypeCorrect == Spec => []TypeOK
<1>1. Locked /\ Typed => TypeOK
  BY Means
<1> QED
  BY <1>1, Invariant, PTL

\* No two calls of the manager act on the swap at a time, whatever calls,
\* stops and starts there are (swapsInProgress in executeAutonomousAction).
THEOREM OneAction == Spec => []SingleAction
<1>1. Locked /\ Typed => SingleAction
  BY Means
<1> QED
  BY <1>1, Invariant, PTL

-----------------------------------------------------------------------------
(* The co-signature.                                                        *)

\* Whatever says that we claimed tells the truth: the record, the copies, a call
\* past its claim, and a signature that was given.  A lockup can still come only
\* while Boltz says "created".
Honest ==
    /\ boltz = "created" => theirs = "none"
    /\ row.txid => theirs = "claimed"
    /\ \A g \in 1..MaxStarts : copy[g].txid => theirs = "claimed"
    /\ \A t \in Tasks : task[t].pc \in {"record", "told"} => theirs = "claimed"
    /\ cosigned => theirs = "claimed"

\* What is claimed stays claimed.
LEMMA ClaimStays ==
    ASSUME Honest, Next, theirs = "claimed"
    PROVE  theirs' = "claimed"
<1>1. Boltz => theirs' = theirs
  BY DEF Honest, Boltz, BoltzLocks, BoltzConfirms, BoltzSettles, BoltzFails, BoltzExpires,
         BoltzReclaims, BoltzAsksEarly, htlc
<1>2. Timeout \/ PollSlowly \/ Connect \/ Stop \/ Crash => theirs' = theirs
  BY DEF Timeout, PollSlowly, Connect, Stop, Crash, htlc
<1>3. \A t \in Tasks : Step(t) => theirs' = theirs \/ theirs' = "claimed"
  BY DEF Step, Save, Claim, Record, Told, Sign, Refund, Outcome, Write, Keep, Mark, htlc
<1>4. \A t \in Tasks : Fire(t) \/ Hear(t) \/ Poll(t) \/ Answer(t) \/ Start(t) => theirs' = theirs
  BY DEF Fire, Hear, Poll, Answer, Start, htlc
<1> QED
  BY <1>1, <1>2, <1>3, <1>4 DEF Next

\* Steps outside of the calls say nothing new about claims.
LEMMA OutsideHonest ==
    ASSUME Locked, Typed, Honest, Boltz \/ Timeout \/ PollSlowly \/ Connect \/ Stop \/ Crash
    PROVE  Honest'
<1> USE DEF Honest
<1>1. theirs = "claimed" => theirs' = "claimed"
  BY ClaimStays DEF Next
<1>2. boltz' = "created" => theirs' = "none"
  BY DEF Boltz, BoltzLocks, BoltzConfirms, BoltzSettles, BoltzFails, BoltzExpires,
         BoltzReclaims, BoltzAsksEarly, Timeout, PollSlowly, Connect, Stop, Crash, htlc
<1>3. CASE Crash
  BY <1>1, <1>2, <1>3 DEF Crash, Swap, Idle
<1>4. CASE ~Crash
  <2>1. UNCHANGED <<row, copy, task, cosigned>>
    BY <1>4 DEF Boltz, BoltzLocks, BoltzConfirms, BoltzSettles, BoltzFails, BoltzExpires,
           BoltzReclaims, BoltzAsksEarly, Timeout, PollSlowly, Connect, Stop, manager, hist
  <2> QED
    BY <1>1, <1>2, <2>1
<1> QED
  BY <1>3, <1>4

\* A call says that it claimed only when it did, and signs only then.
LEMMA CallHonest ==
    ASSUME Locked, Typed, Honest, NEW t \in Tasks, Step(t)
    PROVE  Honest'
<1>1. theirs = "claimed" => theirs' = "claimed"
  BY ClaimStays DEF Next
<1>2. boltz' = "created" => theirs' = "none"
  BY DEF Step, Save, Claim, CanClaim, Record, Told, Sign, Refund, Outcome, Write, Keep, Mark,
         htlc, Honest
<1>3. task[t] \in Calls /\ task[t].g \in 1..MaxStarts
  BY ActingCall DEF Calls, Step, Save, Claim, Record, Told, Sign, Refund, Outcome, Write, Keep, Mark
<1>4. copy[task[t].g].txid => theirs = "claimed"
  BY <1>3 DEF Honest
<1>5. row'.txid => theirs' = "claimed"
  <2>1. CASE Record(t)
    BY <1>1, <2>1 DEF Record, Honest
  <2>2. CASE ~Record(t)
    <3>1. row' \in {row, copy[task[t].g], [row EXCEPT !.status = boltz]}
      BY <2>2 DEF Step, Save, Claim, Told, Sign, Refund, Outcome, Write, Keep, Mark, Copy, Noted
    <3>2. row'.txid = row.txid \/ row'.txid = copy[task[t].g].txid
      BY <3>1 DEF Typed, SwapType
    <3> QED
      BY <1>1, <1>4, <3>2 DEF Honest
  <2> QED
    BY <2>1, <2>2
<1>6. \A g \in 1..MaxStarts : copy'[g].txid => theirs' = "claimed"
  <2>1. CASE Told(t)
    BY <1>1, <2>1 DEF Told, Honest
  <2>2. CASE Outcome(t)
    <3>1. \E s, r : copy' = [copy EXCEPT ![task[t].g] = Swap(s, r, copy[task[t].g].txid)]
      BY <2>2 DEF Outcome, Forget, Remember, Copy
    <3>2. \A g \in 1..MaxStarts : copy'[g].txid = copy[g].txid
      BY <1>3, <3>1 DEF Typed, Swap
    <3> QED
      BY <1>1, <3>2 DEF Honest
  <2>3. CASE ~Told(t) /\ ~Outcome(t)
    BY <1>1, <2>3 DEF Step, Save, Claim, Record, Sign, Refund, Write, Keep, Mark, Honest
  <2> QED
    BY <2>1, <2>2, <2>3
<1>7. \A u \in Tasks : task'[u].pc \in {"record", "told"} => theirs' = "claimed"
  <2>1. task \in [Tasks -> {Idle} \cup Calls]
    BY DEF Locked
  <2>2. \A u \in Tasks : u # t => task'[u] = task[u]
    BY <2>1 DEF Step, Save, Claim, Record, Told, Sign, Refund, Outcome, Write, Keep, Mark, Act,
                Leave, Goto, Forget, Remember
  <2>3. task'[t].pc \in {"record", "told"} => theirs' = "claimed"
    <3>1. CASE Claim(t)
      <4>1. task' = [task EXCEPT ![t] = Idle] \/ theirs' = "claimed"
        BY <3>1 DEF Claim, Leave
      <4> QED
        BY <2>1, <4>1 DEF Idle
    <3>2. CASE Record(t)
      BY <1>1, <3>2 DEF Record, Honest
    <3>3. CASE Save(t)
      <4>1. Wanted(copy'[task[t].g].status) \in {"claim", "refund", "sign", "nothing"}
        BY DEF Wanted
      <4>2. \/ task'[t] = Idle
            \/ task'[t] = [pc |-> Wanted(copy'[task[t].g].status), g |-> task[t].g, from |-> "update"]
        BY <2>1, <3>3 DEF Save, Act
      <4> QED
        BY <4>1, <4>2 DEF Idle
    <3>4. CASE ~Claim(t) /\ ~Record(t) /\ ~Save(t)
      <4>1. \/ task' = [task EXCEPT ![t] = Idle]
            \/ \E pc \in {"sign", "swept", "deferred", "thrown", "write", "keep"} :
                   task' = [task EXCEPT ![t].pc = pc]
        BY <3>4 DEF Step, Told, Sign, Refund, Outcome, Write, Keep, Mark, Leave, Goto, Forget, Remember
      <4> QED
        BY <1>3, <2>1, <4>1 DEF Idle, Calls
    <3> QED
      BY <3>1, <3>2, <3>3, <3>4
  <2> QED
    BY <1>1, <2>2, <2>3 DEF Honest
<1>8. cosigned' => theirs' = "claimed"
  <2>1. CASE Sign(t)
    <3>1. ClaimSideClaimed(t) => theirs = "claimed"
      BY <1>4 DEF ClaimSideClaimed, Copy, Honest
    <3> QED
      BY <1>1, <2>1, <3>1 DEF Sign, Honest
  <2>2. CASE ~Sign(t)
    BY <1>1, <2>2 DEF Step, Save, Claim, Record, Told, Refund, Outcome, Write, Keep, Mark, hist, Honest
  <2> QED
    BY <2>1, <2>2
<1> QED
  BY <1>2, <1>5, <1>6, <1>7, <1>8 DEF Honest

\* A call that begins has claimed nothing yet, and a start copies the record.
LEMMA BeginHonest ==
    ASSUME Locked, Typed, Honest, NEW t \in Tasks,
           Fire(t) \/ Hear(t) \/ Poll(t) \/ Answer(t) \/ Start(t)
    PROVE  Honest'
<1>1. UNCHANGED <<theirs, row, cosigned, boltz>>
  BY DEF Fire, Hear, Poll, Answer, Start, htlc, hist
<1>2. \A g \in 1..MaxStarts : copy'[g].txid => copy[g].txid \/ row.txid
  <2>1. \/ copy' = copy
        \/ \E g, s : copy' = [copy EXCEPT ![g].status = s]
        \/ copy' = [copy EXCEPT ![gen + 1] = row]
    BY DEF Fire, Hear, Poll, Answer, Start, Receive, NotFound, Update, Set
  <2>2. CASE \E g, s : copy' = [copy EXCEPT ![g].status = s]
    <3>1. PICK g, s : copy' = [copy EXCEPT ![g].status = s]
      BY <2>2
    <3>2. \A h \in 1..MaxStarts : copy'[h].txid = copy[h].txid
      BY <3>1 DEF Typed, SwapType
    <3> QED
      BY <3>2
  <2>3. CASE copy' = [copy EXCEPT ![gen + 1] = row]
    BY <2>3 DEF Typed
  <2> QED
    BY <2>1, <2>2, <2>3
<1>3. \A u \in Tasks : task'[u].pc \in {"record", "told"} => task[u].pc \in {"record", "told"}
  <2>1. task \in [Tasks -> {Idle} \cup Calls]
    BY DEF Locked
  <2>2. \A s : Wanted(s) \in {"claim", "refund", "sign", "nothing"}
    BY DEF Wanted
  <2>3. \/ task' = task
        \/ task' = [task EXCEPT ![t] = Idle]
        \/ \E pc \in {"save", "mark", "claim", "refund", "sign", "nothing"} : \E g, from :
               task' = [task EXCEPT ![t] = [pc |-> pc, g |-> g, from |-> from]]
    BY <2>2 DEF Fire, Hear, Poll, Answer, Start, Receive, NotFound, Update, Act
  <2> QED
    BY <2>1, <2>3 DEF Idle
<1> QED
  BY <1>1, <1>2, <1>3 DEF Honest

\* Boltz gets our signature for its own claim only when we have ours, whatever
\* it says the status is and whatever was restarted (assertClaimSideClaimed).
THEOREM ClaimBeforeCosign == Spec => []CosignAfterClaim
<1>1. Init => Honest
  BY DEF Init, Honest, Swap, Idle
<1>2. Locked /\ Typed /\ Honest /\ [Next]_vars => Honest'
  <2> SUFFICES ASSUME Locked, Typed, Honest, [Next]_vars PROVE Honest'
    OBVIOUS
  <2>1. CASE UNCHANGED vars
    BY <2>1 DEF vars, htlc, hist, Honest
  <2>2. CASE Next
    BY <2>2, OutsideHonest, CallHonest, BeginHonest DEF Next
  <2> QED
    BY <2>1, <2>2
<1>3. Honest => CosignAfterClaim
  BY DEF Honest, CosignAfterClaim
<1> QED
  BY <1>1, <1>2, <1>3, Invariant, PTL DEF Spec

-----------------------------------------------------------------------------
(* The swap is not dropped with coins left in its lockup.                   *)

\* A call is at a place that its kind of swap has; one that swept, or that
\* clears the retry of a chain swap, leaves nothing in our lockup.
Placed ==
    \A t \in Tasks :
        /\ task[t].pc \in {"claim", "record", "told"} => kind # "submarine"
        /\ task[t].pc = "record" => kind # "arkToBtc"
        /\ task[t].pc = "sign" => kind = "btcToArk"
        /\ task[t].pc \in {"refund", "swept", "deferred", "thrown"} => kind \in {"submarine", "arkToBtc"}
        /\ task[t].pc = "swept" => ours # "locked"
        /\ task[t].pc = "write" => ours # "locked" \/ kind = "submarine"

\* A process that is not stopped starts once, and all its calls have that copy.
OneCopy ==
    Without({"stop"}) =>
        /\ gen = IF running THEN 1 ELSE 0
        /\ answer # None => answer.g = 1
        /\ \A t \in Tasks : task[t].pc # "idle" => task[t].g = 1

\* A lockup of ours that is empty stays empty.
LEMMA EmptyStays ==
    ASSUME Next, ours # "locked"
    PROVE  ours' # "locked"
<1>1. Boltz \/ Timeout \/ PollSlowly \/ Connect \/ Stop \/ Crash => ours' # "locked"
  BY DEF Boltz, BoltzLocks, BoltzConfirms, BoltzSettles, BoltzFails, BoltzExpires,
         BoltzReclaims, BoltzAsksEarly, Timeout, PollSlowly, Connect, Stop, Crash, htlc
<1>2. \A t \in Tasks : Step(t) => ours' # "locked"
  BY DEF Step, Save, Claim, Record, Told, Sign, Refund, Outcome, Write, Keep, Mark, htlc
<1>3. \A t \in Tasks : Fire(t) \/ Hear(t) \/ Poll(t) \/ Answer(t) \/ Start(t) => ours' # "locked"
  BY DEF Fire, Hear, Poll, Answer, Start, htlc
<1> QED
  BY <1>1, <1>2, <1>3 DEF Next

\* The environment is what it was.
LEMMA EnvStays ==
    ASSUME Next
    PROVE  UNCHANGED <<kind, faults>>
<1>1. Boltz \/ Timeout \/ PollSlowly \/ Connect \/ Stop \/ Crash => UNCHANGED env
  BY DEF Boltz, BoltzLocks, BoltzConfirms, BoltzSettles, BoltzFails, BoltzExpires,
         BoltzReclaims, BoltzAsksEarly, Timeout, PollSlowly, Connect, Stop, Crash
<1>2. \A t \in Tasks : Step(t) => UNCHANGED env
  BY DEF Step, Save, Claim, Record, Told, Sign, Refund, Outcome, Write, Keep, Mark
<1>3. \A t \in Tasks : Fire(t) \/ Hear(t) \/ Poll(t) \/ Answer(t) \/ Start(t) => UNCHANGED env
  BY DEF Fire, Hear, Poll, Answer, Start
<1> QED
  BY <1>1, <1>2, <1>3 DEF Next, env

\* What a status asks for suits the kind of swap.
LEMMA WantedSuits ==
    ASSUME NEW s
    PROVE  /\ Wanted(s) \in {"claim", "refund", "sign", "nothing"}
           /\ Wanted(s) = "claim" => kind # "submarine"
           /\ Wanted(s) = "sign" => kind = "btcToArk"
           /\ Wanted(s) = "refund" => kind \in {"submarine", "arkToBtc"}
           /\ Refundable(s) => Wanted(s) = "refund"
BY DEF Wanted, Claimable, Refundable, Signable

\* How the place of a call changes: by a step of its own, one at a time.
LEMMA CallPlace ==
    ASSUME Locked, Typed, NEW t \in Tasks, Step(t)
    PROVE  /\ task[t] \in Calls /\ task[t].g \in 1..MaxStarts
           /\ \A u \in Tasks : u # t => task'[u] = task[u]
           /\ task'[t].pc # "idle" => task'[t].g = task[t].g
           /\ UNCHANGED <<gen, running, answer>>
<1>1. task[t] \in Calls /\ task[t].g \in 1..MaxStarts
  BY ActingCall DEF Calls, Step, Save, Claim, Record, Told, Sign, Refund, Outcome, Write, Keep, Mark
<1>2. task \in [Tasks -> {Idle} \cup Calls]
  BY DEF Locked
<1>3. \/ task' = [task EXCEPT ![t] = Idle]
      \/ \E pc : task' = [task EXCEPT ![t].pc = pc]
      \/ \E pc, from : task' = [task EXCEPT ![t] = [pc |-> pc, g |-> task[t].g, from |-> from]]
  BY DEF Step, Save, Claim, Record, Told, Sign, Refund, Outcome, Write, Keep, Mark, Act,
         Leave, Goto, Forget, Remember
<1>4. UNCHANGED <<gen, running, answer>>
  BY DEF Step, Save, Claim, Record, Told, Sign, Refund, Outcome, Write, Keep, Mark, life
<1> QED
  BY <1>1, <1>2, <1>3, <1>4 DEF Idle, Calls

\* A call goes from a place of its kind to a place of its kind.
LEMMA CallPlaced ==
    ASSUME Locked, Typed, Placed, NEW t \in Tasks, Step(t)
    PROVE  Placed'
<1> USE DEF Placed
<1>1. /\ task[t] \in Calls
      /\ \A u \in Tasks : u # t => task'[u] = task[u]
  BY CallPlace
<1>2. kind' = kind /\ (ours # "locked" => ours' # "locked")
  BY EmptyStays, EnvStays DEF Next
<1>3. task \in [Tasks -> {Idle} \cup Calls]
  BY DEF Locked
<1>4. /\ task'[t].pc \in {"claim", "record", "told"} => kind # "submarine"
      /\ task'[t].pc = "record" => kind # "arkToBtc"
      /\ task'[t].pc = "sign" => kind = "btcToArk"
      /\ task'[t].pc \in {"refund", "swept", "deferred", "thrown"} => kind \in {"submarine", "arkToBtc"}
      /\ task'[t].pc = "swept" => ours' # "locked"
      /\ task'[t].pc = "write" => ours' # "locked" \/ kind = "submarine"
  <2>1. CASE Save(t)
    <3>1. \/ task'[t] = Idle
          \/ task'[t] = [pc |-> Wanted(copy'[task[t].g].status), g |-> task[t].g, from |-> "update"]
      BY <1>3, <2>1 DEF Save, Act
    <3> QED
      BY <3>1, WantedSuits DEF Idle
  <2>2. CASE Claim(t)
    <3>1. task' = [task EXCEPT ![t] = Idle]
          \/ task' = [task EXCEPT ![t].pc = IF kind = "arkToBtc" THEN "told" ELSE "record"]
      BY <2>2 DEF Claim, Leave, Goto
    <3> QED
      BY <1>1, <1>3, <2>2, <3>1 DEF Claim, Idle, Calls
  <2>3. CASE Record(t)
    <3>1. task' = [task EXCEPT ![t] = Idle] \/ task' = [task EXCEPT ![t].pc = "told"]
      BY <2>3 DEF Record, Leave, Goto
    <3> QED
      BY <1>1, <1>3, <2>3, <3>1 DEF Record, Idle, Calls
  <2>4. CASE Told(t)
    <3>1. \/ task' = [task EXCEPT ![t] = Idle]
          \/ task' = [task EXCEPT ![t].pc = "sign"] /\ kind = "btcToArk"
      BY <2>4 DEF Told, Leave, Goto, Signable
    <3> QED
      BY <1>1, <1>3, <2>4, <3>1 DEF Idle, Calls
  <2>5. CASE Sign(t) \/ Write(t) \/ Keep(t) \/ Mark(t)
    <3>1. task' = [task EXCEPT ![t] = Idle]
      BY <2>5 DEF Sign, Write, Keep, Mark, Leave
    <3> QED
      BY <1>3, <3>1 DEF Idle
  <2>6. CASE Refund(t)
    <3>1. \/ task' = [task EXCEPT ![t].pc = "swept"] /\ ours' = "refunded"
          \/ \E pc \in {"deferred", "thrown"} : task' = [task EXCEPT ![t].pc = pc]
      BY <2>6 DEF Refund, Goto
    <3>2. kind \in {"submarine", "arkToBtc"}
      BY <2>6 DEF Refund
    <3>3. \/ task'[t].pc = "swept" /\ ours' = "refunded"
          \/ task'[t].pc \in {"deferred", "thrown"}
      BY <1>1, <1>3, <3>1 DEF Calls
    <3> QED
      BY <3>2, <3>3
  <2>7. CASE Outcome(t)
    <3>1. \/ task' = [task EXCEPT ![t] = Idle]
          \/ task' = [task EXCEPT ![t].pc = "keep"]
          \/ /\ task' = [task EXCEPT ![t].pc = "write"]
             /\ task[t].pc = "swept" \/ (task[t].pc = "thrown" /\ ~IsChain)
      BY <2>7 DEF Outcome, Forget, Remember, Leave, Goto
    <3>2. CASE task' = [task EXCEPT ![t].pc = "write"] 
                  /\ (task[t].pc = "swept" \/ (task[t].pc = "thrown" /\ ~IsChain))
      <4>1. ours' = ours
        BY <2>7 DEF Outcome, htlc
      <4>2. task[t].pc = "swept" \/ kind = "submarine"
        BY <3>2 DEF IsChain
      <4> QED
        BY <1>1, <1>3, <3>2, <4>1, <4>2 DEF Calls
    <3> QED
      BY <1>1, <1>3, <3>1, <3>2 DEF Idle, Calls
  <2> QED
    BY <2>1, <2>2, <2>3, <2>4, <2>5, <2>6, <2>7 DEF Step
<1> QED
  BY <1>1, <1>2, <1>4

\* A call begins at the place that the status asks for, with the copy it was for.
LEMMA BeginPlaced ==
    ASSUME Locked, Typed, Placed, NEW t \in Tasks,
           Fire(t) \/ Hear(t) \/ Poll(t) \/ Answer(t) \/ Start(t)
    PROVE  Placed'
<1> USE DEF Placed
<1>1. kind' = kind /\ ours' = ours
  BY EnvStays DEF Next, Fire, Hear, Poll, Answer, Start, htlc
<1>2. task \in [Tasks -> {Idle} \cup Calls]
  BY DEF Locked
<1>3. \/ task' = task
      \/ task' = [task EXCEPT ![t] = Idle]
      \/ \E pc \in {"save", "mark"} : \E g, from :
             task' = [task EXCEPT ![t] = [pc |-> pc, g |-> g, from |-> from]]
      \/ \E s, g, from : task' = [task EXCEPT ![t] = [pc |-> Wanted(s), g |-> g, from |-> from]]
  BY DEF Fire, Hear, Poll, Answer, Start, Receive, NotFound, Update, Act
<1> QED
  BY <1>1, <1>2, <1>3, WantedSuits DEF Idle

\* The places suit the kinds throughout.
LEMMA PlacedStep ==
    ASSUME Locked, Typed, Placed, [Next]_vars
    PROVE  Placed'
<1>1. CASE UNCHANGED vars
  BY <1>1 DEF vars, env, htlc, Placed
<1>2. CASE Boltz \/ Timeout \/ PollSlowly \/ Connect \/ Stop \/ Crash
  <2>1. kind' = kind /\ (ours # "locked" => ours' # "locked")
    BY <1>2, EmptyStays, EnvStays DEF Next
  <2>2. task' = task \/ task' = [u \in Tasks |-> Idle]
    BY <1>2 DEF Boltz, BoltzLocks, BoltzConfirms, BoltzSettles, BoltzFails, BoltzExpires,
           BoltzReclaims, BoltzAsksEarly, Timeout, PollSlowly, Connect, Stop, Crash, manager
  <2> QED
    BY <2>1, <2>2 DEF Placed, Idle
<1>3. CASE Next /\ ~(Boltz \/ Timeout \/ PollSlowly \/ Connect \/ Stop \/ Crash)
  BY <1>3, CallPlaced, BeginPlaced DEF Next
<1> QED
  BY <1>1, <1>2, <1>3

\* Nothing but a stop makes the process start twice.
LEMMA OneCopyStep ==
    ASSUME Locked, Typed, OneCopy, [Next]_vars
    PROVE  OneCopy'
<1>1. CASE UNCHANGED vars
  BY <1>1 DEF vars, env, life, OneCopy, Without
<1>2. CASE Next /\ Without({"stop"})
  <2> USE DEF OneCopy
  <2>1. faults' = faults
    BY <1>2, EnvStays
  <2>2. task \in [Tasks -> {Idle} \cup Calls]
    BY DEF Locked
  <2>3. mon # 0 => mon = 1
    BY <1>2, SwapAssumption DEF Typed
  <2>4. CASE Crash
    BY <2>4 DEF Crash, Idle
  <2>5. CASE Boltz \/ Timeout \/ Connect
    <3>1. UNCHANGED <<gen, running, answer, task>>
      BY <2>5 DEF Boltz, BoltzLocks, BoltzConfirms, BoltzSettles, BoltzFails, BoltzExpires,
             BoltzReclaims, BoltzAsksEarly, Timeout, Connect, manager, life
    <3> QED
      BY <1>2, <2>1, <3>1 DEF Without
  <2>6. CASE PollSlowly
    BY <1>2, <2>1, <2>3, <2>6 DEF PollSlowly, Polled, life, Without, None
  <2>7. ~Stop
    BY <1>2 DEF Stop, Fault, Without
  <2>8. ASSUME NEW t \in Tasks, Step(t) PROVE OneCopy'
    <3>1. /\ task[t] \in Calls
          /\ \A u \in Tasks : u # t => task'[u] = task[u]
          /\ task'[t].pc # "idle" => task'[t].g = task[t].g
          /\ UNCHANGED <<gen, running, answer>>
      BY <2>8, CallPlace
    <3>2. task[t].pc # "idle"
      BY <3>1 DEF Calls, Pcs
    <3> QED
      BY <1>2, <2>1, <3>1, <3>2 DEF Without
  <2>9. ASSUME NEW t \in Tasks, Fire(t) PROVE OneCopy'
    <3>1. UNCHANGED <<gen, running, answer>>
      BY <2>9 DEF Fire, life
    <3>2. \/ task' = task
          \/ task' = [task EXCEPT ![t] = Idle]
          \/ \E pc, from : task' = [task EXCEPT ![t] = [pc |-> pc, g |-> 1, from |-> from]]
      BY <2>3, <2>9 DEF Fire, Act
    <3> QED
      BY <1>2, <2>1, <2>2, <3>1, <3>2 DEF Idle, Without
  <2>10. ASSUME NEW t \in Tasks, Hear(t) \/ Poll(t) \/ Answer(t) PROVE OneCopy'
    <3>1. UNCHANGED <<gen, running>> /\ (answer' = answer \/ answer' = None)
      BY <2>10 DEF Hear, Poll, Answer, life
    <3>2. Hear(t) \/ Poll(t) => mon = 1
      BY <2>3 DEF Hear, Poll, Polled
    <3>3. Answer(t) => answer.g = 1
      BY <1>2 DEF Answer
    <3>4. \E s : Update(t, 1, s) \/ Receive(t, 1, s)
      BY <2>10, <3>2, <3>3 DEF Hear, Poll, Answer
    <3>5. \/ task' = task
          \/ \E pc, from : task' = [task EXCEPT ![t] = [pc |-> pc, g |-> 1, from |-> from]]
      BY <3>4 DEF Receive, NotFound, Update
    <3> QED
      BY <1>2, <2>1, <2>2, <3>1, <3>5 DEF Without
  <2>11. ASSUME NEW t \in Tasks, Start(t) PROVE OneCopy'
    <3>1. gen = 0 /\ mon = 0
      BY <1>2, <2>11 DEF Start, Typed
    <3>2. gen' = 1 /\ running' /\ answer' = answer
      BY <2>11, <3>1 DEF Start
    <3>3. \/ task' = task
          \/ \E pc, from : task' = [task EXCEPT ![t] = [pc |-> pc, g |-> 1, from |-> from]]
      BY <2>11, <3>1 DEF Start
    <3> QED
      BY <1>2, <2>1, <2>2, <3>2, <3>3 DEF Without
  <2> QED
    BY <1>2, <2>4, <2>5, <2>6, <2>7, <2>8, <2>9, <2>10, <2>11 DEF Next
<1>3. CASE Next /\ ~Without({"stop"})
  BY <1>3, EnvStays DEF OneCopy, Without
<1> QED
  BY <1>1, <1>2, <1>3

\* A call turns back from a refund that is due only when another call has the
\* swap.
LEMMA TurnsBack ==
    ASSUME Locked, NEW t \in Tasks, NEW g, NEW from, Act(t, g, from), ~Acting(t),
           Refundable(copy'[g].status), mon # 0, mon' = 0
    PROVE  \E u \in Tasks : task'[u] # Idle
<1>1. Wanted(copy'[g].status) = "refund"
  BY WantedSuits
<1>2. inProgress /\ task' = [task EXCEPT ![t] = Idle]
  BY <1>1 DEF Act
<1>3. PICK u \in Tasks : Acting(u)
  BY <1>2 DEF Locked
<1>4. u # t /\ task'[u] = task[u]
  BY <1>2, <1>3 DEF Locked
<1> QED
  BY <1>3, <1>4 DEF Acting, Idle

\* What excuses a drop (DropsNoCoins).
Excused ==
    \/ ours # "locked"
    \/ kind = "submarine" /\ \E t \in Tasks : task[t].pc \in {"thrown", "write"}
    \/ kind = "arkToBtc" /\ \E t \in Tasks : task[t].pc \in {"claim", "told"}
    \/ \E t \in Tasks : task'[t] # Idle

\* A step of a call that drops the swap is excused.
LEMMA CallDrops ==
    ASSUME Locked, Typed, Placed, OneCopy, NEW t \in Tasks, Step(t), Without({"stop"}),
           mon # 0, mon' = 0, running, Refundable(copy'[mon].status)
    PROVE  Excused
<1>1. mon = 1 /\ task[t] \in Calls /\ task[t].g = 1
  <2>1. task[t] \in Calls
    BY CallPlace
  <2>2. task[t].pc # "idle"
    BY <2>1 DEF Calls, Pcs
  <2> QED
    BY <2>1, <2>2 DEF OneCopy, Typed
<1>2. kind \in {"submarine", "arkToBtc"}
  BY DEF Refundable
<1>3. CASE Save(t)
  <2>1. Act(t, 1, "update") /\ ~Acting(t)
    BY <1>1, <1>3 DEF Save, Acting
  <2> QED
    BY <1>1, <2>1, TurnsBack DEF Excused
<1>4. CASE Claim(t) \/ Record(t) \/ Told(t) \/ Sign(t)
  <2>1. task[t].pc \in {"claim", "told"} /\ kind = "arkToBtc"
    BY <1>2, <1>4 DEF Claim, Record, Told, Sign, Placed
  <2> QED
    BY <2>1 DEF Excused
<1>5. CASE Outcome(t)
  <2>1. task[t].pc = "swept" \/ (task[t].pc = "thrown" /\ ~IsChain)
    BY <1>5 DEF Outcome, Remember, Goto
  <2> QED
    BY <1>2, <2>1 DEF Excused, Placed, IsChain
<1>6. CASE Write(t)
  BY <1>6 DEF Write, Placed, Excused
<1>7. CASE Keep(t)
  BY <1>7 DEF Keep, Leave, Close
<1>8. CASE Refund(t) \/ Mark(t)
  BY <1>8 DEF Refund, Mark, Goto
<1> QED
  BY <1>3, <1>4, <1>5, <1>6, <1>7, <1>8 DEF Step

\* A call that begins drops the swap only when another one has it, or to note
\* that Boltz has forgotten it.
LEMMA BeginDrops ==
    ASSUME Locked, Typed, OneCopy, NEW t \in Tasks, Without({"stop"}),
           Fire(t) \/ Hear(t) \/ Poll(t) \/ Answer(t) \/ Start(t),
           mon # 0, mon' = 0, running, Refundable(copy'[mon].status)
    PROVE  Excused
<1>1. mon = 1
  BY DEF OneCopy, Typed
<1>2. CASE Fire(t)
  <2>1. Act(t, mon, "timer") /\ ~Acting(t)
    BY <1>2 DEF Fire, Free, Acting, Idle
  <2> QED
    BY <2>1, TurnsBack DEF Excused
<1>3. CASE Hear(t) \/ Poll(t) \/ Answer(t)
  <2>1. \E g, pc, from : task' = [task EXCEPT ![t] = [pc |-> pc, g |-> g, from |-> from]]
                         /\ pc \in {"save", "mark"}
    BY <1>3 DEF Hear, Poll, Answer, Receive, NotFound, Update
  <2>2. task'[t] # Idle
    <3>1. PICK g, pc, from : task' = [task EXCEPT ![t] = [pc |-> pc, g |-> g, from |-> from]]
                             /\ pc \in {"save", "mark"}
      BY <2>1
    <3>2. task'[t].pc \in {"save", "mark"}
      BY <3>1 DEF Locked
    <3> QED
      BY <3>2 DEF Idle
  <2> QED
    BY <2>2 DEF Excused
<1>4. CASE Start(t)
  BY <1>4 DEF Start
<1> QED
  BY <1>2, <1>3, <1>4

\* A swap whose refund is due is not dropped with its coins locked, however many
\* calls, crashes and failures there are: but for a submarine refund that threw,
\* another call under way, and a swap Boltz has forgotten
\* (finalizeMonitoredSwap and its callers).
THEOREM DropsEmpty == Spec => DropsNoCoins
<1>1. Init => Placed /\ OneCopy
  BY DEF Init, Placed, OneCopy, Idle, None
<1>2. /\ Locked /\ Typed /\ Placed /\ [Next]_vars => Placed'
      /\ Locked /\ Typed /\ OneCopy /\ [Next]_vars => OneCopy'
  BY PlacedStep, OneCopyStep
<1>3. Spec => [](Locked /\ Typed /\ Placed /\ OneCopy)
  BY <1>1, <1>2, Invariant, PTL DEF Spec
<1>4. ASSUME Locked, Typed, Placed, OneCopy, [Next]_vars
      PROVE  [(Without({"stop"}) /\ mon # 0 /\ running /\ mon' = 0 /\ running'
                 /\ Refundable(copy'[mon].status)) => Excused]_vars
  <2> SUFFICES ASSUME Next, Without({"stop"}), mon # 0, running, mon' = 0, running',
                      Refundable(copy'[mon].status)
               PROVE  Excused
    BY <1>4
  <2>1. ~(Boltz \/ Timeout \/ PollSlowly \/ Connect \/ Stop \/ Crash)
    BY DEF Boltz, BoltzLocks, BoltzConfirms, BoltzSettles, BoltzFails, BoltzExpires,
           BoltzReclaims, BoltzAsksEarly, Timeout, PollSlowly, Connect, Stop, Crash, manager
  <2> QED
    BY <1>4, <2>1, CallDrops, BeginDrops DEF Next
<1> QED
  BY <1>3, <1>4, PTL DEF Spec, DropsNoCoins, Excused
=============================================================================

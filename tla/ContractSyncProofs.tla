------------------------ MODULE ContractSyncProofs ------------------------
(* Theorems about ContractSync, for every number of coins, calls and faults, *)
(* every lag and overlap the assumption allows.                              *)
EXTENDS ContractSync, TLAPS

-----------------------------------------------------------------------------
(* Times: when the last version of a coin came to be.                        *)

Last(c) == at[c][Version(c)]

Times ==
    /\ now \in 1..MaxTime
    /\ at \in [Coins -> [1..2 -> 0..MaxTime]]
    /\ \A c \in Coins, v \in 1..2 : at[c][v] <= now

LEMMA LastType ==
    ASSUME SyncAssumption, Times, NEW c \in Coins
    PROVE  /\ Version(c) \in Versions
           /\ Version(c) > 0 => Last(c) \in 1..now
<1>1. at[c][1] \in 0..MaxTime /\ at[c][2] \in 0..MaxTime /\ at[c][1] <= now /\ at[c][2] <= now
  BY DEF Times
<1>2. now \in Nat
  BY DEF Times, SyncAssumption
<1> QED
  BY <1>1, <1>2 DEF Version, Versions, Last, SyncAssumption

LEMMA ShownType ==
    ASSUME SyncAssumption, Times, NEW late \in SUBSET Fresh, NEW c \in Coins
    PROVE  /\ Shown(c, late) \in Versions
           /\ Version(c) > 0 /\ at[c][1] + Lag <= now => Shown(c, late) > 0
<1>1. Version(c) \in Versions /\ (Version(c) > 0 => Last(c) \in 1..now)
  BY LastType
<1>2. now \in Nat /\ Lag \in Nat
  BY DEF Times, SyncAssumption
<1>3. c \in late => Version(c) > 0 /\ now - Last(c) < Lag
  BY DEF Fresh, Last
<1>4. Version(c) = 1 => Last(c) = at[c][1]
  BY DEF Last
<1> QED
  BY <1>1, <1>2, <1>3, <1>4 DEF Shown, Versions

\* A coin that is in the window, and was created long enough ago to show, is in the
\* answer.
LEMMA AnswerFacts ==
    ASSUME SyncAssumption, Times, NEW scope, NEW after \in Nat, NEW late \in SUBSET Fresh,
           NEW c \in Coins
    PROVE  /\ Answer(scope, after, late)[c] \in Versions
           /\ ScriptOf[c] \in scope /\ Version(c) > 0 /\ at[c][1] >= after /\ at[c][1] + Lag <= now
              => Answer(scope, after, late)[c] > 0
<1>1. Answer(scope, after, late)[c] =
        IF ScriptOf[c] \in scope /\ Shown(c, late) > 0 /\ at[c][1] >= after
        THEN Shown(c, late) ELSE 0
  BY DEF Answer
<1> QED
  BY <1>1, ShownType DEF Versions

LEMMA AnswerType ==
    ASSUME SyncAssumption, Times, NEW scope, NEW after \in Nat, NEW late \in SUBSET Fresh
    PROVE  Answer(scope, after, late) \in Answers
<1>1. \A c \in Coins : Answer(scope, after, late)[c] \in Versions
  BY AnswerFacts
<1> QED
  BY <1>1 DEF Answer, Answers

LEMMA AnswerForType ==
    ASSUME SyncAssumption, Times, NEW C, NEW late \in SUBSET Fresh
    PROVE  AnswerFor(C, late) \in Answers
<1>1. \A c \in Coins : AnswerFor(C, late)[c] \in Versions
  BY ShownType DEF AnswerFor, Versions
<1> QED
  BY <1>1 DEF AnswerFor, Answers

-----------------------------------------------------------------------------
(* Calls and their types.                                                    *)

Calling ==
    /\ task \in [Tasks -> {Idle} \cup Calls]
    /\ \A t \in Busy : task[t].from <= now /\ now - task[t].from <= MaxFlight

\* What is left of the types.
Plain ==
    /\ faults \in FaultSets /\ budget \in 0..MaxFaults
    /\ rows \in [Scripts -> WatchStates] /\ reg \in [Scripts -> WatchStates]
    /\ held \in [Coins -> Versions] /\ pruned \subseteq Coins /\ base \subseteq Coins
    /\ cursor \in 0..MaxTime /\ phase \in {"down", "boot", "up"}
    /\ hydrated \subseteq Scripts

Linked ==
    /\ sub \subseteq Scripts
    /\ conn \in {"off", "connecting", "connected", "deaf", "reconnecting", "parked"}
    /\ wire \in Seq([coin : Coins, version : {1, 2}])

Typed == Times /\ Calling /\ Plain /\ Linked

LEMMA TypedOK ==
    ASSUME Typed PROVE TypeOK
BY DEF Typed, Times, Calling, Plain, Linked, TypeOK

\* A call at its next place.
LEMMA SetCall ==
    ASSUME SyncAssumption, Times, Calling, NEW t \in Tasks, NEW k \in {Idle} \cup Calls,
           k # Idle => k.from <= now /\ now - k.from <= MaxFlight,
           task' = [task EXCEPT ![t] = k], now' = now
    PROVE  Calling' /\ task'[t] = k /\ \A u \in Tasks : u # t => task'[u] = task[u]
<1>1. task' \in [Tasks -> {Idle} \cup Calls]
  BY DEF Calling
<1>2. task'[t] = k /\ \A u \in Tasks : u # t => task'[u] = task[u]
  BY DEF Calling
<1> QED
  BY <1>1, <1>2 DEF Calling, Busy

LEMMA SameCalls ==
    ASSUME Calling, UNCHANGED <<task, now>> PROVE Calling'
BY DEF Calling, Busy

LEMMA SameTimes ==
    ASSUME Times, UNCHANGED <<at, now>> PROVE Times'
BY DEF Times

LEMMA BusyCall ==
    ASSUME Calling, NEW t \in Tasks, task[t].pc # "idle"
    PROVE  task[t] \in Calls /\ task[t].from <= now /\ now - task[t].from <= MaxFlight
BY DEF Calling, Busy, Idle

LEMMA WindowType ==
    ASSUME SyncAssumption, NEW x \in Nat
    PROVE  Window(x) \in Nat /\ Window(x) <= x /\ Cutoff(x) \in 0..x
BY DEF Window, Cutoff, SyncAssumption

\* A new sync is a call of the right type.
LEMMA CallStep ==
    ASSUME SyncAssumption, Times, Calling, NEW t \in Tasks,
           NEW kind \in {"boot", "reset", "refresh", "event", "pass"},
           NEW scope \in SUBSET Scripts,
           NEW after \in Nat, NEW gone \in SUBSET Coins, now' = now,
           Call(t, kind, scope, after, gone)
    PROVE  Calling'
<1>1. PICK late \in SUBSET Fresh :
        task' = [task EXCEPT ![t] =
            [pc |-> "save", kind |-> kind, from |-> now,
             waiting |-> {s \in scope : rows[s] = "awaiting"},
             ans |-> Answer(scope, after, late), gone |-> gone]]
  BY DEF Call
<1> DEFINE k == [pc |-> "save", kind |-> kind, from |-> now,
             waiting |-> {s \in scope : rows[s] = "awaiting"},
             ans |-> Answer(scope, after, late), gone |-> gone]
<1>2. Answer(scope, after, late) \in Answers
  BY AnswerType
<1>3. k \in Calls
  BY <1>2 DEF Calls, Times
<1>4. k.from <= now /\ now - k.from <= MaxFlight
  BY DEF Times, SyncAssumption
<1> HIDE DEF k
<1>5. task' = [task EXCEPT ![t] = k]
  BY <1>1 DEF k
<1> QED
  BY <1>3, <1>4, <1>5, SetCall

LEMMA BudgetStep ==
    ASSUME SyncAssumption, budget \in 0..MaxFaults, NEW f, NoFault \/ Fault(f)
    PROVE  budget' \in 0..MaxFaults
BY DEF NoFault, Fault, SyncAssumption

LEMMA HandleStep ==
    ASSUME SyncAssumption, Times, Calling, cursor \in Nat, NEW t \in Tasks,
           NEW s \in Scripts, NEW gone \in SUBSET Coins, now' = now, Handle(t, s, gone),
           budget \in 0..MaxFaults
    PROVE  Calling' /\ budget' \in 0..MaxFaults
<1>1. Window(cursor) \in Nat
  BY WindowType
<1>2. CASE NoFault /\ Call(t, "event", {s}, Window(cursor), gone)
  BY <1>1, <1>2, CallStep DEF NoFault
<1>3. CASE Fault("fail") /\ UNCHANGED task
  BY <1>3, SameCalls DEF Fault
<1> QED
  BY <1>2, <1>3 DEF Handle

LEMMA SubscriptionStep ==
    ASSUME Linked, budget \in 0..MaxFaults, MaxFaults \in Nat, NEW r \in [Scripts -> WatchStates],
           UpdateSubscription(r)
    PROVE  Linked' /\ budget' \in 0..MaxFaults
<1>1. CASE NoFault /\ Resubscribe(WatchedIn(r))
  BY <1>1 DEF NoFault, Resubscribe, WatchedIn, Linked, Streaming
<1>2. CASE Fault("unsubscribed") /\ UNCHANGED link
  BY <1>2 DEF Fault, link, Linked
<1> QED
  BY <1>1, <1>2 DEF UpdateSubscription

\* What is written is typed.
LEMMA WriteStep ==
    ASSUME Plain, NEW ans \in Answers, Write(ans)
    PROVE  held' \in [Coins -> Versions] /\ pruned' \subseteq Coins
BY DEF Write, Plain, Answers

LEMMA ChangeStep ==
    ASSUME SyncAssumption, Typed, NEW c \in Coins, Change(c)
    PROVE  Typed'
<1>1. Version(c) + 1 \in 1..2
  BY LastType DEF Change, Typed, Versions
<1>2. Times'
  <2>1. at' \in [Coins -> [1..2 -> 0..MaxTime]]
    BY <1>1 DEF Change, Typed, Times
  <2>2. \A d \in Coins, v \in 1..2 : at'[d][v] \in {at[d][v], now}
    BY <1>1 DEF Change, Typed, Times
  <2> QED
    BY <2>1, <2>2 DEF Change, Typed, Times
<1>3. Calling'
  BY SameCalls DEF Change, Typed
<1>4. Plain'
  BY DEF Change, Typed, Plain, repo
<1>5. Linked'
  <2> DEFINE M == [coin : Coins, version : {1, 2}]
             e == [coin |-> c, version |-> Version(c) + 1]
  <2>1. e \in M
    BY <1>1
  <2>2. wire \in Seq(M) /\ wire' \in {wire, Append(wire, e)}
    BY DEF Change, Sent, Typed, Linked
  <2> HIDE DEF M, e
  <2>3. wire' \in Seq(M)
    BY <2>1, <2>2
  <2> QED
    BY <2>3 DEF Change, Typed, Linked, M
<1> QED
  BY <1>2, <1>3, <1>4, <1>5 DEF Typed

LEMMA TickStep ==
    ASSUME SyncAssumption, Typed, Tick
    PROVE  Typed'
<1>1. Times'
  BY DEF Tick, Typed, Times, SyncAssumption
<1>2. Calling'
  <2>1. \A t \in Busy : task[t].from \in 1..MaxTime
    BY DEF Typed, Calling, Busy, Calls, AddCalls
  <2>2. Busy' = Busy
    BY DEF Tick, Busy
  <2> QED
    BY <2>1, <2>2 DEF Tick, Typed, Calling, Times, SyncAssumption
<1> QED
  BY <1>1, <1>2 DEF Tick, Typed, Plain, Linked, repo, link

LEMMA CreateStep ==
    ASSUME SyncAssumption, Typed, NEW t \in Tasks, NEW s \in Scripts, CreateContract(t, s)
    PROVE  Typed'
<1>1. PICK w \in {"watched", "awaiting"} :
        /\ rows' = [rows EXCEPT ![s] = w]
        /\ \/ /\ NoFault
              /\ \E late \in SUBSET Fresh :
                    task' = [task EXCEPT ![t] =
                        [pc |-> "hydrate", script |-> s, watch |-> w, from |-> now,
                         ans |-> Answer({s}, 0, late)]]
           \/ /\ Fault("fail")
              /\ task' = [task EXCEPT ![t] = Adding(s, w, now, FALSE)]
  BY DEF CreateContract
<1>2. \A ok \in BOOLEAN : Adding(s, w, now, ok) \in AddCalls
  BY DEF Adding, AddCalls, Typed, Times
<1>3. Times' /\ now' = now
  BY SameTimes DEF CreateContract, env, Typed
<1>4. Calling'
  <2>1. CASE NoFault /\ \E late \in SUBSET Fresh :
                    task' = [task EXCEPT ![t] =
                        [pc |-> "hydrate", script |-> s, watch |-> w, from |-> now,
                         ans |-> Answer({s}, 0, late)]]
    <3>1. PICK late \in SUBSET Fresh :
            task' = [task EXCEPT ![t] =
                [pc |-> "hydrate", script |-> s, watch |-> w, from |-> now,
                 ans |-> Answer({s}, 0, late)]]
      BY <2>1
    <3> DEFINE k == [pc |-> "hydrate", script |-> s, watch |-> w, from |-> now,
                     ans |-> Answer({s}, 0, late)]
    <3>2. k \in Calls
      BY <1>2, AnswerType DEF Calls, Typed, Times
    <3>3. k.from <= now /\ now - k.from <= MaxFlight
      BY DEF Typed, Times, SyncAssumption
    <3> HIDE DEF k
    <3>4. task' = [task EXCEPT ![t] = k]
      BY <3>1 DEF k
    <3> QED
      BY <1>3, <3>2, <3>3, <3>4, SetCall DEF Typed
  <2>2. CASE Fault("fail") /\ task' = [task EXCEPT ![t] = Adding(s, w, now, FALSE)]
    <3>1. Adding(s, w, now, FALSE) \in Calls /\ Adding(s, w, now, FALSE).from = now
      BY <1>2 DEF Calls, Adding
    <3>2. now - now <= MaxFlight /\ now <= now
      BY DEF Typed, Times, SyncAssumption
    <3> QED
      BY <1>3, <2>2, <3>1, <3>2, SetCall DEF Typed
  <2> QED
    BY <1>1, <2>1, <2>2
<1>5. Plain' /\ Linked'
  <2>1. NoFault \/ Fault("fail")
    BY <1>1
  <2>2. budget' \in 0..MaxFaults
    BY <2>1, BudgetStep DEF Typed, Plain
  <2>3. rows' \in [Scripts -> WatchStates]
    BY <1>1 DEF Typed, Plain, WatchStates
  <2> QED
    BY <2>2, <2>3 DEF CreateContract, env, link, Typed, Plain, Linked
<1> QED
  BY <1>3, <1>4, <1>5 DEF Typed

LEMMA HydrateStep ==
    ASSUME SyncAssumption, Typed, NEW t \in Tasks, Hydrate(t)
    PROVE  Typed'
<1> DEFINE k == task[t]
           a == Adding(k.script, k.watch, k.from, TRUE)
<1>1. k \in Calls /\ k.from <= now /\ now - k.from <= MaxFlight
  BY BusyCall DEF Hydrate, Typed
<1>2. a \in Calls /\ a.from = k.from /\ k.ans \in Answers
  BY <1>1 DEF Hydrate, Calls, AddCalls, Adding
<1>3. Write(k.ans) /\ task' = [task EXCEPT ![t] = a]
  BY DEF Hydrate
<1>4. Times' /\ now' = now
  BY SameTimes DEF Hydrate, env, Typed
<1> HIDE DEF a
<1>5. Calling'
  BY <1>1, <1>2, <1>3, <1>4, SetCall DEF Typed
<1>6. Plain'
  BY <1>2, <1>3, WriteStep DEF Typed, Plain, Hydrate, env
<1> QED
  BY <1>4, <1>5, <1>6 DEF Hydrate, Typed, Linked, link

LEMMA SaveStep ==
    ASSUME SyncAssumption, Typed, NEW t \in Tasks, Save(t)
    PROVE  Typed'
<1> DEFINE k == task[t]
           done == Demoted(k, held')
           r == Rest(k)
<1>1. k \in Calls /\ k.from <= now /\ now - k.from <= MaxFlight
  BY BusyCall DEF Save, Typed
<1>2. /\ k.kind \in {"boot", "reset", "refresh", "event", "pass"} /\ k.from \in 1..MaxTime
      /\ k.waiting \subseteq Scripts /\ k.ans \in Answers /\ k.gone \subseteq Coins
  BY <1>1 DEF Save, Calls, AddCalls
<1>3. r \in {Idle} \cup Calls /\ (r # Idle => r.from = k.from)
  BY <1>2 DEF Rest, Calls
<1>4. /\ Write(k.ans) /\ task' = [task EXCEPT ![t] = r]
      /\ cursor' = IF MovesCursor(k.kind) THEN Advance(cursor, k.from) ELSE cursor
      /\ rows' = [s \in Scripts |-> IF s \in done THEN "retained" ELSE rows[s]]
      /\ reg' = [s \in Scripts |-> IF s \in done THEN "retained" ELSE reg[s]]
      /\ hydrated' = hydrated \ done
      /\ IF done # {} /\ phase = "up" THEN UpdateSubscription(reg')
                                      ELSE NoFault /\ UNCHANGED link
      /\ UNCHANGED <<env, phase, base>>
  BY DEF Save
<1> HIDE DEF r, done
<1>5. Times' /\ now' = now
  BY <1>4, SameTimes DEF env, Typed
<1>6. Calling'
  BY <1>1, <1>3, <1>4, <1>5, SetCall DEF Typed
<1>7. rows' \in [Scripts -> WatchStates] /\ reg' \in [Scripts -> WatchStates]
  BY <1>4 DEF Typed, Plain, WatchStates
<1>8. Linked' /\ budget' \in 0..MaxFaults
  <2>1. CASE done # {} /\ phase = "up"
    BY <2>1, <1>4, <1>7, SubscriptionStep DEF Typed, Plain, SyncAssumption
  <2>2. CASE ~(done # {} /\ phase = "up")
    BY <2>2, <1>4 DEF NoFault, Typed, Plain, Linked, link
  <2> QED
    BY <2>1, <2>2
<1>9. cursor' \in 0..MaxTime
  BY <1>2, <1>4 DEF Advance, Cutoff, Typed, Plain, SyncAssumption
<1>10. held' \in [Coins -> Versions] /\ pruned' \subseteq Coins
  BY <1>2, <1>4, WriteStep DEF Typed
<1>11. Plain'
  BY <1>4, <1>7, <1>8, <1>9, <1>10 DEF Typed, Plain, env
<1> QED
  BY <1>5, <1>6, <1>8, <1>11 DEF Typed

\* What a call that ends leaves of the process and of its connection.
LEMMA EndStep ==
    ASSUME SyncAssumption, Typed, NEW t \in Tasks, EndSync(t), now' = now
    PROVE  /\ Calling' /\ phase' \in {"down", "boot", "up"}
           /\ conn' \in {"off", "connecting", "connected", "deaf", "reconnecting", "parked"}
<1>1. task' = [task EXCEPT ![t] = Idle]
  BY DEF EndSync
<1>2. Calling'
  BY <1>1, SetCall DEF Typed
<1> QED
  BY <1>2 DEF EndSync, Typed, Plain, Linked

LEMMA PendingStep ==
    ASSUME SyncAssumption, Typed, NEW t \in Tasks, Pending(t)
    PROVE  Typed'
<1>1. /\ task[t].pc = "pending"
      /\ UNCHANGED <<env, repo, reg, base, sub, wire, hydrated>>
  BY DEF Pending
<1>2. Times' /\ now' = now
  BY <1>1, SameTimes DEF env, Typed
<1>3. /\ task[t].kind \in {"boot", "reset"} /\ task[t].from \in 1..MaxTime
      /\ task[t].from <= now /\ now - task[t].from <= MaxFlight
  BY <1>1, BusyCall DEF Typed, Calls, AddCalls
<1>4. /\ Calling' /\ phase' \in {"down", "boot", "up"}
      /\ conn' \in {"off", "connecting", "connected", "deaf", "reconnecting", "parked"}
      /\ budget' \in 0..MaxFaults
  <2>1. CASE Fault("fail") /\ EndSync(t)
    BY <1>2, <2>1, EndStep, BudgetStep DEF Typed, Plain
  <2>2. CASE ~(Fault("fail") /\ EndSync(t))
    <3>1. PICK late \in SUBSET Fresh :
            LET live == {c \in Preconfirmed : ScriptOf[c] \in Watched /\ Shown(c, late) = 1}
            IN  task' = [task EXCEPT ![t] =
                    [pc |-> "frontier", kind |-> task[t].kind, from |-> task[t].from,
                     ans |-> AnswerFor(live, late)]]
      BY <2>2 DEF Pending
    <3> DEFINE live == {c \in Preconfirmed : ScriptOf[c] \in Watched /\ Shown(c, late) = 1}
               k == [pc |-> "frontier", kind |-> task[t].kind, from |-> task[t].from,
                     ans |-> AnswerFor(live, late)]
    <3>2. AnswerFor(live, late) \in Answers
      BY AnswerForType DEF Typed
    <3>3. k \in Calls /\ k.from = task[t].from
      BY <1>3, <3>2 DEF Calls
    <3>4. task' = [task EXCEPT ![t] = k]
      BY <3>1
    <3> HIDE DEF k
    <3>5. Calling'
      BY <1>2, <1>3, <3>3, <3>4, SetCall DEF Typed
    <3> QED
      BY <2>2, <3>5 DEF Pending, NoFault, Typed, Plain, Linked
  <2> QED
    BY <2>1, <2>2
<1> QED
  BY <1>1, <1>2, <1>4 DEF Typed, Plain, Linked, env, repo

LEMMA FrontierStep ==
    ASSUME SyncAssumption, Typed, NEW t \in Tasks, Frontier(t)
    PROVE  Typed'
<1>1. /\ task[t].pc = "frontier" /\ Write(task[t].ans) /\ EndSync(t)
      /\ UNCHANGED <<env, budget, rows, cursor, reg, base, sub, wire, hydrated>>
  BY DEF Frontier
<1>2. task[t].ans \in Answers
  BY <1>1, BusyCall DEF Typed, Calls, AddCalls
<1>3. Times' /\ now' = now
  BY <1>1, SameTimes DEF env, Typed
<1>4. held' \in [Coins -> Versions] /\ pruned' \subseteq Coins
  BY <1>1, <1>2, WriteStep DEF Typed
<1>5. /\ Calling' /\ phase' \in {"down", "boot", "up"}
      /\ conn' \in {"off", "connecting", "connected", "deaf", "reconnecting", "parked"}
  BY <1>1, <1>3, EndStep
<1> QED
  BY <1>1, <1>3, <1>4, <1>5 DEF Typed, Plain, Linked, env

LEMMA PassReadStep ==
    ASSUME SyncAssumption, Typed, NEW t \in Tasks, PassRead(t)
    PROVE  Typed'
<1>1. UNCHANGED <<env, repo, phase, reg, base, link, hydrated>>
  BY DEF PassRead
<1>2. Times' /\ now' = now
  BY <1>1, SameTimes DEF env, Typed
<1>3. NoFault \/ Fault("fail")
  BY DEF PassRead
<1>4. budget' \in 0..MaxFaults
  BY <1>3, BudgetStep DEF Typed, Plain
<1>5. Calling'
  <2>1. CASE Call(t, "pass", {s \in Scripts : rows[s] # "none"}, Window(cursor), {})
    <3> DEFINE scope == {s \in Scripts : rows[s] # "none"}
    <3>1. scope \in SUBSET Scripts /\ Call(t, "pass", scope, Window(cursor), {})
      BY <2>1
    <3>2. Window(cursor) \in Nat
      BY WindowType DEF Typed, Plain
    <3> HIDE DEF scope
    <3> QED
      BY <1>2, <3>1, <3>2, CallStep DEF Typed
  <2>2. CASE task' = [task EXCEPT ![t] = [pc |-> "expiring", from |-> now]]
    <3> DEFINE k == [pc |-> "expiring", from |-> now]
    <3>1. k \in Calls /\ k.from <= now /\ now - k.from <= MaxFlight
      BY DEF Calls, Typed, Times, SyncAssumption
    <3>2. task' = [task EXCEPT ![t] = k]
      BY <2>2
    <3> HIDE DEF k
    <3> QED
      BY <1>2, <3>1, <3>2, SetCall DEF Typed
  <2> QED
    BY <2>1, <2>2 DEF PassRead
<1> QED
  BY <1>1, <1>2, <1>4, <1>5 DEF Typed, Plain, Linked, env, repo, link

LEMMA ExpiringStep ==
    ASSUME SyncAssumption, Typed, NEW t \in Tasks, Expiring(t)
    PROVE  Typed'
<1>1. /\ task[t].pc = "expiring"
      /\ UNCHANGED <<env, repo, phase, reg, base, link, hydrated>>
  BY DEF Expiring
<1>2. Times' /\ now' = now
  BY <1>1, SameTimes DEF env, Typed
<1>3. task[t].from \in 1..MaxTime /\ task[t].from <= now /\ now - task[t].from <= MaxFlight
  BY <1>1, BusyCall DEF Typed, Calls, AddCalls
<1>4. NoFault \/ Fault("fail")
  BY DEF Expiring
<1>5. budget' \in 0..MaxFaults
  BY <1>4, BudgetStep DEF Typed, Plain
<1>6. Calling'
  <2>1. CASE task' = [task EXCEPT ![t] = Idle]
    BY <1>2, <2>1, SetCall DEF Typed
  <2>2. CASE \E late \in SUBSET Fresh :
                task' = [task EXCEPT ![t] =
                    [pc |-> "outpoints", from |-> task[t].from, ans |-> AnswerFor(Candidates, late)]]
    <3>1. PICK late \in SUBSET Fresh :
            task' = [task EXCEPT ![t] =
                [pc |-> "outpoints", from |-> task[t].from, ans |-> AnswerFor(Candidates, late)]]
      BY <2>2
    <3> DEFINE k == [pc |-> "outpoints", from |-> task[t].from,
                     ans |-> AnswerFor(Candidates, late)]
    <3>2. AnswerFor(Candidates, late) \in Answers
      BY AnswerForType DEF Typed
    <3>3. k \in Calls /\ k.from = task[t].from
      BY <1>3, <3>2 DEF Calls
    <3>4. task' = [task EXCEPT ![t] = k]
      BY <3>1
    <3> HIDE DEF k
    <3> QED
      BY <1>2, <1>3, <3>3, <3>4, SetCall DEF Typed
  <2> QED
    BY <2>1, <2>2 DEF Expiring
<1> QED
  BY <1>1, <1>2, <1>5, <1>6 DEF Typed, Plain, Linked, env, repo, link

LEMMA OutpointsStep ==
    ASSUME SyncAssumption, Typed, NEW t \in Tasks, Outpoints(t)
    PROVE  Typed'
<1>1. /\ task[t].pc = "outpoints"
      /\ held' = [c \in Coins |-> IF task[t].ans[c] > 0 THEN task[t].ans[c] ELSE held[c]]
      /\ task' = [task EXCEPT ![t] = Idle]
      /\ UNCHANGED <<env, budget, rows, pruned, cursor, phase, reg, base, link, hydrated>>
  BY DEF Outpoints
<1>2. task[t].ans \in Answers
  BY <1>1, BusyCall DEF Typed, Calls, AddCalls
<1>3. Times' /\ now' = now
  BY <1>1, SameTimes DEF env, Typed
<1>4. held' \in [Coins -> Versions]
  BY <1>1, <1>2 DEF Typed, Plain, Answers
<1>5. Calling'
  BY <1>1, <1>3, SetCall DEF Typed
<1> QED
  BY <1>1, <1>3, <1>4, <1>5 DEF Typed, Plain, Linked, env, link

LEMMA PruneStep ==
    ASSUME SyncAssumption, Typed, NEW t \in Tasks, Prune(t)
    PROVE  Typed'
<1>1. task[t].gone \subseteq Coins
  BY BusyCall DEF Prune, Typed, Calls, AddCalls
<1>2. Times' /\ now' = now
  BY SameTimes DEF Prune, env, Typed
<1>3. Calling'
  BY <1>2, SetCall DEF Prune, Typed
<1> QED
  BY <1>1, <1>2, <1>3 DEF Prune, Typed, Plain, Linked, env, link

\* The syncs that change nothing but the calls under way.
LEMMA SyncStep ==
    ASSUME SyncAssumption, Typed, NEW t \in Tasks, Read(t) \/ Refresh(t)
    PROVE  Typed'
<1>1. Window(cursor) \in Nat
  BY WindowType DEF Typed, Plain
<1>2. UNCHANGED <<env, budget, repo, phase, reg, base, link, hydrated>>
  BY DEF Read, Refresh, NoFault
<1>3. Times' /\ now' = now
  BY <1>2, SameTimes DEF env, Typed
<1>4. CASE Read(t)
  <2>1. PICK scope \in SUBSET {s \in Scripts : rows[s] # "none"} :
           Call(t, "event", scope, Window(cursor), {})
    BY <1>4 DEF Read
  <2>2. scope \in SUBSET Scripts
    OBVIOUS
  <2>3. Calling'
    BY <1>1, <1>3, <2>1, <2>2, CallStep DEF Typed
  <2> QED
    BY <1>2, <1>3, <2>3 DEF Typed, Plain, Linked, env, repo, link
<1>5. CASE Refresh(t)
  <2>1. Calling'
    BY <1>1, <1>3, <1>5, CallStep DEF Typed, Refresh, Watched
  <2> QED
    BY <1>2, <1>3, <2>1 DEF Typed, Plain, Linked, env, repo, link
<1> QED
  BY <1>4, <1>5

LEMMA PollStep ==
    ASSUME SyncAssumption, Typed, NEW t \in Tasks, NEW s \in Scripts, Poll(t, s)
    PROVE  Typed'
<1>1. Times' /\ now' = now
  BY SameTimes DEF Poll, env, Typed
<1>2. Known(s) \ Live(s) \in SUBSET Coins /\ base' \subseteq Coins
  BY DEF Poll, Known, Live, Typed, Plain
<1>3. Calling' /\ budget' \in 0..MaxFaults
  BY <1>1, <1>2, HandleStep DEF Poll, Typed, Plain
<1> QED
  BY <1>1, <1>2, <1>3 DEF Poll, Typed, Plain, Linked, env, repo, link

LEMMA HearStep ==
    ASSUME SyncAssumption, Typed, NEW t \in Tasks, Hear(t)
    PROVE  Typed'
<1> DEFINE c == Head(wire).coin
           spent == Head(wire).version = 2
           M == [coin : Coins, version : {1, 2}]
<1>1. Times' /\ now' = now
  BY SameTimes DEF Hear, env, Typed
<1>2. wire \in Seq(M) /\ wire # <<>> /\ wire' = Tail(wire)
  BY DEF Hear, Typed, Linked
<1>3. Head(wire) \in M /\ wire' \in Seq(M)
  <2> HIDE DEF M
  <2> QED BY <1>2
<1>4. c \in Coins /\ ScriptOf[c] \in Scripts
  BY <1>3 DEF SyncAssumption
<1>5. CASE reg[ScriptOf[c]] = "none"
  <2>1. NoFault /\ UNCHANGED <<base, task>>
    BY <1>5 DEF Hear
  <2>2. Calling'
    BY <1>1, <2>1, SameCalls DEF Typed
  <2> QED
    BY <1>1, <1>3, <2>1, <2>2 DEF Hear, Typed, Plain, Linked, env, repo, NoFault
<1>6. CASE reg[ScriptOf[c]] # "none"
  <2>1. /\ base' = IF spent THEN base \ {c} ELSE base \cup {c}
        /\ Handle(t, ScriptOf[c], IF spent THEN {c} ELSE {})
    BY <1>6 DEF Hear
  <2>2. base' \subseteq Coins
    BY <1>4, <2>1 DEF Typed, Plain
  <2>3. Calling' /\ budget' \in 0..MaxFaults
    <3> DEFINE s == ScriptOf[c]
               gone == IF spent THEN {c} ELSE {}
    <3>1. s \in Scripts /\ gone \in SUBSET Coins /\ Handle(t, s, gone)
      BY <1>4, <2>1
    <3> HIDE DEF s, gone
    <3> QED
      BY <1>1, <3>1, HandleStep DEF Typed, Plain
  <2> QED
    BY <1>1, <1>3, <2>2, <2>3 DEF Hear, Typed, Plain, Linked, env, repo
<1> QED
  BY <1>5, <1>6

LEMMA AddStep ==
    ASSUME SyncAssumption, Typed, NEW t \in Tasks, Add(t)
    PROVE  Typed'
<1> DEFINE k == task[t]
<1>1. k \in AddCalls
  BY BusyCall DEF Add, Typed, Calls
<1>2. reg' = [reg EXCEPT ![k.script] = k.watch] /\ UpdateSubscription(reg')
  BY DEF Add
<1>3. reg' \in [Scripts -> WatchStates]
  BY <1>1, <1>2 DEF AddCalls, Typed, Plain, WatchStates
<1>4. Linked' /\ budget' \in 0..MaxFaults
  BY <1>2, <1>3, SubscriptionStep DEF Typed, Plain, SyncAssumption
<1>5. Times' /\ now' = now
  BY SameTimes DEF Add, env, Typed
<1>6. Calling'
  BY <1>5, SetCall DEF Add, Typed
<1>7. base' \subseteq Coins /\ hydrated' \subseteq Scripts
  BY <1>1 DEF Add, AddCalls, Live, Typed, Plain
<1> QED
  BY <1>3, <1>4, <1>5, <1>6, <1>7 DEF Add, Typed, Plain, env, repo

LEMMA SetWatchStep ==
    ASSUME SyncAssumption, Typed, NEW s \in Scripts, NEW w \in WatchStates \ {"none"},
           SetWatch(s, w)
    PROVE  Typed'
<1>1. rows' \in [Scripts -> WatchStates] /\ reg' \in [Scripts -> WatchStates]
  BY DEF SetWatch, Typed, Plain
<1>2. Linked' /\ budget' \in 0..MaxFaults
  BY <1>1, SubscriptionStep DEF SetWatch, Typed, Plain, SyncAssumption
<1>3. Times' /\ Calling'
  BY SameTimes, SameCalls DEF SetWatch, env, Typed
<1> QED
  BY <1>1, <1>2, <1>3 DEF SetWatch, Typed, Plain, env

\* The steps of the connection alone.
LEMMA ConnectionStep ==
    ASSUME SyncAssumption, Typed, Open \/ End \/ Reconnect
    PROVE  Typed'
<1>1. UNCHANGED <<env, repo, phase, reg, base, task, hydrated>>
  BY DEF Open, End, Reconnect
<1>2. Times' /\ Calling'
  BY <1>1, SameTimes, SameCalls DEF env, Typed
<1>3. budget' \in 0..MaxFaults
  BY BudgetStep DEF Open, End, Reconnect, NoFault, Typed, Plain
<1>4. Linked'
  <2>1. wire' \in {wire, <<>>} /\ sub' \in {sub, {}, sub \cup Watched}
    BY DEF Open, End, Reconnect
  <2>2. conn' \in {"connecting", "connected", "reconnecting", "parked"}
    BY DEF Open, End, Reconnect
  <2>3. wire' \in Seq([coin : Coins, version : {1, 2}])
    <3>1. CASE wire' = wire
      BY <3>1 DEF Typed, Linked
    <3>2. CASE wire' = <<>>
      BY <3>2
    <3> QED
      BY <2>1, <3>1, <3>2
  <2> QED
    BY <2>1, <2>2, <2>3 DEF Typed, Linked, Watched
<1> QED
  BY <1>1, <1>2, <1>3, <1>4 DEF Typed, Plain, env, repo

LEMMA LoseStep ==
    ASSUME SyncAssumption, Typed, NEW t \in Tasks, Lose(t)
    PROVE  Typed'
<1>1. Times' /\ now' = now
  BY SameTimes DEF Lose, env, Typed
<1>2. Window(cursor) \in Nat
  BY WindowType DEF Typed, Plain
<1>3. Calling'
  BY <1>1, <1>2, CallStep DEF Lose, Typed, Watched
<1>4. budget' \in 0..MaxFaults
  BY BudgetStep DEF Lose, Typed, Plain
<1> QED
  BY <1>1, <1>3, <1>4 DEF Lose, Typed, Plain, Linked, env, repo

LEMMA BootStep ==
    ASSUME SyncAssumption, Typed, NEW t \in Tasks, Boot(t)
    PROVE  Typed'
<1>1. Times' /\ now' = now
  BY SameTimes DEF Boot, env, Typed
<1>2. Window(cursor) \in Nat
  BY WindowType DEF Typed, Plain
<1>3. CASE /\ NoFault /\ phase' = "boot" /\ UNCHANGED conn
           /\ Call(t, "boot", WatchedIn(rows), Window(cursor), {})
  <2>1. Calling'
    BY <1>1, <1>2, <1>3, CallStep DEF Typed, WatchedIn
  <2> QED
    BY <1>1, <1>3, <2>1 DEF Boot, NoFault, Typed, Plain, Linked, env, repo
<1>4. CASE Fault("fail") /\ phase' = "up" /\ conn' = "connecting" /\ UNCHANGED task
  <2>1. Calling' /\ budget' \in 0..MaxFaults
    BY <1>1, <1>4, SameCalls, BudgetStep DEF Typed, Plain
  <2> QED
    BY <1>1, <1>4, <2>1 DEF Boot, Typed, Plain, Linked, env, repo
<1> QED
  BY <1>3, <1>4 DEF Boot

LEMMA CrashStep ==
    ASSUME SyncAssumption, Typed, Crash
    PROVE  Typed'
<1>1. Times' /\ budget' \in 0..MaxFaults
  BY SameTimes, BudgetStep DEF Crash, env, Typed, Plain
<1>2. Calling'
  BY DEF Crash, Calling, Busy
<1>3. wire' \in Seq([coin : Coins, version : {1, 2}])
  BY DEF Crash
<1> QED
  BY <1>1, <1>2, <1>3 DEF Crash, Typed, Plain, Linked, env, repo, WatchStates

LEMMA TypedStep ==
    ASSUME SyncAssumption, Typed, [Next]_vars
    PROVE  Typed'
<1>1. ASSUME NEW c \in Coins, Change(c) PROVE Typed'
  BY <1>1, ChangeStep
<1>2. CASE Tick
  BY <1>2, TickStep
<1>3. ASSUME NEW t \in Tasks, NEW s \in Scripts, CreateContract(t, s) \/ Poll(t, s)
      PROVE  Typed'
  BY <1>3, CreateStep, PollStep
<1>4. ASSUME NEW t \in Tasks, Step(t) PROVE Typed'
  BY <1>4, HydrateStep, SaveStep, PendingStep, FrontierStep, PruneStep, AddStep, ExpiringStep,
     OutpointsStep DEF Step
<1>5. ASSUME NEW t \in Tasks,
             Read(t) \/ Refresh(t) \/ Hear(t) \/ Lose(t) \/ Boot(t) \/ PassRead(t)
      PROVE  Typed'
  BY <1>5, SyncStep, HearStep, LoseStep, BootStep, PassReadStep
<1>6. ASSUME NEW s \in Scripts, NEW w \in WatchStates \ {"none"}, SetWatch(s, w)
      PROVE  Typed'
  BY <1>6, SetWatchStep
<1>7. CASE Open \/ End \/ Reconnect \/ Crash
  BY <1>7, ConnectionStep, CrashStep
<1>8. CASE UNCHANGED vars
  BY <1>8, SameTimes, SameCalls
     DEF vars, env, repo, link, Typed, Plain, Linked
<1> QED
  BY <1>1, <1>2, <1>3, <1>4, <1>5, <1>6, <1>7, <1>8 DEF Next

LEMMA TypedInit ==
    ASSUME SyncAssumption, Init
    PROVE  Typed
<1>1. Times
  BY DEF Init, Times, SyncAssumption
<1>2. Calling
  BY DEF Init, Calling, Busy
<1> QED
  BY <1>1, <1>2 DEF Init, Typed, Plain, Linked, SyncAssumption, WatchStates, Versions

\* Types hold whatever the number of contracts, coins, calls and faults: the cursor stays
\* a time that was (advanceSyncCursor), and a call is under way for no longer than the
\* bound, whatever awaits it goes through.
THEOREM TypeCorrect == Spec => []TypeOK
<1>1. SyncAssumption
  BY SyncAssumption
<1>2. Init => Typed
  BY <1>1, TypedInit
<1>3. Typed /\ [Next]_vars => Typed'
  BY <1>1, TypedStep
<1>4. Typed => TypeOK
  BY TypedOK
<1> QED
  BY <1>2, <1>3, <1>4, PTL DEF Spec

-----------------------------------------------------------------------------
(* The cursor and the coins the repository lacks.                            *)

\* A request of time f may not have seen the coin, or came before it.
Late(c, f) == at[c][1] >= f \/ at[c][1] + Lag > f

\* What call k has in hand or has written of a coin: a sync that moves the cursor brings
\* whatever lies before the window it will leave; a contract's history brings whatever
\* was there when it was asked for.
Fine(k, c) ==
    Version(c) > 0 =>
    /\ k.pc = "save" /\ MovesCursor(k.kind) /\ ScriptOf[c] \in hydrated
         /\ at[c][1] < Window(Cutoff(k.from))
       => held[c] > 0 \/ k.ans[c] > 0
    /\ k.pc = "hydrate" /\ ScriptOf[c] = k.script => k.ans[c] > 0 \/ Late(c, k.from)
    /\ k.pc = "add" /\ k.ok /\ ScriptOf[c] = k.script => held[c] > 0 \/ Late(c, k.from)

AllFine == \A t \in Tasks, c \in Coins : Fine(task[t], c)

\* A contract that was fetched is watched, by the rows and by the watcher; one
\* that is being added has its row; and calls are the live process's.
Followed ==
    /\ \A s \in hydrated :
          /\ rows[s] \in {"watched", "awaiting"}
          /\ phase # "down" => reg[s] \in {"watched", "awaiting"}
    /\ \A t \in Tasks :
          /\ task[t].pc \in {"hydrate", "add"} => rows[task[t].script] # "none"
          /\ task[t] # Idle => phase # "down"

Bounded == cursor <= Cutoff(now)

Behind ==
    \A c \in Coins :
        ScriptOf[c] \in hydrated /\ held[c] = 0 /\ Version(c) > 0 => at[c][1] >= Window(cursor)

IInv == Typed /\ Followed /\ Bounded /\ Behind /\ AllFine

\* A step that brings no coin, starts no call and fetches no contract in full: what is
\* written is never taken away.
Keeps ==
    /\ UNCHANGED <<at, now>>
    /\ \A c \in Coins : held[c] > 0 => held'[c] > 0
    /\ \A s \in hydrated' : s \in hydrated

LEMMA Times1 ==
    ASSUME SyncAssumption, Typed
    PROVE  /\ now \in Nat /\ now >= 1 /\ cursor \in Nat
           /\ Lag \in Nat /\ Overlap \in Nat /\ MaxFlight \in Nat
           /\ \A c \in Coins : at[c][1] \in Nat /\ at[c][1] <= now /\ held[c] \in Versions
BY DEF Typed, Times, Plain, SyncAssumption

LEMMA CallTimes ==
    ASSUME SyncAssumption, Typed, NEW t \in Tasks, task[t].pc # "idle"
    PROVE  /\ task[t] \in Calls /\ task[t].from \in Nat
           /\ task[t].from <= now /\ now - task[t].from <= MaxFlight
<1>1. task[t] \in Calls /\ task[t].from <= now /\ now - task[t].from <= MaxFlight
  BY BusyCall DEF Typed
<1> QED
  BY <1>1 DEF Calls, AddCalls

LEMMA SameVersion ==
    ASSUME UNCHANGED at PROVE \A c : Version(c)' = Version(c)
BY DEF Version

\* A coin a request did not see is within the window of a cursor that was moved up to
\* then, however long the request was under way.
LEMMA LateInWindow ==
    ASSUME SyncAssumption, NEW a \in Nat, NEW f \in Nat, NEW g \in Nat,
           a >= f \/ a + Lag > f, g - f <= MaxFlight
    PROVE  a >= Window(Cutoff(g))
BY DEF Window, Cutoff, SyncAssumption

LEMMA WindowMonotone ==
    ASSUME SyncAssumption, NEW x \in Nat, NEW y \in Nat, x <= y
    PROVE  Window(x) <= Window(y) /\ Window(x) \in Nat /\ Window(y) \in Nat
BY DEF Window, SyncAssumption

LEMMA CutoffType ==
    ASSUME SyncAssumption, NEW x \in Nat PROVE Cutoff(x) \in Nat /\ Cutoff(x) <= x
BY DEF Cutoff, SyncAssumption

\* What a call knows stays so.
LEMMA FineKept ==
    ASSUME SyncAssumption, Typed, AllFine, Keeps, NEW u \in Tasks, task'[u] = task[u]
    PROVE  \A c \in Coins : Fine(task[u], c)'
<1> SUFFICES ASSUME NEW c \in Coins PROVE Fine(task[u], c)'
  OBVIOUS
<1>1. Fine(task[u], c)
  BY DEF AllFine
<1>2. /\ Version(c)' = Version(c) /\ at'[c] = at[c]
      /\ held[c] > 0 => held'[c] > 0
      /\ ScriptOf[c] \in hydrated' => ScriptOf[c] \in hydrated
  BY SameVersion DEF Keeps
<1> QED
  BY <1>1, <1>2 DEF Fine, Late

LEMMA FineStep ==
    ASSUME SyncAssumption, Typed, AllFine, Keeps,
           NEW t \in Tasks, \A u \in Tasks : u # t => task'[u] = task[u],
           \A c \in Coins : Fine(task[t], c)'
    PROVE  AllFine'
<1>1. \A u \in Tasks, c \in Coins : Fine(task[u], c)'
  BY FineKept
<1> QED
  BY <1>1 DEF AllFine

\* A step after which every call is as it was, or at a place where it knows nothing.
LEMMA FineSame ==
    ASSUME SyncAssumption, Typed, AllFine, Keeps,
           \A t \in Tasks : task'[t] = task[t] \/ task'[t].pc \notin {"save", "hydrate", "add"}
    PROVE  AllFine'
<1>1. ASSUME NEW u \in Tasks, NEW c \in Coins PROVE Fine(task[u], c)'
  <2>1. CASE task'[u] = task[u]
    BY <2>1, FineKept
  <2>2. CASE task'[u].pc \notin {"save", "hydrate", "add"}
    BY <2>2 DEF Fine
  <2> QED
    BY <2>1, <2>2
<1> QED
  BY <1>1 DEF AllFine

LEMMA BehindSame ==
    ASSUME SyncAssumption, Typed, Bounded, Behind, Keeps, cursor' = cursor
    PROVE  Bounded' /\ Behind'
<1>1. Bounded'
  BY DEF Bounded, Keeps
<1>2. \A c \in Coins : held'[c] = 0 => held[c] = 0
  BY Times1 DEF Keeps, Versions
<1> QED
  BY <1>1, <1>2, SameVersion DEF Behind, Keeps

LEMMA FollowedSame ==
    ASSUME Followed, UNCHANGED <<rows, hydrated, reg>>,
           phase' = phase \/ (phase # "down" /\ phase' # "down"),
           \A t \in Tasks :
              \/ task'[t] \in {task[t], Idle}
              \/ task'[t].pc \notin {"hydrate", "add"} /\ phase # "down"
    PROVE  Followed'
<1>1. phase' = "down" <=> phase = "down"
  OBVIOUS
<1> QED
  BY <1>1 DEF Followed, Idle

\* A new sync brings what its window holds, and what lies before it the row has.
LEMMA CallFine ==
    ASSUME SyncAssumption, Typed, Bounded, Behind, AllFine, Keeps, NEW t \in Tasks,
           NEW kind, NEW scope, NEW gone, Call(t, kind, scope, Window(cursor), gone),
           held' = held, MovesCursor(kind) => \A s \in hydrated : s \in scope
    PROVE  /\ task'[t].pc = "save" /\ \A u \in Tasks : u # t => task'[u] = task[u]
           /\ AllFine'
<1>1. PICK late \in SUBSET Fresh :
        task' = [task EXCEPT ![t] =
            [pc |-> "save", kind |-> kind, from |-> now,
             waiting |-> {s \in scope : rows[s] = "awaiting"},
             ans |-> Answer(scope, Window(cursor), late), gone |-> gone]]
  BY DEF Call
<1> DEFINE a == Answer(scope, Window(cursor), late)
<1>2. /\ task'[t].pc = "save" /\ task'[t].kind = kind /\ task'[t].from = now
      /\ task'[t].ans = a /\ \A u \in Tasks : u # t => task'[u] = task[u]
  BY <1>1 DEF Typed, Calling
<1>3. Window(cursor) \in Nat /\ Times
  BY Times1, WindowType DEF Typed
<1>4. ASSUME NEW c \in Coins, Version(c) > 0, MovesCursor(kind), ScriptOf[c] \in hydrated,
             at[c][1] < Window(Cutoff(now))
      PROVE  held[c] > 0 \/ a[c] > 0
  <2>1. at[c][1] \in Nat /\ at[c][1] + Lag <= now /\ held[c] \in Versions
    BY <1>4, Times1 DEF Window, Cutoff
  <2>2. CASE at[c][1] >= Window(cursor)
    BY <1>3, <1>4, <2>1, <2>2, AnswerFacts
  <2>3. CASE ~(at[c][1] >= Window(cursor))
    BY <1>4, <2>1, <2>3 DEF Behind, Versions
  <2> QED
    BY <2>2, <2>3
<1>5. \A c \in Coins : Fine(task[t], c)'
  <2> SUFFICES ASSUME NEW c \in Coins PROVE Fine(task[t], c)'
    OBVIOUS
  <2>1. /\ Version(c)' = Version(c) /\ at'[c] = at[c] /\ held'[c] = held[c]
        /\ ScriptOf[c] \in hydrated' => ScriptOf[c] \in hydrated
    BY SameVersion DEF Keeps
  <2> HIDE DEF a
  <2> QED
    BY <1>2, <1>4, <2>1 DEF Fine
<1> QED
  BY <1>2, <1>5, FineStep

\* Writing an answer takes nothing away, and what is in it is there.
LEMMA WriteFacts ==
    ASSUME SyncAssumption, Typed, NEW t \in Tasks, task[t].ans \in Answers,
           held' = [c \in Coins |-> IF task[t].ans[c] > 0 THEN task[t].ans[c] ELSE held[c]]
    PROVE  \A c \in Coins : /\ held[c] > 0 => held'[c] > 0
                            /\ task[t].ans[c] > 0 => held'[c] > 0
OBVIOUS

-----------------------------------------------------------------------------
(* The steps.                                                                *)

\* A step that leaves the calls, or takes one to a place where it knows nothing.
LEMMA QuietBehind ==
    ASSUME SyncAssumption, IInv, Keeps, UNCHANGED <<rows, hydrated, reg, cursor>>,
           phase' = phase \/ (phase # "down" /\ phase' # "down"),
           NEW t \in Tasks, \A u \in Tasks : u # t => task'[u] = task[u],
           \/ task'[t] = task[t]
           \/ /\ task'[t].pc \notin {"save", "hydrate", "add"}
              /\ task'[t] = Idle \/ phase # "down"
    PROVE  Followed' /\ Bounded' /\ Behind' /\ AllFine'
<1>1. Followed'
  BY FollowedSame DEF IInv
<1> QED
  BY <1>1, BehindSame, FineSame DEF IInv

\* A step that starts a sync.
LEMMA SyncBehind ==
    ASSUME SyncAssumption, IInv, UNCHANGED <<at, now, held, rows, hydrated, reg, cursor, phase>>,
           phase # "down", NEW t \in Tasks, NEW kind, NEW scope, NEW gone,
           Call(t, kind, scope, Window(cursor), gone),
           MovesCursor(kind) => \A s \in hydrated : s \in scope
    PROVE  Followed' /\ Bounded' /\ Behind' /\ AllFine'
<1>1. Keeps
  BY DEF Keeps
<1>2. Bounded' /\ Behind'
  BY <1>1, BehindSame DEF IInv
<1>3. /\ task'[t].pc = "save" /\ \A u \in Tasks : u # t => task'[u] = task[u]
      /\ AllFine'
  BY <1>1, CallFine DEF IInv
<1>4. Followed'
  BY <1>3, FollowedSame DEF IInv
<1> QED
  BY <1>2, <1>3, <1>4

LEMMA ChangeBehind ==
    ASSUME SyncAssumption, IInv, NEW c \in Coins, Change(c)
    PROVE  Followed' /\ Bounded' /\ Behind' /\ AllFine'
<1>1. /\ Version(c) < 2 /\ at' = [at EXCEPT ![c][Version(c) + 1] = now]
      /\ UNCHANGED <<now, held, cursor, rows, reg, phase, task, hydrated>>
  BY DEF Change, repo
<1>2. at \in [Coins -> [1..2 -> 0..MaxTime]] /\ Version(c) \in Versions
  BY LastType DEF IInv, Typed, Times
<1>3. \A d \in Coins : d # c => Version(d)' = Version(d) /\ at'[d] = at[d]
  BY <1>1, <1>2 DEF Version
<1>4. Version(c) = 0 => at'[c][1] = now
  BY <1>1, <1>2
<1>5. Version(c) > 0 => at'[c][1] = at[c][1]
  <2>1. Version(c) > 0 => Version(c) + 1 # 1
    BY <1>2 DEF Versions
  <2> QED
    BY <1>1, <1>2, <2>1
<1>6. Followed' /\ Bounded'
  BY <1>1 DEF IInv, Followed, Bounded
<1>7. Behind'
  <2>1. now >= Window(cursor)
    BY Times1, WindowType, CutoffType DEF IInv, Bounded
  <2> SUFFICES ASSUME NEW d \in Coins, ScriptOf[d] \in hydrated, held[d] = 0, Version(d)' > 0
               PROVE  at'[d][1] >= Window(cursor)
    BY <1>1 DEF Behind
  <2>2. CASE d # c \/ Version(c) > 0
    <3>1. Version(d) > 0 /\ at'[d][1] = at[d][1]
      BY <1>3, <1>5, <2>2
    <3> QED
      BY <3>1 DEF IInv, Behind
  <2>3. CASE d = c /\ Version(c) = 0
    BY <1>4, <2>1, <2>3
  <2> QED
    BY <1>2, <2>2, <2>3 DEF Versions
<1>8. AllFine'
  <2> SUFFICES ASSUME NEW t \in Tasks, NEW d \in Coins PROVE Fine(task[t], d)'
    BY DEF AllFine
  <2>1. Fine(task[t], d)
    BY DEF IInv, AllFine
  <2>2. CASE d # c \/ Version(c) > 0
    <3>1. Version(d) > 0 \/ Version(d)' = Version(d)
      BY <1>3, <2>2
    <3>2. at'[d][1] = at[d][1]
      BY <1>3, <1>5, <2>2
    <3> QED
      BY <1>1, <2>1, <3>1, <3>2 DEF Fine, Late
  <2>3. CASE d = c /\ Version(c) = 0
    <3>1. at'[d][1] = now
      BY <1>4, <2>3
    <3>2. task[t].pc # "idle" => task[t].from \in Nat /\ task[t].from <= now
      BY CallTimes DEF IInv
    <3>3. task[t].pc # "idle" => ~(now < Window(Cutoff(task[t].from)))
      BY <3>2, Times1 DEF IInv, Window, Cutoff
    <3> QED
      BY <1>1, <3>1, <3>2, <3>3 DEF Fine, Late
  <2> QED
    BY <1>2, <2>2, <2>3 DEF Versions
<1> QED
  BY <1>6, <1>7, <1>8

LEMMA TickBehind ==
    ASSUME SyncAssumption, IInv, Tick
    PROVE  Followed' /\ Bounded' /\ Behind' /\ AllFine'
<1>1. UNCHANGED <<at, held, cursor, rows, reg, phase, task, hydrated>> /\ now' = now + 1
  BY DEF Tick, repo
<1>2. cursor <= Cutoff(now + 1)
  BY Times1 DEF IInv, Bounded, Cutoff
<1>3. Followed' /\ Behind' /\ Bounded'
  BY <1>1, <1>2, SameVersion DEF IInv, Followed, Behind, Bounded
<1>4. \A t \in Tasks, c \in Coins : Fine(task[t], c)'
  BY <1>1, SameVersion DEF IInv, AllFine, Fine, Late
<1> QED
  BY <1>3, <1>4 DEF AllFine

\* The contract's whole history is asked for: what was there, and shows, is in it.
LEMMA CreateBehind ==
    ASSUME SyncAssumption, IInv, NEW t \in Tasks, NEW s \in Scripts, CreateContract(t, s)
    PROVE  Followed' /\ Bounded' /\ Behind' /\ AllFine'
<1>1. PICK w \in {"watched", "awaiting"} :
        /\ rows' = [rows EXCEPT ![s] = w]
        /\ \/ /\ NoFault
              /\ \E late \in SUBSET Fresh :
                    task' = [task EXCEPT ![t] =
                        [pc |-> "hydrate", script |-> s, watch |-> w, from |-> now,
                         ans |-> Answer({s}, 0, late)]]
           \/ /\ Fault("fail")
              /\ task' = [task EXCEPT ![t] = Adding(s, w, now, FALSE)]
  BY DEF CreateContract
<1>2. rows[s] = "none" /\ UNCHANGED <<at, now, held, cursor, reg, phase, hydrated>>
  BY DEF CreateContract, env
<1>3. /\ task'[t].script = s /\ task'[t].pc \in {"hydrate", "add"}
      /\ task'[t].pc = "add" => ~task'[t].ok
      /\ \A u \in Tasks : u # t => task'[u] = task[u]
  BY <1>1 DEF Adding, IInv, Typed, Calling
<1>4. Followed'
  <2>1. s \notin hydrated
    BY <1>2 DEF IInv, Followed
  <2>2. \A r \in Scripts : rows'[r] = IF r = s THEN w ELSE rows[r]
    BY <1>1 DEF IInv, Typed, Plain
  <2>3. \A u \in Tasks : task[u].pc \in {"hydrate", "add"} => task[u].script \in Scripts
    BY BusyCall DEF IInv, Typed, Calls, AddCalls
  <2>4. hydrated \subseteq Scripts
    BY DEF IInv, Typed, Plain
  <2>5. phase = "up"
    BY DEF CreateContract
  <2>6. \A r \in hydrated : rows'[r] = rows[r]
    BY <2>1, <2>2, <2>4
  <2>7. ASSUME NEW u \in Tasks, task'[u].pc \in {"hydrate", "add"}
        PROVE  rows'[task'[u].script] # "none"
    <3>1. CASE u = t
      BY <1>3, <2>2, <3>1
    <3>2. CASE u # t
      <4>1. task[u].script \in Scripts /\ rows[task[u].script] # "none"
        BY <1>3, <2>3, <2>7, <3>2 DEF IInv, Followed
      <4> QED
        BY <1>2, <1>3, <2>2, <3>2, <4>1
    <3> QED
      BY <3>1, <3>2
  <2> QED
    BY <1>2, <2>5, <2>6, <2>7 DEF IInv, Followed
<1>5. Keeps
  BY <1>2 DEF Keeps
<1>6. Bounded' /\ Behind'
  BY <1>2, <1>5, BehindSame DEF IInv
<1>7. \A c \in Coins : Fine(task[t], c)'
  <2> SUFFICES ASSUME NEW c \in Coins PROVE Fine(task[t], c)'
    OBVIOUS
  <2>1. CASE task'[t].pc = "add"
    BY <1>3, <2>1 DEF Fine
  <2>2. CASE task'[t].pc # "add"
    <3>1. PICK late \in SUBSET Fresh :
            task' = [task EXCEPT ![t] =
                [pc |-> "hydrate", script |-> s, watch |-> w, from |-> now,
                 ans |-> Answer({s}, 0, late)]]
      <4>1. task' # [task EXCEPT ![t] = Adding(s, w, now, FALSE)]
        BY <2>2 DEF Adding, IInv, Typed, Calling
      <4> QED
        BY <1>1, <4>1
    <3> DEFINE a == Answer({s}, 0, late)
    <3>2. task'[t].pc = "hydrate" /\ task'[t].from = now /\ task'[t].ans = a
      BY <3>1 DEF IInv, Typed, Calling
    <3>3. ScriptOf[c] = s /\ Version(c) > 0 => a[c] > 0 \/ Late(c, now)
      BY AnswerFacts, Times1 DEF IInv, Typed, Late
    <3>4. Version(c)' = Version(c) /\ at'[c] = at[c]
      BY <1>2, SameVersion
    <3> HIDE DEF a
    <3> QED
      BY <1>3, <3>2, <3>3, <3>4 DEF Fine, Late
  <2> QED
    BY <2>1, <2>2
<1>8. AllFine'
  BY <1>3, <1>5, <1>7, FineStep DEF IInv
<1> QED
  BY <1>4, <1>6, <1>8

LEMMA HydrateBehind ==
    ASSUME SyncAssumption, IInv, NEW t \in Tasks, Hydrate(t)
    PROVE  Followed' /\ Bounded' /\ Behind' /\ AllFine'
<1> DEFINE k == task[t]
<1>1. /\ k.pc = "hydrate" /\ Write(k.ans)
      /\ task' = [task EXCEPT ![t] = Adding(k.script, k.watch, k.from, TRUE)]
      /\ UNCHANGED <<at, now, rows, cursor, phase, reg, hydrated>>
  BY DEF Hydrate, env
<1>2. /\ task'[t] = Adding(k.script, k.watch, k.from, TRUE)
      /\ \A u \in Tasks : u # t => task'[u] = task[u]
  BY <1>1 DEF IInv, Typed, Calling
<1>3. k.ans \in Answers
  BY <1>1, BusyCall DEF IInv, Typed, Calls, AddCalls
<1>4. \A c \in Coins : (held[c] > 0 => held'[c] > 0) /\ (k.ans[c] > 0 => held'[c] > 0)
  BY <1>1, <1>3, WriteFacts DEF IInv, Write
<1>5. Keeps
  BY <1>1, <1>4 DEF Keeps
<1>6. Bounded' /\ Behind'
  BY <1>1, <1>5, BehindSame DEF IInv
<1>7. Followed'
  <2>1. k # Idle
    BY <1>1 DEF Idle
  <2> QED
    BY <1>1, <1>2, <2>1 DEF IInv, Followed, Adding
<1>8. \A c \in Coins : Fine(task[t], c)'
  <2> SUFFICES ASSUME NEW c \in Coins PROVE Fine(task[t], c)'
    OBVIOUS
  <2>1. Version(c) > 0 /\ ScriptOf[c] = k.script => k.ans[c] > 0 \/ Late(c, k.from)
    BY <1>1 DEF IInv, AllFine, Fine
  <2>2. Version(c)' = Version(c) /\ at'[c] = at[c]
    BY <1>1, SameVersion
  <2>3. /\ task'[t].pc = "add" /\ task'[t].script = k.script /\ task'[t].from = k.from
    BY <1>2 DEF Adding
  <2> HIDE DEF k
  <2> QED
    BY <1>4, <2>1, <2>2, <2>3 DEF Fine, Late
<1>9. AllFine'
  BY <1>2, <1>5, <1>8, FineStep DEF IInv
<1> QED
  BY <1>6, <1>7, <1>9

\* The cursor moves up to when the sync was asked for, and what lies before the window
\* it leaves was in the answer or is there.
LEMMA SaveBehind ==
    ASSUME SyncAssumption, IInv, NEW t \in Tasks, Save(t)
    PROVE  Followed' /\ Bounded' /\ Behind' /\ AllFine'
<1> DEFINE k == task[t]
           done == Demoted(k, held')
<1>1. /\ k.pc = "save" /\ Write(k.ans) /\ task' = [task EXCEPT ![t] = Rest(k)]
      /\ cursor' = IF MovesCursor(k.kind) THEN Advance(cursor, k.from) ELSE cursor
      /\ rows' = [s \in Scripts |-> IF s \in done THEN "retained" ELSE rows[s]]
      /\ reg' = [s \in Scripts |-> IF s \in done THEN "retained" ELSE reg[s]]
      /\ hydrated' = hydrated \ done
      /\ UNCHANGED <<at, now, phase>>
  BY DEF Save, env
<1> HIDE DEF done
<1>2. /\ task'[t].pc \notin {"save", "hydrate", "add"}
      /\ \A u \in Tasks : u # t => task'[u] = task[u]
  <2>1. Rest(k).pc \notin {"save", "hydrate", "add"}
    BY DEF Rest, Idle
  <2> QED
    BY <1>1, <2>1 DEF IInv, Typed, Calling
<1>3. k.ans \in Answers
  BY <1>1, BusyCall DEF IInv, Typed, Calls, AddCalls
<1>4. \A c \in Coins : (held[c] > 0 => held'[c] > 0) /\ (k.ans[c] > 0 => held'[c] > 0)
  BY <1>1, <1>3, WriteFacts DEF IInv, Write
<1>5. Keeps
  BY <1>1, <1>4 DEF Keeps
<1>6. k.from \in Nat /\ k.from <= now
  BY <1>1, CallTimes DEF IInv
<1>7. Bounded'
  BY <1>1, <1>6, Times1 DEF IInv, Bounded, Advance, Cutoff
<1>8. Followed'
  <2>1. hydrated \subseteq Scripts
    BY DEF IInv, Typed, Plain
  <2>2. \A s \in hydrated' : /\ s \in hydrated /\ rows'[s] = rows[s] /\ reg'[s] = reg[s]
    BY <1>1, <2>1
  <2>3. \A u \in Tasks : task'[u].pc \in {"hydrate", "add"} =>
          u # t /\ task'[u] = task[u] /\ task[u].script \in Scripts
    BY <1>2, BusyCall DEF IInv, Typed, Calls, AddCalls
  <2>4. \A s \in Scripts : rows[s] # "none" => rows'[s] # "none"
    BY <1>1
  <2>5. k # Idle
    BY <1>1 DEF Idle
  <2> QED
    BY <1>1, <1>2, <2>2, <2>3, <2>4, <2>5 DEF IInv, Followed
<1>9. Behind'
  <2> SUFFICES ASSUME NEW c \in Coins, ScriptOf[c] \in hydrated', held'[c] = 0, Version(c) > 0
               PROVE  at[c][1] >= Window(cursor')
    BY <1>1, SameVersion DEF Behind
  <2>1. ScriptOf[c] \in hydrated /\ held[c] = 0 /\ ~(k.ans[c] > 0)
    BY <1>4, Times1, <1>5 DEF IInv, Versions, Keeps
  <2>2. at[c][1] >= Window(cursor)
    BY <2>1 DEF IInv, Behind
  <2>3. CASE cursor' = cursor
    BY <2>2, <2>3
  <2>4. CASE cursor' # cursor
    <3>1. MovesCursor(k.kind) /\ cursor' = Cutoff(k.from)
      BY <1>1, <2>4 DEF Advance
    <3>2. ~(at[c][1] < Window(Cutoff(k.from)))
      BY <1>1, <2>1, <3>1 DEF IInv, AllFine, Fine
    <3>3. Window(Cutoff(k.from)) \in Nat /\ at[c][1] \in Nat
      BY <1>6, CutoffType, WindowType, Times1 DEF IInv
    <3> QED
      BY <3>1, <3>2, <3>3
  <2> QED
    BY <2>3, <2>4
<1>10. AllFine'
  BY <1>2, <1>5, FineSame DEF IInv
<1> QED
  BY <1>7, <1>8, <1>9, <1>10

\* The steps of a sync after its rows are saved, and of the pass.
LEMMA RestBehind ==
    ASSUME SyncAssumption, IInv, NEW t \in Tasks,
           Pending(t) \/ Frontier(t) \/ Prune(t) \/ Expiring(t) \/ Outpoints(t)
    PROVE  Followed' /\ Bounded' /\ Behind' /\ AllFine'
<1> DEFINE k == task[t]
<1>1. /\ UNCHANGED <<at, now, rows, cursor, reg, hydrated>>
      /\ k.pc \in {"pending", "frontier", "prune", "expiring", "outpoints"}
      /\ held' = held \/ (/\ k.pc \in {"frontier", "outpoints"}
                          /\ held' = [c \in Coins |-> IF k.ans[c] > 0 THEN k.ans[c] ELSE held[c]])
      /\ phase' = phase \/ phase' = "up"
  BY DEF Pending, Frontier, Prune, Expiring, Outpoints, EndSync, Write, env, repo
<1>2. \A u \in Tasks : u # t => task'[u] = task[u]
  BY DEF Pending, Frontier, Prune, Expiring, Outpoints, EndSync, IInv, Typed, Calling
<1>3. task'[t].pc \notin {"save", "hydrate", "add"}
  <2>1. ASSUME NEW r, r.pc \notin {"save", "hydrate", "add"}, task' = [task EXCEPT ![t] = r]
        PROVE  task'[t].pc \notin {"save", "hydrate", "add"}
    BY <2>1 DEF IInv, Typed, Calling
  <2>2. CASE Pending(t)
    BY <2>1, <2>2 DEF Pending, EndSync, Idle
  <2>3. CASE Frontier(t) \/ Prune(t) \/ Outpoints(t)
    BY <2>1, <2>3 DEF Frontier, Prune, Outpoints, EndSync, Idle
  <2>4. CASE Expiring(t)
    BY <2>1, <2>4 DEF Expiring, Idle
  <2> QED
    BY <2>2, <2>3, <2>4
<1>4. phase # "down"
  BY <1>1 DEF IInv, Followed, Idle
<1>5. \A c \in Coins : held[c] > 0 => held'[c] > 0
  <2>1. k.pc \in {"frontier", "outpoints"} => k.ans \in Answers
    BY BusyCall DEF IInv, Typed, Calls, AddCalls
  <2> QED
    BY <1>1, <2>1, WriteFacts DEF IInv
<1>6. Keeps
  BY <1>1, <1>5 DEF Keeps
<1> QED
  BY <1>1, <1>2, <1>3, <1>4, <1>6, QuietBehind

\* The contract enters the watcher; if its history came it is fetched in full, with all
\* that was there when its request began, and what came since is in every window.
LEMMA AddBehind ==
    ASSUME SyncAssumption, IInv, NEW t \in Tasks, Add(t)
    PROVE  Followed' /\ Bounded' /\ Behind' /\ AllFine'
<1> DEFINE k == task[t]
<1>1. /\ k.pc = "add" /\ reg' = [reg EXCEPT ![k.script] = k.watch]
      /\ hydrated' = IF k.ok /\ rows[k.script] # "retained"
                     THEN hydrated \cup {k.script} ELSE hydrated
      /\ task' = [task EXCEPT ![t] = Idle]
      /\ UNCHANGED <<at, now, held, cursor, rows, phase>>
  BY DEF Add, env, repo
<1>2. /\ k \in AddCalls /\ k.from <= now /\ now - k.from <= MaxFlight
      /\ k.from \in Nat /\ k.script \in Scripts /\ k.watch \in {"watched", "awaiting"}
  BY <1>1, BusyCall DEF IInv, Typed, Calls, AddCalls
<1>3. task'[t] = Idle /\ \A u \in Tasks : u # t => task'[u] = task[u]
  BY <1>1 DEF IInv, Typed, Calling
<1>4. Followed'
  <2>1. \A s \in Scripts : reg'[s] = IF s = k.script THEN k.watch ELSE reg[s]
    BY <1>1 DEF IInv, Typed, Plain
  <2>2. rows[k.script] # "none" /\ k # Idle
    BY <1>1 DEF IInv, Followed, Idle
  <2>3. rows[k.script] \in WatchStates /\ hydrated \subseteq Scripts
    BY <1>2 DEF IInv, Typed, Plain
  <2>4. \A s \in hydrated' :
            /\ rows[s] \in {"watched", "awaiting"}
            /\ phase # "down" => reg'[s] \in {"watched", "awaiting"}
    BY <1>1, <1>2, <2>1, <2>2, <2>3 DEF IInv, Followed, WatchStates
  <2> QED
    BY <1>1, <1>3, <2>4 DEF IInv, Followed, Idle
<1>5. \A c \in Coins :
        ScriptOf[c] \in hydrated' /\ ScriptOf[c] \notin hydrated /\ Version(c) > 0
        => held[c] > 0 \/ Late(c, k.from)
  BY <1>1 DEF IInv, AllFine, Fine
<1>6. \A c \in Coins, g \in Nat :
        Late(c, k.from) /\ g <= now => at[c][1] >= Window(Cutoff(g))
  <2> SUFFICES ASSUME NEW c \in Coins, NEW g \in Nat, Late(c, k.from), g <= now
               PROVE  at[c][1] >= Window(Cutoff(g))
    OBVIOUS
  <2>1. g - k.from <= MaxFlight /\ at[c][1] \in Nat
    BY <1>2, Times1 DEF IInv
  <2> QED
    BY <1>2, <2>1, LateInWindow DEF Late
<1>7. Bounded'
  BY <1>1 DEF IInv, Bounded
<1>8. Behind'
  <2> SUFFICES ASSUME NEW c \in Coins, ScriptOf[c] \in hydrated', held[c] = 0, Version(c) > 0
               PROVE  at[c][1] >= Window(cursor)
    BY <1>1, SameVersion DEF Behind
  <2>1. CASE ScriptOf[c] \in hydrated
    BY <2>1 DEF IInv, Behind
  <2>2. CASE ScriptOf[c] \notin hydrated
    <3>1. Late(c, k.from)
      BY <1>5, <2>2
    <3>2. now \in Nat /\ at[c][1] >= Window(Cutoff(now)) /\ at[c][1] \in Nat
      BY <1>6, <3>1, Times1 DEF IInv
    <3>3. Window(cursor) <= Window(Cutoff(now)) /\ Window(cursor) \in Nat
            /\ Window(Cutoff(now)) \in Nat
      BY <3>2, CutoffType, WindowMonotone, Times1 DEF IInv, Bounded
    <3> QED
      BY <3>2, <3>3
  <2> QED
    BY <2>1, <2>2
<1>9. AllFine'
  <2> SUFFICES ASSUME NEW u \in Tasks, NEW c \in Coins PROVE Fine(task[u], c)'
    BY DEF AllFine
  <2>1. CASE u = t
    BY <1>3, <2>1 DEF Fine, Idle
  <2>2. CASE u # t
    <3>1. Fine(task[u], c) /\ task'[u] = task[u]
      BY <1>3, <2>2 DEF IInv, AllFine
    <3>2. Version(c)' = Version(c) /\ at'[c] = at[c] /\ held'[c] = held[c]
      BY <1>1, SameVersion
    <3>3. CASE ScriptOf[c] \in hydrated' => ScriptOf[c] \in hydrated
      BY <3>1, <3>2, <3>3 DEF Fine, Late
    <3>4. CASE ScriptOf[c] \in hydrated' /\ ScriptOf[c] \notin hydrated
      <4>1. task[u].pc = "save" => task[u].from \in Nat /\ task[u].from <= now
        BY CallTimes DEF IInv
      <4>2. Version(c) > 0 /\ task[u].pc = "save"
            => held[c] > 0 \/ at[c][1] >= Window(Cutoff(task[u].from))
        BY <1>5, <1>6, <3>4, <4>1
      <4>3. task[u].pc = "save" => Window(Cutoff(task[u].from)) \in Nat /\ at[c][1] \in Nat
        BY <4>1, CutoffType, WindowType, Times1 DEF IInv
      <4> HIDE DEF k
      <4> QED
        BY <3>1, <3>2, <4>2, <4>3 DEF Fine, Late
    <3> QED
      BY <3>3, <3>4
  <2> QED
    BY <2>1, <2>2
<1> QED
  BY <1>4, <1>7, <1>8, <1>9

\* The syncs the caller asks for: a refresh asks for all that is watched, and so for
\* every contract that was fetched.
LEMMA ReadBehind ==
    ASSUME SyncAssumption, IInv, NEW t \in Tasks, Read(t) \/ Refresh(t)
    PROVE  Followed' /\ Bounded' /\ Behind' /\ AllFine'
<1>1. /\ UNCHANGED <<at, now, held, cursor, rows, reg, phase, hydrated>>
      /\ phase # "down"
  BY DEF Read, Refresh, env, repo
<1>2. CASE Read(t)
  <2>1. PICK scope \in SUBSET {s \in Scripts : rows[s] # "none"} :
           Call(t, "event", scope, Window(cursor), {})
    BY <1>2 DEF Read
  <2> QED
    BY <1>1, <2>1, SyncBehind DEF MovesCursor
<1>3. CASE Refresh(t)
  <2>1. Call(t, "refresh", Watched, Window(cursor), {}) /\ phase = "up"
    BY <1>3 DEF Refresh
  <2>2. \A s \in hydrated : s \in Watched
    BY <2>1 DEF Watched, IInv, Followed, Typed, Plain
  <2> QED
    BY <1>1, <2>1, <2>2, SyncBehind
<1> QED
  BY <1>2, <1>3

LEMMA PassReadBehind ==
    ASSUME SyncAssumption, IInv, NEW t \in Tasks, PassRead(t)
    PROVE  Followed' /\ Bounded' /\ Behind' /\ AllFine'
<1>1. /\ UNCHANGED <<at, now, held, cursor, rows, reg, phase, hydrated>>
      /\ phase # "down"
  BY DEF PassRead, env, repo
<1>2. CASE Call(t, "pass", {s \in Scripts : rows[s] # "none"}, Window(cursor), {})
  BY <1>1, <1>2, SyncBehind DEF MovesCursor
<1>3. CASE task' = [task EXCEPT ![t] = [pc |-> "expiring", from |-> now]]
  <2>1. Keeps
    BY <1>1 DEF Keeps
  <2>2. /\ task'[t].pc \notin {"save", "hydrate", "add"}
        /\ \A u \in Tasks : u # t => task'[u] = task[u]
    BY <1>3 DEF IInv, Typed, Calling
  <2> QED
    BY <1>1, <2>1, <2>2, QuietBehind
<1> QED
  BY <1>2, <1>3 DEF PassRead

LEMMA HandleBehind ==
    ASSUME SyncAssumption, IInv, NEW t \in Tasks, NEW s, NEW gone, Handle(t, s, gone),
           UNCHANGED <<at, now, held, cursor, rows, reg, phase, hydrated>>, phase = "up"
    PROVE  Followed' /\ Bounded' /\ Behind' /\ AllFine'
<1>1. CASE Call(t, "event", {s}, Window(cursor), gone)
  BY <1>1, SyncBehind DEF MovesCursor
<1>2. CASE UNCHANGED task
  BY <1>2, QuietBehind DEF Keeps
<1> QED
  BY <1>1, <1>2 DEF Handle

LEMMA PollBehind ==
    ASSUME SyncAssumption, IInv, NEW t \in Tasks, NEW s \in Scripts, Poll(t, s)
    PROVE  Followed' /\ Bounded' /\ Behind' /\ AllFine'
BY HandleBehind DEF Poll, env, repo

LEMMA HearBehind ==
    ASSUME SyncAssumption, IInv, NEW t \in Tasks, Hear(t)
    PROVE  Followed' /\ Bounded' /\ Behind' /\ AllFine'
<1>1. /\ UNCHANGED <<at, now, held, cursor, rows, reg, phase, hydrated>>
      /\ phase = "up"
  BY DEF Hear, env, repo
<1>2. CASE UNCHANGED task
  BY <1>1, <1>2, QuietBehind DEF Keeps
<1>3. ASSUME NEW s, NEW gone, Handle(t, s, gone)
      PROVE  Followed' /\ Bounded' /\ Behind' /\ AllFine'
  BY <1>1, <1>3, HandleBehind
<1> QED
  BY <1>2, <1>3 DEF Hear

\* What the owner stops watching has to be fetched again; what is watched in
\* another way stays so.
LEMMA SetWatchBehind ==
    ASSUME SyncAssumption, IInv, NEW s \in Scripts, NEW w \in WatchStates \ {"none"},
           SetWatch(s, w)
    PROVE  Followed' /\ Bounded' /\ Behind' /\ AllFine'
<1>1. /\ rows' = [rows EXCEPT ![s] = w] /\ reg' = [reg EXCEPT ![s] = w]
      /\ hydrated' = IF w = "retained" THEN hydrated \ {s} ELSE hydrated
      /\ UNCHANGED <<at, now, held, cursor, phase, task>>
  BY DEF SetWatch, env
<1>2. Keeps
  BY <1>1 DEF Keeps
<1>3. Bounded' /\ Behind' /\ AllFine'
  BY <1>1, <1>2, BehindSame, FineSame DEF IInv
<1>4. Followed'
  <2>1. \A r \in Scripts : /\ rows'[r] = IF r = s THEN w ELSE rows[r]
                           /\ reg'[r] = IF r = s THEN w ELSE reg[r]
    BY <1>1 DEF IInv, Typed, Plain
  <2>2. hydrated \subseteq Scripts
    BY DEF IInv, Typed, Plain
  <2>3. \A u \in Tasks : task[u].pc \in {"hydrate", "add"} => task[u].script \in Scripts
    BY BusyCall DEF IInv, Typed, Calls, AddCalls
  <2> QED
    BY <1>1, <2>1, <2>2, <2>3 DEF IInv, Followed, WatchStates
<1> QED
  BY <1>3, <1>4

LEMMA ConnectionBehind ==
    ASSUME SyncAssumption, IInv, Open \/ End \/ Reconnect
    PROVE  Followed' /\ Bounded' /\ Behind' /\ AllFine'
<1>1. UNCHANGED <<at, now, held, cursor, rows, reg, phase, hydrated, task>>
  BY DEF Open, End, Reconnect, env, repo
<1>2. Keeps /\ Followed'
  BY <1>1, FollowedSame DEF IInv, Keeps
<1> QED
  BY <1>1, <1>2, BehindSame, FineSame DEF IInv

\* A stream that breaks has the manager ask for all that is watched.
LEMMA LoseBehind ==
    ASSUME SyncAssumption, IInv, NEW t \in Tasks, Lose(t)
    PROVE  Followed' /\ Bounded' /\ Behind' /\ AllFine'
<1>1. /\ UNCHANGED <<at, now, held, cursor, rows, reg, phase, hydrated>>
      /\ phase = "up" /\ Call(t, "reset", Watched, Window(cursor), {})
  BY DEF Lose, env, repo
<1>2. \A s \in hydrated : s \in Watched
  BY <1>1 DEF Watched, IInv, Followed, Typed, Plain
<1> QED
  BY <1>1, <1>2, SyncBehind

\* The process starts with the contracts that are watched, all of them.
LEMMA BootBehind ==
    ASSUME SyncAssumption, IInv, NEW t \in Tasks, Boot(t)
    PROVE  Followed' /\ Bounded' /\ Behind' /\ AllFine'
<1>1. /\ UNCHANGED <<at, now, held, cursor, rows, hydrated>> /\ reg' = rows
      /\ phase = "down" /\ phase' \in {"boot", "up"}
  BY DEF Boot, env, repo
<1>2. \A s \in hydrated : s \in WatchedIn(rows)
  BY DEF WatchedIn, IInv, Followed, Typed, Plain
<1>3. Keeps
  BY <1>1 DEF Keeps
<1>4. Bounded' /\ Behind'
  BY <1>1, <1>3, BehindSame DEF IInv
<1>5. CASE Call(t, "boot", WatchedIn(rows), Window(cursor), {})
  <2>1. /\ task'[t].pc = "save" /\ \A u \in Tasks : u # t => task'[u] = task[u]
        /\ AllFine'
    BY <1>1, <1>2, <1>3, <1>5, CallFine DEF IInv
  <2>2. Followed'
    BY <1>1, <2>1 DEF IInv, Followed
  <2> QED
    BY <1>4, <2>1, <2>2
<1>6. CASE UNCHANGED task
  <2>1. Followed'
    BY <1>1, <1>6 DEF IInv, Followed
  <2> QED
    BY <1>3, <1>4, <1>6, <2>1, FineSame DEF IInv
<1> QED
  BY <1>5, <1>6 DEF Boot

LEMMA CrashBehind ==
    ASSUME SyncAssumption, IInv, Crash
    PROVE  Followed' /\ Bounded' /\ Behind' /\ AllFine'
<1>1. /\ UNCHANGED <<at, now, held, cursor, rows, hydrated>> /\ phase' = "down"
      /\ \A t \in Tasks : task'[t] = Idle
  BY DEF Crash, env, repo
<1>2. Followed'
  BY <1>1 DEF IInv, Followed, Idle
<1>3. Keeps
  BY <1>1 DEF Keeps
<1>4. Bounded' /\ Behind'
  BY <1>1, <1>3, BehindSame DEF IInv
<1>5. AllFine'
  <2>1. Idle.pc \notin {"save", "hydrate", "add"}
    BY DEF Idle
  <2>2. \A t \in Tasks : task'[t].pc \notin {"save", "hydrate", "add"}
    BY <1>1, <2>1
  <2> QED
    BY <1>3, <2>2, FineSame DEF IInv
<1> QED
  BY <1>2, <1>4, <1>5

LEMMA IInvStep ==
    ASSUME SyncAssumption, IInv, [Next]_vars
    PROVE  IInv'
<1> SUFFICES Followed' /\ Bounded' /\ Behind' /\ AllFine'
  BY TypedStep DEF IInv
<1>1. ASSUME NEW c \in Coins, Change(c) PROVE Followed' /\ Bounded' /\ Behind' /\ AllFine'
  BY <1>1, ChangeBehind
<1>2. CASE Tick
  BY <1>2, TickBehind
<1>3. ASSUME NEW t \in Tasks, NEW s \in Scripts, CreateContract(t, s) \/ Poll(t, s)
      PROVE  Followed' /\ Bounded' /\ Behind' /\ AllFine'
  BY <1>3, CreateBehind, PollBehind
<1>4. ASSUME NEW t \in Tasks, Step(t) PROVE Followed' /\ Bounded' /\ Behind' /\ AllFine'
  BY <1>4, HydrateBehind, SaveBehind, RestBehind, AddBehind DEF Step
<1>5. ASSUME NEW t \in Tasks,
             Read(t) \/ Refresh(t) \/ Hear(t) \/ Lose(t) \/ Boot(t) \/ PassRead(t)
      PROVE  Followed' /\ Bounded' /\ Behind' /\ AllFine'
  BY <1>5, ReadBehind, HearBehind, LoseBehind, BootBehind, PassReadBehind
<1>6. ASSUME NEW s \in Scripts, NEW w \in WatchStates \ {"none"}, SetWatch(s, w)
      PROVE  Followed' /\ Bounded' /\ Behind' /\ AllFine'
  BY <1>6, SetWatchBehind
<1>7. CASE Open \/ End \/ Reconnect \/ Crash
  BY <1>7, ConnectionBehind, CrashBehind
<1>8. CASE UNCHANGED vars
  <2>1. UNCHANGED <<at, now, held, cursor, rows, reg, phase, hydrated, task>>
    BY <1>8 DEF vars, env, repo
  <2>2. Keeps /\ Followed'
    BY <2>1, FollowedSame DEF IInv, Keeps
  <2> QED
    BY <2>1, <2>2, BehindSame, FineSame DEF IInv
<1> QED
  BY <1>1, <1>2, <1>3, <1>4, <1>5, <1>6, <1>7, <1>8 DEF Next

LEMMA IInvInit ==
    ASSUME SyncAssumption, Init
    PROVE  IInv
<1>1. Typed
  BY TypedInit
<1>2. \A c \in Coins : Version(c) = 0
  BY DEF Init, Version
<1>3. Followed /\ Bounded /\ Behind /\ AllFine
  BY <1>2 DEF Init, Followed, Bounded, Behind, AllFine, Fine, Idle, Cutoff, SyncAssumption
<1> QED
  BY <1>1, <1>3 DEF IInv

\* A coin that is created, whose watched contract was fetched in full and which the
\* repository nevertheless lacks never falls before the next sync's window, whatever
\* calls answer late and save in whatever order: the overlap of computeSyncWindow and
\* the cutoff of cursorCutoff are enough as long as a contract is added within the
\* overlap, and the cursor moves only with the syncs mustUpdateCursor names.  A row, once
\* there, stays; what it says of an older coin is another matter (AllCurrent).
THEOREM NothingFallsBehind == Spec => []InWindow
<1>1. SyncAssumption
  BY SyncAssumption
<1>2. Init => IInv
  BY <1>1, IInvInit
<1>3. IInv /\ [Next]_vars => IInv'
  BY <1>1, IInvStep
<1>4. IInv => InWindow
  BY DEF IInv, Behind, InWindow
<1> QED
  BY <1>2, <1>3, <1>4, PTL DEF Spec
=============================================================================

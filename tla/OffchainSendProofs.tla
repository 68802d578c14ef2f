-------------------------- MODULE OffchainSendProofs --------------------------
(* Theorems about OffchainSend, for every set of coins and of calls and any  *)
(* number of faults, and, in the second half, about VtxoManager.             *)
EXTENDS OffchainSend, RenewalFlag, TLAPS

-----------------------------------------------------------------------------
(* The inductive invariant.                                                  *)

Early == {"idle", "waiting", "select", "held", "marked"}
InFlight == {"held", "marked", "registered", "finalized", "cleared"}
Inside(o) == pc[o] = "select" \/ pc[o] \in InFlight

\* The lock is held by the one call that is past it, and hides its inputs.
Locked ==
    /\ \A o \in Ops : Inside(o) => Holds(o)
    /\ \A o \in Ops : pc[o] \in InFlight => coins[o] \subseteq hidden
    /\ \A c \in hidden : \E o \in Ops : pc[o] \in InFlight /\ c \in coins[o]

\* What the server has of a call, by where the call is.
Known ==
    /\ \A o \in Ops : pc[o] \in Early => server[o] = "none"
    /\ \A o \in Ops : pc[o] \in {"finalized", "cleared", "done"} => server[o] = "finalized"
    /\ \A o \in Ops : pc[o] = "registered" => server[o] # "none"
    /\ \A o \in Ops : server[o] # "none" \/ pc[o] \in {"held", "marked"} => coins[o] # {}
    /\ \A o \in rec.left : server[o] # "none"

\* The rows: none says spent of what can be spent, and without lag those of a spend that
\* succeeded do.
Rows ==
    /\ recorded \subseteq Spent
    /\ "lag" \notin faults => \A p \in Ops : pc[p] = "done" => coins[p] \subseteq recorded

\* A loser of the contest for a coin is a spend that failed or died.
Lost(o, p) ==
    /\ pc[p] \in {"failed", "dead"}
    /\ "fail" \in faults \/ coins[o] \cap coins[p] \cap Young = {}

\* A generic selection under way competes with nothing else.
Selecting == {"select", "held", "marked"}
Clean ==
    "lag" \notin faults =>
        \A o \in Ops \ Named, p \in Ops :
            pc[o] \in Selecting /\ server[p] # "none" /\ coins[p] \cap coins[o] # {} => Lost(o, p)

\* Neither did those the server refused.
Past ==
    "lag" \notin faults =>
        \A o \in Ops \ Named, p \in Ops : <<o, p>> \in refused => pc[o] \in Ended /\ Lost(o, p)

\* While the process is down, or recovers, no call is under way.
Quiet ==
    /\ rec.pc = "off" => rec = Idle
    /\ ~up => rec.pc = "off"
    /\ "eager" \notin faults /\ (~up \/ rec.pc # "off")
         => \A o \in Ops : pc[o] = "idle" \/ pc[o] \in Ended

\* Recovery sees every preconfirmed output, and finds what has one; with crashes only
\* it sees the spent young outputs too, and does not give up a spend it has seen.
Finds ==
    /\ rec.pc \in {"flag", "ask", "finish"} => Preconfirmed \subseteq rec.seen
    /\ rec.pc = "finish" /\ "eager" \notin faults =>
         \A o \in Ops : server[o] = "registered" /\ coins[o] \cap Preconfirmed # {}
                         => o \in rec.pending
    /\ rec.pc \in {"flag", "ask", "finish"} /\ faults \subseteq {"crash"} =>
         Spent \cap Young \subseteq rec.seen
    /\ rec.pc = "finish" /\ faults \subseteq {"crash"} =>
         \A o \in Ops : server[o] = "registered" /\ Visible(o) => o \in rec.left

\* A pending transaction is marked; when its call is over a start will look.
Flagged ==
    faults \subseteq {"crash"} =>
        /\ \A o \in Ops : (server[o] = "registered" /\ Visible(o)) \/ pc[o] = "marked" => flag
        /\ \A o \in Ops : pc[o] \in Ended /\ server[o] = "registered" /\ Visible(o)
                           => ~up \/ rec.pc # "off"

IInv == TypeOK /\ Locked /\ Known /\ Rows /\ Clean /\ Past /\ Quiet /\ Finds /\ Flagged

-----------------------------------------------------------------------------
(* The spent outputs.                                                        *)

LEMMA SpentMember ==
    \A c : c \in Spent <=> \E p \in Ops : server[p] # "none" /\ c \in coins[p]
BY DEF Spent

LEMMA SpentMemberNext ==
    \A c : c \in Spent' <=> \E p \in Ops : server'[p] # "none" /\ c \in coins'[p]
BY DEF Spent

LEMMA SameSpent ==
    ASSUME \A p \in Ops : server'[p] # "none" <=> server[p] # "none",
           \A p \in Ops : server[p] # "none" => coins'[p] = coins[p]
    PROVE  Spent' = Spent
BY SpentMember, SpentMemberNext

LEMMA MoreSpent ==
    ASSUME NEW o \in Ops, server \in [Ops -> {"none", "registered", "finalized"}],
           server' = [server EXCEPT ![o] = "registered"], coins' = coins
    PROVE  Spent' = Spent \cup coins[o]
BY SpentMember, SpentMemberNext

\* Only one call is past the lock.
LEMMA Alone ==
    ASSUME Locked, NEW o \in Ops, NEW p \in Ops, Inside(o), Inside(p)
    PROVE  o = p
BY DEF Locked, Holds

LEMMA InLock ==
    ASSUME Locked, NEW o \in Ops, Inside(o)
    PROVE  Holds(o) /\ \A p \in Ops \ {o} : ~Inside(p)
BY Alone DEF Locked

LEMMA LeaveType ==
    ASSUME TypeOK, NEW o \in Ops, Holds(o), NEW p \in Ended, Leave(o, p)
    PROVE  /\ pc' = [pc EXCEPT ![o] = p] /\ queue' \in Seq(Ops)
           /\ hidden' \in SUBSET Coins /\ coins' = coins
BY DEF TypeOK, Leave, Go, Holds

\* A call that leaves takes its inputs back, and no other is past the lock.
LEMMA LeaveLocked ==
    ASSUME TypeOK, Locked, NEW o \in Ops, Inside(o), NEW p \in Ended, Leave(o, p)
    PROVE  Locked'
<1>1. \A q \in Ops : q # o => ~Inside(q) /\ pc'[q] = pc[q]
  BY InLock DEF Leave, Go, TypeOK
<1>2. pc'[o] = p
  BY DEF Leave, Go, TypeOK
<1>3. \A q \in Ops : ~Inside(q)'
  BY <1>1, <1>2 DEF Inside, InFlight, Ended
<1>4. hidden' = {}
  <2>1. \A c \in hidden : c \in coins[o]
    BY <1>1 DEF Locked, Inside
  <2> QED
    BY <2>1 DEF Leave
<1> QED
  BY <1>3, <1>4 DEF Locked, Inside

-----------------------------------------------------------------------------
(* A spend.                                                                  *)

\* A call that is over stays as it is.
Stays == \A q \in Ops : pc[q] \in Ended => pc'[q] = pc[q] /\ coins'[q] = coins[q]

LEMMA SpentIsCoins == TypeOK => Spent \subseteq Coins
BY DEF TypeOK, Spent

LEMMA RowsStay ==
    ASSUME Rows, Stays, Spent \subseteq Spent', UNCHANGED <<faults, recorded>>,
           \A p \in Ops : pc'[p] = "done" => pc[p] = "done"
    PROVE  Rows'
BY DEF Rows, Stays, Ended

\* A sync takes nothing back that the server has, unless the indexer lags.
LEMMA SyncRows ==
    ASSUME TypeOK, Known, Rows, Stays, Spent' = Spent, UNCHANGED faults,
           Sync \/ UNCHANGED recorded, \A p \in Ops : pc'[p] = "done" => pc[p] = "done"
    PROVE  Rows' /\ recorded' \in SUBSET Coins
<1>1. recorded' \subseteq Spent
  BY DEF Sync, Rows
<1>2. ASSUME "lag" \notin faults, NEW p \in Ops, pc'[p] = "done" PROVE coins'[p] \subseteq recorded'
  <2>1. pc[p] = "done" /\ coins'[p] = coins[p] /\ coins[p] \subseteq recorded
    BY <1>2 DEF Rows, Stays, Ended
  <2>2. recorded \subseteq recorded'
    BY <1>2 DEF Sync, Rows
  <2> QED
    BY <2>1, <2>2
<1> QED
  BY <1>1, <1>2, SpentIsCoins DEF Rows

LEMMA CleanStays ==
    ASSUME Clean, Stays, UNCHANGED faults,
           \A p \in Ops : server'[p] # "none" <=> server[p] # "none",
           \A p \in Ops : server[p] # "none" => coins'[p] = coins[p],
           \A o \in Ops : pc'[o] \in Selecting => pc[o] \in Selecting /\ coins'[o] \subseteq coins[o]
    PROVE  Clean'
<1>1. ASSUME "lag" \notin faults, NEW o \in Ops \ Named, NEW p \in Ops, pc'[o] \in Selecting,
             server'[p] # "none", coins'[p] \cap coins'[o] # {}
      PROVE  Lost(o, p)'
  <2>1. Lost(o, p)
    BY <1>1 DEF Clean
  <2>2. coins'[o] \subseteq coins[o] /\ pc'[p] = pc[p] /\ coins'[p] = coins[p]
    BY <1>1, <2>1 DEF Lost, Stays, Ended
  <2> QED
    BY <2>1, <2>2 DEF Lost
<1> QED
  BY <1>1 DEF Clean

LEMMA PastStays ==
    ASSUME Past, Stays, UNCHANGED <<faults, refused>>
    PROVE  Past'
BY DEF Past, Stays, Lost, Ended

LEMMA CallStep ==
    ASSUME SendAssumption, IInv, NEW o \in Ops, Call(o)
    PROVE  IInv'
<1> USE DEF IInv
<1>a. pc[o] = "idle"
  BY DEF Call, At
<1>c. Spent' = Spent
  BY <1>a, SameSpent DEF Call, Known, TypeOK, Early
<1>e. Stays
  BY <1>a DEF Call, Stays, TypeOK, At, Go, Ended
<1>1. TypeOK'
  <2>1. budget' \in Nat
    BY DEF Call, Sync, Fault, NoFault, TypeOK
  <2>2. recorded' \in SUBSET Coins
    BY <1>a, <1>c, <1>e, SyncRows DEF Call, TypeOK, At, Go
  <2>3. coins' \in [Ops -> SUBSET Coins]
    BY DEF Call, Snapshot, TypeOK
  <2>4. queue' \in Seq(Ops)
    BY DEF Call, TypeOK
  <2>5. pc' = [pc EXCEPT ![o] = "waiting"]
    BY DEF Call, Go
  <2>6. UNCHANGED <<faults, server, hidden, flag, up, rec, refused>>
    BY DEF Call
  <2> QED
    BY <2>1, <2>2, <2>3, <2>4, <2>5, <2>6 DEF TypeOK
<1>2. Locked'
  BY <1>a DEF Call, Locked, TypeOK, At, Go, Inside, InFlight, Early, Ended, Holds
<1>3. Known'
  BY <1>a DEF Call, Known, TypeOK, At, Go, Inside, InFlight, Early, Ended, Holds
<1>s. Sync \/ UNCHANGED recorded
  BY DEF Call
<1>4. Rows' /\ recorded' \in SUBSET Coins
  BY <1>a, <1>c, <1>e, <1>s, SyncRows DEF Call, TypeOK, At, Go
<1>8. Clean'
  BY <1>a, <1>e, CleanStays DEF Call, Selecting, Known, TypeOK, At, Go, Ended, Early
<1>9. Past'
  BY <1>e, PastStays DEF Call
<1>5. Quiet'
  BY <1>a DEF Call, Quiet, TypeOK, At, Go, Inside, InFlight, Early, Ended, Holds
<1>6. Finds'
  BY <1>a, <1>c DEF Call, Finds, Quiet, TypeOK, At, Go, Inside, InFlight, Early, Ended, Holds, Visible
<1>7. Flagged'
  BY <1>a DEF Call, Flagged, Quiet, Known, TypeOK, At, Go, Inside, InFlight, Early, Ended, Holds, Visible
<1> QED
  BY <1>1, <1>2, <1>3, <1>4, <1>5, <1>6, <1>7, <1>8, <1>9

LEMMA SelectStep ==
    ASSUME SendAssumption, IInv, NEW o \in Ops, Select(o)
    PROVE  IInv'
<1> USE DEF IInv
<1>a. pc[o] = "waiting"
  BY DEF Select, At
<1>c. Spent' = Spent
  BY <1>a, SameSpent DEF Select, Known, TypeOK, Early
<1>e. Stays
  BY <1>a DEF Select, Stays, TypeOK, At, Go, Ended
<1>4. Rows' /\ recorded' \in SUBSET Coins
  <2>1. Sync \/ UNCHANGED recorded
    BY DEF Select
  <2> QED
    BY <1>a, <1>c, <1>e, <2>1, SyncRows DEF Select, TypeOK, At, Go
<1>1. TypeOK'
  <2>1. budget' \in Nat
    BY DEF Select, Sync, Fault, NoFault, TypeOK
  <2>2. coins' \in [Ops -> SUBSET Coins]
    BY DEF Select, Snapshot, TypeOK
  <2> QED
    BY <1>4, <1>a, <2>1, <2>2 DEF Select, TypeOK, At, Go
<1>2. Locked'
  BY <1>a DEF Select, Locked, TypeOK, At, Go, Inside, InFlight, Early, Ended, Holds
<1>3. Known'
  BY <1>a DEF Select, Known, TypeOK, At, Go, Inside, InFlight, Early, Ended, Holds
<1>8. Clean'
  <2>1. ASSUME "lag" \notin faults, NEW g \in Ops \ Named, NEW p \in Ops, pc'[g] \in Selecting,
               server'[p] # "none", coins'[p] \cap coins'[g] # {}
        PROVE  Lost(g, p)'
    <3>1. server[p] # "none" /\ p # o /\ pc'[p] = pc[p] /\ coins'[p] = coins[p]
      BY <1>a, <2>1 DEF Select, Known, Early, TypeOK, Go
    <3>2. CASE g # o
      <4>1. pc[g] \in Selecting /\ coins'[g] = coins[g]
        BY <2>1, <3>2 DEF Select, TypeOK, Go
      <4> QED
        BY <2>1, <3>1, <4>1 DEF Select, Clean, Lost
    <3>3. CASE g = o
      <4>1. coins'[o] = Coins \ recorded' /\ Sync
        BY <2>1, <3>3 DEF Select, Snapshot, TypeOK
      <4>2. pc[p] \in Ended
        <5>1. Holds(o)
          BY DEF Select
        <5>2. ~Inside(p)
          BY <3>1, <5>1 DEF Locked, Holds
        <5> QED
          BY <3>1, <5>2 DEF Inside, InFlight, Known, Early, TypeOK
      <4>3. pc[p] # "done"
        BY <2>1, <3>1, <3>3, <4>1, <1>4 DEF Rows, Select
      <4>4. coins[p] \subseteq Spent
        BY <3>1, SpentMember
      <4>5. "fail" \in faults \/ coins'[o] \cap coins[p] \cap Young = {}
        BY <2>1, <4>1, <4>4 DEF Sync, Fault
      <4> QED
        BY <3>1, <3>3, <4>2, <4>3, <4>5 DEF Lost, Ended, Select
    <3> QED
      BY <3>2, <3>3
  <2> QED
    BY <2>1 DEF Clean, Select
<1>9. Past'
  BY <1>e, PastStays DEF Select
<1>5. Quiet'
  BY <1>a DEF Select, Quiet, TypeOK, At, Go, Inside, InFlight, Early, Ended, Holds
<1>6. Finds'
  BY <1>a, <1>c DEF Select, Finds, Quiet, TypeOK, At, Go, Inside, InFlight, Early, Ended, Holds, Visible
<1>7. Flagged'
  BY <1>a DEF Select, Flagged, Quiet, Known, TypeOK, At, Go, Inside, InFlight, Early, Ended, Holds, Visible
<1> QED
  BY <1>1, <1>2, <1>3, <1>4, <1>5, <1>6, <1>7, <1>8, <1>9

LEMMA HoldStep ==
    ASSUME SendAssumption, IInv, NEW o \in Ops, Hold(o)
    PROVE  IInv'
<1> USE DEF IInv
<1>a. pc[o] = "select"
  BY DEF Hold, At
<1>b. Holds(o) /\ \A p \in Ops \ {o} : ~Inside(p)
  BY <1>a, InLock DEF Inside, InFlight
<1>c. Spent' = Spent
  BY <1>a, SameSpent DEF Hold, Known, TypeOK, Early
<1>d. coins'[o] # {}
  <2>1. PICK C \in (SUBSET (IF o \in Named THEN coins[o] ELSE coins[o] \ hidden)) \ {{}} :
            coins' = [coins EXCEPT ![o] = C]
    BY DEF Hold
  <2>2. C # {}
    OBVIOUS
  <2> QED
    BY <2>1, <2>2 DEF TypeOK
<1>e. Stays
  BY <1>a DEF Hold, Stays, TypeOK, At, Go, Ended
<1>1. TypeOK'
  BY <1>a DEF Hold, TypeOK, At, Go, Inside, InFlight, Early, Ended, Holds, Fault, NoFault
<1>2. Locked'
  BY <1>a, <1>b DEF Hold, Locked, TypeOK, At, Go, Inside, InFlight, Early, Ended, Holds
<1>3. Known'
  BY <1>a, <1>d DEF Hold, Known, TypeOK, At, Go, Inside, InFlight, Early, Ended, Holds
<1>4. Rows'
  BY <1>a, <1>c, <1>e, RowsStay DEF Hold, TypeOK, At, Go
<1>8. Clean'
  BY <1>a, <1>e, CleanStays DEF Hold, Selecting, Known, TypeOK, At, Go, Ended, Early
<1>9. Past'
  BY <1>e, PastStays DEF Hold
<1>5. Quiet'
  BY <1>a DEF Hold, Quiet, TypeOK, At, Go, Inside, InFlight, Early, Ended, Holds
<1>6. Finds'
  BY <1>a, <1>c DEF Hold, Finds, Quiet, TypeOK, At, Go, Inside, InFlight, Early, Ended, Holds, Visible
<1>7. Flagged'
  BY <1>a DEF Hold, Flagged, Quiet, Known, TypeOK, At, Go, Inside, InFlight, Early, Ended, Holds, Visible
<1> QED
  BY <1>1, <1>2, <1>3, <1>4, <1>5, <1>6, <1>7, <1>8, <1>9

LEMMA ShortStep ==
    ASSUME SendAssumption, IInv, NEW o \in Ops, Short(o)
    PROVE  IInv'
<1> USE DEF IInv
<1>a. pc[o] = "select"
  BY DEF Short, At
<1>b. Holds(o) /\ \A p \in Ops \ {o} : ~Inside(p)
  BY <1>a, InLock DEF Inside, InFlight
<1>c. Spent' = Spent
  BY <1>a, SameSpent DEF Short, Known, TypeOK, Early
<1>e. Stays
  BY <1>a DEF Short, Stays, TypeOK, At, Go, Ended
<1>1. TypeOK'
  BY <1>a, <1>b DEF Short, TypeOK, At, Go, Inside, InFlight, Early, Ended, Holds
<1>2. Locked'
  BY <1>a, <1>b DEF Short, Locked, TypeOK, At, Go, Inside, InFlight, Early, Ended, Holds
<1>3. Known'
  BY <1>a DEF Short, Known, TypeOK, At, Go, Inside, InFlight, Early, Ended, Holds
<1>4. Rows'
  BY <1>a, <1>c, <1>e, RowsStay DEF Short, TypeOK, At, Go
<1>8. Clean'
  BY <1>a, <1>e, CleanStays DEF Short, Selecting, Known, TypeOK, At, Go, Ended, Early
<1>9. Past'
  BY <1>e, PastStays DEF Short
<1>5. Quiet'
  BY <1>a DEF Short, Quiet, TypeOK, At, Go, Inside, InFlight, Early, Ended, Holds
<1>6. Finds'
  BY <1>a, <1>c DEF Short, Finds, Quiet, TypeOK, At, Go, Inside, InFlight, Early, Ended, Holds, Visible
<1>7. Flagged'
  BY <1>a DEF Short, Flagged, Quiet, Known, TypeOK, At, Go, Inside, InFlight, Early, Ended, Holds, Visible
<1> QED
  BY <1>1, <1>2, <1>3, <1>4, <1>5, <1>6, <1>7, <1>8, <1>9

LEMMA MarkStep ==
    ASSUME SendAssumption, IInv, NEW o \in Ops, Mark(o)
    PROVE  IInv'
<1> USE DEF IInv
<1>a. pc[o] = "held"
  BY DEF Mark, At
<1>b. Holds(o) /\ \A p \in Ops \ {o} : ~Inside(p)
  BY <1>a, InLock DEF Inside, InFlight
<1>c. Spent' = Spent
  BY <1>a, SameSpent DEF Mark, Known, TypeOK, Early
<1>e. Stays
  BY <1>a DEF Mark, Stays, TypeOK, At, Go, Ended
<1>1. TypeOK'
  BY <1>a DEF Mark, TypeOK, At, Go, Inside, InFlight, Early, Ended, Holds, Fault, NoFault
<1>2. Locked'
  BY <1>a, <1>b DEF Mark, Locked, TypeOK, At, Go, Inside, InFlight, Early, Ended, Holds
<1>3. Known'
  BY <1>a DEF Mark, Known, TypeOK, At, Go, Inside, InFlight, Early, Ended, Holds
<1>4. Rows'
  BY <1>a, <1>c, <1>e, RowsStay DEF Mark, TypeOK, At, Go
<1>8. Clean'
  BY <1>a, <1>e, CleanStays DEF Mark, Selecting, Known, TypeOK, At, Go, Ended, Early
<1>9. Past'
  BY <1>e, PastStays DEF Mark
<1>5. Quiet'
  BY <1>a DEF Mark, Quiet, TypeOK, At, Go, Inside, InFlight, Early, Ended, Holds
<1>6. Finds'
  BY <1>a, <1>c DEF Mark, Finds, Quiet, TypeOK, At, Go, Inside, InFlight, Early, Ended, Holds, Visible
<1>7. Flagged'
  BY <1>a DEF Mark, Flagged, Quiet, Known, TypeOK, At, Go, Inside, InFlight, Early, Ended, Holds, Visible
<1> QED
  BY <1>1, <1>2, <1>3, <1>4, <1>5, <1>6, <1>7, <1>8, <1>9

LEMMA SubmitStep ==
    ASSUME SendAssumption, IInv, NEW o \in Ops, Submit(o)
    PROVE  IInv'
<1> USE DEF IInv
<1>a. pc[o] = "marked"
  BY DEF Submit, At
<1>b. Holds(o) /\ \A p \in Ops \ {o} : ~Inside(p)
  BY <1>a, InLock DEF Inside, InFlight
<1>c. Spent' = Spent \cup coins[o]
  BY MoreSpent DEF Submit, TypeOK, Leave
<1>e. Stays
  BY <1>a DEF Submit, Leave, Stays, TypeOK, At, Go, Ended
<1>1. TypeOK'
  <2>1. budget' \in Nat /\ server' \in [Ops -> {"none", "registered", "finalized"}]
    BY DEF Submit, Fault, NoFault, TypeOK
  <2>2. CASE Go(o, "registered") /\ UNCHANGED <<coins, queue, hidden>>
    BY <2>1, <2>2 DEF Submit, TypeOK, Go
  <2>3. CASE Leave(o, "failed")
    BY <1>b, <2>1, <2>3, LeaveType DEF Submit, TypeOK, Ended
  <2> QED
    BY <2>2, <2>3 DEF Submit
<1>2. Locked'
  BY <1>a, <1>b, LeaveLocked DEF Submit, Locked, TypeOK, At, Go, Inside, InFlight, Early, Ended, Holds
<1>3. Known'
  BY <1>a DEF Submit, Leave, Known, TypeOK, At, Go, Inside, InFlight, Early, Ended, Holds
<1>4. Rows'
  BY <1>a, <1>c, <1>e, RowsStay DEF Submit, Leave, TypeOK, At, Go
<1>8. Clean'
  <2>1. ASSUME NEW g \in Ops \ Named, pc'[g] \in Selecting PROVE FALSE
    <3>1. g # o
      BY <1>a, <2>1 DEF Submit, Leave, TypeOK, Go, Selecting, Ended
    <3>2. pc[g] \in Selecting
      BY <2>1, <3>1 DEF Submit, Leave, TypeOK, Go
    <3> QED
      BY <1>b, <3>1, <3>2 DEF Selecting, Inside, InFlight
  <2> QED
    BY <2>1 DEF Clean
<1>9. Past'
  BY <1>e, PastStays DEF Submit, Leave
<1>5. Quiet'
  BY <1>a DEF Submit, Leave, Quiet, TypeOK, At, Go, Inside, InFlight, Early, Ended, Holds
<1>6. Finds'
  BY <1>a, <1>c DEF Submit, Finds, Quiet, TypeOK, At, Go, Inside, InFlight, Early, Ended, Holds, Visible
<1>7. Flagged'
  BY <1>a DEF Submit, Leave, Fault, Flagged, Quiet, Known, TypeOK, At, Go, Inside, InFlight, Early, Ended, Holds, Visible
<1> QED
  BY <1>1, <1>2, <1>3, <1>4, <1>5, <1>6, <1>7, <1>8, <1>9

LEMMA RefuseStep ==
    ASSUME SendAssumption, IInv, NEW o \in Ops, Refuse(o)
    PROVE  IInv'
<1> USE DEF IInv
<1>a. pc[o] = "marked"
  BY DEF Refuse, At
<1>b. Holds(o) /\ \A p \in Ops \ {o} : ~Inside(p)
  BY <1>a, InLock DEF Inside, InFlight
<1>c. Spent' = Spent
  BY <1>a, SameSpent DEF Refuse, Leave, Known, TypeOK, Early
<1>e. Stays
  BY <1>a DEF Refuse, Leave, Stays, TypeOK, At, Go, Ended
<1>1. TypeOK'
  <2>1. refused' \in SUBSET (Ops \X Ops)
    BY DEF Refuse, TypeOK
  <2> QED
    BY <1>a, <1>b, <2>1, LeaveType DEF Refuse, TypeOK, Inside, InFlight, Early, Ended
<1>2. Locked'
  BY <1>a, <1>b, LeaveLocked DEF Refuse, Locked, TypeOK, At, Go, Inside, InFlight, Early, Ended, Holds
<1>3. Known'
  BY <1>a DEF Refuse, Leave, Known, TypeOK, At, Go, Inside, InFlight, Early, Ended, Holds
<1>4. Rows'
  BY <1>a, <1>c, <1>e, RowsStay DEF Refuse, Leave, TypeOK, At, Go
<1>8. Clean'
  BY <1>a, <1>e, CleanStays DEF Refuse, Leave, Selecting, Known, TypeOK, At, Go, Ended, Early
<1>9. Past'
  <2>1. ASSUME "lag" \notin faults, NEW g \in Ops \ Named, NEW p \in Ops, <<g, p>> \in refused'
        PROVE  pc'[g] \in Ended /\ Lost(g, p)'
    <3>1. CASE <<g, p>> \in refused
      BY <1>e, <2>1, <3>1 DEF Past, Stays, Lost, Ended, Refuse
    <3>2. CASE <<g, p>> \notin refused
      <4>1. g = o /\ server[p] # "none" /\ coins[p] \cap coins[g] # {}
        BY <2>1, <3>2 DEF Refuse
      <4>2. Lost(g, p)
        BY <1>a, <2>1, <4>1 DEF Clean, Selecting
      <4> QED
        BY <1>a, <1>e, <2>1, <4>1, <4>2 DEF Lost, Stays, Ended, Refuse, Leave, Go, TypeOK
    <3> QED
      BY <3>1, <3>2
  <2> QED
    BY <2>1 DEF Past, Refuse
<1>5. Quiet'
  BY <1>a DEF Refuse, Leave, Quiet, TypeOK, At, Go, Inside, InFlight, Early, Ended, Holds
<1>6. Finds'
  BY <1>a, <1>c DEF Refuse, Leave, Finds, Quiet, TypeOK, At, Go, Inside, InFlight, Early, Ended, Holds, Visible
<1>7. Flagged'
  BY <1>a, <1>b DEF Refuse, Leave, Fault, Flagged, Quiet, Known, TypeOK, At, Go, Inside, InFlight, Early, Ended, Holds, Visible
<1> QED
  BY <1>1, <1>2, <1>3, <1>4, <1>5, <1>6, <1>7, <1>8, <1>9

LEMMA FinalizeStep ==
    ASSUME SendAssumption, IInv, NEW o \in Ops, Finalize(o)
    PROVE  IInv'
<1> USE DEF IInv
<1>a. pc[o] = "registered"
  BY DEF Finalize, At
<1>b. Holds(o) /\ \A p \in Ops \ {o} : ~Inside(p)
  BY <1>a, InLock DEF Inside, InFlight
<1>c. Spent' = Spent
  BY <1>a, SameSpent DEF Finalize, Leave, Known, TypeOK, Early
<1>e. Stays
  BY <1>a DEF Finalize, Leave, Stays, TypeOK, At, Go, Ended
<1>1. TypeOK'
  BY <1>a, <1>b, LeaveType DEF Finalize, TypeOK, At, Go, Inside, InFlight, Early, Ended, Holds, Fault, NoFault
<1>2. Locked'
  BY <1>a, <1>b, LeaveLocked DEF Finalize, Locked, TypeOK, At, Go, Inside, InFlight, Early, Ended, Holds
<1>3. Known'
  BY <1>a DEF Finalize, Leave, Known, TypeOK, At, Go, Inside, InFlight, Early, Ended, Holds
<1>4. Rows'
  BY <1>a, <1>c, <1>e, RowsStay DEF Finalize, Leave, TypeOK, At, Go
<1>8. Clean'
  BY <1>a, <1>e, CleanStays DEF Finalize, Leave, Selecting, Known, TypeOK, At, Go, Ended, Early
<1>9. Past'
  BY <1>e, PastStays DEF Finalize, Leave
<1>5. Quiet'
  BY <1>a DEF Finalize, Leave, Quiet, TypeOK, At, Go, Inside, InFlight, Early, Ended, Holds
<1>6. Finds'
  BY <1>a, <1>c DEF Finalize, Leave, Finds, Quiet, TypeOK, At, Go, Inside, InFlight, Early, Ended, Holds, Visible
<1>7. Flagged'
  BY <1>a, <1>b DEF Finalize, Leave, Fault, Flagged, Quiet, Known, TypeOK, At, Go, Inside, InFlight, Early, Ended, Holds, Visible
<1> QED
  BY <1>1, <1>2, <1>3, <1>4, <1>5, <1>6, <1>7, <1>8, <1>9

LEMMA RecordStep ==
    ASSUME SendAssumption, IInv, NEW o \in Ops, Record(o)
    PROVE  IInv'
<1> USE DEF IInv
<1>a. pc[o] = "cleared"
  BY DEF Record, At
<1>b. Holds(o) /\ \A p \in Ops \ {o} : ~Inside(p)
  BY <1>a, InLock DEF Inside, InFlight
<1>c. Spent' = Spent
  BY <1>a, SameSpent DEF Record, Leave, Known, TypeOK, Early
<1>e. Stays
  BY <1>a DEF Record, Leave, Stays, TypeOK, At, Go, Ended
<1>1. TypeOK'
  <2>1. budget' \in Nat /\ recorded' \in SUBSET Coins
    BY DEF Record, Fault, NoFault, TypeOK
  <2>2. PICK p \in {"done", "failed"} : Leave(o, p)
    BY DEF Record
  <2> QED
    BY <1>b, <2>1, <2>2, LeaveType DEF Record, TypeOK, Ended
<1>2. Locked'
  BY <1>a, <1>b, LeaveLocked DEF Record, Locked, TypeOK, At, Go, Inside, InFlight, Early, Ended, Holds
<1>3. Known'
  BY <1>a DEF Record, Leave, Known, TypeOK, At, Go, Inside, InFlight, Early, Ended, Holds
<1>4. Rows'
  <2>1. recorded' \subseteq Spent
    BY <1>a, SpentMember DEF Record, Rows, Known
  <2>2. \A p \in Ops : pc'[p] = "done" =>
          (p = o /\ coins[o] \subseteq recorded') \/ (p # o /\ pc[p] = "done")
    BY <1>a DEF Record, Leave, Go, TypeOK
  <2> QED
    BY <1>c, <2>1, <2>2 DEF Record, Leave, Rows
<1>8. Clean'
  BY <1>a, <1>e, CleanStays DEF Record, Leave, Selecting, Known, TypeOK, At, Go, Ended, Early
<1>9. Past'
  BY <1>e, PastStays DEF Record, Leave
<1>5. Quiet'
  BY <1>a DEF Record, Leave, Quiet, TypeOK, At, Go, Inside, InFlight, Early, Ended, Holds
<1>6. Finds'
  BY <1>a, <1>c DEF Record, Leave, Finds, Quiet, TypeOK, At, Go, Inside, InFlight, Early, Ended, Holds, Visible
<1>7. Flagged'
  BY <1>a, <1>b DEF Record, Leave, Fault, Flagged, Quiet, Known, TypeOK, At, Go, Inside, InFlight, Early, Ended, Holds, Visible
<1> QED
  BY <1>1, <1>2, <1>3, <1>4, <1>5, <1>6, <1>7, <1>8, <1>9

LEMMA ClearStep ==
    ASSUME SendAssumption, IInv, NEW o \in Ops, Clear(o)
    PROVE  IInv'
<1> USE DEF IInv
<1>a. pc[o] = "finalized"
  BY DEF Clear, At
<1>b. Holds(o) /\ \A p \in Ops \ {o} : ~Inside(p)
  BY <1>a, InLock DEF Inside, InFlight
<1>c. Spent' = Spent
  BY <1>a, SameSpent DEF Clear, Known, TypeOK, Early
<1>e. Stays
  BY <1>a DEF Clear, Stays, TypeOK, At, Go, Ended
<1>1. TypeOK'
  <2>1. budget' \in Nat
    BY DEF Clear, Fault, NoFault, TypeOK
  <2>3. flag' = FALSE \/ flag' = flag
    BY DEF Clear
  <2>2. pc' = [pc EXCEPT ![o] = "cleared"]
    BY DEF Clear, Go
  <2> QED
    BY <2>1, <2>2, <2>3 DEF Clear, TypeOK
<1>2. Locked'
  BY <1>a, <1>b DEF Clear, Locked, TypeOK, At, Go, Inside, InFlight, Early, Ended, Holds
<1>3. Known'
  BY <1>a DEF Clear, Known, TypeOK, At, Go, Inside, InFlight, Early, Ended, Holds
<1>4. Rows'
  BY <1>a, <1>c, <1>e, RowsStay DEF Clear, TypeOK, At, Go
<1>8. Clean'
  BY <1>a, <1>e, CleanStays DEF Clear, Selecting, Known, TypeOK, At, Go, Ended, Early
<1>9. Past'
  BY <1>e, PastStays DEF Clear
<1>5. Quiet'
  BY <1>a DEF Clear, Quiet, TypeOK, At, Go, Inside, InFlight, Early, Ended, Holds
<1>6. Finds'
  BY <1>a, <1>c DEF Clear, Finds, Quiet, TypeOK, At, Go, Inside, InFlight, Early, Ended, Holds, Visible
<1>7. Flagged'
  BY <1>a, <1>b DEF Clear, Fault, Flagged, Quiet, Known, TypeOK, At, Go, Inside, InFlight, Early, Ended, Holds, Visible
<1> QED
  BY <1>1, <1>2, <1>3, <1>4, <1>5, <1>6, <1>7, <1>8, <1>9

LEMMA ThrowStep ==
    ASSUME SendAssumption, IInv, NEW o \in Ops, Throw(o)
    PROVE  IInv'
<1> USE DEF IInv
<1>a. pc[o] \in {"select", "held", "marked", "registered"}
  BY DEF Throw
<1>b. Holds(o) /\ \A p \in Ops \ {o} : ~Inside(p)
  BY <1>a, InLock DEF Inside, InFlight
<1>c. Spent' = Spent
  BY <1>a, SameSpent DEF Throw, Leave, Known, TypeOK, Early
<1>e. Stays
  BY <1>a DEF Throw, Leave, Stays, TypeOK, At, Go, Ended
<1>1. TypeOK'
  BY <1>a, <1>b, LeaveType DEF Throw, TypeOK, At, Go, Inside, InFlight, Early, Ended, Holds, Fault, NoFault
<1>2. Locked'
  BY <1>a, <1>b, LeaveLocked DEF Throw, Locked, TypeOK, At, Go, Inside, InFlight, Early, Ended, Holds
<1>3. Known'
  BY <1>a DEF Throw, Leave, Known, TypeOK, At, Go, Inside, InFlight, Early, Ended, Holds
<1>4. Rows'
  BY <1>a, <1>c, <1>e, RowsStay DEF Throw, Leave, TypeOK, At, Go
<1>8. Clean'
  BY <1>a, <1>e, CleanStays DEF Throw, Leave, Selecting, Known, TypeOK, At, Go, Ended, Early
<1>9. Past'
  BY <1>e, PastStays DEF Throw, Leave
<1>5. Quiet'
  BY <1>a DEF Throw, Leave, Quiet, TypeOK, At, Go, Inside, InFlight, Early, Ended, Holds
<1>6. Finds'
  BY <1>a, <1>c DEF Throw, Leave, Finds, Quiet, TypeOK, At, Go, Inside, InFlight, Early, Ended, Holds, Visible
<1>7. Flagged'
  BY <1>a, <1>b DEF Throw, Leave, Fault, Flagged, Quiet, Known, TypeOK, At, Go, Inside, InFlight, Early, Ended, Holds, Visible
<1> QED
  BY <1>1, <1>2, <1>3, <1>4, <1>5, <1>6, <1>7, <1>8, <1>9

-----------------------------------------------------------------------------
(* Recovery and the process.                                                 *)

LEMMA RecViewStep ==
    ASSUME SendAssumption, IInv, RecView
    PROVE  IInv'
<1> USE DEF IInv
<1>c. Spent' = Spent
  BY SameSpent DEF RecView, Rest, ops, Known, TypeOK
<1>e. Stays
  BY DEF RecView, Rest, ops, Stays, TypeOK, Ended
<1>4. Rows' /\ recorded' \in SUBSET Coins
  BY <1>c, <1>e, SyncRows DEF RecView, Rest, ops, TypeOK
<1>1. TypeOK'
  <2>1. budget' \in Nat
    BY DEF RecView, Sync, Fault, NoFault, TypeOK
  <2>2. View \in SUBSET Coins
    BY <1>4, SendAssumption DEF View
  <2> QED
    BY <1>4, <2>1, <2>2 DEF RecView, Rest, ops, TypeOK
<1>2. Locked'
  BY DEF RecView, Rest, ops, Locked, Inside, Holds
<1>3. Known'
  BY DEF RecView, Rest, ops, Known, TypeOK, Idle
<1>8. Clean'
  BY <1>e, CleanStays DEF RecView, Rest, ops, Selecting, Known, TypeOK, Ended, Early
<1>9. Past'
  BY <1>e, PastStays DEF RecView, Rest, ops
<1>5. Quiet'
  BY DEF RecView, Rest, ops, Quiet, TypeOK, Idle
<1>6. Finds'
  <2>1. rec'.pc = "flag" /\ rec'.seen = View
    BY DEF RecView, TypeOK
  <2>2. faults \subseteq {"crash"} => Spent \cap Young \subseteq recorded'
    BY DEF RecView, Sync, Fault
  <2> QED
    BY <1>c, <2>1, <2>2 DEF RecView, Rest, View, Finds
<1>7. Flagged'
  BY DEF RecView, Rest, ops, Flagged, TypeOK, Idle, Visible
<1> QED
  BY <1>1, <1>2, <1>3, <1>4, <1>5, <1>6, <1>7, <1>8, <1>9

LEMMA RecFlagStep ==
    ASSUME SendAssumption, IInv, RecFlag
    PROVE  IInv'
<1> USE DEF IInv
<1>c. Spent' = Spent
  BY SameSpent DEF RecFlag, Rest, ops, Known, TypeOK
<1>e. Stays
  BY DEF RecFlag, Rest, ops, Stays, TypeOK, Ended
<1>1. TypeOK'
  <2>1. \A S \in Found : S \subseteq Coins
    BY SpentIsCoins, SendAssumption DEF Found, TypeOK
  <2>2. TypeOK'
    <3>1. PICK S \in Found :
              rec' = IF flag /\ S # {} THEN [rec EXCEPT !.pc = "ask", !.seen = S] ELSE Idle
      BY DEF RecFlag
    <3>2. rec' \in [pc : {"off", "view", "flag", "ask", "finish"}, seen : SUBSET Coins,
                     pending : SUBSET Ops, left : SUBSET Ops]
      BY <2>1, <3>1 DEF TypeOK, Idle
    <3> QED
      BY <3>2 DEF RecFlag, Rest, ops, TypeOK
  <2> QED
    BY <2>2
<1>2. Locked'
  BY DEF RecFlag, Rest, ops, Locked, Inside, Holds
<1>3. Known'
  BY DEF RecFlag, Rest, ops, Known, TypeOK, Idle
<1>4. Rows'
  BY <1>c, <1>e, RowsStay DEF RecFlag, Rest, ops, TypeOK, Ended
<1>8. Clean'
  BY <1>e, CleanStays DEF RecFlag, Rest, ops, Selecting, Known, TypeOK, Ended, Early
<1>9. Past'
  BY <1>e, PastStays DEF RecFlag, Rest, ops
<1>5. Quiet'
  BY DEF RecFlag, Rest, ops, Quiet, TypeOK, Idle
<1>6. Finds'
  <2>1. PICK S \in Found : rec' = IF flag /\ S # {} THEN [rec EXCEPT !.pc = "ask", !.seen = S] ELSE Idle
    BY DEF RecFlag
  <2>2. Preconfirmed \subseteq S /\ (faults \subseteq {"crash"} => Spent \cap Young \subseteq S)
    BY DEF RecFlag, Found, Finds
  <2>3. rec' = Idle \/ (rec'.pc = "ask" /\ rec'.seen = S)
    BY <2>1 DEF TypeOK
  <2> QED
    <3>1. CASE rec' = Idle
      BY <3>1 DEF Finds, Idle
    <3>2. CASE rec'.pc = "ask" /\ rec'.seen = S
      BY <1>c, <2>2, <3>2 DEF RecFlag, Rest, Finds
    <3> QED
      BY <2>3, <3>1, <3>2
<1>7. Flagged'
  <2>1. ASSUME faults \subseteq {"crash"}, NEW o \in Ops, server[o] = "registered", Visible(o)
        PROVE  rec'.pc = "ask"
    <3>1. coins[o] # {} /\ coins[o] \subseteq Spent
      BY <2>1, SpentMember DEF Known
    <3>2. PICK S \in Found :
              rec' = IF flag /\ S # {} THEN [rec EXCEPT !.pc = "ask", !.seen = S] ELSE Idle
      BY DEF RecFlag
    <3>3. S # {}
      BY <2>1, <3>1, <3>2 DEF Found
    <3>4. flag
      BY <2>1 DEF Flagged
    <3> QED
      BY <3>2, <3>3, <3>4 DEF TypeOK
  <2> QED
    BY <2>1 DEF RecFlag, Rest, ops, Flagged, Visible
<1> QED
  BY <1>1, <1>2, <1>3, <1>4, <1>5, <1>6, <1>7, <1>8, <1>9

LEMMA RecAskStep ==
    ASSUME SendAssumption, IInv, RecAsk
    PROVE  IInv'
<1> USE DEF IInv
<1>c. Spent' = Spent
  BY SameSpent DEF RecAsk, Rest, ops, Known, TypeOK
<1>e. Stays
  BY DEF RecAsk, Rest, ops, Stays, TypeOK, Ended
<1>1. TypeOK'
  BY DEF RecAsk, Rest, ops, TypeOK, Idle, Fault, NoFault
<1>2. Locked'
  BY DEF RecAsk, Rest, ops, Locked, Inside, Holds
<1>3. Known'
  BY DEF RecAsk, Rest, ops, Known, TypeOK, Idle
<1>4. Rows'
  BY <1>c, <1>e, RowsStay DEF RecAsk, Rest, ops, TypeOK, Ended
<1>8. Clean'
  BY <1>e, CleanStays DEF RecAsk, Rest, ops, Selecting, Known, TypeOK, Ended, Early
<1>9. Past'
  BY <1>e, PastStays DEF RecAsk, Rest, ops
<1>5. Quiet'
  BY DEF RecAsk, Rest, ops, Quiet, TypeOK, Idle
<1>6. Finds'
  <2> DEFINE P == {o \in Ops : server[o] = "registered" /\ coins[o] \cap rec.seen # {}}
  <2>1. rec.pc = "ask" /\ rec'.seen = rec.seen /\ rec'.pending = P /\ rec'.left = P
    BY DEF RecAsk, TypeOK
  <2>2. ASSUME faults \subseteq {"crash"}, NEW o \in Ops, server[o] = "registered", Visible(o)
        PROVE  o \in P
    <3>1. coins[o] # {} /\ coins[o] \subseteq Spent
      BY <2>2, SpentMember DEF Known
    <3> QED
      BY <2>1, <2>2, <3>1 DEF Finds, Visible
  <2> QED
    BY <1>c, <2>1, <2>2 DEF RecAsk, Rest, ops, Finds, Visible
<1>7. Flagged'
  BY DEF RecAsk, Rest, ops, Flagged, TypeOK, Idle, Visible
<1> QED
  BY <1>1, <1>2, <1>3, <1>4, <1>5, <1>6, <1>7, <1>8, <1>9

LEMMA RecFinishStep ==
    ASSUME SendAssumption, IInv, NEW o \in Ops, RecFinish(o)
    PROVE  IInv'
<1> USE DEF IInv
<1>c. Spent' = Spent
  BY SameSpent DEF RecFinish, Rest, ops, Known, TypeOK
<1>r. \/ rec' = [rec EXCEPT !.left = rec.left \ {o}, !.pending = rec.pending \ {o}]
      \/ rec' = [rec EXCEPT !.left = rec.left \ {o}]
  BY DEF RecFinish
<1>d. rec'.left = rec.left \ {o} /\ rec'.pc = "finish" /\ rec.pc = "finish" /\ rec'.seen = rec.seen
      /\ rec'.pending \subseteq Ops
  <2>1. rec.pc = "finish" /\ rec \in [pc : {"off", "view", "flag", "ask", "finish"},
             seen : SUBSET Coins, pending : SUBSET Ops, left : SUBSET Ops]
    BY DEF RecFinish, TypeOK
  <2>2. CASE rec' = [rec EXCEPT !.left = rec.left \ {o}, !.pending = rec.pending \ {o}]
    BY <2>1, <2>2
  <2>3. CASE rec' = [rec EXCEPT !.left = rec.left \ {o}]
    BY <2>1, <2>3
  <2> QED
    BY <1>r, <2>2, <2>3, <2>1
<1>e. Stays
  BY DEF RecFinish, Rest, ops, Stays, TypeOK, Ended
<1>1. TypeOK'
  <2>1. budget' \in Nat
    BY DEF RecFinish, Fault, NoFault, TypeOK
  <2>2. server' = [server EXCEPT ![o] = "finalized"] \/ server' = server
    BY DEF RecFinish
  <2>3. server' \in [Ops -> {"none", "registered", "finalized"}]
    BY <2>2 DEF TypeOK
  <2>4. /\ rec' \in [pc : {"off", "view", "flag", "ask", "finish"}, seen : SUBSET Coins,
                     pending : SUBSET Ops, left : SUBSET Ops]
    BY <1>d, <1>r DEF TypeOK
  <2> QED
    BY <2>1, <2>3, <2>4 DEF RecFinish, Rest, ops, TypeOK
<1>2. Locked'
  BY DEF RecFinish, Rest, ops, Locked, Inside, Holds
<1>3. Known'
  <2>1. \A p \in Ops : server'[p] # "none" <=> server[p] # "none"
    BY DEF RecFinish, Known, TypeOK
  <2>2. \A p \in Ops : server[p] = "finalized" => server'[p] = "finalized"
    BY DEF RecFinish, TypeOK
  <2>3. \A p \in Ops : server[p] = "none" => server'[p] = "none"
    BY <2>1 DEF RecFinish, TypeOK
  <2>4. UNCHANGED <<pc, coins>>
    BY DEF RecFinish, Rest, ops
  <2> QED
    BY <1>d, <2>1, <2>2, <2>3, <2>4 DEF Known, TypeOK
<1>4. Rows'
  BY <1>c, <1>e, RowsStay DEF RecFinish, Rest, ops, TypeOK, Ended
<1>8. Clean'
  BY <1>e, CleanStays DEF RecFinish, Rest, ops, Selecting, Known, TypeOK, Ended, Early
<1>9. Past'
  BY <1>e, PastStays DEF RecFinish, Rest, ops
<1>5. Quiet'
  BY <1>d DEF RecFinish, Rest, ops, Quiet, TypeOK
<1>6. Finds'
  <2>1. ASSUME "eager" \notin faults, NEW p \in Ops, server'[p] = "registered",
               coins[p] \cap Preconfirmed # {}
        PROVE  p \in rec'.pending
    <3>1. server[p] = "registered" /\ p \in rec.pending
      BY <1>d, <2>1 DEF RecFinish, Finds, TypeOK
    <3>2. p # o \/ rec'.pending = rec.pending
      BY <2>1, <1>r DEF RecFinish, TypeOK
    <3> QED
      BY <3>1, <3>2, <1>r DEF TypeOK
  <2>2. ASSUME faults \subseteq {"crash"}, NEW p \in Ops, server'[p] = "registered", Visible(p)
        PROVE  p \in rec'.left
    <3>1. server[p] = "registered" /\ p \in rec.left
      BY <1>d, <2>2 DEF RecFinish, Finds, TypeOK
    <3>2. coins[p] \subseteq rec.seen
      BY <1>d, <2>2, <3>1, SpentMember DEF Finds, Visible
    <3>3. p # o
      BY <2>2, <3>1, <3>2 DEF RecFinish, Fault, TypeOK
    <3> QED
      BY <1>d, <3>1, <3>3
  <2>3. UNCHANGED <<faults, coins>>
    BY DEF RecFinish, Rest, ops
  <2> QED
    BY <1>c, <1>d, <2>1, <2>2, <2>3 DEF RecFinish, Finds, Visible
<1>7. Flagged'
  BY <1>d DEF RecFinish, Rest, ops, Flagged, TypeOK, Visible
<1> QED
  BY <1>1, <1>2, <1>3, <1>4, <1>5, <1>6, <1>7, <1>8, <1>9

LEMMA RecClearStep ==
    ASSUME SendAssumption, IInv, RecClear
    PROVE  IInv'
<1> USE DEF IInv
<1>c. Spent' = Spent
  BY SameSpent DEF RecClear, Rest, ops, Known, TypeOK
<1>e. Stays
  BY DEF RecClear, Rest, ops, Stays, TypeOK, Ended
<1>1. TypeOK'
  BY DEF RecClear, Rest, ops, TypeOK, Idle, Fault, NoFault
<1>2. Locked'
  BY DEF RecClear, Rest, ops, Locked, Inside, Holds
<1>3. Known'
  BY DEF RecClear, Rest, ops, Known, TypeOK, Idle
<1>4. Rows'
  BY <1>c, <1>e, RowsStay DEF RecClear, Rest, ops, TypeOK, Ended
<1>8. Clean'
  BY <1>e, CleanStays DEF RecClear, Rest, ops, Selecting, Known, TypeOK, Ended, Early
<1>9. Past'
  BY <1>e, PastStays DEF RecClear, Rest, ops
<1>5. Quiet'
  BY DEF RecClear, Rest, ops, Quiet, TypeOK, Idle
<1>6. Finds'
  BY <1>c DEF RecClear, Rest, ops, Finds, TypeOK, Idle, Visible
<1>7. Flagged'
  BY DEF RecClear, Rest, ops, Flagged, Finds, Quiet, Known, TypeOK, Idle, Ended, Visible
<1> QED
  BY <1>1, <1>2, <1>3, <1>4, <1>5, <1>6, <1>7, <1>8, <1>9

LEMMA CrashStep ==
    ASSUME SendAssumption, IInv, Crash
    PROVE  IInv'
<1> USE DEF IInv
<1>c. Spent' = Spent
  BY SameSpent DEF Crash, Rest, ops, Known, TypeOK
<1>e. Stays
  BY DEF Crash, ops, Stays, TypeOK, Ended
<1>1. TypeOK'
  <2>1. budget' \in Nat
    BY DEF Crash, Fault, TypeOK
  <2>2. pc' \in [Ops -> {"idle", "waiting", "select", "held", "marked", "registered",
                         "finalized", "cleared"} \cup Ended]
    BY DEF Crash, TypeOK, Ended
  <2>3. rec' \in [pc : {"off", "view", "flag", "ask", "finish"}, seen : SUBSET Coins,
                   pending : SUBSET Ops, left : SUBSET Ops]
    BY DEF Crash, Idle
  <2>4. queue' \in Seq(Ops)
    BY DEF Crash
  <2> QED
    BY <2>1, <2>2, <2>3, <2>4 DEF Crash, TypeOK
<1>2. Locked'
  BY DEF Crash, Locked, Inside, InFlight, Ended, TypeOK
<1>3. Known'
  BY DEF Crash, Known, TypeOK, Idle, Early, Ended
<1>4. Rows'
  BY <1>c, <1>e, RowsStay DEF Crash, ops, TypeOK, Ended
<1>8. Clean'
  BY <1>e, CleanStays DEF Crash, ops, Selecting, Known, TypeOK, Ended, Early
<1>9. Past'
  BY <1>e, PastStays DEF Crash, ops
<1>5. Quiet'
  BY DEF Crash, Quiet, TypeOK, Idle, Ended
<1>6. Finds'
  BY DEF Crash, Finds, Idle, Visible
<1>7. Flagged'
  BY DEF Crash, Flagged, TypeOK, Ended, Visible
<1> QED
  BY <1>1, <1>2, <1>3, <1>4, <1>5, <1>6, <1>7, <1>8, <1>9

LEMMA BootStep ==
    ASSUME SendAssumption, IInv, Boot
    PROVE  IInv'
<1> USE DEF IInv
<1>c. Spent' = Spent
  BY SameSpent DEF Boot, Rest, ops, Known, TypeOK
<1>e. Stays
  BY DEF Boot, ops, Stays
<1>1. TypeOK'
  BY DEF Boot, Rest, ops, TypeOK, Idle, Fault, NoFault
<1>2. Locked'
  BY DEF Boot, Rest, ops, Locked, Inside, Holds
<1>3. Known'
  BY DEF Boot, Rest, ops, Known, TypeOK, Idle
<1>4. Rows'
  BY <1>c, <1>e, RowsStay DEF Boot, ops
<1>8. Clean'
  BY <1>e, CleanStays DEF Boot, ops
<1>9. Past'
  BY <1>e, PastStays DEF Boot
<1>5. Quiet'
  BY DEF Boot, Rest, ops, Quiet, TypeOK, Idle
<1>6. Finds'
  BY <1>c DEF Boot, Rest, ops, Finds, TypeOK, Idle, Visible
<1>7. Flagged'
  BY DEF Boot, Rest, ops, Flagged, TypeOK, Idle, Visible
<1> QED
  BY <1>1, <1>2, <1>3, <1>4, <1>5, <1>6, <1>7, <1>8, <1>9

\* A row is corrected.
LEMMA ToldStep ==
    ASSUME SendAssumption, IInv, NEW c \in Coins, Told(c)
    PROVE  IInv'
<1> USE DEF IInv
<1>c. Spent' = Spent
  BY SameSpent DEF Told, ops, TypeOK
<1>e. Stays
  BY DEF Told, ops, Stays
<1>1. TypeOK'
  BY DEF Told, ops, TypeOK
<1>2. Locked'
  BY DEF Told, ops, Locked, Inside, Holds
<1>3. Known'
  BY DEF Told, ops, Known
<1>4. Rows'
  BY <1>c DEF Told, ops, Rows
<1>8. Clean'
  BY <1>e, CleanStays DEF Told, ops
<1>9. Past'
  BY <1>e, PastStays DEF Told
<1>5. Quiet' /\ Finds' /\ Flagged'
  BY <1>c DEF Told, ops, Quiet, Finds, Flagged, Visible
<1> QED
  BY <1>1, <1>2, <1>3, <1>4, <1>5, <1>8, <1>9

-----------------------------------------------------------------------------
(* The theorems.                                                             *)

LEMMA Initially ==
    ASSUME SendAssumption, Init PROVE IInv
<1>1. TypeOK
  <2>1. /\ budget \in Nat /\ queue \in Seq(Ops)
        /\ server \in [Ops -> {"none", "registered", "finalized"}]
        /\ coins \in [Ops -> SUBSET Coins]
    BY DEF Init, SendAssumption
  <2>2. rec \in [pc : {"off", "view", "flag", "ask", "finish"}, seen : SUBSET Coins,
                  pending : SUBSET Ops, left : SUBSET Ops]
    BY DEF Init, Idle
  <2>3. pc \in [Ops -> {"idle", "waiting", "select", "held", "marked", "registered",
                         "finalized", "cleared"} \cup Ended]
    BY DEF Init
  <2> QED
    BY <2>1, <2>2, <2>3 DEF Init, TypeOK
<1>2. Locked /\ Known /\ Quiet
  BY DEF Init, Locked, Known, Quiet, Inside, InFlight, Idle, Early
<1>3. Rows /\ Clean /\ Past /\ Finds /\ Flagged
  BY DEF Init, Rows, Clean, Past, Selecting, Finds, Flagged, Idle, Ended
<1> QED
  BY <1>1, <1>2, <1>3 DEF IInv

LEMMA Stutter ==
    ASSUME IInv, UNCHANGED vars PROVE IInv'
<1> USE DEF IInv, vars, ops
<1>1. Spent' = Spent
  BY SameSpent
<1>2. TypeOK' /\ Known' /\ Quiet'
  BY DEF TypeOK, Known, Quiet
<1>3. Locked'
  BY DEF Locked, Inside, Holds
<1>4. Rows' /\ Clean' /\ Past' /\ Finds' /\ Flagged'
  BY <1>1 DEF Rows, Clean, Past, Lost, Finds, Flagged, Visible
<1> QED
  BY <1>2, <1>3, <1>4

LEMMA Inductive ==
    ASSUME SendAssumption, IInv, [Next]_vars PROVE IInv'
<1>1. CASE UNCHANGED vars
  BY <1>1, Stutter
<1>2. CASE \E o \in Ops : Call(o) \/ Step(o) \/ Throw(o)
  BY <1>2, CallStep, SelectStep, HoldStep, ShortStep, MarkStep, SubmitStep, RefuseStep,
     FinalizeStep, ClearStep, RecordStep, ThrowStep DEF Step
<1>3. CASE Recovery
  BY <1>3, RecViewStep, RecFlagStep, RecAskStep, RecFinishStep, RecClearStep DEF Recovery
<1>4. CASE Crash \/ Boot
  BY <1>4, CrashStep, BootStep
<1>5. CASE \E c \in Coins : Told(c)
  BY <1>5, ToldStep
<1> QED
  BY <1>1, <1>2, <1>3, <1>4, <1>5 DEF Next

LEMMA Invariant == Spec => []IInv
<1>1. Init => IInv
  BY SendAssumption, Initially
<1>2. IInv /\ [Next]_vars => IInv'
  BY SendAssumption, Inductive
<1> QED
  BY <1>1, <1>2, PTL DEF Spec

\* The types of the spends, the flag and the recovery.
THEOREM TypeCorrect == Spec => []TypeOK
<1>1. IInv => TypeOK
  BY DEF IInv
<1> QED
  BY <1>1, Invariant, PTL

\* Wherever a crash falls, a submitted transaction that is not finalized has its
\* flag (buildAndSubmitOffchainTx, finalizePendingTxs).
THEOREM PendingIsFlagged == Spec => []FlagCovers
<1>1. IInv => FlagCovers
  BY DEF IInv, Flagged, FlagCovers
<1> QED
  BY <1>1, Invariant, PTL

\* Generic sends never compete with other spends of the wallet (_withTxLock).
THEOREM SelectsUnderLock == Spec => []NoOwnConflict
<1>1. IInv => NoOwnConflict
  BY DEF IInv, Past, Lost, NoOwnConflict
<1> QED
  BY <1>1, Invariant, PTL

\* Exactly the inputs in flight are hidden (_submitOffchainSpend).
THEOREM HiddenInFlight == Spec => []HidesInFlight
<1>1. IInv => HidesInFlight
  BY DEF IInv, Locked, Inside, InFlight, Holds, HidesInFlight
<1> QED
  BY <1>1, Invariant, PTL

\* Recovery clears the flag only over nothing that is pending
\* (finalizePendingTxs).
THEOREM RecoveryKeepsFlag == Spec => ClearsNoPending
<1> DEFINE Clears == up' /\ "eager" \notin faults /\ flag /\ ~flag' /\ rec # Idle =>
                         \A o \in Ops : pc[o] \in Ended /\ coins[o] \cap Preconfirmed # {}
                                         => server[o] # "registered"
<1>1. ASSUME IInv, [Next]_vars, "eager" \notin faults, flag, ~flag', rec # Idle,
             NEW o \in Ops, coins[o] \cap Preconfirmed # {}
      PROVE  server[o] # "registered"
  <2>1. rec.pc # "off" /\ \A p \in Ops : pc[p] = "idle" \/ pc[p] \in Ended
    BY <1>1 DEF IInv, Quiet
  <2>2. ~ \E p \in Ops : Clear(p)
    BY <2>1 DEF Clear, At, Ended
  <2>3. RecClear
    BY <1>1, <2>2 DEF Next, vars, Call, Step, Select, Hold, Short, Mark, Submit, Refuse, Finalize,
       Record, Throw, Told, Recovery, RecView, RecFlag, RecAsk, RecFinish, Crash, Boot
  <2> QED
    BY <1>1, <2>3 DEF RecClear, IInv, Finds
<1>2. IInv /\ [Next]_vars => [Clears]_vars
  BY <1>1
<1> QED
  BY <1>2, Invariant, PTL DEF Spec, ClearsNoPending
-----------------------------------------------------------------------------
(* The VTXO manager, for any VTXOs, prices, limits, callers and              *)
(* environments: its types, and that the renewal flag is always held.  The   *)
(* state of the two modules is apart, so what VtxoManager assumes of its     *)
(* constants is a hypothesis of its theorems, and not an assumption here.    *)

CONSTANTS
    N, Boardings, Value, Fee, BoardingNet, Dust, Ceiling, Cap,
    ManagerFaults, ManagerFaultSets

VARIABLES
    mfaults, mbudget, expiring, spent, stale, age, fate, news, cool, settled,
    known, swept, closing, closed

VM == INSTANCE VtxoManager
        WITH MaxFaults <- ManagerFaults, FaultSets <- ManagerFaultSets,
             faults <- mfaults, budget <- mbudget

PollType ==
  [pc : VM!PollStates, list : SUBSET Boardings, boards : SUBSET Boardings, ins : SUBSET VM!Vtxos]

\* A batch is taken from what was offered.
LEMMA BatchOf == \A S, worth, base : VM!Batch(S, worth, base) \subseteq S
  BY DEF VM!Batch

\* A renewal that starts, and one that ends, leave the calls well typed.
LEMMA CallTyped ==
  ASSUME VM!TypeOK, NEW r \in Calls, NEW p \in VM!CallStates, NEW ins \in SUBSET VM!Vtxos, VM!Step(r, p, ins)
  PROVE  call' \in [Calls -> [pc : VM!CallStates, ins : SUBSET VM!Vtxos]]
  BY DEF VM!TypeOK, VM!Step

LEMMA BudgetTyped ==
  ASSUME VM!ManagerAssumption, VM!TypeOK, UNCHANGED mbudget \/ (mbudget > 0 /\ mbudget' = mbudget - 1)
  PROVE  mbudget' \in 0..ManagerFaults
  BY DEF VM!ManagerAssumption, VM!TypeOK

\* What settle() leaves of the coins, whether it returns or throws.
LEMMA SettleTyped ==
  ASSUME VM!ManagerAssumption, VM!TypeOK, NEW ins \in SUBSET VM!Vtxos, NEW boards \in SUBSET Boardings,
         VM!SettleOk(ins, boards) \/ VM!SettleFails(ins, boards)
  PROVE  /\ mbudget' \in 0..ManagerFaults
         /\ spent' \subseteq VM!Vtxos /\ stale' \subseteq spent'
         /\ fate' \in [Boardings -> {"unspent", "settled", "swept"}] /\ news' \in BOOLEAN
<1>1. mbudget' \in 0..ManagerFaults
  BY BudgetTyped DEF VM!SettleOk, VM!SettleFails, VM!Fault, VM!NoFault
<1>2. CASE VM!SettleOk(ins, boards)
  BY <1>1, <1>2 DEF VM!SettleOk, VM!Commit, VM!TypeOK
<1>3. CASE VM!SettleFails(ins, boards)
  <2>1. CASE UNCHANGED VM!coins
    BY <1>1, <2>1 DEF VM!coins, VM!TypeOK
  <2>2. CASE VM!Commit(ins, boards) /\ stale' = stale \cup ins
    BY <1>1, <2>2 DEF VM!Commit, VM!TypeOK
  <2>3. CASE (\E v \in ins : stale' \in {stale, stale \ {v}}) /\ UNCHANGED <<spent, fate, news>>
    BY <1>1, <2>3 DEF VM!TypeOK
  <2> QED BY <1>3, <2>1, <2>2, <2>3 DEF VM!SettleFails
<1> QED BY <1>2, <1>3

LEMMA ManagerInitTyped == VM!ManagerAssumption /\ VM!Init => VM!TypeOK
<1> SUFFICES ASSUME VM!ManagerAssumption, VM!Init PROVE VM!TypeOK
  OBVIOUS
<1>1. call \in [Calls -> [pc : VM!CallStates, ins : SUBSET VM!Vtxos]]
  BY DEF VM!Init, VM!NoCall, VM!CallStates
<1>2. poll \in PollType
  BY DEF VM!Init, VM!Timer, VM!PollStates, PollType
<1>3. mfaults \in ManagerFaultSets /\ mbudget \in 0..ManagerFaults
  BY DEF VM!ManagerAssumption, VM!Init
<1> QED BY <1>1, <1>2, <1>3 DEF VM!Init, VM!TypeOK, PollType

\* The poll with some of its fields replaced.
LEMMA PollSet ==
  ASSUME VM!TypeOK, NEW p \in VM!PollStates, NEW L \in SUBSET Boardings, NEW D \in SUBSET Boardings,
         NEW I \in SUBSET VM!Vtxos
  PROVE  /\ [poll EXCEPT !.pc = p] \in PollType
         /\ [poll EXCEPT !.pc = p, !.list = L] \in PollType
         /\ [poll EXCEPT !.pc = p, !.boards = D] \in PollType
         /\ [poll EXCEPT !.pc = p, !.ins = I] \in PollType
         /\ [VM!Timer EXCEPT !.pc = p, !.list = poll.list] \in PollType
         /\ [VM!Timer EXCEPT !.pc = p] \in PollType
         /\ VM!Timer \in PollType
  BY DEF VM!TypeOK, PollType, VM!Timer, VM!PollStates

\* The steps of renewVtxos.
LEMMA CallsTyped ==
  ASSUME VM!ManagerAssumption, VM!TypeOK, VM!Event \/ \E r \in Calls : VM!Manual(r) \/ VM!CallStep(r)
  PROVE  VM!TypeOK'
<1> USE DEF VM!ElseCall, VM!env, VM!own
<1>1. CASE VM!Event
  <2>1. CASE \E r \in Calls : VM!Start(r)
    <3>1. PICK r \in Calls : VM!Start(r) BY <2>1
    <3>2. call' \in [Calls -> [pc : VM!CallStates, ins : SUBSET VM!Vtxos]]
      BY <3>1, CallTyped DEF VM!Start, VM!CallStates
    <3> QED BY <1>1, <3>1, <3>2 DEF VM!Event, VM!Start, VM!TypeOK
  <2> QED BY <1>1, <2>1 DEF VM!Event, VM!TypeOK
<1>2. ASSUME NEW r \in Calls, VM!Manual(r) PROVE VM!TypeOK'
  <2>1. call' \in [Calls -> [pc : VM!CallStates, ins : SUBSET VM!Vtxos]]
    BY <1>2, CallTyped DEF VM!Manual, VM!Start, VM!CallStates
  <2> QED BY <1>2, <2>1, BudgetTyped DEF VM!Manual, VM!Start, VM!Fault, VM!coins, VM!TypeOK
<1>3. ASSUME NEW r \in Calls, VM!CallSelect(r) PROVE VM!TypeOK'
  <2>1. VM!Candidates \in SUBSET VM!Vtxos BY DEF VM!Candidates, VM!TypeOK
  <2>2. call' \in [Calls -> [pc : VM!CallStates, ins : SUBSET VM!Vtxos]]
    BY <1>3, <2>1, CallTyped DEF VM!CallSelect, VM!EndCall, VM!CallStates
  <2>3. mbudget' \in 0..ManagerFaults BY <1>3, BudgetTyped DEF VM!CallSelect, VM!Fault, VM!NoFault
  <2> QED BY <1>3, <2>2, <2>3 DEF VM!CallSelect, VM!EndCall, VM!coins, VM!TypeOK
<1>4. ASSUME NEW r \in Calls, VM!CallCheck(r) PROVE VM!TypeOK'
  <2>1. call[r].ins \in SUBSET VM!Vtxos /\ call[r].ins \ spent \in SUBSET VM!Vtxos BY DEF VM!TypeOK
  <2>2. call' \in [Calls -> [pc : VM!CallStates, ins : SUBSET VM!Vtxos]]
    BY <1>4, <2>1, CallTyped DEF VM!CallCheck, VM!CallStates
  <2>3. mbudget' \in 0..ManagerFaults BY <1>4, BudgetTyped DEF VM!CallCheck, VM!Fault, VM!NoFault
  <2> QED BY <1>4, <2>2, <2>3 DEF VM!CallCheck, VM!TypeOK
<1>5. ASSUME NEW r \in Calls, VM!CallPrice(r) PROVE VM!TypeOK'
  <2>1. VM!Batch(call[r].ins, Value, 0) \in SUBSET VM!Vtxos BY BatchOf DEF VM!TypeOK
  <2>2. call' \in [Calls -> [pc : VM!CallStates, ins : SUBSET VM!Vtxos]]
    BY <1>5, <2>1, CallTyped DEF VM!CallPrice, VM!EndCall, VM!CallStates
  <2>3. mbudget' \in 0..ManagerFaults BY <1>5, BudgetTyped DEF VM!CallPrice, VM!Fault, VM!NoFault
  <2> QED BY <1>5, <2>2, <2>3 DEF VM!CallPrice, VM!EndCall, VM!coins, VM!TypeOK
<1>6. ASSUME NEW r \in Calls, VM!CallSettle(r) PROVE VM!TypeOK'
  <2>1. call' \in [Calls -> [pc : VM!CallStates, ins : SUBSET VM!Vtxos]]
    BY <1>6, CallTyped DEF VM!CallSettle, VM!EndCall, VM!CallStates
  <2>2. call[r].ins \in SUBSET VM!Vtxos /\ {} \in SUBSET Boardings BY DEF VM!TypeOK
  <2>3. VM!SettleOk(call[r].ins, {}) \/ VM!SettleFails(call[r].ins, {}) BY <1>6 DEF VM!CallSettle
  <2>4. renewing' \in BOOLEAN /\ cool' \in BOOLEAN BY <1>6 DEF VM!CallSettle, VM!EndCall
  <2> QED BY <1>6, <2>1, <2>2, <2>3, <2>4, SettleTyped DEF VM!CallSettle, VM!TypeOK
<1> QED BY <1>1, <1>2, <1>3, <1>4, <1>5, <1>6 DEF VM!CallStep

\* The steps of the poll.
LEMMA PollTyped == ASSUME VM!ManagerAssumption, VM!TypeOK, VM!PollStep PROVE VM!TypeOK'
<1> USE DEF VM!ElsePoll, VM!env, VM!own, VM!PollStates
<1>1. CASE VM!PollStart
  <2>1. poll' \in PollType BY <1>1, PollSet DEF VM!PollStart, VM!Goto
  <2> QED BY <1>1, <2>1 DEF VM!PollStart, VM!coins, VM!TypeOK, PollType
<1>2. CASE VM!PollFetch
  <2>1. mbudget' \in 0..ManagerFaults BY <1>2, BudgetTyped DEF VM!PollFetch, VM!Fault, VM!NoFault
  <2> DEFINE L == {b \in Boardings : fate[b] = "unspent"}
  <2>2. L \in SUBSET Boardings OBVIOUS
  <2>3. \A X \in SUBSET Boardings : [poll EXCEPT !.pc = "decide", !.list = X] \in PollType
    BY PollSet
  <2>4. [poll EXCEPT !.pc = "decide", !.list = L] \in PollType BY <2>2, <2>3
  <2>5. [VM!Timer EXCEPT !.pc = "off"] \in PollType /\ VM!Timer \in PollType BY PollSet
  <2>6. poll' \in PollType BY <1>2, <2>4, <2>5 DEF VM!PollFetch, VM!EndPoll
  <2> QED BY <1>2, <2>1, <2>6 DEF VM!PollFetch, VM!coins, VM!TypeOK, PollType
<1>3. CASE VM!PollDecide
  <2>1. mbudget' \in 0..ManagerFaults BY <1>3, BudgetTyped DEF VM!PollDecide, VM!Fault, VM!NoFault
  <2> DEFINE D == {b \in poll.list : age[b] = "confirmed"} \ known
  <2>2. D \in SUBSET Boardings BY DEF VM!TypeOK
  <2>3. \A p \in {"price", "select"}, X \in SUBSET Boardings :
          [poll EXCEPT !.pc = p, !.boards = X] \in PollType
    BY PollSet DEF VM!PollStates
  <2>4. [poll EXCEPT !.pc = IF renewing THEN "price" ELSE "select", !.boards = D] \in PollType
    BY <2>2, <2>3
  <2>5. [VM!Timer EXCEPT !.pc = "sweep", !.list = poll.list] \in PollType BY PollSet
  <2>6. poll' \in PollType BY <1>3, <2>4, <2>5 DEF VM!PollDecide, VM!ToSweeping
  <2> QED BY <1>3, <2>1, <2>6 DEF VM!PollDecide, VM!coins, VM!TypeOK, PollType
<1>4. CASE VM!PollSelect
  <2>1. mbudget' \in 0..ManagerFaults BY <1>4, BudgetTyped DEF VM!PollSelect, VM!Fault, VM!NoFault
  <2>2. VM!Candidates \in SUBSET VM!Vtxos BY DEF VM!Candidates, VM!TypeOK
  <2>3. poll' \in PollType BY <1>4, <2>2, PollSet DEF VM!PollSelect, VM!Goto
  <2> QED BY <1>4, <2>1, <2>3 DEF VM!PollSelect, VM!coins, VM!TypeOK, PollType
<1>5. CASE VM!PollCheck
  <2>1. mbudget' \in 0..ManagerFaults BY <1>5, BudgetTyped DEF VM!PollCheck, VM!Fault, VM!NoFault
  <2>2. poll.ins \ spent \in SUBSET VM!Vtxos BY DEF VM!TypeOK
  <2>3. poll' \in PollType BY <1>5, <2>2, PollSet DEF VM!PollCheck, VM!Goto
  <2> QED BY <1>5, <2>1, <2>3 DEF VM!PollCheck, VM!TypeOK, PollType
<1>6. CASE VM!PollPrice
  <2>1. mbudget' \in 0..ManagerFaults BY <1>6, BudgetTyped DEF VM!PollPrice, VM!Fault, VM!NoFault
  <2>2. \A w, n : VM!Batch(poll.ins, w, n) \in SUBSET VM!Vtxos BY BatchOf DEF VM!TypeOK
  <2>3. poll' \in PollType
    <3> DEFINE B == VM!Batch(poll.ins, VM!Net, BoardingNet * VM!Cardinality(poll.boards))
    <3>1. poll' = [poll EXCEPT !.pc = "settle", !.ins = B] \/ VM!ToSweeping
      BY <1>6 DEF VM!PollPrice
    <3>2. B \in SUBSET VM!Vtxos BY <2>2
    <3> HIDE DEF B
    <3>3. [poll EXCEPT !.pc = "settle", !.ins = B] \in PollType
      BY <3>2, PollSet DEF VM!PollStates
    <3>4. [VM!Timer EXCEPT !.pc = "sweep", !.list = poll.list] \in PollType
      BY PollSet DEF VM!PollStates
    <3> QED BY <3>1, <3>3, <3>4 DEF VM!ToSweeping
  <2>4. renewing' \in BOOLEAN BY <1>6 DEF VM!PollPrice, VM!TypeOK
  <2> QED BY <1>6, <2>1, <2>3, <2>4 DEF VM!PollPrice, VM!coins, VM!TypeOK, PollType
<1>7. CASE VM!PollSettle
  <2>1. poll.ins \in SUBSET VM!Vtxos /\ poll.boards \in SUBSET Boardings BY DEF VM!TypeOK
  <2>2. VM!SettleOk(poll.ins, poll.boards) \/ VM!SettleFails(poll.ins, poll.boards)
    BY <1>7 DEF VM!PollSettle
  <2>3. known' \subseteq Boardings BY <1>7, <2>1 DEF VM!PollSettle, VM!TypeOK
  <2>4. renewing' \in BOOLEAN /\ cool' \in BOOLEAN /\ settled' \in BOOLEAN
    BY <1>7 DEF VM!PollSettle, VM!TypeOK
  <2>5. poll' \in PollType BY <1>7, PollSet DEF VM!PollSettle, VM!ToSweeping
  <2> QED BY <1>7, <2>1, <2>2, <2>3, <2>4, <2>5, SettleTyped DEF VM!PollSettle, VM!TypeOK, PollType
<1>8. CASE VM!PollSweep
  <2>1. mbudget' \in 0..ManagerFaults BY <1>8, BudgetTyped DEF VM!PollSweep, VM!Fault, VM!NoFault
  <2>2. VM!ToSweep \subseteq Boardings BY DEF VM!ToSweep, VM!TypeOK
  <2>3. fate' \in [Boardings -> {"unspent", "settled", "swept"}] /\ swept' \subseteq Boardings
    BY <1>8, <2>2 DEF VM!PollSweep, VM!TypeOK
  <2>4. poll' \in PollType BY <1>8, PollSet DEF VM!PollSweep, VM!EndPoll
  <2> QED BY <1>8, <2>1, <2>3, <2>4 DEF VM!PollSweep, VM!TypeOK, PollType
<1> QED BY <1>1, <1>2, <1>3, <1>4, <1>5, <1>6, <1>7, <1>8 DEF VM!PollStep

\* Time, other instances and disposal.
LEMMA TimeTyped ==
  ASSUME VM!ManagerAssumption, VM!TypeOK,
         \/ \E v \in VM!Vtxos : VM!Age(v) \/ VM!Elsewhere(v)
         \/ \E b \in Boardings : VM!Confirm(b) \/ VM!Expire(b)
         \/ VM!CoolDown \/ VM!Dispose \/ VM!Disposed
  PROVE  VM!TypeOK'
<1> USE DEF VM!ElseTime, VM!env, VM!own, VM!coins
<1>1. CASE \E v \in VM!Vtxos : VM!Age(v) BY <1>1 DEF VM!Age, VM!TypeOK
<1>2. CASE \E v \in VM!Vtxos : VM!Elsewhere(v)
  BY <1>2, BudgetTyped DEF VM!Elsewhere, VM!Fault, VM!TypeOK
<1>3. CASE \E b \in Boardings : VM!Confirm(b) \/ VM!Expire(b) BY <1>3 DEF VM!Confirm, VM!Expire, VM!TypeOK
<1>4. CASE VM!CoolDown BY <1>4 DEF VM!CoolDown, VM!TypeOK
<1>5. CASE VM!Dispose
  BY <1>5, BudgetTyped DEF VM!Dispose, VM!Fault, Polls, VM!Polls, VM!TypeOK, VM!PollStates
<1>6. CASE VM!Disposed BY <1>6 DEF VM!Disposed, VM!TypeOK
<1> QED BY <1>1, <1>2, <1>3, <1>4, <1>5, <1>6

LEMMA ManagerStepTyped == VM!ManagerAssumption /\ VM!TypeOK /\ [VM!Next]_VM!vars => VM!TypeOK'
<1> SUFFICES ASSUME VM!ManagerAssumption, VM!TypeOK, [VM!Next]_VM!vars PROVE VM!TypeOK'
  OBVIOUS
<1>1. CASE UNCHANGED VM!vars BY <1>1 DEF VM!vars, VM!env, VM!coins, VM!own, VM!TypeOK
<1>2. CASE VM!Event \/ \E r \in Calls : VM!Manual(r) \/ VM!CallStep(r) BY <1>2, CallsTyped
<1>3. CASE VM!PollStep BY <1>3, PollTyped
<1>4. CASE \/ \E v \in VM!Vtxos : VM!Age(v) \/ VM!Elsewhere(v)
           \/ \E b \in Boardings : VM!Confirm(b) \/ VM!Expire(b)
           \/ VM!CoolDown \/ VM!Dispose \/ VM!Disposed
  BY <1>4, TimeTyped
<1> QED BY <1>1, <1>2, <1>3, <1>4 DEF VM!Next

\* The types of the manager's state hold in every behaviour.
THEOREM ManagerTypeCorrect == VM!ManagerAssumption => (VM!Spec => []VM!TypeOK)
<1> SUFFICES ASSUME VM!ManagerAssumption PROVE VM!Spec => []VM!TypeOK
  OBVIOUS
<1>1. VM!Init => VM!TypeOK BY ManagerInitTyped
<1>2. VM!TypeOK /\ [VM!Next]_VM!vars => VM!TypeOK' BY ManagerStepTyped
<1> QED BY <1>1, <1>2, PTL DEF VM!Spec

\* FlagHeld is not inductive: a poll that settles boarding outputs only does not
\* take the flag down, so it must not be what holds it.
Held == renewing => (Polls("settle") /\ poll.ins # {}) \/ \E r \in Calls : ~Off(r)

\* Of a step of a call: it still runs, or the flag is down.
LEMMA CallKeepsFlag ==
  ASSUME VM!TypeOK, Held, NEW r \in Calls, VM!CallStep(r)
  PROVE  Held'
<1>1. CASE VM!EndCall(r, TRUE) \/ VM!EndCall(r, FALSE) BY <1>1 DEF VM!EndCall, Held
<1>2. CASE \E p \in {"check", "price", "settle"}, ins \in SUBSET VM!Vtxos : VM!Step(r, p, ins)
  BY <1>2 DEF VM!Step, Off, VM!Off, Held, VM!TypeOK
<1>3. VM!Candidates \in SUBSET VM!Vtxos /\ call[r].ins \in SUBSET VM!Vtxos
      /\ call[r].ins \ spent \in SUBSET VM!Vtxos /\ VM!Batch(call[r].ins, Value, 0) \in SUBSET VM!Vtxos
  BY BatchOf DEF VM!Candidates, VM!TypeOK
<1> QED
  BY <1>1, <1>2, <1>3 DEF VM!CallStep, VM!CallSelect, VM!CallCheck, VM!CallPrice, VM!CallSettle

\* Of a step of the poll.
LEMMA PollKeepsFlag == ASSUME VM!TypeOK, Held, VM!PollStep PROVE Held'
<1>1. \A r \in Calls : Off(r)' <=> Off(r)
  BY DEF VM!PollStep, VM!PollStart, VM!PollFetch, VM!PollDecide, VM!PollSelect, VM!PollCheck, VM!PollPrice,
         VM!PollSettle, VM!PollSweep, VM!ElsePoll, Off, VM!Off
<1>2. CASE VM!PollPrice
  <2>1. CASE UNCHANGED renewing BY <1>1, <1>2, <2>1 DEF VM!PollPrice, Held, Polls, VM!Polls
  <2>2. CASE poll' = [poll EXCEPT !.pc = "settle", !.ins = VM!Batch(poll.ins, VM!Net,
                        BoardingNet * VM!Cardinality(poll.boards))]
             /\ renewing' = (renewing \/ VM!Batch(poll.ins, VM!Net,
                        BoardingNet * VM!Cardinality(poll.boards)) # {})
    <3>1. poll'.pc = "settle" /\ poll'.ins = VM!Batch(poll.ins, VM!Net,
                        BoardingNet * VM!Cardinality(poll.boards))
      BY <2>2 DEF VM!TypeOK
    <3> QED BY <1>1, <1>2, <2>2, <3>1 DEF VM!PollPrice, Held, Polls, VM!Polls
  <2> QED BY <1>2, <2>1, <2>2 DEF VM!PollPrice
<1>3. CASE VM!PollSettle
  <2>1. CASE poll.ins # {} BY <1>3, <2>1 DEF VM!PollSettle, Held
  <2>2. CASE poll.ins = {} BY <1>1, <1>3, <2>2 DEF VM!PollSettle, Held
  <2> QED BY <2>1, <2>2
<1>4. CASE ~Polls("settle") /\ UNCHANGED renewing BY <1>1, <1>4 DEF Held
<1> QED BY <1>2, <1>3, <1>4 DEF VM!PollStep, VM!PollStart, VM!PollFetch, VM!PollDecide, VM!PollSelect, VM!PollCheck,
        VM!PollSweep, Polls, VM!Polls

\* Of any step.
LEMMA StepKeepsFlag == VM!TypeOK /\ Held /\ [VM!Next]_VM!vars => Held'
<1> SUFFICES ASSUME VM!TypeOK, Held, [VM!Next]_VM!vars PROVE Held'
  OBVIOUS
<1>1. CASE UNCHANGED VM!vars BY <1>1 DEF VM!vars, Held, Polls, VM!Polls, Off, VM!Off
<1>2. ASSUME NEW r \in Calls, VM!Start(r) PROVE \E q \in Calls : ~Off(q)'
  BY <1>2 DEF VM!Start, VM!Step, Off, VM!Off, VM!TypeOK
<1>3. CASE VM!Event BY <1>2, <1>3 DEF VM!Event, VM!ElseCall, Held, Polls, VM!Polls, Off, VM!Off
<1>4. CASE \E r \in Calls : VM!Manual(r) BY <1>2, <1>4 DEF VM!Manual, Held
<1>5. CASE \E r \in Calls : VM!CallStep(r) BY <1>5, CallKeepsFlag
<1>6. CASE VM!PollStep BY <1>6, PollKeepsFlag
<1>7. CASE (\E v \in VM!Vtxos : VM!Age(v) \/ VM!Elsewhere(v)) \/ (\E b \in Boardings : VM!Confirm(b) \/ VM!Expire(b))
           \/ VM!CoolDown \/ VM!Disposed
  BY <1>7 DEF VM!Age, VM!Elsewhere, VM!Confirm, VM!Expire, VM!CoolDown, VM!Disposed, VM!ElseTime, Held, Polls, VM!Polls, Off, VM!Off
<1>8. CASE VM!Dispose BY <1>8 DEF VM!Dispose, Held, Polls, VM!Polls, Off, VM!Off
<1> QED BY <1>1, <1>3, <1>4, <1>5, <1>6, <1>7, <1>8 DEF VM!Next

\* The renewal flag is held by somebody who will take it down: whatever fails, and
\* however the poll and the renewals overlap, it is never left up.
THEOREM FlagIsHeld == VM!ManagerAssumption => (VM!Spec => []FlagHeld)
<1> SUFFICES ASSUME VM!ManagerAssumption PROVE VM!Spec => []FlagHeld
  OBVIOUS
<1>1. VM!Init => Held BY DEF VM!Init, Held
<1>2. Held => FlagHeld BY DEF Held, FlagHeld
<1> QED BY <1>1, <1>2, ManagerTypeCorrect, StepKeepsFlag, PTL DEF VM!Spec
=============================================================================

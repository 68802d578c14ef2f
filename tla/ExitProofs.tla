----------------------------- MODULE ExitProofs -----------------------------
(***************************************************************************)
(* Proofs about unilateral exits, for any layouts, delays and faults: what  *)
(* the planning computes, that a package is whole and in order, and that a  *)
(* branch is given up only for a cause.                                     *)
(***************************************************************************)
EXTENDS ExitExecutor, FiniteSetTheorems, SequenceTheorems, WellFoundedInduction, TLAPS

-----------------------------------------------------------------------------
(* Induction.  A property of the steps of an algorithm is proved of the     *)
(* least step that would not have it.                                       *)

\* A set of naturals has a least member.
LEMMA Least ==
  ASSUME NEW T, T \subseteq Nat, T # {}
  PROVE  \E x \in T : \A y \in T : x <= y
<1>1. PICK x \in T : \A y \in T : ~ (<<y, x>> \in OpToRel(<, Nat))
  BY NatLessThanWellFounded, WFMin
<1>2. ASSUME NEW y \in T, y < x PROVE FALSE
  <2>1. y \in Nat /\ x \in Nat /\ <<y, x>>[1] < <<y, x>>[2] BY <1>2
  <2>2. <<y, x>> \in OpToRel(<, Nat) BY <2>1, Zenon DEF OpToRel
  <2> QED BY <1>1, <2>2
<1>3. \A y \in T : y \in Nat /\ x \in Nat BY <1>1
<1> QED BY <1>2, <1>3

\* What holds at the start and is kept by each step holds after every step.
LEMMA Inducted ==
  ASSUME NEW N \in Nat, NEW P, 0 \in P, \A n \in 1 .. N : n - 1 \in P => n \in P
  PROVE  \A n \in 0 .. N : n \in P
<1> DEFINE T == {n \in 0 .. N : n \notin P}
<1> SUFFICES ASSUME T # {} PROVE FALSE OBVIOUS
<1>1. T \subseteq Nat OBVIOUS
<1>2. PICK n \in T : \A y \in T : n <= y BY <1>1, Least
<1>3. n \in 1 .. N BY <1>2
<1>4. n - 1 \in 0 .. N /\ n - 1 \notin T BY <1>2, <1>3
<1> QED BY <1>2, <1>3, <1>4

\* A function that is given by its first value and a step exists.
Iterates(f, N, A, a, step) ==
    /\ f \in [0 .. N -> A]
    /\ f[0] = a /\ \A n \in 1 .. N : f[n] = step[n][f[n - 1]]

LEMMA Iterated ==
  ASSUME NEW N \in Nat, NEW A, NEW a \in A, NEW step \in [1 .. N -> [A -> A]]
  PROVE  \E f : Iterates(f, N, A, a, step)
<1> DEFINE Upto(f, m) == Iterates(f, m, A, a, step)
           P == {m \in 0 .. N : \E f : Upto(f, m)}
<1>1. 0 \in P
  <2> DEFINE f == [n \in 0 .. 0 |-> a]
  <2>1. Upto(f, 0) BY DEF Iterates
  <2> HIDE DEF f
  <2> QED BY <2>1
<1>2. ASSUME NEW m \in 1 .. N, m - 1 \in P PROVE m \in P
  <2>1. PICK g : Upto(g, m - 1) BY <1>2
  <2> DEFINE f == [n \in 0 .. m |-> IF n = m THEN step[m][g[m - 1]] ELSE g[n]]
  <2>2. g[m - 1] \in A /\ step[m][g[m - 1]] \in A BY <2>1 DEF Iterates
  <2>3. f \in [0 .. m -> A] BY <2>1, <2>2 DEF Iterates
  <2>4. ASSUME NEW n \in 1 .. m PROVE f[n] = step[n][f[n - 1]]
    <3>1. n - 1 \in 0 .. m /\ n - 1 # m /\ f[n - 1] = g[n - 1] /\ n \in 0 .. m OBVIOUS
    <3>2. CASE n = m BY <3>1, <3>2
    <3>3. CASE n # m
      <4>1. n \in 1 .. m - 1 /\ f[n] = g[n] BY <3>1, <3>3
      <4> QED BY <2>1, <3>1, <4>1 DEF Iterates
    <3> QED BY <3>2, <3>3
  <2>5. f[0] = a BY <2>1 DEF Iterates
  <2>6. Upto(f, m) BY <2>3, <2>4, <2>5 DEF Iterates
  <2> HIDE DEF f
  <2> QED BY <2>6
<1>3. N \in P
  <2> HIDE DEF P
  <2>1. \A m \in 1 .. N : m - 1 \in P => m \in P BY <1>2
  <2>2. \A m \in 0 .. N : m \in P BY <1>1, <2>1, Inducted
  <2> QED BY <2>2
<1> QED BY <1>3

-----------------------------------------------------------------------------
(* Sequences.                                                               *)

\* What Append adds.
LEMMA Appended ==
  ASSUME NEW s \in Seq(Nat), NEW e \in Nat
  PROVE  /\ Append(s, e) \in Seq(Nat)
         /\ ToSet(Append(s, e)) = ToSet(s) \cup {e}
         /\ IsInjective(s) /\ e \notin ToSet(s) => IsInjective(Append(s, e))
<1>1. Append(s, e) \in Seq(Nat) /\ Len(Append(s, e)) = Len(s) + 1
      /\ Append(s, e)[Len(s) + 1] = e /\ \A m \in 1 .. Len(s) : Append(s, e)[m] = s[m]
  OBVIOUS
<1>2. DOMAIN s = 1 .. Len(s) /\ DOMAIN Append(s, e) = 1 .. Len(s) + 1 /\ Len(s) \in Nat
  BY <1>1
<1>3. ToSet(Append(s, e)) = ToSet(s) \cup {e} BY <1>1, <1>2 DEF ToSet
<1>4. IsInjective(s) /\ e \notin ToSet(s) => IsInjective(Append(s, e))
  BY <1>1, <1>2 DEF ToSet, IsInjective
<1> QED BY <1>1, <1>3, <1>4

\* What Tail leaves.
LEMMA Tailed ==
  ASSUME NEW s \in Seq(Nat), s # <<>>
  PROVE  /\ Tail(s) \in Seq(Nat) /\ Head(s) \in Nat /\ Len(Tail(s)) = Len(s) - 1
         /\ Head(s) \in ToSet(s) /\ ToSet(s) = ToSet(Tail(s)) \cup {Head(s)}
         /\ IsInjective(s) => IsInjective(Tail(s)) /\ Head(s) \notin ToSet(Tail(s))
<1>1. Tail(s) \in Seq(Nat) /\ Len(Tail(s)) = Len(s) - 1 /\ Head(s) = s[1] /\ Len(s) \in Nat \ {0}
      /\ \A m \in 1 .. Len(s) - 1 : Tail(s)[m] = s[m + 1]
  OBVIOUS
<1>2. DOMAIN s = 1 .. Len(s) /\ DOMAIN Tail(s) = 1 .. Len(s) - 1 BY <1>1
<1>3. Head(s) \in ToSet(s) /\ ToSet(Tail(s)) \subseteq ToSet(s) BY <1>1, <1>2 DEF ToSet
<1>4. ASSUME NEW m \in DOMAIN s PROVE s[m] \in ToSet(Tail(s)) \cup {Head(s)}
  <2>1. CASE m = 1 BY <1>1, <2>1
  <2>2. CASE m # 1
    <3>1. m - 1 \in DOMAIN Tail(s) /\ Tail(s)[m - 1] = s[m] BY <1>1, <1>2, <2>2
    <3> QED BY <3>1 DEF ToSet
  <2> QED BY <2>1, <2>2
<1>5. ToSet(s) = ToSet(Tail(s)) \cup {Head(s)} BY <1>3, <1>4 DEF ToSet
<1>6. ASSUME IsInjective(s) PROVE IsInjective(Tail(s)) /\ Head(s) \notin ToSet(Tail(s))
  <2>1. ASSUME NEW m \in DOMAIN Tail(s), NEW n \in DOMAIN Tail(s), Tail(s)[m] = Tail(s)[n]
        PROVE  m = n
    <3>1. m + 1 \in DOMAIN s /\ n + 1 \in DOMAIN s /\ s[m + 1] = s[n + 1] BY <1>1, <1>2, <2>1
    <3>2. m + 1 = n + 1 BY <1>6, <3>1 DEF IsInjective
    <3> QED BY <1>2, <3>2
  <2>2. ASSUME NEW m \in DOMAIN Tail(s) PROVE Tail(s)[m] # Head(s)
    <3>1. m + 1 \in DOMAIN s /\ 1 \in DOMAIN s /\ m + 1 # 1 BY <1>1, <1>2
    <3>2. s[m + 1] # s[1] BY <1>6, <3>1 DEF IsInjective
    <3> QED BY <1>1, <1>2, <3>2
  <2> QED BY <2>1, <2>2 DEF IsInjective, ToSet
<1> QED BY <1>1, <1>3, <1>5, <1>6

\* Where the members of a concatenation are.
LEMMA JoinedAt ==
  ASSUME NEW S, NEW s \in Seq(S), NEW t \in Seq(S)
  PROVE  /\ s \o t \in Seq(S) /\ Len(s \o t) = Len(s) + Len(t)
         /\ \A m \in 1 .. Len(s) : (s \o t)[m] = s[m]
         /\ \A m \in 1 .. Len(t) : (s \o t)[Len(s) + m] = t[m]
  OBVIOUS

\* What a concatenation has.
LEMMA Joined ==
  ASSUME NEW s \in Seq(Nat), NEW t \in Seq(Nat)
  PROVE  /\ s \o t \in Seq(Nat)
         /\ ToSet(s \o t) = ToSet(s) \cup ToSet(t)
         /\ IsInjective(s) /\ IsInjective(t) /\ ToSet(s) \cap ToSet(t) = {}
              => IsInjective(s \o t)
<1>1. s \o t \in Seq(Nat) /\ Len(s \o t) = Len(s) + Len(t) /\ Len(s) \in Nat /\ Len(t) \in Nat
  OBVIOUS
<1>2. \A m \in 1 .. Len(s) : (s \o t)[m] = s[m] OBVIOUS
<1>3. \A m \in 1 .. Len(t) : (s \o t)[Len(s) + m] = t[m] OBVIOUS
<1>4. \A m \in 1 .. Len(s) + Len(t) : m \in 1 .. Len(s) \/ (m - Len(s) \in 1 .. Len(t)
                                       /\ (s \o t)[m] = t[m - Len(s)])
  OBVIOUS
<1>5. DOMAIN s = 1 .. Len(s) /\ DOMAIN t = 1 .. Len(t) /\ DOMAIN (s \o t) = 1 .. Len(s) + Len(t)
  BY <1>1
<1>6. \A m \in DOMAIN s : m \in DOMAIN (s \o t) BY <1>1, <1>5
<1>7. \A m \in DOMAIN t : Len(s) + m \in DOMAIN (s \o t) BY <1>1, <1>5
<1>8. ToSet(s \o t) = ToSet(s) \cup ToSet(t)
  <2>1. \A m \in DOMAIN s : s[m] \in ToSet(s \o t) BY <1>2, <1>5, <1>6 DEF ToSet
  <2>2. \A m \in DOMAIN t : t[m] \in ToSet(s \o t) BY <1>3, <1>5, <1>7 DEF ToSet
  <2>3. \A m \in DOMAIN (s \o t) : (s \o t)[m] \in ToSet(s) \cup ToSet(t)
    BY <1>2, <1>4, <1>5 DEF ToSet
  <2> QED BY <2>1, <2>2, <2>3 DEF ToSet
<1>9. ASSUME IsInjective(s), IsInjective(t), ToSet(s) \cap ToSet(t) = {},
             NEW m \in DOMAIN (s \o t), NEW n \in DOMAIN (s \o t), (s \o t)[m] = (s \o t)[n]
      PROVE  m = n
  <2>1. CASE m \in DOMAIN s /\ n \in DOMAIN s BY <1>2, <1>5, <1>9, <2>1 DEF IsInjective
  <2>2. CASE m \in DOMAIN s /\ n \notin DOMAIN s
    BY <1>2, <1>4, <1>5, <1>9, <2>2 DEF ToSet
  <2>3. CASE m \notin DOMAIN s /\ n \in DOMAIN s
    BY <1>2, <1>4, <1>5, <1>9, <2>3 DEF ToSet
  <2>4. CASE m \notin DOMAIN s /\ n \notin DOMAIN s
    <3>1. m - Len(s) \in DOMAIN t /\ n - Len(s) \in DOMAIN t /\ t[m - Len(s)] = t[n - Len(s)]
      BY <1>4, <1>5, <1>9, <2>4
    <3>2. m - Len(s) = n - Len(s) BY <1>9, <3>1 DEF IsInjective
    <3> QED BY <1>1, <1>5, <3>2
  <2> QED BY <2>1, <2>2, <2>3, <2>4
<1> QED BY <1>1, <1>8, <1>9 DEF IsInjective

\* A sequence without repetitions is as long as its set is large.
LEMMA Counted ==
  ASSUME NEW s \in Seq(Nat), IsInjective(s)
  PROVE  IsFiniteSet(ToSet(s)) /\ Cardinality(ToSet(s)) = Len(s)
<1>1. DOMAIN s = 1 .. Len(s) /\ Len(s) \in Nat OBVIOUS
<1>2. s \in [1 .. Len(s) -> ToSet(s)] BY <1>1 DEF ToSet
<1>3. s \in Bijection(1 .. Len(s), ToSet(s))
  BY <1>1, <1>2 DEF Bijection, Injection, Surjection, ToSet, IsInjective
<1>4. ExistsBijection(1 .. Len(s), ToSet(s)) BY <1>3 DEF ExistsBijection
<1>5. IsFiniteSet(1 .. Len(s)) BY <1>1, FS_Interval
<1> QED BY <1>1, <1>4, <1>5, FS_CountingElements, FS_Bijection

\* A finite set of naturals can be written in order.
Sorted(s, S) ==
    /\ s \in [1 .. Cardinality(S) -> S]
    /\ \A m, n \in DOMAIN s : m < n => s[m] < s[n]

LEMMA SortedExists ==
  ASSUME NEW S \in SUBSET Nat, IsFiniteSet(S)
  PROVE  \E s : Sorted(s, S)
<1> DEFINE Bad == {A \in SUBSET Nat : IsFiniteSet(A) /\ ~ \E s : Sorted(s, A)}
           T == {Cardinality(A) : A \in Bad}
<1> SUFFICES ASSUME Bad # {} PROVE FALSE OBVIOUS
<1>1. T \subseteq Nat /\ T # {} BY FS_CardinalityType
<1>2. PICK n \in T : \A y \in T : n <= y BY <1>1, Least
<1>3. PICK A \in Bad : n = Cardinality(A) BY <1>2
<1>4. n \in Nat BY <1>1, <1>2
<1>5. CASE A = {}
  <2>1. n = 0 BY <1>3, <1>5, FS_EmptySet
  <2>2. Sorted(<<>>, A) BY <1>3, <2>1 DEF Sorted
  <2> QED BY <2>2
<1>6. CASE A # {}
  <2>1. PICK x \in A : \A y \in A : x <= y BY <1>6, Least
  <2> DEFINE B == A \ {x}
  <2>2. IsFiniteSet(B) /\ Cardinality(B) = n - 1 /\ n > 0
    <3>1. IsFiniteSet(A) BY <1>3
    <3>2. IsFiniteSet(B) /\ Cardinality(B) = n - 1 BY <1>3, <2>1, <3>1, FS_RemoveElement
    <3> QED BY <1>4, <3>2, FS_CardinalityType
  <2>3. B \in SUBSET Nat /\ B \notin Bad
    <3>1. Cardinality(B) \notin T BY <1>2, <1>4, <2>2
    <3> QED BY <3>1
  <2>4. PICK s : Sorted(s, B) BY <2>2, <2>3
  <2> DEFINE t == [m \in 1 .. n |-> IF m = 1 THEN x ELSE s[m - 1]]
  <2>5. DOMAIN s = 1 .. n - 1 /\ \A m \in 1 .. n - 1 : s[m] \in A /\ s[m] \in Nat /\ x < s[m]
    <3>1. DOMAIN s = 1 .. n - 1 /\ \A m \in 1 .. n - 1 : s[m] \in B BY <2>2, <2>4 DEF Sorted
    <3>2. \A y \in B : y \in Nat /\ x \in Nat /\ x < y BY <2>1
    <3> QED BY <3>1, <3>2
  <2>6. \A m \in 2 .. n : m - 1 \in 1 .. n - 1 /\ t[m] = s[m - 1] BY <1>4
  <2>7. t \in [1 .. n -> A]
    <3>1. ASSUME NEW m \in 1 .. n PROVE t[m] \in A
      <4>1. CASE m = 1 BY <2>1, <4>1
      <4>2. CASE m # 1 BY <1>4, <2>5, <2>6, <4>2
      <4> QED BY <4>1, <4>2
    <3> QED BY <3>1
  <2>8. ASSUME NEW m \in 1 .. n, NEW p \in 1 .. n, m < p PROVE t[m] < t[p]
    <3>1. p \in 2 .. n BY <1>4, <2>8
    <3>2. CASE m = 1 BY <2>5, <2>6, <3>1, <3>2
    <3>3. CASE m # 1
      <4>1. m \in 2 .. n /\ m - 1 < p - 1 BY <1>4, <2>8, <3>3
      <4>2. s[m - 1] < s[p - 1] BY <2>4, <2>5, <2>6, <3>1, <4>1 DEF Sorted
      <4> QED BY <2>6, <3>1, <4>1, <4>2
    <3> QED BY <3>2, <3>3
  <2>9. Sorted(t, A) BY <1>3, <2>7, <2>8 DEF Sorted
  <2> QED BY <2>9
<1> QED BY <1>5, <1>6

\* What Ascending lists: each member once.
LEMMA AscendingLists ==
  ASSUME NEW S \in SUBSET Nat, IsFiniteSet(S)
  PROVE  /\ Ascending(S) \in Seq(Nat) /\ IsInjective(Ascending(S))
         /\ ToSet(Ascending(S)) = S
<1> DEFINE s == Ascending(S)
<1>1. Sorted(s, S) BY SortedExists DEF Ascending, Sorted
<1>2. Cardinality(S) \in Nat BY FS_CardinalityType
<1>3. s \in Seq(Nat) /\ Len(s) = Cardinality(S) /\ DOMAIN s = 1 .. Cardinality(S)
  <2>1. s \in [1 .. Cardinality(S) -> Nat] BY <1>1 DEF Sorted
  <2>2. s \in Seq(Nat) BY <1>2, <2>1, SeqDef
  <2> QED BY <1>2, <2>1, <2>2
<1>4. IsInjective(s)
  <2>1. ASSUME NEW m \in DOMAIN s, NEW n \in DOMAIN s, s[m] = s[n] PROVE m = n
    <3>1. m \in Int /\ n \in Int /\ s[m] \in Nat BY <1>1, <1>2, <1>3 DEF Sorted
    <3> QED BY <1>1, <2>1, <3>1 DEF Sorted
  <2> QED BY <2>1 DEF IsInjective
<1>5. ToSet(s) \in SUBSET S BY <1>1, <1>3 DEF Sorted, ToSet
<1>6. ToSet(s) = S BY <1>3, <1>4, <1>5, Counted, FS_Subset
<1> QED BY <1>3, <1>4, <1>6

-----------------------------------------------------------------------------
(* Keep.                                                                    *)

\* One comes before the other.
Before(s, a, b) == \E m, n \in DOMAIN s : m < n /\ s[m] = a /\ s[n] = b

LEMMA AppendedAfter ==
  ASSUME NEW s \in Seq(Nat), NEW e \in Nat
  PROVE  /\ \A a, b : Before(s, a, b) => Before(Append(s, e), a, b)
         /\ \A a \in ToSet(s) : Before(Append(s, e), a, e)
<1>1. Len(Append(s, e)) = Len(s) + 1 /\ Len(s) \in Nat
      /\ Append(s, e)[Len(s) + 1] = e /\ \A m \in 1 .. Len(s) : Append(s, e)[m] = s[m]
  OBVIOUS
<1>2. DOMAIN s = 1 .. Len(s) /\ DOMAIN Append(s, e) = 1 .. Len(s) + 1 BY <1>1
<1>3. \A m \in DOMAIN s : m \in DOMAIN Append(s, e) /\ Append(s, e)[m] = s[m]
                          /\ m < Len(s) + 1 /\ Len(s) + 1 \in DOMAIN Append(s, e)
  BY <1>1, <1>2
<1>4. \A a, b : Before(s, a, b) => Before(Append(s, e), a, b) BY <1>3 DEF Before
<1>5. \A a \in ToSet(s) : Before(Append(s, e), a, e) BY <1>1, <1>3 DEF Before, ToSet
<1> QED BY <1>4, <1>5

\* What Keep(items, S) has kept of the first n items.
KeptOf(items, S, n, s) ==
    /\ s \in Seq(Nat)
    /\ ToSet(s) = {items[m] : m \in 1 .. n} \cap S
    /\ IsInjective(items) => IsInjective(s)
    /\ \A m, p \in 1 .. n : m < p /\ items[m] \in S /\ items[p] \in S => Before(s, items[m], items[p])

\* Keep keeps what is in S, in order.
LEMMA KeepOf ==
  ASSUME NEW items \in Seq(Nat), NEW S
  PROVE  KeptOf(items, S, Len(items), Keep(items, S))
<1> DEFINE N == Len(items)
           Kept[n \in 0 .. N] ==
             IF n = 0 THEN <<>>
             ELSE IF items[n] \in S THEN Append(Kept[n - 1], items[n])
             ELSE Kept[n - 1]
           step == [n \in 1 .. N |-> [s \in Seq(Nat) |->
                      IF items[n] \in S THEN Append(s, items[n]) ELSE s]]
<1>1. N \in Nat /\ DOMAIN items = 1 .. N /\ \A n \in 1 .. N : items[n] \in Nat OBVIOUS
<1>2. \E f : f = [n \in 0 .. N |-> IF n = 0 THEN <<>>
                                   ELSE IF items[n] \in S THEN Append(f[n - 1], items[n])
                                   ELSE f[n - 1]]
  <2>1. step \in [1 .. N -> [Seq(Nat) -> Seq(Nat)]] BY <1>1
  <2>2. <<>> \in Seq(Nat) OBVIOUS
  <2>3. \E f : Iterates(f, N, Seq(Nat), <<>>, step)
    <3> HIDE DEF step, N
    <3> QED BY <1>1, <2>1, <2>2, Iterated
  <2>4. PICK f : Iterates(f, N, Seq(Nat), <<>>, step) BY <2>3
  <2>5. ASSUME NEW n \in 0 .. N, n # 0
        PROVE  f[n] = IF items[n] \in S THEN Append(f[n - 1], items[n]) ELSE f[n - 1]
    <3>1. n \in 1 .. N /\ n - 1 \in 0 .. N BY <1>1, <2>5
    <3>2. f[n - 1] \in Seq(Nat) BY <2>4, <3>1 DEF Iterates
    <3>3. f[n] = step[n][f[n - 1]] BY <2>4, <3>1 DEF Iterates
    <3> QED BY <3>1, <3>2, <3>3
  <2>6. f = [n \in 0 .. N |-> IF n = 0 THEN <<>>
                              ELSE IF items[n] \in S THEN Append(f[n - 1], items[n])
                              ELSE f[n - 1]]
    BY <2>4, <2>5 DEF Iterates
  <2> QED BY <2>6
<1>3. Kept = [n \in 0 .. N |-> IF n = 0 THEN <<>>
                               ELSE IF items[n] \in S THEN Append(Kept[n - 1], items[n])
                               ELSE Kept[n - 1]]
  BY <1>2
<1>4. Keep(items, S) = Kept[N] BY DEF Keep
<1> HIDE DEF Kept, N
<1> DEFINE P == {n \in 0 .. N : KeptOf(items, S, n, Kept[n])}
<1>5. 0 \in P
  <2>1. Kept[0] = <<>> /\ 0 \in 0 .. N BY <1>1, <1>3
  <2>2. KeptOf(items, S, 0, <<>>) BY DEF KeptOf, ToSet, IsInjective
  <2> QED BY <2>1, <2>2
<1>6. ASSUME NEW n \in 1 .. N, n - 1 \in P PROVE n \in P
  <2> DEFINE s == Kept[n - 1]
             e == items[n]
  <2>1. KeptOf(items, S, n - 1, s) BY <1>6
  <2>3. e \in Nat /\ n \in 0 .. N /\ n # 0 BY <1>1
  <2>2. Kept[n] = IF e \in S THEN Append(s, e) ELSE s BY <1>3, <2>3
  <2> HIDE DEF s
  <2>4. \A m \in 1 .. n : m # n => m \in 1 .. n - 1 BY <1>1
  <2>5. {items[m] : m \in 1 .. n} = {items[m] : m \in 1 .. n - 1} \cup {e} BY <1>1
  <2>6. CASE e \in S
    <3>1. s \in Seq(Nat) /\ Append(s, e) \in Seq(Nat) /\ ToSet(Append(s, e)) = ToSet(s) \cup {e}
      BY <2>1, <2>3, Appended DEF KeptOf
    <3>2. ToSet(Append(s, e)) = {items[m] : m \in 1 .. n} \cap S
      BY <2>1, <2>5, <2>6, <3>1 DEF KeptOf
    <3>3. ASSUME IsInjective(items) PROVE IsInjective(Append(s, e))
      <4>1. \A m \in 1 .. n - 1 : items[m] # items[n] BY <1>1, <3>3 DEF IsInjective
      <4>2. e \notin ToSet(s) BY <2>1, <4>1 DEF KeptOf
      <4> QED BY <2>1, <2>3, <3>1, <3>3, <4>2, Appended DEF KeptOf
    <3>4. ASSUME NEW m \in 1 .. n, NEW p \in 1 .. n, m < p, items[m] \in S, items[p] \in S
          PROVE  Before(Append(s, e), items[m], items[p])
      <4>1. m \in 1 .. n - 1 BY <1>1, <3>4
      <4>2. CASE p = n
        <5>1. items[m] \in ToSet(s) BY <2>1, <3>4, <4>1 DEF KeptOf
        <5> QED BY <2>3, <3>1, <4>2, <5>1, AppendedAfter
      <4>3. CASE p # n
        <5>1. p \in 1 .. n - 1 BY <2>4, <4>3
        <5>2. Before(s, items[m], items[p]) BY <2>1, <3>4, <4>1, <5>1 DEF KeptOf
        <5> QED BY <2>3, <3>1, <5>2, AppendedAfter
      <4> QED BY <4>2, <4>3
    <3>5. KeptOf(items, S, n, Append(s, e)) BY <3>1, <3>2, <3>3, <3>4 DEF KeptOf
    <3> QED BY <2>2, <2>3, <2>6, <3>5
  <2>7. CASE e \notin S
    <3>1. ToSet(s) = {items[m] : m \in 1 .. n} \cap S BY <2>1, <2>5, <2>7 DEF KeptOf
    <3>2. \A m \in 1 .. n : items[m] \in S => m \in 1 .. n - 1 BY <2>4, <2>7
    <3>3. KeptOf(items, S, n, s) BY <2>1, <3>1, <3>2 DEF KeptOf
    <3> QED BY <2>2, <2>3, <2>7, <3>3
  <2> QED BY <2>6, <2>7
<1>7. N \in P
  <2> HIDE DEF P
  <2>1. \A m \in 1 .. N : m - 1 \in P => m \in P BY <1>6
  <2>2. \A m \in 0 .. N : m \in P BY <1>1, <1>5, <2>1, Inducted
  <2> QED BY <1>1, <2>2
<1> QED BY <1>4, <1>7 DEF N

-----------------------------------------------------------------------------
(* Kahn's algorithm.                                                        *)

KahnState == [order : Seq(Nat), queue : Seq(Nat)]

\* Each transaction is in the order or the queue at most once, and its parents
\* come before it.
Ordering(l, s) ==
    /\ s \in KahnState
    /\ IsInjective(s.order) /\ IsInjective(s.queue) /\ ToSet(s.order) \cap ToSet(s.queue) = {}
    /\ \A t \in ToSet(s.order) \cup ToSet(s.queue) :
           t \in l.txs /\ Parents(l, t) \subseteq ToSet(s.order)

LEMMA Visited ==
  ASSUME NEW l, l.txs \subseteq Nat, IsFiniteSet(l.txs), NEW s \in KahnState
  PROVE  /\ Visit(l, s) \in KahnState
         /\ Ordering(l, s) => Ordering(l, Visit(l, s))
<1>1. CASE s.queue = <<>> BY <1>1 DEF Visit
<1>2. CASE s.queue # <<>>
  <2> DEFINE h == Head(s.queue)
             order == Append(s.order, h)
             freed == {t \in l.txs : h \in l.spends[t] /\ Parents(l, t) \subseteq ToSet(order)}
             queue == Tail(s.queue) \o Ascending(freed)
  <2>1. Visit(l, s) = [order |-> order, queue |-> queue] BY <1>2 DEF Visit
  <2>2. s.order \in Seq(Nat) /\ s.queue \in Seq(Nat) BY DEF KahnState
  <2>3. /\ Tail(s.queue) \in Seq(Nat) /\ h \in Nat
        /\ h \in ToSet(s.queue) /\ ToSet(s.queue) = ToSet(Tail(s.queue)) \cup {h}
        /\ IsInjective(s.queue) => IsInjective(Tail(s.queue)) /\ h \notin ToSet(Tail(s.queue))
    BY <1>2, <2>2, Tailed
  <2>4. /\ order \in Seq(Nat) /\ ToSet(order) = ToSet(s.order) \cup {h}
        /\ IsInjective(s.order) /\ h \notin ToSet(s.order) => IsInjective(order)
    BY <2>2, <2>3, Appended
  <2>5. freed \in SUBSET Nat /\ freed \in SUBSET l.txs OBVIOUS
  <2>6. IsFiniteSet(freed) BY <2>5, FS_Subset
  <2>7. /\ Ascending(freed) \in Seq(Nat) /\ IsInjective(Ascending(freed))
        /\ ToSet(Ascending(freed)) = freed
    BY <2>5, <2>6, AscendingLists
  <2>8. /\ queue \in Seq(Nat) /\ ToSet(queue) = ToSet(Tail(s.queue)) \cup freed
        /\ IsInjective(Tail(s.queue)) /\ ToSet(Tail(s.queue)) \cap freed = {} => IsInjective(queue)
    BY <2>3, <2>7, Joined
  <2>9. Visit(l, s) \in KahnState BY <2>1, <2>4, <2>8 DEF KahnState
  <2>10. ASSUME Ordering(l, s) PROVE Ordering(l, [order |-> order, queue |-> queue])
    <3>1. h \notin ToSet(s.order) /\ h \in l.txs BY <2>3, <2>10 DEF Ordering
    <3>2. ASSUME NEW t \in freed PROVE t \notin ToSet(s.order) \cup ToSet(s.queue)
      <4>1. h \in Parents(l, t) BY <3>1 DEF Parents
      <4> QED BY <2>10, <3>1, <4>1 DEF Ordering
    <3>3. IsInjective(order) /\ IsInjective(queue)
      BY <2>3, <2>4, <2>8, <2>10, <3>1, <3>2 DEF Ordering
    <3>4. ToSet(order) \cap ToSet(queue) = {}
      BY <2>3, <2>4, <2>8, <2>10, <3>2 DEF Ordering
    <3>5. ASSUME NEW t \in ToSet(order) \cup ToSet(queue)
          PROVE  t \in l.txs /\ Parents(l, t) \subseteq ToSet(order)
      <4>1. CASE t \in freed BY <4>1
      <4>2. CASE t \in ToSet(s.order) \cup ToSet(s.queue) BY <2>4, <2>10, <4>2 DEF Ordering
      <4> QED BY <2>3, <2>4, <2>8, <3>5, <4>1, <4>2
    <3> HIDE DEF order, queue
    <3> QED BY <2>4, <2>8, <3>3, <3>4, <3>5 DEF Ordering, KahnState
  <2> QED BY <2>1, <2>9, <2>10
<1> QED BY <1>1, <1>2

\* The loop, from turn to turn.
KahnStart(l) == [order |-> <<>>, queue |-> Ascending({t \in l.txs : Parents(l, t) = {}})]
KahnRun(l, f) ==
    /\ f \in [0 .. Cardinality(l.txs) -> KahnState]
    /\ f[0] = KahnStart(l) /\ \A n \in 1 .. Cardinality(l.txs) : f[n] = Visit(l, f[n - 1])
    /\ Kahn(l) = f[Cardinality(l.txs)].order

LEMMA KahnStarts ==
  ASSUME NEW l, l.txs \subseteq Nat, IsFiniteSet(l.txs)
  PROVE  /\ KahnStart(l) \in KahnState /\ Ordering(l, KahnStart(l))
         /\ KahnStart(l).order = <<>>
         /\ ToSet(KahnStart(l).queue) = {t \in l.txs : Parents(l, t) = {}}
<1> DEFINE roots == {t \in l.txs : Parents(l, t) = {}}
           start == KahnStart(l)
<1>1. roots \in SUBSET Nat /\ roots \in SUBSET l.txs OBVIOUS
<1>2. IsFiniteSet(roots) BY <1>1, FS_Subset
<1>3. /\ Ascending(roots) \in Seq(Nat) /\ IsInjective(Ascending(roots))
      /\ ToSet(Ascending(roots)) = roots
  BY <1>1, <1>2, AscendingLists
<1>4. IsInjective(<<>>) /\ ToSet(<<>>) = {} /\ <<>> \in Seq(Nat) BY DEF IsInjective, ToSet
<1>5. \A t \in roots : t \in l.txs /\ Parents(l, t) = {} OBVIOUS
<1>6. start = [order |-> <<>>, queue |-> Ascending(roots)] BY DEF KahnStart
<1> HIDE DEF roots, start
<1>7. start \in KahnState BY <1>3, <1>4, <1>6 DEF KahnState
<1>8. start.order = <<>> /\ start.queue = Ascending(roots) BY <1>6
<1>9. Ordering(l, start) BY <1>3, <1>4, <1>5, <1>7, <1>8 DEF Ordering
<1> QED BY <1>3, <1>7, <1>8, <1>9 DEF start, roots

LEMMA KahnRuns ==
  ASSUME NEW l, l.txs \subseteq Nat, IsFiniteSet(l.txs)
  PROVE  \E f : KahnRun(l, f)
<1> DEFINE N == Cardinality(l.txs)
           start == KahnStart(l)
           Loop[n \in 0 .. N] == IF n = 0 THEN start ELSE Visit(l, Loop[n - 1])
           step == [n \in 1 .. N |-> [s \in KahnState |-> Visit(l, s)]]
<1>1. N \in Nat BY FS_CardinalityType
<1>2. Kahn(l) = Loop[N].order BY DEF Kahn, KahnStart
<1>3. start \in KahnState BY KahnStarts
<1> HIDE DEF start
<1>4. step \in [1 .. N -> [KahnState -> KahnState]] BY Visited
<1>5. PICK f : Iterates(f, N, KahnState, start, step)
  <2> HIDE DEF step, N
  <2> QED BY <1>1, <1>3, <1>4, Iterated
<1>6. ASSUME NEW n \in 1 .. N PROVE f[n] = Visit(l, f[n - 1])
  <2>1. n - 1 \in 0 .. N BY <1>1
  <2>2. f[n - 1] \in KahnState /\ f[n] = step[n][f[n - 1]] BY <1>5, <2>1 DEF Iterates
  <2> QED BY <2>2
<1>7. f = [n \in 0 .. N |-> IF n = 0 THEN start ELSE Visit(l, f[n - 1])]
  <2>1. \A n \in 0 .. N : n # 0 => n \in 1 .. N BY <1>1
  <2> QED BY <1>5, <1>6, <2>1 DEF Iterates
<1>8. Loop = [n \in 0 .. N |-> IF n = 0 THEN start ELSE Visit(l, Loop[n - 1])]
  BY <1>7
<1> HIDE DEF Loop, N
<1>9. \A n \in 0 .. N : n = 0 \/ (n \in 1 .. N /\ n - 1 \in 0 .. N) BY <1>1
<1>10. Loop \in [0 .. N -> KahnState]
  <2> DEFINE P == {n \in 0 .. N : Loop[n] \in KahnState}
  <2>1. 0 \in P BY <1>1, <1>3, <1>8
  <2>2. ASSUME NEW n \in 1 .. N, n - 1 \in P PROVE n \in P
    <3>1. n \in 0 .. N /\ n # 0 BY <1>1
    <3>2. Loop[n] = Visit(l, Loop[n - 1]) BY <1>8, <3>1
    <3> QED BY <2>2, <3>1, <3>2, Visited
  <2> HIDE DEF P
  <2>3. \A n \in 0 .. N : n \in P BY <1>1, <2>1, <2>2, Inducted
  <2>4. \A n \in 0 .. N : Loop[n] \in KahnState BY <2>3 DEF P
  <2>5. Loop = [n \in 0 .. N |-> Loop[n]] BY <1>8
  <2> QED BY <2>4, <2>5
<1>11. Loop[0] = start BY <1>1, <1>8
<1>12. ASSUME NEW n \in 1 .. N PROVE Loop[n] = Visit(l, Loop[n - 1])
  <2>1. n \in 0 .. N /\ n # 0 BY <1>1
  <2> QED BY <1>8, <2>1
<1>13. KahnRun(l, Loop) BY <1>2, <1>10, <1>11, <1>12 DEF KahnRun, N, start
<1> QED BY <1>13

\* Members of C that each wait for another one.
Cyclic(C, before) == \A t \in C : before[t] \cap C # {}
Acyclic(S, before) == \A C \in SUBSET S : Cyclic(C, before) => C = {}

\* After n turns: what has had its turns is listed, what is free is queued, and
\* no member of a cycle ever is.
Freed(l, n, s) ==
    /\ Ordering(l, s)
    /\ \A t \in l.txs : Parents(l, t) \subseteq ToSet(s.order) => t \in ToSet(s.order) \cup ToSet(s.queue)
    /\ \A C \in SUBSET l.txs :
           Cyclic(C, l.spends) => C \cap (ToSet(s.order) \cup ToSet(s.queue)) = {}
    /\ Len(s.order) = n \/ s.queue = <<>>

LEMMA VisitFrees ==
  ASSUME NEW l, l.txs \subseteq Nat, IsFiniteSet(l.txs), NEW n \in Nat, NEW s \in KahnState, Freed(l, n, s)
  PROVE  Freed(l, n + 1, Visit(l, s))
<1>1. Ordering(l, s) /\ Ordering(l, Visit(l, s)) BY Visited DEF Freed
<1>2. CASE s.queue = <<>> BY <1>2 DEF Visit, Freed
<1>3. CASE s.queue # <<>>
  <2> DEFINE h == Head(s.queue)
             order == Append(s.order, h)
             freed == {t \in l.txs : h \in l.spends[t] /\ Parents(l, t) \subseteq ToSet(order)}
             queue == Tail(s.queue) \o Ascending(freed)
             r == Visit(l, s)
  <2>1. r = [order |-> order, queue |-> queue] BY <1>3 DEF Visit
  <2>2. s.order \in Seq(Nat) /\ s.queue \in Seq(Nat) BY DEF KahnState
  <2>3. /\ Tail(s.queue) \in Seq(Nat) /\ h \in Nat
        /\ h \in ToSet(s.queue) /\ ToSet(s.queue) = ToSet(Tail(s.queue)) \cup {h}
    BY <1>3, <2>2, Tailed
  <2>4. ToSet(order) = ToSet(s.order) \cup {h} BY <2>2, <2>3, Appended
  <2>5. Len(order) = Len(s.order) + 1 /\ Len(s.order) \in Nat BY <2>2, <2>3
  <2>6. freed \in SUBSET Nat /\ freed \in SUBSET l.txs OBVIOUS
  <2>7. IsFiniteSet(freed) BY <2>6, FS_Subset
  <2>8. Ascending(freed) \in Seq(Nat) /\ ToSet(Ascending(freed)) = freed
    BY <2>6, <2>7, AscendingLists
  <2>9. ToSet(queue) = ToSet(Tail(s.queue)) \cup freed BY <2>3, <2>8, Joined
  <2>10. r.order = order /\ r.queue = queue BY <2>1
  <2>11. ASSUME NEW t \in l.txs, Parents(l, t) \subseteq ToSet(order)
         PROVE  t \in ToSet(order) \cup ToSet(queue)
    <3>1. CASE h \in l.spends[t] BY <2>9, <2>11, <3>1
    <3>2. CASE h \notin l.spends[t]
      <4>1. Parents(l, t) \subseteq ToSet(s.order) BY <2>4, <2>11, <3>2 DEF Parents
      <4>2. t \in ToSet(s.order) \cup ToSet(s.queue) BY <4>1 DEF Freed
      <4> QED BY <2>3, <2>4, <2>9, <4>2
    <3> QED BY <3>1, <3>2
  <2>12. ASSUME NEW C \in SUBSET l.txs, Cyclic(C, l.spends)
         PROVE  C \cap (ToSet(order) \cup ToSet(queue)) = {}
    <3>1. C \cap (ToSet(s.order) \cup ToSet(s.queue)) = {} BY <2>12 DEF Freed
    <3>2. C \cap ToSet(order) = {} BY <2>3, <2>4, <3>1
    <3>3. ASSUME NEW t \in C, t \in freed PROVE FALSE
      <4>1. l.spends[t] \cap C \subseteq Parents(l, t) BY DEF Parents
      <4>2. l.spends[t] \cap C # {} BY <2>12 DEF Cyclic
      <4>3. Parents(l, t) \subseteq ToSet(order) BY <3>3
      <4> QED BY <3>2, <4>1, <4>2, <4>3
    <3>4. C \cap ToSet(queue) = {} BY <2>3, <2>9, <3>1, <3>3
    <3> QED BY <3>2, <3>4
  <2>13. Len(order) = n + 1 BY <1>3, <2>5 DEF Freed
  <2> HIDE DEF order, queue, r
  <2>14. Ordering(l, r) BY <1>1 DEF r
  <2>15. Freed(l, n + 1, r) BY <2>10, <2>11, <2>12, <2>13, <2>14 DEF Freed
  <2> QED BY <2>15 DEF r
<1> QED BY <1>2, <1>3

\* Where Kahn's algorithm ends.
LEMMA KahnEnds ==
  ASSUME NEW l, l.txs \subseteq Nat, IsFiniteSet(l.txs)
  PROVE  \E s \in KahnState : Freed(l, Cardinality(l.txs), s) /\ Kahn(l) = s.order
<1> DEFINE N == Cardinality(l.txs)
<1>1. N \in Nat BY FS_CardinalityType
<1>2. PICK f : KahnRun(l, f) BY KahnRuns
<1>3. f[0] = KahnStart(l) /\ (\A n \in 1 .. N : f[n] = Visit(l, f[n - 1]))
      /\ Kahn(l) = f[N].order /\ f \in [0 .. N -> KahnState]
  BY <1>2 DEF KahnRun
<1>4. Freed(l, 0, f[0])
  <2> DEFINE s == KahnStart(l)
  <2>1. /\ s \in KahnState /\ Ordering(l, s) /\ s.order = <<>>
        /\ ToSet(s.queue) = {t \in l.txs : Parents(l, t) = {}}
    BY KahnStarts
  <2> HIDE DEF s
  <2>2. ToSet(s.order) = {} /\ Len(s.order) = 0 BY <2>1 DEF ToSet
  <2>3. ASSUME NEW C \in SUBSET l.txs, Cyclic(C, l.spends) PROVE C \cap ToSet(s.queue) = {}
    BY <2>1, <2>3 DEF Cyclic, Parents
  <2>4. \A t \in l.txs : Parents(l, t) \subseteq ToSet(s.order) => t \in ToSet(s.queue) BY <2>1, <2>2
  <2>5. Freed(l, 0, s) BY <2>1, <2>2, <2>3, <2>4 DEF Freed
  <2> QED BY <1>3, <2>5 DEF s
<1> HIDE DEF N
<1> DEFINE P == {n \in 0 .. N : Freed(l, n, f[n])}
<1>5. 0 \in P BY <1>1, <1>4
<1>6. ASSUME NEW n \in 1 .. N, n - 1 \in P PROVE n \in P
  <2>1. n - 1 \in Nat /\ n - 1 \in 0 .. N /\ n \in 0 .. N /\ (n - 1) + 1 = n BY <1>1
  <2>2. f[n - 1] \in KahnState BY <1>3, <2>1
  <2>3. Freed(l, n - 1, f[n - 1]) BY <1>6
  <2>4. Freed(l, (n - 1) + 1, Visit(l, f[n - 1])) BY <2>1, <2>2, <2>3, VisitFrees
  <2> QED BY <1>3, <2>1, <2>4
<1>7. N \in P
  <2> HIDE DEF P
  <2>1. \A m \in 1 .. N : m - 1 \in P => m \in P BY <1>6
  <2>2. \A m \in 0 .. N : m \in P BY <1>1, <1>5, <2>1, Inducted
  <2> QED BY <1>1, <2>2
<1>8. f[N] \in KahnState /\ Freed(l, N, f[N]) BY <1>1, <1>3, <1>7
<1> QED BY <1>3, <1>8 DEF N

\* Kahn's algorithm lists transactions, each at most once.
LEMMA KahnLists ==
  ASSUME NEW l, l.txs \subseteq Nat, IsFiniteSet(l.txs)
  PROVE  Kahn(l) \in Seq(Nat) /\ IsInjective(Kahn(l)) /\ ToSet(Kahn(l)) \subseteq l.txs
  BY KahnEnds DEF Freed, Ordering, KahnState

\* It lists all of them, unless there is a cycle.
LEMMA KahnCovers ==
  ASSUME NEW l, l.txs \subseteq Nat, IsFiniteSet(l.txs)
  PROVE  Len(Kahn(l)) = Cardinality(l.txs) <=> Acyclic(l.txs, l.spends)
<1> DEFINE N == Cardinality(l.txs)
           K == Kahn(l)
<1>1. PICK s \in KahnState : Freed(l, N, s) /\ K = s.order BY KahnEnds
<1>2. K \in Seq(Nat) /\ IsInjective(K) /\ ToSet(K) \in SUBSET l.txs BY KahnLists
<1>3. Cardinality(ToSet(K)) = Len(K) /\ IsFiniteSet(ToSet(K)) BY <1>2, Counted
<1>4. Len(K) = N <=> ToSet(K) = l.txs BY <1>2, <1>3, FS_Subset
<1> HIDE DEF K, N
<1>5. ASSUME ToSet(K) = l.txs PROVE Acyclic(l.txs, l.spends)
  BY <1>1, <1>5 DEF Freed, Acyclic
<1>6. ASSUME Acyclic(l.txs, l.spends) PROVE ToSet(K) = l.txs
  <2>1. CASE Len(K) = N BY <1>4, <2>1
  <2>2. CASE s.queue = <<>>
    <3> DEFINE C == l.txs \ ToSet(K)
    <3>1. ToSet(s.queue) = {} BY <2>2 DEF ToSet
    <3>2. ASSUME NEW t \in C PROVE l.spends[t] \cap C # {}
      <4>1. ~(Parents(l, t) \subseteq ToSet(K)) BY <1>1, <3>1, <3>2 DEF Freed
      <4> QED BY <4>1 DEF Parents
    <3>3. C \in SUBSET l.txs /\ Cyclic(C, l.spends) BY <3>2 DEF Cyclic
    <3>4. C = {}
      <4> HIDE DEF C
      <4> QED BY <1>6, <3>3 DEF Acyclic
    <3> QED BY <1>2, <3>4
  <2> QED BY <1>1, <2>1, <2>2 DEF Freed
<1> QED BY <1>4, <1>5, <1>6 DEF K, N

-----------------------------------------------------------------------------
(* The sort by inputs.                                                      *)

SortState == [ordered : Seq(Nat), remaining : Seq(Nat), next : Seq(Nat)]

\* Each item is at one place, and what is ordered comes after what it depends on.
Sorting(items, deps, s) ==
    /\ s \in SortState
    /\ IsInjective(s.ordered) /\ IsInjective(s.remaining) /\ IsInjective(s.next)
    /\ ToSet(s.ordered) \cap ToSet(s.remaining) = {}
    /\ ToSet(s.ordered) \cap ToSet(s.next) = {}
    /\ ToSet(s.remaining) \cap ToSet(s.next) = {}
    /\ ToSet(s.ordered) \cup ToSet(s.remaining) \cup ToSet(s.next) \subseteq ToSet(items)
    /\ \A t \in ToSet(s.ordered) : \A u \in deps[t] \cap ToSet(items) : Before(s.ordered, u, t)

LEMMA Sifted ==
  ASSUME NEW items \in Seq(Nat), NEW deps, NEW s \in SortState
  PROVE  /\ Sift(ToSet(items), deps, s) \in SortState
         /\ Sorting(items, deps, s) => Sorting(items, deps, Sift(ToSet(items), deps, s))
<1> DEFINE r == Sift(ToSet(items), deps, s)
           t == Head(s.remaining)
<1>1. s.ordered \in Seq(Nat) /\ s.remaining \in Seq(Nat) /\ s.next \in Seq(Nat)
  BY DEF SortState
<1>2. CASE s.remaining = <<>>
  <2>1. r = [ordered |-> s.ordered, remaining |-> s.next, next |-> <<>>] BY <1>2 DEF Sift
  <2>2. IsInjective(<<>>) /\ ToSet(<<>>) = {} /\ <<>> \in Seq(Nat) BY DEF IsInjective, ToSet
  <2>3. r \in SortState BY <1>1, <2>1, <2>2 DEF SortState
  <2>4. r.ordered = s.ordered /\ r.remaining = s.next /\ r.next = <<>> BY <2>1
  <2> HIDE DEF r
  <2>5. Sorting(items, deps, s) => Sorting(items, deps, r)
    BY <2>2, <2>3, <2>4 DEF Sorting
  <2> QED BY <2>3, <2>5 DEF r
<1>3. CASE s.remaining # <<>>
  <2>1. /\ Tail(s.remaining) \in Seq(Nat) /\ t \in Nat
        /\ t \in ToSet(s.remaining) /\ ToSet(s.remaining) = ToSet(Tail(s.remaining)) \cup {t}
        /\ IsInjective(s.remaining)
             => IsInjective(Tail(s.remaining)) /\ t \notin ToSet(Tail(s.remaining))
    BY <1>1, <1>3, Tailed
  <2>2. CASE deps[t] \cap ToSet(items) \subseteq ToSet(s.ordered)
    <3> DEFINE o == Append(s.ordered, t)
    <3>1. r = [ordered |-> o, remaining |-> Tail(s.remaining), next |-> s.next]
      BY <1>3, <2>2 DEF Sift
    <3>2. /\ o \in Seq(Nat) /\ ToSet(o) = ToSet(s.ordered) \cup {t}
          /\ IsInjective(s.ordered) /\ t \notin ToSet(s.ordered) => IsInjective(o)
      BY <1>1, <2>1, Appended
    <3>3. /\ \A a, b : Before(s.ordered, a, b) => Before(o, a, b)
          /\ \A a \in ToSet(s.ordered) : Before(o, a, t)
      BY <1>1, <2>1, AppendedAfter
    <3> HIDE DEF o, t
    <3>4. r \in SortState BY <1>1, <2>1, <3>1, <3>2 DEF SortState
    <3>5. r.ordered = o /\ r.remaining = Tail(s.remaining) /\ r.next = s.next BY <3>1
    <3> HIDE DEF r
    <3>6. ASSUME Sorting(items, deps, s) PROVE Sorting(items, deps, r)
      <4>1. IsInjective(o) /\ IsInjective(Tail(s.remaining)) /\ IsInjective(s.next)
        BY <2>1, <3>2, <3>6 DEF Sorting
      <4>2. /\ ToSet(o) \cap ToSet(Tail(s.remaining)) = {}
            /\ ToSet(o) \cap ToSet(s.next) = {}
            /\ ToSet(Tail(s.remaining)) \cap ToSet(s.next) = {}
        BY <2>1, <3>2, <3>6 DEF Sorting
      <4>3. ToSet(o) \cup ToSet(Tail(s.remaining)) \cup ToSet(s.next) \subseteq ToSet(items)
        BY <2>1, <3>2, <3>6 DEF Sorting
      <4>4. \A x \in ToSet(o) : \A u \in deps[x] \cap ToSet(items) : Before(o, u, x)
        BY <2>2, <3>2, <3>3, <3>6 DEF Sorting
      <4> QED BY <3>4, <3>5, <4>1, <4>2, <4>3, <4>4 DEF Sorting
    <3> QED BY <3>4, <3>6 DEF r
  <2>3. CASE ~ (deps[t] \cap ToSet(items) \subseteq ToSet(s.ordered))
    <3> DEFINE o == Append(s.next, t)
    <3>1. r = [ordered |-> s.ordered, remaining |-> Tail(s.remaining), next |-> o]
      BY <1>3, <2>3 DEF Sift
    <3>2. /\ o \in Seq(Nat) /\ ToSet(o) = ToSet(s.next) \cup {t}
          /\ IsInjective(s.next) /\ t \notin ToSet(s.next) => IsInjective(o)
      BY <1>1, <2>1, Appended
    <3> HIDE DEF o, t
    <3>3. r \in SortState BY <1>1, <2>1, <3>1, <3>2 DEF SortState
    <3>4. r.ordered = s.ordered /\ r.remaining = Tail(s.remaining) /\ r.next = o BY <3>1
    <3> HIDE DEF r
    <3>5. ASSUME Sorting(items, deps, s) PROVE Sorting(items, deps, r)
      <4>1. IsInjective(s.ordered) /\ IsInjective(Tail(s.remaining)) /\ IsInjective(o)
        BY <2>1, <3>2, <3>5 DEF Sorting
      <4>2. /\ ToSet(s.ordered) \cap ToSet(Tail(s.remaining)) = {}
            /\ ToSet(s.ordered) \cap ToSet(o) = {}
            /\ ToSet(Tail(s.remaining)) \cap ToSet(o) = {}
        BY <2>1, <3>2, <3>5 DEF Sorting
      <4>3. ToSet(s.ordered) \cup ToSet(Tail(s.remaining)) \cup ToSet(o) \subseteq ToSet(items)
        BY <2>1, <3>2, <3>5 DEF Sorting
      <4> QED BY <3>3, <3>4, <3>5, <4>1, <4>2, <4>3 DEF Sorting
    <3> QED BY <3>3, <3>5 DEF r
  <2> QED BY <2>2, <2>3
<1> QED BY <1>2, <1>3

\* The loop, from turn to turn.
SortStart(items) == [ordered |-> <<>>, remaining |-> items, next |-> <<>>]
SortTurns(items) == Len(items) * (Len(items) + 1)
SortRun(items, deps, f) ==
    /\ f \in [0 .. SortTurns(items) -> SortState]
    /\ f[0] = SortStart(items)
    /\ \A n \in 1 .. SortTurns(items) : f[n] = Sift(ToSet(items), deps, f[n - 1])
    /\ TopoSort(items, deps) = f[SortTurns(items)].ordered

LEMMA SortStarts ==
  ASSUME NEW items \in Seq(Nat), IsInjective(items), NEW deps
  PROVE  /\ SortStart(items) \in SortState /\ Sorting(items, deps, SortStart(items))
         /\ SortTurns(items) \in Nat
<1> DEFINE start == SortStart(items)
<1>1. IsInjective(<<>>) /\ ToSet(<<>>) = {} /\ <<>> \in Seq(Nat) BY DEF IsInjective, ToSet
<1>2. start \in SortState BY <1>1 DEF SortState, SortStart
<1>3. start.ordered = <<>> /\ start.remaining = items /\ start.next = <<>> BY DEF SortStart
<1>4. SortTurns(items) \in Nat
  <2>1. Len(items) \in Nat OBVIOUS
  <2> QED BY <2>1 DEF SortTurns
<1> HIDE DEF start
<1>5. Sorting(items, deps, start) BY <1>1, <1>2, <1>3 DEF Sorting
<1> QED BY <1>2, <1>4, <1>5 DEF start

LEMMA SortRuns ==
  ASSUME NEW items \in Seq(Nat), IsInjective(items), NEW deps
  PROVE  \E f : SortRun(items, deps, f)
<1> DEFINE N == SortTurns(items)
           start == SortStart(items)
           Turn(s) == Sift(ToSet(items), deps, s)
           Loop[n \in 0 .. N] == IF n = 0 THEN start ELSE Turn(Loop[n - 1])
           step == [n \in 1 .. N |-> [s \in SortState |-> Turn(s)]]
<1>1. N \in Nat /\ start \in SortState BY SortStarts
<1>2. TopoSort(items, deps) = Loop[N].ordered BY DEF TopoSort, SortStart, SortTurns
<1>3. \A s \in SortState : Turn(s) \in SortState BY Sifted
<1> HIDE DEF start, Turn
<1>4. step \in [1 .. N -> [SortState -> SortState]] BY <1>3
<1>5. PICK f : Iterates(f, N, SortState, start, step)
  <2> HIDE DEF step, N
  <2> QED BY <1>1, <1>4, Iterated
<1>6. ASSUME NEW n \in 1 .. N PROVE f[n] = Turn(f[n - 1])
  <2> HIDE DEF N
  <2>1. n - 1 \in 0 .. N BY <1>1
  <2>2. f[n - 1] \in SortState /\ f[n] = step[n][f[n - 1]] BY <1>5, <2>1 DEF Iterates
  <2> QED BY <2>2
<1>7. f = [n \in 0 .. N |-> IF n = 0 THEN start ELSE Turn(f[n - 1])]
  <2> HIDE DEF N
  <2>1. \A n \in 0 .. N : n # 0 => n \in 1 .. N BY <1>1
  <2> QED BY <1>5, <1>6, <2>1 DEF Iterates
<1>8. Loop = [n \in 0 .. N |-> IF n = 0 THEN start ELSE Turn(Loop[n - 1])]
  BY <1>7
<1> HIDE DEF Loop, N
<1>9. Loop \in [0 .. N -> SortState]
  <2> DEFINE P == {n \in 0 .. N : Loop[n] \in SortState}
  <2>1. 0 \in P BY <1>1, <1>8
  <2>2. ASSUME NEW n \in 1 .. N, n - 1 \in P PROVE n \in P
    <3>1. n \in 0 .. N /\ n # 0 BY <1>1
    <3>2. Loop[n] = Turn(Loop[n - 1]) BY <1>8, <3>1
    <3> QED BY <1>3, <2>2, <3>1, <3>2
  <2> HIDE DEF P
  <2>3. \A n \in 0 .. N : n \in P BY <1>1, <2>1, <2>2, Inducted
  <2>4. \A n \in 0 .. N : Loop[n] \in SortState BY <2>3 DEF P
  <2>5. Loop = [n \in 0 .. N |-> Loop[n]] BY <1>8
  <2> QED BY <2>4, <2>5
<1>10. Loop[0] = start BY <1>1, <1>8
<1>11. ASSUME NEW n \in 1 .. N PROVE Loop[n] = Turn(Loop[n - 1])
  <2>1. n \in 0 .. N /\ n # 0 BY <1>1
  <2> QED BY <1>8, <2>1
<1>12. SortRun(items, deps, Loop) BY <1>2, <1>9, <1>10, <1>11 DEF SortRun, N, start, Turn
<1> QED BY <1>12

\* What holds at the start of the loop and is kept by its turns holds of its end.
LEMMA SortEnds ==
  ASSUME NEW items \in Seq(Nat), IsInjective(items), NEW deps, NEW Inv,
         <<0, SortStart(items)>> \in Inv,
         \A n \in Nat : \A s \in SortState :
             <<n, s>> \in Inv => <<n + 1, Sift(ToSet(items), deps, s)>> \in Inv
  PROVE  \E s \in SortState : <<SortTurns(items), s>> \in Inv /\ TopoSort(items, deps) = s.ordered
<1> DEFINE N == SortTurns(items)
<1>1. N \in Nat BY SortStarts
<1>2. PICK f : SortRun(items, deps, f) BY SortRuns
<1>3. /\ f \in [0 .. N -> SortState] /\ f[0] = SortStart(items)
      /\ \A n \in 1 .. N : f[n] = Sift(ToSet(items), deps, f[n - 1])
      /\ TopoSort(items, deps) = f[N].ordered
  BY <1>2 DEF SortRun
<1> HIDE DEF N
<1> DEFINE P == {n \in 0 .. N : <<n, f[n]>> \in Inv}
<1>4. 0 \in P BY <1>1, <1>3
<1>5. ASSUME NEW n \in 1 .. N, n - 1 \in P PROVE n \in P
  <2>1. n - 1 \in Nat /\ n - 1 \in 0 .. N /\ n \in 0 .. N /\ (n - 1) + 1 = n BY <1>1
  <2>2. f[n - 1] \in SortState /\ <<n - 1, f[n - 1]>> \in Inv BY <1>3, <1>5, <2>1
  <2>3. <<(n - 1) + 1, Sift(ToSet(items), deps, f[n - 1])>> \in Inv BY <2>1, <2>2
  <2> QED BY <1>3, <2>1, <2>3
<1>6. N \in P
  <2> HIDE DEF P
  <2>1. \A m \in 1 .. N : m - 1 \in P => m \in P BY <1>5
  <2>2. \A m \in 0 .. N : m \in P BY <1>1, <1>4, <2>1, Inducted
  <2> QED BY <1>1, <2>2
<1>7. f[N] \in SortState /\ <<N, f[N]>> \in Inv BY <1>1, <1>3, <1>6
<1> QED BY <1>3, <1>7 DEF N

\* The sort lists items, each at most once, after those it depends on.
LEMMA SortedByDeps ==
  ASSUME NEW items \in Seq(Nat), IsInjective(items), NEW deps
  PROVE  LET s == TopoSort(items, deps)
         IN  /\ s \in Seq(Nat) /\ IsInjective(s) /\ ToSet(s) \subseteq ToSet(items)
             /\ \A t \in ToSet(s) : \A u \in deps[t] \cap ToSet(items) : Before(s, u, t)
<1> DEFINE Inv == {p \in Nat \X SortState : Sorting(items, deps, p[2])}
<1>1. <<0, SortStart(items)>> \in Inv BY SortStarts
<1>2. ASSUME NEW n \in Nat, NEW s \in SortState, <<n, s>> \in Inv
      PROVE  <<n + 1, Sift(ToSet(items), deps, s)>> \in Inv
  <2>1. Sorting(items, deps, s) BY <1>2
  <2>2. /\ Sift(ToSet(items), deps, s) \in SortState
        /\ Sorting(items, deps, Sift(ToSet(items), deps, s))
    BY <2>1, Sifted
  <2> QED BY <2>2
<1>3. PICK s \in SortState : <<SortTurns(items), s>> \in Inv /\ TopoSort(items, deps) = s.ordered
  <2> HIDE DEF Inv
  <2> QED BY <1>1, <1>2, SortEnds
<1>4. Sorting(items, deps, s) BY <1>3
<1> QED BY <1>3, <1>4 DEF Sorting, SortState

\* What waits for the next pass was not ready when its turn came, and is not yet.
Blocked(items, deps, s) ==
    \A t \in ToSet(s.next) : ~(deps[t] \cap ToSet(items) \subseteq ToSet(s.ordered))

\* The turns that were needed so far, by what has been listed and what waits: a
\* pass that lists nothing finds all that is left blocked.
Pace(items, deps, n, s) ==
    LET turn == Len(items) + 1
        o == Len(s.ordered)
        w == Len(s.next)
    IN  \/ s.remaining = <<>> /\ s.next = <<>>
        \/ Blocked(items, deps, s) /\ n <= o * turn + w
        \/ o >= 1 /\ n <= (o - 1) * turn + w + 1

\* After n turns: no item is missing, no member of a cycle is listed, and the
\* sort keeps its pace.
Sifting(items, deps, n, s) ==
    /\ Sorting(items, deps, s)
    /\ ToSet(items) = ToSet(s.ordered) \cup ToSet(s.remaining) \cup ToSet(s.next)
    /\ Len(items) = Len(s.ordered) + Len(s.remaining) + Len(s.next)
    /\ \A C \in SUBSET ToSet(items) : Cyclic(C, deps) => C \cap ToSet(s.ordered) = {}
    /\ Acyclic(ToSet(items), deps) => Pace(items, deps, n, s)

LEMMA Turns ==
  ASSUME NEW o \in Nat, NEW turn \in Nat
  PROVE  /\ o * turn \in Nat /\ (o + 1) * turn = o * turn + turn
         /\ o >= 1 => (o - 1) * turn \in Nat /\ o * turn = (o - 1) * turn + turn
<1>1. o * turn \in Nat /\ (o + 1) * turn = o * turn + turn OBVIOUS
<1>2. ASSUME o >= 1 PROVE (o - 1) * turn \in Nat /\ o * turn = (o - 1) * turn + turn
  <2>1. o - 1 \in Nat BY <1>2
  <2> QED BY <2>1
<1> QED BY <1>1, <1>2

\* A turn that lists an item, one that leaves it to the next pass, and the
\* beginning of a pass keep the pace.
LEMMA PaceKept ==
  ASSUME NEW items \in Seq(Nat), NEW deps, NEW n \in Nat, NEW s \in SortState, NEW r \in SortState,
         Pace(items, deps, n, s), Len(items) = Len(s.ordered) + Len(s.remaining) + Len(s.next),
         \/ s.remaining # <<>> /\ Len(r.ordered) = Len(s.ordered) + 1 /\ Len(r.next) = Len(s.next)
         \/ /\ s.remaining # <<>> /\ Len(r.ordered) = Len(s.ordered) /\ Len(r.next) = Len(s.next) + 1
            /\ Blocked(items, deps, s) => Blocked(items, deps, r)
         \/ /\ s.remaining = <<>> /\ r.ordered = s.ordered /\ r.remaining = s.next /\ r.next = <<>>
            /\ s.next # <<>> => ~Blocked(items, deps, s)
  PROVE  Pace(items, deps, n + 1, r)
<1> DEFINE turn == Len(items) + 1
           o == Len(s.ordered)
           w == Len(s.next)
<1>1. /\ turn \in Nat /\ o \in Nat /\ w \in Nat /\ Len(s.remaining) \in Nat
      /\ turn = o + Len(s.remaining) + w + 1
  <2>1. s.ordered \in Seq(Nat) /\ s.next \in Seq(Nat) /\ s.remaining \in Seq(Nat) BY DEF SortState
  <2>2. o \in Nat /\ w \in Nat /\ Len(s.remaining) \in Nat /\ Len(items) \in Nat
    BY <2>1, LenProperties
  <2>3. Len(items) = o + Len(s.remaining) + w OBVIOUS
  <2> DEFINE L == Len(items)
             m == Len(s.remaining)
  <2>4. o \in Nat /\ w \in Nat /\ m \in Nat /\ L \in Nat /\ L = o + m + w BY <2>2, <2>3
  <2> HIDE DEF o, w, L, m
  <2>5. L + 1 = o + m + w + 1 /\ L + 1 \in Nat BY <2>4
  <2> QED BY <2>2, <2>5 DEF L, m
<1>2. /\ o * turn \in Nat /\ (o + 1) * turn = o * turn + turn
      /\ o >= 1 => (o - 1) * turn \in Nat /\ o * turn = (o - 1) * turn + turn
  <2> HIDE DEF turn, o
  <2> QED BY <1>1, Turns
<1> DEFINE a == o * turn
           b == (o - 1) * turn
<1>3. \/ s.remaining = <<>> /\ s.next = <<>>
      \/ Blocked(items, deps, s) /\ n <= o * turn + w
      \/ o >= 1 /\ n <= (o - 1) * turn + w + 1
  BY DEF Pace
<1>4. CASE s.remaining # <<>> /\ Len(r.ordered) = o + 1 /\ Len(r.next) = w
  <2>1. n <= o * turn + w \/ (o >= 1 /\ n <= (o - 1) * turn + w + 1) BY <1>3, <1>4
  <2> HIDE DEF turn, o, w
  <2>2. n + 1 <= o * turn + w + 1
    <3>1. n <= a + w \/ (o >= 1 /\ n <= b + w + 1) BY <2>1
    <3>2. a \in Nat /\ (o >= 1 => b \in Nat /\ a = b + turn) BY <1>2
    <3> HIDE DEF a, b
    <3>3. n + 1 <= a + w + 1 BY <1>1, <3>1, <3>2
    <3> QED BY <3>3 DEF a
  <2>3. (o + 1) - 1 = o /\ o + 1 >= 1 BY <1>1
  <2> QED BY <1>4, <2>2, <2>3 DEF Pace, turn
<1>5. CASE /\ s.remaining # <<>> /\ Len(r.ordered) = o /\ Len(r.next) = w + 1
           /\ Blocked(items, deps, s) => Blocked(items, deps, r)
  <2>1. \/ Blocked(items, deps, s) /\ n <= o * turn + w
        \/ o >= 1 /\ n <= (o - 1) * turn + w + 1
    BY <1>3, <1>5
  <2> HIDE DEF turn, o, w
  <2>2. \/ Blocked(items, deps, s) /\ n + 1 <= o * turn + (w + 1)
        \/ o >= 1 /\ n + 1 <= (o - 1) * turn + (w + 1) + 1
    <3>1. (Blocked(items, deps, s) /\ n <= a + w) \/ (o >= 1 /\ n <= b + w + 1) BY <2>1
    <3>2. a \in Nat /\ (o >= 1 => b \in Nat) BY <1>2
    <3> HIDE DEF a, b
    <3>3. \/ Blocked(items, deps, s) /\ n + 1 <= a + (w + 1)
          \/ o >= 1 /\ n + 1 <= b + (w + 1) + 1
      BY <1>1, <3>1, <3>2
    <3> QED BY <3>3 DEF a, b
  <2> QED BY <1>5, <2>2 DEF Pace, turn
<1>6. CASE /\ s.remaining = <<>> /\ r.ordered = s.ordered /\ r.remaining = s.next /\ r.next = <<>>
           /\ s.next # <<>> => ~Blocked(items, deps, s)
  <2>1. CASE s.next = <<>> BY <1>6, <2>1 DEF Pace
  <2>2. CASE s.next # <<>>
    <3>1. o >= 1 /\ n <= (o - 1) * turn + w + 1 BY <1>3, <1>6, <2>2
    <3>2. Len(s.remaining) = 0 BY <1>6
    <3>3. Len(r.ordered) = o /\ Len(r.next) = 0 /\ ToSet(r.next) = {} BY <1>6 DEF ToSet
    <3>4. Blocked(items, deps, r) BY <3>3 DEF Blocked
    <3> HIDE DEF turn, o, w
    <3>5. n + 1 <= o * turn + 0 BY <1>1, <1>2, <3>1, <3>2
    <3> QED BY <3>3, <3>4, <3>5 DEF Pace, turn
  <2> QED BY <2>1, <2>2
<1> QED BY <1>4, <1>5, <1>6

LEMMA SiftKept ==
  ASSUME NEW items \in Seq(Nat), NEW deps, NEW n \in Nat, NEW s \in SortState, Sifting(items, deps, n, s)
  PROVE  Sifting(items, deps, n + 1, Sift(ToSet(items), deps, s))
<1> DEFINE r == Sift(ToSet(items), deps, s)
           t == Head(s.remaining)
<1>1. s.ordered \in Seq(Nat) /\ s.remaining \in Seq(Nat) /\ s.next \in Seq(Nat)
  BY DEF SortState
<1>2. Sorting(items, deps, s) /\ Sorting(items, deps, r) /\ r \in SortState BY Sifted DEF Sifting
<1>3. /\ ToSet(items) = ToSet(s.ordered) \cup ToSet(s.remaining) \cup ToSet(s.next)
      /\ Len(items) = Len(s.ordered) + Len(s.remaining) + Len(s.next)
      /\ \A C \in SUBSET ToSet(items) : Cyclic(C, deps) => C \cap ToSet(s.ordered) = {}
      /\ Acyclic(ToSet(items), deps) => Pace(items, deps, n, s)
  BY DEF Sifting
<1>4. Len(s.ordered) \in Nat /\ Len(s.remaining) \in Nat /\ Len(s.next) \in Nat
  BY <1>1, LenProperties
<1>7. /\ Len(items) = (Len(s.ordered) + 1) + (Len(s.remaining) - 1) + Len(s.next)
      /\ Len(items) = Len(s.ordered) + (Len(s.remaining) - 1) + (Len(s.next) + 1)
  <2> DEFINE o == Len(s.ordered)
             m == Len(s.remaining)
             w == Len(s.next)
  <2>1. o \in Nat /\ m \in Nat /\ w \in Nat BY <1>4
  <2> HIDE DEF o, m, w
  <2>2. o + m + w = (o + 1) + (m - 1) + w /\ o + m + w = o + (m - 1) + (w + 1) BY <2>1
  <2> QED BY <1>3, <2>2 DEF o, m, w
<1>5. CASE s.remaining = <<>>
  <2>1. r = [ordered |-> s.ordered, remaining |-> s.next, next |-> <<>>] BY <1>5 DEF Sift
  <2>2. r.ordered = s.ordered /\ r.remaining = s.next /\ r.next = <<>> BY <2>1
  <2>3. ToSet(s.remaining) = {} /\ Len(s.remaining) = 0 /\ ToSet(r.next) = {} /\ Len(r.next) = 0
    BY <1>5, <2>2 DEF ToSet
  <2> HIDE DEF r
  <2>4. ToSet(items) = ToSet(r.ordered) \cup ToSet(r.remaining) \cup ToSet(r.next)
    BY <1>3, <2>2, <2>3
  <2>5. Len(items) = Len(r.ordered) + Len(r.remaining) + Len(r.next)
    BY <1>3, <1>4, <2>2, <2>3
  <2>6. ASSUME Acyclic(ToSet(items), deps), s.next # <<>>, Blocked(items, deps, s) PROVE FALSE
    <3> DEFINE C == ToSet(s.next)
    <3>1. C # {}
      <4>1. Head(s.next) \in ToSet(s.next) BY <1>1, <2>6, Tailed
      <4> QED BY <4>1
    <3>2. C \in SUBSET ToSet(items) BY <1>3
    <3>3. ASSUME NEW x \in C PROVE deps[x] \cap C # {}
      <4>1. ~(deps[x] \cap ToSet(items) \subseteq ToSet(s.ordered)) BY <2>6, <3>3 DEF Blocked
      <4> QED BY <1>3, <2>3, <4>1
    <3>4. Cyclic(C, deps) BY <3>3 DEF Cyclic
    <3> HIDE DEF C
    <3> QED BY <2>6, <3>1, <3>2, <3>4 DEF Acyclic
  <2>7. ASSUME Acyclic(ToSet(items), deps) PROVE Pace(items, deps, n + 1, r)
    <3>1. s.next # <<>> => ~Blocked(items, deps, s) BY <2>6, <2>7
    <3>2. Pace(items, deps, n, s) BY <1>3, <2>7
    <3> QED BY <1>2, <1>3, <1>5, <2>2, <3>1, <3>2, PaceKept
  <2>8. Sifting(items, deps, n + 1, r) BY <1>2, <1>3, <2>2, <2>4, <2>5, <2>7 DEF Sifting
  <2> QED BY <2>8 DEF r
<1>6. CASE s.remaining # <<>>
  <2>1. /\ Tail(s.remaining) \in Seq(Nat) /\ t \in Nat /\ Len(Tail(s.remaining)) = Len(s.remaining) - 1
        /\ ToSet(s.remaining) = ToSet(Tail(s.remaining)) \cup {t}
    BY <1>1, <1>6, Tailed
  <2>2. CASE deps[t] \cap ToSet(items) \subseteq ToSet(s.ordered)
    <3> DEFINE o == Append(s.ordered, t)
    <3>1. r = [ordered |-> o, remaining |-> Tail(s.remaining), next |-> s.next]
      BY <1>6, <2>2 DEF Sift
    <3>2. ToSet(o) = ToSet(s.ordered) \cup {t} BY <1>1, <2>1, Appended
    <3>3. Len(o) = Len(s.ordered) + 1 BY <1>1, <2>1
    <3> HIDE DEF o, t
    <3>4. r.ordered = o /\ r.remaining = Tail(s.remaining) /\ r.next = s.next BY <3>1
    <3> HIDE DEF r
    <3>5. ToSet(items) = ToSet(r.ordered) \cup ToSet(r.remaining) \cup ToSet(r.next)
      BY <1>3, <2>1, <3>2, <3>4
    <3>6. Len(items) = Len(r.ordered) + Len(r.remaining) + Len(r.next)
      BY <1>3, <1>7, <2>1, <3>3, <3>4
    <3>7. ASSUME NEW C \in SUBSET ToSet(items), Cyclic(C, deps) PROVE C \cap ToSet(r.ordered) = {}
      <4>1. C \cap ToSet(s.ordered) = {} BY <1>3, <3>7
      <4>2. t \notin C
        <5>1. t \in C => deps[t] \cap C # {} BY <3>7 DEF Cyclic
        <5> QED BY <2>2, <4>1, <5>1
      <4> QED BY <3>2, <3>4, <4>1, <4>2
    <3>8. ASSUME Acyclic(ToSet(items), deps) PROVE Pace(items, deps, n + 1, r)
      <4>1. Len(r.ordered) = Len(s.ordered) + 1 /\ Len(r.next) = Len(s.next) BY <3>3, <3>4
      <4>2. Pace(items, deps, n, s) BY <1>3, <3>8
      <4> QED BY <1>2, <1>3, <1>6, <4>1, <4>2, PaceKept
    <3>9. Sifting(items, deps, n + 1, r) BY <1>2, <3>5, <3>6, <3>7, <3>8 DEF Sifting
    <3> QED BY <3>9 DEF r
  <2>3. CASE ~ (deps[t] \cap ToSet(items) \subseteq ToSet(s.ordered))
    <3> DEFINE o == Append(s.next, t)
    <3>1. r = [ordered |-> s.ordered, remaining |-> Tail(s.remaining), next |-> o]
      BY <1>6, <2>3 DEF Sift
    <3>2. ToSet(o) = ToSet(s.next) \cup {t} BY <1>1, <2>1, Appended
    <3>3. Len(o) = Len(s.next) + 1 BY <1>1, <2>1
    <3> HIDE DEF o, t
    <3>4. r.ordered = s.ordered /\ r.remaining = Tail(s.remaining) /\ r.next = o BY <3>1
    <3> HIDE DEF r
    <3>5. ToSet(items) = ToSet(r.ordered) \cup ToSet(r.remaining) \cup ToSet(r.next)
      BY <1>3, <2>1, <3>2, <3>4
    <3>6. Len(items) = Len(r.ordered) + Len(r.remaining) + Len(r.next)
      BY <1>3, <1>7, <2>1, <3>3, <3>4
    <3>7. Blocked(items, deps, s) => Blocked(items, deps, r)
      BY <2>3, <3>2, <3>4 DEF Blocked
    <3>8. ASSUME Acyclic(ToSet(items), deps) PROVE Pace(items, deps, n + 1, r)
      <4>1. Len(r.ordered) = Len(s.ordered) /\ Len(r.next) = Len(s.next) + 1 BY <3>3, <3>4
      <4>2. Pace(items, deps, n, s) BY <1>3, <3>8
      <4> QED BY <1>2, <1>3, <1>6, <3>7, <4>1, <4>2, PaceKept
    <3>9. Sifting(items, deps, n + 1, r) BY <1>2, <1>3, <3>4, <3>5, <3>6, <3>8 DEF Sifting
    <3> QED BY <3>9 DEF r
  <2> QED BY <2>2, <2>3
<1> QED BY <1>5, <1>6

\* Len * (Len + 1) turns are enough: the sort lists all items, unless there is a cycle.
LEMMA SortCovers ==
  ASSUME NEW items \in Seq(Nat), IsInjective(items), NEW deps
  PROVE  Len(TopoSort(items, deps)) = Len(items) <=> Acyclic(ToSet(items), deps)
<1> DEFINE Inv == {p \in Nat \X SortState : Sifting(items, deps, p[1], p[2])}
           N == SortTurns(items)
           L == Len(items)
           T == TopoSort(items, deps)
<1>1. <<0, SortStart(items)>> \in Inv
  <2> DEFINE s == SortStart(items)
  <2>1. s \in SortState /\ Sorting(items, deps, s) BY SortStarts
  <2>2. s.ordered = <<>> /\ s.remaining = items /\ s.next = <<>> BY DEF SortStart
  <2>3. ToSet(<<>>) = {} /\ Len(<<>>) = 0 /\ Len(items) \in Nat BY DEF ToSet
  <2> HIDE DEF s
  <2>4. Blocked(items, deps, s) BY <2>2, <2>3 DEF Blocked
  <2>5. Pace(items, deps, 0, s) BY <2>2, <2>3, <2>4 DEF Pace
  <2>6. Sifting(items, deps, 0, s) BY <2>1, <2>2, <2>3, <2>5 DEF Sifting
  <2> QED BY <2>1, <2>6 DEF s
<1>2. ASSUME NEW n \in Nat, NEW s \in SortState, <<n, s>> \in Inv
      PROVE  <<n + 1, Sift(ToSet(items), deps, s)>> \in Inv
  <2>1. Sifting(items, deps, n, s) BY <1>2
  <2>2. Sift(ToSet(items), deps, s) \in SortState BY Sifted
  <2>3. Sifting(items, deps, n + 1, Sift(ToSet(items), deps, s)) BY <2>1, SiftKept
  <2> QED BY <2>2, <2>3
<1>3. PICK s \in SortState : <<N, s>> \in Inv /\ T = s.ordered
  <2> HIDE DEF Inv
  <2> QED BY <1>1, <1>2, SortEnds
<1>4. Sifting(items, deps, N, s) BY <1>3
<1>5. T \in Seq(Nat) /\ IsInjective(T) /\ ToSet(T) \in SUBSET ToSet(items) BY SortedByDeps
<1>6. /\ IsFiniteSet(ToSet(items)) /\ Cardinality(ToSet(items)) = L
      /\ IsFiniteSet(ToSet(T)) /\ Cardinality(ToSet(T)) = Len(T)
  BY <1>5, Counted
<1>7. L \in Nat /\ Len(T) \in Nat BY <1>5, LenProperties
<1>8. N = L * (L + 1) BY DEF SortTurns
<1> HIDE DEF Inv, N, T
<1>9. ASSUME Len(T) = L PROVE Acyclic(ToSet(items), deps)
  <2>1. ToSet(T) = ToSet(items) BY <1>5, <1>6, <1>9, FS_Subset
  <2> QED BY <1>3, <1>4, <2>1 DEF Sifting, Acyclic
<1>10. ASSUME Acyclic(ToSet(items), deps) PROVE Len(T) = L
  <2> DEFINE o == Len(s.ordered)
             m == Len(s.remaining)
             w == Len(s.next)
             turn == L + 1
             a == o * turn
             b == (o - 1) * turn
             c == (L - 1) * turn
  <2>1. s.ordered \in Seq(Nat) /\ s.remaining \in Seq(Nat) /\ s.next \in Seq(Nat)
    BY DEF SortState
  <2>2. o \in Nat /\ m \in Nat /\ w \in Nat BY <2>1, LenProperties
  <2>3. L = o + m + w BY <1>4 DEF Sifting
  <2>4. \/ s.remaining = <<>> /\ s.next = <<>>
        \/ N <= a + w
        \/ o >= 1 /\ N <= b + w + 1
    BY <1>4, <1>10 DEF Sifting, Pace
  <2>5. CASE s.remaining = <<>> /\ s.next = <<>>
    <3>1. m = 0 /\ w = 0 BY <2>5
    <3> QED BY <1>3, <2>2, <2>3, <3>1
  <2>6. CASE o = L BY <1>3, <2>6
  <2>7. CASE o # L /\ (N <= a + w \/ (o >= 1 /\ N <= b + w + 1))
    <3> HIDE DEF o, m, w, L
    <3>1. L >= 1 /\ o <= L - 1 /\ w <= L BY <1>7, <2>2, <2>3, <2>7
    <3>2. a <= c /\ a \in Nat /\ c \in Nat
      <4>1. (L - 1) - o \in Nat /\ turn \in Nat BY <1>7, <2>2, <3>1
      <4>2. ((L - 1) - o) * turn \in Nat /\ a \in Nat BY <2>2, <4>1
      <4>3. (L - 1) * turn = o * turn + ((L - 1) - o) * turn BY <1>7, <2>2, <4>1
      <4> QED BY <4>2, <4>3
    <3>3. N = c + turn BY <1>7, <1>8
    <3>4. o >= 1 => b \in Nat /\ a = b + turn
      <4>1. turn \in Nat BY <1>7
      <4> HIDE DEF turn
      <4> QED BY <2>2, <4>1, Turns
    <3> HIDE DEF a, b, c
    <3>5. turn = L + 1 OBVIOUS
    <3> HIDE DEF turn
    <3>6. FALSE BY <1>7, <2>2, <2>7, <3>1, <3>2, <3>3, <3>4, <3>5
    <3> QED BY <3>6
  <2> QED BY <2>4, <2>5, <2>6, <2>7
<1> QED BY <1>9, <1>10 DEF T

-----------------------------------------------------------------------------
(* The plan.                                                                *)

\* A package is refused for a cycle among the transactions or their inputs, and for
\* nothing else: buildExitDag and topoSortByDeps report an error only for a cycle,
\* and miss none.
THEOREM RefusedForCycle ==
  \A l \in Layouts : \A onchain \in SUBSET l.txs :
      Plannable(l, onchain) <=> /\ Acyclic(l.txs, l.spends)
                                /\ Acyclic(l.txs \ onchain, l.inputs)
<1> SUFFICES ASSUME NEW l \in Layouts, NEW onchain \in SUBSET l.txs
             PROVE  Plannable(l, onchain) <=> /\ Acyclic(l.txs, l.spends)
                                              /\ Acyclic(l.txs \ onchain, l.inputs)
  OBVIOUS
<1> DEFINE K == Kahn(l)
           U == Unconfirmed(l, onchain)
<1>1. l.txs \subseteq Nat /\ IsFiniteSet(l.txs) BY ExitAssumption
<1>2. Len(K) = Cardinality(l.txs) <=> Acyclic(l.txs, l.spends) BY <1>1, KahnCovers
<1>3. K \in Seq(Nat) /\ IsInjective(K) /\ ToSet(K) \in SUBSET l.txs BY <1>1, KahnLists
<1>4. U \in Seq(Nat) /\ IsInjective(U) /\ ToSet(U) = ToSet(K) \cap (l.txs \ onchain)
  <2>1. KeptOf(K, l.txs \ onchain, Len(K), U) BY <1>3, KeepOf DEF Unconfirmed
  <2>2. ToSet(K) = {K[m] : m \in 1 .. Len(K)} BY <1>3 DEF ToSet
  <2> QED BY <1>3, <2>1, <2>2 DEF KeptOf
<1>5. Len(TopoSort(U, l.inputs)) = Len(U) <=> Acyclic(ToSet(U), l.inputs) BY <1>4, SortCovers
<1>6. Len(K) = Cardinality(l.txs) => ToSet(K) = l.txs
  <2>1. Cardinality(ToSet(K)) = Len(K) BY <1>3, Counted
  <2> QED BY <1>1, <1>3, <2>1, FS_Subset
<1>7. Plannable(l, onchain) <=> /\ Len(K) = Cardinality(l.txs)
                                /\ Len(TopoSort(U, l.inputs)) = Len(U)
  BY DEF Plannable
<1> HIDE DEF K, U
<1>8. ToSet(K) = l.txs => ToSet(U) = l.txs \ onchain BY <1>4
<1> QED BY <1>2, <1>5, <1>6, <1>7, <1>8

\* A package brings on the chain, once each and in the order of their inputs, the
\* unconfirmed transactions that serve one of its VTXOs.
LEMMA UnrolledInOrder ==
  ASSUME NEW l \in Layouts, NEW onchain \in SUBSET l.txs, NEW active, Plannable(l, onchain)
  PROVE  LET s == Unrolled(l, onchain, active)
         IN  /\ s \in Seq(Nat) /\ IsInjective(s)
             /\ ToSet(s) = {t \in l.txs \ onchain : Serves(l, t) \cap active # {}}
             /\ \A t \in ToSet(s) : \A u \in l.inputs[t] \ onchain : Before(s, u, t)
<1> DEFINE K == Kahn(l)
           U == Unconfirmed(l, onchain)
           T == TopoSort(U, l.inputs)
           G == {t \in l.txs : Serves(l, t) \cap active # {}}
           X == Keep(T, G)
<1>1. /\ l.txs \subseteq Nat /\ IsFiniteSet(l.txs)
      /\ l.inputs \in [l.txs -> SUBSET l.txs]
      /\ \A t \in l.txs : \A u \in l.inputs[t] : Serves(l, t) \subseteq Serves(l, u)
  BY ExitAssumption
<1>2. Len(K) = Cardinality(l.txs) /\ Len(T) = Len(U) BY DEF Plannable
<1>3. K \in Seq(Nat) /\ IsInjective(K) /\ ToSet(K) = l.txs
  <2>1. K \in Seq(Nat) /\ IsInjective(K) /\ ToSet(K) \in SUBSET l.txs BY <1>1, KahnLists
  <2>2. Cardinality(ToSet(K)) = Len(K) BY <2>1, Counted
  <2> QED BY <1>1, <1>2, <2>1, <2>2, FS_Subset
<1>4. U \in Seq(Nat) /\ IsInjective(U) /\ ToSet(U) = l.txs \ onchain
  <2>1. KeptOf(K, l.txs \ onchain, Len(K), U) BY <1>3, KeepOf DEF Unconfirmed
  <2>2. ToSet(K) = {K[m] : m \in 1 .. Len(K)} BY <1>3 DEF ToSet
  <2> QED BY <1>3, <2>1, <2>2 DEF KeptOf
<1>5. T \in Seq(Nat) /\ IsInjective(T) /\ ToSet(T) \in SUBSET ToSet(U)
      /\ \A t \in ToSet(T) : \A u \in l.inputs[t] \cap ToSet(U) : Before(T, u, t)
  BY <1>4, SortedByDeps
<1>6. ToSet(T) = l.txs \ onchain
  <2>1. Cardinality(ToSet(T)) = Len(T) BY <1>5, Counted
  <2>2. IsFiniteSet(ToSet(U)) /\ Cardinality(ToSet(U)) = Len(U) BY <1>4, Counted
  <2> QED BY <1>2, <1>4, <1>5, <2>1, <2>2, FS_Subset
<1>7. KeptOf(T, G, Len(T), X) BY <1>5, KeepOf
<1>8. X = Unrolled(l, onchain, active) BY DEF Unrolled
<1>9. ToSet(T) = {T[m] : m \in 1 .. Len(T)} /\ DOMAIN T = 1 .. Len(T) BY <1>5 DEF ToSet
<1>10. X \in Seq(Nat) /\ IsInjective(X) /\ ToSet(X) = (l.txs \ onchain) \cap G
  BY <1>5, <1>6, <1>7, <1>9 DEF KeptOf
<1>11. ASSUME NEW t \in ToSet(X), NEW u \in l.inputs[t] \ onchain PROVE Before(X, u, t)
  <2>1. t \in l.txs /\ t \in G /\ t \in ToSet(T) BY <1>6, <1>10
  <2>2. u \in l.txs /\ u \in ToSet(U) BY <1>1, <1>4, <2>1
  <2>3. u \in G BY <1>1, <2>1, <2>2
  <2>4. PICK m, p \in DOMAIN T : m < p /\ T[m] = u /\ T[p] = t
    BY <1>5, <2>1, <2>2 DEF Before
  <2> HIDE DEF G, X, T, U, K
  <2> QED BY <1>7, <1>9, <2>1, <2>3, <2>4 DEF KeptOf
<1> HIDE DEF X, T, U, K
<1> QED BY <1>8, <1>10, <1>11

\* The types of steps and packages.
SplitterStep == [kind |-> "broadcast", tx |-> Splitter, forVtxos |-> {}]
StepType(l) ==
    [kind : {"broadcast", "package", "bump"}, tx : l.txs \cup {Splitter}, forVtxos : SUBSET Vtxos(l)]
PackageType(l) ==
    [steps : Seq(StepType(l)), sweeps : Seq(Vtxos(l)), onchain : SUBSET l.txs]

\* The steps of a package: the splitter, if it pays, and one for each transaction.
Planned(l, onchain, active, funded, p) ==
    LET X == Unrolled(l, onchain, active)
        off == IF funded /\ X # <<>> THEN 1 ELSE 0
    IN  /\ p \in PackageType(l) /\ p.onchain = onchain /\ ToSet(p.sweeps) = active
        /\ Len(p.steps) = Len(X) + off
        /\ off = 1 => p.steps[1] = SplitterStep
        /\ \A m \in 1 .. Len(X) :
               p.steps[m + off] = [kind |-> FeeOf(funded), tx |-> X[m],
                                   forVtxos |-> Serves(l, X[m]) \cap active]

LEMMA PlannedSteps ==
  ASSUME NEW l \in Layouts, NEW onchain \in SUBSET l.txs, NEW active \in SUBSET Vtxos(l),
         NEW funded \in BOOLEAN, Plannable(l, onchain)
  PROVE  Planned(l, onchain, active, funded, Plan(l, onchain, active, funded))
<1> DEFINE X == Unrolled(l, onchain, active)
           off == IF funded /\ X # <<>> THEN 1 ELSE 0
           stepOf(t) == [kind |-> FeeOf(funded), tx |-> t, forVtxos |-> Serves(l, t) \cap active]
           unroll == [m \in DOMAIN X |-> stepOf(X[m])]
           splitter == <<SplitterStep>>
           steps == (IF funded /\ X # <<>> THEN splitter ELSE <<>>) \o unroll
           sweeps == Ascending(active)
           p == Plan(l, onchain, active, funded)
<1>1. p = [steps |-> steps, sweeps |-> sweeps, onchain |-> onchain]
  BY DEF Plan, SplitterStep
<1>2. X \in Seq(Nat) /\ ToSet(X) \subseteq l.txs /\ Len(X) \in Nat /\ DOMAIN X = 1 .. Len(X)
  BY UnrolledInOrder
<1>3. \A m \in 1 .. Len(X) : X[m] \in l.txs BY <1>2 DEF ToSet
<1>4. \A m \in 1 .. Len(X) : stepOf(X[m]) \in StepType(l)
  BY <1>3 DEF StepType, FeeOf, Serves
<1>5. unroll \in Seq(StepType(l)) /\ Len(unroll) = Len(X)
      /\ \A m \in 1 .. Len(X) : unroll[m] = stepOf(X[m])
  <2>1. unroll \in [1 .. Len(X) -> StepType(l)] BY <1>2, <1>4
  <2> HIDE DEF X, stepOf
  <2>2. unroll \in Seq(StepType(l)) BY <1>2, <2>1, SeqDef
  <2>3. Len(unroll) = Len(X) BY <1>2, <2>1, <2>2
  <2> QED BY <1>2, <2>2, <2>3
<1>6. splitter \in Seq(StepType(l)) /\ Len(splitter) = 1 /\ splitter[1] = SplitterStep
  <2>1. SplitterStep \in StepType(l) BY DEF SplitterStep, StepType
  <2> HIDE DEF splitter
  <2> QED BY <2>1 DEF splitter
<1> HIDE DEF X, stepOf, unroll, splitter
<1>7. /\ steps \in Seq(StepType(l)) /\ Len(steps) = Len(X) + off
      /\ off = 1 => steps[1] = SplitterStep
      /\ \A m \in 1 .. Len(X) : steps[m + off] = stepOf(X[m])
  <2>1. CASE funded /\ X # <<>>
    <3>1. steps = splitter \o unroll /\ off = 1 BY <2>1
    <3> HIDE DEF steps, off
    <3>2. /\ steps \in Seq(StepType(l)) /\ Len(steps) = 1 + Len(unroll)
          /\ \A m \in 1 .. 1 : steps[m] = splitter[m]
          /\ \A m \in 1 .. Len(unroll) : steps[1 + m] = unroll[m]
      <4>1. /\ splitter \o unroll \in Seq(StepType(l))
            /\ Len(splitter \o unroll) = Len(splitter) + Len(unroll)
            /\ \A m \in 1 .. Len(splitter) : (splitter \o unroll)[m] = splitter[m]
            /\ \A m \in 1 .. Len(unroll) : (splitter \o unroll)[Len(splitter) + m] = unroll[m]
        <5> DEFINE S == StepType(l)
        <5>1. splitter \in Seq(S) /\ unroll \in Seq(S) BY <1>5, <1>6
        <5> HIDE DEF S
        <5>2. /\ splitter \o unroll \in Seq(S)
              /\ Len(splitter \o unroll) = Len(splitter) + Len(unroll)
              /\ \A m \in 1 .. Len(splitter) : (splitter \o unroll)[m] = splitter[m]
              /\ \A m \in 1 .. Len(unroll) : (splitter \o unroll)[Len(splitter) + m] = unroll[m]
          BY <5>1, JoinedAt
        <5> QED BY <5>2 DEF S
      <4> QED BY <1>6, <3>1, <4>1
    <3>3. \A m \in 1 .. Len(X) : m + 1 = 1 + m BY <1>2
    <3> QED BY <1>2, <1>5, <1>6, <3>1, <3>2, <3>3
  <2>2. CASE ~(funded /\ X # <<>>)
    <3>1. steps = unroll /\ off = 0 BY <1>5, <2>2
    <3> QED BY <1>2, <1>5, <3>1
  <2> QED BY <2>1, <2>2
<1>8. sweeps \in Seq(Vtxos(l)) /\ ToSet(sweeps) = active
  <2>1. IsFiniteSet(Vtxos(l)) /\ Vtxos(l) \subseteq Nat BY ExitAssumption
  <2>2. IsFiniteSet(active) /\ active \in SUBSET Nat BY <2>1, FS_Subset
  <2>3. sweeps \in Seq(Nat) /\ ToSet(sweeps) = active BY <2>2, AscendingLists
  <2> HIDE DEF sweeps
  <2>4. DOMAIN sweeps = 1 .. Len(sweeps) /\ Len(sweeps) \in Nat BY <2>3
  <2>5. sweeps \in [1 .. Len(sweeps) -> Vtxos(l)] BY <2>3, <2>4 DEF ToSet
  <2> QED BY <2>3, <2>4, <2>5, SeqDef
<1> HIDE DEF steps, sweeps, off, p
<1>9. p \in PackageType(l) /\ p.onchain = onchain /\ p.steps = steps /\ p.sweeps = sweeps
  BY <1>1, <1>7, <1>8 DEF PackageType
<1> QED BY <1>7, <1>8, <1>9 DEF Planned, X, off, p, stepOf

\* A step is the splitter or brings a transaction for VTXOs that it serves.
Shaped ==
    \A n \in DOMAIN pkg.steps :
        \/ pkg.steps[n] = SplitterStep
        \/ /\ pkg.steps[n].kind # "broadcast" /\ pkg.steps[n].tx \in layout.txs
           /\ pkg.steps[n].forVtxos \subseteq Serves(layout, pkg.steps[n].tx)

\* A package is whole and in order.
LEMMA PlannedInOrder ==
  ASSUME layout \in Layouts, layout' = layout,
         NEW onchain \in SUBSET layout.txs, NEW active \in SUBSET Vtxos(layout),
         NEW funded \in BOOLEAN, Plannable(layout, onchain),
         pkg' = Plan(layout, onchain, active, funded)
  PROVE  PlanInOrder' /\ Shaped'
<1> DEFINE l == layout
           X == Unrolled(l, onchain, active)
           off == IF funded /\ X # <<>> THEN 1 ELSE 0
           steps == pkg'.steps
           stepOf(t) == [kind |-> FeeOf(funded), tx |-> t, forVtxos |-> Serves(l, t) \cap active]
<1>1. /\ l.txs \subseteq Nat \ {0} /\ l.inputs \in [l.txs -> SUBSET l.txs]
      /\ l.chain \in [Vtxos(l) -> SUBSET l.txs]
      /\ \A t \in l.txs : \A u \in l.inputs[t] : Serves(l, t) \subseteq Serves(l, u)
  BY ExitAssumption
<1>2. /\ X \in Seq(Nat) /\ IsInjective(X) /\ Len(X) \in Nat /\ DOMAIN X = 1 .. Len(X)
      /\ ToSet(X) = {t \in l.txs \ onchain : Serves(l, t) \cap active # {}}
      /\ \A t \in ToSet(X) : \A u \in l.inputs[t] \ onchain : Before(X, u, t)
  BY UnrolledInOrder
<1>3. /\ pkg' \in PackageType(l) /\ pkg'.onchain = onchain /\ ToSet(pkg'.sweeps) = active
      /\ Len(steps) = Len(X) + off
      /\ off = 1 => steps[1] = SplitterStep
      /\ \A m \in 1 .. Len(X) : steps[m + off] = stepOf(X[m])
  <2>1. Planned(l, onchain, active, funded, pkg') BY PlannedSteps
  <2> QED BY <2>1 DEF Planned
<1>4. off \in {0, 1} /\ DOMAIN steps = 1 .. Len(X) + off
  <2>1. off \in {0, 1} OBVIOUS
  <2>2. steps \in Seq(StepType(l)) BY <1>3 DEF PackageType
  <2> HIDE DEF off, X
  <2> QED BY <1>2, <1>3, <2>1, <2>2
<1>5. ASSUME NEW m \in 1 .. Len(X)
      PROVE  /\ X[m] \in ToSet(X) /\ X[m] \in l.txs /\ X[m] # Splitter /\ ~IsSweep(X[m])
             /\ stepOf(X[m]).tx = X[m]
  <2>1. X[m] \in ToSet(X) BY <1>2 DEF ToSet
  <2> HIDE DEF X
  <2>2. X[m] \in l.txs /\ X[m] \in Nat \ {0} BY <1>1, <1>2, <2>1
  <2> QED BY <2>1, <2>2 DEF Splitter, IsSweep
<1>6. FeeOf(funded) # "broadcast" /\ (FeeOf(funded) = "package" <=> funded) BY DEF FeeOf
<1>7. funded /\ Len(X) > 0 => off = 1 BY <1>2
<1> HIDE DEF X, off, steps
<1>8. \A m \in 1 .. Len(X) : m + off \in DOMAIN steps BY <1>2, <1>4
<1>9. ASSUME NEW n \in DOMAIN steps
      PROVE  \/ off = 1 /\ n = 1 /\ steps[n] = SplitterStep
             \/ n - off \in 1 .. Len(X) /\ steps[n] = stepOf(X[n - off])
  <2>1. CASE off = 1 /\ n = 1 BY <1>3, <2>1
  <2>2. CASE ~(off = 1 /\ n = 1)
    <3>1. n - off \in 1 .. Len(X) /\ (n - off) + off = n BY <1>2, <1>4, <2>2
    <3> QED BY <1>3, <3>1
  <2> QED BY <2>1, <2>2
<1>10. ASSUME NEW n \in DOMAIN steps
       PROVE  \/ steps[n] = SplitterStep
              \/ /\ steps[n].kind # "broadcast" /\ steps[n].tx \in l.txs
                 /\ steps[n].forVtxos \subseteq Serves(l, steps[n].tx)
  BY <1>5, <1>6, <1>9
<1>11. Shaped' BY <1>10 DEF Shaped, steps
<1>12. ASSUME NEW m \in DOMAIN steps, NEW n \in DOMAIN steps, steps[m].tx = steps[n].tx
       PROVE  m = n
  <2>1. CASE steps[m].tx = Splitter
    <3>1. off = 1 /\ m = 1 /\ n = 1 BY <1>5, <1>9, <1>12, <2>1
    <3> QED BY <3>1
  <2>2. CASE steps[m].tx # Splitter
    <3>1. SplitterStep.tx = Splitter BY DEF SplitterStep
    <3>2. /\ m - off \in 1 .. Len(X) /\ n - off \in 1 .. Len(X)
          /\ X[m - off] = X[n - off]
      BY <1>9, <1>12, <2>2, <3>1
    <3>3. m - off = n - off BY <1>2, <3>2 DEF IsInjective
    <3> QED BY <1>4, <3>3
  <2> QED BY <2>1, <2>2
<1>13. ASSUME NEW n \in DOMAIN steps, NEW t \in Needs(steps[n]) \ onchain
       PROVE  \E m \in 1 .. n - 1 :
                 /\ steps[m].tx = t
                 /\ t # Splitter => steps[n].forVtxos \subseteq steps[m].forVtxos
  <2>1. steps[n] # SplitterStep
    <3>1. SplitterStep.tx = Splitter /\ SplitterStep.kind # "package" BY DEF SplitterStep
    <3>2. Needs(SplitterStep) = {} BY <3>1 DEF Needs, Inputs
    <3> QED BY <1>13, <3>2
  <2>2. n - off \in 1 .. Len(X) /\ steps[n] = stepOf(X[n - off]) BY <1>9, <2>1
  <2> DEFINE x == X[n - off]
  <2>3. x \in ToSet(X) /\ x \in l.txs /\ steps[n].tx = x /\ steps[n].kind = FeeOf(funded)
        /\ steps[n].forVtxos = Serves(l, x) \cap active
    BY <1>5, <2>2
  <2>4. Inputs(x) = l.inputs[x]
    BY <1>5, <2>2 DEF Inputs, IsSweep
  <2>5. t \in l.inputs[x] \/ (funded /\ t = Splitter)
    BY <1>6, <1>13, <2>3, <2>4 DEF Needs
  <2>6. CASE t \in l.inputs[x]
    <3>1. PICK a, b \in DOMAIN X : a < b /\ X[a] = t /\ X[b] = x
      BY <1>2, <1>13, <2>3, <2>6 DEF Before
    <3>2. b = n - off BY <1>2, <2>2, <3>1 DEF IsInjective
    <3>3. a + off \in 1 .. n - 1 BY <1>2, <1>4, <3>1, <3>2
    <3>4. steps[a + off] = stepOf(t) BY <1>2, <1>3, <3>1
    <3>5. Serves(l, x) \subseteq Serves(l, t) BY <1>1, <2>3, <2>6
    <3>6. steps[a + off].tx = t /\ steps[n].forVtxos \subseteq steps[a + off].forVtxos
      BY <2>3, <3>4, <3>5
    <3> QED BY <3>3, <3>6
  <2>7. CASE funded /\ t = Splitter
    <3>1. off = 1 /\ steps[1] = SplitterStep BY <1>2, <1>3, <1>7, <2>2, <2>7
    <3>2. 1 \in 1 .. n - 1 /\ steps[1].tx = t BY <1>2, <1>4, <2>2, <2>7, <3>1 DEF SplitterStep
    <3> QED BY <2>7, <3>2
  <2> QED BY <2>5, <2>6, <2>7
<1>14. ASSUME NEW v \in active, NEW t \in l.chain[v] \ onchain
       PROVE  \E n \in DOMAIN steps : steps[n].tx = t /\ v \in steps[n].forVtxos
  <2>1. t \in l.txs /\ v \in Vtxos(l) BY <1>1
  <2>2. v \in Serves(l, t) \cap active BY <2>1, <1>14 DEF Serves
  <2>3. t \in ToSet(X) BY <1>2, <1>14, <2>1, <2>2
  <2>4. PICK m \in 1 .. Len(X) : X[m] = t BY <1>2, <2>3 DEF ToSet
  <2>5. steps[m + off] = stepOf(t) /\ m + off \in DOMAIN steps BY <1>3, <1>8, <2>4
  <2> QED BY <2>2, <2>5
<1> HIDE DEF stepOf
<1>15. PlanInOrder'
  <2>1. Active' = active BY <1>3 DEF Active, steps
  <2>2. \A n \in DOMAIN steps : \A t \in Needs(steps[n]) \ onchain : \E m \in 1 .. n - 1 :
          steps[m].tx = t /\ (t # Splitter => steps[n].forVtxos \subseteq steps[m].forVtxos)
    BY <1>13
  <2>3. \A n \in DOMAIN pkg'.steps : \A t \in Needs(pkg.steps[n])' \ pkg'.onchain :
          \E m \in 1 .. n - 1 :
             /\ pkg'.steps[m].tx = t
             /\ t # Splitter => pkg'.steps[n].forVtxos \subseteq pkg'.steps[m].forVtxos
    BY <1>3, <2>2 DEF steps, Needs, Inputs
  <2>4. \A m, n \in DOMAIN pkg'.steps : pkg'.steps[m].tx = pkg'.steps[n].tx => m = n
    BY <1>12 DEF steps
  <2>5. \A v \in Active' : \A t \in layout'.chain[v] \ pkg'.onchain :
          \E n \in DOMAIN pkg'.steps : pkg'.steps[n].tx = t /\ v \in pkg'.steps[n].forVtxos
    BY <1>3, <1>14, <2>1 DEF steps
  <2> QED BY <2>3, <2>4, <2>5 DEF PlanInOrder
<1> QED BY <1>11, <1>15

-----------------------------------------------------------------------------
(* The types.                                                               *)

States == {"unprepared", "refused", "idle", "step", "send", "wait", "poll", "look", "sweep", "over"}

\* Where the executor is, it has a step or a sweep at hand.
TypeOK ==
    /\ layout \in Layouts /\ faults \in FaultSets /\ budget \in 0 .. MaxFaults
    /\ pool \subseteq Txs /\ depth \in [Txs -> 0 .. Cap] /\ void \subseteq Txs
    /\ pkg \in PackageType(layout) /\ pc \in States
    /\ pc = "unprepared" => pkg = NoPackage /\ i = 1 /\ k = 1
    /\ i \in 1 .. Len(pkg.steps) + 1 /\ k \in 1 .. Len(pkg.sweeps) + 1
    /\ pc \in {"send", "wait"} => i <= Len(pkg.steps)
    /\ pc \in {"look", "sweep"} => k <= Len(pkg.sweeps)
    /\ dead \subseteq Vtxos(layout) /\ done \subseteq Vtxos(layout) /\ seen \subseteq Txs

LEMMA BudgetTyped ==
  ASSUME budget \in 0 .. MaxFaults, UNCHANGED budget \/ (budget > 0 /\ budget' = budget - 1)
  PROVE  budget' \in 0 .. MaxFaults
  BY ExitAssumption

\* The steps and the sweeps of a package.
LEMMA AtHand ==
  ASSUME TypeOK
  PROVE  /\ DOMAIN pkg.steps = 1 .. Len(pkg.steps) /\ Len(pkg.steps) \in Nat
         /\ DOMAIN pkg.sweeps = 1 .. Len(pkg.sweeps) /\ Len(pkg.sweeps) \in Nat
         /\ \A n \in 1 .. Len(pkg.steps) :
                /\ pkg.steps[n].tx \in Txs
                /\ pkg.steps[n].forVtxos \subseteq Vtxos(layout)
         /\ \A n \in 1 .. Len(pkg.sweeps) :
                pkg.sweeps[n] \in Vtxos(layout) /\ Sweep(pkg.sweeps[n]) \in Txs
         /\ Active \subseteq Vtxos(layout)
<1>1. pkg.steps \in Seq(StepType(layout)) /\ pkg.sweeps \in Seq(Vtxos(layout))
  BY DEF TypeOK, PackageType
<1>2. /\ DOMAIN pkg.steps = 1 .. Len(pkg.steps) /\ Len(pkg.steps) \in Nat
      /\ DOMAIN pkg.sweeps = 1 .. Len(pkg.sweeps) /\ Len(pkg.sweeps) \in Nat
  BY <1>1
<1>3. ASSUME NEW n \in 1 .. Len(pkg.steps)
      PROVE  pkg.steps[n].tx \in Txs /\ pkg.steps[n].forVtxos \subseteq Vtxos(layout)
  <2>1. pkg.steps[n] \in StepType(layout) BY <1>1, <1>2
  <2> QED BY <2>1 DEF StepType, Txs
<1>4. \A n \in 1 .. Len(pkg.sweeps) :
         pkg.sweeps[n] \in Vtxos(layout) /\ Sweep(pkg.sweeps[n]) \in Txs
  BY <1>1, <1>2 DEF Txs
<1>5. Active \subseteq Vtxos(layout) BY <1>2, <1>4 DEF Active, ToSet
<1> QED BY <1>2, <1>3, <1>4, <1>5

LEMMA InitTyped == Init => TypeOK
<1> SUFFICES ASSUME Init PROVE TypeOK
  OBVIOUS
<1>1. pkg \in PackageType(layout) /\ Len(pkg.steps) = 0 /\ Len(pkg.sweeps) = 0
  BY DEF Init, NoPackage, PackageType
<1>2. budget \in 0 .. MaxFaults /\ 0 \in 0 .. Cap BY ExitAssumption DEF Init, Cap
<1> QED BY <1>1, <1>2 DEF Init, TypeOK, States

\* A package is prepared.
LEMMA PrepareTyped == ASSUME TypeOK, Prepare PROVE TypeOK' /\ (PlanInOrder /\ Shaped => (PlanInOrder /\ Shaped)')
<1> DEFINE onchain == {t \in layout.txs : Confirmed(t)}
<1>1. PICK active \in SUBSET Vtxos(layout), funded \in BOOLEAN :
        IF /\ Plannable(layout, onchain)
           /\ LET plan == Plan(layout, onchain, active, funded)
              IN  plan.steps # <<>> \/ plan.sweeps # <<>>
        THEN /\ pkg' = Plan(layout, onchain, active, funded)
             /\ pool' = IF pkg'.steps # <<>> /\ funded THEN pool \cup {Splitter} ELSE pool
             /\ pc' = "idle"
        ELSE pc' = "refused" /\ UNCHANGED <<pkg, pool>>
  BY DEF Prepare
<1>2. onchain \in SUBSET layout.txs OBVIOUS
<1>3. pc = "unprepared" /\ UNCHANGED <<env, budget, depth, void, run>> BY DEF Prepare
<1>4. layout \in Layouts /\ layout' = layout BY <1>3 DEF TypeOK, env
<1>5. CASE pc' = "idle" /\ Plannable(layout, onchain)
           /\ pkg' = Plan(layout, onchain, active, funded)
           /\ pool' \in {pool, pool \cup {Splitter}}
  <2>1. pkg' \in PackageType(layout)
    <3>1. Planned(layout, onchain, active, funded, pkg') BY <1>2, <1>4, <1>5, PlannedSteps
    <3> QED BY <3>1 DEF Planned
  <2>2. (PlanInOrder /\ Shaped)' BY <1>2, <1>4, <1>5, PlannedInOrder
  <2>3. Len(pkg'.steps) \in Nat /\ Len(pkg'.sweeps) \in Nat BY <2>1 DEF PackageType
  <2>4. i' = 1 /\ k' = 1 /\ i' \in 1 .. Len(pkg'.steps) + 1 /\ k' \in 1 .. Len(pkg'.sweeps) + 1
    BY <1>3, <2>3 DEF TypeOK, run
  <2>5. pool' \subseteq Txs BY <1>5 DEF TypeOK, Txs
  <2>6. TypeOK'
    BY <1>3, <1>5, <2>1, <2>4, <2>5 DEF TypeOK, env, run, States, Txs, Cap
  <2> QED BY <2>2, <2>6
<1>6. CASE pc' = "refused" /\ UNCHANGED <<pkg, pool>>
  <2>1. TypeOK' BY <1>3, <1>6 DEF TypeOK, env, run, States, Txs, Cap
  <2>2. PlanInOrder /\ Shaped => (PlanInOrder /\ Shaped)'
    BY <1>4, <1>6 DEF PlanInOrder, Shaped, Active, Needs, Inputs
  <2> QED BY <2>1, <2>2
<1>7. pool' \in {pool, pool \cup {Splitter}} BY <1>1
<1> QED BY <1>1, <1>5, <1>6, <1>7

\* The package stays what it is.
LEMMA PackageKept ==
  ASSUME UNCHANGED <<layout, pkg>>, PlanInOrder, Shaped
  PROVE  PlanInOrder' /\ Shaped'
  BY DEF PlanInOrder, Shaped, Active, Needs, Inputs

\* The steps of the executor over the transactions.
LEMMA StepsTyped ==
  ASSUME TypeOK, Start \/ CheckStep \/ Send \/ WaitConfirmed \/ BeginSweeps
  PROVE  TypeOK'
<1> USE DEF env, chain, run, States
<1>1. /\ Len(pkg.steps) \in Nat /\ Len(pkg.sweeps) \in Nat /\ i \in Nat /\ k \in Nat
      /\ i <= Len(pkg.steps) => /\ Step.tx \in Txs
                                /\ Step.forVtxos \subseteq Vtxos(layout)
  BY AtHand DEF TypeOK, Step
<1>2. Txs' = Txs
  BY DEF Txs, Start, CheckStep, Send, WaitConfirmed, BeginSweeps
<1>3. CASE Start BY <1>1, <1>2, <1>3 DEF Start, TypeOK
<1>4. CASE CheckStep
  <2>1. budget' \in 0 .. MaxFaults
    BY <1>4, BudgetTyped DEF CheckStep, Reads, Fault, NoFault, TypeOK
  <2>2. pc' \in {"step", "wait", "send"} /\ i' \in {i, i + 1} BY <1>4 DEF CheckStep
  <2>3. seen' \subseteq Txs BY <1>1, <1>4 DEF CheckStep, TypeOK
  <2>4. i' \in 1 .. Len(pkg.steps) + 1 BY <1>1, <1>4, <2>2 DEF CheckStep, TypeOK
  <2>5. pc' \in {"send", "wait"} => i' = i BY <1>4 DEF CheckStep
  <2> QED BY <1>1, <1>2, <1>4, <2>1, <2>2, <2>3, <2>4, <2>5 DEF CheckStep, TypeOK
<1>5. CASE Send
  <2>1. budget' \in 0 .. MaxFaults
    BY <1>5, BudgetTyped DEF Send, Fault, NoFault, TypeOK
  <2>2. i <= Len(pkg.steps) BY <1>5 DEF Send, TypeOK
  <2>3. Branches \subseteq Vtxos(layout) BY <1>1, <2>2, AtHand DEF Branches
  <2>4. pool' \subseteq Txs /\ dead' \subseteq Vtxos(layout)
    BY <1>1, <1>5, <2>2, <2>3 DEF Send, TypeOK
  <2>5. \/ pc' = "wait" /\ i' = i
        \/ pc' = "step" /\ i' = i + 1
    BY <1>5 DEF Send
  <2>6. i' \in 1 .. Len(pkg.steps) + 1 BY <1>1, <2>2, <2>5 DEF TypeOK
  <2> QED BY <1>1, <1>2, <1>5, <2>1, <2>2, <2>4, <2>5, <2>6 DEF Send, TypeOK
<1>6. CASE WaitConfirmed
  <2>1. i <= Len(pkg.steps) BY <1>6 DEF WaitConfirmed, TypeOK
  <2>2. i' = i + 1 /\ i' \in 1 .. Len(pkg.steps) + 1 /\ seen' \subseteq Txs
    BY <1>1, <1>6, <2>1 DEF WaitConfirmed, TypeOK
  <2> QED BY <1>1, <1>2, <1>6, <2>2 DEF WaitConfirmed, TypeOK
<1>7. CASE BeginSweeps BY <1>2, <1>7 DEF BeginSweeps, TypeOK
<1> QED BY <1>3, <1>4, <1>5, <1>6, <1>7

\* The steps of the executor over the sweeps, its end and the next run.
LEMMA SweepsTyped ==
  ASSUME TypeOK,
         EndRound \/ PollSweep \/ LookDependency \/ SendSweep \/ TipUnknown \/ Kill \/ Rerun
  PROVE  TypeOK'
<1> USE DEF env, chain, run, States
<1>1. /\ Len(pkg.steps) \in Nat /\ Len(pkg.sweeps) \in Nat /\ i \in Nat /\ k \in Nat
      /\ k <= Len(pkg.sweeps) => V \in Vtxos(layout) /\ Sweep(V) \in Txs
  BY AtHand DEF TypeOK, V
<1>2. Txs' = Txs
  BY DEF Txs, EndRound, PollSweep, LookDependency, SendSweep, TipUnknown, Kill, Rerun
<1>3. CASE EndRound BY <1>1, <1>2, <1>3 DEF EndRound, TypeOK
<1>4. CASE PollSweep
  <2>1. budget' \in 0 .. MaxFaults
    BY <1>4, BudgetTyped DEF PollSweep, Reads, Fault, NoFault, TypeOK
  <2>2. k <= Len(pkg.sweeps) BY <1>4 DEF PollSweep
  <2>3. \/ k' = k + 1 /\ pc' = "poll"
        \/ k' = k /\ pc' = "look"
    BY <1>4 DEF PollSweep
  <2>4. done' \subseteq Vtxos(layout) BY <1>1, <1>4, <2>2 DEF PollSweep, TypeOK
  <2>5. k' \in 1 .. Len(pkg.sweeps) + 1 BY <1>1, <2>2, <2>3 DEF TypeOK
  <2> QED BY <1>1, <1>2, <1>4, <2>1, <2>2, <2>3, <2>4, <2>5 DEF PollSweep, TypeOK
<1>5. CASE LookDependency
  <2>1. budget' \in 0 .. MaxFaults
    BY <1>5, BudgetTyped DEF LookDependency, Reads, Fault, NoFault, TypeOK
  <2>2. k <= Len(pkg.sweeps) BY <1>5 DEF LookDependency, TypeOK
  <2>3. \/ k' = k + 1 /\ pc' = "poll"
        \/ k' = k /\ pc' = "sweep"
    BY <1>5 DEF LookDependency
  <2>4. k' \in 1 .. Len(pkg.sweeps) + 1 BY <1>1, <2>2, <2>3 DEF TypeOK
  <2> QED BY <1>1, <1>2, <1>5, <2>1, <2>2, <2>3, <2>4 DEF LookDependency, TypeOK
<1>6. CASE SendSweep
  <2>1. k <= Len(pkg.sweeps) BY <1>6 DEF SendSweep, TypeOK
  <2>2. k' = k + 1 /\ pc' = "poll" BY <1>6 DEF SendSweep
  <2>3. pool' \subseteq Txs /\ done' \subseteq Vtxos(layout)
    BY <1>1, <1>6, <2>1 DEF SendSweep, TypeOK
  <2>4. k' \in 1 .. Len(pkg.sweeps) + 1 BY <1>1, <2>1, <2>2 DEF TypeOK
  <2> QED BY <1>1, <1>2, <1>6, <2>1, <2>2, <2>3, <2>4 DEF SendSweep, TypeOK
<1>7. CASE TipUnknown BY <1>2, <1>7, BudgetTyped DEF TipUnknown, Fault, TypeOK
<1>8. CASE Kill BY <1>2, <1>8, BudgetTyped DEF Kill, Fault, TypeOK
<1>9. CASE Rerun
  <2>1. pc \in {"wait", "poll", "look", "sweep", "over"} BY <1>9 DEF Rerun, Stuck
  <2> QED BY <1>2, <1>9, <2>1 DEF Rerun, TypeOK
<1> QED BY <1>3, <1>4, <1>5, <1>6, <1>7, <1>8, <1>9

\* The steps of the chain.
LEMMA ChainTyped == ASSUME TypeOK, Environment PROVE TypeOK'
<1> USE DEF env, chain, run
<1>1. Txs' = Txs BY DEF Txs, Environment, MineSome, Mine, Evict, Conflict, Reorg, OthersUnroll
<1>2. Cap \in Nat /\ Cap > 1 /\ Cap' = Cap BY ExitAssumption DEF Cap
<1>3. \A t \in Txs : depth[t] \in 0 .. Cap BY DEF TypeOK
<1>4. ASSUME NEW S \in SUBSET pool, Mine(S) PROVE TypeOK'
  <2>1. depth' \in [Txs -> 0 .. Cap]
    <3>1. \A t \in Txs : (IF t \in S THEN 1 ELSE IF Confirmed(t) /\ depth[t] < Cap THEN depth[t] + 1
                          ELSE depth[t]) \in 0 .. Cap
      BY <1>2, <1>3
    <3> QED BY <1>4, <3>1 DEF Mine
  <2> QED BY <1>1, <1>2, <1>4, <2>1 DEF Mine, TypeOK
<1>5. CASE Evict BY <1>1, <1>2, <1>5, BudgetTyped DEF Evict, Fault, TypeOK
<1>6. CASE Conflict BY <1>1, <1>2, <1>6, BudgetTyped DEF Conflict, Fault, TypeOK
<1>7. CASE Reorg
  <2>1. depth' \in [Txs -> 0 .. Cap]
    <3>1. \A t \in Txs : (IF depth[t] \in {0, Cap} THEN depth[t] ELSE depth[t] - 1) \in 0 .. Cap
      BY <1>2, <1>3
    <3> QED BY <1>7, <3>1 DEF Reorg
  <2>2. pool' \subseteq Txs BY <1>7 DEF Reorg, TypeOK
  <2> QED BY <1>1, <1>2, <1>7, <2>1, <2>2, BudgetTyped DEF Reorg, Fault, TypeOK
<1>8. CASE OthersUnroll
  <2>1. layout.txs \subseteq Txs BY DEF Txs
  <2> QED BY <1>1, <1>2, <1>8, <2>1 DEF OthersUnroll, TypeOK
<1> QED BY <1>4, <1>5, <1>6, <1>7, <1>8 DEF Environment, MineSome

\* What every step keeps: the types, and a package that is whole and in order.
LEMMA StepTyped == TypeOK /\ PlanInOrder /\ Shaped /\ [Next]_vars => (TypeOK /\ PlanInOrder /\ Shaped)'
<1> SUFFICES ASSUME TypeOK, PlanInOrder, Shaped, [Next]_vars PROVE (TypeOK /\ PlanInOrder /\ Shaped)'
  OBVIOUS
<1>1. CASE UNCHANGED vars
  <2>1. TypeOK' BY <1>1 DEF vars, env, chain, run, TypeOK, Txs, Cap
  <2> QED BY <1>1, <2>1, PackageKept DEF vars, env
<1>2. CASE Prepare BY <1>2, PrepareTyped
<1>3. CASE Execute \/ TipUnknown \/ Kill \/ Environment \/ Rerun
  <2>1. TypeOK' BY <1>3, StepsTyped, SweepsTyped, ChainTyped DEF Execute
  <2>2. UNCHANGED <<layout, pkg>>
    BY <1>3 DEF Execute, Environment, Start, CheckStep, Send, WaitConfirmed, BeginSweeps, EndRound,
       PollSweep, LookDependency, SendSweep, TipUnknown, Kill, Rerun, MineSome, Mine, Evict,
       Conflict, Reorg, OthersUnroll, env
  <2> QED BY <2>1, <2>2, PackageKept
<1> QED BY <1>1, <1>2, <1>3 DEF Next, OneRun

LEMMA InitPlanned == Init => PlanInOrder /\ Shaped
<1> SUFFICES ASSUME Init PROVE PlanInOrder /\ Shaped
  OBVIOUS
<1>1. pkg.steps = <<>> /\ pkg.sweeps = <<>> BY DEF Init, NoPackage
<1>2. DOMAIN pkg.steps = {} /\ Active = {} BY <1>1 DEF Active, ToSet
<1> QED BY <1>2 DEF PlanInOrder, Shaped

\* The types of the exit hold in every behaviour; with them, that the executor has a
\* step or a sweep at hand wherever it acts on one.
THEOREM TypeCorrect == Spec => []TypeOK
<1>1. Init => TypeOK /\ PlanInOrder /\ Shaped BY InitTyped, InitPlanned
<1> QED BY <1>1, StepTyped, PTL DEF Spec

\* The package a preparation assembles is whole and in order, whatever graph the
\* indexer answers with: each transaction that is not confirmed once, after all that
\* its inputs name, for all the VTXOs that later steps need it for.
THEOREM PackageInOrder == Spec => []PlanInOrder
<1>1. Init => TypeOK /\ PlanInOrder /\ Shaped BY InitTyped, InitPlanned
<1> QED BY <1>1, StepTyped, PTL DEF Spec

-----------------------------------------------------------------------------
(* What is given up.                                                        *)

\* Nobody interferes.
Calm == faults \cap {"reorg", "others", "read", "fees"} = {}

\* What the package was prepared without is still confirmed.
Founded == \A t \in pkg.onchain : Confirmed(t)

\* A step the run has left behind is confirmed, or all that it serves is given up.
Left(n) ==
    \/ Confirmed(pkg.steps[n].tx)
    \/ pkg.steps[n].kind # "broadcast" /\ pkg.steps[n].forVtxos \subseteq dead
    \/ /\ pkg.steps[n].kind = "broadcast"
       /\ \A m \in DOMAIN pkg.steps :
              pkg.steps[m].kind = "package" => pkg.steps[m].forVtxos \subseteq dead
Behind == \A n \in 1 .. i - 1 : Left(n)

\* What is about to be sent is nowhere yet, and wanted.
AboutToSend ==
    pc = "send" => /\ Unknown(Step.tx)
                   /\ Step.kind = "broadcast" \/ ~(Step.forVtxos \subseteq dead)
AboutToSweep ==
    /\ pc \in {"look", "sweep"} => Unknown(Sweep(V))
    /\ pc = "sweep" => Confirmed(layout.leaf[V])

Caused == \A v \in dead \cup done : Lost(v) \/ Confirmed(Sweep(v))

CalmInv == Founded /\ Behind /\ AboutToSend /\ AboutToSweep /\ Caused

\* When nobody interferes, a status is what it is, and a confirmation stays.
LEMMA CalmReads == ASSUME Calm, NEW t, NEW s, Reads(t, s) PROVE s = Status(t) /\ NoFault
  BY DEF Calm, Reads, Fault

LEMMA CalmChain ==
  ASSUME TypeOK, Calm, Environment
  PROVE  /\ UNCHANGED <<layout, faults, pkg, pc, run>>
         /\ \A t \in Txs : Confirmed(t) => Confirmed(t)'
         /\ \A t \in Txs : Unknown(t) => Unknown(t)'
         /\ void \subseteq void'
<1> USE DEF env, Unknown
<1>1. \A t \in Txs : depth[t] \in 0 .. Cap BY DEF TypeOK
<1>2. Cap \in Nat /\ Cap > 1 BY ExitAssumption DEF Cap
<1>3. ASSUME NEW S \in SUBSET pool, Mine(S), NEW t \in Txs
      PROVE  (Confirmed(t) => Confirmed(t)') /\ (Unknown(t) => Unknown(t)')
  <2>1. depth'[t] = IF t \in S THEN 1 ELSE IF Confirmed(t) /\ depth[t] < Cap THEN depth[t] + 1
                    ELSE depth[t]
    BY <1>3 DEF Mine
  <2> QED BY <1>1, <1>3, <2>1 DEF Mine, Confirmed
<1>4. CASE MineSome BY <1>3, <1>4 DEF MineSome, Mine
<1>5. CASE Evict \/ Conflict BY <1>5 DEF Evict, Conflict, Confirmed
<1>6. ~Reorg /\ ~OthersUnroll BY DEF Calm, Reorg, OthersUnroll, Fault
<1> QED BY <1>4, <1>5, <1>6 DEF Environment

\* A transaction is refused only if somebody else has spent its inputs: those that
\* need another one that failed were given up with it.
LEMMA RefusedForCause ==
  ASSUME TypeOK, PlanInOrder, Shaped, CalmInv, pc = "send", Refuses(Step.tx, Step.kind)
  PROVE  Step.tx \in void
<1>1. i \in DOMAIN pkg.steps /\ i \in Nat BY AtHand DEF TypeOK
<1>2. Unknown(Step.tx) /\ (Step.kind = "broadcast" \/ ~(Step.forVtxos \subseteq dead))
  BY DEF CalmInv, AboutToSend
<1>3. ~Spendable(Step.tx, Step.kind) BY <1>2 DEF Refuses, Unknown
<1>4. layout.txs \subseteq Nat \ {0} /\ pkg.onchain \subseteq layout.txs
  BY ExitAssumption DEF TypeOK, PackageType
<1>5. \/ Step = SplitterStep
      \/ Step.kind # "broadcast" /\ Step.tx \in layout.txs
  BY <1>1 DEF Shaped, Step
<1> SUFFICES ASSUME Step.tx \notin void PROVE FALSE
  OBVIOUS
<1>6. Step.kind # "sweep"
  <2>1. Step \in StepType(layout) BY <1>1 DEF TypeOK, PackageType, Step
  <2> QED BY <2>1 DEF StepType
<1>7. \E t \in Needs(Step) : ~Confirmed(t) BY <1>3, <1>6 DEF Spendable, Needs
<1>8. PICK t \in Needs(Step) : ~Confirmed(t) BY <1>7
<1>9. t \notin pkg.onchain BY <1>8 DEF CalmInv, Founded
<1>10. Step # SplitterStep
  <2>1. SplitterStep.tx = Splitter /\ SplitterStep.kind # "package" BY DEF SplitterStep
  <2>2. Needs(SplitterStep) = {} BY <2>1 DEF Needs, Inputs
  <2> QED BY <1>8, <2>2
<1>11. Step.kind # "broadcast" /\ Step.tx \in layout.txs /\ ~(Step.forVtxos \subseteq dead)
  BY <1>2, <1>5, <1>10
<1>12. PICK m \in 1 .. i - 1 : /\ pkg.steps[m].tx = t
                               /\ t # Splitter => Step.forVtxos \subseteq pkg.steps[m].forVtxos
  BY <1>1, <1>8, <1>9 DEF PlanInOrder, Step
<1>13. m \in DOMAIN pkg.steps
  <2>1. DOMAIN pkg.steps = 1 .. Len(pkg.steps) /\ Len(pkg.steps) \in Nat BY AtHand
  <2> QED BY <1>1, <2>1
<1>14. \/ pkg.steps[m] = SplitterStep
       \/ pkg.steps[m].kind # "broadcast" /\ t \in layout.txs
  BY <1>12, <1>13 DEF Shaped
<1>15. Left(m) /\ ~Confirmed(pkg.steps[m].tx) BY <1>8, <1>12 DEF CalmInv, Behind
<1>16. CASE t = Splitter
  <2>1. t \notin layout.txs BY <1>4, <1>16 DEF Splitter
  <2>2. pkg.steps[m].kind = "broadcast" BY <1>14, <2>1 DEF SplitterStep
  <2>3. Step.kind = "package"
    <3>1. Inputs(Step.tx) \subseteq layout.txs
      <4>1. Step.tx # Splitter /\ ~IsSweep(Step.tx) BY <1>4, <1>11 DEF Splitter, IsSweep
      <4>2. layout.inputs \in [layout.txs -> SUBSET layout.txs] BY ExitAssumption DEF TypeOK
      <4> QED BY <1>11, <4>1, <4>2 DEF Inputs
    <3> QED BY <1>8, <2>1, <3>1 DEF Needs
  <2>4. Step.forVtxos \subseteq dead BY <1>1, <1>15, <2>2, <2>3 DEF Left, Step
  <2> QED BY <1>11, <2>4
<1>17. CASE t # Splitter
  <2>1. pkg.steps[m].kind # "broadcast" BY <1>12, <1>14, <1>17 DEF SplitterStep
  <2>2. Step.forVtxos \subseteq dead BY <1>12, <1>15, <1>17, <2>1 DEF Left
  <2> QED BY <1>11, <2>2
<1> QED BY <1>16, <1>17

\* So a branch fails with a transaction of its own.
LEMMA BranchesLost ==
  ASSUME TypeOK, Shaped, pc = "send", Step.tx \in void, NEW v \in Branches
  PROVE  Lost(v)
<1>1. i \in DOMAIN pkg.steps BY AtHand DEF TypeOK
<1>2. \/ Step = SplitterStep
      \/ Step.kind # "broadcast" /\ Step.forVtxos \subseteq Serves(layout, Step.tx)
  BY <1>1 DEF Shaped, Step
<1>3. CASE Step = SplitterStep BY <1>3 DEF Lost, SplitterStep
<1>4. CASE Step.kind # "broadcast" /\ Step.forVtxos \subseteq Serves(layout, Step.tx)
  BY <1>4 DEF Branches, Serves, Lost
<1> QED BY <1>2, <1>3, <1>4

\* A sweep that is refused, and not for coming early, is lost.
LEMMA SweepLost ==
  ASSUME TypeOK, AboutToSweep, pc = "sweep", ~TooEarly(Sweep(V)), Refuses(Sweep(V), "sweep")
  PROVE  Lost(V)
<1>1. Unknown(Sweep(V)) /\ Confirmed(layout.leaf[V]) BY DEF AboutToSweep
<1>2. V \in Nat \ {0}
  <2>1. V \in Vtxos(layout) BY AtHand DEF TypeOK, V
  <2> QED BY <2>1, ExitAssumption DEF TypeOK
<1>3. Inputs(Sweep(V)) = {layout.leaf[V]}
  <2>1. Sweep(V) # Splitter /\ IsSweep(Sweep(V)) /\ -Sweep(V) = V
    BY <1>2 DEF Sweep, Splitter, IsSweep
  <2> QED BY <2>1 DEF Inputs
<1>4. depth[layout.leaf[V]] < CSV \/ depth[layout.leaf[V]] >= CSV
  <2>1. V \in Vtxos(layout) BY AtHand DEF TypeOK, V
  <2>2. layout.leaf[V] \in Txs BY <2>1, ExitAssumption DEF TypeOK, Txs
  <2>3. depth[layout.leaf[V]] \in Int BY <2>2 DEF TypeOK
  <2> QED BY <2>3, ExitAssumption
<1> SUFFICES ASSUME Sweep(V) \notin void PROVE FALSE
  BY DEF Lost
<1>5. ~Spendable(Sweep(V), "sweep") BY <1>1 DEF Refuses, Unknown
<1> QED BY <1>1, <1>3, <1>4, <1>5 DEF Spendable, TooEarly

\* A step that leaves the chain alone and gives nothing up undoes nothing.
LEMMA LeftStays ==
  ASSUME UNCHANGED <<layout, pkg, depth, void>>, dead \subseteq dead'
  PROVE  /\ \A n : Left(n) => Left(n)'
         /\ Founded => Founded'
         /\ \A v : Lost(v) \/ Confirmed(Sweep(v)) => (Lost(v) \/ Confirmed(Sweep(v)))'
  BY DEF Left, Founded, Lost, Confirmed

\* The steps of the executor.
LEMMA StepsCalm ==
  ASSUME TypeOK, PlanInOrder, Shaped, Calm, CalmInv,
         Start \/ CheckStep \/ Send \/ WaitConfirmed \/ BeginSweeps
  PROVE  CalmInv'
<1> USE DEF env, chain, run
<1>1. UNCHANGED <<layout, pkg, depth, void>>
  BY DEF Start, CheckStep, Send, WaitConfirmed, BeginSweeps
<1>2. i \in Nat /\ i' \in Nat BY AtHand DEF TypeOK, Start, CheckStep, Send, WaitConfirmed, BeginSweeps
<1>3. Founded' BY <1>1 DEF CalmInv, Founded, Confirmed
<1>4. CASE Start
  <2>1. Behind' /\ AboutToSend' /\ AboutToSweep' /\ Caused'
    BY <1>4 DEF Start, Behind, AboutToSend, AboutToSweep, Caused
  <2> QED BY <1>3, <2>1 DEF CalmInv
<1>5. CASE CheckStep
  <2>1. dead' = dead /\ done' = done /\ pool' = pool BY <1>5 DEF CheckStep
  <2>2. Caused' BY <1>1, <2>1, LeftStays DEF CalmInv, Caused
  <2>3. AboutToSweep' BY <1>5 DEF CheckStep, AboutToSweep
  <2>4. Behind' /\ AboutToSend'
    <3>1. CASE /\ Step.kind # "broadcast" /\ Step.forVtxos \subseteq dead
               /\ i' = i + 1 /\ pc' = pc
      <4>1. Left(i) BY <3>1 DEF Left, Step
      <4>2. \A n \in 1 .. i' - 1 : n \in 1 .. i - 1 \/ n = i BY <1>2, <3>1
      <4>3. Behind' BY <1>1, <2>1, <4>1, <4>2, LeftStays DEF CalmInv, Behind
      <4> QED BY <1>5, <3>1, <4>3 DEF CheckStep, AboutToSend
    <3>2. ASSUME Step.kind = "broadcast" \/ ~(Step.forVtxos \subseteq dead),
                 NEW s \in {"confirmed", "pool", "none"}, Reads(Step.tx, s),
                 pc' = IF s = "confirmed" THEN "step" ELSE IF s = "pool" THEN "wait" ELSE "send",
                 i' = IF s = "confirmed" THEN i + 1 ELSE i
          PROVE  Behind' /\ AboutToSend'
      <4>1. s = Status(Step.tx) BY <3>2, CalmReads
      <4>2. CASE s = "confirmed"
        <5>1. Left(i) BY <4>1, <4>2 DEF Status, Left, Step
        <5>2. \A n \in 1 .. i' - 1 : n \in 1 .. i - 1 \/ n = i BY <1>2, <3>2, <4>2
        <5>3. Behind' BY <1>1, <2>1, <5>1, <5>2, LeftStays DEF CalmInv, Behind
        <5> QED BY <3>2, <4>2, <5>3 DEF AboutToSend
      <4>3. CASE s # "confirmed"
        <5>1. i' = i /\ Behind' BY <1>1, <2>1, <3>2, <4>3, LeftStays DEF CalmInv, Behind
        <5>2. pc' = "send" => Unknown(Step.tx)
          BY <3>2, <4>1, <4>3 DEF Status, Unknown
        <5>3. AboutToSend'
          BY <1>1, <2>1, <3>2, <5>1, <5>2 DEF AboutToSend, Unknown, Confirmed, Step
        <5> QED BY <5>1, <5>3
      <4> QED BY <4>2, <4>3
    <3> QED BY <1>5, <3>1, <3>2 DEF CheckStep
  <2> QED BY <1>3, <2>2, <2>3, <2>4 DEF CalmInv
<1>6. CASE Send
  <2>1. pc = "send" /\ done' = done /\ pc' # "send" /\ pc' \notin {"look", "sweep"} /\ dead \subseteq dead'
    BY <1>6 DEF Send
  <2>2. AboutToSend' /\ AboutToSweep' BY <2>1 DEF AboutToSend, AboutToSweep
  <2>3. CASE i' = i /\ dead' = dead
    <3>1. Behind' BY <1>1, <2>3, LeftStays DEF CalmInv, Behind
    <3>2. Caused' BY <1>1, <2>1, <2>3, LeftStays DEF CalmInv, Caused
    <3> QED BY <1>3, <2>2, <3>1, <3>2 DEF CalmInv
  <2>4. CASE Refuses(Step.tx, Step.kind) /\ dead' = dead \cup Branches /\ i' = i + 1
    <3>1. \A v \in Branches : Lost(v) BY <2>1, <2>4, RefusedForCause, BranchesLost
    <3>2. \A v \in dead' \cup done' : Lost(v) \/ Confirmed(Sweep(v))
      BY <2>1, <2>4, <3>1 DEF CalmInv, Caused
    <3>3. Caused' BY <1>1, <2>1, <3>2, LeftStays DEF Caused
    <3>4. ASSUME NEW n, n = i PROVE Left(n)'
      <4>1. CASE Step.kind = "broadcast"
        <5>1. \A m \in DOMAIN pkg.steps :
                 pkg.steps[m].kind = "package" => pkg.steps[m].forVtxos \subseteq dead'
          BY <2>4, <4>1 DEF Branches
        <5> QED BY <1>1, <3>4, <4>1, <5>1 DEF Left, Step
      <4>2. CASE Step.kind # "broadcast"
        <5>1. Step.forVtxos \subseteq dead' BY <2>4, <4>2 DEF Branches
        <5> QED BY <1>1, <3>4, <4>2, <5>1 DEF Left, Step
      <4> QED BY <4>1, <4>2
    <3>5. \A n \in 1 .. i' - 1 : n \in 1 .. i - 1 \/ n = i BY <1>2, <2>4
    <3>6. \A n \in 1 .. i - 1 : Left(n)'
      <4>1. \A n : Left(n) => Left(n)' BY <1>1, <2>1, LeftStays
      <4>2. \A n \in 1 .. i - 1 : Left(n) BY DEF CalmInv, Behind
      <4> QED BY <4>1, <4>2
    <3>7. Behind' BY <3>4, <3>5, <3>6 DEF Behind
    <3> QED BY <1>3, <2>2, <3>3, <3>7 DEF CalmInv
  <2>5. ~Fault("fees") BY DEF Calm, Fault
  <2> QED BY <1>6, <2>3, <2>4, <2>5 DEF Send
<1>7. CASE WaitConfirmed
  <2>1. Left(i) BY <1>7 DEF WaitConfirmed, Left, Step
  <2>2. \A n \in 1 .. i' - 1 : n \in 1 .. i - 1 \/ n = i BY <1>2, <1>7 DEF WaitConfirmed
  <2>3. dead' = dead /\ done' = done BY <1>7 DEF WaitConfirmed
  <2>4. Behind' BY <1>1, <2>1, <2>2, <2>3, LeftStays DEF CalmInv, Behind
  <2>5. Caused' BY <1>1, <2>3, LeftStays DEF CalmInv, Caused
  <2>6. AboutToSend' /\ AboutToSweep' BY <1>7 DEF WaitConfirmed, AboutToSend, AboutToSweep
  <2> QED BY <1>3, <2>4, <2>5, <2>6 DEF CalmInv
<1>8. CASE BeginSweeps
  <2>1. dead' = dead /\ done' = done /\ i' = i BY <1>8 DEF BeginSweeps
  <2>2. Behind' BY <1>1, <2>1, LeftStays DEF CalmInv, Behind
  <2>3. Caused' BY <1>1, <2>1, LeftStays DEF CalmInv, Caused
  <2>4. AboutToSend' /\ AboutToSweep' BY <1>8 DEF BeginSweeps, AboutToSend, AboutToSweep
  <2> QED BY <1>3, <2>2, <2>3, <2>4 DEF CalmInv
<1> QED BY <1>4, <1>5, <1>6, <1>7, <1>8

\* The steps of the executor over the sweeps, its end and the next run.
LEMMA SweepsCalm ==
  ASSUME TypeOK, Calm, CalmInv,
         EndRound \/ PollSweep \/ LookDependency \/ SendSweep \/ TipUnknown \/ Kill \/ Rerun
  PROVE  CalmInv'
<1> USE DEF env, chain, run
<1>1. UNCHANGED <<layout, pkg, depth, void, i, dead>>
  BY DEF EndRound, PollSweep, LookDependency, SendSweep, TipUnknown, Kill, Rerun
<1>2. Founded' /\ Behind' BY <1>1, LeftStays DEF CalmInv, Founded, Behind
<1>3. pc' # "send"
  BY DEF EndRound, PollSweep, LookDependency, SendSweep, TipUnknown, Kill, Rerun
<1>4. AboutToSend' BY <1>3 DEF AboutToSend
<1>5. CASE EndRound \/ TipUnknown \/ Kill \/ Rerun
  <2>1. done' = done /\ pc' \notin {"look", "sweep"} BY <1>5 DEF EndRound, TipUnknown, Kill, Rerun
  <2>2. Caused' BY <1>1, <2>1, LeftStays DEF CalmInv, Caused
  <2>3. AboutToSweep' BY <2>1 DEF AboutToSweep
  <2> QED BY <1>2, <1>4, <2>2, <2>3 DEF CalmInv
<1>6. CASE PollSweep
  <2>1. pool' = pool BY <1>6 DEF PollSweep
  <2>2. CASE done' = done /\ pc' = "poll"
    <3>1. Caused' BY <1>1, <2>2, LeftStays DEF CalmInv, Caused
    <3>2. AboutToSweep' BY <2>2 DEF AboutToSweep
    <3> QED BY <1>2, <1>4, <3>1, <3>2 DEF CalmInv
  <2>3. ASSUME NEW s \in {"confirmed", "pool", "none"}, Reads(Sweep(V), s),
               done' = IF s = "confirmed" THEN done \cup {V} ELSE done,
               k' = IF s = "none" THEN k ELSE k + 1,
               pc' = IF s = "none" THEN "look" ELSE "poll"
        PROVE  CalmInv'
    <3>1. s = Status(Sweep(V)) BY <2>3, CalmReads
    <3>2. s = "confirmed" => Confirmed(Sweep(V)) BY <3>1 DEF Status
    <3>3. \A v \in dead' \cup done' : Lost(v) \/ Confirmed(Sweep(v))
      BY <1>1, <2>3, <3>2 DEF CalmInv, Caused
    <3>4. Caused' BY <1>1, <3>3, LeftStays DEF Caused
    <3>5. s = "none" => Unknown(Sweep(V)) BY <3>1 DEF Status, Unknown
    <3>6. AboutToSweep' BY <1>1, <2>1, <2>3, <3>5 DEF AboutToSweep, Unknown, Confirmed, V
    <3> QED BY <1>2, <1>4, <3>4, <3>6 DEF CalmInv
  <2> QED BY <1>6, <2>2, <2>3 DEF PollSweep
<1>7. CASE LookDependency
  <2>1. pc = "look" /\ pool' = pool /\ done' = done BY <1>7 DEF LookDependency
  <2>2. Caused' BY <1>1, <2>1, LeftStays DEF CalmInv, Caused
  <2>3. \/ pc' = "poll"
        \/ pc' = "sweep" /\ k' = k /\ Reads(layout.leaf[V], "confirmed")
    BY <1>7 DEF LookDependency
  <2>4. pc' = "sweep" => k' = k /\ Confirmed(layout.leaf[V])
    BY <2>3, CalmReads DEF Status
  <2>5. Unknown(Sweep(V)) BY <2>1 DEF CalmInv, AboutToSweep
  <2>6. AboutToSweep'
    BY <1>1, <2>1, <2>3, <2>4, <2>5 DEF AboutToSweep, Unknown, Confirmed, V
  <2> QED BY <1>2, <1>4, <2>2, <2>6 DEF CalmInv
<1>8. CASE SendSweep
  <2>1. pc = "sweep" /\ pc' = "poll" BY <1>8 DEF SendSweep
  <2>2. AboutToSweep' BY <2>1 DEF AboutToSweep
  <2>3. \/ done' = done
        \/ done' = done \cup {V} /\ ~TooEarly(Sweep(V)) /\ Refuses(Sweep(V), "sweep")
    BY <1>8 DEF SendSweep
  <2>4. \A v \in dead' \cup done' : Lost(v) \/ Confirmed(Sweep(v))
    BY <1>1, <2>1, <2>3, SweepLost DEF CalmInv, Caused
  <2>5. Caused' BY <1>1, <2>4, LeftStays DEF Caused
  <2> QED BY <1>2, <1>4, <2>2, <2>5 DEF CalmInv
<1> QED BY <1>5, <1>6, <1>7, <1>8

\* The steps of the chain.
LEMMA ChainKeepsCalm == ASSUME TypeOK, Calm, CalmInv, Environment PROVE CalmInv'
<1> USE DEF run
<1>1. /\ UNCHANGED <<layout, faults, pkg, pc, run>>
      /\ \A t \in Txs : Confirmed(t) => Confirmed(t)'
      /\ \A t \in Txs : Unknown(t) => Unknown(t)'
      /\ void \subseteq void'
  BY CalmChain
<1>2. i \in Nat /\ k \in Nat /\ \A n \in 1 .. i - 1 : pkg.steps[n].tx \in Txs
  <2>1. \A n \in 1 .. i - 1 : n \in 1 .. Len(pkg.steps) BY AtHand DEF TypeOK
  <2> QED BY <2>1, AtHand DEF TypeOK
<1>3. \A v \in Vtxos(layout) : Sweep(v) \in Txs /\ layout.leaf[v] \in Txs
  <2>1. \A v \in Vtxos(layout) : layout.leaf[v] \in layout.txs BY ExitAssumption DEF TypeOK
  <2> QED BY <2>1 DEF Txs
<1>4. Founded'
  <2>1. pkg.onchain \subseteq Txs BY DEF TypeOK, PackageType, Txs
  <2> QED BY <1>1, <2>1 DEF CalmInv, Founded
<1>5. \A n \in 1 .. i - 1 : Left(n) => Left(n)' BY <1>1, <1>2 DEF Left
<1>6. Behind' BY <1>1, <1>5 DEF CalmInv, Behind
<1>7. AboutToSend'
  <2>1. pc = "send" => Step.tx \in Txs BY AtHand DEF TypeOK, Step
  <2>2. Step' = Step BY <1>1 DEF Step
  <2> QED BY <1>1, <2>1, <2>2 DEF CalmInv, AboutToSend
<1>8. AboutToSweep'
  <2>1. pc \in {"look", "sweep"} => V \in Vtxos(layout) BY AtHand DEF TypeOK, V
  <2>2. V' = V BY <1>1 DEF V
  <2> QED BY <1>1, <1>3, <2>1, <2>2 DEF CalmInv, AboutToSweep
<1>9. Caused'
  <2>1. \A v : Lost(v) => Lost(v)' BY <1>1 DEF Lost
  <2> QED BY <1>1, <1>3, <2>1 DEF CalmInv, Caused, TypeOK
<1> QED BY <1>4, <1>6, <1>7, <1>8, <1>9 DEF CalmInv

LEMMA StepKeepsCalm ==
  TypeOK /\ PlanInOrder /\ Shaped /\ (Calm => CalmInv) /\ [Next]_vars => (Calm => CalmInv)'
<1> SUFFICES ASSUME TypeOK, PlanInOrder, Shaped, Calm => CalmInv, [Next]_vars, Calm'
             PROVE  CalmInv'
  OBVIOUS
<1>1. faults' = faults
  BY DEF Next, OneRun, Prepare, Execute, Environment, Start, CheckStep, Send, WaitConfirmed,
     BeginSweeps, EndRound, PollSweep, LookDependency, SendSweep, TipUnknown, Kill, Rerun,
     MineSome, Mine, Evict, Conflict, Reorg, OthersUnroll, vars, env
<1>2. Calm /\ CalmInv BY <1>1 DEF Calm
<1>3. CASE UNCHANGED vars
  BY <1>2, <1>3 DEF vars, env, chain, run, CalmInv, Founded, Behind, Left, AboutToSend,
     AboutToSweep, Caused, Lost, Confirmed, Unknown, Step, V
<1>4. CASE Prepare
  <2>1. pc = "unprepared" /\ pc' \in {"idle", "refused"} /\ UNCHANGED <<env, depth, void, run>>
    BY <1>4 DEF Prepare
  <2>2. i' = 1 BY <2>1 DEF TypeOK, run
  <2>3. Founded'
    <3>1. pkg'.onchain \in {pkg.onchain, {t \in layout.txs : Confirmed(t)}}
      BY <1>4 DEF Prepare, Plan
    <3> QED BY <1>2, <2>1, <3>1 DEF CalmInv, Founded, Confirmed
  <2>4. Behind' /\ AboutToSend' /\ AboutToSweep' BY <2>1, <2>2 DEF Behind, AboutToSend, AboutToSweep
  <2>5. Caused' BY <1>2, <2>1 DEF CalmInv, Caused, Lost, Confirmed, env, run
  <2> QED BY <2>3, <2>4, <2>5 DEF CalmInv
<1>5. CASE Start \/ CheckStep \/ Send \/ WaitConfirmed \/ BeginSweeps BY <1>2, <1>5, StepsCalm
<1>6. CASE EndRound \/ PollSweep \/ LookDependency \/ SendSweep \/ TipUnknown \/ Kill \/ Rerun
  BY <1>2, <1>6, SweepsCalm
<1>7. CASE Environment BY <1>2, <1>7, ChainKeepsCalm
<1> QED BY <1>3, <1>4, <1>5, <1>6, <1>7 DEF Next, OneRun, Execute

\* When nobody interferes, a branch or a sweep is given up only when it can no longer
\* get through: the failure of a step takes no branch with it but those that need it,
\* and a sweep that comes early is not given up.
THEOREM BranchFailsForCause == Spec => []GivenUpForCause
<1> DEFINE IInv == TypeOK /\ PlanInOrder /\ Shaped /\ (Calm => CalmInv)
<1>1. Init => IInv
  <2>1. Init => (Calm => CalmInv)
    BY DEF Init, NoPackage, CalmInv, Founded, Behind, AboutToSend, AboutToSweep, Caused
  <2> QED BY <2>1, InitTyped, InitPlanned
<1>2. IInv /\ [Next]_vars => IInv' BY StepTyped, StepKeepsCalm
<1>3. IInv => GivenUpForCause BY DEF Calm, CalmInv, Caused, GivenUpForCause
<1> QED BY <1>1, <1>2, <1>3, PTL DEF Spec
=============================================================================

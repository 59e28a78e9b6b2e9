---------------------------- MODULE PackagesProofs ----------------------------
(***************************************************************************)
(* Theorems about Packages, for all values of its constants.  Planning is  *)
(* a loop over the queues of packages with a loop over a link's actions in *)
(* it; what they keep is proved of one step of each and carried along.     *)
(***************************************************************************)
EXTENDS Packages, DataLemmas, FiniteSetTheorems, SequenceTheorems, TLAPS

--------------------------------------------------------------------------------
(* Order.  The actions of a timeline, or some of them, have one order.       *)

\* Timelines: what InOrder needs of one.
Timed(i) == DOMAIN i \subseteq Actions /\ \A a \in DOMAIN i : i[a].time \in Int

Sorted(i, s) == \A j, k \in DOMAIN s : j < k => Before(i, s[j], s[k])

LEMMA FiniteActions ==
    ASSUME NEW S \in SUBSET Actions
    PROVE  IsFiniteSet(S) /\ Cardinality(S) \in Nat /\ S \subseteq Int
<1>1. IsFiniteSet(Actions) /\ Actions \subseteq Int  BY PackagesAssumption
<1> QED BY <1>1, FS_Subset, FS_CardinalityType

\* Some actions of a timeline have a last one.
LEMMA LastAction ==
    ASSUME NEW i, Timed(i), NEW S \in SUBSET DOMAIN i, S # {}
    PROVE  \E m \in S : \A a \in S \ {m} : Before(i, a, m)
<1>1. IsFiniteSet(S) /\ S \subseteq Int /\ \A a \in S : i[a].time \in Int
  BY FiniteActions DEF Timed
<1> DEFINE f == [a \in S |-> i[a].time]
           T == {f[a] : a \in DOMAIN f}
<1>2. IsFiniteSet(T)
  <2>1. IsFiniteSet(DOMAIN f)  BY <1>1
  <2> HIDE DEF f
  <2>. QED BY <2>1, FiniteImage
<1>3. T \subseteq Int /\ T # {} /\ \A a \in S : i[a].time \in T  BY <1>1
<1>4. PICK t \in T : \A x \in T : x <= t
  <2> HIDE DEF T
  <2>. QED BY <1>2, <1>3, GreatestInt
<1> DEFINE L == {a \in S : i[a].time = t}
<1>5. IsFiniteSet(L) /\ L \subseteq Int /\ L # {}  BY <1>1, <1>3, <1>4, FS_Subset
<1>6. PICK m \in L : \A a \in L : a <= m
  <2> HIDE DEF L
  <2>. QED BY <1>5, GreatestInt
<1>7. ASSUME NEW a \in S \ {m} PROVE Before(i, a, m)
  <2>1. i[a].time <= t /\ i[m].time = t /\ i[a].time \in Int /\ t \in Int
        /\ a \in Int /\ m \in Int
    BY <1>1, <1>3, <1>4, <1>6
  <2>2. a # m /\ (i[a].time = t => a <= m)  BY <1>6
  <2>3. i[a].time < i[m].time \/ (i[a].time = i[m].time /\ a < m)
    <3> HIDE DEF L, T
    <3>. QED BY <2>1, <2>2
  <2>. QED BY <2>3 DEF Before
<1> QED BY <1>6, <1>7

LEMMA BeforeOrders ==
    ASSUME NEW i, Timed(i), NEW a \in DOMAIN i, NEW b \in DOMAIN i
    PROVE  /\ ~Before(i, a, a) /\ ~(Before(i, a, b) /\ Before(i, b, a))
           /\ a # b => Before(i, a, b) \/ Before(i, b, a)
           /\ \A c \in DOMAIN i : Before(i, a, b) /\ Before(i, b, c) => Before(i, a, c)
<1>1. \A c \in DOMAIN i : c \in Int /\ i[c].time \in Int
  BY FiniteActions DEF Timed
<1> QED BY <1>1 DEF Before

\* There is an order.
LEMMA OrderExists ==
    ASSUME NEW i, Timed(i), NEW S \in SUBSET DOMAIN i
    PROVE  \E s \in [1 .. Cardinality(S) -> S] : Sorted(i, s)
<1>0. IsFiniteSet(S)  BY FiniteActions DEF Timed
<1> DEFINE F == {A \in SUBSET S : ~\E s \in [1 .. Cardinality(A) -> A] : Sorted(i, s)}
<1>1. ASSUME NEW A \in F, \A B \in F : B \subseteq A => B = A PROVE FALSE
  <2>0. A \in SUBSET S /\ A \in SUBSET DOMAIN i /\ IsFiniteSet(A)  BY <1>0, FS_Subset
  <2>1. CASE A = {}
    <3>1. 1 .. Cardinality(A) = {}  BY <2>1, FS_EmptySet
    <3>2. [k \in {} |-> k] \in [1 .. Cardinality(A) -> A] /\ Sorted(i, [k \in {} |-> k])
      BY <3>1 DEF Sorted
    <3>. QED BY <3>2
  <2>2. CASE A # {}
    <3>1. PICK m \in A : \A a \in A \ {m} : Before(i, a, m)  BY <2>0, <2>2, LastAction
    <3> DEFINE B == A \ {m}
               n == Cardinality(A)
    <3>2. Cardinality(B) = n - 1 /\ n \in Nat /\ Cardinality(B) \in Nat
      BY <2>0, FS_RemoveElement, FS_CardinalityType
    <3>3. B \notin F /\ B \in SUBSET S  BY <1>1
    <3>4. PICK s \in [1 .. n - 1 -> B] : Sorted(i, s)  BY <3>2, <3>3
    <3> DEFINE t == [k \in 1 .. n |-> IF k = n THEN m ELSE s[k]]
    <3>5. t \in [1 .. n -> A]  BY <3>2
    <3>6. ASSUME NEW j \in 1 .. n, NEW k \in 1 .. n, j < k PROVE Before(i, t[j], t[k])
      <4>1. j \in 1 .. n - 1 /\ t[j] = s[j] /\ s[j] \in B  BY <3>2, <3>6
      <4>2. CASE k = n  BY <3>1, <4>1, <4>2
      <4>3. CASE k # n
        <5>1. k \in 1 .. n - 1 /\ t[k] = s[k]  BY <3>2, <4>3
        <5>. QED BY <3>4, <3>6, <4>1, <5>1 DEF Sorted
      <4>. QED BY <4>2, <4>3
    <3>7. Sorted(i, t)  BY <3>6 DEF Sorted
    <3> HIDE DEF t
    <3>. QED BY <3>5, <3>7
  <2>. QED BY <2>1, <2>2
<1>2. \A A \in F : A \subseteq S  OBVIOUS
<1>3. F = {}
  <2> HIDE DEF F
  <2>. QED BY <1>0, <1>1, <1>2, LeastSubset
<1> QED BY <1>3

\* InOrder lists them all, in order.
LEMMA OrderLists ==
    ASSUME NEW i, Timed(i), NEW S \in SUBSET DOMAIN i
    PROVE  /\ InOrder(i, S) \in Seq(S) /\ Sorted(i, InOrder(i, S))
           /\ Len(InOrder(i, S)) = Cardinality(S)
           /\ IsInjective(InOrder(i, S)) /\ ToSet(InOrder(i, S)) = S
<1>0. IsFiniteSet(S) /\ Cardinality(S) \in Nat  BY FiniteActions DEF Timed
<1> DEFINE s == InOrder(i, S)
           n == Cardinality(S)
<1>1. s \in [1 .. n -> S] /\ \A j, k \in DOMAIN s : j < k => Before(i, s[j], s[k])
  BY OrderExists DEF Sorted, InOrder
<1> HIDE DEF s, n
<1>2. n \in Nat  BY <1>0 DEF n
<1>3. \A j, k \in 1 .. n : j # k => s[j] # s[k]
  <2>1. ASSUME NEW j \in 1 .. n, NEW k \in 1 .. n, j < k PROVE s[j] # s[k]
    <3>1. Before(i, s[j], s[k]) /\ s[j] \in DOMAIN i  BY <1>1, <2>1
    <3>. QED BY <3>1, BeforeOrders
  <2>2. \A j, k \in 1 .. n : j # k => j < k \/ k < j  BY <1>2
  <2>. QED BY <2>1, <2>2
<1>4. s \in Injection(1 .. n, S)  BY <1>1, <1>3 DEF Injection, IsInjective
<1>5. IsFiniteSet(1 .. n) /\ Cardinality(1 .. n) = n
  <2>1. \A a, b \in Int : IsFiniteSet(a .. b) /\ Cardinality(a .. b) = IF a > b THEN 0 ELSE b - a + 1
    BY FS_Interval
  <2>. QED BY <1>2, <2>1
<1>6. s \in Surjection(1 .. n, S)  BY <1>0, <1>4, <1>5, FS_Injection DEF n
<1>7. \A a \in S : \E k \in 1 .. n : s[k] = a  BY <1>6 DEF Surjection
<1>8. s \in Seq(S) /\ Len(s) = n /\ DOMAIN s = 1 .. n  BY <1>1, <1>2
<1>9. IsInjective(s)  BY <1>3, <1>8 DEF IsInjective
<1>10. ToSet(s) = S  BY <1>1, <1>7, <1>8 DEF ToSet
<1> QED BY <1>1, <1>8, <1>9, <1>10 DEF s, n, Sorted

--------------------------------------------------------------------------------
(* The two loops of planning.  P[k] says what holds after k rounds.           *)

LEMMA FillAlong ==
    ASSUME NEW plan, NEW p, NEW queue, NEW exact, Len(queue) \in Nat, NEW P, plan \in P[0],
           \A k \in 1 .. Len(queue) : \A e \in P[k - 1] : TakeAction(e, p, queue[k], exact) \in P[k]
    PROVE  generateFragmentsForPackage(plan, p, queue, exact) \in P[Len(queue)]
<1> DEFINE n == Len(queue)
           U == UNION {P[k] : k \in 0 .. n}
           step == [x \in U \X (1 .. n) |-> TakeAction(x[1], p, queue[x[2]], exact)]
           Is(g) == g = [k \in 0 .. n |-> IF k = 0 THEN plan ELSE TakeAction(g[k - 1], p, queue[k], exact)]
<1>1. \A k \in 1 .. n : \A e \in P[k - 1] : step[<<e, k>>] = TakeAction(e, p, queue[k], exact)
  <2>1. ASSUME NEW k \in 1 .. n, NEW e \in P[k - 1] PROVE <<e, k>> \in U \X (1 .. n)
    <3>1. k - 1 \in 0 .. n  OBVIOUS
    <3>. QED BY <3>1
  <2> HIDE DEF U
  <2>. QED BY <2>1
<1> HIDE DEF step
<1>2. PICK h : History(h, n, plan, step)
  <2>1. n \in Nat  OBVIOUS
  <2> HIDE DEF n
  <2>. QED BY ONLY <2>1, LoopExists
<1>3. /\ h = [k \in 0 .. n |-> h[k]] /\ h[0] = plan
      /\ \A k \in 1 .. n : h[k] = step[<<h[k - 1], k>>]
  BY <1>2 DEF History
<1>4. \A k \in 0 .. n : h[k] \in P[k]
  <2>1. \A k \in 1 .. n : h[k - 1] \in P[k - 1] => h[k] \in P[k]  BY <1>1, <1>3
  <2>2. h[0] \in P[0]  BY <1>3
  <2>. QED BY <2>1, <2>2, KeptAlong
<1>5. Is(h)
  <2>1. ASSUME NEW k \in 1 .. n PROVE h[k] = TakeAction(h[k - 1], p, queue[k], exact)
    <3>1. k - 1 \in 0 .. n  OBVIOUS
    <3>. QED BY <1>1, <1>3, <1>4, <3>1
  <2> DEFINE F(k) == IF k = 0 THEN plan ELSE TakeAction(h[k - 1], p, queue[k], exact)
  <2>2. \A k \in 0 .. n : h[k] = F(k)
    <3>1. ASSUME NEW k \in 0 .. n PROVE h[k] = F(k)
      <4>1. CASE k = 0  BY <1>3, <4>1
      <4>2. CASE k # 0
        <5>1. k \in 1 .. n  BY <4>2
        <5>. QED BY <2>1, <4>2, <5>1
      <4>. QED BY <4>1, <4>2
    <3> HIDE DEF F
    <3>. QED BY <3>1
  <2>3. [k \in 0 .. n |-> h[k]] = [k \in 0 .. n |-> F(k)]
    <3> HIDE DEF F
    <3>. QED BY <2>2
  <2>. QED BY <1>3, <2>3, Zenon
<1> DEFINE g == CHOOSE f : Is(f)
<1>6. Is(g)  BY <1>5
<1>7. generateFragmentsForPackage(plan, p, queue, exact) = g[n]
  BY Zenon DEF generateFragmentsForPackage
<1> HIDE DEF g
<1>8. g[0] = plan /\ \A k \in 1 .. n : g[k] = TakeAction(g[k - 1], p, queue[k], exact)
  BY <1>6
<1>9. \A k \in 0 .. n : g[k] \in P[k]
  <2>1. \A k \in 1 .. n : g[k - 1] \in P[k - 1] => g[k] \in P[k]  BY <1>8
  <2>2. g[0] \in P[0]  BY <1>8
  <2>. QED BY <2>1, <2>2, KeptAlong
<1> QED BY <1>7, <1>9

LEMMA AssignAlong ==
    ASSUME NEW plan, NEW marked, NEW aqs, NEW queues, Turns \in Nat, NEW P,
           Cleared(plan, marked, aqs) \in P[0],
           \A n \in 1 .. Turns : \A e \in P[n - 1] : TakeTurn(e, aqs, queues, n) \in P[n]
    PROVE  generateFragmentsForAllPackages(plan, marked, aqs, queues) \in P[Turns]
<1> DEFINE base == Cleared(plan, marked, aqs)
           U == UNION {P[k] : k \in 0 .. Turns}
           step == [x \in U \X (1 .. Turns) |-> TakeTurn(x[1], aqs, queues, x[2])]
           Is(g) == g = [k \in 0 .. Turns |-> IF k = 0 THEN base ELSE TakeTurn(g[k - 1], aqs, queues, k)]
<1>1. \A k \in 1 .. Turns : \A e \in P[k - 1] : step[<<e, k>>] = TakeTurn(e, aqs, queues, k)
  <2>1. ASSUME NEW k \in 1 .. Turns, NEW e \in P[k - 1] PROVE <<e, k>> \in U \X (1 .. Turns)
    <3>1. k - 1 \in 0 .. Turns  OBVIOUS
    <3>. QED BY <3>1
  <2> HIDE DEF U
  <2>. QED BY <2>1
<1> HIDE DEF step, base
<1>2. PICK h : History(h, Turns, base, step)
  <2>1. Turns \in Nat  OBVIOUS
  <2> HIDE DEF base
  <2>. QED BY ONLY <2>1, LoopExists
<1>3. /\ h = [k \in 0 .. Turns |-> h[k]] /\ h[0] = base
      /\ \A k \in 1 .. Turns : h[k] = step[<<h[k - 1], k>>]
  BY <1>2 DEF History
<1>4. \A k \in 0 .. Turns : h[k] \in P[k]
  <2>1. \A k \in 1 .. Turns : h[k - 1] \in P[k - 1] => h[k] \in P[k]  BY <1>1, <1>3
  <2>2. h[0] \in P[0]  BY <1>3 DEF base
  <2>. QED BY <2>1, <2>2, KeptAlong
<1>5. Is(h)
  <2>1. ASSUME NEW k \in 1 .. Turns PROVE h[k] = TakeTurn(h[k - 1], aqs, queues, k)
    <3>1. k - 1 \in 0 .. Turns  OBVIOUS
    <3>. QED BY <1>1, <1>3, <1>4, <3>1
  <2> DEFINE F(k) == IF k = 0 THEN base ELSE TakeTurn(h[k - 1], aqs, queues, k)
  <2>2. \A k \in 0 .. Turns : h[k] = F(k)
    <3>1. ASSUME NEW k \in 0 .. Turns PROVE h[k] = F(k)
      <4>1. CASE k = 0  BY <1>3, <4>1
      <4>2. CASE k # 0
        <5>1. k \in 1 .. Turns  BY <4>2
        <5>. QED BY <2>1, <4>2, <5>1
      <4>. QED BY <4>1, <4>2
    <3> HIDE DEF F
    <3>. QED BY <3>1
  <2>3. [k \in 0 .. Turns |-> h[k]] = [k \in 0 .. Turns |-> F(k)]
    <3> HIDE DEF F
    <3>. QED BY <2>2
  <2>. QED BY <1>3, <2>3, Zenon
<1> DEFINE g == CHOOSE f : Is(f)
<1>6. Is(g)  BY <1>5
<1>7. generateFragmentsForAllPackages(plan, marked, aqs, queues) = g[Turns]
  BY Zenon DEF generateFragmentsForAllPackages, base
<1> HIDE DEF g
<1>8. g[0] = base /\ \A k \in 1 .. Turns : g[k] = TakeTurn(g[k - 1], aqs, queues, k)
  BY <1>6
<1>9. \A k \in 0 .. Turns : g[k] \in P[k]
  <2>1. \A k \in 1 .. Turns : g[k - 1] \in P[k - 1] => g[k] \in P[k]  BY <1>8
  <2>2. g[0] \in P[0]  BY <1>8 DEF base
  <2>. QED BY <2>1, <2>2, KeptAlong
<1> QED BY <1>7, <1>9

--------------------------------------------------------------------------------
(* Space.                                                                     *)

\* The elements of a sequence.
LEMMA Elements ==
    ASSUME NEW T, NEW s \in Seq(T)
    PROVE  DOMAIN s = 1 .. Len(s) /\ Len(s) \in Nat /\ \A k \in DOMAIN s : s[k] \in T
BY ElementOfSeq, LenProperties

\* Appending to a sequence.
LEMMA AppendIs ==
    ASSUME NEW T, NEW s \in Seq(T), NEW x \in T
    PROVE  /\ Append(s, x) \in Seq(T) /\ Append(s, x) # <<>> /\ Last(Append(s, x)) = x
           /\ Len(Append(s, x)) = Len(s) + 1 /\ DOMAIN Append(s, x) = 1 .. Len(s) + 1
           /\ DOMAIN s = 1 .. Len(s) /\ Len(s) \in Nat
           /\ Append(s, x)[Len(s) + 1] = x /\ \A k \in 1 .. Len(s) : Append(s, x)[k] = s[k]
<1>1. /\ Append(s, x) \in Seq(T) /\ Len(Append(s, x)) = Len(s) + 1 /\ Len(s) \in Nat
      /\ Append(s, x)[Len(s) + 1] = x /\ \A k \in 1 .. Len(s) : Append(s, x)[k] = s[k]
  BY AppendProperties, LenProperties
<1>2. Last(Append(s, x)) = x  BY <1>1 DEF Last
<1> QED BY <1>1, <1>2

\* What is filled is a number, and grows by what is appended.
LEMMA FilledGrows ==
    ASSUME NEW fs \in Seq(Pointers), NEW f \in Pointers
    PROVE  Filled(fs) \in Nat /\ Filled(Append(fs, f)) = Filled(fs) + FRAGMENT_LEN_SIZE + f.len
<1> DEFINE taken == [k \in DOMAIN fs |-> FRAGMENT_LEN_SIZE + fs[k].len]
           gs == Append(fs, f)
           more == [k \in DOMAIN gs |-> FRAGMENT_LEN_SIZE + gs[k].len]
           S == DOMAIN fs
           n == Len(fs) + 1
<1>1. /\ gs \in Seq(Pointers) /\ DOMAIN gs = 1 .. n /\ S = 1 .. Len(fs) /\ Len(fs) \in Nat
      /\ gs[n] = f /\ \A k \in S : gs[k] = fs[k]
  BY AppendIs
<1>2. IsFiniteSet(S) /\ IsFiniteSet(DOMAIN gs)  BY <1>1, FiniteIndices
<1>3. \A k \in S : fs[k].len \in Nat
  <2>1. \A k \in S : fs[k] \in Pointers  BY Elements
  <2>. QED BY <2>1 DEF Pointers
<1>4. \A k \in S : taken[k] \in Nat  BY <1>3 DEF FRAGMENT_LEN_SIZE
<1>5. \A k \in DOMAIN gs : gs[k].len \in Nat
  <2>1. \A k \in DOMAIN gs : gs[k] \in Pointers  BY <1>1, Elements
  <2> HIDE DEF gs
  <2>. QED BY <2>1 DEF Pointers
<1>6. \A k \in DOMAIN gs : more[k] \in Nat  BY <1>5 DEF FRAGMENT_LEN_SIZE
<1>7. \A k \in S : more[k] = taken[k]  BY <1>1
<1>8. more[n] = FRAGMENT_LEN_SIZE + f.len  BY <1>1
<1>9. Filled(fs) = FRAGMENT_SINGLE_PRODUCER_OVERHEAD + SumOver(taken, S)
  <2>1. MapThenSumSet(LAMBDA k : taken[k], S) = SumOver(taken, S)
    <3> HIDE DEF taken, S
    <3>. QED BY <1>2, <1>4, SumIsMap
  <2>. QED BY <2>1, Zenon DEF Filled
<1>10. Filled(gs) = FRAGMENT_SINGLE_PRODUCER_OVERHEAD + SumOver(more, DOMAIN gs)
  <2>1. MapThenSumSet(LAMBDA k : more[k], DOMAIN gs) = SumOver(more, DOMAIN gs)
    <3> HIDE DEF more, gs
    <3>. QED BY <1>2, <1>6, SumIsMap
  <2>. QED BY <2>1, Zenon DEF Filled
<1>11. S \in SUBSET DOMAIN gs /\ n \in DOMAIN gs \ S /\ DOMAIN gs = S \cup {n}
  <2> HIDE DEF gs, S
  <2>. QED BY <1>1
<1> HIDE DEF taken, more, gs, S, n
<1>12. SumOver(more, DOMAIN gs) = SumOver(more, S) + more[n]
  BY <1>2, <1>6, <1>11, SumAdd
<1>13. SumOver(more, S) = SumOver(taken, S)  BY <1>2, <1>4, <1>7, SumSame
<1>14. SumOver(taken, S) \in Nat  BY <1>2, <1>4, SumUnfold
<1>15. f.len \in Nat  BY DEF Pointers
<1>16. Filled(gs) = Filled(fs) + FRAGMENT_LEN_SIZE + f.len
  BY <1>8, <1>9, <1>10, <1>12, <1>13, <1>14, <1>15
     DEF FRAGMENT_LEN_SIZE, FRAGMENT_SINGLE_PRODUCER_OVERHEAD
<1>17. Filled(fs) \in Nat  BY <1>9, <1>14 DEF FRAGMENT_SINGLE_PRODUCER_OVERHEAD
<1> QED BY <1>16, <1>17 DEF gs

\* The space of an action, before and after a fragment is added to it.
LEMMA SpaceShrinks ==
    ASSUME NEW i \in ActionInfo, NEW j \in ActionInfo, NEW f \in Pointers,
           j.enc = i.enc, j.fragments = Append(i.fragments, f)
    PROVE  /\ spaceAvailableInAction(i) \in Nat /\ spaceAvailableInAction(j) \in Nat
           /\ spaceAvailableInAction(j) <= spaceAvailableInAction(i)
           /\ f.len = spaceAvailableInAction(i) => spaceAvailableInAction(j) = 0
<1>1. i.fragments \in Seq(Pointers)  BY DEF ActionInfo
<1> DEFINE a == Filled(i.fragments)
           b == Filled(j.fragments)
<1>2. a \in Nat /\ b = a + FRAGMENT_LEN_SIZE + f.len  BY <1>1, FilledGrows
<1>3. f.len \in Nat /\ MaxBytes \in Nat  BY PackagesAssumption DEF Pointers
<1> HIDE DEF a, b
<1>4. spaceAvailableInAction(i) = IF i.enc = "UNENCODED" /\ MaxBytes > a + FRAGMENT_LEN_SIZE
                                  THEN MaxBytes - a - FRAGMENT_LEN_SIZE ELSE 0
  BY DEF spaceAvailableInAction, a
<1>5. spaceAvailableInAction(j) = IF i.enc = "UNENCODED" /\ MaxBytes > b + FRAGMENT_LEN_SIZE
                                  THEN MaxBytes - b - FRAGMENT_LEN_SIZE ELSE 0
  BY DEF spaceAvailableInAction, b
<1> QED BY <1>2, <1>3, <1>4, <1>5 DEF FRAGMENT_LEN_SIZE

--------------------------------------------------------------------------------
(* Plans.                                                                     *)

\* plans for the actions D
PlansOf(D) == [info : [D -> ActionInfo], parts : [Packages -> Seq(Fragments)], full : SUBSET Links]

\* No fragment reaches over the end of its package.
Whole(pa) == \A p \in Packages : \A k \in DOMAIN pa[p] : pa[p][k].off + pa[p][k].len <= Size[p]

GoodPlans(D) == {e \in PlansOf(D) : Whole(e.parts)}

\* The handles in use, and the next one.
UsedHandles(pa) == ToldHandles \union UNION {HandlesOf(pa[p]) : p \in Packages}

LEMMA FiniteHandles ==
    ASSUME NEW S, NEW fs \in Seq(S)
    PROVE  IsFiniteSet(HandlesOf(fs))
<1> DEFINE f == [k \in DOMAIN fs |-> fs[k].h]
<1>1. IsFiniteSet(DOMAIN f)  BY FiniteIndices
<1>2. IsFiniteSet({f[k] : k \in DOMAIN f})
  <2> HIDE DEF f
  <2>. QED BY <1>1, FiniteImage
<1>3. HandlesOf(fs) = {f[k] : k \in DOMAIN f}  BY DEF HandlesOf
<1> QED BY <1>2, <1>3

LEMMA FreshHandle ==
    ASSUME reports \in Seq(Handles \X Statuses), NEW D, NEW e \in PlansOf(D)
    PROVE  NextHandle(e) \in Handles /\ NextHandle(e) \notin UsedHandles(e.parts)
<1> DEFINE used == UsedHandles(e.parts)
<1>1. IsFiniteSet(ToldHandles)
  <2> DEFINE f == [k \in DOMAIN reports |-> reports[k][1]]
  <2>1. IsFiniteSet(DOMAIN f)  BY FiniteIndices
  <2>2. IsFiniteSet({f[k] : k \in DOMAIN f})
    <3> HIDE DEF f
    <3>. QED BY <2>1, FiniteImage
  <2>3. ToldHandles = {f[k] : k \in DOMAIN f}  BY DEF ToldHandles
  <2>. QED BY <2>2, <2>3
<1>2. IsFiniteSet(UNION {HandlesOf(e.parts[p]) : p \in Packages})
  <2> DEFINE f == [p \in Packages |-> HandlesOf(e.parts[p])]
  <2>1. IsFiniteSet(DOMAIN f)  BY PackagesAssumption
  <2>2. IsFiniteSet({f[p] : p \in DOMAIN f})
    <3> HIDE DEF f
    <3>. QED BY <2>1, FiniteImage
  <2>3. {f[p] : p \in DOMAIN f} = {HandlesOf(e.parts[p]) : p \in Packages}  OBVIOUS
  <2>4. \A p \in Packages : IsFiniteSet(HandlesOf(e.parts[p]))
    BY FiniteHandles DEF PlansOf
  <2>. QED BY <2>2, <2>3, <2>4, FS_UNION
<1>3. IsFiniteSet(used)  BY <1>1, <1>2, FS_Union DEF UsedHandles
<1> DEFINE n == Cardinality(used)
           S == (1 .. n + 1) \ used
<1>4. n \in Nat  BY <1>3, FS_CardinalityType
<1> HIDE DEF used, n
<1>5. S # {}
  <2>1. ASSUME S = {} PROVE FALSE
    <3>1. (1 .. n + 1) \subseteq used  BY <2>1
    <3>2. Cardinality(1 .. n + 1) <= n /\ IsFiniteSet(1 .. n + 1)
      BY <1>3, <3>1, FS_Subset DEF n
    <3>3. \A a, b \in Int : Cardinality(a .. b) = IF a > b THEN 0 ELSE b - a + 1
      BY FS_Interval
    <3>4. Cardinality(1 .. n + 1) = n + 1  BY <3>3, <1>4
    <3>. QED BY <3>2, <3>4, <1>4
  <2>. QED BY <2>1
<1>6. S \subseteq Nat  BY <1>4
<1>7. Min(S) \in S
  <2> HIDE DEF S
  <2>. QED BY <1>5, <1>6, MinMax
<1>8. NextHandle(e) = Min(S)  BY DEF NextHandle, used, n, UsedHandles
<1> QED BY <1>4, <1>7, <1>8 DEF Handles, used

LEMMA CoveredIs ==
    ASSUME NEW D, NEW e \in GoodPlans(D), NEW p \in Packages
    PROVE  Covered(e.parts[p]) \in Nat /\ Covered(e.parts[p]) <= Size[p] /\ Size[p] \in Nat \ {0}
<1> DEFINE fs == e.parts[p]
<1>1. fs \in Seq(Fragments) /\ \A k \in DOMAIN fs : fs[k].off + fs[k].len <= Size[p]
  BY DEF GoodPlans, PlansOf, Whole
<1>2. Size[p] \in Nat \ {0}  BY PackagesAssumption
<1> HIDE DEF fs
<1>3. CASE fs = <<>>  BY <1>2, <1>3 DEF Covered, fs
<1>4. CASE fs # <<>>
  <2>1. Len(fs) \in DOMAIN fs /\ fs[Len(fs)] \in Fragments
    <3>1. Len(fs) \in DOMAIN fs  BY <1>1, <1>4, EmptySeq, LenProperties
    <3>. QED BY <3>1, <1>1, Elements
  <2>2. Last(fs).off \in Nat /\ Last(fs).len \in Nat /\ Last(fs).off + Last(fs).len <= Size[p]
    BY <1>1, <2>1 DEF Last, Fragments
  <2>. QED BY <1>2, <1>4, <2>2 DEF Covered, fs
<1> QED BY <1>3, <1>4

\* How a plan changes when the action a takes some of p: its pointer is f, the
\* fragment g.
Adds(e, d, p, a, f, g) ==
    /\ f.h = g.h /\ f.pkg = p /\ f.off = g.off /\ f.len = g.len
    /\ g.action = a /\ g.state = "UNENCODED"
    /\ g.h \notin UsedHandles(e.parts) /\ g.off = Covered(e.parts[p]) /\ g.len > 0
    /\ Planned(d, p) \/ f.len = spaceAvailableInAction(e.info[a])
    /\ d.info = [e.info EXCEPT ![a] = [time |-> e.info[a].time, link |-> Route[p], enc |-> e.info[a].enc,
                                       fragments |-> Append(e.info[a].fragments, f)]]
    /\ d.parts = [e.parts EXCEPT ![p] = Append(@, g)]
    /\ d.full = e.full

LEMMA AddFragmentAdds ==
    ASSUME reports \in Seq(Handles \X Statuses), NEW D, D \subseteq Actions,
           NEW e \in GoodPlans(D), NEW p \in Packages, NEW a \in D, NEW exact,
           MayCarry(e, p, a, exact)
    PROVE  /\ AddFragment(e, p, a) \in GoodPlans(D)
           /\ \E f \in Pointers, g \in Fragments : Adds(e, AddFragment(e, p, a), p, a, f, g)
<1> DEFINE off == Covered(e.parts[p])
           room == spaceAvailableInAction(e.info[a])
           left == Size[p] - off
           len == Min({room, left})
           h == NextHandle(e)
           f == [h |-> h, pkg |-> p, off |-> off, len |-> len]
           g == [h |-> h, off |-> off, len |-> len, state |-> "UNENCODED", action |-> a]
           d == AddFragment(e, p, a)
           fs == e.parts[p]
<1>1. /\ e.info \in [D -> ActionInfo] /\ e.parts \in [Packages -> Seq(Fragments)]
      /\ e.full \in SUBSET Links /\ Whole(e.parts) /\ e = [info |-> e.info, parts |-> e.parts, full |-> e.full]
      /\ e \in PlansOf(D)
  BY DEF GoodPlans, PlansOf
<1>2. off \in Nat /\ off <= Size[p] /\ Size[p] \in Nat \ {0}  BY CoveredIs
<1>3. off # Size[p] /\ isActionAbleToFit(e.info[a])  BY DEF MayCarry, Planned
<1>4. room \in Nat /\ room > 1
  <2>1. e.info[a] \in ActionInfo  BY <1>1
  <2>2. e.info[a].fragments \in Seq(Pointers)  BY <2>1 DEF ActionInfo
  <2>3. \A q \in Seq(Pointers), z \in Pointers : Filled(q) \in Nat  BY FilledGrows
  <2>4. Filled(e.info[a].fragments) \in Nat
    <3>1. [h |-> 1, pkg |-> p, off |-> 0, len |-> 0] \in Pointers  BY DEF Pointers, Handles
    <3>. QED BY <2>2, <2>3, <3>1
  <2>5. MaxBytes \in Nat  BY PackagesAssumption
  <2>. QED BY <1>3, <2>4, <2>5 DEF spaceAvailableInAction, isActionAbleToFit, FRAGMENT_LEN_SIZE
<1>5. h \in Handles /\ h \notin UsedHandles(e.parts)  BY <1>1, FreshHandle
<1> HIDE DEF off, room, h
<1>6. len \in {room, left} /\ len <= room /\ len <= left
  <2>1. left \in Nat  BY <1>2
  <2> HIDE DEF left
  <2>. QED BY <1>4, <2>1, MinMax
<1>7. len \in Nat /\ len > 0 /\ off + len <= Size[p] /\ (len = room \/ off + len = Size[p])
  BY <1>2, <1>3, <1>4, <1>6
<1>8. d = [info |-> [e.info EXCEPT ![a] = [time |-> e.info[a].time, link |-> Route[p],
                                           enc |-> e.info[a].enc,
                                           fragments |-> Append(e.info[a].fragments, f)]],
           parts |-> [e.parts EXCEPT ![p] = Append(e.parts[p], g)], full |-> e.full]
  BY Zenon DEF AddFragment, off, room, h
<1> HIDE DEF len
<1>9. f \in Pointers /\ g \in Fragments
  BY <1>2, <1>5, <1>7 DEF Pointers, Fragments, FragmentStates
<1> HIDE DEF d, f, g
<1>10. fs \in Seq(Fragments) /\ Append(fs, g) \in Seq(Fragments) /\ Append(fs, g) # <<>>
       /\ Last(Append(fs, g)) = g /\ DOMAIN Append(fs, g) = 1 .. Len(fs) + 1
       /\ DOMAIN fs = 1 .. Len(fs) /\ Len(fs) \in Nat
       /\ Append(fs, g)[Len(fs) + 1] = g /\ \A k \in 1 .. Len(fs) : Append(fs, g)[k] = fs[k]
  BY <1>1, <1>9, AppendIs
<1>11. d.info \in [D -> ActionInfo]
  <2>1. e.info[a] \in ActionInfo /\ Route[p] \in Links  BY <1>1, PackagesAssumption
  <2>2. Append(e.info[a].fragments, f) \in Seq(Pointers)  BY <2>1, <1>9, AppendIs DEF ActionInfo
  <2>3. [time |-> e.info[a].time, link |-> Route[p], enc |-> e.info[a].enc,
         fragments |-> Append(e.info[a].fragments, f)] \in ActionInfo
    BY <2>1, <2>2 DEF ActionInfo
  <2>. QED BY <1>1, <1>8, <2>3
<1>12. d.parts \in [Packages -> Seq(Fragments)] /\ d.parts[p] = Append(fs, g)
       /\ \A q \in Packages \ {p} : d.parts[q] = e.parts[q]
  BY <1>1, <1>8, <1>10
<1>13. Whole(d.parts)
  <2>1. ASSUME NEW q \in Packages, NEW k \in DOMAIN d.parts[q]
        PROVE  d.parts[q][k].off + d.parts[q][k].len <= Size[q]
    <3>1. CASE q # p  BY <1>1, <1>12, <2>1, <3>1 DEF Whole
    <3>2. CASE q = p /\ k = Len(fs) + 1
      <4>1. d.parts[q][k] = g  BY <1>10, <1>12, <3>2
      <4>2. g.off = off /\ g.len = len  BY DEF g
      <4>. QED BY <1>7, <3>2, <4>1, <4>2
    <3>3. CASE q = p /\ k # Len(fs) + 1
      <4>1. k \in DOMAIN fs /\ d.parts[q][k] = fs[k]  BY <1>10, <1>12, <2>1, <3>3
      <4>. QED BY <1>1, <3>3, <4>1 DEF Whole
    <3>. QED BY <3>1, <3>2, <3>3
  <2>. QED BY <2>1 DEF Whole
<1>14. d \in GoodPlans(D)
  <2>1. d = [info |-> d.info, parts |-> d.parts, full |-> d.full] /\ d.full \in SUBSET Links
    BY <1>1, <1>8
  <2>. QED BY <1>11, <1>12, <1>13, <2>1 DEF GoodPlans, PlansOf
<1>15. Planned(d, p) \/ f.len = room
  <2>1. Covered(d.parts[p]) = off + len  BY <1>10, <1>12 DEF Covered, g
  <2>. QED BY <1>7, <2>1 DEF Planned, f
<1>16. Adds(e, d, p, a, f, g)
  <2>1. /\ f.h = g.h /\ f.pkg = p /\ f.off = g.off /\ f.len = g.len
        /\ g.action = a /\ g.state = "UNENCODED" /\ g.h = h /\ g.off = off /\ g.len = len
    BY DEF f, g
  <2>. QED BY <1>5, <1>7, <1>8, <1>15, <2>1 DEF Adds, off, room
<1> QED BY <1>9, <1>14, <1>16 DEF d

\* What is added leaves every action as little room as before, or less.
LEMMA AddsShrinks ==
    ASSUME NEW D, NEW e \in GoodPlans(D), NEW d \in GoodPlans(D), NEW p \in Packages, NEW a \in D,
           NEW exact, MayCarry(e, p, a, exact), NEW f \in Pointers, NEW g \in Fragments,
           Adds(e, d, p, a, f, g)
    PROVE  /\ ~MayCarry(d, p, a, exact)
           /\ \A b \in D : \A q \in Packages : \A x : MayCarry(d, q, b, x) => MayCarry(e, q, b, x)
           /\ \A b \in D : /\ d.info[b].time = e.info[b].time /\ d.info[b].enc = e.info[b].enc
                           /\ isActionAbleToFit(d.info[b]) => isActionAbleToFit(e.info[b])
           /\ \A b \in D \ {a} : d.info[b] = e.info[b]
           /\ d.info[a].link = Route[p] /\ d.info[a].fragments = Append(e.info[a].fragments, f)
           /\ d.parts[p] = Append(e.parts[p], g)
           /\ \A q \in Packages \ {p} : d.parts[q] = e.parts[q]
<1>1. /\ e.info \in [D -> ActionInfo] /\ e.parts \in [Packages -> Seq(Fragments)]
      /\ d.info \in [D -> ActionInfo] /\ d.parts \in [Packages -> Seq(Fragments)]
  BY DEF GoodPlans, PlansOf
<1>2. /\ d.info[a] = [time |-> e.info[a].time, link |-> Route[p], enc |-> e.info[a].enc,
                      fragments |-> Append(e.info[a].fragments, f)]
      /\ \A b \in D \ {a} : d.info[b] = e.info[b]
      /\ d.parts[p] = Append(e.parts[p], g) /\ \A q \in Packages \ {p} : d.parts[q] = e.parts[q]
  BY <1>1 DEF Adds
<1> DEFINE i == e.info[a]
           j == d.info[a]
<1>3. /\ spaceAvailableInAction(i) \in Nat /\ spaceAvailableInAction(j) \in Nat
      /\ spaceAvailableInAction(j) <= spaceAvailableInAction(i)
      /\ f.len = spaceAvailableInAction(i) => spaceAvailableInAction(j) = 0
  <2>1. i \in ActionInfo /\ j \in ActionInfo  BY <1>1
  <2>2. j.enc = i.enc /\ j.fragments = Append(i.fragments, f) BY <1>2
  <2> HIDE DEF i, j
  <2>. QED BY <2>1, <2>2, SpaceShrinks
<1>4. \A b \in D : /\ d.info[b].time = e.info[b].time /\ d.info[b].enc = e.info[b].enc
                   /\ isActionAbleToFit(d.info[b]) => isActionAbleToFit(e.info[b])
  <2>1. ASSUME NEW b \in D
        PROVE  /\ d.info[b].time = e.info[b].time /\ d.info[b].enc = e.info[b].enc
               /\ isActionAbleToFit(d.info[b]) => isActionAbleToFit(e.info[b])
    <3>1. CASE b = a
      <4>1. isActionAbleToFit(j) => isActionAbleToFit(i)  BY <1>3 DEF isActionAbleToFit
      <4>. QED BY <1>2, <3>1, <4>1
    <3>2. CASE b # a  BY <1>2, <3>2
    <3>. QED BY <3>1, <3>2
  <2>. QED BY <2>1
<1>5. Planned(d, p) \/ f.len = spaceAvailableInAction(e.info[a])  BY DEF Adds
<1>6. ~MayCarry(d, p, a, exact)
  <2>1. ASSUME f.len = spaceAvailableInAction(i) PROVE ~isActionAbleToFit(j)
    BY <1>3, <2>1 DEF isActionAbleToFit
  <2>. QED BY <1>5, <2>1 DEF MayCarry
<1>7. ASSUME NEW b \in D, NEW q \in Packages, NEW x, MayCarry(d, q, b, x)
      PROVE  MayCarry(e, q, b, x)
  <2>1. ~Planned(e, q)
    <3>1. CASE q = p  BY <3>1 DEF MayCarry
    <3>2. CASE q # p  BY <1>2, <1>7, <3>2 DEF MayCarry, Planned
    <3>. QED BY <3>1, <3>2
  <2>2. e.info[b].link \in {Route[q], NoLink}
    <3>1. CASE b = a
      <4>1. d.info[b].link = Route[p]  BY <1>2, <3>1
      <4>2. Route[p] \in Links /\ NoLink \notin Links  BY PackagesAssumption
      <4>3. Route[p] = Route[q]  BY <1>7, <4>1, <4>2 DEF MayCarry
      <4>. QED BY <3>1, <4>3 DEF MayCarry
    <3>2. CASE b # a  BY <1>2, <1>7, <3>2 DEF MayCarry
    <3>. QED BY <3>1, <3>2
  <2>3. /\ e.info[b].time > now + MaxEncodingTime \/ b = x
        /\ isActionAbleToFit(e.info[b])
    BY <1>4, <1>7 DEF MayCarry
  <2>. QED BY <2>1, <2>2, <2>3 DEF MayCarry
<1>8. d.info[a].link = Route[p] /\ d.info[a].fragments = Append(e.info[a].fragments, f)
  BY <1>2
<1> QED BY <1>2, <1>4, <1>6, <1>7, <1>8

\* What every addition keeps, the planning of a package keeps; and it goes on
\* until no action may carry more of it.
LEMMA FillKeeps ==
    ASSUME reports \in Seq(Handles \X Statuses), NEW D, D \subseteq Actions,
           NEW p \in Packages, NEW queue \in Seq(D), NEW exact,
           NEW Q, Q \subseteq GoodPlans(D), NEW plan \in Q,
           \A e \in Q : \A d \in GoodPlans(D) : \A a \in ToSet(queue) : \A f \in Pointers : \A g \in Fragments :
               MayCarry(e, p, a, exact) /\ Adds(e, d, p, a, f, g) => d \in Q
    PROVE  /\ generateFragmentsForPackage(plan, p, queue, exact) \in Q
           /\ \A k \in DOMAIN queue :
                  ~MayCarry(generateFragmentsForPackage(plan, p, queue, exact), p, queue[k], exact)
<1> DEFINE n == Len(queue)
           P == [k \in 0 .. n |-> {e \in Q : \A j \in 1 .. k : ~MayCarry(e, p, queue[j], exact)}]
<1>1. n \in Nat /\ DOMAIN queue = 1 .. n /\ \A k \in 1 .. n : queue[k] \in D /\ queue[k] \in ToSet(queue)
  BY Elements DEF ToSet
<1>2. plan \in P[0]
  <2>1. 0 \in 0 .. n /\ 1 .. 0 = {}  BY <1>1
  <2>. QED BY <2>1
<1>3. ASSUME NEW k \in 1 .. n, NEW e \in P[k - 1] PROVE TakeAction(e, p, queue[k], exact) \in P[k]
  <2> DEFINE a == queue[k]
             d == AddFragment(e, p, a)
  <2>1. k \in 0 .. n /\ k - 1 \in 0 .. n /\ 1 .. k = 1 .. (k - 1) \cup {k}  BY <1>1
  <2>2. e \in Q /\ \A j \in 1 .. k - 1 : ~MayCarry(e, p, queue[j], exact)  BY <2>1
  <2>3. e \in GoodPlans(D) /\ a \in D /\ a \in ToSet(queue)  BY <1>1, <2>2
  <2>4. CASE ~MayCarry(e, p, a, exact)
    <3>1. TakeAction(e, p, a, exact) = e  BY <2>4 DEF TakeAction
    <3>2. \A j \in 1 .. k : ~MayCarry(e, p, queue[j], exact)  BY <2>1, <2>2, <2>4
    <3>. QED BY <2>1, <2>2, <3>1, <3>2
  <2>5. CASE MayCarry(e, p, a, exact)
    <3>1. TakeAction(e, p, a, exact) = d  BY <2>5 DEF TakeAction
    <3> HIDE DEF d, a
    <3>2. d \in GoodPlans(D) /\ \E f \in Pointers, g \in Fragments : Adds(e, d, p, a, f, g)
      BY <2>3, <2>5, AddFragmentAdds DEF d
    <3>3. PICK f \in Pointers, g \in Fragments : Adds(e, d, p, a, f, g)  BY <3>2
    <3>4. d \in Q  BY <2>2, <2>3, <2>5, <3>2, <3>3
    <3>5. /\ ~MayCarry(d, p, a, exact)
          /\ \A b \in D : MayCarry(d, p, b, exact) => MayCarry(e, p, b, exact)
      BY <2>3, <2>5, <3>2, <3>3, AddsShrinks
    <3>6. \A j \in 1 .. k : ~MayCarry(d, p, queue[j], exact)
      BY <1>1, <2>1, <2>2, <3>5 DEF a
    <3>. QED BY <2>1, <3>1, <3>4, <3>6 DEF a
  <2>. QED BY <2>4, <2>5
<1>4. generateFragmentsForPackage(plan, p, queue, exact) \in P[n]
  <2> HIDE DEF P
  <2>1. \A k \in 1 .. n : \A e \in P[k - 1] : TakeAction(e, p, queue[k], exact) \in P[k]  BY <1>3
  <2>. QED BY <1>1, <1>2, <2>1, FillAlong
<1>5. n \in 0 .. n  BY <1>1
<1> QED BY <1>1, <1>4, <1>5

\* Every turn is some link's.
LEMMA TurnsAre ==
    /\ Turns \in Nat
    /\ \A n \in 1 .. Turns : LinkOfTurn(n) \in Links /\ PlaceOfTurn(n) \in Nat \ {0}
<1> DEFINE c == Cardinality(Packages)
           m == Len(AllLinks)
<1>1. c \in Nat /\ AllLinks \in Seq(Links)  BY PackagesAssumption, FS_CardinalityType
<1>2. m \in Nat /\ DOMAIN AllLinks = 1 .. m /\ \A k \in 1 .. m : AllLinks[k] \in Links
  BY <1>1, Elements
<1>3. Turns = c * m  BY DEF Turns
<1> HIDE DEF c, m
<1>4. Turns \in Nat /\ (m = 0 => Turns = 0)  BY <1>1, <1>2, <1>3
<1>5. ASSUME NEW n \in 1 .. Turns PROVE LinkOfTurn(n) \in Links /\ PlaceOfTurn(n) \in Nat \ {0}
  <2>1. m \in Nat \ {0} /\ n - 1 \in Nat  BY <1>2, <1>4
  <2>2. (n - 1) % m \in 0 .. m - 1 /\ (n - 1) \div m \in Nat  BY <2>1
  <2>3. ((n - 1) % m) + 1 \in 1 .. m  BY <2>1, <2>2
  <2>. QED BY <1>2, <2>2, <2>3 DEF LinkOfTurn, PlaceOfTurn, m
<1> QED BY <1>4, <1>5

\* The plan with one link more full.
LEMMA FullGrows ==
    ASSUME NEW D, NEW g \in PlansOf(D), NEW l
    PROVE  [g EXCEPT !.full = @ \union {l}]
               = [info |-> g.info, parts |-> g.parts, full |-> g.full \union {l}]
<1>1. \E A, B, C : g \in [info : A, parts : B, full : C]  BY DEF PlansOf
<1>2. PICK A, B, C : g \in [info : A, parts : B, full : C]  BY <1>1
<1> QED BY ONLY <1>2

\* What every addition keeps, and every link found full, the planning of all
\* packages keeps.
LEMMA AssignKeeps ==
    ASSUME reports \in Seq(Handles \X Statuses), NEW D, D \subseteq Actions,
           NEW aqs \in [Links -> Seq(D)], NEW queues \in [Links -> Seq(Packages)],
           NEW Q, Q \subseteq GoodPlans(D), NEW plan, NEW marked, Cleared(plan, marked, aqs) \in Q,
           \A e \in Q : \A d \in GoodPlans(D) : \A l \in Links : \A p \in ToSet(queues[l]) :
               \A a \in ToSet(aqs[l]) : \A f \in Pointers : \A g \in Fragments :
                   MayCarry(e, p, a, NoAction) /\ Adds(e, d, p, a, f, g) => d \in Q,
           \A e \in Q : \A l \in Links : \A p \in ToSet(queues[l]) :
               /\ ~Planned(e, p)
               /\ \A k \in DOMAIN aqs[l] : ~MayCarry(e, p, aqs[l][k], NoAction)
               => [info |-> e.info, parts |-> e.parts, full |-> e.full \union {l}] \in Q
    PROVE  generateFragmentsForAllPackages(plan, marked, aqs, queues) \in Q
<1> DEFINE P == [n \in 0 .. Turns |-> Q]
<1>1. Turns \in Nat /\ \A n \in 1 .. Turns : LinkOfTurn(n) \in Links /\ PlaceOfTurn(n) \in Nat \ {0}
  BY TurnsAre
<1>2. Cleared(plan, marked, aqs) \in P[0]
  <2>1. 0 \in 0 .. Turns  BY <1>1
  <2>. QED BY <2>1
<1>3. ASSUME NEW n \in 1 .. Turns, NEW e \in P[n - 1] PROVE TakeTurn(e, aqs, queues, n) \in P[n]
  <2> DEFINE l == LinkOfTurn(n)
             k == PlaceOfTurn(n)
             p == queues[l][k]
             g == generateFragmentsForPackage(e, p, aqs[l], NoAction)
  <2>1. n \in 0 .. Turns /\ n - 1 \in 0 .. Turns /\ e \in Q /\ l \in Links /\ k \in Nat \ {0}  BY <1>1
  <2>2. TakeTurn(e, aqs, queues, n) \in Q
    <3>1. CASE Len(queues[l]) < k \/ l \in e.full
      <4>1. TakeTurn(e, aqs, queues, n) = e  BY <3>1 DEF TakeTurn
      <4>. QED BY <2>1, <4>1
    <3>2. CASE ~(Len(queues[l]) < k) /\ l \notin e.full
      <4>1. queues[l] \in Seq(Packages) /\ aqs[l] \in Seq(D)  BY <2>1
      <4>2. p \in Packages /\ p \in ToSet(queues[l])
        <5>1. k \in DOMAIN queues[l]  BY <2>1, <3>2, <4>1, Elements
        <5>. QED BY <4>1, <5>1, Elements DEF ToSet
      <4>3. TakeTurn(e, aqs, queues, n) = IF Planned(g, p) THEN g ELSE [g EXCEPT !.full = @ \union {l}]
        BY <3>2 DEF TakeTurn
      <4> HIDE DEF l, k, p
      <4>4. g \in Q /\ \A j \in DOMAIN aqs[l] : ~MayCarry(g, p, aqs[l][j], NoAction)
        BY <2>1, <4>1, <4>2, FillKeeps
      <4> HIDE DEF g
      <4>5. CASE Planned(g, p)  BY <4>3, <4>4, <4>5
      <4>6. CASE ~Planned(g, p)
        <5>1. [info |-> g.info, parts |-> g.parts, full |-> g.full \union {l}] \in Q
          BY <2>1, <4>2, <4>4, <4>6
        <5>2. g \in PlansOf(D)  BY <4>4 DEF GoodPlans
        <5>3. [g EXCEPT !.full = @ \union {l}] = [info |-> g.info, parts |-> g.parts, full |-> g.full \union {l}]
          BY ONLY <5>2, FullGrows
        <5>. QED BY <4>3, <4>6, <5>1, <5>3
      <4>. QED BY <4>5, <4>6
    <3>. QED BY <3>1, <3>2
  <2>. QED BY <2>1, <2>2
<1>4. generateFragmentsForAllPackages(plan, marked, aqs, queues) \in P[Turns]
  <2> HIDE DEF P
  <2>1. \A n \in 1 .. Turns : \A e \in P[n - 1] : TakeTurn(e, aqs, queues, n) \in P[n]  BY <1>3
  <2>. QED BY <1>1, <1>2, <2>1, AssignAlong
<1>5. Turns \in 0 .. Turns  BY <1>1
<1> QED BY <1>4, <1>5

\* A package loses its fragments from the first marked one on.
LEMMA RemovedIs ==
    ASSUME NEW fs \in Seq(Fragments), NEW gone, NEW r, r = removeMarkedFragments(fs, gone)
    PROVE  /\ r \in Seq(Fragments) /\ DOMAIN r \subseteq DOMAIN fs
           /\ \A k \in DOMAIN r : r[k] = fs[k] /\ fs[k].h \notin gone /\ \A m \in 1 .. k : m \in DOMAIN r
           /\ \A k \in DOMAIN fs : (\A m \in 1 .. k : fs[m].h \notin gone) => k \in DOMAIN r
<1> DEFINE hit == {k \in DOMAIN fs : fs[k].h \in gone}
           n == Len(fs)
<1>1. DOMAIN fs = 1 .. n /\ n \in Nat /\ \A k \in DOMAIN fs : fs[k] \in Fragments
  BY Elements
<1>2. r = IF hit = {} THEN fs ELSE SubSeq(fs, 1, Min(hit) - 1)  BY DEF removeMarkedFragments
<1>3. hit \subseteq Nat /\ \A k \in DOMAIN fs : k \in hit <=> fs[k].h \in gone  BY <1>1
<1> HIDE DEF n
<1>4. CASE hit = {}
  <2>1. r = fs /\ \A k \in DOMAIN fs : fs[k].h \notin gone  BY <1>2, <1>3, <1>4
  <2> HIDE DEF hit
  <2>. QED BY <1>1, <2>1
<1>5. CASE hit # {}
  <2>1. Min(hit) \in hit /\ \A k \in hit : Min(hit) <= k
    <3> HIDE DEF hit
    <3>. QED BY <1>3, <1>5, MinMax
  <2> DEFINE m == Min(hit) - 1
  <2>2. m \in 0 .. n - 1 /\ m + 1 \in hit /\ \A k \in hit : m < k
    <3>1. Min(hit) \in 1 .. n  BY <1>1, <2>1
    <3>2. \A k \in hit : k \in Nat /\ Min(hit) <= k  BY <1>3, <2>1
    <3> HIDE DEF hit
    <3>. QED BY <1>1, <2>1, <3>1, <3>2
  <2>3. r = SubSeq(fs, 1, m)  BY <1>2, <1>5
  <2>4. m + 1 \in 1 .. n /\ fs[m + 1].h \in gone  BY <1>1, <2>2
  <2> HIDE DEF m, hit
  <2>5. m \in Int /\ 1 \in Int /\ m <= n /\ \A k \in 1 .. m : fs[k] \in Fragments  BY <1>1, <2>2
  <2>6. /\ r \in Seq(Fragments) /\ Len(r) = m /\ \A k \in 1 .. m : r[k] = fs[k]
    <3>1. /\ SubSeq(fs, 1, m) \in Seq(Fragments) /\ Len(SubSeq(fs, 1, m)) = m
          /\ \A k \in 1 .. m : SubSeq(fs, 1, m)[k] = fs[k]
      BY <1>1, <2>2, <2>5, SubSeqProperties
    <3>. QED BY <2>3, <3>1
  <2>7. DOMAIN r = 1 .. m  BY <2>6, LenProperties
  <2>8. \A k \in 1 .. m : k \in DOMAIN fs /\ k \notin hit  BY <1>1, <2>2
  <2>9. \A k \in DOMAIN fs : (\A j \in 1 .. k : fs[j].h \notin gone) => k \in 1 .. m
    BY <1>1, <2>2, <2>4
  <2>. QED BY <1>1, <1>3, <2>2, <2>6, <2>7, <2>8, <2>9
<1> QED BY <1>4, <1>5

\* Clearing a plan leaves a good one.
LEMMA ClearedIs ==
    ASSUME NEW D, NEW e \in GoodPlans(D), NEW marked, NEW aqs
    PROVE  Cleared(e, marked, aqs) \in GoodPlans(D)
<1> DEFINE reset == {a \in UNION {ToSet(aqs[l]) : l \in Links} : e.info[a].time > now + MaxEncodingTime}
           gone == marked \union UNION {HandlesOf(e.info[a].fragments) : a \in reset}
           c == Cleared(e, marked, aqs)
<1>1. /\ e.info \in [D -> ActionInfo] /\ e.parts \in [Packages -> Seq(Fragments)] /\ Whole(e.parts)
  BY DEF GoodPlans, PlansOf
<1> DEFINE anew == [a \in D |-> IF a \notin reset THEN e.info[a]
                                ELSE [e.info[a] EXCEPT !.fragments = <<>>,
                                         !.link = IF Target[a] = Wildcard THEN NoLink ELSE @]]
<1>2. c = [info |-> anew,
           parts |-> [p \in Packages |-> removeMarkedFragments(e.parts[p], gone)], full |-> {}]
  BY <1>1, Zenon DEF Cleared
<1> HIDE DEF reset, gone, anew, c
<1>3. \A p \in Packages : /\ c.parts[p] \in Seq(Fragments) /\ DOMAIN c.parts[p] \subseteq DOMAIN e.parts[p]
                         /\ \A k \in DOMAIN c.parts[p] : c.parts[p][k] = e.parts[p][k]
  BY <1>1, <1>2, RemovedIs
<1>4. c.parts \in [Packages -> Seq(Fragments)]  BY <1>2, <1>3
<1>5. Whole(c.parts)  BY <1>1, <1>3 DEF Whole
<1>6. c.info \in [D -> ActionInfo]
  <2>1. ASSUME NEW a \in D, a \in reset
        PROVE  [e.info[a] EXCEPT !.fragments = <<>>,
                  !.link = IF Target[a] = Wildcard THEN NoLink ELSE @] \in ActionInfo
    <3>1. e.info[a] \in ActionInfo /\ <<>> \in Seq(Pointers)  BY <1>1
    <3>. QED BY <3>1 DEF ActionInfo
  <2>2. \A a \in D : e.info[a] \in ActionInfo  BY <1>1
  <2>. QED BY <1>2, <2>1, <2>2 DEF anew
<1>7. c = [info |-> c.info, parts |-> c.parts, full |-> c.full] /\ c.full \in SUBSET Links
  BY <1>2
<1> QED BY <1>4, <1>5, <1>6, <1>7 DEF GoodPlans, PlansOf, c

\* Planning changes neither the actions there are nor when they take place.
SameTimes(D, i) ==
    {e \in GoodPlans(D) : \A a \in D : e.info[a].time = i[a].time /\ e.info[a].enc = i[a].enc}

LEMMA ClearedKeepsTimes ==
    ASSUME NEW D, NEW e \in GoodPlans(D), NEW marked, NEW aqs, NEW a \in D
    PROVE  LET i == Cleared(e, marked, aqs).info[a]
           IN  i.time = e.info[a].time /\ i.enc = e.info[a].enc
<1> DEFINE reset == {b \in UNION {ToSet(aqs[l]) : l \in Links} : e.info[b].time > now + MaxEncodingTime}
           c == Cleared(e, marked, aqs)
<1>1. DOMAIN e.info = D /\ e.info[a] \in ActionInfo  BY DEF GoodPlans, PlansOf
<1>2. c.info[a] = IF a \notin reset THEN e.info[a]
                  ELSE [e.info[a] EXCEPT !.fragments = <<>>,
                           !.link = IF Target[a] = Wildcard THEN NoLink ELSE @]
  <2>1. c.info = [b \in DOMAIN e.info |->
                     IF b \notin reset THEN e.info[b]
                     ELSE [e.info[b] EXCEPT !.fragments = <<>>,
                             !.link = IF Target[b] = Wildcard THEN NoLink ELSE @]]
    BY DEF Cleared
  <2> HIDE DEF c, reset
  <2>. QED BY <1>1, <2>1
<1> HIDE DEF c, reset
<1>3. c.info[a].time = e.info[a].time /\ c.info[a].enc = e.info[a].enc
  BY <1>1, <1>2 DEF ActionInfo
<1> QED BY <1>3 DEF c

LEMMA OnePlanned ==
    ASSUME reports \in Seq(Handles \X Statuses), NEW D, D \subseteq Actions,
           NEW plan \in GoodPlans(D), NEW p \in Packages, NEW queue \in Seq(D), NEW exact
    PROVE  generateFragmentsForPackage(plan, p, queue, exact) \in SameTimes(D, plan.info)
<1> DEFINE Q == SameTimes(D, plan.info)
<1>1. Q \subseteq GoodPlans(D) /\ plan \in Q  BY DEF SameTimes
<1>2. ASSUME NEW e \in Q, NEW d \in GoodPlans(D), NEW a \in ToSet(queue), NEW f \in Pointers,
             NEW g \in Fragments, MayCarry(e, p, a, exact), Adds(e, d, p, a, f, g)
      PROVE  d \in Q
  <2>1. a \in D /\ e \in GoodPlans(D)  BY <1>1, Elements DEF ToSet
  <2>2. \A b \in D : d.info[b].time = e.info[b].time /\ d.info[b].enc = e.info[b].enc
    BY <1>2, <2>1, AddsShrinks
  <2>. QED BY <2>2 DEF SameTimes
<1> HIDE DEF Q
<1>3. generateFragmentsForPackage(plan, p, queue, exact) \in Q  BY <1>1, <1>2, FillKeeps
<1> QED BY <1>3 DEF Q

LEMMA AllPlanned ==
    ASSUME reports \in Seq(Handles \X Statuses), NEW D, D \subseteq Actions,
           NEW plan \in GoodPlans(D), NEW marked,
           NEW aqs \in [Links -> Seq(D)], NEW queues \in [Links -> Seq(Packages)]
    PROVE  generateFragmentsForAllPackages(plan, marked, aqs, queues) \in SameTimes(D, plan.info)
<1> DEFINE Q == SameTimes(D, plan.info)
<1>1. Q \subseteq GoodPlans(D)  BY DEF SameTimes
<1>2. Cleared(plan, marked, aqs) \in Q
  BY ClearedIs, ClearedKeepsTimes DEF SameTimes
<1>3. ASSUME NEW e \in Q, NEW d \in GoodPlans(D), NEW l \in Links, NEW p \in ToSet(queues[l]),
             NEW a \in ToSet(aqs[l]), NEW f \in Pointers,
             NEW g \in Fragments, MayCarry(e, p, a, NoAction), Adds(e, d, p, a, f, g)
      PROVE  d \in Q
  <2>1. a \in D /\ p \in Packages /\ e \in GoodPlans(D)
    <3>1. aqs[l] \in Seq(D) /\ queues[l] \in Seq(Packages)  OBVIOUS
    <3>. QED BY <1>1, <3>1, Elements DEF ToSet
  <2>2. \A b \in D : d.info[b].time = e.info[b].time /\ d.info[b].enc = e.info[b].enc
    BY <1>3, <2>1, AddsShrinks
  <2>. QED BY <2>2 DEF SameTimes
<1>4. ASSUME NEW e \in Q, NEW l \in Links
      PROVE  [info |-> e.info, parts |-> e.parts, full |-> e.full \union {l}] \in Q
  <2>1. e \in GoodPlans(D)  BY <1>1
  <2>. QED BY <2>1 DEF SameTimes, GoodPlans, PlansOf
<1> HIDE DEF Q
<1>5. generateFragmentsForAllPackages(plan, marked, aqs, queues) \in Q
  BY <1>1, <1>2, <1>3, <1>4, AssignKeeps
<1> QED BY <1>5 DEF Q

--------------------------------------------------------------------------------
(* Types.  A transport action is done as the first of its timeline: that the  *)
(* queues stay within the timeline rests on their being sorted.               *)

\* No action was planned too late to be encoded.
ActionsInTime == \A a \in DOMAIN info : info[a].time >= MaxEncodingTime

\* The queues hold actions of the timeline, in its order.
QueuesSorted == \A l \in Links : actionQueue[l] \in Seq(DOMAIN info) /\ Sorted(info, actionQueue[l])

\* What is on its way carries something.
WireCarries == \A l \in Links : \A k \in DOMAIN wire[l] : wire[l][k].data # <<>>

TypeInv == TypeOK /\ Whole(parts) /\ ActionsInTime /\ QueuesSorted /\ WireCarries

LEMMA NumbersAre ==
    ASSUME TypeOK
    PROVE  /\ now \in Nat /\ now <= MaxTime /\ MaxTime \in Nat \ {0} /\ MaxEncodingTime \in Nat \ {0}
           /\ Never = MaxTime + MaxEncodingTime + 1 /\ Never \in Times /\ Times \subseteq Nat
           /\ now + MaxEncodingTime \in Times
<1>1. MaxTime \in Nat \ {0} /\ MaxEncodingTime \in Nat \ {0}  BY PackagesAssumption
<1>2. now \in 0 .. MaxTime  BY DEF TypeOK
<1> QED BY <1>1, <1>2 DEF Never, Times

LEMMA PlanGood ==
    ASSUME TypeOK, Whole(parts)
    PROVE  Plan \in GoodPlans(DOMAIN info) /\ DOMAIN info \subseteq Actions
BY DEF TypeOK, Plan, GoodPlans, PlansOf

LEMMA TimelineIs ==
    ASSUME TypeOK, NEW D, D \subseteq Actions, NEW i \in [D -> ActionInfo]
    PROVE  /\ Timed(i) /\ DOMAIN i = D
           /\ updateLinkTimelines(i) \in [Links -> Seq(D)]
           /\ \A l \in Links : Sorted(i, updateLinkTimelines(i)[l])
<1>1. Timed(i) /\ DOMAIN i = D  BY NumbersAre DEF Timed, ActionInfo
<1>2. ASSUME NEW l \in Links
      PROVE  /\ updateLinkTimelines(i)[l] \in Seq(D) /\ Sorted(i, updateLinkTimelines(i)[l])
  <2> DEFINE S == {a \in DOMAIN i : Target[a] \in {l, Wildcard}}
             s == InOrder(i, S)
  <2>1. updateLinkTimelines(i)[l] = IF l \in links THEN s ELSE <<>>  BY DEF updateLinkTimelines
  <2>2. s \in Seq(S) /\ Sorted(i, s) /\ S \subseteq D
    <3>1. S \in SUBSET DOMAIN i  OBVIOUS
    <3> HIDE DEF S
    <3>. QED BY <1>1, <3>1, OrderLists
  <2> HIDE DEF S, s
  <2>3. s \in Seq(D)
    <3>1. s \in [1 .. Len(s) -> D] /\ Len(s) \in Nat  BY <2>2, Elements
    <3>. QED BY <3>1
  <2>4. Sorted(i, <<>>)  BY DEF Sorted
  <2>. QED BY <2>1, <2>2, <2>3, <2>4
<1>3. updateLinkTimelines(i) \in [Links -> Seq(D)]
  <2>1. updateLinkTimelines(i) = [l \in Links |-> updateLinkTimelines(i)[l]]
    BY DEF updateLinkTimelines
  <2>. QED BY <1>2, <2>1
<1> QED BY <1>1, <1>2, <1>3

\* The sortedness of a queue depends on the times only.
LEMMA SortedSame ==
    ASSUME NEW D, NEW i, NEW j, \A a \in D : j[a].time = i[a].time,
           NEW s \in Seq(D), Sorted(i, s)
    PROVE  Sorted(j, s)
<1>1. \A k \in DOMAIN s : s[k] \in D  BY Elements
<1> QED BY <1>1 DEF Sorted, Before

LEMMA EncodeTimestampIs ==
    ASSUME TypeOK, NEW D, D \subseteq Actions, NEW i \in [D -> ActionInfo],
           \A a \in D : i[a].time >= MaxEncodingTime
    PROVE  updateEncodeTimestamp(i) \in Times
<1> DEFINE later == {i[a].time : a \in DOMAIN i} \ 0 .. lastEncodeTime
<1>1. later \subseteq Times /\ \A t \in later : t >= MaxEncodingTime  BY DEF ActionInfo
<1>2. updateEncodeTimestamp(i) = IF later = {} THEN Never ELSE Min(later) - MaxEncodingTime
  BY DEF updateEncodeTimestamp
<1>3. ASSUME later # {} PROVE Min(later) \in later
  <2>1. later \subseteq Nat  BY <1>1, NumbersAre
  <2> HIDE DEF later
  <2>. QED BY <1>3, <2>1, MinMax
<1> HIDE DEF later
<1>4. ASSUME later # {} PROVE Min(later) - MaxEncodingTime \in Times
  <2>1. Min(later) \in Times /\ Min(later) >= MaxEncodingTime  BY <1>1, <1>3, <1>4
  <2>. QED BY <2>1, NumbersAre DEF Times
<1> QED BY <1>2, <1>4, NumbersAre

\* A new action of the timeline.
LEMMA CreatedIs ==
    ASSUME NEW a \in Actions, NEW t \in Times
    PROVE  /\ createActionInfo(a, t) \in ActionInfo
           /\ createActionInfo(a, t).time = t /\ createActionInfo(a, t).enc = "UNENCODED"
           /\ createActionInfo(a, t).fragments = <<>>
<1>1. <<>> \in Seq(Pointers)  OBVIOUS
<1> DEFINE l == IF Target[a] \in Links THEN Target[a] ELSE NoLink
<1>2. l \in Links \union {NoLink}  OBVIOUS
<1>3. createActionInfo(a, t) = [time |-> t, link |-> l, enc |-> "UNENCODED", fragments |-> <<>>]
  BY DEF createActionInfo
<1> HIDE DEF l
<1> QED BY <1>1, <1>2, <1>3 DEF ActionInfo, EncodingStates

\* What is spent of a bound.
LEMMA SpendIs ==
    ASSUME spent \in [Bounded -> Nat], NEW b \in Bounded, NEW n, Spend(b, n)
    PROVE  spent' \in [Bounded -> Nat]
BY DEF Spend

\* What a replanning does to the timeline i.
LEMMA ReplanIs ==
    ASSUME TypeOK, Whole(parts), NEW D, D \subseteq Actions, NEW i \in [D -> ActionInfo]
    PROVE  Replan(i) \in SameTimes(D, i)
<1> DEFINE e == [Plan EXCEPT !.info = i]
           marked == UNION {HandlesOf(info[a].fragments) : a \in DOMAIN info \ DOMAIN i}
<1>1. e = [info |-> i, parts |-> parts, full |-> {}]  BY DEF Plan
<1>2. e \in GoodPlans(D) /\ e.info = i  BY <1>1 DEF TypeOK, GoodPlans, PlansOf
<1>3. updateLinkTimelines(i) \in [Links -> Seq(D)]  BY TimelineIs
<1>4. packageQueue \in [Links -> Seq(Packages)] /\ reports \in Seq(Handles \X Statuses)  BY DEF TypeOK
<1>5. Replan(i) = generateFragmentsForAllPackages(e, marked, updateLinkTimelines(i), packageQueue)
  BY DEF Replan
<1> HIDE DEF e, marked
<1>6. generateFragmentsForAllPackages(e, marked, updateLinkTimelines(i), packageQueue)
          \in SameTimes(D, e.info)
  BY <1>2, <1>3, <1>4, AllPlanned
<1> QED BY <1>2, <1>5, <1>6

\* The parts of a plan, one by one.
LEMMA PlanParts ==
    ASSUME NEW D, NEW i, NEW e \in SameTimes(D, i)
    PROVE  /\ e \in GoodPlans(D)
           /\ e.info \in [D -> ActionInfo] /\ e.parts \in [Packages -> Seq(Fragments)]
           /\ e.full \subseteq Links /\ Whole(e.parts)
           /\ \A a \in D : e.info[a].time = i[a].time /\ e.info[a].enc = i[a].enc
BY DEF SameTimes, GoodPlans, PlansOf

LEMMA TypeInit == Init => TypeInv
<1> SUFFICES ASSUME Init PROVE TypeInv  OBVIOUS
<1>1. /\ MaxTime \in Nat \ {0} /\ MaxEncodingTime \in Nat \ {0} /\ Never \in Times /\ 0 \in Times
  BY PackagesAssumption DEF Never, Times
<1>2. DOMAIN info = {} /\ DOMAIN encoder = {} /\ DOMAIN held = {}
      /\ info \in [{} -> ActionInfo] /\ encoder \in [{} -> Contents] /\ held \in [{} -> Contents]
  BY DEF Init
<1>3. TypeOK
  <2>1. now \in 0 .. MaxTime /\ {nextEncodeTime, lastEncodeTime} \subseteq Times
    BY <1>1 DEF Init
  <2>2. linkStatus \in [Links -> {"NONE", "LINK_CREATED", "LINK_DESTROYED"}]  BY DEF Init
  <2>3. /\ actionQueue \in [Links -> Seq(Actions)] /\ packageQueue \in [Links -> Seq(Packages)]
        /\ fragmentCount \in [Links -> Nat] /\ parts \in [Packages -> Seq(Fragments)]
        /\ reports \in Seq(Handles \X Statuses) /\ blocked \subseteq Links
        /\ told \in [Packages -> Seq(Statuses)] /\ wire \in [Links -> Seq(Contents)]
        /\ last \in [Links -> Nat] /\ pending \in [Links -> Seq(Pieces)]
        /\ delivered \subseteq Seq(Pieces) /\ spent \in [Bounded -> Nat]
    BY DEF Init
  <2>. QED BY <1>2, <2>1, <2>2, <2>3 DEF TypeOK
<1>4. Whole(parts) /\ ActionsInTime /\ QueuesSorted /\ WireCarries
  BY <1>2 DEF Init, Whole, ActionsInTime, QueuesSorted, WireCarries, Sorted
<1> QED BY <1>3, <1>4 DEF TypeInv

\* What replanning leaves for the next state.
LEMMA PlannedTypes ==
    ASSUME NEW D, D \subseteq Actions, NEW i \in [D -> ActionInfo],
           \A a \in D : i[a].time >= MaxEncodingTime,
           NEW e \in SameTimes(D, i), info' = e.info, parts' = e.parts,
           NEW aqs \in [Links -> Seq(D)], \A l \in Links : Sorted(i, aqs[l]), actionQueue' = aqs
    PROVE  /\ DOMAIN info' = D /\ info' \in [DOMAIN info' -> ActionInfo]
           /\ parts' \in [Packages -> Seq(Fragments)] /\ actionQueue' \in [Links -> Seq(Actions)]
           /\ Whole(parts)' /\ ActionsInTime' /\ QueuesSorted'
<1>1. /\ e.info \in [D -> ActionInfo] /\ e.parts \in [Packages -> Seq(Fragments)] /\ Whole(e.parts)
      /\ \A a \in D : e.info[a].time = i[a].time
  BY PlanParts
<1>2. DOMAIN info' = D /\ info' \in [D -> ActionInfo]  BY <1>1
<1>3. ASSUME NEW l \in Links
      PROVE  aqs[l] \in Seq(D) /\ aqs[l] \in Seq(Actions) /\ Sorted(e.info, aqs[l])
  <2>1. aqs[l] \in Seq(D)  OBVIOUS
  <2>2. aqs[l] \in Seq(Actions)
    <3>1. aqs[l] \in [1 .. Len(aqs[l]) -> D] /\ Len(aqs[l]) \in Nat  BY <2>1, Elements
    <3>. QED BY <3>1
  <2>3. Sorted(i, aqs[l])  OBVIOUS
  <2>. QED BY <1>1, <2>1, <2>2, <2>3, SortedSame
<1>4. QueuesSorted'
  <2>1. \A l \in Links : actionQueue'[l] \in Seq(DOMAIN info') /\ Sorted(info', actionQueue'[l])
    BY <1>2, <1>3
  <2>. QED BY <2>1 DEF QueuesSorted
<1>5. ActionsInTime'  BY <1>1, <1>2 DEF ActionsInTime
<1>6. Whole(parts)'
  <2>1. Whole(parts')  BY <1>1
  <2>. QED BY <2>1 DEF Whole
<1> QED BY <1>1, <1>2, <1>3, <1>4, <1>5, <1>6

LEMMA TypeTick == TypeInv /\ Tick => TypeInv'
<1> SUFFICES ASSUME TypeInv, Tick PROVE TypeInv'  OBVIOUS
<1> USE DEF TypeInv
<1>1. now' \in 0 .. MaxTime  BY NumbersAre DEF TypeOK, Tick
<1>2. TypeOK'
  BY <1>1 DEF TypeOK, Tick, actionVars, packageVars, receiveVars
<1>3. Whole(parts)' /\ ActionsInTime' /\ QueuesSorted' /\ WireCarries'
  BY DEF Tick, actionVars, packageVars, receiveVars, Whole, ActionsInTime, QueuesSorted, Sorted, Before, WireCarries
<1> QED BY <1>2, <1>3

\* The timeline that is fetched keeps what is due, and may be any other.
LEMMA FetchIs ==
    ASSUME TypeInv, FetchTimeline
    PROVE  \E D \in SUBSET Actions : \E i \in [D -> ActionInfo] :
               /\ \A a \in DOMAIN info : info[a].time <= now + MaxEncodingTime => a \in D
               /\ \A a \in D : /\ i[a].time >= MaxEncodingTime
                               /\ a \in DOMAIN info => i[a] = info[a]
                               /\ a \notin DOMAIN info =>
                                      /\ i[a].enc = "UNENCODED" /\ i[a].fragments = <<>>
                                      /\ i[a].time > now + MaxEncodingTime
               /\ SpacedOut(i)
               /\ info' = Replan(i).info /\ parts' = Replan(i).parts
               /\ actionQueue' = updateLinkTimelines(i)
               /\ nextEncodeTime' = updateEncodeTimestamp(i)
               /\ blocked' = StillBlocked(Replan(i))
               /\ Spend("fetches", MaxFetches)
               /\ UNCHANGED <<now, linkStatus, lastEncodeTime, packageQueue, fragmentCount,
                              encoder, told, held, reports, wire, receiveVars>>
<1> DEFINE kept == {a \in DOMAIN info : info[a].time <= now + MaxEncodingTime}
           returned == {a \in Scheduled : Time[a] > now + MaxEncodingTime}
<1>1. PICK S \in SUBSET (returned \union (DOMAIN info \ kept)) :
        LET i == [a \in kept \union S |-> IF a \in DOMAIN info THEN info[a]
                                          ELSE createActionInfo(a, Time[a])]
            plan == Replan(i)
        IN  /\ SpacedOut(i)
            /\ info' = plan.info /\ parts' = plan.parts
            /\ actionQueue' = updateLinkTimelines(i)
            /\ nextEncodeTime' = updateEncodeTimestamp(i)
            /\ blocked' = StillBlocked(plan)
            /\ Spend("fetches", MaxFetches)
            /\ UNCHANGED <<now, linkStatus, lastEncodeTime, packageQueue, fragmentCount,
                           encoder, told, held, reports, wire, receiveVars>>
  BY DEF FetchTimeline
<1> DEFINE D == kept \union S
           i == [a \in D |-> IF a \in DOMAIN info THEN info[a] ELSE createActionInfo(a, Time[a])]
<1>2. TypeOK /\ ActionsInTime  BY DEF TypeInv
<1>3. D \subseteq Actions /\ \A a \in D : a \in DOMAIN info \/ a \in returned
  BY <1>2 DEF TypeOK, Actions
<1>4. ASSUME NEW a \in D
      PROVE  /\ i[a] \in ActionInfo /\ i[a].time >= MaxEncodingTime
             /\ a \in DOMAIN info => i[a] = info[a]
             /\ a \notin DOMAIN info => /\ i[a].enc = "UNENCODED" /\ i[a].fragments = <<>>
                                        /\ i[a].time > now + MaxEncodingTime
  <2>1. CASE a \in DOMAIN info
    <3>1. i[a] = info[a]  BY <2>1
    <3>. QED BY <1>2, <2>1, <3>1 DEF TypeOK, ActionsInTime
  <2>2. CASE a \notin DOMAIN info
    <3>1. i[a] = createActionInfo(a, Time[a])  BY <2>2
    <3>2. a \in Scheduled /\ Time[a] > now + MaxEncodingTime  BY <1>3, <2>2
    <3>3. Time[a] \in 1 .. MaxTime  BY <3>2, PackagesAssumption
    <3>4. Time[a] \in Times /\ Time[a] >= MaxEncodingTime
      BY <1>2, <3>2, <3>3, NumbersAre DEF Times
    <3>5. a \in Actions  BY <3>2 DEF Actions
    <3>. QED BY <2>2, <3>1, <3>2, <3>4, <3>5, CreatedIs
  <2>. QED BY <2>1, <2>2
<1>5. i \in [D -> ActionInfo]  BY <1>4
<1>6. \A a \in DOMAIN info : info[a].time <= now + MaxEncodingTime => a \in D  OBVIOUS
<1>7. /\ SpacedOut(i)
      /\ info' = Replan(i).info /\ parts' = Replan(i).parts /\ actionQueue' = updateLinkTimelines(i)
      /\ nextEncodeTime' = updateEncodeTimestamp(i) /\ blocked' = StillBlocked(Replan(i))
      /\ Spend("fetches", MaxFetches)
      /\ UNCHANGED <<now, linkStatus, lastEncodeTime, packageQueue, fragmentCount,
                     encoder, told, held, reports, wire, receiveVars>>
  BY <1>1
<1> HIDE DEF D, i
<1> QED BY <1>3, <1>4, <1>5, <1>6, <1>7

LEMMA TypeFetch == TypeInv /\ FetchTimeline => TypeInv'
<1> SUFFICES ASSUME TypeInv, FetchTimeline PROVE TypeInv'  OBVIOUS
<1>0. PICK D \in SUBSET Actions : \E i \in [D -> ActionInfo] :
          /\ \A a \in D : i[a].time >= MaxEncodingTime
          /\ info' = Replan(i).info /\ parts' = Replan(i).parts
          /\ actionQueue' = updateLinkTimelines(i)
          /\ nextEncodeTime' = updateEncodeTimestamp(i)
          /\ blocked' = StillBlocked(Replan(i))
          /\ Spend("fetches", MaxFetches)
          /\ UNCHANGED <<now, linkStatus, lastEncodeTime, packageQueue, fragmentCount,
                         encoder, told, held, reports, wire, receiveVars>>
  BY FetchIs
<1>1. PICK i \in [D -> ActionInfo] :
          /\ \A a \in D : i[a].time >= MaxEncodingTime
          /\ info' = Replan(i).info /\ parts' = Replan(i).parts
          /\ actionQueue' = updateLinkTimelines(i)
          /\ nextEncodeTime' = updateEncodeTimestamp(i)
          /\ blocked' = StillBlocked(Replan(i))
          /\ Spend("fetches", MaxFetches)
          /\ UNCHANGED <<now, linkStatus, lastEncodeTime, packageQueue, fragmentCount,
                         encoder, told, held, reports, wire, receiveVars>>
  BY <1>0
<1> DEFINE plan == Replan(i)
<1>2. TypeOK /\ Whole(parts) /\ ActionsInTime /\ QueuesSorted /\ WireCarries  BY DEF TypeInv
<1>3. D \subseteq Actions /\ i \in [D -> ActionInfo]  OBVIOUS
<1>4. \A a \in D : i[a].time >= MaxEncodingTime  BY <1>1
<1>5. i \in [D -> ActionInfo]  OBVIOUS
<1>6. /\ info' = plan.info /\ parts' = plan.parts /\ actionQueue' = updateLinkTimelines(i)
      /\ nextEncodeTime' = updateEncodeTimestamp(i) /\ blocked' = StillBlocked(plan)
      /\ Spend("fetches", MaxFetches)
      /\ UNCHANGED <<now, linkStatus, lastEncodeTime, packageQueue, fragmentCount,
                     encoder, told, held, reports, wire, receiveVars>>
  BY <1>1
<1>7. /\ updateLinkTimelines(i) \in [Links -> Seq(D)]
      /\ \A l \in Links : Sorted(i, updateLinkTimelines(i)[l])
  BY <1>2, <1>3, <1>5, TimelineIs
<1>8. plan \in SameTimes(D, i)  BY <1>2, <1>3, <1>5, ReplanIs
<1>9. updateEncodeTimestamp(i) \in Times  BY <1>2, <1>3, <1>4, <1>5, EncodeTimestampIs
<1> HIDE DEF plan
<1>10. /\ DOMAIN info' = D /\ info' \in [DOMAIN info' -> ActionInfo]
       /\ parts' \in [Packages -> Seq(Fragments)] /\ actionQueue' \in [Links -> Seq(Actions)]
       /\ Whole(parts)' /\ ActionsInTime' /\ QueuesSorted'
  BY <1>3, <1>4, <1>5, <1>6, <1>7, <1>8, PlannedTypes
<1>11. blocked' \subseteq Links /\ spent' \in [Bounded -> Nat]
  <2>1. blocked \subseteq Links /\ spent \in [Bounded -> Nat] /\ "fetches" \in Bounded
    BY <1>2 DEF TypeOK, Bounded
  <2>2. spent' \in [Bounded -> Nat]  BY <1>6, <2>1, SpendIs
  <2>3. blocked' = blocked \intersect plan.full  BY <1>6 DEF StillBlocked
  <2>. QED BY <2>1, <2>2, <2>3
<1>12. TypeOK'
  BY <1>2, <1>3, <1>6, <1>9, <1>10, <1>11 DEF TypeOK, receiveVars
<1>13. WireCarries'  BY <1>2, <1>6 DEF WireCarries
<1> QED BY <1>10, <1>12, <1>13 DEF TypeInv

\* The timeline, its queues and the plan a send works on, with the action r or
\* without.
SendTimeline(r) ==
    IF r # NoAction THEN With(info, r, createActionInfo(r, now + MaxEncodingTime)) ELSE info
SendQueues(r) == IF r # NoAction THEN updateLinkTimelines(SendTimeline(r)) ELSE actionQueue
SendBase(r) == IF r # NoAction THEN Replan(SendTimeline(r)) ELSE Plan
SendFits(p, r) == isPackageAbleToFit(SendBase(r), SendQueues(r)[Route[p]], Route[p])
SendPlan(p, r) ==
    IF SendFits(p, r) THEN generateFragmentsForPackage(SendBase(r), p, SendQueues(r)[Route[p]], r)
    ELSE SendBase(r)
SendHeld(r) == IF r # NoAction THEN StillBlocked(SendBase(r)) ELSE blocked

LEMMA SendIs ==
    ASSUME NEW p, NEW r, SendPackage(p, r)
    PROVE  /\ Route[p] \in links \ blocked /\ told[p] = <<>> /\ ~Contains(packageQueue[Route[p]], p)
           /\ r \in {NoAction} \union (Reactive \ (DOMAIN info \union DOMAIN held))
           /\ SpacedOut(SendTimeline(r))
           /\ info' = SendPlan(p, r).info /\ parts' = SendPlan(p, r).parts
           /\ actionQueue' = SendQueues(r)
           /\ nextEncodeTime' = IF r # NoAction THEN updateEncodeTimestamp(SendTimeline(r))
                                                ELSE nextEncodeTime
           /\ packageQueue' = IF SendFits(p, r) THEN [packageQueue EXCEPT ![Route[p]] = Append(@, p)]
                              ELSE packageQueue
           /\ blocked' = IF SendFits(p, r) THEN SendHeld(r) ELSE SendHeld(r) \union {Route[p]}
           /\ UNCHANGED <<now, linkStatus, lastEncodeTime, fragmentCount, encoder, told, held,
                          reports, wire, receiveVars, spent>>
BY Zenon DEF SendPackage, SendTimeline, SendQueues, SendBase, SendFits, SendPlan, SendHeld

LEMMA SendTimelineIs ==
    ASSUME TypeInv, NEW p \in Packages,
           NEW r \in {NoAction} \union (Reactive \ (DOMAIN info \union DOMAIN held)),
           NEW D, D = DOMAIN SendTimeline(r)
    PROVE  /\ D \subseteq Actions /\ SendTimeline(r) \in [D -> ActionInfo]
           /\ \A a \in D : SendTimeline(r)[a].time >= MaxEncodingTime
           /\ SendQueues(r) \in [Links -> Seq(D)]
           /\ \A l \in Links : Sorted(SendTimeline(r), SendQueues(r)[l])
           /\ SendBase(r) \in SameTimes(D, SendTimeline(r))
           /\ SendPlan(p, r) \in SameTimes(D, SendTimeline(r))
<1> DEFINE i == SendTimeline(r)
<1>1. TypeOK /\ Whole(parts) /\ ActionsInTime /\ QueuesSorted  BY DEF TypeInv
<1>2. DOMAIN info \subseteq Actions /\ info \in [DOMAIN info -> ActionInfo]  BY <1>1 DEF TypeOK
<1>3. ASSUME r # NoAction
      PROVE  D \subseteq Actions /\ i \in [D -> ActionInfo] /\ \A a \in D : i[a].time >= MaxEncodingTime
  <2> DEFINE c == createActionInfo(r, now + MaxEncodingTime)
  <2>1. i = [a \in DOMAIN info \union {r} |-> IF a = r THEN c ELSE info[a]]
    BY <1>3 DEF SendTimeline, With
  <2>2. r \in Actions /\ now + MaxEncodingTime \in Times /\ now + MaxEncodingTime >= MaxEncodingTime
    BY <1>1, <1>3, NumbersAre DEF Actions
  <2>3. c \in ActionInfo /\ c.time >= MaxEncodingTime  BY <2>2, CreatedIs
  <2>4. D = DOMAIN info \union {r}  BY <2>1
  <2> HIDE DEF i, c
  <2>. QED BY <1>1, <1>2, <2>1, <2>2, <2>3, <2>4 DEF ActionsInTime
<1>4. ASSUME r = NoAction
      PROVE  D \subseteq Actions /\ i \in [D -> ActionInfo] /\ \A a \in D : i[a].time >= MaxEncodingTime
  <2>1. i = info  BY <1>4 DEF SendTimeline
  <2>. QED BY <1>1, <1>2, <2>1 DEF ActionsInTime
<1> HIDE DEF i
<1>5. D \subseteq Actions /\ i \in [D -> ActionInfo] /\ \A a \in D : i[a].time >= MaxEncodingTime
  BY <1>3, <1>4
<1>6. SendQueues(r) \in [Links -> Seq(D)] /\ \A l \in Links : Sorted(i, SendQueues(r)[l])
  <2>1. CASE r # NoAction
    <3>1. SendQueues(r) = updateLinkTimelines(i)  BY <2>1 DEF SendQueues, i
    <3>. QED BY <1>1, <1>5, <3>1, TimelineIs
  <2>2. CASE r = NoAction
    <3>1. SendQueues(r) = actionQueue /\ i = info  BY <2>2 DEF SendQueues, SendTimeline, i
    <3>2. D = DOMAIN info  BY <3>1 DEF i
    <3>3. actionQueue = [l \in Links |-> actionQueue[l]]  BY <1>1 DEF TypeOK
    <3>. QED BY <1>1, <3>1, <3>2, <3>3 DEF QueuesSorted
  <2>. QED BY <2>1, <2>2
<1>7. SendBase(r) \in SameTimes(D, i)
  <2>1. CASE r # NoAction
    <3>1. SendBase(r) = Replan(i)  BY <2>1 DEF SendBase, i
    <3>. QED BY <1>1, <1>5, <3>1, ReplanIs
  <2>2. CASE r = NoAction
    <3>1. SendBase(r) = Plan /\ i = info  BY <2>2 DEF SendBase, SendTimeline, i
    <3>2. D = DOMAIN info  BY <3>1 DEF i
    <3>3. Plan \in GoodPlans(D) /\ Plan.info = info  BY <1>1, <3>2, PlanGood DEF Plan
    <3>. QED BY <3>1, <3>3 DEF SameTimes
  <2>. QED BY <2>1, <2>2
<1>8. SendPlan(p, r) \in SameTimes(D, i)
  <2> DEFINE e == SendBase(r)
             d == generateFragmentsForPackage(e, p, SendQueues(r)[Route[p]], r)
  <2>1. e \in GoodPlans(D) /\ \A a \in D : e.info[a].time = i[a].time /\ e.info[a].enc = i[a].enc
    BY <1>7, PlanParts
  <2>2. SendQueues(r)[Route[p]] \in Seq(D) /\ reports \in Seq(Handles \X Statuses)
    <3>1. Route[p] \in Links  BY PackagesAssumption
    <3>. QED BY <1>1, <1>6, <3>1 DEF TypeOK
  <2> HIDE DEF e
  <2>3. d \in SameTimes(D, e.info)  BY <1>5, <2>1, <2>2, OnePlanned
  <2> HIDE DEF d
  <2>4. d \in SameTimes(D, i)  BY <2>1, <2>3 DEF SameTimes
  <2>. QED BY <1>7, <2>4 DEF SendPlan, d, e
<1> QED BY <1>5, <1>6, <1>7, <1>8 DEF i

LEMMA TypeSend ==
    ASSUME TypeInv, NEW p \in Packages, NEW r \in Reactive \union {NoAction}, SendPackage(p, r)
    PROVE  TypeInv'
<1> DEFINE i == SendTimeline(r)
           D == DOMAIN i
           l == Route[p]
<1>1. TypeOK /\ Whole(parts) /\ ActionsInTime /\ QueuesSorted /\ WireCarries  BY DEF TypeInv
<1>2. /\ r \in {NoAction} \union (Reactive \ (DOMAIN info \union DOMAIN held))
      /\ info' = SendPlan(p, r).info /\ parts' = SendPlan(p, r).parts
      /\ actionQueue' = SendQueues(r)
      /\ nextEncodeTime' = IF r # NoAction THEN updateEncodeTimestamp(i) ELSE nextEncodeTime
      /\ packageQueue' = IF SendFits(p, r) THEN [packageQueue EXCEPT ![l] = Append(@, p)] ELSE packageQueue
      /\ blocked' = IF SendFits(p, r) THEN SendHeld(r) ELSE SendHeld(r) \union {l}
      /\ UNCHANGED <<now, linkStatus, lastEncodeTime, fragmentCount, encoder, told, held,
                     reports, wire, receiveVars, spent>>
  BY SendIs
<1>3. /\ D \subseteq Actions /\ i \in [D -> ActionInfo]
      /\ \A a \in D : i[a].time >= MaxEncodingTime
      /\ SendQueues(r) \in [Links -> Seq(D)]
      /\ \A m \in Links : Sorted(i, SendQueues(r)[m])
      /\ SendBase(r) \in SameTimes(D, i) /\ SendPlan(p, r) \in SameTimes(D, i)
  BY <1>2, SendTimelineIs
<1> HIDE DEF i, D
<1>4. /\ DOMAIN info' = D /\ info' \in [DOMAIN info' -> ActionInfo]
      /\ parts' \in [Packages -> Seq(Fragments)] /\ actionQueue' \in [Links -> Seq(Actions)]
      /\ Whole(parts)' /\ ActionsInTime' /\ QueuesSorted'
  BY <1>2, <1>3, PlannedTypes
<1>5. nextEncodeTime' \in Times
  <2>1. updateEncodeTimestamp(i) \in Times  BY <1>1, <1>3, EncodeTimestampIs
  <2>. QED BY <1>1, <1>2, <2>1 DEF TypeOK
<1>6. packageQueue' \in [Links -> Seq(Packages)]
  <2>1. l \in Links /\ packageQueue \in [Links -> Seq(Packages)]  BY <1>1, PackagesAssumption DEF TypeOK
  <2>2. Append(packageQueue[l], p) \in Seq(Packages)  BY <2>1, AppendIs
  <2>. QED BY <1>2, <2>1, <2>2
<1>7. blocked' \subseteq Links
  <2>1. l \in Links /\ blocked \subseteq Links  BY <1>1, PackagesAssumption DEF TypeOK
  <2>2. SendHeld(r) \subseteq Links  BY <2>1 DEF SendHeld, StillBlocked
  <2>. QED BY <1>2, <2>1, <2>2
<1>8. TypeOK'
  BY <1>1, <1>2, <1>3, <1>4, <1>5, <1>6, <1>7 DEF TypeOK, receiveVars
<1>9. WireCarries'  BY <1>1, <1>2 DEF WireCarries
<1> QED BY <1>4, <1>8, <1>9 DEF TypeInv

\* A package whose fragments change their state.
LEMMA SetStateIs ==
    ASSUME TypeOK, NEW p \in Packages, NEW hs, NEW state \in FragmentStates
    PROVE  /\ SetState(p, hs, state) \in Seq(Fragments)
           /\ DOMAIN SetState(p, hs, state) = DOMAIN parts[p]
           /\ Len(SetState(p, hs, state)) = Len(parts[p])
           /\ \A k \in DOMAIN parts[p] :
                 LET f == parts[p][k]
                     g == SetState(p, hs, state)[k]
                 IN  /\ g.h = f.h /\ g.off = f.off /\ g.len = f.len /\ g.action = f.action
                     /\ g.state = IF f.h \in hs THEN state ELSE f.state
<1> DEFINE fs == parts[p]
           s == SetState(p, hs, state)
           new(f) == [f EXCEPT !.state = state]
<1>1. fs \in Seq(Fragments)  BY DEF TypeOK
<1>2. DOMAIN fs = 1 .. Len(fs) /\ Len(fs) \in Nat /\ \A k \in DOMAIN fs : fs[k] \in Fragments
  BY <1>1, Elements
<1>3. s = [k \in DOMAIN fs |-> IF fs[k].h \in hs THEN new(fs[k]) ELSE fs[k]]  BY DEF SetState
<1>4. ASSUME NEW f \in Fragments
      PROVE  /\ new(f) \in Fragments /\ new(f).h = f.h /\ new(f).off = f.off /\ new(f).len = f.len
             /\ new(f).action = f.action /\ new(f).state = state
  BY DEF Fragments
<1> HIDE DEF s, fs, new
<1>5. s \in [1 .. Len(fs) -> Fragments]  BY <1>2, <1>3, <1>4
<1>6. s \in Seq(Fragments) /\ DOMAIN s = DOMAIN fs /\ Len(s) = Len(fs)  BY <1>2, <1>5
<1>7. ASSUME NEW k \in DOMAIN fs
      PROVE  /\ s[k].h = fs[k].h /\ s[k].off = fs[k].off /\ s[k].len = fs[k].len
             /\ s[k].action = fs[k].action
             /\ s[k].state = IF fs[k].h \in hs THEN state ELSE fs[k].state
  BY <1>2, <1>3, <1>4
<1> QED BY <1>6, <1>7 DEF s, fs

\* What the encoder is given.
LEMMA ContentIs ==
    ASSUME TypeOK, NEW a \in DOMAIN info, NEW n \in Nat
    PROVE  Content(a, n) \in Contents
<1> DEFINE fs == info[a].fragments
           data == [k \in DOMAIN fs |-> [pkg |-> fs[k].pkg, off |-> fs[k].off, len |-> fs[k].len]]
           first == fs # <<>> /\ fs[1].off # 0
           more == fs # <<>> /\ Last(fs).off + Last(fs).len < Size[Last(fs).pkg]
<1>1. info[a] \in ActionInfo  BY DEF TypeOK
<1>2. fs \in Seq(Pointers) /\ info[a].link \in Links \union {NoLink}  BY <1>1 DEF ActionInfo
<1>3. DOMAIN fs = 1 .. Len(fs) /\ Len(fs) \in Nat /\ \A k \in DOMAIN fs : fs[k] \in Pointers
  BY <1>2, Elements
<1>4. data \in Seq(Pieces)
  <2>1. \A k \in DOMAIN fs : [pkg |-> fs[k].pkg, off |-> fs[k].off, len |-> fs[k].len] \in Pieces
    BY <1>3 DEF Pointers, Pieces
  <2>2. data \in [1 .. Len(fs) -> Pieces]  BY <1>3, <2>1
  <2>. QED BY <1>3, <2>2
<1>5. first \in BOOLEAN /\ more \in BOOLEAN  OBVIOUS
<1>6. Content(a, n) = [link |-> info[a].link, id |-> n, continueLast |-> first,
                       continueNext |-> more, data |-> data]
  BY DEF Content
<1> HIDE DEF fs, data, first, more
<1> QED BY <1>2, <1>4, <1>5, <1>6 DEF Contents

LEMMA TypeEncode == TypeInv /\ EncodeActions => TypeInv'
<1> SUFFICES ASSUME TypeInv, EncodeActions PROVE TypeInv'  OBVIOUS
<1> DEFINE due == {a \in DOMAIN info : /\ info[a].time >= nextEncodeTime
                                       /\ info[a].time <= now + MaxEncodingTime}
           later == {info[a].time : a \in {b \in DOMAIN info : /\ info[b].time >= nextEncodeTime
                                                               /\ info[b].time > now + MaxEncodingTime}}
           carrying(l) == {a \in due : info[a].fragments # <<>> /\ info[a].link = l}
           started == {a \in due : info[a].enc = "UNENCODED"}
           number(a) == LET l == info[a].link
                        IN  IF l \notin Links THEN 0
                            ELSE fragmentCount[l] + Cardinality({b \in carrying(l) : Before(info, b, a)})
           hs == UNION {HandlesOf(info[a].fragments) : a \in due}
           dueTimes == {info[a].time : a \in due}
<1>1. TypeOK /\ Whole(parts) /\ ActionsInTime /\ QueuesSorted /\ WireCarries  BY DEF TypeInv
<1>2. /\ info' = [a \in DOMAIN info |-> IF a \in started THEN [info[a] EXCEPT !.enc = "ENCODING"]
                                        ELSE info[a]]
      /\ encoder' = [a \in DOMAIN encoder \union started |->
                         IF a \in started THEN Content(a, number(a)) ELSE encoder[a]]
      /\ fragmentCount' = [l \in Links |-> fragmentCount[l] + Cardinality(carrying(l))]
      /\ parts' = [p \in Packages |-> SetState(p, hs, "ENCODING")]
      /\ lastEncodeTime' = IF due = {} THEN lastEncodeTime ELSE Max(dueTimes)
      /\ nextEncodeTime' = IF later = {} THEN Never ELSE Min(later) - MaxEncodingTime
      /\ UNCHANGED <<now, linkStatus, actionQueue, packageQueue, blocked, told, held, reports,
                     wire, receiveVars, spent>>
  BY Zenon DEF EncodeActions
<1>3. DOMAIN info \subseteq Actions /\ info \in [DOMAIN info -> ActionInfo]
      /\ due \subseteq DOMAIN info /\ started \subseteq due
  BY <1>1 DEF TypeOK
<1>4. later \subseteq Times /\ dueTimes \subseteq Times /\ (due # {} => dueTimes # {})
      /\ \A t \in later : t > now + MaxEncodingTime
  BY <1>3 DEF ActionInfo
<1>5. IsFiniteSet(due) /\ IsFiniteSet(dueTimes)
  <2>1. IsFiniteSet(due)
    <3> HIDE DEF due
    <3>. QED BY <1>3, FiniteActions
  <2> DEFINE f == [a \in due |-> info[a].time]
  <2>2. IsFiniteSet(DOMAIN f)  BY <2>1
  <2>3. {f[a] : a \in DOMAIN f} = dueTimes  OBVIOUS
  <2> HIDE DEF f
  <2>. QED BY <2>1, <2>2, <2>3, FiniteImage
<1>6. ASSUME NEW l \in Links, NEW S \in SUBSET carrying(l)
      PROVE  Cardinality(S) \in Nat
  <2>1. S \subseteq due  OBVIOUS
  <2> HIDE DEF due, carrying
  <2>. QED BY <1>5, <2>1, FS_Subset, FS_CardinalityType
<1>7. ASSUME NEW a \in started PROVE number(a) \in Nat
  <2> DEFINE l == info[a].link
             S == {b \in carrying(l) : Before(info, b, a)}
  <2>1. number(a) = IF l \notin Links THEN 0 ELSE fragmentCount[l] + Cardinality(S)  OBVIOUS
  <2>2. S \in SUBSET carrying(l)  OBVIOUS
  <2>3. fragmentCount \in [Links -> Nat]  BY <1>1 DEF TypeOK
  <2> HIDE DEF S, l, number, carrying
  <2>4. ASSUME l \in Links PROVE fragmentCount[l] + Cardinality(S) \in Nat
    <3>1. Cardinality(S) \in Nat  BY <1>6, <2>2, <2>4
    <3>. QED BY <2>3, <2>4, <3>1
  <2>. QED BY <2>1, <2>4
<1>8. fragmentCount' \in [Links -> Nat]
  <2>1. \A l \in Links : Cardinality(carrying(l)) \in Nat
    <3> HIDE DEF carrying
    <3>. QED BY <1>6
  <2> HIDE DEF carrying
  <2>. QED BY <1>1, <1>2, <2>1 DEF TypeOK
<1>9. lastEncodeTime' \in Times
  <2>1. ASSUME due # {} PROVE Max(dueTimes) \in Times
    <3>1. dueTimes \subseteq Nat /\ dueTimes # {}  BY <1>1, <1>4, <2>1, NumbersAre
    <3> HIDE DEF due, dueTimes
    <3>2. Max(dueTimes) \in dueTimes  BY <1>5, <3>1, MinMax
    <3>. QED BY <1>4, <3>2
  <2> HIDE DEF due, dueTimes
  <2>. QED BY <1>1, <1>2, <2>1 DEF TypeOK
<1>10. nextEncodeTime' \in Times
  <2>1. ASSUME later # {} PROVE Min(later) - MaxEncodingTime \in Times
    <3>1. later \subseteq Nat  BY <1>1, <1>4, NumbersAre
    <3> HIDE DEF later
    <3>2. Min(later) \in later  BY <2>1, <3>1, MinMax
    <3>3. Min(later) \in Times /\ Min(later) > now + MaxEncodingTime  BY <1>4, <3>2
    <3>. QED BY <1>1, <3>3, NumbersAre DEF Times
  <2> HIDE DEF later
  <2>. QED BY <1>1, <1>2, <2>1, NumbersAre
<1> HIDE DEF due, later, carrying, started, number, hs, dueTimes
<1>11. /\ DOMAIN info' = DOMAIN info /\ info' \in [DOMAIN info' -> ActionInfo]
       /\ \A a \in DOMAIN info : info'[a].time = info[a].time
  <2>1. ASSUME NEW a \in DOMAIN info
        PROVE  /\ [info[a] EXCEPT !.enc = "ENCODING"] \in ActionInfo
               /\ [info[a] EXCEPT !.enc = "ENCODING"].time = info[a].time
    <3>1. info[a] \in ActionInfo  BY <1>3
    <3>. QED BY <3>1 DEF ActionInfo, EncodingStates
  <2>2. \A a \in DOMAIN info : info[a] \in ActionInfo  BY <1>3
  <2>3. DOMAIN info' = DOMAIN info /\ \A a \in DOMAIN info :
            info'[a] = IF a \in started THEN [info[a] EXCEPT !.enc = "ENCODING"] ELSE info[a]
    BY <1>2
  <2>4. \A a \in DOMAIN info : info'[a] \in ActionInfo /\ info'[a].time = info[a].time
    BY <2>1, <2>2, <2>3
  <2>5. info' = [a \in DOMAIN info' |-> info'[a]]  BY <1>2
  <2>. QED BY <2>3, <2>4, <2>5
<1>12. DOMAIN encoder' \subseteq Actions /\ encoder' \in [DOMAIN encoder' -> Contents]
  <2>1. DOMAIN encoder \subseteq Actions /\ encoder \in [DOMAIN encoder -> Contents]  BY <1>1 DEF TypeOK
  <2>2. \A a \in started : Content(a, number(a)) \in Contents  BY <1>1, <1>3, <1>7, ContentIs
  <2>. QED BY <1>2, <1>3, <2>1, <2>2
<1>13. parts' \in [Packages -> Seq(Fragments)] /\ Whole(parts)'
  <2>1. \A p \in Packages :
          /\ SetState(p, hs, "ENCODING") \in Seq(Fragments)
          /\ DOMAIN SetState(p, hs, "ENCODING") = DOMAIN parts[p]
          /\ \A k \in DOMAIN parts[p] : /\ SetState(p, hs, "ENCODING")[k].off = parts[p][k].off
                                        /\ SetState(p, hs, "ENCODING")[k].len = parts[p][k].len
    BY <1>1, SetStateIs DEF FragmentStates
  <2>2. Whole(parts')  BY <1>1, <1>2, <2>1 DEF Whole
  <2>. QED BY <1>2, <2>1, <2>2 DEF Whole
<1>14. ActionsInTime' /\ QueuesSorted'
  <2>1. actionQueue' = actionQueue  BY <1>2
  <2>2. \A l \in Links : actionQueue[l] \in Seq(DOMAIN info) /\ Sorted(info', actionQueue[l])
    BY <1>1, <1>11, SortedSame DEF QueuesSorted
  <2>. QED BY <1>1, <1>11, <2>1, <2>2 DEF ActionsInTime, QueuesSorted
<1>15. TypeOK'
  BY <1>1, <1>2, <1>3, <1>8, <1>9, <1>10, <1>11, <1>12, <1>13 DEF TypeOK, receiveVars
<1>16. WireCarries'  BY <1>1, <1>2 DEF WireCarries
<1> QED BY <1>13, <1>14, <1>15, <1>16 DEF TypeInv

\* What holds of the actions still holds when none comes, goes or moves.
LEMMA SameActions ==
    ASSUME TypeInv, NEW i \in [DOMAIN info -> ActionInfo], info' = i,
           \A a \in DOMAIN info : i[a].time = info[a].time, actionQueue' = actionQueue
    PROVE  /\ DOMAIN info' = DOMAIN info /\ DOMAIN info' \subseteq Actions
           /\ info' \in [DOMAIN info' -> ActionInfo] /\ ActionsInTime' /\ QueuesSorted'
<1>1. DOMAIN info' = DOMAIN info /\ info' \in [DOMAIN info -> ActionInfo]  OBVIOUS
<1>2. \A l \in Links : actionQueue[l] \in Seq(DOMAIN info) /\ Sorted(info', actionQueue[l])
  BY SortedSame DEF TypeInv, QueuesSorted
<1>3. DOMAIN info \subseteq Actions /\ \A a \in DOMAIN info : info[a].time >= MaxEncodingTime
  BY DEF TypeInv, TypeOK, ActionsInTime
<1> QED BY <1>1, <1>2, <1>3 DEF ActionsInTime, QueuesSorted

\* Packages whose fragments change their states only.
LEMMA SameParts ==
    ASSUME TypeInv, NEW q, parts' = [p \in Packages |-> q[p]],
           \A p \in Packages :
               /\ q[p] \in Seq(Fragments) /\ DOMAIN q[p] \subseteq DOMAIN parts[p]
               /\ \A k \in DOMAIN q[p] : q[p][k].off = parts[p][k].off /\ q[p][k].len = parts[p][k].len
    PROVE  parts' \in [Packages -> Seq(Fragments)] /\ Whole(parts)'
<1>1. parts' \in [Packages -> Seq(Fragments)]  OBVIOUS
<1>2. \A p \in Packages : parts'[p] = q[p]  OBVIOUS
<1>3. \A p \in Packages : \A k \in DOMAIN parts[p] : parts[p][k].off + parts[p][k].len <= Size[p]
  BY DEF TypeInv, Whole
<1>4. \A p \in Packages : \A k \in DOMAIN parts'[p] : parts'[p][k].off + parts'[p][k].len <= Size[p]
  BY <1>2, <1>3
<1> QED BY <1>1, <1>4 DEF Whole

LEMMA TypeEncoded ==
    ASSUME TypeInv, NEW a \in Actions, OnBytesEncoded(a)
    PROVE  TypeInv'
<1>1. TypeOK /\ Whole(parts) /\ ActionsInTime /\ QueuesSorted /\ WireCarries  BY DEF TypeInv
<1>2. /\ a \in DOMAIN encoder /\ encoder' = Without(encoder, {a})
      /\ UNCHANGED <<now, linkStatus, actionQueue, nextEncodeTime, lastEncodeTime, packageQueue,
                     fragmentCount, blocked, told, reports, wire, receiveVars>>
  BY DEF OnBytesEncoded
<1>3. /\ DOMAIN encoder \subseteq Actions /\ encoder \in [DOMAIN encoder -> Contents]
      /\ DOMAIN held \subseteq Actions /\ held \in [DOMAIN held -> Contents]
      /\ info \in [DOMAIN info -> ActionInfo]
  BY <1>1 DEF TypeOK
<1>4. DOMAIN encoder' \subseteq Actions /\ encoder' \in [DOMAIN encoder' -> Contents]
  <2>1. /\ DOMAIN Without(encoder, {a}) \subseteq DOMAIN encoder
        /\ Without(encoder, {a}) \in [DOMAIN Without(encoder, {a}) -> Contents]
    BY <1>3 DEF Without
  <2>. QED BY <1>2, <1>3, <2>1
<1>5. CASE /\ held' = With(held, a, encoder[a])
           /\ info' = [info EXCEPT ![a].enc = "ENQUEUED"]
           /\ parts' = [p \in Packages |-> SetState(p, HandlesOf(info[a].fragments), "ENQUEUED")]
           /\ UNCHANGED spent
  <2>1. DOMAIN held' \subseteq Actions /\ held' \in [DOMAIN held' -> Contents]
    BY <1>2, <1>3, <1>5 DEF With
  <2> DEFINE i == [info EXCEPT ![a].enc = "ENQUEUED"]
             hs == HandlesOf(info[a].fragments)
             q == [p \in Packages |-> SetState(p, hs, "ENQUEUED")]
  <2>2. i \in [DOMAIN info -> ActionInfo] /\ \A b \in DOMAIN info : i[b].time = info[b].time
    <3>1. \A b \in DOMAIN info : info[b] \in ActionInfo  BY <1>3
    <3>2. a \in DOMAIN info => /\ [info[a] EXCEPT !.enc = "ENQUEUED"] \in ActionInfo
                               /\ [info[a] EXCEPT !.enc = "ENQUEUED"].time = info[a].time
      BY <3>1 DEF ActionInfo, EncodingStates
    <3>3. DOMAIN i = DOMAIN info /\ \A b \in DOMAIN info :
              i[b] = IF b = a THEN [info[a] EXCEPT !.enc = "ENQUEUED"] ELSE info[b]
      OBVIOUS
    <3>. QED BY <1>3, <3>1, <3>2, <3>3
  <2>3. info' = i /\ parts' = q  BY <1>5
  <2> HIDE DEF i, hs
  <2>4. /\ DOMAIN info' = DOMAIN info /\ DOMAIN info' \subseteq Actions
        /\ info' \in [DOMAIN info' -> ActionInfo] /\ ActionsInTime' /\ QueuesSorted'
    BY <1>2, <2>2, <2>3, SameActions
  <2>5. \A p \in Packages :
            /\ q[p] \in Seq(Fragments) /\ DOMAIN q[p] \subseteq DOMAIN parts[p]
            /\ \A k \in DOMAIN q[p] : q[p][k].off = parts[p][k].off /\ q[p][k].len = parts[p][k].len
    BY <1>1, SetStateIs DEF FragmentStates
  <2>6. parts' = [p \in Packages |-> q[p]]  BY <2>3
  <2> HIDE DEF q
  <2>7. parts' \in [Packages -> Seq(Fragments)] /\ Whole(parts)'  BY <2>5, <2>6, SameParts
  <2>8. TypeOK'  BY <1>1, <1>2, <1>4, <1>5, <2>1, <2>4, <2>7 DEF TypeOK, receiveVars
  <2>9. WireCarries'  BY <1>1, <1>2 DEF WireCarries
  <2>. QED BY <2>4, <2>7, <2>8, <2>9 DEF TypeInv
<1>6. CASE Spend("failures", MaxFailures) /\ UNCHANGED <<held, info, parts>>
  <2>1. spent' \in [Bounded -> Nat]  BY <1>1, <1>6, SpendIs DEF TypeOK, Bounded
  <2>2. TypeOK'  BY <1>1, <1>2, <1>3, <1>4, <1>6, <2>1 DEF TypeOK, receiveVars
  <2>3. Whole(parts)' /\ ActionsInTime' /\ QueuesSorted' /\ WireCarries'
    BY <1>1, <1>2, <1>6 DEF Whole, ActionsInTime, QueuesSorted, Sorted, Before, WireCarries
  <2>. QED BY <2>2, <2>3 DEF TypeInv
<1> QED BY <1>5, <1>6 DEF OnBytesEncoded

LEMMA TypeCreated ==
    ASSUME TypeInv, NEW l \in Links, OnLinkCreated(l)
    PROVE  TypeInv'
<1>1. TypeOK /\ Whole(parts) /\ ActionsInTime /\ QueuesSorted /\ WireCarries  BY DEF TypeInv
<1>2. linkStatus' \in [Links -> {"NONE", "LINK_CREATED", "LINK_DESTROYED"}]
  BY <1>1 DEF OnLinkCreated, TypeOK
<1>3. UNCHANGED <<now, actionVars, packageVars, held, reports, wire, receiveVars, spent>>
  BY DEF OnLinkCreated
<1>4. TypeOK'  BY <1>1, <1>2, <1>3 DEF TypeOK, actionVars, packageVars, receiveVars
<1>5. Whole(parts)' /\ ActionsInTime' /\ QueuesSorted' /\ WireCarries'
  BY <1>1, <1>3 DEF Whole, ActionsInTime, QueuesSorted, Sorted, Before, WireCarries, actionVars, packageVars
<1> QED BY <1>4, <1>5 DEF TypeInv

LEMMA TypeDestroyed ==
    ASSUME TypeInv, NEW l \in Links, OnLinkDestroyed(l)
    PROVE  TypeInv'
<1> DEFINE hit == ToSet(actionQueue[l])
           dropped == ToSet(packageQueue[l])
           i == [a \in DOMAIN info |-> IF a \in hit
                   THEN [info[a] EXCEPT !.enc = "UNENCODED", !.fragments = <<>>] ELSE info[a]]
           q == [p \in Packages |-> IF p \in dropped THEN <<>> ELSE parts[p]]
<1>1. TypeOK /\ Whole(parts) /\ ActionsInTime /\ QueuesSorted /\ WireCarries  BY DEF TypeInv
<1>2. /\ encoder' = Without(encoder, hit) /\ info' = i /\ parts' = q
      /\ told' = [p \in Packages |-> IF p \in dropped THEN Append(told[p], "PACKAGE_FAILED_GENERIC")
                                     ELSE told[p]]
      /\ packageQueue' = [packageQueue EXCEPT ![l] = <<>>]
      /\ actionQueue' = [actionQueue EXCEPT ![l] = <<>>]
      /\ linkStatus' = [linkStatus EXCEPT ![l] = "LINK_DESTROYED"]
      /\ blocked' = blocked \ {l}
      /\ UNCHANGED <<now, nextEncodeTime, lastEncodeTime, fragmentCount, held, reports, wire,
                     receiveVars, spent>>
  BY DEF OnLinkDestroyed
<1>3. DOMAIN info \subseteq Actions /\ info \in [DOMAIN info -> ActionInfo]
      /\ DOMAIN encoder \subseteq Actions /\ encoder \in [DOMAIN encoder -> Contents]
  BY <1>1 DEF TypeOK
<1>4. DOMAIN encoder' \subseteq Actions /\ encoder' \in [DOMAIN encoder' -> Contents]
  <2>1. /\ DOMAIN Without(encoder, hit) \subseteq DOMAIN encoder
        /\ Without(encoder, hit) \in [DOMAIN Without(encoder, hit) -> Contents]
    BY <1>3 DEF Without
  <2>. QED BY <1>2, <1>3, <2>1
<1>5. i \in [DOMAIN info -> ActionInfo] /\ \A a \in DOMAIN info : i[a].time = info[a].time
  <2>1. ASSUME NEW a \in DOMAIN info
        PROVE  /\ [info[a] EXCEPT !.enc = "UNENCODED", !.fragments = <<>>] \in ActionInfo
               /\ [info[a] EXCEPT !.enc = "UNENCODED", !.fragments = <<>>].time = info[a].time
    <3>1. info[a] \in ActionInfo /\ <<>> \in Seq(Pointers)  BY <1>3
    <3>. QED BY <3>1 DEF ActionInfo, EncodingStates
  <2>2. \A a \in DOMAIN info : info[a] \in ActionInfo  BY <1>3
  <2> HIDE DEF hit
  <2>. QED BY <2>1, <2>2
<1>6. \A p \in Packages : /\ q[p] \in Seq(Fragments) /\ DOMAIN q[p] \subseteq DOMAIN parts[p]
                          /\ \A k \in DOMAIN q[p] : q[p][k].off = parts[p][k].off
                                                    /\ q[p][k].len = parts[p][k].len
  <2>1. <<>> \in Seq(Fragments) /\ DOMAIN <<>> = {}  OBVIOUS
  <2> HIDE DEF dropped
  <2>. QED BY <1>1, <2>1 DEF TypeOK
<1>7. told' \in [Packages -> Seq(Statuses)]
  <2>1. \A p \in Packages : Append(told[p], "PACKAGE_FAILED_GENERIC") \in Seq(Statuses)
    BY <1>1 DEF TypeOK, Statuses
  <2> HIDE DEF dropped
  <2>. QED BY <1>1, <1>2, <2>1 DEF TypeOK
<1>8. parts' = [p \in Packages |-> q[p]]  BY <1>2
<1> HIDE DEF hit, dropped, i, q
<1>9. parts' \in [Packages -> Seq(Fragments)] /\ Whole(parts)'  BY <1>6, <1>8, SameParts
<1>10. /\ packageQueue' \in [Links -> Seq(Packages)] /\ actionQueue' \in [Links -> Seq(Actions)]
       /\ linkStatus' \in [Links -> {"NONE", "LINK_CREATED", "LINK_DESTROYED"}]
       /\ blocked' \subseteq Links
  BY <1>1, <1>2 DEF TypeOK
<1>11. DOMAIN info' = DOMAIN info /\ info' \in [DOMAIN info' -> ActionInfo] /\ ActionsInTime'
  <2>1. DOMAIN info' = DOMAIN info /\ info' \in [DOMAIN info' -> ActionInfo]  BY <1>2, <1>5
  <2>. QED BY <1>1, <1>2, <1>5, <2>1 DEF ActionsInTime
<1>12. QueuesSorted'
  <2>1. ASSUME NEW m \in Links
        PROVE  actionQueue'[m] \in Seq(DOMAIN info) /\ Sorted(info', actionQueue'[m])
    <3>1. CASE m = l
      <4>1. actionQueue'[m] = <<>>  BY <1>1, <1>2, <3>1 DEF TypeOK
      <4>. QED BY <4>1 DEF Sorted
    <3>2. CASE m # l
      <4>1. actionQueue'[m] = actionQueue[m]  BY <1>1, <1>2, <3>2 DEF TypeOK
      <4>2. actionQueue[m] \in Seq(DOMAIN info) /\ Sorted(info, actionQueue[m])  BY <1>1 DEF QueuesSorted
      <4>. QED BY <1>2, <1>5, <4>1, <4>2, SortedSame
    <3>. QED BY <3>1, <3>2
  <2>. QED BY <1>11, <2>1 DEF QueuesSorted
<1>13. TypeOK'
  BY <1>1, <1>2, <1>3, <1>4, <1>7, <1>9, <1>10, <1>11 DEF TypeOK, receiveVars
<1>14. WireCarries'  BY <1>1, <1>2 DEF WireCarries
<1> QED BY <1>9, <1>11, <1>12, <1>13, <1>14 DEF TypeInv

\* The wire changes at one link.
LEMMA WireIs ==
    ASSUME TypeOK, WireCarries, NEW l \in Links, NEW w \in Seq(Contents),
           \A k \in DOMAIN w : w[k].data # <<>>, wire' = [wire EXCEPT ![l] = w]
    PROVE  wire' \in [Links -> Seq(Contents)] /\ WireCarries'
BY DEF TypeOK, WireCarries

\* What is taken off the wire is content that carries something.
LEMMA HeadIs ==
    ASSUME TypeOK, WireCarries, NEW l \in Links, wire[l] # <<>>
    PROVE  /\ Head(wire[l]) \in Contents /\ Head(wire[l]).data # <<>>
           /\ Tail(wire[l]) \in Seq(Contents)
           /\ \A k \in DOMAIN Tail(wire[l]) : Tail(wire[l])[k].data # <<>>
<1> DEFINE w == wire[l]
           t == Tail(w)
<1>1. w \in Seq(Contents) /\ w # <<>> /\ \A k \in DOMAIN w : w[k].data # <<>>
  BY DEF TypeOK, WireCarries
<1> HIDE DEF w
<1>2. /\ Head(w) \in Contents /\ t \in Seq(Contents) /\ Len(t) = Len(w) - 1
      /\ \A k \in 1 .. Len(t) : t[k] = w[k + 1]
  BY <1>1, HeadTailProperties
<1>3. DOMAIN w = 1 .. Len(w) /\ Len(w) \in Nat /\ DOMAIN t = 1 .. Len(t) /\ Head(w) = w[1] /\ 1 \in DOMAIN w
  BY <1>1, <1>2, LenProperties, EmptySeq
<1> HIDE DEF t
<1>4. \A k \in DOMAIN t : t[k] = w[k + 1] /\ k + 1 \in DOMAIN w  BY <1>2, <1>3
<1> QED BY <1>1, <1>2, <1>3, <1>4 DEF t, w

LEMMA TypeReceive ==
    ASSUME TypeInv, NEW l \in Links, Receive(l)
    PROVE  TypeInv'
<1> DEFINE c == Head(wire[l])
           before == IF Joins(c, l) THEN pending[l] ELSE <<>>
           data == IF c.continueLast /\ before = <<>> THEN Tail(c.data) ELSE c.data
           packages == [k \in DOMAIN data |-> IF k = 1 THEN before \o <<data[1]>> ELSE <<data[k]>>]
           open == c.continueNext /\ data # <<>>
<1>1. TypeOK /\ Whole(parts) /\ ActionsInTime /\ QueuesSorted /\ WireCarries  BY DEF TypeInv
<1>2. /\ wire[l] # <<>> /\ wire' = [wire EXCEPT ![l] = Tail(@)]
      /\ last' = [last EXCEPT ![l] = c.id]
      /\ pending' = [pending EXCEPT ![l] = IF open THEN Last(packages) ELSE <<>>]
      /\ delivered' = delivered \union ToSet(IF open THEN Front(packages) ELSE packages)
      /\ UNCHANGED <<now, linkStatus, actionVars, packageVars, held, reports, spent>>
  BY Zenon DEF Receive
<1>3. /\ c \in Contents /\ c.data # <<>> /\ Tail(wire[l]) \in Seq(Contents)
      /\ \A k \in DOMAIN Tail(wire[l]) : Tail(wire[l])[k].data # <<>>
  BY <1>1, <1>2, HeadIs
<1> HIDE DEF c
<1>4. c.id \in Nat /\ c.data \in Seq(Pieces)  BY <1>3 DEF Contents
<1>5. before \in Seq(Pieces)  BY <1>1 DEF TypeOK
<1>6. data \in Seq(Pieces)  BY <1>3, <1>4, HeadTailProperties
<1> HIDE DEF before, data
<1>7. DOMAIN data = 1 .. Len(data) /\ Len(data) \in Nat /\ \A k \in DOMAIN data : data[k] \in Pieces
  BY <1>6, Elements
<1>8. packages \in Seq(Seq(Pieces)) /\ Len(packages) = Len(data)
  <2>1. \A x \in Pieces : <<x>> \in Seq(Pieces)  OBVIOUS
  <2>2. \A x \in Pieces : before \o <<x>> \in Seq(Pieces)  BY <1>5, <2>1, ConcatProperties
  <2>3. \A k \in DOMAIN data :
            (IF k = 1 THEN before \o <<data[1]>> ELSE <<data[k]>>) \in Seq(Pieces)
    BY <1>7, <2>1, <2>2
  <2>4. packages \in [1 .. Len(data) -> Seq(Pieces)]  BY <1>7, <2>3
  <2>. QED BY <1>7, <2>4
<1> HIDE DEF packages
<1>9. ASSUME open PROVE Last(packages) \in Seq(Pieces) /\ Front(packages) \in Seq(Seq(Pieces))
  <2>1. Len(packages) \in 1 .. Len(packages)  BY <1>6, <1>7, <1>8, <1>9, EmptySeq
  <2>2. \A k \in 1 .. Len(packages) : packages[k] \in Seq(Pieces)  BY <1>8, Elements
  <2>3. Front(packages) \in Seq(Seq(Pieces))
    <3> DEFINE n == Len(packages)
    <3>1. n - 1 \in Int /\ 1 \in Int /\ \A k \in 1 .. n - 1 : packages[k] \in Seq(Pieces)
      BY <2>1, <2>2
    <3> HIDE DEF n
    <3>2. SubSeq(packages, 1, n - 1) \in Seq(Seq(Pieces))  BY <3>1, SubSeqProperties
    <3>. QED BY <3>2 DEF Front, n
  <2>. QED BY <2>1, <2>2, <2>3 DEF Last
<1>10. pending' \in [Links -> Seq(Pieces)]
  <2>1. (IF open THEN Last(packages) ELSE <<>>) \in Seq(Pieces)  BY <1>9
  <2>. QED BY <1>1, <1>2, <2>1 DEF TypeOK
<1>11. delivered' \subseteq Seq(Pieces)
  <2> DEFINE s == IF open THEN Front(packages) ELSE packages
  <2>1. s \in Seq(Seq(Pieces))  BY <1>8, <1>9
  <2> HIDE DEF s
  <2>2. ToSet(s) \subseteq Seq(Pieces)  BY <2>1, Elements DEF ToSet
  <2>. QED BY <1>1, <1>2, <2>2 DEF TypeOK, s
<1>12. last' \in [Links -> Nat]  BY <1>1, <1>2, <1>4 DEF TypeOK
<1>13. wire' \in [Links -> Seq(Contents)] /\ WireCarries'
  <2>1. wire' = [wire EXCEPT ![l] = Tail(wire[l])]  BY <1>2
  <2>. QED BY <1>1, <1>3, <2>1, WireIs
<1>14. TypeOK'
  BY <1>1, <1>2, <1>10, <1>11, <1>12, <1>13 DEF TypeOK, actionVars, packageVars
<1>15. Whole(parts)' /\ ActionsInTime' /\ QueuesSorted'
  BY <1>1, <1>2 DEF Whole, ActionsInTime, QueuesSorted, Sorted, Before, actionVars, packageVars
<1> QED BY <1>13, <1>14, <1>15 DEF TypeInv

\* What is put on the wire behind what carries something carries something.
LEMMA AppendCarries ==
    ASSUME NEW v \in Seq(Contents), \A j \in DOMAIN v : v[j].data # <<>>,
           NEW x \in Contents, x.data # <<>>
    PROVE  Append(v, x) \in Seq(Contents) /\ \A j \in DOMAIN Append(v, x) : Append(v, x)[j].data # <<>>
<1> DEFINE y == Append(v, x)
<1>1. /\ y \in Seq(Contents) /\ DOMAIN y = 1 .. Len(v) + 1 /\ DOMAIN v = 1 .. Len(v) /\ Len(v) \in Nat
      /\ y[Len(v) + 1] = x /\ \A j \in 1 .. Len(v) : y[j] = v[j]
  BY AppendIs
<1> HIDE DEF y
<1>2. ASSUME NEW j \in DOMAIN y PROVE y[j].data # <<>>
  <2>1. CASE j = Len(v) + 1  BY <1>1, <2>1
  <2>2. CASE j # Len(v) + 1
    <3>1. j \in DOMAIN v  BY <1>1, <2>2
    <3>. QED BY <1>1, <3>1
  <2>. QED BY <2>1, <2>2
<1> QED BY <1>1, <1>2 DEF y

LEMMA TypeFault ==
    ASSUME TypeInv, NEW l \in Links, Fault(l)
    PROVE  TypeInv'
<1> DEFINE w == wire[l]
<1>1. TypeOK /\ Whole(parts) /\ ActionsInTime /\ QueuesSorted /\ WireCarries  BY DEF TypeInv
<1>2. PICK k \in DOMAIN w :
           \/ wire' = [wire EXCEPT ![l] = RemoveAt(w, k)]
           \/ wire' = [wire EXCEPT ![l] = Append(w, w[k])]
           \/ wire' = [wire EXCEPT ![l] = Append(RemoveAt(w, k), w[k])]
  BY DEF Fault
<1>3. Spend("faults", MaxFaults)
      /\ UNCHANGED <<now, linkStatus, actionVars, packageVars, held, reports, receiveVars>>
  BY DEF Fault
<1>4. w \in Seq(Contents) /\ \A j \in DOMAIN w : w[j].data # <<>>  BY <1>1 DEF TypeOK, WireCarries
<1> HIDE DEF w
<1>5. DOMAIN w = 1 .. Len(w) /\ Len(w) \in Nat /\ w[k] \in Contents /\ w[k].data # <<>>
  BY <1>4, Elements
<1>6. RemoveAt(w, k) \in Seq(Contents) /\ \A j \in DOMAIN RemoveAt(w, k) : RemoveAt(w, k)[j].data # <<>>
  <2>1. /\ RemoveAt(w, k) \in Seq(Contents) /\ DOMAIN RemoveAt(w, k) = 1 .. Len(w) - 1
        /\ \A j \in 1 .. Len(w) - 1 : RemoveAt(w, k)[j] = IF j <= k - 1 THEN w[j] ELSE w[j + 1]
    BY <1>4, <1>5, RemovedAt
  <2>2. \A j \in 1 .. Len(w) - 1 : j \in DOMAIN w /\ j + 1 \in DOMAIN w  BY <1>5
  <2>. QED BY <1>4, <2>1, <2>2
<1>7. ASSUME NEW v \in Seq(Contents), \A j \in DOMAIN v : v[j].data # <<>>
      PROVE  /\ Append(v, w[k]) \in Seq(Contents)
             /\ \A j \in DOMAIN Append(v, w[k]) : Append(v, w[k])[j].data # <<>>
  BY <1>5, <1>7, AppendCarries
<1>8. wire' \in [Links -> Seq(Contents)] /\ WireCarries'
  <2>1. CASE wire' = [wire EXCEPT ![l] = RemoveAt(w, k)]  BY <1>1, <1>6, <2>1, WireIs
  <2>2. CASE wire' = [wire EXCEPT ![l] = Append(w, w[k])]  BY <1>1, <1>4, <1>7, <2>2, WireIs
  <2>3. CASE wire' = [wire EXCEPT ![l] = Append(RemoveAt(w, k), w[k])]
    BY <1>1, <1>6, <1>7, <2>3, WireIs
  <2>. QED BY <1>2, <2>1, <2>2, <2>3
<1>9. spent' \in [Bounded -> Nat]  BY <1>1, <1>3, SpendIs DEF TypeOK, Bounded
<1>10. TypeOK'
  BY <1>1, <1>3, <1>8, <1>9 DEF TypeOK, actionVars, packageVars, receiveVars
<1>11. Whole(parts)' /\ ActionsInTime' /\ QueuesSorted'
  BY <1>1, <1>3 DEF Whole, ActionsInTime, QueuesSorted, Sorted, Before, actionVars, packageVars
<1> QED BY <1>8, <1>10, <1>11 DEF TypeInv

\* The first action of a timeline, and what its leaving does to a queue.
LEMMA FirstIs ==
    ASSUME NEW i, Timed(i), DOMAIN i # {}
    PROVE  LET a == InOrder(i, DOMAIN i)[1]
           IN  a \in DOMAIN i /\ \A b \in DOMAIN i \ {a} : Before(i, a, b)
<1> DEFINE s == InOrder(i, DOMAIN i)
           S == DOMAIN i
<1>1. /\ s \in Seq(S) /\ Sorted(i, s) /\ ToSet(s) = S
  <2>1. S \in SUBSET DOMAIN i  OBVIOUS
  <2>. QED BY <2>1, OrderLists
<1> HIDE DEF s
<1>2. DOMAIN s = 1 .. Len(s) /\ Len(s) \in Nat /\ \A k \in DOMAIN s : s[k] \in S
  BY <1>1, Elements
<1>3. 1 \in DOMAIN s  BY <1>1, <1>2 DEF ToSet
<1>4. ASSUME NEW b \in S \ {s[1]} PROVE Before(i, s[1], b)
  <2>1. PICK k \in DOMAIN s : s[k] = b  BY <1>1 DEF ToSet
  <2>2. 1 < k  BY <1>2, <1>4, <2>1
  <2>. QED BY <1>1, <1>3, <2>1, <2>2 DEF Sorted
<1> QED BY <1>2, <1>3, <1>4 DEF s

LEMMA PopIs ==
    ASSUME NEW i, Timed(i), NEW a \in DOMAIN i, \A b \in DOMAIN i \ {a} : Before(i, a, b),
           NEW q \in Seq(DOMAIN i), Sorted(i, q),
           NEW r, r = IF q # <<>> /\ Head(q) = a THEN Tail(q) ELSE q
    PROVE  r \in Seq(DOMAIN i \ {a}) /\ Sorted(i, r)
<1> DEFINE S == DOMAIN i
<1>1. DOMAIN q = 1 .. Len(q) /\ Len(q) \in Nat /\ \A k \in DOMAIN q : q[k] \in S
  BY Elements
<1>2. \A k \in DOMAIN q : 1 < k => q[k] # a
  <2>1. ASSUME NEW k \in DOMAIN q, 1 < k, q[k] = a PROVE FALSE
    <3>1. 1 \in DOMAIN q /\ q[1] \in S  BY <1>1
    <3>2. Before(i, q[1], a)  BY <2>1, <3>1 DEF Sorted
    <3>3. q[1] # a /\ Before(i, a, q[1])  BY <3>1, <3>2, BeforeOrders
    <3>. QED BY <3>1, <3>2, <3>3, BeforeOrders
  <2>. QED BY <2>1
<1>3. ASSUME NEW t \in Seq(S \ {a}), NEW d \in {0, 1}, Len(t) + d = Len(q),
             \A k \in 1 .. Len(t) : t[k] = q[k + d]
      PROVE  Sorted(i, t)
  <2>1. DOMAIN t = 1 .. Len(t) /\ Len(t) \in Nat  BY <1>3, Elements
  <2>2. ASSUME NEW j \in DOMAIN t, NEW k \in DOMAIN t, j < k PROVE Before(i, t[j], t[k])
    <3>1. j + d \in DOMAIN q /\ k + d \in DOMAIN q /\ j + d < k + d  BY <1>1, <1>3, <2>1, <2>2
    <3>2. Before(i, q[j + d], q[k + d])  BY <3>1 DEF Sorted
    <3>. QED BY <1>3, <2>1, <2>2, <3>2
  <2>. QED BY <2>2 DEF Sorted
<1>4. CASE q # <<>> /\ Head(q) = a
  <2> DEFINE t == Tail(q)
  <2>1. t \in Seq(S) /\ Len(t) = Len(q) - 1 /\ \A k \in 1 .. Len(t) : t[k] = q[k + 1]
    BY <1>4, HeadTailProperties
  <2> HIDE DEF t
  <2>2. DOMAIN t = 1 .. Len(t) /\ Len(t) \in Nat  BY <2>1, Elements
  <2>3. \A k \in 1 .. Len(t) : k + 1 \in DOMAIN q /\ 1 < k + 1  BY <1>1, <2>1, <2>2
  <2>4. \A k \in 1 .. Len(t) : t[k] \in S \ {a}  BY <1>1, <1>2, <2>1, <2>3
  <2>5. t \in Seq(S \ {a})
    <3>1. t = [k \in 1 .. Len(t) |-> t[k]]  BY <2>1, <2>2
    <3> HIDE DEF S
    <3>2. t \in [1 .. Len(t) -> S \ {a}]  BY <2>4, <3>1
    <3>. QED BY <2>2, <3>2
  <2>6. Len(t) + 1 = Len(q)  BY <1>1, <2>1, <2>2
  <2>7. Sorted(i, t)  BY <1>3, <2>1, <2>5, <2>6
  <2>. QED BY <1>4, <2>5, <2>7 DEF t
<1>5. CASE ~(q # <<>> /\ Head(q) = a)
  <2>1. r = q  BY <1>5
  <2>2. \A k \in DOMAIN q : q[k] # a
    <3>1. ASSUME NEW k \in DOMAIN q, q[k] = a PROVE FALSE
      <4>1. k = 1  BY <1>1, <1>2, <3>1
      <4>2. q # <<>>  BY <1>1, <4>1, EmptySeq
      <4>3. Head(q) = q[1]  BY <4>2
      <4>. QED BY <1>5, <3>1, <4>1, <4>2, <4>3
    <3>. QED BY <3>1
  <2>3. q \in Seq(S \ {a})
    <3>1. q = [k \in 1 .. Len(q) |-> q[k]]  BY <1>1
    <3>2. \A k \in 1 .. Len(q) : q[k] \in S \ {a}  BY <1>1, <2>2
    <3> HIDE DEF S
    <3>3. q \in [1 .. Len(q) -> S \ {a}]  BY <3>1, <3>2
    <3>. QED BY <1>1, <3>3
  <2>. QED BY <2>1, <2>3
<1> QED BY <1>4, <1>5

\* A package whose fragments were done with.
DoneParts(hs) ==
    [p \in Packages |->
        [k \in DOMAIN parts[p] |->
            IF parts[p][k].h \in hs
            THEN [parts[p][k] EXCEPT !.state = "DONE", !.action = NoAction] ELSE parts[p][k]]]

LEMMA DoneIs ==
    ASSUME TypeOK, NEW hs, NEW p \in Packages
    PROVE  /\ DoneParts(hs)[p] \in Seq(Fragments) /\ DOMAIN DoneParts(hs)[p] = DOMAIN parts[p]
           /\ Len(DoneParts(hs)[p]) = Len(parts[p])
           /\ \A k \in DOMAIN parts[p] :
                 LET f == parts[p][k]
                     g == DoneParts(hs)[p][k]
                 IN  /\ g.h = f.h /\ g.off = f.off /\ g.len = f.len
                     /\ g.action = IF f.h \in hs THEN NoAction ELSE f.action
                     /\ g.state = IF f.h \in hs THEN "DONE" ELSE f.state
<1> DEFINE fs == parts[p]
           s == DoneParts(hs)[p]
           new(f) == [f EXCEPT !.state = "DONE", !.action = NoAction]
<1>1. fs \in Seq(Fragments)  BY DEF TypeOK
<1>2. DOMAIN fs = 1 .. Len(fs) /\ Len(fs) \in Nat /\ \A k \in DOMAIN fs : fs[k] \in Fragments
  BY <1>1, Elements
<1>3. s = [k \in DOMAIN fs |-> IF fs[k].h \in hs THEN new(fs[k]) ELSE fs[k]]  BY DEF DoneParts
<1>4. ASSUME NEW f \in Fragments
      PROVE  /\ new(f) \in Fragments /\ new(f).h = f.h /\ new(f).off = f.off /\ new(f).len = f.len
             /\ new(f).action = NoAction /\ new(f).state = "DONE"
  BY DEF Fragments, FragmentStates
<1> HIDE DEF s, fs, new
<1>5. s \in [1 .. Len(fs) -> Fragments]  BY <1>2, <1>3, <1>4
<1>6. s \in Seq(Fragments) /\ DOMAIN s = DOMAIN fs /\ Len(s) = Len(fs)  BY <1>2, <1>5
<1>7. ASSUME NEW k \in DOMAIN fs
      PROVE  /\ s[k].h = fs[k].h /\ s[k].off = fs[k].off /\ s[k].len = fs[k].len
             /\ s[k].action = IF fs[k].h \in hs THEN NoAction ELSE fs[k].action
             /\ s[k].state = IF fs[k].h \in hs THEN "DONE" ELSE fs[k].state
  BY <1>2, <1>3, <1>4
<1> QED BY <1>6, <1>7 DEF s, fs

\* The action that is done, and its reports.
FirstAction == InOrder(info, DOMAIN info)[1]
Popped(l) ==
    IF actionQueue[l] # <<>> /\ Head(actionQueue[l]) = FirstAction THEN Tail(actionQueue[l])
    ELSE actionQueue[l]
ReportsOf(fs, sent) ==
    [k \in DOMAIN fs |-> <<fs[k].h, IF sent THEN "PACKAGE_SENT" ELSE "PACKAGE_FAILED_GENERIC">>]

LEMMA DoIs ==
    ASSUME DoAction
    PROVE  LET a == FirstAction
               fs == info[a].fragments
           IN  /\ info # <<>> /\ now >= info[a].time
               /\ \E sent \in BOOLEAN :
                      /\ sent => a \in DOMAIN held
                      /\ IF sent \/ a \notin DOMAIN held THEN UNCHANGED spent
                         ELSE Spend("failures", MaxFailures)
                      /\ reports' = reports \o ReportsOf(fs, sent)
                      /\ wire' = IF sent /\ held[a].data # <<>>
                                 THEN [wire EXCEPT ![held[a].link] = Append(@, held[a])] ELSE wire
               /\ held' = Without(held, {a}) /\ encoder' = Without(encoder, {a})
               /\ info' = Without(info, {a})
               /\ actionQueue' = [l \in Links |-> Popped(l)]
               /\ parts' = DoneParts(HandlesOf(fs))
               /\ UNCHANGED <<now, linkStatus, nextEncodeTime, lastEncodeTime, packageQueue,
                              fragmentCount, blocked, told, receiveVars>>
BY Zenon DEF DoAction, FirstAction, Popped, ReportsOf, DoneParts

LEMMA FirstActionIs ==
    ASSUME TypeOK, info # <<>>
    PROVE  FirstAction \in DOMAIN info /\ \A b \in DOMAIN info \ {FirstAction} : Before(info, FirstAction, b)
<1>1. Timed(info)  BY TimelineIs DEF TypeOK
<1>2. DOMAIN info # {}
  <2>1. ASSUME DOMAIN info = {} PROVE info = <<>>
    <3>1. info = [a \in DOMAIN info |-> info[a]]  BY DEF TypeOK
    <3>2. <<>> = [a \in {} |-> info[a]]  OBVIOUS
    <3>. QED BY <2>1, <3>1, <3>2
  <2>. QED BY <2>1
<1> QED BY <1>1, <1>2, FirstIs DEF FirstAction

LEMMA TypeDo == TypeInv /\ DoAction => TypeInv'
<1> SUFFICES ASSUME TypeInv, DoAction PROVE TypeInv'  OBVIOUS
<1> DEFINE a == FirstAction
           fs == info[a].fragments
           D == DOMAIN info \ {a}
           q == DoneParts(HandlesOf(fs))
<1>1. TypeOK /\ Whole(parts) /\ ActionsInTime /\ QueuesSorted /\ WireCarries  BY DEF TypeInv
<1>2. /\ info # <<>>
      /\ \E sent \in BOOLEAN :
             /\ sent => a \in DOMAIN held
             /\ IF sent \/ a \notin DOMAIN held THEN UNCHANGED spent
                ELSE Spend("failures", MaxFailures)
             /\ reports' = reports \o ReportsOf(fs, sent)
             /\ wire' = IF sent /\ held[a].data # <<>>
                        THEN [wire EXCEPT ![held[a].link] = Append(@, held[a])] ELSE wire
      /\ held' = Without(held, {a}) /\ encoder' = Without(encoder, {a})
      /\ info' = Without(info, {a})
      /\ actionQueue' = [l \in Links |-> Popped(l)]
      /\ parts' = q
      /\ UNCHANGED <<now, linkStatus, nextEncodeTime, lastEncodeTime, packageQueue,
                     fragmentCount, blocked, told, receiveVars>>
  BY DoIs
<1>3. PICK sent \in BOOLEAN :
          /\ sent => a \in DOMAIN held
          /\ IF sent \/ a \notin DOMAIN held THEN UNCHANGED spent
             ELSE Spend("failures", MaxFailures)
          /\ reports' = reports \o ReportsOf(fs, sent)
          /\ wire' = IF sent /\ held[a].data # <<>>
                     THEN [wire EXCEPT ![held[a].link] = Append(@, held[a])] ELSE wire
  BY <1>2
<1>4. a \in DOMAIN info /\ \A b \in DOMAIN info \ {a} : Before(info, a, b)
  BY <1>1, <1>2, FirstActionIs
<1> HIDE DEF a, q
<1>5. DOMAIN info \subseteq Actions /\ info \in [DOMAIN info -> ActionInfo] /\ info[a] \in ActionInfo
  BY <1>1, <1>4 DEF TypeOK
<1>6. /\ DOMAIN info' = D /\ info' \in [D -> ActionInfo]
      /\ \A b \in D : info'[b] = info[b]
  BY <1>2, <1>5 DEF Without
<1>7. ActionsInTime'  BY <1>1, <1>6 DEF ActionsInTime
<1>8. ASSUME NEW l \in Links
      PROVE  /\ Popped(l) \in Seq(D) /\ Popped(l) \in Seq(Actions) /\ Sorted(info', Popped(l))
  <2>1. Timed(info)  BY <1>1, <1>5, TimelineIs
  <2>2. actionQueue[l] \in Seq(DOMAIN info) /\ Sorted(info, actionQueue[l])  BY <1>1 DEF QueuesSorted
  <2>3. Popped(l) = IF actionQueue[l] # <<>> /\ Head(actionQueue[l]) = a THEN Tail(actionQueue[l])
                    ELSE actionQueue[l]
    BY DEF Popped, a
  <2>4. Popped(l) \in Seq(D) /\ Sorted(info, Popped(l))  BY <1>4, <2>1, <2>2, <2>3, PopIs
  <2>5. Popped(l) \in Seq(Actions)
    <3>1. Popped(l) \in [1 .. Len(Popped(l)) -> D] /\ Len(Popped(l)) \in Nat  BY <2>4, Elements
    <3>. QED BY <1>5, <3>1
  <2>. QED BY <1>6, <2>4, <2>5, SortedSame
<1>9. actionQueue' \in [Links -> Seq(Actions)] /\ QueuesSorted'
  <2>1. \A l \in Links : actionQueue'[l] = Popped(l)  BY <1>2
  <2>. QED BY <1>2, <1>6, <1>8, <2>1 DEF QueuesSorted
<1>10. parts' \in [Packages -> Seq(Fragments)] /\ Whole(parts)'
  <2>1. \A p \in Packages :
            /\ q[p] \in Seq(Fragments) /\ DOMAIN q[p] \subseteq DOMAIN parts[p]
            /\ \A k \in DOMAIN q[p] : q[p][k].off = parts[p][k].off /\ q[p][k].len = parts[p][k].len
    BY <1>1, DoneIs DEF q
  <2>2. parts' = [p \in Packages |-> q[p]]  BY <1>2 DEF q, DoneParts
  <2>. QED BY <2>1, <2>2, SameParts
<1>11. \A c \in {encoder', held'} : DOMAIN c \subseteq Actions /\ c \in [DOMAIN c -> Contents]
  BY <1>1, <1>2 DEF TypeOK, Without
<1>12. reports' \in Seq(Handles \X Statuses)
  <2>1. fs \in Seq(Pointers)  BY <1>5 DEF ActionInfo
  <2> HIDE DEF fs
  <2>2. DOMAIN fs = 1 .. Len(fs) /\ Len(fs) \in Nat /\ \A k \in DOMAIN fs : fs[k].h \in Handles
    <3>1. DOMAIN fs = 1 .. Len(fs) /\ Len(fs) \in Nat /\ \A k \in DOMAIN fs : fs[k] \in Pointers
      BY <2>1, Elements
    <3>. QED BY <3>1 DEF Pointers
  <2>3. ReportsOf(fs, sent) \in [1 .. Len(fs) -> Handles \X Statuses]
    BY <2>2 DEF ReportsOf, Statuses
  <2>4. ReportsOf(fs, sent) \in Seq(Handles \X Statuses)  BY <2>2, <2>3
  <2>. QED BY <1>1, <1>3, <2>4, ConcatProperties DEF TypeOK
<1>13. wire' \in [Links -> Seq(Contents)] /\ WireCarries'
  <2>1. CASE sent /\ held[a].data # <<>>
    <3> DEFINE c == held[a]
    <3>1. c \in Contents /\ c.data # <<>> /\ wire' = [wire EXCEPT ![c.link] = Append(wire[c.link], c)]
      BY <1>1, <1>3, <2>1 DEF TypeOK
    <3> HIDE DEF c
    <3>2. CASE c.link \in Links
      <4>1. wire[c.link] \in Seq(Contents) /\ \A j \in DOMAIN wire[c.link] : wire[c.link][j].data # <<>>
        BY <1>1, <3>2 DEF TypeOK, WireCarries
      <4>2. /\ Append(wire[c.link], c) \in Seq(Contents)
            /\ \A j \in DOMAIN Append(wire[c.link], c) : Append(wire[c.link], c)[j].data # <<>>
        BY <3>1, <4>1, AppendCarries
      <4>. QED BY <1>1, <3>1, <3>2, <4>2, WireIs
    <3>3. CASE c.link \notin Links
      <4>1. wire' = wire  BY <1>1, <3>1, <3>3 DEF TypeOK
      <4>. QED BY <1>1, <4>1 DEF TypeOK, WireCarries
    <3>. QED BY <3>2, <3>3
  <2>2. CASE ~(sent /\ held[a].data # <<>>)
    <3>1. wire' = wire  BY <1>3, <2>2
    <3>. QED BY <1>1, <3>1 DEF TypeOK, WireCarries
  <2>. QED BY <2>1, <2>2
<1>14. spent' \in [Bounded -> Nat]  BY <1>1, <1>3, SpendIs DEF TypeOK, Bounded
<1>15. TypeOK'
  BY <1>1, <1>2, <1>5, <1>6, <1>9, <1>10, <1>11, <1>12, <1>13, <1>14 DEF TypeOK, receiveVars
<1> QED BY <1>7, <1>9, <1>10, <1>13, <1>15 DEF TypeInv

\* The package a report is about, and what remains to be planned once it is finished.
Updated(p) ==
    SetState(p, {Head(reports)[1]}, IF Head(reports)[2] = "PACKAGE_SENT" THEN "SENT" ELSE "FAILED")
Open(fs) == {k \in DOMAIN fs : fs[k].action # NoAction}
Freed(fs) == {fs[k].action : k \in {j \in Open(fs) : fs[j].state = "UNENCODED"}}
FreedTimeline(freed) ==
    [a \in DOMAIN info |-> IF a \in freed THEN [info[a] EXCEPT !.fragments = <<>>] ELSE info[a]]
Rest(p, freed) == [info |-> FreedTimeline(freed), parts |-> [parts EXCEPT ![p] = <<>>], full |-> {}]
Replanned(p, freed) ==
    generateFragmentsForAllPackages(Rest(p, freed), UNION {HandlesOf(info[a].fragments) : a \in freed},
                                    actionQueue, Dequeued(p))

LEMMA StatusIs ==
    ASSUME OnPackageStatusChanged
    PROVE  /\ reports # <<>> /\ reports' = Tail(reports)
           /\ \/ UNCHANGED <<info, parts, packageQueue, told, blocked>>
              \/ \E p \in Packages :
                    /\ ~Finished(p, Updated(p))
                    /\ parts' = [parts EXCEPT ![p] = Updated(p)]
                    /\ UNCHANGED <<info, packageQueue, told, blocked>>
              \/ \E p \in Packages :
                    LET freed == Freed(Updated(p)) IN
                    /\ Finished(p, Updated(p))
                    /\ \E k \in DOMAIN parts[p] :
                           parts[p][k].h = Head(reports)[1] /\ parts[p][k].state \notin {"SENT", "FAILED"}
                    /\ Careful => \A k \in Open(Updated(p)) : Updated(p)[k].state = "UNENCODED"
                    /\ told' = [told EXCEPT ![p] = Append(@, Head(reports)[2])]
                    /\ packageQueue' = Dequeued(p)
                    /\ IF freed = {} THEN /\ info' = Rest(p, freed).info /\ parts' = Rest(p, freed).parts
                                          /\ UNCHANGED blocked
                       ELSE /\ info' = Replanned(p, freed).info /\ parts' = Replanned(p, freed).parts
                            /\ blocked' = StillBlocked(Replanned(p, freed))
           /\ UNCHANGED <<now, linkStatus, actionQueue, nextEncodeTime, lastEncodeTime,
                          fragmentCount, encoder, held, wire, receiveVars, spent>>
BY Zenon DEF OnPackageStatusChanged, Updated, Open, Freed, FreedTimeline, Rest, Replanned

LEMMA HeadOfReports ==
    ASSUME TypeOK, reports # <<>>
    PROVE  Head(reports)[1] \in Handles /\ Head(reports)[2] \in Statuses
           /\ Tail(reports) \in Seq(Handles \X Statuses)
<1>1. reports \in Seq(Handles \X Statuses)  BY DEF TypeOK
<1>2. Head(reports) \in Handles \X Statuses /\ Tail(reports) \in Seq(Handles \X Statuses)
  BY <1>1, HeadTailProperties
<1> QED BY <1>2

LEMMA RestIs ==
    ASSUME TypeInv, NEW p \in Packages, NEW freed
    PROVE  /\ Rest(p, freed) \in SameTimes(DOMAIN info, info)
           /\ Rest(p, freed) = [info |-> FreedTimeline(freed), parts |-> [parts EXCEPT ![p] = <<>>], full |-> {}]
<1> DEFINE i == FreedTimeline(freed)
           q == [parts EXCEPT ![p] = <<>>]
<1>1. /\ info \in [DOMAIN info -> ActionInfo] /\ parts \in [Packages -> Seq(Fragments)] /\ Whole(parts)
  BY DEF TypeInv, TypeOK
<1>2. Rest(p, freed) = [info |-> i, parts |-> q, full |-> {}]  BY DEF Rest
<1>3. i \in [DOMAIN info -> ActionInfo]
      /\ \A a \in DOMAIN info : i[a].time = info[a].time /\ i[a].enc = info[a].enc
  <2>1. ASSUME NEW a \in DOMAIN info
        PROVE  /\ [info[a] EXCEPT !.fragments = <<>>] \in ActionInfo
               /\ [info[a] EXCEPT !.fragments = <<>>].time = info[a].time
               /\ [info[a] EXCEPT !.fragments = <<>>].enc = info[a].enc
    <3>1. info[a] \in ActionInfo /\ <<>> \in Seq(Pointers)  BY <1>1
    <3>. QED BY <3>1 DEF ActionInfo
  <2>2. \A a \in DOMAIN info : info[a] \in ActionInfo  BY <1>1
  <2>. QED BY <2>1, <2>2 DEF FreedTimeline
<1>4. q \in [Packages -> Seq(Fragments)] /\ Whole(q)
  <2>1. <<>> \in Seq(Fragments) /\ DOMAIN <<>> = {}  OBVIOUS
  <2>2. q \in [Packages -> Seq(Fragments)]  BY <1>1, <2>1
  <2>3. \A r \in Packages : q[r] = IF r = p THEN <<>> ELSE parts[r]  BY <1>1
  <2> HIDE DEF q
  <2>4. ASSUME NEW r \in Packages, NEW k \in DOMAIN q[r] PROVE q[r][k].off + q[r][k].len <= Size[r]
    <3>1. q[r] = parts[r]  BY <2>1, <2>3, <2>4
    <3>. QED BY <1>1, <2>4, <3>1 DEF Whole
  <2>. QED BY <2>2, <2>4 DEF Whole
<1> HIDE DEF i, q
<1> DEFINE R == Rest(p, freed)
<1>5. R = [info |-> i, parts |-> q, full |-> {}]  BY <1>2
<1> HIDE DEF R
<1>6. R \in GoodPlans(DOMAIN info)  BY <1>3, <1>4, <1>5 DEF GoodPlans, PlansOf
<1>7. R \in SameTimes(DOMAIN info, info)  BY <1>3, <1>5, <1>6 DEF SameTimes
<1> QED BY <1>5, <1>7 DEF i, q, R

LEMMA TypeStatus == TypeInv /\ OnPackageStatusChanged => TypeInv'
<1> SUFFICES ASSUME TypeInv, OnPackageStatusChanged PROVE TypeInv'  OBVIOUS
<1>1. TypeOK /\ Whole(parts) /\ ActionsInTime /\ QueuesSorted /\ WireCarries  BY DEF TypeInv
<1>2. /\ reports # <<>> /\ reports' = Tail(reports)
      /\ UNCHANGED <<now, linkStatus, actionQueue, nextEncodeTime, lastEncodeTime,
                     fragmentCount, encoder, held, wire, receiveVars, spent>>
  BY StatusIs
<1>3. /\ reports' \in Seq(Handles \X Statuses) /\ reports \in Seq(Handles \X Statuses)
      /\ Head(reports)[2] \in Statuses
  BY <1>1, <1>2, HeadOfReports DEF TypeOK
<1>4. WireCarries'  BY <1>1, <1>2 DEF WireCarries
<1>5. CASE UNCHANGED <<info, parts, packageQueue, told, blocked>>
  <2>1. TypeOK'  BY <1>1, <1>2, <1>3, <1>5 DEF TypeOK, receiveVars
  <2>2. Whole(parts)' /\ ActionsInTime' /\ QueuesSorted'
    BY <1>1, <1>2, <1>5 DEF Whole, ActionsInTime, QueuesSorted, Sorted, Before
  <2>. QED BY <1>4, <2>1, <2>2 DEF TypeInv
<1>6. ASSUME NEW p \in Packages, parts' = [parts EXCEPT ![p] = Updated(p)],
             UNCHANGED <<info, packageQueue, told, blocked>>
      PROVE  TypeInv'
  <2> DEFINE q == [r \in Packages |-> IF r = p THEN Updated(p) ELSE parts[r]]
  <2>1. /\ Updated(p) \in Seq(Fragments) /\ DOMAIN Updated(p) = DOMAIN parts[p]
        /\ \A k \in DOMAIN parts[p] : /\ Updated(p)[k].off = parts[p][k].off
                                      /\ Updated(p)[k].len = parts[p][k].len
    <3>1. (IF Head(reports)[2] = "PACKAGE_SENT" THEN "SENT" ELSE "FAILED") \in FragmentStates
      BY DEF FragmentStates
    <3>. QED BY <1>1, <3>1, SetStateIs DEF Updated
  <2>2. parts \in [Packages -> Seq(Fragments)]  BY <1>1 DEF TypeOK
  <2>3. \A r \in Packages :
            /\ q[r] \in Seq(Fragments) /\ DOMAIN q[r] \subseteq DOMAIN parts[r]
            /\ \A k \in DOMAIN q[r] : q[r][k].off = parts[r][k].off /\ q[r][k].len = parts[r][k].len
    BY <2>1, <2>2
  <2>4. parts' = [r \in Packages |-> q[r]]  BY <1>6, <2>2
  <2> HIDE DEF q
  <2>5. parts' \in [Packages -> Seq(Fragments)] /\ Whole(parts)'  BY <2>3, <2>4, SameParts
  <2>6. TypeOK'  BY <1>1, <1>2, <1>3, <1>6, <2>5 DEF TypeOK, receiveVars
  <2>7. ActionsInTime' /\ QueuesSorted'
    BY <1>1, <1>2, <1>6 DEF ActionsInTime, QueuesSorted, Sorted, Before
  <2>. QED BY <1>4, <2>5, <2>6, <2>7 DEF TypeInv
<1>7. ASSUME NEW p \in Packages, NEW freed,
             told' = [told EXCEPT ![p] = Append(@, Head(reports)[2])],
             packageQueue' = Dequeued(p),
             IF freed = {} THEN /\ info' = Rest(p, freed).info /\ parts' = Rest(p, freed).parts
                                /\ UNCHANGED blocked
             ELSE /\ info' = Replanned(p, freed).info /\ parts' = Replanned(p, freed).parts
                  /\ blocked' = StillBlocked(Replanned(p, freed))
      PROVE  TypeInv'
  <2> DEFINE D == DOMAIN info
             e == IF freed = {} THEN Rest(p, freed) ELSE Replanned(p, freed)
  <2>1. D \subseteq Actions /\ info \in [D -> ActionInfo] /\ \A a \in D : info[a].time >= MaxEncodingTime
    BY <1>1 DEF TypeOK, ActionsInTime
  <2>2. actionQueue \in [Links -> Seq(D)] /\ \A l \in Links : Sorted(info, actionQueue[l])
    BY <1>1 DEF TypeOK, QueuesSorted
  <2>3. packageQueue' \in [Links -> Seq(Packages)]
    <3>1. packageQueue \in [Links -> Seq(Packages)] /\ Route[p] \in Links
      BY <1>1, PackagesAssumption DEF TypeOK
    <3>2. RemoveFirst(packageQueue[Route[p]], p) \in Seq(Packages)  BY <3>1, RemoveFirstIs
    <3>. QED BY <1>7, <3>1, <3>2 DEF Dequeued
  <2>4. Rest(p, freed) \in SameTimes(D, info)  BY RestIs
  <2>5. Replanned(p, freed) \in SameTimes(D, info)
    <3>1. Rest(p, freed) \in GoodPlans(D) /\ \A a \in D : Rest(p, freed).info[a].time = info[a].time
                                                          /\ Rest(p, freed).info[a].enc = info[a].enc
      BY <2>4, PlanParts
    <3>2. Replanned(p, freed) \in SameTimes(D, Rest(p, freed).info)
      <4> DEFINE R == Rest(p, freed)
                 marked == UNION {HandlesOf(info[a].fragments) : a \in freed}
      <4>1. Replanned(p, freed) = generateFragmentsForAllPackages(R, marked, actionQueue, Dequeued(p))
        BY DEF Replanned
      <4>2. Dequeued(p) \in [Links -> Seq(Packages)]  BY <1>7, <2>3
      <4> HIDE DEF R, marked, D
      <4>3. generateFragmentsForAllPackages(R, marked, actionQueue, Dequeued(p)) \in SameTimes(D, R.info)
        BY <1>3, <2>1, <2>2, <3>1, <4>2, AllPlanned DEF R
      <4>. QED BY <4>1, <4>3 DEF R
    <3>. QED BY <3>1, <3>2 DEF SameTimes
  <2>6. e \in SameTimes(D, info) /\ info' = e.info /\ parts' = e.parts
    BY <1>7, <2>4, <2>5
  <2>7. blocked' \subseteq Links  BY <1>1, <1>7 DEF StillBlocked, TypeOK
  <2>8. told' \in [Packages -> Seq(Statuses)]
    <3>1. told \in [Packages -> Seq(Statuses)]  BY <1>1 DEF TypeOK
    <3>2. Append(told[p], Head(reports)[2]) \in Seq(Statuses)  BY <1>3, <3>1, AppendIs
    <3>. QED BY <1>7, <3>1, <3>2
  <2> HIDE DEF e, D
  <2>9. actionQueue' = actionQueue  BY <1>2
  <2>10. /\ DOMAIN info' = D /\ info' \in [DOMAIN info' -> ActionInfo]
         /\ parts' \in [Packages -> Seq(Fragments)] /\ actionQueue' \in [Links -> Seq(Actions)]
         /\ Whole(parts)' /\ ActionsInTime' /\ QueuesSorted'
    BY <2>1, <2>2, <2>6, <2>9, PlannedTypes
  <2>11. TypeOK'
    BY <1>1, <1>2, <1>3, <2>1, <2>3, <2>7, <2>8, <2>10 DEF TypeOK, receiveVars
  <2>. QED BY <1>4, <2>10, <2>11 DEF TypeInv
<1> QED BY <1>5, <1>6, <1>7, StatusIs

LEMMA TypeKept == TypeInv /\ [Next]_vars => TypeInv'
<1> SUFFICES ASSUME TypeInv, [Next]_vars PROVE TypeInv'  OBVIOUS
<1>1. CASE Tick  BY <1>1, TypeTick
<1>2. CASE FetchTimeline  BY <1>2, TypeFetch
<1>3. CASE EncodeActions  BY <1>3, TypeEncode
<1>4. CASE DoAction  BY <1>4, TypeDo
<1>5. CASE OnPackageStatusChanged  BY <1>5, TypeStatus
<1>6. CASE \E p \in Packages, r \in Reactive \union {NoAction} : SendPackage(p, r)  BY <1>6, TypeSend
<1>7. CASE \E a \in Actions : OnBytesEncoded(a)  BY <1>7, TypeEncoded
<1>8. CASE \E l \in Links : OnLinkCreated(l) \/ OnLinkDestroyed(l) \/ Receive(l) \/ Fault(l)
  BY <1>8, TypeCreated, TypeDestroyed, TypeReceive, TypeFault
<1>9. CASE UNCHANGED vars
  <2>1. TypeOK'  BY <1>9 DEF TypeInv, TypeOK, vars, actionVars, packageVars, receiveVars
  <2>2. Whole(parts)' /\ ActionsInTime' /\ QueuesSorted' /\ WireCarries'
    BY <1>9 DEF TypeInv, Whole, ActionsInTime, QueuesSorted, Sorted, Before, WireCarries, vars, actionVars, packageVars
  <2>. QED BY <2>1, <2>2 DEF TypeInv
<1> QED BY <1>1, <1>2, <1>3, <1>4, <1>5, <1>6, <1>7, <1>8, <1>9 DEF Next

(* The managers keep what they say they keep: actions of the timeline in   *)
(* their queues, fragments of the packages that were sent, handles that    *)
(* were given out.  It rests on every queue being sorted like the timeline: *)
(* only then does an action that is done leave none of them.               *)
THEOREM TypeCorrect == Spec => []TypeOK
<1>1. Init => TypeInv  BY TypeInit
<1>2. TypeInv /\ [Next]_vars => TypeInv'  BY TypeKept
<1>3. TypeInv => TypeOK  BY DEF TypeInv
<1> QED BY <1>1, <1>2, <1>3, PTL DEF Spec

--------------------------------------------------------------------------------
(* What the SDK is told.  A package has fragments only while it is queued on  *)
(* its link, it is queued there once, and what is reported leaves the queue.  *)

Queued == UNION {ToSet(packageQueue[l]) : l \in Links}

\* A link queues packages sent on it, and each of them once.
OwnQueues ==
    \A l \in Links : /\ IsInjective(packageQueue[l])
                     /\ \A p \in ToSet(packageQueue[l]) : Route[p] = l

ReportInv ==
    /\ OwnQueues
    /\ \A p \in Packages : /\ Len(told[p]) <= 1
                           /\ told[p] # <<>> => p \notin Queued
                           /\ parts[p] # <<>> => p \in Queued

\* Plans that hold fragments of the packages W only.
OnlyFor(D, W) == {e \in GoodPlans(D) : \A p \in Packages : e.parts[p] # <<>> => p \in W}

LEMMA AddsOnlyFor ==
    ASSUME NEW D, NEW W, NEW e \in OnlyFor(D, W), NEW d \in GoodPlans(D), NEW p \in Packages, p \in W,
           NEW a, NEW f, NEW g, Adds(e, d, p, a, f, g)
    PROVE  d \in OnlyFor(D, W)
<1>1. e.parts \in [Packages -> Seq(Fragments)] /\ \A q \in Packages : e.parts[q] # <<>> => q \in W
  BY DEF OnlyFor, GoodPlans, PlansOf
<1>2. d.parts = [e.parts EXCEPT ![p] = Append(@, g)]  BY DEF Adds
<1>3. \A q \in Packages \ {p} : d.parts[q] = e.parts[q]  BY <1>1, <1>2
<1> QED BY <1>1, <1>3 DEF OnlyFor

LEMMA OneOnlyFor ==
    ASSUME reports \in Seq(Handles \X Statuses), NEW D, D \subseteq Actions, NEW W,
           NEW plan \in OnlyFor(D, W), NEW p \in Packages, p \in W, NEW queue \in Seq(D), NEW exact
    PROVE  generateFragmentsForPackage(plan, p, queue, exact) \in OnlyFor(D, W)
<1> DEFINE Q == OnlyFor(D, W)
<1>1. Q \subseteq GoodPlans(D) /\ plan \in Q  BY DEF OnlyFor
<1>2. ASSUME NEW e \in Q, NEW d \in GoodPlans(D), NEW a \in ToSet(queue), NEW f \in Pointers,
             NEW g \in Fragments, MayCarry(e, p, a, exact), Adds(e, d, p, a, f, g)
      PROVE  d \in Q
  BY <1>2, AddsOnlyFor
<1> HIDE DEF Q
<1>3. generateFragmentsForPackage(plan, p, queue, exact) \in Q  BY <1>1, <1>2, FillKeeps
<1> QED BY <1>3 DEF Q

LEMMA ClearedOnlyFor ==
    ASSUME NEW D, NEW W, NEW e \in OnlyFor(D, W), NEW marked, NEW aqs
    PROVE  Cleared(e, marked, aqs) \in OnlyFor(D, W)
<1> DEFINE c == Cleared(e, marked, aqs)
           reset == {a \in UNION {ToSet(aqs[l]) : l \in Links} : e.info[a].time > now + MaxEncodingTime}
           gone == marked \union UNION {HandlesOf(e.info[a].fragments) : a \in reset}
<1>1. e \in GoodPlans(D) /\ \A p \in Packages : e.parts[p] # <<>> => p \in W  BY DEF OnlyFor
<1>2. c \in GoodPlans(D)  BY <1>1, ClearedIs
<1>3. c.parts = [p \in Packages |-> removeMarkedFragments(e.parts[p], gone)]  BY DEF Cleared
<1> HIDE DEF c, reset, gone
<1>4. removeMarkedFragments(<<>>, gone) = <<>>  BY DEF removeMarkedFragments
<1>5. \A p \in Packages : c.parts[p] # <<>> => p \in W  BY <1>1, <1>3, <1>4
<1> QED BY <1>2, <1>5 DEF OnlyFor, c

LEMMA AllOnlyFor ==
    ASSUME reports \in Seq(Handles \X Statuses), NEW D, D \subseteq Actions, NEW W,
           NEW plan \in OnlyFor(D, W), NEW marked,
           NEW aqs \in [Links -> Seq(D)], NEW queues \in [Links -> Seq(Packages)],
           \A l \in Links : ToSet(queues[l]) \subseteq W
    PROVE  generateFragmentsForAllPackages(plan, marked, aqs, queues) \in OnlyFor(D, W)
<1> DEFINE Q == OnlyFor(D, W)
<1>1. Q \subseteq GoodPlans(D)  BY DEF OnlyFor
<1>2. Cleared(plan, marked, aqs) \in Q  BY ClearedOnlyFor
<1>3. ASSUME NEW e \in Q, NEW d \in GoodPlans(D), NEW l \in Links, NEW p \in ToSet(queues[l]),
             NEW a \in ToSet(aqs[l]), NEW f \in Pointers,
             NEW g \in Fragments, MayCarry(e, p, a, NoAction), Adds(e, d, p, a, f, g)
      PROVE  d \in Q
  <2>1. p \in Packages /\ p \in W
    <3>1. queues[l] \in Seq(Packages)  OBVIOUS
    <3>. QED BY <3>1, Elements DEF ToSet
  <2>. QED BY <1>3, <2>1, AddsOnlyFor
<1>4. ASSUME NEW e \in Q, NEW l \in Links
      PROVE  [info |-> e.info, parts |-> e.parts, full |-> e.full \union {l}] \in Q
  <2>1. e \in GoodPlans(D)  BY <1>1
  <2>. QED BY <2>1 DEF OnlyFor, GoodPlans, PlansOf
<1> HIDE DEF Q
<1>5. generateFragmentsForAllPackages(plan, marked, aqs, queues) \in Q
  BY <1>1, <1>2, <1>3, <1>4, AssignKeeps
<1> QED BY <1>5 DEF Q

LEMMA ReplanOnlyFor ==
    ASSUME TypeOK, Whole(parts), ReportInv, NEW D, D \subseteq Actions, NEW i \in [D -> ActionInfo]
    PROVE  \A p \in Packages : Replan(i).parts[p] # <<>> => p \in Queued
<1> DEFINE e == [Plan EXCEPT !.info = i]
           marked == UNION {HandlesOf(info[a].fragments) : a \in DOMAIN info \ DOMAIN i}
<1>1. e = [info |-> i, parts |-> parts, full |-> {}]  BY DEF Plan
<1>2. e \in OnlyFor(D, Queued)  BY <1>1 DEF TypeOK, GoodPlans, PlansOf, OnlyFor, ReportInv
<1>3. updateLinkTimelines(i) \in [Links -> Seq(D)]  BY TimelineIs
<1>4. packageQueue \in [Links -> Seq(Packages)] /\ reports \in Seq(Handles \X Statuses)  BY DEF TypeOK
<1>5. Replan(i) = generateFragmentsForAllPackages(e, marked, updateLinkTimelines(i), packageQueue)
  BY DEF Replan
<1>6. \A l \in Links : ToSet(packageQueue[l]) \subseteq Queued  BY DEF Queued
<1> HIDE DEF e, marked
<1>7. generateFragmentsForAllPackages(e, marked, updateLinkTimelines(i), packageQueue)
          \in OnlyFor(D, Queued)
  BY <1>2, <1>3, <1>4, <1>6, AllOnlyFor
<1> QED BY <1>5, <1>7 DEF OnlyFor

\* A step that changes no queue, tells nothing and starts no package.
LEMMA ReportsSame ==
    ASSUME ReportInv, packageQueue' = packageQueue, told' = told,
           \A p \in Packages : parts'[p] # <<>> => p \in Queued
    PROVE  ReportInv'
BY DEF ReportInv, OwnQueues, Queued

LEMMA SameLength ==
    ASSUME NEW T, NEW s \in Seq(T), NEW t \in Seq(T), Len(s) = Len(t), t # <<>>
    PROVE  s # <<>>
BY EmptySeq

LEMMA ReportsSend ==
    ASSUME TypeInv, ReportInv, NEW p \in Packages, NEW r \in Reactive \union {NoAction}, SendPackage(p, r)
    PROVE  ReportInv'
<1> DEFINE i == SendTimeline(r)
           D == DOMAIN i
           l == Route[p]
<1>1. TypeOK /\ Whole(parts)  BY DEF TypeInv
<1>2. /\ told[p] = <<>> /\ ~Contains(packageQueue[l], p) /\ told' = told
      /\ r \in {NoAction} \union (Reactive \ (DOMAIN info \union DOMAIN held))
      /\ parts' = SendPlan(p, r).parts
      /\ packageQueue' = IF SendFits(p, r) THEN [packageQueue EXCEPT ![l] = Append(@, p)] ELSE packageQueue
  BY SendIs
<1>3. /\ D \subseteq Actions /\ i \in [D -> ActionInfo] /\ SendQueues(r) \in [Links -> Seq(D)]
      /\ SendBase(r) \in SameTimes(D, i)
  BY <1>2, SendTimelineIs
<1>4. packageQueue \in [Links -> Seq(Packages)] /\ reports \in Seq(Handles \X Statuses) /\ l \in Links
  BY <1>1, PackagesAssumption DEF TypeOK
<1> HIDE DEF i, D
<1>5. SendBase(r) \in OnlyFor(D, Queued)
  <2>1. SendBase(r) \in GoodPlans(D)  BY <1>3, PlanParts
  <2>2. CASE r = NoAction
    <3>1. SendBase(r).parts = parts  BY <2>2 DEF SendBase, Plan
    <3>. QED BY <2>1, <3>1 DEF OnlyFor, ReportInv
  <2>3. CASE r # NoAction
    <3>1. SendBase(r) = Replan(i)  BY <2>3 DEF SendBase, i
    <3>2. \A q \in Packages : Replan(i).parts[q] # <<>> => q \in Queued
      BY <1>1, <1>3, ReplanOnlyFor
    <3>. QED BY <2>1, <3>1, <3>2 DEF OnlyFor
  <2>. QED BY <2>2, <2>3
<1>6. CASE ~SendFits(p, r)
  <2>1. parts' = SendBase(r).parts /\ packageQueue' = packageQueue  BY <1>2, <1>6 DEF SendPlan
  <2>2. \A q \in Packages : parts'[q] # <<>> => q \in Queued  BY <1>5, <2>1 DEF OnlyFor
  <2>. QED BY <1>2, <2>1, <2>2, ReportsSame
<1>7. CASE SendFits(p, r)
  <2> DEFINE q == packageQueue[l]
             t == Append(q, p)
             W == Queued \union {p}
  <2>1. \A k \in Packages : parts'[k] # <<>> => k \in W
    <3>1. SendBase(r) \in OnlyFor(D, W)  BY <1>5 DEF OnlyFor
    <3>2. SendQueues(r)[l] \in Seq(D) /\ p \in W  BY <1>3, <1>4
    <3>3. parts' = generateFragmentsForPackage(SendBase(r), p, SendQueues(r)[l], r).parts
      BY <1>2, <1>7 DEF SendPlan
    <3> HIDE DEF W
    <3>4. generateFragmentsForPackage(SendBase(r), p, SendQueues(r)[l], r) \in OnlyFor(D, W)
      BY <1>3, <1>4, <3>1, <3>2, OneOnlyFor
    <3>. QED BY <3>3, <3>4 DEF OnlyFor
  <2>2. packageQueue'[l] = t /\ \A m \in Links \ {l} : packageQueue'[m] = packageQueue[m]
    BY <1>2, <1>4, <1>7
  <2>3. q \in Seq(Packages) /\ IsInjective(q) /\ \A k \in ToSet(q) : Route[k] = l
    BY <1>4 DEF ReportInv, OwnQueues
  <2>4. /\ DOMAIN t = 1 .. Len(q) + 1 /\ DOMAIN q = 1 .. Len(q) /\ Len(q) \in Nat
        /\ t[Len(q) + 1] = p /\ \A k \in 1 .. Len(q) : t[k] = q[k]
    BY <2>3, AppendIs
  <2>5. \A k \in DOMAIN q : q[k] # p  BY <1>2, <2>4 DEF Contains
  <2> HIDE DEF q, t
  <2>6. IsInjective(t)
    <3>1. ASSUME NEW j \in DOMAIN t, NEW k \in DOMAIN t, t[j] = t[k] PROVE j = k
      <4>1. \A x, y \in DOMAIN q : q[x] = q[y] => x = y  BY <2>3 DEF IsInjective
      <4>. QED BY <2>4, <2>5, <3>1, <4>1
    <3>. QED BY <3>1 DEF IsInjective
  <2>7. ToSet(t) = ToSet(q) \union {p}  BY <2>4 DEF ToSet
  <2>8. OwnQueues'
    <3>1. \A m \in Links : /\ IsInjective(packageQueue'[m])
                           /\ \A k \in ToSet(packageQueue'[m]) : Route[k] = m
      BY <2>2, <2>3, <2>6, <2>7 DEF ReportInv, OwnQueues
    <3>. QED BY <3>1 DEF OwnQueues
  <2>9. UNION {ToSet(packageQueue'[m]) : m \in Links} = W
    <3>1. \A m \in Links : ToSet(packageQueue'[m]) = IF m = l THEN ToSet(packageQueue[m]) \union {p}
                                                     ELSE ToSet(packageQueue[m])
      BY <2>2, <2>7 DEF q
    <3>. QED BY <1>4, <3>1 DEF Queued
  <2>10. Queued' = W  BY <2>9 DEF Queued
  <2> HIDE DEF W
  <2>11. \A k \in Packages : told'[k] # <<>> => k \notin W
    BY <1>2 DEF ReportInv, W
  <2>12. \A k \in Packages : Len(told'[k]) <= 1  BY <1>2 DEF ReportInv
  <2>. QED BY <2>1, <2>8, <2>10, <2>11, <2>12 DEF ReportInv
<1> QED BY <1>6, <1>7

LEMMA ReportsFetch == TypeInv /\ ReportInv /\ FetchTimeline => ReportInv'
<1> SUFFICES ASSUME TypeInv, ReportInv, FetchTimeline PROVE ReportInv'  OBVIOUS
<1>1. \E D \in SUBSET Actions : \E i \in [D -> ActionInfo] : parts' = Replan(i).parts
  BY FetchIs
<1>2. packageQueue' = packageQueue /\ told' = told  BY DEF FetchTimeline
<1>3. TypeOK /\ Whole(parts)  BY DEF TypeInv
<1>4. \A p \in Packages : parts'[p] # <<>> => p \in Queued  BY <1>1, <1>3, ReplanOnlyFor
<1> QED BY <1>2, <1>4, ReportsSame

\* The state of fragments changes, and nothing else that reports are about.
LEMMA ReportsMarked ==
    ASSUME TypeOK, ReportInv, packageQueue' = packageQueue, told' = told,
           \A p \in Packages : parts'[p] \in Seq(Fragments) /\ Len(parts'[p]) = Len(parts[p])
    PROVE  ReportInv'
<1>1. ASSUME NEW p \in Packages, parts'[p] # <<>> PROVE p \in Queued
  <2>1. parts[p] \in Seq(Fragments)  BY DEF TypeOK
  <2>2. parts[p] # <<>>  BY <1>1, <2>1, SameLength
  <2>. QED BY <2>2 DEF ReportInv
<1> QED BY <1>1, ReportsSame

LEMMA ReportsEncode == TypeInv /\ ReportInv /\ EncodeActions => ReportInv'
<1> SUFFICES ASSUME TypeInv, ReportInv, EncodeActions PROVE ReportInv'  OBVIOUS
<1> DEFINE hs == UNION {HandlesOf(info[a].fragments) :
                          a \in {b \in DOMAIN info : /\ info[b].time >= nextEncodeTime
                                                     /\ info[b].time <= now + MaxEncodingTime}}
<1>1. parts' = [p \in Packages |-> SetState(p, hs, "ENCODING")]
      /\ packageQueue' = packageQueue /\ told' = told
  BY Zenon DEF EncodeActions
<1> HIDE DEF hs
<1>2. TypeOK /\ "ENCODING" \in FragmentStates  BY DEF TypeInv, FragmentStates
<1>3. \A p \in Packages : parts'[p] \in Seq(Fragments) /\ Len(parts'[p]) = Len(parts[p])
  BY <1>1, <1>2, SetStateIs
<1> QED BY <1>1, <1>2, <1>3, ReportsMarked

LEMMA ReportsEncoded ==
    ASSUME TypeInv, ReportInv, NEW a \in Actions, OnBytesEncoded(a)
    PROVE  ReportInv'
<1> DEFINE hs == HandlesOf(info[a].fragments)
<1>1. packageQueue' = packageQueue /\ told' = told
      /\ \/ parts' = [p \in Packages |-> SetState(p, hs, "ENQUEUED")]
         \/ parts' = parts
  BY DEF OnBytesEncoded
<1> HIDE DEF hs
<1>2. TypeOK /\ "ENQUEUED" \in FragmentStates  BY DEF TypeInv, FragmentStates
<1>3. ASSUME NEW p \in Packages
      PROVE  parts'[p] \in Seq(Fragments) /\ Len(parts'[p]) = Len(parts[p])
  <2>1. CASE parts' = [q \in Packages |-> SetState(q, hs, "ENQUEUED")]
    BY <1>2, <2>1, SetStateIs
  <2>2. CASE parts' = parts  BY <1>2, <2>2 DEF TypeOK
  <2>. QED BY <1>1, <2>1, <2>2
<1> QED BY <1>1, <1>2, <1>3, ReportsMarked

LEMMA ReportsDo == TypeInv /\ ReportInv /\ DoAction => ReportInv'
<1> SUFFICES ASSUME TypeInv, ReportInv, DoAction PROVE ReportInv'  OBVIOUS
<1> DEFINE hs == HandlesOf(info[FirstAction].fragments)
<1>1. parts' = DoneParts(hs) /\ packageQueue' = packageQueue /\ told' = told  BY DoIs
<1> HIDE DEF hs
<1>2. TypeOK  BY DEF TypeInv
<1>3. \A p \in Packages : parts'[p] \in Seq(Fragments) /\ Len(parts'[p]) = Len(parts[p])
  BY <1>1, <1>2, DoneIs
<1> QED BY <1>1, <1>2, <1>3, ReportsMarked

\* What a finished package leaves in its queue.
LEMMA DequeuedIs ==
    ASSUME TypeOK, OwnQueues, NEW p \in Packages, p \in Queued
    PROVE  /\ Dequeued(p) \in [Links -> Seq(Packages)]
           /\ \A l \in Links : /\ IsInjective(Dequeued(p)[l])
                               /\ \A q \in ToSet(Dequeued(p)[l]) : Route[q] = l
           /\ UNION {ToSet(Dequeued(p)[l]) : l \in Links} = Queued \ {p}
<1> DEFINE l == Route[p]
           q == packageQueue[l]
           t == RemoveFirst(q, p)
<1>1. packageQueue \in [Links -> Seq(Packages)] /\ l \in Links  BY PackagesAssumption DEF TypeOK
<1>2. q \in Seq(Packages) /\ IsInjective(q) /\ (\A k \in ToSet(q) : Route[k] = l) /\ p \in ToSet(q)
  <2>1. PICK m \in Links : p \in ToSet(packageQueue[m])  BY DEF Queued
  <2>2. m = l  BY <2>1 DEF OwnQueues
  <2>. QED BY <1>1, <2>1, <2>2 DEF OwnQueues
<1>3. Dequeued(p) = [packageQueue EXCEPT ![l] = t]  BY DEF Dequeued
<1> HIDE DEF q
<1>4. t \in Seq(Packages) /\ IsInjective(t) /\ ToSet(t) = ToSet(q) \ {p}  BY <1>2, RemoveOne
<1> HIDE DEF t
<1>5. /\ Dequeued(p) \in [Links -> Seq(Packages)] /\ Dequeued(p)[l] = t
      /\ \A m \in Links \ {l} : Dequeued(p)[m] = packageQueue[m]
  BY <1>1, <1>3, <1>4
<1>6. ASSUME NEW m \in Links
      PROVE  /\ IsInjective(Dequeued(p)[m]) /\ \A k \in ToSet(Dequeued(p)[m]) : Route[k] = m
             /\ ToSet(Dequeued(p)[m]) = ToSet(packageQueue[m]) \ {p}
  <2>1. CASE m = l  BY <1>2, <1>4, <1>5, <2>1 DEF q
  <2>2. CASE m # l
    <3>1. p \notin ToSet(packageQueue[m])  BY <2>2 DEF OwnQueues
    <3>. QED BY <1>5, <2>2, <3>1 DEF OwnQueues
  <2>. QED BY <2>1, <2>2
<1>7. UNION {ToSet(Dequeued(p)[m]) : m \in Links} = Queued \ {p}
  BY <1>6 DEF Queued
<1> QED BY <1>5, <1>6, <1>7

LEMMA ReportsStatus == TypeInv /\ ReportInv /\ OnPackageStatusChanged => ReportInv'
<1> SUFFICES ASSUME TypeInv, ReportInv, OnPackageStatusChanged PROVE ReportInv'  OBVIOUS
<1>1. TypeOK /\ Whole(parts) /\ parts \in [Packages -> Seq(Fragments)]  BY DEF TypeInv, TypeOK
<1>2. reports # <<>>  BY StatusIs
<1>3. Head(reports)[2] \in Statuses /\ reports \in Seq(Handles \X Statuses)
  BY <1>1, <1>2, HeadOfReports DEF TypeOK
<1>4. CASE UNCHANGED <<info, parts, packageQueue, told, blocked>>
  BY <1>4, ReportsSame DEF ReportInv
<1>5. ASSUME NEW p \in Packages, parts' = [parts EXCEPT ![p] = Updated(p)],
             UNCHANGED <<info, packageQueue, told, blocked>>
      PROVE  ReportInv'
  <2>1. Updated(p) \in Seq(Fragments) /\ Len(Updated(p)) = Len(parts[p])
    <3>1. (IF Head(reports)[2] = "PACKAGE_SENT" THEN "SENT" ELSE "FAILED") \in FragmentStates
      BY DEF FragmentStates
    <3>. QED BY <1>1, <3>1, SetStateIs DEF Updated
  <2>2. \A q \in Packages : parts'[q] \in Seq(Fragments) /\ Len(parts'[q]) = Len(parts[q])
    BY <1>1, <1>5, <2>1
  <2>. QED BY <1>1, <1>5, <2>2, ReportsMarked
<1>6. ASSUME NEW p \in Packages, NEW freed,
             \E k \in DOMAIN parts[p] : TRUE,
             told' = [told EXCEPT ![p] = Append(@, Head(reports)[2])],
             packageQueue' = Dequeued(p),
             parts' = Rest(p, freed).parts \/ parts' = Replanned(p, freed).parts
      PROVE  ReportInv'
  <2> DEFINE W == Queued \ {p}
             D == DOMAIN info
             R == Rest(p, freed)
             marked == UNION {HandlesOf(info[a].fragments) : a \in freed}
  <2>1. parts[p] # <<>>
    <3>1. DOMAIN <<>> = {}  OBVIOUS
    <3>. QED BY <1>6, <3>1
  <2>2. p \in Queued /\ told[p] = <<>>  BY <2>1 DEF ReportInv
  <2>3. /\ Dequeued(p) \in [Links -> Seq(Packages)]
        /\ \A l \in Links : /\ IsInjective(Dequeued(p)[l])
                            /\ \A q \in ToSet(Dequeued(p)[l]) : Route[q] = l
        /\ UNION {ToSet(Dequeued(p)[l]) : l \in Links} = W
    BY <1>1, <2>2, DequeuedIs DEF ReportInv
  <2>4. R \in OnlyFor(D, W)
    <3>1. R \in SameTimes(D, info)
          /\ R = [info |-> FreedTimeline(freed), parts |-> [parts EXCEPT ![p] = <<>>], full |-> {}]
      BY RestIs
    <3> HIDE DEF R
    <3>0. R \in GoodPlans(D) /\ R.parts = [parts EXCEPT ![p] = <<>>]  BY <3>1 DEF SameTimes
    <3>2. \A q \in Packages : R.parts[q] # <<>> => q \in W  BY <1>1, <3>0 DEF ReportInv
    <3>. QED BY <3>0, <3>2 DEF OnlyFor
  <2>5. Replanned(p, freed) \in OnlyFor(D, W)
    <3>1. Replanned(p, freed) = generateFragmentsForAllPackages(R, marked, actionQueue, Dequeued(p))
      BY DEF Replanned
    <3>2. \A l \in Links : ToSet(Dequeued(p)[l]) \subseteq W  BY <2>3
    <3>3. D \subseteq Actions /\ actionQueue \in [Links -> Seq(D)]
      BY DEF TypeInv, TypeOK, QueuesSorted
    <3> HIDE DEF W, R, D, marked
    <3>4. generateFragmentsForAllPackages(R, marked, actionQueue, Dequeued(p)) \in OnlyFor(D, W)
      BY <1>3, <2>3, <2>4, <3>2, <3>3, AllOnlyFor
    <3>. QED BY <3>1, <3>4
  <2>6. \A q \in Packages : parts'[q] # <<>> => q \in W  BY <1>6, <2>4, <2>5 DEF OnlyFor
  <2> HIDE DEF R, D, marked
  <2>7. OwnQueues' /\ Queued' = W
    <3>1. OwnQueues'  BY <1>6, <2>3 DEF OwnQueues
    <3>2. UNION {ToSet(packageQueue'[l]) : l \in Links} = W  BY <1>6, <2>3
    <3>. QED BY <3>1, <3>2 DEF Queued
  <2>8. told \in [Packages -> Seq(Statuses)]  BY <1>1 DEF TypeOK
  <2>9. told'[p] = <<Head(reports)[2]>> /\ \A q \in Packages \ {p} : told'[q] = told[q]
    BY <1>6, <2>2, <2>8
  <2>10. ASSUME NEW q \in Packages PROVE Len(told'[q]) <= 1 /\ (told'[q] # <<>> => q \notin W)
    <3>1. CASE q = p
      <4>1. \A x : Len(<<x>>) = 1  OBVIOUS
      <4>2. Len(told'[p]) = 1  BY <2>9, <4>1
      <4>3. p \notin W  OBVIOUS
      <4> HIDE DEF W
      <4>. QED BY <3>1, <4>2, <4>3
    <3>2. CASE q # p
      <4>1. told'[q] = told[q]  BY <2>9, <3>2
      <4>. QED BY <4>1 DEF ReportInv
    <3>. QED BY <3>1, <3>2
  <2> HIDE DEF W
  <2>. QED BY <2>6, <2>7, <2>10 DEF ReportInv
<1> QED BY <1>4, <1>5, <1>6, StatusIs

LEMMA ReportsDestroyed ==
    ASSUME TypeInv, ReportInv, NEW l \in Links, OnLinkDestroyed(l)
    PROVE  ReportInv'
<1> DEFINE dropped == ToSet(packageQueue[l])
<1>1. /\ told' = [p \in Packages |-> IF p \in dropped THEN Append(told[p], "PACKAGE_FAILED_GENERIC")
                                     ELSE told[p]]
      /\ parts' = [p \in Packages |-> IF p \in dropped THEN <<>> ELSE parts[p]]
      /\ packageQueue' = [packageQueue EXCEPT ![l] = <<>>]
  BY DEF OnLinkDestroyed
<1>2. packageQueue \in [Links -> Seq(Packages)] /\ told \in [Packages -> Seq(Statuses)]
  BY DEF TypeInv, TypeOK
<1>3. \A m \in Links : packageQueue'[m] = IF m = l THEN <<>> ELSE packageQueue[m]  BY <1>1, <1>2
<1>4. ToSet(<<>>) = {} /\ IsInjective(<<>>)  BY DEF ToSet, IsInjective
<1>5. OwnQueues'
  <2>1. \A m \in Links : /\ IsInjective(packageQueue'[m])
                         /\ \A k \in ToSet(packageQueue'[m]) : Route[k] = m
    BY <1>3, <1>4 DEF ReportInv, OwnQueues
  <2>. QED BY <2>1 DEF OwnQueues
<1>6. Queued' = Queued \ dropped
  <2>1. \A m \in Links : ToSet(packageQueue'[m]) = ToSet(packageQueue[m]) \ dropped
    <3>1. ASSUME NEW m \in Links, m # l, NEW k \in ToSet(packageQueue[m]) PROVE k \notin dropped
      BY <3>1 DEF ReportInv, OwnQueues
    <3>. QED BY <1>3, <1>4, <3>1
  <2>2. UNION {ToSet(packageQueue'[m]) : m \in Links} = Queued \ dropped  BY <2>1 DEF Queued
  <2>. QED BY <2>2 DEF Queued
<1>7. dropped \subseteq Queued  BY DEF Queued
<1> HIDE DEF dropped
<1>8. ASSUME NEW p \in Packages
      PROVE  /\ Len(told'[p]) <= 1
             /\ told'[p] # <<>> => p \notin Queued \ dropped
             /\ parts'[p] # <<>> => p \in Queued \ dropped
  <2>1. CASE p \in dropped
    <3>1. told[p] = <<>>  BY <1>7, <2>1 DEF ReportInv
    <3>2. told'[p] = Append(<<>>, "PACKAGE_FAILED_GENERIC") /\ parts'[p] = <<>>  BY <1>1, <2>1, <3>1
    <3>3. Len(Append(<<>>, "PACKAGE_FAILED_GENERIC")) = 1  OBVIOUS
    <3>. QED BY <2>1, <3>2, <3>3
  <2>2. CASE p \notin dropped
    <3>1. told'[p] = told[p] /\ parts'[p] = parts[p]  BY <1>1, <2>2
    <3>. QED BY <2>2, <3>1 DEF ReportInv
  <2>. QED BY <2>1, <2>2
<1> QED BY <1>5, <1>6, <1>8 DEF ReportInv

LEMMA ReportsInit == Init => ReportInv
<1> SUFFICES ASSUME Init PROVE ReportInv  OBVIOUS
<1>1. ToSet(<<>>) = {} /\ IsInjective(<<>>)  BY DEF ToSet, IsInjective
<1>2. OwnQueues  BY <1>1 DEF Init, OwnQueues
<1>3. \A p \in Packages : told[p] = <<>> /\ parts[p] = <<>>  BY DEF Init
<1> QED BY <1>2, <1>3 DEF ReportInv

LEMMA ReportsKept == TypeInv /\ ReportInv /\ [Next]_vars => ReportInv'
<1> SUFFICES ASSUME TypeInv, ReportInv, [Next]_vars PROVE ReportInv'  OBVIOUS
<1>1. ASSUME packageQueue' = packageQueue, told' = told, parts' = parts PROVE ReportInv'
  BY <1>1, ReportsSame DEF ReportInv
<1>2. CASE Tick \/ UNCHANGED vars
  BY <1>1, <1>2 DEF Tick, vars, packageVars
<1>3. CASE FetchTimeline  BY <1>3, ReportsFetch
<1>4. CASE EncodeActions  BY <1>4, ReportsEncode
<1>5. CASE DoAction  BY <1>5, ReportsDo
<1>6. CASE OnPackageStatusChanged  BY <1>6, ReportsStatus
<1>7. CASE \E p \in Packages, r \in Reactive \union {NoAction} : SendPackage(p, r)  BY <1>7, ReportsSend
<1>8. CASE \E a \in Actions : OnBytesEncoded(a)  BY <1>8, ReportsEncoded
<1>9. ASSUME NEW l \in Links, OnLinkCreated(l) \/ OnLinkDestroyed(l) \/ Receive(l) \/ Fault(l)
      PROVE  ReportInv'
  <2>1. CASE OnLinkCreated(l)  BY <1>1, <2>1 DEF OnLinkCreated, packageVars
  <2>2. CASE OnLinkDestroyed(l)  BY <2>2, ReportsDestroyed
  <2>3. CASE Receive(l)
    <3>1. UNCHANGED packageVars  BY <2>3, Zenon DEF Receive
    <3>. QED BY <1>1, <3>1 DEF packageVars
  <2>4. CASE Fault(l)  BY <1>1, <2>4 DEF Fault, packageVars
  <2>. QED BY <1>9, <2>1, <2>2, <2>3, <2>4
<1> QED BY <1>2, <1>3, <1>4, <1>5, <1>6, <1>7, <1>8, <1>9 DEF Next

(* The SDK hears of a package once, whatever fails and however the reports, *)
(* the destruction of its link and replanning interleave, and never again   *)
(* about one still queued: onPackageStatusChanged and the destruction of a  *)
(* link both take the package from the queue that let them find it.         *)
THEOREM ReportedOnceCorrect == Spec => []ReportedOnce
<1>1. Init => TypeInv /\ ReportInv  BY TypeInit, ReportsInit
<1>2. TypeInv /\ ReportInv /\ [Next]_vars => (TypeInv /\ ReportInv)'  BY TypeKept, ReportsKept
<1>3. TypeInv /\ ReportInv => ReportedOnce
  <2> SUFFICES ASSUME TypeInv, ReportInv, NEW p \in Packages, told[p] # <<>>
               PROVE  ~Contains(packageQueue[Route[p]], p)
    BY DEF ReportInv, ReportedOnce
  <2>1. Route[p] \in Links /\ packageQueue[Route[p]] \in Seq(Packages)
    BY PackagesAssumption DEF TypeInv, TypeOK
  <2>2. p \notin ToSet(packageQueue[Route[p]])  BY <2>1 DEF ReportInv, Queued
  <2>. QED BY <2>1, <2>2, Elements DEF Contains, ToSet
<1> QED BY <1>1, <1>2, <1>3, PTL DEF Spec

--------------------------------------------------------------------------------
(* Connections that are held back.  Planning finds a link full when none of   *)
(* its actions may carry more; what happens later takes room and gives none   *)
(* to actions that can still be planned, so long as only those are encoded    *)
(* whose time has come.                                                       *)

\* No action of the queue q of the link l has room, of those after the time t.
NoRoom(t, i, q, l) ==
    \A k \in DOMAIN q :
        i[q[k]].time > t /\ i[q[k]].link \in {l, NoLink} => ~isActionAbleToFit(i[q[k]])

\* Only actions whose encoding is due are with the encoder or through with it.
EncodedInTime ==
    /\ \A a \in DOMAIN info : info[a].enc # "UNENCODED" => info[a].time <= now + MaxEncodingTime
    /\ DOMAIN encoder \subseteq DOMAIN info
    /\ \A a \in DOMAIN encoder : info[a].time <= now + MaxEncodingTime

LEMMA NoRoomFits ==
    ASSUME NEW D, NEW q \in Seq(D), NEW l, NEW t \in Int, NEW u \in Int, t <= u,
           NEW i, NEW j, NoRoom(t, i, q, l),
           \A a \in D : /\ j[a].time \in Int /\ j[a].time = i[a].time
                        /\ j[a].time > u /\ j[a].link \in {l, NoLink} /\ isActionAbleToFit(j[a])
                           => i[a].link \in {l, NoLink} /\ isActionAbleToFit(i[a])
    PROVE  NoRoom(u, j, q, l)
<1>1. \A k \in DOMAIN q : q[k] \in D  BY Elements
<1> QED BY <1>1 DEF NoRoom

LEMMA AddsNoRoom ==
    ASSUME NEW D, NEW e \in GoodPlans(D), NEW d \in GoodPlans(D), NEW p \in Packages, NEW a \in D,
           NEW exact, MayCarry(e, p, a, exact), NEW f \in Pointers, NEW g \in Fragments,
           Adds(e, d, p, a, f, g), NEW q \in Seq(D), NEW l \in Links, NEW t \in Int,
           NoRoom(t, e.info, q, l)
    PROVE  NoRoom(t, d.info, q, l)
<1>1. /\ \A b \in D : /\ d.info[b].time = e.info[b].time
                      /\ isActionAbleToFit(d.info[b]) => isActionAbleToFit(e.info[b])
      /\ \A b \in D \ {a} : d.info[b] = e.info[b]
  BY AddsShrinks
<1>2. \A b \in D : d.info[b].time \in Int
  <2>1. \A b \in D : d.info[b] \in ActionInfo  BY DEF GoodPlans, PlansOf
  <2>2. Never \in Nat  BY PackagesAssumption DEF Never
  <2>. QED BY <2>1, <2>2 DEF ActionInfo, Times
<1>3. d.info[a].link \in {l, NoLink} => e.info[a].link \in {l, NoLink}
  <2>1. e.info \in [D -> ActionInfo]  BY DEF GoodPlans, PlansOf
  <2>2. d.info[a].link = Route[p]  BY <2>1 DEF Adds
  <2>3. e.info[a].link \in {Route[p], NoLink}  BY DEF MayCarry
  <2>4. Route[p] # NoLink  BY PackagesAssumption
  <2>. QED BY <2>2, <2>3, <2>4
<1>4. \A b \in D : d.info[b].link \in {l, NoLink} => e.info[b].link \in {l, NoLink}  BY <1>1, <1>3
<1> QED BY <1>1, <1>2, <1>4, NoRoomFits

\* Plans in which the links of B have no room.
RoomFor(D, B, aqs) ==
    {e \in GoodPlans(D) : \A l \in B : NoRoom(now + MaxEncodingTime, e.info, aqs[l], l)}

LEMMA OneRoomFor ==
    ASSUME TypeOK, NEW D, D \subseteq Actions, NEW aqs \in [Links -> Seq(D)],
           NEW B, B \subseteq Links, NEW plan \in RoomFor(D, B, aqs),
           NEW p \in Packages, NEW queue \in Seq(D), NEW exact
    PROVE  generateFragmentsForPackage(plan, p, queue, exact) \in RoomFor(D, B, aqs)
<1> DEFINE Q == RoomFor(D, B, aqs)
<1>1. Q \subseteq GoodPlans(D) /\ plan \in Q /\ reports \in Seq(Handles \X Statuses)
  BY DEF RoomFor, TypeOK
<1>2. ASSUME NEW e \in Q, NEW d \in GoodPlans(D), NEW a \in ToSet(queue), NEW f \in Pointers,
             NEW g \in Fragments, MayCarry(e, p, a, exact), Adds(e, d, p, a, f, g)
      PROVE  d \in Q
  <2>1. a \in D /\ e \in GoodPlans(D)  BY <1>1, Elements DEF ToSet
  <2>2. now + MaxEncodingTime \in Int  BY NumbersAre
  <2>3. ASSUME NEW l \in B PROVE NoRoom(now + MaxEncodingTime, d.info, aqs[l], l)
    <3>1. l \in Links /\ aqs[l] \in Seq(D)  OBVIOUS
    <3>2. NoRoom(now + MaxEncodingTime, e.info, aqs[l], l)  BY DEF RoomFor
    <3>. QED BY <1>2, <2>1, <2>2, <3>1, <3>2, AddsNoRoom
  <2>. QED BY <2>3 DEF RoomFor
<1> HIDE DEF Q
<1>3. generateFragmentsForPackage(plan, p, queue, exact) \in Q  BY <1>1, <1>2, FillKeeps
<1> QED BY <1>3 DEF Q

\* The links planning finds full have no room.
LEMMA AllRoomFor ==
    ASSUME TypeOK, NEW D, D \subseteq Actions,
           NEW plan \in GoodPlans(D), NEW marked, NEW aqs \in [Links -> Seq(D)],
           NEW queues \in [Links -> Seq(Packages)],
           \A l \in Links : \A p \in ToSet(queues[l]) : Route[p] = l,
           NEW r, r = generateFragmentsForAllPackages(plan, marked, aqs, queues)
    PROVE  \A l \in r.full : NoRoom(now + MaxEncodingTime, r.info, aqs[l], l)
<1> DEFINE Q == {e \in GoodPlans(D) : \A l \in e.full : NoRoom(now + MaxEncodingTime, e.info, aqs[l], l)}
<1>1. Q \subseteq GoodPlans(D) /\ reports \in Seq(Handles \X Statuses)  BY DEF TypeOK
<1>2. Cleared(plan, marked, aqs) \in Q
  <2>1. Cleared(plan, marked, aqs).full = {}  BY DEF Cleared
  <2>. QED BY <2>1, ClearedIs
<1>3. ASSUME NEW e \in Q, NEW d \in GoodPlans(D), NEW m \in Links, NEW p \in ToSet(queues[m]),
             NEW a \in ToSet(aqs[m]), NEW f \in Pointers,
             NEW g \in Fragments, MayCarry(e, p, a, NoAction), Adds(e, d, p, a, f, g)
      PROVE  d \in Q
  <2>1. a \in D /\ p \in Packages /\ e \in GoodPlans(D)
    <3>1. aqs[m] \in Seq(D) /\ queues[m] \in Seq(Packages)  OBVIOUS
    <3>. QED BY <1>1, <3>1, Elements DEF ToSet
  <2>2. now + MaxEncodingTime \in Int /\ d.full = e.full /\ e.full \subseteq Links
    BY <1>3, <2>1, NumbersAre DEF Adds, GoodPlans, PlansOf
  <2>3. ASSUME NEW l \in d.full PROVE NoRoom(now + MaxEncodingTime, d.info, aqs[l], l)
    <3>1. l \in Links /\ aqs[l] \in Seq(D)  BY <2>2
    <3>2. NoRoom(now + MaxEncodingTime, e.info, aqs[l], l)  BY <2>2
    <3>. QED BY <1>3, <2>1, <2>2, <3>1, <3>2, AddsNoRoom
  <2>. QED BY <2>3
<1>4. ASSUME NEW e \in Q, NEW l \in Links, NEW p \in ToSet(queues[l]), ~Planned(e, p),
             \A k \in DOMAIN aqs[l] : ~MayCarry(e, p, aqs[l][k], NoAction)
      PROVE  [info |-> e.info, parts |-> e.parts, full |-> e.full \union {l}] \in Q
  <2> DEFINE d == [info |-> e.info, parts |-> e.parts, full |-> e.full \union {l}]
  <2>1. e \in GoodPlans(D) /\ e.full \subseteq Links  BY DEF GoodPlans, PlansOf
  <2>2. d \in GoodPlans(D)  BY <2>1 DEF GoodPlans, PlansOf
  <2>3. Route[p] = l  OBVIOUS
  <2>4. NoRoom(now + MaxEncodingTime, e.info, aqs[l], l)
    BY <1>4, <2>3 DEF NoRoom, MayCarry
  <2>5. \A m \in e.full : NoRoom(now + MaxEncodingTime, e.info, aqs[m], m)  OBVIOUS
  <2>6. \A m \in d.full : NoRoom(now + MaxEncodingTime, d.info, aqs[m], m)  BY <2>4, <2>5
  <2>. QED BY <2>2, <2>6
<1> HIDE DEF Q
<1>5. r \in Q  BY <1>1, <1>2, <1>3, <1>4, AssignKeeps
<1> QED BY <1>5 DEF Q

LEMMA ReplanRoomFor ==
    ASSUME TypeOK, Whole(parts), OwnQueues, NEW D, D \subseteq Actions, NEW i \in [D -> ActionInfo]
    PROVE  \A l \in Replan(i).full :
              NoRoom(now + MaxEncodingTime, Replan(i).info, updateLinkTimelines(i)[l], l)
<1> DEFINE e == [Plan EXCEPT !.info = i]
           marked == UNION {HandlesOf(info[a].fragments) : a \in DOMAIN info \ DOMAIN i}
           aqs == updateLinkTimelines(i)
           r == generateFragmentsForAllPackages(e, marked, aqs, packageQueue)
<1>1. e = [info |-> i, parts |-> parts, full |-> {}]  BY DEF Plan
<1>2. e \in GoodPlans(D)  BY <1>1 DEF TypeOK, GoodPlans, PlansOf
<1>3. aqs \in [Links -> Seq(D)]  BY TimelineIs
<1>4. packageQueue \in [Links -> Seq(Packages)]  BY DEF TypeOK
<1>5. Replan(i) = r  BY DEF Replan
<1>6. \A l \in Links : \A p \in ToSet(packageQueue[l]) : Route[p] = l  BY DEF OwnQueues
<1>7. \A x : x = r => \A l \in x.full : NoRoom(now + MaxEncodingTime, x.info, aqs[l], l)
  <2> HIDE DEF e, marked, aqs
  <2>. QED BY <1>2, <1>3, <1>4, <1>6, AllRoomFor
<1> HIDE DEF r
<1> QED BY <1>5, <1>7

\* What a step leaves to show of the connections held back.
LEMMA BlockedIs ==
    /\ BlockedOnlyWhenFull => \A l \in blocked : NoRoom(now + MaxEncodingTime, info, actionQueue[l], l)
    /\ (\A l \in blocked' : NoRoom(now' + MaxEncodingTime, info', actionQueue'[l], l))
       => BlockedOnlyWhenFull'
<1>1. BlockedOnlyWhenFull => \A l \in blocked : NoRoom(now + MaxEncodingTime, info, actionQueue[l], l)
  BY DEF BlockedOnlyWhenFull, NoRoom
<1>2. (\A l \in blocked' : NoRoom(now' + MaxEncodingTime, info', actionQueue'[l], l))
      => BlockedOnlyWhenFull'
  BY DEF BlockedOnlyWhenFull, NoRoom
<1> QED BY <1>1, <1>2

BlockInv == EncodedInTime /\ BlockedOnlyWhenFull

LEMMA WindowPlanned ==
    ASSUME TypeOK, EncodedInTime, NEW D, D \subseteq Actions, NEW i \in [D -> ActionInfo],
           \A a \in DOMAIN info : info[a].time <= now + MaxEncodingTime => a \in D,
           \A a \in D : /\ a \in DOMAIN info => i[a].time = info[a].time /\ i[a].enc = info[a].enc
                        /\ a \notin DOMAIN info => i[a].enc = "UNENCODED",
           NEW e \in SameTimes(D, i), info' = e.info, now' = now, encoder' = encoder
    PROVE  EncodedInTime'
<1>1. e.info \in [D -> ActionInfo] /\ \A a \in D : e.info[a].time = i[a].time /\ e.info[a].enc = i[a].enc
  BY PlanParts
<1>2. DOMAIN info' = D  BY <1>1
<1>3. \A a \in DOMAIN info' : info'[a].enc # "UNENCODED" => info'[a].time <= now' + MaxEncodingTime
  BY <1>1, <1>2 DEF EncodedInTime
<1>4. \A a \in DOMAIN encoder' : a \in DOMAIN info' /\ info'[a].time <= now' + MaxEncodingTime
  BY <1>1, <1>2 DEF EncodedInTime
<1> QED BY <1>3, <1>4 DEF EncodedInTime

LEMMA BlockFetch == TypeInv /\ ReportInv /\ BlockInv /\ FetchTimeline => BlockInv'
<1> SUFFICES ASSUME TypeInv, ReportInv, BlockInv, FetchTimeline PROVE BlockInv'  OBVIOUS
<1>1. PICK D \in SUBSET Actions : \E i \in [D -> ActionInfo] :
          /\ \A a \in DOMAIN info : info[a].time <= now + MaxEncodingTime => a \in D
          /\ \A a \in D : /\ a \in DOMAIN info => i[a] = info[a]
                          /\ a \notin DOMAIN info => i[a].enc = "UNENCODED"
          /\ info' = Replan(i).info /\ actionQueue' = updateLinkTimelines(i)
          /\ blocked' = StillBlocked(Replan(i)) /\ now' = now /\ encoder' = encoder
  BY FetchIs
<1>2. PICK i \in [D -> ActionInfo] :
          /\ \A a \in DOMAIN info : info[a].time <= now + MaxEncodingTime => a \in D
          /\ \A a \in D : /\ a \in DOMAIN info => i[a] = info[a]
                          /\ a \notin DOMAIN info => i[a].enc = "UNENCODED"
          /\ info' = Replan(i).info /\ actionQueue' = updateLinkTimelines(i)
          /\ blocked' = StillBlocked(Replan(i)) /\ now' = now /\ encoder' = encoder
  BY <1>1
<1>3. TypeOK /\ Whole(parts) /\ OwnQueues /\ EncodedInTime  BY DEF TypeInv, ReportInv, BlockInv
<1>4. Replan(i) \in SameTimes(D, i)  BY <1>3, ReplanIs
<1>5. EncodedInTime'  BY <1>2, <1>3, <1>4, WindowPlanned
<1>6. \A l \in Replan(i).full :
          NoRoom(now + MaxEncodingTime, Replan(i).info, updateLinkTimelines(i)[l], l)
  BY <1>3, ReplanRoomFor
<1>7. \A l \in blocked' : NoRoom(now' + MaxEncodingTime, info', actionQueue'[l], l)
  BY <1>2, <1>6 DEF StillBlocked
<1> QED BY <1>5, <1>7, BlockedIs DEF BlockInv

LEMMA BlockSend ==
    ASSUME TypeInv, ReportInv, BlockInv, NEW p \in Packages, NEW r \in Reactive \union {NoAction},
           SendPackage(p, r)
    PROVE  BlockInv'
<1> DEFINE i == SendTimeline(r)
           D == DOMAIN i
           l == Route[p]
           aqs == SendQueues(r)
           base == SendBase(r)
           B == SendHeld(r)
           t == now + MaxEncodingTime
<1>1. TypeOK /\ Whole(parts) /\ OwnQueues /\ EncodedInTime /\ BlockedOnlyWhenFull
  BY DEF TypeInv, ReportInv, BlockInv
<1>2. /\ r \in {NoAction} \union (Reactive \ (DOMAIN info \union DOMAIN held))
      /\ info' = SendPlan(p, r).info /\ actionQueue' = aqs
      /\ blocked' = IF SendFits(p, r) THEN B ELSE B \union {l}
      /\ now' = now /\ encoder' = encoder
  BY SendIs
<1>3. /\ D \subseteq Actions /\ i \in [D -> ActionInfo] /\ aqs \in [Links -> Seq(D)]
      /\ base \in SameTimes(D, i) /\ SendPlan(p, r) \in SameTimes(D, i)
  BY <1>2, SendTimelineIs
<1>4. /\ \A a \in DOMAIN info : a \in D
      /\ \A a \in D : /\ a \in DOMAIN info => i[a].time = info[a].time /\ i[a].enc = info[a].enc
                      /\ a \notin DOMAIN info => i[a].enc = "UNENCODED"
  <2>1. CASE r = NoAction  BY <2>1 DEF SendTimeline
  <2>2. CASE r # NoAction
    <3> DEFINE c == createActionInfo(r, now + MaxEncodingTime)
    <3>1. i = [a \in DOMAIN info \union {r} |-> IF a = r THEN c ELSE info[a]]
      BY <2>2 DEF SendTimeline, With
    <3>2. r \in Actions /\ now + MaxEncodingTime \in Times  BY <1>1, <2>2, NumbersAre DEF Actions
    <3>3. c.enc = "UNENCODED"  BY <3>2, CreatedIs
    <3>4. r \notin DOMAIN info  BY <1>2, <2>2
    <3> HIDE DEF i, c
    <3>. QED BY <3>1, <3>3, <3>4
  <2>. QED BY <2>1, <2>2
<1> HIDE DEF i, D, aqs, base, B
<1>5. EncodedInTime'
  <2> DEFINE e == SendPlan(p, r)
  <2>1. e \in SameTimes(D, i) /\ info' = e.info  BY <1>2, <1>3
  <2> HIDE DEF e
  <2>2. \A a \in DOMAIN info : info[a].time <= now + MaxEncodingTime => a \in D  BY <1>4
  <2>. QED BY <1>1, <1>2, <1>3, <1>4, <2>1, <2>2, WindowPlanned
<1>6. B \subseteq Links /\ l \in Links
  BY <1>1, PackagesAssumption DEF B, SendHeld, StillBlocked, TypeOK
<1>7. base \in RoomFor(D, B, aqs)
  <2>1. base \in GoodPlans(D)  BY <1>3, PlanParts
  <2>2. ASSUME NEW m \in B PROVE NoRoom(t, base.info, aqs[m], m)
    <3>1. CASE r = NoAction
      <4>1. base.info = info /\ aqs = actionQueue /\ B = blocked
        BY <3>1 DEF base, aqs, B, SendBase, SendQueues, SendHeld, Plan
      <4>. QED BY <1>1, <2>2, <4>1, BlockedIs
    <3>2. CASE r # NoAction
      <4>1. base = Replan(i) /\ aqs = updateLinkTimelines(i) /\ B = blocked \intersect Replan(i).full
        BY <3>2 DEF base, aqs, B, i, SendBase, SendQueues, SendHeld, StillBlocked
      <4>2. \A k \in Replan(i).full : NoRoom(t, Replan(i).info, updateLinkTimelines(i)[k], k)
        BY <1>1, <1>3, ReplanRoomFor
      <4>. QED BY <2>2, <4>1, <4>2
    <3>. QED BY <3>1, <3>2
  <2>. QED BY <2>1, <2>2 DEF RoomFor
<1>8. CASE SendFits(p, r)
  <2>1. SendPlan(p, r) = generateFragmentsForPackage(base, p, aqs[l], r)
    BY <1>8 DEF SendPlan, base, aqs
  <2>2. generateFragmentsForPackage(base, p, aqs[l], r) \in RoomFor(D, B, aqs)
    <3>1. aqs[l] \in Seq(D)  BY <1>3, <1>6
    <3>. QED BY <1>1, <1>3, <1>6, <1>7, <3>1, OneRoomFor
  <2>3. \A m \in blocked' : NoRoom(now' + MaxEncodingTime, info', actionQueue'[m], m)
    BY <1>2, <1>8, <2>1, <2>2 DEF RoomFor
  <2>. QED BY <1>5, <2>3, BlockedIs DEF BlockInv
<1>9. CASE ~SendFits(p, r)
  <2>1. SendPlan(p, r) = base /\ ~isPackageAbleToFit(base, aqs[l], l)
    BY <1>9 DEF SendPlan, SendFits, base, aqs
  <2>2. NoRoom(t, base.info, aqs[l], l)  BY <2>1 DEF NoRoom, isPackageAbleToFit
  <2>3. \A m \in blocked' : NoRoom(now' + MaxEncodingTime, info', actionQueue'[m], m)
    BY <1>2, <1>7, <1>9, <2>1, <2>2 DEF RoomFor
  <2>. QED BY <1>5, <2>3, BlockedIs DEF BlockInv
<1> QED BY <1>8, <1>9

\* The actions change only in what makes less room in them.
LEMMA BlockSame ==
    ASSUME TypeInv, BlockInv, blocked' = blocked, now' \in Int, now <= now',
           NEW D, D \subseteq DOMAIN info, D = DOMAIN info',
           \A l \in Links : /\ actionQueue'[l] \in Seq(D)
                            /\ \A a \in ToSet(actionQueue'[l]) : a \in ToSet(actionQueue[l]),
           \A a \in D : /\ info'[a].time = info[a].time /\ info'[a].link = info[a].link
                        /\ isActionAbleToFit(info'[a]) => isActionAbleToFit(info[a])
    PROVE  BlockedOnlyWhenFull'
<1>1. TypeOK /\ QueuesSorted  BY DEF TypeInv
<1>2. now + MaxEncodingTime \in Int /\ now' + MaxEncodingTime \in Int
      /\ now + MaxEncodingTime <= now' + MaxEncodingTime /\ Times \subseteq Nat
  BY <1>1, NumbersAre
<1>3. ASSUME NEW l \in blocked'
      PROVE  NoRoom(now' + MaxEncodingTime, info', actionQueue'[l], l)
  <2> DEFINE q == actionQueue'[l]
             r == actionQueue[l]
  <2>1. l \in Links /\ NoRoom(now + MaxEncodingTime, info, r, l)
    BY <1>1, BlockedIs DEF TypeOK, BlockInv
  <2>2. q \in Seq(D) /\ \A a \in ToSet(q) : a \in ToSet(r)  BY <2>1
  <2>3. DOMAIN q = 1 .. Len(q) /\ \A k \in DOMAIN q : q[k] \in D  BY <2>2, Elements
  <2>4. \A k \in DOMAIN q : \E j \in DOMAIN r : r[j] = q[k]  BY <2>2 DEF ToSet
  <2>5. \A a \in D : info[a].time \in Int  BY <1>1, <1>2 DEF TypeOK, ActionInfo
  <2> HIDE DEF q, r
  <2>6. NoRoom(now' + MaxEncodingTime, info', q, l)
    <3>1. ASSUME NEW k \in DOMAIN q, info'[q[k]].time > now' + MaxEncodingTime,
                 info'[q[k]].link \in {l, NoLink}, isActionAbleToFit(info'[q[k]])
          PROVE  FALSE
      <4>1. PICK j \in DOMAIN r : r[j] = q[k]  BY <2>4
      <4>2. q[k] \in D  BY <2>3
      <4>3. /\ info[r[j]].time > now + MaxEncodingTime /\ info[r[j]].link \in {l, NoLink}
            /\ isActionAbleToFit(info[r[j]])
        BY <1>2, <2>5, <3>1, <4>1, <4>2
      <4>. QED BY <2>1, <4>3 DEF NoRoom
    <3>. QED BY <3>1 DEF NoRoom
  <2>. QED BY <2>6 DEF q
<1> QED BY <1>3, BlockedIs

LEMMA FitsIs ==
    ASSUME NEW i, NEW j, isActionAbleToFit(j),
           j.enc # "UNENCODED" \/ (i.enc = j.enc /\ i.fragments = j.fragments)
    PROVE  isActionAbleToFit(i) /\ j.enc = "UNENCODED"
<1>1. j.enc = "UNENCODED"
  <2>1. ASSUME j.enc # "UNENCODED" PROVE FALSE
    <3>1. spaceAvailableInAction(j) = 0  BY <2>1 DEF spaceAvailableInAction
    <3>. QED BY <3>1 DEF isActionAbleToFit
  <2>. QED BY <2>1
<1>2. spaceAvailableInAction(i) = spaceAvailableInAction(j)  BY <1>1 DEF spaceAvailableInAction
<1> QED BY <1>1, <1>2 DEF isActionAbleToFit

LEMMA TailElements ==
    ASSUME NEW T, NEW q \in Seq(T), q # <<>>, NEW a \in ToSet(Tail(q))
    PROVE  a \in ToSet(q)
<1> DEFINE t == Tail(q)
<1>1. t \in Seq(T) /\ Len(t) = Len(q) - 1 /\ \A k \in 1 .. Len(t) : t[k] = q[k + 1]
  BY HeadTailProperties
<1>2. DOMAIN q = 1 .. Len(q) /\ Len(q) \in Nat /\ DOMAIN t = 1 .. Len(t) /\ Len(t) \in Nat
  BY <1>1, Elements
<1>3. PICK k \in DOMAIN t : t[k] = a  BY DEF ToSet
<1> HIDE DEF t
<1>4. k + 1 \in DOMAIN q /\ q[k + 1] = a  BY <1>1, <1>2, <1>3
<1> QED BY <1>4 DEF ToSet

LEMMA BlockEncode == TypeInv /\ BlockInv /\ EncodeActions => BlockInv'
<1> SUFFICES ASSUME TypeInv, BlockInv, EncodeActions PROVE BlockInv'  OBVIOUS
<1> DEFINE due == {a \in DOMAIN info : /\ info[a].time >= nextEncodeTime
                                       /\ info[a].time <= now + MaxEncodingTime}
           started == {a \in due : info[a].enc = "UNENCODED"}
<1>1. /\ info' = [a \in DOMAIN info |-> IF a \in started THEN [info[a] EXCEPT !.enc = "ENCODING"]
                                        ELSE info[a]]
      /\ DOMAIN encoder' = DOMAIN encoder \union started
      /\ actionQueue' = actionQueue /\ blocked' = blocked /\ now' = now
  <2> DEFINE number(a) == LET l == info[a].link
                          IN  IF l \notin Links THEN 0
                              ELSE fragmentCount[l] + Cardinality(
                                  {b \in {c \in due : info[c].fragments # <<>> /\ info[c].link = l} :
                                      Before(info, b, a)})
  <2>1. /\ info' = [a \in DOMAIN info |-> IF a \in started THEN [info[a] EXCEPT !.enc = "ENCODING"]
                                          ELSE info[a]]
        /\ encoder' = [a \in DOMAIN encoder \union started |->
                           IF a \in started THEN Content(a, number(a)) ELSE encoder[a]]
        /\ UNCHANGED <<now, actionQueue, blocked>>
    BY Zenon DEF EncodeActions
  <2> HIDE DEF number
  <2>. QED BY <2>1
<1>2. TypeOK /\ EncodedInTime /\ QueuesSorted /\ BlockedOnlyWhenFull  BY DEF TypeInv, BlockInv
<1>3. started \subseteq DOMAIN info /\ \A a \in started : info[a].time <= now + MaxEncodingTime
  OBVIOUS
<1> HIDE DEF due, started
<1>4. DOMAIN info' = DOMAIN info /\ \A a \in DOMAIN info :
          /\ info'[a].time = info[a].time /\ info'[a].link = info[a].link
          /\ a \in started => info'[a].enc = "ENCODING"
          /\ a \notin started => info'[a] = info[a]
  <2>1. \A a \in DOMAIN info : info[a] \in ActionInfo  BY <1>2 DEF TypeOK
  <2>2. ASSUME NEW a \in DOMAIN info
        PROVE  /\ [info[a] EXCEPT !.enc = "ENCODING"].time = info[a].time
               /\ [info[a] EXCEPT !.enc = "ENCODING"].link = info[a].link
               /\ [info[a] EXCEPT !.enc = "ENCODING"].enc = "ENCODING"
    BY <2>1 DEF ActionInfo
  <2>. QED BY <1>1, <2>2
<1>5. EncodedInTime'
  <2>1. \A a \in DOMAIN info' : info'[a].enc # "UNENCODED" => info'[a].time <= now' + MaxEncodingTime
    BY <1>1, <1>2, <1>3, <1>4 DEF EncodedInTime
  <2>2. DOMAIN encoder' \subseteq DOMAIN info'
        /\ \A a \in DOMAIN encoder' : info'[a].time <= now' + MaxEncodingTime
    BY <1>1, <1>2, <1>3, <1>4 DEF EncodedInTime
  <2>. QED BY <2>1, <2>2 DEF EncodedInTime
<1>6. BlockedOnlyWhenFull'
  <2>1. now' \in Int /\ now <= now'  BY <1>1, <1>2, NumbersAre
  <2>2. \A a \in DOMAIN info : isActionAbleToFit(info'[a]) => isActionAbleToFit(info[a])
    BY <1>4, FitsIs
  <2>3. \A l \in Links : /\ actionQueue'[l] \in Seq(DOMAIN info)
                         /\ \A a \in ToSet(actionQueue'[l]) : a \in ToSet(actionQueue[l])
    BY <1>1, <1>2 DEF QueuesSorted
  <2>. QED BY <1>1, <1>4, <2>1, <2>2, <2>3, BlockSame
<1> QED BY <1>5, <1>6 DEF BlockInv

LEMMA BlockEncoded ==
    ASSUME TypeInv, BlockInv, NEW a \in Actions, OnBytesEncoded(a)
    PROVE  BlockInv'
<1>1. /\ a \in DOMAIN encoder /\ encoder' = Without(encoder, {a})
      /\ \/ info' = [info EXCEPT ![a].enc = "ENQUEUED"]
         \/ info' = info
      /\ actionQueue' = actionQueue /\ blocked' = blocked /\ now' = now
  BY DEF OnBytesEncoded
<1>2. TypeOK /\ EncodedInTime /\ QueuesSorted  BY DEF TypeInv, BlockInv
<1>3. a \in DOMAIN info /\ info[a].time <= now + MaxEncodingTime /\ info \in [DOMAIN info -> ActionInfo]
  BY <1>1, <1>2 DEF EncodedInTime, TypeOK
<1>4. DOMAIN info' = DOMAIN info /\ \A b \in DOMAIN info :
          /\ info'[b].time = info[b].time /\ info'[b].link = info[b].link
          /\ info'[b] = info[b] \/ (b = a /\ info'[b].enc = "ENQUEUED")
  <2>1. CASE info' = info  BY <2>1
  <2>2. CASE info' = [info EXCEPT ![a].enc = "ENQUEUED"]
    <3>1. /\ [info[a] EXCEPT !.enc = "ENQUEUED"].time = info[a].time
          /\ [info[a] EXCEPT !.enc = "ENQUEUED"].link = info[a].link
          /\ [info[a] EXCEPT !.enc = "ENQUEUED"].enc = "ENQUEUED"
      BY <1>3 DEF ActionInfo
    <3>2. DOMAIN info' = DOMAIN info /\ \A b \in DOMAIN info :
              info'[b] = IF b = a THEN [info[a] EXCEPT !.enc = "ENQUEUED"] ELSE info[b]
      BY <2>2
    <3>. QED BY <3>1, <3>2
  <2>. QED BY <1>1, <2>1, <2>2
<1>5. EncodedInTime'
  <2>1. \A b \in DOMAIN info' : info'[b].enc # "UNENCODED" => info'[b].time <= now' + MaxEncodingTime
    BY <1>1, <1>2, <1>3, <1>4 DEF EncodedInTime
  <2>2. DOMAIN encoder' \subseteq DOMAIN encoder  BY <1>1 DEF Without
  <2>3. DOMAIN encoder' \subseteq DOMAIN info'
        /\ \A b \in DOMAIN encoder' : info'[b].time <= now' + MaxEncodingTime
    BY <1>1, <1>2, <1>4, <2>2 DEF EncodedInTime
  <2>. QED BY <2>1, <2>3 DEF EncodedInTime
<1>6. BlockedOnlyWhenFull'
  <2>1. now' \in Int /\ now <= now'  BY <1>1, <1>2, NumbersAre
  <2>2. \A b \in DOMAIN info : isActionAbleToFit(info'[b]) => isActionAbleToFit(info[b])
    BY <1>4, FitsIs
  <2>3. \A l \in Links : /\ actionQueue'[l] \in Seq(DOMAIN info)
                         /\ \A b \in ToSet(actionQueue'[l]) : b \in ToSet(actionQueue[l])
    BY <1>1, <1>2 DEF QueuesSorted
  <2>. QED BY <1>1, <1>4, <2>1, <2>2, <2>3, BlockSame
<1> QED BY <1>5, <1>6 DEF BlockInv

LEMMA BlockDo == TypeInv /\ BlockInv /\ DoAction => BlockInv'
<1> SUFFICES ASSUME TypeInv, BlockInv, DoAction PROVE BlockInv'  OBVIOUS
<1> DEFINE a == FirstAction
           D == DOMAIN info \ {a}
<1>1. /\ info # <<>> /\ encoder' = Without(encoder, {a}) /\ info' = Without(info, {a})
      /\ actionQueue' = [l \in Links |-> Popped(l)] /\ blocked' = blocked /\ now' = now
  BY DoIs
<1>2. TypeOK /\ EncodedInTime /\ QueuesSorted  BY DEF TypeInv, BlockInv
<1> HIDE DEF a
<1>3. /\ DOMAIN info' = D /\ \A b \in D : info'[b] = info[b]
      /\ DOMAIN encoder' = DOMAIN encoder \ {a}
  BY <1>1 DEF Without
<1>4. EncodedInTime'
  <2>1. \A b \in DOMAIN info' : info'[b].enc # "UNENCODED" => info'[b].time <= now' + MaxEncodingTime
    BY <1>1, <1>2, <1>3 DEF EncodedInTime
  <2>2. DOMAIN encoder' \subseteq DOMAIN info'
        /\ \A b \in DOMAIN encoder' : info'[b].time <= now' + MaxEncodingTime
    BY <1>1, <1>2, <1>3 DEF EncodedInTime
  <2>. QED BY <2>1, <2>2 DEF EncodedInTime
<1>5. BlockedOnlyWhenFull'
  <2>1. now' \in Int /\ now <= now'  BY <1>1, <1>2, NumbersAre
  <2>2. QueuesSorted'  BY TypeDo DEF TypeInv
  <2>3. ASSUME NEW l \in Links
        PROVE  /\ actionQueue'[l] \in Seq(D)
               /\ \A b \in ToSet(actionQueue'[l]) : b \in ToSet(actionQueue[l])
    <3>1. actionQueue'[l] \in Seq(D)  BY <1>3, <2>2 DEF QueuesSorted
    <3>2. actionQueue[l] \in Seq(DOMAIN info)  BY <1>2 DEF QueuesSorted
    <3>3. actionQueue'[l] = Popped(l)  BY <1>1
    <3>4. Popped(l) = actionQueue[l] \/ (actionQueue[l] # <<>> /\ Popped(l) = Tail(actionQueue[l]))
      BY DEF Popped
    <3>. QED BY <3>1, <3>2, <3>3, <3>4, TailElements
  <2>4. D \subseteq DOMAIN info /\ D = DOMAIN info'  BY <1>3
  <2>5. \A b \in D : /\ info'[b].time = info[b].time /\ info'[b].link = info[b].link
                     /\ isActionAbleToFit(info'[b]) => isActionAbleToFit(info[b])
    BY <1>3
  <2> HIDE DEF D
  <2>. QED BY <1>1, <2>1, <2>3, <2>4, <2>5, BlockSame
<1> QED BY <1>4, <1>5 DEF BlockInv

\* A step that leaves actions, queues and connections alone.
LEMMA BlockUnchanged ==
    ASSUME TypeInv, BlockInv, now' \in Int, now <= now',
           UNCHANGED <<info, encoder, actionQueue, blocked>>
    PROVE  BlockInv'
<1>1. TypeOK /\ EncodedInTime /\ QueuesSorted  BY DEF TypeInv, BlockInv
<1>2. EncodedInTime'
  <2>1. now \in Int /\ MaxEncodingTime \in Int /\ Times \subseteq Nat  BY <1>1, NumbersAre
  <2>2. \A a \in DOMAIN info : info[a].time \in Int  BY <1>1, <2>1 DEF TypeOK, ActionInfo
  <2>. QED BY <1>1, <2>1, <2>2 DEF EncodedInTime
<1>3. \A l \in Links : /\ actionQueue'[l] \in Seq(DOMAIN info)
                       /\ \A b \in ToSet(actionQueue'[l]) : b \in ToSet(actionQueue[l])
  BY <1>1 DEF QueuesSorted
<1>4. BlockedOnlyWhenFull'  BY <1>3, BlockSame
<1> QED BY <1>2, <1>4 DEF BlockInv

LEMMA BlockStatus == TypeInv /\ ReportInv /\ BlockInv /\ OnPackageStatusChanged => BlockInv'
<1> SUFFICES ASSUME TypeInv, ReportInv, BlockInv, OnPackageStatusChanged PROVE BlockInv'  OBVIOUS
<1>1. TypeOK /\ Whole(parts) /\ EncodedInTime /\ QueuesSorted /\ now \in Int
  BY NumbersAre DEF TypeInv, BlockInv
<1>2. now' = now /\ actionQueue' = actionQueue /\ encoder' = encoder  BY StatusIs
<1>3. ASSUME UNCHANGED <<info, blocked>> PROVE BlockInv'
  BY <1>1, <1>2, <1>3, BlockUnchanged
<1>4. ASSUME NEW p \in Packages, NEW freed, \E k \in DOMAIN parts[p] : TRUE,
             IF freed = {} THEN info' = Rest(p, freed).info /\ UNCHANGED blocked
             ELSE info' = Replanned(p, freed).info /\ blocked' = StillBlocked(Replanned(p, freed))
      PROVE  BlockInv'
  <2> DEFINE D == DOMAIN info
             R == Rest(p, freed)
             marked == UNION {HandlesOf(info[a].fragments) : a \in freed}
  <2>1. R \in SameTimes(D, info)
        /\ R = [info |-> FreedTimeline(freed), parts |-> [parts EXCEPT ![p] = <<>>], full |-> {}]
    BY RestIs
  <2>2. CASE freed = {}
    <3>1. info = [a \in DOMAIN info |-> info[a]]  BY <1>1 DEF TypeOK
    <3>2. FreedTimeline(freed) = [a \in DOMAIN info |-> info[a]]  BY <2>2 DEF FreedTimeline
    <3>3. info' = info /\ blocked' = blocked  BY <1>4, <2>1, <2>2, <3>1, <3>2
    <3>. QED BY <1>3, <3>3
  <2>3. CASE freed # {}
    <3> DEFINE r == Replanned(p, freed)
               aqs == [l \in Links |-> actionQueue[l]]
    <3>1. info' = r.info /\ blocked' = blocked \intersect r.full  BY <1>4, <2>3 DEF StillBlocked
    <3>2. r = generateFragmentsForAllPackages(R, marked, actionQueue, Dequeued(p))  BY DEF Replanned
    <3>3. D \subseteq Actions /\ info \in [D -> ActionInfo]
          /\ aqs \in [Links -> Seq(D)] /\ actionQueue = aqs
      BY <1>1 DEF TypeOK, QueuesSorted
    <3>4. R \in GoodPlans(D)  BY <2>1, PlanParts
    <3>5. p \in Queued
      <4>1. DOMAIN <<>> = {}  OBVIOUS
      <4>2. parts[p] # <<>>  BY <1>4, <4>1
      <4>. QED BY <4>2 DEF ReportInv
    <3>6. /\ Dequeued(p) \in [Links -> Seq(Packages)]
          /\ \A l \in Links : \A q \in ToSet(Dequeued(p)[l]) : Route[q] = l
      BY <1>1, <3>5, DequeuedIs DEF ReportInv
    <3> HIDE DEF R, D, marked, aqs
    <3>7. \A x : x = generateFragmentsForAllPackages(R, marked, aqs, Dequeued(p)) =>
              /\ x \in SameTimes(D, R.info)
              /\ \A l \in x.full : NoRoom(now + MaxEncodingTime, x.info, aqs[l], l)
      <4> DEFINE queues == Dequeued(p)
      <4>1. reports \in Seq(Handles \X Statuses)  BY <1>1 DEF TypeOK
      <4>2. queues \in [Links -> Seq(Packages)] /\ \A l \in Links : \A q \in ToSet(queues[l]) : Route[q] = l
        BY <3>6
      <4> HIDE DEF queues
      <4>3. generateFragmentsForAllPackages(R, marked, aqs, queues) \in SameTimes(D, R.info)
        BY <3>3, <3>4, <4>1, <4>2, AllPlanned
      <4>4. \A x : x = generateFragmentsForAllPackages(R, marked, aqs, queues) =>
                \A l \in x.full : NoRoom(now + MaxEncodingTime, x.info, aqs[l], l)
        BY <1>1, <3>3, <3>4, <4>2, AllRoomFor
      <4>. QED BY <4>3, <4>4 DEF queues
    <3> HIDE DEF r
    <3>8. /\ r \in SameTimes(D, R.info)
          /\ \A l \in r.full : NoRoom(now + MaxEncodingTime, r.info, aqs[l], l)
      BY <3>2, <3>3, <3>7
    <3>9. \A l \in blocked' : NoRoom(now' + MaxEncodingTime, info', actionQueue'[l], l)
      BY <1>2, <3>1, <3>3, <3>8
    <3>10. r \in SameTimes(D, info)  BY <2>1, <3>8 DEF SameTimes
    <3>11. EncodedInTime'
      <4>1. \A a \in DOMAIN info : a \in D  BY DEF D
      <4>. QED BY <1>1, <1>2, <3>1, <3>3, <3>10, <4>1, WindowPlanned
    <3>. QED BY <3>9, <3>11, BlockedIs DEF BlockInv
  <2>. QED BY <2>2, <2>3
<1>5. CASE \E p \in Packages :
              LET freed == Freed(Updated(p)) IN
              /\ \E k \in DOMAIN parts[p] : TRUE
              /\ IF freed = {} THEN info' = Rest(p, freed).info /\ UNCHANGED blocked
                 ELSE info' = Replanned(p, freed).info /\ blocked' = StillBlocked(Replanned(p, freed))
  BY <1>4, <1>5
<1>6. \/ UNCHANGED <<info, blocked>>
      \/ \E p \in Packages :
             LET freed == Freed(Updated(p)) IN
             /\ \E k \in DOMAIN parts[p] : TRUE
             /\ IF freed = {} THEN info' = Rest(p, freed).info /\ UNCHANGED blocked
                ELSE info' = Replanned(p, freed).info /\ blocked' = StillBlocked(Replanned(p, freed))
  BY StatusIs
<1> QED BY <1>3, <1>5, <1>6

LEMMA BlockDestroyed ==
    ASSUME Careful, TypeInv, BlockInv, NEW l \in Links, OnLinkDestroyed(l)
    PROVE  BlockInv'
<1> DEFINE hit == ToSet(actionQueue[l])
<1>1. /\ \A a \in hit : info[a].fragments # <<>> => info[a].link = l
      /\ encoder' = Without(encoder, hit)
      /\ info' = [a \in DOMAIN info |-> IF a \in hit
                    THEN [info[a] EXCEPT !.enc = "UNENCODED", !.fragments = <<>>] ELSE info[a]]
      /\ actionQueue' = [actionQueue EXCEPT ![l] = <<>>] /\ blocked' = blocked \ {l} /\ now' = now
  BY DEF OnLinkDestroyed
<1>2. TypeOK /\ EncodedInTime /\ QueuesSorted  BY DEF TypeInv, BlockInv
<1>3. info \in [DOMAIN info -> ActionInfo] /\ l \notin blocked' /\ l # NoLink
      /\ actionQueue \in [Links -> Seq(Actions)]
  BY <1>1, <1>2, PackagesAssumption DEF TypeOK
<1> HIDE DEF hit
<1>4. DOMAIN info' = DOMAIN info /\ \A a \in DOMAIN info :
          /\ info'[a].time = info[a].time /\ info'[a].link = info[a].link
          /\ a \notin hit => info'[a] = info[a]
          /\ a \in hit => info'[a].enc = "UNENCODED" /\ info'[a].fragments = <<>>
  <2>1. ASSUME NEW a \in DOMAIN info
        PROVE  LET i == [info[a] EXCEPT !.enc = "UNENCODED", !.fragments = <<>>]
               IN  i.time = info[a].time /\ i.link = info[a].link /\ i.enc = "UNENCODED" /\ i.fragments = <<>>
    <3>1. info[a] \in ActionInfo  BY <1>3
    <3>. QED BY <3>1 DEF ActionInfo
  <2>. QED BY <1>1, <2>1
<1>5. EncodedInTime'
  <2>1. \A a \in DOMAIN info' : info'[a].enc # "UNENCODED" => info'[a].time <= now' + MaxEncodingTime
    BY <1>1, <1>2, <1>4 DEF EncodedInTime
  <2>2. DOMAIN encoder' \subseteq DOMAIN encoder  BY <1>1 DEF Without
  <2>3. DOMAIN encoder' \subseteq DOMAIN info'
        /\ \A b \in DOMAIN encoder' : info'[b].time <= now' + MaxEncodingTime
    BY <1>1, <1>2, <1>4, <2>2 DEF EncodedInTime
  <2>. QED BY <2>1, <2>3 DEF EncodedInTime
<1>6. ASSUME NEW m \in blocked'
      PROVE  NoRoom(now' + MaxEncodingTime, info', actionQueue'[m], m)
  <2>1. m \in Links /\ m # l /\ m \in blocked  BY <1>1, <1>2 DEF TypeOK
  <2>2. actionQueue'[m] = actionQueue[m] /\ actionQueue[m] \in Seq(DOMAIN info)
    BY <1>1, <1>2, <1>3, <2>1 DEF QueuesSorted
  <2>3. NoRoom(now + MaxEncodingTime, info, actionQueue[m], m)  BY <2>1, BlockedIs DEF BlockInv
  <2>4. now + MaxEncodingTime \in Int /\ \A a \in DOMAIN info : info[a].time \in Int
    <3>1. now + MaxEncodingTime \in Int /\ Times \subseteq Nat  BY <1>2, NumbersAre
    <3>. QED BY <1>3, <3>1 DEF ActionInfo
  <2>5. ASSUME NEW a \in DOMAIN info, info'[a].time > now + MaxEncodingTime,
               info'[a].link \in {m, NoLink}, isActionAbleToFit(info'[a])
        PROVE  info[a].link \in {m, NoLink} /\ isActionAbleToFit(info[a])
    <3>1. CASE a \notin hit  BY <1>4, <2>5, <3>1
    <3>2. CASE a \in hit
      <4>1. info[a].enc = "UNENCODED"
        BY <1>2, <1>4, <2>4, <2>5 DEF EncodedInTime
      <4>2. info[a].fragments = <<>>  BY <1>1, <1>3, <1>4, <2>1, <2>5, <3>2
      <4>3. info'[a].enc = info[a].enc /\ info'[a].fragments = info[a].fragments
        BY <1>4, <3>2, <4>1, <4>2
      <4>. QED BY <1>4, <2>5, <4>3, FitsIs
    <3>. QED BY <3>1, <3>2
  <2>6. NoRoom(now + MaxEncodingTime, info', actionQueue[m], m)
    <3> DEFINE t == now + MaxEncodingTime
               j == info'
    <3>1. \A a \in DOMAIN info : /\ j[a].time \in Int /\ j[a].time = info[a].time
                                 /\ j[a].time > t /\ j[a].link \in {m, NoLink} /\ isActionAbleToFit(j[a])
                                    => info[a].link \in {m, NoLink} /\ isActionAbleToFit(info[a])
      BY <1>4, <2>4, <2>5
    <3>2. t \in Int /\ t <= t  BY <2>4
    <3> HIDE DEF t, j
    <3>3. NoRoom(t, info, actionQueue[m], m)  BY <2>3 DEF t
    <3>4. NoRoom(t, j, actionQueue[m], m)  BY <2>2, <3>1, <3>2, <3>3, NoRoomFits
    <3>. QED BY <3>4 DEF t, j
  <2>. QED BY <1>1, <2>2, <2>6
<1> QED BY <1>5, <1>6, BlockedIs DEF BlockInv

LEMMA BlockInit == Init => BlockInv
BY DEF Init, BlockInv, EncodedInTime, BlockedOnlyWhenFull

LEMMA BlockKept ==
    ASSUME Careful, TypeInv, ReportInv, BlockInv, [Next]_vars
    PROVE  BlockInv'
<1>1. now \in Int  BY NumbersAre DEF TypeInv
<1>2. CASE Tick
  <2>1. now' \in Int /\ now <= now' /\ UNCHANGED <<info, encoder, actionQueue, blocked>>
    BY <1>1, <1>2 DEF Tick, actionVars, packageVars
  <2>. QED BY <2>1, BlockUnchanged
<1>3. CASE FetchTimeline  BY <1>3, BlockFetch
<1>4. CASE EncodeActions  BY <1>4, BlockEncode
<1>5. CASE DoAction  BY <1>5, BlockDo
<1>6. CASE OnPackageStatusChanged  BY <1>6, BlockStatus
<1>7. CASE \E p \in Packages, r \in Reactive \union {NoAction} : SendPackage(p, r)  BY <1>7, BlockSend
<1>8. CASE \E a \in Actions : OnBytesEncoded(a)  BY <1>8, BlockEncoded
<1>9. ASSUME UNCHANGED <<now, info, encoder, actionQueue, blocked>> PROVE BlockInv'
  BY <1>1, <1>9, BlockUnchanged
<1>10. ASSUME NEW l \in Links, OnLinkCreated(l) \/ OnLinkDestroyed(l) \/ Receive(l) \/ Fault(l)
       PROVE  BlockInv'
  <2>1. CASE OnLinkCreated(l)  BY <1>9, <2>1 DEF OnLinkCreated, actionVars, packageVars
  <2>2. CASE OnLinkDestroyed(l)  BY <2>2, BlockDestroyed
  <2>3. CASE Receive(l)
    <3>1. UNCHANGED <<now, actionVars, packageVars>>  BY <2>3, Zenon DEF Receive
    <3>. QED BY <1>9, <3>1 DEF actionVars, packageVars
  <2>4. CASE Fault(l)  BY <1>9, <2>4 DEF Fault, actionVars, packageVars
  <2>. QED BY <1>10, <2>1, <2>2, <2>3, <2>4
<1>11. CASE UNCHANGED vars  BY <1>9, <1>11 DEF vars, actionVars, packageVars
<1> QED BY <1>2, <1>3, <1>4, <1>5, <1>6, <1>7, <1>8, <1>10, <1>11 DEF Next

(* A connection waits only while no action of its link that can still be    *)
(* planned has room: sendPackage blocks it, replanning lets it go once its  *)
(* link is no longer full, and nothing that happens in between makes room.  *)
(* When a link is destroyed that is so because its actions carry nothing of *)
(* another's packages, an order the code relies on (Careful).               *)
THEOREM BlockedCorrect == Careful => (Spec => []BlockedOnlyWhenFull)
<1> SUFFICES ASSUME Careful PROVE Spec => []BlockedOnlyWhenFull  OBVIOUS
<1>1. Init => TypeInv /\ ReportInv /\ BlockInv  BY TypeInit, ReportsInit, BlockInit
<1>2. TypeInv /\ ReportInv /\ BlockInv /\ [Next]_vars => (TypeInv /\ ReportInv /\ BlockInv)'
  BY TypeKept, ReportsKept, BlockKept
<1>3. BlockInv => BlockedOnlyWhenFull  BY DEF BlockInv
<1> QED BY <1>1, <1>2, <1>3, PTL DEF Spec

--------------------------------------------------------------------------------
(* What the managers know of each other.  The pointers between a timeline and *)
(* the packages go both ways, and the fragments of a package lie in the       *)
(* timeline in their order: only then does the package that loses a fragment, *)
(* and all after it, leave none of them in an action.                         *)

\* The fragments of a package follow each other from its beginning.
Tiles(pa) ==
    \A p \in Packages : \A k \in DOMAIN pa[p] :
        /\ pa[p][k].len > 0
        /\ k = 1 => pa[p][k].off = 0
        /\ k # 1 => pa[p][k].off = pa[p][k - 1].off + pa[p][k - 1].len

\* A handle is that of one fragment.
OneEach(pa) ==
    \A p, q \in Packages : \A j \in DOMAIN pa[p] : \A k \in DOMAIN pa[q] :
        pa[p][j].h = pa[q][k].h => p = q /\ j = k

\* What an action carries belongs to a package and points back.
PointBack(i, pa) ==
    \A a \in DOMAIN i : \A k \in DOMAIN i[a].fragments :
        \E j \in DOMAIN pa[i[a].fragments[k].pkg] :
            /\ pa[i[a].fragments[k].pkg][j].h = i[a].fragments[k].h
            /\ pa[i[a].fragments[k].pkg][j].action = a

\* A fragment is carried by its action, or was done and its report is among the
\* handles T or was counted.
Carried(i, pa, T) ==
    \A p \in Packages : \A k \in DOMAIN pa[p] :
        /\ pa[p][k].action = NoAction => pa[p][k].state \in {"SENT", "FAILED"} \/ pa[p][k].h \in T
        /\ pa[p][k].action # NoAction => /\ pa[p][k].action \in DOMAIN i
                                         /\ pa[p][k].h \in HandlesOf(i[pa[p][k].action].fragments)

\* What carries something does so for one link, in whose queue it is.
OnOneLink(i, qs) ==
    \A a \in DOMAIN i : \A k \in DOMAIN i[a].fragments :
        /\ i[a].link = Route[i[a].fragments[k].pkg]
        /\ a \in ToSet(qs[i[a].link])

InTimeOrder(i, pa) ==
    \A p \in Packages : \A j, k \in DOMAIN pa[p] :
        j < k /\ pa[p][j].action # NoAction
            => pa[p][k].action # NoAction /\ i[pa[p][j].action].time <= i[pa[p][k].action].time

\* Encoding has got to the time t.
NotYetEncoded(i, pa, t) ==
    \A p \in Packages : \A k \in DOMAIN pa[p] :
        pa[p][k].state = "UNENCODED" /\ pa[p][k].action # NoAction => i[pa[p][k].action].time > t

SoundPlan(i, pa, qs, T, t) ==
    /\ Tiles(pa) /\ OneEach(pa) /\ PointBack(i, pa) /\ Carried(i, pa, T)
    /\ OnOneLink(i, qs) /\ InTimeOrder(i, pa) /\ NotYetEncoded(i, pa, t)

\* What an action carries is some package's.
LEMMA PointerIs ==
    \A s \in Seq(Pointers) : \A k \in DOMAIN s : s[k].pkg \in Packages /\ s[k].h \in Handles
<1>1. ASSUME NEW s \in Seq(Pointers), NEW k \in DOMAIN s PROVE s[k] \in Pointers
  BY Elements
<1>2. \A x \in Pointers : x.pkg \in Packages /\ x.h \in Handles  BY DEF Pointers
<1> QED BY <1>1, <1>2

\* The handles of what an action carries.
LEMMA HandlesAre ==
    \A fs, h : h \in HandlesOf(fs) => fs # <<>> /\ \E k \in DOMAIN fs : fs[k].h = h
<1>1. ASSUME NEW fs, NEW h, h \in HandlesOf(fs) PROVE \E k \in DOMAIN fs : fs[k].h = h
  BY <1>1 DEF HandlesOf
<1>2. DOMAIN <<>> = {}  OBVIOUS
<1> QED BY <1>1, <1>2

\* An addition to a sound plan, after all that is planned of the package.
LEMMA AddsSound ==
    ASSUME NEW D, D \subseteq Actions, NEW e \in GoodPlans(D), NEW d \in GoodPlans(D),
           NEW p \in Packages, NEW a \in D, NEW exact, MayCarry(e, p, a, exact),
           NEW f \in Pointers, NEW g \in Fragments, Adds(e, d, p, a, f, g),
           NEW qs, NEW T, NEW t, SoundPlan(e.info, e.parts, qs, T, t),
           a \in ToSet(qs[Route[p]]), e.info[a].time > t,
           \A k \in DOMAIN e.parts[p] :
               e.parts[p][k].action # NoAction => e.info[e.parts[p][k].action].time <= e.info[a].time
    PROVE  SoundPlan(d.info, d.parts, qs, T, t)
<1> DEFINE fs == e.parts[p]
           n == Len(fs)
           ps == e.info[a].fragments
           m == Len(ps)
<1>1. /\ e.info \in [D -> ActionInfo] /\ e.parts \in [Packages -> Seq(Fragments)]
      /\ d.info \in [D -> ActionInfo] /\ d.parts \in [Packages -> Seq(Fragments)]
      /\ fs \in Seq(Fragments) /\ ps \in Seq(Pointers)
  BY DEF GoodPlans, PlansOf, ActionInfo
<1>2. /\ \A b \in D : d.info[b].time = e.info[b].time
      /\ \A b \in D \ {a} : d.info[b] = e.info[b]
      /\ d.info[a].link = Route[p] /\ d.info[a].fragments = Append(ps, f)
      /\ d.parts[p] = Append(fs, g)
      /\ \A q \in Packages \ {p} : d.parts[q] = e.parts[q]
  BY AddsShrinks
<1>3. /\ n \in Nat /\ DOMAIN fs = 1 .. n /\ DOMAIN d.parts[p] = 1 .. n + 1
      /\ d.parts[p][n + 1] = g /\ \A k \in 1 .. n : d.parts[p][k] = fs[k]
  BY <1>1, <1>2, AppendIs
<1>4. /\ m \in Nat /\ DOMAIN ps = 1 .. m /\ DOMAIN d.info[a].fragments = 1 .. m + 1
      /\ d.info[a].fragments[m + 1] = f /\ \A k \in 1 .. m : d.info[a].fragments[k] = ps[k]
  BY <1>1, <1>2, AppendIs
<1>5. /\ f.h = g.h /\ f.pkg = p /\ f.off = g.off /\ f.len = g.len /\ g.action = a
      /\ g.h \notin UsedHandles(e.parts) /\ g.off = Covered(fs) /\ g.len > 0
  BY DEF Adds
<1>6. a # NoAction /\ DOMAIN e.info = D /\ DOMAIN d.info = D
  BY <1>1, PackagesAssumption
<1> HIDE DEF fs, ps, n, m
<1>7. ASSUME NEW q \in Packages, NEW k \in DOMAIN d.parts[q]
      PROVE  (q = p /\ k = n + 1) \/ (k \in DOMAIN e.parts[q] /\ d.parts[q][k] = e.parts[q][k])
  <2>1. CASE q = p
    <3>1. k \in 1 .. n + 1 /\ e.parts[q] = fs  BY <1>3, <1>7, <2>1 DEF fs
    <3>2. k # n + 1 => k \in 1 .. n  BY <1>3, <3>1
    <3>. QED BY <1>3, <2>1, <3>1, <3>2
  <2>2. CASE q # p  BY <1>2, <1>7, <2>2
  <2>. QED BY <2>1, <2>2
<1>8. ASSUME NEW q \in Packages, NEW k \in DOMAIN e.parts[q]
      PROVE  k \in DOMAIN d.parts[q] /\ d.parts[q][k] = e.parts[q][k] /\ e.parts[q][k].h # g.h
  <2>1. k \in DOMAIN d.parts[q] /\ d.parts[q][k] = e.parts[q][k]  BY <1>2, <1>3 DEF fs
  <2>2. e.parts[q][k].h \in UsedHandles(e.parts)  BY DEF UsedHandles, HandlesOf
  <2>. QED BY <1>5, <2>1, <2>2
<1>9. Tiles(d.parts)
  <2>1. ASSUME NEW q \in Packages, NEW k \in DOMAIN d.parts[q]
        PROVE  /\ d.parts[q][k].len > 0
               /\ k = 1 => d.parts[q][k].off = 0
               /\ k # 1 => d.parts[q][k].off = d.parts[q][k - 1].off + d.parts[q][k - 1].len
    <3>1. CASE q = p /\ k = n + 1
      <4>1. g.off = IF fs = <<>> THEN 0 ELSE fs[n].off + fs[n].len
        BY <1>5 DEF Covered, Last, n
      <4>2. fs = <<>> <=> n = 0  BY <1>1, <1>3, EmptySeq DEF n, fs
      <4>3. n # 0 => d.parts[p][n] = fs[n]  BY <1>3
      <4>. QED BY <1>3, <1>5, <3>1, <4>1, <4>2, <4>3
    <3>2. CASE ~(q = p /\ k = n + 1)
      <4>1. k \in DOMAIN e.parts[q] /\ d.parts[q][k] = e.parts[q][k]  BY <1>7, <2>1, <3>2
      <4>2. e.parts[q] \in Seq(Fragments)  BY <1>1
      <4>3. k # 1 => k - 1 \in DOMAIN e.parts[q]  BY <4>1, <4>2, Elements
      <4>4. k # 1 => d.parts[q][k - 1] = e.parts[q][k - 1]  BY <1>8, <4>3
      <4>. QED BY <4>1, <4>4 DEF SoundPlan, Tiles
    <3>. QED BY <3>1, <3>2
  <2>. QED BY <2>1 DEF Tiles
<1>10. OneEach(d.parts)
  <2>1. ASSUME NEW q \in Packages, NEW r \in Packages, NEW j \in DOMAIN d.parts[q],
               NEW k \in DOMAIN d.parts[r], d.parts[q][j].h = d.parts[r][k].h
        PROVE  q = r /\ j = k
    <3>1. CASE j \in DOMAIN e.parts[q] /\ d.parts[q][j] = e.parts[q][j]
               /\ k \in DOMAIN e.parts[r] /\ d.parts[r][k] = e.parts[r][k]
      BY <2>1, <3>1 DEF SoundPlan, OneEach
    <3>2. CASE q = p /\ j = n + 1  BY <1>3, <1>7, <1>8, <2>1, <3>2
    <3>3. CASE r = p /\ k = n + 1  BY <1>3, <1>7, <1>8, <2>1, <3>3
    <3>. QED BY <1>7, <3>1, <3>2, <3>3
  <2>. QED BY <2>1 DEF OneEach
<1>11. PointBack(d.info, d.parts)
  <2>1. ASSUME NEW b \in D, NEW k \in DOMAIN d.info[b].fragments
        PROVE  \E j \in DOMAIN d.parts[d.info[b].fragments[k].pkg] :
                   /\ d.parts[d.info[b].fragments[k].pkg][j].h = d.info[b].fragments[k].h
                   /\ d.parts[d.info[b].fragments[k].pkg][j].action = b
    <3>1. CASE b = a /\ k = m + 1
      <4>1. n + 1 \in DOMAIN d.parts[p] /\ d.parts[p][n + 1] = g  BY <1>3
      <4>2. d.info[b].fragments[k] = f  BY <1>4, <3>1
      <4>3. f.pkg = p /\ g.h = f.h /\ g.action = b  BY <1>5, <3>1
      <4>4. \E j \in DOMAIN d.parts[f.pkg] : d.parts[f.pkg][j].h = f.h /\ d.parts[f.pkg][j].action = b
        BY <4>1, <4>3
      <4>. QED BY <4>2, <4>4
    <3>2. CASE ~(b = a /\ k = m + 1)
      <4> DEFINE x == e.info[b].fragments[k]
      <4>1. k \in DOMAIN e.info[b].fragments /\ d.info[b].fragments[k] = x
        <5>1. CASE b = a
          <6>1. k \in 1 .. m  BY <1>4, <2>1, <3>2, <5>1
          <6>. QED BY <1>4, <5>1, <6>1 DEF ps
        <5>2. CASE b # a  BY <1>2, <2>1, <5>2
        <5>. QED BY <5>1, <5>2
      <4>2. x.pkg \in Packages
        <5>1. e.info[b].fragments \in Seq(Pointers)  BY <1>1 DEF ActionInfo
        <5>. QED BY <4>1, <5>1, PointerIs
      <4>3. PICK j \in DOMAIN e.parts[x.pkg] : e.parts[x.pkg][j].h = x.h /\ e.parts[x.pkg][j].action = b
        BY <1>6, <4>1 DEF SoundPlan, PointBack
      <4> HIDE DEF x
      <4>. QED BY <1>8, <4>1, <4>2, <4>3
    <3>. QED BY <3>1, <3>2
  <2>. QED BY <1>6, <2>1 DEF PointBack
<1>12. \A b \in D : HandlesOf(e.info[b].fragments) \subseteq HandlesOf(d.info[b].fragments)
  <2>1. HandlesOf(ps) \subseteq HandlesOf(d.info[a].fragments)
    <3> DEFINE qs1 == d.info[a].fragments
    <3>1. \A k \in DOMAIN ps : k \in DOMAIN qs1 /\ qs1[k] = ps[k]  BY <1>4
    <3> HIDE DEF ps, qs1
    <3>. QED BY <3>1 DEF HandlesOf, qs1
  <2>. QED BY <1>2, <2>1 DEF ps
<1>13. Carried(d.info, d.parts, T)
  <2>1. ASSUME NEW q \in Packages, NEW k \in DOMAIN d.parts[q]
        PROVE  /\ d.parts[q][k].action = NoAction
                      => d.parts[q][k].state \in {"SENT", "FAILED"} \/ d.parts[q][k].h \in T
               /\ d.parts[q][k].action # NoAction
                      => /\ d.parts[q][k].action \in D
                         /\ d.parts[q][k].h \in HandlesOf(d.info[d.parts[q][k].action].fragments)
    <3>1. CASE q = p /\ k = n + 1
      <4>1. g.h \in HandlesOf(d.info[a].fragments)  BY <1>4, <1>5 DEF HandlesOf
      <4>. QED BY <1>3, <1>5, <1>6, <3>1, <4>1
    <3>2. CASE ~(q = p /\ k = n + 1)
      <4>1. k \in DOMAIN e.parts[q] /\ d.parts[q][k] = e.parts[q][k]  BY <1>7, <2>1, <3>2
      <4>. QED BY <1>6, <1>12, <4>1 DEF SoundPlan, Carried
    <3>. QED BY <3>1, <3>2
  <2>. QED BY <1>6, <2>1 DEF Carried
<1>14. OnOneLink(d.info, qs)
  <2>1. ASSUME NEW b \in D, NEW k \in DOMAIN d.info[b].fragments
        PROVE  /\ d.info[b].link = Route[d.info[b].fragments[k].pkg]
               /\ b \in ToSet(qs[d.info[b].link])
    <3>1. CASE b = a /\ k = m + 1  BY <1>2, <1>4, <1>5, <3>1
    <3>2. CASE b = a /\ k # m + 1
      <4>1. k \in DOMAIN ps /\ d.info[a].fragments[k] = ps[k]  BY <1>4, <2>1, <3>2
      <4>2. e.info[a].link = Route[ps[k].pkg]  BY <1>6, <4>1 DEF SoundPlan, OnOneLink, ps
      <4>3. ps[k].pkg \in Packages  BY <1>1, <4>1, PointerIs
      <4>4. Route[ps[k].pkg] \in Links /\ NoLink \notin Links  BY <4>3, PackagesAssumption
      <4>5. e.info[a].link = Route[p]  BY <4>2, <4>4 DEF MayCarry
      <4>. QED BY <1>2, <3>2, <4>1, <4>2, <4>5
    <3>3. CASE b # a  BY <1>2, <1>6, <2>1, <3>3 DEF SoundPlan, OnOneLink
    <3>. QED BY <3>1, <3>2, <3>3
  <2>. QED BY <1>6, <2>1 DEF OnOneLink
<1>15. ASSUME NEW q \in Packages, NEW k \in DOMAIN e.parts[q], e.parts[q][k].action # NoAction
       PROVE  e.parts[q][k].action \in D
  BY <1>6, <1>15 DEF SoundPlan, Carried
<1>16. InTimeOrder(d.info, d.parts)
  <2>1. ASSUME NEW q \in Packages, NEW j \in DOMAIN d.parts[q], NEW k \in DOMAIN d.parts[q],
               j < k, d.parts[q][j].action # NoAction
        PROVE  /\ d.parts[q][k].action # NoAction
               /\ d.info[d.parts[q][j].action].time <= d.info[d.parts[q][k].action].time
    <3>1. j \in DOMAIN e.parts[q] /\ d.parts[q][j] = e.parts[q][j]
      <4>1. ~(q = p /\ j = n + 1)  BY <1>3, <2>1
      <4>. QED BY <1>7, <4>1
    <3>2. d.info[d.parts[q][j].action].time = e.info[e.parts[q][j].action].time
      BY <1>2, <1>15, <2>1, <3>1
    <3>3. CASE q = p /\ k = n + 1
      <4>1. e.info[e.parts[q][j].action].time <= e.info[a].time  BY <2>1, <3>1, <3>3
      <4>. QED BY <1>2, <1>3, <1>5, <1>6, <3>2, <3>3, <4>1
    <3>4. CASE ~(q = p /\ k = n + 1)
      <4>1. k \in DOMAIN e.parts[q] /\ d.parts[q][k] = e.parts[q][k]  BY <1>7, <2>1, <3>4
      <4>2. /\ e.parts[q][k].action # NoAction
            /\ e.info[e.parts[q][j].action].time <= e.info[e.parts[q][k].action].time
        BY <2>1, <3>1, <4>1 DEF SoundPlan, InTimeOrder
      <4>. QED BY <1>2, <1>15, <3>2, <4>1, <4>2
    <3>. QED BY <3>3, <3>4
  <2>. QED BY <2>1 DEF InTimeOrder
<1>17. NotYetEncoded(d.info, d.parts, t)
  <2>1. ASSUME NEW q \in Packages, NEW k \in DOMAIN d.parts[q],
               d.parts[q][k].state = "UNENCODED", d.parts[q][k].action # NoAction
        PROVE  d.info[d.parts[q][k].action].time > t
    <3>1. CASE q = p /\ k = n + 1  BY <1>2, <1>3, <1>5, <3>1
    <3>2. CASE ~(q = p /\ k = n + 1)
      <4>1. k \in DOMAIN e.parts[q] /\ d.parts[q][k] = e.parts[q][k]  BY <1>7, <2>1, <3>2
      <4>2. e.info[e.parts[q][k].action].time > t  BY <2>1, <4>1 DEF SoundPlan, NotYetEncoded
      <4>. QED BY <1>2, <1>15, <2>1, <4>1, <4>2
    <3>. QED BY <3>1, <3>2
  <2>. QED BY <2>1 DEF NotYetEncoded
<1> QED BY <1>9, <1>10, <1>11, <1>13, <1>14, <1>16, <1>17 DEF SoundPlan

\* What is planned of a package is planned for actions past the window.
Past(i, fs) == \A k \in DOMAIN fs : fs[k].action # NoAction => i[fs[k].action].time <= now + MaxEncodingTime

\* No two actions take place at once.
OneAtATime(i) == \A a, b \in DOMAIN i : i[a].time = i[b].time => a = b

\* What the actions X carry.
CarriedBy(o, X) == UNION {HandlesOf(o[a].fragments) : a \in X}

AllPast(c) == \A q \in Packages : Past(c.info, c.parts[q])

\* The plan e is what is left of the timeline o, whose packages are pa, without the
\* actions X, or what they carry, and the packages not in W.  X are not past, only
\* they carry packages not in W, and each action left is in its queue of qs.
LeftOf(O, o, pa, X, W, D, e, T, qs) ==
    /\ OneAtATime(o) /\ X \subseteq O /\ \A a \in X : o[a].time >= now + MaxEncodingTime
    /\ \A a \in O \ X : \A k \in DOMAIN o[a].fragments : o[a].fragments[k].pkg \in W
    /\ \A q \in Packages : e.parts[q] = IF q \in W THEN pa[q] ELSE <<>>
    /\ Carried(o, e.parts, T)
    /\ \A a \in O \ X : a \in D /\ e.info[a] = o[a]
    /\ \A a \in D : a \notin O \ X => e.info[a].fragments = <<>>
    /\ \A a \in O \ X : o[a].fragments # <<>> => a \in ToSet(qs[o[a].link])

\* Clearing what is left of a sound plan.
LEMMA ClearedSound ==
    ASSUME TypeOK, NEW O, O \subseteq Actions, NEW o \in [O -> ActionInfo],
           NEW pa \in [Packages -> Seq(Fragments)], NEW qo, NEW S, NEW t, SoundPlan(o, pa, qo, S, t),
           NEW X, NEW W, NEW D, D \subseteq Actions, NEW e \in GoodPlans(D), NEW T,
           NEW qs \in [Links -> Seq(D)], LeftOf(O, o, pa, X, W, D, e, T, qs),
           NEW marked, marked = CarriedBy(o, X), NEW c, c = Cleared(e, marked, qs)
    PROVE  SoundPlan(c.info, c.parts, qs, T, t) /\ AllPast(c)
<1>0. /\ OneAtATime(o) /\ X \subseteq O /\ \A a \in X : o[a].time >= now + MaxEncodingTime
      /\ \A a \in O \ X : \A k \in DOMAIN o[a].fragments : o[a].fragments[k].pkg \in W
      /\ \A q \in Packages : e.parts[q] = IF q \in W THEN pa[q] ELSE <<>>
      /\ Carried(o, e.parts, T)
      /\ \A a \in O \ X : a \in D /\ e.info[a] = o[a]
      /\ \A a \in D : a \notin O \ X => e.info[a].fragments = <<>>
      /\ \A a \in O \ X : o[a].fragments # <<>> => a \in ToSet(qs[o[a].link])
      /\ marked = UNION {HandlesOf(o[a].fragments) : a \in X}
  BY DEF LeftOf, CarriedBy
<1> USE <1>0
<1> DEFINE t1 == now + MaxEncodingTime
           i == e.info
           pb == e.parts
           ci == c.info
           cp == c.parts
           reset == {a \in UNION {ToSet(qs[l]) : l \in Links} : i[a].time > t1}
           gone == marked \union UNION {HandlesOf(i[a].fragments) : a \in reset}
           anew == [a \in D |-> IF a \notin reset THEN i[a]
                                ELSE [i[a] EXCEPT !.fragments = <<>>,
                                         !.link = IF Target[a] = Wildcard THEN NoLink ELSE @]]
<1>1. /\ t1 \in Int /\ now \in Int /\ MaxEncodingTime \in Int
      /\ \A a \in O : o[a].time \in Int /\ o[a].fragments \in Seq(Pointers)
      /\ i \in [D -> ActionInfo] /\ pb \in [Packages -> Seq(Fragments)]
  <2>1. t1 \in Int /\ now \in Int /\ MaxEncodingTime \in Int /\ Times \subseteq Int  BY NumbersAre
  <2>2. \A x \in ActionInfo : x.time \in Times /\ x.fragments \in Seq(Pointers)  BY DEF ActionInfo
  <2>3. i \in [D -> ActionInfo] /\ pb \in [Packages -> Seq(Fragments)]  BY DEF GoodPlans, PlansOf
  <2> HIDE DEF t1, i, pb
  <2>. QED BY <2>1, <2>2, <2>3
<1>2. ci = anew /\ cp = [p \in Packages |-> removeMarkedFragments(pb[p], gone)]
  <2> DEFINE rest == [p \in Packages |-> removeMarkedFragments(pb[p], gone)]
  <2>1. c = [info |-> anew, parts |-> rest, full |-> {}]  BY <1>1, Zenon DEF Cleared
  <2> HIDE DEF anew, rest
  <2>2. ci = anew /\ cp = rest  BY ONLY <2>1 DEF ci, cp
  <2>. QED BY <2>2 DEF rest
<1> HIDE DEF i, pb, ci, cp
<1>a. \A q \in Packages : pb[q] = IF q \in W THEN pa[q] ELSE <<>>  BY DEF pb
<1>b. /\ Carried(o, pb, T) /\ \A a \in O \ X : a \in D /\ i[a] = o[a]
      /\ \A a \in D : a \notin O \ X => i[a].fragments = <<>>
  BY DEF i, pb
<1>3. DOMAIN o = O /\ DOMAIN i = D /\ DOMAIN ci = D /\ reset \subseteq D
  <2>1. \A l \in Links : ToSet(qs[l]) \subseteq D  BY Elements DEF ToSet
  <2>2. reset \subseteq D  BY <2>1
  <2>3. DOMAIN anew = D  OBVIOUS
  <2> HIDE DEF anew, reset
  <2>. QED BY <1>1, <1>2, <2>2, <2>3
<1>4. ASSUME NEW a \in O \ X, o[a].fragments # <<>> PROVE a \in reset <=> o[a].time > t1
  <2>1. o[a].fragments \in Seq(Pointers)  BY <1>1
  <2>2. PICK k \in DOMAIN o[a].fragments : TRUE
    <3>1. Len(o[a].fragments) \in DOMAIN o[a].fragments  BY <1>4, <2>1, EmptySeq, LenProperties
    <3>. QED BY <3>1
  <2>3. o[a].link = Route[o[a].fragments[k].pkg] /\ o[a].fragments[k].pkg \in Packages
    BY <1>3, <2>1, <2>2, PointerIs DEF SoundPlan, OnOneLink
  <2>4. o[a].link \in Links  BY <2>3, PackagesAssumption
  <2>5. a \in ToSet(qs[o[a].link]) /\ i[a].time = o[a].time  BY <1>4, <1>b
  <2>. QED BY <2>4, <2>5
<1>5. ASSUME NEW a \in D, ci[a].fragments # <<>>
      PROVE  a \in O \ X /\ a \notin reset /\ ci[a] = o[a] /\ o[a].fragments # <<>>
  <2>1. CASE a \in reset
    <3>1. ci[a] = [i[a] EXCEPT !.fragments = <<>>, !.link = IF Target[a] = Wildcard THEN NoLink ELSE @]
      BY <1>2, <2>1
    <3>2. i[a] \in ActionInfo  BY <1>1
    <3>3. ci[a].fragments = <<>>
      <4> HIDE DEF reset
      <4>. QED BY ONLY <3>1, <3>2 DEF ActionInfo
    <3>. QED BY <1>5, <3>3
  <2>2. CASE a \notin reset
    <3>1. ci[a] = i[a]  BY <1>2, <2>2
    <3>. QED BY <1>5, <1>b, <2>2, <3>1
  <2>. QED BY <2>1, <2>2
<1>c. \A h : h \in gone <=> \/ \E x \in X : h \in HandlesOf(o[x].fragments)
                            \/ \E x \in reset : h \in HandlesOf(i[x].fragments)
  <2> DEFINE back == UNION {HandlesOf(i[a].fragments) : a \in reset}
  <2>1. \A h : h \in marked <=> \E x \in X : h \in HandlesOf(o[x].fragments)  OBVIOUS
  <2> HIDE DEF reset
  <2>2. \A h : h \in back <=> \E x \in reset : h \in HandlesOf(i[x].fragments)  OBVIOUS
  <2>3. gone = marked \union back  OBVIOUS
  <2> HIDE DEF gone, back
  <2>4. \A h : h \in gone <=> h \in marked \/ h \in back  BY <2>3
  <2>. QED BY ONLY <2>1, <2>2, <2>4
<1> HIDE DEF t1, reset, gone, anew
\* the fragments that go are those of the actions X and reset
<1>7. ASSUME NEW q \in W, q \in Packages, NEW j \in DOMAIN pa[q]
      PROVE  pa[q][j].h \in gone <=> pa[q][j].action \in X \union reset
  <2> DEFINE b == pa[q][j].action
  <2>1. ASSUME pa[q][j].h \in gone PROVE b \in X \union reset
    <3>1. PICK x \in X \union reset :
             x \in O /\ pa[q][j].h \in HandlesOf(o[x].fragments)
      <4>1. CASE \E x \in X : pa[q][j].h \in HandlesOf(o[x].fragments)  BY <4>1
      <4>2. CASE \E x \in reset : pa[q][j].h \in HandlesOf(i[x].fragments)
        <5>1. PICK x \in reset : pa[q][j].h \in HandlesOf(i[x].fragments)  BY <4>2
        <5>2. i[x].fragments # <<>>  BY <5>1, HandlesAre
        <5>3. x \in O \ X /\ i[x] = o[x]  BY <1>3, <1>b, <5>2
        <5>. QED BY <5>1, <5>3
      <4>. QED BY <1>c, <2>1, <4>1, <4>2
    <3>2. PICK k \in DOMAIN o[x].fragments : o[x].fragments[k].h = pa[q][j].h  BY <3>1, HandlesAre
    <3>3. PICK m \in DOMAIN pa[o[x].fragments[k].pkg] :
              /\ pa[o[x].fragments[k].pkg][m].h = o[x].fragments[k].h
              /\ pa[o[x].fragments[k].pkg][m].action = x
      BY <1>3, <3>1, <3>2 DEF SoundPlan, PointBack
    <3>4. o[x].fragments[k].pkg \in Packages
      <4>1. o[x].fragments \in Seq(Pointers)  BY <1>1, <3>1
      <4>. QED BY <3>2, <4>1, PointerIs
    <3>5. o[x].fragments[k].pkg = q /\ m = j
      BY <1>7, <3>2, <3>3, <3>4 DEF SoundPlan, OneEach
    <3>. QED BY <3>1, <3>3, <3>5
  <2>2. ASSUME b \in X \union reset PROVE pa[q][j].h \in gone
    <3>1. b # NoAction
      <4>1. b \in Actions  BY <1>3, <2>2
      <4>. QED BY <4>1, PackagesAssumption
    <3>2. b \in O /\ pa[q][j].h \in HandlesOf(o[b].fragments)
      BY <1>3, <1>7, <3>1 DEF SoundPlan, Carried
    <3>3. CASE b \in X  BY <1>c, <3>2, <3>3
    <3>4. CASE b \notin X
      <4>1. b \in reset /\ i[b] = o[b]  BY <1>b, <2>2, <3>2, <3>4
      <4>2. pa[q][j].h \in HandlesOf(i[b].fragments)  BY <3>2, <4>1
      <4>3. \E x \in reset : pa[q][j].h \in HandlesOf(i[x].fragments)  BY <4>1, <4>2
      <4>. QED BY <1>c, <4>3
    <3>. QED BY <3>3, <3>4
  <2>. QED BY <2>1, <2>2
<1>8. ASSUME NEW q \in Packages
      PROVE  /\ DOMAIN cp[q] \subseteq DOMAIN pb[q]
             /\ \A k \in DOMAIN cp[q] : /\ cp[q][k] = pb[q][k] /\ pb[q][k].h \notin gone
                                             /\ \A m \in 1 .. k : m \in DOMAIN cp[q]
             /\ \A k \in DOMAIN pb[q] : (\A m \in 1 .. k : pb[q][m].h \notin gone) => k \in DOMAIN cp[q]
  <2> DEFINE fs == pb[q]
             s == cp[q]
  <2>1. s = removeMarkedFragments(fs, gone) /\ fs \in Seq(Fragments)  BY <1>1, <1>2
  <2> HIDE DEF fs, s
  <2>2. /\ DOMAIN s \subseteq DOMAIN fs
        /\ \A k \in DOMAIN s : s[k] = fs[k] /\ fs[k].h \notin gone /\ \A m \in 1 .. k : m \in DOMAIN s
        /\ \A k \in DOMAIN fs : (\A m \in 1 .. k : fs[m].h \notin gone) => k \in DOMAIN s
    BY <2>1, RemovedIs
  <2>. QED BY <2>2 DEF fs, s
<1>9. ASSUME NEW q \in Packages, NEW k \in DOMAIN cp[q]
      PROVE  /\ q \in W /\ k \in DOMAIN pa[q] /\ cp[q][k] = pa[q][k] /\ pa[q][k].h \notin gone
             /\ cp[q][k].action # NoAction
                    => /\ cp[q][k].action \in O \ X
                       /\ cp[q][k].action \notin reset
                       /\ cp[q][k].h \in HandlesOf(o[cp[q][k].action].fragments)
  <2>1. k \in DOMAIN pb[q]  BY <1>8, <1>9
  <2>2. q \in W
    <3>1. CASE q \notin W
      <4>1. pb[q] = <<>>  BY <1>a, <3>1
      <4>2. DOMAIN pb[q] = {}  BY <4>1
      <4>. QED BY <2>1, <4>2
    <3>. QED BY <3>1
  <2>3. pb[q] = pa[q]  BY <1>a, <2>2
  <2>4. cp[q][k] = pa[q][k] /\ pa[q][k].h \notin gone
    <3>1. cp[q][k] = pb[q][k] /\ pb[q][k].h \notin gone  BY <1>8
    <3>. QED BY <2>3, <3>1
  <2>5. pa[q][k].action \notin X \union reset  BY <1>7, <2>1, <2>2, <2>3, <2>4
  <2>6. pa[q][k].action # NoAction
           => pa[q][k].action \in O /\ pa[q][k].h \in HandlesOf(o[pa[q][k].action].fragments)
    BY <1>3, <2>1, <2>3 DEF SoundPlan, Carried
  <2>. QED BY <2>1, <2>2, <2>3, <2>4, <2>5, <2>6
<1>10. ASSUME NEW a \in D, NEW h \in HandlesOf(ci[a].fragments)
       PROVE  a \in O \ X /\ a \notin reset /\ ci[a] = o[a] /\ o[a].fragments # <<>>
  <2>2. ci[a].fragments # <<>>  BY HandlesAre
  <2>. QED BY <1>5, <2>2
<1>11. Tiles(cp)
  <2>1. ASSUME NEW q \in Packages, NEW k \in DOMAIN cp[q]
        PROVE  /\ cp[q][k].len > 0
               /\ k = 1 => cp[q][k].off = 0
               /\ k # 1 => cp[q][k].off = cp[q][k - 1].off + cp[q][k - 1].len
    <3>1. k \in DOMAIN pa[q] /\ cp[q][k] = pa[q][k]  BY <1>9
    <3>2. k \in Nat /\ k > 0
      <4>1. pa[q] \in Seq(Fragments)  OBVIOUS
      <4>2. DOMAIN pa[q] = 1 .. Len(pa[q]) /\ Len(pa[q]) \in Nat  BY <4>1, Elements
      <4>. QED BY <3>1, <4>2
    <3>3. k # 1 => k - 1 \in DOMAIN cp[q]
      <4>1. k # 1 => k - 1 \in 1 .. k  BY <3>2
      <4>. QED BY <1>8, <4>1
    <3>4. k # 1 => cp[q][k - 1] = pa[q][k - 1]  BY <1>9, <3>3
    <3>. QED BY <3>1, <3>4 DEF SoundPlan, Tiles
  <2>. QED BY <2>1 DEF Tiles
<1>12. OneEach(cp)
  <2>1. ASSUME NEW q \in Packages, NEW r \in Packages, NEW j \in DOMAIN cp[q], NEW k \in DOMAIN cp[r],
               cp[q][j].h = cp[r][k].h
        PROVE  q = r /\ j = k
    <3>1. j \in DOMAIN pa[q] /\ k \in DOMAIN pa[r] /\ pa[q][j].h = pa[r][k].h  BY <1>9, <2>1
    <3>. QED BY <3>1 DEF SoundPlan, OneEach
  <2>. QED BY <2>1 DEF OneEach
<1>13. PointBack(ci, cp)
  <2>1. ASSUME NEW a \in D, NEW k \in DOMAIN ci[a].fragments
        PROVE  \E j \in DOMAIN cp[ci[a].fragments[k].pkg] :
                   /\ cp[ci[a].fragments[k].pkg][j].h = ci[a].fragments[k].h
                   /\ cp[ci[a].fragments[k].pkg][j].action = a
    <3>1. a \in O \ X /\ a \notin reset /\ ci[a] = o[a] /\ o[a].fragments # <<>>
      <4>1. ci[a].fragments[k].h \in HandlesOf(ci[a].fragments)  BY DEF HandlesOf
      <4>. QED BY <1>10, <4>1
    <3> DEFINE x == o[a].fragments[k]
               q == x.pkg
    <3>2. ci[a].fragments[k] = x /\ k \in DOMAIN o[a].fragments  BY <2>1, <3>1
    <3>3. q \in Packages /\ q \in W
      <4>1. o[a].fragments \in Seq(Pointers)  BY <1>1, <3>1
      <4>. QED BY <3>1, <3>2, <4>1, PointerIs
    <3>4. PICK j \in DOMAIN pa[q] : pa[q][j].h = x.h /\ pa[q][j].action = a
      BY <1>3, <3>1, <3>2 DEF SoundPlan, PointBack
    <3> HIDE DEF q
    <3>5. pb[q] = pa[q] /\ pa[q] \in Seq(Fragments)  BY <1>a, <3>3
    <3>6. DOMAIN pa[q] = 1 .. Len(pa[q]) /\ Len(pa[q]) \in Nat  BY <3>5, Elements
    <3>7. ASSUME NEW m \in 1 .. j PROVE pa[q][m].h \notin gone
      <4>1. m \in DOMAIN pa[q]  BY <3>4, <3>6
      <4> DEFINE b == pa[q][m].action
      <4>2. SUFFICES b \notin X \union reset  BY <1>7, <3>3, <4>1
      <4>3. CASE m = j  BY <3>1, <3>4, <4>3
      <4>4. CASE m # j /\ b # NoAction
        <5>1. m < j  BY <3>4, <3>6, <4>1, <4>4
        <5>2. b \in O /\ o[b].time <= o[a].time
          <6>1. b \in O  BY <1>3, <3>3, <4>1, <4>4 DEF SoundPlan, Carried
          <6>2. o[pa[q][m].action].time <= o[pa[q][j].action].time
            BY <3>3, <3>4, <4>1, <4>4, <5>1 DEF SoundPlan, InTimeOrder
          <6>. QED BY <3>4, <6>1, <6>2
        <5>3. o[a].time <= t1 /\ o[a].time \in Int /\ o[b].time \in Int
          <6>1. o[a].time \in Int /\ o[b].time \in Int  BY <1>1, <3>1, <5>2
          <6>. QED BY <1>1, <1>4, <3>1, <6>1
        <5>4. b \in reset => b \in X
          <6>1. ASSUME b \in reset, b \notin X PROVE FALSE
            <7>1. i[b] = o[b] /\ i[b].time > t1  BY <1>b, <5>2, <6>1 DEF reset
            <7>. QED BY <1>1, <5>2, <5>3, <7>1
          <6>. QED BY <6>1
        <5>5. b \notin X
          <6>1. ASSUME b \in X PROVE FALSE
            <7>1. o[b].time >= t1  BY <6>1 DEF t1
            <7>2. o[b].time = o[a].time  BY <1>1, <5>2, <5>3, <7>1
            <7>3. b = a  BY <1>3, <3>1, <5>2, <7>2 DEF OneAtATime
            <7>. QED BY <3>1, <6>1, <7>3
          <6>. QED BY <6>1
        <5>. QED BY <5>4, <5>5
      <4>5. CASE b = NoAction  BY <1>3, <4>5, PackagesAssumption
      <4>. QED BY <4>3, <4>4, <4>5
    <3>8. j \in DOMAIN cp[q]  BY <1>8, <3>3, <3>4, <3>5, <3>7
    <3>9. cp[q][j] = pa[q][j]  BY <1>9, <3>3, <3>8
    <3>. QED BY <3>2, <3>4, <3>8, <3>9 DEF q
  <2>. QED BY <1>3, <2>1 DEF PointBack
<1>14. ASSUME NEW q \in Packages, NEW k \in DOMAIN cp[q], cp[q][k].action # NoAction
       PROVE  /\ cp[q][k].action \in D /\ cp[q][k].action \in O
              /\ ci[cp[q][k].action] = o[cp[q][k].action]
              /\ cp[q][k].h \in HandlesOf(o[cp[q][k].action].fragments)
              /\ o[cp[q][k].action].time <= t1
  <2> DEFINE b == cp[q][k].action
  <2>1. b \in O \ X /\ b \notin reset /\ cp[q][k].h \in HandlesOf(o[b].fragments)  BY <1>9, <1>14
  <2> HIDE DEF b
  <2>2. b \in D /\ ci[b] = o[b]
    <3>1. b \in D /\ i[b] = o[b]  BY <1>b, <2>1
    <3>. QED BY <1>2, <2>1, <3>1 DEF anew
  <2>3. o[b].fragments # <<>>
    <3>1. cp[q][k].h \in HandlesOf(o[b].fragments)  BY <2>1 DEF b
    <3>. QED BY <3>1, HandlesAre
  <2>4. o[b].time \in Int  BY <1>1, <2>1
  <2>5. o[b].time <= t1  BY <1>1, <1>4, <2>1, <2>3, <2>4
  <2>. QED BY <2>1, <2>2, <2>5 DEF b
<1>15. Carried(ci, cp, T)
  <2>1. ASSUME NEW q \in Packages, NEW k \in DOMAIN cp[q], cp[q][k].action = NoAction
        PROVE  cp[q][k].state \in {"SENT", "FAILED"} \/ cp[q][k].h \in T
    <3>1. k \in DOMAIN pb[q] /\ cp[q][k] = pb[q][k]  BY <1>8, <2>1
    <3>. QED BY <1>b, <2>1, <3>1 DEF Carried
  <2>2. ASSUME NEW q \in Packages, NEW k \in DOMAIN cp[q], cp[q][k].action # NoAction
        PROVE  cp[q][k].action \in DOMAIN ci /\ cp[q][k].h \in HandlesOf(ci[cp[q][k].action].fragments)
    BY <1>3, <1>14, <2>2
  <2>. QED BY <2>1, <2>2 DEF Carried
<1>16. OnOneLink(ci, qs)
  <2>1. ASSUME NEW a \in D, NEW k \in DOMAIN ci[a].fragments
        PROVE  ci[a].link = Route[ci[a].fragments[k].pkg] /\ a \in ToSet(qs[ci[a].link])
    <3>1. a \in O \ X /\ ci[a] = o[a] /\ o[a].fragments # <<>>
      <4>1. ci[a].fragments[k].h \in HandlesOf(ci[a].fragments)  BY DEF HandlesOf
      <4>. QED BY <1>10, <4>1
    <3>2. o[a].link = Route[o[a].fragments[k].pkg]  BY <1>3, <2>1, <3>1 DEF SoundPlan, OnOneLink
    <3>. QED BY <3>1, <3>2
  <2>. QED BY <1>3, <2>1 DEF OnOneLink
<1>17. InTimeOrder(ci, cp)
  <2>1. ASSUME NEW q \in Packages, NEW j \in DOMAIN cp[q], NEW k \in DOMAIN cp[q],
               j < k, cp[q][j].action # NoAction
        PROVE  /\ cp[q][k].action # NoAction
               /\ ci[cp[q][j].action].time <= ci[cp[q][k].action].time
    <3>1. /\ j \in DOMAIN pa[q] /\ cp[q][j] = pa[q][j]
          /\ k \in DOMAIN pa[q] /\ cp[q][k] = pa[q][k]
      BY <1>9
    <3>2. /\ pa[q][k].action # NoAction /\ o[pa[q][j].action].time <= o[pa[q][k].action].time
      BY <2>1, <3>1 DEF SoundPlan, InTimeOrder
    <3>3. cp[q][k].action # NoAction  BY <3>1, <3>2
    <3>4. /\ ci[cp[q][j].action] = o[cp[q][j].action] /\ ci[cp[q][k].action] = o[cp[q][k].action]
      BY <1>14, <2>1, <3>3
    <3>. QED BY <3>1, <3>2, <3>3, <3>4
  <2>. QED BY <2>1 DEF InTimeOrder
<1>18. NotYetEncoded(ci, cp, t)
  <2>1. ASSUME NEW q \in Packages, NEW k \in DOMAIN cp[q], cp[q][k].state = "UNENCODED",
               cp[q][k].action # NoAction
        PROVE  ci[cp[q][k].action].time > t
    <3>1. k \in DOMAIN pa[q] /\ cp[q][k] = pa[q][k]  BY <1>9
    <3>2. o[pa[q][k].action].time > t  BY <2>1, <3>1 DEF SoundPlan, NotYetEncoded
    <3>3. ci[cp[q][k].action] = o[cp[q][k].action]  BY <1>14, <2>1
    <3>. QED BY <3>1, <3>2, <3>3
  <2>. QED BY <2>1 DEF NotYetEncoded
<1>19. \A q \in Packages : Past(ci, cp[q])  BY <1>14 DEF Past, t1
<1>20. SoundPlan(ci, cp, qs, T, t)  BY <1>11, <1>12, <1>13, <1>15, <1>16, <1>17, <1>18 DEF SoundPlan
<1> QED BY <1>19, <1>20 DEF ci, cp, AllPast

\* Planning a package changes no other.
LEMMA FillFrame ==
    ASSUME TypeOK, NEW D, D \subseteq Actions, NEW i, NEW plan \in SameTimes(D, i),
           NEW p \in Packages, NEW queue \in Seq(D), NEW exact,
           NEW r, r = generateFragmentsForPackage(plan, p, queue, exact)
    PROVE  /\ r \in SameTimes(D, i) /\ r.full = plan.full
           /\ \A q \in Packages \ {p} : r.parts[q] = plan.parts[q]
<1> DEFINE Q == {e \in SameTimes(D, i) : /\ e.full = plan.full
                                         /\ \A q \in Packages \ {p} : e.parts[q] = plan.parts[q]}
<1>1. Q \subseteq GoodPlans(D) /\ plan \in Q  BY DEF SameTimes
<1>2. ASSUME NEW e \in Q, NEW d \in GoodPlans(D), NEW a \in ToSet(queue), NEW f \in Pointers,
             NEW g \in Fragments, MayCarry(e, p, a, exact), Adds(e, d, p, a, f, g)
      PROVE  d \in Q
  <2>1. a \in D /\ e \in GoodPlans(D)  BY <1>1, Elements DEF ToSet
  <2>2. /\ \A b \in D : d.info[b].time = e.info[b].time /\ d.info[b].enc = e.info[b].enc
        /\ \A q \in Packages \ {p} : d.parts[q] = e.parts[q]
    BY <1>2, <2>1, AddsShrinks
  <2>3. d \in SameTimes(D, i)  BY <2>2 DEF SameTimes
  <2>4. d.full = e.full  BY <1>2 DEF Adds
  <2>. QED BY <2>2, <2>3, <2>4
<1> HIDE DEF Q
<1>3. reports \in Seq(Handles \X Statuses)  BY DEF TypeOK
<1>4. r \in Q  BY <1>1, <1>2, <1>3, FillKeeps
<1> QED BY <1>4 DEF Q

\* The actions that may take a package are not due yet.
InWindow(D, i, t, exact) ==
    \A a \in D : a = exact \/ i[a].time > now + MaxEncodingTime
                     => i[a].time > t /\ i[a].time >= now + MaxEncodingTime

\* Planning a package keeps a plan sound when what is planned of it already is past
\* the window: the queue is walked in the order of time.
LEMMA FillSound ==
    ASSUME TypeOK, NEW D, D \subseteq Actions, NEW i \in [D -> ActionInfo],
           NEW plan \in SameTimes(D, i), NEW p \in Packages,
           NEW qs \in [Links -> Seq(D)], Sorted(i, qs[Route[p]]), NEW T, NEW t, NEW exact,
           InWindow(D, i, t, exact),
           SoundPlan(plan.info, plan.parts, qs, T, t),
           Planned(plan, p) \/ Past(plan.info, plan.parts[p]),
           NEW r, r = generateFragmentsForPackage(plan, p, qs[Route[p]], exact)
    PROVE  SoundPlan(r.info, r.parts, qs, T, t)
<1> DEFINE queue == qs[Route[p]]
           n == Len(queue)
           t1 == now + MaxEncodingTime
           Walked(e, k) == \A j \in DOMAIN e.parts[p] :
                              LET b == e.parts[p][j].action
                              IN  b # NoAction => i[b].time <= t1 \/ \E m \in 1 .. k : b = queue[m]
           Q == {e \in SameTimes(D, i) : SoundPlan(e.info, e.parts, qs, T, t)}
           P == [k \in 0 .. n |-> {e \in Q : Planned(e, p) \/ Walked(e, k)}]
<1>1. /\ queue \in Seq(D) /\ n \in Nat /\ DOMAIN queue = 1 .. n
      /\ \A k \in 1 .. n : queue[k] \in D /\ queue[k] \in ToSet(queue)
  <2>1. Route[p] \in Links  BY PackagesAssumption
  <2>2. queue \in Seq(D)  BY <2>1
  <2>. QED BY <2>2, Elements DEF ToSet
<1>2. t1 \in Int /\ now \in Int /\ MaxEncodingTime \in Int /\ \A a \in D : i[a].time \in Int
  <2>1. t1 \in Int /\ now \in Int /\ MaxEncodingTime \in Int /\ Times \subseteq Int  BY NumbersAre
  <2>2. \A a \in D : i[a].time \in Times  BY DEF ActionInfo
  <2>. QED BY <2>1, <2>2
<1>3. ASSUME NEW e \in Q
      PROVE  /\ e \in GoodPlans(D) /\ DOMAIN e.info = D
             /\ \A a \in D : e.info[a].time = i[a].time /\ e.info[a].enc = i[a].enc
             /\ \A q \in Packages : \A k \in DOMAIN e.parts[q] :
                    e.parts[q][k].action # NoAction => e.parts[q][k].action \in D
  <2>1. /\ e \in GoodPlans(D) /\ DOMAIN e.info = D
        /\ \A a \in D : e.info[a].time = i[a].time /\ e.info[a].enc = i[a].enc
    BY PlanParts
  <2>. QED BY <2>1 DEF SoundPlan, Carried
<1>4. plan \in P[0]
  <2>1. plan \in Q  OBVIOUS
  <2>2. ASSUME Past(plan.info, plan.parts[p]) PROVE Walked(plan, 0)
    <3>1. ASSUME NEW j \in DOMAIN plan.parts[p], plan.parts[p][j].action # NoAction
          PROVE  i[plan.parts[p][j].action].time <= t1
      BY <1>3, <2>1, <2>2, <3>1 DEF Past
    <3>. QED BY <3>1
  <2>3. 0 \in 0 .. n  BY <1>1
  <2> HIDE DEF Q, Walked
  <2>. QED BY <2>1, <2>2, <2>3
<1>5. ASSUME NEW k \in 1 .. n, NEW e \in P[k - 1] PROVE TakeAction(e, p, queue[k], exact) \in P[k]
  <2> DEFINE a == queue[k]
             d == AddFragment(e, p, a)
  <2>1. k \in 0 .. n /\ k - 1 \in 0 .. n /\ 1 .. k = 1 .. (k - 1) \cup {k}  BY <1>1
  <2>2. e \in Q /\ (Planned(e, p) \/ Walked(e, k - 1))
    <3> HIDE DEF Q, Walked
    <3>. QED BY <2>1
  <2>3. e \in GoodPlans(D) /\ a \in D /\ a \in ToSet(queue)  BY <1>1, <1>3, <2>2
  <2>4. CASE ~MayCarry(e, p, a, exact)
    <3>1. TakeAction(e, p, a, exact) = e  BY <2>4 DEF TakeAction
    <3>2. Walked(e, k - 1) => Walked(e, k)  BY <2>1
    <3> HIDE DEF Q, Walked, a
    <3>. QED BY <2>1, <2>2, <3>1, <3>2 DEF a
  <2>5. CASE MayCarry(e, p, a, exact)
    <3>1. TakeAction(e, p, a, exact) = d  BY <2>5 DEF TakeAction
    <3>2. ~Planned(e, p) /\ (a = exact \/ e.info[a].time > t1)  BY <2>5 DEF MayCarry
    <3>3. i[a].time > t /\ i[a].time >= t1 /\ e.info[a].time = i[a].time
      BY <1>3, <2>2, <2>3, <3>2 DEF InWindow
    <3> HIDE DEF d
    <3>4. d \in GoodPlans(D) /\ \E f \in Pointers, g \in Fragments : Adds(e, d, p, a, f, g)
      <4>1. reports \in Seq(Handles \X Statuses)  BY DEF TypeOK
      <4> HIDE DEF a, Q, P
      <4>. QED BY <2>3, <2>5, <4>1, AddFragmentAdds DEF d
    <3>5. PICK f \in Pointers, g \in Fragments : Adds(e, d, p, a, f, g)  BY <3>4
    <3>6. ASSUME NEW j \in DOMAIN e.parts[p], e.parts[p][j].action # NoAction
          PROVE  e.info[e.parts[p][j].action].time <= e.info[a].time
      <4> DEFINE b == e.parts[p][j].action
      <4>1. b \in D /\ e.info[b].time = i[b].time  BY <1>3, <2>2, <3>6
      <4>2. i[b].time <= t1 \/ \E m \in 1 .. k - 1 : b = queue[m]  BY <2>2, <3>2, <3>6
      <4> HIDE DEF b
      <4>3. CASE i[b].time <= t1
        <5>1. i[b].time \in Int /\ i[a].time \in Int  BY <1>2, <2>3, <4>1
        <5> HIDE DEF a, t1
        <5>2. i[b].time <= i[a].time  BY ONLY <1>2, <3>3, <4>3, <5>1 DEF t1
        <5>3. e.info[b].time <= e.info[a].time  BY <3>3, <4>1, <5>2
        <5>. QED BY <5>3 DEF b
      <4>4. CASE \E m \in 1 .. k - 1 : b = queue[m]
        <5>1. PICK m \in 1 .. k - 1 : b = queue[m]  BY <4>4
        <5>2. m \in 1 .. n /\ k \in 1 .. n /\ m < k  BY <1>1, <5>1
        <5>3. Before(i, b, a)  BY <1>1, <5>1, <5>2 DEF Sorted
        <5>4. i[b].time <= i[a].time
          <6>1. i[b].time \in Int /\ i[a].time \in Int  BY <1>2, <2>3, <4>1
          <6> HIDE DEF a
          <6>. QED BY <5>3, <6>1 DEF Before
        <5>5. e.info[b].time <= e.info[a].time  BY <3>3, <4>1, <5>4
        <5>. QED BY <5>5 DEF b
      <4>. QED BY <4>2, <4>3, <4>4
    <3>7. SoundPlan(d.info, d.parts, qs, T, t)
      <4>1. SoundPlan(e.info, e.parts, qs, T, t) /\ e.info[a].time > t  BY <2>2, <3>3
      <4>2. a \in ToSet(qs[Route[p]])  BY <2>3
      <4> HIDE DEF a, Q, P, queue
      <4>. QED BY <2>3, <2>5, <3>4, <3>5, <3>6, <4>1, <4>2, AddsSound
    <3>8. /\ \A b \in D : d.info[b].time = e.info[b].time /\ d.info[b].enc = e.info[b].enc
          /\ d.parts[p] = Append(e.parts[p], g)
      <4> HIDE DEF a, Q, P, queue
      <4>. QED BY <2>3, <2>5, <3>4, <3>5, AddsShrinks
    <3>9. g.action = a  BY <3>5 DEF Adds
    <3>10. d \in Q
      <4>1. d \in SameTimes(D, i)  BY <1>3, <2>2, <3>4, <3>8 DEF SameTimes
      <4>. QED BY <3>7, <4>1
    <3>11. Walked(d, k)
      <4>1. e.parts[p] \in Seq(Fragments)  BY <2>3 DEF GoodPlans, PlansOf
      <4>2. /\ DOMAIN d.parts[p] = 1 .. Len(e.parts[p]) + 1 /\ DOMAIN e.parts[p] = 1 .. Len(e.parts[p])
            /\ Len(e.parts[p]) \in Nat
            /\ d.parts[p][Len(e.parts[p]) + 1] = g
            /\ \A j \in 1 .. Len(e.parts[p]) : d.parts[p][j] = e.parts[p][j]
        BY <3>8, <4>1, AppendIs
      <4>3. Walked(e, k - 1)  BY <2>2, <3>2
      <4>4. ASSUME NEW j \in DOMAIN d.parts[p], d.parts[p][j].action # NoAction
            PROVE  i[d.parts[p][j].action].time <= t1 \/ \E m \in 1 .. k : d.parts[p][j].action = queue[m]
        <5>1. CASE j = Len(e.parts[p]) + 1
          <6>1. d.parts[p][j].action = queue[k] /\ k \in 1 .. k  BY <3>9, <4>2, <5>1
          <6>. QED BY <6>1
        <5>2. CASE j # Len(e.parts[p]) + 1
          <6>1. j \in DOMAIN e.parts[p] /\ d.parts[p][j] = e.parts[p][j]  BY <4>2, <5>2
          <6>2. \/ i[e.parts[p][j].action].time <= t1
                \/ \E m \in 1 .. k - 1 : e.parts[p][j].action = queue[m]
            BY <4>3, <4>4, <6>1
          <6>3. 1 .. k - 1 \subseteq 1 .. k  BY <2>1
          <6>. QED BY <6>1, <6>2, <6>3
        <5>. QED BY <5>1, <5>2
      <4>. QED BY <4>4
    <3> HIDE DEF Q, Walked
    <3>. QED BY <2>1, <3>1, <3>10, <3>11
  <2>. QED BY <2>4, <2>5
<1>6. generateFragmentsForPackage(plan, p, queue, exact) \in P[n]
  <2> HIDE DEF P
  <2>1. \A k \in 1 .. n : \A e \in P[k - 1] : TakeAction(e, p, queue[k], exact) \in P[k]  BY <1>5
  <2>. QED BY <1>1, <1>4, <2>1, FillAlong
<1>7. n \in 0 .. n  BY <1>1
<1>8. r \in Q
  <2> HIDE DEF Q, Walked
  <2>. QED BY <1>6, <1>7
<1> QED BY <1>8

\* What encoding may have got to, queues in the order of time, and queues of the
\* links' own packages.
Reached(t) == t \in Int /\ t <= now + MaxEncodingTime
AllSorted(i, qs) == \A l \in Links : Sorted(i, qs[l])
OwnPackages(queues) == \A l \in Links : \A p \in ToSet(queues[l]) : Route[p] = l

\* Planning all packages keeps a cleared plan sound: a package that is not past the
\* window is planned, or found its link full.
LEMMA AssignSound ==
    ASSUME TypeOK, NEW D, D \subseteq Actions, NEW i \in [D -> ActionInfo],
           NEW plan, NEW marked, NEW qs \in [Links -> Seq(D)], AllSorted(i, qs),
           NEW queues \in [Links -> Seq(Packages)], OwnPackages(queues),
           NEW T, NEW t, Reached(t),
           NEW c, c = Cleared(plan, marked, qs), c \in SameTimes(D, i),
           SoundPlan(c.info, c.parts, qs, T, t), AllPast(c),
           NEW r, r = generateFragmentsForAllPackages(plan, marked, qs, queues)
    PROVE  SoundPlan(r.info, r.parts, qs, T, t)
<1>0. /\ \A l \in Links : Sorted(i, qs[l])
      /\ \A l \in Links : \A p \in ToSet(queues[l]) : Route[p] = l
      /\ t <= now + MaxEncodingTime /\ t \in Int
      /\ \A q \in Packages : Past(c.info, c.parts[q])
  BY DEF AllSorted, OwnPackages, Reached, AllPast
<1> USE <1>0
<1> DEFINE Settled(e, q) == Past(e.info, e.parts[q]) \/ Planned(e, q) \/ Route[q] \in e.full
           Q == {e \in SameTimes(D, i) : /\ SoundPlan(e.info, e.parts, qs, T, t)
                                         /\ \A q \in Packages : Settled(e, q)}
           P == [n \in 0 .. Turns |-> Q]
<1>1. Turns \in Nat /\ \A n \in 1 .. Turns : LinkOfTurn(n) \in Links /\ PlaceOfTurn(n) \in Nat \ {0}
  BY TurnsAre
<1>2. Cleared(plan, marked, qs) \in P[0]
  <2>1. 0 \in 0 .. Turns  BY <1>1
  <2>2. c \in Q  OBVIOUS
  <2> HIDE DEF Q
  <2>. QED BY <2>1, <2>2
<1>3. InWindow(D, i, t, NoAction)
  <2> DEFINE t1 == now + MaxEncodingTime
  <2>1. t1 \in Int /\ Times \subseteq Int /\ t \in Int /\ t <= t1  BY NumbersAre
  <2>2. \A a \in D : i[a].time \in Times /\ a # NoAction  BY PackagesAssumption DEF ActionInfo
  <2> HIDE DEF t1
  <2>3. ASSUME NEW a \in D, a = NoAction \/ i[a].time > t1 PROVE i[a].time > t /\ i[a].time >= t1
    <3>1. i[a].time \in Int /\ i[a].time > t1  BY <2>1, <2>2, <2>3
    <3>. QED BY ONLY <2>1, <3>1
  <2>. QED BY <2>3 DEF t1, InWindow
<1>4. ASSUME NEW n \in 1 .. Turns, NEW e \in P[n - 1] PROVE TakeTurn(e, qs, queues, n) \in P[n]
  <2> DEFINE l == LinkOfTurn(n)
             k == PlaceOfTurn(n)
             p == queues[l][k]
             g == generateFragmentsForPackage(e, p, qs[l], NoAction)
  <2>1. n \in 0 .. Turns /\ n - 1 \in 0 .. Turns /\ l \in Links /\ k \in Nat \ {0}  BY <1>1
  <2>2. e \in Q
    <3> HIDE DEF Q
    <3>. QED BY <2>1
  <2>3. TakeTurn(e, qs, queues, n) \in Q
    <3>1. CASE Len(queues[l]) < k \/ l \in e.full
      <4>1. TakeTurn(e, qs, queues, n) = e  BY <3>1 DEF TakeTurn
      <4> HIDE DEF Q
      <4>. QED BY <2>2, <4>1
    <3>2. CASE ~(Len(queues[l]) < k) /\ l \notin e.full
      <4>1. p \in Packages /\ Route[p] = l
        <5>1. queues[l] \in Seq(Packages)  BY <2>1
        <5>2. k \in DOMAIN queues[l]  BY <2>1, <3>2, <5>1, Elements
        <5>. QED BY <2>1, <5>1, <5>2, Elements DEF ToSet
      <4>2. TakeTurn(e, qs, queues, n) = IF Planned(g, p) THEN g ELSE [g EXCEPT !.full = @ \union {l}]
        BY <3>2 DEF TakeTurn
      <4>3. /\ e \in SameTimes(D, i) /\ SoundPlan(e.info, e.parts, qs, T, t)
            /\ \A q \in Packages : Settled(e, q)
            /\ Planned(e, p) \/ Past(e.info, e.parts[p])
        BY <2>2, <3>2, <4>1
      <4> HIDE DEF l, k, p, Q
      <4>4. /\ g \in SameTimes(D, i) /\ SoundPlan(g.info, g.parts, qs, T, t)
            /\ g.full = e.full /\ \A q \in Packages \ {p} : g.parts[q] = e.parts[q]
        <5>1. Sorted(i, qs[Route[p]]) /\ qs[Route[p]] \in Seq(D)  BY <2>1, <4>1
        <5>2. g = generateFragmentsForPackage(e, p, qs[Route[p]], NoAction)  BY <4>1
        <5>3. i \in [D -> ActionInfo] /\ qs \in [Links -> Seq(D)] /\ D \subseteq Actions /\ TypeOK  OBVIOUS
        <5> HIDE DEF g, P, Settled
        <5>4. SoundPlan(g.info, g.parts, qs, T, t)
          BY ONLY <1>3, <4>1, <4>3, <5>1, <5>2, <5>3, FillSound
        <5>5. /\ g \in SameTimes(D, i) /\ g.full = e.full
              /\ \A q \in Packages \ {p} : g.parts[q] = e.parts[q]
          BY ONLY <4>1, <4>3, <5>1, <5>2, <5>3, FillFrame
        <5>. QED BY <5>4, <5>5
      <4> HIDE DEF g
      <4>5. \A q \in Packages \ {p} : Settled(g, q)
        <5>1. \A a \in D : g.info[a].time = e.info[a].time  BY <4>3, <4>4, PlanParts
        <5>2. ASSUME NEW q \in Packages \ {p}, Past(e.info, e.parts[q]) PROVE Past(g.info, g.parts[q])
          <6>1. DOMAIN g.info = D  BY <4>4, PlanParts
          <6>2. \A j \in DOMAIN g.parts[q] : g.parts[q][j].action # NoAction => g.parts[q][j].action \in D
            BY <4>4, <6>1 DEF SoundPlan, Carried
          <6>3. g.parts[q] = e.parts[q]  BY <4>4, <5>2
          <6>. QED BY <5>1, <5>2, <6>2, <6>3 DEF Past
        <5>3. \A q \in Packages \ {p} : Planned(e, q) <=> Planned(g, q)  BY <4>4 DEF Planned
        <5>. QED BY <4>3, <4>4, <5>2, <5>3
      <4>6. CASE Planned(g, p)  BY <4>2, <4>4, <4>5, <4>6 DEF Q
      <4>7. CASE ~Planned(g, p)
        <5> DEFINE w == [info |-> g.info, parts |-> g.parts, full |-> g.full \union {l}]
        <5>1. g \in GoodPlans(D) /\ g \in PlansOf(D) /\ \A a \in D : g.info[a].time = i[a].time /\ g.info[a].enc = i[a].enc
          BY <4>4, PlanParts DEF GoodPlans
        <5>2. w \in SameTimes(D, i)
          <6>1. w \in GoodPlans(D)  BY <2>1, <5>1 DEF GoodPlans, PlansOf
          <6>. QED BY <5>1, <6>1 DEF SameTimes
        <5>3. w.info = g.info /\ w.parts = g.parts /\ w.full = g.full \union {l}  OBVIOUS
        <5>4. [g EXCEPT !.full = @ \union {l}] = w  BY <5>1, FullGrows
        <5> HIDE DEF w
        <5>5. \A q \in Packages : Settled(w, q)
          <6>1. Settled(w, p)  BY <4>1, <5>3
          <6>2. \A q \in Packages : Planned(w, q) <=> Planned(g, q)  BY <5>3 DEF Planned
          <6>3. \A q \in Packages : Past(w.info, w.parts[q]) <=> Past(g.info, g.parts[q])  BY <5>3 DEF Past
          <6>. QED BY <4>5, <5>3, <6>1, <6>2, <6>3
        <5>6. SoundPlan(w.info, w.parts, qs, T, t)  BY <4>4, <5>3
        <5>. QED BY <4>2, <4>7, <5>2, <5>4, <5>5, <5>6 DEF Q
      <4>. QED BY <4>6, <4>7
    <3>. QED BY <3>1, <3>2
  <2> HIDE DEF Q
  <2>. QED BY <2>1, <2>3
<1>5. r \in P[Turns]
  <2> HIDE DEF P
  <2>1. \A n \in 1 .. Turns : \A e \in P[n - 1] : TakeTurn(e, qs, queues, n) \in P[n]  BY <1>4
  <2>. QED BY <1>1, <1>2, <2>1, AssignAlong
<1>6. Turns \in 0 .. Turns  BY <1>1
<1>7. r \in Q
  <2> HIDE DEF Q
  <2>. QED BY <1>5, <1>6
<1> QED BY <1>7

\* Planning anew keeps a sound plan sound.
LEMMA AllSound ==
    ASSUME TypeOK, NEW O, O \subseteq Actions, NEW o \in [O -> ActionInfo],
           NEW pa \in [Packages -> Seq(Fragments)], NEW qo, NEW S, NEW t, SoundPlan(o, pa, qo, S, t),
           Reached(t), NEW X, NEW W, NEW D, D \subseteq Actions, NEW e \in GoodPlans(D), NEW T,
           NEW qs \in [Links -> Seq(D)], LeftOf(O, o, pa, X, W, D, e, T, qs), AllSorted(e.info, qs),
           NEW queues \in [Links -> Seq(Packages)], OwnPackages(queues),
           NEW marked, marked = CarriedBy(o, X),
           NEW r, r = generateFragmentsForAllPackages(e, marked, qs, queues)
    PROVE  SoundPlan(r.info, r.parts, qs, T, t)
<1> DEFINE c == Cleared(e, marked, qs)
<1>1. c \in SameTimes(D, e.info)
  <2>1. c \in GoodPlans(D)
        /\ \A a \in D : c.info[a].time = e.info[a].time /\ c.info[a].enc = e.info[a].enc
    BY ClearedIs, ClearedKeepsTimes
  <2> HIDE DEF c
  <2>. QED BY <2>1 DEF SameTimes
<1>2. e.info \in [D -> ActionInfo]  BY DEF GoodPlans, PlansOf
<1>3. c = Cleared(e, marked, qs)  OBVIOUS
<1> HIDE DEF c
<1>4. SoundPlan(c.info, c.parts, qs, T, t) /\ AllPast(c)  BY <1>3, ClearedSound
<1>5. SoundPlan(r.info, r.parts, qs, T, t)  BY <1>1, <1>2, <1>3, <1>4, AssignSound
<1> QED BY <1>5

\* The fragments of pb are those of pa, in other states.
Restated(pa, pb) ==
    \A p \in Packages :
        /\ DOMAIN pb[p] = DOMAIN pa[p]
        /\ \A k \in DOMAIN pa[p] : /\ pb[p][k].h = pa[p][k].h /\ pb[p][k].action = pa[p][k].action
                                   /\ pb[p][k].off = pa[p][k].off /\ pb[p][k].len = pa[p][k].len

\* The actions of j are those of o, encoded or not.
SameLoads(o, j) ==
    /\ DOMAIN j = DOMAIN o
    /\ \A a \in DOMAIN o : /\ j[a].time = o[a].time /\ j[a].link = o[a].link
                           /\ j[a].fragments = o[a].fragments

\* What is done and reported of fragments that no action carries.
Accounted(pb, T) ==
    \A p \in Packages : \A k \in DOMAIN pb[p] :
        pb[p][k].action = NoAction => pb[p][k].state \in {"SENT", "FAILED"} \/ pb[p][k].h \in T

\* A sound plan whose fragments change their states.
LEMMA RestatedSound ==
    ASSUME NEW O, NEW o \in [O -> ActionInfo],
           NEW pa \in [Packages -> Seq(Fragments)], NEW qs, NEW S, NEW s, SoundPlan(o, pa, qs, S, s),
           NEW j, SameLoads(o, j), NEW pb, Restated(pa, pb), NEW T, Accounted(pb, T),
           NEW t, NotYetEncoded(j, pb, t)
    PROVE  SoundPlan(j, pb, qs, T, t)
<1>1. ASSUME NEW p \in Packages, NEW k \in DOMAIN pb[p]
      PROVE  /\ k \in DOMAIN pa[p] /\ pb[p][k].h = pa[p][k].h /\ pb[p][k].action = pa[p][k].action
             /\ pb[p][k].off = pa[p][k].off /\ pb[p][k].len = pa[p][k].len
  BY DEF Restated
<1>2. \A p \in Packages : DOMAIN pb[p] = DOMAIN pa[p]  BY DEF Restated
<1>3. /\ DOMAIN j = DOMAIN o
      /\ \A a \in DOMAIN o : /\ j[a].time = o[a].time /\ j[a].link = o[a].link
                             /\ j[a].fragments = o[a].fragments
  BY DEF SameLoads
<1>4. Tiles(pb)
  <2>1. ASSUME NEW p \in Packages, NEW k \in DOMAIN pb[p]
        PROVE  /\ pb[p][k].len > 0
               /\ k = 1 => pb[p][k].off = 0
               /\ k # 1 => pb[p][k].off = pb[p][k - 1].off + pb[p][k - 1].len
    <3>1. /\ pa[p][k].len > 0
          /\ k = 1 => pa[p][k].off = 0
          /\ k # 1 => pa[p][k].off = pa[p][k - 1].off + pa[p][k - 1].len
      BY <1>1 DEF SoundPlan, Tiles
    <3>2. k # 1 => k - 1 \in DOMAIN pb[p]
      <4>1. pa[p] \in Seq(Fragments)  OBVIOUS
      <4>2. DOMAIN pb[p] = 1 .. Len(pa[p]) /\ Len(pa[p]) \in Nat  BY <1>2, <4>1, Elements
      <4>. QED BY <4>2
    <3>3. k # 1 => pb[p][k - 1].off = pa[p][k - 1].off /\ pb[p][k - 1].len = pa[p][k - 1].len
      BY <1>1, <3>2
    <3>. QED BY <1>1, <3>1, <3>3
  <2>. QED BY <2>1 DEF Tiles
<1>5. OneEach(pb)
  <2>1. ASSUME NEW p \in Packages, NEW q \in Packages, NEW m \in DOMAIN pb[p], NEW k \in DOMAIN pb[q],
               pb[p][m].h = pb[q][k].h
        PROVE  p = q /\ m = k
    BY <1>1, <2>1 DEF SoundPlan, OneEach
  <2>. QED BY <2>1 DEF OneEach
<1>6. PointBack(j, pb)
  <2>1. ASSUME NEW a \in DOMAIN o, NEW k \in DOMAIN o[a].fragments
        PROVE  \E m \in DOMAIN pb[o[a].fragments[k].pkg] :
                   /\ pb[o[a].fragments[k].pkg][m].h = o[a].fragments[k].h
                   /\ pb[o[a].fragments[k].pkg][m].action = a
    <3> DEFINE x == o[a].fragments[k]
    <3>1. PICK m \in DOMAIN pa[x.pkg] : pa[x.pkg][m].h = x.h /\ pa[x.pkg][m].action = a
      BY DEF SoundPlan, PointBack
    <3>2. x.pkg \in Packages
      <4>1. o[a].fragments \in Seq(Pointers)
        <5>1. o[a] \in ActionInfo  OBVIOUS
        <5>. QED BY <5>1 DEF ActionInfo
      <4>. QED BY <4>1, PointerIs
    <3> HIDE DEF x
    <3>3. m \in DOMAIN pb[x.pkg]  BY <1>2, <3>1, <3>2
    <3>4. pb[x.pkg][m].h = x.h /\ pb[x.pkg][m].action = a  BY <1>1, <3>1, <3>2, <3>3
    <3>. QED BY <3>3, <3>4 DEF x
  <2>2. ASSUME NEW a \in DOMAIN j, NEW k \in DOMAIN j[a].fragments
        PROVE  \E m \in DOMAIN pb[j[a].fragments[k].pkg] :
                   /\ pb[j[a].fragments[k].pkg][m].h = j[a].fragments[k].h
                   /\ pb[j[a].fragments[k].pkg][m].action = a
    <3>1. a \in DOMAIN o /\ j[a].fragments = o[a].fragments  BY <1>3
    <3>. QED BY <2>1, <3>1
  <2>. QED BY <2>2 DEF PointBack
<1>7. Carried(j, pb, T)
  <2>1. ASSUME NEW p \in Packages, NEW k \in DOMAIN pb[p], pb[p][k].action # NoAction
        PROVE  pb[p][k].action \in DOMAIN j /\ pb[p][k].h \in HandlesOf(j[pb[p][k].action].fragments)
    <3>1. pa[p][k].action \in DOMAIN o /\ pa[p][k].h \in HandlesOf(o[pa[p][k].action].fragments)
      BY <1>1, <2>1 DEF SoundPlan, Carried
    <3>. QED BY <1>1, <1>3, <3>1
  <2>. QED BY <2>1 DEF Carried, Accounted
<1>8. OnOneLink(j, qs)
  <2>1. ASSUME NEW a \in DOMAIN o, NEW k \in DOMAIN o[a].fragments
        PROVE  o[a].link = Route[o[a].fragments[k].pkg] /\ a \in ToSet(qs[o[a].link])
    BY DEF SoundPlan, OnOneLink
  <2>. QED BY <1>3, <2>1 DEF OnOneLink
<1>9. InTimeOrder(j, pb)
  <2>1. ASSUME NEW p \in Packages, NEW m \in DOMAIN pb[p], NEW k \in DOMAIN pb[p],
               m < k, pb[p][m].action # NoAction
        PROVE  pb[p][k].action # NoAction /\ j[pb[p][m].action].time <= j[pb[p][k].action].time
    <3>1. /\ m \in DOMAIN pa[p] /\ pb[p][m].action = pa[p][m].action
          /\ k \in DOMAIN pa[p] /\ pb[p][k].action = pa[p][k].action
      BY <1>1
    <3>2. pa[p][k].action # NoAction /\ o[pa[p][m].action].time <= o[pa[p][k].action].time
      BY <2>1, <3>1 DEF SoundPlan, InTimeOrder
    <3>3. pa[p][m].action \in DOMAIN o /\ pa[p][k].action \in DOMAIN o
      BY <2>1, <3>1, <3>2 DEF SoundPlan, Carried
    <3>. QED BY <1>3, <3>1, <3>2, <3>3
  <2>. QED BY <2>1 DEF InTimeOrder
<1> QED BY <1>4, <1>5, <1>6, <1>7, <1>8, <1>9 DEF SoundPlan

\* The actions of j carry what those of o carry, or nothing.
LessLoads(o, j) ==
    /\ DOMAIN j = DOMAIN o
    /\ \A a \in DOMAIN o : /\ j[a].time = o[a].time
                           /\ j[a].fragments # <<>> => /\ j[a].link = o[a].link
                                                       /\ j[a].fragments = o[a].fragments

\* The timeline o and the packages pa become j and pb: the packages not in W go, and
\* the actions that carry them; what others carry waits in its queue of qs.
Dropped(o, j, pa, pb, W, qs) ==
    /\ LessLoads(o, j) /\ \A q \in Packages : pb[q] = IF q \in W THEN pa[q] ELSE <<>>
    /\ \A a \in DOMAIN o : /\ \A k \in DOMAIN j[a].fragments : j[a].fragments[k].pkg \in W
                           /\ j[a].fragments # <<>> => a \in ToSet(qs[o[a].link])

\* A sound plan that loses packages and what carries them.
LEMMA DroppedSound ==
    ASSUME NEW O, NEW o \in [O -> ActionInfo], NEW pa \in [Packages -> Seq(Fragments)],
           NEW qo, NEW S, NEW t, SoundPlan(o, pa, qo, S, t),
           NEW j, NEW W, NEW pb, NEW qs, Dropped(o, j, pa, pb, W, qs), NEW T, Carried(j, pb, T)
    PROVE  SoundPlan(j, pb, qs, T, t)
<1>0. /\ LessLoads(o, j) /\ \A q \in Packages : pb[q] = IF q \in W THEN pa[q] ELSE <<>>
      /\ \A a \in O : \A k \in DOMAIN j[a].fragments : j[a].fragments[k].pkg \in W
      /\ \A a \in O : j[a].fragments # <<>> => a \in ToSet(qs[o[a].link])
  BY DEF Dropped
<1> USE <1>0
<1>1. ASSUME NEW p \in Packages, NEW k \in DOMAIN pb[p]
      PROVE  p \in W /\ pb[p] = pa[p] /\ k \in DOMAIN pa[p]
  <2>1. CASE p \notin W
    <3>1. pb[p] = <<>>  BY <2>1
    <3>2. DOMAIN pb[p] = {}  BY <3>1
    <3>. QED BY <1>1, <3>2
  <2>2. CASE p \in W  BY <1>1, <2>2
  <2>. QED BY <2>1, <2>2
<1>2. ASSUME NEW a \in DOMAIN j, NEW k \in DOMAIN j[a].fragments
      PROVE  /\ a \in O /\ j[a].fragments # <<>> /\ j[a].fragments = o[a].fragments
             /\ j[a].link = o[a].link
  <2>1. j[a].fragments # <<>>
    <3>1. DOMAIN <<>> = {}  OBVIOUS
    <3>. QED BY <1>2, <3>1
  <2>. QED BY <2>1 DEF LessLoads
<1>3. DOMAIN j = O /\ \A a \in O : j[a].time = o[a].time  BY DEF LessLoads
<1>4. Tiles(pb)  BY <1>1 DEF SoundPlan, Tiles
<1>5. OneEach(pb)  BY <1>1 DEF SoundPlan, OneEach
<1>6. PointBack(j, pb)
  <2>1. ASSUME NEW a \in DOMAIN j, NEW k \in DOMAIN j[a].fragments
        PROVE  \E m \in DOMAIN pb[j[a].fragments[k].pkg] :
                   /\ pb[j[a].fragments[k].pkg][m].h = j[a].fragments[k].h
                   /\ pb[j[a].fragments[k].pkg][m].action = a
    <3> DEFINE x == o[a].fragments[k]
    <3>1. a \in O /\ k \in DOMAIN o[a].fragments /\ j[a].fragments[k] = x  BY <1>2, <2>1
    <3>2. PICK m \in DOMAIN pa[x.pkg] : pa[x.pkg][m].h = x.h /\ pa[x.pkg][m].action = a
      BY <3>1 DEF SoundPlan, PointBack
    <3>3. x.pkg \in Packages
      <4>1. o[a].fragments \in Seq(Pointers)  BY <3>1 DEF ActionInfo
      <4>. QED BY <3>1, <4>1, PointerIs
    <3>4. x.pkg \in W  BY <3>1
    <3> HIDE DEF x
    <3>5. pb[x.pkg] = pa[x.pkg]  BY <3>3, <3>4
    <3>. QED BY <3>1, <3>2, <3>5
  <2>. QED BY <2>1 DEF PointBack
<1>7. OnOneLink(j, qs)
  <2>1. ASSUME NEW a \in DOMAIN j, NEW k \in DOMAIN j[a].fragments
        PROVE  j[a].link = Route[j[a].fragments[k].pkg] /\ a \in ToSet(qs[j[a].link])
    <3>1. /\ a \in O /\ j[a].fragments # <<>> /\ j[a].fragments = o[a].fragments /\ j[a].link = o[a].link
          /\ k \in DOMAIN o[a].fragments
      BY <1>2, <2>1
    <3>2. o[a].link = Route[o[a].fragments[k].pkg]  BY <3>1 DEF SoundPlan, OnOneLink
    <3>. QED BY <3>1, <3>2
  <2>. QED BY <2>1 DEF OnOneLink
<1>8. ASSUME NEW p \in Packages, NEW k \in DOMAIN pa[p], pa[p][k].action # NoAction
      PROVE  pa[p][k].action \in O
  BY <1>8 DEF SoundPlan, Carried
<1>9. InTimeOrder(j, pb)
  <2>1. ASSUME NEW p \in Packages, NEW m \in DOMAIN pb[p], NEW k \in DOMAIN pb[p],
               m < k, pb[p][m].action # NoAction
        PROVE  pb[p][k].action # NoAction /\ j[pb[p][m].action].time <= j[pb[p][k].action].time
    <3>1. pb[p] = pa[p]  BY <1>1
    <3>2. pa[p][k].action # NoAction /\ o[pa[p][m].action].time <= o[pa[p][k].action].time
      BY <2>1, <3>1 DEF SoundPlan, InTimeOrder
    <3>3. pa[p][m].action \in O /\ pa[p][k].action \in O  BY <1>8, <2>1, <3>1, <3>2
    <3>. QED BY <1>3, <3>1, <3>2, <3>3
  <2>. QED BY <2>1 DEF InTimeOrder
<1>10. NotYetEncoded(j, pb, t)
  <2>1. ASSUME NEW p \in Packages, NEW k \in DOMAIN pb[p], pb[p][k].state = "UNENCODED",
               pb[p][k].action # NoAction
        PROVE  j[pb[p][k].action].time > t
    <3>1. pb[p] = pa[p]  BY <1>1
    <3>2. o[pa[p][k].action].time > t  BY <2>1, <3>1 DEF SoundPlan, NotYetEncoded
    <3>3. pa[p][k].action \in O  BY <1>8, <2>1, <3>1
    <3>. QED BY <1>3, <3>1, <3>2, <3>3
  <2>. QED BY <2>1 DEF NotYetEncoded
<1> QED BY <1>4, <1>5, <1>6, <1>7, <1>9, <1>10 DEF SoundPlan

--------------------------------------------------------------------------------
(* The plan of the managers is sound.  Planning rests on encoding: what is    *)
(* not encoded yet lies past the window, or at its end.  A link has all the   *)
(* actions it may use in its queue, or, when it came late, none.              *)

EncodesInTime ==
    /\ now <= nextEncodeTime /\ lastEncodeTime <= now + MaxEncodingTime
    /\ \A a \in DOMAIN info :
           info[a].time > lastEncodeTime => info[a].time >= nextEncodeTime + MaxEncodingTime
    /\ lastEncodeTime > now => \E a \in DOMAIN info : info[a].time = lastEncodeTime

\* What the link l may use of the timeline i.
MayUse(i, l) == {a \in DOMAIN i : Target[a] \in {l, Wildcard}}

QueuesFull ==
    \A l \in Links :
        /\ linkStatus[l] = "NONE" => l \in LateLinks
        /\ l \notin links => actionQueue[l] = <<>>
        /\ l \in links => \/ ToSet(actionQueue[l]) = MayUse(info, l)
                          \/ l \in LateLinks /\ actionQueue[l] = <<>>

PlanInv ==
    /\ SoundPlan(info, parts, actionQueue, ToldHandles, lastEncodeTime)
    /\ EncodesInTime /\ QueuesFull /\ SpacedOut(info)

LEMMA SpacedOnes ==
    ASSUME Spaced, NEW i, Timed(i), SpacedOut(i)
    PROVE  OneAtATime(i)
<1>1. MaxEncodingTime \in Nat \ {0}  BY PackagesAssumption
<1>2. ASSUME NEW a \in DOMAIN i, NEW b \in DOMAIN i, i[a].time = i[b].time, a # b PROVE FALSE
  <2>1. i[a].time \in Int /\ i[b].time \in Int  BY DEF Timed
  <2>2. i[a].time + MaxEncodingTime <= i[b].time  BY <1>2, <2>1 DEF SpacedOut
  <2>. QED BY <1>1, <1>2, <2>1, <2>2
<1> QED BY <1>2 DEF OneAtATime

\* A timeline has one order.
LEMMA OrderUnique ==
    ASSUME NEW i, Timed(i), NEW s \in Seq(DOMAIN i), NEW u \in Seq(DOMAIN i),
           Sorted(i, s), Sorted(i, u), ToSet(s) = ToSet(u)
    PROVE  s = u
<1>1. /\ DOMAIN s = 1 .. Len(s) /\ Len(s) \in Nat /\ \A k \in DOMAIN s : s[k] \in DOMAIN i
      /\ DOMAIN u = 1 .. Len(u) /\ Len(u) \in Nat /\ \A k \in DOMAIN u : u[k] \in DOMAIN i
  BY Elements
<1>2. /\ \A k \in DOMAIN s : \E m \in DOMAIN u : u[m] = s[k]
      /\ \A k \in DOMAIN u : \E m \in DOMAIN s : s[m] = u[k]
  BY DEF ToSet
<1>3. \A b, c \in DOMAIN i : ~Before(i, b, b) /\ ~(Before(i, b, c) /\ Before(i, c, b))
  BY BeforeOrders
<1> DEFINE Differ == {k \in DOMAIN s \intersect DOMAIN u : s[k] # u[k]}
<1>4. Differ = {}
  <2> SUFFICES ASSUME Differ # {} PROVE FALSE  OBVIOUS
  <2>1. Differ \subseteq Nat  BY <1>1
  <2>2. PICK k \in Differ : \A m \in Differ : k <= m
    <3> HIDE DEF Differ
    <3>. QED BY <2>1, LeastNat
  <2>3. k \in DOMAIN s /\ k \in DOMAIN u /\ s[k] # u[k]  BY <2>2
  <2>4. \A m \in DOMAIN s \intersect DOMAIN u : m < k => s[m] = u[m]  BY <1>1, <2>2
  <2> HIDE DEF Differ
  <2>5. PICK m \in DOMAIN u : u[m] = s[k]  BY <1>2, <2>3
  <2>6. PICK n \in DOMAIN s : s[n] = u[k]  BY <1>2, <2>3
  <2>7. k < m
    <3>1. m # k  BY <2>3, <2>5
    <3>2. ~(m < k)
      <4>1. ASSUME m < k PROVE FALSE
        <5>1. m \in DOMAIN s  BY <1>1, <2>3, <4>1
        <5>2. s[m] = s[k]  BY <2>4, <2>5, <4>1, <5>1
        <5>3. Before(i, s[m], s[k])  BY <2>3, <4>1, <5>1 DEF Sorted
        <5>. QED BY <1>1, <1>3, <2>3, <5>2, <5>3
      <4>. QED BY <4>1
    <3>. QED BY <1>1, <2>3, <2>5, <3>1, <3>2
  <2>8. k < n
    <3>1. n # k  BY <2>3, <2>6
    <3>2. ~(n < k)
      <4>1. ASSUME n < k PROVE FALSE
        <5>1. n \in DOMAIN u  BY <1>1, <2>3, <4>1
        <5>2. u[n] = u[k]  BY <2>4, <2>6, <4>1, <5>1
        <5>3. Before(i, u[n], u[k])  BY <2>3, <4>1, <5>1 DEF Sorted
        <5>. QED BY <1>1, <1>3, <2>3, <5>2, <5>3
      <4>. QED BY <4>1
    <3>. QED BY <1>1, <2>3, <2>6, <3>1, <3>2
  <2>9. Before(i, u[k], s[k])  BY <2>3, <2>5, <2>7 DEF Sorted
  <2>10. Before(i, s[k], u[k])  BY <2>3, <2>6, <2>8 DEF Sorted
  <2>. QED BY <1>1, <1>3, <2>3, <2>9, <2>10
<1>5. \A k \in DOMAIN s \intersect DOMAIN u : s[k] = u[k]  BY <1>4
<1> HIDE DEF Differ
<1>6. ~(Len(s) < Len(u))
  <2> SUFFICES ASSUME Len(s) < Len(u) PROVE FALSE  OBVIOUS
  <2>1. Len(u) \in DOMAIN u  BY <1>1
  <2>2. PICK m \in DOMAIN s : s[m] = u[Len(u)]  BY <1>2, <2>1
  <2>3. m \in DOMAIN u /\ m < Len(u) /\ u[m] = u[Len(u)]  BY <1>1, <1>5, <2>2
  <2>4. Before(i, u[m], u[Len(u)])  BY <2>1, <2>3 DEF Sorted
  <2>. QED BY <1>1, <1>3, <2>1, <2>3, <2>4
<1>7. ~(Len(u) < Len(s))
  <2> SUFFICES ASSUME Len(u) < Len(s) PROVE FALSE  OBVIOUS
  <2>1. Len(s) \in DOMAIN s  BY <1>1
  <2>2. PICK m \in DOMAIN u : u[m] = s[Len(s)]  BY <1>2, <2>1
  <2>3. m \in DOMAIN s /\ m < Len(s) /\ s[m] = s[Len(s)]  BY <1>1, <1>5, <2>2
  <2>4. Before(i, s[m], s[Len(s)])  BY <2>1, <2>3 DEF Sorted
  <2>. QED BY <1>1, <1>3, <2>1, <2>3, <2>4
<1>8. Len(s) = Len(u)
  <2>1. Len(s) \in Nat /\ Len(u) \in Nat  BY <1>1
  <2>2. \A m, n \in Nat : ~(m < n) /\ ~(n < m) => m = n  OBVIOUS
  <2>. QED BY <1>6, <1>7, <2>1, <2>2
<1>9. \A k \in 1 .. Len(s) : s[k] = u[k]  BY <1>1, <1>5, <1>8
<1> QED BY <1>8, <1>9, SeqEqual

\* What is not encoded yet is not due.
LEMMA NotDue ==
    ASSUME TypeOK, PlanInv
    PROVE  /\ \A a \in DOMAIN info : info[a].time > lastEncodeTime => info[a].time >= now + MaxEncodingTime
           /\ \A p \in Packages : \A k \in DOMAIN parts[p] :
                  parts[p][k].state = "UNENCODED" /\ parts[p][k].action # NoAction
                      => /\ parts[p][k].action \in DOMAIN info
                         /\ info[parts[p][k].action].time >= now + MaxEncodingTime
<1>1. /\ now \in Int /\ MaxEncodingTime \in Int /\ lastEncodeTime \in Int /\ nextEncodeTime \in Int
      /\ \A a \in DOMAIN info : info[a].time \in Int
  <2>1. \A a \in DOMAIN info : info[a] \in ActionInfo  BY DEF TypeOK
  <2>. QED BY <2>1, NumbersAre DEF TypeOK, ActionInfo
<1>2. ASSUME NEW a \in DOMAIN info, info[a].time > lastEncodeTime PROVE info[a].time >= now + MaxEncodingTime
  BY <1>1, <1>2 DEF PlanInv, EncodesInTime
<1>3. ASSUME NEW p \in Packages, NEW k \in DOMAIN parts[p], parts[p][k].state = "UNENCODED",
             parts[p][k].action # NoAction
      PROVE  parts[p][k].action \in DOMAIN info /\ info[parts[p][k].action].time > lastEncodeTime
  BY <1>3 DEF PlanInv, SoundPlan, Carried, NotYetEncoded
<1> QED BY <1>2, <1>3

\* The queues of a new timeline.
LEMMA QueuesAre ==
    ASSUME TypeOK, NEW D, D \subseteq Actions, NEW i \in [D -> ActionInfo], NEW l \in Links
    PROVE  /\ l \in links => ToSet(updateLinkTimelines(i)[l]) = MayUse(i, l)
           /\ l \notin links => updateLinkTimelines(i)[l] = <<>>
<1>1. Timed(i) /\ DOMAIN i = D  BY TimelineIs
<1>2. MayUse(i, l) \in SUBSET DOMAIN i  BY DEF MayUse
<1>3. updateLinkTimelines(i)[l] = IF l \in links THEN InOrder(i, MayUse(i, l)) ELSE <<>>
  BY DEF updateLinkTimelines, MayUse
<1>4. ToSet(InOrder(i, MayUse(i, l))) = MayUse(i, l)  BY <1>1, <1>2, OrderLists
<1> QED BY <1>3, <1>4

\* The timeline i keeps, of what there is, at least what is due, and adds nothing
\* that is due.
Extends(D, i) ==
    /\ \A a \in D : /\ a \in DOMAIN info => i[a] = info[a]
                    /\ a \notin DOMAIN info => i[a].fragments = <<>> /\ i[a].time >= now + MaxEncodingTime
    /\ \A a \in DOMAIN info : info[a].time <= now + MaxEncodingTime => a \in D

\* What a new timeline does to encoding and to the queues.
LEMMA TimelineTaken ==
    ASSUME TypeOK, PlanInv, NEW D, D \subseteq Actions, NEW i \in [D -> ActionInfo],
           Extends(D, i), SpacedOut(i), DOMAIN info' = D, \A a \in D : info'[a].time = i[a].time,
           actionQueue' = updateLinkTimelines(i), nextEncodeTime' = updateEncodeTimestamp(i),
           UNCHANGED <<now, linkStatus, lastEncodeTime>>
    PROVE  EncodesInTime' /\ QueuesFull' /\ SpacedOut(info)'
<1>0. EncodesInTime /\ QueuesFull  BY DEF PlanInv
<1>1. /\ now \in Nat /\ MaxEncodingTime \in Nat \ {0} /\ lastEncodeTime \in Nat /\ Times \subseteq Nat
      /\ now <= Never /\ Never \in Nat /\ \A a \in D : i[a].time \in Nat
  <2>1. \A a \in D : i[a].time \in Times  BY DEF ActionInfo
  <2>. QED BY <2>1, NumbersAre DEF TypeOK
<1>2. ASSUME NEW a \in D, i[a].time > lastEncodeTime PROVE i[a].time >= now + MaxEncodingTime
  <2>1. CASE a \in DOMAIN info  BY <1>2, <2>1, NotDue DEF Extends
  <2>2. CASE a \notin DOMAIN info  BY <2>2 DEF Extends
  <2>. QED BY <2>1, <2>2
<1> DEFINE later == {i[a].time : a \in DOMAIN i} \ 0 .. lastEncodeTime
<1>3. nextEncodeTime' = IF later = {} THEN Never ELSE Min(later) - MaxEncodingTime
  BY DEF updateEncodeTimestamp
<1>4. later \subseteq Nat /\ \A t \in later : t >= now + MaxEncodingTime
  BY <1>1, <1>2
<1>5. \A a \in D : i[a].time > lastEncodeTime => i[a].time \in later  BY <1>1
<1> HIDE DEF later
<1>6. later # {} => Min(later) \in later /\ \A t \in later : Min(later) <= t  BY <1>4, MinMax
<1>7. now <= nextEncodeTime'
  <2>1. CASE later = {}  BY <1>1, <1>3, <2>1
  <2>2. CASE later # {}
    <3>1. Min(later) \in Nat /\ Min(later) >= now + MaxEncodingTime  BY <1>4, <1>6, <2>2
    <3>. QED BY <1>1, <1>3, <2>2, <3>1
  <2>. QED BY <2>1, <2>2
<1>8. ASSUME NEW a \in D, i[a].time > lastEncodeTime PROVE i[a].time >= nextEncodeTime' + MaxEncodingTime
  <2>1. i[a].time \in later  BY <1>5, <1>8
  <2>2. Min(later) \in Nat /\ Min(later) <= i[a].time  BY <1>4, <1>6, <2>1
  <2>3. nextEncodeTime' = Min(later) - MaxEncodingTime  BY <1>3, <2>1
  <2>. QED BY <1>1, <2>2, <2>3
<1>9. lastEncodeTime <= now + MaxEncodingTime  BY <1>0 DEF EncodesInTime
<1>10. ASSUME lastEncodeTime > now PROVE \E a \in D : i[a].time = lastEncodeTime
  <2>1. PICK a \in DOMAIN info : info[a].time = lastEncodeTime  BY <1>0, <1>10 DEF EncodesInTime
  <2>2. a \in D  BY <1>9, <2>1 DEF Extends
  <2>. QED BY <2>1, <2>2 DEF Extends
<1>11. EncodesInTime'
  BY <1>7, <1>8, <1>9, <1>10 DEF EncodesInTime
<1>12. \A l \in Links : MayUse(i, l) = MayUse(info', l)  BY DEF MayUse
<1>13. QueuesFull'
  <2>1. linkStatus' = linkStatus /\ links' = links  BY DEF links
  <2>. QED BY <1>0, <1>12, <2>1, QueuesAre DEF QueuesFull
<1>14. SpacedOut(info)'  BY DEF SpacedOut
<1> QED BY <1>11, <1>13, <1>14

\* Where what is carried waits for its time.
LEMMA UsesIts ==
    ASSUME TypeOK, PlanInv, NEW a \in DOMAIN info, info[a].fragments # <<>>
    PROVE  /\ info[a].link \in links /\ ToSet(actionQueue[info[a].link]) = MayUse(info, info[a].link)
           /\ a \in MayUse(info, info[a].link)
<1> DEFINE fs == info[a].fragments
           l == info[a].link
<1>1. fs \in Seq(Pointers)  BY DEF TypeOK, ActionInfo
<1>2. 1 \in DOMAIN fs
  <2>1. Len(fs) \in Nat /\ DOMAIN fs = 1 .. Len(fs) /\ Len(fs) # 0  BY <1>1, EmptySeq, Elements
  <2>. QED BY <2>1
<1>3. l = Route[fs[1].pkg] /\ a \in ToSet(actionQueue[l])  BY <1>2 DEF PlanInv, SoundPlan, OnOneLink
<1>4. l \in Links  BY <1>1, <1>2, <1>3, PointerIs, PackagesAssumption
<1>5. actionQueue[l] # <<>>
  <2>1. ToSet(<<>>) = {}  BY DEF ToSet
  <2>. QED BY <1>3, <2>1
<1> HIDE DEF l, fs
<1>6. l \in links /\ ToSet(actionQueue[l]) = MayUse(info, l)  BY <1>4, <1>5 DEF PlanInv, QueuesFull
<1> QED BY <1>3, <1>6 DEF l

\* What a new timeline leaves of what is planned.
LEMMA TimelineLeft ==
    ASSUME Spaced, TypeInv, ReportInv, PlanInv, NEW D, D \subseteq Actions,
           NEW i \in [D -> ActionInfo], Extends(D, i),
           NEW e, e = [Plan EXCEPT !.info = i]
    PROVE  /\ e \in GoodPlans(D) /\ e.info = i /\ e.parts = parts
           /\ LeftOf(DOMAIN info, info, parts, DOMAIN info \ D, Packages, D, e, ToldHandles,
                     updateLinkTimelines(i))
<1> DEFINE O == DOMAIN info
           X == O \ D
           qs == updateLinkTimelines(i)
<1>1. TypeOK /\ Whole(parts) /\ OwnQueues  BY DEF TypeInv, ReportInv
<1>2. e = [info |-> i, parts |-> parts, full |-> {}]  BY DEF Plan
<1>3. e \in GoodPlans(D) /\ e.info = i /\ e.parts = parts
  <2>1. e.info = i /\ e.parts = parts /\ e.full = {}  BY <1>2
  <2>2. parts \in [Packages -> Seq(Fragments)]  BY <1>1 DEF TypeOK
  <2>3. [info |-> i, parts |-> parts, full |-> {}] \in PlansOf(D)  BY <2>2 DEF PlansOf
  <2>. QED BY <1>1, <1>2, <2>1, <2>3 DEF GoodPlans
<1>4. DOMAIN i = D  OBVIOUS
<1>5. O \subseteq Actions /\ info \in [O -> ActionInfo]
  BY <1>1 DEF TypeOK
<1>9. SoundPlan(info, parts, actionQueue, ToldHandles, lastEncodeTime)  BY DEF PlanInv
<1>11. LeftOf(O, info, parts, X, Packages, D, e, ToldHandles, qs)
  <2>1. OneAtATime(info)
    <3>1. Timed(info)  BY <1>1, <1>5, TimelineIs
    <3>. QED BY <3>1, SpacedOnes DEF PlanInv
  <2>2. X \subseteq O /\ \A a \in X : info[a].time >= now + MaxEncodingTime
    <3>1. ASSUME NEW a \in X PROVE info[a].time >= now + MaxEncodingTime
      <4>1. ~(info[a].time <= now + MaxEncodingTime)  BY DEF Extends
      <4>2. info[a].time \in Int /\ now + MaxEncodingTime \in Int
        <5>1. info[a].time \in Times  BY <1>5 DEF ActionInfo
        <5>. QED BY <1>1, <5>1, NumbersAre
      <4>. QED BY <4>1, <4>2
    <3>. QED BY <3>1
  <2>3. \A a \in O \ X : \A k \in DOMAIN info[a].fragments : info[a].fragments[k].pkg \in Packages
    <3>1. \A a \in O : info[a].fragments \in Seq(Pointers)  BY <1>5 DEF ActionInfo
    <3>. QED BY <3>1, PointerIs
  <2>4. \A q \in Packages : e.parts[q] = IF q \in Packages THEN parts[q] ELSE <<>>  BY <1>3
  <2>5. Carried(info, e.parts, ToldHandles)  BY <1>3, <1>9 DEF SoundPlan
  <2>6. \A a \in O \ X : a \in D /\ e.info[a] = info[a]  BY <1>3 DEF Extends
  <2>7. \A a \in D : a \notin O \ X => e.info[a].fragments = <<>>  BY <1>3 DEF Extends
  <2>8. ASSUME NEW a \in O \ X, info[a].fragments # <<>> PROVE a \in ToSet(qs[info[a].link])
    <3>1. info[a].link \in links /\ a \in MayUse(info, info[a].link)  BY <1>1, <2>8, UsesIts
    <3>2. a \in MayUse(i, info[a].link)  BY <1>4, <3>1 DEF MayUse
    <3>3. info[a].link \in Links  BY <3>1 DEF links
    <3>. QED BY <1>1, <3>1, <3>2, <3>3, QueuesAre
  <2> HIDE DEF X, qs, O
  <2>. QED BY <2>1, <2>2, <2>3, <2>4, <2>5, <2>6, <2>7, <2>8 DEF LeftOf
<1> QED BY <1>3, <1>11

\* Planning a new timeline.
LEMMA TimelinePlanned ==
    ASSUME Spaced, TypeInv, ReportInv, PlanInv, NEW D, D \subseteq Actions,
           NEW i \in [D -> ActionInfo], Extends(D, i),
           NEW r, r = Replan(i)
    PROVE  SoundPlan(r.info, r.parts, updateLinkTimelines(i), ToldHandles, lastEncodeTime)
<1> DEFINE e == [Plan EXCEPT !.info = i]
           O == DOMAIN info
           X == O \ D
           qs == updateLinkTimelines(i)
           marked == UNION {HandlesOf(info[a].fragments) : a \in DOMAIN info \ DOMAIN i}
<1>1. TypeOK /\ Whole(parts) /\ OwnQueues  BY DEF TypeInv, ReportInv
<1>2. e = [info |-> i, parts |-> parts, full |-> {}]  BY DEF Plan
<1>3. e \in GoodPlans(D) /\ e.info = i /\ e.parts = parts
  BY <1>1, <1>2 DEF TypeOK, GoodPlans, PlansOf
<1>4. qs \in [Links -> Seq(D)] /\ AllSorted(e.info, qs) /\ DOMAIN i = D
  BY <1>1, <1>3, TimelineIs DEF AllSorted
<1>5. packageQueue \in [Links -> Seq(Packages)] /\ parts \in [Packages -> Seq(Fragments)]
      /\ O \subseteq Actions /\ info \in [O -> ActionInfo]
  BY <1>1 DEF TypeOK
<1>6. OwnPackages(packageQueue)  BY <1>1 DEF OwnQueues, OwnPackages
<1>7. marked = CarriedBy(info, X)  BY <1>4 DEF CarriedBy
<1>8. r = generateFragmentsForAllPackages(e, marked, qs, packageQueue)  BY DEF Replan
<1>9. SoundPlan(info, parts, actionQueue, ToldHandles, lastEncodeTime)  BY DEF PlanInv
<1>10. Reached(lastEncodeTime)
  BY <1>1, NumbersAre DEF PlanInv, EncodesInTime, Reached, TypeOK
<1>11. LeftOf(O, info, parts, X, Packages, D, e, ToldHandles, qs)
  BY TimelineLeft
<1> HIDE DEF e, marked, qs, X, O
<1>12. SoundPlan(r.info, r.parts, qs, ToldHandles, lastEncodeTime)
  BY <1>1, <1>3, <1>4, <1>5, <1>6, <1>7, <1>8, <1>9, <1>10, <1>11, AllSound
<1> QED BY <1>12 DEF qs

LEMMA PlanFetch ==
    ASSUME Spaced, TypeInv, ReportInv, PlanInv, FetchTimeline
    PROVE  PlanInv'
<1>1. PICK D \in SUBSET Actions : \E i \in [D -> ActionInfo] :
          /\ Extends(D, i) /\ SpacedOut(i)
          /\ info' = Replan(i).info /\ parts' = Replan(i).parts
          /\ actionQueue' = updateLinkTimelines(i)
          /\ nextEncodeTime' = updateEncodeTimestamp(i)
          /\ UNCHANGED <<now, linkStatus, lastEncodeTime, reports>>
  <2>1. PICK D \in SUBSET Actions : \E i \in [D -> ActionInfo] :
            /\ \A a \in DOMAIN info : info[a].time <= now + MaxEncodingTime => a \in D
            /\ \A a \in D : /\ a \in DOMAIN info => i[a] = info[a]
                            /\ a \notin DOMAIN info => i[a].fragments = <<>>
                                                       /\ i[a].time > now + MaxEncodingTime
            /\ SpacedOut(i)
            /\ info' = Replan(i).info /\ parts' = Replan(i).parts
            /\ actionQueue' = updateLinkTimelines(i)
            /\ nextEncodeTime' = updateEncodeTimestamp(i)
            /\ UNCHANGED <<now, linkStatus, lastEncodeTime, reports>>
    BY FetchIs
  <2>2. PICK i \in [D -> ActionInfo] :
            /\ \A a \in DOMAIN info : info[a].time <= now + MaxEncodingTime => a \in D
            /\ \A a \in D : /\ a \in DOMAIN info => i[a] = info[a]
                            /\ a \notin DOMAIN info => i[a].fragments = <<>>
                                                       /\ i[a].time > now + MaxEncodingTime
            /\ SpacedOut(i)
            /\ info' = Replan(i).info /\ parts' = Replan(i).parts
            /\ actionQueue' = updateLinkTimelines(i)
            /\ nextEncodeTime' = updateEncodeTimestamp(i)
            /\ UNCHANGED <<now, linkStatus, lastEncodeTime, reports>>
    BY <2>1
  <2>3. Extends(D, i)
    <3>1. \A a \in D : i[a].time \in Times  BY DEF ActionInfo
    <3>2. now + MaxEncodingTime \in Int /\ Times \subseteq Nat  BY NumbersAre DEF TypeInv
    <3>3. \A x, y \in Int : x > y => x >= y  OBVIOUS
    <3>4. \A a \in D : i[a].time > now + MaxEncodingTime => i[a].time >= now + MaxEncodingTime
      <4>1. \A t \in Times : t \in Int  BY <3>2
      <4>2. \A a \in D : i[a].time \in Int  BY <3>1, <4>1
      <4>. QED BY <3>2, <3>3, <4>2
    <3>. QED BY <2>2, <3>4 DEF Extends
  <2>. QED BY <2>2, <2>3
<1>2. PICK i \in [D -> ActionInfo] :
          /\ Extends(D, i) /\ SpacedOut(i)
          /\ info' = Replan(i).info /\ parts' = Replan(i).parts
          /\ actionQueue' = updateLinkTimelines(i)
          /\ nextEncodeTime' = updateEncodeTimestamp(i)
          /\ UNCHANGED <<now, linkStatus, lastEncodeTime, reports>>
  BY <1>1
<1>3. TypeOK /\ Whole(parts) /\ D \subseteq Actions  BY DEF TypeInv
<1>4. DOMAIN info' = D /\ \A a \in D : info'[a].time = i[a].time
  <2>1. Replan(i) \in SameTimes(D, i)  BY <1>3, ReplanIs
  <2>2. Replan(i).info \in [D -> ActionInfo] /\ \A a \in D : Replan(i).info[a].time = i[a].time
    BY <2>1, PlanParts
  <2>. QED BY <1>2, <2>2
<1>5. EncodesInTime' /\ QueuesFull' /\ SpacedOut(info)'  BY <1>2, <1>3, <1>4, TimelineTaken
<1>6. SoundPlan(Replan(i).info, Replan(i).parts, updateLinkTimelines(i), ToldHandles, lastEncodeTime)
  BY <1>2, <1>3, TimelinePlanned
<1>7. ToldHandles' = ToldHandles  BY <1>2 DEF ToldHandles
<1>8. SoundPlan(info, parts, actionQueue, ToldHandles, lastEncodeTime)'  BY <1>2, <1>6, <1>7
<1> QED BY <1>5, <1>8 DEF PlanInv

\* The timeline a send works on.
LEMMA SendExtends ==
    ASSUME TypeOK, NEW r \in Reactive, r \notin DOMAIN info, NEW i, i = SendTimeline(r), r # NoAction
    PROVE  /\ Extends(DOMAIN i, i) /\ DOMAIN i = DOMAIN info \union {r}
           /\ i[r].time = now + MaxEncodingTime /\ \A a \in DOMAIN info : i[a] = info[a]
<1> DEFINE c == createActionInfo(r, now + MaxEncodingTime)
<1>1. i = [a \in DOMAIN info \union {r} |-> IF a = r THEN c ELSE info[a]]  BY DEF SendTimeline, With
<1>2. c.time = now + MaxEncodingTime /\ c.fragments = <<>>
  BY NumbersAre, CreatedIs DEF Actions
<1>3. now + MaxEncodingTime \in Int  BY NumbersAre
<1> HIDE DEF c
<1>4. DOMAIN i = DOMAIN info \union {r} /\ i[r] = c /\ \A a \in DOMAIN info : i[a] = info[a]
  BY <1>1
<1>5. Extends(DOMAIN i, i)  BY <1>2, <1>3, <1>4 DEF Extends
<1> QED BY <1>2, <1>4, <1>5

\* What a send finds before it plans the package.
SendReady(p, r, D, i, qs, base) ==
    /\ D \subseteq Actions /\ i \in [D -> ActionInfo] /\ qs \in [Links -> Seq(D)]
    /\ \A l \in Links : Sorted(i, qs[l])
    /\ base \in SameTimes(D, i) /\ SendPlan(p, r) \in SameTimes(D, i) /\ base.parts[p] = <<>>
    /\ p \notin Queued /\ SpacedOut(i)
    /\ r # NoAction => /\ r \in Reactive /\ r \notin DOMAIN info /\ Extends(D, i)
                       /\ D = DOMAIN info \union {r}
                       /\ i[r].time = now + MaxEncodingTime /\ \A a \in DOMAIN info : i[a] = info[a]
    /\ r = NoAction => i = info
    /\ SoundPlan(base.info, base.parts, qs, ToldHandles, lastEncodeTime)
    /\ InWindow(D, i, lastEncodeTime, r)

LEMMA SendPrepared ==
    ASSUME Spaced, TypeInv, ReportInv, PlanInv, NEW p \in Packages,
           NEW r \in Reactive \union {NoAction}, SendPackage(p, r)
    PROVE  SendReady(p, r, DOMAIN SendTimeline(r), SendTimeline(r), SendQueues(r), SendBase(r))
<1> DEFINE i == SendTimeline(r)
           D == DOMAIN i
           qs == SendQueues(r)
           base == SendBase(r)
           t1 == now + MaxEncodingTime
<1>1. /\ told[p] = <<>> /\ ~Contains(packageQueue[Route[p]], p)
      /\ r \in {NoAction} \union (Reactive \ (DOMAIN info \union DOMAIN held))
      /\ SpacedOut(i)
      /\ info' = SendPlan(p, r).info /\ parts' = SendPlan(p, r).parts
      /\ actionQueue' = qs
      /\ nextEncodeTime' = IF r # NoAction THEN updateEncodeTimestamp(i) ELSE nextEncodeTime
      /\ UNCHANGED <<now, linkStatus, lastEncodeTime, reports>>
  BY SendIs
<1>2. /\ D \subseteq Actions /\ i \in [D -> ActionInfo] /\ qs \in [Links -> Seq(D)]
      /\ \A l \in Links : Sorted(i, qs[l])
      /\ base \in SameTimes(D, i) /\ SendPlan(p, r) \in SameTimes(D, i)
  BY <1>1, SendTimelineIs
<1>3. TypeOK /\ Whole(parts) /\ OwnQueues  BY DEF TypeInv, ReportInv
<1>4. p \notin Queued
  <2>1. ASSUME NEW l \in Links, p \in ToSet(packageQueue[l]) PROVE FALSE
    <3>1. l = Route[p]  BY <1>3, <2>1 DEF OwnQueues
    <3>. QED BY <1>1, <2>1, <3>1 DEF Contains, ToSet
  <2>. QED BY <2>1 DEF Queued
<1>5. base.parts[p] = <<>>
  <2>1. CASE r = NoAction  BY <1>4, <2>1 DEF SendBase, Plan, ReportInv
  <2>2. CASE r # NoAction
    <3>1. base = Replan(i)  BY <2>2 DEF SendBase
    <3>. QED BY <1>2, <1>3, <1>4, <3>1, ReplanOnlyFor
  <2>. QED BY <2>1, <2>2
<1>6. /\ r # NoAction => /\ r \in Reactive /\ r \notin DOMAIN info /\ Extends(D, i)
                         /\ D = DOMAIN info \union {r}
                         /\ i[r].time = t1 /\ \A a \in DOMAIN info : i[a] = info[a]
      /\ r = NoAction => i = info
  <2>1. CASE r = NoAction  BY <2>1 DEF SendTimeline
  <2>2. CASE r # NoAction  BY <1>1, <1>3, <2>2, SendExtends
  <2>. QED BY <2>1, <2>2
<1>7. SoundPlan(base.info, base.parts, qs, ToldHandles, lastEncodeTime)
  <2>1. CASE r = NoAction  BY <2>1 DEF SendBase, SendQueues, Plan, PlanInv
  <2>2. CASE r # NoAction
    <3>1. base = Replan(i) /\ qs = updateLinkTimelines(i)  BY <2>2 DEF SendBase, SendQueues
    <3>. QED BY <1>2, <1>6, <2>2, <3>1, TimelinePlanned
  <2>. QED BY <2>1, <2>2
<1>8. /\ t1 \in Int /\ now \in Int /\ MaxEncodingTime \in Nat \ {0} /\ lastEncodeTime \in Int
       /\ now < t1 /\ lastEncodeTime <= t1 /\ \A a \in D : i[a].time \in Int
  <2>1. \A a \in D : i[a].time \in Times  BY <1>2 DEF ActionInfo
  <2>2. lastEncodeTime <= t1  BY DEF PlanInv, EncodesInTime
  <2>. QED BY <1>3, <2>1, <2>2, NumbersAre DEF TypeOK
<1>9. InWindow(D, i, lastEncodeTime, r)
  <2>1. ASSUME NEW a \in D, a = r \/ i[a].time > t1
        PROVE  i[a].time > lastEncodeTime /\ i[a].time >= t1
    <3>1. CASE i[a].time > t1  BY <1>8, <3>1
    <3>2. CASE a = r
      <4>1. r # NoAction  BY <1>2, <3>2, PackagesAssumption
      <4>2. i[a].time = t1  BY <1>6, <3>2, <4>1
      <4>3. ASSUME lastEncodeTime = t1 PROVE FALSE
        <5>1. PICK b \in DOMAIN info : info[b].time = lastEncodeTime
          BY <1>8, <4>3 DEF PlanInv, EncodesInTime
        <5>2. b \in D /\ b # a /\ i[b].time = i[a].time  BY <1>6, <3>2, <4>1, <4>2, <4>3, <5>1
        <5>3. OneAtATime(i)  BY <1>1, <1>2, <1>3, TimelineIs, SpacedOnes
        <5>. QED BY <2>1, <5>2, <5>3 DEF OneAtATime
      <4>. QED BY <1>8, <4>2, <4>3
    <3>. QED BY <2>1, <3>1, <3>2
  <2>. QED BY <2>1 DEF InWindow
<1> HIDE DEF i, D, qs, base
<1>10. SendReady(p, r, D, i, qs, base)  BY <1>1, <1>2, <1>4, <1>5, <1>6, <1>7, <1>9 DEF SendReady
<1>. QED BY <1>10 DEF i, D, qs, base

LEMMA PlanSend ==
    ASSUME Spaced, TypeInv, ReportInv, PlanInv, NEW p \in Packages,
           NEW r \in Reactive \union {NoAction}, SendPackage(p, r)
    PROVE  PlanInv'
<1> DEFINE i == SendTimeline(r)
           D == DOMAIN i
           qs == SendQueues(r)
           base == SendBase(r)
           t1 == now + MaxEncodingTime
<1>1. /\ told[p] = <<>> /\ ~Contains(packageQueue[Route[p]], p)
      /\ r \in {NoAction} \union (Reactive \ (DOMAIN info \union DOMAIN held))
      /\ SpacedOut(i)
      /\ info' = SendPlan(p, r).info /\ parts' = SendPlan(p, r).parts
      /\ actionQueue' = qs
      /\ nextEncodeTime' = IF r # NoAction THEN updateEncodeTimestamp(i) ELSE nextEncodeTime
      /\ UNCHANGED <<now, linkStatus, lastEncodeTime, reports>>
  BY SendIs
<1>2. SendReady(p, r, D, i, qs, base)  BY SendPrepared
<1>3. TypeOK /\ Whole(parts) /\ OwnQueues  BY DEF TypeInv, ReportInv
<1>4. /\ D \subseteq Actions /\ i \in [D -> ActionInfo] /\ qs \in [Links -> Seq(D)]
      /\ \A l \in Links : Sorted(i, qs[l])
      /\ base \in SameTimes(D, i) /\ SendPlan(p, r) \in SameTimes(D, i) /\ base.parts[p] = <<>>
  BY <1>2 DEF SendReady
<1>5. /\ r # NoAction => /\ r \in Reactive /\ r \notin DOMAIN info /\ Extends(D, i)
                         /\ D = DOMAIN info \union {r}
                         /\ i[r].time = t1 /\ \A a \in DOMAIN info : i[a] = info[a]
      /\ r = NoAction => i = info
  BY <1>2 DEF SendReady
<1>6. /\ SoundPlan(base.info, base.parts, qs, ToldHandles, lastEncodeTime)
      /\ InWindow(D, i, lastEncodeTime, r)
  BY <1>2 DEF SendReady
<1>7. DOMAIN info' = D /\ \A a \in D : info'[a].time = i[a].time
  BY <1>1, <1>4, PlanParts
<1>8. EncodesInTime' /\ QueuesFull' /\ SpacedOut(info)'
  <2>1. CASE r = NoAction
    <3>1. /\ nextEncodeTime' = nextEncodeTime /\ actionQueue' = actionQueue /\ DOMAIN info' = DOMAIN info
          /\ \A a \in DOMAIN info : info'[a].time = info[a].time
      BY <1>1, <1>5, <1>7, <2>1 DEF SendQueues
    <3>2. EncodesInTime'  BY <1>1, <3>1 DEF PlanInv, EncodesInTime
    <3>3. QueuesFull'
      <4>1. links' = links /\ \A l \in Links : MayUse(info, l) = MayUse(info', l)
        BY <1>1, <3>1 DEF links, MayUse
      <4>. QED BY <1>1, <3>1, <4>1 DEF PlanInv, QueuesFull
    <3>4. SpacedOut(info)'  BY <3>1 DEF PlanInv, SpacedOut
    <3>. QED BY <3>2, <3>3, <3>4
  <2>2. CASE r # NoAction
    <3>1. qs = updateLinkTimelines(i)  BY <2>2 DEF SendQueues
    <3> HIDE DEF i, D, qs
    <3>. QED BY <1>1, <1>3, <1>4, <1>5, <1>7, <2>2, <3>1, TimelineTaken
  <2>. QED BY <2>1, <2>2
<1>9. Past(base.info, base.parts[p])  BY <1>4 DEF Past
<1>10. SoundPlan(SendPlan(p, r).info, SendPlan(p, r).parts, qs, ToldHandles, lastEncodeTime)
  <2>1. CASE SendFits(p, r)
    <3>1. SendPlan(p, r) = generateFragmentsForPackage(base, p, qs[Route[p]], r)  BY <2>1 DEF SendPlan
    <3>2. Route[p] \in Links  BY PackagesAssumption
    <3> HIDE DEF i, D, qs, base
    <3>. QED BY <1>3, <1>4, <1>6, <1>9, <3>1, <3>2, FillSound
  <2>2. CASE ~SendFits(p, r)  BY <1>6, <2>2 DEF SendPlan
  <2>. QED BY <2>1, <2>2
<1>11. ToldHandles' = ToldHandles  BY <1>1 DEF ToldHandles
<1>12. SoundPlan(info, parts, actionQueue, ToldHandles, lastEncodeTime)'  BY <1>1, <1>10, <1>11
<1> QED BY <1>8, <1>12 DEF PlanInv

LEMMA PlanSame ==
    ASSUME PlanInv,
           UNCHANGED <<info, parts, actionQueue, reports, nextEncodeTime, lastEncodeTime, now, linkStatus>>
    PROVE  PlanInv'
<1>1. ToldHandles' = ToldHandles /\ links' = links  BY DEF ToldHandles, links
<1>2. SoundPlan(info, parts, actionQueue, ToldHandles, lastEncodeTime)'  BY <1>1 DEF PlanInv
<1>3. EncodesInTime' /\ SpacedOut(info)'  BY DEF PlanInv, EncodesInTime, SpacedOut
<1>4. QueuesFull'  BY <1>1 DEF PlanInv, QueuesFull, MayUse
<1> QED BY <1>2, <1>3, <1>4 DEF PlanInv

LEMMA PlanTick ==
    ASSUME Punctual, TypeOK, PlanInv, Tick
    PROVE  PlanInv'
<1>1. /\ now' = now + 1 /\ nextEncodeTime > now
      /\ UNCHANGED <<info, parts, actionQueue, reports, nextEncodeTime, lastEncodeTime, linkStatus>>
  BY DEF Tick, actionVars, packageVars
<1>2. ToldHandles' = ToldHandles /\ links' = links  BY <1>1 DEF ToldHandles, links
<1>3. SoundPlan(info, parts, actionQueue, ToldHandles, lastEncodeTime)'  BY <1>1, <1>2 DEF PlanInv
<1>4. QueuesFull' /\ SpacedOut(info)'  BY <1>1, <1>2 DEF PlanInv, QueuesFull, MayUse, SpacedOut
<1>5. EncodesInTime'
  <2>1. /\ now \in Int /\ MaxEncodingTime \in Int /\ nextEncodeTime \in Int /\ lastEncodeTime \in Int
    BY NumbersAre DEF TypeOK
  <2>2. now' <= nextEncodeTime' /\ lastEncodeTime' <= now' + MaxEncodingTime
    <3>1. lastEncodeTime <= now + MaxEncodingTime  BY DEF PlanInv, EncodesInTime
    <3>. QED BY <1>1, <2>1, <3>1
  <2>3. lastEncodeTime' > now' => lastEncodeTime > now  BY <1>1, <2>1
  <2>. QED BY <1>1, <2>2, <2>3 DEF PlanInv, EncodesInTime
<1> QED BY <1>3, <1>4, <1>5 DEF PlanInv

LEMMA PlanCreated ==
    ASSUME TypeOK, PlanInv, NEW l \in Links, OnLinkCreated(l)
    PROVE  PlanInv'
<1>1. /\ linkStatus[l] = "NONE" /\ linkStatus' = [linkStatus EXCEPT ![l] = "LINK_CREATED"]
      /\ UNCHANGED <<info, parts, actionQueue, reports, nextEncodeTime, lastEncodeTime, now>>
  BY DEF OnLinkCreated, actionVars, packageVars
<1>2. ToldHandles' = ToldHandles  BY <1>1 DEF ToldHandles
<1>3. SoundPlan(info, parts, actionQueue, ToldHandles, lastEncodeTime)'  BY <1>1, <1>2 DEF PlanInv
<1>4. EncodesInTime' /\ SpacedOut(info)'  BY <1>1 DEF PlanInv, EncodesInTime, SpacedOut
<1>5. QueuesFull'
  <2>1. l \notin links /\ l \in LateLinks /\ actionQueue[l] = <<>>
    BY <1>1 DEF PlanInv, QueuesFull, links
  <2>2. \A m \in Links : linkStatus'[m] = IF m = l THEN "LINK_CREATED" ELSE linkStatus[m]
    BY <1>1 DEF TypeOK
  <2>3. links' = links \union {l}  BY <2>2 DEF links
  <2>4. \A m \in Links : MayUse(info, m) = MayUse(info', m)  BY <1>1
  <2>. QED BY <1>1, <2>1, <2>2, <2>3, <2>4 DEF PlanInv, QueuesFull
<1> QED BY <1>3, <1>4, <1>5 DEF PlanInv

\* An action carries the fragments that point to it.
LEMMA CarrierIs ==
    ASSUME NEW D, D \subseteq Actions, NEW i \in [D -> ActionInfo], NEW pa, NEW T,
           OneEach(pa), PointBack(i, pa), Carried(i, pa, T),
           NEW p \in Packages, NEW k \in DOMAIN pa[p], NEW a \in D
    PROVE  pa[p][k].h \in HandlesOf(i[a].fragments) <=> pa[p][k].action = a
<1>1. ASSUME pa[p][k].h \in HandlesOf(i[a].fragments) PROVE pa[p][k].action = a
  <2>1. PICK m \in DOMAIN i[a].fragments : i[a].fragments[m].h = pa[p][k].h  BY <1>1, HandlesAre
  <2> DEFINE q == i[a].fragments[m].pkg
  <2>2. q \in Packages
    <3>1. i[a].fragments \in Seq(Pointers)  BY DEF ActionInfo
    <3>. QED BY <2>1, <3>1, PointerIs
  <2>3. PICK j \in DOMAIN pa[q] : pa[q][j].h = i[a].fragments[m].h /\ pa[q][j].action = a
    BY <2>1 DEF PointBack
  <2> HIDE DEF q
  <2>4. q = p /\ j = k  BY <2>1, <2>2, <2>3 DEF OneEach
  <2>. QED BY <2>3, <2>4
<1>2. ASSUME pa[p][k].action = a PROVE pa[p][k].h \in HandlesOf(i[a].fragments)
  <2>1. a # NoAction  BY PackagesAssumption
  <2>. QED BY <1>2, <2>1 DEF Carried
<1> QED BY <1>1, <1>2

\* What the actions A carry is encoded, up to the time t.
LEMMA MarkedSound ==
    ASSUME TypeOK, PlanInv, NEW A, A \subseteq DOMAIN info, NEW state \in FragmentStates,
           state # "UNENCODED", NEW hs, hs = CarriedBy(info, A),
           NEW pb, pb = [p \in Packages |-> SetState(p, hs, state)],
           NEW j, SameLoads(info, j), NEW t,
           \A a \in DOMAIN info \ A : info[a].time > lastEncodeTime => info[a].time > t
    PROVE  SoundPlan(j, pb, actionQueue, ToldHandles, t)
<1>1. /\ OneEach(parts) /\ PointBack(info, parts) /\ Carried(info, parts, ToldHandles)
      /\ NotYetEncoded(info, parts, lastEncodeTime)
      /\ SoundPlan(info, parts, actionQueue, ToldHandles, lastEncodeTime)
  BY DEF PlanInv, SoundPlan
<1>2. /\ DOMAIN info \subseteq Actions /\ info \in [DOMAIN info -> ActionInfo]
      /\ parts \in [Packages -> Seq(Fragments)]
  BY DEF TypeOK
<1>3. ASSUME NEW p \in Packages
      PROVE  /\ DOMAIN pb[p] = DOMAIN parts[p]
             /\ \A k \in DOMAIN parts[p] :
                    /\ pb[p][k].h = parts[p][k].h /\ pb[p][k].action = parts[p][k].action
                    /\ pb[p][k].off = parts[p][k].off /\ pb[p][k].len = parts[p][k].len
                    /\ pb[p][k].state = IF parts[p][k].h \in hs THEN state ELSE parts[p][k].state
  BY SetStateIs
<1>4. Restated(parts, pb)  BY <1>3 DEF Restated
<1>5. ASSUME NEW p \in Packages, NEW k \in DOMAIN parts[p]
      PROVE  parts[p][k].h \in hs <=> parts[p][k].action \in A
  <2>1. \A a \in A : parts[p][k].h \in HandlesOf(info[a].fragments) <=> parts[p][k].action = a
    BY <1>1, <1>2, CarrierIs
  <2>. QED BY <2>1 DEF CarriedBy
<1>6. NoAction \notin A  BY <1>2, PackagesAssumption
<1>7. Accounted(pb, ToldHandles)
  <2>1. ASSUME NEW p \in Packages, NEW k \in DOMAIN pb[p], pb[p][k].action = NoAction
        PROVE  pb[p][k].state \in {"SENT", "FAILED"} \/ pb[p][k].h \in ToldHandles
    <3>1. k \in DOMAIN parts[p] /\ parts[p][k].action = NoAction  BY <1>3, <2>1
    <3>2. parts[p][k].h \notin hs  BY <1>5, <1>6, <3>1
    <3>3. pb[p][k].state = parts[p][k].state /\ pb[p][k].h = parts[p][k].h  BY <1>3, <3>1, <3>2
    <3>4. parts[p][k].state \in {"SENT", "FAILED"} \/ parts[p][k].h \in ToldHandles
      BY <1>1, <3>1 DEF Carried
    <3>. QED BY <3>3, <3>4
  <2>. QED BY <2>1 DEF Accounted
<1>8. NotYetEncoded(j, pb, t)
  <2>1. ASSUME NEW p \in Packages, NEW k \in DOMAIN pb[p], pb[p][k].state = "UNENCODED",
               pb[p][k].action # NoAction
        PROVE  j[pb[p][k].action].time > t
    <3>1. /\ k \in DOMAIN parts[p] /\ pb[p][k].action = parts[p][k].action
          /\ parts[p][k].h \notin hs /\ parts[p][k].state = "UNENCODED"
      BY <1>3, <2>1
    <3>2. parts[p][k].action \in DOMAIN info \ A
      BY <1>1, <1>5, <2>1, <3>1 DEF Carried
    <3>3. info[parts[p][k].action].time > lastEncodeTime
      BY <1>1, <2>1, <3>1 DEF NotYetEncoded
    <3>. QED BY <3>1, <3>2, <3>3 DEF SameLoads
  <2>. QED BY <2>1 DEF NotYetEncoded
<1> QED BY <1>1, <1>2, <1>4, <1>7, <1>8, RestatedSound

\* How far encoding gets.
LEMMA EncodeIs ==
    ASSUME TypeOK, EncodeActions
    PROVE  \E due \in SUBSET DOMAIN info :
               /\ \A a \in DOMAIN info : a \in due <=> /\ info[a].time >= nextEncodeTime
                                                       /\ info[a].time <= now + MaxEncodingTime
               /\ SameLoads(info, info')
               /\ parts' = [p \in Packages |-> SetState(p, CarriedBy(info, due), "ENCODING")]
               /\ due = {} => lastEncodeTime' = lastEncodeTime
               /\ due # {} => /\ \E a \in due : lastEncodeTime' = info[a].time
                              /\ \A a \in due : info[a].time <= lastEncodeTime'
               /\ now <= nextEncodeTime'
               /\ \A a \in DOMAIN info :
                      info[a].time >= nextEncodeTime /\ a \notin due
                          => info[a].time >= nextEncodeTime' + MaxEncodingTime
<1> DEFINE due == {a \in DOMAIN info : /\ info[a].time >= nextEncodeTime
                                       /\ info[a].time <= now + MaxEncodingTime}
           later == {info[a].time : a \in {b \in DOMAIN info : /\ info[b].time >= nextEncodeTime
                                                               /\ info[b].time > now + MaxEncodingTime}}
           started == {a \in due : info[a].enc = "UNENCODED"}
           hs == UNION {HandlesOf(info[a].fragments) : a \in due}
           times == {info[a].time : a \in due}
<1>1. /\ info' = [a \in DOMAIN info |-> IF a \in started THEN [info[a] EXCEPT !.enc = "ENCODING"]
                                        ELSE info[a]]
      /\ parts' = [p \in Packages |-> SetState(p, hs, "ENCODING")]
      /\ lastEncodeTime' = IF due = {} THEN lastEncodeTime ELSE Max(times)
      /\ nextEncodeTime' = IF later = {} THEN Never ELSE Min(later) - MaxEncodingTime
  BY Zenon DEF EncodeActions
<1>2. /\ now \in Nat /\ MaxEncodingTime \in Nat \ {0} /\ nextEncodeTime \in Nat
      /\ now + MaxEncodingTime \in Nat /\ \A a \in DOMAIN info : info[a] \in ActionInfo /\ info[a].time \in Nat
  <2>1. \A a \in DOMAIN info : info[a] \in ActionInfo /\ info[a].time \in Times  BY DEF TypeOK, ActionInfo
  <2>. QED BY <2>1, NumbersAre DEF TypeOK
<1>3. hs = CarriedBy(info, due)  BY DEF CarriedBy
<1>4. /\ due \subseteq DOMAIN info
      /\ \A a \in DOMAIN info : a \in due <=> /\ info[a].time >= nextEncodeTime
                                              /\ info[a].time <= now + MaxEncodingTime
  OBVIOUS
<1>5. /\ \A t \in later : t \in Nat /\ t > now + MaxEncodingTime
      /\ \A a \in DOMAIN info : info[a].time >= nextEncodeTime /\ a \notin due => info[a].time \in later
  BY <1>2
<1>6. times \subseteq Nat /\ (\A t \in times : \E a \in due : t = info[a].time)
      /\ (\A a \in due : info[a].time \in times) /\ (due # {} => times # {})
  BY <1>2
<1>7. IsFiniteSet(times)
  <2> DEFINE f == [a \in due |-> info[a].time]
  <2>1. IsFiniteSet(due)
    <3>1. due \in SUBSET Actions  BY <1>4 DEF TypeOK
    <3>. QED BY <3>1, FiniteActions
  <2>2. DOMAIN f = due /\ times = {f[a] : a \in DOMAIN f}  OBVIOUS
  <2> HIDE DEF f, due, times
  <2>. QED BY <2>1, <2>2, FiniteImage
<1>8. SameLoads(info, info')
  <2>1. ASSUME NEW a \in DOMAIN info
        PROVE  /\ [info[a] EXCEPT !.enc = "ENCODING"].time = info[a].time
               /\ [info[a] EXCEPT !.enc = "ENCODING"].link = info[a].link
               /\ [info[a] EXCEPT !.enc = "ENCODING"].fragments = info[a].fragments
    BY <1>2 DEF ActionInfo
  <2> HIDE DEF started, due
  <2>. QED BY <1>1, <2>1 DEF SameLoads
<1> HIDE DEF due, later, started, hs, times
<1>9. due # {} => /\ \E a \in due : lastEncodeTime' = info[a].time
                  /\ \A a \in due : info[a].time <= lastEncodeTime'
  <2> SUFFICES ASSUME due # {}
               PROVE  /\ \E a \in due : lastEncodeTime' = info[a].time
                      /\ \A a \in due : info[a].time <= lastEncodeTime'
    OBVIOUS
  <2>1. Max(times) \in times /\ \A t \in times : t <= Max(times)  BY <1>6, <1>7, MinMax
  <2>2. lastEncodeTime' = Max(times)  BY <1>1
  <2>. QED BY <1>6, <2>1, <2>2
<1>10. later # {} => Min(later) \in later /\ \A t \in later : Min(later) <= t
  <2>1. later \subseteq Nat  BY <1>5
  <2>. QED BY <2>1, MinMax
<1>11. now <= nextEncodeTime'
  <2>1. CASE later = {}  BY <1>1, <2>1, NumbersAre
  <2>2. CASE later # {}
    <3>1. Min(later) \in Nat /\ Min(later) > now + MaxEncodingTime  BY <1>5, <1>10, <2>2
    <3>2. nextEncodeTime' = Min(later) - MaxEncodingTime  BY <1>1, <2>2
    <3>. QED BY <1>2, <3>1, <3>2
  <2>. QED BY <2>1, <2>2
<1>12. ASSUME NEW a \in DOMAIN info, info[a].time >= nextEncodeTime, a \notin due
       PROVE  info[a].time >= nextEncodeTime' + MaxEncodingTime
  <2>1. info[a].time \in later  BY <1>5, <1>12
  <2>2. Min(later) \in Nat /\ Min(later) <= info[a].time  BY <1>5, <1>10, <2>1
  <2>3. nextEncodeTime' = Min(later) - MaxEncodingTime  BY <1>1, <2>1
  <2>4. info[a].time \in Nat  BY <1>2
  <2>. QED BY <1>2, <2>2, <2>3, <2>4
<1>13. parts' = [p \in Packages |-> SetState(p, CarriedBy(info, due), "ENCODING")]  BY <1>1, <1>3
<1>14. due = {} => lastEncodeTime' = lastEncodeTime  BY <1>1
<1> QED BY <1>4, <1>8, <1>9, <1>11, <1>12, <1>13, <1>14

LEMMA PlanEncode ==
    ASSUME TypeOK, PlanInv, EncodeActions
    PROVE  PlanInv'
<1>1. PICK due \in SUBSET DOMAIN info :
               /\ \A a \in DOMAIN info : a \in due <=> /\ info[a].time >= nextEncodeTime
                                                       /\ info[a].time <= now + MaxEncodingTime
               /\ SameLoads(info, info')
               /\ parts' = [p \in Packages |-> SetState(p, CarriedBy(info, due), "ENCODING")]
               /\ due = {} => lastEncodeTime' = lastEncodeTime
               /\ due # {} => /\ \E a \in due : lastEncodeTime' = info[a].time
                              /\ \A a \in due : info[a].time <= lastEncodeTime'
               /\ now <= nextEncodeTime'
               /\ \A a \in DOMAIN info :
                      info[a].time >= nextEncodeTime /\ a \notin due
                          => info[a].time >= nextEncodeTime' + MaxEncodingTime
  BY EncodeIs
<1>2. /\ now >= nextEncodeTime /\ \A a \in DOMAIN info : info[a].time > now
      /\ UNCHANGED <<now, linkStatus, actionQueue, reports>>
  BY Zenon DEF EncodeActions
<1>3. /\ now \in Nat /\ MaxEncodingTime \in Nat \ {0} /\ nextEncodeTime \in Nat /\ lastEncodeTime \in Nat
      /\ now <= Never /\ Never \in Nat /\ \A a \in DOMAIN info : info[a].time \in Nat
  <2>1. \A a \in DOMAIN info : info[a].time \in Times  BY DEF TypeOK, ActionInfo
  <2>. QED BY <2>1, NumbersAre DEF TypeOK
<1>4. /\ now <= nextEncodeTime /\ lastEncodeTime <= now + MaxEncodingTime
      /\ \A a \in DOMAIN info :
             info[a].time > lastEncodeTime => info[a].time >= nextEncodeTime + MaxEncodingTime
      /\ lastEncodeTime > now => \E a \in DOMAIN info : info[a].time = lastEncodeTime
  BY DEF PlanInv, EncodesInTime
<1>5. lastEncodeTime' \in Nat /\ lastEncodeTime <= lastEncodeTime' /\ lastEncodeTime' <= now + MaxEncodingTime
  <2>1. CASE due = {}  BY <1>1, <1>3, <1>4, <2>1
  <2>2. CASE due # {}
    <3>1. PICK a \in due : lastEncodeTime' = info[a].time  BY <1>1, <2>2
    <3>2. lastEncodeTime' \in Nat /\ lastEncodeTime' <= now + MaxEncodingTime /\ lastEncodeTime' > now
      BY <1>1, <1>2, <1>3, <3>1
    <3>3. CASE lastEncodeTime <= now
      <4>. QED BY <1>3, <3>2, <3>3
    <3>4. CASE lastEncodeTime > now
      <4>1. PICK b \in DOMAIN info : info[b].time = lastEncodeTime  BY <1>4, <3>4
      <4>2. lastEncodeTime >= nextEncodeTime  BY <1>2, <1>3, <3>4
      <4>3. b \in due  BY <1>1, <1>4, <4>1, <4>2
      <4>4. info[b].time <= lastEncodeTime'  BY <1>1, <4>3
      <4>. QED BY <3>2, <4>1, <4>4
    <3>. QED BY <1>3, <3>3, <3>4
  <2>. QED BY <2>1, <2>2
<1>6. ASSUME NEW a \in DOMAIN info, info[a].time > lastEncodeTime
      PROVE  info[a].time >= nextEncodeTime
  <2>1. info[a].time >= nextEncodeTime + MaxEncodingTime /\ info[a].time \in Nat  BY <1>3, <1>4, <1>6
  <2>. QED BY <1>3, <2>1
<1>7. ASSUME NEW a \in DOMAIN info \ due, info[a].time > lastEncodeTime
      PROVE  info[a].time > lastEncodeTime'
  <2>1. ~(info[a].time <= now + MaxEncodingTime) /\ info[a].time \in Nat  BY <1>1, <1>3, <1>6, <1>7
  <2>. QED BY <1>3, <1>5, <2>1
<1>8. SoundPlan(info', parts', actionQueue, ToldHandles, lastEncodeTime')
  <2>1. "ENCODING" \in FragmentStates /\ "ENCODING" # "UNENCODED"  BY DEF FragmentStates
  <2>2. due \subseteq DOMAIN info  OBVIOUS
  <2>. QED BY <1>1, <1>7, <2>1, <2>2, MarkedSound
<1>9. SoundPlan(info, parts, actionQueue, ToldHandles, lastEncodeTime)'
  <2>1. ToldHandles' = ToldHandles /\ actionQueue' = actionQueue  BY <1>2 DEF ToldHandles
  <2>. QED BY <1>8, <2>1
<1>10. DOMAIN info' = DOMAIN info /\ \A a \in DOMAIN info : info'[a].time = info[a].time
  BY <1>1 DEF SameLoads
<1>11. EncodesInTime'
  <2>1. now' <= nextEncodeTime' /\ now' = now  BY <1>1, <1>2
  <2>2. ASSUME NEW a \in DOMAIN info, info[a].time > lastEncodeTime'
        PROVE  info[a].time >= nextEncodeTime' + MaxEncodingTime
    <3>1. a \notin due
      <4>1. ASSUME a \in due PROVE FALSE
        <5>1. info[a].time <= lastEncodeTime' /\ info[a].time \in Nat  BY <1>1, <1>3, <4>1
        <5>. QED BY <1>5, <2>2, <5>1
      <4>. QED BY <4>1
    <3>2. info[a].time > lastEncodeTime
      <4>1. info[a].time \in Nat  BY <1>3
      <4>. QED BY <1>3, <1>5, <2>2, <4>1
    <3>. QED BY <1>1, <1>6, <3>1, <3>2
  <2>3. ASSUME lastEncodeTime' > now PROVE \E a \in DOMAIN info : info[a].time = lastEncodeTime'
    <3>1. CASE due = {}  BY <1>1, <1>4, <2>3, <3>1
    <3>2. CASE due # {}  BY <1>1, <3>2
    <3>. QED BY <3>1, <3>2
  <2>. QED BY <1>5, <1>10, <2>1, <2>2, <2>3 DEF EncodesInTime
<1>12. QueuesFull'
  <2>1. links' = links /\ \A l \in Links : MayUse(info, l) = MayUse(info', l)
    BY <1>2, <1>10 DEF links, MayUse
  <2>. QED BY <1>2, <2>1 DEF PlanInv, QueuesFull
<1>13. SpacedOut(info)'  BY <1>10 DEF PlanInv, SpacedOut
<1> QED BY <1>9, <1>11, <1>12, <1>13 DEF PlanInv

\* A step that leaves the timeline its times and the queues alone.
LEMMA TimelineKept ==
    ASSUME PlanInv, DOMAIN info' = DOMAIN info, \A a \in DOMAIN info : info'[a].time = info[a].time,
           UNCHANGED <<now, linkStatus, actionQueue, nextEncodeTime, lastEncodeTime>>
    PROVE  EncodesInTime' /\ QueuesFull' /\ SpacedOut(info)'
<1>1. EncodesInTime' /\ SpacedOut(info)'  BY DEF PlanInv, EncodesInTime, SpacedOut
<1>2. links' = links /\ \A l \in Links : MayUse(info, l) = MayUse(info', l)  BY DEF links, MayUse
<1>3. QueuesFull'  BY <1>2 DEF PlanInv, QueuesFull
<1> QED BY <1>1, <1>3

LEMMA PlanEncoded ==
    ASSUME TypeOK, EncodedInTime, PlanInv, NEW a \in Actions, OnBytesEncoded(a)
    PROVE  PlanInv'
<1> DEFINE hs == HandlesOf(info[a].fragments)
<1>1. /\ a \in DOMAIN encoder
      /\ \/ /\ info' = [info EXCEPT ![a].enc = "ENQUEUED"]
            /\ parts' = [p \in Packages |-> SetState(p, hs, "ENQUEUED")]
         \/ info' = info /\ parts' = parts
      /\ UNCHANGED <<now, linkStatus, actionQueue, nextEncodeTime, lastEncodeTime, reports>>
  BY DEF OnBytesEncoded
<1>2. a \in DOMAIN info  BY <1>1 DEF EncodedInTime
<1>3. CASE info' = info /\ parts' = parts  BY <1>1, <1>3, PlanSame
<1>4. CASE /\ info' = [info EXCEPT ![a].enc = "ENQUEUED"]
           /\ parts' = [p \in Packages |-> SetState(p, hs, "ENQUEUED")]
  <2>1. info \in [DOMAIN info -> ActionInfo]  BY DEF TypeOK
  <2>2. SameLoads(info, info')
    <3>1. info' = [b \in DOMAIN info |-> IF b = a THEN [info[a] EXCEPT !.enc = "ENQUEUED"] ELSE info[b]]
      BY <1>4, <2>1
    <3>2. /\ [info[a] EXCEPT !.enc = "ENQUEUED"].time = info[a].time
          /\ [info[a] EXCEPT !.enc = "ENQUEUED"].link = info[a].link
          /\ [info[a] EXCEPT !.enc = "ENQUEUED"].fragments = info[a].fragments
      BY <1>2, <2>1 DEF ActionInfo
    <3>. QED BY <3>1, <3>2 DEF SameLoads
  <2>3. "ENQUEUED" \in FragmentStates /\ "ENQUEUED" # "UNENCODED"  BY DEF FragmentStates
  <2>4. hs = CarriedBy(info, {a})  BY DEF CarriedBy
  <2> HIDE DEF hs
  <2>5. SoundPlan(info', parts', actionQueue, ToldHandles, lastEncodeTime)
    BY <1>2, <1>4, <2>2, <2>3, <2>4, MarkedSound
  <2>6. ToldHandles' = ToldHandles  BY <1>1 DEF ToldHandles
  <2>7. SoundPlan(info, parts, actionQueue, ToldHandles, lastEncodeTime)'  BY <1>1, <2>5, <2>6
  <2>8. EncodesInTime' /\ QueuesFull' /\ SpacedOut(info)'
    BY <1>1, <2>2, TimelineKept DEF SameLoads
  <2>. QED BY <2>7, <2>8 DEF PlanInv
<1> QED BY <1>1, <1>3, <1>4

\* The handles an action's reports are about are told.
LEMMA ToldIs ==
    ASSUME reports \in Seq(Handles \X Statuses), NEW fs \in Seq(Pointers), NEW sent \in BOOLEAN,
           reports' = reports \o ReportsOf(fs, sent)
    PROVE  ToldHandles \subseteq ToldHandles' /\ HandlesOf(fs) \subseteq ToldHandles'
<1> DEFINE s == ReportsOf(fs, sent)
<1>1. DOMAIN fs = 1 .. Len(fs) /\ Len(fs) \in Nat /\ \A k \in DOMAIN fs : fs[k].h \in Handles
  BY Elements, PointerIs
<1>2. s = [k \in DOMAIN fs |-> <<fs[k].h, IF sent THEN "PACKAGE_SENT" ELSE "PACKAGE_FAILED_GENERIC">>]
  BY DEF ReportsOf
<1>3. s \in Seq(Handles \X Statuses) /\ Len(s) = Len(fs) /\ \A k \in DOMAIN fs : s[k][1] = fs[k].h
  <2>1. \A k \in DOMAIN fs :
            <<fs[k].h, IF sent THEN "PACKAGE_SENT" ELSE "PACKAGE_FAILED_GENERIC">> \in Handles \X Statuses
    BY <1>1 DEF Statuses
  <2>2. s \in [1 .. Len(fs) -> Handles \X Statuses]  BY <1>1, <1>2, <2>1
  <2>. QED BY <1>1, <1>2, <2>2
<1> HIDE DEF s
<1>4. /\ Len(reports') = Len(reports) + Len(fs) /\ reports' \in Seq(Handles \X Statuses)
      /\ \A k \in 1 .. Len(reports) + Len(fs) :
             reports'[k] = IF k <= Len(reports) THEN reports[k] ELSE s[k - Len(reports)]
  <2>1. reports' = reports \o s  BY DEF s
  <2>2. /\ reports \o s \in Seq(Handles \X Statuses) /\ Len(reports \o s) = Len(reports) + Len(s)
        /\ \A k \in 1 .. Len(reports) + Len(s) :
               (reports \o s)[k] = IF k <= Len(reports) THEN reports[k] ELSE s[k - Len(reports)]
    <3> DEFINE R == Handles \X Statuses
    <3>1. reports \in Seq(R) /\ s \in Seq(R)  BY <1>3
    <3> HIDE DEF R
    <3>2. /\ reports \o s \in Seq(R) /\ Len(reports \o s) = Len(reports) + Len(s)
          /\ \A k \in 1 .. Len(reports) + Len(s) :
                 (reports \o s)[k] = IF k <= Len(reports) THEN reports[k] ELSE s[k - Len(reports)]
      BY ONLY <3>1, ConcatProperties
    <3>. QED BY <3>2 DEF R
  <2>. QED BY <1>3, <2>1, <2>2
<1>5. DOMAIN reports = 1 .. Len(reports) /\ Len(reports) \in Nat
      /\ DOMAIN reports' = 1 .. Len(reports) + Len(fs)
  <2>1. DOMAIN reports = 1 .. Len(reports) /\ Len(reports) \in Nat  BY Elements
  <2>2. DOMAIN reports' = 1 .. Len(reports')  BY <1>4, Elements
  <2>. QED BY <1>4, <2>1, <2>2
<1>6. ASSUME NEW k \in DOMAIN reports PROVE k \in DOMAIN reports' /\ reports'[k] = reports[k]
  BY <1>1, <1>4, <1>5
<1>7. ASSUME NEW k \in DOMAIN fs
      PROVE  Len(reports) + k \in DOMAIN reports' /\ reports'[Len(reports) + k] = s[k]
  <2>1. /\ k \in Int /\ Len(reports) + k \in 1 .. Len(reports) + Len(fs)
        /\ ~(Len(reports) + k <= Len(reports)) /\ Len(reports) + k - Len(reports) = k
    BY <1>1, <1>5
  <2>. QED BY <1>4, <1>5, <2>1
<1>8. ToldHandles' = {reports'[k][1] : k \in DOMAIN reports'}  BY DEF ToldHandles
<1>9. ToldHandles \subseteq ToldHandles'  BY <1>6, <1>8 DEF ToldHandles
<1>10. HandlesOf(fs) \subseteq ToldHandles'  BY <1>3, <1>7, <1>8 DEF HandlesOf
<1> QED BY <1>9, <1>10

\* A queue without its head, or as it was, keeps all others.
LEMMA PopKeeps ==
    ASSUME NEW T, NEW q \in Seq(T), NEW a, NEW r, r = IF q # <<>> /\ Head(q) = a THEN Tail(q) ELSE q
    PROVE  ToSet(r) \subseteq ToSet(q) /\ \A b \in ToSet(q) \ {a} : b \in ToSet(r)
<1>1. CASE ~(q # <<>> /\ Head(q) = a)  BY <1>1
<1>2. CASE q # <<>> /\ Head(q) = a
  <2>1. r = Tail(q) /\ q[1] = a  BY <1>2
  <2>2. ToSet(r) \subseteq ToSet(q)  BY <1>2, <2>1, TailElements
  <2>3. /\ r \in Seq(T) /\ Len(r) = Len(q) - 1 /\ \A k \in 1 .. Len(r) : r[k] = q[k + 1]
    BY <1>2, <2>1, HeadTailProperties
  <2>4. DOMAIN q = 1 .. Len(q) /\ Len(q) \in Nat /\ DOMAIN r = 1 .. Len(r) /\ Len(r) \in Nat
    BY <2>3, Elements
  <2>5. ASSUME NEW b \in ToSet(q) \ {a} PROVE b \in ToSet(r)
    <3>1. PICK k \in DOMAIN q : q[k] = b  BY DEF ToSet
    <3>2. k # 1  BY <2>1, <3>1
    <3>3. k \in 1 .. Len(q) /\ Len(q) \in Nat  BY <2>4
    <3>4. k - 1 \in 1 .. Len(q) - 1 /\ (k - 1) + 1 = k  BY <3>2, <3>3
    <3>5. k - 1 \in 1 .. Len(r)  BY <2>3, <3>4
    <3>6. r[k - 1] = b  BY <2>3, <3>1, <3>4, <3>5
    <3>7. k - 1 \in DOMAIN r  BY <2>4, <3>5
    <3>. QED BY <3>6, <3>7 DEF ToSet
  <2>. QED BY <2>2, <2>5
<1> QED BY <1>1, <1>2

\* What is done of a sound plan: its first action.
LEMMA DoneSound ==
    ASSUME TypeOK, OneAtATime(info), PlanInv, NEW a \in DOMAIN info,
           \A b \in DOMAIN info \ {a} : Before(info, a, b),
           NEW hs, hs = HandlesOf(info[a].fragments), NEW j, j = Without(info, {a}),
           NEW pb, pb = DoneParts(hs), NEW T, ToldHandles \subseteq T, hs \subseteq T,
           NEW qs, \A l \in Links : \A b \in ToSet(actionQueue[l]) \ {a} : b \in ToSet(qs[l])
    PROVE  SoundPlan(j, pb, qs, T, lastEncodeTime)
<1> DEFINE D == DOMAIN info
<1>1. /\ Tiles(parts) /\ OneEach(parts) /\ PointBack(info, parts) /\ Carried(info, parts, ToldHandles)
      /\ OnOneLink(info, actionQueue) /\ InTimeOrder(info, parts)
      /\ NotYetEncoded(info, parts, lastEncodeTime)
  BY DEF PlanInv, SoundPlan
<1>2. /\ D \subseteq Actions /\ info \in [D -> ActionInfo] /\ parts \in [Packages -> Seq(Fragments)]
  BY DEF TypeOK
<1>3. DOMAIN j = D \ {a} /\ \A b \in D \ {a} : j[b] = info[b]  BY DEF Without
<1>4. a # NoAction /\ a \in Int  BY <1>2, PackagesAssumption
<1>5. ASSUME NEW p \in Packages
      PROVE  /\ DOMAIN pb[p] = DOMAIN parts[p]
             /\ \A k \in DOMAIN parts[p] :
                    /\ pb[p][k].h = parts[p][k].h
                    /\ pb[p][k].off = parts[p][k].off /\ pb[p][k].len = parts[p][k].len
                    /\ parts[p][k].action = a =>
                           /\ pb[p][k].action = NoAction /\ pb[p][k].state = "DONE"
                           /\ parts[p][k].h \in hs
                    /\ parts[p][k].action # a =>
                           /\ pb[p][k].action = parts[p][k].action /\ pb[p][k].state = parts[p][k].state
  <2>1. \A k \in DOMAIN parts[p] : parts[p][k].h \in hs <=> parts[p][k].action = a
    BY <1>1, <1>2, CarrierIs
  <2>2. /\ DOMAIN pb[p] = DOMAIN parts[p]
        /\ \A k \in DOMAIN parts[p] :
               /\ pb[p][k].h = parts[p][k].h
               /\ pb[p][k].off = parts[p][k].off /\ pb[p][k].len = parts[p][k].len
               /\ pb[p][k].action = IF parts[p][k].h \in hs THEN NoAction ELSE parts[p][k].action
               /\ pb[p][k].state = IF parts[p][k].h \in hs THEN "DONE" ELSE parts[p][k].state
    BY DoneIs
  <2>. QED BY <2>1, <2>2
<1>6. ASSUME NEW p \in Packages, NEW k \in DOMAIN pb[p]
      PROVE  /\ k \in DOMAIN parts[p]
             /\ pb[p][k].h = parts[p][k].h
             /\ pb[p][k].off = parts[p][k].off /\ pb[p][k].len = parts[p][k].len
             /\ pb[p][k].action # NoAction =>
                    /\ pb[p][k].action = parts[p][k].action /\ parts[p][k].action # a
                    /\ parts[p][k].action \in D /\ pb[p][k].state = parts[p][k].state
             /\ pb[p][k].action = NoAction =>
                    \/ parts[p][k].h \in hs
                    \/ parts[p][k].action = NoAction /\ pb[p][k].state = parts[p][k].state
  <2>1. k \in DOMAIN parts[p]  BY <1>5
  <2>2. parts[p][k].action # NoAction => parts[p][k].action \in D  BY <1>1, <2>1 DEF Carried
  <2>. QED BY <1>4, <1>5, <2>1, <2>2
<1> HIDE DEF D
<1>7. Tiles(pb)
  <2>1. ASSUME NEW p \in Packages, NEW k \in DOMAIN pb[p]
        PROVE  /\ pb[p][k].len > 0
               /\ k = 1 => pb[p][k].off = 0
               /\ k # 1 => pb[p][k].off = pb[p][k - 1].off + pb[p][k - 1].len
    <3>1. k \in DOMAIN parts[p] /\ pb[p][k].off = parts[p][k].off /\ pb[p][k].len = parts[p][k].len
      BY <1>6, <2>1
    <3>2. k # 1 => k - 1 \in DOMAIN parts[p]
      <4>1. DOMAIN parts[p] = 1 .. Len(parts[p]) /\ Len(parts[p]) \in Nat  BY <1>2, Elements
      <4>. QED BY <3>1, <4>1
    <3>3. k # 1 => pb[p][k - 1].off = parts[p][k - 1].off /\ pb[p][k - 1].len = parts[p][k - 1].len
      BY <1>5, <3>2
    <3>. QED BY <1>1, <3>1, <3>3 DEF Tiles
  <2>. QED BY <2>1 DEF Tiles
<1>8. OneEach(pb)
  <2>1. ASSUME NEW p \in Packages, NEW q \in Packages, NEW m \in DOMAIN pb[p], NEW k \in DOMAIN pb[q],
               pb[p][m].h = pb[q][k].h
        PROVE  p = q /\ m = k
    BY <1>1, <1>6, <2>1 DEF OneEach
  <2>. QED BY <2>1 DEF OneEach
<1>9. PointBack(j, pb)
  <2>1. ASSUME NEW b \in DOMAIN j, NEW k \in DOMAIN j[b].fragments
        PROVE  \E m \in DOMAIN pb[j[b].fragments[k].pkg] :
                   /\ pb[j[b].fragments[k].pkg][m].h = j[b].fragments[k].h
                   /\ pb[j[b].fragments[k].pkg][m].action = b
    <3> DEFINE x == info[b].fragments[k]
    <3>1. b \in D /\ b # a /\ j[b] = info[b] /\ k \in DOMAIN info[b].fragments /\ j[b].fragments[k] = x
      BY <1>3, <2>1
    <3>2. x.pkg \in Packages
      <4>1. info[b].fragments \in Seq(Pointers)  BY <1>2, <3>1 DEF ActionInfo
      <4>. QED BY <3>1, <4>1, PointerIs
    <3>3. PICK m \in DOMAIN parts[x.pkg] : parts[x.pkg][m].h = x.h /\ parts[x.pkg][m].action = b
      BY <1>1, <3>1 DEF PointBack, D
    <3> HIDE DEF x
    <3>4. m \in DOMAIN pb[x.pkg] /\ pb[x.pkg][m].h = x.h /\ pb[x.pkg][m].action = b
      BY <1>5, <3>1, <3>2, <3>3
    <3>. QED BY <3>1, <3>4
  <2>. QED BY <2>1 DEF PointBack
<1>10. Carried(j, pb, T)
  <2>1. ASSUME NEW p \in Packages, NEW k \in DOMAIN pb[p]
        PROVE  /\ pb[p][k].action = NoAction => pb[p][k].state \in {"SENT", "FAILED"} \/ pb[p][k].h \in T
               /\ pb[p][k].action # NoAction => /\ pb[p][k].action \in DOMAIN j
                                                /\ pb[p][k].h \in HandlesOf(j[pb[p][k].action].fragments)
    <3>1. k \in DOMAIN parts[p]  BY <1>6
    <3>2. CASE pb[p][k].action = NoAction
      <4>1. parts[p][k].action = NoAction =>
                parts[p][k].state \in {"SENT", "FAILED"} \/ parts[p][k].h \in ToldHandles
        BY <1>1, <3>1 DEF Carried
      <4>. QED BY <1>6, <3>2, <4>1
    <3>3. CASE pb[p][k].action # NoAction
      <4>1. pb[p][k].action = parts[p][k].action /\ parts[p][k].action \in D \ {a} /\ pb[p][k].h = parts[p][k].h
        BY <1>6, <3>3
      <4>2. parts[p][k].h \in HandlesOf(info[parts[p][k].action].fragments)
        BY <1>1, <3>1, <3>3, <4>1 DEF Carried
      <4>. QED BY <1>3, <3>3, <4>1, <4>2
    <3>. QED BY <3>2, <3>3
  <2>. QED BY <2>1 DEF Carried
<1>11. OnOneLink(j, qs)
  <2>1. ASSUME NEW b \in DOMAIN j, NEW k \in DOMAIN j[b].fragments
        PROVE  j[b].link = Route[j[b].fragments[k].pkg] /\ b \in ToSet(qs[j[b].link])
    <3>1. b \in D /\ b # a /\ j[b] = info[b] /\ k \in DOMAIN info[b].fragments  BY <1>3, <2>1
    <3>2. info[b].link = Route[info[b].fragments[k].pkg] /\ b \in ToSet(actionQueue[info[b].link])
      BY <1>1, <3>1 DEF OnOneLink, D
    <3>3. info[b].link \in Links
      <4>1. info[b].fragments \in Seq(Pointers)  BY <1>2, <3>1 DEF ActionInfo
      <4>2. info[b].fragments[k].pkg \in Packages  BY <3>1, <4>1, PointerIs
      <4>. QED BY <3>2, <4>2, PackagesAssumption
    <3>. QED BY <3>1, <3>2, <3>3
  <2>. QED BY <2>1 DEF OnOneLink
<1>12. InTimeOrder(j, pb)
  <2>1. ASSUME NEW p \in Packages, NEW m \in DOMAIN pb[p], NEW k \in DOMAIN pb[p], m < k,
               pb[p][m].action # NoAction
        PROVE  pb[p][k].action # NoAction /\ j[pb[p][m].action].time <= j[pb[p][k].action].time
    <3> DEFINE b == parts[p][m].action
               c == parts[p][k].action
    <3>1. m \in DOMAIN parts[p] /\ k \in DOMAIN parts[p] /\ b \in D /\ b # a /\ pb[p][m].action = b /\ b # NoAction
      BY <1>6, <2>1
    <3>2. c # NoAction /\ info[b].time <= info[c].time
      BY <1>1, <2>1, <3>1 DEF InTimeOrder
    <3>3. c \in D  BY <1>1, <3>1, <3>2 DEF Carried, D
    <3> HIDE DEF b, c
    <3>4. c # a
      <4>1. ASSUME c = a PROVE FALSE
        <5>1. Before(info, a, b)  BY <3>1 DEF D
        <5>2. info[a].time \in Int /\ info[b].time \in Int
          <6>1. Timed(info)  BY <1>2, TimelineIs DEF D
          <6>. QED BY <3>1, <6>1 DEF Timed, D
        <5>3. info[a].time = info[b].time  BY <3>2, <4>1, <5>1, <5>2 DEF Before
        <5>. QED BY <3>1, <5>3 DEF OneAtATime, D
      <4>. QED BY <4>1
    <3>5. pb[p][k].action = c  BY <1>5, <3>1, <3>4 DEF c
    <3>6. j[b].time = info[b].time /\ j[c].time = info[c].time  BY <1>3, <3>1, <3>3, <3>4
    <3>7. j[pb[p][m].action].time = info[b].time  BY <3>1, <3>6
    <3>8. j[pb[p][k].action].time = info[c].time  BY <3>5, <3>6
    <3>. QED BY <3>2, <3>5, <3>7, <3>8
  <2>. QED BY <2>1 DEF InTimeOrder
<1>13. NotYetEncoded(j, pb, lastEncodeTime)
  <2>1. ASSUME NEW p \in Packages, NEW k \in DOMAIN pb[p], pb[p][k].state = "UNENCODED",
               pb[p][k].action # NoAction
        PROVE  j[pb[p][k].action].time > lastEncodeTime
    <3>1. /\ k \in DOMAIN parts[p] /\ pb[p][k].action = parts[p][k].action /\ parts[p][k].action \in D \ {a}
          /\ parts[p][k].state = "UNENCODED"
      BY <1>6, <2>1
    <3>2. info[parts[p][k].action].time > lastEncodeTime  BY <1>1, <2>1, <3>1 DEF NotYetEncoded
    <3>. QED BY <1>3, <3>1, <3>2
  <2>. QED BY <2>1 DEF NotYetEncoded
<1> QED BY <1>7, <1>8, <1>9, <1>10, <1>11, <1>12, <1>13 DEF SoundPlan

LEMMA PlanDo ==
    ASSUME Spaced, TypeInv, PlanInv, DoAction
    PROVE  PlanInv'
<1> DEFINE a == FirstAction
           fs == info[a].fragments
<1>1. /\ info # <<>> /\ now >= info[a].time
      /\ \E sent \in BOOLEAN : reports' = reports \o ReportsOf(fs, sent)
      /\ info' = Without(info, {a}) /\ actionQueue' = [l \in Links |-> Popped(l)]
      /\ parts' = DoneParts(HandlesOf(fs))
      /\ UNCHANGED <<now, linkStatus, nextEncodeTime, lastEncodeTime>>
  BY DoIs
<1>2. TypeOK /\ QueuesSorted  BY DEF TypeInv
<1>3. a \in DOMAIN info /\ \A b \in DOMAIN info \ {a} : Before(info, a, b)
  BY <1>1, <1>2, FirstActionIs
<1>4. \A l \in Links : Popped(l) = IF actionQueue[l] # <<>> /\ Head(actionQueue[l]) = a
                                   THEN Tail(actionQueue[l]) ELSE actionQueue[l]
  BY DEF Popped
<1> HIDE DEF a
<1>5. Timed(info) /\ fs \in Seq(Pointers)
  <2>1. DOMAIN info \subseteq Actions /\ info \in [DOMAIN info -> ActionInfo]  BY <1>2 DEF TypeOK
  <2>. QED BY <1>2, <1>3, <2>1, TimelineIs DEF ActionInfo
<1>6. OneAtATime(info)  BY <1>5, SpacedOnes DEF PlanInv
<1>7. ASSUME NEW l \in Links
      PROVE  /\ ToSet(Popped(l)) \subseteq ToSet(actionQueue[l])
             /\ \A b \in ToSet(actionQueue[l]) \ {a} : b \in ToSet(Popped(l))
             /\ Popped(l) \in Seq(DOMAIN info \ {a})
  <2>1. actionQueue[l] \in Seq(DOMAIN info) /\ Sorted(info, actionQueue[l])  BY <1>2 DEF QueuesSorted
  <2>2. /\ ToSet(Popped(l)) \subseteq ToSet(actionQueue[l])
        /\ \A b \in ToSet(actionQueue[l]) \ {a} : b \in ToSet(Popped(l))
    BY <1>4, <2>1, PopKeeps
  <2>3. Popped(l) \in Seq(DOMAIN info \ {a})  BY <1>3, <1>4, <1>5, <2>1, PopIs
  <2>. QED BY <2>2, <2>3
<1>8. ToldHandles \subseteq ToldHandles' /\ HandlesOf(fs) \subseteq ToldHandles'
  <2>1. reports \in Seq(Handles \X Statuses)  BY <1>2 DEF TypeOK
  <2> HIDE DEF fs
  <2>. QED BY <1>1, <1>5, <2>1, ToldIs
<1>9. SoundPlan(info', parts', actionQueue', ToldHandles', lastEncodeTime)
  <2>1. \A l \in Links : \A b \in ToSet(actionQueue[l]) \ {a} : b \in ToSet(actionQueue'[l])
    BY <1>1, <1>7
  <2>. QED BY <1>1, <1>2, <1>3, <1>6, <1>8, <2>1, DoneSound
<1>10. SoundPlan(info, parts, actionQueue, ToldHandles, lastEncodeTime)'  BY <1>1, <1>9
<1>11. DOMAIN info' = DOMAIN info \ {a} /\ \A b \in DOMAIN info \ {a} : info'[b] = info[b]
  BY <1>1 DEF Without
<1>12. EncodesInTime'
  <2>1. ASSUME lastEncodeTime > now PROVE \E b \in DOMAIN info \ {a} : info[b].time = lastEncodeTime
    <3>1. PICK b \in DOMAIN info : info[b].time = lastEncodeTime  BY <2>1 DEF PlanInv, EncodesInTime
    <3>2. b # a
      <4>1. ASSUME b = a PROVE FALSE
        <5>1. lastEncodeTime \in Int /\ now \in Int  BY <1>2, NumbersAre DEF TypeOK
        <5>2. now >= lastEncodeTime  BY <1>1, <3>1, <4>1
        <5>. QED BY <2>1, <5>1, <5>2
      <4>. QED BY <4>1
    <3>. QED BY <3>1, <3>2
  <2>. QED BY <1>1, <1>11, <2>1 DEF PlanInv, EncodesInTime
<1>13. QueuesFull'
  <2>1. ASSUME NEW l \in Links
        PROVE  /\ linkStatus'[l] = "NONE" => l \in LateLinks
               /\ l \notin links' => actionQueue'[l] = <<>>
               /\ l \in links' => \/ ToSet(actionQueue'[l]) = MayUse(info', l)
                                  \/ l \in LateLinks /\ actionQueue'[l] = <<>>
    <3>1. links' = links /\ linkStatus' = linkStatus /\ actionQueue'[l] = Popped(l)
      BY <1>1 DEF links
    <3>2. /\ linkStatus[l] = "NONE" => l \in LateLinks
          /\ l \notin links => actionQueue[l] = <<>>
          /\ l \in links => \/ ToSet(actionQueue[l]) = MayUse(info, l)
                            \/ l \in LateLinks /\ actionQueue[l] = <<>>
      BY DEF PlanInv, QueuesFull
    <3>3. actionQueue[l] = <<>> => Popped(l) = <<>>  BY <1>4
    <3>4. MayUse(info', l) = MayUse(info, l) \ {a}  BY <1>11 DEF MayUse
    <3>5. a \notin ToSet(Popped(l))
      <4>1. Popped(l) \in Seq(DOMAIN info \ {a})  BY <1>7
      <4>2. \A k \in DOMAIN Popped(l) : Popped(l)[k] \in DOMAIN info \ {a}  BY <4>1, Elements
      <4>. QED BY <4>2 DEF ToSet
    <3>6. ToSet(Popped(l)) = ToSet(actionQueue[l]) \ {a}  BY <1>7, <3>5
    <3>. QED BY <3>1, <3>2, <3>3, <3>4, <3>6
  <2>. QED BY <2>1 DEF QueuesFull
<1>14. SpacedOut(info)'  BY <1>11 DEF PlanInv, SpacedOut
<1> QED BY <1>10, <1>12, <1>13, <1>14 DEF PlanInv

\* The report is about a fragment of p that still waits for one.
Pending(p) ==
    \E k \in DOMAIN parts[p] :
        parts[p][k].h = Head(reports)[1] /\ parts[p][k].state \notin {"SENT", "FAILED"}

LEMMA OwnersAre ==
    ASSUME OnPackageStatusChanged
    PROVE  \/ (\A p \in Packages : ~Pending(p)) /\ UNCHANGED <<info, parts>>
           \/ \E p \in Packages : /\ Pending(p) /\ parts' = [parts EXCEPT ![p] = Updated(p)]
                                  /\ UNCHANGED info
           \/ \E p \in Packages :
                 LET freed == Freed(Updated(p)) IN
                 /\ Pending(p)
                 /\ Careful => \A k \in Open(Updated(p)) : Updated(p)[k].state = "UNENCODED"
                 /\ IF freed = {} THEN info' = Rest(p, freed).info /\ parts' = Rest(p, freed).parts
                    ELSE info' = Replanned(p, freed).info /\ parts' = Replanned(p, freed).parts
<1> DEFINE owners == {p \in Packages : \E k \in DOMAIN parts[p] :
                         parts[p][k].h = Head(reports)[1] /\ parts[p][k].state \notin {"SENT", "FAILED"}}
<1>1. \/ owners = {} /\ UNCHANGED <<info, parts>>
      \/ \E p \in owners : parts' = [parts EXCEPT ![p] = Updated(p)] /\ UNCHANGED info
      \/ \E p \in owners :
            LET freed == Freed(Updated(p)) IN
            /\ Careful => \A k \in Open(Updated(p)) : Updated(p)[k].state = "UNENCODED"
            /\ IF freed = {} THEN info' = Rest(p, freed).info /\ parts' = Rest(p, freed).parts
               ELSE info' = Replanned(p, freed).info /\ parts' = Replanned(p, freed).parts
  BY Zenon DEF OnPackageStatusChanged, Updated, Open, Freed, FreedTimeline, Rest, Replanned
<1>2. \A p : p \in owners <=> p \in Packages /\ Pending(p)  BY DEF Pending
<1> HIDE DEF owners
<1>3. CASE owners = {} /\ UNCHANGED <<info, parts>>  BY <1>2, <1>3
<1>4. CASE \E p \in owners : parts' = [parts EXCEPT ![p] = Updated(p)] /\ UNCHANGED info
  BY <1>2, <1>4
<1>5. CASE \E p \in owners :
            LET freed == Freed(Updated(p)) IN
            /\ Careful => \A k \in Open(Updated(p)) : Updated(p)[k].state = "UNENCODED"
            /\ IF freed = {} THEN info' = Rest(p, freed).info /\ parts' = Rest(p, freed).parts
               ELSE info' = Replanned(p, freed).info /\ parts' = Replanned(p, freed).parts
  BY <1>2, <1>5
<1> QED BY <1>1, <1>3, <1>4, <1>5

\* What was told and is not with this report is still told.
LEMMA TailTold ==
    ASSUME TypeOK, reports # <<>>, reports' = Tail(reports), NEW h \in ToldHandles, h # Head(reports)[1]
    PROVE  h \in ToldHandles'
<1>1. reports \in Seq(Handles \X Statuses)  BY DEF TypeOK
<1>2. PICK k \in DOMAIN reports : reports[k][1] = h  BY DEF ToldHandles
<1>3. /\ Head(reports) = reports[1] /\ Tail(reports) \in Seq(Handles \X Statuses)
      /\ Len(Tail(reports)) = Len(reports) - 1
      /\ \A m \in 1 .. Len(Tail(reports)) : Tail(reports)[m] = reports[m + 1]
  <2> DEFINE R == Handles \X Statuses
  <2>1. reports \in Seq(R)  BY <1>1
  <2> HIDE DEF R
  <2>2. /\ Head(reports) = reports[1] /\ Tail(reports) \in Seq(R)
        /\ Len(Tail(reports)) = Len(reports) - 1
        /\ \A m \in 1 .. Len(Tail(reports)) : Tail(reports)[m] = reports[m + 1]
    <3>1. reports # <<>>  OBVIOUS
    <3>. QED BY ONLY <2>1, <3>1, HeadTailProperties
  <2>. QED BY <2>2 DEF R
<1>4. DOMAIN reports = 1 .. Len(reports) /\ Len(reports) \in Nat  BY <1>1, Elements
<1>5. k # 1  BY <1>2, <1>3
<1>6. k - 1 \in 1 .. Len(Tail(reports)) /\ (k - 1) + 1 = k  BY <1>3, <1>4, <1>5
<1>7. DOMAIN Tail(reports) = 1 .. Len(Tail(reports))  BY <1>3, Elements
<1>8. k - 1 \in DOMAIN reports' /\ reports'[k - 1][1] = h  BY <1>2, <1>3, <1>6, <1>7
<1>9. ToldHandles' = {reports'[m][1] : m \in DOMAIN reports'}  BY DEF ToldHandles
<1> QED BY <1>8, <1>9

\* What the report is about is one fragment.
LEMMA PendingIs ==
    ASSUME TypeOK, PlanInv, reports # <<>>, reports' = Tail(reports),
           NEW p \in Packages, NEW k \in DOMAIN parts[p], parts[p][k].action = NoAction
    PROVE  \/ parts[p][k].state \in {"SENT", "FAILED"}
           \/ parts[p][k].h \in ToldHandles'
           \/ Pending(p) /\ parts[p][k].h = Head(reports)[1]
<1>1. parts[p][k].state \in {"SENT", "FAILED"} \/ parts[p][k].h \in ToldHandles
  BY DEF PlanInv, SoundPlan, Carried
<1> QED BY <1>1, TailTold DEF Pending

LEMMA UpdatedIs ==
    ASSUME TypeOK, reports # <<>>, NEW p \in Packages
    PROVE  /\ DOMAIN Updated(p) = DOMAIN parts[p]
           /\ \A k \in DOMAIN parts[p] :
                  LET f == parts[p][k]
                      g == Updated(p)[k]
                  IN  /\ g.h = f.h /\ g.off = f.off /\ g.len = f.len /\ g.action = f.action
                      /\ f.h = Head(reports)[1] => g.state \in {"SENT", "FAILED"}
                      /\ f.h # Head(reports)[1] => g.state = f.state
<1> DEFINE state == IF Head(reports)[2] = "PACKAGE_SENT" THEN "SENT" ELSE "FAILED"
<1>1. state \in FragmentStates /\ state \in {"SENT", "FAILED"}  BY DEF FragmentStates
<1>2. Updated(p) = SetState(p, {Head(reports)[1]}, state)  BY DEF Updated
<1> HIDE DEF state
<1> QED BY <1>1, <1>2, SetStateIs

\* The report about a fragment of p is about no other.
LEMMA OnlyPending ==
    ASSUME TypeOK, PlanInv, reports # <<>>, reports' = Tail(reports), NEW p \in Packages, Pending(p),
           NEW q \in Packages, q # p, NEW k \in DOMAIN parts[q], parts[q][k].action = NoAction
    PROVE  parts[q][k].state \in {"SENT", "FAILED"} \/ parts[q][k].h \in ToldHandles'
<1>1. PICK m \in DOMAIN parts[p] : parts[p][m].h = Head(reports)[1]  BY DEF Pending
<1>2. parts[q][k].h # Head(reports)[1]  BY <1>1 DEF PlanInv, SoundPlan, OneEach
<1> QED BY <1>2, PendingIs

\* A package that is not finished by the report.
LEMMA StatusMarked ==
    ASSUME TypeOK, PlanInv, reports # <<>>, reports' = Tail(reports), NEW p \in Packages, Pending(p),
           NEW pb, pb = [parts EXCEPT ![p] = Updated(p)]
    PROVE  SoundPlan(info, pb, actionQueue, ToldHandles', lastEncodeTime)
<1>1. /\ parts \in [Packages -> Seq(Fragments)] /\ info \in [DOMAIN info -> ActionInfo]
      /\ SoundPlan(info, parts, actionQueue, ToldHandles, lastEncodeTime)
  BY DEF TypeOK, PlanInv
<1>2. \A q \in Packages : pb[q] = IF q = p THEN Updated(p) ELSE parts[q]  BY <1>1
<1>3. ASSUME NEW q \in Packages, NEW k \in DOMAIN pb[q]
      PROVE  /\ k \in DOMAIN parts[q]
             /\ pb[q][k].h = parts[q][k].h /\ pb[q][k].action = parts[q][k].action
             /\ pb[q][k].off = parts[q][k].off /\ pb[q][k].len = parts[q][k].len
             /\ \/ pb[q][k].state = parts[q][k].state /\ (q = p => parts[q][k].h # Head(reports)[1])
                \/ pb[q][k].state \in {"SENT", "FAILED"}
  <2>1. CASE q = p  BY <1>2, <1>3, <2>1, UpdatedIs
  <2>2. CASE q # p  BY <1>2, <1>3, <2>2
  <2>. QED BY <2>1, <2>2
<1>4. \A q \in Packages : DOMAIN pb[q] = DOMAIN parts[q]  BY <1>2, UpdatedIs
<1>5. Restated(parts, pb)  BY <1>3, <1>4 DEF Restated
<1>6. SameLoads(info, info)  BY DEF SameLoads
<1>7. Accounted(pb, ToldHandles')
  <2>1. ASSUME NEW q \in Packages, NEW k \in DOMAIN pb[q], pb[q][k].action = NoAction
        PROVE  pb[q][k].state \in {"SENT", "FAILED"} \/ pb[q][k].h \in ToldHandles'
    <3>1. k \in DOMAIN parts[q] /\ parts[q][k].action = NoAction  BY <1>3, <2>1
    <3>2. CASE q = p  BY <1>3, <2>1, <3>1, <3>2, PendingIs
    <3>3. CASE q # p  BY <1>3, <2>1, <3>1, <3>3, OnlyPending, <1>2
    <3>. QED BY <3>2, <3>3
  <2>. QED BY <2>1 DEF Accounted
<1>8. NotYetEncoded(info, pb, lastEncodeTime)
  <2>1. ASSUME NEW q \in Packages, NEW k \in DOMAIN pb[q], pb[q][k].state = "UNENCODED",
               pb[q][k].action # NoAction
        PROVE  info[pb[q][k].action].time > lastEncodeTime
    <3>1. k \in DOMAIN parts[q] /\ parts[q][k].state = "UNENCODED" /\ pb[q][k].action = parts[q][k].action
      BY <1>3, <2>1
    <3>. QED BY <1>1, <2>1, <3>1 DEF SoundPlan, NotYetEncoded
  <2>. QED BY <2>1 DEF NotYetEncoded
<1> QED BY <1>1, <1>5, <1>6, <1>7, <1>8, RestatedSound

\* What a finished package leaves: nothing of it is encoded, so that the actions it
\* frees are all that carry it, and they are not due.
LEMMA FinishedIs ==
    ASSUME TypeOK, PlanInv, reports # <<>>, reports' = Tail(reports), NEW p \in Packages, Pending(p),
           \A k \in Open(Updated(p)) : Updated(p)[k].state = "UNENCODED",
           NEW freed, freed = Freed(Updated(p)), NEW pb, pb = [parts EXCEPT ![p] = <<>>]
    PROVE  /\ freed \subseteq DOMAIN info /\ \A a \in freed : info[a].time >= now + MaxEncodingTime
           /\ \A a \in DOMAIN info \ freed : \A k \in DOMAIN info[a].fragments :
                  info[a].fragments[k].pkg \in Packages \ {p}
           /\ \A q \in Packages : pb[q] = IF q \in Packages \ {p} THEN parts[q] ELSE <<>>
           /\ Carried(info, pb, ToldHandles')
<1>1. /\ parts \in [Packages -> Seq(Fragments)] /\ DOMAIN info \subseteq Actions
      /\ \A a \in DOMAIN info : info[a].fragments \in Seq(Pointers)
      /\ SoundPlan(info, parts, actionQueue, ToldHandles, lastEncodeTime)
  BY DEF TypeOK, PlanInv, ActionInfo
<1>2. freed = {Updated(p)[k].action : k \in {j \in Open(Updated(p)) : Updated(p)[j].state = "UNENCODED"}}
  BY DEF Freed
<1>3. Open(Updated(p)) = {k \in DOMAIN Updated(p) : Updated(p)[k].action # NoAction}  BY DEF Open
<1>4. ASSUME NEW a \in freed
      PROVE  a \in DOMAIN info /\ info[a].time >= now + MaxEncodingTime
  <2>1. PICK k \in DOMAIN Updated(p) : /\ Updated(p)[k].action # NoAction /\ Updated(p)[k].action = a
                                       /\ Updated(p)[k].state = "UNENCODED"
    BY <1>2, <1>3
  <2>2. k \in DOMAIN parts[p] /\ parts[p][k].action = a /\ parts[p][k].state = "UNENCODED"
    BY <2>1, UpdatedIs
  <2>. QED BY <2>1, <2>2, NotDue
<1>5. ASSUME NEW a \in DOMAIN info, a \notin freed, NEW k \in DOMAIN info[a].fragments
      PROVE  info[a].fragments[k].pkg \in Packages \ {p}
  <2>1. info[a].fragments[k].pkg \in Packages  BY <1>1, <1>5, PointerIs
  <2>2. ASSUME info[a].fragments[k].pkg = p PROVE FALSE
    <3>1. PICK j \in DOMAIN parts[p] : parts[p][j].action = a
      BY <1>1, <1>5, <2>2 DEF SoundPlan, PointBack
    <3>2. a # NoAction  BY <1>1, PackagesAssumption
    <3>3. j \in DOMAIN Updated(p) /\ Updated(p)[j].action = a  BY <3>1, UpdatedIs
    <3>4. j \in Open(Updated(p))  BY <1>3, <3>2, <3>3
    <3>5. a \in freed  BY <1>2, <3>3, <3>4
    <3>. QED BY <1>5, <3>5
  <2>. QED BY <2>1, <2>2
<1>6. \A q \in Packages : pb[q] = IF q \in Packages \ {p} THEN parts[q] ELSE <<>>  BY <1>1
<1>7. Carried(info, pb, ToldHandles')
  <2>1. ASSUME NEW q \in Packages, NEW k \in DOMAIN pb[q]
        PROVE  /\ pb[q][k].action = NoAction => pb[q][k].state \in {"SENT", "FAILED"}
                                                \/ pb[q][k].h \in ToldHandles'
               /\ pb[q][k].action # NoAction =>
                      /\ pb[q][k].action \in DOMAIN info
                      /\ pb[q][k].h \in HandlesOf(info[pb[q][k].action].fragments)
    <3>1. q # p /\ pb[q] = parts[q]
      <4>1. DOMAIN <<>> = {}  OBVIOUS
      <4>. QED BY <1>6, <2>1, <4>1
    <3>2. parts[q][k].action = NoAction => parts[q][k].state \in {"SENT", "FAILED"}
                                           \/ parts[q][k].h \in ToldHandles'
      BY <2>1, <3>1, OnlyPending
    <3>3. parts[q][k].action # NoAction =>
              /\ parts[q][k].action \in DOMAIN info
              /\ parts[q][k].h \in HandlesOf(info[parts[q][k].action].fragments)
      BY <1>1, <2>1, <3>1 DEF SoundPlan, Carried
    <3>. QED BY <3>1, <3>2, <3>3
  <2>. QED BY <2>1 DEF Carried
<1> QED BY <1>4, <1>5, <1>6, <1>7

\* A package finished by the report whose fragments were all with the transport.
LEMMA StatusDropped ==
    ASSUME TypeOK, PlanInv, reports # <<>>, reports' = Tail(reports), NEW p \in Packages, Pending(p),
           \A k \in Open(Updated(p)) : Updated(p)[k].state = "UNENCODED",
           Freed(Updated(p)) = {}, NEW pb, pb = [parts EXCEPT ![p] = <<>>]
    PROVE  SoundPlan(info, pb, actionQueue, ToldHandles', lastEncodeTime)
<1> DEFINE W == Packages \ {p}
           O == DOMAIN info
<1>1. /\ parts \in [Packages -> Seq(Fragments)] /\ info \in [O -> ActionInfo]
      /\ SoundPlan(info, parts, actionQueue, ToldHandles, lastEncodeTime)
  BY DEF TypeOK, PlanInv
<1>2. /\ \A a \in O : \A k \in DOMAIN info[a].fragments : info[a].fragments[k].pkg \in W
      /\ \A q \in Packages : pb[q] = IF q \in W THEN parts[q] ELSE <<>>
      /\ Carried(info, pb, ToldHandles')
  BY FinishedIs
<1>3. LessLoads(info, info)  BY DEF LessLoads
<1>4. \A a \in O : info[a].fragments # <<>> => a \in ToSet(actionQueue[info[a].link])  BY UsesIts
<1> HIDE DEF W
<1>5. Dropped(info, info, parts, pb, W, actionQueue)  BY <1>2, <1>3, <1>4 DEF Dropped
<1> HIDE DEF O
<1> QED BY <1>1, <1>2, <1>5, DroppedSound

\* What such a package leaves of what is planned when actions of it are free again.
LEMMA StatusLeft ==
    ASSUME Spaced, TypeInv, ReportInv, PlanInv, reports # <<>>, reports' = Tail(reports),
           NEW p \in Packages, Pending(p),
           \A k \in Open(Updated(p)) : Updated(p)[k].state = "UNENCODED",
           NEW freed, freed = Freed(Updated(p)), NEW e, e = Rest(p, freed)
    PROVE  /\ e \in GoodPlans(DOMAIN info) /\ \A a \in DOMAIN info : e.info[a].time = info[a].time
           /\ freed \subseteq DOMAIN info
           /\ LeftOf(DOMAIN info, info, parts, freed, Packages \ {p}, DOMAIN info, e, ToldHandles', actionQueue)
<1> DEFINE D == DOMAIN info
           W == Packages \ {p}
           pb == [parts EXCEPT ![p] = <<>>]
           T == ToldHandles'
           aqs == [l \in Links |-> actionQueue[l]]
<1>1. TypeOK /\ Whole(parts) /\ OwnQueues  BY DEF TypeInv, ReportInv
<1>2. /\ D \subseteq Actions /\ info \in [D -> ActionInfo] /\ parts \in [Packages -> Seq(Fragments)]
      /\ aqs \in [Links -> Seq(D)] /\ actionQueue = aqs /\ reports \in Seq(Handles \X Statuses)
      /\ AllSorted(info, aqs)
  BY <1>1 DEF TypeInv, TypeOK, QueuesSorted, AllSorted
<1>3. SoundPlan(info, parts, aqs, ToldHandles, lastEncodeTime)  BY <1>2 DEF PlanInv
<1>4. /\ freed \subseteq D /\ \A a \in freed : info[a].time >= now + MaxEncodingTime
      /\ \A a \in D \ freed : \A k \in DOMAIN info[a].fragments : info[a].fragments[k].pkg \in W
      /\ \A q \in Packages : pb[q] = IF q \in W THEN parts[q] ELSE <<>>
      /\ Carried(info, pb, T)
  BY <1>1, FinishedIs
<1>5. e \in SameTimes(D, info) /\ e.info = FreedTimeline(freed) /\ e.parts = pb
  <2>1. e \in SameTimes(D, info) /\ e = [info |-> FreedTimeline(freed), parts |-> pb, full |-> {}]
    BY RestIs
  <2> HIDE DEF pb
  <2>. QED BY <2>1
<1>6. \A a \in D : e.info[a] = IF a \in freed THEN [info[a] EXCEPT !.fragments = <<>>] ELSE info[a]
  BY <1>5 DEF FreedTimeline
<1>7. \A a \in freed : e.info[a].fragments = <<>>
  <2>1. \A a \in freed : [info[a] EXCEPT !.fragments = <<>>].fragments = <<>>
    <3>1. \A a \in freed : info[a] \in ActionInfo  BY <1>2, <1>4
    <3>. QED BY <3>1 DEF ActionInfo
  <2>. QED BY <1>4, <1>6, <2>1
<1>8. e \in GoodPlans(D) /\ \A a \in D : e.info[a].time = info[a].time
  <2>. QED BY <1>5, PlanParts
<1>13. OneAtATime(info)
  <2>1. Timed(info)  BY <1>1, <1>2, TimelineIs
  <2>. QED BY <2>1, SpacedOnes DEF PlanInv
<1>14. \A a \in D \ freed : info[a].fragments # <<>> => a \in ToSet(aqs[info[a].link])
  <2>1. \A a \in D : info[a].fragments # <<>> => a \in ToSet(actionQueue[info[a].link])
    BY <1>1, UsesIts
  <2>. QED BY <1>2, <2>1
<1> HIDE DEF D, W, pb, T, aqs
<1>15. LeftOf(D, info, parts, freed, W, D, e, T, aqs)
  BY <1>4, <1>5, <1>6, <1>7, <1>13, <1>14 DEF LeftOf
<1> QED BY <1>2, <1>4, <1>8, <1>15 DEF D, W, T

\* A package finished by the report whose actions are planned anew.
LEMMA StatusReplanned ==
    ASSUME Spaced, TypeInv, ReportInv, PlanInv, reports # <<>>, reports' = Tail(reports),
           NEW p \in Packages, Pending(p),
           \A k \in Open(Updated(p)) : Updated(p)[k].state = "UNENCODED",
           NEW freed, freed = Freed(Updated(p)), NEW r, r = Replanned(p, freed)
    PROVE  /\ SoundPlan(r.info, r.parts, actionQueue, ToldHandles', lastEncodeTime)
           /\ r \in SameTimes(DOMAIN info, info)
<1> DEFINE D == DOMAIN info
           T == ToldHandles'
           marked == UNION {HandlesOf(info[a].fragments) : a \in freed}
           aqs == [l \in Links |-> actionQueue[l]]
           queues == Dequeued(p)
<1>1. TypeOK /\ Whole(parts) /\ OwnQueues  BY DEF TypeInv, ReportInv
<1>2. /\ D \subseteq Actions /\ info \in [D -> ActionInfo] /\ parts \in [Packages -> Seq(Fragments)]
      /\ aqs \in [Links -> Seq(D)] /\ actionQueue = aqs /\ reports \in Seq(Handles \X Statuses)
      /\ AllSorted(info, aqs)
  BY <1>1 DEF TypeInv, TypeOK, QueuesSorted, AllSorted
<1>3. SoundPlan(info, parts, aqs, ToldHandles, lastEncodeTime)  BY <1>2 DEF PlanInv
<1>4. PICK e : e = Rest(p, freed)  OBVIOUS
<1>5. e \in SameTimes(D, info)  BY <1>4, RestIs
<1>8. /\ e \in GoodPlans(D) /\ \A a \in D : e.info[a].time = info[a].time
      /\ LeftOf(D, info, parts, freed, Packages \ {p}, D, e, T, aqs)
  BY <1>2, <1>4, StatusLeft
<1>9. r = generateFragmentsForAllPackages(e, marked, aqs, queues)  BY <1>2, <1>4 DEF Replanned
<1>10. queues \in [Links -> Seq(Packages)] /\ OwnPackages(queues)
  <2>1. p \in Queued
    <3>1. DOMAIN <<>> = {}  OBVIOUS
    <3>2. parts[p] # <<>>  BY <3>1 DEF Pending
    <3>. QED BY <3>2 DEF ReportInv
  <2>. QED BY <1>1, <2>1, DequeuedIs DEF OwnPackages
<1>11. marked = CarriedBy(info, freed)  BY DEF CarriedBy
<1>12. Reached(lastEncodeTime)  BY <1>1, NumbersAre DEF PlanInv, EncodesInTime, Reached, TypeOK
<1> HIDE DEF D, T, marked, aqs, queues
<1>16. AllSorted(e.info, aqs)
  BY <1>2, <1>8, SortedSame DEF AllSorted
<1>17. SoundPlan(r.info, r.parts, aqs, T, lastEncodeTime)
  BY <1>1, <1>2, <1>3, <1>8, <1>9, <1>10, <1>11, <1>12, <1>16, AllSound
<1>18. r \in SameTimes(D, e.info)
  <2>1. /\ D \subseteq Actions /\ aqs \in [Links -> Seq(D)] /\ reports \in Seq(Handles \X Statuses)
        /\ e \in GoodPlans(D) /\ queues \in [Links -> Seq(Packages)]
    BY <1>2, <1>8, <1>10
  <2>2. generateFragmentsForAllPackages(e, marked, aqs, queues) \in SameTimes(D, e.info)
    BY ONLY <2>1, AllPlanned
  <2>. QED BY <1>9, <2>2
<1>19. r \in SameTimes(D, info)  BY <1>5, <1>18 DEF SameTimes
<1> QED BY <1>2, <1>17, <1>19 DEF T, D

LEMMA PlanStatus ==
    ASSUME Careful, Spaced, TypeInv, ReportInv, PlanInv, OnPackageStatusChanged
    PROVE  PlanInv'
<1>1. TypeOK  BY DEF TypeInv
<1>2. /\ reports # <<>> /\ reports' = Tail(reports)
      /\ UNCHANGED <<now, linkStatus, actionQueue, nextEncodeTime, lastEncodeTime>>
  BY StatusIs
<1>3. ASSUME SoundPlan(info', parts', actionQueue, ToldHandles', lastEncodeTime),
             DOMAIN info' = DOMAIN info, \A a \in DOMAIN info : info'[a].time = info[a].time
      PROVE  PlanInv'
  <2>1. EncodesInTime' /\ QueuesFull' /\ SpacedOut(info)'  BY <1>2, <1>3, TimelineKept
  <2>2. SoundPlan(info, parts, actionQueue, ToldHandles, lastEncodeTime)'  BY <1>2, <1>3
  <2>. QED BY <2>1, <2>2 DEF PlanInv
<1>4. CASE (\A p \in Packages : ~Pending(p)) /\ UNCHANGED <<info, parts>>
  <2>1. /\ parts \in [Packages -> Seq(Fragments)] /\ info \in [DOMAIN info -> ActionInfo]
        /\ SoundPlan(info, parts, actionQueue, ToldHandles, lastEncodeTime)
    BY <1>1 DEF TypeOK, PlanInv
  <2>2. Restated(parts, parts) /\ SameLoads(info, info)  BY DEF Restated, SameLoads
  <2>3. Accounted(parts, ToldHandles')  BY <1>1, <1>2, <1>4, PendingIs DEF Accounted
  <2>4. NotYetEncoded(info, parts, lastEncodeTime)  BY <2>1 DEF SoundPlan
  <2>5. SoundPlan(info, parts, actionQueue, ToldHandles', lastEncodeTime)
    BY <2>1, <2>2, <2>3, <2>4, RestatedSound
  <2>. QED BY <1>3, <1>4, <2>5
<1>5. ASSUME NEW p \in Packages, Pending(p), parts' = [parts EXCEPT ![p] = Updated(p)], UNCHANGED info
      PROVE  PlanInv'
  <2>1. SoundPlan(info, parts', actionQueue, ToldHandles', lastEncodeTime)
    BY <1>1, <1>2, <1>5, StatusMarked
  <2>. QED BY <1>3, <1>5, <2>1
<1>6. ASSUME NEW p \in Packages, NEW freed, freed = Freed(Updated(p)), Pending(p),
             \A k \in Open(Updated(p)) : Updated(p)[k].state = "UNENCODED",
             IF freed = {} THEN info' = Rest(p, freed).info /\ parts' = Rest(p, freed).parts
             ELSE info' = Replanned(p, freed).info /\ parts' = Replanned(p, freed).parts
      PROVE  PlanInv'
  <2>1. CASE freed = {}
    <3>1. info \in [DOMAIN info -> ActionInfo]  BY <1>1 DEF TypeOK
    <3>2. info = [a \in DOMAIN info |-> info[a]]  BY <3>1
    <3>3. FreedTimeline(freed) = [a \in DOMAIN info |-> info[a]]  BY <2>1 DEF FreedTimeline
    <3>4. info' = info /\ parts' = [parts EXCEPT ![p] = <<>>]
      BY <1>6, <2>1, <3>2, <3>3 DEF Rest
    <3>5. SoundPlan(info, parts', actionQueue, ToldHandles', lastEncodeTime)
      BY <1>1, <1>2, <1>6, <2>1, <3>4, StatusDropped
    <3>. QED BY <1>3, <3>4, <3>5
  <2>2. CASE freed # {}
    <3> DEFINE r == Replanned(p, freed)
    <3>1. info' = r.info /\ parts' = r.parts  BY <1>6, <2>2
    <3>2. r = Replanned(p, freed)  OBVIOUS
    <3> HIDE DEF r
    <3>3. /\ SoundPlan(r.info, r.parts, actionQueue, ToldHandles', lastEncodeTime)
          /\ r \in SameTimes(DOMAIN info, info)
      BY <1>2, <1>6, <3>2, StatusReplanned
    <3>4. r.info \in [DOMAIN info -> ActionInfo] /\ \A a \in DOMAIN info : r.info[a].time = info[a].time
      BY <3>3, PlanParts
    <3>. QED BY <1>3, <3>1, <3>3, <3>4
  <2>. QED BY <2>1, <2>2
<1>7. CASE \E p \in Packages :
              LET freed == Freed(Updated(p)) IN
              /\ Pending(p)
              /\ Careful => \A k \in Open(Updated(p)) : Updated(p)[k].state = "UNENCODED"
              /\ IF freed = {} THEN info' = Rest(p, freed).info /\ parts' = Rest(p, freed).parts
                 ELSE info' = Replanned(p, freed).info /\ parts' = Replanned(p, freed).parts
  BY <1>6, <1>7
<1> QED BY <1>4, <1>5, <1>7, OwnersAre

\* A link is destroyed: what its actions carry is its own packages', and those go.
LEMMA PlanDestroyed ==
    ASSUME Careful, TypeInv, ReportInv, PlanInv, NEW l \in Links, OnLinkDestroyed(l)
    PROVE  PlanInv'
<1> DEFINE hit == ToSet(actionQueue[l])
           dropped == ToSet(packageQueue[l])
           W == Packages \ dropped
           O == DOMAIN info
<1>1. /\ l \in links /\ \A a \in hit : info[a].fragments # <<>> => info[a].link = l
      /\ info' = [a \in DOMAIN info |-> IF a \in hit
                    THEN [info[a] EXCEPT !.enc = "UNENCODED", !.fragments = <<>>] ELSE info[a]]
      /\ parts' = [p \in Packages |-> IF p \in dropped THEN <<>> ELSE parts[p]]
      /\ actionQueue' = [actionQueue EXCEPT ![l] = <<>>]
      /\ linkStatus' = [linkStatus EXCEPT ![l] = "LINK_DESTROYED"]
      /\ UNCHANGED <<now, nextEncodeTime, lastEncodeTime, reports>>
  BY DEF OnLinkDestroyed
<1>2. TypeOK /\ OwnQueues  BY DEF TypeInv, ReportInv
<1>3. /\ info \in [O -> ActionInfo] /\ parts \in [Packages -> Seq(Fragments)]
      /\ actionQueue \in [Links -> Seq(Actions)]
      /\ linkStatus \in [Links -> {"NONE", "LINK_CREATED", "LINK_DESTROYED"}]
      /\ SoundPlan(info, parts, actionQueue, ToldHandles, lastEncodeTime)
  BY <1>2 DEF TypeOK, PlanInv
<1>4. \A q \in dropped : Route[q] = l  BY <1>2 DEF OwnQueues
<1>5. \A q \in Packages : parts[q] # <<>> /\ Route[q] = l => q \in dropped
  BY DEF ReportInv, OwnQueues, Queued
<1>6. \A m \in Links : actionQueue'[m] = IF m = l THEN <<>> ELSE actionQueue[m]  BY <1>1, <1>3
<1>7. \A q \in Packages : parts'[q] = IF q \in W THEN parts[q] ELSE <<>>  BY <1>1
<1>8. \A a \in hit : a \in ToSet(actionQueue[l])  OBVIOUS
<1>9. \A a \in ToSet(actionQueue[l]) : a \in hit  OBVIOUS
<1> HIDE DEF hit, dropped
<1>10. DOMAIN info' = O /\ \A a \in O : /\ info'[a].time = info[a].time
                                        /\ a \notin hit => info'[a] = info[a]
                                        /\ a \in hit => info'[a].fragments = <<>>
  <2>1. ASSUME NEW a \in DOMAIN info
        PROVE  LET i == [info[a] EXCEPT !.enc = "UNENCODED", !.fragments = <<>>]
               IN  i.time = info[a].time /\ i.fragments = <<>>
    <3>1. info[a] \in ActionInfo  BY <1>3
    <3>. QED BY <3>1 DEF ActionInfo
  <2>. QED BY <1>1, <2>1
<1>11. LessLoads(info, info')  BY <1>10 DEF LessLoads
<1>12. DOMAIN <<>> = {}  OBVIOUS
<1>13. \A a \in O : info[a].fragments \in Seq(Pointers)  BY <1>3 DEF ActionInfo
<1>14. ASSUME NEW a \in O, NEW k \in DOMAIN info'[a].fragments
       PROVE  info'[a].fragments[k].pkg \in W
  <2>1. a \notin hit /\ info'[a] = info[a] /\ k \in DOMAIN info[a].fragments  BY <1>10, <1>12, <1>14
  <2>2. info[a].fragments[k].pkg \in Packages  BY <1>13, <2>1, PointerIs
  <2>3. info[a].link = Route[info[a].fragments[k].pkg] /\ a \in ToSet(actionQueue[info[a].link])
    BY <1>3, <2>1 DEF SoundPlan, OnOneLink
  <2>4. info[a].fragments[k].pkg \notin dropped  BY <1>4, <1>9, <2>1, <2>3
  <2>. QED BY <2>1, <2>2, <2>4
<1>15. ASSUME NEW a \in O, info'[a].fragments # <<>>
       PROVE  a \in ToSet(actionQueue'[info[a].link])
  <2>1. a \notin hit /\ info[a].fragments # <<>>  BY <1>10, <1>15
  <2>2. info[a].link \in Links /\ a \in ToSet(actionQueue[info[a].link])
    BY <1>2, <2>1, UsesIts DEF links
  <2>3. info[a].link # l  BY <1>9, <2>1, <2>2
  <2>. QED BY <1>6, <2>2, <2>3
<1>16. ASSUME NEW b \in O, NEW n \in DOMAIN info[b].fragments
       PROVE  \E m \in DOMAIN parts[info[b].fragments[n].pkg] :
                  parts[info[b].fragments[n].pkg][m].h = info[b].fragments[n].h
  BY <1>3, <1>16 DEF SoundPlan, PointBack
<1>17. ASSUME NEW b \in O, NEW n \in DOMAIN info[b].fragments
       PROVE  info[b].fragments[n].pkg \in Packages
  BY <1>13, <1>17, PointerIs
<1>18. Carried(info', parts', ToldHandles)
  <2>1. ASSUME NEW q \in Packages, NEW k \in DOMAIN parts'[q]
        PROVE  /\ parts'[q][k].action = NoAction => parts'[q][k].state \in {"SENT", "FAILED"}
                                                    \/ parts'[q][k].h \in ToldHandles
               /\ parts'[q][k].action # NoAction =>
                      /\ parts'[q][k].action \in DOMAIN info'
                      /\ parts'[q][k].h \in HandlesOf(info'[parts'[q][k].action].fragments)
    <3>1. q \in W /\ parts'[q] = parts[q] /\ k \in DOMAIN parts[q]  BY <1>7, <1>12, <2>1
    <3> DEFINE f == parts[q][k]
               a == f.action
    <3>2. f.action = NoAction => f.state \in {"SENT", "FAILED"} \/ f.h \in ToldHandles
      BY <1>3, <3>1 DEF SoundPlan, Carried
    <3>3. ASSUME a # NoAction PROVE a \in O /\ a \notin hit /\ f.h \in HandlesOf(info[a].fragments)
      <4>1. a \in O /\ f.h \in HandlesOf(info[a].fragments)
        BY <1>3, <3>1, <3>3 DEF SoundPlan, Carried
      <4> HIDE DEF a
      <4>2. PICK n \in DOMAIN info[a].fragments : info[a].fragments[n].h = f.h
        BY <4>1 DEF HandlesOf
      <4>3. info[a].fragments[n].pkg \in Packages  BY <1>17, <4>1, <4>2
      <4>4. PICK m \in DOMAIN parts[info[a].fragments[n].pkg] :
                parts[info[a].fragments[n].pkg][m].h = f.h
        BY <1>16, <4>1, <4>2
      <4>5. info[a].fragments[n].pkg = q  BY <1>3, <3>1, <4>3, <4>4 DEF SoundPlan, OneEach
      <4>6. info[a].link = Route[q]  BY <1>3, <4>1, <4>2, <4>5 DEF SoundPlan, OnOneLink
      <4>7. parts[q] # <<>>  BY <1>12, <3>1
      <4>8. info[a].fragments # <<>>  BY <1>12, <4>2
      <4>9. a \notin hit  BY <1>1, <1>5, <3>1, <4>6, <4>7, <4>8
      <4>. QED BY <4>1, <4>9
    <3>4. a # NoAction => info'[a] = info[a] /\ a \in DOMAIN info'  BY <1>10, <3>3
    <3>. QED BY <3>1, <3>2, <3>3, <3>4
  <2>. QED BY <2>1 DEF Carried
<1> HIDE DEF W
<1>19. SoundPlan(info', parts', actionQueue', ToldHandles, lastEncodeTime)
  <2> DEFINE j == info'
             pb == parts'
             qs == actionQueue'
  <2>1. Dropped(info, j, parts, pb, W, qs) /\ Carried(j, pb, ToldHandles)
    BY <1>7, <1>11, <1>14, <1>15, <1>18 DEF Dropped
  <2>2. /\ info \in [O -> ActionInfo] /\ parts \in [Packages -> Seq(Fragments)]
        /\ SoundPlan(info, parts, actionQueue, ToldHandles, lastEncodeTime)
    BY <1>3
  <2> HIDE DEF j, pb, qs, O
  <2>3. SoundPlan(j, pb, qs, ToldHandles, lastEncodeTime)  BY ONLY <2>1, <2>2, DroppedSound
  <2>. QED BY <2>3 DEF j, pb, qs
<1>20. SoundPlan(info, parts, actionQueue, ToldHandles, lastEncodeTime)'
  <2>1. ToldHandles' = ToldHandles  BY <1>1 DEF ToldHandles
  <2>. QED BY <1>1, <1>19, <2>1
<1>21. EncodesInTime' /\ SpacedOut(info)'
  BY <1>1, <1>10 DEF PlanInv, EncodesInTime, SpacedOut
<1>22. QueuesFull'
  <2>1. \A m \in Links : linkStatus'[m] = IF m = l THEN "LINK_DESTROYED" ELSE linkStatus[m]
    BY <1>1, <1>3
  <2>2. \A m \in Links : MayUse(info', m) = MayUse(info, m)  BY <1>10 DEF MayUse
  <2>3. \A m \in Links : m \in links' <=> m \in links /\ m # l
    BY <2>1, Zenon DEF links
  <2>. QED BY <1>6, <2>1, <2>2, <2>3 DEF PlanInv, QueuesFull
<1> QED BY <1>20, <1>21, <1>22 DEF PlanInv

LEMMA PlanInit == Init => PlanInv
<1> SUFFICES ASSUME Init PROVE PlanInv  OBVIOUS
<1>1. /\ now = 0 /\ linkStatus = [l \in Links |-> IF l \in LateLinks THEN "NONE" ELSE "LINK_CREATED"]
      /\ info = <<>> /\ nextEncodeTime = Never /\ lastEncodeTime = 0
      /\ actionQueue = [l \in Links |-> <<>>] /\ parts = [p \in Packages |-> <<>>]
  BY DEF Init
<1>2. DOMAIN <<>> = {} /\ ToSet(<<>>) = {}  BY DEF ToSet
<1>3. DOMAIN info = {} /\ \A p \in Packages : DOMAIN parts[p] = {}  BY <1>1, <1>2
<1>4. SoundPlan(info, parts, actionQueue, ToldHandles, lastEncodeTime)
  BY <1>3 DEF SoundPlan, Tiles, OneEach, PointBack, Carried, OnOneLink, InTimeOrder, NotYetEncoded
<1>5. Never \in Nat /\ MaxEncodingTime \in Nat  BY PackagesAssumption DEF Never
<1>6. EncodesInTime /\ SpacedOut(info)  BY <1>1, <1>3, <1>5 DEF EncodesInTime, SpacedOut
<1>7. QueuesFull
  <2>1. \A l \in Links : MayUse(info, l) = {} /\ actionQueue[l] = <<>>  BY <1>1, <1>3 DEF MayUse
  <2>2. \A l \in Links : linkStatus[l] = "NONE" => l \in LateLinks  BY <1>1
  <2>. QED BY <1>2, <2>1, <2>2 DEF QueuesFull
<1> QED BY <1>4, <1>6, <1>7 DEF PlanInv

LEMMA PlanKept ==
    ASSUME Careful, Punctual, Spaced, TypeInv, ReportInv, BlockInv, PlanInv, [Next]_vars
    PROVE  PlanInv'
<1>1. TypeOK /\ EncodedInTime  BY DEF TypeInv, BlockInv
<1>2. CASE Tick  BY <1>1, <1>2, PlanTick
<1>3. CASE FetchTimeline  BY <1>3, PlanFetch
<1>4. CASE EncodeActions  BY <1>1, <1>4, PlanEncode
<1>5. CASE DoAction  BY <1>5, PlanDo
<1>6. CASE OnPackageStatusChanged  BY <1>6, PlanStatus
<1>7. CASE \E p \in Packages, r \in Reactive \union {NoAction} : SendPackage(p, r)  BY <1>7, PlanSend
<1>8. CASE \E a \in Actions : OnBytesEncoded(a)  BY <1>1, <1>8, PlanEncoded
<1>9. ASSUME NEW l \in Links, OnLinkCreated(l) \/ OnLinkDestroyed(l) \/ Receive(l) \/ Fault(l)
      PROVE  PlanInv'
  <2>1. CASE OnLinkCreated(l)  BY <1>1, <2>1, PlanCreated
  <2>2. CASE OnLinkDestroyed(l)  BY <2>2, PlanDestroyed
  <2>3. CASE Receive(l)
    <3>1. UNCHANGED <<now, linkStatus, actionVars, packageVars, reports>>  BY <2>3, Zenon DEF Receive
    <3>. QED BY <3>1, PlanSame DEF actionVars, packageVars
  <2>4. CASE Fault(l)  BY <2>4, PlanSame DEF Fault, actionVars, packageVars
  <2>. QED BY <1>9, <2>1, <2>2, <2>3, <2>4
<1>10. CASE UNCHANGED vars  BY <1>10, PlanSame DEF vars, actionVars, packageVars
<1> QED BY <1>2, <1>3, <1>4, <1>5, <1>6, <1>7, <1>8, <1>9, <1>10 DEF Next

\* What lies before the k-th fragment of a package, or the k-th piece received.
LEMMA CoveredBefore ==
    ASSUME NEW T, NEW fs \in Seq(T), NEW k \in DOMAIN fs
    PROVE  /\ k = 1 => Covered(SubSeq(fs, 1, k - 1)) = 0
           /\ k # 1 => Covered(SubSeq(fs, 1, k - 1)) = fs[k - 1].off + fs[k - 1].len
<1>1. DOMAIN fs = 1 .. Len(fs) /\ Len(fs) \in Nat /\ \A m \in DOMAIN fs : fs[m] \in T
  BY Elements
<1>2. CASE k = 1
  <2>1. SubSeq(fs, 1, k - 1) = <<>>  BY <1>2, SubSeqEmpty
  <2>. QED BY <1>2, <2>1 DEF Covered
<1>3. CASE k # 1
  <2> DEFINE n == k - 1
             s == SubSeq(fs, 1, n)
  <2>1. n \in 1 .. Len(fs)  BY <1>1, <1>3
  <2>2. \A m \in 1 .. n : fs[m] \in T  BY <1>1, <2>1
  <2>3. s \in Seq(T) /\ Len(s) = n /\ \A m \in 1 .. n : s[m] = fs[m]
    <3>1. n \in Int /\ 1 \in Int /\ 1 <= n /\ n - 1 + 1 = n  BY <2>1
    <3> HIDE DEF n
    <3>. QED BY <2>2, <3>1, SubSeqProperties
  <2> HIDE DEF s
  <2>4. s # <<>> /\ Last(s) = fs[n]  BY <2>1, <2>3 DEF Last
  <2>5. Covered(s) = fs[n].off + fs[n].len  BY <2>4 DEF Covered
  <2>. QED BY <1>3, <2>5 DEF s
<1> QED BY <1>2, <1>3

LEMMA PartsAre ==
    ASSUME TypeInv, ReportInv, PlanInv
    PROVE  PartsAccountedFor
<1>1. /\ parts \in [Packages -> Seq(Fragments)] /\ packageQueue \in [Links -> Seq(Packages)]
      /\ Whole(parts) /\ SoundPlan(info, parts, actionQueue, ToldHandles, lastEncodeTime)
  BY DEF TypeInv, TypeOK, PlanInv
<1>2. ASSUME NEW p \in Packages, parts[p] # <<>> PROVE Contains(packageQueue[Route[p]], p)
  <2>1. PICK l \in Links : p \in ToSet(packageQueue[l])  BY <1>2 DEF ReportInv, Queued
  <2>2. Route[p] = l  BY <2>1 DEF ReportInv, OwnQueues
  <2>. QED BY <1>1, <2>1, <2>2, Elements DEF Contains, ToSet
<1>3. ASSUME NEW p \in Packages, NEW k \in DOMAIN parts[p]
      PROVE  LET f == parts[p][k]
             IN  /\ f.off = Covered(SubSeq(parts[p], 1, k - 1)) /\ f.len > 0
                 /\ f.off + f.len <= Size[p]
                 /\ \/ f.state \in {"SENT", "FAILED"} \/ f.h \in ToldHandles
                    \/ f.action \in DOMAIN info /\ f.h \in HandlesOf(info[f.action].fragments)
  <2>1. /\ parts[p][k].len > 0
        /\ k = 1 => parts[p][k].off = 0
        /\ k # 1 => parts[p][k].off = parts[p][k - 1].off + parts[p][k - 1].len
    BY <1>1, <1>3 DEF SoundPlan, Tiles
  <2>2. parts[p][k].off = Covered(SubSeq(parts[p], 1, k - 1))
    <3>1. parts[p] \in Seq(Fragments)  BY <1>1
    <3>. QED BY <1>3, <2>1, <3>1, CoveredBefore
  <2>3. parts[p][k].off + parts[p][k].len <= Size[p]  BY <1>1, <1>3 DEF Whole
  <2>4. \/ parts[p][k].state \in {"SENT", "FAILED"} \/ parts[p][k].h \in ToldHandles
        \/ /\ parts[p][k].action \in DOMAIN info
           /\ parts[p][k].h \in HandlesOf(info[parts[p][k].action].fragments)
    BY <1>1, <1>3 DEF SoundPlan, Carried
  <2>. QED BY <2>1, <2>2, <2>3, <2>4
<1> QED BY <1>2, <1>3 DEF PartsAccountedFor

LEMMA PointersAre ==
    ASSUME TypeInv, EncodedInTime, PlanInv
    PROVE  PointersLive
<1>1. \A a \in DOMAIN info : \A k \in DOMAIN info[a].fragments :
          LET f == info[a].fragments[k]
          IN  \E j \in DOMAIN parts[f.pkg] : parts[f.pkg][j].h = f.h /\ parts[f.pkg][j].action = a
  BY DEF PlanInv, SoundPlan, PointBack
<1>2. DOMAIN encoder \subseteq DOMAIN info  BY DEF EncodedInTime
<1>3. DOMAIN info \subseteq Actions /\ info \in [DOMAIN info -> ActionInfo]  BY DEF TypeInv, TypeOK
<1>4. ASSUME NEW l \in links
      PROVE  \/ actionQueue[l] = updateLinkTimelines(info)[l]
             \/ l \in LateLinks /\ actionQueue[l] = <<>>
  <2> DEFINE u == updateLinkTimelines(info)[l]
  <2>1. l \in Links  BY DEF links
  <2>2. CASE l \in LateLinks /\ actionQueue[l] = <<>>  BY <2>2
  <2>3. CASE ToSet(actionQueue[l]) = MayUse(info, l)
    <3>1. TypeOK  BY DEF TypeInv
    <3>2. ToSet(u) = MayUse(info, l)  BY <1>3, <2>1, <3>1, QueuesAre
    <3>3. u \in Seq(DOMAIN info) /\ Sorted(info, u) /\ Timed(info)  BY <1>3, <2>1, <3>1, TimelineIs
    <3>4. actionQueue[l] \in Seq(DOMAIN info) /\ Sorted(info, actionQueue[l])
      BY <2>1 DEF TypeInv, QueuesSorted
    <3> HIDE DEF u
    <3>5. actionQueue[l] = u  BY <2>3, <3>2, <3>3, <3>4, OrderUnique
    <3>. QED BY <3>5 DEF u
  <2>. QED BY <2>1, <2>2, <2>3 DEF PlanInv, QueuesFull
<1>5. ASSUME NEW l \in links PROVE IsPrefix(actionQueue[l], updateLinkTimelines(info)[l])
  <2>1. CASE actionQueue[l] = updateLinkTimelines(info)[l]
    <3>1. actionQueue[l] \in Seq(DOMAIN info)  BY DEF TypeInv, QueuesSorted, links
    <3>2. Len(actionQueue[l]) \in Nat  BY <3>1, Elements
    <3>. QED BY <2>1, <3>2 DEF IsPrefix
  <2>2. CASE actionQueue[l] = <<>>
    <3> DEFINE u == updateLinkTimelines(info)[l]
    <3>1. u \in Seq(DOMAIN info)
      <4>1. TypeOK /\ l \in Links  BY DEF TypeInv, links
      <4>. QED BY <1>3, <4>1, TimelineIs
    <3> HIDE DEF u
    <3>2. Len(<<>>) = 0 /\ Len(u) \in Nat  BY <3>1, Elements
    <3>3. SubSeq(u, 1, 0) = <<>> /\ SubSeq(<<>>, 1, 0) = <<>>  BY SubSeqEmpty
    <3>4. IsPrefix(<<>>, u)  BY <3>2, <3>3 DEF IsPrefix
    <3>. QED BY <2>2, <3>4 DEF u
  <2>. QED BY <1>4, <2>1, <2>2
<1> QED BY <1>1, <1>2, <1>4, <1>5 DEF PointersLive

(* What the managers plan is sound, however sends, encodings, reports,        *)
(* replanning and links that come and go interleave: no byte of an accepted   *)
(* package is forgotten, and no raw pointer of the ActionManager or the       *)
(* PackageManager leads to what the other has deleted.  That rests on an      *)
(* action thread that encodes in time, on actions far enough apart to be      *)
(* encoded one by one, and on the orders the code relies on (Careful).        *)
THEOREM PlanSoundCorrect == Careful /\ Punctual /\ Spaced => (Spec => []PlanSound)
<1> SUFFICES ASSUME Careful, Punctual, Spaced PROVE Spec => []PlanSound  OBVIOUS
<1>1. Init => TypeInv /\ ReportInv /\ BlockInv /\ PlanInv  BY TypeInit, ReportsInit, BlockInit, PlanInit
<1>2. TypeInv /\ ReportInv /\ BlockInv /\ PlanInv /\ [Next]_vars
          => (TypeInv /\ ReportInv /\ BlockInv /\ PlanInv)'
  BY TypeKept, ReportsKept, BlockKept, PlanKept
<1>3. TypeInv /\ ReportInv /\ BlockInv /\ PlanInv => PlanSound
  BY PartsAre, PointersAre DEF PlanSound, BlockInv
<1> QED BY <1>1, <1>2, <1>3, PTL DEF Spec
===============================================================================

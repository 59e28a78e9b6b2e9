------------------------------ MODULE DataLemmas ------------------------------
(***************************************************************************)
(* Finite sets of numbers, sums over finite sets, recursion along a range, *)
(* and a sequence that loses an element: what the proofs of several        *)
(* components need of the operators their modules are built from.          *)
(* Induction takes the form of a least counterexample.                     *)
(***************************************************************************)
EXTENDS Integers, SequencesExt, FiniteSetTheorems, SequenceTheorems, TLAPS

--------------------------------------------------------------------------------
(* Least elements.                                                           *)

\* A set of naturals has a least element.
LEMMA LeastNat ==
    ASSUME NEW T, T \subseteq Nat, T # {}
    PROVE  \E n \in T : \A m \in T : n <= m
<1>1. PICK n \in T : \A m \in T : <<m, n>> \notin OpToRel(<, Nat)
  BY NatLessThanWellFounded, WFMin
<1>2. \A m \in T : ~(m < n)  BY <1>1 DEF OpToRel
<1> QED BY <1>2

\* Among the subsets of a finite set, one of any kind contains no other of the kind.
LEMMA LeastSubset ==
    ASSUME NEW S, IsFiniteSet(S), NEW T, \A A \in T : A \subseteq S, T # {}
    PROVE  \E A \in T : \A B \in T : B \subseteq A => B = A
<1>1. \A A \in T : IsFiniteSet(A) /\ Cardinality(A) \in Nat
  BY FS_Subset, FS_CardinalityType
<1> DEFINE C == {Cardinality(A) : A \in T}
<1>2. C \subseteq Nat /\ C # {}  BY <1>1
<1>3. PICK n \in C : \A m \in C : n <= m
  <2> HIDE DEF C
  <2>. QED BY <1>2, LeastNat
<1>4. PICK A \in T : n = Cardinality(A)  OBVIOUS
<1>5. ASSUME NEW B \in T, B \subseteq A PROVE B = A
  <2>1. Cardinality(A) <= Cardinality(B)  BY <1>3, <1>4
  <2>2. Cardinality(B) <= Cardinality(A) /\ (Cardinality(A) = Cardinality(B) => A = B)
    BY <1>1, <1>5, FS_Subset
  <2>. QED BY <1>1, <2>1, <2>2
<1> QED BY <1>5

\* A finite set of integers has a greatest element.
LEMMA GreatestInt ==
    ASSUME NEW S, S \subseteq Int, IsFiniteSet(S), S # {}
    PROVE  \E m \in S : \A x \in S : x <= m
<1> DEFINE F == {A \in SUBSET S : A # {} /\ \A m \in A : \E x \in A : ~(x <= m)}
<1>1. ASSUME NEW A \in F, \A B \in F : B \subseteq A => B = A PROVE FALSE
  <2>1. PICK a \in A : TRUE  OBVIOUS
  <2>2. A \ {a} \notin F /\ A \subseteq Int  BY <1>1, <2>1
  <2>3. CASE A \ {a} = {}
    <3>1. \A x \in A : x <= a  BY <2>1, <2>2, <2>3
    <3>. QED BY <2>1, <3>1
  <2>4. CASE A \ {a} # {}
    <3>1. PICK m \in A \ {a} : \A x \in A \ {a} : x <= m  BY <2>2, <2>4
    <3>2. \A x \in A : x <= IF a <= m THEN m ELSE a  BY <2>1, <2>2, <3>1
    <3>. QED BY <2>1, <3>1, <3>2
  <2>. QED BY <2>3, <2>4
<1>2. \A A \in F : A \subseteq S  OBVIOUS
<1>3. F = {}
  <2> HIDE DEF F
  <2>1. ASSUME F # {} PROVE FALSE
    <3>1. \E A \in F : \A B \in F : B \subseteq A => B = A
      BY <1>2, <2>1, LeastSubset
    <3>. QED BY <1>1, <3>1
  <2>. QED BY <2>1
<1> QED BY <1>3

\* The images of a finite set are finite.
LEMMA FiniteImage ==
    ASSUME NEW f, IsFiniteSet(DOMAIN f)
    PROVE  IsFiniteSet({f[x] : x \in DOMAIN f})
<1> DEFINE T == {f[x] : x \in DOMAIN f}
<1>1. \E g \in [DOMAIN f -> T] : \A y \in T : \E x \in DOMAIN f : g[x] = y
  <2> DEFINE g == [x \in DOMAIN f |-> f[x]]
  <2>1. g \in [DOMAIN f -> T]  OBVIOUS
  <2>2. \A y \in T : \E x \in DOMAIN f : g[x] = y  OBVIOUS
  <2> HIDE DEF g
  <2>. QED BY <2>1, <2>2
<1>2. PICK g \in Surjection(DOMAIN f, T) : TRUE
  <2> HIDE DEF T
  <2>. QED BY <1>1 DEF Surjection
<1> HIDE DEF T
<1>3. IsFiniteSet(T)  BY <1>2, FS_Surjection
<1> QED BY <1>3 DEF T

\* The indices of a sequence are finite.
LEMMA FiniteIndices ==
    \A S : \A q \in Seq(S) : IsFiniteSet(DOMAIN q)
<1>1. SUFFICES ASSUME NEW S, NEW q \in Seq(S) PROVE IsFiniteSet(DOMAIN q)  OBVIOUS
<1>2. DOMAIN q = 1 .. Len(q) /\ Len(q) \in Nat  OBVIOUS
<1>3. \A n \in Nat : IsFiniteSet(1 .. n)  BY FS_Interval
<1> QED BY <1>2, <1>3

\* The least of a set of naturals, and the greatest of a finite one.
LEMMA MinMax ==
    ASSUME NEW T, T \subseteq Nat, T # {}
    PROVE  /\ Min(T) \in T /\ \A n \in T : Min(T) <= n
           /\ IsFiniteSet(T) => Max(T) \in T /\ \A n \in T : n <= Max(T)
<1>1. \E n \in T : \A m \in T : n <= m  BY LeastNat
<1>2. Min(T) \in T /\ \A n \in T : Min(T) <= n  BY <1>1 DEF Min
<1>3. ASSUME IsFiniteSet(T) PROVE Max(T) \in T /\ \A n \in T : n <= Max(T)
  <2>1. T \subseteq Int  OBVIOUS
  <2>2. \E n \in T : \A m \in T : m <= n  BY <1>3, <2>1, GreatestInt
  <2>3. \E n \in T : \A m \in T : n >= m  BY <2>1, <2>2
  <2>4. Max(T) \in T /\ \A m \in T : Max(T) >= m  BY <2>3 DEF Max
  <2>. QED BY <2>1, <2>4
<1> QED BY <1>2, <1>3

--------------------------------------------------------------------------------
(* Sums.  MapThenSumSet is a recursive function: it is shown to exist, and    *)
(* not to depend on the order in which it takes the elements.                *)

Picked(s) == CHOOSE x \in s : TRUE
SumStep(f, g, s) == IF s = {} THEN 0 ELSE f[Picked(s)] + g[s \ {Picked(s)}]

\* the functions that satisfy the recursion on the subsets of S
Sums(f, S) == {g \in [SUBSET S -> Nat] : \A s \in SUBSET S : g[s] = SumStep(f, g, s)}
SumOver(f, S) == (CHOOSE g \in Sums(f, S) : TRUE)[S]

\* Two of them agree where both are defined.
LEMMA SumsAgree ==
    ASSUME NEW f, NEW A, IsFiniteSet(A), NEW B, NEW g \in Sums(f, A), NEW h \in Sums(f, B),
           NEW s \in SUBSET (A \cap B)
    PROVE  g[s] = h[s]
<1> DEFINE F == {t \in SUBSET (A \cap B) : g[t] # h[t]}
<1>1. ASSUME NEW t \in F, \A u \in F : u \subseteq t => u = t PROVE FALSE
  <2>1. t \in SUBSET A /\ t \in SUBSET B /\ g[t] # h[t]  OBVIOUS
  <2>2. g[t] = SumStep(f, g, t) /\ h[t] = SumStep(f, h, t)  BY <2>1 DEF Sums
  <2>3. t # {}  BY <2>1, <2>2 DEF SumStep
  <2>4. Picked(t) \in t  BY <2>3 DEF Picked
  <2>5. t \ {Picked(t)} \notin F  BY <1>1, <2>4
  <2>6. g[t \ {Picked(t)}] = h[t \ {Picked(t)}]  BY <2>5
  <2>. QED BY <2>1, <2>2, <2>6 DEF SumStep
<1>2. \A t \in F : t \subseteq A  OBVIOUS
<1>3. F = {}
  <2> HIDE DEF F
  <2>. QED BY <1>1, <1>2, LeastSubset
<1> QED BY <1>3

\* Over a finite set there is one.
LEMMA SumsExist ==
    ASSUME NEW f, NEW S, IsFiniteSet(S), \A x \in S : f[x] \in Nat
    PROVE  Sums(f, S) # {}
<1> DEFINE F == {A \in SUBSET S : Sums(f, A) = {}}
           G(A) == CHOOSE g \in Sums(f, A) : TRUE
<1>1. ASSUME NEW A \in F, \A B \in F : B \subseteq A => B = A PROVE FALSE
  <2>1. \A B \in SUBSET A : B # A => G(B) \in Sums(f, B) /\ IsFiniteSet(B)
    BY <1>1, FS_Subset
  <2> DEFINE h == [s \in SUBSET A |-> SumStep(f, G(s \ {Picked(s)}), s)]
  <2>2. ASSUME NEW s \in SUBSET A, s # {}
        PROVE  /\ Picked(s) \in s /\ s \ {Picked(s)} \in SUBSET A /\ s \ {Picked(s)} # A
               /\ f[Picked(s)] \in Nat
    BY <2>2 DEF Picked
  <2>3. h \in [SUBSET A -> Nat]
    <3>1. ASSUME NEW s \in SUBSET A, s # {}
          PROVE  G(s \ {Picked(s)})[s \ {Picked(s)}] \in Nat
      <4>1. G(s \ {Picked(s)}) \in Sums(f, s \ {Picked(s)})  BY <2>1, <2>2, <3>1
      <4> HIDE DEF G
      <4>. QED BY <4>1 DEF Sums
    <3> HIDE DEF G
    <3>. QED BY <2>2, <3>1 DEF SumStep
  <2>4. ASSUME NEW s \in SUBSET A PROVE h[s] = SumStep(f, h, s)
    <3>1. CASE s = {}  BY <3>1 DEF SumStep
    <3>2. CASE s # {}
      <4> DEFINE t == s \ {Picked(s)}
      <4>1. /\ t \in SUBSET A /\ t # A /\ G(t) \in Sums(f, t) /\ IsFiniteSet(t)
            /\ h[s] = f[Picked(s)] + G(t)[t]
        BY <2>1, <2>2, <3>2 DEF SumStep
      <4>2. G(t)[t] = SumStep(f, G(t), t)
        <5> HIDE DEF G, t
        <5>. QED BY <4>1 DEF Sums
      <4>3. h[t] = SumStep(f, G(t \ {Picked(t)}), t)  BY <4>1
      <4>4. CASE t = {}
        BY <3>2, <4>1, <4>2, <4>3, <4>4 DEF SumStep
      <4>5. CASE t # {}
        <5>1. G(t \ {Picked(t)}) \in Sums(f, t \ {Picked(t)})
          BY <2>1, <2>2, <4>1, <4>5
        <5>2. G(t \ {Picked(t)})[t \ {Picked(t)}] = G(t)[t \ {Picked(t)}]
          <6>1. t \ {Picked(t)} \in SUBSET (t \cap (t \ {Picked(t)}))  OBVIOUS
          <6> HIDE DEF G, t
          <6>. QED BY <4>1, <5>1, <6>1, SumsAgree
        <5>3. h[t] = G(t)[t]  BY <4>2, <4>3, <4>5, <5>2 DEF SumStep
        <5>. QED BY <3>2, <4>1, <5>3 DEF SumStep
      <4>. QED BY <4>4, <4>5
    <3>. QED BY <3>1, <3>2
  <2>5. h \in Sums(f, A)
    <3> HIDE DEF h
    <3>. QED BY <2>3, <2>4 DEF Sums
  <2>. QED BY <2>5
<1>2. \A A \in F : A \subseteq S  OBVIOUS
<1>3. F = {}
  <2> HIDE DEF F
  <2>. QED BY <1>1, <1>2, LeastSubset
<1> QED BY <1>3

\* A sum is a natural, 0 over the empty set, and takes its elements one by one.
LEMMA SumUnfold ==
    ASSUME NEW f, NEW S, IsFiniteSet(S), \A x \in S : f[x] \in Nat
    PROVE  /\ SumOver(f, S) \in Nat
           /\ S = {} => SumOver(f, S) = 0
           /\ S # {} => /\ Picked(S) \in S
                        /\ SumOver(f, S) = f[Picked(S)] + SumOver(f, S \ {Picked(S)})
<1> DEFINE g == CHOOSE g \in Sums(f, S) : TRUE
<1>1. g \in Sums(f, S)  BY SumsExist
<1>2. g[S] \in Nat /\ g[S] = SumStep(f, g, S)
  <2> HIDE DEF g
  <2>. QED BY <1>1 DEF Sums
<1>3. SumOver(f, S) = g[S]  BY DEF SumOver
<1>4. CASE S # {}
  <2> DEFINE T == S \ {Picked(S)}
             h == CHOOSE h \in Sums(f, T) : TRUE
  <2>1. Picked(S) \in S  BY <1>4 DEF Picked
  <2>2. h \in Sums(f, T)
    <3>1. IsFiniteSet(T) /\ \A x \in T : f[x] \in Nat  BY FS_Subset
    <3> HIDE DEF T
    <3>. QED BY <3>1, SumsExist
  <2>3. T \in SUBSET (S \cap T)  OBVIOUS
  <2>4. SumOver(f, T) = h[T]  BY DEF SumOver
  <2>5. g[T] = h[T]
    <3> HIDE DEF g, h, T
    <3>. QED BY <1>1, <2>2, <2>3, SumsAgree
  <2>. QED BY <1>2, <1>3, <1>4, <2>1, <2>4, <2>5 DEF SumStep
<1> HIDE DEF g
<1> QED BY <1>2, <1>3, <1>4 DEF SumStep

\* A sum grows by what is added, whichever element the recursion takes first.
LEMMA SumAdd ==
    ASSUME NEW f, NEW S, IsFiniteSet(S), \A x \in S : f[x] \in Nat,
           NEW A \in SUBSET S, NEW a \in S \ A
    PROVE  SumOver(f, A \cup {a}) = SumOver(f, A) + f[a]
<1> DEFINE F == {B \in SUBSET S : \E b \in S \ B :
                    SumOver(f, B \cup {b}) # SumOver(f, B) + f[b]}
<1>1. ASSUME NEW B \in F, \A C \in F : C \subseteq B => C = B PROVE FALSE
  <2>1. PICK b \in S \ B : SumOver(f, B \cup {b}) # SumOver(f, B) + f[b]  OBVIOUS
  <2> DEFINE c == Picked(B \cup {b})
  <2>2. \A C \in SUBSET S : /\ IsFiniteSet(C) /\ \A x \in C : f[x] \in Nat
                            /\ SumOver(f, C) \in Nat
    BY FS_Subset, SumUnfold
  <2>3. /\ c \in B \cup {b}
        /\ SumOver(f, B \cup {b}) = f[c] + SumOver(f, (B \cup {b}) \ {c})
    <3>1. B \cup {b} \in SUBSET S /\ B \cup {b} # {}  OBVIOUS
    <3>2. IsFiniteSet(B \cup {b}) /\ \A x \in B \cup {b} : f[x] \in Nat  BY <2>2, <3>1
    <3>. QED BY <3>1, <3>2, SumUnfold
  <2> HIDE DEF c
  <2>4. CASE c = b
    <3>1. (B \cup {b}) \ {c} = B  BY <2>4
    <3>. QED BY <2>1, <2>2, <2>3, <2>4, <3>1
  <2>5. CASE c \in B /\ c # b
    <3>1. /\ (B \cup {b}) \ {c} = (B \ {c}) \cup {b} /\ B = (B \ {c}) \cup {c}
          /\ B \ {c} \in SUBSET S /\ b \in S \ (B \ {c}) /\ c \in S \ (B \ {c})
      BY <2>5
    <3>2. B \ {c} \notin F  BY <1>1, <2>5
    <3>3. /\ SumOver(f, (B \ {c}) \cup {b}) = SumOver(f, B \ {c}) + f[b]
          /\ SumOver(f, (B \ {c}) \cup {c}) = SumOver(f, B \ {c}) + f[c]
      BY <3>1, <3>2
    <3>4. SumOver(f, B) = SumOver(f, B \ {c}) + f[c]  BY <3>1, <3>3
    <3>5. /\ SumOver(f, B \ {c}) \in Nat /\ f[b] \in Nat /\ f[c] \in Nat
          /\ SumOver(f, B \cup {b}) = f[c] + (SumOver(f, B \ {c}) + f[b])
      BY <2>2, <2>3, <2>5, <3>1, <3>3
    <3>. QED BY <2>1, <3>4, <3>5
  <2>. QED BY <2>3, <2>4, <2>5
<1>2. \A B \in F : B \subseteq S  OBVIOUS
<1>3. F = {}
  <2> HIDE DEF F
  <2>. QED BY <1>1, <1>2, LeastSubset
<1> QED BY <1>3

\* It shrinks by what is taken out.
LEMMA SumTake ==
    ASSUME NEW f, NEW S, IsFiniteSet(S), \A x \in S : f[x] \in Nat, NEW a \in S
    PROVE  /\ SumOver(f, S \ {a}) \in Nat /\ f[a] \in Nat
           /\ SumOver(f, S) = SumOver(f, S \ {a}) + f[a]
<1>1. S \ {a} \in SUBSET S /\ a \in S \ (S \ {a}) /\ S = (S \ {a}) \cup {a}  OBVIOUS
<1>2. SumOver(f, (S \ {a}) \cup {a}) = SumOver(f, S \ {a}) + f[a]  BY <1>1, SumAdd
<1>3. SumOver(f, S \ {a}) \in Nat
  <2>1. IsFiniteSet(S \ {a}) /\ \A x \in S \ {a} : f[x] \in Nat  BY FS_Subset
  <2>. QED BY <2>1, SumUnfold
<1> QED BY <1>1, <1>2, <1>3

\* MapThenSumSet of the community modules is this sum.
LEMMA SumIsMap ==
    ASSUME NEW f, NEW S, IsFiniteSet(S), \A x \in S : f[x] \in Nat
    PROVE  MapThenSumSet(LAMBDA x : f[x], S) = SumOver(f, S)
<1> DEFINE R(g) == [s \in SUBSET S |-> SumStep(f, g, s)]
           m == CHOOSE g : g = R(g)
<1>1. MapThenSumSet(LAMBDA x : f[x], S) = m[S]
  BY Zenon DEF MapThenSumSet, MapThenFoldSet, SumStep, Picked
<1> DEFINE h == CHOOSE h \in Sums(f, S) : TRUE
<1>2. h \in Sums(f, S)  BY SumsExist
<1>3. h = R(h)
  <2> HIDE DEF h
  <2>. QED BY <1>2 DEF Sums
<1>4. m = R(m)  BY <1>3
<1>5. \A s \in SUBSET S : m[s] = SumStep(f, m, s)  BY <1>4
<1> HIDE DEF m
<1> DEFINE F == {s \in SUBSET S : m[s] \notin Nat}
<1>6. ASSUME NEW A \in F, \A B \in F : B \subseteq A => B = A PROVE FALSE
  <2>0. m[A] \notin Nat /\ m[A] = SumStep(f, m, A)  BY <1>5
  <2>1. A # {}
    <3>1. A = {} => SumStep(f, m, A) = 0  BY DEF SumStep
    <3>. QED BY <2>0, <3>1
  <2>2. Picked(A) \in A  BY <2>1 DEF Picked
  <2>3. A \ {Picked(A)} \notin F  BY <1>6, <2>2
  <2>. QED BY <1>5, <2>1, <2>2, <2>3 DEF SumStep
<1>7. F = {}
  <2>1. \A A \in F : A \subseteq S  OBVIOUS
  <2> HIDE DEF F
  <2>. QED BY <1>6, <2>1, LeastSubset
<1>8. m \in Sums(f, S)
  <2>1. m \in [SUBSET S -> Nat]  BY <1>4, <1>7
  <2>. QED BY <1>5, <2>1 DEF Sums
<1>9. m[S] = h[S]
  <2>1. S \in SUBSET (S \cap S)  OBVIOUS
  <2> HIDE DEF h
  <2>. QED BY <1>2, <1>8, <2>1, SumsAgree
<1> QED BY <1>1, <1>9 DEF SumOver

\* Only the values at the elements count.
LEMMA SumSame ==
    ASSUME NEW f, NEW g, NEW S, IsFiniteSet(S), \A x \in S : f[x] \in Nat /\ g[x] = f[x]
    PROVE  SumOver(g, S) = SumOver(f, S)
<1> DEFINE F == {A \in SUBSET S : SumOver(g, A) # SumOver(f, A)}
<1>1. ASSUME NEW A \in F, \A B \in F : B \subseteq A => B = A PROVE FALSE
  <2>1. A \in SUBSET S /\ SumOver(g, A) # SumOver(f, A)  OBVIOUS
  <2>2. IsFiniteSet(A) /\ \A x \in A : f[x] \in Nat /\ g[x] \in Nat /\ g[x] = f[x]
    BY <2>1, FS_Subset
  <2>3. A # {}  BY <2>1, <2>2, SumUnfold
  <2>4. /\ Picked(A) \in A
        /\ SumOver(f, A) = f[Picked(A)] + SumOver(f, A \ {Picked(A)})
        /\ SumOver(g, A) = g[Picked(A)] + SumOver(g, A \ {Picked(A)})
    BY <2>2, <2>3, SumUnfold
  <2>5. A \ {Picked(A)} \notin F  BY <1>1, <2>4
  <2>. QED BY <2>1, <2>2, <2>4, <2>5
<1>2. \A A \in F : A \subseteq S  OBVIOUS
<1>3. F = {}
  <2> HIDE DEF F
  <2>. QED BY <1>1, <1>2, LeastSubset
<1> QED BY <1>3

\* A sum changes by what one of its values changes.
LEMMA SumChange ==
    ASSUME NEW f, NEW g, NEW S, IsFiniteSet(S), NEW a \in S, g[a] \in Nat,
           \A x \in S : f[x] \in Nat, \A x \in S \ {a} : g[x] = f[x]
    PROVE  /\ SumOver(f, S) \in Nat
           /\ SumOver(g, S) + f[a] = SumOver(f, S) + g[a]
<1>1. /\ SumOver(f, S \ {a}) \in Nat /\ f[a] \in Nat
      /\ SumOver(f, S) = SumOver(f, S \ {a}) + f[a]
  BY SumTake
<1>2. \A x \in S : g[x] \in Nat  OBVIOUS
<1>3. SumOver(g, S) = SumOver(g, S \ {a}) + g[a]  BY <1>2, SumTake
<1>4. SumOver(g, S \ {a}) = SumOver(f, S \ {a})
  <2>1. IsFiniteSet(S \ {a}) /\ \A x \in S \ {a} : f[x] \in Nat /\ g[x] = f[x]
    BY FS_Subset
  <2>. QED BY <2>1, SumSame
<1> QED BY <1>1, <1>3, <1>4

\* Nothing adds up to nothing.
LEMMA SumOfNothing ==
    ASSUME NEW f, NEW S, IsFiniteSet(S), \A x \in S : f[x] = 0
    PROVE  SumOver(f, S) = 0
<1> DEFINE F == {A \in SUBSET S : SumOver(f, A) # 0}
<1>1. ASSUME NEW A \in F, \A B \in F : B \subseteq A => B = A PROVE FALSE
  <2>1. A \in SUBSET S /\ SumOver(f, A) # 0  OBVIOUS
  <2>2. IsFiniteSet(A) /\ \A x \in A : f[x] \in Nat /\ f[x] = 0  BY <2>1, FS_Subset
  <2>3. A # {}  BY <2>1, <2>2, SumUnfold
  <2>4. /\ Picked(A) \in A
        /\ SumOver(f, A) = f[Picked(A)] + SumOver(f, A \ {Picked(A)})
    BY <2>2, <2>3, SumUnfold
  <2>5. A \ {Picked(A)} \notin F  BY <1>1, <2>4
  <2>. QED BY <2>1, <2>2, <2>4, <2>5
<1>2. \A A \in F : A \subseteq S  OBVIOUS
<1>3. F = {}
  <2> HIDE DEF F
  <2>. QED BY <1>1, <1>2, LeastSubset
<1> QED BY <1>3

--------------------------------------------------------------------------------
(* Recursion along 0 .. n, as in a loop over a sequence.                      *)

\* What holds at the start and is kept by every step holds all along.
LEMMA KeptAlong ==
    ASSUME NEW n \in Nat, NEW P, NEW g, g[0] \in P[0],
           \A k \in 1 .. n : g[k - 1] \in P[k - 1] => g[k] \in P[k]
    PROVE  \A k \in 0 .. n : g[k] \in P[k]
<1> DEFINE F == {k \in 0 .. n : g[k] \notin P[k]}
<1>1. ASSUME NEW k \in F, \A j \in F : k <= j PROVE FALSE
  <2>1. k \in 1 .. n /\ k - 1 \in 0 .. n /\ ~(k <= k - 1)  OBVIOUS
  <2>2. k - 1 \notin F  BY <1>1, <2>1
  <2>. QED BY <2>1, <2>2
<1>2. F \subseteq Nat  OBVIOUS
<1>3. F = {}
  <2> HIDE DEF F
  <2>. QED BY <1>1, <1>2, LeastNat
<1> QED BY <1>3

\* The values a loop takes from `base' on by `step'.
History(g, n, base, step) ==
    /\ g = [k \in 0 .. n |-> g[k]] /\ g[0] = base
    /\ \A k \in 1 .. n : g[k] = step[<<g[k - 1], k>>]

\* A loop has a history.
LEMMA LoopExists ==
    ASSUME NEW n \in Nat, NEW base, NEW step
    PROVE  \E g : History(g, n, base, step)
<1> DEFINE Is(g, m) == g = [k \in 0 .. m |-> IF k = 0 THEN base ELSE step[<<g[k - 1], k>>]]
           F == {m \in 0 .. n : ~\E g : Is(g, m)}
<1>1. ASSUME NEW m \in F, \A j \in F : m <= j PROVE FALSE
  <2>1. CASE m = 0
    <3>1. Is([k \in 0 .. 0 |-> base], 0)  OBVIOUS
    <3>. QED BY <2>1, <3>1
  <2>2. CASE m # 0
    <3>1. m \in Nat /\ m - 1 \in 0 .. n /\ ~(m <= m - 1)  BY <2>2
    <3>2. m - 1 \notin F  BY <1>1, <3>1
    <3>3. PICK h : Is(h, m - 1)  BY <3>1, <3>2
    <3> DEFINE g == [k \in 0 .. m |-> IF k = m THEN step[<<h[m - 1], m>>] ELSE h[k]]
    <3>4. \A k \in 0 .. m - 1 : g[k] = h[k]  BY <3>1
    <3>5. \A k \in 0 .. m - 1 : h[k] = IF k = 0 THEN base ELSE step[<<h[k - 1], k>>]
      BY <3>1, <3>3
    <3>6. ASSUME NEW k \in 0 .. m
          PROVE  g[k] = IF k = 0 THEN base ELSE step[<<g[k - 1], k>>]
      <4>1. CASE k = m
        <5>1. g[k] = step[<<h[m - 1], m>>] /\ g[m - 1] = h[m - 1]  BY <3>1, <3>4, <4>1
        <5>. QED BY <2>2, <4>1, <5>1
      <4>2. CASE k # m
        <5>1. k \in 0 .. m - 1 /\ (k # 0 => k - 1 \in 0 .. m - 1)  BY <3>1, <4>2
        <5>2. g[k] = h[k] /\ (k # 0 => g[k - 1] = h[k - 1])  BY <3>4, <5>1
        <5>. QED BY <3>5, <5>1, <5>2
      <4>. QED BY <4>1, <4>2
    <3>7. Is(g, m)  BY <3>6
    <3> HIDE DEF g
    <3>. QED BY <3>7
  <2>. QED BY <2>1, <2>2
<1>2. F \subseteq Nat  OBVIOUS
<1>3. F = {}
  <2> HIDE DEF F
  <2>. QED BY <1>1, <1>2, LeastNat
<1>4. \E g : Is(g, n)
  <2>1. n \in 0 .. n /\ n \notin F  BY <1>3
  <2> HIDE DEF Is
  <2>. QED BY <2>1
<1>5. PICK g : Is(g, n)  BY <1>4
<1>6. g[0] = base  BY <1>5
<1>7. \A k \in 1 .. n : g[k] = step[<<g[k - 1], k>>]  BY <1>5
<1>8. g = [k \in 0 .. n |-> g[k]]  BY <1>5
<1> QED BY <1>6, <1>7, <1>8 DEF History

--------------------------------------------------------------------------------
(* Sequences                                                                  *)

\* A sequence that loses the element at k.
LEMMA RemovedAt ==
    ASSUME NEW T, NEW s \in Seq(T), NEW k \in 1 .. Len(s)
    PROVE  /\ RemoveAt(s, k) \in Seq(T) /\ Len(RemoveAt(s, k)) = Len(s) - 1
           /\ DOMAIN RemoveAt(s, k) = 1 .. Len(s) - 1
           /\ \A i \in 1 .. Len(s) - 1 : RemoveAt(s, k)[i] = IF i <= k - 1 THEN s[i] ELSE s[i + 1]
<1> DEFINE t == RemoveAt(s, k)
           n == Len(s)
<1>1. n \in Nat /\ DOMAIN s = 1 .. n  BY LenProperties
<1>0. t = SubSeq(s, 1, k - 1) \o SubSeq(s, k + 1, n)  BY DEF RemoveAt
<1> HIDE DEF t
<1>2. \A i \in 1 .. n : s[i] \in T  BY ElementOfSeq
<1>3. /\ SubSeq(s, 1, k - 1) \in Seq(T) /\ Len(SubSeq(s, 1, k - 1)) = k - 1
      /\ \A i \in 1 .. k - 1 : SubSeq(s, 1, k - 1)[i] = s[i]
  <2>1. \A i \in 1 .. k - 1 : s[i] \in T  BY <1>1, <1>2
  <2>2. 1 \in Int /\ k - 1 \in Int  BY <1>1
  <2>. QED BY <1>1, <2>1, <2>2, SubSeqProperties
<1>4. /\ SubSeq(s, k + 1, n) \in Seq(T) /\ Len(SubSeq(s, k + 1, n)) = n - k
      /\ \A i \in 1 .. n - k : SubSeq(s, k + 1, n)[i] = s[k + i]
  <2>1. \A i \in k + 1 .. n : s[i] \in T  BY <1>1, <1>2
  <2>2. k + 1 \in Int /\ n \in Int  BY <1>1
  <2>3. n \in Nat  BY LenProperties
  <2>4. /\ SubSeq(s, k + 1, n) \in Seq(T)
        /\ Len(SubSeq(s, k + 1, n)) = IF k + 1 <= n THEN n - (k + 1) + 1 ELSE 0
        /\ \A i \in 1 .. n - (k + 1) + 1 : SubSeq(s, k + 1, n)[i] = s[(k + 1) + i - 1]
    BY <2>1, <2>2, SubSeqProperties
  <2>. QED BY <2>3, <2>4
<1>5. /\ t \in Seq(T) /\ Len(t) = n - 1
      /\ \A i \in 1 .. n - 1 : t[i] = IF i <= k - 1 THEN s[i] ELSE s[i + 1]
  <2>1. /\ t \in Seq(T) /\ Len(t) = (k - 1) + (n - k)
        /\ \A i \in 1 .. (k - 1) + (n - k) :
              t[i] = IF i <= k - 1 THEN SubSeq(s, 1, k - 1)[i]
                                   ELSE SubSeq(s, k + 1, n)[i - (k - 1)]
    <3> DEFINE u == SubSeq(s, 1, k - 1)
               v == SubSeq(s, k + 1, n)
    <3>1. u \in Seq(T) /\ v \in Seq(T) /\ Len(u) = k - 1 /\ Len(v) = n - k /\ t = u \o v
      BY <1>0, <1>3, <1>4
    <3> HIDE DEF u, v, n
    <3>2. /\ u \o v \in Seq(T) /\ Len(u \o v) = Len(u) + Len(v)
          /\ \A i \in 1 .. Len(u) + Len(v) : (u \o v)[i] = IF i <= Len(u) THEN u[i] ELSE v[i - Len(u)]
      BY <3>1, ConcatProperties
    <3>. QED BY <3>1, <3>2 DEF u, v
  <2>2. ASSUME NEW i \in 1 .. n - 1, ~(i <= k - 1)
        PROVE  SubSeq(s, k + 1, n)[i - (k - 1)] = s[i + 1]
    <3>1. i - (k - 1) \in 1 .. n - k /\ k + (i - (k - 1)) = i + 1
      BY <2>2, <1>1
    <3>. QED BY <3>1, <1>4
  <2>3. ASSUME NEW i \in 1 .. n - 1
        PROVE  t[i] = IF i <= k - 1 THEN s[i] ELSE s[i + 1]
    <3>1. i \in 1 .. (k - 1) + (n - k)  BY <1>1
    <3>2. CASE i <= k - 1
      <4>1. i \in 1 .. k - 1  BY <3>2, <1>1
      <4>2. SubSeq(s, 1, k - 1)[i] = s[i]  BY <4>1, <1>3
      <4>3. t[i] = SubSeq(s, 1, k - 1)[i]  BY <3>1, <3>2, <2>1
      <4>. QED BY <4>2, <4>3, <3>2
    <3>3. CASE ~(i <= k - 1)
      BY <3>1, <3>3, <2>1, <2>2
    <3>. QED BY <3>2, <3>3
  <2>4. (k - 1) + (n - k) = n - 1  BY <1>1
  <2>. QED BY <2>1, <2>3, <2>4
<1> QED BY <1>1, <1>5, LenProperties DEF t

\* A sequence without repetition loses an element.
LEMMA RemoveOne ==
    ASSUME NEW T, NEW s \in Seq(T), IsInjective(s), NEW x \in ToSet(s)
    PROVE  RemoveFirst(s, x) \in Seq(T) /\ IsInjective(RemoveFirst(s, x))
           /\ ToSet(RemoveFirst(s, x)) = ToSet(s) \ {x}
<1> DEFINE k == SelectInSeq(s, LAMBDA v : v = x)
           t == RemoveFirst(s, x)
           n == Len(s)
<1>1. n \in Nat /\ DOMAIN s = 1 .. n  BY LenProperties
<1>2. k \in 1 .. n /\ s[k] = x
  <2>1. PICK j \in 1 .. n : s[j] = x  BY <1>1 DEF ToSet
  <2>2. {i \in 1 .. n : s[i] = x} = {j}  BY <1>1, <2>1 DEF IsInjective
  <2>3. Min({j}) = j  BY <2>1 DEF Min
  <2>. QED BY <2>1, <2>2, <2>3 DEF SelectInSeq
<1>3. t = RemoveAt(s, k)  BY <1>2 DEF RemoveFirst
<1> HIDE DEF k, t
<1>4. /\ t \in Seq(T) /\ Len(t) = n - 1
      /\ \A i \in 1 .. n - 1 : t[i] = IF i <= k - 1 THEN s[i] ELSE s[i + 1]
  BY <1>2, <1>3, RemovedAt
<1>5. DOMAIN t = 1 .. n - 1  BY <1>4, LenProperties
<1>6. IsInjective(t)
  <2>1. SUFFICES ASSUME NEW a \in 1 .. n - 1, NEW b \in 1 .. n - 1, t[a] = t[b]
                 PROVE  a = b
    BY <1>5 DEF IsInjective
  <2>2. \A i, j \in 1 .. n : s[i] = s[j] => i = j  BY <1>1 DEF IsInjective
  <2> DEFINE from(i) == IF i <= k - 1 THEN i ELSE i + 1
  <2>3. from(a) \in 1 .. n /\ from(b) \in 1 .. n /\ t[a] = s[from(a)] /\ t[b] = s[from(b)]
    BY <1>1, <1>2, <1>4
  <2>4. from(a) = from(b)  BY <2>1, <2>2, <2>3
  <2>. QED BY <2>4, <1>1, <1>2
<1>7. ToSet(t) = ToSet(s) \ {x}
  <2>1. ASSUME NEW i \in 1 .. n - 1 PROVE t[i] \in ToSet(s) \ {x}
    <3>1. PICK j \in 1 .. n : j # k /\ t[i] = s[j]
      BY <1>1, <1>2, <1>4
    <3>. QED BY <3>1, <1>1, <1>2 DEF IsInjective, ToSet
  <2>2. ASSUME NEW y \in ToSet(s) \ {x} PROVE \E i \in 1 .. n - 1 : t[i] = y
    <3>1. PICK j \in 1 .. n : s[j] = y  BY <1>1 DEF ToSet
    <3>2. j # k  BY <3>1, <1>2
    <3>3. CASE j < k
      BY <3>1, <3>3, <1>1, <1>2, <1>4
    <3>4. CASE j > k
      <4>1. j - 1 \in 1 .. n - 1 /\ ~(j - 1 <= k - 1) /\ (j - 1) + 1 = j
        BY <3>4, <1>1, <1>2
      <4>. QED BY <4>1, <3>1, <1>4
    <3>. QED BY <3>2, <3>3, <3>4, <1>1, <1>2
  <2>. QED BY <2>1, <2>2, <1>5 DEF ToSet
<1> QED BY <1>4, <1>6, <1>7 DEF t

\* A sequence that loses the first of an element, if it has any.
LEMMA RemoveFirstIs ==
    ASSUME NEW T, NEW s \in Seq(T), NEW x
    PROVE  RemoveFirst(s, x) \in Seq(T)
<1> DEFINE I == {i \in 1 .. Len(s) : s[i] = x}
<1>1. CASE I = {}
  <2>1. RemoveFirst(s, x) = s  BY <1>1 DEF RemoveFirst
  <2>. QED BY <2>1
<1>2. CASE I # {}
  <2>1. I \subseteq Nat  OBVIOUS
  <2>2. Min(I) \in I
    <3> HIDE DEF I
    <3>. QED BY <1>2, <2>1, MinMax
  <2>3. RemoveFirst(s, x) = RemoveAt(s, Min(I))
    BY <1>2 DEF RemoveFirst, SelectInSeq
  <2>4. Min(I) \in 1 .. Len(s)  BY <2>2
  <2> HIDE DEF I
  <2>. QED BY <2>3, <2>4, RemovedAt
<1> QED BY <1>1, <1>2
================================================================================

----------------------------- MODULE FoldLemmas -----------------------------
(***************************************************************************)
(* Facts about sums and folds over finite sets and sequences that the      *)
(* proofs about the components share.  The provers have no induction of    *)
(* their own: every proof here goes back to a least counterexample.        *)
(***************************************************************************)
EXTENDS Integers, FiniteSets, Functions, SequencesExt, FiniteSetTheorems,
        SequenceTheorems, WellFoundedInduction, TLAPS

(* Induction over the naturals, stated of a set.                           *)
LEMMA InductionSet ==
  ASSUME NEW S, 0 \in S, \A n \in Nat : n \in S => n + 1 \in S
  PROVE  Nat \subseteq S
<1> DEFINE Below == {ss \in Nat \X Nat : ss[1] < ss[2]}
           T == Nat \ S
<1>1. IsWellFoundedOn(Below, Nat)
  BY NatLessThanWellFounded DEF OpToRel
<1> SUFFICES ASSUME T # {} PROVE FALSE
  OBVIOUS
<1>2. T \subseteq Nat
  OBVIOUS
<1> HIDE DEF Below, T
<1>3. PICK x \in T : \A y \in T : ~(<<y, x>> \in Below)
  BY <1>1, <1>2, WFMin
<1>4. x \in Nat /\ x # 0 /\ x - 1 \in Nat /\ x - 1 < x
  BY <1>3 DEF T
<1>5. x - 1 \notin T
  BY <1>3, <1>4 DEF Below
<1>6. x - 1 \in S /\ (x - 1) + 1 = x
  BY <1>4, <1>5 DEF T
<1> QED  BY <1>3, <1>4, <1>6 DEF T

-----------------------------------------------------------------------------
(* Sums.  A sum picks one element after the other; it does not matter      *)
(* which.                                                                  *)
AnyOf(s) == CHOOSE x \in s : TRUE

SumStep(f, h, s) == IF s = {} THEN 0 ELSE f[AnyOf(s)] + h[s \ {AnyOf(s)}]

IsSum(f, S, h) == h = [s \in SUBSET S |-> SumStep(f, h, s)]

LEMMA SumUnfolds ==
  ASSUME NEW f, NEW S
  PROVE  SumFunctionOnSet(f, S) = (CHOOSE h : IsSum(f, S, h))[S]
BY Zenon DEF SumFunctionOnSet, FoldFunctionOnSet, MapThenFoldSet, IsSum, SumStep, AnyOf

LEMMA AnyIsIn ==
  ASSUME NEW s, s # {}
  PROVE  AnyOf(s) \in s
BY DEF AnyOf

LEMMA SumExists ==
  ASSUME NEW S, IsFiniteSet(S), NEW f, \A x \in S : f[x] \in Int
  PROVE  \E h \in [SUBSET S -> Int] : IsSum(f, S, h)
<1> DEFINE Small(n) == {s \in SUBSET S : Cardinality(s) <= n}
           Good(n, h) == \A s \in Small(n) : h[s] = SumStep(f, h, s)
           N == {n \in Nat : \E h \in [Small(n) -> Int] : Good(n, h)}
<1>0. \A s \in SUBSET S : IsFiniteSet(s) /\ Cardinality(s) \in Nat
                          /\ (Cardinality(s) = 0 <=> s = {})
  BY FS_Subset, FS_CardinalityType, FS_EmptySet
<1>1. 0 \in N
  <2> DEFINE h == [s \in Small(0) |-> 0]
  <2>1. h \in [Small(0) -> Int]
    OBVIOUS
  <2>2. Good(0, h)
    BY <1>0 DEF SumStep
  <2> QED  BY <2>1, <2>2
<1>2. ASSUME NEW n \in Nat, n \in N PROVE n + 1 \in N
  <2>1. PICK g \in [Small(n) -> Int] : Good(n, g)
    BY <1>2
  <2> DEFINE h == [s \in Small(n + 1) |-> SumStep(f, g, s)]
  <2>2. ASSUME NEW s \in Small(n + 1), s # {}
        PROVE  AnyOf(s) \in S /\ s \ {AnyOf(s)} \in Small(n)
    <3>1. AnyOf(s) \in s /\ IsFiniteSet(s)
      BY <1>0, <2>2, AnyIsIn
    <3>2. Cardinality(s \ {AnyOf(s)}) = Cardinality(s) - 1
      BY <3>1, FS_RemoveElement
    <3>3. Cardinality(s) \in Nat /\ Cardinality(s) <= n + 1
      BY <1>0
    <3> QED  BY <3>1, <3>2, <3>3
  <2>3. ASSUME NEW s \in Small(n + 1) PROVE SumStep(f, g, s) \in Int
    BY <2>2, <2>1 DEF SumStep
  <2>4. h \in [Small(n + 1) -> Int]
    BY <2>3
  <2>5. \A s \in Small(n) : s \in Small(n + 1) /\ h[s] = g[s]
    BY <1>0, <2>1
  <2>6. Good(n + 1, h)
    <3> SUFFICES ASSUME NEW s \in Small(n + 1) PROVE h[s] = SumStep(f, h, s)
      OBVIOUS
    <3>1. h[s] = SumStep(f, g, s)
      OBVIOUS
    <3> HIDE DEF h, Small
    <3>2. CASE s = {}
      BY <3>1, <3>2 DEF SumStep
    <3>3. CASE s # {}
      <4>1. h[s \ {AnyOf(s)}] = g[s \ {AnyOf(s)}]
        BY <2>2, <2>5, <3>3
      <4> QED  BY <3>1, <3>3, <4>1 DEF SumStep
    <3> QED  BY <3>2, <3>3
  <2> HIDE DEF h, Good, Small
  <2>7. n + 1 \in Nat
    OBVIOUS
  <2> QED  BY <2>4, <2>6, <2>7
<1> HIDE DEF N
<1>3. Cardinality(S) \in N
  BY <1>0, <1>1, <1>2, InductionSet
<1>4. Small(Cardinality(S)) = SUBSET S
  BY FS_Subset
<1>5. PICK h \in [SUBSET S -> Int] : \A s \in SUBSET S : h[s] = SumStep(f, h, s)
  BY <1>3, <1>4 DEF N
<1>6. h = [s \in SUBSET S |-> SumStep(f, h, s)]
  BY <1>5
<1> QED  BY <1>6 DEF IsSum

LEMMA SumUnique ==
  ASSUME NEW S, IsFiniteSet(S), NEW f, NEW g, \A x \in S : f[x] = g[x],
         NEW T, S \subseteq T, NEW h, IsSum(f, S, h), NEW k, IsSum(g, T, k)
  PROVE  \A s \in SUBSET S : h[s] = k[s]
<1> DEFINE N == {n \in Nat : \A s \in SUBSET S : Cardinality(s) = n => h[s] = k[s]}
<1>0. \A s \in SUBSET S : IsFiniteSet(s) /\ Cardinality(s) \in Nat
                          /\ (Cardinality(s) = 0 <=> s = {})
  BY FS_Subset, FS_CardinalityType, FS_EmptySet
<1>a. \A s \in SUBSET S : h[s] = SumStep(f, h, s)
  BY DEF IsSum
<1>b. \A s \in SUBSET S : k[s] = SumStep(g, k, s)
  BY DEF IsSum
<1>1. 0 \in N
  BY <1>0, <1>a, <1>b DEF SumStep
<1>2. ASSUME NEW n \in Nat, n \in N PROVE n + 1 \in N
  <2> SUFFICES ASSUME NEW s \in SUBSET S, Cardinality(s) = n + 1
               PROVE  h[s] = k[s]
    OBVIOUS
  <2>1. s # {} /\ AnyOf(s) \in s /\ IsFiniteSet(s)
    BY <1>0, AnyIsIn
  <2>2. Cardinality(s \ {AnyOf(s)}) = n
    <3>1. Cardinality(s \ {AnyOf(s)}) = Cardinality(s) - 1
      BY <2>1, FS_RemoveElement
    <3> QED  BY <3>1
  <2>3. h[s \ {AnyOf(s)}] = k[s \ {AnyOf(s)}]
    BY <1>2, <2>2
  <2>4. f[AnyOf(s)] = g[AnyOf(s)]
    BY <2>1
  <2> QED  BY <1>a, <1>b, <2>1, <2>3, <2>4 DEF SumStep
<1> HIDE DEF N
<1>3. Nat \subseteq N
  BY <1>1, <1>2, InductionSet
<1> QED  BY <1>0, <1>3 DEF N

(* A sum over a set is the value there of whatever satisfies the equation  *)
(* over a larger one.                                                      *)
LEMMA SumIs ==
  ASSUME NEW S, IsFiniteSet(S), NEW f, \A x \in S : f[x] \in Int,
         NEW g, \A x \in S : f[x] = g[x],
         NEW T, S \subseteq T, NEW k, IsSum(g, T, k)
  PROVE  SumFunctionOnSet(f, S) = k[S]
<1>1. \E h : IsSum(f, S, h)
  BY SumExists
<1> DEFINE h == CHOOSE x : IsSum(f, S, x)
<1>2. IsSum(f, S, h)
  BY <1>1
<1> HIDE DEF h
<1>3. h[S] = k[S]
  BY <1>2, SumUnique
<1> QED  BY <1>3, SumUnfolds DEF h

LEMMA SumType ==
  ASSUME NEW S, IsFiniteSet(S), NEW f, \A x \in S : f[x] \in Int
  PROVE  SumFunctionOnSet(f, S) \in Int
<1>1. PICK h \in [SUBSET S -> Int] : IsSum(f, S, h)
  BY SumExists
<1>2. SumFunctionOnSet(f, S) = h[S]
  BY <1>1, SumIs
<1> QED  BY <1>1, <1>2

LEMMA SumEmpty ==
  ASSUME NEW f
  PROVE  SumFunctionOnSet(f, {}) = 0
<1>1. IsFiniteSet({})
  BY FS_EmptySet
<1>2. PICK h \in [SUBSET {} -> Int] : IsSum(f, {}, h)
  BY <1>1, SumExists
<1>3. SumFunctionOnSet(f, {}) = h[{}]
  BY <1>1, <1>2, SumIs
<1> QED  BY <1>2, <1>3 DEF IsSum, SumStep

LEMMA SumEqual ==
  ASSUME NEW S, IsFiniteSet(S), NEW f, \A x \in S : f[x] \in Int,
         NEW g, \A x \in S : f[x] = g[x]
  PROVE  SumFunctionOnSet(f, S) = SumFunctionOnSet(g, S)
<1>1. PICK k \in [SUBSET S -> Int] : IsSum(g, S, k)
  BY SumExists
<1> QED  BY <1>1, SumIs

LEMMA SumRemoveAny ==
  ASSUME NEW S, IsFiniteSet(S), S # {}, NEW f, \A x \in S : f[x] \in Int
  PROVE  SumFunctionOnSet(f, S) = f[AnyOf(S)] + SumFunctionOnSet(f, S \ {AnyOf(S)})
<1>1. PICK k \in [SUBSET S -> Int] : IsSum(f, S, k)
  BY SumExists
<1>2. SumFunctionOnSet(f, S) = k[S]
  BY <1>1, SumIs
<1>3. IsFiniteSet(S \ {AnyOf(S)})
  BY FS_Subset
<1>4. SumFunctionOnSet(f, S \ {AnyOf(S)}) = k[S \ {AnyOf(S)}]
  BY <1>1, <1>3, SumIs
<1> QED  BY <1>1, <1>2, <1>4 DEF IsSum, SumStep

(* The sum with and without one element.                                   *)
LEMMA SumRemove ==
  ASSUME NEW S, IsFiniteSet(S), NEW f, \A x \in S : f[x] \in Int, NEW a \in S
  PROVE  SumFunctionOnSet(f, S) = f[a] + SumFunctionOnSet(f, S \ {a})
<1> DEFINE sum(s) == SumFunctionOnSet(f, s)
           N == {n \in Nat : \A s \in SUBSET S : Cardinality(s) = n =>
                               \A x \in s : sum(s) = f[x] + sum(s \ {x})}
<1>0. \A s \in SUBSET S : IsFiniteSet(s) /\ Cardinality(s) \in Nat
                          /\ (Cardinality(s) = 0 <=> s = {})
  BY FS_Subset, FS_CardinalityType, FS_EmptySet
<1>1. 0 \in N
  BY <1>0
<1>2. ASSUME NEW n \in Nat, n \in N PROVE n + 1 \in N
  <2> SUFFICES ASSUME NEW s \in SUBSET S, Cardinality(s) = n + 1, NEW x \in s
               PROVE  sum(s) = f[x] + sum(s \ {x})
    OBVIOUS
  <2> DEFINE y == AnyOf(s)
  <2>1. y \in s /\ IsFiniteSet(s)
    BY <1>0, AnyIsIn
  <2>2. sum(s) = f[y] + sum(s \ {y})
    BY <1>0, <2>1, SumRemoveAny
  <2>3. Cardinality(s \ {y}) = n /\ Cardinality(s \ {x}) = n
    <3>1. /\ Cardinality(s \ {y}) = Cardinality(s) - 1
          /\ Cardinality(s \ {x}) = Cardinality(s) - 1
      BY <2>1, FS_RemoveElement
    <3> QED  BY <3>1
  <2> HIDE DEF y
  <2>4. CASE x = y
    BY <2>2, <2>4
  <2>5. CASE x # y
    <3>1. sum(s \ {y}) = f[x] + sum((s \ {y}) \ {x})
      BY <1>2, <2>3, <2>5
    <3>2. sum(s \ {x}) = f[y] + sum((s \ {x}) \ {y})
      BY <1>2, <2>1, <2>3, <2>5
    <3>3. (s \ {y}) \ {x} = (s \ {x}) \ {y}
      OBVIOUS
    <3>4. f[x] \in Int /\ f[y] \in Int
      BY <2>1
    <3>5. sum((s \ {x}) \ {y}) \in Int
      BY <1>0, SumType
    <3> DEFINE u == f[x]
               v == f[y]
               w == sum((s \ {x}) \ {y})
    <3>6. sum(s) = v + (u + w) /\ sum(s \ {x}) = v + w
      BY <2>2, <3>1, <3>2, <3>3
    <3>7. u \in Int /\ v \in Int /\ w \in Int
      BY <3>4, <3>5
    <3> HIDE DEF u, v, w, sum
    <3>8. v + (u + w) = u + (v + w)
      BY <3>7
    <3> QED  BY <3>6, <3>8 DEF u
  <2> QED  BY <2>4, <2>5
<1> HIDE DEF N
<1>3. Cardinality(S) \in N
  BY <1>0, <1>1, <1>2, InductionSet
<1> QED  BY <1>3 DEF N
(* Two sums compare as their terms do.                                     *)
LEMMA SumMonotone ==
  ASSUME NEW S, IsFiniteSet(S), NEW f, NEW g,
         \A x \in S : f[x] \in Int /\ g[x] \in Int /\ f[x] <= g[x]
  PROVE  SumFunctionOnSet(f, S) <= SumFunctionOnSet(g, S)
<1> DEFINE F(s) == SumFunctionOnSet(f, s)
           G(s) == SumFunctionOnSet(g, s)
           N == {n \in Nat : \A s \in SUBSET S : Cardinality(s) = n => F(s) <= G(s)}
<1>0. \A s \in SUBSET S : /\ IsFiniteSet(s) /\ Cardinality(s) \in Nat
                          /\ Cardinality(s) = 0 <=> s = {}
  BY FS_Subset, FS_CardinalityType, FS_EmptySet
<1>1. 0 \in N
  <2>1. F({}) = 0 /\ G({}) = 0
    BY SumEmpty
  <2> HIDE DEF F, G
  <2> QED  BY <1>0, <2>1
<1>2. ASSUME NEW n \in Nat, n \in N PROVE n + 1 \in N
  <2> SUFFICES ASSUME NEW s \in SUBSET S, Cardinality(s) = n + 1
               PROVE  F(s) <= G(s)
    OBVIOUS
  <2>1. PICK x : x \in s
    BY <1>0
  <2>2. Cardinality(s \ {x}) = n
    <3>1. Cardinality(s \ {x}) = Cardinality(s) - 1
      BY <1>0, <2>1, FS_RemoveElement
    <3> QED  BY <3>1
  <2>3. F(s \ {x}) <= G(s \ {x})
    BY <1>2, <2>2
  <2>4. F(s) = f[x] + F(s \ {x}) /\ G(s) = g[x] + G(s \ {x})
    BY <1>0, <2>1, SumRemove
  <2>5. F(s \ {x}) \in Int /\ G(s \ {x}) \in Int
    BY <1>0, SumType
  <2>6. f[x] \in Int /\ g[x] \in Int /\ f[x] <= g[x]
    BY <2>1
  <2> DEFINE a == f[x]
             b == g[x]
             c == F(s \ {x})
             d == G(s \ {x})
  <2>7. a \in Int /\ b \in Int /\ c \in Int /\ d \in Int /\ a <= b /\ c <= d
    BY <2>3, <2>5, <2>6
  <2>8. F(s) = a + c /\ G(s) = b + d
    BY <2>4
  <2> HIDE DEF a, b, c, d, F, G
  <2> QED  BY <2>7, <2>8
<1> HIDE DEF N
<1>3. Cardinality(S) \in N
  BY <1>0, <1>1, <1>2, InductionSet
<1> QED  BY <1>3 DEF N

(* A sum whose terms are not negative is not; nor is one of zeros positive. *)
LEMMA SumOfZeros ==
  ASSUME NEW S, IsFiniteSet(S)
  PROVE  SumFunctionOnSet([x \in S |-> 0], S) = 0
<1> DEFINE f == [x \in S |-> 0]
           F(s) == SumFunctionOnSet(f, s)
           N == {n \in Nat : \A s \in SUBSET S : Cardinality(s) = n => F(s) = 0}
<1>0. \A s \in SUBSET S : /\ IsFiniteSet(s) /\ Cardinality(s) \in Nat
                          /\ Cardinality(s) = 0 <=> s = {}
  BY FS_Subset, FS_CardinalityType, FS_EmptySet
<1>1. 0 \in N
  <2>1. F({}) = 0
    BY SumEmpty
  <2> HIDE DEF F
  <2> QED  BY <1>0, <2>1
<1>2. ASSUME NEW n \in Nat, n \in N PROVE n + 1 \in N
  <2> SUFFICES ASSUME NEW s \in SUBSET S, Cardinality(s) = n + 1
               PROVE  F(s) = 0
    OBVIOUS
  <2>1. PICK x : x \in s
    BY <1>0
  <2>2. Cardinality(s \ {x}) = n
    <3>1. Cardinality(s \ {x}) = Cardinality(s) - 1
      BY <1>0, <2>1, FS_RemoveElement
    <3> QED  BY <3>1
  <2>3. F(s \ {x}) = 0
    BY <1>2, <2>2
  <2>4. \A y \in s : f[y] = 0
    OBVIOUS
  <2> HIDE DEF f
  <2>5. F(s) = f[x] + F(s \ {x})
    BY <1>0, <2>1, <2>4, SumRemove
  <2> QED  BY <2>1, <2>3, <2>4, <2>5
<1> HIDE DEF N
<1>3. Cardinality(S) \in N
  BY <1>0, <1>1, <1>2, InductionSet
<1> QED  BY <1>3 DEF N

LEMMA SumNotNegative ==
  ASSUME NEW S, IsFiniteSet(S), NEW f, \A x \in S : f[x] \in Int /\ f[x] >= 0
  PROVE  SumFunctionOnSet(f, S) \in Nat
<1> DEFINE z == [x \in S |-> 0]
<1>1. \A x \in S : z[x] \in Int /\ f[x] \in Int /\ z[x] <= f[x]
  OBVIOUS
<1>2. SumFunctionOnSet(z, S) = 0
  BY SumOfZeros
<1> HIDE DEF z
<1>3. SumFunctionOnSet(z, S) <= SumFunctionOnSet(f, S)
  BY <1>1, SumMonotone
<1>4. SumFunctionOnSet(f, S) \in Int
  BY SumType
<1> QED  BY <1>2, <1>3, <1>4

-----------------------------------------------------------------------------
(* Folds over a sequence: what FoldLeft is defined by has a solution, and  *)
(* any solution goes through the sequence from its first element.          *)
LEMMA MaxOfInterval ==
  ASSUME NEW n \in Nat, NEW j \in 1..n
  PROVE  Max(1..j) = j /\ (1..j) \ {j} = 1..(j - 1)
BY DEF Max

LEMMA MaxIsIn ==
  ASSUME NEW n \in Nat, NEW t \in SUBSET (1..n), t # {}
  PROVE  Max(t) \in t /\ \A y \in t : Max(t) >= y
<1> DEFINE N == {m \in Nat : \A s \in SUBSET (1..m) : s # {} => \E x \in s : \A y \in s : x >= y}
<1>1. 0 \in N
  <2>1. 1..0 = {}
    OBVIOUS
  <2> QED  BY <2>1
<1>2. ASSUME NEW m \in Nat, m \in N PROVE m + 1 \in N
  <2> SUFFICES ASSUME NEW s \in SUBSET (1..(m + 1)), s # {}
               PROVE  \E x \in s : \A y \in s : x >= y
    OBVIOUS
  <2>1. CASE m + 1 \in s
    <3>1. \A y \in s : m + 1 >= y
      OBVIOUS
    <3> QED  BY <2>1, <3>1
  <2>2. CASE m + 1 \notin s
    <3>1. s \in SUBSET (1..m)
      BY <2>2
    <3> QED  BY <1>2, <3>1
  <2> QED  BY <2>1, <2>2
<1> HIDE DEF N
<1>3. n \in N
  BY <1>1, <1>2, InductionSet
<1>4. \E x \in t : \A y \in t : x >= y
  BY <1>3 DEF N
<1> QED  BY <1>4 DEF Max

Folds(n, base, o, h) ==
  \A t \in SUBSET (1..n) :
    h[t] = IF t = {} THEN base ELSE o[<<h[t \ {Max(t)}], Max(t)>>]

LEMMA FoldExists ==
  ASSUME NEW n \in Nat, NEW D, NEW base \in D, NEW o \in [D \X (1..n) -> D]
  PROVE  \E h \in [SUBSET (1..n) -> D] : Folds(n, base, o, h)
<1> DEFINE Step(h, t) == IF t = {} THEN base ELSE o[<<h[t \ {Max(t)}], Max(t)>>]
           Good(m, h) == \A t \in SUBSET (1..m) : h[t] = Step(h, t)
           Solved(m) == \E h \in [SUBSET (1..m) -> D] : Good(m, h)
           N == {m \in Nat : m <= n => Solved(m)}
<1>1. 0 \in N
  <2> DEFINE h == [t \in SUBSET (1..0) |-> base]
  <2>1. h \in [SUBSET (1..0) -> D]
    OBVIOUS
  <2>2. Good(0, h)
    OBVIOUS
  <2> HIDE DEF h, Good
  <2> QED  BY <2>1, <2>2
<1>2. ASSUME NEW m \in Nat, m < n, Solved(m) PROVE Solved(m + 1)
  <2>1. PICK g \in [SUBSET (1..m) -> D] : Good(m, g)
    <3> HIDE DEF Good
    <3> QED  BY <1>2
  <2> DEFINE k == m + 1
  <2>2. k \in Nat /\ k \in 1..n /\ k \notin 1..m /\ 1..k = (1..m) \cup {k}
        /\ \A y \in 1..m : ~(y >= k)
    BY <1>2
  <2> HIDE DEF k
  <2> DEFINE S == SUBSET (1..k)
             h == [t \in S |-> IF k \in t THEN o[<<g[t \ {k}], k>>] ELSE g[t]]
  <2>3. ASSUME NEW t \in S, k \in t
        PROVE  Max(t) = k /\ t \ {k} \in SUBSET (1..m) /\ t \ {k} \in S
    <3>1. Max(t) \in t /\ Max(t) >= k
      BY <2>2, <2>3, MaxIsIn
    <3> QED  BY <2>2, <2>3, <3>1
  <2>4. ASSUME NEW t \in S, k \notin t
        PROVE  t \in SUBSET (1..m)
    BY <2>2, <2>4
  <2>5. ASSUME NEW t \in S PROVE h[t] \in D
    <3>1. CASE k \in t
      <4>1. g[t \ {k}] \in D
        BY <2>1, <2>3, <3>1
      <4>2. <<g[t \ {k}], k>> \in D \X (1..n)
        BY <2>2, <4>1
      <4> QED  BY <3>1, <4>2
    <3>2. CASE k \notin t
      BY <2>1, <2>4, <3>2
    <3> QED  BY <3>1, <3>2
  <2>6. h \in [S -> D]
    BY <2>5
  <2>7. ASSUME NEW t \in S PROVE h[t] = Step(h, t)
    <3>1. CASE k \in t
      <4>1. h[t] = o[<<g[t \ {k}], k>>] /\ t # {}
        BY <3>1
      <4>2. h[t \ {k}] = g[t \ {k}]
        BY <2>3, <3>1
      <4>3. Max(t) = k
        BY <2>3, <3>1
      <4> HIDE DEF h
      <4> QED  BY <4>1, <4>2, <4>3
    <3>2. CASE k \notin t
      <4>1. h[t] = g[t] /\ t \in SUBSET (1..m)
        BY <2>4, <3>2
      <4>2. CASE t = {}
        BY <2>1, <4>1, <4>2
      <4>3. CASE t # {}
        <5>1. t \ {Max(t)} \in S /\ k \notin t \ {Max(t)}
          BY <3>2
        <5>2. h[t \ {Max(t)}] = g[t \ {Max(t)}]
          BY <5>1
        <5>3. g[t] = Step(g, t)
          BY <2>1, <4>1
        <5> HIDE DEF h
        <5> QED  BY <4>1, <4>3, <5>2, <5>3
      <4> QED  BY <4>2, <4>3
    <3> QED  BY <3>1, <3>2
  <2> HIDE DEF h, Step
  <2>8. Solved(k)
    BY <2>6, <2>7
  <2> HIDE DEF Solved
  <2> QED  BY <2>8 DEF k
<1> HIDE DEF Solved
<1>3. ASSUME NEW m \in Nat, m \in N PROVE m + 1 \in N
  <2>1. CASE m < n
    <3>1. m <= n
      BY <2>1
    <3> QED  BY <1>2, <1>3, <2>1, <3>1
  <2>2. CASE ~(m < n)
    BY <2>2
  <2> QED  BY <2>1, <2>2
<1>4. Nat \subseteq N
  <2> HIDE DEF N
  <2> QED  BY <1>1, <1>3, InductionSet
<1>5. Solved(n)
  BY <1>4
<1> QED  BY <1>5 DEF Solved, Folds

-----------------------------------------------------------------------------
(* Induction over the subsets of a finite set, one element at a time.      *)
LEMMA SubsetInduction ==
  ASSUME NEW S, IsFiniteSet(S), NEW Good, {} \in Good,
         \A s \in SUBSET S : \A x \in s : s \ {x} \in Good => s \in Good
  PROVE  S \in Good
<1> DEFINE N == {n \in Nat : \A s \in SUBSET S : Cardinality(s) = n => s \in Good}
<1>0. \A s \in SUBSET S : /\ IsFiniteSet(s) /\ Cardinality(s) \in Nat
                          /\ Cardinality(s) = 0 <=> s = {}
  BY FS_Subset, FS_CardinalityType, FS_EmptySet
<1>1. 0 \in N
  BY <1>0
<1>2. ASSUME NEW n \in Nat, n \in N PROVE n + 1 \in N
  <2> SUFFICES ASSUME NEW s \in SUBSET S, Cardinality(s) = n + 1
               PROVE  s \in Good
    OBVIOUS
  <2>1. PICK x : x \in s
    BY <1>0
  <2>2. Cardinality(s \ {x}) = n
    <3>1. Cardinality(s \ {x}) = Cardinality(s) - 1
      BY <1>0, <2>1, FS_RemoveElement
    <3> QED  BY <3>1
  <2> QED  BY <1>2, <2>1, <2>2
<1> HIDE DEF N
<1>3. Cardinality(S) \in N
  BY <1>0, <1>1, <1>2, InductionSet
<1> QED  BY <1>0, <1>3 DEF N

(* A sum of sums.                                                          *)
LEMMA SumAdds ==
  ASSUME NEW S, IsFiniteSet(S), NEW f, NEW g, NEW h,
         \A x \in S : f[x] \in Int /\ g[x] \in Int /\ h[x] = f[x] + g[x]
  PROVE  SumFunctionOnSet(h, S) = SumFunctionOnSet(f, S) + SumFunctionOnSet(g, S)
<1> DEFINE F(s) == SumFunctionOnSet(f, s)
           G(s) == SumFunctionOnSet(g, s)
           H(s) == SumFunctionOnSet(h, s)
           Good == {s \in SUBSET S : H(s) = F(s) + G(s)}
<1>1. {} \in Good
  <2>1. F({}) = 0 /\ G({}) = 0 /\ H({}) = 0
    BY SumEmpty
  <2> HIDE DEF F, G, H
  <2> QED  BY <2>1
<1>2. ASSUME NEW s \in SUBSET S, NEW x \in s, s \ {x} \in Good
      PROVE  s \in Good
  <2>1. IsFiniteSet(s) /\ IsFiniteSet(s \ {x})
    BY FS_Subset
  <2>2. \A y \in S : h[y] \in Int
    OBVIOUS
  <2> DEFINE a == f[x]
             b == g[x]
             t == s \ {x}
  <2>3. F(s) = a + F(t) /\ G(s) = b + G(t) /\ H(s) = (a + b) + H(t)
    BY <2>1, <2>2, SumRemove
  <2>4. F(t) \in Int /\ G(t) \in Int /\ a \in Int /\ b \in Int
    BY <2>1, SumType
  <2>5. H(t) = F(t) + G(t)
    BY <1>2
  <2> HIDE DEF F, G, H, a, b, t
  <2> QED  BY <2>3, <2>4, <2>5
<1> HIDE DEF Good
<1>3. S \in Good
  BY <1>1, <1>2, SubsetInduction
<1> QED  BY <1>3 DEF Good

(* A factor comes out of a sum.                                            *)
LEMMA SumScales ==
  ASSUME NEW S, IsFiniteSet(S), NEW c \in Int, NEW f, NEW h,
         \A x \in S : f[x] \in Int /\ h[x] = c * f[x]
  PROVE  SumFunctionOnSet(h, S) = c * SumFunctionOnSet(f, S)
<1> DEFINE F(s) == SumFunctionOnSet(f, s)
           H(s) == SumFunctionOnSet(h, s)
           Good == {s \in SUBSET S : H(s) = c * F(s)}
<1>1. {} \in Good
  <2>1. F({}) = 0 /\ H({}) = 0
    BY SumEmpty
  <2> HIDE DEF F, H
  <2> QED  BY <2>1
<1>2. ASSUME NEW s \in SUBSET S, NEW x \in s, s \ {x} \in Good
      PROVE  s \in Good
  <2>1. IsFiniteSet(s) /\ IsFiniteSet(s \ {x})
    BY FS_Subset
  <2>2. \A y \in S : h[y] \in Int
    OBVIOUS
  <2> DEFINE a == f[x]
             t == s \ {x}
  <2>3. F(s) = a + F(t) /\ H(s) = c * a + H(t)
    BY <2>1, <2>2, SumRemove
  <2>4. F(t) \in Int /\ a \in Int
    BY <2>1, SumType
  <2>5. H(t) = c * F(t)
    BY <1>2
  <2> HIDE DEF F, H, a, t
  <2> QED  BY <2>3, <2>4, <2>5
<1> HIDE DEF Good
<1>3. S \in Good
  BY <1>1, <1>2, SubsetInduction
<1> QED  BY <1>3 DEF Good

(* Terms that are zero may be left out.                                    *)
LEMMA SumSupport ==
  ASSUME NEW S, IsFiniteSet(S), NEW T, T \subseteq S, NEW f,
         \A x \in S : f[x] \in Int, \A x \in S \ T : f[x] = 0
  PROVE  SumFunctionOnSet(f, S) = SumFunctionOnSet(f, T)
<1> DEFINE F(s) == SumFunctionOnSet(f, s)
           Good == {s \in SUBSET S : F(s) = F(s \cap T)}
<1>1. {} \in Good
  OBVIOUS
<1>2. ASSUME NEW s \in SUBSET S, NEW x \in s, s \ {x} \in Good
      PROVE  s \in Good
  <2> DEFINE t == s \ {x}
  <2>1. IsFiniteSet(s) /\ IsFiniteSet(t) /\ IsFiniteSet(s \cap T) /\ IsFiniteSet(t \cap T)
    BY FS_Subset
  <2>2. F(s) = f[x] + F(t)
    BY <2>1, SumRemove
  <2>3. F(t) = F(t \cap T) /\ F(t) \in Int
    BY <1>2, <2>1, SumType
  <2>4. CASE x \in T
    <3>1. x \in s \cap T /\ (s \cap T) \ {x} = t \cap T /\ \A y \in s \cap T : f[y] \in Int
      BY <2>4
    <3>2. F(s \cap T) = f[x] + F((s \cap T) \ {x})
      BY <2>1, <3>1, SumRemove
    <3>3. F(s \cap T) = f[x] + F(t \cap T)
      BY <3>1, <3>2
    <3> HIDE DEF F, t
    <3> QED  BY <2>2, <2>3, <3>3
  <2>5. CASE x \notin T
    <3>1. s \cap T = t \cap T /\ f[x] = 0
      BY <2>5
    <3>2. F(s \cap T) = F(t \cap T)
      BY <3>1
    <3> HIDE DEF F, t
    <3>3. F(s) = F(t)
      BY <2>2, <2>3, <3>1
    <3> QED  BY <2>3, <3>2, <3>3
  <2> QED  BY <2>4, <2>5
<1> HIDE DEF Good
<1>3. S \in Good
  BY <1>1, <1>2, SubsetInduction
<1>4. S \cap T = T
  OBVIOUS
<1> QED  BY <1>3, <1>4 DEF Good

(* A sum of zero whose terms are not negative has only zeros.              *)
LEMMA SumZero ==
  ASSUME NEW S, IsFiniteSet(S), NEW f, \A x \in S : f[x] \in Int /\ f[x] >= 0,
         SumFunctionOnSet(f, S) = 0
  PROVE  \A x \in S : f[x] = 0
<1> SUFFICES ASSUME NEW x \in S PROVE f[x] = 0
  OBVIOUS
<1> DEFINE t == S \ {x}
<1>1. IsFiniteSet(t)
  BY FS_Subset
<1>2. SumFunctionOnSet(f, S) = f[x] + SumFunctionOnSet(f, t)
  BY SumRemove
<1>3. SumFunctionOnSet(f, t) \in Nat
  BY <1>1, SumNotNegative
<1> QED  BY <1>2, <1>3

(* Some term of a positive sum is positive.                                *)
LEMMA SumPositive ==
  ASSUME NEW S, IsFiniteSet(S), NEW f, \A x \in S : f[x] \in Int,
         SumFunctionOnSet(f, S) > 0
  PROVE  \E x \in S : f[x] > 0
<1> SUFFICES ASSUME \A x \in S : f[x] <= 0 PROVE FALSE
  OBVIOUS
<1> DEFINE z == [x \in S |-> 0]
<1>1. SumFunctionOnSet(z, S) = 0
  BY SumOfZeros
<1>2. \A x \in S : z[x] \in Int /\ f[x] <= z[x]
  OBVIOUS
<1> HIDE DEF z
<1>3. SumFunctionOnSet(f, S) <= SumFunctionOnSet(z, S)
  BY <1>2, SumMonotone
<1>4. SumFunctionOnSet(f, S) \in Int
  BY SumType
<1> QED  BY <1>1, <1>3, <1>4

(* Among finitely many numbered values there is a greatest, and a lowest   *)
(* number that has it.                                                     *)
LEMMA GreatestExists ==
  ASSUME NEW S, IsFiniteSet(S), S # {}, S \subseteq Int, NEW f, \A x \in S : f[x] \in Int
  PROVE  \E i \in S : \A j \in S : f[i] > f[j] \/ (f[i] = f[j] /\ i <= j)
<1> DEFINE Beats(i, j) == f[i] > f[j] \/ (f[i] = f[j] /\ i <= j)
           Good == {s \in SUBSET S : s # {} => \E i \in s : \A j \in s : Beats(i, j)}
<1>1. {} \in Good
  OBVIOUS
<1>2. ASSUME NEW s \in SUBSET S, NEW x \in s, s \ {x} \in Good
      PROVE  s \in Good
  <2>1. Beats(x, x)
    OBVIOUS
  <2>2. CASE s \ {x} = {}
    <3>1. \A j \in s : j = x
      BY <2>2
    <3> HIDE DEF Beats
    <3> QED  BY <2>1, <3>1
  <2>3. CASE s \ {x} # {}
    <3>1. PICK i \in s \ {x} : \A j \in s \ {x} : Beats(i, j)
      BY <1>2, <2>3
    <3>2. \A j \in s : Beats(x, i) /\ Beats(i, j) => Beats(x, j)
      OBVIOUS
    <3>3. Beats(x, i) \/ Beats(i, x)
      OBVIOUS
    <3> HIDE DEF Beats
    <3>4. CASE Beats(x, i)
      <4>1. \A j \in s : Beats(x, j)
        BY <2>1, <3>1, <3>2, <3>4
      <4> QED  BY <4>1
    <3>5. CASE Beats(i, x)
      <4>1. \A j \in s : Beats(i, j)
        BY <3>1, <3>5
      <4> QED  BY <4>1
    <3> QED  BY <3>3, <3>4, <3>5
  <2> QED  BY <2>2, <2>3
<1> HIDE DEF Good
<1>3. S \in Good
  BY <1>1, <1>2, SubsetInduction
<1> QED  BY <1>3 DEF Good

(* A function may be defined by recursion on 0..n.                         *)
Recurs(n, base, next, g) == g = [k \in 0..n |-> IF k = 0 THEN base ELSE next[g[k - 1]]]

LEMMA RecursionExists ==
  ASSUME NEW D, NEW base \in D, NEW next \in [D -> D], NEW n \in Nat
  PROVE  \E g \in [0..n -> D] : Recurs(n, base, next, g)
<1> DEFINE N == {m \in Nat : \E g \in [0..m -> D] : Recurs(m, base, next, g)}
<1>1. 0 \in N
  <2> DEFINE g == [k \in 0..0 |-> base]
  <2>1. g \in [0..0 -> D] /\ Recurs(0, base, next, g)
    BY DEF Recurs
  <2> QED  BY <2>1
<1>2. ASSUME NEW m \in Nat, m \in N PROVE m + 1 \in N
  <2>1. PICK g \in [0..m -> D] : Recurs(m, base, next, g)
    BY <1>2
  <2> DEFINE h == [k \in 0..(m + 1) |-> IF k = m + 1 THEN next[g[m]] ELSE g[k]]
  <2>2. h \in [0..(m + 1) -> D]
    OBVIOUS
  <2>3. \A k \in 0..m : g[k] = IF k = 0 THEN base ELSE next[g[k - 1]]
    BY <2>1 DEF Recurs
  <2>4. ASSUME NEW k \in 0..(m + 1)
        PROVE  h[k] = IF k = 0 THEN base ELSE next[h[k - 1]]
    <3>1. CASE k = 0
      BY <2>3, <3>1
    <3>2. CASE k = m + 1
      BY <3>2
    <3>3. CASE k \in 1..m
      BY <2>3, <3>3
    <3> QED  BY <3>1, <3>2, <3>3
  <2>5. Recurs(m + 1, base, next, h)
    BY <2>2, <2>4 DEF Recurs
  <2> QED  BY <2>2, <2>5
<1> HIDE DEF N
<1>3. n \in N
  BY <1>1, <1>2, InductionSet
<1> QED  BY <1>3 DEF N

-----------------------------------------------------------------------------
(* Induction over sequences, stated of a set.                              *)
LEMMA ListInduction ==
  ASSUME NEW U, NEW P, <<>> \in P,
         \A s \in Seq(U) : \A e \in U : s \in P => Append(s, e) \in P
  PROVE  Seq(U) \subseteq P
<1> DEFINE G == {n \in Nat : \A s \in Seq(U) : Len(s) = n => s \in P}
<1>1. 0 \in G
  <2>1. \A s \in Seq(U) : Len(s) = 0 => s = <<>>
    BY EmptySeq
  <2> QED  BY <2>1
<1>2. ASSUME NEW n \in Nat, n \in G PROVE n + 1 \in G
  <2> SUFFICES ASSUME NEW s \in Seq(U), Len(s) = n + 1 PROVE s \in P
    OBVIOUS
  <2> DEFINE f == SubSeq(s, 1, n)
  <2>1. f \in Seq(U) /\ Len(f) = n
    BY <1>2
  <2>2. s[n + 1] \in U
    BY <1>2, ElementOfSeq
  <2>3. s = Append(f, s[n + 1])
    <3>1. Append(f, s[n + 1]) \in Seq(U) /\ Len(Append(f, s[n + 1])) = n + 1
      BY <2>1, <2>2, AppendProperties
    <3>2. \A i \in 1..(n + 1) : Append(f, s[n + 1])[i] = s[i]
      <4> SUFFICES ASSUME NEW i \in 1..(n + 1) PROVE Append(f, s[n + 1])[i] = s[i]
        OBVIOUS
      <4>1. CASE i = n + 1
        BY <4>1, <2>1, <2>2, AppendProperties
      <4>2. CASE i \in 1..n
        <5>1. f[i] = s[i]
          BY <4>2, <1>2
        <5> QED  BY <5>1, <4>2, <2>1, <2>2, AppendProperties
      <4> QED  BY <4>1, <4>2, <1>2
    <3> QED  BY <3>1, <3>2, SeqEqual
  <2>4. f \in P
    BY <1>2, <2>1
  <2> QED  BY <2>1, <2>2, <2>3, <2>4
<1>3. Nat \subseteq G
  <2> HIDE DEF G
  <2> QED  BY <1>1, <1>2, InductionSet
<1> QED
  <2>1. \A s \in Seq(U) : Len(s) \in Nat
    OBVIOUS
  <2> QED  BY <1>3, <2>1

(* Appending to a concatenation.                                          *)
LEMMA AppendConcat ==
  ASSUME NEW U, NEW s \in Seq(U), NEW t \in Seq(U), NEW e \in U
  PROVE  s \o Append(t, e) = Append(s \o t, e)
<1>1. <<e>> \in Seq(U) /\ s \o t \in Seq(U)
  BY ConcatProperties
<1>2. Append(t, e) = t \o <<e>> /\ Append(s \o t, e) = (s \o t) \o <<e>>
  BY <1>1, AppendIsConcat
<1>3. s \o (t \o <<e>>) = (s \o t) \o <<e>>
  BY <1>1, ConcatAssociative
<1> QED  BY <1>2, <1>3
=============================================================================

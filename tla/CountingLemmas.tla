--------------------------- MODULE CountingLemmas ---------------------------
(***************************************************************************)
(* Lemmas that several components' proofs need: least elements, the largest *)
(* of a finite set, and sums over finite sets.                              *)
(***************************************************************************)
EXTENDS SequencesExt, FiniteSetTheorems, SequenceTheorems, WellFoundedInduction, TLAPS

-----------------------------------------------------------------------------
\* A set of natural numbers that is not empty has a least element.  Proofs by
\* induction are stated with it: the least counterexample.
LEMMA LeastNatural ==
    ASSUME NEW S \in SUBSET Nat, S # {}
    PROVE  \E m \in S : \A i \in S : m <= i
<1>1. PICK m \in S : \A i \in S : ~(<<i, m>> \in OpToRel(<, Nat))
  BY NatLessThanWellFounded, WFMin
<1>2. \A i \in S : ~(i < m)
  BY <1>1 DEF OpToRel
<1> QED
  BY <1>2

\* What holds of 0, and of n + 1 when of n, holds of every natural number.
LEMMA Inducted ==
    ASSUME NEW S \in SUBSET Nat, 0 \in S, \A n \in S : n + 1 \in S
    PROVE  S = Nat
<1> SUFFICES ASSUME Nat \ S # {} PROVE FALSE
  OBVIOUS
<1>1. PICK m \in Nat \ S : \A i \in Nat \ S : m <= i
  BY LeastNatural
<1>2. m # 0 /\ m - 1 \in Nat
  OBVIOUS
<1>3. m - 1 \in S
  BY <1>1, <1>2
<1> QED
  BY <1>2, <1>3

\* A finite set of numbers has a largest one.
LEMMA LargestIs ==
    ASSUME NEW S \in SUBSET Nat, IsFiniteSet(S), S # {}
    PROVE  Max(S) \in S /\ \A i \in S : i <= Max(S)
<1> DEFINE Tops(n) ==
      \A Q \in SUBSET Nat : IsFiniteSet(Q) /\ Cardinality(Q) = n + 1
          => \E m \in Q : \A i \in Q : i <= m
<1> DEFINE Good == {n \in Nat : Tops(n)}
<1>1. Tops(0)
  <2> SUFFICES ASSUME NEW Q \in SUBSET Nat, IsFiniteSet(Q), Cardinality(Q) = 1
               PROVE  \E m \in Q : \A i \in Q : i <= m
    OBVIOUS
  <2>1. PICK x : Q = {x}
    BY FS_Singleton
  <2> QED
    BY <2>1
<1>2. ASSUME NEW n \in Nat, Tops(n) PROVE Tops(n + 1)
  <2> SUFFICES ASSUME NEW Q \in SUBSET Nat, IsFiniteSet(Q), Cardinality(Q) = n + 1 + 1
               PROVE  \E m \in Q : \A i \in Q : i <= m
    OBVIOUS
  <2>1. Q # {}
    BY FS_EmptySet
  <2>2. PICK x : x \in Q
    BY <2>1
  <2>3. IsFiniteSet(Q \ {x}) /\ Cardinality(Q \ {x}) = n + 1
    <3>1. IsFiniteSet(Q \ {x}) /\ Cardinality(Q \ {x}) = Cardinality(Q) - 1
      BY <2>2, FS_RemoveElement
    <3>2. n + 1 + 1 - 1 = n + 1
      OBVIOUS
    <3> QED
      BY <3>1, <3>2
  <2>4. PICK m \in Q \ {x} : \A i \in Q \ {x} : i <= m
    BY <1>2, <2>3
  <2>5. x \in Nat /\ m \in Nat /\ m \in Q
    BY <2>2
  <2>6. CASE x <= m
    BY <2>4, <2>5, <2>6
  <2>7. CASE m <= x
    <3>1. \A i \in Q : i \in Nat /\ (i # x => i <= m)
      BY <2>4
    <3>2. \A i \in Q : i <= x
      BY <2>5, <2>7, <3>1
    <3> QED
      BY <2>2, <3>2
  <2> QED
    BY <2>5, <2>6, <2>7
<1>3. Good = Nat
  <2> HIDE DEF Tops
  <2>1. 0 \in Good /\ (\A n \in Good : n + 1 \in Good) /\ Good \in SUBSET Nat
    BY <1>1, <1>2
  <2> HIDE DEF Good
  <2> QED
    BY <2>1, Inducted
<1>4. Cardinality(S) \in Nat /\ Cardinality(S) # 0
  BY FS_CardinalityType, FS_EmptySet
<1>5. PICK m \in S : \A i \in S : i <= m
  <2> DEFINE n == Cardinality(S) - 1
  <2>1. n \in Nat /\ Cardinality(S) = n + 1
    BY <1>4
  <2>2. Tops(n)
    <3> HIDE DEF n, Tops
    <3> QED
      BY <1>3, <2>1
  <2> HIDE DEF n
  <2> QED
    BY <2>1, <2>2
<1>6. \A x \in S : (\A i \in S : x >= i) => x = m
  <2> SUFFICES ASSUME NEW x \in S, \A i \in S : x >= i PROVE x = m
    OBVIOUS
  <2>1. x \in Nat /\ m \in Nat /\ x >= m /\ x <= m
    BY <1>5
  <2> QED
    BY <2>1
<1>7. \A i \in S : m >= i
  <2> SUFFICES ASSUME NEW i \in S PROVE m >= i
    OBVIOUS
  <2>1. i \in Nat /\ m \in Nat /\ i <= m
    BY <1>5
  <2> QED
    BY <2>1
<1>8. Max(S) = m
  BY <1>6, <1>7 DEF Max
<1> QED
  BY <1>5, <1>8

\* The smaller of two numbers.
LEMMA MinOfTwo ==
    ASSUME NEW a \in Nat, NEW b \in Nat
    PROVE  Min({a, b}) = IF a <= b THEN a ELSE b
<1> DEFINE m == IF a <= b THEN a ELSE b
<1>1. m \in {a, b} /\ \A y \in {a, b} : m <= y
  OBVIOUS
<1>2. \A x \in {a, b} : (\A y \in {a, b} : x <= y) => x = m
  OBVIOUS
<1> HIDE DEF m
<1>3. Min({a, b}) = m
  BY <1>1, <1>2 DEF Min
<1> QED
  BY <1>3 DEF m

\* The larger of two integers.
LEMMA MaxOfTwo ==
    ASSUME NEW a \in Int, NEW b \in Int
    PROVE  Max({a, b}) = IF a >= b THEN a ELSE b
<1> DEFINE m == IF a >= b THEN a ELSE b
<1>1. m \in {a, b} /\ \A y \in {a, b} : m >= y
  OBVIOUS
<1>2. \A x \in {a, b} : (\A y \in {a, b} : x >= y) => x = m
  OBVIOUS
<1> HIDE DEF m
<1>3. Max({a, b}) = m
  BY <1>1, <1>2 DEF Max
<1> QED
  BY <1>3 DEF m

\* A product grows with its factor.
LEMMA TimesGrows ==
    ASSUME NEW d \in Nat, NEW m \in Nat, NEW n \in Nat, m <= n
    PROVE  m * d \in Nat /\ n * d \in Nat /\ m * d <= n * d /\ (m + 1) * d = m * d + d
<1>1. m * d \in Nat /\ n * d \in Nat
  OBVIOUS
<1>2. m * d <= n * d
  OBVIOUS
<1>3. (m + 1) * d = m * d + d
  OBVIOUS
<1> QED
  BY <1>1, <1>2, <1>3

-----------------------------------------------------------------------------
(* Sums over finite sets *)

\* A step of the sum of f over a subset of S: the choice, and the rest.
AnyOf(s) == CHOOSE x \in s : TRUE
Unfolds(g, f, T) ==
    g = [s \in T |-> IF s = {} THEN 0 ELSE f[AnyOf(s)] + g[s \ {AnyOf(s)}]]

\* g is the sum of f over each subset of S.
Sums(g, f, S) == Unfolds(g, f, SUBSET S)

\* What a function that unfolds is at a set.
LEMMA UnfoldsAt ==
    ASSUME NEW f, NEW T, NEW g, Unfolds(g, f, T), NEW s \in T
    PROVE  g[s] = IF s = {} THEN 0 ELSE f[AnyOf(s)] + g[s \ {AnyOf(s)}]
<1> DEFINE F == [t \in T |-> IF t = {} THEN 0 ELSE f[AnyOf(t)] + g[t \ {AnyOf(t)}]]
<1>1. g = F
  BY DEF Unfolds
<1>2. F[s] = IF s = {} THEN 0 ELSE f[AnyOf(s)] + g[s \ {AnyOf(s)}]
  OBVIOUS
<1> QED
  BY <1>1, <1>2

\* The fold of the community modules, written out.
LEMMA SumWrittenOut ==
    ASSUME NEW f, NEW S
    PROVE  SumFunctionOnSet(f, S) = (CHOOSE g : Sums(g, f, S))[S]
  BY DEF SumFunctionOnSet, FoldFunctionOnSet, MapThenFoldSet, Sums, Unfolds, AnyOf

\* Sets of at most n elements of S.
UpTo(S, n) == {s \in SUBSET S : Cardinality(s) <= n}

\* A function that sums takes the value of one element and the sum of the others.
LEMMA SumsAt ==
    ASSUME NEW f, NEW S, NEW g, Sums(g, f, S), NEW s, s \subseteq S
    PROVE  /\ s = {} => g[s] = 0
           /\ s # {} => g[s] = f[AnyOf(s)] + g[s \ {AnyOf(s)}]
<1> DEFINE P == SUBSET S
<1>1. Unfolds(g, f, P) /\ s \in P
  BY DEF Sums
<1> HIDE DEF P
<1>2. g[s] = IF s = {} THEN 0 ELSE f[AnyOf(s)] + g[s \ {AnyOf(s)}]
  BY <1>1, UnfoldsAt
<1> QED
  BY <1>2

\* Sums exist of ever larger sets.
LEMMA SumExists ==
    ASSUME NEW f, NEW S, IsFiniteSet(S)
    PROVE  \E g : Sums(g, f, S)
<1> DEFINE Some == {n \in Nat : \E g : Unfolds(g, f, UpTo(S, n))}
<1>0. \A s \in SUBSET S : IsFiniteSet(s) /\ Cardinality(s) \in Nat
  BY FS_Subset, FS_CardinalityType
<1>1. 0 \in Some
  <2>1. UpTo(S, 0) = {{}}
    BY <1>0, FS_EmptySet DEF UpTo
  <2>2. Unfolds([s \in {{}} |-> 0], f, {{}})
    BY DEF Unfolds
  <2> QED
    BY <2>1, <2>2
<1>2. ASSUME NEW n \in Some PROVE n + 1 \in Some
  <2>1. PICK g : Unfolds(g, f, UpTo(S, n))
    OBVIOUS
  <2> DEFINE h == [s \in UpTo(S, n + 1) |->
                      IF s = {} THEN 0 ELSE f[AnyOf(s)] + g[s \ {AnyOf(s)}]]
  <2>2. ASSUME NEW s \in UpTo(S, n + 1), s # {}
        PROVE  s \ {AnyOf(s)} \in UpTo(S, n)
    <3>1. AnyOf(s) \in s
      BY <2>2 DEF AnyOf
    <3>2. IsFiniteSet(s) /\ Cardinality(s \ {AnyOf(s)}) = Cardinality(s) - 1
      BY <1>0, <3>1, FS_RemoveElement DEF UpTo
    <3>3. s \ {AnyOf(s)} \in SUBSET S
      BY DEF UpTo
    <3> QED
      BY <1>0, <3>2, <3>3 DEF UpTo
  <2>3. ASSUME NEW s \in UpTo(S, n) PROVE s \in UpTo(S, n + 1)
    BY <1>0 DEF UpTo
  <2>4. ASSUME NEW s \in UpTo(S, n) PROVE h[s] = g[s]
    BY <2>1, <2>3 DEF Unfolds
  <2>5. \A s \in UpTo(S, n + 1) : s # {} => g[s \ {AnyOf(s)}] = h[s \ {AnyOf(s)}]
    BY <2>2, <2>4
  <2>6. h = [s \in UpTo(S, n + 1) |->
               IF s = {} THEN 0 ELSE f[AnyOf(s)] + h[s \ {AnyOf(s)}]]
    BY <2>5
  <2> HIDE DEF h
  <2>7. Unfolds(h, f, UpTo(S, n + 1))
    BY <2>6 DEF Unfolds
  <2> QED
    BY <2>7
<1>3. Some = Nat
  <2>1. Some \in SUBSET Nat
    OBVIOUS
  <2> HIDE DEF Some
  <2> QED
    BY <1>1, <1>2, <2>1, Inducted
<1>4. UpTo(S, Cardinality(S)) = SUBSET S
  BY FS_Subset, FS_CardinalityType DEF UpTo
<1>5. Cardinality(S) \in Some
  BY <1>0, <1>3
<1>6. \E g : Unfolds(g, f, UpTo(S, Cardinality(S)))
  BY <1>5
<1> QED
  BY <1>4, <1>6 DEF Sums

\* And there is only one: two of them agree where both are.
LEMMA SumIsUnique ==
    ASSUME NEW f, NEW S, IsFiniteSet(S), NEW T \in SUBSET S,
           NEW g, Sums(g, f, S), NEW h, Sums(h, f, T)
    PROVE  g[T] = h[T]
<1> DEFINE Good == {n \in Nat : \A s \in SUBSET T : Cardinality(s) = n => g[s] = h[s]}
<1>0. \A s \in SUBSET S : IsFiniteSet(s) /\ Cardinality(s) \in Nat
  BY FS_Subset, FS_CardinalityType
<1>1. 0 \in Good
  <2>1. \A s \in SUBSET T : Cardinality(s) = 0 => s = {}
    BY <1>0, FS_EmptySet
  <2>2. g[{}] = 0 /\ h[{}] = 0
    BY SumsAt
  <2> QED
    BY <2>1, <2>2
<1>2. ASSUME NEW n \in Good PROVE n + 1 \in Good
  <2> SUFFICES ASSUME NEW s \in SUBSET T, Cardinality(s) = n + 1 PROVE g[s] = h[s]
    OBVIOUS
  <2>1. s # {}
    BY FS_EmptySet
  <2>2. AnyOf(s) \in s
    BY <2>1 DEF AnyOf
  <2>3. Cardinality(s \ {AnyOf(s)}) = n
    <3>1. Cardinality(s \ {AnyOf(s)}) = Cardinality(s) - 1
      BY <1>0, <2>2, FS_RemoveElement
    <3> QED
      BY <3>1
  <2>4. g[s \ {AnyOf(s)}] = h[s \ {AnyOf(s)}]
    BY <2>3
  <2>5. g[s] = f[AnyOf(s)] + g[s \ {AnyOf(s)}] /\ h[s] = f[AnyOf(s)] + h[s \ {AnyOf(s)}]
    BY <2>1, SumsAt
  <2> QED
    BY <2>4, <2>5
<1>3. Good = Nat
  <2>1. Good \in SUBSET Nat
    OBVIOUS
  <2> HIDE DEF Good
  <2> QED
    BY <1>1, <1>2, <2>1, Inducted
<1> QED
  BY <1>0, <1>3

\* The sum is the value of any function that unfolds.
LEMMA SumUnfolds ==
    ASSUME NEW f, NEW S, IsFiniteSet(S)
    PROVE  \E g : /\ Sums(g, f, S)
                  /\ \A T \in SUBSET S : SumFunctionOnSet(f, T) = g[T]
<1>1. PICK g : Sums(g, f, S)
  BY SumExists
<1>2. ASSUME NEW T \in SUBSET S PROVE SumFunctionOnSet(f, T) = g[T]
  <2> DEFINE Is(h) == Sums(h, f, T)
  <2> DEFINE it == CHOOSE h : Is(h)
  <2>1. \E h : Is(h)
    BY SumExists, FS_Subset
  <2>2. Is(it)
    <3> HIDE DEF Is
    <3> QED
      BY <2>1
  <2>3. SumFunctionOnSet(f, T) = it[T]
    BY SumWrittenOut
  <2> HIDE DEF it
  <2>4. g[T] = it[T]
    BY <1>1, <2>2, SumIsUnique
  <2> QED
    BY <2>3, <2>4
<1> QED
  BY <1>1, <1>2

\* The sum over nothing, and over a set with and without one of its elements,
\* whichever the fold takes first.
LEMMA SumOfNone == ASSUME NEW f PROVE SumFunctionOnSet(f, {}) = 0
<1> SUFFICES ASSUME NEW S, S = {} PROVE SumFunctionOnSet(f, S) = 0
  OBVIOUS
<1>1. PICK g : Sums(g, f, S) /\ \A T \in SUBSET S : SumFunctionOnSet(f, T) = g[T]
  BY SumUnfolds, FS_EmptySet
<1>2. g[S] = 0
  BY <1>1, SumsAt
<1> QED
  BY <1>1, <1>2

\* The sum over a set is the value of one element and the sum over the others.
LEMMA SumOfFirst ==
    ASSUME NEW f, NEW S, IsFiniteSet(S), S # {}
    PROVE  SumFunctionOnSet(f, S) = f[AnyOf(S)] + SumFunctionOnSet(f, S \ {AnyOf(S)})
<1>1. PICK g : /\ Sums(g, f, S)
               /\ \A T \in SUBSET S : SumFunctionOnSet(f, T) = g[T]
  BY SumUnfolds
<1>2. g[S] = f[AnyOf(S)] + g[S \ {AnyOf(S)}]
  BY <1>1, SumsAt
<1> QED
  BY <1>1, <1>2

\* A sum of natural numbers is one.
LEMMA SumIsNatural ==
    ASSUME NEW D, IsFiniteSet(D), NEW f, \A x \in D : f[x] \in Nat
    PROVE  \A S \in SUBSET D : SumFunctionOnSet(f, S) \in Nat
<1> DEFINE Sum(S) == SumFunctionOnSet(f, S)
<1> DEFINE Good == {n \in Nat : \A S \in SUBSET D : Cardinality(S) = n => Sum(S) \in Nat}
<1>0. \A S \in SUBSET D : IsFiniteSet(S) /\ Cardinality(S) \in Nat
  BY FS_Subset, FS_CardinalityType
<1>1. 0 \in Good
  <2>1. \A S \in SUBSET D : Cardinality(S) = 0 => S = {}
    BY <1>0, FS_EmptySet
  <2>2. Sum({}) \in Nat
    BY SumOfNone
  <2> QED
    BY <2>1, <2>2
<1>2. ASSUME NEW n \in Good PROVE n + 1 \in Good
  <2> SUFFICES ASSUME NEW S \in SUBSET D, Cardinality(S) = n + 1 PROVE Sum(S) \in Nat
    OBVIOUS
  <2>1. S # {} /\ IsFiniteSet(S)
    BY <1>0, FS_EmptySet
  <2>2. AnyOf(S) \in S
    BY <2>1 DEF AnyOf
  <2>3. Cardinality(S \ {AnyOf(S)}) = n
    <3>1. Cardinality(S \ {AnyOf(S)}) = Cardinality(S) - 1
      BY <2>1, <2>2, FS_RemoveElement
    <3> QED
      BY <3>1
  <2>4. Sum(S \ {AnyOf(S)}) \in Nat
    BY <2>3
  <2>5. Sum(S) = f[AnyOf(S)] + Sum(S \ {AnyOf(S)})
    BY <2>1, SumOfFirst
  <2> QED
    BY <2>2, <2>4, <2>5
<1>3. Good = Nat
  <2>1. Good \in SUBSET Nat
    OBVIOUS
  <2> HIDE DEF Good
  <2> QED
    BY <1>1, <1>2, <2>1, Inducted
<1> QED
  BY <1>0, <1>3

\* Any element may be taken first.
LEMMA SumSplits ==
    ASSUME NEW D, IsFiniteSet(D), NEW f, \A x \in D : f[x] \in Nat
    PROVE  \A S \in SUBSET D : \A x \in S :
              SumFunctionOnSet(f, S) = f[x] + SumFunctionOnSet(f, S \ {x})
<1> DEFINE Sum(S) == SumFunctionOnSet(f, S)
<1> DEFINE Splits(S) == \A x \in S : Sum(S) = f[x] + Sum(S \ {x})
<1> DEFINE Good == {n \in Nat : \A S \in SUBSET D : Cardinality(S) = n => Splits(S)}
<1>0. \A S \in SUBSET D : IsFiniteSet(S) /\ Cardinality(S) \in Nat
  BY FS_Subset, FS_CardinalityType
<1>n. \A S \in SUBSET D : Sum(S) \in Nat
  BY SumIsNatural
<1>1. 0 \in Good
  <2>1. \A S \in SUBSET D : Cardinality(S) = 0 => S = {}
    BY <1>0, FS_EmptySet
  <2> QED
    BY <2>1
<1>2. ASSUME NEW n \in Good PROVE n + 1 \in Good
  <2> SUFFICES ASSUME NEW S \in SUBSET D, Cardinality(S) = n + 1 PROVE Splits(S)
    OBVIOUS
  <2> DEFINE a == AnyOf(S)
  <2>1. S # {} /\ IsFiniteSet(S)
    BY <1>0, FS_EmptySet
  <2>2. a \in S
    BY <2>1 DEF AnyOf
  <2>3. ASSUME NEW x \in S PROVE Splits(S \ {x})
    <3>1. Cardinality(S \ {x}) = n
      <4>1. Cardinality(S \ {x}) = Cardinality(S) - 1
        BY <2>1, FS_RemoveElement
      <4> QED
        BY <4>1
    <3>2. S \ {x} \in SUBSET D
      OBVIOUS
    <3> QED
      BY <3>1, <3>2
  <2>4. Sum(S) = f[a] + Sum(S \ {a})
    BY <2>1, SumOfFirst
  <2>5. \A T \in SUBSET S : Sum(T) \in Nat
    BY <1>n
  <2> HIDE DEF a, Sum
  <2>6. ASSUME NEW x \in S, x # a PROVE Sum(S) = f[x] + Sum(S \ {x})
    <3>1. Sum(S \ {a}) = f[x] + Sum((S \ {a}) \ {x})
      BY <2>2, <2>3, <2>6
    <3>2. Sum(S \ {x}) = f[a] + Sum((S \ {x}) \ {a})
      BY <2>2, <2>3, <2>6
    <3>3. (S \ {a}) \ {x} = (S \ {x}) \ {a}
      OBVIOUS
    <3>4. f[x] \in Nat /\ f[a] \in Nat /\ Sum((S \ {a}) \ {x}) \in Nat
      BY <2>2, <2>5
    <3> DEFINE rest == Sum((S \ {a}) \ {x})
    <3>5. Sum(S \ {a}) = f[x] + rest /\ Sum(S \ {x}) = f[a] + rest /\ rest \in Nat
      BY <3>1, <3>2, <3>3, <3>4
    <3> HIDE DEF rest
    <3> QED
      BY <2>4, <3>4, <3>5
  <2> QED
    BY <2>4, <2>6
<1>3. Good = Nat
  <2>1. Good \in SUBSET Nat
    OBVIOUS
  <2> HIDE DEF Good
  <2> QED
    BY <1>1, <1>2, <2>1, Inducted
<1> QED
  BY <1>0, <1>3

\* Sums of what is the same on a set are the same, and a larger set has no less.
LEMMA SumAgrees ==
    ASSUME NEW S, IsFiniteSet(S), NEW f, NEW g, \A x \in S : f[x] = g[x]
    PROVE  SumFunctionOnSet(f, S) = SumFunctionOnSet(g, S)
<1>1. PICK u : /\ Sums(u, f, S)
               /\ \A T \in SUBSET S : SumFunctionOnSet(f, T) = u[T]
  BY SumUnfolds
<1>2. ASSUME NEW s \in SUBSET S, s # {} PROVE AnyOf(s) \in S
  BY <1>2 DEF AnyOf
<1>3. Sums(u, g, S)
  <2>1. [s \in SUBSET S |-> IF s = {} THEN 0 ELSE f[AnyOf(s)] + u[s \ {AnyOf(s)}]]
        = [s \in SUBSET S |-> IF s = {} THEN 0 ELSE g[AnyOf(s)] + u[s \ {AnyOf(s)}]]
    BY <1>2
  <2> QED
    BY <1>1, <2>1 DEF Sums, Unfolds
<1>4. PICK v : /\ Sums(v, g, S)
               /\ \A T \in SUBSET S : SumFunctionOnSet(g, T) = v[T]
  BY SumUnfolds
<1>5. u[S] = v[S]
  BY <1>3, <1>4, SumIsUnique
<1> QED
  BY <1>1, <1>4, <1>5

-----------------------------------------------------------------------------
(* Quotients *)

\* Division by a positive number: the quotient's multiple is the last one reached.
LEMMA Quotient ==
    ASSUME NEW w \in Nat, NEW d \in Nat \ {0}
    PROVE  w \div d \in Nat /\ d * (w \div d) <= w /\ w < d * (w \div d) + d
  OBVIOUS

\* The multiples of a greater number are at least one apart.
LEMMA MultipleGrows ==
    ASSUME NEW d \in Nat \ {0}, NEW m \in Nat, NEW n \in Nat, m < n
    PROVE  d * m + d <= d * n
<1>1. d * (m + 1) <= d * n
  OBVIOUS
<1>2. d * (m + 1) = d * m + d
  OBVIOUS
<1> QED
  BY <1>1, <1>2

\* And only the quotient's is.
LEMMA QuotientIs ==
    ASSUME NEW w \in Nat, NEW d \in Nat \ {0}, NEW n \in Nat, d * n <= w, w < d * n + d
    PROVE  w \div d = n
<1> DEFINE q == w \div d
<1>1. q \in Nat /\ d * q <= w /\ w < d * q + d
  BY Quotient
<1> HIDE DEF q
<1>2. d * q \in Nat /\ d * n \in Nat
  BY <1>1
<1>3. ~(q < n)
  BY <1>1, <1>2, MultipleGrows
<1>4. ~(n < q)
  BY <1>1, <1>2, MultipleGrows
<1> QED
  BY <1>1, <1>3, <1>4 DEF q

-----------------------------------------------------------------------------
(* Sequences *)

\* Removing the first of an element takes one position out.
LEMMA RemovedOne ==
    ASSUME NEW S, NEW s \in Seq(S), NEW k, \E i \in 1..Len(s) : s[i] = k
    PROVE  \E m \in 1..Len(s) :
              /\ s[m] = k /\ RemoveFirst(s, k) \in Seq(S)
              /\ Len(RemoveFirst(s, k)) = Len(s) - 1
              /\ \A i \in 1..(Len(s) - 1) :
                    RemoveFirst(s, k)[i] = IF i < m THEN s[i] ELSE s[i + 1]
<1> DEFINE I == {i \in 1..Len(s) : s[i] = k}
<1>1. I # {} /\ I \in SUBSET Nat
  OBVIOUS
<1>2. PICK m \in I : \A i \in I : m <= i
  BY <1>1, LeastNatural
<1>3. Min(I) = m /\ m \in 1..Len(s) /\ s[m] = k
  BY <1>1, <1>2 DEF Min
<1>4. RemoveFirst(s, k) = RemoveAt(s, m)
  BY <1>1, <1>3 DEF RemoveFirst, SelectInSeq
<1>5. RemoveAt(s, m) = SubSeq(s, 1, m - 1) \o SubSeq(s, m + 1, Len(s))
  BY DEF RemoveAt
<1>6. /\ SubSeq(s, 1, m - 1) \in Seq(S) /\ Len(SubSeq(s, 1, m - 1)) = m - 1
      /\ \A i \in 1..(m - 1) : SubSeq(s, 1, m - 1)[i] = s[i]
  BY <1>3, SubSeqProperties
<1>7. /\ SubSeq(s, m + 1, Len(s)) \in Seq(S) /\ Len(SubSeq(s, m + 1, Len(s))) = Len(s) - m
      /\ \A i \in 1..(Len(s) - m) : SubSeq(s, m + 1, Len(s))[i] = s[m + i]
  BY <1>3, SubSeqProperties
<1> DEFINE a == SubSeq(s, 1, m - 1)
<1> DEFINE b == SubSeq(s, m + 1, Len(s))
<1> HIDE DEF a, b
<1>8. /\ a \in Seq(S) /\ b \in Seq(S) /\ Len(a) = m - 1 /\ Len(b) = Len(s) - m
      /\ \A i \in 1..(m - 1) : a[i] = s[i]
      /\ \A i \in 1..(Len(s) - m) : b[i] = s[m + i]
      /\ RemoveFirst(s, k) = a \o b
  BY <1>4, <1>5, <1>6, <1>7 DEF a, b
<1>9. a \o b \in Seq(S) /\ Len(a \o b) = Len(s) - 1
  BY <1>3, <1>8
<1>e. ASSUME NEW i \in 1..(Len(s) - 1)
      PROVE  (a \o b)[i] = IF i < m THEN a[i] ELSE b[i - (m - 1)]
  <2>1. i \in 1..(Len(a) + Len(b)) /\ (i <= Len(a) <=> i < m) /\ i - Len(a) = i - (m - 1)
    BY <1>3, <1>8
  <2>2. (a \o b)[i] = IF i <= Len(a) THEN a[i] ELSE b[i - Len(a)]
    BY <1>8, <2>1, ConcatProperties
  <2> QED
    BY <2>1, <2>2
<1>10. ASSUME NEW i \in 1..(Len(s) - 1), ~(i < m) PROVE b[i - (m - 1)] = s[i + 1]
  <2>1. i - (m - 1) \in 1..(Len(s) - m) /\ m + (i - (m - 1)) = i + 1
    BY <1>3, <1>10
  <2> QED
    BY <1>8, <2>1
<1>11. ASSUME NEW i \in 1..(Len(s) - 1), i < m PROVE a[i] = s[i]
  BY <1>3, <1>8, <1>11
<1>12. \A i \in 1..(Len(s) - 1) : (a \o b)[i] = IF i < m THEN s[i] ELSE s[i + 1]
  BY <1>e, <1>10, <1>11
<1> WITNESS m \in 1..Len(s)
<1> QED
  BY <1>3, <1>8, <1>9, <1>12

\* A sequence without repetitions has as many elements as positions.
LEMMA InjectiveLength ==
    ASSUME NEW S, NEW s \in Seq(S), IsInjective(s)
    PROVE  IsFiniteSet(ToSet(s)) /\ Cardinality(ToSet(s)) = Len(s)
<1>1. s \in Bijection(1..Len(s), ToSet(s))
  BY DEF IsInjective, ToSet, Bijection, Injection, Surjection
<1>2. Cardinality(1..Len(s)) = Len(s) /\ IsFiniteSet(1..Len(s))
  <2>1. Len(s) \in Nat /\ 1 \in Int
    OBVIOUS
  <2> HIDE DEF ToSet
  <2>2. IsFiniteSet(1..Len(s)) /\ Cardinality(1..Len(s)) = IF 1 > Len(s) THEN 0 ELSE Len(s) - 1 + 1
    BY <2>1, FS_Interval
  <2> QED
    BY <2>1, <2>2
<1>3. ExistsBijection(1..Len(s), ToSet(s))
  BY <1>1 DEF ExistsBijection
<1> QED
  BY <1>2, <1>3, FS_Bijection

\* g chains the first n of the sequences s.
Chains(g, s, n) == g = [i \in 1..n |-> IF i = 1 THEN s[i] ELSE g[i - 1] \o s[i]]

\* A function that concatenates adds the sequence of each index to those before.
LEMMA ChainsAt ==
    ASSUME NEW s, NEW n \in Nat, NEW g, Chains(g, s, n), NEW i \in 1..n
    PROVE  g[i] = IF i = 1 THEN s[i] ELSE g[i - 1] \o s[i]
<1> DEFINE F == [j \in 1..n |-> IF j = 1 THEN s[j] ELSE g[j - 1] \o s[j]]
<1>1. g = F
  BY DEF Chains
<1>2. F[i] = IF i = 1 THEN s[i] ELSE g[i - 1] \o s[i]
  OBVIOUS
<1> QED
  BY <1>1, <1>2, Zenon

\* There is a function that concatenates.
LEMMA ChainExists ==
    ASSUME NEW s, NEW n \in Nat
    PROVE  \E g : Chains(g, s, n)
<1> DEFINE Good == {k \in Nat : \E g : Chains(g, s, k)}
<1>1. 0 \in Good
  <2> DEFINE g == [i \in 1..0 |-> s]
  <2>1. g = [i \in 1..0 |-> IF i = 1 THEN s[i] ELSE g[i - 1] \o s[i]]
    OBVIOUS
  <2> HIDE DEF g
  <2>2. Chains(g, s, 0)
    BY <2>1 DEF Chains
  <2> QED
    BY <2>2
<1>2. ASSUME NEW k \in Good PROVE k + 1 \in Good
  <2>1. PICK g : Chains(g, s, k)
    OBVIOUS
  <2> DEFINE h == [i \in 1..(k + 1) |-> IF i = 1 THEN s[i] ELSE g[i - 1] \o s[i]]
  <2>2. ASSUME NEW i \in 1..k PROVE h[i] = g[i]
    <3>1. g[i] = IF i = 1 THEN s[i] ELSE g[i - 1] \o s[i]
      BY <2>1, ChainsAt
    <3>2. i \in 1..(k + 1)
      OBVIOUS
    <3>3. h[i] = IF i = 1 THEN s[i] ELSE g[i - 1] \o s[i]
      BY <3>2
    <3> QED
      BY <3>1, <3>3, Zenon
  <2>3. \A i \in 1..(k + 1) : i # 1 => i - 1 \in 1..k
    OBVIOUS
  <2>4. \A i \in 1..(k + 1) : i # 1 => g[i - 1] = h[i - 1]
    BY <2>2, <2>3
  <2>5. h = [i \in 1..(k + 1) |-> IF i = 1 THEN s[i] ELSE h[i - 1] \o s[i]]
    BY <2>4
  <2> HIDE DEF h
  <2>6. Chains(h, s, k + 1)
    BY <2>5 DEF Chains
  <2> QED
    BY <2>6
<1> HIDE DEF Good
<1>3. Good \in SUBSET Nat
  BY DEF Good
<1>4. Good = Nat
  BY <1>1, <1>2, <1>3, Inducted
<1> QED
  BY <1>4 DEF Good

\* Sequences over a set, put together, are one.
LEMMA FlattenIs ==
    ASSUME NEW S, NEW s \in Seq(Seq(S))
    PROVE  FlattenSeq(s) \in Seq(S)
<1> DEFINE n == Len(s)
<1>0. n \in Nat /\ \A i \in 1..n : s[i] \in Seq(S)
  BY ElementOfSeq
<1>1. CASE n = 0
  <2>1. s = <<>> /\ FlattenSeq(s) = s
    BY <1>1, EmptySeq DEF FlattenSeq
  <2>2. FlattenSeq(s) = <<>>
    BY <2>1, Zenon
  <2>3. <<>> \in Seq(S)
    OBVIOUS
  <2> QED
    BY <2>2, <2>3, Zenon
<1>2. CASE n # 0
  <2> DEFINE Chain(g) == g = [i \in 1..n |-> IF i = 1 THEN s[i] ELSE g[i - 1] \o s[i]]
  <2>0. \A g : Chain(g) <=> Chains(g, s, n)
    BY DEF Chains
  <2>1. FlattenSeq(s) = (CHOOSE g : Chain(g))[n]
    BY <1>2 DEF FlattenSeq
  <2> HIDE DEF n, Chain
  <2>2. \E g : Chain(g)
    BY <1>0, <2>0, ChainExists
  <2> DEFINE G == CHOOSE g : Chain(g)
  <2>3. Chain(G)
    BY <2>2
  <2> HIDE DEF G
  <2>4. Chains(G, s, n)
    BY <2>0, <2>3
  <2>a. \A i \in 1..n : G[i] = IF i = 1 THEN s[i] ELSE G[i - 1] \o s[i]
    BY <1>0, <2>4, ChainsAt
  <2> DEFINE Good == {k \in Nat : k + 1 \in 1..n => G[k + 1] \in Seq(S)}
  <2>5. 0 \in Good
    <3>1. 0 + 1 \in 1..n => G[1] = s[1] /\ s[1] \in Seq(S)
      BY <1>0, <2>4, ChainsAt
    <3> QED
      BY <3>1
  <2>6. ASSUME NEW k \in Good PROVE k + 1 \in Good
    <3> SUFFICES ASSUME k + 1 + 1 \in 1..n PROVE G[k + 1 + 1] \in Seq(S)
      OBVIOUS
    <3> DEFINE j == k + 1 + 1
    <3>1. j \in 1..n /\ j # 1 /\ j - 1 = k + 1 /\ k + 1 \in 1..n
      BY <1>0
    <3>2. G[k + 1] \in Seq(S)
      BY <3>1
    <3> HIDE DEF j
    <3>6. G[j] = IF j = 1 THEN s[j] ELSE G[j - 1] \o s[j]
      BY <2>a, <3>1, Zenon
    <3>3. G[j] = G[j - 1] \o s[j]
      BY <3>1, <3>6, Zenon
    <3>4. G[j - 1] \in Seq(S) /\ s[j] \in Seq(S)
      BY <1>0, <3>1, <3>2
    <3>5. G[j] \in Seq(S)
      BY <3>3, <3>4
    <3> QED
      BY <3>5 DEF j
  <2> HIDE DEF Good
  <2>7. Good \in SUBSET Nat
    BY DEF Good
  <2>8. Good = Nat
    BY <2>5, <2>6, <2>7, Inducted
  <2>9. n - 1 \in Nat /\ n - 1 + 1 = n /\ n \in 1..n
    BY <1>0, <1>2 DEF n
  <2>10. n - 1 \in Good
    BY <2>8, <2>9
  <2>11. G[n] \in Seq(S)
    BY <2>9, <2>10 DEF Good
  <2> QED
    BY <2>1, <2>11 DEF G
<1> QED
  BY <1>1, <1>2
=============================================================================

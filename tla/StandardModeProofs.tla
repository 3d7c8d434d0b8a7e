-------------------------- MODULE StandardModeProofs --------------------------
(***************************************************************************)
(* Proofs about Scoring and StandardMode, for any payloads and outcomes.   *)
(*                                                                         *)
(* The first part is about sums of points: what SumFunctionOnSet computes  *)
(* on finite sets.  The library's induction theorems cannot be used, so    *)
(* induction over a finite set is stated with a family of sets in place of *)
(* a predicate and proved by a least counterexample.                       *)
(*                                                                         *)
(* The second part is about the mode: its inductive invariant, what the    *)
(* four phases of aggregate_batches amount to, the five invariants of the  *)
(* run, and the refinement of JudgeTask.                                   *)
(***************************************************************************)
EXTENDS StandardMode, FiniteSetTheorems, WellFoundedInduction, TLAPS

\* A set of numbers with 0 in it that is closed under successor is all of Nat.
LEMMA NatFamily ==
    ASSUME NEW G, 0 \in G, \A n \in Nat : n \in G => n + 1 \in G
    PROVE  Nat \subseteq G
<1> DEFINE B == Nat \ G
<1>1. SUFFICES ASSUME B # {} PROVE FALSE
  OBVIOUS
<1>2. PICK m \in B : \A y \in B : ~(<<y, m>> \in OpToRel(<, Nat))
  BY <1>1, NatLessThanWellFounded, WFMin
<1>3. \A y \in B : ~(y < m)
  BY <1>2 DEF OpToRel
<1>4. m \in Nat /\ m # 0
  OBVIOUS
<1>5. m - 1 \in Nat /\ m - 1 < m /\ (m - 1) + 1 = m
  BY <1>4
<1>6. m - 1 \in G
  BY <1>3, <1>5
<1> QED BY <1>5, <1>6

\* A non-empty set of naturals has a least element, which Min chooses.
LEMMA MinOfNats ==
    ASSUME NEW S \in SUBSET Nat, S # {}
    PROVE  Min(S) \in S /\ \A y \in S : Min(S) <= y
<1>1. PICK m \in S : \A y \in S : ~(<<y, m>> \in OpToRel(<, Nat))
  BY NatLessThanWellFounded, WFMin
<1>2. \A y \in S : ~(y < m)
  BY <1>1 DEF OpToRel
<1>3. \A y \in S : m =< y
  BY <1>2
<1>4. \E x \in S : \A y \in S : x =< y
  BY <1>3
<1> QED BY <1>4 DEF Min

\* A family that contains a subset of D as soon as it contains that subset
\* without any one of its elements contains every subset of D.
LEMMA SubsetFamily ==
    ASSUME NEW D, IsFiniteSet(D), NEW G,
           \A T \in SUBSET D : (\A x \in T : T \ {x} \in G) => T \in G
    PROVE  SUBSET D \subseteq G
<1> DEFINE H == {n \in Nat : \A T \in SUBSET D : Cardinality(T) = n => T \in G}
<1>1. \A T \in SUBSET D : IsFiniteSet(T) /\ Cardinality(T) \in Nat
  BY FS_Subset, FS_CardinalityType
<1>2. \A T \in SUBSET D : \A x \in T :
         T \ {x} \in SUBSET D /\ Cardinality(T \ {x}) = Cardinality(T) - 1
  BY <1>1, FS_RemoveElement
<1>3. 0 \in H
  <2>1. \A T \in SUBSET D : Cardinality(T) = 0 => T = {}
    BY <1>1, FS_EmptySet
  <2> QED BY <2>1
<1>4. ASSUME NEW n \in Nat, n \in H
      PROVE  n + 1 \in H
  <2>1. ASSUME NEW T \in SUBSET D, Cardinality(T) = n + 1
        PROVE  T \in G
    <3>1. \A x \in T : T \ {x} \in SUBSET D /\ Cardinality(T \ {x}) = n
      BY <1>2, <2>1
    <3>2. \A x \in T : T \ {x} \in G
      BY <1>4, <3>1
    <3> QED BY <3>2
  <2> QED BY <2>1
<1>5. Nat \subseteq H
  <2> HIDE DEF H
  <2> QED BY <1>3, <1>4, NatFamily
<1> QED BY <1>1, <1>5

-----------------------------------------------------------------------------

\* g computes, for every subset of S, the sum of f in the order CHOOSE takes
\* the elements
Pick(s) == CHOOSE x \in s : TRUE
SumStep(f, s, g) == IF s = {} THEN 0 ELSE f[Pick(s)] + g[s \ {Pick(s)}]
IsSum(f, S, g) == g = [s \in SUBSET S |-> SumStep(f, s, g)]

\* SumFunctionOnSet takes some function that satisfies IsSum.
LEMMA SumUnfold ==
    ASSUME NEW f, NEW S
    PROVE  SumFunctionOnSet(f, S) = (CHOOSE g : IsSum(f, S, g))[S]
BY DEF SumFunctionOnSet, FoldFunctionOnSet, MapThenFoldSet, IsSum, SumStep, Pick

\* A non-empty set has an element to pick.
LEMMA PickInside ==
    ASSUME NEW s, s # {}
    PROVE  Pick(s) \in s
BY DEF Pick

\* The recursion has a solution on a finite set: one for the subsets of at most
\* n elements extends to those of n + 1.
LEMMA SumExists ==
    ASSUME NEW f, NEW S, IsFiniteSet(S)
    PROVE  \E g : IsSum(f, S, g)
<1> DEFINE Layer(n) == {s \in SUBSET S : Cardinality(s) <= n}
           Approx(n, g) == g = [s \in Layer(n) |-> SumStep(f, s, g)]
           H == {n \in Nat : \E g : Approx(n, g)}
<1>1. \A s \in SUBSET S : IsFiniteSet(s) /\ Cardinality(s) \in Nat /\ Cardinality(s) <= Cardinality(S)
  BY FS_Subset, FS_CardinalityType
<1>2. \A s \in SUBSET S : s # {} =>
         /\ s \ {Pick(s)} \in SUBSET S
         /\ Cardinality(s \ {Pick(s)}) = Cardinality(s) - 1
  BY <1>1, PickInside, FS_RemoveElement
<1>3. 0 \in H
  <2> DEFINE g == [s \in Layer(0) |-> 0]
  <2>1. \A s \in Layer(0) : s = {}
    BY <1>1, FS_EmptySet
  <2>2. \A s \in Layer(0) : SumStep(f, s, g) = 0
    BY <2>1 DEF SumStep
  <2>3. Approx(0, g)
    BY <2>2
  <2> QED BY <2>3
<1>4. ASSUME NEW n \in Nat, n \in H
      PROVE  n + 1 \in H
  <2>1. PICK g : Approx(n, g)
    BY <1>4
  <2> DEFINE h == [s \in Layer(n + 1) |-> SumStep(f, s, g)]
  <2>2. \A s \in Layer(n) : s \in Layer(n + 1)
    BY <1>1
  <2>3. \A s \in Layer(n) : h[s] = g[s]
    <3>1. \A s \in Layer(n) : h[s] = SumStep(f, s, g)
      BY <2>2
    <3>2. \A s \in Layer(n) : g[s] = SumStep(f, s, g)
      BY <2>1
    <3> QED BY <3>1, <3>2
  <2>4. \A s \in Layer(n + 1) : s # {} => s \ {Pick(s)} \in Layer(n)
    BY <1>1, <1>2
  <2>5. \A s \in Layer(n + 1) : SumStep(f, s, h) = SumStep(f, s, g)
    <3> HIDE DEF h, Layer
    <3> QED BY <2>3, <2>4 DEF SumStep
  <2>6. h = [s \in Layer(n + 1) |-> SumStep(f, s, h)]
    <3>1. h = [s \in Layer(n + 1) |-> SumStep(f, s, g)]
      OBVIOUS
    <3> HIDE DEF h
    <3>2. [s \in Layer(n + 1) |-> SumStep(f, s, g)] = [s \in Layer(n + 1) |-> SumStep(f, s, h)]
      BY <2>5
    <3> QED BY <3>1, <3>2
  <2>7. \E k : Approx(n + 1, k)
    BY <2>6
  <2>8. n + 1 \in Nat
    OBVIOUS
  <2> HIDE DEF Approx
  <2> QED BY <2>7, <2>8
<1>5. Nat \subseteq H
  <2> HIDE DEF H
  <2> QED BY <1>3, <1>4, NatFamily
<1>6. Cardinality(S) \in H /\ Layer(Cardinality(S)) = SUBSET S
  BY <1>1, <1>5
<1>7. PICK g : Approx(Cardinality(S), g)
  BY <1>6
<1> QED BY <1>6, <1>7 DEF IsSum

\* Two solutions agree where both are defined.
LEMMA SumUnique ==
    ASSUME NEW f, NEW S, IsFiniteSet(S), NEW T \in SUBSET S,
           NEW g, IsSum(f, S, g), NEW h, IsSum(f, T, h)
    PROVE  g[T] = h[T]
<1> DEFINE G == {s \in SUBSET T : g[s] = h[s]}
<1>1. IsFiniteSet(T)
  BY FS_Subset
<1>2. ASSUME NEW s \in SUBSET T, \A x \in s : s \ {x} \in G
      PROVE  s \in G
  <2>1. g[s] = SumStep(f, s, g) /\ h[s] = SumStep(f, s, h)
    BY DEF IsSum
  <2>2. s # {} => g[s \ {Pick(s)}] = h[s \ {Pick(s)}]
    BY <1>2, PickInside
  <2>3. SumStep(f, s, g) = SumStep(f, s, h)
    BY <2>2 DEF SumStep
  <2> QED BY <2>1, <2>3
<1>3. SUBSET T \subseteq G
  <2> HIDE DEF G
  <2> QED BY <1>1, <1>2, SubsetFamily
<1> QED BY <1>3

\* What SumFunctionOnSet computes, one element at a time.
LEMMA SumChoose ==
    ASSUME NEW f, NEW S, IsFiniteSet(S)
    PROVE  /\ S = {} => SumFunctionOnSet(f, S) = 0
           /\ S # {} => SumFunctionOnSet(f, S) = f[Pick(S)] + SumFunctionOnSet(f, S \ {Pick(S)})
<1> DEFINE g == CHOOSE g : IsSum(f, S, g)
<1>1. IsSum(f, S, g)
  BY SumExists
<1>2. SumFunctionOnSet(f, S) = g[S]
  BY SumUnfold
<1>3. g[S] = SumStep(f, S, g)
  <2> HIDE DEF g
  <2> QED BY <1>1 DEF IsSum
<1>4. CASE S = {}
  BY <1>2, <1>3, <1>4 DEF SumStep
<1>5. CASE S # {}
  <2> DEFINE T == S \ {Pick(S)}
             h == CHOOSE h : IsSum(f, T, h)
  <2>1. T \in SUBSET S /\ IsFiniteSet(T)
    BY FS_Subset
  <2>2. IsSum(f, T, h)
    <3> HIDE DEF T
    <3> QED BY <2>1, SumExists
  <2>3. SumFunctionOnSet(f, T) = h[T]
    <3> HIDE DEF T
    <3> QED BY SumUnfold
  <2>4. g[T] = h[T]
    <3> HIDE DEF T, g, h
    <3> QED BY <1>1, <2>1, <2>2, SumUnique
  <2>5. g[S] = f[Pick(S)] + g[T]
    <3> HIDE DEF g
    <3> QED BY <1>3, <1>5 DEF SumStep
  <2> HIDE DEF g, h
  <2> QED BY <1>2, <1>5, <2>3, <2>4, <2>5
<1> QED BY <1>4, <1>5

\* The sum of integers is one.
LEMMA SumInt ==
    ASSUME NEW D, IsFiniteSet(D), NEW f \in [D -> Int]
    PROVE  \A S \in SUBSET D : SumFunctionOnSet(f, S) \in Int
<1> DEFINE G == {S \in SUBSET D : SumFunctionOnSet(f, S) \in Int}
<1>1. ASSUME NEW S \in SUBSET D, \A x \in S : S \ {x} \in G
      PROVE  S \in G
  <2>1. IsFiniteSet(S)
    BY FS_Subset
  <2>2. CASE S = {}
    <3>1. SumFunctionOnSet(f, S) = 0
      BY <2>1, <2>2, SumChoose
    <3> QED BY <3>1
  <2>3. CASE S # {}
    <3>1. SumFunctionOnSet(f, S) = f[Pick(S)] + SumFunctionOnSet(f, S \ {Pick(S)})
      BY <2>1, <2>3, SumChoose
    <3>2. Pick(S) \in S /\ f[Pick(S)] \in Int
      BY <2>3, PickInside
    <3>3. SumFunctionOnSet(f, S \ {Pick(S)}) \in Int
      BY <1>1, <3>2
    <3> QED BY <3>1, <3>2, <3>3
  <2> QED BY <2>2, <2>3
<1>2. SUBSET D \subseteq G
  <2> HIDE DEF G
  <2> QED BY <1>1, SubsetFamily
<1> QED BY <1>2

\* Any element may be taken first.
LEMMA SumRemove ==
    ASSUME NEW D, IsFiniteSet(D), NEW f \in [D -> Int]
    PROVE  \A S \in SUBSET D : \A x \in S :
              SumFunctionOnSet(f, S) = f[x] + SumFunctionOnSet(f, S \ {x})
<1> DEFINE Sum(S) == SumFunctionOnSet(f, S)
           G == {S \in SUBSET D : \A x \in S : Sum(S) = f[x] + Sum(S \ {x})}
<1>1. ASSUME NEW S \in SUBSET D, \A x \in S : S \ {x} \in G
      PROVE  S \in G
  <2>1. ASSUME NEW x \in S
        PROVE  Sum(S) = f[x] + Sum(S \ {x})
    <3> DEFINE c == Pick(S)
    <3>1. IsFiniteSet(S) /\ c \in S
      BY FS_Subset, PickInside
    <3>2. Sum(S) = f[c] + Sum(S \ {c})
      BY <3>1, SumChoose
    <3> HIDE DEF c
    <3>3. CASE x = c
      BY <3>2, <3>3
    <3>4. CASE x # c
      <4>1. Sum(S \ {c}) = f[x] + Sum((S \ {c}) \ {x})
        <5>1. S \ {c} \in G
          BY <1>1, <3>1
        <5> QED BY <3>4, <5>1
      <4>2. Sum(S \ {x}) = f[c] + Sum((S \ {x}) \ {c})
        <5>1. S \ {x} \in G
          BY <1>1
        <5> QED BY <3>1, <3>4, <5>1
      <4>3. (S \ {c}) \ {x} = (S \ {x}) \ {c}
        OBVIOUS
      <4>4. f[x] \in Int /\ f[c] \in Int /\ Sum((S \ {x}) \ {c}) \in Int
        <5>1. (S \ {x}) \ {c} \in SUBSET D
          OBVIOUS
        <5>2. Sum((S \ {x}) \ {c}) \in Int
          BY <5>1, SumInt
        <5>3. f[x] \in Int /\ f[c] \in Int
          BY <3>1
        <5> QED BY <5>2, <5>3
      <4>5. Sum(S \ {c}) = f[x] + Sum((S \ {x}) \ {c})
        BY <4>1, <4>3
      <4>6. \A a, b, d \in Int : a + (b + d) = b + (a + d)
        OBVIOUS
      <4>7. f[c] + (f[x] + Sum((S \ {x}) \ {c})) = f[x] + (f[c] + Sum((S \ {x}) \ {c}))
        BY <4>4, <4>6
      <4>8. Sum(S) = f[c] + (f[x] + Sum((S \ {x}) \ {c}))
        BY <3>2, <4>5
      <4> QED BY <4>2, <4>7, <4>8
    <3> QED BY <3>3, <3>4
  <2> QED BY <2>1
<1>2. SUBSET D \subseteq G
  <2> HIDE DEF G
  <2> QED BY <1>1, SubsetFamily
<1> QED BY <1>2

\* the elements that p maps S to
Image(p, S) == {p[i] : i \in S}

\* A sum does not depend on how the elements are named or ordered.
LEMMA SumImage ==
    ASSUME NEW D, IsFiniteSet(D), NEW E, IsFiniteSet(E),
           NEW f \in [D -> Int], NEW g \in [E -> Int], NEW p \in [D -> E],
           \A i, j \in D : p[i] = p[j] => i = j,
           NEW S \in SUBSET D, \A i \in S : g[p[i]] = f[i]
    PROVE  SumFunctionOnSet(f, S) = SumFunctionOnSet(g, Image(p, S))
<1> DEFINE G == {T \in SUBSET S : SumFunctionOnSet(f, T) = SumFunctionOnSet(g, Image(p, T))}
<1>1. IsFiniteSet(S)
  BY FS_Subset
<1>2. ASSUME NEW T \in SUBSET S, \A x \in T : T \ {x} \in G
      PROVE  T \in G
  <2>1. CASE T = {}
    <3>1. IsFiniteSet({})
      BY FS_EmptySet
    <3>2. Image(p, T) = {}
      BY <2>1 DEF Image
    <3>3. SumFunctionOnSet(f, T) = 0 /\ SumFunctionOnSet(g, Image(p, T)) = 0
      BY <2>1, <3>1, <3>2, SumChoose
    <3> QED BY <3>3
  <2>2. CASE T # {}
    <3>1. PICK x \in T : TRUE
      BY <2>2
    <3>2. SumFunctionOnSet(f, T) = f[x] + SumFunctionOnSet(f, T \ {x})
      <4>1. T \in SUBSET D
        OBVIOUS
      <4> QED BY <4>1, SumRemove
    <3>3. SumFunctionOnSet(g, Image(p, T)) = g[p[x]] + SumFunctionOnSet(g, Image(p, T) \ {p[x]})
      <4>1. Image(p, T) \in SUBSET E /\ p[x] \in Image(p, T)
        BY DEF Image
      <4> QED BY <4>1, SumRemove
    <3>4. Image(p, T) \ {p[x]} = Image(p, T \ {x})
      BY DEF Image
    <3>5. SumFunctionOnSet(f, T \ {x}) = SumFunctionOnSet(g, Image(p, T \ {x}))
      BY <1>2
    <3>6. g[p[x]] = f[x]
      OBVIOUS
    <3>7. SumFunctionOnSet(f, T) = SumFunctionOnSet(g, Image(p, T))
      BY <3>2, <3>3, <3>4, <3>5, <3>6
    <3> QED BY <3>7
  <2> QED BY <2>1, <2>2
<1>3. SUBSET S \subseteq G
  <2> HIDE DEF G
  <2> QED BY <1>1, <1>2, SubsetFamily
<1> QED BY <1>3

\* Only the values on the set count.
LEMMA SumSame ==
    ASSUME NEW D, IsFiniteSet(D), NEW f \in [D -> Int], NEW g \in [D -> Int],
           NEW S \in SUBSET D, \A i \in S : g[i] = f[i]
    PROVE  SumFunctionOnSet(f, S) = SumFunctionOnSet(g, S)
<1> DEFINE p == [i \in D |-> i]
<1>1. p \in [D -> D] /\ (\A i, j \in D : p[i] = p[j] => i = j) /\ \A i \in S : g[p[i]] = f[i]
  OBVIOUS
<1>2. Image(p, S) = S
  BY DEF Image
<1>3. SumFunctionOnSet(f, S) = SumFunctionOnSet(g, Image(p, S))
  <2> HIDE DEF p
  <2> QED BY <1>1, SumImage
<1> QED BY <1>2, <1>3

\* Elements of value 0 add nothing.
LEMMA SumZeros ==
    ASSUME NEW D, IsFiniteSet(D), NEW f \in [D -> Int],
           NEW S \in SUBSET D, NEW T \in SUBSET S, \A i \in S : i \notin T => f[i] = 0
    PROVE  SumFunctionOnSet(f, S) = SumFunctionOnSet(f, T)
<1> DEFINE G == {U \in SUBSET S : T \subseteq U => SumFunctionOnSet(f, U) = SumFunctionOnSet(f, T)}
<1>1. ASSUME NEW U \in SUBSET S, \A x \in U : U \ {x} \in G
      PROVE  U \in G
  <2>1. ASSUME T \subseteq U, U # T
        PROVE  SumFunctionOnSet(f, U) = SumFunctionOnSet(f, T)
    <3>1. PICK x \in U : x \notin T
      BY <2>1
    <3>2. U \in SUBSET D /\ f[x] = 0
      BY <3>1
    <3>3. SumFunctionOnSet(f, U) = f[x] + SumFunctionOnSet(f, U \ {x})
      BY <3>2, SumRemove
    <3>4. T \subseteq U \ {x} /\ U \ {x} \in SUBSET D
      BY <2>1, <3>1
    <3>5. SumFunctionOnSet(f, U \ {x}) = SumFunctionOnSet(f, T)
      BY <1>1, <3>4
    <3>6. SumFunctionOnSet(f, U \ {x}) \in Int
      BY <3>4, SumInt
    <3> QED BY <3>2, <3>3, <3>5, <3>6
  <2> QED BY <2>1
<1>2. IsFiniteSet(S)
  BY FS_Subset
<1>3. SUBSET S \subseteq G
  <2> HIDE DEF G
  <2> QED BY <1>1, <1>2, SubsetFamily
<1> QED BY <1>3

\* p lists every element of D once
IsPermutation(p, D) ==
    /\ p \in [D -> D]
    /\ \A i, j \in D : p[i] = p[j] => i = j
    /\ \A i \in D : \E j \in D : p[j] = i

\* Reordering, leaving out zeros and changing values outside the set together.
LEMMA SumReordered ==
    ASSUME NEW D, IsFiniteSet(D), NEW f \in [D -> Int], NEW g \in [D -> Int], NEW h \in [D -> Int],
           NEW p, IsPermutation(p, D),
           NEW S \in SUBSET D, \A i \in S : g[p[i]] = f[i],
           NEW U \in SUBSET D, Image(p, S) = U,
           NEW K \in SUBSET U, \A i \in U : i \notin K => g[i] = 0, \A i \in K : h[i] = g[i]
    PROVE  SumFunctionOnSet(f, S) = SumFunctionOnSet(h, K)
<1>1. SumFunctionOnSet(f, S) = SumFunctionOnSet(g, U)
  BY SMTT(30), SumImage DEF IsPermutation
<1>2. SumFunctionOnSet(g, U) = SumFunctionOnSet(g, K)
  BY SumZeros
<1>3. K \in SUBSET D
  OBVIOUS
<1>4. SumFunctionOnSet(g, K) = SumFunctionOnSet(h, K)
  BY <1>3, SumSame
<1> QED BY <1>1, <1>2, <1>4

\* A proper part of positive values is less than the whole.
LEMMA SumPart ==
    ASSUME NEW D, IsFiniteSet(D), NEW f \in [D -> Int], \A i \in D : f[i] > 0,
           NEW T \in SUBSET D, T # D
    PROVE  SumFunctionOnSet(f, T) < SumFunctionOnSet(f, D)
<1> DEFINE G == {U \in SUBSET D : T \subseteq U /\ T # U =>
                    SumFunctionOnSet(f, T) < SumFunctionOnSet(f, U)}
<1>1. ASSUME NEW U \in SUBSET D, \A x \in U : U \ {x} \in G
      PROVE  U \in G
  <2>1. ASSUME T \subseteq U, U # T
        PROVE  SumFunctionOnSet(f, T) < SumFunctionOnSet(f, U)
    <3>1. PICK x \in U : x \notin T
      BY <2>1
    <3>2. f[x] \in Int /\ f[x] > 0
      BY <3>1
    <3>3. SumFunctionOnSet(f, U) = f[x] + SumFunctionOnSet(f, U \ {x})
      BY <3>2, SumRemove
    <3>4. T \subseteq U \ {x} /\ U \ {x} \in SUBSET D
      BY <2>1, <3>1
    <3>5. SumFunctionOnSet(f, U \ {x}) \in Int /\ SumFunctionOnSet(f, T) \in Int
      BY <3>4, SumInt
    <3>6. T = U \ {x} \/ SumFunctionOnSet(f, T) < SumFunctionOnSet(f, U \ {x})
      BY <1>1, <3>4
    <3>7. CASE T = U \ {x}
      <4>1. SumFunctionOnSet(f, T) = SumFunctionOnSet(f, U \ {x})
        BY <3>7
      <4> QED BY <3>2, <3>3, <3>5, <4>1
    <3>8. CASE SumFunctionOnSet(f, T) < SumFunctionOnSet(f, U \ {x})
      BY <3>2, <3>3, <3>5, <3>8
    <3> QED BY <3>6, <3>7, <3>8
  <2> QED BY <2>1
<1>2. SUBSET D \subseteq G
  <2> HIDE DEF G
  <2> QED BY <1>1, SubsetFamily
<1> QED BY <1>2

-----------------------------------------------------------------------------

\* The positions of a list of n cases are n.
LEMMA Interval ==
    ASSUME NEW n \in Nat
    PROVE  IsFiniteSet(1..n) /\ Cardinality(1..n) = n
<1>1. IsFiniteSet(1..n) /\ Cardinality(1..n) = IF 1 > n THEN 0 ELSE n - 1 + 1
  BY FS_Interval
<1> QED BY <1>1

\* Grouping by batch only reorders the cases.
LEMMA GroupedPermutes ==
    ASSUME NEW n \in Nat, NEW t
    PROVE  IsPermutation(Grouped(t, n), 1..n)
<1> DEFINE First(i) == Min({j \in 1..n : t[j].batch = t[i].batch})
           Le(j, i) == First(j) < First(i) \/ (First(j) = First(i) /\ j <= i)
           Upto(i) == {j \in 1..n : Le(j, i)}
           rank == [i \in 1..n |-> Cardinality(Upto(i))]
<1>1. \A i \in 1..n : First(i) \in 1..n
  <2>1. ASSUME NEW i \in 1..n
        PROVE  First(i) \in 1..n
    <3> DEFINE S == {j \in 1..n : t[j].batch = t[i].batch}
    <3>1. S \in SUBSET Nat /\ i \in S /\ S \subseteq 1..n
      OBVIOUS
    <3>2. Min(S) \in S
      <4> HIDE DEF S
      <4> QED BY <3>1, MinOfNats
    <3> QED BY <3>1, <3>2
  <2> QED BY <2>1
<1>2. \A i \in 1..n : IsFiniteSet(Upto(i)) /\ Upto(i) \subseteq 1..n /\ i \in Upto(i)
  <2>1. \A i \in 1..n : Upto(i) \in SUBSET (1..n) /\ i \in Upto(i)
    <3> HIDE DEF First
    <3> QED BY <1>1
  <2> HIDE DEF Upto
  <2> QED BY <2>1, Interval, FS_Subset
<1>3. \A i \in 1..n : Cardinality(Upto(i)) \in 1..n
  <2>1. ASSUME NEW i \in 1..n
        PROVE  Cardinality(Upto(i)) \in 1..n
    <3> HIDE DEF Upto
    <3>1. Cardinality(Upto(i)) <= Cardinality(1..n)
      BY <1>2, Interval, FS_Subset
    <3>2. Cardinality(Upto(i)) \in Nat
      BY <1>2, FS_CardinalityType
    <3>3. Cardinality(Upto(i)) # 0
      BY <1>2, FS_EmptySet
    <3>4. Cardinality(1..n) = n
      BY Interval
    <3> QED BY <3>1, <3>2, <3>3, <3>4
  <2> QED BY <2>1
<1>4. ASSUME NEW i \in 1..n, NEW k \in 1..n, i # k, Le(i, k)
      PROVE  rank[i] # rank[k]
  <2>1. Upto(i) \subseteq Upto(k) /\ k \in Upto(k) /\ k \notin Upto(i)
    <3>1. First(i) \in Int /\ First(k) \in Int /\ \A j \in 1..n : First(j) \in Int
      BY <1>1
    <3> HIDE DEF First
    <3> QED BY <1>4, <3>1
  <2> HIDE DEF Upto
  <2>2. Cardinality(Upto(k)) = Cardinality(Upto(i)) => Upto(k) = Upto(i)
    BY <1>2, <2>1, FS_Subset
  <2>3. rank[i] = Cardinality(Upto(i)) /\ rank[k] = Cardinality(Upto(k))
    OBVIOUS
  <2> QED BY <2>1, <2>2, <2>3
<1>5. \A i, k \in 1..n : Le(i, k) \/ Le(k, i)
  <2>1. \A i, k \in 1..n : First(i) \in Int /\ First(k) \in Int
    BY <1>1
  <2> HIDE DEF First
  <2> QED BY <2>1
<1>6. \A i, k \in 1..n : rank[i] = rank[k] => i = k
  <2> HIDE DEF Le, rank
  <2> QED BY <1>4, <1>5
<1>7. rank \in [1..n -> 1..n]
  <2> HIDE DEF Upto
  <2> QED BY <1>3
<1>8. \A p \in 1..n : \E i \in 1..n : rank[i] = p
  <2> HIDE DEF rank
  <2>1. rank \in Injection(1..n, 1..n)
    BY <1>6, <1>7 DEF Injection, IsInjective
  <2>2. rank \in Surjection(1..n, 1..n)
    BY <2>1, Interval, FS_Injection
  <2> QED BY <2>2 DEF Surjection
<1>9. Grouped(t, n) = [p \in 1..n |-> CHOOSE i \in 1..n : Cardinality(Upto(i)) = p]
  BY DEF Grouped
<1>10. \A p \in 1..n : Grouped(t, n)[p] \in 1..n /\ rank[Grouped(t, n)[p]] = p
  <2> HIDE DEF Upto
  <2>1. \A p \in 1..n : \E i \in 1..n : Cardinality(Upto(i)) = p
    BY <1>8
  <2>2. \A p \in 1..n : /\ Grouped(t, n)[p] \in 1..n
                        /\ Cardinality(Upto(Grouped(t, n)[p])) = p
    BY <1>9, <2>1
  <2> QED BY <2>2
<1> HIDE DEF rank
<1>11. Grouped(t, n) \in [1..n -> 1..n]
  BY <1>9, <1>10
<1>12. \A i \in 1..n : rank[i] \in 1..n /\ Grouped(t, n)[rank[i]] = i
  BY <1>6, <1>7, <1>10
<1>13. \A p, q \in 1..n : Grouped(t, n)[p] = Grouped(t, n)[q] => p = q
  BY <1>10
<1>14. \A i \in 1..n : \E p \in 1..n : Grouped(t, n)[p] = i
  BY <1>12
<1> QED BY <1>11, <1>13, <1>14 DEF IsPermutation

(***************************************************************************)
(* The invariant.  Up to the result, the list of case results is           *)
(* determined by what the sandbox returned (Report); the result is a       *)
(* function of the two (Graded).                                           *)
(***************************************************************************)
Verdicts == KnownStatuses \cup {"WA"}
CaseReport == [case_no : Nat, result : Verdicts \cup {"SKIPPED"}, points : Int]

\* a case before case i failed
FailedBefore(i) == \E j \in 1..(i - 1) : ~Passed(j)

\* what the loop, or the padding after it, reports for case i
Report(i) ==
    IF StopOnFirst /\ FailedBefore(i) THEN Skipped(i)
    ELSE [case_no |-> i, points |-> tcs[i].points,
          result |-> CaseVerdict(sandbox.cases[i].status, sandbox.cases[i].match)]

\* run_cases: a compile error, or a list cut only where it may stop
SandboxInv ==
    \/ sandbox = [ce |-> TRUE, cases |-> <<>>]
    \/ /\ sandbox.ce = FALSE
       /\ sandbox.cases \in Seq(Outcomes)
       /\ Len(sandbox.cases) \in 1..Size
       /\ \/ Len(sandbox.cases) = Size
          \/ StopOnFirst /\ Fails(sandbox.cases[Len(sandbox.cases)])

\* the loop reports the cases in order
RawInv ==
    /\ raw \in Seq(CaseReport)
    /\ Len(raw) <= Len(sandbox.cases)
    /\ \A i \in 1..Len(raw) : raw[i] = Report(i)

\* every case the sandbox ran has been looked at
Judged ==
    /\ payload \in Payloads /\ Size > 0
    /\ SandboxInv /\ RawInv
    /\ Len(raw) = Len(sandbox.cases)

\* the answer Finish gives
Graded ==
    [status |-> "COMPLETED", result |-> OverallResult(Scored(Padded)),
     score |-> Scored(Padded).score, cases |-> Scored(Padded).cases]

Inv ==
    /\ payload \in Payloads
    /\ pc \in {"build", "run", "compare", "done"}
    /\ pc = "build" => client = "none"
    /\ pc \in {"run", "compare"} => client = "open" /\ Size > 0
    /\ pc \in {"build", "run"} => sandbox = NoRun /\ raw = <<>>
    /\ pc = "compare" => SandboxInv /\ RawInv
    /\ pc # "done" => out = NoResult
    /\ pc = "done" => /\ client \in {"none", "closed"}
                      /\ out = Failed \/ (out = Graded /\ Judged)

-----------------------------------------------------------------------------

\* The parts of a payload have their types.
LEMMA PayloadTyped ==
    ASSUME payload \in Payloads
    PROVE  /\ tcs \in Seq(TestCase) /\ Size \in Nat /\ DOMAIN tcs = 1..Size
           /\ payload.points \in Int /\ payload.partial \in BOOLEAN
           /\ \A i \in 1..Size : tcs[i] \in TestCase
<1>1. payload \in Payload
  BY StandardAssumption
<1>2. payload.cases \in Seq(TestCase) /\ payload.points \in Int /\ payload.partial \in BOOLEAN
  BY <1>1 DEF Payload
<1> QED BY <1>2 DEF tcs, Size

\* A run counts as AC exactly if it ended normally with the expected output.
LEMMA VerdictOf ==
    ASSUME NEW o \in Outcomes
    PROVE  /\ CaseVerdict(o.status, o.match) \in Verdicts
           /\ CaseVerdict(o.status, o.match) = "AC" <=> ~Fails(o)
<1>1. o.match \in BOOLEAN
  BY StandardAssumption
<1>2. CaseVerdict(o.status, o.match) \in Verdicts
  BY DEF CaseVerdict, ToOjResult, Verdicts, KnownStatuses
<1>3. CaseVerdict(o.status, o.match) = "AC" <=> ~Fails(o)
  BY <1>1 DEF CaseVerdict, ToOjResult, KnownStatuses, Fails
<1> QED BY <1>2, <1>3

\* What the loop reports for a case the sandbox ran.
LEMMA ReportOf ==
    ASSUME payload \in Payloads, SandboxInv, NEW i \in 1..Len(sandbox.cases)
    PROVE  /\ i \in 1..Size /\ sandbox.ce = FALSE
           /\ sandbox.cases[i] \in Outcomes
           /\ Passed(i) <=> ~Fails(sandbox.cases[i])
           /\ Report(i) \in CaseReport
           /\ Report(i).case_no = i
           /\ Report(i).result = "AC" <=> Passed(i) /\ ~(StopOnFirst /\ FailedBefore(i))
           /\ Report(i).result = "AC" => Report(i).points = tcs[i].points
           /\ Report(i).result = "SKIPPED" <=> StopOnFirst /\ FailedBefore(i)
<1>1. sandbox # [ce |-> TRUE, cases |-> <<>>]
  <2>1. SUFFICES ASSUME sandbox = [ce |-> TRUE, cases |-> <<>>] PROVE FALSE
    OBVIOUS
  <2>2. sandbox.cases = <<>>
    BY <2>1
  <2>3. Len(sandbox.cases) = 0
    BY <2>2
  <2> QED BY <2>3
<1>2. sandbox.ce = FALSE /\ sandbox.cases \in Seq(Outcomes) /\ Len(sandbox.cases) \in 1..Size
  BY <1>1 DEF SandboxInv
<1>3. i \in 1..Size /\ sandbox.cases[i] \in Outcomes /\ i \in DOMAIN sandbox.cases
  BY <1>2, PayloadTyped
<1>4. Passed(i) <=> ~Fails(sandbox.cases[i])
  BY <1>2, <1>3 DEF Passed
<1>5. i \in Nat /\ tcs[i].points \in Int
  BY <1>3, PayloadTyped DEF TestCase
<1>6. CASE StopOnFirst /\ FailedBefore(i)
  <2>1. Report(i) = [case_no |-> i, result |-> "SKIPPED", points |-> 0]
    BY <1>6 DEF Report, Skipped
  <2>2. Report(i) \in CaseReport
    BY <1>5, <2>1 DEF CaseReport
  <2>3. Report(i).result = "SKIPPED" /\ Report(i).case_no = i
    BY <2>1
  <2> QED BY <1>2, <1>3, <1>4, <1>6, <2>2, <2>3
<1>7. CASE ~(StopOnFirst /\ FailedBefore(i))
  <2> DEFINE v == CaseVerdict(sandbox.cases[i].status, sandbox.cases[i].match)
  <2>1. Report(i) = [case_no |-> i, points |-> tcs[i].points, result |-> v]
    BY <1>7 DEF Report
  <2>2. v \in Verdicts /\ (v = "AC" <=> ~Fails(sandbox.cases[i]))
    BY <1>3, VerdictOf
  <2>3. v # "SKIPPED"
    <3> HIDE DEF v
    <3> QED BY <2>2 DEF Verdicts, KnownStatuses
  <2> HIDE DEF v
  <2>4. Report(i) \in CaseReport
    BY <1>5, <2>1, <2>2 DEF CaseReport
  <2>5. Report(i).case_no = i /\ Report(i).points = tcs[i].points /\ Report(i).result = v
    BY <2>1
  <2> QED BY <1>2, <1>3, <1>4, <1>7, <2>2, <2>3, <2>4, <2>5
<1> QED BY <1>6, <1>7

\* had_failure while the loop is at case i
LEMMA FailureSeen ==
    ASSUME payload \in Payloads, SandboxInv, RawInv
    PROVE  StopOnFirst => (HadFailure <=> FailedBefore(Len(raw) + 1))
<1>1. Len(raw) \in Nat /\ DOMAIN raw = 1..Len(raw)
  BY DEF RawInv
<1>2. \A i \in 1..Len(raw) : i \in 1..Len(sandbox.cases) /\ raw[i] = Report(i)
  <2>1. Len(sandbox.cases) \in Nat
    <3>1. CASE sandbox = [ce |-> TRUE, cases |-> <<>>]
      BY <3>1
    <3>2. CASE sandbox.cases \in Seq(Outcomes)
      BY <3>2
    <3> QED BY <3>1, <3>2 DEF SandboxInv
  <2> QED BY <1>1, <2>1 DEF RawInv
<1>3. ASSUME StopOnFirst, NEW i \in 1..Len(raw), raw[i].result # "AC"
      PROVE  FailedBefore(Len(raw) + 1)
  <2>1. ~Passed(i) \/ FailedBefore(i)
    <3>1. i \in 1..Len(sandbox.cases) /\ raw[i] = Report(i)
      BY <1>2
    <3>2. Report(i).result = "AC" <=> Passed(i) /\ ~(StopOnFirst /\ FailedBefore(i))
      BY <3>1, ReportOf
    <3>3. Report(i).result # "AC"
      BY <1>3, <3>1
    <3> QED BY <3>2, <3>3
  <2>2. CASE ~Passed(i)
    BY <1>1, <2>2 DEF FailedBefore
  <2>3. CASE FailedBefore(i)
    BY <1>1, <2>3 DEF FailedBefore
  <2> QED BY <2>1, <2>2, <2>3
<1>4. ASSUME StopOnFirst, FailedBefore(Len(raw) + 1)
      PROVE  HadFailure
  <2>1. PICK j \in 1..Len(raw) : ~Passed(j)
    BY <1>1, <1>4 DEF FailedBefore
  <2>2. raw[j].result # "AC"
    BY <1>2, <2>1, ReportOf
  <2> QED BY <1>1, <2>2 DEF HadFailure
<1> QED BY <1>1, <1>3, <1>4 DEF HadFailure

-----------------------------------------------------------------------------

\* A task that starts satisfies the invariant.
LEMMA InitInv == Init => Inv
BY DEF Init, Inv

\* The sandbox's answer has the shape SandboxInv describes.
LEMMA RunCasesInv ==
    ASSUME Inv, RunCases
    PROVE  Inv'
<1>1. /\ pc' = "compare" /\ payload' = payload /\ client' = client /\ raw' = raw /\ out' = out
      /\ payload \in Payloads /\ client = "open" /\ raw = <<>> /\ out = NoResult /\ Size > 0
  BY DEF RunCases, Inv
<1>2. Size' = Size /\ StopOnFirst' = StopOnFirst
  BY <1>1 DEF Size, tcs, StopOnFirst, HasBatch
<1>3. Size \in Nat
  BY <1>1, PayloadTyped
<1>4. SandboxInv' /\ Len(sandbox'.cases) \in Nat
  <2>1. CASE sandbox' = [ce |-> TRUE, cases |-> <<>>]
    BY <2>1 DEF SandboxInv
  <2>2. CASE sandbox' # [ce |-> TRUE, cases |-> <<>>]
    <3>1. PICK results \in [1..Size -> Outcomes] : \E n \in RunLengths(results) :
             sandbox' = [ce |-> FALSE, cases |-> SubSeq(results, 1, n)]
      BY <2>2 DEF RunCases
    <3>2. PICK n \in RunLengths(results) :
             sandbox' = [ce |-> FALSE, cases |-> SubSeq(results, 1, n)]
      BY <3>1
    <3>3. n \in 1..Size /\ (n = Size \/ (StopOnFirst /\ Fails(results[n])))
      BY <3>2 DEF RunLengths
    <3> DEFINE c == SubSeq(results, 1, n)
    <3>4. results \in Seq(Outcomes) /\ Len(results) = Size
      BY <1>3
    <3>5. c \in Seq(Outcomes) /\ Len(c) = n /\ c[n] = results[n]
      BY <1>3, <3>3, <3>4
    <3>6. sandbox'.ce = FALSE /\ sandbox'.cases = c
      BY <3>2
    <3> HIDE DEF c
    <3>7. Fails(c[n]) <=> Fails(results[n])
      BY <3>5
    <3>8. sandbox'.cases \in Seq(Outcomes) /\ Len(sandbox'.cases) = n
      BY <3>5, <3>6
    <3>9. Len(sandbox'.cases) = Size' \/ (StopOnFirst' /\ Fails(sandbox'.cases[Len(sandbox'.cases)]))
      BY <1>2, <3>3, <3>6, <3>7, <3>8
    <3>10. SandboxInv'
      BY <1>2, <3>3, <3>6, <3>8, <3>9 DEF SandboxInv, Fails
    <3> QED BY <3>3, <3>8, <3>10
  <2> QED BY <2>1, <2>2
<1>5. RawInv'
  <2>1. raw' = <<>> /\ Len(raw') = 0 /\ raw' \in Seq(CaseReport)
    BY <1>1
  <2>2. 1..Len(raw') = {} /\ Len(raw') <= Len(sandbox'.cases)
    BY <1>4, <2>1
  <2> QED BY <2>1, <2>2 DEF RawInv
<1> QED BY <1>1, <1>2, <1>4, <1>5 DEF Inv

\* A round of the loop appends the report of the next case.
LEMMA CompareCaseInv ==
    ASSUME Inv, CompareCase
    PROVE  Inv'
<1> DEFINE i == Len(raw) + 1
<1>1. /\ pc = "compare" /\ i <= Len(sandbox.cases) /\ raw' = Append(raw, CaseResult(i))
      /\ pc' = pc /\ payload' = payload /\ client' = client /\ sandbox' = sandbox /\ out' = out
  BY DEF CompareCase
<1>2. /\ payload \in Payloads /\ client = "open" /\ Size > 0 /\ out = NoResult
      /\ SandboxInv /\ RawInv
  BY <1>1 DEF Inv
<1>3. /\ raw \in Seq(CaseReport) /\ Len(raw) \in Nat
      /\ \A j \in 1..Len(raw) : raw[j] = Report(j)
  BY <1>2 DEF RawInv
<1>4. i \in 1..Len(sandbox.cases)
  <2>1. Len(sandbox.cases) \in Nat
    <3>1. CASE sandbox = [ce |-> TRUE, cases |-> <<>>]
      BY <3>1
    <3>2. CASE sandbox.cases \in Seq(Outcomes)
      BY <3>2
    <3> QED BY <1>2, <3>1, <3>2 DEF SandboxInv
  <2> QED BY <1>1, <1>3, <2>1
<1>5. CaseResult(i) = Report(i) /\ Report(i) \in CaseReport
  <2>1. StopOnFirst => (HadFailure <=> FailedBefore(i))
    BY <1>2, FailureSeen
  <2>2. Report(i) \in CaseReport
    BY <1>2, <1>4, ReportOf
  <2>3. CaseResult(i) = Report(i)
    BY <2>1 DEF CaseResult, Report
  <2> QED BY <2>2, <2>3
<1>6. \A j : Report(j)' = Report(j)
  BY <1>1 DEF Report, StopOnFirst, HasBatch, tcs, Size, FailedBefore, Passed, Skipped, Fails
<1>7. raw' \in Seq(CaseReport) /\ Len(raw') = i /\ \A j \in 1..i : raw'[j] = Report(j)
  BY <1>1, <1>3, <1>5
<1>8. RawInv'
  <2> HIDE DEF i
  <2>1. \A j \in 1..Len(raw') : raw'[j] = Report(j)'
    BY <1>6, <1>7
  <2> QED BY <1>1, <1>7, <2>1 DEF RawInv
<1>9. SandboxInv' /\ Size' = Size
  BY <1>1, <1>2 DEF SandboxInv, StopOnFirst, HasBatch, tcs, Size, Fails
<1> QED BY <1>1, <1>2, <1>8, <1>9 DEF Inv

\* The answer of Finish is the grade of finished runs.
LEMMA FinishInv ==
    ASSUME Inv, Finish
    PROVE  Inv'
<1>1. /\ pc = "compare" /\ Len(raw) = Len(sandbox.cases) /\ pc' = "done" /\ client' = "closed"
      /\ payload' = payload /\ sandbox' = sandbox /\ raw' = raw /\ out' = Graded
  BY DEF Finish, Graded
<1>2. Judged
  BY <1>1 DEF Inv, Judged
<1>3. Judged' /\ Graded' = Graded
  <2>1. Graded' = Graded
    BY <1>1 DEF Graded, OverallResult, Scored, Padded, HadFailure, Skipped, StopOnFirst, HasBatch,
                tcs, Size
  <2>2. Judged'
    BY <1>1, <1>2 DEF Judged, SandboxInv, RawInv, Report, FailedBefore, Passed, Skipped, Fails,
                      StopOnFirst, HasBatch, tcs, Size
  <2> QED BY <2>1, <2>2
<1> QED BY <1>1, <1>2, <1>3 DEF Inv, Judged

\* Every step keeps the invariant.
LEMMA Inductive == Inv /\ [Next]_vars => Inv'
<1> SUFFICES ASSUME Inv, [Next]_vars PROVE Inv'
  OBVIOUS
<1>1. CASE BuildCases
  <2>1. Size' = Size /\ payload' = payload /\ Size > 0
    BY <1>1 DEF BuildCases, Size, tcs
  <2> QED BY <1>1, <2>1 DEF BuildCases, Inv
<1>2. CASE BuildFails
  BY <1>2 DEF BuildFails, Inv
<1>3. CASE RunCases
  BY <1>3, RunCasesInv
<1>4. CASE RunFails
  BY <1>4 DEF RunFails, Inv
<1>5. CASE CompareCase
  BY <1>5, CompareCaseInv
<1>6. CASE Finish
  BY <1>6, FinishInv
<1>7. CASE UNCHANGED vars
  <2>1. /\ payload' = payload /\ pc' = pc /\ client' = client /\ sandbox' = sandbox
        /\ raw' = raw /\ out' = out
    BY <1>7 DEF vars
  <2>2. Graded' = Graded /\ Size' = Size
    BY <2>1 DEF Graded, OverallResult, Scored, Padded, HadFailure, Skipped, StopOnFirst, HasBatch,
                tcs, Size
  <2>3. (SandboxInv' <=> SandboxInv) /\ (RawInv' <=> RawInv)
    BY <2>1 DEF SandboxInv, RawInv, Report, FailedBefore, Passed, Skipped, Fails,
                StopOnFirst, HasBatch, tcs, Size
  <2> QED BY <2>1, <2>2, <2>3 DEF Inv, Judged
<1> QED BY <1>1, <1>2, <1>3, <1>4, <1>5, <1>6, <1>7 DEF Next

\* The invariant holds at all times.
LEMMA Invariance == Spec => []Inv
BY InitInv, Inductive, PTL DEF Spec

\* A completed answer was computed from finished runs.
LEMMA CompletedIsGraded ==
    ASSUME Inv, Completed
    PROVE  Judged /\ out = Graded
BY DEF Inv, Completed, Failed

-----------------------------------------------------------------------------

\* After a compile error there is nothing to report.
LEMMA NothingRan ==
    ASSUME Judged, sandbox.ce
    PROVE  Padded = <<>> /\ \A i : ~Passed(i)
<1>1. sandbox = [ce |-> TRUE, cases |-> <<>>]
  BY DEF Judged, SandboxInv
<1>2. Len(sandbox.cases) = 0 /\ raw \in Seq(CaseReport)
  BY <1>1 DEF Judged, RawInv
<1>3. raw = <<>>
  BY <1>2 DEF Judged
<1>4. ~HadFailure
  BY <1>3 DEF HadFailure
<1> QED BY <1>3, <1>4 DEF Padded, Passed

\* The cases the sandbox did not reach follow a failure.
LEMMA ReportAll ==
    ASSUME Judged, ~sandbox.ce, NEW i \in 1..Size
    PROVE  /\ Report(i) \in CaseReport
           /\ Report(i).case_no = i
           /\ Report(i).result = "AC" <=> Passed(i) /\ ~(StopOnFirst /\ FailedBefore(i))
           /\ Report(i).result = "AC" => Report(i).points = tcs[i].points
           /\ Report(i).result = "SKIPPED" <=> StopOnFirst /\ FailedBefore(i)
           /\ i \notin 1..Len(sandbox.cases) => StopOnFirst /\ FailedBefore(i)
<1> DEFINE n == Len(sandbox.cases)
<1>1. payload \in Payloads /\ SandboxInv /\ Size \in Nat
  BY PayloadTyped DEF Judged
<1>2. /\ sandbox.cases \in Seq(Outcomes) /\ n \in 1..Size
      /\ n = Size \/ (StopOnFirst /\ Fails(sandbox.cases[n]))
  BY <1>1 DEF SandboxInv
<1>3. CASE i \in 1..n
  BY <1>1, <1>3, ReportOf
<1>4. CASE i \notin 1..n
  <2>1. n < i /\ n # Size /\ n \in 1..n /\ n \in 1..(i - 1)
    BY <1>1, <1>2, <1>4
  <2>2. ~Passed(n)
    BY <1>1, <1>2, <2>1, ReportOf
  <2>3. StopOnFirst /\ FailedBefore(i)
    BY <1>2, <2>1, <2>2 DEF FailedBefore
  <2>4. Report(i) = [case_no |-> i, result |-> "SKIPPED", points |-> 0]
    BY <2>3 DEF Report, Skipped
  <2>5. Report(i) \in CaseReport
    BY <1>1, <2>4 DEF CaseReport
  <2>6. Report(i).case_no = i /\ Report(i).result = "SKIPPED"
    BY <2>4
  <2> QED BY <2>3, <2>5, <2>6
<1> QED BY <1>3, <1>4

\* The padded list has the report of every case, in order.
LEMMA PaddedIs ==
    ASSUME Judged, ~sandbox.ce
    PROVE  /\ Padded \in Seq(CaseReport) /\ Len(Padded) = Size
           /\ \A i \in 1..Size : Padded[i] = Report(i)
<1>1. /\ payload \in Payloads /\ SandboxInv /\ RawInv /\ Size \in Nat
      /\ Len(raw) = Len(sandbox.cases)
  BY PayloadTyped DEF Judged
<1>2. /\ Len(raw) \in 1..Size /\ DOMAIN raw = 1..Len(raw) /\ raw \in Seq(CaseReport)
      /\ Len(raw) = Size \/ (StopOnFirst /\ Fails(sandbox.cases[Len(raw)]))
  BY <1>1 DEF SandboxInv, RawInv
<1>3. \A i \in 1..Len(raw) : raw[i] = Report(i)
  BY <1>1 DEF RawInv
<1>4. CASE StopOnFirst /\ HadFailure
  <2>1. Padded = [i \in 1..Size |-> IF i \in DOMAIN raw THEN raw[i] ELSE Skipped(i)]
    BY <1>4 DEF Padded
  <2>2. ASSUME NEW i \in 1..Size
        PROVE  Padded[i] = Report(i) /\ Report(i) \in CaseReport
    <3>1. Report(i) \in CaseReport
      BY ReportAll
    <3>2. CASE i \in 1..Len(raw)
      BY <1>2, <1>3, <2>1, <3>1, <3>2
    <3>3. CASE i \notin 1..Len(raw)
      <4>1. StopOnFirst /\ FailedBefore(i)
        BY <1>1, <3>3, ReportAll
      <4>2. Report(i) = Skipped(i)
        BY <4>1 DEF Report
      <4> QED BY <1>2, <2>1, <3>1, <3>3, <4>2
    <3> QED BY <3>2, <3>3
  <2>3. Padded \in [1..Size -> CaseReport]
    BY <2>1, <2>2
  <2>4. Padded \in Seq(CaseReport) /\ Len(Padded) = Size
    BY <1>1, <2>3
  <2> QED BY <2>2, <2>4
<1>5. CASE ~(StopOnFirst /\ HadFailure)
  <2>1. Padded = raw
    BY <1>5 DEF Padded
  <2>2. Len(raw) = Size
    <3>1. SUFFICES ASSUME StopOnFirst, Fails(sandbox.cases[Len(raw)]) PROVE FALSE
      BY <1>2
    <3>2. Len(raw) \in 1..Len(sandbox.cases)
      BY <1>1, <1>2
    <3>3. ~Passed(Len(raw))
      BY <1>1, <3>1, <3>2, ReportOf
    <3>4. FailedBefore(Len(raw) + 1)
      BY <1>1, <1>2, <3>3 DEF FailedBefore
    <3>5. HadFailure
      BY <1>1, <3>1, <3>4, FailureSeen
    <3> QED BY <1>5, <3>1, <3>5
  <2> QED BY <1>2, <1>3, <2>1, <2>2
<1> QED BY <1>4, <1>5

-----------------------------------------------------------------------------

(***************************************************************************)
(* What the four phases of aggregate_batches amount to, for the results r  *)
(* of test cases t.                                                        *)
(***************************************************************************)
\* phase 1: every case of batch b is AC
AllAc(r, t, b) == \A j \in DOMAIN r : t[j].batch = b => r[j].result = "AC"

\* phase 2: case i is skipped because a batch it depends on is not AC
Blocked(r, t, i) == t[i].batch # None /\ \E d \in t[i].deps : ~AllAc(r, t, d)

\* phase 3: the points of case i count
Keeps(r, t, i) ==
    IF t[i].batch = None THEN r[i].result = "AC"
    ELSE \A j \in DOMAIN r : t[j].batch = t[i].batch => r[j].result = "AC" /\ ~Blocked(r, t, j)

\* phase 4: what is reported for case i
Adjusted(r, t, i) ==
    [case_no |-> r[i].case_no,
     result |-> IF Blocked(r, t, i) THEN "SKIPPED" ELSE r[i].result,
     points |-> IF Blocked(r, t, i) \/ (t[i].batch # None /\ ~Keeps(r, t, i)) THEN 0
                ELSE r[i].points]

\* the cases that count, and the list the code reports
Kept(r, t) == {i \in DOMAIN r : Keeps(r, t, i)}
Reordered(r, t, o) == [p \in DOMAIN r |-> Adjusted(r, t, o[p])]

\* aggregate_batches reports the adjusted cases in grouped order, and scores the
\* points of those that keep them.
LEMMA Aggregated ==
    ASSUME NEW n \in Nat, NEW t, \A i \in 1..n : t[i] \in TestCase,
           NEW r \in Seq(CaseReport), Len(r) = n
    PROVE  /\ AggregateBatches(r, t).cases = Reordered(r, t, Grouped(t, n))
           /\ AggregateBatches(r, t).score = PointsOf(r, Kept(r, t))
<1> DEFINE ac1 == BatchAcStatus(r, t)
           cases == ApplyBatchDependencies(r, t, ac1)
           ac == BatchAcStatus(cases, t)
           Lost(b) == b # None /\ ~ac[b]
           adjusted == [i \in DOMAIN cases |->
                           IF Lost(t[i].batch) THEN [cases[i] EXCEPT !.points = 0] ELSE cases[i]]
           order == Grouped(t, n)
           earning == {i \in DOMAIN cases :
                          IF t[i].batch = None THEN cases[i].result = "AC" ELSE ac[t[i].batch]}
<1>1. DOMAIN r = 1..n /\ \A i \in 1..n : r[i] \in CaseReport
  OBVIOUS
<1>2. AggregateBatches(r, t) = [cases |-> [p \in DOMAIN cases |-> adjusted[order[p]]],
                                score |-> PointsOf(cases, earning)]
  BY DEF AggregateBatches
<1>3. \A i \in 1..n : DependencyFailed(t[i], ac1) <=> Blocked(r, t, i)
  <2>1. ASSUME NEW i \in 1..n, NEW d \in t[i].deps
        PROVE  (d \in DOMAIN ac1 /\ ~ac1[d]) <=> ~AllAc(r, t, d)
    <3>1. d # None
      BY <2>1, StandardAssumption DEF TestCase
    <3>2. DOMAIN ac1 = {t[j].batch : j \in 1..n} \ {None}
      BY <1>1 DEF BatchAcStatus
    <3>3. d \in DOMAIN ac1 => (ac1[d] <=> AllAc(r, t, d))
      BY DEF BatchAcStatus, AllAc
    <3>4. ~AllAc(r, t, d) => d \in DOMAIN ac1
      <4> HIDE DEF ac1
      <4> QED BY <1>1, <3>1, <3>2 DEF AllAc
    <3> HIDE DEF ac1
    <3> QED BY <3>3, <3>4
  <2> HIDE DEF ac1
  <2> QED BY <2>1 DEF DependencyFailed, Blocked
<1>4. DOMAIN cases = 1..n
  BY <1>1 DEF ApplyBatchDependencies
<1>5. \A i \in 1..n : cases[i] = IF Blocked(r, t, i)
                                 THEN [r[i] EXCEPT !.result = "SKIPPED", !.points = 0] ELSE r[i]
  <2> HIDE DEF ac1
  <2> QED BY <1>1, <1>3 DEF ApplyBatchDependencies
<1>6. \A i \in 1..n : /\ cases[i] \in CaseReport
                      /\ cases[i].case_no = r[i].case_no
                      /\ cases[i].result = IF Blocked(r, t, i) THEN "SKIPPED" ELSE r[i].result
                      /\ cases[i].points = IF Blocked(r, t, i) THEN 0 ELSE r[i].points
  <2> HIDE DEF cases
  <2>1. ASSUME NEW i \in 1..n
        PROVE  /\ cases[i] \in CaseReport
               /\ cases[i].case_no = r[i].case_no
               /\ cases[i].result = IF Blocked(r, t, i) THEN "SKIPPED" ELSE r[i].result
               /\ cases[i].points = IF Blocked(r, t, i) THEN 0 ELSE r[i].points
    <3>1. CASE Blocked(r, t, i)
      <4>1. cases[i] = [r[i] EXCEPT !.result = "SKIPPED", !.points = 0]
        BY <1>5, <3>1
      <4>2. r[i] \in [case_no : Nat, result : Verdicts \cup {"SKIPPED"}, points : Int]
        BY <1>1 DEF CaseReport
      <4>3. cases[i] = [case_no |-> r[i].case_no, result |-> "SKIPPED", points |-> 0]
        BY <4>1, <4>2
      <4>4. cases[i] \in CaseReport
        BY <4>2, <4>3 DEF CaseReport
      <4>5. cases[i].case_no = r[i].case_no /\ cases[i].result = "SKIPPED" /\ cases[i].points = 0
        BY <4>3
      <4> QED BY <3>1, <4>4, <4>5
    <3>2. CASE ~Blocked(r, t, i)
      BY <1>1, <1>5, <3>2
    <3> QED BY <3>1, <3>2
  <2> QED BY <2>1
<1> HIDE DEF cases
<1>7. \A i \in 1..n : t[i].batch # None => (ac[t[i].batch] <=> Keeps(r, t, i))
  <2>1. ASSUME NEW i \in 1..n, t[i].batch # None
        PROVE  ac[t[i].batch] <=> Keeps(r, t, i)
    <3>1. ac[t[i].batch] <=> \A j \in 1..n : t[j].batch = t[i].batch => cases[j].result = "AC"
      BY <1>4, <2>1 DEF BatchAcStatus
    <3>2. \A j \in 1..n : cases[j].result = "AC" <=> r[j].result = "AC" /\ ~Blocked(r, t, j)
      BY <1>6
    <3> HIDE DEF ac
    <3> QED BY <1>1, <2>1, <3>1, <3>2 DEF Keeps
  <2> QED BY <2>1
<1>8. ac = [b \in {t[i].batch : i \in DOMAIN cases} \ {None} |-> 
               \A i \in DOMAIN cases : t[i].batch = b => cases[i].result = "AC"]
  BY DEF BatchAcStatus
<1> HIDE DEF ac
<1>9. \A i \in 1..n : adjusted[i] = Adjusted(r, t, i)
  <2>1. ASSUME NEW i \in 1..n
        PROVE  adjusted[i] = Adjusted(r, t, i)
    <3>1. adjusted[i] = IF Lost(t[i].batch) THEN [cases[i] EXCEPT !.points = 0] ELSE cases[i]
      BY <1>4
    <3>2. Lost(t[i].batch) <=> t[i].batch # None /\ ~Keeps(r, t, i)
      BY <1>7
    <3> HIDE DEF adjusted, Lost
    <3>3. CASE Lost(t[i].batch)
      <4>1. adjusted[i] = [cases[i] EXCEPT !.points = 0]
        BY <3>1, <3>3
      <4>2. adjusted[i] = [case_no |-> cases[i].case_no, result |-> cases[i].result, points |-> 0]
        BY <1>6, <4>1 DEF CaseReport
      <4> QED BY <1>6, <3>2, <3>3, <4>2 DEF Adjusted
    <3>4. CASE ~Lost(t[i].batch)
      <4>1. adjusted[i] = cases[i]
        BY <3>1, <3>4
      <4>2. adjusted[i] = [case_no |-> cases[i].case_no, result |-> cases[i].result,
                           points |-> cases[i].points]
        BY <1>6, <4>1 DEF CaseReport
      <4> QED BY <1>6, <3>2, <3>4, <4>2 DEF Adjusted
    <3> QED BY <3>3, <3>4
  <2> QED BY <2>1
<1>10. AggregateBatches(r, t).cases = Reordered(r, t, order)
  <2>1. \A p \in 1..n : order[p] \in 1..n
    BY GroupedPermutes DEF IsPermutation
  <2>2. AggregateBatches(r, t).cases = [p \in 1..n |-> adjusted[order[p]]]
    BY <1>2, <1>4
  <2>3. \A p \in 1..n : adjusted[order[p]] = Adjusted(r, t, order[p])
    BY <1>9, <2>1
  <2> HIDE DEF adjusted, order
  <2> QED BY <1>1, <2>2, <2>3 DEF Reordered
<1>11. earning = Kept(r, t)
  <2>1. \A i \in 1..n : t[i].batch = None => (cases[i].result = "AC" <=> Keeps(r, t, i))
    BY <1>6 DEF Keeps, Blocked
  <2> QED BY <1>1, <1>4, <1>7, <2>1 DEF Kept
<1>12. PointsOf(cases, earning) = PointsOf(r, Kept(r, t))
  <2> DEFINE f == [i \in 1..n |-> cases[i].points]
             g == [i \in 1..n |-> r[i].points]
             K == Kept(r, t)
  <2>1. f \in [1..n -> Int] /\ g \in [1..n -> Int] /\ K \in SUBSET (1..n)
    BY <1>1, <1>6 DEF CaseReport, Kept
  <2>2. \A i \in K : g[i] = f[i]
    <3>1. \A i \in 1..n : Keeps(r, t, i) => ~Blocked(r, t, i)
      BY <1>1 DEF Keeps, Blocked
    <3> QED BY <1>1, <1>6, <3>1 DEF Kept
  <2>3. PointsOf(cases, K) = SumFunctionOnSet(f, K) /\ PointsOf(r, K) = SumFunctionOnSet(g, K)
    BY <1>1, <1>4 DEF PointsOf
  <2> HIDE DEF f, g, K
  <2>4. SumFunctionOnSet(f, K) = SumFunctionOnSet(g, K)
    <3> DEFINE D == 1..n
    <3>1. IsFiniteSet(D) /\ f \in [D -> Int] /\ g \in [D -> Int] /\ K \in SUBSET D
      BY <2>1, Interval
    <3> HIDE DEF D
    <3> QED BY <2>2, <3>1, SumSame
  <2>5. PointsOf(cases, K) = PointsOf(r, K)
    BY <2>3, <2>4
  <2> HIDE DEF earning
  <2> QED BY <1>11, <2>5 DEF K
<1>13. AggregateBatches(r, t).score = PointsOf(cases, earning)
  <2> HIDE DEF adjusted, earning, order
  <2> QED BY <1>2
<1> HIDE DEF earning
<1> QED BY <1>10, <1>12, <1>13

\* However the adjusted cases are ordered, the points of those reported as AC
\* add up to the points of the cases that keep them.
LEMMA AdjustedSum ==
    ASSUME NEW D, IsFiniteSet(D), NEW t, NEW r, DOMAIN r = D, \A i \in D : r[i] \in CaseReport,
           NEW o, IsPermutation(o, D)
    PROVE  SumAccepted(Reordered(r, t, o)) = PointsOf(r, Kept(r, t))
<1> DEFINE c == Reordered(r, t, o)
           f == [p \in D |-> c[p].points]
           g == [i \in D |-> Adjusted(r, t, i).points]
           h == [i \in D |-> r[i].points]
           S == {p \in D : c[p].result = "AC"}
           U == {i \in D : Adjusted(r, t, i).result = "AC"}
           K == {i \in D : Keeps(r, t, i)}
<1>1. c = [p \in D |-> Adjusted(r, t, o[p])] /\ Kept(r, t) = K
  BY DEF Reordered, Kept
<1> HIDE DEF c
<1>2. SumAccepted(c) = SumFunctionOnSet(f, S)
  BY <1>1 DEF SumAccepted, PointsOf
<1>3. PointsOf(r, K) = SumFunctionOnSet(h, K)
  BY DEF PointsOf
<1>4. f \in [D -> Int] /\ g \in [D -> Int] /\ h \in [D -> Int]
  <2>1. \A i \in D : r[i].points \in Int
    BY DEF CaseReport
  <2>2. \A i \in D : Adjusted(r, t, i).points \in Int
    BY <2>1 DEF Adjusted
  <2>3. \A p \in D : c[p].points \in Int
    <3>1. \A p \in D : c[p] = Adjusted(r, t, o[p]) /\ o[p] \in D
      BY <1>1 DEF IsPermutation
    <3> QED BY <2>2, <3>1
  <2> QED BY <2>1, <2>2, <2>3
<1>5. \A p \in D : c[p] = Adjusted(r, t, o[p]) /\ o[p] \in D
  BY <1>1 DEF IsPermutation
<1>6. \A p \in S : g[o[p]] = f[p]
  BY <1>5
<1>7. Image(o, S) = U
  BY <1>5 DEF IsPermutation, Image
<1>8. \A i \in D : Adjusted(r, t, i).result = IF Blocked(r, t, i) THEN "SKIPPED" ELSE r[i].result
  BY DEF Adjusted
<1>9. \A i \in D : Adjusted(r, t, i).points =
          IF Blocked(r, t, i) \/ (t[i].batch # None /\ ~Keeps(r, t, i)) THEN 0 ELSE r[i].points
  BY DEF Adjusted
<1>10. \A i \in D : Keeps(r, t, i) => r[i].result = "AC" /\ ~Blocked(r, t, i)
  BY DEF Keeps, Blocked
<1>11. K \in SUBSET U
  BY <1>8, <1>10
<1>12. \A i \in U : i \notin K => g[i] = 0
  <2>1. ASSUME NEW i \in U, i \notin K
        PROVE  t[i].batch # None /\ ~Keeps(r, t, i) /\ i \in D
    <3>1. i \in D /\ ~Keeps(r, t, i) /\ r[i].result = "AC"
      BY <1>8, <2>1
    <3> QED BY <3>1 DEF Keeps
  <2> QED BY <1>9, <2>1
<1>13. \A i \in K : h[i] = g[i]
  BY <1>9, <1>10
<1>14. S \in SUBSET D /\ U \in SUBSET D /\ K \in SUBSET D
  OBVIOUS
<1> HIDE DEF f, g, h, S, U, K
<1>15. SumFunctionOnSet(f, S) = SumFunctionOnSet(h, K)
  BY <1>4, <1>6, <1>7, <1>11, <1>12, <1>13, <1>14, SumReordered
<1>16. SumAccepted(c) = PointsOf(r, K)
  BY <1>3, <1>2, <1>15
<1> QED BY <1>1, <1>16 DEF c

\* The points of the cases reported as AC add up to the score.
LEMMA AggregatedSum ==
    ASSUME NEW n \in Nat, NEW t, \A i \in 1..n : t[i] \in TestCase,
           NEW r \in Seq(CaseReport), Len(r) = n
    PROVE  SumAccepted(AggregateBatches(r, t).cases) = AggregateBatches(r, t).score
<1> DEFINE D == 1..n
           o == Grouped(t, n)
<1>1. DOMAIN r = D /\ \A i \in D : r[i] \in CaseReport
  OBVIOUS
<1>2. IsPermutation(o, D)
  BY GroupedPermutes
<1>3. IsFiniteSet(D)
  BY Interval
<1>4. /\ AggregateBatches(r, t).cases = Reordered(r, t, o)
      /\ AggregateBatches(r, t).score = PointsOf(r, Kept(r, t))
  BY Aggregated
<1>5. SumAccepted(Reordered(r, t, o)) = PointsOf(r, Kept(r, t))
  <2> HIDE DEF D, o
  <2> QED BY <1>1, <1>2, <1>3, AdjustedSum
<1> QED BY <1>4, <1>5

-----------------------------------------------------------------------------

\* What a case counts for: the rules with has_batch as StandardMode computes it,
\* so that a problem whose only batch number is 0 has no batches.
Counted(i) ==
    IF StopOnFirst THEN \A j \in 1..i : Passed(j)
    ELSE IF ~HasBatch \/ tcs[i].batch = None THEN Passed(i)
    ELSE /\ BatchPassed(tcs[i].batch)
         /\ \A j \in 1..Size : tcs[j].batch = tcs[i].batch =>
               \A d \in tcs[j].deps : BatchPassed(d)

CountedScore == PointsOf(tcs, {i \in 1..Size : Counted(i)})

\* A case counts exactly if the score the code computes includes it.
LEMMA CountedIs ==
    ASSUME Judged, ~sandbox.ce, NEW i \in 1..Size
    PROVE  /\ ~HasBatch => (Counted(i) <=> Padded[i].result = "AC")
           /\ HasBatch => (Counted(i) <=> Keeps(Padded, tcs, i))
<1>1. Size \in Nat /\ i \in Nat
  BY PayloadTyped DEF Judged
<1>2. \A j \in 1..Size : Padded[j].result = "AC" <=> Passed(j) /\ ~(StopOnFirst /\ FailedBefore(j))
  BY PaddedIs, ReportAll
<1>3. DOMAIN Padded = 1..Size
  BY PaddedIs
<1>4. ASSUME ~HasBatch
      PROVE  Counted(i) <=> Padded[i].result = "AC"
  <2>1. CASE StopOnFirst
    <3>1. (\A j \in 1..i : Passed(j)) <=> Passed(i) /\ ~FailedBefore(i)
      <4>1. 1..i = (1..(i - 1)) \cup {i}
        BY <1>1
      <4> QED BY <4>1 DEF FailedBefore
    <3> QED BY <1>2, <2>1, <3>1 DEF Counted
  <2>2. CASE ~StopOnFirst
    BY <1>2, <1>4, <2>2 DEF Counted
  <2> QED BY <2>1, <2>2
<1>5. ASSUME HasBatch
      PROVE  Counted(i) <=> Keeps(Padded, tcs, i)
  <2>1. ~StopOnFirst
    BY <1>5 DEF StopOnFirst
  <2>2. \A j \in 1..Size : Padded[j].result = "AC" <=> Passed(j)
    BY <1>2, <2>1
  <2>3. \A b : BatchPassed(b) <=> AllAc(Padded, tcs, b)
    BY <1>3, <2>2 DEF BatchPassed, AllAc
  <2>4. CASE tcs[i].batch = None
    BY <2>1, <2>2, <2>4 DEF Counted, Keeps
  <2>5. CASE tcs[i].batch # None
    <3>1. Counted(i) <=> /\ BatchPassed(tcs[i].batch)
                       /\ \A j \in 1..Size : tcs[j].batch = tcs[i].batch =>
                             \A d \in tcs[j].deps : BatchPassed(d)
      BY <1>5, <2>1, <2>5 DEF Counted
    <3>2. BatchPassed(tcs[i].batch) <=>
             \A j \in 1..Size : tcs[j].batch = tcs[i].batch => Padded[j].result = "AC"
      BY <2>2 DEF BatchPassed
    <3>3. \A j \in 1..Size : tcs[j].batch = tcs[i].batch =>
             (Blocked(Padded, tcs, j) <=> ~\A d \in tcs[j].deps : BatchPassed(d))
      BY <2>3, <2>5 DEF Blocked
    <3>4. Keeps(Padded, tcs, i) <=>
             \A j \in 1..Size : tcs[j].batch = tcs[i].batch =>
                Padded[j].result = "AC" /\ ~Blocked(Padded, tcs, j)
      BY <1>3, <2>5 DEF Keeps
    <3> QED BY <3>1, <3>2, <3>3, <3>4
  <2> QED BY <2>4, <2>5
<1> QED BY <1>4, <1>5

\* No cases, no points.
LEMMA NoPoints ==
    ASSUME NEW c
    PROVE  PointsOf(c, {}) = 0
<1>1. IsFiniteSet({})
  BY FS_EmptySet
<1> QED BY <1>1, SumChoose DEF PointsOf

\* Lists that agree on the points of the cases in S have the same sum there.
LEMMA SamePoints ==
    ASSUME NEW D, IsFiniteSet(D), NEW c, NEW d, DOMAIN c = D, DOMAIN d = D,
           \A i \in D : c[i].points \in Int /\ d[i].points \in Int,
           NEW S \in SUBSET D, \A i \in S : d[i].points = c[i].points
    PROVE  PointsOf(c, S) = PointsOf(d, S)
<1> DEFINE f == [i \in D |-> c[i].points]
           g == [i \in D |-> d[i].points]
<1>1. PointsOf(c, S) = SumFunctionOnSet(f, S) /\ PointsOf(d, S) = SumFunctionOnSet(g, S)
  BY DEF PointsOf
<1>2. f \in [D -> Int] /\ g \in [D -> Int]
  OBVIOUS
<1>3. \A i \in S : g[i] = f[i]
  OBVIOUS
<1> HIDE DEF f, g
<1>4. SumFunctionOnSet(f, S) = SumFunctionOnSet(g, S)
  BY <1>2, <1>3, SumSame
<1> QED BY <1>1, <1>4

\* The score is the sum of what counts.
LEMMA ScoreIs ==
    ASSUME Judged
    PROVE  Scored(Padded).score = CountedScore
<1> DEFINE E == {i \in 1..Size : Counted(i)}
<1>1. Size \in Nat /\ DOMAIN tcs = 1..Size /\ \A i \in 1..Size : tcs[i] \in TestCase
  BY PayloadTyped DEF Judged
<1>2. CountedScore = PointsOf(tcs, E)
  BY DEF CountedScore
<1>3. CASE sandbox.ce
  <2>1. Padded = <<>> /\ \A i : ~Passed(i)
    BY <1>3, NothingRan
  <2>2. \A i \in 1..Size : ~Counted(i)
    <3>1. \A i \in 1..Size : i \in 1..i
      BY <1>1
    <3> QED BY <2>1, <3>1 DEF Counted, BatchPassed
  <2>3. E = {}
    BY <2>2
  <2>4. CountedScore = 0
    BY <1>2, <2>3, NoPoints
  <2>5. CASE ~HasBatch
    BY <1>3, <2>4, <2>5 DEF Scored
  <2>6. CASE HasBatch
    <3>1. Scored(Padded) = AggregateBatches(<<>>, tcs)
      BY <2>1, <2>6 DEF Scored
    <3>2. <<>> \in Seq(CaseReport) /\ Len(<<>>) = 0 /\ \A i \in 1..0 : tcs[i] \in TestCase
      OBVIOUS
    <3>3. AggregateBatches(<<>>, tcs).score = PointsOf(<<>>, Kept(<<>>, tcs))
      BY <3>2, Aggregated
    <3>4. Kept(<<>>, tcs) = {}
      BY DEF Kept
    <3> QED BY <2>4, <3>1, <3>3, <3>4, NoPoints
  <2> QED BY <2>5, <2>6
<1>4. CASE ~sandbox.ce
  <2>1. Padded \in Seq(CaseReport) /\ Len(Padded) = Size /\ DOMAIN Padded = 1..Size
    BY <1>4, PaddedIs
  <2>2. \A i \in 1..Size : Padded[i].points \in Int /\ tcs[i].points \in Int
    <3>1. \A i \in 1..Size : Padded[i] \in CaseReport
      BY <1>1, <2>1
    <3>2. \A c \in CaseReport : c.points \in Int
      BY DEF CaseReport
    <3>3. \A c \in TestCase : c.points \in Int
      BY DEF TestCase
    <3> QED BY <1>1, <3>1, <3>2, <3>3
  <2>3. \A i \in 1..Size : Padded[i].result = "AC" => Padded[i].points = tcs[i].points
    <3>1. \A i \in 1..Size : Report(i).result = "AC" => Report(i).points = tcs[i].points
      BY <1>4, ReportAll
    <3>2. \A i \in 1..Size : Padded[i] = Report(i)
      BY <1>4, PaddedIs
    <3> QED BY <3>1, <3>2
  <2>4. \A i \in E : Padded[i].result = "AC"
    <3>1. CASE ~HasBatch
      BY <1>4, <3>1, CountedIs
    <3>2. CASE HasBatch
      BY <1>4, <2>1, <3>2, CountedIs DEF Keeps
    <3> QED BY <3>1, <3>2
  <2>5. PointsOf(Padded, E) = PointsOf(tcs, E)
    <3> DEFINE D == 1..Size
    <3>1. E \in SUBSET D /\ \A i \in E : tcs[i].points = Padded[i].points
      BY <2>3, <2>4
    <3>2. /\ IsFiniteSet(D) /\ DOMAIN Padded = D /\ DOMAIN tcs = D
          /\ \A i \in D : Padded[i].points \in Int /\ tcs[i].points \in Int
      BY <1>1, <2>1, <2>2, Interval
    <3> HIDE DEF D, E
    <3> QED BY <3>1, <3>2, SamePoints
  <2>6. CASE ~HasBatch
    <3>1. Scored(Padded).score = SumAccepted(Padded)
      BY <1>4, <2>6 DEF Scored
    <3>2. {i \in DOMAIN Padded : Padded[i].result = "AC"} = E
      BY <1>4, <2>1, <2>6, CountedIs
    <3> HIDE DEF E
    <3> QED BY <1>2, <2>5, <3>1, <3>2 DEF SumAccepted
  <2>7. CASE HasBatch
    <3>1. Scored(Padded).score = PointsOf(Padded, Kept(Padded, tcs))
      BY <1>1, <2>1, <2>7, Aggregated DEF Scored
    <3>2. Kept(Padded, tcs) = E
      BY <1>4, <2>1, <2>7, CountedIs DEF Kept
    <3> HIDE DEF E
    <3> QED BY <1>2, <2>5, <3>1, <3>2
  <2> QED BY <2>6, <2>7
<1> QED BY <1>3, <1>4

\* The reported cases add up to the score.
LEMMA ReportedSum ==
    ASSUME Judged
    PROVE  SumAccepted(Scored(Padded).cases) = Scored(Padded).score
<1>1. Size \in Nat /\ \A i \in 1..Size : tcs[i] \in TestCase
  BY PayloadTyped DEF Judged
<1>2. CASE ~HasBatch /\ ~sandbox.ce
  BY <1>2 DEF Scored
<1>3. CASE ~HasBatch /\ sandbox.ce
  <2>1. Padded = <<>>
    BY <1>3, NothingRan
  <2>2. Scored(Padded).cases = <<>> /\ Scored(Padded).score = 0
    BY <1>3, <2>1 DEF Scored
  <2>3. SumAccepted(<<>>) = PointsOf(<<>>, {})
    BY DEF SumAccepted
  <2> QED BY <2>2, <2>3, NoPoints
<1>4. CASE HasBatch
  <2> DEFINE n == Len(Padded)
  <2>1. Padded \in Seq(CaseReport) /\ n \in Nat /\ n <= Size
    <3>1. CASE sandbox.ce
      BY <1>1, <3>1, NothingRan
    <3>2. CASE ~sandbox.ce
      BY <1>1, <3>2, PaddedIs
    <3> QED BY <3>1, <3>2
  <2>2. \A i \in 1..n : tcs[i] \in TestCase
    BY <1>1, <2>1
  <2>3. Scored(Padded) = AggregateBatches(Padded, tcs)
    BY <1>4 DEF Scored
  <2> QED BY <2>1, <2>2, <2>3, AggregatedSum
<1> QED BY <1>2, <1>3, <1>4

\* Where has_batch sees the batches of the problem, what counts is what the rules
\* let a case earn.
LEMMA CountedIsEarned ==
    ASSUME Batched => HasBatch
    PROVE  CountedScore = ReferenceScore
<1>1. HasBatch => Batched
  BY DEF HasBatch, Batched
<1>2. StopOnFirst <=> ~payload.partial /\ ~Batched
  BY <1>1 DEF StopOnFirst
<1>3. \A i \in 1..Size : ~HasBatch => tcs[i].batch = None
  BY DEF Batched
<1>4. \A i \in 1..Size : Counted(i) <=> Earns(i)
  BY <1>2, <1>3 DEF Counted, Earns
<1>5. {i \in 1..Size : Counted(i)} = {i \in 1..Size : Earns(i)}
  BY <1>4
<1> QED BY <1>5 DEF CountedScore, ReferenceScore

\* The score of a completed task is what every case earns by the rules of
\* scoring.py, read off the sandbox's outcomes, whatever the points, batches and
\* dependencies are, unless 0 is the only batch number of the problem.
THEOREM ScoreIsReference == Spec => []ScoreMatchesReference
<1>1. Inv => ScoreMatchesReference
  BY CompletedIsGraded, ScoreIs, CountedIsEarned DEF ScoreMatchesReference, Graded
<1> QED BY <1>1, Invariance, PTL

\* A consumer that adds up the points of the reported AC cases gets the score,
\* in whatever order the batches are listed.
THEOREM ReportAddsUp == Spec => []ReportedPointsAddUp
<1>1. Inv => ReportedPointsAddUp
  BY CompletedIsGraded, ReportedSum DEF ReportedPointsAddUp, Graded
<1> QED BY <1>1, Invariance, PTL

-----------------------------------------------------------------------------

\* What the mode reports without batches, and with them.
LEMMA PlainCases ==
    ASSUME Judged, ~sandbox.ce, ~HasBatch
    PROVE  /\ Scored(Padded).cases \in Seq(CaseReport) /\ Len(Scored(Padded).cases) = Size
           /\ \A i \in 1..Size : Scored(Padded).cases[i] = Report(i)
<1>1. Scored(Padded).cases = Padded
  BY DEF Scored
<1> QED BY <1>1, PaddedIs

\* With batches, the adjusted reports in some order.
LEMMA BatchedCases ==
    ASSUME Judged, ~sandbox.ce, HasBatch
    PROVE  \E o : /\ IsPermutation(o, 1..Size)
                  /\ DOMAIN Scored(Padded).cases = 1..Size
                  /\ Len(Scored(Padded).cases) = Size
                  /\ \A p \in 1..Size : Scored(Padded).cases[p] = Adjusted(Padded, tcs, o[p])
<1> DEFINE o == Grouped(tcs, Size)
<1>1. Size \in Nat /\ \A i \in 1..Size : tcs[i] \in TestCase
  BY PayloadTyped DEF Judged
<1>2. Padded \in Seq(CaseReport) /\ Len(Padded) = Size /\ DOMAIN Padded = 1..Size
  BY PaddedIs
<1>3. IsPermutation(o, 1..Size)
  BY <1>1, GroupedPermutes
<1>4. Scored(Padded).cases = Reordered(Padded, tcs, o)
  BY <1>1, <1>2, Aggregated DEF Scored
<1> HIDE DEF o
<1>5. Scored(Padded).cases = [p \in 1..Size |-> Adjusted(Padded, tcs, o[p])]
  BY <1>2, <1>4 DEF Reordered
<1> QED BY <1>1, <1>3, <1>5

\* Whatever the order, the case numbers are 1 to Size, each once.
LEMMA ReportedOnce ==
    ASSUME Judged, ~sandbox.ce
    PROVE  /\ Len(Scored(Padded).cases) = Size
           /\ {Scored(Padded).cases[i].case_no : i \in DOMAIN Scored(Padded).cases} = 1..Size
<1> DEFINE c == Scored(Padded).cases
<1>1. Size \in Nat /\ \A i \in 1..Size : Report(i).case_no = i
  BY PayloadTyped, ReportAll DEF Judged
<1>2. CASE ~HasBatch
  <2>1. Len(c) = Size /\ DOMAIN c = 1..Size /\ \A i \in 1..Size : c[i] = Report(i)
    BY <1>2, PlainCases
  <2>2. \A i \in 1..Size : c[i].case_no = i
    BY <1>1, <2>1
  <2> HIDE DEF c
  <2>3. Len(c) = Size /\ {c[i].case_no : i \in DOMAIN c} = 1..Size
    BY <2>1, <2>2
  <2> QED BY <2>3 DEF c
<1>3. CASE HasBatch
  <2>1. PICK o : /\ IsPermutation(o, 1..Size)
                 /\ DOMAIN c = 1..Size /\ Len(c) = Size
                 /\ \A p \in 1..Size : c[p] = Adjusted(Padded, tcs, o[p])
    BY <1>3, BatchedCases
  <2>2. \A i \in 1..Size : Padded[i].case_no = i
    <3>1. \A i \in 1..Size : Padded[i] = Report(i)
      BY PaddedIs
    <3> QED BY <1>1, <3>1
  <2> HIDE DEF c
  <2>3. \A p \in 1..Size : o[p] \in 1..Size /\ c[p].case_no = o[p]
    <3>1. \A p \in 1..Size : o[p] \in 1..Size
      BY <2>1 DEF IsPermutation
    <3>2. \A i : Adjusted(Padded, tcs, i).case_no = Padded[i].case_no
      BY DEF Adjusted
    <3> QED BY <2>1, <2>2, <3>1, <3>2
  <2>4. \A i \in 1..Size : \E p \in 1..Size : o[p] = i
    BY <2>1 DEF IsPermutation
  <2>5. Len(c) = Size /\ {c[i].case_no : i \in DOMAIN c} = 1..Size
    <3> DEFINE D == 1..Size
    <3>1. DOMAIN c = D /\ (\A p \in D : c[p].case_no \in D)
      BY <2>1, <2>3
    <3>2. \A i \in D : \E p \in D : c[p].case_no = i
      BY <2>3, <2>4
    <3> HIDE DEF D
    <3>3. {c[i].case_no : i \in DOMAIN c} = D
      BY <3>1, <3>2
    <3> QED BY <2>1, <3>3 DEF D
  <2> QED BY <2>5 DEF c
<1> QED BY <1>2, <1>3

\* Unless compilation failed, every test case is reported exactly once.
THEOREM CasesReportedOnce == Spec => []EveryCaseReportedOnce
<1>1. ASSUME Inv, Completed, ~sandbox.ce
      PROVE  /\ Len(out.cases) = Size
             /\ {out.cases[i].case_no : i \in DOMAIN out.cases} = 1..Size
  <2>1. Judged /\ out = Graded
    BY <1>1, CompletedIsGraded
  <2>2. out.cases = Scored(Padded).cases
    BY <2>1 DEF Graded
  <2> QED BY <1>1, <2>1, <2>2, ReportedOnce
<1>2. Inv => EveryCaseReportedOnce
  BY <1>1 DEF EveryCaseReportedOnce
<1> QED BY <1>2, Invariance, PTL

-----------------------------------------------------------------------------

\* The first case to blame decides the result.
LEMMA Overall ==
    ASSUME NEW n \in Nat, NEW c, DOMAIN c = 1..n, NEW i \in 1..n,
           c[i].result \notin {"AC", "SKIPPED"}
    PROVE  \E m \in 1..i : /\ ComputeOverallResult(FALSE, c) = c[m].result
                           /\ c[m].result \notin {"AC", "SKIPPED"}
<1> DEFINE bad == {j \in DOMAIN c : c[j].result \notin {"AC", "SKIPPED"}}
<1>1. bad \in SUBSET Nat /\ i \in bad /\ bad # {}
  OBVIOUS
<1>2. Min(bad) \in bad /\ \A j \in bad : Min(bad) <= j
  <2> HIDE DEF bad
  <2> QED BY <1>1, MinOfNats
<1>3. ComputeOverallResult(FALSE, c) = c[Min(bad)].result
  BY <1>1 DEF ComputeOverallResult
<1>4. Min(bad) \in 1..n /\ Min(bad) <= i /\ c[Min(bad)].result \notin {"AC", "SKIPPED"}
  BY <1>1, <1>2
<1> HIDE DEF bad
<1>5. Min(bad) \in 1..i
  BY <1>4
<1> QED BY <1>3, <1>4, <1>5

\* A problem worth its cases gives full points exactly for passing them all.
LEMMA FullPoints ==
    ASSUME Judged, ~sandbox.ce, WorthItsCases(payload)
    PROVE  Scored(Padded).score >= payload.points <=> \A i \in 1..Size : Passed(i)
<1> DEFINE D == 1..Size
           E == {i \in D : Counted(i)}
           f == [i \in D |-> tcs[i].points]
<1>1. Size \in Nat /\ DOMAIN tcs = D /\ \A i \in D : tcs[i] \in TestCase
  BY PayloadTyped DEF Judged
<1>2. IsFiniteSet(D)
  BY <1>1, Interval
<1>3. f \in [D -> Int] /\ \A i \in D : f[i] > 0
  BY <1>1 DEF TestCase, WorthItsCases, tcs
<1>4. \A S : PointsOf(tcs, S) = SumFunctionOnSet(f, S)
  BY <1>1 DEF PointsOf
<1>5. payload.points = SumFunctionOnSet(f, D)
  BY <1>1, <1>4 DEF WorthItsCases, tcs
<1>6. Scored(Padded).score = SumFunctionOnSet(f, E)
  BY <1>4, ScoreIs DEF CountedScore
<1>7. E \in SUBSET D /\ D \in SUBSET D
  OBVIOUS
<1>8. SumFunctionOnSet(f, E) \in Int /\ SumFunctionOnSet(f, D) \in Int
  <2> HIDE DEF D, E, f
  <2> QED BY <1>2, <1>3, <1>7, SumInt
<1>9. ASSUME \A i \in 1..Size : Passed(i)
      PROVE  E = D
  <2>1. \A i \in D : \A j \in 1..i : Passed(j)
    BY <1>1, <1>9
  <2>2. \A b : BatchPassed(b)
    BY <1>9 DEF BatchPassed
  <2>3. \A i \in D : Counted(i)
    BY <1>9, <2>1, <2>2 DEF Counted
  <2> QED BY <2>3
<1>10. ASSUME NEW k \in 1..Size, ~Passed(k)
       PROVE  E # D
  <2>1. k \in 1..k
    BY <1>1
  <2>2. ~BatchPassed(tcs[k].batch)
    BY <1>10 DEF BatchPassed
  <2>3. ~Counted(k)
    BY <1>10, <2>1, <2>2 DEF Counted
  <2> QED BY <2>3
<1>11. E # D => SumFunctionOnSet(f, E) < SumFunctionOnSet(f, D)
  <2> HIDE DEF D, E, f
  <2> QED BY <1>2, <1>3, <1>7, SumPart
<1>12. CASE \A i \in 1..Size : Passed(i)
  <2>1. SumFunctionOnSet(f, E) = SumFunctionOnSet(f, D)
    BY <1>9, <1>12
  <2> HIDE DEF D, E, f
  <2> QED BY <1>5, <1>6, <1>8, <1>12, <2>1
<1>13. CASE ~\A i \in 1..Size : Passed(i)
  <2>1. SumFunctionOnSet(f, E) < SumFunctionOnSet(f, D)
    BY <1>10, <1>11, <1>13
  <2> HIDE DEF D, E, f
  <2> QED BY <1>5, <1>6, <1>8, <1>13, <2>1
<1> QED BY <1>12, <1>13

\* Without batches the first failed case is to blame.
LEMMA PlainBlame ==
    ASSUME Judged, ~sandbox.ce, ~HasBatch, NEW k \in 1..Size, ~Passed(k)
    PROVE  \E i \in 1..Size : Scored(Padded).cases[i].result \notin {"AC", "SKIPPED"}
<1> DEFINE F == {i \in 1..Size : ~Passed(i)}
<1>1. Size \in Nat /\ F \in SUBSET Nat /\ k \in F
  BY PayloadTyped DEF Judged
<1>2. Min(F) \in F /\ \A j \in F : Min(F) <= j
  <2> HIDE DEF F
  <2> QED BY <1>1, MinOfNats
<1>3. PICK m \in 1..Size : ~Passed(m) /\ \A j \in 1..Size : ~Passed(j) => m <= j
  BY <1>1, <1>2
<1>4. ~FailedBefore(m)
  BY <1>1, <1>3 DEF FailedBefore
<1>5. Report(m).result # "AC" /\ Report(m).result # "SKIPPED"
  BY <1>3, <1>4, ReportAll
<1>6. Scored(Padded).cases[m] = Report(m)
  BY PlainCases
<1> QED BY <1>5, <1>6

\* With batches, if every failure were hidden behind a failed dependency, the
\* failed batches would depend on each other in a circle.
LEMMA BatchedBlame ==
    ASSUME Judged, ~sandbox.ce, HasBatch, Acyclic, NEW k \in 1..Size, ~Passed(k)
    PROVE  \E i \in 1..Size : Scored(Padded).cases[i].result \notin {"AC", "SKIPPED"}
<1> DEFINE c == Scored(Padded).cases
           C == {b \in Batches : ~BatchPassed(b)}
<1>1. SUFFICES ASSUME \A i \in 1..Size : c[i].result \in {"AC", "SKIPPED"} PROVE FALSE
  OBVIOUS
<1>2. PICK o : /\ IsPermutation(o, 1..Size)
               /\ \A p \in 1..Size : c[p] = Adjusted(Padded, tcs, o[p])
  BY BatchedCases
<1> HIDE DEF c
<1>3. ~StopOnFirst
  BY DEF StopOnFirst
<1>4. /\ DOMAIN Padded = 1..Size
      /\ \A i \in 1..Size : /\ Padded[i].result = "AC" <=> Passed(i)
                            /\ Padded[i].result # "SKIPPED"
  <2>1. \A i \in 1..Size : Padded[i] = Report(i)
    BY PaddedIs
  <2>2. \A i \in 1..Size : (Report(i).result = "AC" <=> Passed(i)) /\ Report(i).result # "SKIPPED"
    BY <1>3, ReportAll
  <2>3. DOMAIN Padded = 1..Size
    BY PaddedIs
  <2> QED BY <2>1, <2>2, <2>3
<1>5. ASSUME NEW i \in 1..Size, ~Passed(i)
      PROVE  Blocked(Padded, tcs, i)
  <2>1. PICK p \in 1..Size : o[p] = i
    BY <1>2 DEF IsPermutation
  <2>2. Adjusted(Padded, tcs, i).result \in {"AC", "SKIPPED"}
    BY <1>1, <1>2, <2>1
  <2>3. Adjusted(Padded, tcs, i).result =
           IF Blocked(Padded, tcs, i) THEN "SKIPPED" ELSE Padded[i].result
    BY DEF Adjusted
  <2> QED BY <1>4, <1>5, <2>2, <2>3
<1>6. \A b : BatchPassed(b) <=> AllAc(Padded, tcs, b)
  BY <1>4 DEF BatchPassed, AllAc
<1>7. ASSUME NEW i \in 1..Size, ~Passed(i)
      PROVE  /\ tcs[i].batch \in C
             /\ \E d \in C : DependsOn(tcs[i].batch, d)
  <2>1. Blocked(Padded, tcs, i)
    BY <1>5, <1>7
  <2>2. tcs[i].batch # None
    BY <2>1 DEF Blocked
  <2>3. PICK d \in tcs[i].deps : ~BatchPassed(d)
    BY <1>6, <2>1 DEF Blocked
  <2>4. d # None
    <3>1. tcs[i] \in TestCase
      BY PayloadTyped DEF Judged
    <3> QED BY <2>3, <3>1, StandardAssumption DEF TestCase
  <2>5. \E j \in 1..Size : tcs[j].batch = d
    BY <2>3 DEF BatchPassed
  <2>6. d \in C
    BY <2>3, <2>4, <2>5 DEF Batches
  <2>7. tcs[i].batch \in C
    BY <1>7, <2>2 DEF Batches, BatchPassed
  <2>8. DependsOn(tcs[i].batch, d)
    BY <2>3 DEF DependsOn
  <2> QED BY <2>6, <2>7, <2>8
<1>8. C # {} /\ C \in SUBSET Batches
  BY <1>7
<1>9. \A a \in C : \E b \in C : DependsOn(a, b)
  <2>1. ASSUME NEW a \in C
        PROVE  \E b \in C : DependsOn(a, b)
    <3>1. PICK i \in 1..Size : tcs[i].batch = a /\ ~Passed(i)
      BY DEF BatchPassed
    <3> HIDE DEF C
    <3> QED BY <1>7, <3>1
  <2> QED BY <2>1
<1> HIDE DEF C
<1> QED BY <1>8, <1>9 DEF Acyclic

\* The overall result is AC exactly if every case passed: the score decides, and
\* a failed case is always to be seen in the list.
LEMMA AcceptedIs ==
    ASSUME Judged, WorthItsCases(payload), Acyclic
    PROVE  OverallResult(Scored(Padded)) = "AC" <=> \A i \in 1..Size : Passed(i)
<1> DEFINE c == Scored(Padded).cases
<1>1. Size \in Nat /\ 1 \in 1..Size
  BY PayloadTyped DEF Judged
<1>2. CASE sandbox.ce
  <2>1. \A i : ~Passed(i)
    BY <1>2, NothingRan
  <2>2. OverallResult(Scored(Padded)) = "CE"
    BY <1>2 DEF OverallResult
  <2> QED BY <1>1, <2>1, <2>2
<1>3. CASE ~sandbox.ce
  <2>1. Scored(Padded).score >= payload.points <=> \A i \in 1..Size : Passed(i)
    BY <1>3, FullPoints
  <2>2. CASE \A i \in 1..Size : Passed(i)
    BY <1>3, <2>1, <2>2 DEF OverallResult
  <2>3. ASSUME NEW k \in 1..Size, ~Passed(k)
        PROVE  OverallResult(Scored(Padded)) # "AC"
    <3>1. OverallResult(Scored(Padded)) = ComputeOverallResult(FALSE, c)
      BY <1>3, <2>1, <2>3 DEF OverallResult
    <3>2. PICK i \in 1..Size : c[i].result \notin {"AC", "SKIPPED"}
      BY <1>3, <2>3, PlainBlame, BatchedBlame
    <3>3. DOMAIN c = 1..Size
      <4>1. CASE HasBatch
        BY <1>3, <4>1, BatchedCases
      <4>2. CASE ~HasBatch
        BY <1>3, <4>2, PlainCases
      <4> QED BY <4>1, <4>2
    <3> HIDE DEF c
    <3>4. ComputeOverallResult(FALSE, c) # "AC"
      BY <1>1, <3>2, <3>3, Overall
    <3> QED BY <3>1, <3>4
  <2> QED BY <2>2, <2>3
<1> QED BY <1>2, <1>3

\* If the problem is worth its cases and no batches depend on each other in a
\* circle, a completed task is AC exactly if every case ran and matched.
THEOREM StandardAcceptedExactly == Spec => []AcceptedExactly
<1>1. ASSUME Inv, Completed, WorthItsCases(payload), Acyclic
      PROVE  out.result = "AC" <=> \A i \in 1..Size : Passed(i)
  <2>1. Judged /\ out = Graded
    BY <1>1, CompletedIsGraded
  <2>2. out.result = OverallResult(Scored(Padded))
    BY <2>1 DEF Graded
  <2> QED BY <1>1, <2>1, <2>2, AcceptedIs
<1>2. Inv => AcceptedExactly
  BY <1>1 DEF AcceptedExactly
<1> QED BY <1>2, Invariance, PTL

\* Under ACM rules the first failed case decides and all after it are SKIPPED.
LEMMA FirstErrorIs ==
    ASSUME Judged, ~sandbox.ce, StopOnFirst, WorthItsCases(payload),
           NEW i \in 1..Size, ~Passed(i), \A j \in 1..(i - 1) : Passed(j)
    PROVE  /\ OverallResult(Scored(Padded)) = Scored(Padded).cases[i].result
           /\ \A j \in (i + 1)..Size : Scored(Padded).cases[j].result = "SKIPPED"
<1> DEFINE c == Scored(Padded).cases
<1>1. Size \in Nat /\ i \in Nat /\ ~HasBatch
  BY PayloadTyped DEF Judged, StopOnFirst
<1>2. DOMAIN c = 1..Size /\ \A j \in 1..Size : c[j] = Report(j)
  BY <1>1, PlainCases
<1>3. ~FailedBefore(i) /\ \A j \in 1..(i - 1) : j \in 1..Size /\ Passed(j) /\ ~FailedBefore(j)
  BY <1>1 DEF FailedBefore
<1>4. Report(i).result \notin {"AC", "SKIPPED"}
  BY <1>3, ReportAll
<1>5. \A j \in 1..(i - 1) : Report(j).result = "AC"
  BY <1>3, ReportAll
<1>6. \A j \in (i + 1)..Size : j \in 1..Size /\ FailedBefore(j)
  BY <1>1 DEF FailedBefore
<1>7. \A j \in (i + 1)..Size : Report(j).result = "SKIPPED"
  BY <1>6, ReportAll
<1>8. OverallResult(Scored(Padded)) = ComputeOverallResult(FALSE, c)
  BY FullPoints DEF OverallResult
<1> HIDE DEF c
<1>9. PICK m \in 1..i : /\ ComputeOverallResult(FALSE, c) = c[m].result
                        /\ c[m].result \notin {"AC", "SKIPPED"}
  BY <1>1, <1>2, <1>4, Overall
<1>10. m = i
  <2>1. m \in 1..(i - 1) \/ m = i
    BY <1>1
  <2>2. m \in 1..(i - 1) => c[m].result = "AC"
    BY <1>2, <1>3, <1>5
  <2> QED BY <1>9, <2>1, <2>2
<1>11. OverallResult(Scored(Padded)) = c[i].result
  BY <1>8, <1>9, <1>10
<1>12. \A j \in (i + 1)..Size : c[j].result = "SKIPPED"
  BY <1>2, <1>6, <1>7
<1> QED BY <1>11, <1>12 DEF c

\* Under ACM rules the first failed case decides and all later ones are SKIPPED,
\* wherever the sandbox stopped.
THEOREM FirstErrorCounts == Spec => []FirstErrorDecides
<1>1. ASSUME Inv, Completed, ~sandbox.ce, StopOnFirst, WorthItsCases(payload),
             NEW i \in 1..Size, ~Passed(i), \A j \in 1..(i - 1) : Passed(j)
      PROVE  /\ out.result = out.cases[i].result
             /\ \A j \in (i + 1)..Size : out.cases[j].result = "SKIPPED"
  <2>1. Judged /\ out = Graded
    BY <1>1, CompletedIsGraded
  <2>2. out.result = OverallResult(Scored(Padded)) /\ out.cases = Scored(Padded).cases
    BY <2>1 DEF Graded
  <2> QED BY <1>1, <2>1, <2>2, FirstErrorIs
<1>2. Inv => FirstErrorDecides
  BY <1>1 DEF FirstErrorDecides
<1> QED BY <1>2, Invariance, PTL

-----------------------------------------------------------------------------

\* The result of finished runs is a verdict, so the answer is graded.
LEMMA GradedIsGraded ==
    ASSUME Judged
    PROVE  OverallResult(Scored(Padded)) # None
<1> DEFINE c == Scored(Padded).cases
<1>1. None \notin Verdicts \cup {"AC", "CE", "SKIPPED"}
  BY StandardAssumption DEF Verdicts, KnownStatuses
<1>2. CASE sandbox.ce \/ Scored(Padded).score >= payload.points
  BY <1>1, <1>2 DEF OverallResult
<1>3. CASE ~sandbox.ce /\ ~(Scored(Padded).score >= payload.points)
  <2>1. OverallResult(Scored(Padded)) = ComputeOverallResult(FALSE, c)
    BY <1>3 DEF OverallResult
  <2>2. Size \in Nat /\ DOMAIN c = 1..Size
    <3>1. Size \in Nat
      BY PayloadTyped DEF Judged
    <3>2. CASE HasBatch
      BY <1>3, <3>1, <3>2, BatchedCases
    <3>3. CASE ~HasBatch
      BY <1>3, <3>1, <3>3, PlainCases
    <3> QED BY <3>1, <3>2, <3>3
  <2>3. \A i \in 1..Size : c[i].result \in Verdicts \cup {"SKIPPED"}
    <3>1. \A r \in CaseReport : r.result \in Verdicts \cup {"SKIPPED"}
      BY DEF CaseReport
    <3>2. \A i \in 1..Size : Report(i) \in CaseReport /\ Padded[i] = Report(i)
      BY <1>3, ReportAll, PaddedIs
    <3>3. CASE ~HasBatch
      BY <1>3, <3>1, <3>2, <3>3, PlainCases
    <3>4. CASE HasBatch
      <4>1. PICK o : /\ IsPermutation(o, 1..Size)
                     /\ \A p \in 1..Size : c[p] = Adjusted(Padded, tcs, o[p])
        BY <1>3, <3>4, BatchedCases
      <4> HIDE DEF c
      <4>2. \A p \in 1..Size : o[p] \in 1..Size
        BY <4>1 DEF IsPermutation
      <4>3. \A i \in 1..Size : Adjusted(Padded, tcs, i).result \in Verdicts \cup {"SKIPPED"}
        <5>1. \A i \in 1..Size : Padded[i].result \in Verdicts \cup {"SKIPPED"}
          BY <3>1, <3>2
        <5>2. \A i : Adjusted(Padded, tcs, i).result = "SKIPPED"
                     \/ Adjusted(Padded, tcs, i).result = Padded[i].result
          BY DEF Adjusted
        <5> QED BY <5>1, <5>2
      <4> QED BY <4>1, <4>2, <4>3
    <3> QED BY <3>3, <3>4
  <2> HIDE DEF c
  <2>4. CASE \E i \in 1..Size : c[i].result \notin {"AC", "SKIPPED"}
    <3>1. PICK i \in 1..Size : c[i].result \notin {"AC", "SKIPPED"}
      BY <2>4
    <3>2. PICK m \in 1..i : ComputeOverallResult(FALSE, c) = c[m].result
      BY <2>2, <3>1, Overall
    <3>3. m \in 1..Size
      BY <2>2
    <3>4. c[m].result # None
      BY <1>1, <2>3, <3>3
    <3> QED BY <2>1, <3>2, <3>4
  <2>5. CASE ~\E i \in 1..Size : c[i].result \notin {"AC", "SKIPPED"}
    <3>1. {i \in DOMAIN c : c[i].result \notin {"AC", "SKIPPED"}} = {}
      BY <2>2, <2>5
    <3>2. ComputeOverallResult(FALSE, c) = "AC"
      BY <3>1 DEF ComputeOverallResult
    <3> QED BY <1>1, <2>1, <3>2
  <2> QED BY <2>4, <2>5
<1> QED BY <1>2, <1>3


\* A task that starts is an abstract task that starts.
LEMMA InitRefines == Init => Task!Init
<1> SUFFICES ASSUME Init PROVE Task!Init
  OBVIOUS
<1>1. (out.result # None) = FALSE /\ (client = "open") = FALSE /\ out.status = "PENDING"
  BY DEF Init, NoResult
<1> QED BY <1>1 DEF Init, Task!Init, Task!NoAnswer

\* Every step is a step of the abstract task or leaves it alone.
LEMMA StepRefines == Inv /\ [Next]_vars => [Task!Next]_(Task!vars)
<1> SUFFICES ASSUME Inv, [Next]_vars PROVE [Task!Next]_(Task!vars)
  OBVIOUS
<1> USE DEF Task!Next, Task!vars
<1>1. CASE BuildCases
  <2>1. Task!Enter
    BY <1>1 DEF BuildCases, Task!Enter
  <2> QED BY <2>1
<1>2. CASE BuildFails
  <2>1. Task!Fail
    BY <1>2 DEF BuildFails, Inv, Failed, Task!Fail
  <2> QED BY <2>1
<1>3. CASE RunCases
  BY <1>3 DEF RunCases
<1>4. CASE RunFails
  <2>1. Task!Fail
    BY <1>4 DEF RunFails, Failed, Task!Fail
  <2> QED BY <2>1
<1>5. CASE CompareCase
  BY <1>5 DEF CompareCase
<1>6. CASE Finish
  <2>1. /\ pc = "compare" /\ pc' = "done" /\ client' = "closed" /\ out' = Graded
    BY <1>6 DEF Finish, Graded
  <2>2. Judged
    BY <1>6 DEF Finish, Inv, Judged
  <2>3. out'.status = "COMPLETED" /\ out'.result # None
    BY <2>1, <2>2, GradedIsGraded DEF Graded
  <2>4. Task!Complete
    BY <2>1, <2>3 DEF Task!Complete
  <2> QED BY <2>4
<1>7. CASE UNCHANGED vars
  BY <1>7 DEF vars
<1> QED BY <1>1, <1>2, <1>3, <1>4, <1>5, <1>6, <1>7 DEF Next

\* StandardMode.judge implements the safety part of the abstract judge task:
\* one answer, graded exactly if COMPLETED, and the client closed by then.
THEOREM StandardImplementsTask == Spec => Task!Init /\ [][Task!Next]_(Task!vars)
BY InitRefines, StepRefines, Invariance, PTL DEF Spec
=============================================================================

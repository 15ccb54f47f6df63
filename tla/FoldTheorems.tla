---------------------------- MODULE FoldTheorems ----------------------------
(***************************************************************************)
(* What the proofs need to know of the folds of the community modules.     *)
(*                                                                         *)
(* An induction has as its hypothesis a set, of the numbers or of the      *)
(* subsets for which a claim holds, instead of a predicate: the backends   *)
(* can instantiate a set.                                                  *)
(***************************************************************************)
EXTENDS Functions, FiniteSets, FiniteSetTheorems, WellFoundedInduction, TLAPS

(***************************************************************************)
(* Induction.                                                              *)
(***************************************************************************)

\* A set of numbers that has 0, and with each number the next, has them all.
LEMMA NaturalsByInduction ==
  ASSUME NEW P \in SUBSET Nat, 0 \in P, \A n \in P : n + 1 \in P
  PROVE  P = Nat
<1> DEFINE R == OpToRel(<, Nat)
<1>1. \A m, n \in Nat : <<m, n>> \in R <=> m < n
  BY DEF OpToRel
<1> HIDE DEF R
<1>2. SUFFICES ASSUME Nat \ P # {} PROVE FALSE
  OBVIOUS
<1>3. PICK n \in Nat \ P : \A m \in Nat \ P : ~(<<m, n>> \in R)
  <2>1. IsWellFoundedOn(R, Nat)
    BY NatLessThanWellFounded DEF R
  <2>2. Nat \ P \subseteq Nat
    OBVIOUS
  <2> QED BY <1>2, <2>1, <2>2, WFMin
<1>4. n - 1 \in Nat /\ n - 1 < n
  BY <1>3
<1>5. n - 1 \in P
  BY <1>1, <1>3, <1>4
<1> QED BY <1>3, <1>5

\* Finite subsets have a size, and lose one with each element taken away.
LEMMA SubsetSizes ==
  ASSUME NEW S, IsFiniteSet(S), NEW T \in SUBSET S
  PROVE  /\ IsFiniteSet(T) /\ Cardinality(T) \in Nat
         /\ Cardinality(T) = 0 <=> T = {}
         /\ \A x \in T : Cardinality(T \ {x}) = Cardinality(T) - 1
BY FS_Subset, FS_CardinalityType, FS_EmptySet, FS_RemoveElement

\* A set of subsets that has {}, and with each subset all that have one
\* element more, has the whole set.
LEMMA SetByInduction ==
  ASSUME NEW S, IsFiniteSet(S), NEW P \in SUBSET (SUBSET S),
         {} \in P, \A T \in P : \A x \in S \ T : T \cup {x} \in P
  PROVE  S \in P
<1> DEFINE Sizes == {n \in Nat : \A T \in SUBSET S : Cardinality(T) = n => T \in P}
<1>1. 0 \in Sizes
  BY SubsetSizes
<1>2. ASSUME NEW n \in Sizes PROVE n + 1 \in Sizes
  <2>1. n \in Nat /\ \A T \in SUBSET S : Cardinality(T) = n => T \in P
    OBVIOUS
  <2>2. ASSUME NEW T \in SUBSET S, Cardinality(T) = n + 1 PROVE T \in P
    <3>1. PICK x \in T : TRUE
      BY <2>1, <2>2, SubsetSizes
    <3>2. Cardinality(T \ {x}) = n /\ T \ {x} \in SUBSET S
      BY <2>1, <2>2, SubsetSizes
    <3>3. T \ {x} \in P /\ x \in S \ (T \ {x}) /\ T = (T \ {x}) \cup {x}
      BY <2>1, <3>2
    <3> QED BY <3>3
  <2> QED BY <2>1, <2>2
<1>3. Sizes = Nat
  <2>1. Sizes \in SUBSET Nat
    OBVIOUS
  <2> HIDE DEF Sizes
  <2> QED BY <1>1, <1>2, <2>1, NaturalsByInduction
<1>4. S \in SUBSET S /\ Cardinality(S) \in Nat
  BY SubsetSizes
<1> QED BY <1>3, <1>4

(***************************************************************************)
(* Folds are well defined.                                                 *)
(***************************************************************************)

\* g folds the subsets of S, taking the elements that choose says.
Folds(g, S, base, choose, F) ==
  \A T \in SUBSET S :
    g[T] = IF T = {} THEN base ELSE F[<<choose[T], g[T \ {choose[T]}]>>]

\* There is a function that folds the subsets of a finite set.
LEMMA FoldExists ==
  ASSUME NEW S, IsFiniteSet(S), NEW V, NEW base \in V,
         NEW choose, \A T \in SUBSET S : T # {} => choose[T] \in T,
         NEW F \in [S \X V -> V]
  PROVE  \E g \in [SUBSET S -> V] : Folds(g, S, base, choose, F)
<1> DEFINE Step(g, T) == IF T = {} THEN base ELSE F[<<choose[T], g[T \ {choose[T]}]>>]
           UpTo(n, g) == \A T \in SUBSET S : Cardinality(T) <= n => g[T] = Step(g, T)
           Sizes == {n \in Nat : \E g \in [SUBSET S -> V] : UpTo(n, g)}
<1>1. 0 \in Sizes
  <2> DEFINE g == [T \in SUBSET S |-> base]
  <2>1. UpTo(0, g)
    <3> SUFFICES ASSUME NEW T \in SUBSET S, Cardinality(T) <= 0 PROVE g[T] = Step(g, T)
      OBVIOUS
    <3>1. T = {}
      BY SubsetSizes
    <3> QED BY <3>1
  <2>2. g \in [SUBSET S -> V]
    OBVIOUS
  <2> QED BY <2>1, <2>2
<1>2. ASSUME NEW n \in Sizes PROVE n + 1 \in Sizes
  <2>1. PICK g \in [SUBSET S -> V] : UpTo(n, g)
    OBVIOUS
  <2>2. n \in Nat
    OBVIOUS
  <2> DEFINE h == [T \in SUBSET S |-> Step(g, T)]
  <2>3. h \in [SUBSET S -> V]
    <3> SUFFICES ASSUME NEW T \in SUBSET S, T # {} PROVE Step(g, T) \in V
      OBVIOUS
    <3>1. choose[T] \in S /\ g[T \ {choose[T]}] \in V
      OBVIOUS
    <3>2. <<choose[T], g[T \ {choose[T]}]>> \in S \X V
      BY <3>1
    <3> QED BY <3>2
  <2>4. ASSUME NEW T \in SUBSET S, Cardinality(T) <= n + 1 PROVE h[T] = Step(h, T)
    <3>1. CASE T = {}
      BY <3>1
    <3>2. CASE T # {}
      <4> DEFINE U == T \ {choose[T]}
      <4>1. U \in SUBSET S /\ Cardinality(U) <= n
        BY <2>2, <2>4, <3>2, SubsetSizes
      <4>2. h[U] = Step(g, U) /\ g[U] = Step(g, U)
        BY <2>1, <4>1
      <4>3. h[T] = Step(g, T)
        OBVIOUS
      <4> QED BY <3>2, <4>2, <4>3
    <3> QED BY <3>1, <3>2
  <2> HIDE DEF h
  <2>5. UpTo(n + 1, h)
    BY <2>4
  <2>6. n + 1 \in Nat
    BY <2>2
  <2> HIDE DEF UpTo
  <2> QED BY <2>3, <2>5, <2>6
<1>3. Sizes = Nat
  <2>1. Sizes \in SUBSET Nat
    OBVIOUS
  <2> HIDE DEF Sizes
  <2> QED BY <1>1, <1>2, <2>1, NaturalsByInduction
<1>4. PICK g \in [SUBSET S -> V] : UpTo(Cardinality(S), g)
  <2>1. Cardinality(S) \in Sizes
    BY <1>3, SubsetSizes
  <2> QED BY <2>1
<1>5. \A T \in SUBSET S : Cardinality(T) <= Cardinality(S)
  BY FS_Subset
<1> QED BY <1>4, <1>5 DEF Folds

\* Two functions that fold the same elements in the same order agree.
LEMMA FoldUnique ==
  ASSUME NEW S, IsFiniteSet(S), NEW base, NEW F,
         NEW choose, \A T \in SUBSET S : T # {} => choose[T] \in T,
         NEW g, Folds(g, S, base, choose, F),
         NEW h, NEW U \in SUBSET S, Folds(h, U, base, choose, F)
  PROVE  g[U] = h[U]
<1> DEFINE Sizes == {n \in Nat : \A T \in SUBSET U : Cardinality(T) = n => g[T] = h[T]}
<1>1. 0 \in Sizes
  <2> SUFFICES ASSUME NEW T \in SUBSET U, Cardinality(T) = 0 PROVE g[T] = h[T]
    OBVIOUS
  <2>1. T = {}
    BY SubsetSizes
  <2> QED BY <2>1 DEF Folds
<1>2. ASSUME NEW n \in Sizes PROVE n + 1 \in Sizes
  <2>1. n \in Nat /\ \A T \in SUBSET U : Cardinality(T) = n => g[T] = h[T]
    OBVIOUS
  <2>2. ASSUME NEW T \in SUBSET U, Cardinality(T) = n + 1 PROVE g[T] = h[T]
    <3>1. T # {} /\ T \in SUBSET S
      BY <2>1, <2>2, SubsetSizes
    <3>2. choose[T] \in T /\ Cardinality(T \ {choose[T]}) = n
      BY <2>1, <2>2, <3>1, SubsetSizes
    <3>3. g[T \ {choose[T]}] = h[T \ {choose[T]}]
      BY <2>1, <3>2
    <3> QED BY <3>1, <3>3 DEF Folds
  <2> QED BY <2>1, <2>2
<1>3. Sizes = Nat
  <2>1. Sizes \in SUBSET Nat
    OBVIOUS
  <2> HIDE DEF Sizes
  <2> QED BY <1>1, <1>2, <2>1, NaturalsByInduction
<1>4. IsFiniteSet(U) /\ Cardinality(U) \in Nat
  BY SubsetSizes
<1> QED BY <1>3, <1>4

(***************************************************************************)
(* Sums.                                                                   *)
(***************************************************************************)

\* A sum is an integer; that of a set with elements is one of them and the sum
\* of the others.
LEMMA SumRecursion ==
  ASSUME NEW S, IsFiniteSet(S), NEW f, \A x \in S : f[x] \in Int
  PROVE  \A T \in SUBSET S :
           /\ SumFunctionOnSet(f, T) \in Int
           /\ T = {} => SumFunctionOnSet(f, T) = 0
           /\ T # {} => \E x \in T :
                          SumFunctionOnSet(f, T) = f[x] + SumFunctionOnSet(f, T \ {x})
<1> DEFINE C(T) == CHOOSE x \in T : TRUE
           choose == [T \in SUBSET S |-> C(T)]
           F == [p \in S \X Int |-> f[p[1]] + p[2]]
           Step(g, T) == IF T = {} THEN 0 ELSE f[C(T)] + g[T \ {C(T)}]
<1>1. \A T \in SUBSET S : T # {} => C(T) \in T /\ choose[T] = C(T)
  OBVIOUS
<1> HIDE DEF C
<1>2. F \in [S \X Int -> Int]
  OBVIOUS
<1>3. \A x \in S, n \in Int : F[<<x, n>>] = f[x] + n
  OBVIOUS
<1> HIDE DEF choose, F
<1>4. ASSUME NEW T \in SUBSET S
      PROVE  \E g \in [SUBSET T -> Int] : \A U \in SUBSET T : g[U] = Step(g, U)
  <2> DEFINE E == [p \in T \X Int |-> F[p]]
  <2>1. E \in [T \X Int -> Int]
    BY <1>2
  <2>2. PICK g \in [SUBSET T -> Int] : Folds(g, T, 0, choose, E)
    <3>1. IsFiniteSet(T) /\ 0 \in Int
      BY SubsetSizes
    <3>2. \A U \in SUBSET T : U # {} => choose[U] \in U
      BY <1>1
    <3> HIDE DEF E
    <3> QED BY <2>1, <3>1, <3>2, FoldExists
  <2>3. ASSUME NEW U \in SUBSET T PROVE g[U] = Step(g, U)
    <3>1. CASE U = {}
      BY <2>2, <3>1 DEF Folds
    <3>2. CASE U # {}
      <4>1. C(U) \in T /\ g[U \ {C(U)}] \in Int
        BY <1>1, <3>2
      <4>2. E[<<C(U), g[U \ {C(U)}]>>] = f[C(U)] + g[U \ {C(U)}]
        BY <1>3, <4>1
      <4>3. g[U] = E[<<C(U), g[U \ {C(U)}]>>]
        BY <1>1, <2>2, <3>2 DEF Folds
      <4> QED BY <3>2, <4>2, <4>3
    <3> QED BY <3>1, <3>2
  <2> QED BY <2>3
<1>5. PICK g \in [SUBSET S -> Int] : \A T \in SUBSET S : g[T] = Step(g, T)
  BY <1>4
<1>6. ASSUME NEW T \in SUBSET S PROVE SumFunctionOnSet(f, T) = g[T]
  <2> DEFINE iter == CHOOSE h : h = [U \in SUBSET T |-> Step(h, U)]
             V == Int \cup {iter[U] : U \in SUBSET T}
             G == [p \in S \X V |-> f[p[1]] + p[2]]
  <2>1. SumFunctionOnSet(f, T) = iter[T]
    BY DEF SumFunctionOnSet, FoldFunctionOnSet, MapThenFoldSet, C
  <2>2. \A U \in SUBSET T : iter[U] = Step(iter, U)
    <3>1. PICK h \in [SUBSET T -> Int] : \A U \in SUBSET T : h[U] = Step(h, U)
      BY <1>4
    <3> HIDE DEF Step
    <3>2. h = [U \in SUBSET T |-> Step(h, U)]
      BY <3>1
    <3>3. iter = [U \in SUBSET T |-> Step(iter, U)]
      BY <3>2
    <3> HIDE DEF iter
    <3> QED BY <3>3
  <2> HIDE DEF iter
  <2>3. \A x \in S, v \in V : G[<<x, v>>] = f[x] + v
    OBVIOUS
  <2>4. ASSUME NEW h, NEW R \in SUBSET S,
               \A U \in SUBSET R : h[U] \in V, \A U \in SUBSET R : h[U] = Step(h, U)
        PROVE  Folds(h, R, 0, choose, G)
    <3> SUFFICES ASSUME NEW U \in SUBSET R
                 PROVE  h[U] = IF U = {} THEN 0 ELSE G[<<choose[U], h[U \ {choose[U]}]>>]
      BY DEF Folds
    <3> HIDE DEF V, G
    <3>1. CASE U = {}
      BY <2>4, <3>1
    <3>2. CASE U # {}
      <4>1. C(U) \in S /\ h[U \ {C(U)}] \in V /\ choose[U] = C(U)
        BY <1>1, <2>4, <3>2
      <4>2. h[U] = f[C(U)] + h[U \ {C(U)}]
        BY <2>4, <3>2
      <4> QED BY <2>3, <3>2, <4>1, <4>2
    <3> QED BY <3>1, <3>2
  <2>5. Folds(g, S, 0, choose, G) /\ Folds(iter, T, 0, choose, G)
    <3> HIDE DEF G, Step
    <3> QED BY <1>5, <2>2, <2>4
  <2> HIDE DEF G, V
  <2> QED BY <1>1, <2>1, <2>5, FoldUnique
<1> TAKE T \in SUBSET S
<1>7. SumFunctionOnSet(f, T) = g[T] /\ SumFunctionOnSet(f, T \ {C(T)}) = g[T \ {C(T)}]
  BY <1>6
<1>8. g[T] \in Int /\ (T = {} => g[T] = 0)
  BY <1>5
<1>9. T # {} => C(T) \in T /\ g[T] = f[C(T)] + g[T \ {C(T)}]
  BY <1>1, <1>5
<1>10. T # {} => C(T) \in T /\ SumFunctionOnSet(f, T) = f[C(T)] + SumFunctionOnSet(f, T \ {C(T)})
  BY <1>7, <1>9
<1> QED BY <1>7, <1>8, <1>10

\* The empty sum.
LEMMA SumEmpty == ASSUME NEW f PROVE SumFunctionOnSet(f, {}) = 0
<1>1. \A x \in {} : f[x] \in Int
  OBVIOUS
<1> QED BY <1>1, SumRecursion, FS_EmptySet

\* Any element can be taken out of a sum.
LEMMA SumRemove ==
  ASSUME NEW S, IsFiniteSet(S), NEW f, \A x \in S : f[x] \in Int, NEW x \in S
  PROVE  /\ SumFunctionOnSet(f, S) \in Int /\ SumFunctionOnSet(f, S \ {x}) \in Int
         /\ SumFunctionOnSet(f, S) = f[x] + SumFunctionOnSet(f, S \ {x})
<1> DEFINE Sum(T) == SumFunctionOnSet(f, T)
           Sizes == {n \in Nat : \A T \in SUBSET S : Cardinality(T) = n =>
                                   \A y \in T : Sum(T) = f[y] + Sum(T \ {y})}
<1>1. \A T \in SUBSET S : Sum(T) \in Int
  BY SumRecursion
<1>2. \A T \in SUBSET S : T # {} => \E y \in T : Sum(T) = f[y] + Sum(T \ {y})
  BY SumRecursion
<1> HIDE DEF Sum
<1>3. 0 \in Sizes
  BY SubsetSizes
<1>4. ASSUME NEW n \in Sizes PROVE n + 1 \in Sizes
  <2>1. n \in Nat /\ \A T \in SUBSET S : Cardinality(T) = n =>
                        \A y \in T : Sum(T) = f[y] + Sum(T \ {y})
    OBVIOUS
  <2>2. ASSUME NEW T \in SUBSET S, Cardinality(T) = n + 1, NEW y \in T
        PROVE  Sum(T) = f[y] + Sum(T \ {y})
    <3>1. PICK z \in T : Sum(T) = f[z] + Sum(T \ {z})
      BY <1>2
    <3>2. CASE z = y
      BY <3>1, <3>2
    <3>3. CASE z # y
      <4>1. Cardinality(T \ {y}) = n /\ Cardinality(T \ {z}) = n
        BY <2>1, <2>2, SubsetSizes
      <4>2. Sum(T \ {z}) = f[y] + Sum((T \ {z}) \ {y})
        BY <2>1, <3>3, <4>1
      <4>3. Sum(T \ {y}) = f[z] + Sum((T \ {y}) \ {z})
        BY <2>1, <3>3, <4>1
      <4>4. (T \ {z}) \ {y} = (T \ {y}) \ {z}
        OBVIOUS
      <4>5. Sum((T \ {z}) \ {y}) = Sum((T \ {y}) \ {z}) /\ Sum((T \ {y}) \ {z}) \in Int
        BY <1>1, <4>4
      <4> QED BY <3>1, <4>2, <4>3, <4>5
    <3> QED BY <3>2, <3>3
  <2>3. n + 1 \in Nat
    BY <2>1
  <2> QED BY <2>2, <2>3
<1>5. Sizes = Nat
  <2>1. Sizes \in SUBSET Nat
    OBVIOUS
  <2> HIDE DEF Sizes
  <2> QED BY <1>3, <1>4, <2>1, NaturalsByInduction
<1>6. Cardinality(S) \in Nat
  BY SubsetSizes
<1>7. Sum(S) = f[x] + Sum(S \ {x})
  BY <1>5, <1>6
<1> QED BY <1>1, <1>7 DEF Sum

\* Sums compare as their elements do.
LEMMA SumMonotone ==
  ASSUME NEW S, IsFiniteSet(S),
         NEW f, \A x \in S : f[x] \in Int, NEW g, \A x \in S : g[x] \in Int,
         \A x \in S : f[x] <= g[x]
  PROVE  SumFunctionOnSet(f, S) <= SumFunctionOnSet(g, S)
<1> DEFINE F(T) == SumFunctionOnSet(f, T)
           G(T) == SumFunctionOnSet(g, T)
           P == {T \in SUBSET S : F(T) <= G(T)}
<1>1. {} \in P
  BY SumEmpty
<1>2. ASSUME NEW T \in P, NEW x \in S \ T PROVE T \cup {x} \in P
  <2> DEFINE U == T \cup {x}
  <2>1. U \in SUBSET S /\ IsFiniteSet(U) /\ U \ {x} = T /\ x \in U
    BY SubsetSizes
  <2>2. F(T) \in Int /\ G(T) \in Int /\ F(U) = f[x] + F(T) /\ G(U) = g[x] + G(T)
    <3> HIDE DEF U
    <3> QED BY <2>1, SumRemove
  <2>3. f[x] <= g[x] /\ f[x] \in Int /\ g[x] \in Int /\ F(T) <= G(T)
    OBVIOUS
  <2> HIDE DEF F, G
  <2> QED BY <2>1, <2>2, <2>3
<1>3. S \in P
  <2>1. P \in SUBSET (SUBSET S)
    OBVIOUS
  <2> HIDE DEF P
  <2> QED BY <1>1, <1>2, <2>1, SetByInduction
<1> QED BY <1>3

\* A sum depends on its elements only.
LEMMA SumSame ==
  ASSUME NEW S, IsFiniteSet(S), NEW f, \A x \in S : f[x] \in Int,
         NEW g, \A x \in S : g[x] = f[x]
  PROVE  SumFunctionOnSet(f, S) = SumFunctionOnSet(g, S)
<1>1. \A x \in S : g[x] \in Int /\ f[x] <= g[x] /\ g[x] <= f[x]
  OBVIOUS
<1>2. /\ SumFunctionOnSet(f, S) <= SumFunctionOnSet(g, S)
      /\ SumFunctionOnSet(g, S) <= SumFunctionOnSet(f, S)
  BY <1>1, SumMonotone
<1>3. SumFunctionOnSet(f, S) \in Int /\ SumFunctionOnSet(g, S) \in Int
  BY <1>1, SumRecursion
<1> QED BY <1>2, <1>3

\* A sum where one element changes.
LEMMA SumUpdate ==
  ASSUME NEW S, IsFiniteSet(S), NEW f, \A x \in S : f[x] \in Int,
         NEW y \in S, NEW g, \A x \in S \ {y} : g[x] = f[x], g[y] \in Int
  PROVE  /\ SumFunctionOnSet(f, S) \in Int /\ SumFunctionOnSet(g, S) \in Int
         /\ SumFunctionOnSet(g, S) = SumFunctionOnSet(f, S) + g[y] - f[y]
<1>1. \A x \in S : g[x] \in Int
  OBVIOUS
<1>2. IsFiniteSet(S \ {y})
  BY SubsetSizes
<1>3. SumFunctionOnSet(f, S \ {y}) = SumFunctionOnSet(g, S \ {y})
  BY <1>2, SumSame
<1>4. /\ SumFunctionOnSet(f, S) \in Int /\ SumFunctionOnSet(f, S \ {y}) \in Int
      /\ SumFunctionOnSet(f, S) = f[y] + SumFunctionOnSet(f, S \ {y})
  BY SumRemove
<1>5. /\ SumFunctionOnSet(g, S) \in Int
      /\ SumFunctionOnSet(g, S) = g[y] + SumFunctionOnSet(g, S \ {y})
  BY <1>1, SumRemove
<1>6. f[y] \in Int /\ g[y] \in Int
  OBVIOUS
<1> QED BY <1>3, <1>4, <1>5, <1>6

\* Sums of zeros.
LEMMA SumZero ==
  ASSUME NEW S, IsFiniteSet(S), NEW f, \A x \in S : f[x] = 0
  PROVE  SumFunctionOnSet(f, S) = 0
<1> DEFINE P == {T \in SUBSET S : SumFunctionOnSet(f, T) = 0}
<1>1. {} \in P
  BY SumEmpty
<1>2. ASSUME NEW T \in P, NEW x \in S \ T PROVE T \cup {x} \in P
  <2> DEFINE U == T \cup {x}
  <2>1. U \in SUBSET S /\ IsFiniteSet(U) /\ U \ {x} = T /\ x \in U /\ f[x] = 0
        /\ \A y \in U : f[y] \in Int
    BY SubsetSizes
  <2>2. SumFunctionOnSet(f, U) = f[x] + SumFunctionOnSet(f, T)
    <3> HIDE DEF U
    <3> QED BY <2>1, SumRemove
  <2>3. SumFunctionOnSet(f, T) = 0
    OBVIOUS
  <2> QED BY <2>1, <2>2, <2>3
<1>3. S \in P
  <2>1. P \in SUBSET (SUBSET S)
    OBVIOUS
  <2> HIDE DEF P
  <2> QED BY <1>1, <1>2, <2>1, SetByInduction
<1> QED BY <1>3

\* A part of a sum of naturals, and each element, is at most the sum.
LEMMA SumPart ==
  ASSUME NEW S, IsFiniteSet(S), NEW f, \A x \in S : f[x] \in Nat, NEW T \in SUBSET S
  PROVE  /\ SumFunctionOnSet(f, S) \in Nat /\ SumFunctionOnSet(f, T) \in Nat
         /\ SumFunctionOnSet(f, T) <= SumFunctionOnSet(f, S)
         /\ \A x \in S : f[x] <= SumFunctionOnSet(f, S)
<1> DEFINE Sum(U) == SumFunctionOnSet(f, U)
           P == {U \in SUBSET (S \ T) : Sum(T) <= Sum(T \cup U)}
<1>1. ASSUME NEW U \in SUBSET S PROVE Sum(U) \in Nat
  <2> DEFINE Z == [x \in U |-> 0]
  <2>1. IsFiniteSet(U) /\ \A x \in U : f[x] \in Int /\ Z[x] \in Int /\ Z[x] <= f[x]
    BY SubsetSizes
  <2>2. Sum(U) \in Int
    BY <2>1, SumRecursion
  <2>3. \A x \in U : Z[x] = 0
    OBVIOUS
  <2> HIDE DEF Z
  <2>4. SumFunctionOnSet(Z, U) = 0 /\ SumFunctionOnSet(Z, U) <= Sum(U)
    BY <2>1, <2>3, SumZero, SumMonotone
  <2> QED BY <2>2, <2>4
<1>2. \A x \in S : f[x] \in Int
  OBVIOUS
<1>3. {} \in P
  <2>1. T \cup {} = T
    OBVIOUS
  <2> QED BY <1>1, <2>1
<1>4. ASSUME NEW U \in P, NEW x \in (S \ T) \ U PROVE U \cup {x} \in P
  <2> DEFINE V == T \cup (U \cup {x})
  <2>1. /\ V \in SUBSET S /\ V \ {x} = T \cup U /\ x \in V /\ T \cup U \in SUBSET S
        /\ IsFiniteSet(V) /\ \A y \in V : f[y] \in Int
    BY SubsetSizes
  <2>2. Sum(V) = f[x] + Sum(T \cup U)
    <3> HIDE DEF V
    <3> QED BY <2>1, SumRemove
  <2>3. f[x] \in Nat /\ Sum(T) <= Sum(T \cup U)
    OBVIOUS
  <2>4. Sum(T) \in Nat /\ Sum(T \cup U) \in Nat
    BY <1>1, <2>1
  <2> HIDE DEF Sum
  <2> QED BY <2>2, <2>3, <2>4
<1>5. S \ T \in P
  <2>1. P \in SUBSET (SUBSET (S \ T)) /\ IsFiniteSet(S \ T)
    BY SubsetSizes
  <2> HIDE DEF P
  <2> QED BY <1>3, <1>4, <2>1, SetByInduction
<1>6. Sum(T) <= Sum(S)
  <2>1. T \cup (S \ T) = S
    OBVIOUS
  <2> QED BY <1>5, <2>1
<1>7. ASSUME NEW x \in S PROVE f[x] <= Sum(S)
  <2>1. Sum(S) = f[x] + Sum(S \ {x})
    BY <1>2, SumRemove
  <2> HIDE DEF Sum
  <2> QED BY <1>1, <2>1
<1> QED BY <1>1, <1>6, <1>7
=============================================================================

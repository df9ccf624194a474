---------------------------- MODULE MoneyProofs ----------------------------
(***************************************************************************)
(* Proofs about package money: induction over numbers and finite sets      *)
(* (stated about a set of good values, not an operator, so that a prover   *)
(* can use it), folds and sums, sorting, rounding, walks through a book,   *)
(* and the choice of an offer.                                             *)
(***************************************************************************)
EXTENDS Money, FiniteSets, FiniteSetTheorems, WellFoundedInduction, TLAPS

-----------------------------------------------------------------------------
(* Induction. *)

\* A set of naturals that is not empty has a least element.
LEMMA LeastNatural ==
    ASSUME NEW S \in SUBSET Nat, S # {}
    PROVE  \E m \in S : \A k \in S : m <= k
<1> DEFINE R == {p \in Nat \X Nat : p[1] < p[2]}
<1>1. IsWellFoundedOn(R, Nat)
  BY NatLessThanWellFounded, Zenon DEF OpToRel
<1> HIDE DEF R
<1>2. S \subseteq Nat /\ S # {}
  OBVIOUS
<1>3. \A Q, T : IsWellFoundedOn(Q, T) =>
        \A U : U \subseteq T /\ U # {} => \E x \in U : \A y \in U : ~ (<<y, x>> \in Q)
  BY WFMin, Zenon
<1>4. PICK m \in S : \A k \in S : ~ (<<k, m>> \in R)
  BY <1>1, <1>2, <1>3, Zenon
<1>5. ASSUME NEW k \in S PROVE m <= k
  <2>1. ~ (<<k, m>> \in R)
    BY <1>4
  <2>2. ~ (k < m)
    BY <2>1 DEF R
  <2> QED BY <2>2
<1> QED BY <1>5

\* Induction over the naturals, for a set of good numbers.
LEMMA NaturalInduction ==
    ASSUME NEW S, 0 \in S, \A n \in Nat : n \in S => n + 1 \in S
    PROVE  Nat \subseteq S
<1> DEFINE Bad == Nat \ S
<1> SUFFICES ASSUME Bad # {} PROVE FALSE
  OBVIOUS
<1>1. PICK m \in Bad : \A k \in Bad : m <= k
  BY LeastNatural
<1>2. m # 0 /\ m - 1 \in Nat /\ m - 1 \notin Bad
  BY <1>1
<1> QED BY <1>1, <1>2

\* Induction over the subsets of a finite set, for a set of good subsets.
LEMMA SubsetInduction ==
    ASSUME NEW S, IsFiniteSet(S), NEW Good, {} \in Good,
           \A T \in SUBSET S : \A x \in S : T \in Good /\ x \notin T => T \cup {x} \in Good
    PROVE  \A T \in SUBSET S : T \in Good
<1> DEFINE Sizes == {n \in Nat : \A T \in SUBSET S : Cardinality(T) = n => T \in Good}
<1>1. \A T \in SUBSET S : IsFiniteSet(T) /\ Cardinality(T) \in Nat
  BY FS_Subset, FS_CardinalityType
<1>2. 0 \in Sizes
  BY <1>1, FS_EmptySet
<1>3. ASSUME NEW n \in Nat, n \in Sizes PROVE n + 1 \in Sizes
  <2> SUFFICES ASSUME NEW T \in SUBSET S, Cardinality(T) = n + 1 PROVE T \in Good
    OBVIOUS
  <2>1. PICK x \in T : TRUE
    BY <1>1, FS_EmptySet
  <2>2. Cardinality(T \ {x}) = n
    <3>1. IsFiniteSet(T)
      BY <1>1
    <3>2. Cardinality(T \ {x}) = Cardinality(T) - 1
      BY <3>1, <2>1, FS_RemoveElement
    <3> QED BY <3>2
  <2>3. T \ {x} \in Good /\ T = (T \ {x}) \cup {x}
    BY <1>3, <2>1, <2>2
  <2> QED BY <2>1, <2>3
<1>4. Nat \subseteq Sizes
  <2> HIDE DEF Sizes
  <2> QED BY <1>2, <1>3, NaturalInduction
<1> QED BY <1>1, <1>4

\* The same from all smaller subsets.
LEMMA SizeInduction ==
    ASSUME NEW S, IsFiniteSet(S), NEW Good,
           \A T \in SUBSET S :
             (\A x \in T : T \ {x} \in Good) => T \in Good
    PROVE  \A T \in SUBSET S : T \in Good
<1> DEFINE Bad == {T \in SUBSET S : T \notin Good}
           Sizes == {Cardinality(T) : T \in Bad}
<1> SUFFICES ASSUME Bad # {} PROVE FALSE
  OBVIOUS
<1>1. \A T \in SUBSET S : IsFiniteSet(T) /\ Cardinality(T) \in Nat
  BY FS_Subset, FS_CardinalityType
<1>2. PICK m \in Sizes : \A k \in Sizes : m <= k
  <2>1. Sizes \in SUBSET Nat /\ Sizes # {}
    BY <1>1
  <2> HIDE DEF Sizes
  <2> QED BY <2>1, LeastNatural
<1>3. PICK T \in Bad : Cardinality(T) = m
  OBVIOUS
<1>4. ASSUME NEW x \in T PROVE T \ {x} \in Good
  <2>1. Cardinality(T \ {x}) = Cardinality(T) - 1
    BY <1>1, FS_RemoveElement
  <2>2. ~ (m <= Cardinality(T \ {x}))
    BY <1>1, <1>3, <2>1
  <2> QED BY <1>2, <2>2
<1> QED BY <1>4

-----------------------------------------------------------------------------
(* Folds: the function MapThenFoldSet chooses exists. *)

\* The elements of a finite set are taken one by one, in an order c, from b on.
Foldable(S, R, b, c, G) ==
    /\ IsFiniteSet(S) /\ b \in R /\ G \in [S \X R -> R]
    /\ \A s \in SUBSET S : s # {} => c[s] \in s
IsFold(it, S, R, b, c, G) ==
    /\ it \in [SUBSET S -> R]
    /\ \A s \in SUBSET S : it[s] = IF s = {} THEN b ELSE G[<<c[s], it[s \ {c[s]}]>>]

\* A fold over the subsets of a finite set, by any choice of the next member, exists.
LEMMA FoldExists ==
    ASSUME NEW S, NEW R, NEW b, NEW c, NEW G, Foldable(S, R, b, c, G)
    PROVE  \E it : IsFold(it, S, R, b, c, G)
<1> USE DEF Foldable
<1> DEFINE Small(n) == {s \in SUBSET S : Cardinality(s) <= n}
           Fold(it, s) == it[s] = IF s = {} THEN b ELSE G[<<c[s], it[s \ {c[s]}]>>]
           Good == {n \in Nat : \E it \in [Small(n) -> R] : \A s \in Small(n) : Fold(it, s)}
<1>1. \A s \in SUBSET S : IsFiniteSet(s) /\ Cardinality(s) \in Nat /\ Cardinality(s) <= Cardinality(S)
  BY FS_Subset, FS_CardinalityType
<1>2. \A s \in SUBSET S : s # {} => s \ {c[s]} \in SUBSET S
                                    /\ Cardinality(s \ {c[s]}) = Cardinality(s) - 1
  BY <1>1, FS_RemoveElement
<1>3. 0 \in Good
  <2>1. \A s \in Small(0) : s = {}
    BY <1>1, FS_EmptySet
  <2>2. [s \in Small(0) |-> b] \in [Small(0) -> R]
    OBVIOUS
  <2> QED BY <2>1, <2>2
<1>4. ASSUME NEW n \in Nat, n \in Good PROVE n + 1 \in Good
  <2>1. PICK it \in [Small(n) -> R] : \A s \in Small(n) : Fold(it, s)
    BY <1>4
  <2> DEFINE more == [s \in Small(n + 1) |->
                        IF s \in Small(n) THEN it[s] ELSE G[<<c[s], it[s \ {c[s]}]>>]]
  <2>2. \A s \in Small(n + 1) : s # {} => s \ {c[s]} \in Small(n) /\ c[s] \in S
    BY <1>1, <1>2
  <2>3. {} \in Small(n) /\ Small(n) \subseteq Small(n + 1)
    BY <1>1, FS_EmptySet
  <2>4. more \in [Small(n + 1) -> R]
    BY <2>2, <2>3
  <2>5. \A s \in Small(n) : more[s] = it[s]
    BY <2>3
  <2>6. ASSUME NEW s \in Small(n + 1) PROVE Fold(more, s)
    <3>1. CASE s \in Small(n)
      BY <3>1, <2>1, <2>2, <2>3, <2>5
    <3>2. CASE s \notin Small(n)
      BY <3>2, <2>2, <2>3, <2>5
    <3> QED BY <3>1, <3>2
  <2> HIDE DEF more, Fold, Small
  <2>7. \E f \in [Small(n + 1) -> R] : \A s \in Small(n + 1) : Fold(f, s)
    BY <2>4, <2>6
  <2> QED BY <2>7
<1>5. Nat \subseteq Good
  <2> HIDE DEF Good
  <2> QED BY <1>3, <1>4, NaturalInduction
<1>6. Small(Cardinality(S)) = SUBSET S /\ Cardinality(S) \in Nat
  BY <1>1, FS_CardinalityType
<1>7. PICK it \in [SUBSET S -> R] : \A s \in SUBSET S : Fold(it, s)
  <2> HIDE DEF Fold, Small
  <2>1. Cardinality(S) \in Good
    BY <1>5, <1>6
  <2> QED BY <2>1, <1>6
<1> QED BY <1>7 DEF IsFold
-----------------------------------------------------------------------------
(* Sums. *)

First(s) == CHOOSE x \in s : TRUE
SumStep(f, it, s) == IF s = {} THEN 0 ELSE f[First(s)] + it[s \ {First(s)}]
SumOn(f, S) == FoldFunctionOnSet(+, 0, f, S)

\* A sum is the first element's value and the sum of the others.
LEMMA SumUnfolds ==
    ASSUME NEW S, IsFiniteSet(S), NEW f, \A x \in S : f[x] \in Int
    PROVE  /\ SumOn(f, S) \in Int
           /\ SumOn(f, S) = IF S = {} THEN 0 ELSE f[First(S)] + SumOn(f, S \ {First(S)})
<1> DEFINE Rule(it, T) == it = [s \in SUBSET T |-> SumStep(f, it, s)]
           sum(T) == CHOOSE it : Rule(it, T)
<1>1. \A T : SumOn(f, T) = sum(T)[T]
  BY DEF SumOn, FoldFunctionOnSet, MapThenFoldSet, SumStep, First
<1>2. \A s : s # {} => First(s) \in s
  BY DEF First
<1>3. ASSUME NEW T \in SUBSET S PROVE sum(T) \in [SUBSET T -> Int] /\ Rule(sum(T), T)
  <2> DEFINE c == [s \in SUBSET T |-> First(s)]
             G == [p \in T \X Int |-> f[p[1]] + p[2]]
  <2>1. IsFiniteSet(T)
    BY FS_Subset
  <2>2. Foldable(T, Int, 0, c, G)
    BY <1>2, <2>1 DEF Foldable
  <2>3. PICK it : IsFold(it, T, Int, 0, c, G)
    <3> HIDE DEF G, c
    <3> QED BY <2>2, FoldExists
  <2>4. ASSUME NEW s \in SUBSET T
        PROVE  (IF s = {} THEN 0 ELSE G[<<c[s], it[s \ {c[s]}]>>]) = SumStep(f, it, s)
    <3>1. c[s] = First(s) /\ (s # {} => First(s) \in T /\ s \ {First(s)} \in SUBSET T)
      BY <1>2
    <3>2. s # {} => it[s \ {First(s)}] \in Int
      BY <2>3, <3>1 DEF IsFold
    <3>3. \A x \in T, y \in Int : G[<<x, y>>] = f[x] + y
      OBVIOUS
    <3> HIDE DEF G, c
    <3> QED BY <3>1, <3>2, <3>3 DEF SumStep
  <2>5. Rule(it, T)
    <3>1. it = [s \in SUBSET T |-> it[s]]
      BY <2>3 DEF IsFold
    <3>2. \A s \in SUBSET T : it[s] = SumStep(f, it, s)
      <4> HIDE DEF G, c
      <4> QED BY <2>3, <2>4 DEF IsFold
    <3> QED BY <3>1, <3>2
  <2>6. Rule(sum(T), T)
    BY <2>5
  <2>7. \A s \in SUBSET T : sum(T)[s] = SumStep(f, sum(T), s)
    BY <2>6
  <2> HIDE DEF sum
  <2>8. \A s \in SUBSET T : sum(T)[s] \in Int
    <3> DEFINE Good == {s \in SUBSET T : sum(T)[s] \in Int}
    <3>1. \A s \in SUBSET T : (\A x \in s : s \ {x} \in Good) => s \in Good
      <4> SUFFICES ASSUME NEW s \in SUBSET T, \A x \in s : s \ {x} \in Good
                   PROVE  SumStep(f, sum(T), s) \in Int
        BY <2>7
      <4>1. s # {} => First(s) \in s /\ f[First(s)] \in Int /\ s \ {First(s)} \in Good
        BY <1>2
      <4>2. s # {} => sum(T)[s \ {First(s)}] \in Int
        BY <4>1
      <4> QED BY <4>1, <4>2 DEF SumStep
    <3> HIDE DEF Good
    <3>2. \A s \in SUBSET T : s \in Good
      BY <2>1, <3>1, SizeInduction
    <3> QED BY <3>2 DEF Good
  <2> QED BY <2>6, <2>8
<1>4. ASSUME NEW T \in SUBSET S PROVE \A s \in SUBSET T : sum(T)[s] = sum(S)[s]
  <2>1. \A s \in SUBSET T : /\ sum(T)[s] = SumStep(f, sum(T), s)
                            /\ sum(S)[s] = SumStep(f, sum(S), s)
    <3>1. Rule(sum(T), T) /\ Rule(sum(S), S)
      <4> HIDE DEF sum, Rule
      <4> QED BY <1>3
    <3> HIDE DEF sum
    <3> QED BY <3>1
  <2> HIDE DEF sum
  <2> DEFINE Good == {s \in SUBSET T : sum(T)[s] = sum(S)[s]}
  <2>2. \A s \in SUBSET T : (\A x \in s : s \ {x} \in Good) => s \in Good
    BY <1>2, <2>1 DEF SumStep
  <2> HIDE DEF Good
  <2>3. \A s \in SUBSET T : s \in Good
    BY <2>2, SizeInduction, FS_Subset
  <2> QED BY <2>3 DEF Good
<1>5. sum(S)[S] \in Int /\ sum(S)[S] = SumStep(f, sum(S), S)
  <2> HIDE DEF sum
  <2>1. S \in SUBSET S
    OBVIOUS
  <2> QED BY <1>3, <2>1
<1>6. S # {} => S \ {First(S)} \in SUBSET S
  OBVIOUS
<1>7. S # {} => SumOn(f, S \ {First(S)}) = sum(S)[S \ {First(S)}]
  BY <1>1, <1>4, <1>6
<1> HIDE DEF sum
<1> QED BY <1>1, <1>5, <1>7 DEF SumStep
\* So is it with any element in the place of the first.
LEMMA SumSplits ==
    ASSUME NEW S, IsFiniteSet(S), NEW f, \A x \in S : f[x] \in Int, NEW y \in S
    PROVE  SumOn(f, S) = f[y] + SumOn(f, S \ {y})
<1> DEFINE Good == {T \in SUBSET S : \A x \in T : SumOn(f, T) = f[x] + SumOn(f, T \ {x})}
<1>1. ASSUME NEW T \in SUBSET S, \A x \in T : T \ {x} \in Good PROVE T \in Good
  <2> SUFFICES ASSUME NEW x \in T PROVE SumOn(f, T) = f[x] + SumOn(f, T \ {x})
    OBVIOUS
  <2> DEFINE c == First(T)
  <2>1. c \in T
    BY DEF First
  <2> HIDE DEF c
  <2>2. SumOn(f, T) = f[c] + SumOn(f, T \ {c})
    BY SumUnfolds, FS_Subset DEF c
  <2>3. CASE x # c
    <3> DEFINE rest == SumOn(f, (T \ {c}) \ {x})
    <3>1. SumOn(f, T \ {c}) = f[x] + rest
      BY <1>1, <2>1, <2>3
    <3>2. (T \ {c}) \ {x} = (T \ {x}) \ {c}
      OBVIOUS
    <3>3. SumOn(f, T \ {x}) = f[c] + rest
      BY <1>1, <2>1, <2>3, <3>2
    <3>4. rest \in Int
      BY SumUnfolds, FS_Subset
    <3>5. f[x] \in Int /\ f[c] \in Int
      BY <2>1
    <3> HIDE DEF rest
    <3> QED BY <2>2, <3>1, <3>3, <3>4, <3>5
  <2> QED BY <2>2, <2>3
<1> HIDE DEF Good
<1>2. S \in SUBSET S
  OBVIOUS
<1>3. S \in Good
  BY <1>1, <1>2, SizeInduction
<1> QED BY <1>3 DEF Good

\* The sum of nothing.
LEMMA SumEmpty == ASSUME NEW f PROVE SumOn(f, {}) = 0
  BY SumUnfolds, FS_EmptySet

\* The sum of zeros is zero.
LEMMA SumZero ==
    ASSUME NEW S, IsFiniteSet(S), NEW f, \A x \in S : f[x] = 0
    PROVE  SumOn(f, S) = 0
<1> DEFINE Good == {T \in SUBSET S : SumOn(f, T) = 0}
<1>1. {} \in Good
  BY SumEmpty
<1>2. ASSUME NEW T \in SUBSET S, NEW x \in S, T \in Good, x \notin T
      PROVE  T \cup {x} \in Good
  <2> DEFINE U == T \cup {x}
  <2>1. IsFiniteSet(U) /\ U \ {x} = T /\ x \in U
    BY <1>2, FS_Subset
  <2>2. \A y \in U : f[y] \in Int
    OBVIOUS
  <2>3. SumOn(f, U) = f[x] + SumOn(f, T)
    BY <2>1, <2>2, SumSplits
  <2> QED BY <1>2, <2>3
<1> HIDE DEF Good
<1>3. S \in Good
  BY <1>1, <1>2, SubsetInduction
<1> QED BY <1>3 DEF Good

\* Values that are nowhere greater have no greater sum.
LEMMA SumMonotone ==
    ASSUME NEW S, IsFiniteSet(S), NEW f, NEW g,
           \A x \in S : f[x] \in Int /\ g[x] \in Int /\ f[x] <= g[x]
    PROVE  SumOn(f, S) <= SumOn(g, S)
<1> DEFINE Good == {T \in SUBSET S : SumOn(f, T) <= SumOn(g, T)}
<1>1. {} \in Good
  BY SumEmpty, FS_EmptySet
<1>2. ASSUME NEW T \in SUBSET S, NEW x \in S, T \in Good, x \notin T
      PROVE  T \cup {x} \in Good
  <2> DEFINE U == T \cup {x}
  <2>1. IsFiniteSet(T) /\ IsFiniteSet(U) /\ U \ {x} = T /\ x \in U
    BY <1>2, FS_Subset
  <2>2. SumOn(f, U) = f[x] + SumOn(f, T) /\ SumOn(g, U) = g[x] + SumOn(g, T)
    BY <2>1, SumSplits
  <2>3. SumOn(f, T) \in Int /\ SumOn(g, T) \in Int
    BY <2>1, SumUnfolds
  <2> QED BY <1>2, <2>2, <2>3
<1> HIDE DEF Good
<1>3. S \in Good
  BY <1>1, <1>2, SubsetInduction
<1> QED BY <1>3 DEF Good

\* A sum depends on the values alone.
LEMMA SumEqual ==
    ASSUME NEW S, IsFiniteSet(S), NEW f, NEW g, \A x \in S : f[x] \in Int /\ f[x] = g[x]
    PROVE  SumOn(f, S) = SumOn(g, S)
<1>1. SumOn(f, S) <= SumOn(g, S) /\ SumOn(g, S) <= SumOn(f, S)
  BY SumMonotone
<1>2. SumOn(f, S) \in Int /\ SumOn(g, S) \in Int
  BY SumUnfolds
<1> QED BY <1>1, <1>2

\* The sum of values that are those of f and k times those of g.
LEMMA SumOfScaled ==
    ASSUME NEW S, IsFiniteSet(S), NEW f, NEW g, NEW h, NEW k \in Int,
           \A x \in S : f[x] \in Int /\ g[x] \in Int /\ h[x] = f[x] + k * g[x]
    PROVE  SumOn(h, S) = SumOn(f, S) + k * SumOn(g, S)
<1> DEFINE Good == {T \in SUBSET S : SumOn(h, T) = SumOn(f, T) + k * SumOn(g, T)}
<1>1. {} \in Good
  BY SumEmpty, FS_EmptySet
<1>2. ASSUME NEW T \in SUBSET S, NEW x \in S, T \in Good, x \notin T
      PROVE  T \cup {x} \in Good
  <2> DEFINE U == T \cup {x}
  <2>1. IsFiniteSet(T) /\ IsFiniteSet(U) /\ U \ {x} = T /\ x \in U
    BY <1>2, FS_Subset
  <2>2. \A y \in S : h[y] \in Int
    OBVIOUS
  <2>3. SumOn(f, U) = f[x] + SumOn(f, T) /\ SumOn(g, U) = g[x] + SumOn(g, T)
        /\ SumOn(h, U) = h[x] + SumOn(h, T)
    BY <2>1, <2>2, SumSplits
  <2>4. SumOn(f, T) \in Int /\ SumOn(g, T) \in Int
    BY <2>1, SumUnfolds
  <2>5. \A a, b, c, d \in Int : (a + k * b) + (c + k * d) = (a + c) + k * (b + d)
    OBVIOUS
  <2> QED BY <1>2, <2>3, <2>4, <2>5
<1> HIDE DEF Good
<1>3. S \in Good
  BY <1>1, <1>2, SubsetInduction
<1> QED BY <1>3 DEF Good

\* A sum does not depend on what its values are called.
Names(p, S) == {p[x] : x \in S}
Renamed(S, p, f, g) == /\ \A x, y \in S : p[x] = p[y] => x = y
                       /\ \A x \in S : f[p[x]] \in Int /\ g[x] = f[p[x]]
\* Renaming the members leaves the sum as it is.
LEMMA SumMapped ==
    ASSUME NEW S, IsFiniteSet(S), NEW f, NEW p, NEW g, Renamed(S, p, f, g)
    PROVE  SumOn(f, Names(p, S)) = SumOn(g, S)
<1> USE DEF Renamed, Names
<1> DEFINE Good == {T \in SUBSET S : IsFiniteSet({p[y] : y \in T}) /\ SumOn(f, {p[y] : y \in T}) = SumOn(g, T)}
<1>1. {} \in Good
  BY SumEmpty, FS_EmptySet
<1>2. ASSUME NEW T \in SUBSET S, NEW x \in S, T \in Good, x \notin T
      PROVE  T \cup {x} \in Good
  <2> DEFINE U == T \cup {x}
  <2>1. IsFiniteSet(T) /\ IsFiniteSet(U) /\ U \ {x} = T /\ x \in U
    BY <1>2, FS_Subset
  <2> DEFINE V == {p[y] : y \in T}
             W == {p[y] : y \in U}
  <2>2. W = V \cup {p[x]} /\ p[x] \notin V /\ W \ {p[x]} = V
    BY <1>2
  <2>3. IsFiniteSet(V)
    BY <1>2
  <2>4. \A z \in W : f[z] \in Int
    OBVIOUS
  <2>5. SumOn(g, U) = g[x] + SumOn(g, T)
    BY <2>1, SumSplits
  <2>6. SumOn(f, V) = SumOn(g, T)
    BY <1>2
  <2> HIDE DEF V, W
  <2>7. IsFiniteSet(W)
    BY <2>2, <2>3, FS_AddElement
  <2>8. SumOn(f, W) = f[p[x]] + SumOn(f, V)
    BY <2>2, <2>4, <2>7, SumSplits
  <2>9. IsFiniteSet(W) /\ SumOn(f, W) = SumOn(g, U)
    BY <2>5, <2>6, <2>7, <2>8
  <2> QED BY <2>9 DEF W
<1> HIDE DEF Good
<1>3. S \in Good
  BY <1>1, <1>2, SubsetInduction
<1> QED BY <1>3 DEF Good
-----------------------------------------------------------------------------
(* Sorting. *)

\* Among finitely many numbers there is a greatest.
LEMMA GreatestExists ==
    ASSUME NEW S, IsFiniteSet(S), S # {}, NEW k, \A x \in S : k[x] \in Int
    PROVE  \E m \in S : \A x \in S : k[x] <= k[m]
<1> DEFINE Good == {T \in SUBSET S : T # {} => \E m \in T : \A x \in T : k[x] <= k[m]}
<1>1. {} \in Good
  OBVIOUS
<1>2. ASSUME NEW T \in SUBSET S, NEW x \in S, T \in Good, x \notin T
      PROVE  T \cup {x} \in Good
  <2>1. CASE T = {}
    BY <2>1
  <2>2. CASE T # {}
    <3>1. PICK m \in T : \A y \in T : k[y] <= k[m]
      BY <1>2, <2>2
    <3>2. CASE k[x] <= k[m]
      BY <3>1, <3>2
    <3>3. CASE ~ (k[x] <= k[m])
      <4>1. \A y \in T : k[y] <= k[x]
        BY <3>1, <3>3
      <4> QED BY <4>1
    <3> QED BY <3>2, <3>3
  <2> QED BY <2>1, <2>2
<1> HIDE DEF Good
<1>3. S \in Good
  BY <1>1, <1>2, SubsetInduction
<1> QED BY <1>3 DEF Good

Arrangements(n) == Bijection(1..n, 1..n)
InOrder(k, p, n) == \A i, j \in 1..n : i < j => k[p[i]] <= k[p[j]]

\* An arrangement takes every place once.
LEMMA ArrangementIs ==
    ASSUME NEW n, NEW p
    PROVE  p \in Arrangements(n) <=>
             /\ p \in [1..n -> 1..n]
             /\ \A i, j \in 1..n : p[i] = p[j] => i = j
             /\ \A t \in 1..n : \E i \in 1..n : p[i] = t
  BY DEF Arrangements, Bijection, Injection, Surjection, IsInjective

\* Numbers can be arranged in order.
Arrangeable(l) == \A f \in [1..l -> Int] : \E p \in Arrangements(l) : InOrder(f, p, l)

\* With one number more the greatest is put last.
LEMMA OneMoreArrangeable ==
    ASSUME NEW l \in Nat, Arrangeable(l), NEW f \in [1..(l + 1) -> Int]
    PROVE  \E p \in Arrangements(l + 1) : InOrder(f, p, l + 1)
<1> DEFINE N == l + 1
<1>1. 1..N = 1..l \cup {N} /\ N \notin 1..l /\ \A i \in 1..N : f[i] \in Int
  OBVIOUS
<1>2. IsFiniteSet(1..N) /\ 1..N # {}
  <2>1. 1 \in Int /\ N \in Int /\ N \in 1..N
    OBVIOUS
  <2> HIDE DEF N
  <2> QED BY <2>1, FS_Interval
<1>3. PICK m \in 1..N : \A x \in 1..N : f[x] <= f[m]
  <2> HIDE DEF N
  <2> QED BY <1>1, <1>2, GreatestExists
<1> DEFINE rest == [i \in 1..l |-> IF i = m THEN f[N] ELSE f[i]]
<1>4. rest \in [1..l -> Int]
  BY <1>1
<1>5. PICK p \in Arrangements(l) : InOrder(rest, p, l)
  BY <1>4 DEF Arrangeable
<1>6. p \in [1..l -> 1..l] /\ (\A i, j \in 1..l : p[i] = p[j] => i = j)
      /\ (\A t \in 1..l : \E i \in 1..l : p[i] = t)
  BY <1>5, ArrangementIs
<1> DEFINE q == [i \in 1..N |-> IF i = N THEN m ELSE IF p[i] = m THEN N ELSE p[i]]
<1>7. /\ q[N] = m
      /\ \A i \in 1..l : q[i] = IF p[i] = m THEN N ELSE p[i]
  BY <1>1
<1>8. q \in [1..N -> 1..N]
  BY <1>1, <1>3, <1>6
<1>9. \A i \in 1..l : f[q[i]] = rest[p[i]] /\ f[q[i]] \in Int
  BY <1>1, <1>6, <1>7
<1> HIDE DEF q, rest, N
<1>10. ASSUME NEW i \in 1..N, NEW j \in 1..N, q[i] = q[j] PROVE i = j
  <2>1. ASSUME NEW x \in 1..l PROVE p[x] \in 1..l /\ q[x] # m
    <3>1. p[x] \in 1..l
      BY <1>6
    <3>2. q[x] = IF p[x] = m THEN N ELSE p[x]
      BY <1>7
    <3> QED BY <3>1, <3>2, <1>1
  <2>2. CASE i = N \/ j = N
    BY <2>1, <2>2, <1>1, <1>7, <1>10
  <2>3. CASE i # N /\ j # N
    <3>1. i \in 1..l /\ j \in 1..l
      BY <2>3, <1>1
    <3>2. p[i] = p[j]
      BY <3>1, <2>1, <1>1, <1>7, <1>10
    <3> QED BY <3>1, <3>2, <1>6
  <2> QED BY <2>2, <2>3
<1>11. ASSUME NEW t \in 1..N PROVE \E i \in 1..N : q[i] = t
  <2>1. CASE t = m
    BY <2>1, <1>1, <1>7
  <2>2. CASE t # m /\ t = N
    BY <2>2, <1>1, <1>3, <1>6, <1>7
  <2>3. CASE t # m /\ t # N
    BY <2>3, <1>1, <1>3, <1>6, <1>7
  <2> QED BY <2>1, <2>2, <2>3
<1>12. q \in Arrangements(N)
  BY <1>8, <1>10, <1>11, ArrangementIs
<1>13. \A i \in 1..N : f[q[i]] <= f[q[N]]
  BY <1>3, <1>7, <1>8
<1>14. InOrder(f, q, N)
  <2> SUFFICES ASSUME NEW i \in 1..N, NEW j \in 1..N, i < j PROVE f[q[i]] <= f[q[j]]
    BY DEF InOrder
  <2>1. CASE j = N
    BY <2>1, <1>13
  <2>2. CASE j # N
    <3>1. i \in 1..l /\ j \in 1..l
      BY <2>2 DEF N
    <3>2. rest[p[i]] <= rest[p[j]]
      BY <1>5, <3>1 DEF InOrder
    <3> QED BY <1>9, <3>1, <3>2
  <2> QED BY <2>1, <2>2
<1> QED BY <1>12, <1>14 DEF N

\* Any finite list of numbers can be put in order: Sorted has something to choose.
LEMMA ArrangementExists == \A n \in Nat : Arrangeable(n)
<1> DEFINE Good == {n \in Nat : Arrangeable(n)}
<1>1. Arrangeable(0)
  <2>1. [i \in 1..0 |-> i] \in Arrangements(0)
    BY ArrangementIs
  <2> QED BY <2>1 DEF Arrangeable, InOrder
<1>2. \A l \in Nat : Arrangeable(l) => Arrangeable(l + 1)
  BY OneMoreArrangeable DEF Arrangeable
<1>3. 0 \in Good /\ \A l \in Nat : l \in Good => l + 1 \in Good
  BY <1>1, <1>2
<1> HIDE DEF Good
<1>4. Nat \subseteq Good
  BY <1>3, NaturalInduction
<1> QED BY <1>4 DEF Good

\* Sorted asks are the same asks, the cheapest first.
LEMMA AsksSorted ==
    ASSUME NEW asks \in Seq(LevelType)
    PROVE  \E p \in Arrangements(Len(asks)) :
             /\ BestAsks(asks) = [i \in 1..Len(asks) |-> asks[p[i]]]
             /\ \A i, j \in 1..Len(asks) : i < j => asks[p[i]].price <= asks[p[j]].price
<1> DEFINE n == Len(asks)
           k == [i \in 1..n |-> asks[i].price]
           Fit(p) == \A i, j \in DOMAIN asks : i < j => ~ Cheaper(asks[p[j]], asks[p[i]])
           order == CHOOSE p \in Bijection(DOMAIN asks, DOMAIN asks) : Fit(p)
<1>1. DOMAIN asks = 1..n /\ n \in Nat /\ \A i \in 1..n : asks[i] \in LevelType
  OBVIOUS
<1>2. k \in [1..n -> Int]
  BY <1>1 DEF LevelType
<1>3. PICK p \in Arrangements(n) : InOrder(k, p, n)
  BY <1>1, <1>2, ArrangementExists DEF Arrangeable
<1>4. ASSUME NEW o \in Arrangements(n), NEW i \in 1..n
      PROVE  o[i] \in 1..n /\ asks[o[i]].price \in Int
  <2>1. o[i] \in 1..n
    <3> HIDE DEF n
    <3>1. o \in [1..n -> 1..n]
      BY ArrangementIs
    <3> QED BY <3>1
  <2> QED BY <1>1, <2>1 DEF LevelType
<1>5. Fit(p)
  <2> SUFFICES ASSUME NEW i \in 1..n, NEW j \in 1..n, i < j
               PROVE  ~ Cheaper(asks[p[j]], asks[p[i]])
    BY <1>1
  <2>1. k[p[i]] <= k[p[j]]
    BY <1>3 DEF InOrder
  <2>2. p[i] \in 1..n /\ p[j] \in 1..n
    BY <1>3, <1>4
  <2>3. asks[p[i]].price \in Int /\ asks[p[j]].price \in Int
    BY <1>3, <1>4
  <2> QED BY <2>1, <2>2, <2>3 DEF Cheaper
<1>6. order \in Bijection(DOMAIN asks, DOMAIN asks) /\ Fit(order)
  <2> HIDE DEF Fit
  <2> QED BY <1>1, <1>3, <1>5 DEF Arrangements
<1>7. BestAsks(asks) = [i \in DOMAIN asks |-> asks[order[i]]]
  BY DEF BestAsks, Sorted
<1> HIDE DEF order
<1>8. order \in Arrangements(n)
  BY <1>1, <1>6 DEF Arrangements
<1>9. \A i, j \in 1..n : i < j => asks[order[i]].price <= asks[order[j]].price
  <2> SUFFICES ASSUME NEW i \in 1..n, NEW j \in 1..n, i < j
               PROVE  asks[order[i]].price <= asks[order[j]].price
    OBVIOUS
  <2>1. ~ Cheaper(asks[order[j]], asks[order[i]])
    BY <1>1, <1>6
  <2>2. asks[order[i]].price \in Int /\ asks[order[j]].price \in Int
    BY <1>4, <1>8
  <2> QED BY <2>1, <2>2 DEF Cheaper
<1> QED BY <1>1, <1>7, <1>8, <1>9

\* Sorted bids are the same bids, the dearest first.
LEMMA BidsSorted ==
    ASSUME NEW bids \in Seq(LevelType)
    PROVE  \E p \in Arrangements(Len(bids)) :
             /\ BestBids(bids) = [i \in 1..Len(bids) |-> bids[p[i]]]
             /\ \A i, j \in 1..Len(bids) : i < j => bids[p[i]].price >= bids[p[j]].price
<1> DEFINE n == Len(bids)
           k == [i \in 1..n |-> -bids[i].price]
           Fit(p) == \A i, j \in DOMAIN bids : i < j => ~ Dearer(bids[p[j]], bids[p[i]])
           order == CHOOSE p \in Bijection(DOMAIN bids, DOMAIN bids) : Fit(p)
<1>1. DOMAIN bids = 1..n /\ n \in Nat /\ \A i \in 1..n : bids[i] \in LevelType
  OBVIOUS
<1>2. k \in [1..n -> Int]
  BY <1>1 DEF LevelType
<1>3. PICK p \in Arrangements(n) : InOrder(k, p, n)
  BY <1>1, <1>2, ArrangementExists DEF Arrangeable
<1>4. ASSUME NEW o \in Arrangements(n), NEW i \in 1..n
      PROVE  o[i] \in 1..n /\ bids[o[i]].price \in Int
  <2>1. o[i] \in 1..n
    <3> HIDE DEF n
    <3>1. o \in [1..n -> 1..n]
      BY ArrangementIs
    <3> QED BY <3>1
  <2> QED BY <1>1, <2>1 DEF LevelType
<1>5. Fit(p)
  <2> SUFFICES ASSUME NEW i \in 1..n, NEW j \in 1..n, i < j
               PROVE  ~ Dearer(bids[p[j]], bids[p[i]])
    BY <1>1
  <2>1. k[p[i]] <= k[p[j]]
    BY <1>3 DEF InOrder
  <2>2. p[i] \in 1..n /\ p[j] \in 1..n
    BY <1>3, <1>4
  <2>3. bids[p[i]].price \in Int /\ bids[p[j]].price \in Int
    BY <1>3, <1>4
  <2> QED BY <2>1, <2>2, <2>3 DEF Dearer
<1>6. order \in Bijection(DOMAIN bids, DOMAIN bids) /\ Fit(order)
  <2> HIDE DEF Fit
  <2> QED BY <1>1, <1>3, <1>5 DEF Arrangements
<1>7. BestBids(bids) = [i \in DOMAIN bids |-> bids[order[i]]]
  BY DEF BestBids, Sorted
<1> HIDE DEF order
<1>8. order \in Arrangements(n)
  BY <1>1, <1>6 DEF Arrangements
<1>9. \A i, j \in 1..n : i < j => bids[order[i]].price >= bids[order[j]].price
  <2> SUFFICES ASSUME NEW i \in 1..n, NEW j \in 1..n, i < j
               PROVE  bids[order[i]].price >= bids[order[j]].price
    OBVIOUS
  <2>1. ~ Dearer(bids[order[j]], bids[order[i]])
    BY <1>1, <1>6
  <2>2. bids[order[i]].price \in Int /\ bids[order[j]].price \in Int
    BY <1>4, <1>8
  <2> QED BY <2>1, <2>2 DEF Dearer
<1> QED BY <1>1, <1>7, <1>8, <1>9
-----------------------------------------------------------------------------
(* Folds of sequences, from the left. *)

\* The greatest of the first numbers is the last of them.
LEMMA MaxOfFirst ==
    ASSUME NEW i \in Nat, i # 0
    PROVE  Max(1..i) = i /\ (1..i) \ {Max(1..i)} = 1..(i - 1)
<1>1. i \in 1..i /\ \A x \in 1..i : i >= x
  OBVIOUS
<1>2. \A y \in 1..i : (\A x \in 1..i : y >= x) => y = i
  BY <1>1
<1>3. Max(1..i) = i
  BY <1>1, <1>2 DEF Max
<1> QED BY <1>3

\* A set of some of the first numbers has its greatest in it.
LEMMA MaxIsIn ==
    ASSUME NEW n \in Nat, NEW s \in SUBSET (1..n), s # {}
    PROVE  Max(s) \in s /\ \A x \in s : Max(s) >= x
<1> DEFINE k == [x \in s |-> x]
<1>1. IsFiniteSet(s) /\ \A x \in s : k[x] \in Int
  <2>1. IsFiniteSet(1..n)
    BY FS_Interval
  <2>2. IsFiniteSet(s)
    BY <2>1, FS_Subset
  <2>3. \A x \in s : k[x] \in Int
    OBVIOUS
  <2> HIDE DEF k
  <2> QED BY <2>2, <2>3
<1>2. PICK m \in s : \A x \in s : k[x] <= k[m]
  <2> HIDE DEF k
  <2> QED BY <1>1, GreatestExists
<1>3. m \in s /\ \A x \in s : m >= x
  BY <1>2
<1> QED BY <1>3 DEF Max

SeqRule(it, n, b, G) ==
    \A s \in SUBSET (1..n) : it[s] = IF s = {} THEN b ELSE G[<<Max(s), it[s \ {Max(s)}]>>]

\* The function FoldLeft is defined from exists: it takes the last element first.
LEMMA FoldLeftExists ==
    ASSUME NEW n \in Nat, NEW R, NEW b \in R, NEW G \in [(1..n) \X R -> R]
    PROVE  \E it \in [SUBSET (1..n) -> R] : SeqRule(it, n, b, G)
<1> DEFINE c == [s \in SUBSET (1..n) |-> Max(s)]
<1>1. \A s \in SUBSET (1..n) : c[s] = Max(s)
  OBVIOUS
<1>2. Foldable(1..n, R, b, c, G)
  <2>1. IsFiniteSet(1..n)
    BY FS_Interval
  <2>2. \A s \in SUBSET (1..n) : s # {} => c[s] \in s
    BY MaxIsIn
  <2> HIDE DEF c
  <2> QED BY <2>1, <2>2 DEF Foldable
<1> HIDE DEF c
<1>3. PICK it : IsFold(it, 1..n, R, b, c, G)
  BY <1>2, FoldExists
<1>4. SeqRule(it, n, b, G)
  BY <1>1, <1>3 DEF IsFold, SeqRule
<1> QED BY <1>3, <1>4 DEF IsFold
-----------------------------------------------------------------------------
(* Rounding. *)

\* Quotient and remainder.
LEMMA Divided ==
    ASSUME NEW a \in Int, NEW b \in Nat \ {0}
    PROVE  a \div b \in Int /\ a % b \in 0..(b - 1) /\ a % b = a - b * (a \div b)
<1>1. a \div b \in Int /\ a % b \in 0..(b - 1)
  OBVIOUS
<1>2. a % b = a - b * (a \div b)
  BY Z3
<1> QED BY <1>1, <1>2

\* How multiplication keeps order.
LEMMA Products ==
    /\ \A a, b, c \in Int : a <= b /\ 0 <= c => a * c <= b * c
    /\ \A a, b, c \in Int : a * c < b * c /\ 0 <= c => a < b
    /\ \A a, b, c \in Int : a * c <= b * c /\ 0 < c => a <= b
  OBVIOUS

\* x is a whole number of steps.
Steps(x, step) == \E q \in Int : x = q * step

\* A whole number of steps leaves no remainder.
LEMMA StepsByRemainder ==
    ASSUME NEW x \in Int, NEW step \in Nat \ {0}
    PROVE  Steps(x, step) <=> x % step = 0
<1>1. ASSUME NEW q \in Int, x = q * step PROVE x % step = 0
  BY <1>1, Z3
<1>2. ASSUME x % step = 0 PROVE x = (x \div step) * step
  BY <1>2, Divided
<1> QED BY <1>1, <1>2, Divided DEF Steps

\* Rounded up: the least whole number of steps that is not below n / denominator.
LEMMA CeilRatioLeast ==
    ASSUME NEW n \in Int, NEW denominator \in Nat \ {0}, NEW step \in Nat \ {0}
    PROVE  LET c == CeilRatio(n, denominator, step) IN
           /\ c \in Int /\ Steps(c, step)
           /\ c * denominator >= n /\ (c - step) * denominator < n
           /\ \A x \in Int : Steps(x, step) /\ x * denominator >= n => x >= c
<1> DEFINE d == denominator * step
           q == n \div d
           r == n % d
           u == IF r > 0 THEN q + 1 ELSE q
           c == CeilRatio(n, denominator, step)
<1>1. d \in Nat \ {0}
  OBVIOUS
<1>2. q \in Int /\ r \in 0..(d - 1) /\ r = n - d * q
  <2> HIDE DEF d
  <2> QED BY <1>1, Divided
<1>3. c = u * step
  BY DEF CeilRatio
<1> HIDE DEF c, q, r
<1>4. u \in Int
  BY <1>2
<1>5. u * d >= n /\ (u - 1) * d < n
  <2> HIDE DEF d
  <2>1. CASE r > 0
    <3>1. u * d = d * q + d /\ (u - 1) * d = d * q
      BY <1>1, <1>2, <2>1
    <3> HIDE DEF u
    <3>2. \A y \in Int : r = n - y => y + d >= n /\ y < n
      BY <1>1, <1>2, <2>1
    <3> QED BY <1>1, <1>2, <3>1, <3>2
  <2>2. CASE ~ (r > 0)
    <3>1. u * d = d * q /\ (u - 1) * d = d * q - d
      BY <1>1, <1>2, <2>2
    <3> HIDE DEF u
    <3>2. \A y \in Int : r = n - y => y >= n /\ y - d < n
      BY <1>1, <1>2, <2>2
    <3> QED BY <1>1, <1>2, <3>1, <3>2
  <2> QED BY <2>1, <2>2
<1> HIDE DEF u
<1>6. c * denominator = u * d /\ (c - step) * denominator = (u - 1) * d
  BY <1>3, <1>4
<1>7. c \in Int /\ Steps(c, step)
  BY <1>3, <1>4 DEF Steps
<1>8. ASSUME NEW x \in Int, Steps(x, step), x * denominator >= n PROVE x >= c
  <2>1. PICK k \in Int : x = k * step
    BY <1>8 DEF Steps
  <2>2. x * denominator = k * d
    BY <2>1
  <2> HIDE DEF d
  <2>3. (u - 1) * d < k * d
    BY <1>1, <1>4, <1>5, <1>8, <2>2
  <2>4. u - 1 < k
    BY <1>1, <1>4, <2>3, Products
  <2>5. u * step <= k * step
    BY <1>4, <2>4, Products
  <2> QED BY <1>3, <2>1, <2>5
<1> HIDE DEF d
<1>9. c * denominator >= n /\ (c - step) * denominator < n
  BY <1>5, <1>6
<1> QED BY <1>7, <1>8, <1>9 DEF c

\* Nothing rounded up is less than it was, nor a step more.
LEMMA CeilLeast ==
    ASSUME NEW n \in Int, NEW step \in Nat \ {0}
    PROVE  LET c == Ceil(n, step) IN
           /\ c \in Int /\ Steps(c, step) /\ c >= n /\ c - step < n
           /\ \A x \in Int : Steps(x, step) /\ x >= n => x >= c
<1>1. \A x \in Int : x * 1 = x
  OBVIOUS
<1> QED BY <1>1, CeilRatioLeast DEF Ceil

-----------------------------------------------------------------------------
(* Walks through a book. *)

Books == {levels \in Seq(LevelType) : Valid(levels)}
Account == [left : Nat, money : Nat]

\* Every level of a valid book has a positive price and amount.
LEMMA LevelsPositive ==
    ASSUME NEW levels \in Books, NEW i \in 1..Len(levels)
    PROVE  /\ Len(levels) \in Nat /\ DOMAIN levels = 1..Len(levels)
           /\ levels[i].price \in Nat \ {0} /\ levels[i].amount \in Nat \ {0}
<1>1. levels \in Seq(LevelType) /\ Valid(levels)
  BY DEF Books
<1>2. Len(levels) \in Nat /\ DOMAIN levels = 1..Len(levels)
  BY <1>1
<1>3. levels[i] \in LevelType
  BY <1>1
<1>4. levels[i].price > 0 /\ levels[i].amount > 0
  BY <1>1, <1>2 DEF Valid
<1>5. levels[i].price \in Int /\ levels[i].amount \in Int
  BY <1>3 DEF LevelType
<1> QED BY <1>2, <1>4, <1>5

\* Products of naturals are naturals.
LEMMA ProductNatural == \A a, b \in Nat : a * b \in Nat
  OBVIOUS

\* Taking from one level keeps the account.
LEMMA TakeType ==
    ASSUME NEW acc \in Account, NEW l, l.price \in Nat, l.amount \in Nat
    PROVE  Take(acc, l) \in Account
<1>1. acc.left \in Nat /\ acc.money \in Nat
  BY DEF Account
<1>2. Lesser(acc.left, l.amount) \in Nat /\ Lesser(acc.left, l.amount) <= acc.left
  BY <1>1 DEF Lesser
<1>3. Lesser(acc.left, l.amount) * l.price \in Nat
  BY <1>2, ProductNatural
<1> QED BY <1>1, <1>2, <1>3 DEF Take, Account

\* A walk goes from level to level.
LEMMA WalkRuns ==
    ASSUME NEW x \in Nat, NEW levels \in Books
    PROVE  \E w \in [0..Len(levels) -> Account] :
             /\ w[0] = [left |-> x, money |-> 0]
             /\ \A i \in 1..Len(levels) : w[i] = Take(w[i - 1], levels[i])
             /\ Walk(x, levels) = w[Len(levels)]
<1> DEFINE n == Len(levels)
           base == [left |-> x, money |-> 0]
           Rule(it) == it = [s \in SUBSET DOMAIN levels |->
                               IF s = {} THEN base ELSE Take(it[s \ {Max(s)}], levels[Max(s)])]
           walk == CHOOSE it : Rule(it)
           G == [q \in (1..n) \X Account |-> Take(q[2], levels[q[1]])]
<1>1. n \in Nat /\ DOMAIN levels = 1..n /\ base \in Account
  BY DEF Books, Account
<1>2. Walk(x, levels) = walk[DOMAIN levels]
  BY DEF Walk, FoldLeft, MapThenFoldSet
<1>3. \A i \in 1..n, acc \in Account : Take(acc, levels[i]) \in Account
  BY LevelsPositive, TakeType
<1>4. G \in [(1..n) \X Account -> Account] /\ \A i \in 1..n, acc \in Account :
        G[<<i, acc>>] = Take(acc, levels[i])
  BY <1>3
<1>5. PICK it \in [SUBSET (1..n) -> Account] : SeqRule(it, n, base, G)
  <2> HIDE DEF G, base, n
  <2> QED BY <1>1, <1>4, FoldLeftExists
<1>6. ASSUME NEW s \in SUBSET (1..n)
      PROVE  it[s] = IF s = {} THEN base ELSE Take(it[s \ {Max(s)}], levels[Max(s)])
  <2> HIDE DEF G, base, n
  <2>1. it[s] = IF s = {} THEN base ELSE G[<<Max(s), it[s \ {Max(s)}]>>]
    BY <1>5 DEF SeqRule
  <2>2. s # {} => Max(s) \in 1..n
    BY <1>1, MaxIsIn
  <2>3. s # {} => it[s \ {Max(s)}] \in Account
    OBVIOUS
  <2> QED BY <1>4, <2>1, <2>2, <2>3
<1>7. Rule(it)
  <2>1. it = [s \in SUBSET (1..n) |-> it[s]]
    OBVIOUS
  <2> QED BY <1>1, <1>6, <2>1
<1>8. Rule(walk)
  BY <1>7
<1> HIDE DEF walk
<1>9. ASSUME NEW s \in SUBSET (1..n)
      PROVE  walk[s] = IF s = {} THEN base ELSE Take(walk[s \ {Max(s)}], levels[Max(s)])
  BY <1>1, <1>8
<1> DEFINE w == [i \in 0..n |-> walk[1..i]]
<1>10. w[0] = base
  <2>1. w[0] = walk[{}]
    BY <1>1
  <2> HIDE DEF base
  <2>2. walk[{}] = base
    BY <1>9
  <2> QED BY <2>1, <2>2
<1>11. ASSUME NEW i \in 1..n PROVE w[i] = Take(w[i - 1], levels[i])
  <2>1. Max(1..i) = i /\ (1..i) \ {Max(1..i)} = 1..(i - 1) /\ i - 1 \in 0..n
    BY <1>1, MaxOfFirst
  <2>2. (1..i) \in SUBSET (1..n) /\ 1..i # {}
    BY <1>1
  <2>3. walk[1..i] = Take(walk[1..(i - 1)], levels[i])
    BY <1>9, <2>1, <2>2
  <2> QED BY <2>1, <2>3
<1>12. \A i \in 0..n : w[i] \in Account
  <2> DEFINE Good == {i \in Nat : i <= n => w[i] \in Account}
  <2>1. 0 \in Good
    BY <1>1, <1>10
  <2>2. ASSUME NEW i \in Nat, i \in Good PROVE i + 1 \in Good
    <3> SUFFICES ASSUME i + 1 <= n PROVE w[i + 1] \in Account
      OBVIOUS
    <3>1. i + 1 \in 1..n /\ (i + 1) - 1 = i /\ w[i] \in Account
      BY <1>1, <2>2
    <3> HIDE DEF w
    <3>2. w[i + 1] = Take(w[i], levels[i + 1])
      BY <1>11, <3>1
    <3> QED BY <1>3, <3>1, <3>2
  <2> HIDE DEF Good, w
  <2>3. Nat \subseteq Good
    BY <2>1, <2>2, NaturalInduction
  <2> QED BY <1>1, <2>3 DEF Good
<1>13. w \in [0..n -> Account]
  BY <1>12
<1>14. Walk(x, levels) = w[n]
  BY <1>1, <1>2
<1> HIDE DEF w
<1> QED BY <1>10, <1>11, <1>13, <1>14

\* The sum of the first values, one more each time.
LEMMA SumOfFirst ==
    ASSUME NEW f, NEW j \in Nat, \A k \in 1..j : f[k] \in Int
    PROVE  /\ IsFiniteSet(1..j) /\ SumOn(f, 1..j) \in Int
           /\ SumOn(f, 1..0) = 0
           /\ j # 0 => SumOn(f, 1..j) = SumOn(f, 1..(j - 1)) + f[j]
<1>1. IsFiniteSet(1..j)
  <2>1. 1 \in Int /\ j \in Int
    OBVIOUS
  <2> QED BY <2>1, FS_Interval
<1>2. SumOn(f, 1..j) \in Int
  BY <1>1, SumUnfolds
<1>3. SumOn(f, 1..0) = 0
  <2>1. 1..0 = {}
    OBVIOUS
  <2> QED BY <2>1, SumEmpty
<1>4. ASSUME j # 0 PROVE SumOn(f, 1..j) = SumOn(f, 1..(j - 1)) + f[j]
  <2>1. j \in 1..j /\ (1..j) \ {j} = 1..(j - 1) /\ f[j] \in Int
    BY <1>4
  <2>2. SumOn(f, 1..j) = f[j] + SumOn(f, (1..j) \ {j})
    BY <1>1, <2>1, SumSplits
  <2>3. SumOn(f, (1..j) \ {j}) \in Int
    <3>1. IsFiniteSet((1..j) \ {j}) /\ \A k \in (1..j) \ {j} : f[k] \in Int
      BY <1>1, FS_Subset
    <3> QED BY <3>1, SumUnfolds
  <2> DEFINE rest == SumOn(f, (1..j) \ {j})
  <2>4. SumOn(f, 1..(j - 1)) = rest
    BY <2>1, Zenon
  <2>5. SumOn(f, 1..j) = f[j] + rest /\ rest \in Int
    BY <2>2, <2>3
  <2> HIDE DEF rest
  <2> QED BY <2>1, <2>4, <2>5
<1> QED BY <1>1, <1>2, <1>3, <1>4

\* What the first levels hold is the sum of their amounts.
LEMMA DepthIsSum ==
    ASSUME NEW levels \in Books, NEW i \in 0..Len(levels)
    PROVE  Depth(levels, i) = SumOn([j \in 1..Len(levels) |-> levels[j].amount], 1..i)
<1> DEFINE n == Len(levels)
           a == [j \in 1..n |-> levels[j].amount]
           sub == SubSeq(levels, 1, i)
           Rule(it) == it = [s \in SUBSET DOMAIN sub |->
                               IF s = {} THEN 0 ELSE it[s \ {Max(s)}] + sub[Max(s)].amount]
           depth == CHOOSE it : Rule(it)
           G == [q \in (1..i) \X Int |-> q[2] + a[q[1]]]
<1>1. n \in Nat /\ i \in Nat /\ i <= n /\ \A j \in 1..n : a[j] \in Int
  BY LevelsPositive DEF Books
<1>2. DOMAIN sub = 1..i /\ \A j \in 1..i : sub[j].amount = a[j]
  BY <1>1 DEF Books
<1>3. Depth(levels, i) = depth[DOMAIN sub]
  BY DEF Depth, FoldLeft, MapThenFoldSet
<1>4. G \in [(1..i) \X Int -> Int] /\ \A j \in 1..i, y \in Int : G[<<j, y>>] = y + a[j]
  BY <1>1
<1>5. PICK it \in [SUBSET (1..i) -> Int] : SeqRule(it, i, 0, G)
  <2>1. 0 \in Int
    OBVIOUS
  <2> HIDE DEF G
  <2> QED BY <1>1, <1>4, <2>1, FoldLeftExists
<1>6. ASSUME NEW s \in SUBSET (1..i)
      PROVE  it[s] = IF s = {} THEN 0 ELSE it[s \ {Max(s)}] + sub[Max(s)].amount
  <2> HIDE DEF G, a, sub
  <2>1. it[s] = IF s = {} THEN 0 ELSE G[<<Max(s), it[s \ {Max(s)}]>>]
    BY <1>5 DEF SeqRule
  <2>2. s # {} => Max(s) \in 1..i
    BY <1>1, MaxIsIn
  <2>3. s # {} => it[s \ {Max(s)}] \in Int
    OBVIOUS
  <2> QED BY <1>2, <1>4, <2>1, <2>2, <2>3
<1>7. Rule(it)
  <2>1. it = [s \in SUBSET (1..i) |-> it[s]]
    OBVIOUS
  <2> HIDE DEF sub
  <2> QED BY <1>2, <1>6, <2>1
<1>8. Rule(depth)
  BY <1>7
<1> HIDE DEF depth, a, sub
<1>9. ASSUME NEW s \in SUBSET (1..i)
      PROVE  depth[s] = IF s = {} THEN 0 ELSE depth[s \ {Max(s)}] + sub[Max(s)].amount
  BY <1>2, <1>8
<1>10. ASSUME NEW j \in 1..i
       PROVE  /\ depth[1..j] = depth[1..(j - 1)] + a[j]
              /\ SumOn(a, 1..j) = a[j] + SumOn(a, 1..(j - 1))
              /\ SumOn(a, 1..(j - 1)) \in Int
  <2>1. Max(1..j) = j /\ (1..j) \ {Max(1..j)} = 1..(j - 1) /\ (1..j) \ {j} = 1..(j - 1)
    BY <1>1, MaxOfFirst
  <2>2. (1..j) \in SUBSET (1..i) /\ 1..j # {} /\ j \in 1..j
    BY <1>1
  <2>3. depth[1..j] = depth[1..(j - 1)] + a[j]
    BY <1>2, <1>9, <2>1, <2>2
  <2>4. j \in Nat /\ j - 1 \in Nat /\ j # 0
        /\ (\A k \in 1..j : a[k] \in Int) /\ (\A k \in 1..(j - 1) : a[k] \in Int)
    BY <1>1
  <2>5. SumOn(a, 1..j) = SumOn(a, 1..(j - 1)) + a[j]
    BY <2>4, SumOfFirst
  <2>6. SumOn(a, 1..(j - 1)) \in Int
    BY <2>4, SumOfFirst
  <2>7. a[j] \in Int
    BY <2>4
  <2> QED BY <2>1, <2>3, <2>5, <2>6, <2>7
<1>11. \A j \in 0..i : depth[1..j] = SumOn(a, 1..j)
  <2> DEFINE Good == {j \in Nat : j <= i => depth[1..j] = SumOn(a, 1..j)}
  <2>1. 0 \in Good
    <3>1. depth[{}] = 0
      BY <1>9
    <3>2. 1..0 = {}
      OBVIOUS
    <3> QED BY <3>1, <3>2, SumEmpty
  <2>2. ASSUME NEW j \in Nat, j \in Good PROVE j + 1 \in Good
    <3> SUFFICES ASSUME j + 1 <= i PROVE depth[1..(j + 1)] = SumOn(a, 1..(j + 1))
      OBVIOUS
    <3>1. j + 1 \in 1..i /\ (j + 1) - 1 = j
      BY <1>1
    <3>2. depth[1..j] = SumOn(a, 1..j)
      BY <1>1, <2>2
    <3>3. a[j + 1] \in Int
      BY <1>1, <3>1
    <3> QED BY <1>10, <3>1, <3>2, <3>3
  <2> HIDE DEF Good
  <2>3. Nat \subseteq Good
    BY <2>1, <2>2, NaturalInduction
  <2> QED BY <1>1, <2>3 DEF Good
<1>12. Depth(levels, i) = SumOn(a, 1..i)
  BY <1>1, <1>2, <1>3, <1>11
<1> QED BY <1>12 DEF a

-----------------------------------------------------------------------------
(* Fills: how much is taken from each level. *)

Filling(levels) == {f \in [1..Len(levels) -> Nat] :
                      \A i \in 1..Len(levels) : f[i] <= levels[i].amount}
Worth(levels, f) == [i \in 1..Len(levels) |-> f[i] * levels[i].price]
Base(levels, f)  == SumOn(f, 1..Len(levels))
Money(levels, f) == SumOn(Worth(levels, f), 1..Len(levels))

\* The best levels first: full up to some level, empty behind it.
Greedy(levels, f, k) ==
    \A i \in 1..Len(levels) : (i < k => f[i] = levels[i].amount) /\ (i > k => f[i] = 0)

\* A fill trades natural amounts for natural sums.
LEMMA FillType ==
    ASSUME NEW levels \in Books, NEW f \in Filling(levels)
    PROVE  /\ Len(levels) \in Nat /\ IsFiniteSet(1..Len(levels))
           /\ \A i \in 1..Len(levels) : f[i] \in Nat /\ Worth(levels, f)[i] \in Nat
           /\ Base(levels, f) \in Int /\ Money(levels, f) \in Int
<1>1. Len(levels) \in Nat
  BY DEF Books
<1>2. \A i \in 1..Len(levels) : f[i] \in Nat
  BY DEF Filling
<1>3. \A i \in 1..Len(levels) : Worth(levels, f)[i] \in Nat
  BY <1>2, LevelsPositive, ProductNatural DEF Worth
<1>4. IsFiniteSet(1..Len(levels)) /\ Base(levels, f) \in Int
  BY <1>1, <1>2, SumOfFirst DEF Base
<1>5. Money(levels, f) \in Int
  BY <1>1, <1>3, SumOfFirst DEF Money
<1> QED BY <1>1, <1>2, <1>3, <1>4, <1>5

\* A walk is the greedy fill of the amount, as far as the book goes.
LEMMA WalkIsGreedy ==
    ASSUME NEW x \in Nat, NEW levels \in Books
    PROVE  /\ Walk(x, levels) \in Account
           /\ \E g \in Filling(levels) :
                /\ Base(levels, g) = x - Walk(x, levels).left
                /\ Money(levels, g) = Walk(x, levels).money
                /\ Walk(x, levels).left > 0 => \A i \in 1..Len(levels) : g[i] = levels[i].amount
                /\ Len(levels) > 0 => \E k \in 1..Len(levels) : Greedy(levels, g, k)
<1> DEFINE n == Len(levels)
<1>1. PICK w \in [0..n -> Account] :
        /\ w[0] = [left |-> x, money |-> 0]
        /\ \A i \in 1..n : w[i] = Take(w[i - 1], levels[i])
        /\ Walk(x, levels) = w[n]
  BY WalkRuns
<1> DEFINE g == [i \in 1..n |-> Lesser(w[i - 1].left, levels[i].amount)]
           v == Worth(levels, g)
<1>2. n \in Nat /\ \A i \in 0..n : w[i] \in Account /\ w[i].left \in Nat /\ w[i].money \in Nat
  BY DEF Books, Account
<1>3. ASSUME NEW i \in 1..n
      PROVE  /\ i - 1 \in 0..n /\ i \in 0..n
             /\ g[i] \in Nat /\ g[i] <= levels[i].amount /\ v[i] = g[i] * levels[i].price /\ v[i] \in Nat
             /\ w[i].left = w[i - 1].left - g[i] /\ w[i].money = w[i - 1].money + v[i]
             /\ w[i].left > 0 => g[i] = levels[i].amount
             /\ w[i - 1].left = 0 => g[i] = 0 /\ w[i].left = 0
  <2>1. i - 1 \in 0..n /\ i \in 0..n
    BY <1>2
  <2>2. levels[i].amount \in Nat /\ levels[i].price \in Nat /\ w[i - 1].left \in Nat
    BY <1>2, <2>1, LevelsPositive
  <2>3. g[i] \in Nat /\ g[i] <= levels[i].amount /\ g[i] <= w[i - 1].left
        /\ (g[i] = levels[i].amount \/ g[i] = w[i - 1].left)
    BY <2>2 DEF Lesser
  <2>4. v[i] = g[i] * levels[i].price
    BY DEF Worth
  <2>5. w[i] = [left |-> w[i - 1].left - g[i], money |-> w[i - 1].money + v[i]]
    BY <1>1, <2>4 DEF Take
  <2> HIDE DEF g, v
  <2>6. w[i].left = w[i - 1].left - g[i] /\ w[i].money = w[i - 1].money + v[i]
    BY <2>5
  <2>7. v[i] \in Nat
    BY <2>2, <2>3, <2>4, ProductNatural
  <2> QED BY <2>1, <2>2, <2>3, <2>4, <2>6, <2>7
<1>4. g \in Filling(levels)
  <2>1. g \in [1..n -> Nat]
    BY <1>3
  <2> QED BY <1>3, <2>1 DEF Filling
<1> HIDE DEF n, g, v
<1>5. ASSUME NEW i \in Nat, i <= n
      PROVE  SumOn(g, 1..i) = x - w[i].left /\ SumOn(v, 1..i) = w[i].money
  <2> DEFINE Good == {j \in Nat : j <= n => SumOn(g, 1..j) = x - w[j].left
                                           /\ SumOn(v, 1..j) = w[j].money}
  <2>1. 0 \in Good
    <3>1. SumOn(g, 1..0) = 0 /\ SumOn(v, 1..0) = 0
      BY SumOfFirst
    <3> QED BY <1>1, <3>1
  <2>2. ASSUME NEW j \in Nat, j \in Good PROVE j + 1 \in Good
    <3> SUFFICES ASSUME j + 1 <= n
                 PROVE  SumOn(g, 1..(j + 1)) = x - w[j + 1].left
                        /\ SumOn(v, 1..(j + 1)) = w[j + 1].money
      OBVIOUS
    <3>1. j + 1 \in 1..n /\ (j + 1) - 1 = j /\ j + 1 \in Nat /\ j + 1 # 0 /\ j \in 0..n
      BY <1>2
    <3>2. (\A k \in 1..(j + 1) : g[k] \in Int) /\ (\A k \in 1..(j + 1) : v[k] \in Int)
      <4>1. \A k \in 1..(j + 1) : k \in 1..n
        BY <1>2
      <4> QED BY <1>3, <4>1
    <3>3. SumOn(g, 1..(j + 1)) = SumOn(g, 1..j) + g[j + 1]
      BY <3>1, <3>2, SumOfFirst
    <3>4. SumOn(v, 1..(j + 1)) = SumOn(v, 1..j) + v[j + 1]
      BY <3>1, <3>2, SumOfFirst
    <3>5. SumOn(g, 1..j) = x - w[j].left /\ SumOn(v, 1..j) = w[j].money
      BY <2>2, <3>1
    <3>6. w[j + 1].left = w[j].left - g[j + 1] /\ w[j + 1].money = w[j].money + v[j + 1]
          /\ g[j + 1] \in Nat
      BY <1>3, <3>1
    <3>7. w[j].left \in Nat
      BY <1>2, <3>1
    <3> QED BY <3>3, <3>4, <3>5, <3>6, <3>7
  <2> HIDE DEF Good
  <2>3. Nat \subseteq Good
    BY <2>1, <2>2, NaturalInduction
  <2> QED BY <1>5, <2>3 DEF Good
<1>6. ASSUME NEW k \in Nat, k <= n, w[k].left = 0, NEW i \in Nat, k <= i, i <= n
      PROVE  w[i].left = 0
  <2> DEFINE Good == {j \in Nat : k <= j /\ j <= n => w[j].left = 0}
  <2>1. 0 \in Good
    BY <1>6
  <2>2. ASSUME NEW j \in Nat, j \in Good PROVE j + 1 \in Good
    <3> SUFFICES ASSUME k <= j + 1, j + 1 <= n PROVE w[j + 1].left = 0
      OBVIOUS
    <3>1. CASE k = j + 1
      BY <1>6, <3>1
    <3>2. CASE k <= j
      <4>1. j + 1 \in 1..n /\ (j + 1) - 1 = j /\ w[j].left = 0
        BY <1>2, <2>2, <3>2
      <4> QED BY <1>3, <4>1
    <3> QED BY <3>1, <3>2
  <2> HIDE DEF Good
  <2>3. Nat \subseteq Good
    BY <2>1, <2>2, NaturalInduction
  <2> QED BY <1>6, <2>3 DEF Good
<1>7. ASSUME w[n].left > 0, NEW i \in 1..n PROVE g[i] = levels[i].amount
  <2>1. i \in Nat /\ i <= n /\ n \in Nat /\ w[i].left \in Nat
    BY <1>2
  <2>2. w[i].left # 0
    BY <1>2, <1>6, <1>7, <2>1
  <2> QED BY <1>3, <2>1, <2>2
<1>8. ASSUME n > 0 PROVE \E k \in 1..n : Greedy(levels, g, k)
  <2>1. CASE w[n].left > 0
    <3>1. n \in 1..n /\ \A i \in 1..n : ~ (i > n)
      BY <1>2, <1>8
    <3>2. Greedy(levels, g, n)
      BY <1>7, <2>1, <3>1 DEF Greedy, n
    <3> QED BY <3>1, <3>2
  <2>2. CASE ~ (w[n].left > 0)
    <3> DEFINE Z == {i \in Nat : i <= n /\ w[i].left = 0}
    <3>1. n \in Z
      BY <1>2, <2>2
    <3>2. PICK k \in Z : \A i \in Z : k <= i
      BY <3>1, LeastNatural
    <3>3. CASE k = 0
      <4>1. \A i \in 1..n : w[i - 1].left = 0
        BY <1>2, <1>6, <3>2, <3>3
      <4>2. \A i \in 1..n : i < 1 => g[i] = levels[i].amount
        BY <1>2
      <4>3. Greedy(levels, g, 1) /\ 1 \in 1..n
        BY <1>2, <1>3, <1>8, <4>1, <4>2 DEF Greedy, n
      <4> QED BY <4>3
    <3>4. CASE k # 0
      <4>1. ASSUME NEW i \in 1..n, i < k PROVE g[i] = levels[i].amount
        <5>1. i \in Nat /\ i <= n /\ w[i].left \in Nat
          BY <1>2
        <5>2. w[i].left # 0
          BY <3>2, <4>1, <5>1
        <5> QED BY <1>3, <5>1, <5>2
      <4>2. ASSUME NEW i \in 1..n, i > k PROVE g[i] = 0
        <5>1. i - 1 \in Nat /\ i - 1 <= n /\ k <= i - 1
          BY <1>2, <3>2, <4>2
        <5>2. w[i - 1].left = 0
          BY <1>6, <3>2, <5>1
        <5> QED BY <1>3, <5>2
      <4>3. Greedy(levels, g, k) /\ k \in 1..n
        BY <1>2, <3>2, <3>4, <4>1, <4>2 DEF Greedy, n
      <4> QED BY <4>3
    <3> QED BY <3>3, <3>4
  <2> QED BY <2>1, <2>2
<1>9. n \in 0..n /\ n \in Nat /\ n <= n
  BY <1>2
<1>10. Walk(x, levels) \in Account
  BY <1>1, <1>2, <1>9
<1>11. Base(levels, g) = x - Walk(x, levels).left /\ Money(levels, g) = Walk(x, levels).money
  BY <1>1, <1>5, <1>9 DEF Base, Money, v, n
<1>12. Walk(x, levels).left > 0 => \A i \in 1..n : g[i] = levels[i].amount
  BY <1>1, <1>7
<1> QED BY <1>4, <1>8, <1>10, <1>11, <1>12 DEF n

\* Where each value of f is at most that of h and P for every unit f has more, so is the sum.
LEMMA SumsDiffer ==
    ASSUME NEW S, IsFiniteSet(S), NEW f, NEW h, NEW u, NEW v, NEW P \in Int,
           \A i \in S : /\ f[i] \in Int /\ h[i] \in Int /\ u[i] \in Int /\ v[i] \in Int
                        /\ u[i] <= v[i] + P * (f[i] - h[i])
    PROVE  SumOn(u, S) <= SumOn(v, S) + P * (SumOn(f, S) - SumOn(h, S))
<1> DEFINE more == [i \in S |-> f[i] - h[i]]
           most == [i \in S |-> v[i] + P * more[i]]
<1>1. \A i \in S : more[i] \in Int /\ more[i] = f[i] + (-1) * h[i] /\ more[i] = f[i] - h[i]
  OBVIOUS
<1>2. \A i \in S : most[i] = v[i] + P * more[i]
  OBVIOUS
<1> HIDE DEF more, most
<1>3. \A i \in S : most[i] \in Int /\ u[i] <= most[i]
  BY <1>1, <1>2
<1>4. SumOn(u, S) <= SumOn(most, S)
  BY <1>3, SumMonotone
<1>5. SumOn(most, S) = SumOn(v, S) + P * SumOn(more, S)
  <2>1. \A i \in S : v[i] \in Int /\ more[i] \in Int /\ most[i] = v[i] + P * more[i]
    BY <1>1, <1>2
  <2> QED BY ONLY IsFiniteSet(S), P \in Int, <2>1, SumOfScaled, ZenonT(30)
<1>6. SumOn(more, S) = SumOn(f, S) + (-1) * SumOn(h, S)
  <2>1. -1 \in Int
    OBVIOUS
  <2>2. \A i \in S : f[i] \in Int /\ h[i] \in Int /\ more[i] = f[i] + (-1) * h[i]
    BY <1>1
  <2> QED BY ONLY IsFiniteSet(S), <2>1, <2>2, SumOfScaled, ZenonT(30)
<1>7. SumOn(f, S) \in Int /\ SumOn(h, S) \in Int /\ SumOn(v, S) \in Int
  BY SumUnfolds
<1>8. SumOn(more, S) = SumOn(f, S) - SumOn(h, S)
  BY <1>6, <1>7
<1> QED BY <1>4, <1>5, <1>8

\* The sign of a product.
LEMMA Signs ==
    \A a, b, p, q \in Int :
      /\ a <= b /\ p >= q => a * p <= b * p + q * (a - b)
      /\ a >= b /\ p <= q => a * p <= b * p + q * (a - b)
<1> SUFFICES ASSUME NEW a \in Int, NEW b \in Int, NEW p \in Int, NEW q \in Int
             PROVE  /\ a <= b /\ p >= q => a * p <= b * p + q * (a - b)
                    /\ a >= b /\ p <= q => a * p <= b * p + q * (a - b)
  OBVIOUS
<1>1. \A c, d \in Int : 0 <= c /\ 0 <= d => 0 <= c * d
  OBVIOUS
<1>2. a <= b /\ p >= q => 0 <= (b - a) * (p - q)
  BY <1>1
<1>3. a >= b /\ p <= q => 0 <= (a - b) * (q - p)
  BY <1>1
<1>4. (b - a) * (p - q) = (b * p + q * (a - b)) - a * p
  OBVIOUS
<1>5. (a - b) * (q - p) = (b * p + q * (a - b)) - a * p
  OBVIOUS
<1>6. \A y, z \in Int : 0 <= y - z => z <= y
  OBVIOUS
<1>7. a * p \in Int /\ b * p + q * (a - b) \in Int
  OBVIOUS
<1> QED BY <1>2, <1>3, <1>4, <1>5, <1>6, <1>7

Descending(levels) == \A i, j \in 1..Len(levels) : i < j => levels[i].price >= levels[j].price
Ascending(levels)  == \A i, j \in 1..Len(levels) : i < j => levels[i].price <= levels[j].price

\* No fill of bids earns more than the greedy one, but for the price of what it sells more.
LEMMA GreedyEarnsMost ==
    ASSUME NEW levels \in Books, Descending(levels), NEW h \in Filling(levels),
           NEW k \in 1..Len(levels), Greedy(levels, h, k), NEW f \in Filling(levels)
    PROVE  Money(levels, f) <= Money(levels, h)
                               + levels[k].price * (Base(levels, f) - Base(levels, h))
<1> DEFINE n == Len(levels)
           u == Worth(levels, f)
           v == Worth(levels, h)
           P == levels[k].price
<1>1. P \in Int /\ n \in Nat /\ IsFiniteSet(1..n)
  BY LevelsPositive, FillType
<1>2. ASSUME NEW i \in 1..n
      PROVE  /\ f[i] \in Int /\ h[i] \in Int /\ u[i] \in Int /\ v[i] \in Int
             /\ u[i] <= v[i] + P * (f[i] - h[i])
  <2>1. f[i] \in Nat /\ h[i] \in Nat /\ u[i] \in Int /\ v[i] \in Int
    BY FillType
  <2>2. u[i] = f[i] * levels[i].price /\ v[i] = h[i] * levels[i].price /\ levels[i].price \in Int
    BY LevelsPositive DEF Worth
  <2>3. (f[i] <= h[i] /\ levels[i].price >= P) \/ (f[i] >= h[i] /\ levels[i].price <= P)
    <3>1. CASE i < k
      <4>1. f[i] <= levels[i].amount
        BY DEF Filling
      <4>2. h[i] = levels[i].amount
        BY <3>1 DEF Greedy
      <4>3. levels[i].price >= P
        BY <3>1 DEF Descending
      <4> QED BY <1>1, <2>1, <2>2, <4>1, <4>2, <4>3
    <3>2. CASE i > k
      <4>1. h[i] = 0
        BY <3>2 DEF Greedy
      <4>2. levels[i].price <= P
        BY <1>1, <2>2, <3>2 DEF Descending
      <4> QED BY <2>1, <4>1, <4>2
    <3>3. CASE i = k
      BY <1>1, <2>1, <3>3
    <3> QED BY <1>1, <3>1, <3>2, <3>3
  <2> DEFINE q == levels[i].price
  <2> HIDE DEF u, v, P
  <2>4. f[i] \in Int /\ h[i] \in Int /\ q \in Int
    BY <2>1, <2>2
  <2> HIDE DEF q
  <2>5. (f[i] <= h[i] /\ q >= P) \/ (f[i] >= h[i] /\ q <= P)
    BY <2>3 DEF q
  <2>6. f[i] * q <= h[i] * q + P * (f[i] - h[i])
    BY <1>1, <2>4, <2>5, Signs, Zenon
  <2>7. u[i] <= v[i] + P * (f[i] - h[i])
    BY <2>2, <2>6 DEF q
  <2> QED BY <2>1, <2>4, <2>7
<1> HIDE DEF u, v, P, n
<1>3. SumOn(u, 1..n) <= SumOn(v, 1..n) + P * (SumOn(f, 1..n) - SumOn(h, 1..n))
  BY <1>1, <1>2, SumsDiffer
<1> QED BY <1>3 DEF u, v, P, n, Money, Base

\* No fill of asks costs less than the greedy one and the price of what it buys more.
LEMMA GreedyCostsLeast ==
    ASSUME NEW levels \in Books, Ascending(levels), NEW h \in Filling(levels),
           NEW k \in 1..Len(levels), Greedy(levels, h, k), NEW f \in Filling(levels)
    PROVE  Money(levels, h) <= Money(levels, f)
                               + levels[k].price * (Base(levels, h) - Base(levels, f))
<1> DEFINE n == Len(levels)
           u == Worth(levels, h)
           v == Worth(levels, f)
           P == levels[k].price
<1>1. P \in Int /\ n \in Nat /\ IsFiniteSet(1..n)
  BY LevelsPositive, FillType
<1>2. ASSUME NEW i \in 1..n
      PROVE  /\ h[i] \in Int /\ f[i] \in Int /\ u[i] \in Int /\ v[i] \in Int
             /\ u[i] <= v[i] + P * (h[i] - f[i])
  <2>1. f[i] \in Nat /\ h[i] \in Nat /\ u[i] \in Int /\ v[i] \in Int
    BY FillType
  <2>2. v[i] = f[i] * levels[i].price /\ u[i] = h[i] * levels[i].price /\ levels[i].price \in Int
    BY LevelsPositive DEF Worth
  <2>3. (h[i] <= f[i] /\ levels[i].price >= P) \/ (h[i] >= f[i] /\ levels[i].price <= P)
    <3>1. CASE i < k
      <4>1. f[i] <= levels[i].amount
        BY DEF Filling
      <4>2. h[i] = levels[i].amount
        BY <3>1 DEF Greedy
      <4>3. levels[i].price <= P
        BY <3>1 DEF Ascending
      <4> QED BY <1>1, <2>1, <2>2, <4>1, <4>2, <4>3
    <3>2. CASE i > k
      <4>1. h[i] = 0
        BY <3>2 DEF Greedy
      <4>2. levels[i].price >= P
        BY <1>1, <2>2, <3>2 DEF Ascending
      <4> QED BY <2>1, <4>1, <4>2
    <3>3. CASE i = k
      BY <1>1, <2>1, <3>3
    <3> QED BY <1>1, <3>1, <3>2, <3>3
  <2> DEFINE q == levels[i].price
  <2> HIDE DEF u, v, P
  <2>4. f[i] \in Int /\ h[i] \in Int /\ q \in Int
    BY <2>1, <2>2
  <2> HIDE DEF q
  <2>5. (h[i] <= f[i] /\ q >= P) \/ (h[i] >= f[i] /\ q <= P)
    BY <2>3 DEF q
  <2>6. h[i] * q <= f[i] * q + P * (h[i] - f[i])
    BY <1>1, <2>4, <2>5, Signs, Zenon
  <2>7. u[i] <= v[i] + P * (h[i] - f[i])
    BY <2>2, <2>6 DEF q
  <2> QED BY <2>1, <2>4, <2>7
<1> HIDE DEF u, v, P, n
<1>3. SumOn(u, 1..n) <= SumOn(v, 1..n) + P * (SumOn(h, 1..n) - SumOn(f, 1..n))
  BY <1>1, <1>2, SumsDiffer
<1> QED BY <1>3 DEF u, v, P, n, Money, Base

\* A sum does not depend on the order of its values.
LEMMA SumArranged ==
    ASSUME NEW n \in Nat, NEW p \in Arrangements(n), NEW f, \A i \in 1..n : f[i] \in Int
    PROVE  SumOn(f, 1..n) = SumOn([i \in 1..n |-> f[p[i]]], 1..n)
<1> DEFINE g == [i \in 1..n |-> f[p[i]]]
<1>1. p \in [1..n -> 1..n] /\ (\A i, j \in 1..n : p[i] = p[j] => i = j)
      /\ \A t \in 1..n : \E i \in 1..n : p[i] = t
  BY ArrangementIs
<1>2. Names(p, 1..n) = 1..n
  <2>1. ASSUME NEW t \in 1..n PROVE t \in Names(p, 1..n)
    <3>1. PICK i \in 1..n : p[i] = t
      BY <1>1
    <3> QED BY <3>1 DEF Names
  <2>2. \A i \in 1..n : p[i] \in 1..n
    BY <1>1
  <2> QED BY <2>1, <2>2 DEF Names
<1>3. \A i \in 1..n : f[p[i]] \in Int /\ g[i] = f[p[i]]
  BY <1>1
<1>4. IsFiniteSet(1..n)
  <2>1. 1 \in Int /\ n \in Int
    OBVIOUS
  <2> QED BY <2>1, FS_Interval
<1> HIDE DEF g
<1>5. SumOn(f, Names(p, 1..n)) = SumOn(g, 1..n)
  <2>1. \A x, y \in 1..n : p[x] = p[y] => x = y
    BY <1>1
  <2>2. Renamed(1..n, p, f, g)
    BY <1>3, <2>1 DEF Renamed
  <2> QED BY <1>4, <2>2, SumMapped
<1> QED BY <1>2, <1>5 DEF g

\* The fills of a book are those of the same book in another order.
SameTotals(raw, f, levels, g) ==
    Base(levels, g) = Base(raw, f) /\ Money(levels, g) = Money(raw, f)
Rearrangement(raw, p) == [i \in 1..Len(raw) |-> raw[p[i]]]

\* A rearranged book is a book of the same levels.
LEMMA ArrangedBook ==
    ASSUME NEW raw \in Books, NEW p \in Arrangements(Len(raw))
    PROVE  /\ Rearrangement(raw, p) \in Books /\ Len(Rearrangement(raw, p)) = Len(raw)
           /\ \A i \in 1..Len(raw) : p[i] \in 1..Len(raw) /\ Rearrangement(raw, p)[i] = raw[p[i]]
<1> DEFINE n == Len(raw)
           levels == Rearrangement(raw, p)
<1>1. n \in Nat /\ DOMAIN raw = 1..n /\ \A i \in 1..n : raw[i] \in LevelType
  BY DEF Books
<1>2. p \in [1..n -> 1..n]
  <2> HIDE DEF n
  <2> QED BY ArrangementIs DEF n
<1>3. \A i \in 1..n : p[i] \in 1..n /\ levels[i] = raw[p[i]]
  BY <1>2 DEF Rearrangement
<1>4. DOMAIN levels = 1..n
  BY DEF Rearrangement
<1>5. levels \in [1..n -> LevelType]
  BY <1>1, <1>3 DEF Rearrangement
<1> HIDE DEF levels, n
<1>6. levels \in Seq(LevelType) /\ Len(levels) = n
  BY <1>1, <1>5
<1>7. Valid(levels)
  <2>1. \A i \in 1..n : raw[i].price > 0 /\ raw[i].amount > 0
    BY <1>1 DEF Books, Valid
  <2> QED BY <1>3, <1>4, <2>1 DEF Valid
<1> QED BY <1>3, <1>6, <1>7 DEF Books, levels, n

\* A fill rearranged with its book comes to the same totals.
LEMMA ArrangedFill ==
    ASSUME NEW raw \in Books, NEW p \in Arrangements(Len(raw)), NEW f \in Filling(raw),
           NEW g \in [1..Len(raw) -> Nat], \A i \in 1..Len(raw) : g[i] = f[p[i]]
    PROVE  /\ g \in Filling(Rearrangement(raw, p))
           /\ SameTotals(raw, f, Rearrangement(raw, p), g)
<1> DEFINE n == Len(raw)
           levels == Rearrangement(raw, p)
           u == Worth(raw, f)
<1>1. /\ levels \in Books /\ Len(levels) = n
      /\ \A i \in 1..n : p[i] \in 1..n /\ levels[i] = raw[p[i]]
  BY ArrangedBook
<1>2. n \in Nat /\ \A i \in 1..n : f[i] \in Int /\ u[i] \in Int
  BY FillType
<1>3. g \in Filling(levels)
  <2>1. \A i \in 1..n : f[i] <= raw[i].amount
    BY DEF Filling
  <2> HIDE DEF levels
  <2> QED BY <1>1, <2>1 DEF Filling
<1>4. Base(levels, g) = Base(raw, f)
  <2>1. g = [i \in 1..n |-> f[p[i]]]
    OBVIOUS
  <2> HIDE DEF levels, u, n
  <2>2. SumOn(f, 1..n) = SumOn(g, 1..n)
    BY <1>2, <2>1, SumArranged DEF n
  <2> QED BY <1>1, <2>2 DEF Base, n
<1>5. Money(levels, g) = Money(raw, f)
  <2>1. \A i \in 1..n : Worth(levels, g)[i] = u[p[i]]
    <3>1. \A i \in 1..n : u[i] = f[i] * raw[i].price
      BY DEF Worth
    <3> HIDE DEF levels, u
    <3> QED BY <1>1, <3>1 DEF Worth
  <2> HIDE DEF levels
  <2>2. Worth(levels, g) = [i \in 1..n |-> u[p[i]]]
    BY <1>1, <2>1 DEF Worth
  <2> HIDE DEF u, n
  <2>3. SumOn(u, 1..n) = SumOn(Worth(levels, g), 1..n)
    BY <1>2, <2>2, SumArranged, SMTT(30) DEF n
  <2> QED BY <1>1, <2>3 DEF Money, u, n
<1> QED BY <1>3, <1>4, <1>5 DEF SameTotals

\* A book and its rearrangement can be filled to the same totals.
LEMMA FillsRearranged ==
    ASSUME NEW raw \in Books, NEW p \in Arrangements(Len(raw))
    PROVE  LET levels == Rearrangement(raw, p) IN
           /\ \A f \in Filling(raw) : \E g \in Filling(levels) : SameTotals(raw, f, levels, g)
           /\ \A g \in Filling(levels) : \E f \in Filling(raw) : SameTotals(raw, f, levels, g)
<1> DEFINE n == Len(raw)
           levels == Rearrangement(raw, p)
<1>1. /\ levels \in Books /\ Len(levels) = n
      /\ \A i \in 1..n : p[i] \in 1..n /\ levels[i] = raw[p[i]]
  BY ArrangedBook
<1>2. (\A i, j \in 1..n : p[i] = p[j] => i = j) /\ \A t \in 1..n : \E i \in 1..n : p[i] = t
  <2> HIDE DEF n
  <2> QED BY ArrangementIs DEF n
<1> HIDE DEF levels
<1>3. ASSUME NEW f \in Filling(raw)
      PROVE  \E g \in Filling(levels) : SameTotals(raw, f, levels, g)
  <2> DEFINE g == [i \in 1..n |-> f[p[i]]]
  <2>1. \A i \in 1..n : f[i] \in Nat
    BY FillType
  <2>2. g \in [1..n -> Nat] /\ \A i \in 1..n : g[i] = f[p[i]]
    BY <1>1, <2>1
  <2> HIDE DEF g
  <2>3. g \in Filling(levels) /\ SameTotals(raw, f, levels, g)
    BY <2>2, ArrangedFill DEF levels
  <2> QED BY <2>3
<1>4. ASSUME NEW g \in Filling(levels)
      PROVE  \E f \in Filling(raw) : SameTotals(raw, f, levels, g)
  <2> DEFINE f == [t \in 1..n |-> g[CHOOSE i \in 1..n : p[i] = t]]
  <2>1. g \in [1..n -> Nat] /\ \A i \in 1..n : g[i] <= levels[i].amount
    BY <1>1 DEF Filling
  <2>2. \A i \in 1..n : f[p[i]] = g[i]
    BY <1>1, <1>2
  <2>3. ASSUME NEW t \in 1..n PROVE f[t] \in Nat /\ f[t] <= raw[t].amount
    <3>1. PICK i \in 1..n : p[i] = t
      BY <1>2
    <3>2. f[t] = g[i] /\ levels[i] = raw[t]
      BY <1>1, <2>2, <3>1
    <3> HIDE DEF f
    <3> QED BY <2>1, <3>2
  <2>4. f \in Filling(raw)
    <3>1. f \in [1..n -> Nat]
      BY <2>3
    <3> HIDE DEF f
    <3> QED BY <2>3, <3>1 DEF Filling
  <2> HIDE DEF f
  <2>5. SameTotals(raw, f, levels, g)
    BY <2>1, <2>2, <2>4, ArrangedFill DEF levels
  <2> QED BY <2>4, <2>5
<1> QED BY <1>3, <1>4 DEF levels

-----------------------------------------------------------------------------
(* What the walk through the sorted book is worth, of all fills there are.  *)

\* Nothing fills an empty book; no fill holds more than the full one.
LEMMA FillsBounded ==
    ASSUME NEW levels \in Books, NEW f \in Filling(levels)
    PROVE  /\ Base(levels, f) >= 0 /\ Money(levels, f) >= 0
           /\ Len(levels) = 0 => Base(levels, f) = 0 /\ Money(levels, f) = 0
           /\ \A g \in Filling(levels) : (\A i \in 1..Len(levels) : g[i] = levels[i].amount) =>
                Base(levels, f) <= Base(levels, g) /\ Money(levels, f) <= Money(levels, g)
<1> DEFINE n == Len(levels)
           zero == [i \in 1..n |-> 0]
<1>1. n \in Nat /\ IsFiniteSet(1..n)
      /\ \A i \in 1..n : f[i] \in Nat /\ Worth(levels, f)[i] \in Nat
  BY FillType
<1>2. SumOn(zero, 1..n) = 0
  <2>1. \A i \in 1..n : zero[i] = 0
    OBVIOUS
  <2> HIDE DEF zero, n
  <2> QED BY <1>1, <2>1, SumZero
<1>3. Base(levels, f) >= 0 /\ Money(levels, f) >= 0
  <2>1. \A i \in 1..n : zero[i] = 0
    OBVIOUS
  <2> HIDE DEF zero
  <2>2. SumOn(zero, 1..n) <= SumOn(f, 1..n)
    BY <1>1, <2>1, SumMonotone
  <2>3. SumOn(zero, 1..n) <= SumOn(Worth(levels, f), 1..n)
    BY <1>1, <2>1, SumMonotone
  <2> QED BY <1>2, <2>2, <2>3, FillType DEF Base, Money
<1>4. ASSUME n = 0 PROVE Base(levels, f) = 0 /\ Money(levels, f) = 0
  <2>1. 1..n = {}
    BY <1>4
  <2> QED BY <2>1, SumEmpty DEF Base, Money
<1>5. ASSUME NEW g \in Filling(levels), \A i \in 1..n : g[i] = levels[i].amount
      PROVE  Base(levels, f) <= Base(levels, g) /\ Money(levels, f) <= Money(levels, g)
  <2>1. \A i \in 1..n : g[i] \in Nat /\ Worth(levels, g)[i] \in Nat
    BY FillType
  <2>2. \A i \in 1..n : f[i] <= g[i]
    BY <1>5 DEF Filling
  <2>3. ASSUME NEW i \in 1..n PROVE Worth(levels, f)[i] <= Worth(levels, g)[i]
    <3>1. f[i] <= g[i] /\ f[i] \in Int /\ g[i] \in Int
      BY <1>1, <2>1, <2>2
    <3>2. levels[i].price \in Int /\ 0 <= levels[i].price
      BY LevelsPositive
    <3>3. f[i] * levels[i].price <= g[i] * levels[i].price
      BY <3>1, <3>2, Products
    <3> QED BY <3>3 DEF Worth
  <2>4. Base(levels, f) <= Base(levels, g)
    BY <1>1, <2>1, <2>2, SumMonotone DEF Base
  <2>5. Money(levels, f) <= Money(levels, g)
    BY <1>1, <2>1, <2>3, SumMonotone DEF Money
  <2> QED BY <2>4, <2>5
<1> QED BY <1>3, <1>4, <1>5

\* Of sorted asks, the walk buys its amount for the least there is.
LEMMA AscendingWalk ==
    ASSUME NEW levels \in Books, Ascending(levels), NEW x \in Nat, NEW f \in Filling(levels)
    PROVE  LET w == Walk(x, levels) IN
           /\ w.left = 0 /\ Base(levels, f) >= x => Money(levels, f) >= w.money
           /\ w.left > 0 => Base(levels, f) < x
<1> DEFINE w == Walk(x, levels)
           n == Len(levels)
<1>1. w.left \in Nat /\ w.money \in Nat /\ n \in Nat
  BY WalkIsGreedy, FillType DEF Account
<1>2. PICK g \in Filling(levels) :
        /\ Base(levels, g) = x - w.left /\ Money(levels, g) = w.money
        /\ w.left > 0 => \A i \in 1..n : g[i] = levels[i].amount
        /\ n > 0 => \E k \in 1..n : Greedy(levels, g, k)
  BY WalkIsGreedy
<1>3. /\ Base(levels, f) \in Int /\ Money(levels, f) \in Int
      /\ Base(levels, g) \in Int /\ Money(levels, g) \in Int
  BY FillType
<1> HIDE DEF w
<1>4. ASSUME w.left = 0, Base(levels, f) >= x PROVE Money(levels, f) >= w.money
  <2>1. CASE n = 0
    <3>1. Money(levels, f) = 0 /\ Money(levels, g) = 0
      BY <2>1, FillsBounded
    <3> QED BY <1>2, <3>1
  <2>2. CASE n # 0
    <3>1. PICK k \in 1..n : Greedy(levels, g, k)
      BY <1>1, <1>2, <2>2
    <3> DEFINE P == levels[k].price
    <3>2. Money(levels, g) <= Money(levels, f) + P * (Base(levels, g) - Base(levels, f))
      BY <3>1, GreedyCostsLeast
    <3>3. P \in Nat
      BY LevelsPositive
    <3> HIDE DEF P
    <3>4. \A a, b \in Int : a >= b => P * (b - a) <= 0
      BY <3>3
    <3>5. P * (Base(levels, g) - Base(levels, f)) <= 0
      BY <1>1, <1>2, <1>3, <1>4, <3>4
    <3>6. P * (Base(levels, g) - Base(levels, f)) \in Int
      BY <1>3, <3>3
    <3> HIDE DEF n
    <3>7. \A a, b, c \in Int : a <= b + c /\ c <= 0 => a <= b
      OBVIOUS
    <3> QED BY <1>1, <1>2, <1>3, <3>2, <3>5, <3>6, <3>7, SMTT(30)
  <2> QED BY <2>1, <2>2
<1>5. ASSUME w.left > 0 PROVE Base(levels, f) < x
  <2>1. Base(levels, f) <= Base(levels, g)
    BY <1>2, <1>5, FillsBounded
  <2> QED BY <1>1, <1>2, <1>3, <1>5, <2>1
<1> QED BY <1>4, <1>5 DEF w

\* Of sorted bids, it earns the most there is for as much or less.
LEMMA DescendingWalk ==
    ASSUME NEW levels \in Books, Descending(levels), NEW x \in Nat, NEW f \in Filling(levels)
    PROVE  LET w == Walk(x, levels) IN
           /\ Base(levels, f) <= x => Money(levels, f) <= w.money
           /\ w.left > 0 => Base(levels, f) < x
<1> DEFINE w == Walk(x, levels)
           n == Len(levels)
<1>1. w.left \in Nat /\ w.money \in Nat /\ n \in Nat
  BY WalkIsGreedy, FillType DEF Account
<1>2. PICK g \in Filling(levels) :
        /\ Base(levels, g) = x - w.left /\ Money(levels, g) = w.money
        /\ w.left > 0 => \A i \in 1..n : g[i] = levels[i].amount
        /\ n > 0 => \E k \in 1..n : Greedy(levels, g, k)
  BY WalkIsGreedy
<1>3. /\ Base(levels, f) \in Int /\ Money(levels, f) \in Int
      /\ Base(levels, g) \in Int /\ Money(levels, g) \in Int
  BY FillType
<1> HIDE DEF w
<1>4. ASSUME w.left > 0 PROVE Base(levels, f) < x /\ Money(levels, f) <= w.money
  <2>1. Base(levels, f) <= Base(levels, g) /\ Money(levels, f) <= Money(levels, g)
    BY <1>2, <1>4, FillsBounded
  <2> QED BY <1>1, <1>2, <1>3, <1>4, <2>1
<1>5. ASSUME w.left = 0, Base(levels, f) <= x PROVE Money(levels, f) <= w.money
  <2>1. CASE n = 0
    <3>1. Money(levels, f) = 0 /\ Money(levels, g) = 0
      BY <2>1, FillsBounded
    <3> QED BY <1>2, <3>1
  <2>2. CASE n # 0
    <3>1. PICK k \in 1..n : Greedy(levels, g, k)
      BY <1>1, <1>2, <2>2
    <3> DEFINE P == levels[k].price
    <3>2. Money(levels, f) <= Money(levels, g) + P * (Base(levels, f) - Base(levels, g))
      BY <3>1, GreedyEarnsMost
    <3>3. P \in Nat
      BY LevelsPositive
    <3> HIDE DEF P
    <3>4. \A a, b \in Int : a >= b => P * (b - a) <= 0
      BY <3>3
    <3>5. P * (Base(levels, f) - Base(levels, g)) <= 0
      <4>1. Base(levels, g) >= Base(levels, f)
        BY <1>1, <1>2, <1>3, <1>5
      <4> QED BY <1>3, <3>4, <4>1
    <3>6. P * (Base(levels, f) - Base(levels, g)) \in Int
      BY <1>3, <3>3
    <3> QED BY <1>1, <1>2, <1>3, <3>2, <3>5, <3>6
  <2> QED BY <2>1, <2>2
<1> QED BY <1>1, <1>4, <1>5 DEF w

\* Two fills that differ at one level.
DifferAt(S, f, h, y) == /\ y \in S /\ \A i \in S : f[i] \in Int /\ h[i] \in Int
                        /\ \A i \in S \ {y} : f[i] = h[i]

\* To change one value changes the sum by as much.
LEMMA SumChanged ==
    ASSUME NEW S, IsFiniteSet(S), NEW f, NEW h, NEW y, DifferAt(S, f, h, y)
    PROVE  SumOn(f, S) = SumOn(h, S) + (f[y] - h[y])
<1> USE DEF DifferAt
<1>1. IsFiniteSet(S \ {y})
  BY FS_Subset
<1>2. SumOn(f, S) = f[y] + SumOn(f, S \ {y})
  BY SumSplits
<1>3. SumOn(h, S) = h[y] + SumOn(h, S \ {y})
  BY SumSplits
<1>4. SumOn(f, S \ {y}) = SumOn(h, S \ {y})
  BY <1>1, SumEqual
<1>5. SumOn(h, S \ {y}) \in Int
  BY <1>1, SumUnfolds
<1> QED BY <1>2, <1>3, <1>4, <1>5

\* The first m levels, whole, and some of the next.
Upto(levels, m, rest) ==
    [i \in 1..Len(levels) |-> IF i <= m THEN levels[i].amount ELSE IF i = m + 1 THEN rest ELSE 0]

\* Whole levels and some of the next are a greedy fill.
LEMMA UptoIsFill ==
    ASSUME NEW levels \in Books, NEW m \in 0..Len(levels), NEW rest \in Nat,
           m < Len(levels) => rest <= levels[m + 1].amount
    PROVE  /\ Upto(levels, m, rest) \in Filling(levels)
           /\ m < Len(levels) => Greedy(levels, Upto(levels, m, rest), m + 1)
<1> DEFINE n == Len(levels)
           f == Upto(levels, m, rest)
<1>1. n \in Nat /\ m \in Nat /\ \A i \in 1..n : i \in Nat /\ levels[i].amount \in Nat
  BY LevelsPositive DEF Books
<1>2. ASSUME NEW i \in 1..n PROVE f[i] \in Nat /\ f[i] <= levels[i].amount
  <2>1. f[i] = IF i <= m THEN levels[i].amount ELSE IF i = m + 1 THEN rest ELSE 0
    BY DEF Upto
  <2>2. i = m + 1 => m < n
    BY <1>1
  <2> HIDE DEF f
  <2> QED BY <1>1, <2>1, <2>2
<1>3. f \in Filling(levels)
  <2>1. f \in [1..n -> Nat]
    <3>1. f = [i \in 1..n |-> f[i]]
      BY DEF Upto
    <3> HIDE DEF f
    <3> QED BY <1>2, <3>1
  <2> HIDE DEF f
  <2> QED BY <1>2, <2>1 DEF Filling
<1>4. ASSUME m < n PROVE Greedy(levels, f, m + 1)
  <2> SUFFICES ASSUME NEW i \in 1..n
               PROVE  (i < m + 1 => f[i] = levels[i].amount) /\ (i > m + 1 => f[i] = 0)
    BY DEF Greedy
  <2>1. f[i] = IF i <= m THEN levels[i].amount ELSE IF i = m + 1 THEN rest ELSE 0
    BY DEF Upto
  <2> HIDE DEF f
  <2> QED BY <1>1, <2>1
<1> QED BY <1>3, <1>4

\* What they hold.
LEMMA UptoHolds ==
    ASSUME NEW levels \in Books, NEW m \in 0..Len(levels)
    PROVE  Base(levels, Upto(levels, m, 0)) = Depth(levels, m)
<1> DEFINE n == Len(levels)
           a == [j \in 1..n |-> levels[j].amount]
<1>1. n \in Nat /\ m \in Nat /\ m <= n /\ IsFiniteSet(1..n)
      /\ \A i \in 1..n : levels[i].amount \in Nat /\ a[i] = levels[i].amount /\ a[i] \in Int
  <2>1. n \in Nat /\ \A i \in 1..n : levels[i].amount \in Nat
    BY LevelsPositive DEF Books
  <2>2. IsFiniteSet(1..n)
    BY <2>1, SumOfFirst, FS_Interval
  <2> QED BY <2>1, <2>2
<1>2. \A j \in Nat : \A i \in 1..n : Upto(levels, j, 0)[i] = IF i <= j THEN levels[i].amount ELSE 0
  BY DEF Upto
<1> HIDE DEF a
<1>3. ASSUME NEW j \in Nat, NEW i \in 1..n PROVE Upto(levels, j, 0)[i] \in Int
  BY <1>1, <1>2
<1>4. ASSUME NEW j \in Nat, j < n
      PROVE  SumOn(Upto(levels, j + 1, 0), 1..n) = SumOn(Upto(levels, j, 0), 1..n) + a[j + 1]
  <2>1. j + 1 \in 1..n
    BY <1>1, <1>4
  <2>2. \A i \in 1..n : Upto(levels, j + 1, 0)[i] \in Int /\ Upto(levels, j, 0)[i] \in Int
    BY <1>3
  <2>3. \A i \in (1..n) \ {j + 1} : Upto(levels, j + 1, 0)[i] = Upto(levels, j, 0)[i]
    BY <1>1, <1>2
  <2>4. Upto(levels, j + 1, 0)[j + 1] = a[j + 1] /\ Upto(levels, j, 0)[j + 1] = 0
    BY <1>1, <1>2, <2>1
  <2>5. SumOn(Upto(levels, j + 1, 0), 1..n) = SumOn(Upto(levels, j, 0), 1..n) + (Upto(levels, j + 1, 0)[j + 1] - Upto(levels, j, 0)[j + 1])
    <3> DEFINE u == Upto(levels, j + 1, 0)
               v == Upto(levels, j, 0)
    <3>1. DifferAt(1..n, u, v, j + 1)
      BY <2>1, <2>2, <2>3 DEF DifferAt
    <3> HIDE DEF u, v
    <3>3. SumOn(u, 1..n) = SumOn(v, 1..n) + (u[j + 1] - v[j + 1])
      BY <1>1, <3>1, SumChanged
    <3> QED BY <3>3 DEF u, v
  <2>6. SumOn(Upto(levels, j, 0), 1..n) \in Int /\ a[j + 1] \in Int
    BY <1>1, <2>1, <2>2, SumUnfolds
  <2> QED BY <2>4, <2>5, <2>6
<1>5. \A j \in Nat : j <= n => SumOn(Upto(levels, j, 0), 1..n) = SumOn(a, 1..j)
  <2> DEFINE Good == {j \in Nat : j <= n => SumOn(Upto(levels, j, 0), 1..n) = SumOn(a, 1..j)}
  <2>1. 0 \in Good
    <3>1. \A i \in 1..n : Upto(levels, 0, 0)[i] = 0
      BY <1>1, <1>2
    <3>2. SumOn(Upto(levels, 0, 0), 1..n) = 0
      BY <1>1, <3>1, SumZero
    <3>3. SumOn(a, 1..0) = 0
      BY SumOfFirst
    <3> QED BY <3>2, <3>3
  <2>2. ASSUME NEW j \in Nat, j \in Good PROVE j + 1 \in Good
    <3> SUFFICES ASSUME j + 1 <= n PROVE SumOn(Upto(levels, j + 1, 0), 1..n) = SumOn(a, 1..(j + 1))
      OBVIOUS
    <3>1. j < n /\ j + 1 \in Nat /\ (j + 1) - 1 = j /\ j + 1 # 0
          /\ \A i \in 1..(j + 1) : i \in 1..n
      BY <1>1
    <3>2. SumOn(a, 1..(j + 1)) = SumOn(a, 1..j) + a[j + 1]
      BY <1>1, <3>1, SumOfFirst
    <3>3. SumOn(Upto(levels, j + 1, 0), 1..n) = SumOn(Upto(levels, j, 0), 1..n) + a[j + 1]
      BY <1>4, <3>1
    <3> QED BY <2>2, <3>1, <3>2, <3>3
  <2> HIDE DEF Good
  <2>3. Nat \subseteq Good
    BY <2>1, <2>2, NaturalInduction
  <2> QED BY <2>3 DEF Good
<1>6. Depth(levels, m) = SumOn(a, 1..m)
  BY DepthIsSum DEF a
<1>7. SumOn(Upto(levels, m, 0), 1..n) = SumOn(a, 1..m)
  BY <1>1, <1>5
<1> QED BY <1>6, <1>7 DEF Base

\* LevelType by level.
LEMMA DepthGrows ==
    ASSUME NEW levels \in Books
    PROVE  /\ Depth(levels, 0) = 0
           /\ \A i \in 0..Len(levels) : Depth(levels, i) \in Nat
           /\ \A i \in 1..Len(levels) : Depth(levels, i) = Depth(levels, i - 1) + levels[i].amount
<1> DEFINE n == Len(levels)
           a == [j \in 1..n |-> levels[j].amount]
<1>1. n \in Nat /\ \A i \in 1..n : a[i] \in Nat /\ a[i] = levels[i].amount
  BY LevelsPositive DEF Books
<1>2. \A i \in 0..n : Depth(levels, i) = SumOn(a, 1..i)
  BY DepthIsSum
<1> HIDE DEF a, n
<1>3. ASSUME NEW i \in 1..n
      PROVE  Depth(levels, i) = Depth(levels, i - 1) + levels[i].amount
  <2>1. i \in Nat /\ i # 0 /\ i \in 0..n /\ i - 1 \in 0..n /\ \A j \in 1..i : a[j] \in Int
    BY <1>1
  <2>2. SumOn(a, 1..i) = SumOn(a, 1..(i - 1)) + a[i]
    BY <2>1, SumOfFirst
  <2> QED BY <1>1, <1>2, <2>1, <2>2
<1>4. Depth(levels, 0) = 0
  <2>1. SumOn(a, 1..0) = 0
    BY SumOfFirst
  <2> QED BY <1>1, <1>2, <2>1
<1>5. \A i \in 0..n : Depth(levels, i) \in Nat
  <2>1. ASSUME NEW i \in 0..n PROVE Depth(levels, i) \in Nat
    <3>1. Upto(levels, i, 0) \in Filling(levels)
      BY <1>1, LevelsPositive, UptoIsFill DEF n
    <3>2. Base(levels, Upto(levels, i, 0)) >= 0 /\ Base(levels, Upto(levels, i, 0)) \in Int
      BY <3>1, FillsBounded, FillType
    <3>3. Base(levels, Upto(levels, i, 0)) = Depth(levels, i)
      BY UptoHolds DEF n
    <3> QED BY <3>2, <3>3
  <2> QED BY <2>1
<1> QED BY <1>3, <1>4, <1>5 DEF n

\* To sell what the first levels hold, and some of the next, in sorted bids.
LEMMA WalkOfDepth ==
    ASSUME NEW levels \in Books, Descending(levels), NEW last \in 1..Len(levels)
    PROVE  LET D == Depth(levels, last - 1)
               P == levels[last].price
           IN /\ Walk(D, levels).left = 0
              /\ \A f \in Filling(levels) :
                   Money(levels, f) <= Walk(D, levels).money + P * (Base(levels, f) - D)
              /\ \A x \in Nat : D <= x /\ x <= Depth(levels, last) =>
                   Walk(x, levels).money >= Walk(D, levels).money + P * (x - D)
<1> DEFINE n == Len(levels)
           m == last - 1
           D == Depth(levels, m)
           P == levels[last].price
           h == Upto(levels, m, 0)
           w == Walk(D, levels)
<1>1. n \in Nat /\ last \in Nat /\ m \in 0..n /\ m < n /\ m + 1 = last /\ IsFiniteSet(1..n)
      /\ P \in Nat /\ levels[last].amount \in Nat
  <2>1. n \in Nat
    BY DEF Books
  <2>2. IsFiniteSet(1..n)
    BY <2>1, FS_Interval
  <2> QED BY <2>1, <2>2, LevelsPositive
<1>2. D \in Nat /\ Depth(levels, last) = D + levels[last].amount
  BY <1>1, DepthGrows
<1>3. h \in Filling(levels) /\ Greedy(levels, h, last) /\ Base(levels, h) = D
  <2>1. \A k \in 1..n : levels[k].amount \in Nat
    BY LevelsPositive
  <2>2. 0 \in Nat /\ (m < n => 0 <= levels[m + 1].amount)
    BY <1>1, <2>1
  <2> HIDE DEF m
  <2> QED BY <1>1, <2>2, UptoIsFill, UptoHolds
<1>4. w.left \in Nat /\ w.money \in Nat
  BY <1>2, WalkIsGreedy DEF Account
<1>5. /\ w.left = 0
      /\ Money(levels, h) <= w.money
  <2>1. /\ Base(levels, h) <= D => Money(levels, h) <= w.money
        /\ w.left > 0 => Base(levels, h) < D
    BY <1>2, <1>3, DescendingWalk
  <2> HIDE DEF w, h, D
  <2> QED BY <1>2, <1>3, <1>4, <2>1
<1> HIDE DEF w, h, D, P, m
<1>6. Money(levels, h) = w.money
  <2>1. PICK g \in Filling(levels) : Base(levels, g) = D - w.left /\ Money(levels, g) = w.money
    BY <1>2, WalkIsGreedy DEF w
  <2>2. Money(levels, g) <= Money(levels, h) + P * (Base(levels, g) - Base(levels, h))
    BY <1>3, GreedyEarnsMost DEF P
  <2>3. Base(levels, g) - Base(levels, h) = 0 /\ P * 0 = 0
    BY <1>1, <1>2, <1>3, <1>5, <2>1
  <2>4. Money(levels, h) \in Int
    BY <1>3, FillType
  <2> QED BY <1>4, <1>5, <2>1, <2>2, <2>3, <2>4
<1>7. ASSUME NEW f \in Filling(levels)
      PROVE  Money(levels, f) <= w.money + P * (Base(levels, f) - D)
  BY <1>3, <1>6, GreedyEarnsMost DEF P
<1>8. ASSUME NEW x \in Nat, D <= x, x <= Depth(levels, last)
      PROVE  Walk(x, levels).money >= w.money + P * (x - D)
  <2> DEFINE rest == x - D
             f == Upto(levels, m, rest)
  <2>1. rest \in Nat /\ rest <= levels[last].amount
    BY <1>1, <1>2, <1>8
  <2> HIDE DEF rest
  <2>2. f \in Filling(levels)
    BY <1>1, <2>1, UptoIsFill
  <2>3. ASSUME NEW i \in 1..n
        PROVE  /\ f[i] \in Int /\ h[i] \in Int
               /\ Worth(levels, f)[i] \in Int /\ Worth(levels, h)[i] \in Int
    BY <1>3, <2>2, FillType
  <2>4. ASSUME NEW i \in (1..n) \ {last} PROVE f[i] = h[i]
    BY <1>1 DEF h, Upto
  <2>5. f[last] = rest /\ h[last] = 0
    BY <1>1 DEF h, Upto
  <2> HIDE DEF f
  <2>6. DifferAt(1..n, f, h, last)
    BY <2>3, <2>4 DEF DifferAt
  <2>7. DifferAt(1..n, Worth(levels, f), Worth(levels, h), last)
    <3>1. ASSUME NEW i \in (1..n) \ {last} PROVE Worth(levels, f)[i] = Worth(levels, h)[i]
      BY <2>4 DEF Worth
    <3> QED BY <2>3, <3>1 DEF DifferAt
  <2>8. Worth(levels, f)[last] = rest * P /\ Worth(levels, h)[last] = 0
    <3>1. Worth(levels, f)[last] = f[last] * P /\ Worth(levels, h)[last] = h[last] * P
      BY DEF Worth, P
    <3> QED BY <1>1, <2>5, <3>1
  <2>9. Base(levels, f) = Base(levels, h) + (f[last] - h[last])
    BY <1>1, <2>6, SumChanged DEF Base
  <2>10. Money(levels, f) = Money(levels, h)
                            + (Worth(levels, f)[last] - Worth(levels, h)[last])
    BY <1>1, <2>7, SumChanged DEF Money
  <2>11. Base(levels, f) = x
    BY <1>2, <1>3, <2>1, <2>5, <2>9 DEF rest
  <2>12. Money(levels, f) = w.money + rest * P
    BY <1>1, <1>4, <1>6, <2>1, <2>8, <2>10
  <2>13. Money(levels, f) <= Walk(x, levels).money
    <3>1. Base(levels, f) <= x
      BY <2>11
    <3> QED BY <2>2, <3>1, DescendingWalk
  <2>14. rest * P = P * (x - D)
    BY <1>1, <1>2, <2>1 DEF rest
  <2>15. Walk(x, levels).money \in Nat
    BY WalkIsGreedy DEF Account
  <2>16. rest * P \in Int
    BY <1>1, <2>1
  <2> QED BY <1>4, <2>12, <2>13, <2>14, <2>15, <2>16
<1> QED BY <1>5, <1>7, <1>8 DEF w, P, D, m

\* The amount SellForQuote sells: it brings the target, and no fewer steps do.
LEMMA SoldUpToIsLeast ==
    ASSUME NEW levels \in Books, Descending(levels), NEW last \in 1..Len(levels),
           NEW target \in Nat \ {0}, NEW rate \in 0..(One - 1), NEW step \in Nat \ {0},
           Proceeds(Depth(levels, last), rate, levels) >= target * One,
           last # 1 => Proceeds(Depth(levels, last - 1), rate, levels) < target * One
    PROVE  LET x == SoldUpTo(last, target, rate, step, levels) IN
           /\ x \in Nat \ {0} /\ Steps(x, step)
           /\ Proceeds(x, rate, levels) >= target * One
           /\ \A y \in Int, f \in Filling(levels) :
                Steps(y, step) /\ y < x /\ Base(levels, f) <= y =>
                  Money(levels, f) * (One - rate) < target * One
<1> DEFINE P == levels[last].price
           c == One - rate
           T == target * One
           D == Depth(levels, last - 1)
           w == Walk(D, levels)
           x == SoldUpTo(last, target, rate, step, levels)
           net == P * c
           left == T - w.money * c
<1>1. P \in Nat \ {0} /\ c \in Nat \ {0} /\ T \in Nat \ {0} /\ Len(levels) \in Nat
  <2>1. One \in Nat \ {0}
    BY MoneyAssumption
  <2> QED BY <2>1, LevelsPositive
<1>2. D \in Nat /\ Depth(levels, last) = D + levels[last].amount
      /\ Depth(levels, last) \in Nat /\ (last = 1 => D = 0)
  <2>1. last - 1 \in 0..Len(levels) /\ last \in 0..Len(levels) /\ (last = 1 => last - 1 = 0)
    BY <1>1
  <2> QED BY <2>1, DepthGrows
<1>3. w.money \in Nat
  BY <1>2, WalkIsGreedy DEF Account
<1>4. x = CeilRatio(D * net + left, net, step)
  BY DEF SoldUpTo, Proceeds
<1>5. /\ w.left = 0
      /\ \A f \in Filling(levels) : Money(levels, f) <= w.money + P * (Base(levels, f) - D)
      /\ \A y \in Nat : D <= y /\ y <= Depth(levels, last) =>
           Walk(y, levels).money >= w.money + P * (y - D)
  BY WalkOfDepth
<1>6. w.money * c < T
  <2>1. CASE last # 1
    BY <2>1 DEF Proceeds
  <2>2. CASE last = 1
    <3>1. PICK g \in Filling(levels) : Base(levels, g) = D - w.left /\ Money(levels, g) = w.money
      BY <1>2, WalkIsGreedy
    <3>2. \A i \in 1..Len(levels) : Upto(levels, 0, 0)[i] = 0
      BY LevelsPositive DEF Upto
    <3>3. Upto(levels, 0, 0) \in Filling(levels)
      <4>1. 0 \in 0..Len(levels) /\ \A i \in 1..Len(levels) : levels[i].amount \in Nat
        BY <1>1, LevelsPositive
      <4>2. 0 < Len(levels) => 0 <= levels[0 + 1].amount
        BY <1>1, <4>1
      <4> QED BY <4>1, <4>2, UptoIsFill
    <3>4. Money(levels, Upto(levels, 0, 0)) = 0 /\ Base(levels, Upto(levels, 0, 0)) = 0
      <4>1. \A i \in 1..Len(levels) : Worth(levels, Upto(levels, 0, 0))[i] = 0
        BY <3>2, LevelsPositive DEF Worth
      <4>2. IsFiniteSet(1..Len(levels))
        BY <3>3, FillType
      <4> QED BY <3>2, <4>1, <4>2, SumZero DEF Base, Money
    <3>5. Greedy(levels, Upto(levels, 0, 0), 1) /\ 1 \in 1..Len(levels)
      BY <1>1, <2>2, <3>2 DEF Greedy
    <3>6. Money(levels, g) <= 0 + levels[1].price * (Base(levels, g) - 0)
      BY <3>3, <3>4, <3>5, GreedyEarnsMost
    <3>7. Base(levels, g) = 0 /\ levels[1].price \in Int
      BY <1>1, <1>2, <1>5, <2>2, <3>1
    <3>8. w.money = 0
      BY <1>3, <3>1, <3>6, <3>7
    <3> HIDE DEF w, c, T
    <3> QED BY <1>1, <3>8
  <2> QED BY <2>1, <2>2
<1> HIDE DEF x, w, D, T, c, P
<1>7. net \in Nat \ {0} /\ left \in Nat \ {0} /\ D * net + left \in Int /\ w.money * c \in Int
  <2>1. w.money * c \in Int
    BY <1>1, <1>3
  <2>2. \A a, b \in Nat \ {0} : a * b \in Nat \ {0}
    OBVIOUS
  <2>3. net \in Nat \ {0}
    BY <1>1, <2>2
  <2>4. left \in Nat \ {0}
    BY <1>1, <1>6, <2>1
  <2> HIDE DEF net, left
  <2> QED BY <1>2, <2>1, <2>3, <2>4
<1>8. /\ x \in Int /\ Steps(x, step)
      /\ x * net >= D * net + left
      /\ \A y \in Int : Steps(y, step) /\ y * net >= D * net + left => y >= x
  <2> HIDE DEF net, left
  <2> QED BY <1>4, <1>7, CeilRatioLeast
<1>9. x > D
  <2> HIDE DEF net, left
  <2>1. D * net < x * net
    BY <1>2, <1>7, <1>8
  <2> QED BY <1>2, <1>7, <1>8, <2>1, Products
<1>10. x \in Nat \ {0}
  BY <1>2, <1>8, <1>9
<1>11. ASSUME NEW b \in Int, NEW money \in Int, money <= w.money + P * (b - D)
       PROVE  money * c <= (w.money * c) + (b * net - D * net)
  <2>1. money * c <= (w.money + P * (b - D)) * c
    <3>1. w.money + P * (b - D) \in Int
      BY <1>1, <1>2, <1>3
    <3> QED BY <1>1, <1>11, <3>1, Products
  <2>2. (w.money + P * (b - D)) * c = (w.money * c) + (b * net - D * net)
    BY <1>1, <1>2, <1>3
  <2> QED BY <2>1, <2>2
<1>12. ASSUME NEW y \in Int, NEW f \in Filling(levels),
              Steps(y, step), y < x, Base(levels, f) <= y
       PROVE  Money(levels, f) * c < T
  <2>1. Base(levels, f) \in Int /\ Money(levels, f) \in Int
    BY FillType
  <2>2. Money(levels, f) * c <= (w.money * c) + (Base(levels, f) * net - D * net)
    BY <1>5, <1>11, <2>1
  <2>3. ~ (y * net >= D * net + left)
    BY <1>8, <1>12
  <2>4. Base(levels, f) * net <= y * net
    <3> HIDE DEF net
    <3> QED BY <1>7, <1>12, <2>1, Products
  <2>5. Base(levels, f) * net \in Int /\ y * net \in Int /\ D * net \in Int
        /\ Money(levels, f) * c \in Int
    <3>1. \A a, b \in Int : a * b \in Int
      OBVIOUS
    <3>2. net \in Int /\ D \in Int /\ c \in Int
      <4> HIDE DEF net
      <4> QED BY <1>1, <1>2, <1>7
    <3> HIDE DEF net
    <3> QED BY <2>1, <3>1, <3>2, Zenon
  <2>6. left = T - w.money * c
    OBVIOUS
  <2> DEFINE bn == Base(levels, f) * net  yn == y * net  dn == D * net
             mc == Money(levels, f) * c  wc == w.money * c
  <2>7. /\ mc <= wc + (bn - dn) /\ ~ (yn >= dn + left) /\ bn <= yn /\ left = T - wc
        /\ bn \in Int /\ yn \in Int /\ dn \in Int /\ mc \in Int /\ wc \in Int /\ T \in Int
    BY <1>1, <1>7, <2>2, <2>3, <2>4, <2>5, <2>6
  <2> HIDE DEF bn, yn, dn, mc, wc, left
  <2>8. mc < T
    BY <2>7
  <2> QED BY <2>8 DEF mc
<1>13. Walk(x, levels).money * c >= T
  <2>0. Walk(x, levels).money \in Nat
    BY <1>10, WalkIsGreedy DEF Account
  <2>1. CASE x <= Depth(levels, last)
    <3>1. Walk(x, levels).money >= w.money + P * (x - D)
      BY <1>5, <1>9, <1>10, <1>2, <2>1
    <3>2. (w.money + P * (x - D)) * c <= Walk(x, levels).money * c
      <4>1. w.money + P * (x - D) \in Int
        BY <1>1, <1>2, <1>3, <1>10
      <4> QED BY <1>1, <2>0, <3>1, <4>1, Products
    <3>3. (w.money + P * (x - D)) * c = (w.money * c) + (x * net - D * net)
      BY <1>1, <1>2, <1>3, <1>10
    <3>4. x * net \in Int /\ D * net \in Int /\ Walk(x, levels).money * c \in Int
      <4> HIDE DEF net
      <4> QED BY <1>1, <1>2, <1>7, <1>10, <2>0
    <3> DEFINE xn == x * net  dn == D * net  wc == w.money * c
               mc == Walk(x, levels).money * c
    <3>5. /\ wc + (xn - dn) <= mc /\ xn >= dn + left /\ left = T - wc
          /\ xn \in Int /\ dn \in Int /\ wc \in Int /\ mc \in Int /\ T \in Int
      BY <1>1, <1>7, <1>8, <3>2, <3>3, <3>4
    <3> HIDE DEF xn, dn, wc, mc, left
    <3>6. mc >= T
      BY <3>5
    <3> QED BY <3>6 DEF mc
  <2>2. CASE x > Depth(levels, last)
    <3> DEFINE full == Upto(levels, last, 0)
    <3>1. full \in Filling(levels) /\ Base(levels, full) = Depth(levels, last)
      <4>1. last \in 0..Len(levels) /\ \A i \in 1..Len(levels) : levels[i].amount \in Nat
        BY <1>1, LevelsPositive
      <4>2. last < Len(levels) => 0 <= levels[last + 1].amount
        BY <1>1, <4>1
      <4> QED BY <4>1, <4>2, UptoIsFill, UptoHolds
    <3> DEFINE v == Walk(Depth(levels, last), levels)
    <3>2. v.money \in Nat /\ v.left \in Nat
      BY <1>2, WalkIsGreedy DEF Account
    <3>3. v.money * c >= T
      BY DEF Proceeds, c, T
    <3>4. PICK g \in Filling(levels) :
            Base(levels, g) = Depth(levels, last) - v.left /\ Money(levels, g) = v.money
      BY <1>2, WalkIsGreedy
    <3>5. Base(levels, g) <= x
      BY <1>2, <1>10, <2>2, <3>2, <3>4
    <3>6. v.money <= Walk(x, levels).money
      BY <1>10, <3>4, <3>5, DescendingWalk
    <3> HIDE DEF v
    <3>7. v.money * c <= Walk(x, levels).money * c
      BY <1>1, <2>0, <3>2, <3>6, Products
    <3>8. v.money * c \in Int /\ Walk(x, levels).money * c \in Int
      BY <1>1, <2>0, <3>2
    <3> QED BY <1>1, <3>3, <3>7, <3>8
  <2> QED BY <1>2, <1>10, <2>1, <2>2
<1> QED BY <1>8, <1>10, <1>12, <1>13 DEF x, c, T, Proceeds

\* Whoever trades something pays for it.
LEMMA NothingIsFree ==
    ASSUME NEW levels \in Books, NEW f \in Filling(levels)
    PROVE  Base(levels, f) <= Money(levels, f)
<1>1. IsFiniteSet(1..Len(levels))
      /\ \A i \in 1..Len(levels) : f[i] \in Nat /\ Worth(levels, f)[i] \in Nat
  BY FillType
<1>2. ASSUME NEW i \in 1..Len(levels) PROVE f[i] <= Worth(levels, f)[i]
  <2>1. Worth(levels, f)[i] = f[i] * levels[i].price
    BY DEF Worth
  <2>2. levels[i].price \in Nat \ {0}
    BY LevelsPositive
  <2>3. \A a \in Nat, b \in Nat \ {0} : a <= a * b
    OBVIOUS
  <2>4. f[i] <= f[i] * levels[i].price
    BY <1>1, <2>2, <2>3
  <2> QED BY <2>1, <2>4
<1> QED BY <1>1, <1>2, SumMonotone DEF Base, Money

\* CalculateBuyCost is what the amount costs at least, and fails only when there is not as much.
LEMMA BuyCostIsLeast ==
    ASSUME NEW asks \in Seq(LevelType), NEW x \in Nat \ {0}
    PROVE  LET cost == CalculateBuyCost(x, asks) IN
           /\ cost \in Nat
           /\ cost # Failed =>
                /\ asks \in Books
                /\ \E f \in Filling(asks) : Base(asks, f) = x /\ Money(asks, f) = cost
                /\ \A f \in Filling(asks) : Base(asks, f) >= x => Money(asks, f) >= cost
           /\ cost = Failed /\ Valid(asks) => \A f \in Filling(asks) : Base(asks, f) < x
<1> DEFINE cost == CalculateBuyCost(x, asks)
           levels == BestAsks(asks)
           w == Walk(x, levels)
<1>1. cost = IF Valid(asks) /\ w.left = 0 THEN w.money ELSE Failed
  BY DEF CalculateBuyCost
<1>2. CASE ~ Valid(asks)
  BY <1>1, <1>2 DEF Failed
<1>3. CASE Valid(asks)
  <2>1. asks \in Books
    BY <1>3 DEF Books
  <2>2. PICK p \in Arrangements(Len(asks)) :
          /\ BestAsks(asks) = [i \in 1..Len(asks) |-> asks[p[i]]]
          /\ \A i, j \in 1..Len(asks) : i < j => asks[p[i]].price <= asks[p[j]].price
    BY AsksSorted
  <2>3. levels = Rearrangement(asks, p)
    BY <2>2 DEF Rearrangement
  <2> HIDE DEF levels
  <2>4. /\ levels \in Books /\ Len(levels) = Len(asks)
        /\ \A i \in 1..Len(asks) : p[i] \in 1..Len(asks) /\ levels[i] = asks[p[i]]
    BY <2>1, <2>3, ArrangedBook
  <2>5. Ascending(levels)
    BY <2>2, <2>4 DEF Ascending
  <2>6. /\ \A f \in Filling(asks) : \E g \in Filling(levels) : SameTotals(asks, f, levels, g)
        /\ \A g \in Filling(levels) : \E f \in Filling(asks) : SameTotals(asks, f, levels, g)
    BY <2>1, <2>3, FillsRearranged
  <2>7. w.left \in Nat /\ w.money \in Nat
    BY <2>4, WalkIsGreedy DEF Account
  <2>8. PICK g \in Filling(levels) : Base(levels, g) = x - w.left /\ Money(levels, g) = w.money
    BY <2>4, WalkIsGreedy
  <2>9. ASSUME NEW f \in Filling(asks)
        PROVE  /\ w.left = 0 /\ Base(asks, f) >= x => Money(asks, f) >= w.money
               /\ w.left > 0 => Base(asks, f) < x
    <3>1. PICK h \in Filling(levels) : SameTotals(asks, f, levels, h)
      BY <2>6
    <3>2. /\ w.left = 0 /\ Base(levels, h) >= x => Money(levels, h) >= w.money
          /\ w.left > 0 => Base(levels, h) < x
      BY <2>4, <2>5, AscendingWalk
    <3> QED BY <3>1, <3>2 DEF SameTotals
  <2>10. ASSUME w.left = 0 PROVE w.money # 0
    <3>1. Base(levels, g) <= Money(levels, g)
      BY <2>4, <2>8, NothingIsFree
    <3> HIDE DEF w
    <3> QED BY <2>7, <2>8, <2>10, <3>1
  <2>11. PICK f \in Filling(asks) : SameTotals(asks, f, levels, g)
    BY <2>6, <2>8
  <2> HIDE DEF w, cost
  <2>12. CASE w.left = 0
    <3>1. cost = w.money /\ cost # Failed /\ cost \in Nat
      BY <1>1, <1>3, <2>7, <2>10, <2>12 DEF Failed
    <3>2. Base(asks, f) = x /\ Money(asks, f) = cost
      <4>1. x - w.left = x
        BY <2>12
      <4> QED BY <2>8, <2>11, <3>1, <4>1 DEF SameTotals
    <3> QED BY <2>1, <2>9, <2>12, <3>1, <3>2 DEF cost
  <2>13. CASE w.left # 0
    <3>1. cost = Failed /\ w.left > 0 /\ cost \in Nat
      BY <1>1, <2>7, <2>13 DEF Failed
    <3> QED BY <2>9, <3>1 DEF cost
  <2> QED BY <2>12, <2>13
<1> QED BY <1>2, <1>3

\* SellForQuote is the fewest steps that bring the target, and fails only when all do not.
LEMMA SellIsLeast ==
    ASSUME NEW bids \in Seq(LevelType), NEW target \in Nat \ {0}, NEW rate \in 0..(One - 1),
           NEW step \in Nat \ {0}
    PROVE  LET x == SellForQuote(target, rate, step, bids) IN
           /\ x \in Nat
           /\ x # Failed =>
                /\ bids \in Books /\ Steps(x, step)
                /\ \E f \in Filling(bids) :
                     Base(bids, f) = x /\ Money(bids, f) * (One - rate) >= target * One
                /\ \A y \in Int, f \in Filling(bids) :
                     Steps(y, step) /\ y < x /\ Base(bids, f) <= y =>
                       Money(bids, f) * (One - rate) < target * One
           /\ x = Failed /\ Valid(bids) =>
                \A y \in Int, f \in Filling(bids), most \in Filling(bids) :
                  Steps(y, step) /\ Base(bids, f) <= y /\ y <= Base(bids, most) =>
                    Money(bids, f) * (One - rate) < target * One
<1> DEFINE levels == BestBids(bids)
           n == Len(bids)
           enough == {i \in DOMAIN levels : Proceeds(Depth(levels, i), rate, levels) >= target * One}
           least == CHOOSE i \in enough : \A j \in enough : i <= j
           x == SellForQuote(target, rate, step, bids)
<1>1. x = IF ~ Valid(bids) \/ enough = {} THEN Failed
          ELSE VerifySell(SoldUpTo(least, target, rate, step, levels), target, rate, levels)
  <2>1. ~ (target <= 0 \/ rate < 0 \/ rate >= One \/ step <= 0)
    BY MoneyAssumption
  <2> QED BY <2>1 DEF SellForQuote
<1>2. CASE ~ Valid(bids)
  BY <1>1, <1>2 DEF Failed
<1>3. CASE Valid(bids)
  <2>1. bids \in Books /\ n \in Nat
    BY <1>3 DEF Books
  <2>2. PICK p \in Arrangements(n) :
          /\ BestBids(bids) = [i \in 1..n |-> bids[p[i]]]
          /\ \A i, j \in 1..n : i < j => bids[p[i]].price >= bids[p[j]].price
    BY BidsSorted
  <2>3. levels = Rearrangement(bids, p)
    BY <2>2 DEF Rearrangement
  <2> HIDE DEF levels
  <2>4. /\ levels \in Books /\ Len(levels) = n /\ DOMAIN levels = 1..n
        /\ \A i \in 1..n : p[i] \in 1..n /\ levels[i] = bids[p[i]]
    <3>1. /\ levels \in Books /\ Len(levels) = n
          /\ \A i \in 1..n : p[i] \in 1..n /\ levels[i] = bids[p[i]]
      BY <2>1, <2>3, ArrangedBook
    <3> QED BY <3>1 DEF Books
  <2>5. Descending(levels)
    BY <2>2, <2>4 DEF Descending
  <2>6. /\ \A f \in Filling(bids) : \E g \in Filling(levels) : SameTotals(bids, f, levels, g)
        /\ \A g \in Filling(levels) : \E f \in Filling(bids) : SameTotals(bids, f, levels, g)
    BY <2>1, <2>3, FillsRearranged
  <2> DEFINE c == One - rate
             T == target * One
  <2>7. c \in Nat \ {0} /\ T \in Nat \ {0}
    BY MoneyAssumption
  <2>8. CASE enough = {}
    <3>1. x = Failed
      BY <1>1, <2>8
    <3>2. ASSUME NEW f \in Filling(levels) PROVE Money(levels, f) * c < T
      <4>1. CASE n = 0
        <5>1. Money(levels, f) = 0
          BY <2>4, <4>1, FillsBounded
        <5> HIDE DEF c, T
        <5> QED BY <2>7, <5>1
      <4>2. CASE n # 0
        <5> DEFINE full == Upto(levels, n, 0)
                   D == Depth(levels, n)
        <5>1. n \in 0..Len(levels) /\ n \in 1..Len(levels) /\ ~ (n < Len(levels))
          BY <2>1, <2>4, <4>2
        <5>2. full \in Filling(levels) /\ Base(levels, full) = D /\ D \in Nat
          BY <2>4, <5>1, UptoIsFill, UptoHolds, DepthGrows
        <5>3. \A i \in 1..Len(levels) : full[i] = levels[i].amount
          BY <2>4 DEF Upto
        <5> HIDE DEF full
        <5>4. Base(levels, f) <= D
          BY <2>4, <5>2, <5>3, FillsBounded
        <5>5. Money(levels, f) <= Walk(D, levels).money
          BY <2>4, <2>5, <5>2, <5>4, DescendingWalk
        <5>6. ~ (Walk(D, levels).money * c >= T)
          BY <2>4, <2>8, <5>1 DEF Proceeds
        <5>7. Walk(D, levels).money \in Nat
          BY <2>4, <5>2, WalkIsGreedy DEF Account
        <5>8. Money(levels, f) \in Int
          BY <2>4, FillType
        <5> HIDE DEF c, T, D
        <5>9. Money(levels, f) * c <= Walk(D, levels).money * c
          BY <2>7, <5>5, <5>7, <5>8, Products
        <5>10. Money(levels, f) * c \in Int /\ Walk(D, levels).money * c \in Int
          BY <2>7, <5>7, <5>8
        <5> QED BY <2>7, <5>6, <5>9, <5>10
      <4> QED BY <4>1, <4>2
    <3>3. ASSUME NEW f \in Filling(bids) PROVE Money(bids, f) * c < T
      <4>1. PICK g \in Filling(levels) : SameTotals(bids, f, levels, g)
        BY <2>6
      <4> QED BY <3>2, <4>1 DEF SameTotals
    <3> HIDE DEF x
    <3> QED BY <3>1, <3>3 DEF x, Failed
  <2>9. CASE enough # {}
    <3>1. least \in enough /\ \A j \in enough : least <= j
      <4>1. enough \in SUBSET Nat
        BY <2>1, <2>4
      <4> HIDE DEF enough
      <4>2. \E i \in enough : \A j \in enough : i <= j
        BY <2>9, <4>1, LeastNatural
      <4> QED BY <4>2
    <3>2. /\ least \in 1..Len(levels)
          /\ Proceeds(Depth(levels, least), rate, levels) >= T
      BY <2>4, <3>1
    <3> DEFINE b == SoldUpTo(least, target, rate, step, levels)
    <3>3. x = VerifySell(b, target, rate, levels)
      BY <1>1, <1>3, <2>9
    <3>4. ASSUME least # 1 PROVE Proceeds(Depth(levels, least - 1), rate, levels) < T
      <4>1. least - 1 \in DOMAIN levels /\ ~ (least <= least - 1)
        BY <2>1, <2>4, <3>2, <3>4
      <4>2. least - 1 \notin enough
        BY <3>1, <4>1
      <4>3. ~ (Proceeds(Depth(levels, least - 1), rate, levels) >= T)
        BY <4>1, <4>2
      <4>4. Proceeds(Depth(levels, least - 1), rate, levels) \in Int
        <5>1. Depth(levels, least - 1) \in Nat
          <6>1. least - 1 \in 0..Len(levels)
            BY <2>4, <4>1
          <6> QED BY <2>4, <6>1, DepthGrows
        <5>2. Walk(Depth(levels, least - 1), levels).money \in Nat
          BY <2>4, <5>1, WalkIsGreedy DEF Account
        <5> QED BY <2>7, <5>2 DEF Proceeds
      <4> HIDE DEF T
      <4> QED BY <2>7, <4>3, <4>4
    <3> HIDE DEF least
    <3>5. /\ b \in Nat \ {0} /\ Steps(b, step) /\ Proceeds(b, rate, levels) >= T
          /\ \A y \in Int, f \in Filling(levels) :
               Steps(y, step) /\ y < b /\ Base(levels, f) <= y => Money(levels, f) * c < T
      BY <2>4, <2>5, <3>2, <3>4, SoldUpToIsLeast
    <3> HIDE DEF b, enough, x
    <3> DEFINE w == Walk(b, levels)
    <3>6. w.left \in Nat /\ w.money \in Nat
      BY <2>4, <3>5, WalkIsGreedy DEF Account
    <3>7. Proceeds(b, rate, levels) = w.money * c /\ w.money * c \in Int
      BY <2>7, <3>6 DEF Proceeds
    <3>8. x = IF w.left > 0 THEN Failed ELSE b
      <4>1. x = IF w.left > 0 \/ Proceeds(b, rate, levels) < T THEN Failed ELSE b
        BY <3>3 DEF VerifySell
      <4>2. ~ (Proceeds(b, rate, levels) < T)
        <5> HIDE DEF w, T, c
        <5> QED BY <2>7, <3>5, <3>7
      <4> QED BY <4>1, <4>2
    <3>9. PICK g \in Filling(levels) : Base(levels, g) = b - w.left /\ Money(levels, g) = w.money
      BY <2>4, <3>5, WalkIsGreedy
    <3>10. ASSUME NEW y \in Int, NEW f \in Filling(bids), Steps(y, step), y < b, Base(bids, f) <= y
           PROVE  Money(bids, f) * c < T
      <4>1. PICK h \in Filling(levels) : SameTotals(bids, f, levels, h)
        BY <2>6
      <4>2. Money(levels, h) * c < T
        BY <3>5, <3>10, <4>1 DEF SameTotals
      <4> QED BY <4>1, <4>2 DEF SameTotals
    <3>11. CASE w.left = 0
      <4>1. x = b /\ x # Failed /\ x \in Nat
        BY <3>5, <3>8, <3>11 DEF Failed
      <4>2. PICK f \in Filling(bids) : SameTotals(bids, f, levels, g)
        BY <2>6, <3>9
      <4>3. Base(bids, f) = x /\ Money(bids, f) = w.money
        BY <3>5, <3>9, <3>11, <4>1, <4>2 DEF SameTotals
      <4>4. Money(bids, f) * c >= T
        BY <3>5, <3>7, <4>3
      <4> QED BY <2>1, <3>5, <3>10, <4>1, <4>3, <4>4 DEF x
    <3>12. CASE w.left # 0
      <4>1. x = Failed /\ x \in Nat /\ w.left > 0
        BY <3>6, <3>8, <3>12 DEF Failed
      <4>2. ASSUME NEW most \in Filling(bids) PROVE Base(bids, most) < b /\ Base(bids, most) \in Int
        <5>1. PICK h \in Filling(levels) : SameTotals(bids, most, levels, h)
          BY <2>6
        <5>2. Base(levels, h) < b
          BY <2>4, <2>5, <3>5, <4>1, DescendingWalk
        <5>3. Base(levels, h) \in Int
          BY <2>4, FillType
        <5> QED BY <5>1, <5>2, <5>3 DEF SameTotals
      <4>3. ASSUME NEW y \in Int, NEW f \in Filling(bids), NEW most \in Filling(bids),
                   Steps(y, step), Base(bids, f) <= y, y <= Base(bids, most)
            PROVE  Money(bids, f) * c < T
        <5>1. y < b
          BY <3>5, <4>2, <4>3
        <5> QED BY <3>10, <4>3, <5>1
      <4> QED BY <4>1, <4>3 DEF x
    <3> QED BY <3>11, <3>12
  <2> QED BY <2>8, <2>9
<1> QED BY <1>2, <1>3

-----------------------------------------------------------------------------
(* The greatest of a set and the choice of an offer. *)

\* A bounded set of naturals that is not empty has a greatest member.
LEMMA MaxOfBounded ==
    ASSUME NEW S \in SUBSET Nat, S # {}, NEW b \in Nat, \A x \in S : x <= b
    PROVE  Max(S) \in S /\ \A x \in S : Max(S) >= x
<1> DEFINE gaps == {d \in Nat : \E x \in S : d = b - x}
<1>1. gaps \in SUBSET Nat /\ gaps # {}
  <2>1. PICK x \in S : TRUE
    OBVIOUS
  <2>2. b - x \in gaps
    BY <2>1
  <2> QED BY <2>2
<1>2. PICK d \in gaps : \A e \in gaps : d <= e
  <2> HIDE DEF gaps
  <2> QED BY <1>1, LeastNatural
<1>3. PICK m \in S : d = b - m
  BY <1>2
<1>4. ASSUME NEW x \in S PROVE m >= x
  <2>1. b - x \in gaps
    OBVIOUS
  <2>2. b - m <= b - x
    BY <1>2, <1>3, <2>1
  <2> QED BY <2>2
<1>5. \E y \in S : \A x \in S : y >= x
  BY <1>4
<1> QED BY <1>5 DEF Max

\* What an advertisement is paid, for no less than the amount.
LEMMA PriceType ==
    ASSUME NEW amount \in Int, NEW o, o.price \in Int, o.assetStep \in Int
    PROVE  /\ Lots(amount, o) \in Int /\ Lots(amount, o) >= amount
           /\ Price(amount, o) \in Int
           /\ amount > 0 /\ o.price > 0 => Price(amount, o) \in Nat \ {0}
<1>1. Lots(amount, o) \in Int /\ Lots(amount, o) >= amount
  <2>1. CASE o.assetStep > 0
    BY <2>1, CeilLeast DEF Lots
  <2>2. CASE ~ (o.assetStep > 0)
    BY <2>2 DEF Lots
  <2> QED BY <2>1, <2>2
<1>2. Lots(amount, o) * o.price \in Int
  BY <1>1
<1>3. Price(amount, o) \in Int /\ Price(amount, o) >= Lots(amount, o) * o.price
  BY <1>2, MoneyAssumption, CeilLeast DEF Price
<1>4. ASSUME amount > 0, o.price > 0 PROVE Price(amount, o) \in Nat \ {0}
  <2>1. \A a, b \in Int : a > 0 /\ b > 0 => a * b > 0
    OBVIOUS
  <2>2. Lots(amount, o) * o.price > 0
    BY <1>1, <1>4, <2>1
  <2> QED BY <1>2, <1>3, <2>2
<1> QED BY <1>1, <1>3, <1>4

\* SelectP2P: the cheapest of the offers that cover the amount, and none only if none does.
LEMMA SelectedIsCheapest ==
    ASSUME NEW amount \in Int, NEW asset, NEW offers, NEW f,
           \A i \in DOMAIN offers :
             i \in Nat \ {0} /\ offers[i].price \in Int /\ offers[i].assetStep \in Int
    PROVE  LET s == SelectP2P(amount, asset, offers, f) IN
           /\ s # 0 =>
                /\ s \in DOMAIN offers /\ amount > 0 /\ Covers(offers[s], amount, asset, f)
                /\ \A i \in DOMAIN offers : Covers(offers[i], amount, asset, f) =>
                     Price(amount, offers[s]) <= Price(amount, offers[i])
           /\ s = 0 /\ amount > 0 => \A i \in DOMAIN offers : ~ Covers(offers[i], amount, asset, f)
<1> DEFINE able == {i \in DOMAIN offers : amount > 0 /\ Covers(offers[i], amount, asset, f)}
           price(i) == Price(amount, offers[i])
           Before(i, j) == price(i) < price(j) \/ (price(i) = price(j) /\ i <= j)
           s == SelectP2P(amount, asset, offers, f)
<1>1. s = IF able = {} THEN 0 ELSE CHOOSE i \in able : \A j \in able : Before(i, j)
  BY DEF SelectP2P
<1>2. ASSUME NEW i \in able PROVE price(i) \in Nat /\ i \in Nat \ {0}
  <2>1. offers[i].price > 0
    BY DEF Covers
  <2> QED BY <2>1, PriceType
<1>3. CASE able = {}
  BY <1>1, <1>3
<1>4. CASE able # {}
  <2> DEFINE prices == {n \in Nat : \E i \in able : n = price(i)}
  <2>1. prices \in SUBSET Nat /\ prices # {}
    <3>1. PICK i \in able : TRUE
      BY <1>4
    <3>2. price(i) \in prices
      BY <1>2
    <3> QED BY <3>2
  <2>2. PICK n \in prices : \A k \in prices : n <= k
    <3> HIDE DEF prices
    <3> QED BY <2>1, LeastNatural
  <2> DEFINE cheapest == {i \in able : price(i) = n}
  <2>3. cheapest \in SUBSET Nat /\ cheapest # {}
    BY <1>2
  <2>4. PICK m \in cheapest : \A i \in cheapest : m <= i
    <3> HIDE DEF cheapest
    <3> QED BY <2>3, LeastNatural
  <2>5. ASSUME NEW j \in able PROVE Before(m, j)
    <3>1. price(j) \in prices /\ price(m) = n /\ n \in Nat /\ price(j) \in Nat
      BY <1>2
    <3>2. n <= price(j)
      BY <2>2, <3>1
    <3>3. price(j) = n => m <= j
      BY <2>4
    <3> HIDE DEF price
    <3> QED BY <3>1, <3>2, <3>3
  <2>6. s \in able /\ \A j \in able : Before(s, j)
    <3> HIDE DEF Before
    <3>1. \E i \in able : \A j \in able : Before(i, j)
      BY <2>5
    <3> HIDE DEF able, s
    <3> QED BY <1>1, <1>4, <3>1
  <2>7. ASSUME NEW i \in able PROVE price(s) <= price(i)
    <3>1. price(s) \in Nat /\ price(i) \in Nat
      BY <1>2, <2>6
    <3>2. Before(s, i)
      BY <2>6
    <3> HIDE DEF price, s, able
    <3> QED BY <3>1, <3>2
  <2>8. s \in Nat \ {0} /\ s \in DOMAIN offers /\ amount > 0
        /\ Covers(offers[s], amount, asset, f)
    BY <1>2, <2>6
  <2> HIDE DEF s
  <2>9. \A i \in DOMAIN offers : Covers(offers[i], amount, asset, f) => price(s) <= price(i)
    BY <2>7, <2>8
  <2> QED BY <2>8, <2>9 DEF s
<1> QED BY <1>3, <1>4
=============================================================================

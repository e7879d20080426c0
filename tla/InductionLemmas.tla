--------------------------- MODULE InductionLemmas ---------------------------
(***************************************************************************)
(* Induction and sums for the proof modules.  The induction theorems of    *)
(* the library have an operator as parameter, which the provers cannot     *)
(* instantiate; here a property of numbers is the set of the numbers that  *)
(* have it, and a property of finite sets the set of the sets.             *)
(***************************************************************************)
EXTENDS Integers, FiniteSets, Functions, WellFoundedInduction, FiniteSetTheorems, TLAPS

LEMMA MinElement ==
  ASSUME NEW T, T \subseteq Nat, T # {}
  PROVE  \E m \in T : \A n \in T : m <= n
<1>1. PICK m \in T : \A n \in T : <<n, m>> \notin OpToRel(<, Nat)
  BY NatLessThanWellFounded, WFMin
<1>2. \A n \in T : ~(n < m)
  BY <1>1 DEF OpToRel
<1> QED
  BY <1>2

LEMMA InductionUpTo ==
  ASSUME NEW N \in Nat, NEW T, 0 \in T, \A n \in 1..N : n-1 \in T => n \in T
  PROVE  \A n \in 0..N : n \in T
<1> SUFFICES ASSUME \E n \in 0..N : n \notin T PROVE FALSE
  OBVIOUS
<1> DEFINE B == {n \in 0..N : n \notin T}
<1>1. B \subseteq Nat /\ B # {}
  OBVIOUS
<1> HIDE DEF B
<1>2. PICK m \in B : \A n \in B : m <= n
  BY <1>1, MinElement
<1>3. m \in 0..N /\ m \notin T /\ \A n \in 0..N : n \notin T => m <= n
  BY <1>2 DEF B
<1>4. m \in 1..N /\ m-1 \in 0..N
  BY <1>3
<1> QED
  BY <1>3, <1>4

-----------------------------------------------------------------------------
(***************************************************************************)
(* Sums over finite sets: SumFunctionOnSet of the community module         *)
(* Functions.  It folds over elements that CHOOSE takes; the recursive     *)
(* function of the fold is shown to exist first.                           *)
(***************************************************************************)
Pick(s) == CHOOSE x \in s : TRUE

LEMMA PickIn == \A s : s # {} => Pick(s) \in s
BY DEF Pick

\* The equation of the fold.
Folds(g, f, S) ==
  g = [s \in SUBSET S |-> IF s = {} THEN 0 ELSE f[Pick(s)] + g[s \ {Pick(s)}]]

LEMMA SumUnfolds ==
  ASSUME NEW f, NEW S
  PROVE  SumFunctionOnSet(f, S) = (CHOOSE g : Folds(g, f, S))[S]
BY DEF SumFunctionOnSet, FoldFunctionOnSet, MapThenFoldSet, Folds, Pick

\* A set without one of its elements is smaller.
LEMMA OneLess ==
  ASSUME NEW D, IsFiniteSet(D), NEW s \in SUBSET D
  PROVE  /\ IsFiniteSet(s) /\ Cardinality(s) \in 0..Cardinality(D)
         /\ Cardinality(s) <= 0 <=> s = {}
         /\ \A x \in s : /\ s \ {x} \in SUBSET D
                         /\ Cardinality(s \ {x}) = Cardinality(s) - 1
<1>1. IsFiniteSet(s) /\ Cardinality(s) \in Nat /\ Cardinality(s) <= Cardinality(D)
      /\ Cardinality(D) \in Nat
  BY FS_Subset, FS_CardinalityType
<1>2. Cardinality(s) = 0 <=> s = {}
  BY <1>1, FS_EmptySet
<1>3. \A x \in s : Cardinality(s \ {x}) = Cardinality(s) - 1
  BY <1>1, FS_RemoveElement
<1>4. QED
  BY <1>1, <1>2, <1>3

LEMMA FoldExists ==
  ASSUME NEW D, IsFiniteSet(D), NEW f, \A x \in D : f[x] \in Int
  PROVE  \E g \in [SUBSET D -> Int] : Folds(g, f, D)
<1> DEFINE N == Cardinality(D)
           Step(g, s) == IF s = {} THEN 0 ELSE f[Pick(s)] + g[s \ {Pick(s)}]
           UpTo(n, g) == \A s \in SUBSET D : Cardinality(s) <= n => g[s] = Step(g, s)
           T == {n \in 0..N : \E g \in [SUBSET D -> Int] : UpTo(n, g)}
<1>1. N \in Nat
  BY FS_CardinalityType
<1>2. ASSUME NEW g \in [SUBSET D -> Int], NEW s \in SUBSET D PROVE Step(g, s) \in Int
  <2>1. CASE s = {}
    BY <2>1
  <2>2. CASE s # {}
    <3>1. Pick(s) \in s /\ Pick(s) \in D /\ s \ {Pick(s)} \in SUBSET D
      BY <2>2, PickIn
    <3>2. QED
      BY <3>1
  <2>3. QED
    BY <2>1, <2>2
<1>3. 0 \in T
  <2> DEFINE g == [s \in SUBSET D |-> 0]
  <2>1. g \in [SUBSET D -> Int]
    OBVIOUS
  <2>2. ASSUME NEW s \in SUBSET D, Cardinality(s) <= 0 PROVE g[s] = Step(g, s)
    <3>1. s = {}
      BY <2>2, OneLess
    <3>2. QED
      BY <3>1
  <2>3. UpTo(0, g)
    BY <2>2
  <2> HIDE DEF g, UpTo
  <2>4. QED
    BY <1>1, <2>1, <2>3
<1>4. ASSUME NEW n \in 1..N, n-1 \in T PROVE n \in T
  <2>1. PICK g \in [SUBSET D -> Int] : UpTo(n-1, g)
    BY <1>4
  <2> DEFINE h == [s \in SUBSET D |-> Step(g, s)]
  <2>2. h \in [SUBSET D -> Int]
    BY <1>2
  <2>3. ASSUME NEW s \in SUBSET D, Cardinality(s) <= n PROVE h[s] = Step(h, s)
    <3>1. CASE s = {}
      BY <3>1
    <3>2. CASE s # {}
      <4> DEFINE t == s \ {Pick(s)}
      <4>1. t \in SUBSET D /\ Cardinality(t) = Cardinality(s) - 1 /\ Cardinality(s) \in Nat
        BY <3>2, OneLess, PickIn
      <4>2. Cardinality(t) <= n - 1
        BY <1>1, <2>3, <4>1
      <4>3. g[t] = Step(g, t)
        BY <2>1, <4>1, <4>2
      <4>4. h[t] = g[t]
        BY <4>1, <4>3
      <4>5. QED
        BY <3>2, <4>4
    <3>3. QED
      BY <3>1, <3>2
  <2>4. UpTo(n, h)
    BY <2>3
  <2> HIDE DEF h, UpTo
  <2>5. QED
    BY <1>1, <2>2, <2>4
<1> HIDE DEF T
<1>5. N \in T
  <2>1. \A n \in 0..N : n \in T
    BY <1>1, <1>3, <1>4, InductionUpTo
  <2>2. QED
    BY <1>1, <2>1
<1>6. PICK g \in [SUBSET D -> Int] : UpTo(N, g)
  BY <1>5 DEF T
<1>7. ASSUME NEW s \in SUBSET D PROVE g[s] = Step(g, s)
  <2>1. Cardinality(s) <= N
    BY <1>1, OneLess
  <2>2. QED
    BY <1>6, <2>1
<1>8. g = [s \in SUBSET D |-> Step(g, s)]
  BY <1>7
<1>9. QED
  BY <1>8 DEF Folds

\* Two solutions agree where both are defined.
LEMMA FoldUnique ==
  ASSUME NEW D, IsFiniteSet(D), NEW E \in SUBSET D, NEW f, NEW e, NEW g, NEW h,
         Folds(g, f, D), Folds(h, e, E), \A x \in E : f[x] = e[x]
  PROVE  \A s \in SUBSET E : g[s] = h[s]
<1> DEFINE N == Cardinality(D)
           T == {n \in 0..N : \A s \in SUBSET E : Cardinality(s) <= n => g[s] = h[s]}
<1>1. N \in Nat
  BY FS_CardinalityType
<1>2. /\ \A s \in SUBSET E : g[s] = IF s = {} THEN 0 ELSE f[Pick(s)] + g[s \ {Pick(s)}]
      /\ \A s \in SUBSET E : h[s] = IF s = {} THEN 0 ELSE e[Pick(s)] + h[s \ {Pick(s)}]
  BY DEF Folds
<1>3. 0 \in T
  <2>1. ASSUME NEW s \in SUBSET E, Cardinality(s) <= 0 PROVE g[s] = h[s]
    <3>1. s = {}
      BY <2>1, OneLess
    <3>2. QED
      BY <1>2, <3>1
  <2>2. QED
    BY <1>1, <2>1
<1>4. ASSUME NEW n \in 1..N, n-1 \in T PROVE n \in T
  <2> SUFFICES ASSUME NEW s \in SUBSET E, Cardinality(s) <= n PROVE g[s] = h[s]
    BY <1>1
  <2>1. CASE s = {}
    BY <1>2, <2>1
  <2>2. CASE s # {}
    <3> DEFINE t == s \ {Pick(s)}
    <3>1. Pick(s) \in s /\ s \in SUBSET D
      BY <2>2, PickIn
    <3>2. Cardinality(t) = Cardinality(s) - 1 /\ Cardinality(s) \in Nat
      BY <3>1, OneLess
    <3>3. t \in SUBSET E /\ Cardinality(t) <= n-1
      BY <1>1, <3>2
    <3>4. g[t] = h[t]
      BY <1>4, <3>3
    <3>5. g[s] = f[Pick(s)] + g[t] /\ h[s] = e[Pick(s)] + h[t] /\ f[Pick(s)] = e[Pick(s)]
      BY <1>2, <2>2, <3>1
    <3>6. QED
      BY <3>4, <3>5
  <2>3. QED
    BY <2>1, <2>2
<1> HIDE DEF T
<1>5. N \in T
  <2>1. \A n \in 0..N : n \in T
    BY <1>1, <1>3, <1>4, InductionUpTo
  <2>2. QED
    BY <1>1, <2>1
<1>6. ASSUME NEW s \in SUBSET E PROVE g[s] = h[s]
  <2>1. Cardinality(s) <= N
    BY <1>1, OneLess
  <2>2. QED
    BY <1>5, <2>1 DEF T
<1>7. QED
  BY <1>6

\* A sum is a number: the element that CHOOSE takes and the sum of the rest.
LEMMA SumStep ==
  ASSUME NEW S, IsFiniteSet(S), NEW f, \A x \in S : f[x] \in Int
  PROVE  /\ SumFunctionOnSet(f, S) \in Int
         /\ SumFunctionOnSet(f, S)
              = IF S = {} THEN 0 ELSE f[Pick(S)] + SumFunctionOnSet(f, S \ {Pick(S)})
<1> DEFINE G == CHOOSE g : Folds(g, f, S)
<1>1. PICK k \in [SUBSET S -> Int] : Folds(k, f, S)
  BY FoldExists
<1>2. Folds(G, f, S)
  BY <1>1
<1>3. SumFunctionOnSet(f, S) = G[S]
  BY SumUnfolds
<1> HIDE DEF G
<1>4. \A s \in SUBSET S : G[s] = k[s]
  BY <1>1, <1>2, FoldUnique
<1>5. G[S] \in Int
  BY <1>4
<1>6. G[S] = IF S = {} THEN 0 ELSE f[Pick(S)] + G[S \ {Pick(S)}]
  BY <1>2 DEF Folds
<1>7. G[S \ {Pick(S)}] = SumFunctionOnSet(f, S \ {Pick(S)})
  <2>1. PICK R \in SUBSET S : R = S \ {Pick(S)}
    OBVIOUS
  <2> DEFINE H == CHOOSE g : Folds(g, f, R)
  <2>2. SumFunctionOnSet(f, R) = H[R]
    BY SumUnfolds
  <2>3. PICK h \in [SUBSET R -> Int] : Folds(h, f, R)
    BY FoldExists, FS_Subset
  <2>4. Folds(H, f, R)
    BY <2>3
  <2> HIDE DEF H
  <2>5. \A s \in SUBSET R : G[s] = H[s]
    BY <1>2, <2>4, FoldUnique, Z3
  <2>6. QED
    BY <2>1, <2>2, <2>5
<1>8. QED
  BY <1>3, <1>5, <1>6, <1>7

LEMMA SumEmpty == \A f : SumFunctionOnSet(f, {}) = 0
<1>1. TAKE f
<1>2. IsFiniteSet({}) /\ \A x \in {} : f[x] \in Int
  BY FS_EmptySet
<1>3. QED
  BY <1>2, SumStep

\* Functions that agree on a set have the same sum.
LEMMA SumSame ==
  ASSUME NEW S, IsFiniteSet(S), NEW f, NEW e, \A x \in S : f[x] \in Int /\ f[x] = e[x]
  PROVE  SumFunctionOnSet(f, S) = SumFunctionOnSet(e, S)
<1> DEFINE G == CHOOSE g : Folds(g, f, S)
           H == CHOOSE g : Folds(g, e, S)
<1>1. SumFunctionOnSet(f, S) = G[S] /\ SumFunctionOnSet(e, S) = H[S]
  BY SumUnfolds
<1>2. Folds(G, f, S)
  BY FoldExists
<1>3. Folds(H, e, S)
  BY FoldExists
<1> HIDE DEF G, H
<1>4. S \in SUBSET S
  OBVIOUS
<1>5. \A s \in SUBSET S : G[s] = H[s]
  BY <1>2, <1>3, <1>4, FoldUnique, Z3
<1>6. QED
  BY <1>1, <1>5

\* A sum is that of any element and the rest.
LEMMA SumRemove ==
  ASSUME NEW D, IsFiniteSet(D), NEW f, \A x \in D : f[x] \in Int
  PROVE  \A S \in SUBSET D : \A x \in S :
           SumFunctionOnSet(f, S) = f[x] + SumFunctionOnSet(f, S \ {x})
<1> DEFINE N == Cardinality(D)
           T == {n \in 0..N : \A S \in SUBSET D : Cardinality(S) <= n =>
                  \A x \in S : SumFunctionOnSet(f, S) = f[x] + SumFunctionOnSet(f, S \ {x})}
<1>1. N \in Nat
  BY FS_CardinalityType
<1>2. ASSUME NEW S \in SUBSET D
      PROVE  /\ SumFunctionOnSet(f, S) \in Int
             /\ S # {} => SumFunctionOnSet(f, S) = f[Pick(S)] + SumFunctionOnSet(f, S \ {Pick(S)})
  <2>1. IsFiniteSet(S) /\ \A x \in S : f[x] \in Int
    BY FS_Subset
  <2>2. QED
    BY <2>1, SumStep
<1>3. 0 \in T
  <2>1. \A S \in SUBSET D : Cardinality(S) <= 0 => S = {}
    BY OneLess
  <2>2. QED
    BY <1>1, <2>1
<1>4. ASSUME NEW n \in 1..N, n-1 \in T PROVE n \in T
  <2> SUFFICES ASSUME NEW S \in SUBSET D, Cardinality(S) <= n, NEW x \in S
               PROVE  SumFunctionOnSet(f, S) = f[x] + SumFunctionOnSet(f, S \ {x})
    BY <1>1
  <2>1. PICK c \in S : c = Pick(S)
    BY PickIn
  <2>2. SumFunctionOnSet(f, S) = f[c] + SumFunctionOnSet(f, S \ {c})
    BY <1>2, <2>1
  <2>3. CASE x = c
    BY <2>2, <2>3
  <2>4. CASE x # c
    <3>1. PICK A \in SUBSET D, B \in SUBSET D, R \in SUBSET D :
            A = S \ {c} /\ B = S \ {x} /\ R = A \ {x}
      OBVIOUS
    <3>2. R = B \ {c} /\ x \in A /\ c \in B
      BY <2>4, <3>1
    <3>3. Cardinality(A) <= n-1 /\ Cardinality(B) <= n-1
      <4>1. /\ Cardinality(S) \in 0..N
            /\ Cardinality(A) = Cardinality(S) - 1 /\ Cardinality(B) = Cardinality(S) - 1
        BY <3>1, OneLess
      <4>2. QED
        BY <1>1, <4>1
    <3>4. SumFunctionOnSet(f, A) = f[x] + SumFunctionOnSet(f, R)
      BY <1>4, <3>1, <3>2, <3>3
    <3>5. SumFunctionOnSet(f, B) = f[c] + SumFunctionOnSet(f, R)
      BY <1>4, <3>1, <3>2, <3>3
    <3>6. f[x] \in Int /\ f[c] \in Int /\ SumFunctionOnSet(f, R) \in Int
      BY <1>2
    <3>7. QED
      BY <2>2, <3>1, <3>4, <3>5, <3>6
  <2>5. QED
    BY <2>3, <2>4
<1> HIDE DEF T
<1>5. N \in T
  <2>1. \A n \in 0..N : n \in T
    BY <1>1, <1>3, <1>4, InductionUpTo
  <2>2. QED
    BY <1>1, <2>1
<1>6. ASSUME NEW S \in SUBSET D, NEW x \in S
      PROVE  SumFunctionOnSet(f, S) = f[x] + SumFunctionOnSet(f, S \ {x})
  <2>1. Cardinality(S) <= N
    BY <1>1, OneLess
  <2>2. QED
    BY <1>5, <2>1 DEF T
<1>7. QED
  BY <1>6

\* Induction over the subsets of a finite set; a property is the set of those that
\* have it.
LEMMA SubsetInduction ==
  ASSUME NEW D, IsFiniteSet(D), NEW T, {} \in T,
         \A S \in SUBSET D : \A x \in D \ S : S \in T => S \cup {x} \in T
  PROVE  \A S \in SUBSET D : S \in T
<1> DEFINE N == Cardinality(D)
           U == {n \in 0..N : \A S \in SUBSET D : Cardinality(S) <= n => S \in T}
<1>1. N \in Nat
  BY FS_CardinalityType
<1>2. 0 \in U
  <2>1. ASSUME NEW S \in SUBSET D, Cardinality(S) <= 0 PROVE S \in T
    <3>1. S = {}
      BY <2>1, OneLess
    <3>2. QED
      BY <3>1
  <2>2. QED
    BY <1>1, <2>1
<1>3. ASSUME NEW n \in 1..N, n-1 \in U PROVE n \in U
  <2> SUFFICES ASSUME NEW S \in SUBSET D, Cardinality(S) <= n PROVE S \in T
    BY <1>1
  <2>1. CASE S = {}
    BY <2>1
  <2>2. CASE S # {}
    <3>1. PICK x \in S : TRUE
      BY <2>2
    <3>2. PICK R \in SUBSET D : R = S \ {x}
      OBVIOUS
    <3>3. Cardinality(R) = Cardinality(S) - 1 /\ Cardinality(S) \in 0..N
      BY <3>2, OneLess
    <3>4. Cardinality(R) <= n-1
      BY <1>1, <3>3
    <3>5. R \in T
      BY <1>3, <3>4
    <3>6. x \in D \ R /\ S = R \cup {x}
      BY <3>2
    <3>7. QED
      BY <3>5, <3>6
  <2>3. QED
    BY <2>1, <2>2
<1> HIDE DEF U
<1>4. N \in U
  <2>1. \A n \in 0..N : n \in U
    BY <1>1, <1>2, <1>3, InductionUpTo
  <2>2. QED
    BY <1>1, <2>1
<1>5. ASSUME NEW S \in SUBSET D PROVE S \in T
  <2>1. Cardinality(S) <= N
    BY <1>1, OneLess
  <2>2. QED
    BY <1>4, <2>1 DEF U
<1>6. QED
  BY <1>5

\* The sum of a subset is a number; with one element more it grows by its value.
LEMMA SumAdd ==
  ASSUME NEW D, IsFiniteSet(D), NEW f, \A x \in D : f[x] \in Int
  PROVE  /\ \A S \in SUBSET D : SumFunctionOnSet(f, S) \in Int
         /\ \A S \in SUBSET D : \A x \in D \ S :
              SumFunctionOnSet(f, S \cup {x}) = SumFunctionOnSet(f, S) + f[x]
<1>1. ASSUME NEW S \in SUBSET D PROVE SumFunctionOnSet(f, S) \in Int
  <2>1. IsFiniteSet(S) /\ \A x \in S : f[x] \in Int
    BY FS_Subset
  <2>2. QED
    BY <2>1, SumStep
<1>2. ASSUME NEW S \in SUBSET D, NEW x \in D \ S
      PROVE  SumFunctionOnSet(f, S \cup {x}) = SumFunctionOnSet(f, S) + f[x]
  <2>1. PICK A \in SUBSET D : A = S \cup {x}
    OBVIOUS
  <2>2. x \in A /\ A \ {x} = S
    BY <2>1
  <2>3. SumFunctionOnSet(f, A) = f[x] + SumFunctionOnSet(f, S)
    BY <2>2, SumRemove
  <2>4. SumFunctionOnSet(f, S) \in Int /\ f[x] \in Int
    BY <1>1
  <2>5. QED
    BY <2>1, <2>3, <2>4
<1>3. QED
  BY <1>1, <1>2

\* Disjoint unions and differences.
LEMMA SumUnion ==
  ASSUME NEW D, IsFiniteSet(D), NEW f, \A x \in D : f[x] \in Int,
         NEW A \in SUBSET D, NEW B \in SUBSET D, A \cap B = {}
  PROVE  SumFunctionOnSet(f, A \cup B) = SumFunctionOnSet(f, A) + SumFunctionOnSet(f, B)
<1> DEFINE T == {S \in SUBSET D : A \cap S = {} =>
                   SumFunctionOnSet(f, A \cup S) = SumFunctionOnSet(f, A) + SumFunctionOnSet(f, S)}
<1>1. \A S \in SUBSET D : SumFunctionOnSet(f, S) \in Int
  BY SumAdd
<1>2. {} \in T
  <2>1. A \cup {} = A
    OBVIOUS
  <2>2. QED
    BY <1>1, <2>1, SumEmpty
<1>3. ASSUME NEW S \in SUBSET D, NEW x \in D \ S, S \in T PROVE S \cup {x} \in T
  <2> SUFFICES ASSUME A \cap (S \cup {x}) = {}
               PROVE  SumFunctionOnSet(f, A \cup (S \cup {x}))
                        = SumFunctionOnSet(f, A) + SumFunctionOnSet(f, S \cup {x})
    OBVIOUS
  <2>1. PICK U \in SUBSET D : U = A \cup S
    OBVIOUS
  <2>2. x \in D \ U /\ A \cup (S \cup {x}) = U \cup {x} /\ A \cap S = {}
    BY <2>1
  <2>3. SumFunctionOnSet(f, U \cup {x}) = SumFunctionOnSet(f, U) + f[x]
    BY <2>2, SumAdd
  <2>4. SumFunctionOnSet(f, S \cup {x}) = SumFunctionOnSet(f, S) + f[x]
    BY SumAdd
  <2>5. SumFunctionOnSet(f, U) = SumFunctionOnSet(f, A) + SumFunctionOnSet(f, S)
    BY <1>3, <2>1, <2>2
  <2>6. f[x] \in Int /\ SumFunctionOnSet(f, A) \in Int /\ SumFunctionOnSet(f, S) \in Int
    BY <1>1
  <2>7. SumFunctionOnSet(f, U \cup {x})
          = SumFunctionOnSet(f, A) + SumFunctionOnSet(f, S \cup {x})
    BY <2>3, <2>4, <2>5, <2>6
  <2>8. A \cup (S \cup {x}) = U \cup {x}
    BY <2>2
  <2> HIDE DEF T
  <2>9. QED
    BY <2>7, <2>8
<1>4. B \in T
  <2> HIDE DEF T
  <2>1. QED
    BY <1>2, <1>3, SubsetInduction
<1>5. QED
  BY <1>4

LEMMA SumMinus ==
  ASSUME NEW D, IsFiniteSet(D), NEW f, \A x \in D : f[x] \in Int,
         NEW A \in SUBSET D, NEW B \in SUBSET A
  PROVE  SumFunctionOnSet(f, A \ B) = SumFunctionOnSet(f, A) - SumFunctionOnSet(f, B)
<1>1. PICK C \in SUBSET D : C = A \ B
  OBVIOUS
<1>2. B \in SUBSET D /\ B \cap C = {} /\ B \cup C = A
  BY <1>1
<1>3. SumFunctionOnSet(f, A) = SumFunctionOnSet(f, B) + SumFunctionOnSet(f, C)
  BY <1>2, SumUnion
<1>4. SumFunctionOnSet(f, B) \in Int /\ SumFunctionOnSet(f, C) \in Int
  BY <1>2, SumAdd
<1>5. QED
  BY <1>1, <1>3, <1>4

\* Sums of greater values; each value may exceed by k what it is compared with.
LEMMA SumAtMost ==
  ASSUME NEW D, IsFiniteSet(D), NEW f, NEW g,
         \A x \in D : f[x] \in Int /\ g[x] \in Int /\ f[x] <= g[x]
  PROVE  SumFunctionOnSet(f, D) <= SumFunctionOnSet(g, D)
<1> DEFINE T == {S \in SUBSET D : SumFunctionOnSet(f, S) <= SumFunctionOnSet(g, S)}
<1>1. {} \in T
  BY SumEmpty
<1>2. ASSUME NEW S \in SUBSET D, NEW x \in D \ S, S \in T PROVE S \cup {x} \in T
  <2>1. /\ SumFunctionOnSet(f, S \cup {x}) = SumFunctionOnSet(f, S) + f[x]
        /\ SumFunctionOnSet(f, S) \in Int
    BY SumAdd
  <2>2. /\ SumFunctionOnSet(g, S \cup {x}) = SumFunctionOnSet(g, S) + g[x]
        /\ SumFunctionOnSet(g, S) \in Int
    BY SumAdd
  <2>3. QED
    BY <1>2, <2>1, <2>2
<1>3. D \in T
  <2> HIDE DEF T
  <2>1. QED
    BY <1>1, <1>2, SubsetInduction
<1>4. QED
  BY <1>3

LEMMA SumAtMostOneMore ==
  ASSUME NEW D, IsFiniteSet(D), NEW f, NEW g,
         \A x \in D : f[x] \in Int /\ g[x] \in Int /\ f[x] <= g[x] + 1
  PROVE  SumFunctionOnSet(f, D) <= SumFunctionOnSet(g, D) + Cardinality(D)
<1> DEFINE T == {S \in SUBSET D :
                   SumFunctionOnSet(f, S) <= SumFunctionOnSet(g, S) + Cardinality(S)}
<1>1. {} \in T
  BY SumEmpty, FS_EmptySet
<1>2. ASSUME NEW S \in SUBSET D, NEW x \in D \ S, S \in T PROVE S \cup {x} \in T
  <2>1. /\ SumFunctionOnSet(f, S \cup {x}) = SumFunctionOnSet(f, S) + f[x]
        /\ SumFunctionOnSet(f, S) \in Int
    BY SumAdd
  <2>2. /\ SumFunctionOnSet(g, S \cup {x}) = SumFunctionOnSet(g, S) + g[x]
        /\ SumFunctionOnSet(g, S) \in Int
    BY SumAdd
  <2>3. Cardinality(S \cup {x}) = Cardinality(S) + 1 /\ Cardinality(S) \in Nat
    BY FS_Subset, FS_AddElement, FS_CardinalityType
  <2>4. QED
    BY <1>2, <2>1, <2>2, <2>3
<1>3. D \in T
  <2> HIDE DEF T
  <2>1. QED
    BY <1>1, <1>2, SubsetInduction
<1>4. QED
  BY <1>3

\* The sum of sums.
LEMMA SumPlus ==
  ASSUME NEW D, IsFiniteSet(D), NEW f, NEW g, NEW h,
         \A x \in D : f[x] \in Int /\ g[x] \in Int /\ h[x] = f[x] + g[x]
  PROVE  SumFunctionOnSet(h, D) = SumFunctionOnSet(f, D) + SumFunctionOnSet(g, D)
<1> DEFINE T == {S \in SUBSET D : SumFunctionOnSet(h, S)
                                    = SumFunctionOnSet(f, S) + SumFunctionOnSet(g, S)}
<1>1. {} \in T
  BY SumEmpty
<1>2. ASSUME NEW S \in SUBSET D, NEW x \in D \ S, S \in T PROVE S \cup {x} \in T
  <2>1. /\ SumFunctionOnSet(f, S \cup {x}) = SumFunctionOnSet(f, S) + f[x]
        /\ SumFunctionOnSet(f, S) \in Int
    BY SumAdd
  <2>2. /\ SumFunctionOnSet(g, S \cup {x}) = SumFunctionOnSet(g, S) + g[x]
        /\ SumFunctionOnSet(g, S) \in Int
    BY SumAdd
  <2>3. \A y \in D : h[y] \in Int
    OBVIOUS
  <2>4. SumFunctionOnSet(h, S \cup {x}) = SumFunctionOnSet(h, S) + h[x]
    BY <2>3, SumAdd
  <2>5. QED
    BY <1>2, <2>1, <2>2, <2>4
<1>3. D \in T
  <2> HIDE DEF T
  <2>1. QED
    BY <1>1, <1>2, SubsetInduction
<1>4. QED
  BY <1>3

\* A sum of natural numbers is one, and none of its values exceeds it.
LEMMA SumNat ==
  ASSUME NEW D, IsFiniteSet(D), NEW f, \A x \in D : f[x] \in Nat
  PROVE  /\ SumFunctionOnSet(f, D) \in Nat
         /\ \A x \in D : f[x] <= SumFunctionOnSet(f, D)
<1> DEFINE T == {S \in SUBSET D : SumFunctionOnSet(f, S) \in Nat}
<1>1. {} \in T
  BY SumEmpty
<1>2. ASSUME NEW S \in SUBSET D, NEW x \in D \ S, S \in T PROVE S \cup {x} \in T
  <2>1. SumFunctionOnSet(f, S \cup {x}) = SumFunctionOnSet(f, S) + f[x]
    BY SumAdd
  <2>2. QED
    BY <1>2, <2>1
<1>3. \A S \in SUBSET D : S \in T
  <2> HIDE DEF T
  <2>1. QED
    BY <1>1, <1>2, SubsetInduction
<1>4. ASSUME NEW x \in D PROVE f[x] <= SumFunctionOnSet(f, D)
  <2>1. PICK R \in SUBSET D : R = D \ {x}
    OBVIOUS
  <2>2. SumFunctionOnSet(f, D) = f[x] + SumFunctionOnSet(f, R)
    BY <2>1, SumRemove
  <2>3. SumFunctionOnSet(f, R) \in Nat
    BY <1>3
  <2>4. QED
    BY <2>2, <2>3
<1>5. QED
  BY <1>3, <1>4

-----------------------------------------------------------------------------
(* Counting *)

LEMMA CardDisjoint ==
  ASSUME NEW A, NEW B, IsFiniteSet(A), IsFiniteSet(B), A \cap B = {}
  PROVE  IsFiniteSet(A \cup B) /\ Cardinality(A \cup B) = Cardinality(A) + Cardinality(B)
<1>1. /\ IsFiniteSet(A \cup B)
      /\ Cardinality(A \cup B) = Cardinality(A) + Cardinality(B) - Cardinality(A \cap B)
  BY FS_Union
<1>2. Cardinality(A \cap B) = 0
  BY FS_EmptySet
<1>3. Cardinality(A) \in Nat /\ Cardinality(B) \in Nat
  BY FS_CardinalityType
<1> QED
  BY <1>1, <1>2, <1>3

LEMMA SumMono ==
  ASSUME NEW D, IsFiniteSet(D), NEW f, \A x \in D : f[x] \in Nat,
         NEW B \in SUBSET D, NEW A \in SUBSET B
  PROVE  /\ SumFunctionOnSet(f, A) \in Nat /\ SumFunctionOnSet(f, B) \in Nat
         /\ SumFunctionOnSet(f, A) <= SumFunctionOnSet(f, B)
<1>1. SumFunctionOnSet(f, B \ A) = SumFunctionOnSet(f, B) - SumFunctionOnSet(f, A)
  BY SumMinus
<1>2. \A S \in SUBSET D : SumFunctionOnSet(f, S) \in Nat
  BY FS_Subset, SumNat
<1>3. A \in SUBSET D /\ B \in SUBSET D /\ B \ A \in SUBSET D
  OBVIOUS
<1> QED
  BY <1>1, <1>2, <1>3

\* Numbers laid out one after the other: the sums below each start where the sum
\* below the one before it, with that one, ends.
LEMMA PartialSums ==
  ASSUME NEW D \in SUBSET Nat, IsFiniteSet(D), NEW f, \A x \in D : f[x] \in Nat,
         NEW r \in D
  PROVE  /\ SumFunctionOnSet(f, {x \in D : x < r}) \in Nat
         /\ SumFunctionOnSet(f, {x \in D : x < r}) + f[r] <= SumFunctionOnSet(f, D)
         /\ \A s \in D : r < s =>
              SumFunctionOnSet(f, {x \in D : x < r}) + f[r] <= SumFunctionOnSet(f, {x \in D : x < s})
<1>1. PICK A \in SUBSET D : A = {x \in D : x < r}
  OBVIOUS
<1>2. PICK B \in SUBSET D : B = A \cup {r}
  OBVIOUS
<1>3. r \notin A
  BY <1>1
<1>4. SumFunctionOnSet(f, B) = SumFunctionOnSet(f, A) + f[r]
  <2>1. \A x \in D : f[x] \in Int
    OBVIOUS
  <2>2. \A S \in SUBSET D : \A x \in D \ S :
          SumFunctionOnSet(f, S \cup {x}) = SumFunctionOnSet(f, S) + f[x]
    BY <2>1, SumAdd
  <2> QED
    BY <1>2, <1>3, <2>2
<1>5. SumFunctionOnSet(f, A) \in Nat
  BY SumMono
<1>6. SumFunctionOnSet(f, B) <= SumFunctionOnSet(f, D)
  <2>1. D \in SUBSET D
    OBVIOUS
  <2> QED
    BY <2>1, SumMono
<1>7. ASSUME NEW s \in D, r < s
      PROVE  SumFunctionOnSet(f, B) <= SumFunctionOnSet(f, {x \in D : x < s})
  <2>1. PICK C \in SUBSET D : C = {x \in D : x < s}
    OBVIOUS
  <2>2. B \subseteq C
    <3>1. \A x \in D : x < r => x < s
      BY <1>7
    <3> QED
      BY <1>1, <1>2, <1>7, <2>1, <3>1
  <2>3. SumFunctionOnSet(f, B) <= SumFunctionOnSet(f, C)
    BY <2>2, SumMono
  <2> QED
    BY <2>1, <2>3
<1> QED
  BY <1>1, <1>4, <1>5, <1>6, <1>7

\* The size of a union of disjoint sets.
LEMMA UnionSize ==
  ASSUME NEW D, IsFiniteSet(D), NEW F, NEW f,
         \A x \in D : IsFiniteSet(F[x]) /\ Cardinality(F[x]) = f[x] /\ f[x] \in Nat,
         \A x, y \in D : x # y => F[x] \cap F[y] = {}
  PROVE  /\ IsFiniteSet(UNION {F[x] : x \in D})
         /\ Cardinality(UNION {F[x] : x \in D}) = SumFunctionOnSet(f, D)
<1> DEFINE U(S) == UNION {F[x] : x \in S}
           T == {S \in SUBSET D : IsFiniteSet(U(S)) /\ Cardinality(U(S)) = SumFunctionOnSet(f, S)}
<1>1. {} \in T
  <2>1. U({}) = {}
    OBVIOUS
  <2> QED
    BY <2>1, FS_EmptySet, SumEmpty
<1>2. ASSUME NEW S \in SUBSET D, NEW x \in D \ S, S \in T PROVE S \cup {x} \in T
  <2>1. PICK A : A = U(S)
    OBVIOUS
  <2>2. PICK B : B = F[x]
    OBVIOUS
  <2>3. U(S \cup {x}) = A \cup B
    BY <2>1, <2>2
  <2>4. IsFiniteSet(A) /\ Cardinality(A) = SumFunctionOnSet(f, S)
    BY <1>2, <2>1
  <2>5. IsFiniteSet(B) /\ Cardinality(B) = f[x]
    BY <2>2
  <2>6. A \cap B = {}
    BY <2>1, <2>2
  <2>7. IsFiniteSet(A \cup B) /\ Cardinality(A \cup B) = Cardinality(A) + Cardinality(B)
    BY <2>4, <2>5, <2>6, CardDisjoint
  <2>8. SumFunctionOnSet(f, S \cup {x}) = SumFunctionOnSet(f, S) + f[x]
    BY SumAdd
  <2>9. S \cup {x} \in SUBSET D
    OBVIOUS
  <2> QED
    BY <2>3, <2>4, <2>5, <2>7, <2>8, <2>9
<1> HIDE DEF T
<1>3. \A S \in SUBSET D : S \in T
  BY <1>1, <1>2, SubsetInduction
<1>4. D \in T
  BY <1>3
<1> QED
  BY <1>4 DEF T

\* Each number up to the size of a set of numbers is the rank of one of them.
LEMMA RankFacts ==
  ASSUME NEW S \in SUBSET Nat, IsFiniteSet(S)
  PROVE  \A i \in 1..Cardinality(S) : \E p \in S : Cardinality({q \in S : q <= p}) = i
<1>1. PICK n \in Nat : n = Cardinality(S)
  BY FS_CardinalityType
<1>2. \A p \in S : /\ IsFiniteSet({q \in S : q <= p})
                   /\ Cardinality({q \in S : q <= p}) \in 1..n
  <2> SUFFICES ASSUME NEW p \in S
               PROVE  IsFiniteSet({q \in S : q <= p}) /\ Cardinality({q \in S : q <= p}) \in 1..n
    OBVIOUS
  <2>1. PICK A \in SUBSET S : A = {q \in S : q <= p}
    OBVIOUS
  <2>2. IsFiniteSet(A) /\ Cardinality(A) <= n /\ Cardinality(A) \in Nat
    BY <1>1, FS_Subset, FS_CardinalityType
  <2>3. p \in A
    BY <2>1
  <2>4. Cardinality(A) # 0
    BY <2>2, <2>3, FS_EmptySet
  <2> QED
    BY <1>1, <2>1, <2>2, <2>4
<1>3. \A p, q \in S : p < q => Cardinality({x \in S : x <= p}) < Cardinality({x \in S : x <= q})
  <2> SUFFICES ASSUME NEW p \in S, NEW q \in S, p < q
               PROVE  Cardinality({x \in S : x <= p}) < Cardinality({x \in S : x <= q})
    OBVIOUS
  <2>1. PICK B : B = {x \in S : x <= q}
    OBVIOUS
  <2>2. PICK A \in SUBSET B : A = {x \in S : x <= p}
    <3>1. \A x \in S : x <= p => x <= q
      OBVIOUS
    <3>2. {x \in S : x <= p} \in SUBSET B
      BY <2>1, <3>1
    <3> QED
      BY <3>2
  <2>3. IsFiniteSet(B) /\ q \in B /\ q \notin A
    BY <1>2, <2>1, <2>2
  <2>4. Cardinality(A) <= Cardinality(B) /\ Cardinality(A) # Cardinality(B)
    BY <2>3, FS_Subset
  <2>5. Cardinality(A) \in Nat /\ Cardinality(B) \in Nat
    BY <1>2, <2>1, <2>2
  <2> QED
    BY <2>1, <2>2, <2>4, <2>5
<1>4. PICK f \in [S -> 1..n] : \A p \in S : f[p] = Cardinality({q \in S : q <= p})
  <2>1. [p \in S |-> Cardinality({q \in S : q <= p})] \in [S -> 1..n]
    BY <1>2
  <2> QED
    BY <2>1
<1>5. \A p, q \in S : f[p] = f[q] => p = q
  <2> SUFFICES ASSUME NEW p \in S, NEW q \in S, f[p] = f[q], p # q PROVE FALSE
    OBVIOUS
  <2>1. p \in Nat /\ q \in Nat
    OBVIOUS
  <2>2. CASE p < q
    <3>1. f[p] < f[q]
      BY <1>3, <1>4, <2>2
    <3> QED
      BY <1>4, <3>1
  <2>3. CASE q < p
    <3>1. f[q] < f[p]
      BY <1>3, <1>4, <2>3
    <3> QED
      BY <1>4, <3>1
  <2> QED
    BY <2>1, <2>2, <2>3
<1>6. f \in Injection(S, 1..n)
  BY <1>5 DEF Injection, IsInjective
<1>7. IsFiniteSet(1..n) /\ Cardinality(1..n) = n
  BY FS_Interval
<1>8. f \in Surjection(S, 1..n)
  BY <1>1, <1>6, <1>7, FS_Injection
<1>9. \A i \in 1..n : \E p \in S : f[p] = i
  BY <1>8 DEF Surjection
<1> QED
  BY <1>1, <1>4, <1>9
=============================================================================

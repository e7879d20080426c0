-------------------------- MODULE PromptCacheProofs --------------------------
(***************************************************************************)
(* Theorems about PromptCache, for every set of requests and prompts, any  *)
(* vocabulary and pool: what rows and tree refer to, who owns the tokens   *)
(* of the pool, and the references on the nodes.                           *)
(***************************************************************************)
EXTENDS PromptCache, SequenceTheorems, InductionLemmas

-----------------------------------------------------------------------------
(* Texts and their prefixes *)

LEMMA PrefixMeans ==
  ASSUME NEW T, NEW s \in Seq(T), NEW t \in Seq(T)
  PROVE  IsPrefix(s, t) <=> Len(s) <= Len(t) /\ \A i \in 1..Len(s) : s[i] = t[i]
<1>1. Len(s) \in Nat /\ Len(t) \in Nat
  OBVIOUS
<1>2. ASSUME Len(s) <= Len(t)
      PROVE  /\ SubSeq(s, 1, Len(s)) \in Seq(T) /\ SubSeq(t, 1, Len(s)) \in Seq(T)
             /\ Len(SubSeq(s, 1, Len(s))) = Len(s) /\ Len(SubSeq(t, 1, Len(s))) = Len(s)
             /\ \A i \in 1..Len(s) : /\ SubSeq(s, 1, Len(s))[i] = s[i]
                                     /\ SubSeq(t, 1, Len(s))[i] = t[i]
  <2>1. \A i \in 1..Len(s) : s[i] \in T /\ t[i] \in T
    BY <1>1, <1>2, ElementOfSeq
  <2>2. /\ SubSeq(s, 1, Len(s)) \in Seq(T)
        /\ Len(SubSeq(s, 1, Len(s))) = IF 1 <= Len(s) THEN Len(s) - 1 + 1 ELSE 0
        /\ \A i \in 1..(Len(s) - 1 + 1) : SubSeq(s, 1, Len(s))[i] = s[1 + i - 1]
    BY <1>1, <2>1, SubSeqProperties
  <2>3. /\ SubSeq(t, 1, Len(s)) \in Seq(T)
        /\ Len(SubSeq(t, 1, Len(s))) = IF 1 <= Len(s) THEN Len(s) - 1 + 1 ELSE 0
        /\ \A i \in 1..(Len(s) - 1 + 1) : SubSeq(t, 1, Len(s))[i] = t[1 + i - 1]
    BY <1>1, <2>1, SubSeqProperties
  <2> QED
    BY <1>1, <2>2, <2>3
<1>3. ASSUME IsPrefix(s, t), NEW i \in 1..Len(s) PROVE s[i] = t[i]
  BY <1>2, <1>3 DEF IsPrefix
<1>4. ASSUME Len(s) <= Len(t), \A i \in 1..Len(s) : s[i] = t[i] PROVE IsPrefix(s, t)
  <2>1. SubSeq(s, 1, Len(s)) = SubSeq(t, 1, Len(s))
    BY <1>2, <1>4, SeqEqual
  <2> QED
    BY <1>4, <2>1 DEF IsPrefix
<1> QED
  BY <1>3, <1>4 DEF IsPrefix

\* The order of prefixes.
LEMMA PrefixOrder ==
  ASSUME NEW T
  PROVE  /\ \A s \in Seq(T) : IsPrefix(s, s) /\ IsPrefix(Root, s)
         /\ \A s, t \in Seq(T) : IsPrefix(s, t) => Len(s) <= Len(t)
         /\ \A s, t \in Seq(T) : IsPrefix(s, t) /\ Len(t) <= Len(s) => s = t
         /\ \A s, t, u \in Seq(T) : IsPrefix(s, t) /\ IsPrefix(t, u) => IsPrefix(s, u)
         /\ \A s, t, u \in Seq(T) : IsPrefix(s, u) /\ IsPrefix(t, u) /\ Len(s) <= Len(t)
                                      => IsPrefix(s, t)
<1>1. \A s \in Seq(T) : Len(s) \in Nat
  OBVIOUS
<1>2. Root \in Seq(T) /\ Len(Root) = 0
  BY DEF Root
<1>3. ASSUME NEW s \in Seq(T) PROVE IsPrefix(s, s) /\ IsPrefix(Root, s)
  <2>1. IsPrefix(s, s)
    BY <1>1, PrefixMeans
  <2>2. Len(Root) <= Len(s) /\ \A i \in 1..Len(Root) : Root[i] = s[i]
    BY <1>1, <1>2
  <2> QED
    BY <1>2, <2>1, <2>2, PrefixMeans
<1>4. ASSUME NEW s \in Seq(T), NEW t \in Seq(T), IsPrefix(s, t) PROVE Len(s) <= Len(t)
  BY <1>4, PrefixMeans
<1>5. ASSUME NEW s \in Seq(T), NEW t \in Seq(T), IsPrefix(s, t), Len(t) <= Len(s) PROVE s = t
  <2>1. Len(s) = Len(t) /\ \A i \in 1..Len(s) : s[i] = t[i]
    BY <1>1, <1>5, PrefixMeans
  <2> QED
    BY <2>1, SeqEqual
<1>6. ASSUME NEW s \in Seq(T), NEW t \in Seq(T), NEW u \in Seq(T), IsPrefix(s, t), IsPrefix(t, u)
      PROVE  IsPrefix(s, u)
  <2>1. Len(s) <= Len(t) /\ \A i \in 1..Len(s) : s[i] = t[i]
    BY <1>6, PrefixMeans
  <2>2. Len(t) <= Len(u) /\ \A i \in 1..Len(t) : t[i] = u[i]
    BY <1>6, PrefixMeans
  <2>3. Len(s) <= Len(u) /\ \A i \in 1..Len(s) : s[i] = u[i]
    BY <1>1, <2>1, <2>2
  <2> QED
    BY <2>3, PrefixMeans
<1>7. ASSUME NEW s \in Seq(T), NEW t \in Seq(T), NEW u \in Seq(T),
             IsPrefix(s, u), IsPrefix(t, u), Len(s) <= Len(t)
      PROVE  IsPrefix(s, t)
  <2>1. \A i \in 1..Len(s) : s[i] = u[i]
    BY <1>7, PrefixMeans
  <2>2. \A i \in 1..Len(t) : t[i] = u[i]
    BY <1>7, PrefixMeans
  <2>3. \A i \in 1..Len(s) : s[i] = t[i]
    BY <1>1, <1>7, <2>1, <2>2
  <2> QED
    BY <1>7, <2>3, PrefixMeans
<1> QED
  BY <1>3, <1>4, <1>5, <1>6, <1>7

\* The prefix of a given length.
LEMMA FirstNFacts ==
  ASSUME NEW T, NEW s \in Seq(T)
  PROVE  /\ \A n \in 0..Len(s) : /\ FirstN(s, n) \in Seq(T) /\ Len(FirstN(s, n)) = n
                                 /\ IsPrefix(FirstN(s, n), s)
                                 /\ \A i \in 1..n : FirstN(s, n)[i] = s[i]
         /\ FirstN(s, 0) = Root /\ FirstN(s, Len(s)) = s
         /\ \A t \in Seq(T) : IsPrefix(t, s) <=> Len(t) <= Len(s) /\ t = FirstN(s, Len(t))
<1>1. Len(s) \in Nat
  OBVIOUS
<1>2. ASSUME NEW n \in 0..Len(s)
      PROVE  /\ FirstN(s, n) \in Seq(T) /\ Len(FirstN(s, n)) = n
             /\ IsPrefix(FirstN(s, n), s)
             /\ \A i \in 1..n : FirstN(s, n)[i] = s[i]
  <2>1. \A i \in 1..n : s[i] \in T
    BY <1>1, ElementOfSeq
  <2>2. /\ SubSeq(s, 1, n) \in Seq(T)
        /\ Len(SubSeq(s, 1, n)) = IF 1 <= n THEN n - 1 + 1 ELSE 0
        /\ \A i \in 1..(n - 1 + 1) : SubSeq(s, 1, n)[i] = s[1 + i - 1]
    BY <1>1, <2>1, SubSeqProperties
  <2>3. FirstN(s, n) \in Seq(T) /\ Len(FirstN(s, n)) = n /\ \A i \in 1..n : FirstN(s, n)[i] = s[i]
    BY <1>1, <2>2 DEF FirstN
  <2> QED
    BY <1>1, <2>3, PrefixMeans
<1>3. FirstN(s, 0) = Root
  BY <1>1, <1>2, EmptySeq DEF Root
<1>4. FirstN(s, Len(s)) = s
  BY <1>1, <1>2, SeqEqual
<1>5. ASSUME NEW t \in Seq(T) PROVE IsPrefix(t, s) <=> Len(t) <= Len(s) /\ t = FirstN(s, Len(t))
  <2>1. Len(t) \in Nat
    OBVIOUS
  <2>2. ASSUME IsPrefix(t, s) PROVE Len(t) <= Len(s) /\ t = FirstN(s, Len(t))
    <3>1. Len(t) <= Len(s) /\ \A i \in 1..Len(t) : t[i] = s[i]
      BY <2>2, PrefixMeans
    <3>2. Len(t) \in 0..Len(s)
      BY <1>1, <2>1, <3>1
    <3> QED
      BY <1>2, <3>1, <3>2, SeqEqual
  <2>3. ASSUME Len(t) <= Len(s), t = FirstN(s, Len(t)) PROVE IsPrefix(t, s)
    <3>1. Len(t) \in 0..Len(s)
      BY <1>1, <2>1, <2>3
    <3> QED
      BY <1>2, <2>3, <3>1
  <2> QED
    BY <2>2, <2>3
<1> QED
  BY <1>2, <1>3, <1>4, <1>5

-----------------------------------------------------------------------------
(* The shape of the tree *)

\* A text is inside the tree if it ends at a node or on the edge above one.
Inside(N, x) == \E n \in N : IsPrefix(x, n)

\* Where two paths part, there is a node.
Forks(N) ==
  \A m, n \in N, x \in Seq(Token) :
    IsPrefix(x, m) /\ IsPrefix(x, n) =>
      \E k \in N : IsPrefix(x, k) /\ IsPrefix(k, m) /\ IsPrefix(k, n)

NodesOK(N) == N \subseteq Seq(Token) /\ Root \in N /\ IsFiniteSet(N) /\ Forks(N)

\* The tree keeps an entry for each text inside it.
KeepsInside(t) == DOMAIN t.value = {x \in Seq(Token) \ {Root} : Inside(t.nodes, x)}

LEMMA DeepestFacts ==
  ASSUME NEW T, NEW S, S \subseteq Seq(T), S # {}, NEW L \in Nat, \A s \in S : Len(s) <= L
  PROVE  Deepest(S) \in S /\ \A s \in S : Len(s) <= Len(Deepest(S))
<1> DEFINE D == {L - Len(s) : s \in S}
<1>1. \A s \in S : Len(s) \in Nat /\ L - Len(s) \in Nat
  OBVIOUS
<1>2. D \subseteq Nat /\ D # {}
  BY <1>1
<1>3. PICK m \in D : \A n \in D : m <= n
  BY <1>2, MinElement
<1>4. PICK n \in S : m = L - Len(n)
  BY <1>3
<1>5. ASSUME NEW s \in S PROVE Len(s) <= Len(n)
  <2>1. L - Len(s) \in D
    OBVIOUS
  <2>2. m <= L - Len(s)
    BY <1>3, <2>1
  <2> QED
    BY <1>1, <1>4, <2>2
<1> QED
  BY <1>5 DEF Deepest

LEMMA PathFacts ==
  ASSUME NEW t, NodesOK(t.nodes), NEW key \in Seq(Token), NEW d, d = Deepest(Path(t, key))
  PROVE  /\ d \in t.nodes /\ d \in Seq(Token) /\ IsPrefix(d, key)
         /\ \A n \in t.nodes : IsPrefix(n, key) => IsPrefix(n, d)
<1>1. Path(t, key) \subseteq Seq(Token) /\ Root \in Path(t, key) /\ Len(key) \in Nat
  BY PrefixOrder DEF Path, NodesOK
<1>2. \A n \in Path(t, key) : Len(n) <= Len(key)
  BY <1>1, PrefixOrder DEF Path
<1>3. d \in Path(t, key) /\ \A n \in Path(t, key) : Len(n) <= Len(d)
  BY <1>1, <1>2, DeepestFacts
<1> QED
  BY <1>1, <1>3, PrefixOrder DEF Path

LEMMA ParentFacts ==
  ASSUME NEW t, NodesOK(t.nodes), NEW n \in t.nodes \ {Root}, NEW p, p = ParentOf(t, n)
  PROVE  /\ p \in t.nodes /\ p \in Seq(Token) /\ IsPrefix(p, n) /\ p # n /\ Len(p) < Len(n)
         /\ \A m \in t.nodes : IsPrefix(m, n) /\ m # n => IsPrefix(m, p)
<1> DEFINE S == {m \in t.nodes : IsStrictPrefix(m, n)}
<1>1. S \subseteq Seq(Token) /\ Root \in S /\ Len(n) \in Nat /\ n \in Seq(Token)
  BY PrefixOrder DEF NodesOK, IsStrictPrefix
<1>2. \A m \in S : IsPrefix(m, n) /\ m # n /\ Len(m) <= Len(n)
  BY <1>1, PrefixOrder DEF IsStrictPrefix
<1>3. p = Deepest(S)
  BY DEF ParentOf
<1>4. S # {}
  BY <1>1
<1>5. p \in S /\ \A m \in S : Len(m) <= Len(p)
  <2> HIDE DEF S
  <2> QED
    BY <1>1, <1>2, <1>3, <1>4, DeepestFacts
<1>6. p \in t.nodes /\ p \in Seq(Token) /\ IsPrefix(p, n) /\ p # n
  BY <1>1, <1>2, <1>5
<1>7. Len(p) < Len(n)
  <2>1. Len(p) \in Nat /\ Len(p) <= Len(n) /\ ~(Len(n) <= Len(p))
    BY <1>1, <1>6, PrefixOrder
  <2> QED
    BY <1>1, <2>1
<1>8. ASSUME NEW m \in t.nodes, IsPrefix(m, n), m # n PROVE IsPrefix(m, p)
  <2>1. m \in S
    BY <1>8 DEF IsStrictPrefix
  <2>2. Len(m) <= Len(p) /\ m \in Seq(Token)
    BY <1>1, <1>5, <2>1
  <2> QED
    BY <1>1, <1>6, <1>8, <2>2, PrefixOrder
<1> QED
  BY <1>6, <1>7, <1>8

\* How much of a text is inside the tree.
LEMMA MatchLenFacts ==
  ASSUME NEW t, NodesOK(t.nodes), KeepsInside(t), NEW key \in Seq(Token),
         NEW M, M = MatchLen(t, key)
  PROVE  M \in 0..Len(key) /\ \A i \in 0..Len(key) : Inside(t.nodes, FirstN(key, i)) <=> i <= M
<1> DEFINE K == {0} \cup {Len(p) : p \in PrefixesOf(key) \cap DOMAIN t.value}
<1>0. Len(key) \in Nat /\ t.nodes \subseteq Seq(Token) /\ Root \in t.nodes
  BY DEF NodesOK
<1>1. \A i \in 0..Len(key) : /\ FirstN(key, i) \in Seq(Token) /\ Len(FirstN(key, i)) = i
                             /\ IsPrefix(FirstN(key, i), key)
  BY FirstNFacts
<1>2. \A i \in 1..Len(key) : FirstN(key, i) \in DOMAIN t.value <=> Inside(t.nodes, FirstN(key, i))
  <2>1. Len(Root) = 0
    BY DEF Root
  <2> QED
    BY <1>0, <1>1, <2>1 DEF KeepsInside
<1>3. \A i \in 1..Len(key) : Inside(t.nodes, FirstN(key, i)) <=> i \in K
  <2>1. ASSUME NEW i \in 1..Len(key), Inside(t.nodes, FirstN(key, i)) PROVE i \in K
    BY <1>0, <1>1, <1>2, <2>1 DEF PrefixesOf
  <2>2. ASSUME NEW i \in 1..Len(key), i \in K PROVE Inside(t.nodes, FirstN(key, i))
    BY <1>0, <1>1, <1>2, <2>2 DEF PrefixesOf
  <2> QED
    BY <2>1, <2>2
<1>4. K \subseteq 0..Len(key) /\ 0 \in K
  BY <1>0, <1>1 DEF PrefixesOf
<1>5. M \in K /\ \A i \in K : i <= M
  <2>1. M = Max(K)
    BY DEF MatchLen
  <2> DEFINE L == Len(key)
             D == {L - i : i \in K}
  <2>2. D \subseteq Nat /\ D # {}
    BY <1>0, <1>4
  <2>3. PICK m \in D : \A n \in D : m <= n
    <3> HIDE DEF D
    <3> QED
      BY <2>2, MinElement
  <2>4. PICK x \in K : m = L - x
    BY <2>3
  <2>5. ASSUME NEW i \in K PROVE x >= i
    <3>1. L - i \in D
      OBVIOUS
    <3>2. L - x <= L - i
      BY <2>3, <2>4, <3>1
    <3> HIDE DEF K
    <3> QED
      BY <1>0, <1>4, <3>2
  <2> HIDE DEF K
  <2>6. Max(K) \in K /\ \A i \in K : Max(K) >= i
    BY <2>5 DEF Max
  <2> QED
    BY <1>0, <1>4, <2>1, <2>6
<1> HIDE DEF K
<1>6. \A i \in 0..Len(key) : Inside(t.nodes, FirstN(key, i)) => i <= M
  BY <1>0, <1>3, <1>4, <1>5
<1>7. Inside(t.nodes, FirstN(key, M))
  <2>1. CASE M = 0
    BY <1>0, <2>1, FirstNFacts, PrefixOrder DEF Inside
  <2>2. CASE M # 0
    BY <1>0, <1>3, <1>4, <1>5, <2>2
  <2> QED
    BY <2>1, <2>2
<1>8. ASSUME NEW i \in 0..Len(key), i <= M PROVE Inside(t.nodes, FirstN(key, i))
  <2>1. M \in 0..Len(key)
    BY <1>4, <1>5
  <2>2. IsPrefix(FirstN(key, i), FirstN(key, M))
    BY <1>0, <1>1, <1>8, <2>1, PrefixOrder
  <2>3. PICK n \in t.nodes : IsPrefix(FirstN(key, M), n)
    BY <1>7 DEF Inside
  <2>4. IsPrefix(FirstN(key, i), n)
    BY <1>0, <1>1, <2>1, <2>2, <2>3, PrefixOrder
  <2> QED
    BY <2>4 DEF Inside
<1> QED
  BY <1>4, <1>5, <1>6, <1>8

\* p lies on the edge above c.
OnEdge(t, c, p) ==
  /\ c \in t.nodes \ {Root} /\ p \in Seq(Token) \ t.nodes
  /\ IsPrefix(ParentOf(t, c), p) /\ IsPrefix(p, c)

\* Every node beyond a text on an edge is beyond the edge.
LEMMA BeyondEdge ==
  ASSUME NEW t, NodesOK(t.nodes), NEW c, NEW p, OnEdge(t, c, p),
         NEW n \in t.nodes, IsPrefix(p, n)
  PROVE  IsPrefix(c, n)
<1>1. c \in t.nodes /\ p \in Seq(Token) /\ t.nodes \subseteq Seq(Token) /\ p \notin t.nodes
  BY DEF OnEdge, NodesOK
<1>2. PICK k \in t.nodes : IsPrefix(p, k) /\ IsPrefix(k, c) /\ IsPrefix(k, n)
  BY <1>1 DEF NodesOK, Forks, OnEdge
<1>3. CASE k = c
  BY <1>2, <1>3
<1>4. CASE k # c
  <2>1. IsPrefix(k, ParentOf(t, c)) /\ ParentOf(t, c) \in Seq(Token)
    BY <1>2, <1>4, ParentFacts DEF OnEdge
  <2>2. IsPrefix(k, p)
    BY <1>1, <2>1, PrefixOrder DEF OnEdge
  <2>3. k = p
    BY <1>1, <1>2, <2>2, PrefixOrder
  <2> QED
    BY <1>1, <2>3
<1> QED
  BY <1>3, <1>4

\* Where a text ends in the tree: at the deepest node of its path, or on the edge
\* above that node's child which continues it.
LEMMA Landing ==
  ASSUME NEW t, NodesOK(t.nodes), KeepsInside(t), NEW key \in Seq(Token),
         NEW d, d = Deepest(Path(t, key)),
         NEW p, p = FirstN(key, MatchLen(t, key))
  PROVE  /\ p \in Seq(Token) /\ IsPrefix(d, p) /\ IsPrefix(p, key)
         /\ ChildOn(t, key) = {} => p = d
         /\ ChildOn(t, key) # {} =>
              \E c : ChildOn(t, key) = {c} /\ OnEdge(t, c, p) /\ ParentOf(t, c) = d
<1> DEFINE M == MatchLen(t, key)
           N == t.nodes
           x == FirstN(key, Len(d) + 1)
<1>1. N \subseteq Seq(Token) /\ Len(key) \in Nat /\ Root \in N
  BY DEF NodesOK
<1>2. d \in N /\ d \in Seq(Token) /\ IsPrefix(d, key) /\ Len(d) \in Nat
      /\ \A n \in N : IsPrefix(n, key) => IsPrefix(n, d)
  BY PathFacts
<1>3. M \in 0..Len(key) /\ \A i \in 0..Len(key) : Inside(N, FirstN(key, i)) <=> i <= M
  BY MatchLenFacts
<1>4. p \in Seq(Token) /\ Len(p) = M /\ IsPrefix(p, key)
  BY <1>3, FirstNFacts
<1>5. d = FirstN(key, Len(d)) /\ Len(d) <= Len(key)
  BY <1>2, FirstNFacts
<1>6. Len(d) <= M
  <2>1. Inside(N, d)
    BY <1>2, PrefixOrder DEF Inside
  <2>2. Len(d) \in 0..Len(key)
    BY <1>1, <1>2, <1>5
  <2> QED
    BY <1>3, <1>5, <2>1, <2>2
<1>7. IsPrefix(d, p)
  BY <1>2, <1>4, <1>6, PrefixOrder
<1>8. ASSUME NEW c PROVE c \in ChildOn(t, key) <=>
             /\ c \in N \ {Root} /\ ParentOf(t, c) = d
             /\ Len(key) > Len(d) /\ IsPrefix(x, c)
  <2>1. ASSUME c \in N \ {Root}, ParentOf(t, c) = d, Len(key) > Len(d)
        PROVE  c[Len(d) + 1] = key[Len(d) + 1] <=> IsPrefix(x, c)
    <3>1. c \in Seq(Token) /\ IsPrefix(d, c) /\ Len(d) < Len(c) /\ Len(c) \in Nat
      BY <1>1, <2>1, ParentFacts
    <3>2. Len(d) + 1 \in 0..Len(key)
      BY <1>1, <1>2, <2>1
    <3>3. x \in Seq(Token) /\ Len(x) = Len(d) + 1 /\ \A i \in 1..(Len(d) + 1) : x[i] = key[i]
      BY <3>2, FirstNFacts
    <3>4. /\ \A i \in 1..Len(d) : d[i] = c[i]
          /\ \A i \in 1..Len(d) : d[i] = key[i]
      <4> HIDE DEF x
      <4>1. \A i \in 1..Len(d) : d[i] = c[i]
        BY <1>2, <3>1, PrefixMeans
      <4>2. \A i \in 1..Len(d) : d[i] = key[i]
        BY <1>2, PrefixMeans
      <4> QED
        BY <4>1, <4>2
    <3>5. IsPrefix(x, c) <=> Len(x) <= Len(c) /\ \A i \in 1..Len(x) : x[i] = c[i]
      BY <3>1, <3>3, PrefixMeans
    <3> HIDE DEF x
    <3> QED
      BY <1>2, <3>1, <3>3, <3>4, <3>5
  <2> HIDE DEF x
  <2> QED
    BY <1>2, <2>1 DEF ChildOn, Children
<1>9. ASSUME ChildOn(t, key) = {} PROVE p = d
  <2> SUFFICES ASSUME p # d PROVE FALSE
    OBVIOUS
  <2>1. Len(d) < M
    <3>1. ~(Len(p) <= Len(d))
      BY <1>2, <1>4, <1>7, PrefixOrder
    <3> QED
      BY <1>2, <1>3, <1>4, <1>6, <3>1
  <2> DEFINE B == {n \in N : IsPrefix(p, n)}
             L == {Len(n) : n \in B}
  <2>2. L \subseteq Nat /\ L # {}
    <3>1. Inside(N, p)
      BY <1>3
    <3>2. PICK n \in N : IsPrefix(p, n)
      BY <3>1 DEF Inside
    <3>3. Len(n) \in L
      BY <3>2
    <3>4. \A m \in N : Len(m) \in Nat
      BY <1>1
    <3> QED
      BY <3>3, <3>4
  <2>3. PICK l \in L : \A k \in L : l <= k
    <3> HIDE DEF L
    <3> QED
      BY <2>2, MinElement
  <2>4. PICK c \in B : l = Len(c)
    BY <2>3
  <2>5. c \in N /\ c \in Seq(Token) /\ IsPrefix(p, c)
    BY <1>1, <2>4
  <2>6. ASSUME NEW k \in N, IsPrefix(p, k), IsPrefix(k, c) PROVE k = c
    <3>1. Len(c) <= Len(k)
      BY <2>3, <2>4, <2>6
    <3> QED
      BY <1>1, <2>5, <2>6, <3>1, PrefixOrder
  <2>7. IsPrefix(d, c) /\ Len(d) < Len(c) /\ c # Root
    <3>1. M <= Len(c) /\ IsPrefix(d, c) /\ Len(c) \in Nat
      BY <1>2, <1>4, <1>7, <2>5, PrefixOrder
    <3>2. Len(Root) = 0
      BY DEF Root
    <3> QED
      BY <1>2, <1>3, <2>1, <3>1, <3>2
  <2>8. ParentOf(t, c) = d
    <3>1. PICK q : q = ParentOf(t, c)
      OBVIOUS
    <3>2. /\ q \in N /\ q \in Seq(Token) /\ IsPrefix(q, c) /\ q # c
          /\ \A m \in N : IsPrefix(m, c) /\ m # c => IsPrefix(m, q)
      BY <2>5, <2>7, <3>1, ParentFacts
    <3>3. IsPrefix(d, q)
      BY <1>2, <2>7, <3>2
    <3>4. ~IsPrefix(p, q)
      BY <2>6, <3>2
    <3>5. IsPrefix(q, p)
      <4>1. Len(p) <= Len(q) \/ Len(q) <= Len(p)
        BY <1>4, <3>2
      <4> QED
        BY <1>4, <2>5, <3>2, <3>4, <4>1, PrefixOrder
    <3>6. IsPrefix(q, d)
      BY <1>2, <1>4, <3>2, <3>5, PrefixOrder
    <3>7. q = d
      BY <1>2, <3>2, <3>3, <3>6, PrefixOrder
    <3> QED
      BY <3>1, <3>7
  <2>9. IsPrefix(x, c) /\ Len(key) > Len(d)
    <3>1. Len(d) + 1 \in 0..Len(key)
      BY <1>2, <1>3, <2>1
    <3>2. x \in Seq(Token) /\ IsPrefix(x, key) /\ Len(x) = Len(d) + 1
      BY <3>1, FirstNFacts
    <3>3. IsPrefix(x, p)
      BY <1>2, <1>3, <1>4, <2>1, <3>2, PrefixOrder
    <3>4. IsPrefix(x, c)
      BY <1>4, <2>5, <3>2, <3>3, PrefixOrder
    <3> QED
      BY <1>1, <1>2, <3>1, <3>4
  <2>10. c \in ChildOn(t, key)
    BY <1>8, <2>5, <2>7, <2>8, <2>9
  <2> QED
    BY <1>9, <2>10
<1>10. ASSUME ChildOn(t, key) # {}
       PROVE  \E c : ChildOn(t, key) = {c} /\ OnEdge(t, c, p) /\ ParentOf(t, c) = d
  <2>1. PICK c : c \in ChildOn(t, key)
    BY <1>10
  <2>2. c \in N \ {Root} /\ ParentOf(t, c) = d /\ Len(key) > Len(d) /\ IsPrefix(x, c)
    BY <1>8, <2>1
  <2>3. c \in Seq(Token)
    BY <1>1, <2>2
  <2>4. Len(d) + 1 \in 0..Len(key)
    BY <1>1, <1>2, <2>2
  <2>5. x \in Seq(Token) /\ IsPrefix(x, key) /\ Len(x) = Len(d) + 1
    BY <2>4, FirstNFacts
  <2> HIDE DEF x
  <2>6. ~IsPrefix(x, d)
    BY <1>2, <2>5, PrefixOrder
  <2>7. ASSUME NEW a \in N \ {Root}, ParentOf(t, a) = d, NEW k \in N, IsPrefix(x, k), IsPrefix(k, a)
        PROVE  k = a
    <3> SUFFICES ASSUME k # a PROVE FALSE
      OBVIOUS
    <3>1. IsPrefix(k, d)
      BY <2>7, ParentFacts
    <3> QED
      BY <1>1, <1>2, <2>5, <2>6, <2>7, <3>1, PrefixOrder
  <2>8. ASSUME NEW e \in ChildOn(t, key) PROVE e = c
    <3>1. e \in N \ {Root} /\ ParentOf(t, e) = d /\ IsPrefix(x, e)
      BY <1>8, <2>8
    <3>2. PICK k \in N : IsPrefix(x, k) /\ IsPrefix(k, c) /\ IsPrefix(k, e)
      BY <2>2, <2>5, <3>1 DEF NodesOK, Forks
    <3>3. k = c
      BY <2>2, <2>7, <3>2
    <3>4. k = e
      BY <2>7, <3>1, <3>2
    <3> QED
      BY <3>3, <3>4
  <2>9. ChildOn(t, key) = {c}
    BY <2>1, <2>8
  <2>10. Inside(N, x)
    BY <2>2 DEF Inside
  <2>11. Len(d) + 1 <= M /\ IsPrefix(x, p)
    <3>1. Len(d) + 1 <= M
      BY <1>3, <2>4, <2>10 DEF x
    <3> QED
      BY <1>4, <2>5, <3>1, PrefixOrder
  <2>12. PICK n \in N : IsPrefix(p, n)
    <3>1. Inside(N, p)
      BY <1>3
    <3> QED
      BY <3>1 DEF Inside
  <2>13. IsPrefix(c, n)
    <3>1. IsPrefix(x, n) /\ n \in Seq(Token)
      BY <1>1, <1>4, <2>5, <2>11, <2>12, PrefixOrder
    <3>2. PICK k \in N : IsPrefix(x, k) /\ IsPrefix(k, c) /\ IsPrefix(k, n)
      BY <2>2, <2>5, <3>1 DEF NodesOK, Forks
    <3>3. k = c
      BY <2>2, <2>7, <3>2
    <3> QED
      BY <3>2, <3>3
  <2>14. ~IsPrefix(c, key)
    <3> SUFFICES ASSUME IsPrefix(c, key) PROVE FALSE
      OBVIOUS
    <3>1. IsPrefix(c, d)
      BY <1>2, <2>2
    <3> QED
      BY <1>2, <2>2, <2>3, <2>5, <2>6, <3>1, PrefixOrder
  <2>15. IsPrefix(p, c)
    <3>1. ~IsPrefix(c, p)
      BY <1>4, <2>3, <2>14, PrefixOrder
    <3>2. Len(p) <= Len(c) \/ Len(c) <= Len(p)
      BY <1>4, <2>3
    <3>3. n \in Seq(Token)
      BY <1>1
    <3> QED
      BY <1>4, <2>3, <2>12, <2>13, <3>1, <3>2, <3>3, PrefixOrder
  <2>16. p \notin N
    <3> SUFFICES ASSUME p \in N PROVE FALSE
      OBVIOUS
    <3>1. IsPrefix(p, d)
      BY <1>2, <1>4
    <3>2. Len(p) <= Len(d)
      BY <1>2, <1>4, <3>1, PrefixOrder
    <3> QED
      BY <1>2, <1>3, <1>4, <2>11, <3>2
  <2> QED
    BY <1>4, <1>7, <2>2, <2>9, <2>15, <2>16 DEF OnEdge
<1> QED
  BY <1>4, <1>7, <1>9, <1>10

-----------------------------------------------------------------------------
(* Operations on the tree: shape *)

\* The fields of the tree.
IsTree(t) ==
  t = [nodes |-> t.nodes, value |-> t.value, ref_counter |-> t.ref_counter,
       time_id |-> t.time_id, prefix_total_len |-> t.prefix_total_len,
       evict_tree_set |-> t.evict_tree_set, clock |-> t.clock,
       refed_tokens_num |-> t.refed_tokens_num,
       tree_total_tokens_num |-> t.tree_total_tokens_num]

\* A well-formed tree: a record of its fields, with counters for its nodes, entries
\* for the texts inside, and the length of its text in each node's shared record.
TreeOK(t) ==
  /\ IsTree(t)
  /\ NodesOK(t.nodes) /\ KeepsInside(t)
  /\ DOMAIN t.ref_counter = t.nodes /\ DOMAIN t.time_id = t.nodes
  /\ DOMAIN t.prefix_total_len = t.nodes
  /\ \A n \in t.nodes : t.prefix_total_len[n] = Len(n)

\* The trees t and u differ in eviction order and times only.
SameTree(t, u) ==
  /\ u.nodes = t.nodes /\ u.value = t.value /\ u.ref_counter = t.ref_counter
  /\ u.prefix_total_len = t.prefix_total_len
  /\ u.refed_tokens_num = t.refed_tokens_num
  /\ u.tree_total_tokens_num = t.tree_total_tokens_num

LEMMA WithNodeFacts ==
  ASSUME NEW t, TreeOK(t), NEW n \in Seq(Token) \ t.nodes, NEW p \in t.nodes, NEW ref,
         NEW u, u = WithNode(t, n, p, ref)
  PROVE  /\ IsTree(u)
         /\ u.nodes = t.nodes \cup {n} /\ u.value = t.value
         /\ DOMAIN u.ref_counter = u.nodes /\ DOMAIN u.time_id = u.nodes
         /\ DOMAIN u.prefix_total_len = u.nodes
         /\ u.ref_counter[n] = ref /\ u.prefix_total_len[n] = Len(n)
         /\ \A m \in t.nodes : /\ u.ref_counter[m] = t.ref_counter[m]
                               /\ u.prefix_total_len[m] = Len(m)
         /\ u.refed_tokens_num = t.refed_tokens_num
         /\ u.tree_total_tokens_num = t.tree_total_tokens_num
<1>1. /\ IsTree(u)
      /\ u.nodes = t.nodes \cup {n} /\ u.value = t.value
      /\ u.ref_counter = Extend(t.ref_counter, n, ref)
      /\ u.time_id = Extend(t.time_id, n, t.clock + 1)
      /\ u.prefix_total_len = Extend(t.prefix_total_len, n, t.prefix_total_len[p] + Len(n) - Len(p))
      /\ u.refed_tokens_num = t.refed_tokens_num
      /\ u.tree_total_tokens_num = t.tree_total_tokens_num
  BY DEF WithNode, TreeOK, IsTree
<1>3. DOMAIN t.ref_counter = t.nodes /\ DOMAIN t.time_id = t.nodes
      /\ DOMAIN t.prefix_total_len = t.nodes /\ \A m \in t.nodes : t.prefix_total_len[m] = Len(m)
  BY DEF TreeOK
<1>4. Len(p) \in Nat /\ Len(n) \in Nat
  BY DEF TreeOK, NodesOK
<1>5. DOMAIN u.ref_counter = u.nodes /\ u.ref_counter[n] = ref
      /\ \A m \in t.nodes : u.ref_counter[m] = t.ref_counter[m]
  BY <1>1, <1>3 DEF Extend
<1>6. DOMAIN u.time_id = u.nodes
  BY <1>1, <1>3 DEF Extend
<1>7. DOMAIN u.prefix_total_len = u.nodes /\ u.prefix_total_len[n] = Len(p) + Len(n) - Len(p)
      /\ \A m \in t.nodes : u.prefix_total_len[m] = Len(m)
  BY <1>1, <1>3 DEF Extend
<1>8. u.prefix_total_len[n] = Len(n)
  BY <1>4, <1>7
<1> QED
  BY <1>1, <1>3, <1>5, <1>6, <1>7, <1>8

\* A node on an edge adds no fork.
LEMMA SplitShape ==
  ASSUME NEW t, NodesOK(t.nodes), KeepsInside(t), NEW c, NEW p, OnEdge(t, c, p)
  PROVE  /\ NodesOK(t.nodes \cup {p})
         /\ \A x \in Seq(Token) : Inside(t.nodes \cup {p}, x) <=> Inside(t.nodes, x)
<1> DEFINE N == t.nodes
           O == t.nodes \cup {p}
<1>1. N \subseteq Seq(Token) /\ p \in Seq(Token) /\ c \in N /\ c \in Seq(Token) /\ IsPrefix(p, c)
  BY DEF OnEdge, NodesOK
<1>2. O \subseteq Seq(Token) /\ Root \in O /\ IsFiniteSet(O)
  BY <1>1, FS_AddElement DEF NodesOK
<1>3. ASSUME NEW n \in N, NEW x \in Seq(Token), IsPrefix(x, p), IsPrefix(x, n)
      PROVE  \E k \in O : IsPrefix(x, k) /\ IsPrefix(k, p) /\ IsPrefix(k, n)
  <2>1. IsPrefix(x, c)
    BY <1>1, <1>3, PrefixOrder
  <2>2. PICK k \in N : IsPrefix(x, k) /\ IsPrefix(k, c) /\ IsPrefix(k, n)
    BY <1>1, <1>3, <2>1 DEF NodesOK, Forks
  <2>3. k \in Seq(Token) /\ n \in Seq(Token)
    BY <1>1
  <2>4. CASE IsPrefix(k, p)
    BY <2>2, <2>4
  <2>5. CASE IsPrefix(p, k)
    <3>1. IsPrefix(p, n) /\ IsPrefix(p, p)
      BY <1>1, <2>2, <2>3, <2>5, PrefixOrder
    <3> QED
      BY <1>3, <3>1
  <2>6. Len(k) <= Len(p) \/ Len(p) <= Len(k)
    BY <1>1, <2>3
  <2>7. IsPrefix(k, p) \/ IsPrefix(p, k)
    BY <1>1, <2>2, <2>3, <2>6, PrefixOrder
  <2> QED
    BY <2>4, <2>5, <2>7
<1>4. ASSUME NEW m \in O, NEW n \in O, NEW x \in Seq(Token), IsPrefix(x, m), IsPrefix(x, n)
      PROVE  \E k \in O : IsPrefix(x, k) /\ IsPrefix(k, m) /\ IsPrefix(k, n)
  <2>1. CASE m \in N /\ n \in N
    BY <1>4, <2>1 DEF NodesOK, Forks
  <2>2. CASE m = p /\ n = p
    BY <1>1, <1>4, <2>2, PrefixOrder
  <2>3. CASE m = p /\ n \in N
    BY <1>3, <1>4, <2>3
  <2>4. CASE m \in N /\ n = p
    BY <1>3, <1>4, <2>4
  <2> QED
    BY <2>1, <2>2, <2>3, <2>4
<1>5. ASSUME NEW x \in Seq(Token) PROVE Inside(O, x) <=> Inside(N, x)
  <2>1. ASSUME IsPrefix(x, p) PROVE IsPrefix(x, c)
    BY <1>1, <2>1, PrefixOrder
  <2> QED
    BY <1>1, <2>1 DEF Inside
<1> QED
  BY <1>2, <1>4, <1>5 DEF NodesOK, Forks

\* split_node
LEMMA SplitFacts ==
  ASSUME NEW t, TreeOK(t), NEW c, NEW p, OnEdge(t, c, p), NEW u, u = SplitNode(t, c, p)
  PROVE  /\ TreeOK(u) /\ u.nodes = t.nodes \cup {p} /\ u.value = t.value
         /\ u.ref_counter[p] = t.ref_counter[c]
         /\ \A m \in t.nodes : u.ref_counter[m] = t.ref_counter[m]
         /\ u.refed_tokens_num = t.refed_tokens_num
         /\ u.tree_total_tokens_num = t.tree_total_tokens_num
<1>1. /\ c \in t.nodes /\ c # Root /\ p \in Seq(Token) \ t.nodes /\ NodesOK(t.nodes)
      /\ KeepsInside(t) /\ t.nodes \subseteq Seq(Token)
  BY DEF OnEdge, TreeOK, NodesOK
<1>2. PICK d \in t.nodes : d = ParentOf(t, c)
  BY <1>1, ParentFacts
<1>3. PICK v : v = WithNode(t, p, d, t.ref_counter[c])
  OBVIOUS
<1>4. /\ IsTree(v)
      /\ v.nodes = t.nodes \cup {p} /\ v.value = t.value
      /\ DOMAIN v.ref_counter = v.nodes /\ DOMAIN v.time_id = v.nodes
      /\ DOMAIN v.prefix_total_len = v.nodes
      /\ v.ref_counter[p] = t.ref_counter[c] /\ v.prefix_total_len[p] = Len(p)
      /\ \A m \in t.nodes : /\ v.ref_counter[m] = t.ref_counter[m]
                            /\ v.prefix_total_len[m] = Len(m)
      /\ v.refed_tokens_num = t.refed_tokens_num
      /\ v.tree_total_tokens_num = t.tree_total_tokens_num
  BY <1>1, <1>2, <1>3, WithNodeFacts
<1>5. u = [v EXCEPT !.prefix_total_len[c] = v.prefix_total_len[p] + Len(c) - Len(p)]
  BY <1>2, <1>3 DEF SplitNode
<1>6. /\ IsTree(u)
      /\ u.nodes = v.nodes /\ u.value = v.value /\ u.ref_counter = v.ref_counter
      /\ u.time_id = v.time_id /\ u.refed_tokens_num = v.refed_tokens_num
      /\ u.tree_total_tokens_num = v.tree_total_tokens_num
      /\ u.prefix_total_len = [v.prefix_total_len EXCEPT ![c] = v.prefix_total_len[p] + Len(c) - Len(p)]
  BY <1>4, <1>5 DEF IsTree
<1>7. DOMAIN u.prefix_total_len = u.nodes /\ \A n \in u.nodes : u.prefix_total_len[n] = Len(n)
  <2>1. Len(p) \in Nat /\ Len(c) \in Nat
    BY <1>1
  <2>2. v.prefix_total_len[p] + Len(c) - Len(p) = Len(c)
    BY <1>4, <2>1
  <2>3. DOMAIN u.prefix_total_len = u.nodes
    BY <1>4, <1>6
  <2>4. ASSUME NEW n \in u.nodes PROVE u.prefix_total_len[n] = Len(n)
    <3>1. n = p \/ n \in t.nodes
      BY <1>4, <1>6
    <3>2. n \in DOMAIN v.prefix_total_len
      BY <1>4, <1>6
    <3> QED
      BY <1>4, <1>6, <2>2, <3>1, <3>2
  <2> QED
    BY <2>3, <2>4
<1>8. /\ NodesOK(t.nodes \cup {p})
      /\ \A x \in Seq(Token) : Inside(t.nodes \cup {p}, x) <=> Inside(t.nodes, x)
  <2>1. NodesOK(t.nodes) /\ KeepsInside(t)
    BY <1>1
  <2> QED
    BY <2>1, SplitShape
<1>9. NodesOK(u.nodes) /\ KeepsInside(u)
  <2>1. u.nodes = t.nodes \cup {p} /\ u.value = t.value
    BY <1>4, <1>6
  <2> QED
    BY <1>1, <1>8, <2>1 DEF KeepsInside
<1> QED
  BY <1>1, <1>4, <1>6, <1>7, <1>9 DEF TreeOK

\* The prefixes of a text, as the texts that it continues.
LEMMA PrefixesFacts ==
  ASSUME NEW T, NEW key \in Seq(T)
  PROVE  /\ PrefixesOf(key) = {q \in Seq(T) \ {Root} : IsPrefix(q, key)}
         /\ \A q \in PrefixesOf(key) : Len(q) \in 1..Len(key) /\ q = FirstN(key, Len(q))
<1>1. Len(key) \in Nat
  OBVIOUS
<1>2. \A i \in 0..Len(key) : /\ FirstN(key, i) \in Seq(T) /\ Len(FirstN(key, i)) = i
                             /\ IsPrefix(FirstN(key, i), key)
  BY FirstNFacts
<1>3. Len(Root) = 0
  BY DEF Root
<1>4. ASSUME NEW q \in PrefixesOf(key)
      PROVE  q \in Seq(T) \ {Root} /\ IsPrefix(q, key) /\ Len(q) \in 1..Len(key)
             /\ q = FirstN(key, Len(q))
  <2>1. PICK i \in 1..Len(key) : q = FirstN(key, i)
    BY <1>4 DEF PrefixesOf
  <2>2. i \in 0..Len(key)
    BY <2>1
  <2> QED
    BY <1>2, <1>3, <2>1, <2>2
<1>5. ASSUME NEW q \in Seq(T) \ {Root}, IsPrefix(q, key) PROVE q \in PrefixesOf(key)
  <2>1. Len(q) <= Len(key) /\ q = FirstN(key, Len(q)) /\ Len(q) \in Nat
    BY <1>5, FirstNFacts
  <2>2. Len(q) # 0
    BY <1>5, EmptySeq DEF Root
  <2>3. Len(q) \in 1..Len(key)
    BY <1>1, <2>1, <2>2
  <2> QED
    BY <2>1, <2>3 DEF PrefixesOf
<1> QED
  BY <1>4, <1>5

\* The texts a key brings into the tree.
NewTexts(t, key) == {q \in PrefixesOf(key) : Len(q) > MatchLen(t, key)}

LEMMA NewTextsFacts ==
  ASSUME NEW t, NodesOK(t.nodes), KeepsInside(t), NEW key \in Seq(Token)
  PROVE  /\ NewTexts(t, key) = {q \in Seq(Token) \ {Root} : IsPrefix(q, key) /\ ~Inside(t.nodes, q)}
         /\ NewTexts(t, key) \cap DOMAIN t.value = {}
         /\ DOMAIN t.value \cup NewTexts(t, key) = DOMAIN t.value \cup PrefixesOf(key)
<1>1. PICK M : M = MatchLen(t, key)
  OBVIOUS
<1>2. M \in 0..Len(key) /\ \A i \in 0..Len(key) : Inside(t.nodes, FirstN(key, i)) <=> i <= M
  BY <1>1, MatchLenFacts
<1>3. /\ PrefixesOf(key) = {q \in Seq(Token) \ {Root} : IsPrefix(q, key)}
      /\ \A q \in PrefixesOf(key) : Len(q) \in 1..Len(key) /\ q = FirstN(key, Len(q))
  BY PrefixesFacts
<1>4. ASSUME NEW q \in PrefixesOf(key) PROVE Len(q) > M <=> ~Inside(t.nodes, q)
  <2>1. Len(q) \in 0..Len(key) /\ Len(q) \in Nat /\ q = FirstN(key, Len(q))
    BY <1>3
  <2>2. Inside(t.nodes, q) <=> Len(q) <= M
    BY <1>2, <2>1
  <2> QED
    BY <1>2, <2>1, <2>2
<1>5. NewTexts(t, key) = {q \in PrefixesOf(key) : ~Inside(t.nodes, q)}
  BY <1>1, <1>4 DEF NewTexts
<1> QED
  BY <1>3, <1>5 DEF KeepsInside

\* A new leaf adds no fork.
LEMMA AddShape ==
  ASSUME NEW t, NodesOK(t.nodes), KeepsInside(t), NEW key \in Seq(Token),
         NEW p \in t.nodes, p = FirstN(key, MatchLen(t, key)), NEW O, O = t.nodes \cup {key}
  PROVE  /\ NodesOK(O)
         /\ \A x \in Seq(Token) : Inside(O, x) <=> Inside(t.nodes, x) \/ IsPrefix(x, key)
<1> DEFINE N == t.nodes
<1>1. N \subseteq Seq(Token) /\ p \in Seq(Token) /\ IsPrefix(p, key) /\ Len(key) \in Nat
  <2>1. MatchLen(t, key) \in 0..Len(key)
    BY MatchLenFacts
  <2> QED
    BY <2>1, FirstNFacts DEF NodesOK
<1>2. O \subseteq Seq(Token) /\ Root \in O /\ IsFiniteSet(O)
  BY <1>1, FS_AddElement DEF NodesOK
<1>3. ASSUME NEW n \in N, NEW x \in Seq(Token), IsPrefix(x, key), IsPrefix(x, n)
      PROVE  \E k \in O : IsPrefix(x, k) /\ IsPrefix(k, key) /\ IsPrefix(k, n)
  <2>1. Inside(N, x)
    BY <1>3 DEF Inside
  <2>2. PICK M : M = MatchLen(t, key)
    OBVIOUS
  <2>3. M \in 0..Len(key) /\ \A i \in 0..Len(key) : Inside(N, FirstN(key, i)) <=> i <= M
    BY <2>2, MatchLenFacts
  <2>4. Len(x) <= Len(key) /\ x = FirstN(key, Len(x)) /\ Len(x) \in Nat
    BY <1>3, FirstNFacts
  <2>5. Len(x) \in 0..Len(key)
    BY <1>1, <2>4
  <2>6. Len(x) <= M
    BY <2>1, <2>3, <2>4, <2>5
  <2>7. Len(p) = M
    BY <2>2, <2>3, FirstNFacts
  <2>8. IsPrefix(x, p)
    BY <1>1, <1>3, <2>6, <2>7, PrefixOrder
  <2>9. PICK k \in N : IsPrefix(x, k) /\ IsPrefix(k, p) /\ IsPrefix(k, n)
    BY <1>3, <2>8 DEF NodesOK, Forks
  <2>10. k \in Seq(Token) /\ IsPrefix(k, key)
    BY <1>1, <2>9, PrefixOrder
  <2> QED
    BY <2>9, <2>10
<1>4. ASSUME NEW m \in O, NEW n \in O, NEW x \in Seq(Token), IsPrefix(x, m), IsPrefix(x, n)
      PROVE  \E k \in O : IsPrefix(x, k) /\ IsPrefix(k, m) /\ IsPrefix(k, n)
  <2>1. CASE m \in N /\ n \in N
    BY <1>4, <2>1 DEF NodesOK, Forks
  <2>2. CASE m = key /\ n = key
    <3>1. IsPrefix(key, key) /\ key \in O
      BY PrefixOrder
    <3> QED
      BY <1>4, <2>2, <3>1
  <2>3. CASE m = key /\ n \in N
    BY <1>3, <1>4, <2>3
  <2>4. CASE m \in N /\ n = key
    BY <1>3, <1>4, <2>4
  <2> QED
    BY <2>1, <2>2, <2>3, <2>4
<1>5. \A x \in Seq(Token) : Inside(O, x) <=> Inside(N, x) \/ IsPrefix(x, key)
  BY DEF Inside
<1> QED
  BY <1>2, <1>4, <1>5 DEF NodesOK, Forks

\* add_and_return_new_child
LEMMA AddChildFacts ==
  ASSUME NEW t, TreeOK(t), NEW key \in Seq(Token), MatchLen(t, key) # Len(key),
         NEW p \in t.nodes, p = FirstN(key, MatchLen(t, key)), NEW value,
         NEW u, u = AddChild(t, p, key, value)
  PROVE  /\ key \notin t.nodes /\ ~Inside(t.nodes, key)
         /\ TreeOK(u) /\ u.nodes = t.nodes \cup {key}
         /\ DOMAIN u.value = DOMAIN t.value \cup NewTexts(t, key)
         /\ \A q \in DOMAIN t.value : u.value[q] = t.value[q]
         /\ \A q \in NewTexts(t, key) : u.value[q] = value[Len(q)]
         /\ u.ref_counter[key] = 0
         /\ \A m \in t.nodes : u.ref_counter[m] = t.ref_counter[m]
         /\ u.refed_tokens_num = t.refed_tokens_num
         /\ u.tree_total_tokens_num = t.tree_total_tokens_num + Cardinality(NewTexts(t, key))
<1>1. NodesOK(t.nodes) /\ KeepsInside(t) /\ t.nodes \subseteq Seq(Token) /\ Len(key) \in Nat
  BY DEF TreeOK, NodesOK
<1>2. MatchLen(t, key) \in 0..Len(key) /\ ~Inside(t.nodes, FirstN(key, Len(key)))
  <2>1. PICK M : M = MatchLen(t, key)
    OBVIOUS
  <2>2. M \in 0..Len(key) /\ \A i \in 0..Len(key) : Inside(t.nodes, FirstN(key, i)) <=> i <= M
    BY <1>1, <2>1, MatchLenFacts
  <2>3. Len(key) \in 0..Len(key) /\ ~(Len(key) <= M)
    BY <1>1, <2>1, <2>2
  <2> QED
    BY <2>1, <2>2, <2>3
<1>3. key \notin t.nodes /\ ~Inside(t.nodes, key)
  <2>1. FirstN(key, Len(key)) = key /\ IsPrefix(key, key)
    BY FirstNFacts, PrefixOrder
  <2> QED
    BY <1>2, <2>1 DEF Inside
<1>4. Len(p) = MatchLen(t, key)
  BY <1>2, FirstNFacts
<1>5. NewTexts(t, key) = {q \in PrefixesOf(key) : Len(q) > Len(p)}
  BY <1>4 DEF NewTexts
<1>6. PICK v : v = WithNode(t, key, p, 0)
  OBVIOUS
<1>7. /\ IsTree(v)
      /\ v.nodes = t.nodes \cup {key} /\ v.value = t.value
      /\ DOMAIN v.ref_counter = v.nodes /\ DOMAIN v.time_id = v.nodes
      /\ DOMAIN v.prefix_total_len = v.nodes
      /\ v.ref_counter[key] = 0 /\ v.prefix_total_len[key] = Len(key)
      /\ \A m \in t.nodes : /\ v.ref_counter[m] = t.ref_counter[m]
                            /\ v.prefix_total_len[m] = Len(m)
      /\ v.refed_tokens_num = t.refed_tokens_num
      /\ v.tree_total_tokens_num = t.tree_total_tokens_num
  BY <1>3, <1>6, WithNodeFacts
<1>8. PICK new : new = NewTexts(t, key)
  OBVIOUS
<1>9. u = [v EXCEPT !.value = [q \in DOMAIN v.value \cup new |->
                                  IF q \in new THEN value[Len(q)] ELSE v.value[q]],
                    !.tree_total_tokens_num = v.tree_total_tokens_num + Cardinality(new)]
  BY <1>5, <1>6, <1>8 DEF AddChild
<1>10. /\ IsTree(u)
       /\ u.nodes = v.nodes /\ u.ref_counter = v.ref_counter
       /\ u.time_id = v.time_id /\ u.prefix_total_len = v.prefix_total_len
       /\ u.refed_tokens_num = v.refed_tokens_num
       /\ u.tree_total_tokens_num = v.tree_total_tokens_num + Cardinality(new)
       /\ u.value = [q \in DOMAIN v.value \cup new |->
                                  IF q \in new THEN value[Len(q)] ELSE v.value[q]]
  BY <1>7, <1>9 DEF IsTree
<1>11. /\ NewTexts(t, key) = {q \in Seq(Token) \ {Root} : IsPrefix(q, key) /\ ~Inside(t.nodes, q)}
       /\ NewTexts(t, key) \cap DOMAIN t.value = {}
  BY <1>1, NewTextsFacts
<1>12. /\ DOMAIN u.value = DOMAIN t.value \cup NewTexts(t, key)
       /\ \A q \in DOMAIN t.value : u.value[q] = t.value[q]
       /\ \A q \in NewTexts(t, key) : u.value[q] = value[Len(q)]
  BY <1>7, <1>8, <1>10, <1>11
<1>13. /\ NodesOK(u.nodes)
       /\ \A x \in Seq(Token) : Inside(u.nodes, x) <=> Inside(t.nodes, x) \/ IsPrefix(x, key)
  <2>1. u.nodes = t.nodes \cup {key}
    BY <1>7, <1>10
  <2> QED
    BY <1>1, <2>1, AddShape
<1>14. KeepsInside(u)
  BY <1>1, <1>11, <1>12, <1>13 DEF KeepsInside
<1>15. \A n \in u.nodes : u.prefix_total_len[n] = Len(n)
  BY <1>7, <1>10
<1>16. TreeOK(u)
  BY <1>7, <1>10, <1>13, <1>14, <1>15 DEF TreeOK
<1>17. u.nodes = t.nodes \cup {key} /\ u.ref_counter[key] = 0
  BY <1>7, <1>10
<1>18. \A m \in t.nodes : u.ref_counter[m] = t.ref_counter[m]
  BY <1>7, <1>10
<1>19. /\ u.refed_tokens_num = t.refed_tokens_num
       /\ u.tree_total_tokens_num = t.tree_total_tokens_num + Cardinality(NewTexts(t, key))
  BY <1>7, <1>8, <1>10
<1> QED
  BY <1>3, <1>12, <1>16, <1>17, <1>18, <1>19, Zenon

-----------------------------------------------------------------------------
(* Counting *)

LEMMA OneToOne ==
  ASSUME NEW S, NEW T, NEW f \in [S -> T], IsFiniteSet(S),
         \A x, y \in S : f[x] = f[y] => x = y, \A z \in T : \E x \in S : f[x] = z
  PROVE  IsFiniteSet(T) /\ Cardinality(T) = Cardinality(S)
<1>1. f \in Bijection(S, T)
  BY DEF Bijection, Injection, Surjection, IsInjective
<1>2. ExistsBijection(S, T)
  BY <1>1 DEF ExistsBijection
<1> QED
  BY <1>2, FS_Bijection

LEMMA RangeFinite ==
  ASSUME NEW S, IsFiniteSet(S), NEW f
  PROVE  IsFiniteSet({f[x] : x \in S})
<1> DEFINE T == {f[x] : x \in S}
           g == [x \in S |-> f[x]]
<1>1. g \in Surjection(S, T)
  BY DEF Surjection
<1> HIDE DEF g, T
<1>2. IsFiniteSet(T)
  BY <1>1, FS_Surjection
<1> QED
  BY <1>2 DEF T

\* A text has as many prefixes beyond a length as it is longer.
LEMMA PrefixCount ==
  ASSUME NEW T, NEW key \in Seq(T), NEW l \in 0..Len(key)
  PROVE  /\ IsFiniteSet({q \in PrefixesOf(key) : Len(q) > l})
         /\ Cardinality({q \in PrefixesOf(key) : Len(q) > l}) = Len(key) - l
<1> DEFINE I == (l+1)..Len(key)
           Q == {q \in PrefixesOf(key) : Len(q) > l}
           f == [i \in I |-> FirstN(key, i)]
<1>1. Len(key) \in Nat /\ l \in Nat
  OBVIOUS
<1>2. \A i \in I : i \in 1..Len(key) /\ i \in 0..Len(key) /\ i > l
  BY <1>1
<1>3. \A i \in I : Len(FirstN(key, i)) = i /\ FirstN(key, i) \in PrefixesOf(key)
  BY <1>2, FirstNFacts DEF PrefixesOf
<1>4. f \in [I -> Q] /\ \A i, j \in I : f[i] = f[j] => i = j
  BY <1>2, <1>3
<1>5. ASSUME NEW q \in Q PROVE \E i \in I : f[i] = q
  <2>1. Len(q) \in 1..Len(key) /\ q = FirstN(key, Len(q)) /\ Len(q) > l
    BY PrefixesFacts
  <2>2. Len(q) \in I
    BY <1>1, <2>1
  <2> QED
    BY <2>1, <2>2
<1>6. IsFiniteSet(I) /\ Cardinality(I) = Len(key) - l
  <2>1. l+1 \in Int /\ Len(key) \in Int
    BY <1>1
  <2>2. IsFiniteSet(I) /\ Cardinality(I) = IF l+1 > Len(key) THEN 0 ELSE Len(key) - (l+1) + 1
    BY <2>1, FS_Interval
  <2> QED
    BY <1>1, <2>2
<1> HIDE DEF I, Q, f
<1>7. IsFiniteSet(Q) /\ Cardinality(Q) = Cardinality(I)
  BY <1>4, <1>5, <1>6, OneToOne
<1> QED
  BY <1>6, <1>7 DEF Q

-----------------------------------------------------------------------------
(* The tokens on the edges *)

\* A token is on the edge above the first node of its path that has it.
LEMMA EdgeFacts ==
  ASSUME NEW t, NodesOK(t.nodes)
  PROVE  /\ \A n \in t.nodes : EdgeTokens(t, n) =
              {q \in Seq(Token) \ {Root} : /\ IsPrefix(q, n)
                                           /\ \A m \in t.nodes : IsPrefix(m, n) /\ m # n => ~IsPrefix(q, m)}
         /\ \A m, n \in t.nodes : m # n => EdgeTokens(t, m) \cap EdgeTokens(t, n) = {}
         /\ \A n \in t.nodes : IsFiniteSet(EdgeTokens(t, n))
         /\ \A n \in t.nodes \ {Root} : Cardinality(EdgeTokens(t, n)) = Len(n) - Len(ParentOf(t, n))
<1> DEFINE N == t.nodes
           Above(n) == {q \in Seq(Token) \ {Root} :
                          /\ IsPrefix(q, n)
                          /\ \A m \in N : IsPrefix(m, n) /\ m # n => ~IsPrefix(q, m)}
<1>1. N \subseteq Seq(Token) /\ Root \in Seq(Token) /\ \A n \in Seq(Token) : Len(n) \in Nat
  BY DEF NodesOK
<1>2. \A n \in N : PrefixesOf(n) = {q \in Seq(Token) \ {Root} : IsPrefix(q, n)}
  BY <1>1, PrefixesFacts
<1>3. ASSUME NEW n \in N PROVE EdgeTokens(t, n) = Above(n)
  <2>1. CASE n = Root
    <3>1. PrefixesOf(Root) = {}
      <4>1. \A q \in PrefixesOf(Root) : Len(q) \in 1..Len(Root)
        BY <1>1, PrefixesFacts
      <4>2. Len(Root) = 0
        BY DEF Root
      <4> QED
        BY <4>1, <4>2
    <3>2. EdgeTokens(t, n) = {}
      BY <2>1, <3>1 DEF EdgeTokens
    <3>3. Above(n) \subseteq PrefixesOf(n)
      BY <1>2
    <3> QED
      BY <2>1, <3>1, <3>2, <3>3
  <2>2. CASE n # Root
    <3>1. PICK p : p = ParentOf(t, n)
      OBVIOUS
    <3>2. /\ p \in N /\ p \in Seq(Token) /\ IsPrefix(p, n) /\ p # n
          /\ \A m \in N : IsPrefix(m, n) /\ m # n => IsPrefix(m, p)
      BY <2>2, <3>1, ParentFacts
    <3>3. ASSUME NEW q \in Seq(Token), IsPrefix(q, n)
          PROVE  Len(q) > Len(p) <=> \A m \in N : IsPrefix(m, n) /\ m # n => ~IsPrefix(q, m)
      <4>0. n \in Seq(Token) /\ Len(q) \in Nat /\ Len(p) \in Nat
        BY <1>1, <3>2
      <4>1. Len(q) > Len(p) <=> ~IsPrefix(q, p)
        <5>1. IsPrefix(q, p) => Len(q) <= Len(p)
          BY <3>2, PrefixOrder
        <5>2. Len(q) <= Len(p) => IsPrefix(q, p)
          BY <3>2, <3>3, <4>0, PrefixOrder
        <5> QED
          BY <4>0, <5>1, <5>2
      <4>2. ASSUME NEW m \in N, IsPrefix(m, n), m # n, IsPrefix(q, m) PROVE IsPrefix(q, p)
        <5>1. IsPrefix(m, p) /\ m \in Seq(Token)
          BY <1>1, <3>2, <4>2
        <5> QED
          BY <3>2, <4>2, <5>1, PrefixOrder
      <4> QED
        BY <3>2, <4>1, <4>2
    <3> QED
      BY <1>2, <3>1, <3>3 DEF EdgeTokens
  <2> QED
    BY <2>1, <2>2
<1>4. ASSUME NEW m \in N, NEW n \in N, m # n PROVE EdgeTokens(t, m) \cap EdgeTokens(t, n) = {}
  <2> SUFFICES ASSUME NEW q \in Above(m), q \in Above(n) PROVE FALSE
    BY <1>3
  <2>1. PICK k \in N : IsPrefix(q, k) /\ IsPrefix(k, m) /\ IsPrefix(k, n)
    BY DEF NodesOK, Forks
  <2>2. k = m /\ k = n
    BY <2>1
  <2> QED
    BY <1>4, <2>2
<1>5. ASSUME NEW n \in N \ {Root}
      PROVE  IsFiniteSet(EdgeTokens(t, n)) /\ Cardinality(EdgeTokens(t, n)) = Len(n) - Len(ParentOf(t, n))
  <2>1. PICK p : p = ParentOf(t, n)
    OBVIOUS
  <2>2. p \in Seq(Token) /\ Len(p) < Len(n) /\ n \in Seq(Token)
    BY <1>1, <2>1, ParentFacts
  <2>3. Len(p) \in 0..Len(n)
    BY <1>1, <2>2
  <2>4. EdgeTokens(t, n) = {q \in PrefixesOf(n) : Len(q) > Len(p)}
    BY <2>1 DEF EdgeTokens
  <2> QED
    BY <2>1, <2>2, <2>3, <2>4, PrefixCount
<1>6. IsFiniteSet(EdgeTokens(t, Root))
  <2>1. EdgeTokens(t, Root) = {}
    <3>1. Root \in N
      BY DEF NodesOK
    <3>2. ASSUME NEW q \in Seq(Token) \ {Root}, IsPrefix(q, Root) PROVE FALSE
      <4>1. Len(q) <= Len(Root) /\ IsPrefix(Root, q)
        BY <1>1, <3>2, PrefixOrder
      <4> QED
        BY <1>1, <3>2, <4>1, PrefixOrder
    <3> QED
      BY <1>3, <3>1, <3>2
  <2> QED
    BY <2>1, FS_EmptySet
<1> QED
  BY <1>3, <1>4, <1>5, <1>6

\* The tokens on the edges of a set of nodes.
EdgesOf(t, S) == UNION {EdgeTokens(t, n) : n \in S}

LEMMA EdgesFacts ==
  ASSUME NEW t, NodesOK(t.nodes)
  PROVE  /\ \A S \in SUBSET t.nodes : /\ IsFiniteSet(EdgesOf(t, S))
                                      /\ TokensOf(t, S) = Cardinality(EdgesOf(t, S))
                                      /\ TokensOf(t, S) \in Nat
         /\ \A R, S \in SUBSET t.nodes : R \cap S = {} =>
              TokensOf(t, R \cup S) = TokensOf(t, R) + TokensOf(t, S)
         /\ \A R, S \in SUBSET t.nodes : R \subseteq S =>
              TokensOf(t, S \ R) = TokensOf(t, S) - TokensOf(t, R)
<1>1. ASSUME NEW S \in SUBSET t.nodes
      PROVE  /\ IsFiniteSet(EdgesOf(t, S)) /\ TokensOf(t, S) = Cardinality(EdgesOf(t, S))
             /\ TokensOf(t, S) \in Nat
  <2> DEFINE f == [n \in S |-> EdgeTokens(t, n)]
  <2>1. IsFiniteSet(S)
    BY FS_Subset DEF NodesOK
  <2>2. IsFiniteSet({f[n] : n \in S})
    <3> HIDE DEF f
    <3> QED
      BY <2>1, RangeFinite
  <2>3. {f[n] : n \in S} = {EdgeTokens(t, n) : n \in S}
    OBVIOUS
  <2>4. \A e \in {EdgeTokens(t, n) : n \in S} : IsFiniteSet(e)
    BY EdgeFacts
  <2>5. IsFiniteSet(EdgesOf(t, S))
    BY <2>2, <2>3, <2>4, FS_UNION DEF EdgesOf
  <2> QED
    BY <2>5, FS_CardinalityType DEF TokensOf, EdgesOf
<1>2. ASSUME NEW R \in SUBSET t.nodes, NEW S \in SUBSET t.nodes, R \cap S = {}
      PROVE  TokensOf(t, R \cup S) = TokensOf(t, R) + TokensOf(t, S)
  <2>1. EdgesOf(t, R) \cap EdgesOf(t, S) = {}
    BY <1>2, EdgeFacts DEF EdgesOf
  <2>2. EdgesOf(t, R \cup S) = EdgesOf(t, R) \cup EdgesOf(t, S)
    BY DEF EdgesOf
  <2>3. R \cup S \in SUBSET t.nodes
    OBVIOUS
  <2>4. IsFiniteSet(EdgesOf(t, R)) /\ IsFiniteSet(EdgesOf(t, S))
    BY <1>1
  <2>5. Cardinality(EdgesOf(t, R \cup S)) = Cardinality(EdgesOf(t, R)) + Cardinality(EdgesOf(t, S))
    BY <2>1, <2>2, <2>4, CardDisjoint
  <2> QED
    BY <1>1, <2>3, <2>5
<1>3. ASSUME NEW R \in SUBSET t.nodes, NEW S \in SUBSET t.nodes, R \subseteq S
      PROVE  TokensOf(t, S \ R) = TokensOf(t, S) - TokensOf(t, R)
  <2>1. PICK Q \in SUBSET t.nodes : Q = S \ R
    OBVIOUS
  <2>2. Q \cap R = {} /\ Q \cup R = S
    BY <1>3, <2>1
  <2>3. TokensOf(t, S) = TokensOf(t, Q) + TokensOf(t, R)
    BY <1>2, <2>2
  <2>4. TokensOf(t, Q) \in Nat /\ TokensOf(t, R) \in Nat
    BY <1>1
  <2> QED
    BY <2>1, <2>3, <2>4
<1> QED
  BY <1>1, <1>2, <1>3

-----------------------------------------------------------------------------
(* References and counters, for the nodes that requests hold *)

HoldersOf(hold, n) == {r \in Req : hold[r] # NoNode /\ IsPrefix(n, hold[r])}
RefsOK(t, hold) ==
  \A n \in t.nodes :
    t.ref_counter[n] = (IF n = Root THEN 1 ELSE 0) + Cardinality(HoldersOf(hold, n))
Referenced(t) == {n \in t.nodes : t.ref_counter[n] > 0}
CountersOK(t) ==
  /\ t.refed_tokens_num = TokensOf(t, Referenced(t))
  /\ t.tree_total_tokens_num = TokensOf(t, t.nodes)

\* A split divides one edge and leaves the others.
LEMMA SplitEdges ==
  ASSUME NEW t, NodesOK(t.nodes), NEW c, NEW p, OnEdge(t, c, p),
         NEW u, u.nodes = t.nodes \cup {p}, NodesOK(u.nodes)
  PROVE  /\ \A n \in t.nodes \ {c} : EdgeTokens(u, n) = EdgeTokens(t, n)
         /\ EdgeTokens(u, p) \cup EdgeTokens(u, c) = EdgeTokens(t, c)
<1> DEFINE N == t.nodes
           O == u.nodes
<1>1. /\ N \subseteq Seq(Token) /\ p \in Seq(Token) /\ c \in N /\ c \in Seq(Token) /\ c # Root
      /\ IsPrefix(p, c) /\ p # c /\ p \notin N /\ O = N \cup {p}
  BY DEF OnEdge, NodesOK
<1>2. \A n \in O : EdgeTokens(u, n) =
        {q \in Seq(Token) \ {Root} : /\ IsPrefix(q, n)
                                     /\ \A m \in O : IsPrefix(m, n) /\ m # n => ~IsPrefix(q, m)}
  BY EdgeFacts
<1>3. \A n \in N : EdgeTokens(t, n) =
        {q \in Seq(Token) \ {Root} : /\ IsPrefix(q, n)
                                     /\ \A m \in N : IsPrefix(m, n) /\ m # n => ~IsPrefix(q, m)}
  BY EdgeFacts
<1>4. ASSUME NEW n \in N \ {c} PROVE EdgeTokens(u, n) = EdgeTokens(t, n)
  <2>1. n \in O /\ n \in N
    BY <1>1
  <2>2. ASSUME NEW q \in Seq(Token), \A m \in N : IsPrefix(m, n) /\ m # n => ~IsPrefix(q, m),
               IsPrefix(p, n), IsPrefix(q, p)
        PROVE  FALSE
    <3>1. IsPrefix(c, n)
      BY <2>1, <2>2, BeyondEdge
    <3>2. IsPrefix(q, c)
      BY <1>1, <2>2, PrefixOrder
    <3> QED
      BY <1>1, <2>2, <3>1, <3>2
  <2>3. ASSUME NEW q \in EdgeTokens(t, n) PROVE q \in EdgeTokens(u, n)
    <3>1. /\ q \in Seq(Token) \ {Root} /\ IsPrefix(q, n)
          /\ \A m \in N : IsPrefix(m, n) /\ m # n => ~IsPrefix(q, m)
      BY <1>3, <2>1, <2>3
    <3>2. \A m \in O : IsPrefix(m, n) /\ m # n => ~IsPrefix(q, m)
      BY <1>1, <2>2, <3>1
    <3> QED
      BY <1>2, <2>1, <3>1, <3>2
  <2>4. ASSUME NEW q \in EdgeTokens(u, n) PROVE q \in EdgeTokens(t, n)
    <3>1. /\ q \in Seq(Token) \ {Root} /\ IsPrefix(q, n)
          /\ \A m \in O : IsPrefix(m, n) /\ m # n => ~IsPrefix(q, m)
      BY <1>2, <2>1, <2>4
    <3> QED
      BY <1>1, <1>3, <2>1, <3>1
  <2> QED
    BY <2>3, <2>4
<1>5. ASSUME NEW m \in N, IsPrefix(m, c), m # c PROVE IsPrefix(m, p)
  <2>1. IsPrefix(m, ParentOf(t, c)) /\ ParentOf(t, c) \in Seq(Token)
    BY <1>1, <1>5, ParentFacts
  <2> QED
    BY <1>1, <2>1, PrefixOrder DEF OnEdge
<1>6. ASSUME NEW m \in N, IsPrefix(m, p) PROVE IsPrefix(m, c) /\ m # c
  <2>1. IsPrefix(m, c)
    BY <1>1, <1>6, PrefixOrder
  <2>2. m # c
    <3> SUFFICES ASSUME m = c PROVE FALSE
      OBVIOUS
    <3>1. Len(c) <= Len(p)
      BY <1>1, <1>6, PrefixOrder
    <3> QED
      BY <1>1, <3>1, PrefixOrder
  <2> QED
    BY <2>1, <2>2
<1>7. p \in O /\ c \in O
  BY <1>1
<1>8. ASSUME NEW q \in EdgeTokens(u, p) PROVE q \in EdgeTokens(t, c)
  <2>1. q \in Seq(Token) \ {Root} /\ IsPrefix(q, p)
        /\ \A m \in N : IsPrefix(m, p) => ~IsPrefix(q, m)
    BY <1>1, <1>2, <1>7, <1>8
  <2>2. IsPrefix(q, c)
    BY <1>1, <2>1, PrefixOrder
  <2> QED
    BY <1>1, <1>3, <1>5, <2>1, <2>2
<1>9. ASSUME NEW q \in EdgeTokens(u, c) PROVE q \in EdgeTokens(t, c)
  BY <1>1, <1>2, <1>3, <1>7, <1>9
<1>10. ASSUME NEW q \in EdgeTokens(t, c) PROVE q \in EdgeTokens(u, p) \cup EdgeTokens(u, c)
  <2>1. q \in Seq(Token) \ {Root} /\ IsPrefix(q, c)
        /\ \A m \in N : IsPrefix(m, c) /\ m # c => ~IsPrefix(q, m)
    BY <1>1, <1>3, <1>10
  <2>2. CASE IsPrefix(q, p)
    <3>1. \A m \in O : IsPrefix(m, p) /\ m # p => ~IsPrefix(q, m)
      BY <1>1, <1>6, <2>1
    <3> QED
      BY <1>2, <1>7, <2>1, <2>2, <3>1
  <2>3. CASE ~IsPrefix(q, p)
    BY <1>1, <1>2, <1>7, <2>1, <2>3
  <2> QED
    BY <2>2, <2>3
<1> QED
  BY <1>4, <1>8, <1>9, <1>10

LEMMA SplitRefs ==
  ASSUME NEW t, TreeOK(t), NEW c, NEW p, OnEdge(t, c, p), NEW u, u = SplitNode(t, c, p),
         NEW hold \in [Req -> t.nodes], RefsOK(t, hold)
  PROVE  hold \in [Req -> u.nodes] /\ RefsOK(u, hold)
<1>1. /\ u.nodes = t.nodes \cup {p} /\ u.ref_counter[p] = t.ref_counter[c]
      /\ \A m \in t.nodes : u.ref_counter[m] = t.ref_counter[m]
  BY SplitFacts
<1>2. /\ c \in t.nodes /\ c # Root /\ p \in Seq(Token) /\ c \in Seq(Token) /\ p \notin t.nodes
      /\ NodesOK(t.nodes) /\ t.nodes \subseteq Seq(Token) /\ IsPrefix(p, c) /\ Root \in t.nodes
  BY DEF OnEdge, TreeOK, NodesOK
<1>3. HoldersOf(hold, p) = HoldersOf(hold, c)
  <2>1. ASSUME NEW r \in Req, IsPrefix(p, hold[r]) PROVE IsPrefix(c, hold[r])
    <3>1. hold[r] \in t.nodes
      OBVIOUS
    <3> QED
      BY <1>2, <2>1, <3>1, BeyondEdge
  <2>2. ASSUME NEW r \in Req, IsPrefix(c, hold[r]) PROVE IsPrefix(p, hold[r])
    <3>1. hold[r] \in Seq(Token)
      BY <1>2
    <3> QED
      BY <1>2, <2>2, <3>1, PrefixOrder
  <2> QED
    BY <2>1, <2>2 DEF HoldersOf
<1>4. \A n \in u.nodes :
        u.ref_counter[n] = (IF n = Root THEN 1 ELSE 0) + Cardinality(HoldersOf(hold, n))
  BY <1>1, <1>2, <1>3 DEF RefsOK
<1>5. hold \in [Req -> u.nodes]
  BY <1>1
<1> QED
  BY <1>4, <1>5 DEF RefsOK

LEMMA SplitCounters ==
  ASSUME NEW t, TreeOK(t), NEW c, NEW p, OnEdge(t, c, p), NEW u, u = SplitNode(t, c, p),
         CountersOK(t)
  PROVE  CountersOK(u)
<1>1. /\ u.nodes = t.nodes \cup {p} /\ u.ref_counter[p] = t.ref_counter[c]
      /\ \A m \in t.nodes : u.ref_counter[m] = t.ref_counter[m]
      /\ u.refed_tokens_num = t.refed_tokens_num
      /\ u.tree_total_tokens_num = t.tree_total_tokens_num /\ NodesOK(u.nodes)
  <2>1. TreeOK(u)
    BY SplitFacts
  <2> QED
    BY <2>1, SplitFacts DEF TreeOK
<1>2. NodesOK(t.nodes) /\ c \in t.nodes /\ p \notin t.nodes
  BY DEF TreeOK, OnEdge
<1>3. /\ \A n \in t.nodes \ {c} : EdgeTokens(u, n) = EdgeTokens(t, n)
      /\ EdgeTokens(u, p) \cup EdgeTokens(u, c) = EdgeTokens(t, c)
  <2>1. NodesOK(t.nodes) /\ u.nodes = t.nodes \cup {p} /\ NodesOK(u.nodes)
    BY <1>1, <1>2
  <2> QED
    BY <2>1, SplitEdges
<1>4. EdgesOf(u, u.nodes) = EdgesOf(t, t.nodes)
  BY <1>1, <1>2, <1>3 DEF EdgesOf
<1>5. EdgesOf(u, Referenced(u)) = EdgesOf(t, Referenced(t))
  <2>1. \A n \in t.nodes : n \in Referenced(u) <=> n \in Referenced(t)
    BY <1>1 DEF Referenced
  <2>2. p \in Referenced(u) <=> c \in Referenced(t)
    BY <1>1, <1>2 DEF Referenced
  <2>3. Referenced(u) \subseteq t.nodes \cup {p} /\ Referenced(t) \subseteq t.nodes
    BY <1>1 DEF Referenced
  <2> HIDE DEF Referenced
  <2> QED
    BY <1>2, <1>3, <2>1, <2>2, <2>3 DEF EdgesOf
<1> QED
  BY <1>1, <1>4, <1>5 DEF CountersOK, TokensOf, EdgesOf

LEMMA AddRefs0 ==
  ASSUME NEW t, TreeOK(t), NEW key \in Seq(Token), MatchLen(t, key) # Len(key),
         NEW p \in t.nodes, p = FirstN(key, MatchLen(t, key)), NEW value,
         NEW u, u = AddChild(t, p, key, value),
         NEW hold \in [Req -> t.nodes], RefsOK(t, hold)
  PROVE  hold \in [Req -> u.nodes] /\ RefsOK(u, hold)
<1>1. /\ key \notin t.nodes /\ ~Inside(t.nodes, key) /\ u.nodes = t.nodes \cup {key}
      /\ u.ref_counter[key] = 0 /\ \A m \in t.nodes : u.ref_counter[m] = t.ref_counter[m]
  BY AddChildFacts
<1>2. HoldersOf(hold, key) = {}
  BY <1>1 DEF HoldersOf, Inside
<1>3. Root \in t.nodes /\ key # Root
  BY <1>1 DEF TreeOK, NodesOK
<1>4. \A n \in u.nodes :
        u.ref_counter[n] = (IF n = Root THEN 1 ELSE 0) + Cardinality(HoldersOf(hold, n))
  <2>1. Cardinality(HoldersOf(hold, key)) = 0
    BY <1>2, FS_EmptySet
  <2> QED
    BY <1>1, <1>3, <2>1 DEF RefsOK
<1> QED
  BY <1>1, <1>4 DEF RefsOK

\* A new leaf has the texts it brings on its edge and leaves the other edges.
\* The edge of a new leaf is the new texts of its key, the others stay.
AddedEdge(t, u, key) ==
  /\ \A n \in t.nodes : EdgeTokens(u, n) = EdgeTokens(t, n)
  /\ EdgeTokens(u, key) = NewTexts(t, key)

LEMMA AddEdges ==
  ASSUME NEW t, NodesOK(t.nodes), KeepsInside(t), NEW key \in Seq(Token),
         MatchLen(t, key) # Len(key), NEW p \in t.nodes, p = FirstN(key, MatchLen(t, key)),
         ~Inside(t.nodes, key), NEW u, u.nodes = t.nodes \cup {key}, NodesOK(u.nodes)
  PROVE  AddedEdge(t, u, key)
<1> DEFINE N == t.nodes
           O == u.nodes
<1>1. N \subseteq Seq(Token) /\ O = N \cup {key} /\ key \in O /\ p \in Seq(Token)
  BY DEF NodesOK
<1>2. \A n \in O : EdgeTokens(u, n) =
        {q \in Seq(Token) \ {Root} : /\ IsPrefix(q, n)
                                     /\ \A m \in O : IsPrefix(m, n) /\ m # n => ~IsPrefix(q, m)}
  BY EdgeFacts
<1>3. \A n \in N : EdgeTokens(t, n) =
        {q \in Seq(Token) \ {Root} : /\ IsPrefix(q, n)
                                     /\ \A m \in N : IsPrefix(m, n) /\ m # n => ~IsPrefix(q, m)}
  BY EdgeFacts
<1>4. \A n \in N : ~IsPrefix(key, n)
  BY DEF Inside
<1>5. ASSUME NEW n \in N PROVE EdgeTokens(u, n) = EdgeTokens(t, n)
  <2>1. n \in O
    BY <1>1
  <2>2. \A q \in Seq(Token) :
          (\A m \in O : IsPrefix(m, n) /\ m # n => ~IsPrefix(q, m))
            <=> (\A m \in N : IsPrefix(m, n) /\ m # n => ~IsPrefix(q, m))
    BY <1>1, <1>4
  <2>3. EdgeTokens(u, n) =
        {q \in Seq(Token) \ {Root} : /\ IsPrefix(q, n)
                                     /\ \A m \in O : IsPrefix(m, n) /\ m # n => ~IsPrefix(q, m)}
    BY <1>2, <2>1
  <2>4. EdgeTokens(t, n) =
        {q \in Seq(Token) \ {Root} : /\ IsPrefix(q, n)
                                     /\ \A m \in N : IsPrefix(m, n) /\ m # n => ~IsPrefix(q, m)}
    BY <1>3
  <2> HIDE DEF N, O
  <2> QED
    BY <2>2, <2>3, <2>4
<1>6. NewTexts(t, key) = {q \in Seq(Token) \ {Root} : IsPrefix(q, key) /\ ~Inside(N, q)}
  BY NewTextsFacts
<1>7. IsPrefix(p, key) /\ p # key
  <2>1. MatchLen(t, key) \in 0..Len(key)
    BY MatchLenFacts
  <2> QED
    BY <2>1, FirstNFacts
<1>8. ASSUME NEW q \in NewTexts(t, key) PROVE q \in EdgeTokens(u, key)
  <2>1. q \in Seq(Token) \ {Root} /\ IsPrefix(q, key) /\ \A m \in N : ~IsPrefix(q, m)
    BY <1>6, <1>8 DEF Inside
  <2> QED
    BY <1>1, <1>2, <2>1
<1>9. ASSUME NEW q \in EdgeTokens(u, key) PROVE q \in NewTexts(t, key)
  <2>1. q \in Seq(Token) \ {Root} /\ IsPrefix(q, key) /\ ~IsPrefix(q, p)
    BY <1>1, <1>2, <1>7, <1>9
  <2>2. ~Inside(N, q)
    <3>1. PICK M : M = MatchLen(t, key)
      OBVIOUS
    <3>2. M \in 0..Len(key) /\ \A i \in 0..Len(key) : Inside(N, FirstN(key, i)) <=> i <= M
      BY <3>1, MatchLenFacts
    <3>3. Len(q) <= Len(key) /\ q = FirstN(key, Len(q)) /\ Len(q) \in Nat /\ Len(key) \in Nat
      BY <2>1, FirstNFacts
    <3>4. Len(q) \in 0..Len(key)
      BY <3>3
    <3>5. Len(p) = M
      BY <3>1, <3>2, FirstNFacts
    <3>6. ~(Len(q) <= M)
      BY <1>1, <1>7, <2>1, <3>5, PrefixOrder
    <3> QED
      BY <3>2, <3>3, <3>4, <3>6
  <2> QED
    BY <1>6, <2>1, <2>2
<1> QED
  BY <1>5, <1>8, <1>9 DEF AddedEdge

LEMMA AddCounters ==
  ASSUME NEW t, TreeOK(t), NEW key \in Seq(Token), MatchLen(t, key) # Len(key),
         NEW p \in t.nodes, p = FirstN(key, MatchLen(t, key)), NEW value,
         NEW u, u = AddChild(t, p, key, value), CountersOK(t)
  PROVE  CountersOK(u)
<1>1. /\ key \notin t.nodes /\ ~Inside(t.nodes, key) /\ u.nodes = t.nodes \cup {key}
      /\ u.ref_counter[key] = 0 /\ \A m \in t.nodes : u.ref_counter[m] = t.ref_counter[m]
      /\ u.refed_tokens_num = t.refed_tokens_num
      /\ u.tree_total_tokens_num = t.tree_total_tokens_num + Cardinality(NewTexts(t, key))
      /\ TreeOK(u)
  BY AddChildFacts
<1>2. NodesOK(t.nodes) /\ KeepsInside(t) /\ NodesOK(u.nodes)
  BY <1>1 DEF TreeOK
<1>3. /\ \A n \in t.nodes : EdgeTokens(u, n) = EdgeTokens(t, n)
      /\ EdgeTokens(u, key) = NewTexts(t, key)
  <2>1. ~Inside(t.nodes, key) /\ u.nodes = t.nodes \cup {key}
    BY <1>1
  <2>2. AddedEdge(t, u, key)
    BY <2>1, <1>2, AddEdges
  <2> QED
    BY <2>2 DEF AddedEdge
<1>4. \A S \in SUBSET t.nodes : EdgesOf(u, S) = EdgesOf(t, S)
  BY <1>3 DEF EdgesOf
<1>5. \A S \in SUBSET t.nodes : TokensOf(u, S) = TokensOf(t, S)
  BY <1>4 DEF TokensOf, EdgesOf
<1>6. Referenced(u) = Referenced(t) /\ Referenced(t) \in SUBSET t.nodes
  BY <1>1 DEF Referenced
<1>7. TokensOf(u, u.nodes) = TokensOf(u, t.nodes) + TokensOf(u, {key})
  <2>1. PICK R \in SUBSET u.nodes, S \in SUBSET u.nodes : R = t.nodes /\ S = {key}
    BY <1>1
  <2>2. R \cap S = {} /\ u.nodes = R \cup S
    BY <1>1, <2>1
  <2>4. \A A, B \in SUBSET u.nodes : A \cap B = {} =>
          TokensOf(u, A \cup B) = TokensOf(u, A) + TokensOf(u, B)
    <3>1. NodesOK(u.nodes)
      BY <1>2
    <3> QED
      BY <3>1, EdgesFacts
  <2>3. TokensOf(u, R \cup S) = TokensOf(u, R) + TokensOf(u, S)
    BY <2>2, <2>4
  <2> QED
    BY <2>1, <2>2, <2>3
<1>8. TokensOf(u, {key}) = Cardinality(NewTexts(t, key))
  <2>1. UNION {EdgeTokens(u, n) : n \in {key}} = NewTexts(t, key)
    BY <1>3
  <2> QED
    BY <2>1 DEF TokensOf
<1> QED
  BY <1>1, <1>5, <1>6, <1>7, <1>8 DEF CountersOK

\* Times and the eviction order are all that differs.
LEMMA SameAccount ==
  ASSUME NEW t, NEW u, SameTree(t, u)
  PROVE  /\ \A hold : RefsOK(t, hold) => RefsOK(u, hold)
         /\ CountersOK(t) => CountersOK(u)
<1>1. u.nodes = t.nodes /\ u.ref_counter = t.ref_counter
      /\ u.refed_tokens_num = t.refed_tokens_num
      /\ u.tree_total_tokens_num = t.tree_total_tokens_num
  BY DEF SameTree
<1>2. \A n : EdgeTokens(u, n) = EdgeTokens(t, n)
  BY <1>1 DEF EdgeTokens, ParentOf
<1>3. \A S : TokensOf(u, S) = TokensOf(t, S)
  BY <1>2 DEF TokensOf
<1>4. Referenced(u) = Referenced(t)
  BY <1>1 DEF Referenced
<1>5. CountersOK(t) => CountersOK(u)
  BY <1>1, <1>3, <1>4 DEF CountersOK
<1>6. ASSUME NEW hold, RefsOK(t, hold) PROVE RefsOK(u, hold)
  BY <1>1, <1>6 DEF RefsOK
<1> QED
  BY <1>5, <1>6

LEMMA RetimeFacts ==
  ASSUME NEW t, TreeOK(t), NEW path, NEW u, u = UpdateTime(t, path)
  PROVE  TreeOK(u) /\ SameTree(t, u)
<1>1. u = [t EXCEPT !.time_id = [n \in t.nodes |->
               IF n \in path THEN t.clock + Cardinality({m \in path : Len(m) >= Len(n)})
               ELSE t.time_id[n]],
            !.clock = t.clock + Cardinality(path)]
  BY DEF UpdateTime
<1>2. IsTree(t)
  BY DEF TreeOK
<1>3. IsTree(u) /\ SameTree(t, u) /\ DOMAIN u.time_id = t.nodes
  BY <1>1, <1>2 DEF IsTree, SameTree
<1> QED
  BY <1>3 DEF TreeOK, SameTree, KeepsInside

LEMMA RekeyFacts ==
  ASSUME NEW t, TreeOK(t), NEW before, NEW visited, NEW u, u = Rekey(before, t, visited)
  PROVE  TreeOK(u) /\ SameTree(t, u)
<1>1. \E E : u = [t EXCEPT !.evict_tree_set = E]
  BY DEF Rekey
<1>2. PICK E : u = [t EXCEPT !.evict_tree_set = E]
  BY <1>1
<1>3. IsTree(t)
  BY DEF TreeOK
<1>4. IsTree(u) /\ SameTree(t, u) /\ u.time_id = t.time_id
  BY <1>2, <1>3 DEF IsTree, SameTree
<1> QED
  BY <1>4 DEF TreeOK, SameTree, KeepsInside

-----------------------------------------------------------------------------
(* insert and match_prefix *)

\* What a growing tree keeps: shape, entries, and the account of references.
Grows(t, u) ==
  /\ TreeOK(u) /\ t.nodes \subseteq u.nodes
  /\ \A hold \in [Req -> t.nodes] : RefsOK(t, hold) => RefsOK(u, hold)
  /\ CountersOK(t) => CountersOK(u)

LEMMA SplitGrows ==
  ASSUME NEW t, TreeOK(t), NEW c, NEW p, OnEdge(t, c, p), NEW u, u = SplitNode(t, c, p)
  PROVE  Grows(t, u)
<1>1. TreeOK(u) /\ t.nodes \subseteq u.nodes
  <2>1. TreeOK(u) /\ u.nodes = t.nodes \cup {p}
    BY SplitFacts
  <2> QED
    BY <2>1
<1>2. ASSUME NEW hold \in [Req -> t.nodes], RefsOK(t, hold) PROVE RefsOK(u, hold)
  BY <1>2, SplitRefs
<1>3. CountersOK(t) => CountersOK(u)
  BY SplitCounters
<1> QED
  BY <1>1, <1>2, <1>3 DEF Grows

LEMMA AddGrows ==
  ASSUME NEW t, TreeOK(t), NEW key \in Seq(Token), MatchLen(t, key) # Len(key),
         NEW p \in t.nodes, p = FirstN(key, MatchLen(t, key)), NEW value,
         NEW u, u = AddChild(t, p, key, value)
  PROVE  Grows(t, u)
<1>1. TreeOK(u) /\ t.nodes \subseteq u.nodes
  <2>1. TreeOK(u) /\ u.nodes = t.nodes \cup {key}
    BY AddChildFacts
  <2> QED
    BY <2>1
<1>2. ASSUME NEW hold \in [Req -> t.nodes], RefsOK(t, hold) PROVE RefsOK(u, hold)
  BY <1>2, AddRefs0
<1>3. CountersOK(t) => CountersOK(u)
  BY AddCounters
<1> QED
  BY <1>1, <1>2, <1>3 DEF Grows

LEMMA SameGrows ==
  ASSUME NEW t, NEW u, TreeOK(u), SameTree(t, u)
  PROVE  Grows(t, u)
<1>1. t.nodes \subseteq u.nodes
  BY DEF SameTree
<1>2. (\A hold : RefsOK(t, hold) => RefsOK(u, hold)) /\ (CountersOK(t) => CountersOK(u))
  BY SameAccount
<1> QED
  BY <1>1, <1>2 DEF Grows

LEMMA GrowsTwice ==
  ASSUME NEW t, NEW u, NEW v, Grows(t, u), Grows(u, v)
  PROVE  Grows(t, v)
<1>1. t.nodes \subseteq u.nodes /\ u.nodes \subseteq v.nodes /\ TreeOK(v)
  BY DEF Grows
<1>2. ASSUME NEW hold \in [Req -> t.nodes], RefsOK(t, hold) PROVE RefsOK(v, hold)
  <2>1. hold \in [Req -> u.nodes]
    BY <1>1
  <2>2. RefsOK(u, hold)
    BY <1>2 DEF Grows
  <2> QED
    BY <2>1, <2>2 DEF Grows
<1>3. CountersOK(t) => CountersOK(v)
  BY DEF Grows
<1> QED
  BY <1>1, <1>2, <1>3 DEF Grows

\* Times and eviction order are updated last.
LEMMA FinishFacts ==
  ASSUME NEW before, NEW t, TreeOK(t), NEW path, NEW visited,
         NEW u, u = Rekey(before, UpdateTime(t, path), visited)
  PROVE  TreeOK(u) /\ SameTree(t, u)
<1>1. PICK v : v = UpdateTime(t, path)
  OBVIOUS
<1>2. TreeOK(v) /\ SameTree(t, v)
  BY <1>1, RetimeFacts
<1>3. TreeOK(u) /\ SameTree(v, u)
  BY <1>1, <1>2, RekeyFacts
<1> QED
  BY <1>2, <1>3 DEF SameTree

LEMMA InsertFacts ==
  ASSUME NEW t, TreeOK(t), NEW key \in Seq(Token), NEW value, NEW u, u = Insert(t, key, value)
  PROVE  /\ Grows(t, u)
         /\ DOMAIN u.value = DOMAIN t.value \cup PrefixesOf(key)
         /\ \A q \in DOMAIN t.value : u.value[q] = t.value[q]
         /\ \A q \in PrefixesOf(key) : Len(q) > MatchLen(t, key) => u.value[q] = value[Len(q)]
         /\ \A q \in PrefixesOf(key) : Len(q) <= MatchLen(t, key) <=> q \in DOMAIN t.value
<1>1. PICK d, m, p : d = Deepest(Path(t, key)) /\ m = MatchLen(t, key) /\ p = FirstN(key, m)
  OBVIOUS
<1>2. NodesOK(t.nodes) /\ KeepsInside(t)
  BY DEF TreeOK
<1>3. /\ p \in Seq(Token) /\ IsPrefix(d, p) /\ IsPrefix(p, key) /\ d \in t.nodes
      /\ ChildOn(t, key) = {} => p = d
      /\ ChildOn(t, key) # {} =>
           \E c : ChildOn(t, key) = {c} /\ OnEdge(t, c, p) /\ ParentOf(t, c) = d
  BY <1>1, <1>2, Landing, PathFacts
<1>4. /\ NewTexts(t, key) = {q \in Seq(Token) \ {Root} : IsPrefix(q, key) /\ ~Inside(t.nodes, q)}
      /\ NewTexts(t, key) \cap DOMAIN t.value = {}
      /\ DOMAIN t.value \cup NewTexts(t, key) = DOMAIN t.value \cup PrefixesOf(key)
  BY <1>2, NewTextsFacts
<1>5. NewTexts(t, key) = {q \in PrefixesOf(key) : Len(q) > m}
  BY <1>1 DEF NewTexts
<1>6. \A q \in PrefixesOf(key) : Len(q) <= m <=> q \in DOMAIN t.value
  <2>1. TAKE q \in PrefixesOf(key)
  <2>2. q \in NewTexts(t, key) <=> Len(q) > m
    BY <1>5
  <2>3. q \in NewTexts(t, key) <=> q \notin DOMAIN t.value
    BY <1>4
  <2>4. Len(q) \in Nat /\ m \in Nat
    <3>1. m \in 0..Len(key)
      BY <1>1, <1>2, MatchLenFacts
    <3>2. Len(q) \in 1..Len(key)
      BY PrefixesFacts
    <3> QED
      BY <3>1, <3>2
  <2> QED
    BY <2>2, <2>3, <2>4
<1> DEFINE Grown(g) ==
             /\ Grows(t, g)
             /\ DOMAIN g.value = DOMAIN t.value \cup PrefixesOf(key)
             /\ \A q \in DOMAIN t.value : g.value[q] = t.value[q]
             /\ \A q \in PrefixesOf(key) : Len(q) > m => g.value[q] = value[Len(q)]
<1>7. CASE m = Len(key)
  <2>1. NewTexts(t, key) = {}
    <3>1. \A q \in PrefixesOf(key) : Len(q) \in 1..Len(key)
      BY PrefixesFacts
    <3> QED
      BY <1>5, <1>7, <3>1
  <2>2. Grown(t)
    <3>1. Grows(t, t)
      <4>1. SameTree(t, t)
        BY DEF SameTree
      <4> QED
        BY <4>1, SameGrows
    <3> QED
      BY <1>4, <1>5, <2>1, <3>1
  <2>3. \E path, visited : u = Rekey(t, UpdateTime(t, path), visited)
    BY <1>1, <1>7 DEF Insert
  <2>4. PICK path, visited : u = Rekey(t, UpdateTime(t, path), visited)
    BY <2>3
  <2>5. TreeOK(u) /\ SameTree(t, u)
    BY <2>4, FinishFacts
  <2>6. Grows(t, u) /\ u.value = t.value
    BY <2>5, SameGrows DEF SameTree
  <2> QED
    BY <1>1, <1>6, <2>2, <2>6
<1>8. CASE m # Len(key) /\ ChildOn(t, key) = {}
  <2>1. PICK g : g = AddChild(t, p, key, value)
    OBVIOUS
  <2>2. p \in t.nodes
    BY <1>3, <1>8
  <2>3. /\ DOMAIN g.value = DOMAIN t.value \cup NewTexts(t, key)
        /\ \A q \in DOMAIN t.value : g.value[q] = t.value[q]
        /\ \A q \in NewTexts(t, key) : g.value[q] = value[Len(q)]
        /\ TreeOK(g)
    BY <1>1, <1>8, <2>1, <2>2, AddChildFacts
  <2>4. Grows(t, g)
    BY <1>1, <1>8, <2>1, <2>2, AddGrows
  <2>5. \E path, visited : u = Rekey(t, UpdateTime(g, path), visited)
    BY <1>1, <1>8, <2>1 DEF Insert
  <2>6. PICK path, visited : u = Rekey(t, UpdateTime(g, path), visited)
    BY <2>5
  <2>7. TreeOK(u) /\ SameTree(g, u)
    BY <2>3, <2>6, FinishFacts
  <2>8. Grows(g, u) /\ u.value = g.value
    BY <2>7, SameGrows DEF SameTree
  <2>9. Grows(t, u)
    BY <2>4, <2>8, GrowsTwice
  <2> QED
    BY <1>1, <1>4, <1>5, <1>6, <2>3, <2>8, <2>9
<1>9. CASE m # Len(key) /\ ChildOn(t, key) # {}
  <2>1. PICK c : ChildOn(t, key) = {c} /\ OnEdge(t, c, p)
    BY <1>3, <1>9
  <2>2. PICK s : s = SplitNode(t, c, p)
    OBVIOUS
  <2>3. TreeOK(s) /\ s.nodes = t.nodes \cup {p} /\ s.value = t.value
    BY <2>1, <2>2, SplitFacts
  <2>4. Grows(t, s)
    BY <2>1, <2>2, SplitGrows
  <2>5. MatchLen(s, key) = m /\ NewTexts(s, key) = NewTexts(t, key)
    BY <1>1, <2>3 DEF MatchLen, NewTexts
  <2>6. PICK g : g = AddChild(s, p, key, value)
    OBVIOUS
  <2>7. p \in s.nodes /\ p = FirstN(key, MatchLen(s, key)) /\ MatchLen(s, key) # Len(key)
    BY <1>1, <1>9, <2>3, <2>5
  <2>8. /\ DOMAIN g.value = DOMAIN s.value \cup NewTexts(s, key)
        /\ \A q \in DOMAIN s.value : g.value[q] = s.value[q]
        /\ \A q \in NewTexts(s, key) : g.value[q] = value[Len(q)]
        /\ TreeOK(g)
    BY <2>3, <2>6, <2>7, AddChildFacts
  <2>9. Grows(s, g)
    BY <2>3, <2>6, <2>7, AddGrows
  <2>10. \E path, visited : u = Rekey(t, UpdateTime(g, path), visited)
    <3>1. \A e \in ChildOn(t, key) : e = c
      BY <2>1
    <3>2. (CHOOSE e \in ChildOn(t, key) : TRUE) = c
      BY <2>1
    <3> QED
      BY <1>1, <1>9, <2>2, <2>6, <3>2 DEF Insert
  <2>11. PICK path, visited : u = Rekey(t, UpdateTime(g, path), visited)
    BY <2>10
  <2>12. TreeOK(u) /\ SameTree(g, u)
    BY <2>8, <2>11, FinishFacts
  <2>13. Grows(g, u) /\ u.value = g.value
    BY <2>12, SameGrows DEF SameTree
  <2>14. Grows(t, u)
    BY <2>4, <2>9, <2>13, GrowsTwice
  <2> QED
    BY <1>1, <1>4, <1>5, <1>6, <2>3, <2>5, <2>8, <2>13, <2>14
<1> QED
  BY <1>7, <1>8, <1>9

\* Edges are those of the nodes.
LEMMA SameNodesTokens ==
  ASSUME NEW t, NEW u, u.nodes = t.nodes
  PROVE  \A S : TokensOf(u, S) = TokensOf(t, S)
BY DEF TokensOf, EdgeTokens, ParentOf

LEMMA AddRefFacts ==
  ASSUME NEW t, TreeOK(t), \A n \in t.nodes : t.ref_counter[n] \in Nat,
         NEW path \in SUBSET t.nodes, NEW u, u = AddRef(t, path)
  PROVE  /\ TreeOK(u) /\ u.nodes = t.nodes /\ u.value = t.value
         /\ \A n \in t.nodes : u.ref_counter[n] = t.ref_counter[n] + (IF n \in path THEN 1 ELSE 0)
         /\ CountersOK(t) => CountersOK(u)
<1>1. PICK z \in SUBSET t.nodes : z = {n \in path : t.ref_counter[n] = 0}
  OBVIOUS
<1>2. IsTree(t) /\ NodesOK(t.nodes)
  BY DEF TreeOK
<1>3. /\ IsTree(u) /\ u.nodes = t.nodes /\ u.value = t.value /\ u.time_id = t.time_id
      /\ u.prefix_total_len = t.prefix_total_len
      /\ u.ref_counter = [n \in t.nodes |-> IF n \in path THEN t.ref_counter[n] + 1
                                            ELSE t.ref_counter[n]]
      /\ u.refed_tokens_num = t.refed_tokens_num + TokensOf(t, z)
      /\ u.tree_total_tokens_num = t.tree_total_tokens_num
  BY <1>1, <1>2 DEF AddRef, IsTree
<1>4. TreeOK(u)
  BY <1>3 DEF TreeOK, KeepsInside
<1>5. \A n \in t.nodes : u.ref_counter[n] = t.ref_counter[n] + (IF n \in path THEN 1 ELSE 0)
  BY <1>3
<1>6. ASSUME CountersOK(t) PROVE CountersOK(u)
  <2>1. PICK R \in SUBSET t.nodes : R = Referenced(t)
    BY DEF Referenced
  <2>2. Referenced(u) = R \cup z /\ R \cap z = {}
    BY <1>1, <1>3, <1>5, <2>1 DEF Referenced
  <2>3. TokensOf(t, R \cup z) = TokensOf(t, R) + TokensOf(t, z)
    BY <1>2, <2>2, EdgesFacts
  <2>4. \A S : TokensOf(u, S) = TokensOf(t, S)
    BY <1>3, SameNodesTokens
  <2> QED
    BY <1>3, <1>6, <2>1, <2>2, <2>3, <2>4 DEF CountersOK
<1> QED
  BY <1>3, <1>4, <1>5, <1>6

LEMMA DecFacts ==
  ASSUME NEW t, TreeOK(t), \A n \in t.nodes : t.ref_counter[n] \in Nat,
         NEW node \in Seq(Token), \A n \in t.nodes : IsPrefix(n, node) => t.ref_counter[n] > 0,
         NEW u, u = DecNodeRefCounter(t, node)
  PROVE  /\ TreeOK(u) /\ u.nodes = t.nodes /\ u.value = t.value
         /\ \A n \in t.nodes :
              u.ref_counter[n] = t.ref_counter[n] - (IF IsPrefix(n, node) THEN 1 ELSE 0)
         /\ CountersOK(t) => CountersOK(u)
<1>0. PICK path \in SUBSET t.nodes : path = Path(t, node)
  BY DEF Path
<1>1. PICK z \in SUBSET t.nodes : z = {n \in path : t.ref_counter[n] = 1}
  OBVIOUS
<1>2. IsTree(t) /\ NodesOK(t.nodes)
  BY DEF TreeOK
<1>3. /\ IsTree(u) /\ u.nodes = t.nodes /\ u.value = t.value /\ u.time_id = t.time_id
      /\ u.prefix_total_len = t.prefix_total_len
      /\ u.ref_counter = [n \in t.nodes |-> IF n \in path THEN t.ref_counter[n] - 1
                                            ELSE t.ref_counter[n]]
      /\ u.refed_tokens_num = t.refed_tokens_num - TokensOf(t, z)
      /\ u.tree_total_tokens_num = t.tree_total_tokens_num
  BY <1>0, <1>1, <1>2 DEF DecNodeRefCounter, IsTree
<1>4. TreeOK(u)
  BY <1>3 DEF TreeOK, KeepsInside
<1>5. \A n \in t.nodes :
        u.ref_counter[n] = t.ref_counter[n] - (IF IsPrefix(n, node) THEN 1 ELSE 0)
  BY <1>0, <1>3 DEF Path
<1>6. ASSUME CountersOK(t) PROVE CountersOK(u)
  <2>1. PICK R \in SUBSET t.nodes : R = Referenced(t)
    BY DEF Referenced
  <2>2. \A n \in path : t.ref_counter[n] > 0
    BY <1>0 DEF Path
  <2>3. Referenced(u) = R \ z /\ z \subseteq R
    BY <1>1, <1>3, <2>1, <2>2 DEF Referenced
  <2>4. TokensOf(t, R \ z) = TokensOf(t, R) - TokensOf(t, z)
    BY <1>2, <2>3, EdgesFacts
  <2>5. \A S : TokensOf(u, S) = TokensOf(t, S)
    BY <1>3, SameNodesTokens
  <2> QED
    BY <1>3, <1>6, <2>1, <2>3, <2>4, <2>5 DEF CountersOK
<1> QED
  BY <1>3, <1>4, <1>5, <1>6

\* References are numbers, and those held are there.
LEMMA RefsFacts ==
  ASSUME NEW t, TreeOK(t), NEW hold \in [Req -> t.nodes], RefsOK(t, hold)
  PROVE  /\ \A n \in t.nodes : t.ref_counter[n] \in Nat
         /\ t.ref_counter[Root] > 0
         /\ \A r \in Req, n \in t.nodes : hold[r] # NoNode /\ IsPrefix(n, hold[r]) => t.ref_counter[n] > 0
<1>1. IsFiniteSet(Req)
  BY PromptCacheAssumption
<1>2. \A n : HoldersOf(hold, n) \in SUBSET Req
  BY DEF HoldersOf
<1>3. \A n : IsFiniteSet(HoldersOf(hold, n)) /\ Cardinality(HoldersOf(hold, n)) \in Nat
  BY <1>1, <1>2, FS_Subset, FS_CardinalityType
<1>4. Root \in t.nodes
  BY DEF TreeOK, NodesOK
<1>5. ASSUME NEW r \in Req, NEW n \in t.nodes, hold[r] # NoNode, IsPrefix(n, hold[r])
      PROVE  t.ref_counter[n] > 0
  <2>1. HoldersOf(hold, n) # {}
    BY <1>5 DEF HoldersOf
  <2>2. Cardinality(HoldersOf(hold, n)) # 0
    BY <1>3, <2>1, FS_EmptySet
  <2> QED
    BY <1>3, <2>2 DEF RefsOK
<1>6. (\A n \in t.nodes : t.ref_counter[n] \in Nat) /\ t.ref_counter[Root] > 0
  BY <1>3, <1>4 DEF RefsOK
<1> QED
  BY <1>5, <1>6

\* The number of holders when one request takes or gives up a node.
LEMMA HoldersChange ==
  ASSUME NEW hold, NEW after, NEW r \in Req, NEW n, hold[r] = NoNode,
         \A s \in Req \ {r} : after[s] = hold[s]
  PROVE  Cardinality(HoldersOf(after, n))
           = Cardinality(HoldersOf(hold, n))
             + (IF after[r] # NoNode /\ IsPrefix(n, after[r]) THEN 1 ELSE 0)
<1>1. IsFiniteSet(Req)
  BY PromptCacheAssumption
<1>2. PICK H \in SUBSET Req : H = HoldersOf(hold, n)
  BY DEF HoldersOf
<1>3. IsFiniteSet(H) /\ r \notin H /\ Cardinality(H) \in Nat
  BY <1>1, <1>2, FS_Subset, FS_CardinalityType DEF HoldersOf
<1>4. CASE after[r] # NoNode /\ IsPrefix(n, after[r])
  <2>1. HoldersOf(after, n) = H \cup {r}
    BY <1>2, <1>4 DEF HoldersOf
  <2>2. Cardinality(H \cup {r}) = Cardinality(H) + 1
    BY <1>3, FS_AddElement
  <2> QED
    BY <1>2, <1>4, <2>1, <2>2
<1>5. CASE ~(after[r] # NoNode /\ IsPrefix(n, after[r]))
  <2>1. HoldersOf(after, n) = H
    BY <1>2, <1>5 DEF HoldersOf
  <2> QED
    BY <1>2, <1>3, <1>5, <2>1
<1> QED
  BY <1>4, <1>5

\* dec_node_ref_counter for a request that gives up its node.
LEMMA GiveUpFacts ==
  ASSUME NEW t, TreeOK(t), NEW hold \in [Req -> t.nodes], RefsOK(t, hold), NEW r \in Req,
         NEW u, u = GiveUp(t, hold[r])
  PROVE  /\ TreeOK(u) /\ u.nodes = t.nodes /\ u.value = t.value
         /\ RefsOK(u, [hold EXCEPT ![r] = NoNode])
         /\ CountersOK(t) => CountersOK(u)
<1>1. PICK after : after = [hold EXCEPT ![r] = NoNode]
  OBVIOUS
<1>2. CASE hold[r] = NoNode
  <2>1. u = t /\ after = hold
    BY <1>1, <1>2 DEF GiveUp
  <2> QED
    BY <1>1, <2>1
<1>3. CASE hold[r] # NoNode
  <2>1. u = DecNodeRefCounter(t, hold[r])
    BY <1>3 DEF GiveUp
  <2>2. PICK node : node = hold[r]
    OBVIOUS
  <2>3. /\ node \in Seq(Token) /\ \A n \in t.nodes : t.ref_counter[n] \in Nat
        /\ \A n \in t.nodes : IsPrefix(n, node) => t.ref_counter[n] > 0
    <3>1. node \in t.nodes /\ t.nodes \subseteq Seq(Token)
      BY <2>2 DEF TreeOK, NodesOK
    <3> QED
      BY <1>3, <2>2, <3>1, RefsFacts
  <2>4. /\ TreeOK(u) /\ u.nodes = t.nodes /\ u.value = t.value
        /\ \A n \in t.nodes :
             u.ref_counter[n] = t.ref_counter[n] - (IF IsPrefix(n, node) THEN 1 ELSE 0)
        /\ CountersOK(t) => CountersOK(u)
    BY <2>1, <2>2, <2>3, DecFacts
  <2>5. \A n : Cardinality(HoldersOf(hold, n))
                 = Cardinality(HoldersOf(after, n)) + (IF IsPrefix(n, node) THEN 1 ELSE 0)
    <3>1. after[r] = NoNode /\ \A s \in Req \ {r} : hold[s] = after[s]
      BY <1>1
    <3> QED
      BY <1>3, <2>2, <3>1, HoldersChange
  <2>6. \A n : Cardinality(HoldersOf(after, n)) \in Nat
    <3>1. \A n : HoldersOf(after, n) \in SUBSET Req
      BY DEF HoldersOf
    <3> QED
      BY <3>1, PromptCacheAssumption, FS_Subset, FS_CardinalityType
  <2>7. RefsOK(u, after)
    <3> SUFFICES ASSUME NEW n \in t.nodes
                 PROVE  u.ref_counter[n] = (IF n = Root THEN 1 ELSE 0) + Cardinality(HoldersOf(after, n))
      BY <2>4 DEF RefsOK
    <3>1. t.ref_counter[n] = (IF n = Root THEN 1 ELSE 0) + Cardinality(HoldersOf(hold, n))
      BY DEF RefsOK
    <3> QED
      BY <2>4, <2>5, <2>6, <3>1
  <2> QED
    BY <1>1, <2>4, <2>7
<1> QED
  BY <1>2, <1>3

\* The tree after match_prefix has split, and the nodes on the path to the match.
LEMMA MatchGrows ==
  ASSUME NEW t, TreeOK(t), NEW key \in Seq(Token), NEW path, path = Path(t, key),
         NEW found, found = FirstN(key, MatchLen(t, key)),
         NEW g, g = IF found \in path THEN t
                    ELSE SplitNode(t, CHOOSE c \in ChildOn(t, key) : TRUE, found)
  PROVE  /\ Grows(t, g) /\ found \in g.nodes /\ g.value = t.value
         /\ path \cup {found} = {n \in g.nodes : IsPrefix(n, found)}
<1>1. PICK d : d = Deepest(Path(t, key))
  OBVIOUS
<1>2. NodesOK(t.nodes) /\ KeepsInside(t) /\ t.nodes \subseteq Seq(Token)
  BY DEF TreeOK, NodesOK
<1>3. /\ found \in Seq(Token) /\ IsPrefix(d, found) /\ IsPrefix(found, key)
      /\ ChildOn(t, key) = {} => found = d
      /\ ChildOn(t, key) # {} =>
           \E c : ChildOn(t, key) = {c} /\ OnEdge(t, c, found) /\ ParentOf(t, c) = d
  BY <1>1, <1>2, Landing
<1>4. /\ d \in t.nodes /\ d \in Seq(Token) /\ IsPrefix(d, key)
      /\ \A n \in t.nodes : IsPrefix(n, key) => IsPrefix(n, d)
  BY <1>1, <1>2, PathFacts
<1>5. \A n \in t.nodes : IsPrefix(n, key) <=> IsPrefix(n, found)
  <2>1. TAKE n \in t.nodes
  <2>2. n \in Seq(Token)
    BY <1>2
  <2> QED
    BY <1>3, <1>4, <2>2, PrefixOrder
<1>6. path = {n \in t.nodes : IsPrefix(n, found)}
  BY <1>5 DEF Path
<1>7. IsPrefix(found, found)
  BY <1>3, PrefixOrder
<1>8. CASE found \in path
  <2>1. g = t /\ found \in t.nodes
    BY <1>6, <1>8
  <2>2. Grows(t, t)
    <3>1. SameTree(t, t)
      BY DEF SameTree
    <3> QED
      BY <3>1, SameGrows
  <2> QED
    BY <1>6, <1>8, <2>1, <2>2
<1>9. CASE found \notin path
  <2>1. ChildOn(t, key) # {}
    BY <1>3, <1>4, <1>6, <1>7, <1>9
  <2>2. PICK c : ChildOn(t, key) = {c} /\ OnEdge(t, c, found)
    BY <1>3, <2>1
  <2>3. (CHOOSE e \in ChildOn(t, key) : TRUE) = c
    BY <2>2
  <2>4. g = SplitNode(t, c, found)
    BY <1>9, <2>3
  <2>5. Grows(t, g)
    BY <2>2, <2>4, SplitGrows
  <2>6. g.nodes = t.nodes \cup {found} /\ g.value = t.value
    BY <2>2, <2>4, SplitFacts
  <2> QED
    BY <1>6, <1>7, <2>5, <2>6
<1> QED
  BY <1>8, <1>9

\* match_prefix for a request that holds no node: it finds the longest text kept,
\* and the request holds it from now on, unless it is the root.
Matched(t, after, found, got) ==
  /\ got.node = found /\ found \in got.tree.nodes
  /\ TreeOK(got.tree) /\ t.nodes \subseteq got.tree.nodes /\ got.tree.value = t.value
  /\ RefsOK(got.tree, after)
  /\ CountersOK(t) => CountersOK(got.tree)

LEMMA MatchFacts ==
  ASSUME NEW t, TreeOK(t), NEW hold \in [Req -> t.nodes], RefsOK(t, hold),
         NEW r \in Req, hold[r] = NoNode, NEW key \in Seq(Token),
         NEW got, got = MatchPrefix(t, key),
         NEW found, found = FirstN(key, MatchLen(t, key))
  PROVE  Matched(t, [hold EXCEPT ![r] = found], found, got)
<1>1. PICK path : path = Path(t, key)
  OBVIOUS
<1>c. PICK c0 : c0 = CHOOSE c \in ChildOn(t, key) : TRUE
  OBVIOUS
<1>s. PICK s : s = SplitNode(t, c0, found)
  OBVIOUS
<1>i. PICK g : g = IF found \in path THEN t ELSE s
  OBVIOUS
<1>2. g = IF found \in path THEN t
          ELSE SplitNode(t, CHOOSE c \in ChildOn(t, key) : TRUE, found)
  BY <1>c, <1>s, <1>i
<1>3. /\ Grows(t, g) /\ found \in g.nodes /\ g.value = t.value
      /\ path \cup {found} = {n \in g.nodes : IsPrefix(n, found)}
  BY <1>1, <1>2, MatchGrows
<1>4. /\ TreeOK(g) /\ t.nodes \subseteq g.nodes /\ RefsOK(g, hold) /\ hold \in [Req -> g.nodes]
      /\ CountersOK(t) => CountersOK(g)
  BY <1>3 DEF Grows
<1>5. (\A n \in g.nodes : g.ref_counter[n] \in Nat) /\ g.ref_counter[Root] > 0
  BY <1>4, RefsFacts
<1>6. PICK a : a = AddRef(g, path \cup {found})
  OBVIOUS
<1>7. /\ TreeOK(a) /\ a.nodes = g.nodes /\ a.value = g.value
      /\ \A n \in g.nodes :
           a.ref_counter[n] = g.ref_counter[n] + (IF n \in path \cup {found} THEN 1 ELSE 0)
      /\ CountersOK(g) => CountersOK(a)
  <2>1. path \cup {found} \in SUBSET g.nodes
    BY <1>3
  <2> QED
    BY <1>4, <1>5, <1>6, <2>1, AddRefFacts
<1>8. PICK visited : visited = IF found \in path THEN path ELSE path \cup ChildOn(t, key)
  OBVIOUS
<1>9. PICK b : b = Rekey(t, UpdateTime(a, path), visited)
  OBVIOUS
<1>10. TreeOK(b) /\ SameTree(a, b)
  BY <1>7, <1>9, FinishFacts
<1>11. got = [node |-> found, tree |-> IF found = Root THEN DecNodeRefCounter(b, Root) ELSE b]
  BY <1>1, <1>2, <1>6, <1>8, <1>9 DEF MatchPrefix
<1>12. /\ b.nodes = g.nodes /\ b.value = t.value
       /\ \A n \in g.nodes :
            b.ref_counter[n] = g.ref_counter[n] + (IF IsPrefix(n, found) THEN 1 ELSE 0)
       /\ CountersOK(t) => CountersOK(b)
  <2>1. CountersOK(t) => CountersOK(b)
    BY <1>4, <1>7, <1>10, SameAccount
  <2> QED
    BY <1>3, <1>7, <1>10, <2>1 DEF SameTree
<1>13. PICK after : after = [hold EXCEPT ![r] = found]
  OBVIOUS
<1>14. found \in Seq(Token) /\ g.nodes \subseteq Seq(Token)
  BY <1>3, <1>4 DEF TreeOK, NodesOK
<1>15. CASE found = Root
  <2>1. got.tree = DecNodeRefCounter(b, Root) /\ got.node = found
    BY <1>11, <1>15
  <2>2. \A n \in b.nodes : b.ref_counter[n] \in Nat
    BY <1>5, <1>12
  <2>3. \A n \in b.nodes : IsPrefix(n, Root) => b.ref_counter[n] > 0
    BY <1>5, <1>12, <1>15
  <2>4. PICK v : v = DecNodeRefCounter(b, Root)
    OBVIOUS
  <2>5. Root \in Seq(Token)
    BY <1>14, <1>15
  <2>6. /\ TreeOK(v) /\ v.nodes = b.nodes /\ v.value = b.value
        /\ \A n \in b.nodes :
              v.ref_counter[n] = b.ref_counter[n] - (IF IsPrefix(n, Root) THEN 1 ELSE 0)
        /\ CountersOK(b) => CountersOK(v)
    BY <1>10, <2>2, <2>3, <2>4, <2>5, DecFacts
  <2>7. \A n \in g.nodes : v.ref_counter[n] = g.ref_counter[n]
    BY <1>5, <1>12, <1>15, <2>6
  <2>8. after = hold
    BY <1>13, <1>15 DEF NoNode
  <2>9. RefsOK(v, after)
    BY <1>4, <1>12, <2>6, <2>7, <2>8 DEF RefsOK
  <2> QED
    BY <1>3, <1>4, <1>12, <1>13, <2>1, <2>4, <2>6, <2>9 DEF Matched
<1>16. CASE found # Root
  <2>1. got.tree = b /\ got.node = found
    BY <1>11, <1>16
  <2>2. after[r] = found /\ \A x \in Req \ {r} : after[x] = hold[x]
    BY <1>13
  <2>3. \A n : Cardinality(HoldersOf(after, n))
                 = Cardinality(HoldersOf(hold, n)) + (IF IsPrefix(n, found) THEN 1 ELSE 0)
    BY <1>16, <2>2, HoldersChange DEF NoNode
  <2>4. \A n : Cardinality(HoldersOf(hold, n)) \in Nat
    <3>1. \A n : HoldersOf(hold, n) \in SUBSET Req
      BY DEF HoldersOf
    <3> QED
      BY <3>1, PromptCacheAssumption, FS_Subset, FS_CardinalityType
  <2>5. RefsOK(b, after)
    <3> SUFFICES ASSUME NEW n \in g.nodes
                 PROVE  b.ref_counter[n] = (IF n = Root THEN 1 ELSE 0) + Cardinality(HoldersOf(after, n))
      BY <1>12 DEF RefsOK
    <3>1. g.ref_counter[n] = (IF n = Root THEN 1 ELSE 0) + Cardinality(HoldersOf(hold, n))
      BY <1>4 DEF RefsOK
    <3> QED
      BY <1>12, <2>3, <2>4, <3>1
  <2> QED
    BY <1>3, <1>4, <1>10, <1>12, <1>13, <2>1, <2>5 DEF Matched
<1> QED
  BY <1>15, <1>16

\* The hand-over of a finished request's text.
HandedOver(t, after, key, value, u) ==
  /\ TreeOK(u) /\ t.nodes \subseteq u.nodes
  /\ RefsOK(u, after)
  /\ CountersOK(t) => CountersOK(u)
  /\ DOMAIN u.value = DOMAIN t.value \cup PrefixesOf(key)
  /\ \A q \in DOMAIN t.value : u.value[q] = t.value[q]
  /\ \A q \in PrefixesOf(key) : Len(q) > MatchLen(t, key) => u.value[q] = value[Len(q)]
  /\ \A q \in PrefixesOf(key) : Len(q) <= MatchLen(t, key) <=> q \in DOMAIN t.value

LEMMA HandOverFacts ==
  ASSUME NEW t, TreeOK(t), NEW hold \in [Req -> t.nodes], RefsOK(t, hold), NEW r \in Req,
         NEW key \in Seq(Token), NEW value, NEW u, u = HandOver(t, key, value, hold[r])
  PROVE  HandedOver(t, [hold EXCEPT ![r] = NoNode], key, value, u)
<1>1. PICK v : v = Insert(t, key, value)
  OBVIOUS
<1>2. u = GiveUp(v, hold[r])
  BY <1>1 DEF HandOver, GiveUp
<1>3. /\ Grows(t, v)
      /\ DOMAIN v.value = DOMAIN t.value \cup PrefixesOf(key)
      /\ \A q \in DOMAIN t.value : v.value[q] = t.value[q]
      /\ \A q \in PrefixesOf(key) : Len(q) > MatchLen(t, key) => v.value[q] = value[Len(q)]
      /\ \A q \in PrefixesOf(key) : Len(q) <= MatchLen(t, key) <=> q \in DOMAIN t.value
  BY <1>1, InsertFacts
<1>4. /\ TreeOK(v) /\ t.nodes \subseteq v.nodes /\ hold \in [Req -> v.nodes] /\ RefsOK(v, hold)
      /\ CountersOK(t) => CountersOK(v)
  BY <1>3 DEF Grows
<1>5. /\ TreeOK(u) /\ u.nodes = v.nodes /\ u.value = v.value
      /\ RefsOK(u, [hold EXCEPT ![r] = NoNode])
      /\ CountersOK(v) => CountersOK(u)
  BY <1>2, <1>4, GiveUpFacts
<1> QED
  BY <1>3, <1>4, <1>5 DEF HandedOver

\* What stays of t in u when the node n goes: shape, texts and edges.
Remains(t, n, u) ==
  /\ NodesOK(u.nodes)
  /\ \A x \in Seq(Token) \ {Root} :
       Inside(u.nodes, x) <=> x \in DOMAIN t.value \ EdgeTokens(t, n)
  /\ \A m \in u.nodes : EdgeTokens(u, m) = EdgeTokens(t, m)

LEMMA LeafGoes ==
  ASSUME NEW t, TreeOK(t), NEW n \in t.nodes \ {Root}, IsLeaf(t, n),
         NEW u, u.nodes = t.nodes \ {n}
  PROVE  Remains(t, n, u)
<1>1. NodesOK(t.nodes) /\ KeepsInside(t) /\ t.nodes \subseteq Seq(Token)
  BY DEF TreeOK, NodesOK
<1>2. PICK p : p = ParentOf(t, n)
  OBVIOUS
<1>3. /\ p \in t.nodes /\ p \in Seq(Token) /\ IsPrefix(p, n) /\ p # n /\ Len(p) < Len(n)
      /\ \A m \in t.nodes : IsPrefix(m, n) /\ m # n => IsPrefix(m, p)
  BY <1>1, <1>2, ParentFacts
<1>4. \A m \in u.nodes : ~IsPrefix(n, m) /\ m \in t.nodes /\ m \in Seq(Token)
  BY <1>1 DEF IsLeaf, IsStrictPrefix
<1>5. n \in Seq(Token) /\ IsPrefix(n, n)
  BY <1>1, PrefixOrder
<1>6. Forks(u.nodes)
  <2> SUFFICES ASSUME NEW l \in u.nodes, NEW m \in u.nodes, NEW x \in Seq(Token),
                      IsPrefix(x, l), IsPrefix(x, m)
               PROVE  \E k \in u.nodes : IsPrefix(x, k) /\ IsPrefix(k, l) /\ IsPrefix(k, m)
    BY DEF Forks
  <2>1. \E k \in t.nodes : IsPrefix(x, k) /\ IsPrefix(k, l) /\ IsPrefix(k, m)
    BY <1>1, <1>4 DEF NodesOK, Forks
  <2> QED
    BY <1>4, <2>1
<1>7. NodesOK(u.nodes)
  <2>1. IsFiniteSet(u.nodes)
    BY <1>1, FS_Subset DEF NodesOK
  <2> QED
    BY <1>1, <1>6, <2>1 DEF NodesOK
<1>8. EdgeTokens(t, n) = {q \in Seq(Token) \ {Root} :
                            IsPrefix(q, n) /\ \A m \in t.nodes : IsPrefix(m, n) /\ m # n => ~IsPrefix(q, m)}
  BY <1>1, EdgeFacts
<1>9. DOMAIN t.value = {x \in Seq(Token) \ {Root} : Inside(t.nodes, x)}
  BY <1>1 DEF KeepsInside
<1>10. ASSUME NEW x \in Seq(Token), x # Root
       PROVE  Inside(u.nodes, x) <=> Inside(t.nodes, x) /\ x \notin EdgeTokens(t, n)
  <2>1. ASSUME Inside(u.nodes, x) PROVE Inside(t.nodes, x) /\ x \notin EdgeTokens(t, n)
    <3>1. PICK m \in u.nodes : IsPrefix(x, m)
      BY <2>1 DEF Inside
    <3>2. m \in t.nodes
      BY <3>1
    <3>3. ASSUME x \in EdgeTokens(t, n) PROVE FALSE
      <4>1. IsPrefix(x, n)
        BY <1>8, <3>3
      <4>2. PICK k \in t.nodes : IsPrefix(x, k) /\ IsPrefix(k, m) /\ IsPrefix(k, n)
        BY <1>1, <3>1, <3>2, <4>1 DEF NodesOK, Forks
      <4>3. k # n
        BY <1>4, <4>2
      <4> QED
        BY <1>8, <3>3, <4>2, <4>3
    <3> QED
      BY <3>1, <3>2, <3>3 DEF Inside
  <2>2. ASSUME Inside(t.nodes, x), x \notin EdgeTokens(t, n) PROVE Inside(u.nodes, x)
    <3>1. PICK m \in t.nodes : IsPrefix(x, m)
      BY <2>2 DEF Inside
    <3>2. CASE m # n
      BY <3>1, <3>2 DEF Inside
    <3>3. CASE m = n
      <4>1. PICK k \in t.nodes : IsPrefix(k, n) /\ k # n /\ IsPrefix(x, k)
        BY <1>8, <1>10, <2>2, <3>1, <3>3
      <4> QED
        BY <4>1 DEF Inside
    <3> QED
      BY <3>2, <3>3
  <2> QED
    BY <2>1, <2>2
<1>11. \A m \in u.nodes : EdgeTokens(u, m) = EdgeTokens(t, m)
  <2>1. TAKE m \in u.nodes
  <2>2. \A k : (k \in u.nodes /\ IsPrefix(k, m) /\ k # m) <=> (k \in t.nodes /\ IsPrefix(k, m) /\ k # m)
    BY <1>4
  <2>3. EdgeTokens(t, m) = {q \in Seq(Token) \ {Root} : /\ IsPrefix(q, m)
                                  /\ \A k \in t.nodes : IsPrefix(k, m) /\ k # m => ~IsPrefix(q, k)}
    BY <1>1, <1>4, EdgeFacts
  <2>4. EdgeTokens(u, m) = {q \in Seq(Token) \ {Root} : /\ IsPrefix(q, m)
                                  /\ \A k \in u.nodes : IsPrefix(k, m) /\ k # m => ~IsPrefix(q, k)}
    BY <1>7, EdgeFacts
  <2> QED
    BY <2>2, <2>3, <2>4
<1> QED
  BY <1>7, <1>9, <1>10, <1>11 DEF Remains

\* evict: the node popped is an unreferenced leaf, and its tokens leave the tree.
LEMMA PopFacts ==
  ASSUME NEW t, TreeOK(t), Evictable(t), NEW hold \in [Req -> t.nodes], RefsOK(t, hold),
         NEW n, n = FirstEntry(t).node, NEW u, u = PopFirst(t)
  PROVE  /\ n \in t.nodes \ {Root} /\ u.nodes = t.nodes \ {n}
         /\ TreeOK(u) /\ hold \in [Req -> u.nodes] /\ RefsOK(u, hold)
         /\ CountersOK(t) => CountersOK(u)
         /\ DOMAIN u.value = DOMAIN t.value \ EdgeTokens(t, n)
         /\ \A q \in DOMAIN u.value : u.value[q] = t.value[q]
<1>1. n \in t.nodes \ {Root} /\ t.ref_counter[n] = 0 /\ IsLeaf(t, n)
  BY DEF Evictable
<1>2. IsTree(t) /\ NodesOK(t.nodes) /\ t.nodes \subseteq Seq(Token)
  BY DEF TreeOK, NodesOK
<1>3. PICK p : p = ParentOf(t, n)
  OBVIOUS
<1>4. PICK l : l = ValueLen(t, n)
  OBVIOUS
<1>5. PICK e : e = t.evict_tree_set \ {FirstEntry(t)}
  OBVIOUS
<1>V. PICK V : V = [q \in {x \in DOMAIN t.value : Len(x) <= Len(p) \/ ~IsPrefix(x, n)} |-> t.value[q]]
  OBVIOUS
<1>R. PICK R : R = [m \in t.nodes \ {n} |-> t.ref_counter[m]]
  OBVIOUS
<1>T. PICK T : T = [m \in t.nodes \ {n} |-> t.time_id[m]]
  OBVIOUS
<1>P. PICK P : P = [m \in t.nodes \ {n} |-> t.prefix_total_len[m]]
  OBVIOUS
<1>v. PICK v : v = [t EXCEPT !.nodes = @ \ {n}, !.value = V, !.ref_counter = R, !.time_id = T,
                             !.prefix_total_len = P, !.evict_tree_set = e,
                             !.tree_total_tokens_num = @ - l]
  OBVIOUS
<1>6. v = [nodes |-> t.nodes \ {n}, value |-> V, ref_counter |-> R, time_id |-> T,
           prefix_total_len |-> P, evict_tree_set |-> e, clock |-> t.clock,
           refed_tokens_num |-> t.refed_tokens_num,
           tree_total_tokens_num |-> t.tree_total_tokens_num - l]
  BY <1>2, <1>v DEF IsTree
<1>t. IsTree(v)
  BY <1>6 DEF IsTree
<1>7. PICK f : u = IF IsLeaf(v, p) THEN [v EXCEPT !.evict_tree_set = f] ELSE v
  <2>1. u = IF IsLeaf(v, p) THEN [v EXCEPT !.evict_tree_set = @ \cup {Entry(v, p)}] ELSE v
    BY <1>3, <1>4, <1>5, <1>V, <1>R, <1>T, <1>P, <1>v DEF PopFirst
  <2>2. PICK f : f = v.evict_tree_set \cup {Entry(v, p)}
    OBVIOUS
  <2> QED
    BY <2>1, <2>2
<1>8. IsTree(u) /\ SameTree(v, u) /\ u.time_id = v.time_id
  <2>1. CASE ~IsLeaf(v, p)
    <3>1. u = v
      BY <1>7, <2>1
    <3> QED
      BY <1>t, <3>1 DEF SameTree
  <2>2. CASE IsLeaf(v, p)
    <3>1. u = [v EXCEPT !.evict_tree_set = f]
      BY <1>7, <2>2
    <3> QED
      BY <1>t, <3>1 DEF SameTree, IsTree
  <2> QED
    BY <2>1, <2>2
<1>9. /\ v.nodes = t.nodes \ {n}
      /\ DOMAIN v.value = {x \in DOMAIN t.value : Len(x) <= Len(p) \/ ~IsPrefix(x, n)}
      /\ \A q \in DOMAIN v.value : v.value[q] = t.value[q]
      /\ DOMAIN v.ref_counter = v.nodes /\ DOMAIN v.time_id = v.nodes
      /\ DOMAIN v.prefix_total_len = v.nodes
      /\ \A m \in v.nodes : /\ v.ref_counter[m] = t.ref_counter[m]
                            /\ v.prefix_total_len[m] = t.prefix_total_len[m]
      /\ v.refed_tokens_num = t.refed_tokens_num
      /\ v.tree_total_tokens_num = t.tree_total_tokens_num - l
  BY <1>6, <1>V, <1>R, <1>T, <1>P
<1>10. /\ u.nodes = t.nodes \ {n}
       /\ DOMAIN u.value = {x \in DOMAIN t.value : Len(x) <= Len(p) \/ ~IsPrefix(x, n)}
       /\ \A q \in DOMAIN u.value : u.value[q] = t.value[q]
       /\ DOMAIN u.ref_counter = u.nodes /\ DOMAIN u.time_id = u.nodes
       /\ DOMAIN u.prefix_total_len = u.nodes
       /\ \A m \in u.nodes : /\ u.ref_counter[m] = t.ref_counter[m]
                             /\ u.prefix_total_len[m] = t.prefix_total_len[m]
       /\ u.refed_tokens_num = t.refed_tokens_num
       /\ u.tree_total_tokens_num = t.tree_total_tokens_num - l
  BY <1>8, <1>9 DEF SameTree
<1>11. /\ NodesOK(u.nodes)
       /\ \A x \in Seq(Token) \ {Root} :
           Inside(u.nodes, x) <=> x \in DOMAIN t.value \ EdgeTokens(t, n)
       /\ \A m \in u.nodes : EdgeTokens(u, m) = EdgeTokens(t, m)
  <2>1. u.nodes = t.nodes \ {n}
    BY <1>10
  <2>2. Remains(t, n, u)
    BY <1>1, <2>1, LeafGoes
  <2> QED
    BY <2>2 DEF Remains
<1>12. DOMAIN u.value = DOMAIN t.value \ EdgeTokens(t, n)
  <2>1. PrefixesOf(n) = {q \in Seq(Token) \ {Root} : IsPrefix(q, n)}
    BY <1>1, <1>2, PrefixesFacts
  <2>2. EdgeTokens(t, n) = {q \in PrefixesOf(n) : Len(q) > Len(p)}
    BY <1>3 DEF EdgeTokens
  <2>3. \A x \in DOMAIN t.value : x \in Seq(Token) \ {Root}
    BY DEF TreeOK, KeepsInside
  <2>4. p \in Seq(Token)
    BY <1>1, <1>2, <1>3, ParentFacts
  <2>5. ASSUME NEW x \in DOMAIN t.value
        PROVE  x \in EdgeTokens(t, n) <=> ~(Len(x) <= Len(p) \/ ~IsPrefix(x, n))
    <3>1. x \in PrefixesOf(n) <=> IsPrefix(x, n)
      BY <2>1, <2>3
    <3>2. Len(x) \in Nat /\ Len(p) \in Nat
      BY <2>3, <2>4
    <3> QED
      BY <2>2, <3>1, <3>2
  <2> QED
    BY <1>10, <2>5
<1>13. TreeOK(u)
  <2>1. \A x \in DOMAIN t.value : x \in Seq(Token) \ {Root}
    BY DEF TreeOK, KeepsInside
  <2>2. KeepsInside(u)
    BY <1>11, <1>12, <2>1 DEF KeepsInside
  <2>3. \A m \in u.nodes : u.prefix_total_len[m] = Len(m)
    BY <1>10 DEF TreeOK
  <2> QED
    BY <1>8, <1>10, <1>11, <2>2, <2>3 DEF TreeOK
<1>14. hold \in [Req -> u.nodes] /\ RefsOK(u, hold)
  <2>1. ASSUME NEW r \in Req PROVE hold[r] # n
    <3>1. IsPrefix(n, n) /\ n # NoNode
      BY <1>1, <1>2, PrefixOrder DEF NoNode
    <3> QED
      BY <1>1, <3>1, RefsFacts
  <2>2. hold \in [Req -> u.nodes]
    BY <1>10, <2>1
  <2>3. RefsOK(u, hold)
    BY <1>10 DEF RefsOK
  <2> QED
    BY <2>2, <2>3
<1>15. ASSUME CountersOK(t) PROVE CountersOK(u)
  <2>1. \A S \in SUBSET u.nodes : TokensOf(u, S) = TokensOf(t, S)
    <3>1. TAKE S \in SUBSET u.nodes
    <3>2. EdgesOf(u, S) = EdgesOf(t, S)
      BY <1>11 DEF EdgesOf
    <3>3. TokensOf(u, S) = Cardinality(EdgesOf(u, S)) /\ TokensOf(t, S) = Cardinality(EdgesOf(t, S))
      BY DEF TokensOf, EdgesOf
    <3> QED
      BY <3>2, <3>3
  <2>2. Referenced(u) = Referenced(t) /\ Referenced(t) \subseteq u.nodes
    BY <1>1, <1>10 DEF Referenced
  <2>3. l = TokensOf(t, {n})
    <3>1. l = Cardinality(EdgeTokens(t, n))
      BY <1>1, <1>2, <1>4, EdgeFacts DEF ValueLen
    <3>2. UNION {EdgeTokens(t, m) : m \in {n}} = EdgeTokens(t, n)
      OBVIOUS
    <3> QED
      BY <3>1, <3>2 DEF TokensOf
  <2>4. TokensOf(t, t.nodes \ {n}) = TokensOf(t, t.nodes) - TokensOf(t, {n})
    <3>1. {n} \in SUBSET t.nodes /\ t.nodes \in SUBSET t.nodes /\ {n} \subseteq t.nodes
      BY <1>1
    <3> QED
      BY <1>2, <3>1, EdgesFacts
  <2> QED
    BY <1>10, <1>15, <2>1, <2>2, <2>3, <2>4 DEF CountersOK
<1> QED
  BY <1>1, <1>10, <1>12, <1>13, <1>14, <1>15

-----------------------------------------------------------------------------
(***************************************************************************)
(* The inductive invariant.  Its first layer is the tree with the requests *)
(* that hold its nodes, and the control that says which requests do; its   *)
(* second the pool: what the entries hold and who owns them.               *)
(***************************************************************************)
Prefilling == at \in {"prefill", "evict prefill", "alloc prefill"}
Decoding   == at \in {"decode", "evict decode", "alloc decode"}
Evicting   == at \in {"evict prefill", "evict decode"}

\* What each step of the loop works on.
Control ==
  /\ at \in {"idle", "init", "prefill", "evict prefill", "alloc prefill",
             "decode", "evict decode", "alloc decode", "filter", "free"}
  /\ status \in [Req -> {"waiting", "running", "done"}]
  /\ batch \in SUBSET Req /\ todo \in SUBSET Req
  /\ at \in {"init", "filter"} <=> todo # {}
  /\ at = "init" => todo \subseteq Waiting \cap batch /\ batch \ todo \subseteq Running
  /\ at = "filter" => todo \subseteq Running
  /\ Prefilling \/ Decoding => batch \subseteq Running
  /\ ~Evicting => to_evict = 0
  /\ ~Evicting /\ at \notin {"filter", "free"} => free_token_index = <<>>

\* A request that does not run has no token and holds no node; one that runs has a
\* token to compute.
Texts ==
  /\ input_token_ids \in [Req -> Seq(Token) \ {<<>>}]
  /\ cur_kv_len \in [Req -> Nat]
  /\ shared_kv_node \in [Req -> tree.nodes]
  /\ \A r \in Req : /\ cur_kv_len[r] < Len(input_token_ids[r])
                    /\ status[r] # "running" => cur_kv_len[r] = 0 /\ shared_kv_node[r] = NoNode

\* The requests of a group enter together, with one prompt and one cached prefix.
\* While they enter the tree keeps its entries, so that the second looks up as much
\* as the first.
CachedLen(r) == MatchLen(tree, FirstN(Prompt[r], Len(Prompt[r]) - 1))
GroupsTogether ==
  /\ \A r \in Req : status[r] = "waiting" => input_token_ids[r] = Prompt[r]
  /\ at = "init" \/ Prefilling =>
       \A r \in batch : Members(GroupOf[r]) \subseteq batch /\ input_token_ids[r] = Prompt[r]
  /\ at = "init" => \A r \in batch \ todo : cur_kv_len[r] = CachedLen(r)
  /\ Prefilling => \A r \in batch : cur_kv_len[r] = cur_kv_len[HeadOf(r)]

\* The tree is well-formed, and its counts are those of the requests that hold nodes.
Accounted == TreeOK(tree) /\ RefsOK(tree, shared_kv_node) /\ CountersOK(tree)

TreeInv == Control /\ Texts /\ GroupsTogether /\ Accounted

LEMMA MinFacts ==
  ASSUME NEW S \in SUBSET Req, S # {}
  PROVE  Min(S) \in S /\ \A s \in S : Min(S) <= s
<1>1. S \subseteq Nat
  BY PromptCacheAssumption
<1>2. \E m \in S : \A s \in S : m <= s
  BY <1>1, MinElement
<1> QED
  BY <1>2 DEF Min

LEMMA HeadFacts ==
  ASSUME NEW r \in Req
  PROVE  /\ HeadOf(r) \in Members(GroupOf[r]) /\ HeadOf(r) \in Req
         /\ GroupOf[HeadOf(r)] = GroupOf[r] /\ HeadOf(HeadOf(r)) = HeadOf(r)
         /\ Prompt[HeadOf(r)] = Prompt[r]
<1>1. Members(GroupOf[r]) \in SUBSET Req /\ Members(GroupOf[r]) # {}
  BY DEF Members
<1>2. HeadOf(r) \in Members(GroupOf[r])
  BY <1>1, MinFacts DEF HeadOf
<1>3. HeadOf(r) \in Req /\ GroupOf[HeadOf(r)] = GroupOf[r]
  BY <1>2 DEF Members
<1>4. HeadOf(HeadOf(r)) = HeadOf(r)
  BY <1>3 DEF HeadOf
<1> QED
  BY <1>2, <1>3, <1>4, PromptCacheAssumption

LEMMA EmptyTreeOK ==
  ASSUME NEW hold, hold = [r \in Req |-> NoNode]
  PROVE  TreeOK(EmptyTree) /\ RefsOK(EmptyTree, hold) /\ CountersOK(EmptyTree)
<1>1. PICK t : t = EmptyTree
  OBVIOUS
<1>2. /\ t.nodes = {Root} /\ t.value = <<>> /\ t.ref_counter = [n \in {Root} |-> 1]
      /\ t.time_id = [n \in {Root} |-> 1] /\ t.prefix_total_len = [n \in {Root} |-> 0]
      /\ t.refed_tokens_num = 0 /\ t.tree_total_tokens_num = 0 /\ IsTree(t)
  BY <1>1 DEF EmptyTree, IsTree
<1>3. Root \in Seq(Token) /\ Len(Root) = 0 /\ DOMAIN <<>> = {}
  BY DEF Root
<1>4. \A x \in Seq(Token) : IsPrefix(x, Root) => x = Root
  BY <1>3, PrefixOrder
<1>5. Forks(t.nodes)
  <2> SUFFICES ASSUME NEW l \in t.nodes, NEW m \in t.nodes, NEW x \in Seq(Token),
                      IsPrefix(x, l), IsPrefix(x, m)
               PROVE  \E k \in t.nodes : IsPrefix(x, k) /\ IsPrefix(k, l) /\ IsPrefix(k, m)
    BY DEF Forks
  <2>1. l = Root /\ m = Root /\ IsPrefix(Root, Root)
    BY <1>2, <1>3, PrefixOrder
  <2> QED
    BY <2>1
<1>6. NodesOK(t.nodes)
  BY <1>2, <1>3, <1>5, FS_Singleton DEF NodesOK
<1>7. KeepsInside(t)
  BY <1>2, <1>3, <1>4 DEF KeepsInside, Inside
<1>8. TreeOK(t)
  BY <1>2, <1>3, <1>6, <1>7 DEF TreeOK
<1>9. RefsOK(t, hold)
  <2>1. \A n : HoldersOf(hold, n) = {}
    BY DEF HoldersOf
  <2> QED
    BY <1>2, <2>1, FS_EmptySet DEF RefsOK
<1>10. CountersOK(t)
  <2>1. PrefixesOf(Root) = {}
    BY <1>3 DEF PrefixesOf
  <2>2. EdgeTokens(t, Root) = {}
    BY <2>1 DEF EdgeTokens
  <2>3. \A S : S \subseteq {Root} => TokensOf(t, S) = 0
    <3> SUFFICES ASSUME NEW S, S \subseteq {Root} PROVE TokensOf(t, S) = 0
      OBVIOUS
    <3>1. UNION {EdgeTokens(t, n) : n \in S} = {}
      BY <2>2
    <3> QED
      BY <3>1, FS_EmptySet DEF TokensOf
  <2> QED
    BY <1>2, <2>3 DEF CountersOK, Referenced
<1> QED
  BY <1>1, <1>8, <1>9, <1>10

LEMMA InitTree == Init => TreeInv
<1> SUFFICES ASSUME Init PROVE TreeInv
  OBVIOUS
<1>1. Control
  BY DEF Init, Control, Prefilling, Decoding, Evicting
<1>2. Accounted
  BY EmptyTreeOK DEF Init, Accounted
<1>3. Texts
  <2>1. Prompt \in [Req -> Seq(Token) \ {<<>>}]
    BY PromptCacheAssumption
  <2>2. Root \in tree.nodes
    BY <1>2 DEF Accounted, TreeOK, NodesOK
  <2>3. \A r \in Req : Len(Prompt[r]) > 0
    BY PromptCacheAssumption
  <2> QED
    BY <2>1, <2>2, <2>3 DEF Init, Texts, NoNode
<1>4. GroupsTogether
  BY DEF Init, GroupsTogether, Prefilling
<1> QED
  BY <1>1, <1>2, <1>3, <1>4 DEF TreeInv

LEMMA AddBatchTree ==
  ASSUME TreeInv, NEW new \in SUBSET Waiting, AddBatch(new)
  PROVE  TreeInv'
<1> USE DEF TreeInv
<1>1. Control'
  BY DEF AddBatch, reqVars, Control, Prefilling, Decoding, Evicting, Waiting, Running
<1>2. Texts' /\ Accounted'
  BY DEF AddBatch, reqVars, Texts, Accounted
<1>3. GroupsTogether'
  BY DEF AddBatch, reqVars, GroupsTogether, Prefilling, Members, Waiting
<1> QED
  BY <1>1, <1>2, <1>3

LEMMA StartDecodeTree ==
  ASSUME TreeInv, StartDecode
  PROVE  TreeInv'
<1> USE DEF TreeInv
<1>1. Control'
  BY DEF StartDecode, reqVars, Control, Prefilling, Decoding, Evicting, Waiting, Running
<1>2. Texts' /\ Accounted'
  BY DEF StartDecode, reqVars, Texts, Accounted
<1>3. GroupsTogether'
  BY DEF StartDecode, reqVars, GroupsTogether, Prefilling, Members, Waiting
<1> QED
  BY <1>1, <1>2, <1>3

LEMMA FreeBatchTree ==
  ASSUME TreeInv, FreeBatch
  PROVE  TreeInv'
<1> USE DEF TreeInv
<1>1. Control'
  BY DEF FreeBatch, reqVars, Control, Prefilling, Decoding, Evicting, Waiting, Running
<1>2. Texts' /\ Accounted'
  BY DEF FreeBatch, reqVars, Texts, Accounted
<1>3. GroupsTogether'
  BY DEF FreeBatch, reqVars, GroupsTogether, Prefilling, Members, Waiting
<1> QED
  BY <1>1, <1>2, <1>3

LEMMA PrepareTree ==
  ASSUME TreeInv, NEW kind \in {"prefill", "decode"}, Prepare(kind)
  PROVE  TreeInv'
<1> USE DEF TreeInv
<1>1. Control'
  BY DEF Prepare, EvictFor, AllocFor, reqVars, Control, Prefilling, Decoding, Evicting, Waiting, Running
<1>2. Texts' /\ Accounted'
  BY DEF Prepare, reqVars, Texts, Accounted
<1>3. GroupsTogether'
  BY DEF Prepare, EvictFor, AllocFor, reqVars, GroupsTogether, Prefilling, Members, HeadOf
<1> QED
  BY <1>1, <1>2, <1>3

LEMMA EvictTree ==
  ASSUME TreeInv, NEW kind \in {"prefill", "decode"}, Evict(kind)
  PROVE  TreeInv'
<1> USE DEF TreeInv
<1>1. Control'
  BY DEF Evict, EvictFor, AllocFor, reqVars, Control, Prefilling, Decoding, Evicting, Waiting, Running
<1>2. TreeOK(tree) /\ RefsOK(tree, shared_kv_node) /\ CountersOK(tree) /\ Evictable(tree)
      /\ shared_kv_node \in [Req -> tree.nodes] /\ tree' = PopFirst(tree)
  BY DEF Evict, Texts, Accounted
<1>3. TreeOK(tree') /\ shared_kv_node \in [Req -> tree'.nodes]
      /\ RefsOK(tree', shared_kv_node) /\ CountersOK(tree')
  BY <1>2, PopFacts
<1>4. Texts' /\ Accounted'
  BY <1>3 DEF Evict, reqVars, Texts, Accounted
<1>5. GroupsTogether'
  BY DEF Evict, EvictFor, AllocFor, reqVars, GroupsTogether, Prefilling, Members, HeadOf
<1> QED
  BY <1>1, <1>4, <1>5

LEMMA ForwardTree ==
  ASSUME TreeInv, NEW kind \in {"prefill", "decode"}, Forward(kind)
  PROVE  TreeInv'
<1> USE DEF TreeInv
<1>1. PICK sampled \in [batch -> Token], ended \in SUBSET batch :
        /\ cur_kv_len' = [r \in Req |-> IF r \in batch THEN Len(input_token_ids[r]) ELSE cur_kv_len[r]]
        /\ input_token_ids' = [r \in Req |-> IF r \in batch THEN Append(input_token_ids[r], sampled[r])
                                             ELSE input_token_ids[r]]
        /\ todo' = ended /\ batch' = {}
        /\ at' = IF ended = {} THEN "idle" ELSE "filter"
  BY DEF Forward
<1>2. /\ at = AllocFor(kind) /\ UNCHANGED <<tree, shared_kv_node, status, to_evict, free_token_index>>
  BY DEF Forward
<1>3. batch \subseteq Running /\ batch \subseteq Req
  BY <1>2 DEF AllocFor, Control, Prefilling, Decoding
<1>4. Control'
  BY <1>1, <1>2, <1>3 DEF AllocFor, Control, Prefilling, Decoding, Evicting, Running, Waiting
<1>5. Texts'
  <2>1. \A r \in batch : /\ input_token_ids'[r] \in Seq(Token) \ {<<>>}
                         /\ Len(input_token_ids'[r]) = Len(input_token_ids[r]) + 1
                         /\ Len(input_token_ids[r]) \in Nat
    <3>1. TAKE r \in batch
    <3>2. input_token_ids[r] \in Seq(Token) /\ sampled[r] \in Token /\ r \in Req
      BY <1>3 DEF Texts
    <3>3. Append(input_token_ids[r], sampled[r]) \in Seq(Token)
          /\ Len(Append(input_token_ids[r], sampled[r])) = Len(input_token_ids[r]) + 1
          /\ Len(input_token_ids[r]) \in Nat
      BY <3>2
    <3>4. Append(input_token_ids[r], sampled[r]) # <<>>
      BY <3>3
    <3> QED
      BY <1>1, <3>2, <3>3, <3>4
  <2>2. input_token_ids' \in [Req -> Seq(Token) \ {<<>>}]
    BY <1>1, <2>1 DEF Texts
  <2>3. cur_kv_len' \in [Req -> Nat] /\ \A r \in Req : cur_kv_len'[r] < Len(input_token_ids'[r])
    BY <1>1, <2>1 DEF Texts
  <2>4. \A r \in Req : status[r] # "running" => cur_kv_len'[r] = 0 /\ shared_kv_node[r] = NoNode
    BY <1>1, <1>3 DEF Texts, Running
  <2> QED
    BY <1>2, <2>2, <2>3, <2>4 DEF Texts
<1>6. Accounted'
  BY <1>2 DEF Accounted
<1>7. GroupsTogether'
  BY <1>1, <1>2, <1>3 DEF GroupsTogether, Prefilling, Running
<1> QED
  BY <1>4, <1>5, <1>6, <1>7

\* What init_batch looks up for one request.
LEMMA InitReqFacts ==
  ASSUME TreeInv, at = "init", NEW r, r = Min(todo), NEW key,
         key = FirstN(input_token_ids[r], Len(input_token_ids[r]) - 1)
  PROVE  /\ r \in todo /\ r \in Req /\ r \in batch /\ r \notin Running
         /\ shared_kv_node[r] = NoNode /\ cur_kv_len[r] = 0
         /\ input_token_ids[r] = Prompt[r] /\ input_token_ids[r] \in Seq(Token) \ {<<>>}
         /\ key \in Seq(Token) /\ Len(key) = Len(input_token_ids[r]) - 1
         /\ CachedLen(r) = MatchLen(tree, key) /\ CachedLen(r) \in 0..Len(key)
         /\ key = <<>> => CachedLen(r) = 0
<1> USE DEF TreeInv
<1>1. r \in todo /\ r \in Req
  BY MinFacts DEF Control
<1>2. r \in batch /\ status[r] = "waiting" /\ r \notin Running
  BY <1>1 DEF Control, Waiting, Running
<1>3. /\ shared_kv_node[r] = NoNode /\ cur_kv_len[r] = 0
      /\ input_token_ids[r] = Prompt[r] /\ input_token_ids[r] \in Seq(Token) \ {<<>>}
  BY <1>1, <1>2 DEF Texts, GroupsTogether
<1>4. PICK s \in Seq(Token) \ {<<>>} : s = input_token_ids[r]
  BY <1>3
<1>5. Len(s) - 1 \in 0..Len(s)
  BY <1>4
<1>6. key \in Seq(Token) /\ Len(key) = Len(s) - 1
  BY <1>4, <1>5, FirstNFacts
<1>7. CachedLen(r) = MatchLen(tree, key)
  BY <1>3 DEF CachedLen
<1>8. MatchLen(tree, key) \in 0..Len(key)
  BY <1>6, MatchLenFacts DEF Accounted, TreeOK
<1> QED
  BY <1>1, <1>2, <1>3, <1>4, <1>6, <1>7, <1>8

\* The lookup: the node found, and the tree afterwards.
LEMMA LookupFacts ==
  ASSUME TreeInv, at = "init", NEW r, r = Min(todo), NEW key,
         key = FirstN(input_token_ids[r], Len(input_token_ids[r]) - 1),
         NEW got, got = MatchPrefix(tree, key)
  PROVE  /\ got.node = FirstN(key, CachedLen(r)) /\ got.node \in Seq(Token)
         /\ Len(got.node) = CachedLen(r)
         /\ TreeOK(got.tree) /\ got.tree.value = tree.value
         /\ tree.nodes \subseteq got.tree.nodes
         /\ got.node \in got.tree.nodes /\ got.tree.prefix_total_len[got.node] = CachedLen(r)
         /\ [shared_kv_node EXCEPT ![r] = got.node] \in [Req -> got.tree.nodes]
         /\ RefsOK(got.tree, [shared_kv_node EXCEPT ![r] = got.node])
         /\ CountersOK(got.tree)
<1>1. /\ r \in Req /\ shared_kv_node[r] = NoNode /\ key \in Seq(Token)
      /\ CachedLen(r) = MatchLen(tree, key) /\ CachedLen(r) \in 0..Len(key)
  BY InitReqFacts
<1>2. PICK found : found = FirstN(key, MatchLen(tree, key))
  OBVIOUS
<1>3. TreeOK(tree) /\ shared_kv_node \in [Req -> tree.nodes] /\ RefsOK(tree, shared_kv_node)
      /\ CountersOK(tree)
  BY DEF TreeInv, Accounted, Texts
<1>4. /\ got.node = found /\ found \in got.tree.nodes
      /\ TreeOK(got.tree) /\ tree.nodes \subseteq got.tree.nodes /\ got.tree.value = tree.value
      /\ RefsOK(got.tree, [shared_kv_node EXCEPT ![r] = found])
      /\ CountersOK(got.tree)
  <2>1. Matched(tree, [shared_kv_node EXCEPT ![r] = found], found, got)
    BY <1>1, <1>2, <1>3, MatchFacts
  <2> QED
    BY <1>3, <2>1 DEF Matched
<1>5. found \in Seq(Token) /\ Len(found) = CachedLen(r)
  BY <1>1, <1>2, FirstNFacts
<1>6. got.tree.prefix_total_len[got.node] = Len(found)
  BY <1>4 DEF TreeOK
<1>7. [shared_kv_node EXCEPT ![r] = got.node] \in [Req -> got.tree.nodes]
  BY <1>1, <1>3, <1>4
<1> QED
  BY <1>1, <1>2, <1>4, <1>5, <1>6, <1>7

LEMMA InitReqTree ==
  ASSUME TreeInv, InitReq
  PROVE  TreeInv'
<1> USE DEF TreeInv
<1>1. PICK r : r = Min(todo)
  OBVIOUS
<1>2. PICK key : key = FirstN(input_token_ids[r], Len(input_token_ids[r]) - 1)
  OBVIOUS
<1>3. PICK got : got = MatchPrefix(tree, key)
  OBVIOUS
<1>4. /\ at = "init"
      /\ status' = [status EXCEPT ![r] = "running"]
      /\ todo' = todo \ {r}
      /\ at' = IF todo = {r} THEN "prefill" ELSE "init"
      /\ UNCHANGED <<input_token_ids, batch, to_evict, free_token_index>>
      /\ key = <<>> => UNCHANGED <<tree, shared_kv_node, cur_kv_len>>
      /\ key # <<>> =>
           /\ tree' = got.tree
           /\ got.node = Root => UNCHANGED <<shared_kv_node, cur_kv_len>>
           /\ got.node # Root =>
                /\ shared_kv_node' = [shared_kv_node EXCEPT ![r] = got.node]
                /\ cur_kv_len' = [cur_kv_len EXCEPT ![r] = got.tree.prefix_total_len[got.node]]
  BY <1>1, <1>2, <1>3 DEF InitReq
<1>5. /\ r \in todo /\ r \in Req /\ r \in batch /\ r \notin Running
      /\ shared_kv_node[r] = NoNode /\ cur_kv_len[r] = 0
      /\ input_token_ids[r] = Prompt[r] /\ input_token_ids[r] \in Seq(Token) \ {<<>>}
      /\ key \in Seq(Token) /\ Len(key) = Len(input_token_ids[r]) - 1
      /\ CachedLen(r) = MatchLen(tree, key) /\ CachedLen(r) \in 0..Len(key)
      /\ key = <<>> => CachedLen(r) = 0
  BY <1>1, <1>2, <1>4, InitReqFacts
<1>6. /\ got.node = FirstN(key, CachedLen(r)) /\ got.node \in Seq(Token)
      /\ Len(got.node) = CachedLen(r)
      /\ TreeOK(got.tree) /\ got.tree.value = tree.value
      /\ tree.nodes \subseteq got.tree.nodes
      /\ got.node \in got.tree.nodes /\ got.tree.prefix_total_len[got.node] = CachedLen(r)
      /\ [shared_kv_node EXCEPT ![r] = got.node] \in [Req -> got.tree.nodes]
      /\ RefsOK(got.tree, [shared_kv_node EXCEPT ![r] = got.node])
      /\ CountersOK(got.tree)
  BY <1>1, <1>2, <1>3, <1>4, LookupFacts
<1>7. /\ shared_kv_node \in [Req -> tree.nodes] /\ cur_kv_len \in [Req -> Nat]
      /\ TreeOK(tree) /\ RefsOK(tree, shared_kv_node) /\ CountersOK(tree)
  BY DEF Texts, Accounted
<1>8. /\ cur_kv_len' = [cur_kv_len EXCEPT ![r] = CachedLen(r)]
      /\ tree'.value = tree.value
      /\ shared_kv_node' \in [Req -> tree'.nodes]
      /\ \A s \in Req \ {r} : shared_kv_node'[s] = shared_kv_node[s]
      /\ TreeOK(tree') /\ RefsOK(tree', shared_kv_node') /\ CountersOK(tree')
  <2>1. CASE key = <<>>
    <3>1. cur_kv_len = [cur_kv_len EXCEPT ![r] = CachedLen(r)]
      BY <1>5, <1>7, <2>1
    <3> QED
      BY <1>4, <1>7, <2>1, <3>1
  <2>2. CASE key # <<>> /\ got.node = Root
    <3>1. Len(got.node) = 0
      BY <2>2 DEF Root
    <3>2. cur_kv_len = [cur_kv_len EXCEPT ![r] = CachedLen(r)]
      BY <1>5, <1>6, <1>7, <3>1
    <3>3. shared_kv_node = [shared_kv_node EXCEPT ![r] = got.node]
      BY <1>5, <1>7, <2>2 DEF NoNode
    <3> QED
      BY <1>4, <1>6, <2>2, <3>2, <3>3
  <2>3. CASE key # <<>> /\ got.node # Root
    <3>1. shared_kv_node' = [shared_kv_node EXCEPT ![r] = got.node] /\ tree' = got.tree
          /\ cur_kv_len' = [cur_kv_len EXCEPT ![r] = CachedLen(r)]
      BY <1>4, <1>6, <2>3
    <3>2. \A s \in Req \ {r} : shared_kv_node'[s] = shared_kv_node[s]
      BY <1>7, <3>1
    <3> QED
      BY <1>6, <3>1, <3>2
  <2> QED
    BY <2>1, <2>2, <2>3
<1>9. Control'
  <2>1. todo \in SUBSET Req /\ batch \in SUBSET Req /\ status \in [Req -> {"waiting", "running", "done"}]
        /\ todo \subseteq Waiting \cap batch /\ batch \ todo \subseteq Running
        /\ to_evict = 0 /\ free_token_index = <<>>
    BY <1>4 DEF Control, Evicting
  <2>2. todo' \subseteq Waiting' /\ batch \ todo' \subseteq Running'
    BY <1>4, <1>5, <2>1 DEF Waiting, Running
  <2>3. todo' \in SUBSET Req /\ status' \in [Req -> {"waiting", "running", "done"}]
        /\ todo' \subseteq batch /\ batch' = batch /\ to_evict' = 0 /\ free_token_index' = <<>>
    BY <1>4, <1>5, <2>1
  <2>4. (at' = "init" /\ todo' # {}) \/ (at' = "prefill" /\ todo' = {})
    BY <1>4, <1>5
  <2> QED
    BY <2>1, <2>2, <2>3, <2>4 DEF Control, Prefilling, Decoding, Evicting
<1>10. Texts'
  <2>1. \A s \in Req : cur_kv_len'[s] = IF s = r THEN CachedLen(r) ELSE cur_kv_len[s]
    BY <1>7, <1>8
  <2>2. \A s \in Req : cur_kv_len'[s] \in Nat /\ cur_kv_len'[s] < Len(input_token_ids[s])
    <3>1. \A s \in Req : cur_kv_len[s] \in Nat /\ cur_kv_len[s] < Len(input_token_ids[s])
      BY DEF Texts
    <3>2. CachedLen(r) \in Nat /\ CachedLen(r) < Len(input_token_ids[r])
      BY <1>5
    <3> QED
      BY <2>1, <3>1, <3>2
  <2>3. cur_kv_len' \in [Req -> Nat]
    BY <1>5, <1>7, <1>8
  <2>4. \A s \in Req : status'[s] # "running" => cur_kv_len'[s] = 0 /\ shared_kv_node'[s] = NoNode
    <3> SUFFICES ASSUME NEW s \in Req, status'[s] # "running"
                 PROVE  cur_kv_len'[s] = 0 /\ shared_kv_node'[s] = NoNode
      OBVIOUS
    <3>1. s # r /\ status[s] # "running"
      BY <1>4, <1>5 DEF Control
    <3> QED
      BY <1>8, <2>1, <3>1 DEF Texts
  <2> QED
    BY <1>4, <1>8, <2>2, <2>3, <2>4 DEF Texts
<1>11. GroupsTogether'
  <2>1. \A s : CachedLen(s)' = CachedLen(s)
    BY <1>8 DEF CachedLen, MatchLen
  <2>2. \A s \in batch \ todo' : cur_kv_len'[s] = CachedLen(s)
    <3> SUFFICES ASSUME NEW s \in batch \ todo' PROVE cur_kv_len'[s] = CachedLen(s)
      OBVIOUS
    <3>1. CASE s = r
      BY <1>5, <1>7, <1>8, <3>1
    <3>2. CASE s # r
      <4>1. s \in batch \ todo /\ s \in Req
        BY <1>4, <3>2 DEF Control
      <4>2. cur_kv_len[s] = CachedLen(s)
        BY <1>4, <4>1 DEF GroupsTogether
      <4> QED
        BY <1>7, <1>8, <3>2, <4>1, <4>2
    <3> QED
      BY <3>1, <3>2
  <2>3. \A s \in batch : Members(GroupOf[s]) \subseteq batch /\ input_token_ids[s] = Prompt[s]
    BY <1>4 DEF GroupsTogether
  <2>4. ASSUME at' # "init" PROVE \A s \in batch : cur_kv_len'[s] = cur_kv_len'[HeadOf(s)]
    <3> SUFFICES ASSUME NEW s \in batch PROVE cur_kv_len'[s] = cur_kv_len'[HeadOf(s)]
      OBVIOUS
    <3>1. todo' = {}
      BY <1>4, <2>4
    <3>2. s \in Req /\ HeadOf(s) \in batch /\ Prompt[HeadOf(s)] = Prompt[s]
      <4>1. s \in Req
        BY DEF Control
      <4> QED
        BY <2>3, <4>1, HeadFacts
    <3> QED
      BY <2>2, <3>1, <3>2 DEF CachedLen
  <2>5. \A s \in Req : status'[s] = "waiting" => input_token_ids[s] = Prompt[s]
    <3> SUFFICES ASSUME NEW s \in Req, status'[s] = "waiting"
                 PROVE  input_token_ids[s] = Prompt[s]
      OBVIOUS
    <3>1. status[s] = "waiting"
      BY <1>4, <1>5 DEF Control
    <3> QED
      BY <3>1 DEF GroupsTogether
  <2>6. \A s \in batch : Members(GroupOf[s])' \subseteq batch
    BY <2>3 DEF Members
  <2>7. \A s \in batch : HeadOf(s)' = HeadOf(s)
    BY DEF HeadOf, Members
  <2> QED
    BY <1>4, <2>1, <2>2, <2>3, <2>4, <2>5, <2>6, <2>7 DEF GroupsTogether, Prefilling
<1>12. Accounted'
  BY <1>8 DEF Accounted
<1> QED
  BY <1>9, <1>10, <1>11, <1>12

\* The request that _free_a_req_mem releases, and its text.
LEMMA ReleasedFacts ==
  ASSUME TreeInv, at = "filter", NEW r, r = Min(todo), NEW key,
         key = FirstN(input_token_ids[r], cur_kv_len[r])
  PROVE  /\ r \in todo /\ r \in Req /\ r \in Running
         /\ key \in Seq(Token) /\ Len(key) = cur_kv_len[r]
         /\ input_token_ids[r] \in Seq(Token) /\ cur_kv_len[r] \in 0..Len(input_token_ids[r])
<1> USE DEF TreeInv
<1>1. r \in todo /\ r \in Req
  BY MinFacts DEF Control
<1>2. r \in Running
  BY <1>1 DEF Control
<1>3. PICK s \in Seq(Token), l \in Nat : s = input_token_ids[r] /\ l = cur_kv_len[r] /\ l < Len(s)
  BY <1>1 DEF Texts
<1>4. l \in 0..Len(s)
  BY <1>3
<1>5. key \in Seq(Token) /\ Len(key) = l
  BY <1>3, <1>4, FirstNFacts
<1> QED
  BY <1>1, <1>2, <1>3, <1>4, <1>5

\* The tree after a request has given its node up and perhaps left its text.
Released(r, key, t) ==
  /\ TreeOK(t) /\ tree.nodes \subseteq t.nodes
  /\ RefsOK(t, [shared_kv_node EXCEPT ![r] = NoNode]) /\ CountersOK(t)
  /\ IsLast(r) =>
       /\ DOMAIN t.value = DOMAIN tree.value \cup PrefixesOf(key)
       /\ \A q \in DOMAIN tree.value : t.value[q] = tree.value[q]
       /\ \A q \in PrefixesOf(key) : Len(q) > MatchLen(tree, key) => t.value[q] = row[r][Len(q)]
       /\ \A q \in PrefixesOf(key) : Len(q) <= MatchLen(tree, key) <=> q \in DOMAIN tree.value
  /\ ~IsLast(r) => t.value = tree.value

LEMMA ReleasedTree ==
  ASSUME TreeInv, NEW r \in Req, NEW key \in Seq(Token),
         NEW t, t = IF IsLast(r) THEN HandOver(tree, key, row[r], shared_kv_node[r])
                    ELSE GiveUp(tree, shared_kv_node[r])
  PROVE  Released(r, key, t)
<1>1. TreeOK(tree) /\ shared_kv_node \in [Req -> tree.nodes] /\ RefsOK(tree, shared_kv_node)
      /\ CountersOK(tree)
  BY DEF TreeInv, Accounted, Texts
<1>2. CASE IsLast(r)
  <2>1. t = HandOver(tree, key, row[r], shared_kv_node[r])
    BY <1>2
  <2>2. HandedOver(tree, [shared_kv_node EXCEPT ![r] = NoNode], key, row[r], t)
    BY <1>1, <2>1, HandOverFacts
  <2> QED
    BY <1>1, <1>2, <2>2 DEF Released, HandedOver
<1>3. CASE ~IsLast(r)
  <2>1. t = GiveUp(tree, shared_kv_node[r])
    BY <1>3
  <2>2. /\ TreeOK(t) /\ t.nodes = tree.nodes /\ t.value = tree.value
        /\ RefsOK(t, [shared_kv_node EXCEPT ![r] = NoNode])
        /\ CountersOK(tree) => CountersOK(t)
    BY <1>1, <2>1, GiveUpFacts
  <2> QED
    BY <1>1, <1>3, <2>2 DEF Released
<1> QED
  BY <1>2, <1>3

LEMMA FreeAReqMemTree ==
  ASSUME TreeInv, FreeAReqMem
  PROVE  TreeInv'
<1> USE DEF TreeInv
<1>1. PICK r : r = Min(todo)
  OBVIOUS
<1>2. PICK key : key = FirstN(input_token_ids[r], cur_kv_len[r])
  OBVIOUS
<1>3. /\ at = "filter"
      /\ tree' = IF IsLast(r) THEN HandOver(tree, key, row[r], shared_kv_node[r])
                 ELSE GiveUp(tree, shared_kv_node[r])
      /\ shared_kv_node' = [shared_kv_node EXCEPT ![r] = NoNode]
      /\ cur_kv_len' = [cur_kv_len EXCEPT ![r] = 0]
      /\ status' = [status EXCEPT ![r] = "done"]
      /\ todo' = todo \ {r}
      /\ at' = IF todo = {r} THEN "free" ELSE "filter"
      /\ UNCHANGED <<input_token_ids, batch, to_evict>>
  BY <1>1, <1>2 DEF FreeAReqMem
<1>4. /\ r \in todo /\ r \in Req /\ r \in Running
      /\ key \in Seq(Token)
  BY <1>1, <1>2, <1>3, ReleasedFacts
<1>5. Released(r, key, tree')
  BY <1>3, <1>4, ReleasedTree
<1>6. TreeOK(tree') /\ RefsOK(tree', shared_kv_node') /\ CountersOK(tree')
      /\ tree.nodes \subseteq tree'.nodes
  BY <1>3, <1>5 DEF Released
<1>7. Control'
  <2>1. todo \in SUBSET Req /\ batch \in SUBSET Req /\ status \in [Req -> {"waiting", "running", "done"}]
        /\ todo \subseteq Running /\ to_evict = 0
    BY <1>3 DEF Control, Evicting
  <2>2. todo' \subseteq Running'
    BY <1>3, <1>4, <2>1 DEF Running
  <2>3. todo' \in SUBSET Req /\ status' \in [Req -> {"waiting", "running", "done"}]
        /\ batch' = batch /\ to_evict' = 0
    BY <1>3, <1>4, <2>1
  <2>4. (at' = "filter" /\ todo' # {}) \/ (at' = "free" /\ todo' = {})
    BY <1>3, <1>4
  <2> QED
    BY <2>1, <2>2, <2>3, <2>4 DEF Control, Prefilling, Decoding, Evicting
<1>8. Texts'
  <2>1. Root \in tree'.nodes
    BY <1>6 DEF TreeOK, NodesOK
  <2>2. shared_kv_node' \in [Req -> tree'.nodes]
    BY <1>3, <1>6, <2>1 DEF Texts, NoNode
  <2>3. \A s \in Req : cur_kv_len'[s] = IF s = r THEN 0 ELSE cur_kv_len[s]
    BY <1>3 DEF Texts
  <2>4. \A s \in Req : cur_kv_len'[s] < Len(input_token_ids[s])
    <3>1. \A s \in Req : cur_kv_len[s] \in Nat /\ cur_kv_len[s] < Len(input_token_ids[s])
                         /\ Len(input_token_ids[s]) \in Nat
      BY DEF Texts
    <3> QED
      BY <2>3, <3>1
  <2>5. \A s \in Req : status'[s] # "running" => cur_kv_len'[s] = 0 /\ shared_kv_node'[s] = NoNode
    <3> SUFFICES ASSUME NEW s \in Req, status'[s] # "running"
                 PROVE  cur_kv_len'[s] = 0 /\ shared_kv_node'[s] = NoNode
      OBVIOUS
    <3>1. CASE s = r
      BY <1>3, <2>3, <3>1 DEF Texts
    <3>2. CASE s # r
      <4>1. status[s] # "running"
        BY <1>3, <3>2 DEF Control
      <4>2. cur_kv_len[s] = 0 /\ shared_kv_node[s] = NoNode
        BY <4>1 DEF Texts
      <4> QED
        BY <1>3, <2>3, <3>2, <4>2 DEF Texts
    <3> QED
      BY <3>1, <3>2
  <2>6. cur_kv_len' \in [Req -> Nat]
    BY <1>3 DEF Texts
  <2> QED
    BY <1>3, <2>2, <2>4, <2>5, <2>6 DEF Texts
<1>9. GroupsTogether'
  <2>1. \A s \in Req : status'[s] = "waiting" => status[s] = "waiting"
    BY <1>3 DEF Control
  <2>2. at' # "init" /\ ~Prefilling'
    BY <1>3 DEF Prefilling
  <2> QED
    BY <1>3, <2>1, <2>2 DEF GroupsTogether
<1>10. Accounted'
  BY <1>6 DEF Accounted
<1> QED
  BY <1>7, <1>8, <1>9, <1>10

LEMMA TreeStep == TreeInv /\ [Next]_vars => TreeInv'
<1> SUFFICES ASSUME TreeInv, [Next]_vars PROVE TreeInv'
  OBVIOUS
<1>1. CASE UNCHANGED vars
  <2>1. UNCHANGED <<tree, input_token_ids, cur_kv_len, row, shared_kv_node, status,
                    at, batch, todo, to_evict, free_token_index>>
    BY <1>1 DEF vars, reqVars, loopVars
  <2>2. Control' /\ Texts' /\ Accounted'
    BY <2>1 DEF TreeInv, Control, Prefilling, Decoding, Evicting, Waiting, Running, Texts, Accounted
  <2>3. GroupsTogether'
    BY <2>1 DEF TreeInv, GroupsTogether, Prefilling, Members, HeadOf, CachedLen
  <2> QED
    BY <2>2, <2>3 DEF TreeInv
<1>2. ASSUME NEW new \in SUBSET Waiting, AddBatch(new) PROVE TreeInv'
  BY <1>2, AddBatchTree
<1>3. CASE InitReq
  BY <1>3, InitReqTree
<1>4. CASE StartDecode
  BY <1>4, StartDecodeTree
<1>5. ASSUME NEW kind \in {"prefill", "decode"}, Prepare(kind) PROVE TreeInv'
  BY <1>5, PrepareTree
<1>6. ASSUME NEW kind \in {"prefill", "decode"}, Evict(kind) PROVE TreeInv'
  BY <1>6, EvictTree
<1>7. ASSUME NEW kind \in {"prefill", "decode"}, Forward(kind) PROVE TreeInv'
  BY <1>7, ForwardTree
<1>8. CASE FreeAReqMem
  BY <1>8, FreeAReqMemTree
<1>9. CASE FreeBatch
  BY <1>9, FreeBatchTree
<1> QED
  BY <1>1, <1>2, <1>3, <1>4, <1>5, <1>6, <1>7, <1>8, <1>9 DEF Next

\* The radix tree is well-formed, and its counts are those of the requests that hold
\* its nodes (insert, match_prefix, split_node, dec_node_ref_counter, evict).
THEOREM TreeIsInvariant == Spec => []TreeInv
<1>1. Init => TreeInv
  BY InitTree
<1>2. TreeInv /\ [Next]_vars => TreeInv'
  BY TreeStep
<1> QED
  BY <1>1, <1>2, PTL DEF Spec

\* The references on the nodes and the two counters that the router reads from
\* shared memory are exact, over every split, match, hand-over and eviction.
THEOREM ReferencesExactCorrect == Spec => []ReferencesExact
<1>1. TreeInv => ReferencesExact
  BY DEF TreeInv, Accounted, TreeOK, RefsOK, HoldersOf, CountersOK, Referenced,
         ReferencesExact, RefsExact, CountersExact
<1> QED
  BY <1>1, TreeIsInvariant, PTL

\* The pool: rows and the tree's entries are pool tokens that hold their texts, and
\* every token is accounted for.
PoolTyped ==
  /\ row \in [Req -> Seq(PoolToken)] /\ \A r \in Req : Len(row[r]) = cur_kv_len[r]
  /\ \A q \in DOMAIN tree.value : tree.value[q] \in PoolToken
  /\ free_token_index \in Seq(PoolToken)
  /\ mem_state \in [PoolToken -> Nat]

PoolInv == PoolTyped /\ RightContent /\ TokensOwned

\* How often a pool token is in a sequence, in the tree, in rows.
Occ(s, p)       == Cardinality({i \in DOMAIN s : s[i] = p})
TreeCount(v, p) == Cardinality({q \in DOMAIN v : v[q] = p})
RowCount(w, p)  == Cardinality({r \in Req : p \in ToSet(w[r])})

LEMMA OwnersAre ==
  \A p : Owners(p) = TreeCount(tree.value, p) + RowCount(row, p) + Occ(free_token_index, p)
BY DEF Owners, Occ, TreeCount, RowCount

LEMMA OwnersNext ==
  \A p : Owners(p)' = TreeCount(tree'.value, p) + RowCount(row', p) + Occ(free_token_index', p)
BY DEF Owners, Occ, TreeCount, RowCount

LEMMA OccFacts ==
  ASSUME NEW S, NEW s \in Seq(S), NEW p
  PROVE  /\ IsFiniteSet({i \in DOMAIN s : s[i] = p}) /\ Occ(s, p) \in Nat
         /\ Occ(s, p) = 0 <=> p \notin ToSet(s)
<1>1. DOMAIN s = 1..Len(s) /\ IsFiniteSet(1..Len(s))
  BY FS_Interval
<1>2. PICK D \in SUBSET (1..Len(s)) : D = {i \in DOMAIN s : s[i] = p}
  BY <1>1
<1>3. IsFiniteSet(D) /\ Cardinality(D) \in Nat /\ (Cardinality(D) = 0 <=> D = {})
  BY <1>1, <1>2, FS_Subset, FS_CardinalityType, FS_EmptySet
<1>4. D = {} <=> p \notin ToSet(s)
  BY <1>2 DEF ToSet
<1> QED
  BY <1>2, <1>3, <1>4 DEF Occ

LEMMA OccConcat ==
  ASSUME NEW S, NEW s \in Seq(S), NEW t \in Seq(S), NEW p
  PROVE  Occ(s \o t, p) = Occ(s, p) + Occ(t, p)
<1>1. PICK A : A = {i \in DOMAIN s : s[i] = p}
  OBVIOUS
<1>2. PICK B : B = {i \in DOMAIN t : t[i] = p}
  OBVIOUS
<1>3. IsFiniteSet(A) /\ IsFiniteSet(B)
  BY <1>1, <1>2, OccFacts
<1>4. PICK m \in Nat, n \in Nat : m = Len(s) /\ n = Len(t)
  OBVIOUS
<1>5. A \subseteq 1..m /\ B \subseteq 1..n
  BY <1>1, <1>2, <1>4
<1>6. PICK C : C = {i \in (m+1)..(m+n) : t[i - m] = p}
  OBVIOUS
<1>7. IsFiniteSet(C) /\ Cardinality(C) = Cardinality(B)
  <2>1. PICK f \in [B -> C] : f = [i \in B |-> i + m]
    <3>1. \A i \in B : i + m \in C
      BY <1>2, <1>4, <1>5, <1>6
    <3> QED
      BY <3>1
  <2>2. \A x, y \in B : f[x] = f[y] => x = y
    BY <1>5, <2>1
  <2>3. \A z \in C : \E x \in B : f[x] = z
    <3> SUFFICES ASSUME NEW z \in C PROVE \E x \in B : f[x] = z
      OBVIOUS
    <3>1. z \in (m+1)..(m+n) /\ t[z - m] = p
      BY <1>6
    <3>2. z - m \in 1..n /\ (z - m) + m = z
      BY <3>1
    <3>3. z - m \in B
      BY <1>2, <1>4, <3>1, <3>2
    <3> QED
      BY <2>1, <3>2, <3>3
  <2> QED
    BY <1>3, <2>2, <2>3, OneToOne
<1>8. {i \in DOMAIN (s \o t) : (s \o t)[i] = p} = A \cup C
  <2>1. Len(s \o t) = m + n /\ s \o t \in Seq(S)
    BY <1>4
  <2>2. \A i \in 1..(m + n) : (s \o t)[i] = IF i <= m THEN s[i] ELSE t[i - m]
    BY <1>4
  <2>3. DOMAIN (s \o t) = 1..(m + n) /\ DOMAIN s = 1..m
    BY <1>4, <2>1
  <2>4. \A i \in 1..(m + n) : i <= m <=> i \in 1..m
    BY <1>4
  <2>5. \A i \in 1..(m + n) : ~(i <= m) <=> i \in (m+1)..(m+n)
    BY <1>4
  <2>6. ASSUME NEW i PROVE i \in {j \in DOMAIN (s \o t) : (s \o t)[j] = p} <=> i \in A \cup C
    <3>1. CASE i \in 1..m
      <4>1. i \in 1..(m+n) /\ i <= m /\ i \notin (m+1)..(m+n)
        BY <1>4, <3>1
      <4> QED
        BY <1>1, <1>6, <2>2, <2>3, <4>1
    <3>2. CASE i \in (m+1)..(m+n)
      <4>1. i \in 1..(m+n) /\ ~(i <= m) /\ i \notin 1..m
        BY <1>4, <3>2
      <4> QED
        BY <1>5, <1>6, <2>2, <2>3, <3>2, <4>1
    <3>3. CASE i \notin 1..m /\ i \notin (m+1)..(m+n)
      <4>1. i \notin 1..(m+n)
        BY <2>4, <2>5, <3>3
      <4> QED
        BY <1>5, <1>6, <2>3, <3>3, <4>1
    <3> QED
      BY <3>1, <3>2, <3>3
  <2> QED
    BY <2>6
<1>9. A \cap C = {}
  BY <1>4, <1>5, <1>6
<1>10. Cardinality(A \cup C) = Cardinality(A) + Cardinality(C)
  BY <1>3, <1>7, <1>9, CardDisjoint
<1> QED
  BY <1>1, <1>2, <1>7, <1>8, <1>10 DEF Occ

\* At most one element of a set has a property: counting tells whether one has.
LEMMA AtMostOne ==
  ASSUME NEW C, \A x, y \in C : x = y
  PROVE  IsFiniteSet(C) /\ Cardinality(C) = IF C = {} THEN 0 ELSE 1
<1>1. CASE C = {}
  BY <1>1, FS_EmptySet
<1>2. CASE C # {}
  <2>1. PICK x \in C : TRUE
    BY <1>2
  <2>2. C = {x}
    BY <2>1
  <2> QED
    BY <1>2, <2>2, FS_Singleton
<1> QED
  BY <1>1, <1>2

LEMMA OccOnce ==
  ASSUME NEW S, NEW s \in Seq(S), \A i, j \in DOMAIN s : s[i] = s[j] => i = j, NEW p
  PROVE  Occ(s, p) = IF p \in ToSet(s) THEN 1 ELSE 0
<1>1. PICK C : C = {i \in DOMAIN s : s[i] = p}
  OBVIOUS
<1>2. \A x, y \in C : x = y
  BY <1>1
<1>3. Cardinality(C) = IF C = {} THEN 0 ELSE 1
  BY <1>2, AtMostOne
<1>4. C = {} <=> p \notin ToSet(s)
  BY <1>1 DEF ToSet
<1> QED
  BY <1>1, <1>3, <1>4 DEF Occ

\* Each entry of the tree holds its own text, so no token is there twice.
LEMMA TreeCountFacts ==
  ASSUME NEW v, NEW held, \A q \in DOMAIN v : held[v[q]] = q, NEW p
  PROVE  TreeCount(v, p) = IF \E q \in DOMAIN v : v[q] = p THEN 1 ELSE 0
<1>1. PICK C : C = {q \in DOMAIN v : v[q] = p}
  OBVIOUS
<1>2. \A x, y \in C : x = y
  BY <1>1
<1>3. Cardinality(C) = IF C = {} THEN 0 ELSE 1
  BY <1>2, AtMostOne
<1> QED
  BY <1>1, <1>3 DEF TreeCount

LEMMA RowCountFacts ==
  ASSUME NEW w, NEW p
  PROVE  /\ IsFiniteSet({r \in Req : p \in ToSet(w[r])}) /\ RowCount(w, p) \in Nat
         /\ RowCount(w, p) = 0 <=> \A r \in Req : p \notin ToSet(w[r])
<1>1. PICK H \in SUBSET Req : H = {r \in Req : p \in ToSet(w[r])}
  OBVIOUS
<1>2. IsFiniteSet(H) /\ Cardinality(H) \in Nat /\ (Cardinality(H) = 0 <=> H = {})
  BY <1>1, PromptCacheAssumption, FS_Subset, FS_CardinalityType, FS_EmptySet
<1> QED
  BY <1>1, <1>2 DEF RowCount

\* One row is filled, or emptied.
LEMMA RowCountChange ==
  ASSUME NEW w, NEW after, NEW r \in Req, \A s \in Req \ {r} : after[s] = w[s],
         ToSet(w[r]) = {}, NEW p
  PROVE  RowCount(after, p) = RowCount(w, p) + (IF p \in ToSet(after[r]) THEN 1 ELSE 0)
<1>1. PICK H \in SUBSET Req : H = {s \in Req : p \in ToSet(w[s])}
  OBVIOUS
<1>2. IsFiniteSet(H) /\ Cardinality(H) \in Nat /\ r \notin H
  BY <1>1, PromptCacheAssumption, FS_Subset, FS_CardinalityType
<1>3. CASE p \in ToSet(after[r])
  <2>1. {s \in Req : p \in ToSet(after[s])} = H \cup {r}
    BY <1>1, <1>3
  <2>2. Cardinality(H \cup {r}) = Cardinality(H) + 1
    BY <1>2, FS_AddElement
  <2> QED
    BY <1>1, <1>3, <2>1, <2>2 DEF RowCount
<1>4. CASE p \notin ToSet(after[r])
  <2>1. {s \in Req : p \in ToSet(after[s])} = H
    BY <1>1, <1>2, <1>4
  <2>2. RowCount(after, p) = Cardinality(H)
    BY <2>1 DEF RowCount
  <2>3. RowCount(w, p) = Cardinality(H)
    BY <1>1 DEF RowCount
  <2> QED
    BY <1>2, <1>4, <2>2, <2>3
<1> QED
  BY <1>3, <1>4

LEMMA EmptyToSet == ToSet(<<>>) = {}
BY DEF ToSet

\* The tokens of a row are apart: each holds a text of its own length.
LEMMA RowsApart ==
  ASSUME TreeInv, PoolTyped, RightContent, NEW r \in Req
  PROVE  /\ row[r] \in Seq(PoolToken) /\ Len(row[r]) = cur_kv_len[r]
         /\ DOMAIN row[r] = 1..cur_kv_len[r] /\ cur_kv_len[r] \in Nat
         /\ \A i \in 1..cur_kv_len[r] : /\ row[r][i] \in PoolToken
                                        /\ content[row[r][i]] = FirstN(input_token_ids[r], i)
                                        /\ Len(content[row[r][i]]) = i
         /\ \A i, j \in 1..cur_kv_len[r] : row[r][i] = row[r][j] => i = j
<1>1. row[r] \in Seq(PoolToken) /\ Len(row[r]) = cur_kv_len[r]
  BY DEF PoolTyped
<1>2. DOMAIN row[r] = 1..cur_kv_len[r] /\ \A i \in 1..cur_kv_len[r] : row[r][i] \in PoolToken
  BY <1>1
<1>3. PICK s \in Seq(Token), l \in Nat : s = input_token_ids[r] /\ l = cur_kv_len[r] /\ l < Len(s)
  BY DEF TreeInv, Texts
<1>4. \A i \in 1..l : content[row[r][i]] = FirstN(s, i)
  BY <1>1, <1>3 DEF RightContent
<1>5. \A i \in 1..l : Len(FirstN(s, i)) = i
  <2>1. \A i \in 1..l : i \in 0..Len(s)
    BY <1>3
  <2> QED
    BY <2>1, FirstNFacts
<1>6. \A i \in 1..l : Len(content[row[r][i]]) = i
  BY <1>4, <1>5
<1> QED
  BY <1>1, <1>2, <1>3, <1>4, <1>6

\* A token that the tree, a row or a free under way has is not free.
LEMMA HasOwner ==
  ASSUME TreeInv, PoolInv, NEW p \in PoolToken
  PROVE  /\ TreeCount(tree.value, p) = IF \E q \in DOMAIN tree.value : tree.value[q] = p THEN 1 ELSE 0
         /\ RowCount(row, p) \in Nat /\ Occ(free_token_index, p) \in Nat
         /\ mem_state[p] \in Nat
         /\ mem_state[p] = TreeCount(tree.value, p) + RowCount(row, p) + Occ(free_token_index, p)
         /\ p \in FreeTokens =>
              /\ \A q \in DOMAIN tree.value : tree.value[q] # p
              /\ \A r \in Req : p \notin ToSet(row[r])
              /\ p \notin ToSet(free_token_index)
<1>1. TreeCount(tree.value, p) = IF \E q \in DOMAIN tree.value : tree.value[q] = p THEN 1 ELSE 0
  BY TreeCountFacts DEF PoolInv, RightContent
<1>2. RowCount(row, p) \in Nat /\ (RowCount(row, p) = 0 <=> \A r \in Req : p \notin ToSet(row[r]))
  BY RowCountFacts
<1>3. Occ(free_token_index, p) \in Nat
      /\ (Occ(free_token_index, p) = 0 <=> p \notin ToSet(free_token_index))
  BY OccFacts DEF PoolInv, PoolTyped
<1>4. mem_state[p] = TreeCount(tree.value, p) + RowCount(row, p) + Occ(free_token_index, p)
  BY OwnersAre DEF PoolInv, TokensOwned
<1>5. mem_state[p] \in Nat
  BY DEF PoolInv, PoolTyped
<1>6. p \in FreeTokens => mem_state[p] = 0
  BY DEF FreeTokens
<1>7. ASSUME p \in FreeTokens
      PROVE  /\ \A q \in DOMAIN tree.value : tree.value[q] # p
             /\ \A r \in Req : p \notin ToSet(row[r])
             /\ p \notin ToSet(free_token_index)
  <2>1. TreeCount(tree.value, p) = 0 /\ RowCount(row, p) = 0 /\ Occ(free_token_index, p) = 0
    BY <1>1, <1>2, <1>3, <1>4, <1>6, <1>7
  <2> QED
    BY <1>1, <1>2, <1>3, <2>1
<1> QED
  BY <1>1, <1>2, <1>3, <1>4, <1>5, <1>7

LEMMA FreeFinite == IsFiniteSet(FreeTokens) /\ Cardinality(FreeTokens) \in 0..MaxTotal
<1>1. IsFiniteSet(PoolToken) /\ Cardinality(PoolToken) = MaxTotal
  BY PromptCacheAssumption, FS_Interval DEF PoolToken
<1>2. FreeTokens \in SUBSET PoolToken
  BY DEF FreeTokens
<1>3. IsFiniteSet(FreeTokens) /\ Cardinality(FreeTokens) <= MaxTotal /\ Cardinality(FreeTokens) \in Nat
  BY <1>1, <1>2, FS_Subset, FS_CardinalityType
<1> QED
  BY <1>3, PromptCacheAssumption

\* decrease_refs of tokens that have the references taken away.
LEMMA DecreaseFacts ==
  ASSUME mem_state \in [PoolToken -> Nat], can_use_mem_size = Cardinality(FreeTokens),
         NEW s \in Seq(PoolToken), \A p \in PoolToken : Occ(s, p) <= mem_state[p],
         DecreaseRefs(s)
  PROVE  /\ mem_state' \in [PoolToken -> Nat]
         /\ \A p \in PoolToken : mem_state'[p] = mem_state[p] - Occ(s, p)
         /\ can_use_mem_size' = Cardinality(FreeTokens')
<1>1. \A p \in PoolToken : Occ(s, p) \in Nat /\ (Occ(s, p) = 0 <=> p \notin ToSet(s))
  BY OccFacts
<1>2. mem_state' = [p \in PoolToken |-> mem_state[p] - Occ(s, p)]
  BY DEF DecreaseRefs, Occ
<1>3. \A p \in PoolToken : mem_state'[p] = mem_state[p] - Occ(s, p) /\ mem_state'[p] \in Nat
  BY <1>1, <1>2
<1>4. PICK Z : Z = {p \in ToSet(s) : mem_state'[p] = 0}
  OBVIOUS
<1>5. ToSet(s) \subseteq PoolToken
  BY DEF ToSet
<1>6. FreeTokens' = FreeTokens \cup Z
  <2>1. \A p \in PoolToken : mem_state'[p] = 0 <=> mem_state[p] = 0 \/ p \in Z
    <3>1. TAKE p \in PoolToken
    <3>2. CASE p \in ToSet(s)
      <4>1. mem_state[p] # 0
        BY <1>1, <3>2
      <4> QED
        BY <1>4, <3>2, <4>1
    <3>3. CASE p \notin ToSet(s)
      <4>1. mem_state'[p] = mem_state[p] /\ p \notin Z
        BY <1>1, <1>3, <1>4, <3>3
      <4> QED
        BY <4>1
    <3> QED
      BY <3>2, <3>3
  <2>2. Z \subseteq PoolToken
    BY <1>4, <1>5
  <2> QED
    BY <2>1, <2>2 DEF FreeTokens
<1>7. FreeTokens \cap Z = {}
  <2>1. \A p \in Z : mem_state[p] # 0
    BY <1>1, <1>4, <1>5
  <2> QED
    BY <2>1 DEF FreeTokens
<1>8. IsFiniteSet(Z) /\ IsFiniteSet(FreeTokens)
  <2>1. Z \in SUBSET PoolToken /\ IsFiniteSet(PoolToken)
    BY <1>4, <1>5, PromptCacheAssumption, FS_Interval DEF PoolToken
  <2> QED
    BY <2>1, FS_Subset, FreeFinite
<1>9. can_use_mem_size' = can_use_mem_size + Cardinality(Z)
  BY <1>4 DEF DecreaseRefs, ZerosIn
<1>10. Cardinality(FreeTokens \cup Z) = Cardinality(FreeTokens) + Cardinality(Z)
  BY <1>7, <1>8, CardDisjoint
<1>11. mem_state' \in [PoolToken -> Nat]
  BY <1>2, <1>3
<1> QED
  BY <1>3, <1>6, <1>9, <1>10, <1>11

\* What a step that leaves the pool alone keeps.
LEMMA PoolSame ==
  ASSUME PoolInv, UNCHANGED <<input_token_ids, cur_kv_len, row, free_token_index, poolVars, content>>,
         tree'.value = tree.value
  PROVE  PoolInv'
<1> USE DEF PoolInv, poolVars
<1>1. PoolTyped'
  BY DEF PoolTyped
<1>2. RightContent'
  BY DEF RightContent
<1>3. TokensOwned'
  <2>1. \A p : Owners(p)' = Owners(p)
    BY DEF Owners
  <2>2. FreeTokens' = FreeTokens
    BY DEF FreeTokens
  <2> QED
    BY <2>1, <2>2 DEF TokensOwned
<1> QED
  BY <1>1, <1>2, <1>3

LEMMA FreeBatchPool ==
  ASSUME TreeInv, PoolInv, FreeBatch
  PROVE  PoolInv'
<1>1. /\ DecreaseRefs(free_token_index) /\ free_token_index' = <<>>
      /\ UNCHANGED <<tree, row, input_token_ids, cur_kv_len, content>>
  BY DEF FreeBatch, reqVars
<1>2. /\ mem_state \in [PoolToken -> Nat] /\ can_use_mem_size = Cardinality(FreeTokens)
      /\ free_token_index \in Seq(PoolToken)
  BY DEF PoolInv, PoolTyped, TokensOwned
<1>3. \A p \in PoolToken :
        /\ TreeCount(tree.value, p) \in Nat /\ RowCount(row, p) \in Nat
        /\ Occ(free_token_index, p) \in Nat /\ mem_state[p] \in Nat
        /\ mem_state[p] = TreeCount(tree.value, p) + RowCount(row, p) + Occ(free_token_index, p)
  <2>1. TAKE p \in PoolToken
  <2>2. TreeCount(tree.value, p) \in Nat
    <3>1. TreeCount(tree.value, p) = IF \E q \in DOMAIN tree.value : tree.value[q] = p THEN 1 ELSE 0
      BY HasOwner
    <3> QED
      BY <3>1
  <2> QED
    BY <2>2, HasOwner
<1>4. \A p \in PoolToken : Occ(free_token_index, p) <= mem_state[p]
  BY <1>3
<1>5. /\ mem_state' \in [PoolToken -> Nat]
      /\ \A p \in PoolToken : mem_state'[p] = mem_state[p] - Occ(free_token_index, p)
      /\ can_use_mem_size' = Cardinality(FreeTokens')
  BY <1>1, <1>2, <1>4, DecreaseFacts
<1>6. PoolTyped'
  BY <1>1, <1>5 DEF PoolInv, PoolTyped
<1>7. RightContent'
  BY <1>1 DEF PoolInv, RightContent
<1>8. TokensOwned'
  <2>1. \A p \in PoolToken : Owners(p)' = TreeCount(tree.value, p) + RowCount(row, p) + Occ(<<>>, p)
    BY <1>1, OwnersNext
  <2>2. \A p : Occ(<<>>, p) = 0
    <3>1. <<>> \in Seq(PoolToken) /\ \A p : p \notin ToSet(<<>>)
      BY EmptyToSet
    <3> QED
      BY <3>1, OccFacts
  <2> QED
    BY <1>3, <1>5, <2>1, <2>2 DEF TokensOwned
<1> QED
  BY <1>6, <1>7, <1>8 DEF PoolInv

LEMMA InitReqPool ==
  ASSUME TreeInv, PoolInv, InitReq
  PROVE  PoolInv'
<1>1. PICK r : r = Min(todo)
  OBVIOUS
<1>2. PICK key : key = FirstN(input_token_ids[r], Len(input_token_ids[r]) - 1)
  OBVIOUS
<1>3. PICK got : got = MatchPrefix(tree, key)
  OBVIOUS
<1>4. PICK value : value = [i \in 1..Len(got.node) |-> tree.value[FirstN(key, i)]]
  OBVIOUS
<1>5. /\ at = "init"
      /\ UNCHANGED <<input_token_ids, free_token_index, content>>
      /\ key = <<>> => UNCHANGED <<tree, row, cur_kv_len, poolVars>>
      /\ key # <<>> =>
           /\ tree' = got.tree
           /\ got.node = Root => UNCHANGED <<row, cur_kv_len, poolVars>>
           /\ got.node # Root =>
                /\ cur_kv_len' = [cur_kv_len EXCEPT ![r] = got.tree.prefix_total_len[got.node]]
                /\ row' = [row EXCEPT ![r] = value]
                /\ AddRefs(value)
  BY <1>1, <1>2, <1>3, <1>4 DEF InitReq
<1>6. PICK l : l = CachedLen(r)
  OBVIOUS
<1>7. PICK s \in Seq(Token) : s = input_token_ids[r]
  BY <1>1, <1>2, <1>5, InitReqFacts
<1>8. /\ r \in Req /\ cur_kv_len[r] = 0
      /\ key \in Seq(Token) /\ Len(key) = Len(s) - 1
      /\ l = MatchLen(tree, key) /\ l \in 0..Len(key)
  BY <1>1, <1>2, <1>5, <1>6, <1>7, InitReqFacts
<1>9. /\ Len(got.node) = l /\ got.tree.value = tree.value
      /\ got.tree.prefix_total_len[got.node] = l
  <2>1. /\ got.node = FirstN(key, CachedLen(r)) /\ got.node \in Seq(Token)
        /\ Len(got.node) = CachedLen(r)
        /\ TreeOK(got.tree) /\ got.tree.value = tree.value
        /\ tree.nodes \subseteq got.tree.nodes
        /\ got.node \in got.tree.nodes /\ got.tree.prefix_total_len[got.node] = CachedLen(r)
        /\ [shared_kv_node EXCEPT ![r] = got.node] \in [Req -> got.tree.nodes]
        /\ RefsOK(got.tree, [shared_kv_node EXCEPT ![r] = got.node])
        /\ CountersOK(got.tree)
    BY <1>1, <1>2, <1>3, <1>5, LookupFacts
  <2> QED
    BY <1>6, <2>1
<1>10. CASE key = <<>> \/ got.node = Root
  <2>1. UNCHANGED <<input_token_ids, cur_kv_len, row, free_token_index, poolVars, content>>
        /\ tree'.value = tree.value
    BY <1>5, <1>9, <1>10
  <2> QED
    BY <2>1, PoolSame
<1>11. CASE key # <<>> /\ got.node # Root
  <2>1. /\ tree'.value = tree.value
        /\ cur_kv_len' = [cur_kv_len EXCEPT ![r] = l]
        /\ row' = [row EXCEPT ![r] = value]
        /\ AddRefs(value)
    BY <1>5, <1>9, <1>11
  <2>2. /\ \A i \in 1..l : i \in 0..Len(key) /\ i \in 0..Len(s)
        /\ \A i \in 1..l : FirstN(key, i) = FirstN(s, i)
    <3>1. \A i \in 1..l : i \in 0..Len(key) /\ i \in 0..Len(s) /\ i <= Len(s) - 1
      BY <1>7, <1>8
    <3>2. key = SubSeq(s, 1, Len(s) - 1) /\ Len(s) \in Nat /\ Len(s) - 1 \in Nat
      BY <1>2, <1>7, <1>8 DEF FirstN
    <3>3. \A i \in 1..l : FirstN(key, i) = FirstN(s, i)
      <4> SUFFICES ASSUME NEW i \in 1..l PROVE FirstN(key, i) = FirstN(s, i)
        OBVIOUS
      <4>1. /\ FirstN(key, i) \in Seq(Token) /\ Len(FirstN(key, i)) = i
            /\ \A j \in 1..i : FirstN(key, i)[j] = key[j]
        BY <1>8, <3>1, FirstNFacts
      <4>2. /\ FirstN(s, i) \in Seq(Token) /\ Len(FirstN(s, i)) = i
            /\ \A j \in 1..i : FirstN(s, i)[j] = s[j]
        BY <3>1, FirstNFacts
      <4>3. \A j \in 1..i : key[j] = s[j]
        BY <3>1, <3>2
      <4> QED
        BY <4>1, <4>2, <4>3
    <3> QED
      BY <3>1, <3>3
  <2>3. \A i \in 1..l : FirstN(key, i) \in DOMAIN tree.value
    <3>1. TreeOK(tree) /\ NodesOK(tree.nodes) /\ KeepsInside(tree)
      BY DEF TreeInv, Accounted, TreeOK
    <3>2. \A i \in 0..Len(key) : Inside(tree.nodes, FirstN(key, i)) <=> i <= l
      BY <1>8, <3>1, MatchLenFacts
    <3>3. \A i \in 1..l : FirstN(key, i) \in Seq(Token) /\ Len(FirstN(key, i)) = i
      BY <1>8, <2>2, FirstNFacts
    <3>4. \A i \in 1..l : FirstN(key, i) # Root
      BY <1>8, <3>3 DEF Root
    <3> QED
      BY <1>8, <2>2, <3>1, <3>2, <3>3, <3>4 DEF KeepsInside
  <2>4. /\ value \in Seq(PoolToken) /\ Len(value) = l /\ DOMAIN value = 1..l
        /\ \A i \in 1..l : value[i] = tree.value[FirstN(s, i)] /\ content[value[i]] = FirstN(s, i)
    <3>1. \A i \in 1..l : /\ tree.value[FirstN(key, i)] \in PoolToken
                          /\ content[tree.value[FirstN(key, i)]] = FirstN(key, i)
      BY <2>3 DEF PoolInv, PoolTyped, RightContent
    <3>2. l \in Nat
      BY <1>8
    <3>3. value = [i \in 1..l |-> tree.value[FirstN(key, i)]]
      BY <1>4, <1>9
    <3> QED
      BY <2>2, <3>1, <3>2, <3>3
  <2>5. \A i, j \in 1..l : value[i] = value[j] => i = j
    <3>1. \A i \in 1..l : Len(FirstN(s, i)) = i
      BY <2>2, FirstNFacts
    <3> QED
      BY <2>4, <3>1
  <2>6. \A p \in PoolToken : Occ(value, p) = IF p \in ToSet(value) THEN 1 ELSE 0
    BY <2>4, <2>5, OccOnce
  <2>7. \A p \in ToSet(value) : p \in PoolToken /\ mem_state[p] # 0
    <3> SUFFICES ASSUME NEW i \in 1..l PROVE value[i] \in PoolToken /\ mem_state[value[i]] # 0
      BY <2>4 DEF ToSet
    <3>1. value[i] \in PoolToken /\ value[i] = tree.value[FirstN(key, i)]
      BY <2>2, <2>4
    <3>2. value[i] \notin FreeTokens
      BY <2>3, <3>1, HasOwner
    <3> QED
      BY <3>1, <3>2 DEF FreeTokens
  <2>8. mem_state' = [p \in PoolToken |-> mem_state[p] + Occ(value, p)]
    BY <2>1 DEF AddRefs, Occ
  <2>9. can_use_mem_size' = can_use_mem_size
    <3>1. {p \in ToSet(value) : mem_state[p] = 0} = {}
      BY <2>7
    <3>2. ZerosIn(ToSet(value), mem_state) = 0
      BY <3>1, FS_EmptySet DEF ZerosIn
    <3>3. can_use_mem_size \in Nat
      BY FreeFinite DEF PoolInv, TokensOwned
    <3> QED
      BY <2>1, <3>2, <3>3 DEF AddRefs
  <2>10. \A p \in PoolToken : mem_state[p] \in Nat /\ mem_state'[p] = mem_state[p] + Occ(value, p)
                              /\ mem_state'[p] \in Nat
    <3>1. \A p \in PoolToken : mem_state[p] \in Nat /\ Occ(value, p) \in Nat
      BY <2>6 DEF PoolInv, PoolTyped
    <3> QED
      BY <2>8, <3>1
  <2>11. FreeTokens' = FreeTokens
    <3>1. \A p \in PoolToken : mem_state'[p] = 0 <=> mem_state[p] = 0
      BY <2>6, <2>7, <2>10
    <3> QED
      BY <3>1 DEF FreeTokens
  <2>12. row \in [Req -> Seq(PoolToken)] /\ cur_kv_len \in [Req -> Nat]
         /\ \A q \in Req : Len(row[q]) = cur_kv_len[q]
    BY DEF PoolInv, PoolTyped, TreeInv, Texts
  <2>13. \A q \in Req : row'[q] = IF q = r THEN value ELSE row[q]
    BY <2>1, <2>12
  <2>14. PoolTyped'
    <3>1. row' \in [Req -> Seq(PoolToken)]
      BY <2>1, <2>4, <2>12
    <3>2. \A q \in Req : Len(row'[q]) = cur_kv_len'[q]
      BY <2>1, <2>4, <2>12
    <3>3. mem_state' \in [PoolToken -> Nat]
      BY <2>8, <2>10
    <3> QED
      BY <1>5, <2>1, <3>1, <3>2, <3>3 DEF PoolInv, PoolTyped
  <2>15. RightContent'
    <3>1. \A q \in Req : \A i \in 1..Len(row'[q]) : content[row'[q][i]] = FirstN(input_token_ids[q], i)
      BY <1>7, <2>4, <2>13 DEF PoolInv, RightContent
    <3> QED
      BY <1>5, <2>1, <3>1 DEF PoolInv, RightContent
  <2>16. TokensOwned'
    <3>1. row[r] = <<>>
      BY <1>8, <2>12
    <3>2. \A p : RowCount(row', p) = RowCount(row, p) + (IF p \in ToSet(value) THEN 1 ELSE 0)
      <4>1. PICK w, after : w = row /\ after = row'
        OBVIOUS
      <4>2. (\A q \in Req \ {r} : after[q] = w[q]) /\ ToSet(w[r]) = {} /\ after[r] = value
        BY <1>8, <2>13, <3>1, <4>1, EmptyToSet
      <4>3. \A p : RowCount(after, p) = RowCount(w, p) + (IF p \in ToSet(after[r]) THEN 1 ELSE 0)
        BY <1>8, <4>2, RowCountChange
      <4> QED
        BY <4>1, <4>2, <4>3
    <3>3. \A p : Owners(p)' = TreeCount(tree.value, p) + RowCount(row', p) + Occ(free_token_index, p)
      BY <1>5, <2>1, OwnersNext
    <3>4. ASSUME NEW p \in PoolToken PROVE mem_state'[p] = Owners(p)'
      <4>1. /\ TreeCount(tree.value, p) = IF \E q \in DOMAIN tree.value : tree.value[q] = p THEN 1 ELSE 0
            /\ RowCount(row, p) \in Nat /\ Occ(free_token_index, p) \in Nat
            /\ mem_state[p] = TreeCount(tree.value, p) + RowCount(row, p) + Occ(free_token_index, p)
        BY HasOwner
      <4>2. TreeCount(tree.value, p) \in Nat
        BY <4>1
      <4>3. PICK a \in Nat, b \in Nat, c \in Nat, o \in Nat :
              /\ a = TreeCount(tree.value, p) /\ b = RowCount(row, p) /\ c = Occ(free_token_index, p)
              /\ o = IF p \in ToSet(value) THEN 1 ELSE 0
        BY <4>1, <4>2
      <4>4. mem_state'[p] = mem_state[p] + o
        BY <2>6, <2>10, <4>3
      <4>5. RowCount(row', p) = b + o
        BY <3>2, <4>3
      <4>6. Owners(p)' = a + RowCount(row', p) + c
        BY <3>3, <4>3
      <4> QED
        BY <4>1, <4>3, <4>4, <4>5, <4>6
    <3>5. can_use_mem_size' = Cardinality(FreeTokens')
      BY <2>9, <2>11 DEF PoolInv, TokensOwned
    <3> QED
      BY <3>4, <3>5 DEF TokensOwned
  <2> QED
    BY <2>14, <2>15, <2>16 DEF PoolInv
<1> QED
  BY <1>10, <1>11

\* The tokens gathered for a node are those of its edge, each once.
LEMMA EvictedFacts ==
  ASSUME NEW t, TreeOK(t), NEW held, \A q \in DOMAIN t.value : held[t.value[q]] = q,
         NEW P, \A q \in DOMAIN t.value : t.value[q] \in P,
         NEW n, n = FirstEntry(t).node, n \in t.nodes \ {Root}, NEW s, s = EvictedTokens(t)
  PROVE  /\ s \in Seq(P) /\ EdgeTokens(t, n) \subseteq DOMAIN t.value
         /\ \A p : Occ(s, p) = IF \E q \in EdgeTokens(t, n) : t.value[q] = p THEN 1 ELSE 0
<1>1. NodesOK(t.nodes) /\ KeepsInside(t) /\ n \in Seq(Token)
  BY DEF TreeOK, NodesOK
<1>2. PICK k : k = ParentOf(t, n)
  OBVIOUS
<1>3. k \in Seq(Token) /\ Len(k) < Len(n)
  BY <1>1, <1>2, ParentFacts
<1>4. PICK a \in Nat, b \in Nat : a = Len(k) /\ b = Len(n) /\ a < b
  BY <1>1, <1>3
<1>5. s = [i \in 1..(b - a) |-> t.value[FirstN(n, a + i)]]
  BY <1>2, <1>4 DEF EvictedTokens, ValueLen
<1>6. PICK E : E = EdgeTokens(t, n)
  OBVIOUS
<1>7. \A q : q \in E <=> q \in PrefixesOf(n) /\ Len(q) > a
  BY <1>2, <1>4, <1>6 DEF EdgeTokens
<1>8. \A i \in 1..(b - a) : FirstN(n, a + i) \in E
  <2> SUFFICES ASSUME NEW i \in 1..(b - a) PROVE FirstN(n, a + i) \in E
    OBVIOUS
  <2>1. a + i \in 1..Len(n) /\ a + i \in 0..Len(n) /\ a + i > a
    BY <1>4
  <2>2. Len(FirstN(n, a + i)) = a + i
    BY <1>1, <2>1, FirstNFacts
  <2>3. FirstN(n, a + i) \in PrefixesOf(n)
    BY <2>1 DEF PrefixesOf
  <2> QED
    BY <1>7, <2>1, <2>2, <2>3
<1>9. \A q \in E : Len(q) - a \in 1..(b - a) /\ q = FirstN(n, a + (Len(q) - a))
  <2> SUFFICES ASSUME NEW q \in E
               PROVE  Len(q) - a \in 1..(b - a) /\ q = FirstN(n, a + (Len(q) - a))
    OBVIOUS
  <2>1. q \in PrefixesOf(n) /\ Len(q) > a
    BY <1>7
  <2>2. Len(q) \in 1..Len(n) /\ q = FirstN(n, Len(q))
    BY <1>1, <2>1, PrefixesFacts
  <2>3. Len(q) - a \in 1..(b - a) /\ a + (Len(q) - a) = Len(q)
    BY <1>4, <2>1, <2>2
  <2> QED
    BY <2>2, <2>3
<1>10. E \subseteq DOMAIN t.value
  <2> SUFFICES ASSUME NEW q \in E PROVE q \in DOMAIN t.value
    OBVIOUS
  <2>1. q \in Seq(Token) \ {Root} /\ IsPrefix(q, n)
    BY <1>1, <1>7, PrefixesFacts
  <2> QED
    BY <1>1, <2>1 DEF KeepsInside, Inside
<1>11. DOMAIN s = 1..(b - a) /\ \A i \in 1..(b - a) : s[i] = t.value[FirstN(n, a + i)]
  BY <1>5
<1>12. s \in Seq(P)
  <2>1. \A i \in 1..(b - a) : t.value[FirstN(n, a + i)] \in P
    BY <1>8, <1>10
  <2>2. b - a \in Nat
    BY <1>4
  <2> QED
    BY <1>5, <2>1, <2>2
<1>13. ASSUME NEW p PROVE Occ(s, p) = IF \E q \in E : t.value[q] = p THEN 1 ELSE 0
  <2>1. PICK C : C = {i \in DOMAIN s : s[i] = p}
    OBVIOUS
  <2>2. \A i, j \in C : i = j
    <3> SUFFICES ASSUME NEW i \in C, NEW j \in C PROVE i = j
      OBVIOUS
    <3>1. i \in 1..(b - a) /\ j \in 1..(b - a)
          /\ t.value[FirstN(n, a + i)] = t.value[FirstN(n, a + j)]
      BY <1>11, <2>1
    <3>2. FirstN(n, a + i) = FirstN(n, a + j)
      BY <1>8, <1>10, <3>1
    <3>3. a + i \in 0..Len(n) /\ a + j \in 0..Len(n)
      BY <1>4, <3>1
    <3>4. a + i = a + j
      BY <1>1, <3>2, <3>3, FirstNFacts
    <3> QED
      BY <1>4, <3>1, <3>4
  <2>3. Cardinality(C) = IF C = {} THEN 0 ELSE 1
    BY <2>2, AtMostOne
  <2>4. C # {} <=> \E q \in E : t.value[q] = p
    <3>1. ASSUME NEW i \in C PROVE \E q \in E : t.value[q] = p
      <4>1. i \in 1..(b - a) /\ t.value[FirstN(n, a + i)] = p
        BY <1>11, <2>1, <3>1
      <4> QED
        BY <1>8, <4>1
    <3>2. ASSUME NEW q \in E, t.value[q] = p PROVE C # {}
      <4>1. Len(q) - a \in 1..(b - a) /\ s[Len(q) - a] = p
        BY <1>9, <1>11, <3>2
      <4> QED
        BY <1>11, <2>1, <4>1
    <3> QED
      BY <3>1, <3>2
  <2> QED
    BY <2>1, <2>3, <2>4 DEF Occ
<1> QED
  BY <1>6, <1>10, <1>12, <1>13

LEMMA EvictPool ==
  ASSUME TreeInv, PoolInv, NEW kind \in {"prefill", "decode"}, Evict(kind)
  PROVE  PoolInv'
<1>1. PICK s : s = EvictedTokens(tree)
  OBVIOUS
<1>2. PICK freed : freed = free_token_index \o s
  OBVIOUS
<1>3. /\ Evictable(tree) /\ tree' = PopFirst(tree)
      /\ UNCHANGED <<input_token_ids, cur_kv_len, row, content>>
      /\ \/ free_token_index' = freed /\ UNCHANGED <<mem_state, can_use_mem_size>>
         \/ free_token_index' = <<>> /\ DecreaseRefs(freed)
  BY <1>1, <1>2 DEF Evict, reqVars, poolVars
<1>4. PICK n : n = FirstEntry(tree).node
  OBVIOUS
<1>5. PICK E : E = EdgeTokens(tree, n)
  OBVIOUS
<1>6. /\ n \in tree.nodes \ {Root}
      /\ DOMAIN tree'.value = DOMAIN tree.value \ E
      /\ \A q \in DOMAIN tree'.value : tree'.value[q] = tree.value[q]
  <2>1. /\ TreeOK(tree) /\ shared_kv_node \in [Req -> tree.nodes]
        /\ RefsOK(tree, shared_kv_node)
    BY DEF TreeInv, Accounted, Texts
  <2> QED
    BY <1>3, <1>4, <1>5, <2>1, PopFacts
<1>7. /\ TreeOK(tree) /\ \A q \in DOMAIN tree.value : content[tree.value[q]] = q
      /\ \A q \in DOMAIN tree.value : tree.value[q] \in PoolToken
      /\ free_token_index \in Seq(PoolToken)
      /\ mem_state \in [PoolToken -> Nat] /\ can_use_mem_size = Cardinality(FreeTokens)
  BY DEF TreeInv, Accounted, PoolInv, PoolTyped, RightContent, TokensOwned
<1>8. /\ s \in Seq(PoolToken) /\ E \subseteq DOMAIN tree.value
      /\ \A p : Occ(s, p) = IF \E q \in E : tree.value[q] = p THEN 1 ELSE 0
  BY <1>1, <1>4, <1>5, <1>6, <1>7, EvictedFacts
<1>9. freed \in Seq(PoolToken) /\ \A p : Occ(freed, p) = Occ(free_token_index, p) + Occ(s, p)
  BY <1>2, <1>7, <1>8, OccConcat
<1>10. \A p \in PoolToken :
         TreeCount(tree'.value, p) + Occ(s, p) = TreeCount(tree.value, p)
         /\ TreeCount(tree'.value, p) \in Nat /\ Occ(s, p) \in Nat
  <2> SUFFICES ASSUME NEW p \in PoolToken
               PROVE  TreeCount(tree'.value, p) + Occ(s, p) = TreeCount(tree.value, p)
                      /\ TreeCount(tree'.value, p) \in Nat /\ Occ(s, p) \in Nat
    OBVIOUS
  <2>1. TreeCount(tree.value, p) = IF \E q \in DOMAIN tree.value : tree.value[q] = p THEN 1 ELSE 0
    BY HasOwner
  <2>2. TreeCount(tree'.value, p) = IF \E q \in DOMAIN tree'.value : tree'.value[q] = p THEN 1 ELSE 0
    <3>1. \A q \in DOMAIN tree'.value : content[tree'.value[q]] = q
      BY <1>6, <1>7
    <3>2. PICK v : v = tree'.value
      OBVIOUS
    <3>3. TreeCount(v, p) = IF \E q \in DOMAIN v : v[q] = p THEN 1 ELSE 0
      BY <3>1, <3>2, TreeCountFacts
    <3> QED
      BY <3>2, <3>3
  <2>3. (\E q \in DOMAIN tree.value : tree.value[q] = p)
          <=> (\E q \in E : tree.value[q] = p) \/ (\E q \in DOMAIN tree'.value : tree'.value[q] = p)
    BY <1>6, <1>8
  <2>4. ~((\E q \in E : tree.value[q] = p) /\ (\E q \in DOMAIN tree'.value : tree'.value[q] = p))
    BY <1>6, <1>7, <1>8
  <2>5. Occ(s, p) = IF \E q \in E : tree.value[q] = p THEN 1 ELSE 0
    BY <1>8
  <2> QED
    BY <2>1, <2>2, <2>3, <2>4, <2>5
<1>11. \A p \in PoolToken :
         /\ RowCount(row, p) \in Nat /\ Occ(free_token_index, p) \in Nat /\ mem_state[p] \in Nat
         /\ mem_state[p] = TreeCount(tree'.value, p) + RowCount(row, p) + Occ(freed, p)
  <2>1. TAKE p \in PoolToken
  <2>2. /\ RowCount(row, p) \in Nat /\ Occ(free_token_index, p) \in Nat /\ mem_state[p] \in Nat
        /\ mem_state[p] = TreeCount(tree.value, p) + RowCount(row, p) + Occ(free_token_index, p)
    BY HasOwner
  <2> QED
    BY <1>9, <1>10, <2>2
<1>12. RightContent'
  BY <1>3, <1>6 DEF PoolInv, RightContent
<1>13. \A p : Owners(p)' = TreeCount(tree'.value, p) + RowCount(row, p) + Occ(free_token_index', p)
  BY <1>3, OwnersNext
<1>14. CASE free_token_index' = freed /\ UNCHANGED <<mem_state, can_use_mem_size>>
  <2>1. PoolTyped'
    BY <1>3, <1>6, <1>9, <1>14 DEF PoolInv, PoolTyped
  <2>2. TokensOwned'
    <3>1. \A p \in PoolToken : mem_state'[p] = Owners(p)'
      BY <1>11, <1>13, <1>14
    <3>2. FreeTokens' = FreeTokens
      BY <1>14 DEF FreeTokens
    <3> QED
      BY <1>7, <1>14, <3>1, <3>2 DEF TokensOwned
  <2> QED
    BY <1>12, <2>1, <2>2 DEF PoolInv
<1>15. CASE free_token_index' = <<>> /\ DecreaseRefs(freed)
  <2>1. \A p \in PoolToken : Occ(freed, p) \in Nat /\ Occ(freed, p) <= mem_state[p]
    BY <1>9, <1>10, <1>11
  <2>2. /\ mem_state' \in [PoolToken -> Nat]
        /\ \A p \in PoolToken : mem_state'[p] = mem_state[p] - Occ(freed, p)
        /\ can_use_mem_size' = Cardinality(FreeTokens')
    BY <1>7, <1>9, <1>15, <2>1, DecreaseFacts
  <2>3. PoolTyped'
    BY <1>3, <1>6, <1>15, <2>2 DEF PoolInv, PoolTyped
  <2>4. \A p : Occ(<<>>, p) = 0
    <3>1. <<>> \in Seq(PoolToken) /\ \A p : p \notin ToSet(<<>>)
      BY EmptyToSet
    <3> QED
      BY <3>1, OccFacts
  <2>5. TokensOwned'
    <3>1. ASSUME NEW p \in PoolToken PROVE mem_state'[p] = Owners(p)'
      BY <1>10, <1>11, <1>13, <1>15, <2>1, <2>2, <2>4
    <3> QED
      BY <2>2, <3>1 DEF TokensOwned
  <2> QED
    BY <1>12, <2>3, <2>5 DEF PoolInv
<1> QED
  BY <1>3, <1>14, <1>15

LEMMA FirstNTwice ==
  ASSUME NEW T, NEW s \in Seq(T), NEW l \in 0..Len(s), NEW i \in 0..l
  PROVE  FirstN(FirstN(s, l), i) = FirstN(s, i)
<1>1. PICK key : key = FirstN(s, l)
  OBVIOUS
<1>2. key \in Seq(T) /\ Len(key) = l /\ \A j \in 1..l : key[j] = s[j]
  BY <1>1, FirstNFacts
<1>3. i \in 0..Len(key) /\ i \in 0..Len(s)
  BY <1>2
<1>4. /\ FirstN(key, i) \in Seq(T) /\ Len(FirstN(key, i)) = i
      /\ \A j \in 1..i : FirstN(key, i)[j] = key[j]
  BY <1>2, <1>3, FirstNFacts
<1>5. /\ FirstN(s, i) \in Seq(T) /\ Len(FirstN(s, i)) = i
      /\ \A j \in 1..i : FirstN(s, i)[j] = s[j]
  BY <1>3, FirstNFacts
<1>6. \A j \in 1..i : j \in 1..l
  OBVIOUS
<1> QED
  BY <1>1, <1>2, <1>4, <1>5, <1>6

\* The entries that a released request's text gets in the tree hold their texts, and
\* each token of its row goes to the tree or back to the pool.
InTree(t, p) == \E q \in DOMAIN t.value : t.value[q] = p
Moved(r, l, k, t) ==
  /\ l \in Nat /\ k \in 0..l
  /\ \A q \in DOMAIN t.value : t.value[q] \in PoolToken /\ content[t.value[q]] = q
  /\ \A i \in 1..l : IF i <= k THEN InTree(t, row[r][i]) <=> InTree(tree, row[r][i])
                      ELSE InTree(t, row[r][i]) /\ ~InTree(tree, row[r][i])
  /\ \A p : p \notin ToSet(row[r]) => (InTree(t, p) <=> InTree(tree, p))

LEMMA HandOverContent ==
  ASSUME TreeInv, PoolInv, NEW r \in Req, NEW key, NEW l, l = cur_kv_len[r],
         key = FirstN(input_token_ids[r], l), key \in Seq(Token), Len(key) = l,
         NEW t, TreeOK(t), Released(r, key, t),
         NEW k, k = IF IsLast(r) THEN MatchLen(tree, key) ELSE l
  PROVE  Moved(r, l, k, t)
<1>1. PICK s \in Seq(Token) : s = input_token_ids[r]
  BY DEF TreeInv, Texts
<1>2. l \in 0..Len(s) /\ l \in Nat
  BY <1>1 DEF TreeInv, Texts
<1>3. PICK w : w = row[r]
  OBVIOUS
<1>4. /\ w \in Seq(PoolToken) /\ DOMAIN w = 1..l
      /\ \A i \in 1..l : w[i] \in PoolToken /\ content[w[i]] = FirstN(s, i)
      /\ \A i, j \in 1..l : w[i] = w[j] => i = j
  BY <1>1, <1>3, RowsApart DEF PoolInv
<1>5. \A i \in 1..l : FirstN(key, i) = FirstN(s, i)
  <2>1. \A i \in 1..l : i \in 0..l
    OBVIOUS
  <2> QED
    BY <1>1, <1>2, <2>1, FirstNTwice
<1>6. \A i \in 1..l : content[w[i]] = FirstN(key, i)
  BY <1>4, <1>5
<1>7. \A q \in DOMAIN tree.value : tree.value[q] \in PoolToken /\ content[tree.value[q]] = q
  BY DEF PoolInv, PoolTyped, RightContent
<1>8. k \in 0..l
  <2>1. MatchLen(tree, key) \in 0..Len(key)
    BY MatchLenFacts DEF TreeInv, Accounted, TreeOK
  <2> QED
    BY <1>2, <2>1
<1>9. \A q \in PrefixesOf(key) : Len(q) \in 1..l /\ q = FirstN(key, Len(q))
  BY PrefixesFacts
<1>10. \A i \in 1..l : FirstN(key, i) \in PrefixesOf(key) /\ Len(FirstN(key, i)) = i
  <2>1. \A i \in 1..l : i \in 1..Len(key) /\ i \in 0..Len(key)
    BY <1>2
  <2> QED
    BY <2>1, FirstNFacts DEF PrefixesOf
<1>11. ToSet(w) = {w[i] : i \in 1..l}
  BY <1>4 DEF ToSet
<1>12. CASE ~IsLast(r)
  <2>1. t.value = tree.value /\ k = l
    BY <1>12 DEF Released
  <2> QED
    BY <1>2, <1>3, <1>7, <1>8, <2>1 DEF Moved, InTree
<1>13. CASE IsLast(r)
  <2>1. /\ DOMAIN t.value = DOMAIN tree.value \cup PrefixesOf(key)
        /\ \A q \in DOMAIN tree.value : t.value[q] = tree.value[q]
        /\ \A q \in PrefixesOf(key) : Len(q) > k => t.value[q] = w[Len(q)]
        /\ \A q \in PrefixesOf(key) : Len(q) <= k <=> q \in DOMAIN tree.value
    BY <1>3, <1>13 DEF Released
  <2>2. \A q \in DOMAIN t.value : \/ q \in DOMAIN tree.value /\ t.value[q] = tree.value[q]
                                  \/ /\ q \in PrefixesOf(key) /\ Len(q) \in 1..l /\ Len(q) > k
                                     /\ t.value[q] = w[Len(q)]
    BY <1>2, <1>8, <1>9, <2>1
  <2>3. \A q \in DOMAIN t.value : t.value[q] \in PoolToken /\ content[t.value[q]] = q
    <3>1. ASSUME NEW q \in DOMAIN t.value, q \in PrefixesOf(key), Len(q) \in 1..l,
                 t.value[q] = w[Len(q)]
          PROVE  t.value[q] \in PoolToken /\ content[t.value[q]] = q
      <4>1. w[Len(q)] \in PoolToken /\ content[w[Len(q)]] = FirstN(key, Len(q))
        BY <1>4, <1>6, <3>1
      <4> QED
        BY <1>9, <3>1, <4>1
    <3> QED
      BY <1>7, <2>2, <3>1
  <2>4. ASSUME NEW i \in 1..l, i <= k
        PROVE  (\E q \in DOMAIN t.value : t.value[q] = w[i]) <=> (\E q \in DOMAIN tree.value : tree.value[q] = w[i])
    <3>1. ASSUME NEW q \in DOMAIN t.value, t.value[q] = w[i] PROVE q \in DOMAIN tree.value
      <4>1. ASSUME q \in PrefixesOf(key), Len(q) \in 1..l, Len(q) > k, t.value[q] = w[Len(q)] PROVE FALSE
        <5>1. Len(q) = i
          BY <1>4, <3>1, <4>1
        <5> QED
          BY <1>8, <2>4, <4>1, <5>1
      <4> QED
        BY <2>2, <4>1
    <3> QED
      BY <2>1, <3>1
  <2>5. ASSUME NEW i \in 1..l, ~(i <= k)
        PROVE  (\E q \in DOMAIN t.value : t.value[q] = w[i]) /\ ~(\E q \in DOMAIN tree.value : tree.value[q] = w[i])
    <3>1. i > k /\ FirstN(key, i) \in PrefixesOf(key) /\ Len(FirstN(key, i)) = i
      BY <1>8, <1>10, <2>5
    <3>2. FirstN(key, i) \in DOMAIN t.value /\ t.value[FirstN(key, i)] = w[i]
      BY <2>1, <3>1
    <3>3. FirstN(key, i) \notin DOMAIN tree.value
      BY <2>1, <2>5, <3>1
    <3>4. ASSUME NEW q \in DOMAIN tree.value, tree.value[q] = w[i] PROVE FALSE
      <4>1. q = FirstN(key, i)
        BY <1>6, <1>7, <3>4
      <4> QED
        BY <3>3, <4>1
    <3> QED
      BY <3>2, <3>4
  <2>6. ASSUME NEW p, p \notin ToSet(w)
        PROVE  (\E q \in DOMAIN t.value : t.value[q] = p) <=> (\E q \in DOMAIN tree.value : tree.value[q] = p)
    <3>1. \A i \in 1..l : w[i] # p
      BY <1>11, <2>6
    <3> QED
      BY <2>1, <2>2, <3>1
  <2> QED
    BY <1>2, <1>3, <1>8, <2>3, <2>4, <2>5, <2>6 DEF Moved, InTree
<1> QED
  BY <1>12, <1>13

LEMMA FreeAReqMemPool ==
  ASSUME TreeInv, TreeInv', PoolInv, FreeAReqMem
  PROVE  PoolInv'
<1>1. PICK r : r = Min(todo)
  OBVIOUS
<1>2. PICK l : l = cur_kv_len[r]
  OBVIOUS
<1>3. PICK key : key = FirstN(input_token_ids[r], l)
  OBVIOUS
<1>4. PICK k : k = IF IsLast(r) THEN MatchLen(tree, key) ELSE l
  OBVIOUS
<1>5. PICK given : given = FirstN(row[r], k)
  OBVIOUS
<1>6. /\ at = "filter"
      /\ tree' = IF IsLast(r) THEN HandOver(tree, key, row[r], shared_kv_node[r])
                 ELSE GiveUp(tree, shared_kv_node[r])
      /\ free_token_index' = free_token_index \o given
      /\ cur_kv_len' = [cur_kv_len EXCEPT ![r] = 0]
      /\ row' = [row EXCEPT ![r] = <<>>]
      /\ UNCHANGED <<input_token_ids, mem_state, can_use_mem_size, content>>
  BY <1>1, <1>2, <1>3, <1>4, <1>5 DEF FreeAReqMem, ReleasedLen, poolVars
<1>7. /\ r \in Req /\ key \in Seq(Token) /\ Len(key) = l
  BY <1>1, <1>2, <1>3, <1>6, ReleasedFacts
<1>8. Released(r, key, tree') /\ TreeOK(tree')
  BY <1>6, <1>7, ReleasedTree DEF TreeInv, Accounted
<1>m. Moved(r, l, k, tree')
  BY <1>2, <1>3, <1>4, <1>7, <1>8, HandOverContent
<1>9. /\ l \in Nat /\ k \in 0..l
      /\ \A q \in DOMAIN tree'.value : tree'.value[q] \in PoolToken /\ content[tree'.value[q]] = q
      /\ \A i \in 1..l : IF i <= k THEN InTree(tree', row[r][i]) <=> InTree(tree, row[r][i])
                          ELSE InTree(tree', row[r][i]) /\ ~InTree(tree, row[r][i])
      /\ \A p : p \notin ToSet(row[r]) => (InTree(tree', p) <=> InTree(tree, p))
  BY <1>m DEF Moved
<1>10. PICK w : w = row[r]
  OBVIOUS
<1>11. /\ w \in Seq(PoolToken) /\ DOMAIN w = 1..l /\ Len(w) = l
       /\ \A i, j \in 1..l : w[i] = w[j] => i = j
  BY <1>2, <1>7, <1>10, RowsApart DEF PoolInv
<1>12. /\ given \in Seq(PoolToken) /\ DOMAIN given = 1..k
       /\ \A i \in 1..k : given[i] = w[i]
  <2>1. k \in 0..Len(w)
    BY <1>9, <1>11
  <2>2. given \in Seq(PoolToken) /\ Len(given) = k /\ \A i \in 1..k : given[i] = w[i]
    BY <1>5, <1>10, <1>11, <2>1, FirstNFacts
  <2> QED
    BY <2>2
<1>13. \A i \in 1..l : i \in 1..k <=> i <= k
  BY <1>9
<1>14. 1..k \subseteq 1..l
  BY <1>9
<1>15. \A p : Occ(given, p) = IF p \in ToSet(given) THEN 1 ELSE 0
  BY <1>11, <1>12, <1>14, OccOnce
<1>16. ToSet(w) = {w[i] : i \in 1..l} /\ ToSet(given) = {w[i] : i \in 1..k}
  BY <1>11, <1>12 DEF ToSet
<1>17. \A p \in PoolToken :
         /\ TreeCount(tree'.value, p) \in Nat /\ TreeCount(tree.value, p) \in Nat
         /\ TreeCount(tree'.value, p) + Occ(given, p)
              = TreeCount(tree.value, p) + (IF p \in ToSet(w) THEN 1 ELSE 0)
  <2> SUFFICES ASSUME NEW p \in PoolToken
               PROVE  /\ TreeCount(tree'.value, p) \in Nat /\ TreeCount(tree.value, p) \in Nat
                      /\ TreeCount(tree'.value, p) + Occ(given, p)
                           = TreeCount(tree.value, p) + (IF p \in ToSet(w) THEN 1 ELSE 0)
    OBVIOUS
  <2>1. TreeCount(tree.value, p) = IF InTree(tree, p) THEN 1 ELSE 0
    BY HasOwner DEF InTree
  <2>2. TreeCount(tree'.value, p) = IF InTree(tree', p) THEN 1 ELSE 0
    <3>1. PICK v : v = tree'.value
      OBVIOUS
    <3>2. TreeCount(v, p) = IF \E q \in DOMAIN v : v[q] = p THEN 1 ELSE 0
      BY <1>9, <3>1, TreeCountFacts
    <3> QED
      BY <3>1, <3>2 DEF InTree
  <2>3. CASE p \notin ToSet(w)
    <3>1. p \notin ToSet(given)
      BY <1>14, <1>16, <2>3
    <3>2. InTree(tree', p) <=> InTree(tree, p)
      BY <1>9, <1>10, <2>3
    <3> QED
      BY <1>15, <2>1, <2>2, <2>3, <3>1, <3>2
  <2>4. CASE p \in ToSet(w)
    <3>1. PICK i \in 1..l : w[i] = p
      BY <1>16, <2>4
    <3>2. CASE i <= k
      <4>1. p \in ToSet(given)
        BY <1>13, <1>16, <3>1, <3>2
      <4>2. InTree(tree', p) <=> InTree(tree, p)
        BY <1>9, <1>10, <3>1, <3>2
      <4> QED
        BY <1>15, <2>1, <2>2, <2>4, <4>1, <4>2
    <3>3. CASE ~(i <= k)
      <4>1. p \notin ToSet(given)
        BY <1>11, <1>13, <1>14, <1>16, <3>1, <3>3
      <4>2. InTree(tree', p) /\ ~InTree(tree, p)
        BY <1>9, <1>10, <3>1, <3>3
      <4> QED
        BY <1>15, <2>1, <2>2, <2>4, <4>1, <4>2
    <3> QED
      BY <3>2, <3>3
  <2> QED
    BY <2>3, <2>4
<1>18. /\ row \in [Req -> Seq(PoolToken)] /\ cur_kv_len \in [Req -> Nat]
       /\ \A q \in Req : Len(row[q]) = cur_kv_len[q]
       /\ free_token_index \in Seq(PoolToken) /\ mem_state \in [PoolToken -> Nat]
  BY DEF PoolInv, PoolTyped, TreeInv, Texts
<1>19. \A q \in Req : row'[q] = IF q = r THEN <<>> ELSE row[q]
  BY <1>6, <1>18
<1>20. PoolTyped'
  <2>1. row' \in [Req -> Seq(PoolToken)]
    <3>1. <<>> \in Seq(PoolToken)
      OBVIOUS
    <3> QED
      BY <1>6, <1>7, <1>18, <3>1
  <2>2. \A q \in Req : Len(row'[q]) = cur_kv_len'[q]
    BY <1>6, <1>18
  <2>3. free_token_index' \in Seq(PoolToken)
    BY <1>6, <1>12, <1>18
  <2> QED
    BY <1>6, <1>9, <1>18, <2>1, <2>2, <2>3 DEF PoolTyped
<1>21. RightContent'
  <2>1. \A q \in Req : \A i \in 1..Len(row'[q]) : content[row'[q][i]] = FirstN(input_token_ids[q], i)
    BY <1>19 DEF PoolInv, RightContent
  <2> QED
    BY <1>6, <1>9, <2>1 DEF RightContent
<1>22. TokensOwned'
  <2>1. \A p : RowCount(row, p) = RowCount(row', p) + (IF p \in ToSet(w) THEN 1 ELSE 0)
    <3>1. PICK before, after : before = row' /\ after = row
      OBVIOUS
    <3>2. (\A q \in Req \ {r} : after[q] = before[q]) /\ ToSet(before[r]) = {} /\ after[r] = w
      BY <1>7, <1>10, <1>19, <3>1, EmptyToSet
    <3>3. r \in Req /\ ToSet(before[r]) = {} /\ \A q \in Req \ {r} : after[q] = before[q]
      BY <1>7, <3>2
    <3>4. \A p : RowCount(after, p) = RowCount(before, p) + (IF p \in ToSet(after[r]) THEN 1 ELSE 0)
      BY <3>3, RowCountChange
    <3> QED
      BY <3>1, <3>2, <3>4
  <2>2. \A p : Owners(p)' = TreeCount(tree'.value, p) + RowCount(row', p) + Occ(free_token_index', p)
    BY OwnersNext
  <2>3. \A p : Occ(free_token_index', p) = Occ(free_token_index, p) + Occ(given, p)
    BY <1>6, <1>12, <1>18, OccConcat
  <2>4. ASSUME NEW p \in PoolToken PROVE mem_state[p] = Owners(p)'
    <3>1. mem_state[p] = TreeCount(tree.value, p) + RowCount(row, p) + Occ(free_token_index, p)
          /\ Occ(free_token_index, p) \in Nat
      BY HasOwner
    <3>2. RowCount(row', p) \in Nat
      BY RowCountFacts
    <3>3. Occ(given, p) \in Nat
      BY <1>15
    <3> QED
      BY <1>17, <2>1, <2>2, <2>3, <3>1, <3>2, <3>3
  <2>5. FreeTokens' = FreeTokens
    BY <1>6 DEF FreeTokens
  <2> QED
    BY <1>6, <2>4, <2>5 DEF PoolInv, TokensOwned
<1> QED
  BY <1>20, <1>21, <1>22 DEF PoolInv

-----------------------------------------------------------------------------
(* The forward: the pool tokens it takes *)

LEMMA NthFreeFacts ==
  /\ \A i \in 1..Cardinality(FreeTokens) : NthFree(i) \in FreeTokens
  /\ \A i, j \in 1..Cardinality(FreeTokens) : NthFree(i) = NthFree(j) => i = j
<1>1. PICK F : F = FreeTokens
  OBVIOUS
<1>2. F \in SUBSET Nat /\ IsFiniteSet(F)
  BY <1>1, FreeFinite DEF FreeTokens, PoolToken
<1>3. \A i \in 1..Cardinality(F) : \E p \in F : Cardinality({q \in F : q <= p}) = i
  BY <1>2, RankFacts
<1>4. \A i \in 1..Cardinality(F) :
        NthFree(i) \in F /\ Cardinality({q \in F : q <= NthFree(i)}) = i
  <2> SUFFICES ASSUME NEW i \in 1..Cardinality(F)
               PROVE  NthFree(i) \in F /\ Cardinality({q \in F : q <= NthFree(i)}) = i
    OBVIOUS
  <2>1. NthFree(i) = CHOOSE p \in F : Cardinality({q \in F : q <= p}) = i
    BY <1>1 DEF NthFree
  <2> QED
    BY <1>3, <2>1
<1>5. ASSUME NEW i \in 1..Cardinality(F), NEW j \in 1..Cardinality(F), NthFree(i) = NthFree(j)
      PROVE  i = j
  <2>1. PICK p : p = NthFree(i) /\ p = NthFree(j)
    BY <1>5
  <2>2. Cardinality({q \in F : q <= p}) = i /\ Cardinality({q \in F : q <= p}) = j
    BY <1>4, <2>1
  <2> QED
    BY <2>2
<1> QED
  BY <1>1, <1>4, <1>5

\* The request of the batch whose forward computes the tokens of r.
Leader(r) == IF r \in Computed THEN r ELSE HeadOf(r)

LEMMA LeaderFacts ==
  ASSUME TreeInv, Prefilling \/ Decoding
  PROVE  /\ batch \subseteq Req /\ Computed \subseteq batch
         /\ \A r \in Computed : Leader(r) = r
         /\ \A r \in batch : /\ Leader(r) \in Computed
                             /\ cur_kv_len[Leader(r)] = cur_kv_len[r]
                             /\ input_token_ids[Leader(r)] = input_token_ids[r]
<1>1. batch \subseteq Req /\ Computed \subseteq batch
  BY DEF TreeInv, Control, Computed
<1>2. \A r \in Computed : Leader(r) = r
  BY DEF Leader
<1>3. CASE Prefilling
  <2>1. Computed = {r \in batch : r = HeadOf(r)}
    BY <1>3 DEF Prefilling, Computed
  <2>2. \A r \in batch : /\ Members(GroupOf[r]) \subseteq batch /\ input_token_ids[r] = Prompt[r]
                         /\ cur_kv_len[r] = cur_kv_len[HeadOf(r)]
    BY <1>3 DEF TreeInv, GroupsTogether
  <2>3. ASSUME NEW r \in batch
        PROVE  /\ Leader(r) = HeadOf(r) /\ HeadOf(r) \in Computed
               /\ input_token_ids[HeadOf(r)] = input_token_ids[r]
    <3>1. /\ HeadOf(r) \in Members(GroupOf[r]) /\ HeadOf(HeadOf(r)) = HeadOf(r)
          /\ Prompt[HeadOf(r)] = Prompt[r]
      BY <1>1, HeadFacts
    <3>2. HeadOf(r) \in batch
      BY <2>2, <3>1
    <3> QED
      BY <2>1, <2>2, <3>1, <3>2 DEF Leader
  <2> QED
    BY <1>1, <1>2, <2>2, <2>3
<1>4. CASE ~Prefilling
  <2>1. Computed = batch
    BY <1>4 DEF Prefilling, Computed
  <2> QED
    BY <1>1, <1>2, <2>1
<1> QED
  BY <1>3, <1>4

LEMMA MissingFacts ==
  ASSUME TreeInv, NEW r \in Req
  PROVE  /\ Missing(r) \in Nat /\ Missing(r) > 0 /\ cur_kv_len[r] \in Nat
         /\ Len(input_token_ids[r]) = cur_kv_len[r] + Missing(r)
BY DEF TreeInv, Texts, Missing

\* The ranges of the requests computed follow each other.
LEMMA OffsetFacts ==
  ASSUME TreeInv, Prefilling \/ Decoding, NEW r \in Computed
  PROVE  /\ Offset(r) \in Nat /\ Offset(r) + Missing(r) <= Needed
         /\ \A s \in Computed : r < s => Offset(r) + Missing(r) <= Offset(s)
<1>1. PICK D \in SUBSET Req : D = Computed
  BY LeaderFacts
<1>2. PICK f : f = [s \in Req |-> Missing(s)]
  OBVIOUS
<1>3. D \in SUBSET Nat /\ IsFiniteSet(D) /\ r \in D
  BY <1>1, PromptCacheAssumption, FS_Subset
<1>4. \A x \in D : f[x] \in Nat
  BY <1>1, <1>2, MissingFacts
<1>5. /\ SumFunctionOnSet(f, {x \in D : x < r}) \in Nat
      /\ SumFunctionOnSet(f, {x \in D : x < r}) + f[r] <= SumFunctionOnSet(f, D)
      /\ \A s \in D : r < s =>
           SumFunctionOnSet(f, {x \in D : x < r}) + f[r] <= SumFunctionOnSet(f, {x \in D : x < s})
  BY <1>3, <1>4, PartialSums
<1>6. \A s : Offset(s) = SumFunctionOnSet(f, {x \in D : x < s})
  BY <1>1, <1>2 DEF Offset, Total
<1>7. Needed = SumFunctionOnSet(f, D) /\ f[r] = Missing(r)
  BY <1>1, <1>2, <1>3 DEF Needed, Total
<1> QED
  BY <1>1, <1>5, <1>6, <1>7

\* The tokens that the forward takes for the text of r.
FreshOf(r) == {NthFree(Offset(Leader(r)) + j) : j \in 1..Missing(r)}

LEMMA FreshFacts ==
  ASSUME TreeInv, Prefilling \/ Decoding, Needed <= Cardinality(FreeTokens)
  PROVE  /\ \A r \in batch : \A j \in 1..Missing(r) :
              Offset(Leader(r)) + j \in 1..Cardinality(FreeTokens)
         /\ \A r \in batch : FreshOf(r) = FreshOf(Leader(r)) /\ FreshOf(r) \subseteq FreeTokens
         /\ \A r, s \in batch : \A i \in 1..Missing(r), j \in 1..Missing(s) :
              NthFree(Offset(Leader(r)) + i) = NthFree(Offset(Leader(s)) + j)
                => Leader(r) = Leader(s) /\ i = j
         /\ \A r \in Computed : IsFiniteSet(FreshOf(r)) /\ Cardinality(FreshOf(r)) = Missing(r)
         /\ \A r, s \in Computed : r # s => FreshOf(r) \cap FreshOf(s) = {}
<1>1. /\ batch \subseteq Req /\ Computed \subseteq batch
      /\ \A r \in Computed : Leader(r) = r
      /\ \A r \in batch : /\ Leader(r) \in Computed
                          /\ cur_kv_len[Leader(r)] = cur_kv_len[r]
                          /\ input_token_ids[Leader(r)] = input_token_ids[r]
  BY LeaderFacts
<1>2. PICK c \in Nat : c = Cardinality(FreeTokens)
  BY FreeFinite
<1>3. \A r \in batch : Missing(Leader(r)) = Missing(r) /\ Missing(r) \in Nat
  BY <1>1, MissingFacts DEF Missing
<1>4. \A r \in Computed : /\ Offset(r) \in Nat /\ Offset(r) + Missing(r) <= Needed
                          /\ \A s \in Computed : r < s => Offset(r) + Missing(r) <= Offset(s)
  BY OffsetFacts
<1>5. Needed \in Int /\ Needed <= c
  <2>1. PICK D \in SUBSET Req : D = Computed
    BY <1>1
  <2>2. PICK f : f = [s \in Req |-> Missing(s)]
    OBVIOUS
  <2>3. IsFiniteSet(D)
    BY PromptCacheAssumption, FS_Subset
  <2>4. \A r \in D : f[r] \in Int
    BY <1>1, <1>3, <2>1, <2>2
  <2>5. SumFunctionOnSet(f, D) \in Int
    BY <2>3, <2>4, SumStep
  <2> QED
    BY <1>2, <2>1, <2>2, <2>5 DEF Needed, Total
<1>6. ASSUME NEW r \in batch, NEW j \in 1..Missing(r) PROVE Offset(Leader(r)) + j \in 1..c
  BY <1>1, <1>3, <1>4, <1>5
<1>7. ASSUME NEW r \in batch PROVE FreshOf(r) = FreshOf(Leader(r)) /\ FreshOf(r) \subseteq FreeTokens
  <2>1. Leader(Leader(r)) = Leader(r)
    BY <1>1
  <2>2. \A j \in 1..Missing(r) : NthFree(Offset(Leader(r)) + j) \in FreeTokens
    BY <1>2, <1>6, NthFreeFacts
  <2> QED
    BY <1>3, <2>1, <2>2 DEF FreshOf
<1>8. ASSUME NEW r \in batch, NEW s \in batch, NEW i \in 1..Missing(r), NEW j \in 1..Missing(s),
             NthFree(Offset(Leader(r)) + i) = NthFree(Offset(Leader(s)) + j)
      PROVE  Leader(r) = Leader(s) /\ i = j
  <2>1. Offset(Leader(r)) + i = Offset(Leader(s)) + j
    BY <1>2, <1>6, <1>8, NthFreeFacts
  <2>2. PICK a \in Computed, b \in Computed : a = Leader(r) /\ b = Leader(s)
    BY <1>1
  <2>3. Missing(r) = Missing(a) /\ Missing(s) = Missing(b) /\ Missing(r) \in Nat /\ Missing(s) \in Nat
    BY <1>3, <2>2
  <2>4. a \in Nat /\ b \in Nat
    BY <1>1, PromptCacheAssumption
  <2>5. ~(a < b)
    BY <1>4, <2>1, <2>2, <2>3
  <2>6. ~(b < a)
    BY <1>4, <2>1, <2>2, <2>3
  <2>7. a = b
    BY <2>4, <2>5, <2>6
  <2> QED
    BY <1>4, <2>1, <2>2, <2>7
<1>9. ASSUME NEW r \in Computed
      PROVE  IsFiniteSet(FreshOf(r)) /\ Cardinality(FreshOf(r)) = Missing(r)
  <2>1. PICK m \in Nat : m = Missing(r)
    BY <1>1, <1>3
  <2>2. PICK f : f = [j \in 1..m |-> NthFree(Offset(r) + j)]
    OBVIOUS
  <2>3. PICK T : T = FreshOf(r)
    OBVIOUS
  <2>4. T = {NthFree(Offset(r) + j) : j \in 1..m}
    BY <1>1, <2>1, <2>3 DEF FreshOf
  <2>5. f \in [1..m -> T] /\ \A z \in T : \E j \in 1..m : f[j] = z
    BY <2>2, <2>4
  <2>6. \A i, j \in 1..m : f[i] = f[j] => i = j
    BY <1>1, <1>8, <2>1, <2>2
  <2>7. IsFiniteSet(1..m) /\ Cardinality(1..m) = m
    BY FS_Interval
  <2>8. PICK D : D = 1..m
    OBVIOUS
  <2>9. IsFiniteSet(D) /\ f \in [D -> T] /\ \A i, j \in D : f[i] = f[j] => i = j
    BY <2>5, <2>6, <2>7, <2>8
  <2>10. \A z \in T : \E j \in D : f[j] = z
    BY <2>5, <2>8
  <2>11. IsFiniteSet(T) /\ Cardinality(T) = Cardinality(D)
    BY <2>9, <2>10, OneToOne
  <2> QED
    BY <2>1, <2>3, <2>7, <2>8, <2>11
<1>10. ASSUME NEW r \in Computed, NEW s \in Computed, r # s
       PROVE  FreshOf(r) \cap FreshOf(s) = {}
  <2>1. Leader(r) = r /\ Leader(s) = s /\ r \in batch /\ s \in batch
    BY <1>1
  <2> QED
    BY <1>8, <1>10, <2>1 DEF FreshOf
<1> QED
  BY <1>2, <1>6, <1>7, <1>8, <1>9, <1>10

Joins(S, s, t, u) ==
  /\ u \in Seq(S) /\ Len(u) = Len(s) + Len(t)
  /\ \A i \in 1..Len(s) : u[i] = s[i]
  /\ \A j \in 1..Len(t) : u[Len(s) + j] = t[j]

LEMMA ConcatFacts ==
  ASSUME NEW S, NEW s \in Seq(S), NEW t \in Seq(S)
  PROVE  Joins(S, s, t, s \o t)
<1>1. PICK m \in Nat, n \in Nat : m = Len(s) /\ n = Len(t)
  OBVIOUS
<1>2. s \o t \in Seq(S) /\ Len(s \o t) = m + n
  BY <1>1
<1>3. \A i \in 1..(m + n) : (s \o t)[i] = IF i <= m THEN s[i] ELSE t[i - m]
  BY <1>1
<1>4. \A i \in 1..m : i \in 1..(m + n) /\ i <= m
  OBVIOUS
<1>5. \A j \in 1..n : m + j \in 1..(m + n) /\ ~(m + j <= m) /\ (m + j) - m = j
  OBVIOUS
<1>6. \A i \in 1..m : (s \o t)[i] = s[i]
  BY <1>3, <1>4
<1>7. \A j \in 1..n : (s \o t)[m + j] = t[j]
  BY <1>3, <1>5
<1> QED
  BY <1>1, <1>2, <1>6, <1>7 DEF Joins

LEMMA TailFacts ==
  ASSUME NEW S, NEW s \in Seq(S), NEW k \in 0..Len(s)
  PROVE  /\ SubSeq(s, k + 1, Len(s)) \in Seq(S) /\ Len(SubSeq(s, k + 1, Len(s))) = Len(s) - k
         /\ \A j \in 1..(Len(s) - k) : SubSeq(s, k + 1, Len(s))[j] = s[k + j]
<1>1. PICK n \in Nat : n = Len(s)
  OBVIOUS
<1>2. k \in Nat /\ k <= n
  BY <1>1
<1>3. \A i \in 1..n : s[i] \in S
  BY <1>1
<1>4. SubSeq(s, k + 1, n) = [i \in 1..((1 + n) - (k + 1)) |-> s[((k + 1) + i) - 1]]
  BY <1>1, <1>2, SubSeqProperties
<1>5. (1 + n) - (k + 1) = n - k /\ n - k \in Nat
  BY <1>2
<1>6. \A i \in 1..(n - k) : ((k + 1) + i) - 1 = k + i /\ k + i \in 1..n
  BY <1>2
<1>7. SubSeq(s, k + 1, n) = [i \in 1..(n - k) |-> s[k + i]]
  BY <1>4, <1>5, <1>6
<1>8. [i \in 1..(n - k) |-> s[k + i]] \in Seq(S)
  BY <1>3, <1>5, <1>6
<1>9. Len([i \in 1..(n - k) |-> s[k + i]]) = n - k
  BY <1>5, <1>8
<1> QED
  BY <1>1, <1>7, <1>8, <1>9

\* The row of r after the forward: the one it has, then the tokens taken.
RowOf(r)   == IF r \in Computed THEN NewRow(r) ELSE SharedRow(r)
AddedTo(r) == SubSeq(RowOf(r), Len(row[r]) + 1, Len(RowOf(r)))
Extended(r, w) ==
  /\ w \in Seq(PoolToken) /\ Len(w) = cur_kv_len[r] + Missing(r)
  /\ \A i \in 1..cur_kv_len[r] : w[i] = row[r][i]
  /\ \A j \in 1..Missing(r) : w[cur_kv_len[r] + j] = NthFree(Offset(Leader(r)) + j)

LEMMA ConcatRow ==
  ASSUME TreeInv, PoolInv, NEW r \in Req, NEW t \in Seq(PoolToken), Len(t) = Missing(r),
         \A j \in 1..Missing(r) : t[j] = NthFree(Offset(Leader(r)) + j)
  PROVE  Extended(r, row[r] \o t)
<1>1. PICK w \in Seq(PoolToken) : w = row[r]
  BY DEF PoolInv, PoolTyped
<1>2. Len(w) = cur_kv_len[r]
  BY <1>1 DEF PoolInv, PoolTyped
<1>3. PICK u : u = w \o t
  OBVIOUS
<1>4. Joins(PoolToken, w, t, u)
  BY <1>3, ConcatFacts
<1>5. /\ u \in Seq(PoolToken) /\ Len(u) = Len(w) + Len(t)
      /\ \A i \in 1..Len(w) : u[i] = w[i]
      /\ \A j \in 1..Len(t) : u[Len(w) + j] = t[j]
  BY <1>4 DEF Joins
<1> QED
  BY <1>1, <1>2, <1>3, <1>5 DEF Extended

LEMMA RowFacts ==
  ASSUME TreeInv, PoolInv, Prefilling \/ Decoding, Needed <= Cardinality(FreeTokens),
         NEW r \in batch
  PROVE  Extended(r, RowOf(r)) /\ ToSet(AddedTo(r)) = FreshOf(r)
<1>1. /\ batch \subseteq Req /\ Computed \subseteq batch
      /\ \A q \in Computed : Leader(q) = q
      /\ \A q \in batch : /\ Leader(q) \in Computed
                          /\ cur_kv_len[Leader(q)] = cur_kv_len[q]
                          /\ input_token_ids[Leader(q)] = input_token_ids[q]
  BY LeaderFacts
<1>2. \A q \in batch : \A j \in 1..Missing(q) : NthFree(Offset(Leader(q)) + j) \in PoolToken
  <2>1. \A q \in batch : \A j \in 1..Missing(q) : Offset(Leader(q)) + j \in 1..Cardinality(FreeTokens)
    BY FreshFacts
  <2>2. FreeTokens \subseteq PoolToken
    BY DEF FreeTokens
  <2> QED
    BY <2>1, <2>2, NthFreeFacts
<1>3. \A q \in Req : /\ Missing(q) \in Nat /\ cur_kv_len[q] \in Nat
                     /\ Len(input_token_ids[q]) = cur_kv_len[q] + Missing(q)
  BY MissingFacts
<1>4. ASSUME NEW q \in Computed PROVE Extended(q, NewRow(q))
  <2>1. PICK m \in Nat : m = Missing(q)
    BY <1>1, <1>3
  <2>2. PICK t : t = [i \in 1..m |-> NthFree(Offset(q) + i)]
    OBVIOUS
  <2>3. \A j \in 1..m : NthFree(Offset(q) + j) \in PoolToken
    BY <1>1, <1>2, <2>1
  <2>4. t \in Seq(PoolToken) /\ Len(t) = m
    BY <2>2, <2>3
  <2>5. \A j \in 1..m : t[j] = NthFree(Offset(Leader(q)) + j)
    BY <1>1, <2>2
  <2>6. NewRow(q) = row[q] \o t
    BY <2>1, <2>2 DEF NewRow
  <2> QED
    BY <1>1, <2>1, <2>4, <2>5, <2>6, ConcatRow
<1>5. ASSUME r \notin Computed PROVE Extended(r, SharedRow(r))
  <2>1. PICK h \in Computed : h = HeadOf(r) /\ h = Leader(r)
    BY <1>1, <1>5 DEF Leader
  <2>2. PICK s : s = NewRow(h)
    OBVIOUS
  <2>3. PICK k \in Nat, m \in Nat : k = cur_kv_len[h] /\ m = Missing(h)
    BY <1>1, <1>3
  <2>4. cur_kv_len[r] = k /\ Missing(r) = m /\ Leader(h) = h /\ Len(input_token_ids[h]) = k + m
    BY <1>1, <1>3, <2>1, <2>3 DEF Missing
  <2>5. /\ s \in Seq(PoolToken) /\ Len(s) = k + m
        /\ \A j \in 1..m : s[k + j] = NthFree(Offset(h) + j)
    BY <1>4, <2>2, <2>3, <2>4 DEF Extended
  <2>6. Len(row[h]) = k
    BY <1>1, <2>3 DEF PoolInv, PoolTyped
  <2>7. PICK t : t = SubSeq(s, k + 1, Len(s))
    OBVIOUS
  <2>8. k \in 0..Len(s) /\ Len(s) - k = m
    BY <2>5
  <2>9. t \in Seq(PoolToken) /\ Len(t) = m /\ \A j \in 1..m : t[j] = s[k + j]
    BY <2>5, <2>7, <2>8, TailFacts
  <2>10. SharedRow(r) = row[r] \o t
    BY <2>1, <2>2, <2>4, <2>5, <2>6, <2>7 DEF SharedRow
  <2>11. r \in Req /\ \A j \in 1..Missing(r) : t[j] = NthFree(Offset(Leader(r)) + j)
    BY <1>1, <2>1, <2>4, <2>5, <2>9
  <2> QED
    BY <2>4, <2>9, <2>10, <2>11, ConcatRow
<1>6. Extended(r, RowOf(r))
  BY <1>4, <1>5 DEF RowOf
<1>7. PICK w : w = RowOf(r)
  OBVIOUS
<1>8. PICK k \in Nat, m \in Nat : k = cur_kv_len[r] /\ m = Missing(r)
  BY <1>1, <1>3
<1>9. w \in Seq(PoolToken) /\ Len(w) = k + m
      /\ \A j \in 1..m : w[k + j] = NthFree(Offset(Leader(r)) + j)
  BY <1>6, <1>7, <1>8 DEF Extended
<1>10. k \in 0..Len(w) /\ Len(w) - k = m
  BY <1>9
<1>11. PICK t : t = SubSeq(w, k + 1, Len(w))
  OBVIOUS
<1>12. t \in Seq(PoolToken) /\ Len(t) = m /\ \A j \in 1..m : t[j] = w[k + j]
  BY <1>9, <1>10, <1>11, TailFacts
<1>13. AddedTo(r) = t
  <2>1. Len(row[r]) = k
    BY <1>1, <1>8 DEF PoolInv, PoolTyped
  <2> QED
    BY <1>7, <1>11, <2>1 DEF AddedTo
<1>14. ToSet(t) = {NthFree(Offset(Leader(r)) + j) : j \in 1..m}
  <2>1. DOMAIN t = 1..m
    BY <1>12
  <2>2. \A j \in 1..m : t[j] = NthFree(Offset(Leader(r)) + j)
    BY <1>9, <1>12
  <2>3. ToSet(t) = {t[j] : j \in 1..m}
    BY <2>1 DEF ToSet
  <2> QED
    BY <2>2, <2>3
<1> QED
  BY <1>6, <1>8, <1>13, <1>14 DEF FreshOf

LEMMA RowTokens ==
  ASSUME TreeInv, PoolInv, NEW r \in Req, NEW w, Extended(r, w)
  PROVE  ToSet(w) = ToSet(row[r]) \cup FreshOf(r)
<1>1. PICK k \in Nat, m \in Nat : k = cur_kv_len[r] /\ m = Missing(r)
  BY MissingFacts
<1>2. PICK v \in Seq(PoolToken) : v = row[r] /\ Len(v) = k
  BY <1>1 DEF PoolInv, PoolTyped
<1>3. /\ w \in Seq(PoolToken) /\ Len(w) = k + m
      /\ \A i \in 1..k : w[i] = v[i]
      /\ \A j \in 1..m : w[k + j] = NthFree(Offset(Leader(r)) + j)
  BY <1>1, <1>2 DEF Extended
<1>4. ToSet(w) = {w[i] : i \in 1..(k + m)} /\ ToSet(v) = {v[i] : i \in 1..k}
  <2>1. DOMAIN w = 1..(k + m)
    BY <1>3
  <2>2. DOMAIN v = 1..k
    BY <1>2
  <2>3. ToSet(w) = {w[i] : i \in 1..(k + m)}
    BY <2>1, Zenon DEF ToSet
  <2>4. ToSet(v) = {v[i] : i \in 1..k}
    BY <2>2, Zenon DEF ToSet
  <2> QED
    BY <2>3, <2>4
<1>5. FreshOf(r) = {w[k + j] : j \in 1..m}
  BY <1>1, <1>3 DEF FreshOf
<1>6. \A i \in 1..(k + m) : i \in 1..k \/ \E j \in 1..m : i = k + j
  <2> SUFFICES ASSUME NEW i \in 1..(k + m), i \notin 1..k PROVE \E j \in 1..m : i = k + j
    OBVIOUS
  <2>1. i - k \in 1..m /\ i = k + (i - k)
    OBVIOUS
  <2> QED
    BY <2>1
<1>7. (\A i \in 1..k : i \in 1..(k + m)) /\ (\A j \in 1..m : k + j \in 1..(k + m))
  OBVIOUS
<1>8. ToSet(w) \subseteq ToSet(v) \cup FreshOf(r)
  BY <1>3, <1>4, <1>5, <1>6
<1>9. ToSet(v) \subseteq ToSet(w)
  BY <1>3, <1>4, <1>7
<1>10. FreshOf(r) \subseteq ToSet(w)
  BY <1>4, <1>5, <1>7
<1> QED
  BY <1>2, <1>8, <1>9, <1>10

\* The assignments of a forward, with the rows by name.
Fed(rows, added) ==
  /\ \A r \in batch : rows[r] = RowOf(r) /\ added[r] = AddedTo(r)
  /\ row' = [r \in Req |-> IF r \in batch THEN rows[r] ELSE row[r]]
  /\ mem_state' = [p \in PoolToken |->
                     mem_state[p] + Cardinality({r \in batch : p \in ToSet(added[r])})]
  /\ can_use_mem_size' = can_use_mem_size - Needed
  /\ content' = [p \in PoolToken |->
       IF \E r \in Computed : p \in ToSet(added[r])
       THEN LET r == CHOOSE r \in Computed : p \in ToSet(added[r])
            IN FirstN(input_token_ids[r], CHOOSE i \in DOMAIN rows[r] : rows[r][i] = p)
       ELSE content[p]]

LEMMA ForwardStep ==
  ASSUME NEW kind \in {"prefill", "decode"}, Forward(kind)
  PROVE  /\ (Prefilling \/ Decoding) /\ Needed <= can_use_mem_size
         /\ \E rows, added : Fed(rows, added)
         /\ \E sampled \in [batch -> Token] :
              input_token_ids' = [r \in Req |-> IF r \in batch
                                                THEN Append(input_token_ids[r], sampled[r])
                                                ELSE input_token_ids[r]]
         /\ cur_kv_len' = [r \in Req |-> IF r \in batch THEN Len(input_token_ids[r])
                                         ELSE cur_kv_len[r]]
         /\ UNCHANGED <<tree, free_token_index>>
<1>1. at = AllocFor(kind)
  BY DEF Forward
<1>2. Prefilling \/ Decoding
  BY <1>1 DEF AllocFor, Prefilling, Decoding
<1>3. Needed <= can_use_mem_size /\ UNCHANGED <<tree, free_token_index>>
  BY DEF Forward
<1> DEFINE rows  == [r \in batch |-> IF r \in Computed THEN NewRow(r) ELSE SharedRow(r)]
           added == [r \in batch |-> SubSeq(rows[r], Len(row[r]) + 1, Len(rows[r]))]
<1>6. PICK sampled \in [batch -> Token], ended \in SUBSET batch :
        /\ row' = [r \in Req |-> IF r \in batch THEN rows[r] ELSE row[r]]
        /\ mem_state' = [p \in PoolToken |->
                           mem_state[p] + Cardinality({r \in batch : p \in ToSet(added[r])})]
        /\ can_use_mem_size' = can_use_mem_size - Needed
        /\ content' = [p \in PoolToken |->
             IF \E r \in Computed : p \in ToSet(added[r])
             THEN LET r == CHOOSE r \in Computed : p \in ToSet(added[r])
                  IN FirstN(input_token_ids[r], CHOOSE i \in DOMAIN rows[r] : rows[r][i] = p)
             ELSE content[p]]
        /\ cur_kv_len' = [r \in Req |-> IF r \in batch THEN Len(input_token_ids[r])
                                        ELSE cur_kv_len[r]]
        /\ input_token_ids' = [r \in Req |-> IF r \in batch
                                             THEN Append(input_token_ids[r], sampled[r])
                                             ELSE input_token_ids[r]]
  BY DEF Forward
<1>7. \A r \in batch : rows[r] = RowOf(r) /\ added[r] = AddedTo(r)
  BY DEF RowOf, AddedTo
<1> HIDE DEF rows, added
<1>8. Fed(rows, added)
  BY <1>6, <1>7 DEF Fed
<1> QED
  BY <1>2, <1>3, <1>6, <1>8

\* What the entries hold after the forward: those taken their texts, the others
\* what they held.
LEMMA FedContent ==
  ASSUME TreeInv, PoolInv, Prefilling \/ Decoding, Needed <= Cardinality(FreeTokens),
         NEW rows, NEW added, Fed(rows, added)
  PROVE  /\ \A p \in PoolToken : p \notin FreeTokens => content'[p] = content[p]
         /\ \A r \in batch : \A j \in 1..Missing(r) :
              content'[NthFree(Offset(Leader(r)) + j)] = FirstN(input_token_ids[r], cur_kv_len[r] + j)
<1>1. /\ batch \subseteq Req /\ Computed \subseteq batch
      /\ \A r \in Computed : Leader(r) = r
      /\ \A r \in batch : /\ Leader(r) \in Computed
                          /\ cur_kv_len[Leader(r)] = cur_kv_len[r]
                          /\ input_token_ids[Leader(r)] = input_token_ids[r]
  BY LeaderFacts
<1>2. \A r \in batch : ToSet(added[r]) = FreshOf(r) /\ rows[r] = RowOf(r) /\ Extended(r, rows[r])
  BY RowFacts DEF Fed
<1>3. /\ \A r \in batch : FreshOf(r) = FreshOf(Leader(r)) /\ FreshOf(r) \subseteq FreeTokens
      /\ \A r, s \in Computed : r # s => FreshOf(r) \cap FreshOf(s) = {}
  BY FreshFacts
<1>4. \A p \in PoolToken : content'[p] =
        IF \E r \in Computed : p \in ToSet(added[r])
        THEN LET r == CHOOSE r \in Computed : p \in ToSet(added[r])
             IN FirstN(input_token_ids[r], CHOOSE i \in DOMAIN rows[r] : rows[r][i] = p)
        ELSE content[p]
  BY DEF Fed
<1>5. ASSUME NEW p \in PoolToken, p \notin FreeTokens PROVE content'[p] = content[p]
  <2>1. \A r \in Computed : p \notin ToSet(added[r])
    BY <1>1, <1>2, <1>3, <1>5
  <2> QED
    BY <1>4, <2>1
<1>6. ASSUME NEW r \in batch, NEW j \in 1..Missing(r)
      PROVE  content'[NthFree(Offset(Leader(r)) + j)] = FirstN(input_token_ids[r], cur_kv_len[r] + j)
  <2>1. PICK a \in Computed : a = Leader(r) /\ Leader(a) = a
    BY <1>1
  <2>2. PICK k \in Nat, m \in Nat : k = cur_kv_len[a] /\ m = Missing(a)
    BY <1>1, MissingFacts
  <2>3. cur_kv_len[r] = k /\ Missing(r) = m /\ j \in 1..m /\ input_token_ids[r] = input_token_ids[a]
    BY <1>1, <2>1, <2>2 DEF Missing
  <2>4. PICK p : p = NthFree(Offset(a) + j)
    OBVIOUS
  <2>5. p \in FreshOf(a)
    BY <2>1, <2>2, <2>3, <2>4 DEF FreshOf
  <2>6. p \in PoolToken /\ p \in FreeTokens
    BY <1>1, <1>3, <2>5 DEF FreeTokens
  <2>7. p \in ToSet(added[a])
    BY <1>1, <1>2, <2>5
  <2>8. (CHOOSE c \in Computed : p \in ToSet(added[c])) = a
    <3>1. \A c \in Computed : p \in ToSet(added[c]) => c = a
      BY <1>1, <1>2, <1>3, <2>5
    <3> QED
      BY <2>7, <3>1
  <2>9. content'[p] = FirstN(input_token_ids[a], CHOOSE i \in DOMAIN rows[a] : rows[a][i] = p)
    BY <1>4, <2>6, <2>7, <2>8
  <2>10. PICK w : w = rows[a]
    OBVIOUS
  <2>11. /\ DOMAIN w = 1..(k + m)
         /\ \A i \in 1..k : w[i] = row[a][i]
         /\ \A i \in 1..m : w[k + i] = NthFree(Offset(a) + i)
    <3>1. Extended(a, w)
      BY <1>1, <1>2, <2>10
    <3>2. w \in Seq(PoolToken) /\ Len(w) = k + m
      BY <2>2, <3>1 DEF Extended
    <3>3. DOMAIN w = 1..(k + m)
      BY <3>2
    <3> QED
      BY <2>1, <2>2, <3>1, <3>3 DEF Extended
  <2>12. k + j \in DOMAIN w /\ w[k + j] = p
    <3>1. k + j \in 1..(k + m)
      BY <2>3
    <3> QED
      BY <2>3, <2>4, <2>11, <3>1
  <2>13. ASSUME NEW i \in DOMAIN w, w[i] = p PROVE i = k + j
    <3>1. CASE i \in 1..k
      <4>1. row[a] \in Seq(PoolToken) /\ DOMAIN row[a] = 1..k
        BY <1>1, <2>2, RowsApart DEF PoolInv
      <4>2. p \in ToSet(row[a])
        BY <2>11, <2>13, <3>1, <4>1 DEF ToSet
      <4>3. p \notin ToSet(row[a])
        BY <1>1, <2>6, HasOwner
      <4> QED
        BY <4>2, <4>3
    <3>2. CASE i \notin 1..k
      <4>1. PICK l \in 1..m : i = k + l
        <5>1. i \in 1..(k + m)
          BY <2>11
        <5>2. i - k \in 1..m /\ i = k + (i - k)
          BY <3>2, <5>1
        <5> QED
          BY <5>2
      <4>2. NthFree(Offset(a) + l) = NthFree(Offset(a) + j)
        BY <2>4, <2>11, <2>13, <4>1
      <4>3. \A x, y \in 1..m : NthFree(Offset(a) + x) = NthFree(Offset(a) + y) => x = y
        <5>1. \A r1, s1 \in batch : \A x \in 1..Missing(r1), y \in 1..Missing(s1) :
                NthFree(Offset(Leader(r1)) + x) = NthFree(Offset(Leader(s1)) + y)
                  => Leader(r1) = Leader(s1) /\ x = y
          BY FreshFacts
        <5>2. a \in batch
          BY <1>1
        <5> QED
          BY <2>1, <2>2, <5>1, <5>2
      <4>4. l = j
        BY <2>3, <4>2, <4>3
      <4> QED
        BY <4>1, <4>4
    <3> QED
      BY <3>1, <3>2
  <2>14. (CHOOSE i \in DOMAIN w : w[i] = p) = k + j
    BY <2>12, <2>13
  <2>15. content'[p] = FirstN(input_token_ids[a], k + j)
    BY <2>9, <2>10, <2>14
  <2> QED
    BY <2>1, <2>3, <2>4, <2>15
<1> QED
  BY <1>5, <1>6

\* The references after the forward: one more on each token taken, for each request
\* whose row has it now.
LEMMA FedCounts ==
  ASSUME TreeInv, PoolInv, Prefilling \/ Decoding, Needed <= Cardinality(FreeTokens),
         NEW rows, NEW added, Fed(rows, added)
  PROVE  /\ mem_state' \in [PoolToken -> Nat]
         /\ \A p \in PoolToken : /\ RowCount(row', p) - RowCount(row, p) \in Nat
                                 /\ mem_state'[p] = mem_state[p] + (RowCount(row', p) - RowCount(row, p))
         /\ can_use_mem_size = Cardinality(FreeTokens) => can_use_mem_size' = Cardinality(FreeTokens')
<1>1. /\ batch \subseteq Req /\ Computed \subseteq batch
      /\ \A r \in batch : Leader(r) \in Computed
  BY LeaderFacts
<1>2. \A r \in batch : /\ ToSet(added[r]) = FreshOf(r)
                       /\ ToSet(rows[r]) = ToSet(row[r]) \cup FreshOf(r)
  <2>1. TAKE r \in batch
  <2>2. Extended(r, rows[r]) /\ ToSet(added[r]) = FreshOf(r)
    BY RowFacts DEF Fed
  <2>3. PICK w : w = rows[r]
    OBVIOUS
  <2>4. ToSet(w) = ToSet(row[r]) \cup FreshOf(r)
    BY <1>1, <2>2, <2>3, RowTokens
  <2> QED
    BY <2>2, <2>3, <2>4
<1>3. /\ \A r \in batch : FreshOf(r) = FreshOf(Leader(r)) /\ FreshOf(r) \subseteq FreeTokens
      /\ \A r \in Computed : IsFiniteSet(FreshOf(r)) /\ Cardinality(FreshOf(r)) = Missing(r)
      /\ \A r, s \in Computed : r # s => FreshOf(r) \cap FreshOf(s) = {}
  BY FreshFacts
<1>4. PICK M : M = [p \in PoolToken |-> {r \in batch : p \in FreshOf(r)}]
  OBVIOUS
<1>5. \A p \in PoolToken : M[p] = {r \in batch : p \in ToSet(added[r])}
  <2>1. \A p \in PoolToken : {r \in batch : p \in FreshOf(r)} = {r \in batch : p \in ToSet(added[r])}
    BY <1>2
  <2> QED
    BY <1>4, <2>1
<1>6. \A p \in PoolToken : /\ M[p] \in SUBSET Req /\ IsFiniteSet(M[p]) /\ Cardinality(M[p]) \in Nat
                           /\ (Cardinality(M[p]) = 0 <=> M[p] = {})
  <2>1. \A p \in PoolToken : M[p] \in SUBSET Req
    BY <1>1, <1>4
  <2> QED
    BY <2>1, PromptCacheAssumption, FS_Subset, FS_CardinalityType, FS_EmptySet
<1>7. mem_state \in [PoolToken -> Nat]
  BY DEF PoolInv, PoolTyped
<1>8. mem_state' = [p \in PoolToken |-> mem_state[p] + Cardinality(M[p])]
  <2>1. mem_state' = [p \in PoolToken |->
                        mem_state[p] + Cardinality({r \in batch : p \in ToSet(added[r])})]
    BY DEF Fed
  <2> QED
    BY <1>5, <2>1
<1>9. \A p \in PoolToken : mem_state'[p] = mem_state[p] + Cardinality(M[p])
                           /\ mem_state[p] \in Nat /\ Cardinality(M[p]) \in Nat
  BY <1>6, <1>7, <1>8
<1>10. mem_state' \in [PoolToken -> Nat]
  BY <1>8, <1>9
<1>11. ASSUME NEW p \in PoolToken
       PROVE  RowCount(row', p) = RowCount(row, p) + Cardinality(M[p]) /\ RowCount(row, p) \in Nat
  <2>1. PICK A : A = {r \in Req : p \in ToSet(row[r])}
    OBVIOUS
  <2>2. IsFiniteSet(A) /\ RowCount(row, p) = Cardinality(A) /\ RowCount(row, p) \in Nat
    BY <2>1, RowCountFacts DEF RowCount
  <2>3. PICK after : after = row'
    OBVIOUS
  <2>4. \A r \in Req : after[r] = IF r \in batch THEN rows[r] ELSE row[r]
    BY <2>3 DEF Fed
  <2>5. {r \in Req : p \in ToSet(after[r])} = A \cup M[p]
    <3>1. \A r \in Req : p \in ToSet(after[r]) <=> r \in A \/ r \in M[p]
      <4>1. TAKE r \in Req
      <4>2. r \in M[p] <=> r \in batch /\ p \in FreshOf(r)
        BY <1>4
      <4> QED
        BY <1>2, <2>1, <2>4, <4>2
    <3>2. A \subseteq Req /\ M[p] \subseteq Req
      BY <1>6, <2>1
    <3> QED
      BY <3>1, <3>2
  <2>6. A \cap M[p] = {}
    <3> SUFFICES ASSUME NEW r \in A, r \in M[p] PROVE FALSE
      OBVIOUS
    <3>1. r \in Req /\ p \in ToSet(row[r]) /\ p \in FreeTokens
      BY <1>3, <1>4, <2>1
    <3> QED
      BY <3>1, HasOwner
  <2>7. Cardinality(A \cup M[p]) = Cardinality(A) + Cardinality(M[p])
    BY <1>6, <2>2, <2>6, CardDisjoint
  <2> QED
    BY <2>2, <2>3, <2>5, <2>7 DEF RowCount
<1>12. \A p \in PoolToken : /\ RowCount(row', p) - RowCount(row, p) \in Nat
                            /\ mem_state'[p] = mem_state[p] + (RowCount(row', p) - RowCount(row, p))
  BY <1>9, <1>11
<1>13. PICK D \in SUBSET Req : D = Computed
  BY <1>1
<1>14. PICK F : F = [r \in D |-> FreshOf(r)]
  OBVIOUS
<1>15. PICK f : f = [r \in Req |-> Missing(r)]
  OBVIOUS
<1>16. PICK U : U = UNION {F[r] : r \in D}
  OBVIOUS
<1>17. IsFiniteSet(U) /\ Cardinality(U) = SumFunctionOnSet(f, D)
  <2>1. IsFiniteSet(D)
    BY PromptCacheAssumption, FS_Subset
  <2>2. \A x \in D : IsFiniteSet(F[x]) /\ Cardinality(F[x]) = f[x] /\ f[x] \in Nat
    BY <1>3, <1>13, <1>14, <1>15, MissingFacts
  <2>3. \A x, y \in D : x # y => F[x] \cap F[y] = {}
    BY <1>3, <1>13, <1>14
  <2>4. /\ IsFiniteSet(UNION {F[x] : x \in D})
        /\ Cardinality(UNION {F[x] : x \in D}) = SumFunctionOnSet(f, D)
    BY <2>1, <2>2, <2>3, UnionSize
  <2> QED
    BY <1>16, <2>4
<1>18. Needed = Cardinality(U)
  BY <1>13, <1>15, <1>17 DEF Needed, Total
<1>19. \A p : p \in U <=> \E r \in batch : p \in FreshOf(r)
  <2>1. \A p : p \in U <=> \E r \in D : p \in FreshOf(r)
    BY <1>14, <1>16
  <2> QED
    BY <1>1, <1>3, <1>13, <2>1
<1>20. U \subseteq FreeTokens
  BY <1>3, <1>19
<1>21. FreeTokens' = FreeTokens \ U
  <2>1. \A p \in PoolToken : mem_state'[p] = 0 <=> mem_state[p] = 0 /\ p \notin U
    <3>1. TAKE p \in PoolToken
    <3>2. p \notin U <=> Cardinality(M[p]) = 0
      BY <1>4, <1>6, <1>19
    <3> QED
      BY <1>9, <3>2
  <2> QED
    BY <2>1 DEF FreeTokens
<1>22. Cardinality(FreeTokens \ U) = Cardinality(FreeTokens) - Cardinality(U)
  <2>1. PICK S : S = FreeTokens
    OBVIOUS
  <2>2. PICK R \in SUBSET S : R = S \ U
    OBVIOUS
  <2>3. IsFiniteSet(S)
    BY <2>1, FreeFinite
  <2>4. IsFiniteSet(R) /\ R \cap U = {} /\ R \cup U = S
    BY <1>20, <2>1, <2>2, <2>3, FS_Subset
  <2>5. Cardinality(R \cup U) = Cardinality(R) + Cardinality(U)
    BY <1>17, <2>4, CardDisjoint
  <2>6. Cardinality(R) \in Nat /\ Cardinality(U) \in Nat
    BY <1>17, <2>4, FS_CardinalityType
  <2> QED
    BY <2>1, <2>2, <2>4, <2>5, <2>6
<1>23. can_use_mem_size' = can_use_mem_size - Needed
  BY DEF Fed
<1> QED
  BY <1>10, <1>12, <1>18, <1>21, <1>22, <1>23

LEMMA AppendKeepsFirst ==
  ASSUME NEW T, NEW s \in Seq(T), NEW x \in T, NEW i \in 0..Len(s)
  PROVE  FirstN(Append(s, x), i) = FirstN(s, i)
<1>1. PICK u : u = Append(s, x)
  OBVIOUS
<1>2. u \in Seq(T) /\ Len(u) = Len(s) + 1 /\ \A j \in 1..Len(s) : u[j] = s[j]
  BY <1>1
<1>3. i \in 0..Len(u) /\ i \in 0..Len(s)
  BY <1>2
<1>4. /\ FirstN(u, i) \in Seq(T) /\ Len(FirstN(u, i)) = i
      /\ \A j \in 1..i : FirstN(u, i)[j] = u[j]
  BY <1>2, <1>3, FirstNFacts
<1>5. /\ FirstN(s, i) \in Seq(T) /\ Len(FirstN(s, i)) = i
      /\ \A j \in 1..i : FirstN(s, i)[j] = s[j]
  BY <1>3, FirstNFacts
<1>6. \A j \in 1..i : j \in 1..Len(s)
  OBVIOUS
<1>7. FirstN(u, i) = FirstN(s, i)
  BY <1>2, <1>4, <1>5, <1>6
<1> QED
  BY <1>1, <1>7

LEMMA ForwardPool ==
  ASSUME TreeInv, PoolInv, NEW kind \in {"prefill", "decode"}, Forward(kind)
  PROVE  PoolInv'
<1>1. /\ (Prefilling \/ Decoding) /\ Needed <= can_use_mem_size
      /\ UNCHANGED <<tree, free_token_index>>
      /\ cur_kv_len' = [r \in Req |-> IF r \in batch THEN Len(input_token_ids[r])
                                      ELSE cur_kv_len[r]]
  BY ForwardStep
<1>2. Prefilling \/ Decoding
  BY DEF Forward, AllocFor, Prefilling, Decoding
<1>3. Needed <= Cardinality(FreeTokens)
  BY <1>1, ForwardStep DEF PoolInv, TokensOwned
<1>4. PICK rows, added : Fed(rows, added)
  BY ForwardStep
<1>5. PICK sampled \in [batch -> Token] :
        input_token_ids' = [r \in Req |-> IF r \in batch THEN Append(input_token_ids[r], sampled[r])
                                          ELSE input_token_ids[r]]
  BY ForwardStep
<1>6. batch \subseteq Req
  BY DEF TreeInv, Control
<1>7. /\ mem_state' \in [PoolToken -> Nat]
      /\ \A p \in PoolToken : /\ RowCount(row', p) - RowCount(row, p) \in Nat
                              /\ mem_state'[p] = mem_state[p] + (RowCount(row', p) - RowCount(row, p))
      /\ can_use_mem_size = Cardinality(FreeTokens) => can_use_mem_size' = Cardinality(FreeTokens')
  BY <1>2, <1>3, <1>4, FedCounts
<1>8. /\ \A p \in PoolToken : p \notin FreeTokens => content'[p] = content[p]
      /\ \A r \in batch : \A j \in 1..Missing(r) :
           content'[NthFree(Offset(Leader(r)) + j)] = FirstN(input_token_ids[r], cur_kv_len[r] + j)
  BY <1>2, <1>3, <1>4, FedContent
<1>9. \A r \in batch : Extended(r, rows[r])
  BY <1>2, <1>3, <1>4, RowFacts DEF Fed
<1>10. row' = [r \in Req |-> IF r \in batch THEN rows[r] ELSE row[r]]
  BY <1>4 DEF Fed
<1>11. PoolTyped'
  <2>1. row \in [Req -> Seq(PoolToken)] /\ \A r \in Req : Len(row[r]) = cur_kv_len[r]
    BY DEF PoolInv, PoolTyped
  <2>2. \A r \in batch : rows[r] \in Seq(PoolToken) /\ Len(rows[r]) = Len(input_token_ids[r])
    BY <1>6, <1>9, MissingFacts DEF Extended
  <2>3. row' \in [Req -> Seq(PoolToken)] /\ \A r \in Req : Len(row'[r]) = cur_kv_len'[r]
    BY <1>1, <1>10, <2>1, <2>2
  <2>4. free_token_index' \in Seq(PoolToken)
    BY <1>1 DEF PoolInv, PoolTyped
  <2>5. \A q \in DOMAIN tree'.value : tree'.value[q] \in PoolToken
    BY <1>1 DEF PoolInv, PoolTyped
  <2> QED
    BY <1>7, <2>3, <2>4, <2>5 DEF PoolTyped
<1>12. ASSUME NEW r \in Req, NEW i \in 1..cur_kv_len[r]
       PROVE  row[r][i] \in PoolToken /\ content'[row[r][i]] = FirstN(input_token_ids[r], i)
  <2>1. /\ row[r] \in Seq(PoolToken) /\ DOMAIN row[r] = 1..cur_kv_len[r]
        /\ row[r][i] \in PoolToken /\ content[row[r][i]] = FirstN(input_token_ids[r], i)
    BY RowsApart DEF PoolInv
  <2>2. row[r][i] \in ToSet(row[r])
    BY <2>1 DEF ToSet
  <2>3. row[r][i] \notin FreeTokens
    BY <2>1, <2>2, HasOwner
  <2> QED
    BY <1>8, <2>1, <2>3
<1>13. RightContent'
  <2>1. ASSUME NEW q \in DOMAIN tree.value PROVE content'[tree.value[q]] = q
    <3>1. tree.value[q] \in PoolToken /\ content[tree.value[q]] = q
      BY DEF PoolInv, PoolTyped, RightContent
    <3>2. tree.value[q] \notin FreeTokens
      BY <3>1, HasOwner
    <3> QED
      BY <1>8, <3>1, <3>2
  <2>2. ASSUME NEW r \in Req, NEW i \in 1..Len(row'[r])
        PROVE  content'[row'[r][i]] = FirstN(input_token_ids'[r], i)
    <3>1. CASE r \notin batch
      <4>1. row'[r] = row[r] /\ input_token_ids'[r] = input_token_ids[r] /\ Len(row[r]) = cur_kv_len[r]
        BY <1>5, <1>10, <3>1 DEF PoolInv, PoolTyped
      <4> QED
        BY <1>12, <2>2, <4>1
    <3>2. CASE r \in batch
      <4>1. PICK k \in Nat, m \in Nat : k = cur_kv_len[r] /\ m = Missing(r)
                                        /\ Len(input_token_ids[r]) = k + m
        BY MissingFacts
      <4>2. PICK s \in Seq(Token), x \in Token : s = input_token_ids[r] /\ x = sampled[r]
        BY <3>2 DEF TreeInv, Texts
      <4>3. input_token_ids'[r] = Append(s, x) /\ row'[r] = rows[r]
        BY <1>5, <1>10, <3>2, <4>2
      <4>4. PICK w : w = rows[r]
        OBVIOUS
      <4>5. /\ Len(w) = k + m /\ \A j \in 1..k : w[j] = row[r][j]
            /\ \A j \in 1..m : w[k + j] = NthFree(Offset(Leader(r)) + j)
        BY <1>9, <3>2, <4>1, <4>4 DEF Extended
      <4>6. i \in 1..(k + m)
        BY <2>2, <4>3, <4>4, <4>5
      <4>7. FirstN(Append(s, x), i) = FirstN(s, i)
        BY <4>1, <4>2, <4>6, AppendKeepsFirst
      <4>8. content'[w[i]] = FirstN(s, i)
        <5>1. CASE i \in 1..k
          BY <1>12, <4>1, <4>2, <4>5, <5>1
        <5>2. CASE i \notin 1..k
          <6>1. PICK j \in 1..m : i = k + j
            <7>1. i - k \in 1..m /\ i = k + (i - k)
              BY <4>6, <5>2
            <7> QED
              BY <7>1
          <6> QED
            BY <1>8, <3>2, <4>1, <4>2, <4>5, <6>1
        <5> QED
          BY <5>1, <5>2
      <4> QED
        BY <4>3, <4>4, <4>7, <4>8
    <3> QED
      BY <3>1, <3>2
  <2> QED
    BY <1>1, <2>1, <2>2 DEF RightContent
<1>14. TokensOwned'
  <2>1. \A p : Owners(p)' = TreeCount(tree.value, p) + RowCount(row', p) + Occ(free_token_index, p)
    BY <1>1, OwnersNext
  <2>2. ASSUME NEW p \in PoolToken PROVE mem_state'[p] = Owners(p)'
    <3>1. /\ TreeCount(tree.value, p) = IF \E q \in DOMAIN tree.value : tree.value[q] = p THEN 1 ELSE 0
          /\ RowCount(row, p) \in Nat /\ Occ(free_token_index, p) \in Nat
          /\ mem_state[p] = TreeCount(tree.value, p) + RowCount(row, p) + Occ(free_token_index, p)
      BY HasOwner
    <3>2. TreeCount(tree.value, p) \in Nat
      BY <3>1
    <3>3. RowCount(row', p) \in Nat
      BY RowCountFacts
    <3> QED
      BY <1>7, <2>1, <3>1, <3>2, <3>3
  <2>3. can_use_mem_size' = Cardinality(FreeTokens')
    BY <1>7 DEF PoolInv, TokensOwned
  <2> QED
    BY <2>2, <2>3 DEF TokensOwned
<1> QED
  BY <1>11, <1>13, <1>14 DEF PoolInv

-----------------------------------------------------------------------------
(* The theorems *)

LEMMA InitPool == Init => PoolInv
<1> SUFFICES ASSUME Init PROVE PoolInv
  OBVIOUS
<1>1. /\ tree = EmptyTree /\ cur_kv_len = [r \in Req |-> 0] /\ row = [r \in Req |-> <<>>]
      /\ mem_state = [p \in PoolToken |-> 0] /\ can_use_mem_size = MaxTotal
      /\ free_token_index = <<>>
  BY DEF Init
<1>2. DOMAIN tree.value = {}
  <2>1. tree.value = <<>>
    BY <1>1 DEF EmptyTree
  <2> QED
    BY <2>1
<1>3. <<>> \in Seq(PoolToken) /\ Len(<<>>) = 0
  OBVIOUS
<1>4. PoolTyped
  BY <1>1, <1>2, <1>3 DEF PoolTyped
<1>5. RightContent
  BY <1>1, <1>2 DEF RightContent
<1>6. TokensOwned
  <2>1. FreeTokens = PoolToken
    BY <1>1 DEF FreeTokens
  <2>2. Cardinality(PoolToken) = MaxTotal
    BY PromptCacheAssumption, FS_Interval DEF PoolToken
  <2>3. ASSUME NEW p \in PoolToken PROVE Owners(p) = 0
    <3>1. TreeCount(tree.value, p) = 0
      <4>1. {q \in DOMAIN tree.value : tree.value[q] = p} = {}
        BY <1>2
      <4> QED
        BY <4>1, FS_EmptySet DEF TreeCount
    <3>2. RowCount(row, p) = 0
      <4>1. \A r \in Req : p \notin ToSet(row[r])
        BY <1>1, EmptyToSet
      <4> QED
        BY <4>1, RowCountFacts
    <3>3. Occ(free_token_index, p) = 0
      <4>1. {i \in DOMAIN free_token_index : free_token_index[i] = p} = {}
        BY <1>1
      <4> QED
        BY <4>1, FS_EmptySet DEF Occ
    <3> QED
      BY <3>1, <3>2, <3>3, OwnersAre
  <2> QED
    BY <1>1, <2>1, <2>2, <2>3 DEF TokensOwned
<1> QED
  BY <1>4, <1>5, <1>6 DEF PoolInv

LEMMA PoolStep == TreeInv /\ TreeInv' /\ PoolInv /\ [Next]_vars => PoolInv'
<1> SUFFICES ASSUME TreeInv, TreeInv', PoolInv, [Next]_vars PROVE PoolInv'
  OBVIOUS
<1>1. CASE UNCHANGED vars
  BY <1>1, PoolSame DEF vars, reqVars, poolVars, loopVars
<1>2. ASSUME NEW new \in SUBSET Waiting, AddBatch(new) PROVE PoolInv'
  BY <1>2, PoolSame DEF AddBatch, reqVars, poolVars
<1>3. CASE InitReq
  BY <1>3, InitReqPool
<1>4. CASE StartDecode
  BY <1>4, PoolSame DEF StartDecode, reqVars, poolVars
<1>5. ASSUME NEW kind \in {"prefill", "decode"}, Prepare(kind) PROVE PoolInv'
  BY <1>5, PoolSame DEF Prepare, reqVars, poolVars
<1>6. ASSUME NEW kind \in {"prefill", "decode"}, Evict(kind) PROVE PoolInv'
  BY <1>6, EvictPool
<1>7. ASSUME NEW kind \in {"prefill", "decode"}, Forward(kind) PROVE PoolInv'
  BY <1>7, ForwardPool
<1>8. CASE FreeAReqMem
  BY <1>8, FreeAReqMemPool
<1>9. CASE FreeBatch
  BY <1>9, FreeBatchPool
<1> QED
  BY <1>1, <1>2, <1>3, <1>4, <1>5, <1>6, <1>7, <1>8, <1>9 DEF Next

\* The pool's layer holds on top of the tree's.
THEOREM PoolIsInvariant == Spec => []PoolInv
<1>1. Init => PoolInv
  BY InitPool
<1>2. TreeInv /\ TreeInv' /\ PoolInv /\ [Next]_vars => PoolInv'
  BY PoolStep
<1> QED
  BY <1>1, <1>2, TreeIsInvariant, PTL DEF Spec

\* No request, and no cached prefix, ever refers to the entry of another text,
\* whatever was cached, split, handed over, evicted and allocated again.
THEOREM RightContentCorrect == Spec => []RightContent
<1>1. PoolInv => RightContent
  BY DEF PoolInv
<1> QED
  BY <1>1, PoolIsInvariant, PTL

\* Every pool token is counted exactly by those that own it, and is free when nobody
\* does: no leak, no token freed while in use.
THEOREM TokensOwnedCorrect == Spec => []TokensOwned
<1>1. PoolInv => TokensOwned
  BY DEF PoolInv
<1> QED
  BY <1>1, PoolIsInvariant, PTL

\* The tree has no more nodes than the pool has tokens, the root apart: each node's
\* last token is in the pool, and no two nodes have the same.
LEMMA FewNodes ==
  ASSUME TreeInv, PoolInv
  PROVE  Cardinality(tree.nodes) <= MaxTotal + 1
<1>1. PICK N : N = tree.nodes
  OBVIOUS
<1>2. PICK v : v = tree.value
  OBVIOUS
<1>3. N \subseteq Seq(Token) /\ Root \in N /\ IsFiniteSet(N)
  BY <1>1 DEF TreeInv, Accounted, TreeOK, NodesOK
<1>4. DOMAIN v = {x \in Seq(Token) \ {Root} : Inside(N, x)}
  BY <1>1, <1>2 DEF TreeInv, Accounted, TreeOK, KeepsInside
<1>5. PICK S \in SUBSET N : S = N \ {Root}
  OBVIOUS
<1>6. S \subseteq DOMAIN v
  <2>1. \A n \in S : IsPrefix(n, n)
    BY <1>3, PrefixOrder
  <2> QED
    BY <1>3, <1>4, <1>5, <2>1 DEF Inside
<1>7. \A n \in S : v[n] \in PoolToken /\ content[v[n]] = n
  BY <1>2, <1>6 DEF PoolInv, PoolTyped, RightContent
<1>8. PICK f : f = [n \in S |-> v[n]]
  OBVIOUS
<1>9. f \in Injection(S, PoolToken)
  <2>1. f \in [S -> PoolToken] /\ \A a, b \in S : f[a] = f[b] => a = b
    BY <1>7, <1>8
  <2> QED
    BY <2>1 DEF Injection, IsInjective
<1>10. IsFiniteSet(PoolToken) /\ Cardinality(PoolToken) = MaxTotal
  BY PromptCacheAssumption, FS_Interval DEF PoolToken
<1>11. Cardinality(S) <= MaxTotal
  BY <1>9, <1>10, FS_Injection
<1>12. Cardinality(S) = Cardinality(N) - 1
  BY <1>3, <1>5, FS_RemoveElement
<1>13. Cardinality(N) \in Nat
  BY <1>3, FS_CardinalityType
<1> QED
  BY <1>1, <1>11, <1>12, <1>13, PromptCacheAssumption

LEMMA PromptCacheTyped == TreeInv /\ PoolInv => TypeOK
<1> SUFFICES ASSUME TreeInv, PoolInv PROVE TypeOK
  OBVIOUS
<1>1. TreeOK(tree) /\ RefsOK(tree, shared_kv_node) /\ shared_kv_node \in [Req -> tree.nodes]
  BY DEF TreeInv, Accounted, Texts
<1>2. tree.nodes \subseteq Seq(Token) /\ Root \in tree.nodes
  BY <1>1 DEF TreeOK, NodesOK
<1>3. DOMAIN tree.value = UNION {PrefixesOf(n) : n \in tree.nodes}
  <2>1. DOMAIN tree.value = {x \in Seq(Token) \ {Root} : Inside(tree.nodes, x)}
    BY <1>1 DEF TreeOK, KeepsInside
  <2>2. \A n \in tree.nodes : PrefixesOf(n) = {q \in Seq(Token) \ {Root} : IsPrefix(q, n)}
    BY <1>2, PrefixesFacts
  <2> QED
    BY <2>1, <2>2 DEF Inside
<1>4. \A f \in {tree.ref_counter, tree.time_id, tree.prefix_total_len} : DOMAIN f = tree.nodes
  BY <1>1 DEF TreeOK
<1>5. \A r \in Req : cur_kv_len[r] = Len(row[r]) /\ shared_kv_node[r] \in tree.nodes
  BY <1>1 DEF PoolInv, PoolTyped
<1>6. can_use_mem_size \in 0..MaxTotal
  BY FreeFinite DEF PoolInv, TokensOwned
<1>7. \A n \in tree.nodes : tree.ref_counter[n] \in Nat
  BY <1>1, RefsFacts
<1>8. at = "idle" => to_evict = 0 /\ free_token_index = <<>> /\ todo = {}
  BY DEF TreeInv, Control, Evicting
<1> QED
  BY <1>2, <1>3, <1>4, <1>5, <1>6, <1>7, <1>8, FewNodes DEF TypeOK

\* The tree's records stay within what was set aside for them: in particular the
\* linked list of node records never runs out.
THEOREM PromptCacheTypes == Spec => []TypeOK
BY PromptCacheTyped, TreeIsInvariant, PoolIsInvariant, PTL

=============================================================================

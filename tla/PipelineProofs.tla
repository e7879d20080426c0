---------------------------- MODULE PipelineProofs ----------------------------
(***************************************************************************)
(* Theorems about Pipeline: what the processes keep for a request belongs  *)
(* together, no wake-up is lost, and answers arrive complete and in order, *)
(* for any number of requests, answers and tokens.                         *)
(***************************************************************************)
EXTENDS Pipeline, SequenceTheorems, FiniteSetTheorems, FunctionTheorems, InductionLemmas

-----------------------------------------------------------------------------
(* The selection of elements of a sequence *)

\* f[n] is what is selected of the first n elements.
Builds(f, seq, S, T) ==
  /\ f \in [0..Len(seq) -> Seq(T)]
  /\ f[0] = <<>>
  /\ \A n \in 1..Len(seq) :
       f[n] = IF seq[n] \in S THEN Append(f[n-1], seq[n]) ELSE f[n-1]
  /\ Among(seq, S) = f[Len(seq)]

\* Among is computed element by element.
LEMMA AmongDef ==
  ASSUME NEW T, NEW seq \in Seq(T), NEW S
  PROVE  \E f : Builds(f, seq, S, T)
<1> DEFINE Body(f, n) == IF n = 0 THEN <<>>
                         ELSE IF seq[n] \in S THEN Append(f[n-1], seq[n]) ELSE f[n-1]
           Good(n) == \E f : f = [i \in 0..n |-> Body(f, i)]
           N == Len(seq)
<1>1. N \in Nat /\ \A n \in 1..N : seq[n] \in T /\ n \in 0..N /\ n-1 \in 0..N
  OBVIOUS
<1>2. Good(0)
  <2> DEFINE f == [i \in 0..0 |-> <<>>]
  <2>1. f = [i \in 0..0 |-> Body(f, i)]
    OBVIOUS
  <2> QED
    BY <2>1
<1>3. ASSUME NEW n \in 1..N, Good(n-1)
      PROVE  Good(n)
  <2>1. PICK g : g = [i \in 0..(n-1) |-> Body(g, i)]
    BY <1>3
  <2> DEFINE h == [i \in 0..n |-> IF i = n THEN Body(g, n) ELSE g[i]]
  <2>2. ASSUME NEW i \in 0..n
        PROVE  h[i] = Body(h, i)
    <3>1. CASE i = n
      BY <3>1
    <3>2. CASE i # n
      <4>1. i \in 0..(n-1)
        BY <1>1, <3>2
      <4>2. g[i] = Body(g, i)
        <5> HIDE DEF Body, h
        <5> QED
          BY <2>1, <4>1
      <4>3. i # 0 => g[i-1] = h[i-1]
        BY <1>1
      <4> QED
        BY <4>1, <4>2, <4>3, <3>2
    <3> QED
      BY <3>1, <3>2
  <2>3. h = [i \in 0..n |-> Body(h, i)]
    BY <2>2
  <2> HIDE DEF h
  <2> QED
    BY <2>3
<1> HIDE DEF Good
<1>4. Good(N)
  <2> DEFINE T0 == {n \in 0..N : Good(n)}
  <2>1. 0 \in T0 /\ \A n \in 1..N : n-1 \in T0 => n \in T0
    BY <1>1, <1>2, <1>3
  <2> HIDE DEF T0
  <2>2. \A n \in 0..N : n \in T0
    BY <1>1, <2>1, InductionUpTo
  <2>3. N \in 0..N
    BY <1>1
  <2> QED
    BY <2>2, <2>3 DEF T0
<1> DEFINE f == CHOOSE f : f = [i \in 0..N |-> Body(f, i)]
<1>5. f = [i \in 0..N |-> Body(f, i)]
  BY <1>4 DEF Good
<1>6. Among(seq, S) = f[N]
  BY DEF Among
<1> HIDE DEF f
<1>7. /\ f[0] = <<>>
      /\ \A n \in 1..N : f[n] = IF seq[n] \in S THEN Append(f[n-1], seq[n]) ELSE f[n-1]
  <2>1. \A n \in 0..N : f[n] = Body(f, n)
    <3> HIDE DEF Body
    <3> QED
      BY <1>5
  <2>2. Body(f, 0) = <<>> /\ 0 \in 0..N /\ \A n \in 1..N : n \in 0..N /\ n # 0
    BY <1>1
  <2> QED
    BY <2>1, <2>2
<1>8. \A n \in 0..N : f[n] \in Seq(T)
  <2> DEFINE T1 == {n \in 0..N : f[n] \in Seq(T)}
  <2>1. 0 \in T1
    <3>1. f[0] \in Seq(T) /\ 0 \in 0..N
      BY <1>1, <1>7, EmptySeq
    <3> QED
      BY <3>1
  <2>2. ASSUME NEW n \in 1..N, n-1 \in T1
        PROVE  n \in T1
    <3>1. f[n-1] \in Seq(T) /\ seq[n] \in T
      BY <1>1, <2>2
    <3>2. Append(f[n-1], seq[n]) \in Seq(T)
      BY <3>1, AppendProperties
    <3> QED
      BY <1>1, <1>7, <3>1, <3>2
  <2> HIDE DEF T1
  <2>3. \A n \in 0..N : n \in T1
    BY <1>1, <2>1, <2>2, InductionUpTo
  <2> QED
    BY <2>3 DEF T1
<1>9. f \in [0..N -> Seq(T)]
  BY <1>5, <1>8
<1> QED
  BY <1>6, <1>7, <1>9 DEF Builds

\* What is selected was there, and is in S.
LEMMA AmongIn ==
  ASSUME NEW T, NEW seq \in Seq(T), NEW S
  PROVE  Among(seq, S) \in Seq(T \cap S)
<1>0. PICK f : Builds(f, seq, S, T)
  BY AmongDef
<1>1. /\ f \in [0..Len(seq) -> Seq(T)] /\ f[0] = <<>>
      /\ \A n \in 1..Len(seq) :
           f[n] = IF seq[n] \in S THEN Append(f[n-1], seq[n]) ELSE f[n-1]
      /\ Among(seq, S) = f[Len(seq)]
  BY <1>0 DEF Builds
<1>2. Len(seq) \in Nat /\ \A n \in 1..Len(seq) : seq[n] \in T /\ n-1 \in 0..Len(seq)
  OBVIOUS
<1> DEFINE G == {n \in 0..Len(seq) : f[n] \in Seq(T \cap S)}
<1>3. 0 \in G
  <2>1. f[0] \in Seq(T \cap S) /\ 0 \in 0..Len(seq)
    BY <1>1, <1>2, EmptySeq
  <2> QED
    BY <2>1
<1>4. ASSUME NEW n \in 1..Len(seq), n-1 \in G
      PROVE  n \in G
  <2>1. f[n-1] \in Seq(T \cap S)
    BY <1>4
  <2>2. seq[n] \in S => Append(f[n-1], seq[n]) \in Seq(T \cap S)
    BY <1>2, <2>1, AppendProperties
  <2>3. f[n] \in Seq(T \cap S)
    BY <1>1, <2>1, <2>2
  <2> QED
    BY <2>3
<1> HIDE DEF G
<1>5. \A n \in 0..Len(seq) : n \in G
  BY <1>2, <1>3, <1>4, InductionUpTo
<1> QED
  BY <1>1, <1>2, <1>5 DEF G

\* As many elements are selected as there are positions with one.
LEMMA AmongLen ==
  ASSUME NEW T, NEW seq \in Seq(T), NEW S
  PROVE  Len(Among(seq, S)) = Cardinality({i \in 1..Len(seq) : seq[i] \in S})
<1>0. PICK f : Builds(f, seq, S, T)
  BY AmongDef
<1>1. /\ f \in [0..Len(seq) -> Seq(T)] /\ f[0] = <<>>
      /\ \A n \in 1..Len(seq) :
           f[n] = IF seq[n] \in S THEN Append(f[n-1], seq[n]) ELSE f[n-1]
      /\ Among(seq, S) = f[Len(seq)]
  BY <1>0 DEF Builds
<1>2. Len(seq) \in Nat /\ \A n \in 1..Len(seq) : seq[n] \in T /\ n-1 \in 0..Len(seq)
  OBVIOUS
<1> DEFINE At(n) == {i \in 1..n : seq[i] \in S}
           G == {n \in 0..Len(seq) : IsFiniteSet(At(n)) /\ Len(f[n]) = Cardinality(At(n))}
<1>3. 0 \in G
  <2>1. At(0) = {} /\ 0 \in 0..Len(seq)
    BY <1>2
  <2>2. Len(f[0]) = 0
    BY <1>1
  <2> QED
    BY <2>1, <2>2, FS_EmptySet
<1>4. ASSUME NEW n \in 1..Len(seq), n-1 \in G
      PROVE  n \in G
  <2>1. IsFiniteSet(At(n-1)) /\ Len(f[n-1]) = Cardinality(At(n-1)) /\ f[n-1] \in Seq(T)
    BY <1>1, <1>2, <1>4
  <2>2. CASE seq[n] \in S
    <3>1. At(n) = At(n-1) \cup {n} /\ n \notin At(n-1)
      BY <1>2, <2>2
    <3>2. IsFiniteSet(At(n)) /\ Cardinality(At(n)) = Cardinality(At(n-1)) + 1
      <4>1. PICK A : A = At(n-1)
        OBVIOUS
      <4>2. IsFiniteSet(A \cup {n}) /\ Cardinality(A \cup {n}) = Cardinality(A) + 1
        <5>1. IsFiniteSet(A) /\ n \notin A
          BY <2>1, <3>1, <4>1
        <5> HIDE DEF At, G
        <5> QED
          BY <5>1, FS_AddElement
      <4> QED
        BY <3>1, <4>1, <4>2
    <3>3. f[n] = Append(f[n-1], seq[n]) /\ seq[n] \in T
      BY <1>1, <1>2, <2>2
    <3>4. Len(f[n]) = Len(f[n-1]) + 1
      BY <2>1, <3>3, AppendProperties
    <3> QED
      BY <2>1, <3>2, <3>4
  <2>3. CASE seq[n] \notin S
    <3>1. At(n) = At(n-1)
      BY <1>2, <2>3
    <3> QED
      BY <1>1, <2>1, <2>3, <3>1
  <2> QED
    BY <2>2, <2>3
<1> HIDE DEF G
<1>5. \A n \in 0..Len(seq) : n \in G
  BY <1>2, <1>3, <1>4, InductionUpTo
<1>6. Len(f[Len(seq)]) = Cardinality(At(Len(seq)))
  <2>1. Len(seq) \in 0..Len(seq)
    BY <1>2
  <2>2. \A n \in 0..Len(seq) : Len(f[n]) = Cardinality(At(n))
    BY <1>5 DEF G
  <2> QED
    BY <2>1, <2>2
<1> QED
  BY <1>1, <1>6

-----------------------------------------------------------------------------
(* Numbered tokens in a channel *)

\* The entries of v that are not 0 increase, and are the numbers after a up to b.
Run(v, a, b) ==
  /\ \A i, j \in 1..Len(v) : i < j /\ v[i] # 0 /\ v[j] # 0 => v[i] < v[j]
  /\ \A i \in 1..Len(v) : v[i] # 0 => a < v[i] /\ v[i] <= b
  /\ \A c \in (a+1)..b : \E i \in 1..Len(v) : v[i] = c

LEMMA RunEmpty ==
  ASSUME NEW a \in Nat, NEW b \in Nat, a <= b
  PROVE  Run(<<>>, a, b) <=> a = b
BY DEF Run

\* A channel takes something else, or the next number, at its end.
LEMMA RunAppend ==
  ASSUME NEW v \in Seq(Nat), NEW a \in Nat, NEW b \in Nat, a <= b, Run(v, a, b)
  PROVE  Run(Append(v, 0), a, b) /\ Run(Append(v, b+1), a, b+1)
<1>1. Len(v) \in Nat /\ \A i \in 1..Len(v) : v[i] \in Nat
  OBVIOUS
<1>2. ASSUME NEW x \in Nat, NEW u, u = Append(v, x)
      PROVE  /\ Len(u) = Len(v) + 1 /\ u[Len(v)+1] = x
             /\ \A i \in 1..Len(v) : u[i] = v[i] /\ i \in 1..Len(u)
             /\ \A i \in 1..Len(u) : i \in 1..Len(v) \/ i = Len(v) + 1
  <2>1. Len(u) = Len(v) + 1 /\ u[Len(v)+1] = x /\ \A i \in 1..Len(v) : u[i] = v[i]
    BY <1>2, AppendProperties
  <2> QED
    BY <1>1, <2>1
<1>3. ASSUME NEW u, u = Append(v, 0)
      PROVE  Run(u, a, b)
  <2>1. \A i \in 1..Len(u) : u[i] # 0 => i \in 1..Len(v) /\ u[i] = v[i]
    BY <1>1, <1>2, <1>3
  <2>2. \A i \in 1..Len(v) : i \in 1..Len(u) /\ u[i] = v[i]
    BY <1>2, <1>3
  <2> QED
    BY <2>1, <2>2 DEF Run
<1>4. ASSUME NEW u, u = Append(v, b+1)
      PROVE  Run(u, a, b+1)
  <2>1. /\ u[Len(v)+1] = b+1 /\ Len(v)+1 \in 1..Len(u)
        /\ \A i \in 1..Len(v) : i \in 1..Len(u) /\ u[i] = v[i]
        /\ \A i \in 1..Len(u) : i \in 1..Len(v) \/ i = Len(v) + 1
    BY <1>1, <1>2, <1>4
  <2>2. ASSUME NEW i \in 1..Len(u), NEW j \in 1..Len(u), i < j, u[i] # 0, u[j] # 0
        PROVE  u[i] < u[j]
    <3>1. i \in 1..Len(v) /\ u[i] = v[i] /\ v[i] <= b
      BY <1>1, <2>1, <2>2 DEF Run
    <3>2. CASE j \in 1..Len(v)
      BY <2>1, <2>2, <3>1, <3>2 DEF Run
    <3>3. CASE j = Len(v) + 1
      BY <1>1, <2>1, <3>1, <3>3
    <3> QED
      BY <2>1, <3>2, <3>3
  <2>3. \A i \in 1..Len(u) : u[i] # 0 => a < u[i] /\ u[i] <= b+1
    BY <1>1, <2>1 DEF Run
  <2>4. ASSUME NEW c \in (a+1)..(b+1)
        PROVE  \E i \in 1..Len(u) : u[i] = c
    <3>1. CASE c = b+1
      BY <2>1, <3>1
    <3>2. CASE c \in (a+1)..b
      BY <2>1, <3>2 DEF Run
    <3> QED
      BY <3>1, <3>2
  <2> QED
    BY <2>2, <2>3, <2>4 DEF Run
<1> QED
  BY <1>3, <1>4

\* What leaves a channel at its head is something else, or the number that is due.
LEMMA RunTail ==
  ASSUME NEW v \in Seq(Nat), NEW a \in Nat, NEW b \in Nat, a <= b, Run(v, a, b), v # <<>>
  PROVE  /\ v[1] = 0 => Run(Tail(v), a, b)
         /\ v[1] # 0 => v[1] = a+1 /\ a < b /\ Run(Tail(v), a+1, b)
<1>1. Len(v) \in Nat \ {0} /\ \A i \in 1..Len(v) : v[i] \in Nat
  BY EmptySeq
<1> DEFINE t == Tail(v)
<1>2. Len(t) = Len(v) - 1 /\ \A i \in 1..Len(t) : t[i] = v[i+1]
  BY <1>1, HeadTailProperties
<1>3. /\ \A i \in 2..Len(v) : i-1 \in 1..Len(t) /\ t[i-1] = v[i]
      /\ \A i \in 1..Len(t) : i+1 \in 2..Len(v) /\ t[i] = v[i+1] /\ t[i] \in Nat
  BY <1>1, <1>2
<1> HIDE DEF t
<1>4. ASSUME v[1] = 0
      PROVE  Run(t, a, b)
  <2>1. \A c \in (a+1)..b : \E i \in 1..Len(t) : t[i] = c
    <3> SUFFICES ASSUME NEW c \in (a+1)..b
                 PROVE  \E i \in 1..Len(t) : t[i] = c
      OBVIOUS
    <3>1. PICK i \in 1..Len(v) : v[i] = c
      BY DEF Run
    <3>2. i \in 2..Len(v)
      BY <1>1, <1>4, <3>1
    <3> QED
      BY <1>3, <3>1, <3>2
  <2>2. ASSUME NEW i \in 1..Len(t), NEW j \in 1..Len(t), i < j, t[i] # 0, t[j] # 0
        PROVE  t[i] < t[j]
    <3>1. i+1 \in 1..Len(v) /\ j+1 \in 1..Len(v) /\ i+1 < j+1
      BY <1>1, <1>3, <2>2
    <3> QED
      BY <1>3, <2>2, <3>1 DEF Run
  <2>3. \A i \in 1..Len(t) : t[i] # 0 => a < t[i] /\ t[i] <= b
    BY <1>1, <1>3 DEF Run
  <2> QED
    BY <2>1, <2>2, <2>3 DEF Run
<1>5. ASSUME v[1] # 0
      PROVE  v[1] = a+1 /\ a < b /\ Run(t, a+1, b)
  <2>1. a < v[1] /\ v[1] <= b /\ \A i \in 2..Len(v) : v[i] # 0 => v[1] < v[i]
    BY <1>1, <1>5 DEF Run
  <2>2. v[1] = a+1
    <3>1. PICK i \in 1..Len(v) : v[i] = a+1
      BY <1>1, <2>1 DEF Run
    <3>2. i = 1 \/ i \in 2..Len(v)
      BY <1>1
    <3> QED
      BY <1>1, <2>1, <3>1, <3>2
  <2>3. \A c \in (a+2)..b : \E i \in 1..Len(t) : t[i] = c
    <3> SUFFICES ASSUME NEW c \in (a+2)..b
                 PROVE  \E i \in 1..Len(t) : t[i] = c
      OBVIOUS
    <3>1. PICK i \in 1..Len(v) : v[i] = c
      BY DEF Run
    <3>2. i \in 2..Len(v)
      BY <1>1, <2>2, <3>1
    <3> QED
      BY <1>3, <3>1, <3>2
  <2>4. ASSUME NEW i \in 1..Len(t), NEW j \in 1..Len(t), i < j, t[i] # 0, t[j] # 0
        PROVE  t[i] < t[j]
    <3>1. i+1 \in 1..Len(v) /\ j+1 \in 1..Len(v) /\ i+1 < j+1
      BY <1>1, <1>3, <2>4
    <3> QED
      BY <1>3, <2>4, <3>1 DEF Run
  <2>5. ASSUME NEW i \in 1..Len(t), t[i] # 0
        PROVE  a+1 < t[i] /\ t[i] <= b
    <3>1. i+1 \in 2..Len(v) /\ i+1 \in 1..Len(v) /\ t[i] = v[i+1]
      BY <1>1, <1>3
    <3>2. v[1] < v[i+1] /\ v[i+1] <= b
      BY <2>1, <2>5, <3>1 DEF Run
    <3> QED
      BY <2>2, <3>1, <3>2
  <2>6. \A c \in ((a+1)+1)..b : \E i \in 1..Len(t) : t[i] = c
    BY <2>3
  <2> QED
    BY <1>1, <2>1, <2>2, <2>4, <2>5, <2>6 DEF Run
<1> QED
  BY <1>4, <1>5 DEF t

\* Of all entries of a list for an answer, the numbers are those of its run.
View(items, s) ==
  [i \in 1..Len(items) |-> IF items[i].sub = s THEN items[i].count ELSE 0]

LEMMA RunGiven ==
  ASSUME NEW T, NEW items \in Seq(T), NEW s, NEW a \in Nat, NEW b \in Nat, a <= b,
         \A i \in 1..Len(items) : items[i].count \in Nat \ {0},
         Run(View(items, s), a, b),
         NEW mine, mine = Among(items, {i \in ToSet(items) : i.sub = s})
  PROVE  Len(mine) = b - a /\ \A k \in 1..Len(mine) : mine[k].count = a + k
<1> DEFINE S == {i \in ToSet(items) : i.sub = s}
           N == Len(items)
           v == View(items, s)
<1>0. PICK f : Builds(f, items, S, T)
  BY AmongDef
<1>1. /\ f \in [0..N -> Seq(T)] /\ f[0] = <<>>
      /\ \A n \in 1..N : f[n] = IF items[n] \in S THEN Append(f[n-1], items[n]) ELSE f[n-1]
      /\ mine = f[N]
  BY <1>0 DEF Builds
<1>2. N \in Nat /\ \A n \in 1..N : items[n] \in T /\ n-1 \in 0..N /\ n \in 0..N
  OBVIOUS
<1>3. \A n \in 1..N : items[n] \in S <=> items[n].sub = s
  BY DEF ToSet
<1>4. /\ Len(v) = N
      /\ \A n \in 1..N : v[n] = (IF items[n].sub = s THEN items[n].count ELSE 0) /\ v[n] \in Nat
  BY <1>2 DEF View
<1> HIDE DEF S, v
\* The first n entries hold the numbers a+1 to a+Len(f[n]).
<1> DEFINE Upto(n) == /\ \A k \in 1..Len(f[n]) : f[n][k].count = a + k
                      /\ \A i \in 1..n : v[i] # 0 => v[i] <= a + Len(f[n])
                      /\ \A c \in (a+1)..(a + Len(f[n])) : \E i \in 1..n : v[i] = c
           G == {n \in 0..N : Upto(n)}
<1>5. 0 \in G
  <2>1. Len(f[0]) = 0 /\ 0 \in 0..N
    BY <1>1, <1>2
  <2> QED
    BY <2>1
<1>6. ASSUME NEW n \in 1..N, n-1 \in G
      PROVE  n \in G
  <2>1. Upto(n-1) /\ f[n-1] \in Seq(T) /\ Len(f[n-1]) \in Nat
    <3>1. n-1 \in 0..N /\ Upto(n-1)
      BY <1>2, <1>6
    <3>2. f[n-1] \in Seq(T)
      BY <1>1, <3>1
    <3> HIDE DEF Upto
    <3> QED
      BY <3>1, <3>2, LenProperties
  <2>2. CASE items[n].sub # s
    <3>1. f[n] = f[n-1] /\ v[n] = 0
      BY <1>1, <1>3, <1>4, <2>2
    <3>2. \A i \in 1..n : i \in 1..(n-1) \/ i = n
      BY <1>2
    <3>3. \A i \in 1..(n-1) : i \in 1..n
      BY <1>2
    <3>4. Upto(n)
      BY <2>1, <3>1, <3>2, <3>3
    <3> QED
      BY <1>2, <3>4
  <2>3. CASE items[n].sub = s
    <3> DEFINE m == Len(f[n-1])
    <3>1. f[n] = Append(f[n-1], items[n]) /\ items[n] \in T /\ v[n] = items[n].count /\ v[n] # 0
      BY <1>1, <1>2, <1>3, <1>4, <2>3
    <3>2. /\ Len(f[n]) = m+1 /\ f[n][m+1] = items[n]
          /\ \A k \in 1..m : f[n][k] = f[n-1][k]
      BY <2>1, <3>1, AppendProperties
    <3>0. m \in Nat /\ v[n] \in Nat
      BY <1>4, <2>1
    <3> HIDE DEF m
    <3>3. a < v[n] /\ v[n] <= b
      BY <1>4, <3>1 DEF Run, v
    <3>4. ~(v[n] <= a+m)
      <4> SUFFICES ASSUME v[n] <= a+m PROVE FALSE
        OBVIOUS
      <4>0. v[n] \in (a+1)..(a+m)
        BY <3>0, <3>3
      <4>1. PICK i \in 1..(n-1) : v[i] = v[n]
        BY <2>1, <4>0 DEF m
      <4>2. i \in 1..N /\ i < n
        BY <1>2
      <4> QED
        BY <1>4, <3>1, <4>1, <4>2 DEF Run, v
    <3>5. ~(v[n] > a+m+1)
      <4> SUFFICES ASSUME v[n] > a+m+1 PROVE FALSE
        OBVIOUS
      <4>0. a+m+1 \in (a+1)..b /\ m \in Nat
        BY <1>4, <2>1, <3>3 DEF m
      <4>1. PICK i \in 1..N : v[i] = a+m+1
        BY <1>4, <4>0 DEF Run, v
      <4>2. CASE i < n
        <5>1. i \in 1..(n-1) /\ v[i] # 0
          BY <4>0, <4>1, <4>2
        <5>2. v[i] <= a+m
          BY <2>1, <5>1 DEF m
        <5> QED
          BY <4>0, <4>1, <5>2
      <4>3. CASE i > n
        <5>1. v[n] < v[i]
          BY <1>4, <3>1, <4>0, <4>1, <4>3 DEF Run, v
        <5> QED
          BY <1>4, <4>0, <4>1, <5>1
      <4>4. CASE i = n
        BY <1>4, <4>0, <4>1, <4>4
      <4> QED
        BY <4>2, <4>3, <4>4
    <3>6. v[n] = a+m+1 /\ m \in Nat
      BY <3>0, <3>4, <3>5
    <3>7. \A k \in 1..Len(f[n]) : f[n][k].count = a + k
      <4>1. \A k \in 1..(m+1) : k \in 1..m \/ k = m+1
        BY <3>6
      <4>2. \A k \in 1..m : f[n][k].count = a+k
        BY <2>1, <3>2 DEF m
      <4>3. f[n][m+1].count = a+(m+1)
        BY <3>1, <3>2, <3>6
      <4> QED
        BY <3>2, <4>1, <4>2, <4>3
    <3>8. ASSUME NEW i \in 1..n, v[i] # 0
          PROVE  v[i] <= a + Len(f[n])
      <4>1. CASE i = n
        BY <3>2, <3>6, <4>1
      <4>2. CASE i \in 1..(n-1)
        <5>1. v[i] <= a + m
          BY <2>1, <3>8, <4>2 DEF m
        <5>2. a + m <= a + Len(f[n])
          BY <3>2, <3>6
        <5>3. v[i] \in Nat /\ Len(f[n]) \in Nat
          BY <1>2, <1>4, <3>2, <3>6, <4>2
        <5>4. PICK x \in Nat, k \in Nat : x = v[i] /\ k = Len(f[n])
          BY <5>3
        <5>5. a \in Nat /\ a + m \in Nat
          BY <1>4, <3>6
        <5>6. x <= a + m /\ a + m <= a + k
          BY <5>1, <5>2, <5>4
        <5>7. x <= a + k
          BY <5>4, <5>5, <5>6
        <5> QED
          BY <5>4, <5>7
      <4> QED
        BY <4>1, <4>2
    <3>9. ASSUME NEW c \in (a+1)..(a + Len(f[n]))
          PROVE  \E i \in 1..n : v[i] = c
      <4>1. CASE c = a+m+1
        BY <3>6, <4>1
      <4>2. CASE c \in (a+1)..(a+m)
        <5>1. PICK i \in 1..(n-1) : v[i] = c
          BY <2>1, <4>2 DEF m
        <5> QED
          BY <5>1
      <4> QED
        BY <3>2, <3>6, <4>1, <4>2
    <3>10. Upto(n)
      BY <3>7, <3>8, <3>9
    <3> QED
      BY <1>2, <3>10
  <2> QED
    BY <2>2, <2>3
<1> HIDE DEF G, Upto
<1>7. \A n \in 0..N : n \in G
  BY <1>2, <1>5, <1>6, InductionUpTo
<1>8. Upto(N)
  <2>1. N \in 0..N
    BY <1>2
  <2> QED
    BY <1>7, <2>1 DEF G
<1>9. Len(mine) = b - a
  <2>1. Len(mine) \in Nat
    BY <1>1, <1>2
  <2>2. ~(a + Len(mine) < b)
    <3> SUFFICES ASSUME a + Len(mine) < b PROVE FALSE
      OBVIOUS
    <3>1. PICK i \in 1..N : v[i] = b
      BY <1>4, <2>1 DEF Run, v
    <3> QED
      BY <1>1, <1>8, <2>1, <3>1 DEF Upto
  <2>3. ~(a + Len(mine) > b)
    <3> SUFFICES ASSUME a + Len(mine) > b PROVE FALSE
      OBVIOUS
    <3>0. a + Len(mine) \in (a+1)..(a + Len(mine))
      BY <2>1
    <3>1. PICK i \in 1..N : v[i] = a + Len(mine)
      BY <1>1, <1>8, <3>0 DEF Upto
    <3>2. v[i] # 0 /\ v[i] <= b
      BY <1>4, <2>1, <3>1 DEF Run, v
    <3> QED
      BY <2>1, <3>1, <3>2
  <2> QED
    BY <2>1, <2>2, <2>3
<1> QED
  BY <1>1, <1>8, <1>9 DEF Upto

-----------------------------------------------------------------------------
(* The inductive invariant *)

Started == {g \in Group : generate[g] # "new"}
Closed  == {g \in Group : generate[g] \in {"done", "failed"}}
Open    == {g \in Group : generate[g] \in {"new", "wait", "yield"}}

\* What may be under way: requests that were started, aborts of those that are
\* closed, outcomes that are marked as aborted for closed ones only.
Messages == {Req(g) : g \in Started} \cup {Abort(g) : g \in Closed}
Outcome  == [count : Nat \ {0}, finish : {"no", "finished", "aborted"}]
Batches  ==
  {b \in UNION {[D -> Outcome] : D \in SUBSET Sub} :
     \A s \in DOMAIN b : b[s].finish = "aborted" => s[1] \in Closed}
TokenMessages == [kind : {"tokens"}, batch : Batches]
Item(g) == [sub : SubsOf(g), count : Nat \ {0}, finish : {"no", "finished"}]

Coroutines ==
  /\ generate \in [Group -> Places] /\ client \in [Group -> {"here", "gone"}]
  /\ event \in [Group -> BOOLEAN]
UnderWay ==
  /\ http_to_router \in Seq(Messages) /\ http_to_visual \in Seq(Messages)
  /\ visual_to_router \in Seq(Messages)
  /\ waiting_reqs \in Seq(Started) /\ reqs_need_infer \in Seq(Started)
  /\ router_to_detok \in Seq(Messages \cup TokenMessages)
  /\ detok_to_http \in Seq(Batches) /\ delivering \in Batches
RouterKnows ==
  /\ known \in [Group -> {"no", "queued", "joining", "running", "aborted", "over"}]
  /\ generated \in [Sub -> Nat] /\ ended \subseteq Sub /\ req_id_to_out \subseteq Sub
  /\ \A g \in Group : /\ known[g] # "no" => g \in Started
                      /\ known[g] = "aborted" => g \in Closed
  /\ \A s \in Sub : known[s[1]] = "no" => generated[s] = 0 /\ s \notin ended
Lists ==
  /\ DOMAIN out_token_info_list = Group
  /\ \A g \in Group : /\ out_token_info_list[g] \in Seq(Item(g))
                      /\ generate[g] = "new" => out_token_info_list[g] = <<>>
                      /\ generate[g] = "yield" => out_token_info_list[g] # <<>>

CausalInv == Coroutines /\ UnderWay /\ RouterKnows /\ Lists /\ EntriesMatch /\ NoLostWakeup

\* The tokens of an answer, from the client back to the router: received, in the
\* list, being delivered, and in the two channels.
ListView(s) == View(out_token_info_list[s[1]], s)
HttpView(s) ==
  [i \in 1..Len(detok_to_http) |->
     IF s \in DOMAIN detok_to_http[i] THEN detok_to_http[i][s].count ELSE 0]
Has(m, s) == m.kind = "tokens" /\ s \in DOMAIN m.batch
DetokView(s) ==
  [i \in 1..Len(router_to_detok) |->
     IF Has(router_to_detok[i], s) THEN router_to_detok[i].batch[s].count ELSE 0]

\* Where one place ends the next one begins, up to what has been generated.
Chain(s, l, d, h) ==
  /\ Len(received[s]) <= l /\ l <= d /\ d <= h /\ h <= generated[s]
  /\ Run(ListView(s), Len(received[s]), l)
  /\ IF s \in DOMAIN delivering THEN d = l+1 /\ delivering[s].count = d ELSE d = l
  /\ Run(HttpView(s), d, h)
  /\ Run(DetokView(s), h, generated[s])
OrderedFor(s) == \E l, d, h \in 0..generated[s] : Chain(s, l, d, h)
InOrder ==
  \A s \in Sub : s[1] \in Open => OrderedFor(s)

\* The last token of an answer carries its end, and no other does.
Marked(s, o) == o.finish # "no" <=> o.count = generated[s] /\ s \in ended
MarkedEverywhere(s) ==
  /\ \A i \in 1..Len(out_token_info_list[s[1]]) :
       out_token_info_list[s[1]][i].sub = s => Marked(s, out_token_info_list[s[1]][i])
  /\ s \in DOMAIN delivering => Marked(s, delivering[s])
  /\ \A i \in 1..Len(detok_to_http) :
       s \in DOMAIN detok_to_http[i] => Marked(s, detok_to_http[i][s])
  /\ \A i \in 1..Len(router_to_detok) :
       Has(router_to_detok[i], s) => Marked(s, router_to_detok[i].batch[s])
EndsMarked == \A s \in Sub : s[1] \in Open => MarkedEverywhere(s)

\* Detokenization has a state for an answer before the first of its tokens comes.
Announced(s, n) ==
  s \in req_id_to_out \/ \E j \in 1..n : router_to_detok[j] = Req(s[1])
Ready(s) ==
  /\ \A i \in 1..Len(router_to_detok) : Has(router_to_detok[i], s) => Announced(s, i-1)
  /\ known[s[1]] # "no" /\ s \notin ended => Announced(s, Len(router_to_detok))
StatesReady == \A s \in Sub : s[1] \in Open => Ready(s)

\* The count of unfinished answers is that of the answers whose end was not handed out.
Unfinished(g) == {s \in SubsOf(g) : ~(s \in ended /\ Len(received[s]) = generated[s])}
EndsCounted ==
  /\ received \in [Sub -> Seq(Nat)]
  /\ \A s \in Sub : /\ received[s] = [i \in 1..Len(received[s]) |-> i]
                     /\ Len(received[s]) <= generated[s]
  /\ unfinished_count \in [Group -> Nat]
  /\ \A g \in Open : unfinished_count[g] = Cardinality(Unfinished(g))

OrderInv == InOrder /\ EndsMarked /\ StatesReady /\ EndsCounted

-----------------------------------------------------------------------------
(* Nothing comes before its cause *)

LEMMA SubFacts ==
  /\ \A g \in Group : SubsOf(g) \subseteq Sub /\ \A s \in SubsOf(g) : s[1] = g
  /\ \A s \in Sub : s[1] \in Group /\ s \in SubsOf(s[1])
BY DEF Sub, SubsOf

\* What the router does besides a forward: it moves requests that wait.
Moves ==
  /\ UNCHANGED <<clientVars, httpVars, visualVars, generated, ended, req_id_to_out, channels>>
  /\ known' = [g \in Group |-> known'[g]]
  /\ \A g \in Group : \/ known'[g] = known[g]
                      \/ known[g] = "queued" /\ known'[g] \in {"joining", "running"}
                      \/ known[g] = "joining" /\ known'[g] = "running"

LEMMA RouterSteps == RouterStep => Moves \/ RouterForward
<1>1. ASSUME NEW batch \in SUBSET {g \in Group : known[g] = "queued"}, RouterTake(batch)
      PROVE  Moves
  BY <1>1 DEF RouterTake, Moves
<1>2. RouterMerge => Moves
  BY DEF RouterMerge, Moves, Joining
<1> QED
  BY <1>1, <1>2 DEF RouterStep

LEMMA ForwardOfKnown ==
  ASSUME RouterForward
  PROVE  \E batch \in SUBSET {g \in Group : known[g] \in {"joining", "running", "aborted"}} :
           \E last \in SUBSET Unended(batch) : Forward(batch, last)
BY DEF RouterForward, Joining, Running

LEMMA BatchIs ==
  ASSUME NEW b \in Batches
  PROVE  /\ DOMAIN b \subseteq Sub
         /\ \A s \in DOMAIN b : /\ b[s].count \in Nat \ {0}
                                /\ b[s].finish \in {"no", "finished", "aborted"}
                                /\ b[s].finish = "aborted" => s[1] \in Closed
BY DEF Batches, Outcome

LEMMA IsBatch ==
  ASSUME NEW D \in SUBSET Sub, NEW b, b \in [D -> Outcome],
         \A s \in D : b[s].finish = "aborted" => s[1] \in Closed
  PROVE  b \in Batches
BY DEF Batches

\* Coroutines move on: what was started stays started, what is closed stays closed.
LEMMA CoroutinesMove ==
  Coroutines /\ [Next]_vars => Coroutines' /\ Started \subseteq Started' /\ Closed \subseteq Closed'
<1> SUFFICES ASSUME Coroutines, [Next]_vars
             PROVE  Coroutines' /\ Started \subseteq Started' /\ Closed \subseteq Closed'
  OBVIOUS
<1> USE DEF Coroutines, Places, Started, Closed
<1>1. ASSUME NEW g \in Group, Leave(g)
      PROVE  Coroutines' /\ Started \subseteq Started' /\ Closed \subseteq Closed'
  BY <1>1 DEF Leave, httpVars
<1>2. ASSUME NEW g \in Group, Read(g)
      PROVE  Coroutines' /\ Started \subseteq Started' /\ Closed \subseteq Closed'
  BY <1>2 DEF Read
<1>3. ASSUME NEW g \in Group, Start(g)
      PROVE  Coroutines' /\ Started \subseteq Started' /\ Closed \subseteq Closed'
  BY <1>3 DEF Start, clientVars
<1>4. ASSUME NEW g \in Group, FindGone(g)
      PROVE  Coroutines' /\ Started \subseteq Started' /\ Closed \subseteq Closed'
  BY <1>4 DEF FindGone, clientVars
<1>5. ASSUME NEW g \in Group, Wake(g)
      PROVE  Coroutines' /\ Started \subseteq Started' /\ Closed \subseteq Closed'
  BY <1>5 DEF Wake
<1>6. ASSUME NEW g \in Group, Cancel(g)
      PROVE  Coroutines' /\ Started \subseteq Started' /\ Closed \subseteq Closed'
  BY <1>6 DEF Cancel, clientVars
<1>7. ASSUME NEW g \in Group, BackgroundAbort(g)
      PROVE  Coroutines' /\ Started \subseteq Started' /\ Closed \subseteq Closed'
  BY <1>7 DEF BackgroundAbort, clientVars
<1>8. ASSUME Deliver
      PROVE  Coroutines' /\ Started \subseteq Started' /\ Closed \subseteq Closed'
  BY <1>8 DEF Deliver, clientVars
<1>9. ASSUME RecvBatch \/ Visual \/ RouterRecv \/ RouterStep \/ DetokRecv \/ UNCHANGED vars
      PROVE  Coroutines' /\ Started \subseteq Started' /\ Closed \subseteq Closed'
  BY <1>9 DEF RecvBatch, Visual, VisualRecv, VisualTake, VisualSend, RouterRecv, Handle,
              RouterStep, RouterTake, RouterForward, RouterMerge,
              Forward, DetokRecv, vars, clientVars, httpVars
<1> QED
  BY <1>1, <1>2, <1>3, <1>4, <1>5, <1>6, <1>7, <1>8, <1>9 DEF Next, Http

\* So what may be under way stays allowed.
LEMMA Widen ==
  ASSUME Started \subseteq Started', Closed \subseteq Closed'
  PROVE  /\ Messages \subseteq Messages' /\ Batches \subseteq Batches'
         /\ TokenMessages \subseteq TokenMessages'
         /\ Seq(Messages) \subseteq Seq(Messages') /\ Seq(Batches) \subseteq Seq(Batches')
         /\ Seq(Started) \subseteq Seq(Started')
         /\ Seq(Messages \cup TokenMessages) \subseteq Seq(Messages' \cup TokenMessages')
<1>1. Messages \subseteq Messages'
  BY DEF Messages, Req, Abort
<1>2. Batches \subseteq Batches'
  BY DEF Batches
<1>3. TokenMessages \subseteq TokenMessages'
  BY <1>2 DEF TokenMessages
<1>4. Messages \cup TokenMessages \subseteq Messages' \cup TokenMessages'
  BY <1>1, <1>3
<1> QED
  BY <1>1, <1>2, <1>3, <1>4, SeqMonotonic

\* The messages of the first requests of a list.
Requests(w, m) == [i \in 1..m |-> Req(w[i])]

\* What the visual server does to its lists and to the router's channel.
LEMMA TakenInOrder ==
  ASSUME CausalInv, VisualTake
  PROVE  \E m \in Nat, n \in 1..Len(waiting_reqs) :
            /\ m <= n
            /\ visual_to_router' = visual_to_router \o Requests(waiting_reqs, m)
            /\ reqs_need_infer' = SubSeq(waiting_reqs, m+1, n)
            /\ waiting_reqs' = SubSeq(waiting_reqs, n+1, Len(waiting_reqs))
<1>1. PICK cached \in SUBSET Group, n \in 1..Len(waiting_reqs) :
        LET new  == {i \in 1..n : waiting_reqs[i] \notin cached}
            sent == {i \in 1..n : \A j \in new : i < j}
        IN  /\ visual_to_router' = visual_to_router \o
                                     [i \in 1..Cardinality(sent) |-> Req(waiting_reqs[i])]
            /\ reqs_need_infer' = SubSeq(waiting_reqs, Cardinality(sent) + 1, n)
            /\ waiting_reqs' = SubSeq(waiting_reqs, n+1, Len(waiting_reqs))
  BY DEF VisualTake
<1> DEFINE new  == {i \in 1..n : waiting_reqs[i] \notin cached}
           sent == {i \in 1..n : \A j \in new : i < j}
<1>2. n \in Nat /\ sent \subseteq 1..n
  BY LenProperties DEF CausalInv, UnderWay
<1>3. IsFiniteSet(sent) /\ Cardinality(sent) \in Nat /\ Cardinality(sent) <= n
  <2> HIDE DEF sent
  <2>1. IsFiniteSet(1..n) /\ Cardinality(1..n) = n
    BY <1>2, FS_Interval
  <2> QED
    BY <1>2, <2>1, FS_Subset, FS_CardinalityType
<1> QED
  BY <1>1, <1>3 DEF Requests

LEMMA UnderWayStep ==
  CausalInv /\ [Next]_vars => UnderWay'
<1> SUFFICES ASSUME CausalInv, [Next]_vars
             PROVE  UnderWay'
  OBVIOUS
<1>0. /\ Coroutines /\ UnderWay /\ RouterKnows /\ Lists /\ EntriesMatch
      /\ Coroutines' /\ Started \subseteq Started' /\ Closed \subseteq Closed'
  BY CoroutinesMove DEF CausalInv
<1>w. /\ Messages \subseteq Messages' /\ Batches \subseteq Batches'
      /\ TokenMessages \subseteq TokenMessages'
      /\ Seq(Messages) \subseteq Seq(Messages') /\ Seq(Batches) \subseteq Seq(Batches')
      /\ Seq(Started) \subseteq Seq(Started')
      /\ Seq(Messages \cup TokenMessages) \subseteq Seq(Messages' \cup TokenMessages')
  BY <1>0, Widen
\* What an unchanged channel holds is still allowed.
<1>k. /\ http_to_router \in Seq(Messages') /\ http_to_visual \in Seq(Messages')
      /\ visual_to_router \in Seq(Messages')
      /\ waiting_reqs \in Seq(Started') /\ reqs_need_infer \in Seq(Started')
      /\ router_to_detok \in Seq(Messages' \cup TokenMessages')
      /\ detok_to_http \in Seq(Batches') /\ delivering \in Batches'
  BY <1>0, <1>w DEF UnderWay
<1> HIDE DEF Messages, Batches, TokenMessages, Started, Closed
<1>1. ASSUME NEW g \in Group, Leave(g) \/ Read(g) \/ Wake(g) \/ Cancel(g)
      PROVE  UnderWay'
  BY <1>1, <1>k DEF Leave, Read, Wake, Cancel, UnderWay, httpVars, visualVars, channels
<1>2. ASSUME NEW g \in Group, Start(g)
      PROVE  UnderWay'
  <2>1. Req(g) \in Messages'
    BY <1>2, <1>0 DEF Start, Messages, Started, Coroutines, Places
  <2>2. /\ Append(http_to_visual, Req(g)) \in Seq(Messages')
        /\ Append(http_to_router, Req(g)) \in Seq(Messages')
    BY <1>k, <2>1, AppendProperties
  <2> QED
    BY <1>2, <1>k, <2>2 DEF Start, UnderWay, visualVars
<1>3. ASSUME NEW g \in Group, FindGone(g) \/ BackgroundAbort(g)
      PROVE  UnderWay'
  <2>1. Abort(g) \in Messages'
    BY <1>3, <1>0 DEF FindGone, BackgroundAbort, Messages, Closed, Coroutines, Places
  <2>2. /\ Append(http_to_visual, Abort(g)) \in Seq(Messages')
        /\ Append(http_to_router, Abort(g)) \in Seq(Messages')
    BY <1>k, <2>1, AppendProperties
  <2> QED
    BY <1>3, <1>k, <2>2 DEF FindGone, BackgroundAbort, SendAbort, UnderWay, visualVars
<1>4. ASSUME RecvBatch
      PROVE  UnderWay'
  <2>1. detok_to_http[1] \in Batches' /\ Tail(detok_to_http) \in Seq(Batches')
    BY <1>4, <1>k, HeadTailProperties, ElementOfSeq DEF RecvBatch
  <2> QED
    BY <1>4, <1>k, <2>1 DEF RecvBatch, UnderWay, visualVars
<1>5. ASSUME Deliver
      PROVE  UnderWay'
  <2>1. PICK s \in DOMAIN delivering : delivering' = Without(delivering, s)
    BY <1>5 DEF Deliver
  <2>2. DOMAIN delivering \ {s} \in SUBSET Sub /\ \A t \in DOMAIN delivering :
          delivering[t] \in Outcome /\ (delivering[t].finish = "aborted" => t[1] \in Closed)
    BY <1>0 DEF UnderWay, Batches
  <2>3. delivering' \in [DOMAIN delivering \ {s} -> Outcome]
        /\ \A t \in DOMAIN delivering \ {s} : delivering'[t].finish = "aborted" => t[1] \in Closed
    BY <2>1, <2>2 DEF Without
  <2>4. delivering' \in Batches
    BY <2>2, <2>3, IsBatch
  <2> QED
    BY <1>5, <1>k, <1>w, <2>4 DEF Deliver, UnderWay, visualVars, channels
<1>6. ASSUME VisualRecv
      PROVE  UnderWay'
  <2>1. http_to_visual[1] \in Messages' /\ Tail(http_to_visual) \in Seq(Messages')
    BY <1>6, <1>k, HeadTailProperties, ElementOfSeq DEF VisualRecv
  <2>2. http_to_visual[1] \in Messages
    BY <1>6, <1>0, ElementOfSeq DEF VisualRecv, UnderWay
  <2>3. http_to_visual[1].kind = "req" => http_to_visual[1].group \in Started'
    BY <1>0, <2>2 DEF Messages, Req, Abort
  <2>4. /\ http_to_visual[1].kind = "req" =>
             Append(waiting_reqs, http_to_visual[1].group) \in Seq(Started')
        /\ Append(visual_to_router, http_to_visual[1]) \in Seq(Messages')
    BY <1>k, <2>1, <2>3, AppendProperties
  <2>5. \A g : Among(waiting_reqs, Group \ {g}) \in Seq(Started')
    <3>1. \A g : Among(waiting_reqs, Group \ {g}) \in Seq(Started' \cap (Group \ {g}))
      BY <1>k, AmongIn
    <3>2. \A g : Started' \cap (Group \ {g}) \subseteq Started'
      OBVIOUS
    <3> QED
      BY <3>1, <3>2, SeqMonotonic
  <2> QED
    BY <1>6, <1>k, <2>1, <2>4, <2>5 DEF VisualRecv, UnderWay, httpVars
<1>7. ASSUME VisualTake \/ VisualSend
      PROVE  UnderWay'
  <2> DEFINE reqs(q, n) == [i \in 1..n |-> Req(q[i])]
  <2>1. ASSUME NEW q \in Seq(Started'), NEW n \in 0..Len(q)
        PROVE  visual_to_router \o reqs(q, n) \in Seq(Messages')
    <3>1. \A i \in 1..n : Req(q[i]) \in Messages'
      BY DEF Messages
    <3>2. reqs(q, n) \in Seq(Messages')
      BY <3>1
    <3> QED
      BY <1>k, <3>2, ConcatProperties
  <2>2. CASE VisualTake
    <3>1. PICK m \in Nat, n \in 1..Len(waiting_reqs) :
            /\ m <= n
            /\ visual_to_router' = visual_to_router \o reqs(waiting_reqs, m)
            /\ reqs_need_infer' = SubSeq(waiting_reqs, m+1, n)
            /\ waiting_reqs' = SubSeq(waiting_reqs, n+1, Len(waiting_reqs))
      BY <2>2, TakenInOrder DEF Requests
    <3>2. /\ SubSeq(waiting_reqs, m+1, n) \in Seq(Started')
          /\ SubSeq(waiting_reqs, n+1, Len(waiting_reqs)) \in Seq(Started')
      BY <1>k, SubSeqProperties
    <3>3. visual_to_router' \in Seq(Messages')
      BY <1>k, <2>1, <3>1
    <3>4. UNCHANGED <<delivering, http_to_router, http_to_visual, router_to_detok, detok_to_http>>
      BY <2>2 DEF VisualTake, httpVars
    <3> QED
      BY <1>k, <3>1, <3>2, <3>3, <3>4 DEF UnderWay
  <2>3. CASE VisualSend
    <3>1. visual_to_router \o reqs(reqs_need_infer, Len(reqs_need_infer)) \in Seq(Messages')
      BY <1>k, <2>1
    <3> QED
      BY <1>k, <2>3, <3>1, EmptySeq DEF VisualSend, UnderWay, httpVars
  <2> QED
    BY <1>7, <2>2, <2>3
<1>8. ASSUME RouterRecv
      PROVE  UnderWay'
  <2>1. ASSUME http_to_router # <<>>
        PROVE  http_to_router[1] \in Messages' /\ Tail(http_to_router) \in Seq(Messages')
    BY <1>k, <2>1, HeadTailProperties, ElementOfSeq
  <2>2. ASSUME visual_to_router # <<>>
        PROVE  visual_to_router[1] \in Messages' /\ Tail(visual_to_router) \in Seq(Messages')
    BY <1>k, <2>2, HeadTailProperties, ElementOfSeq
  <2>3. \A m \in Messages' : Append(router_to_detok, m) \in Seq(Messages' \cup TokenMessages')
    BY <1>k, AppendProperties
  <2> QED
    BY <1>8, <1>k, <2>1, <2>2, <2>3 DEF RouterRecv, Handle, UnderWay, httpVars, visualVars
<1>9. ASSUME RouterForward
      PROVE  UnderWay'
  <2>0. PICK batch \in SUBSET Group : \E last \in SUBSET Unended(batch) : Forward(batch, last)
    BY <1>9 DEF RouterForward
  <2>1. PICK last \in SUBSET Unended(batch) : Forward(batch, last)
    BY <2>0
  <2> DEFINE b == Outcomes(batch, last)
  <2>2. /\ Unended(batch) \in SUBSET Sub
        /\ \A s \in Unended(batch) : generated[s] + 1 \in Nat \ {0} /\ s[1] \in Group
    BY <1>0, SubFacts DEF RouterKnows, Unended
  <2>3. b \in [Unended(batch) -> Outcome]
    BY <2>2 DEF Outcome, Outcomes
  <2>4. \A s \in Unended(batch) : b[s].finish = "aborted" => s[1] \in Closed
    BY <1>0, <2>2 DEF RouterKnows, Outcomes
  <2>5. b \in Batches
    <3> HIDE DEF b
    <3> QED
      BY <2>2, <2>3, <2>4, IsBatch
  <2>6. [kind |-> "tokens", batch |-> b] \in TokenMessages'
    <3> HIDE DEF b
    <3>1. [kind |-> "tokens", batch |-> b] \in TokenMessages
      BY <2>5 DEF TokenMessages
    <3> QED
      BY <1>w, <3>1
  <2>7. router_to_detok' \in Seq(Messages' \cup TokenMessages')
    <3>1. router_to_detok' = Append(router_to_detok, [kind |-> "tokens", batch |-> b])
      BY <2>1 DEF Forward
    <3> HIDE DEF b
    <3> QED
      BY <1>k, <2>6, <3>1, AppendProperties
  <2> QED
    BY <1>k, <2>1, <2>7 DEF Forward, UnderWay, httpVars, visualVars
<1>10. ASSUME DetokRecv
       PROVE  UnderWay'
  <2> DEFINE m == router_to_detok[1]
             out == [s \in DOMAIN m.batch \cap req_id_to_out |-> m.batch[s]]
  <2>1. m \in Messages \cup TokenMessages /\ Tail(router_to_detok) \in Seq(Messages' \cup TokenMessages')
    BY <1>10, <1>0, <1>k, HeadTailProperties, ElementOfSeq DEF DetokRecv, UnderWay
  <2>2. m.kind = "tokens" => m.batch \in Batches
    BY <2>1 DEF Messages, TokenMessages, Req, Abort
  <2>3. m.kind = "tokens" => out \in Batches
    <3> HIDE DEF m
    <3> SUFFICES ASSUME m.kind = "tokens"
                 PROVE  out \in Batches
      OBVIOUS
    <3>1. DOMAIN m.batch \cap req_id_to_out \in SUBSET Sub
          /\ out \in [DOMAIN m.batch \cap req_id_to_out -> Outcome]
          /\ \A s \in DOMAIN m.batch \cap req_id_to_out : out[s].finish = "aborted" => s[1] \in Closed
      BY <2>2 DEF Batches
    <3> HIDE DEF out
    <3> QED
      BY <3>1, IsBatch
  <2>4. m.kind = "tokens" => Append(detok_to_http, out) \in Seq(Batches')
    BY <1>k, <1>w, <2>3, AppendProperties
  <2> QED
    BY <1>10, <1>k, <2>1, <2>4 DEF DetokRecv, UnderWay, httpVars, visualVars
<1>11. CASE Moves \/ UNCHANGED vars
  BY <1>11, <1>k DEF Moves, vars, httpVars, visualVars, channels, UnderWay
<1> QED
  BY <1>1, <1>2, <1>3, <1>4, <1>5, <1>6, <1>7, <1>8, <1>9, <1>10, <1>11, RouterSteps DEF Next, Http, Visual

\* The first message of a channel.
LEMMA FirstMessage ==
  ASSUME NEW T, NEW ch \in Seq(T), ch # <<>>
  PROVE  ch[1] \in T /\ Tail(ch) \in Seq(T)
BY HeadTailProperties, ElementOfSeq, EmptySeq

LEMMA ChannelFacts ==
  ASSUME NEW T, NEW ch \in Seq(T)
  PROVE  /\ ch # <<>> => Len(Tail(ch)) = Len(ch) - 1 /\ (Len(ch) = 1 <=> Tail(ch) = <<>>)
         /\ \A x \in T : Append(ch, x) \in Seq(T) /\ Append(ch, x) # <<>>
<1>1. ASSUME ch # <<>>
      PROVE  Len(Tail(ch)) = Len(ch) - 1 /\ (Len(ch) = 1 <=> Tail(ch) = <<>>)
  <2>1. Tail(ch) \in Seq(T) /\ Len(Tail(ch)) = Len(ch) - 1 /\ Len(ch) \in Nat
    BY <1>1, HeadTailProperties
  <2>2. Tail(ch) = <<>> <=> Len(Tail(ch)) = 0
    BY <2>1, EmptySeq
  <2> QED
    BY <2>1, <2>2
<1>2. ASSUME NEW x \in T
      PROVE  Append(ch, x) \in Seq(T) /\ Append(ch, x) # <<>>
  BY AppendProperties
<1> QED
  BY <1>1, <1>2

LEMMA RouterKnowsStep ==
  CausalInv /\ [Next]_vars => RouterKnows'
<1> SUFFICES ASSUME CausalInv, [Next]_vars
             PROVE  RouterKnows'
  OBVIOUS
<1>0. /\ Coroutines /\ UnderWay /\ RouterKnows
      /\ Started \subseteq Started' /\ Closed \subseteq Closed'
  BY CoroutinesMove DEF CausalInv
<1>1. ASSUME UNCHANGED <<routerVars, req_id_to_out>>
      PROVE  RouterKnows'
  BY <1>0, <1>1 DEF RouterKnows, routerVars
<1>2. CASE RouterRecv
  <2>1. PICK m \in Messages : Handle(m)
    <3>1. http_to_router # <<>> => http_to_router[1] \in Messages
      BY <1>0, FirstMessage DEF UnderWay
    <3>2. visual_to_router # <<>> => visual_to_router[1] \in Messages
      BY <1>0, FirstMessage DEF UnderWay
    <3> QED
      BY <1>2, <3>1, <3>2 DEF RouterRecv
  <2>2. /\ m.group \in Group /\ m.kind \in {"req", "abort"}
        /\ m.kind = "req" => m.group \in Started
        /\ m.kind = "abort" => m.group \in Closed
    BY DEF Messages, Req, Abort, Started, Closed
  <2>3. UNCHANGED <<generated, ended, req_id_to_out>>
    BY <2>1 DEF Handle
  <2>4. /\ known' \in [Group -> {"no", "queued", "joining", "running", "aborted", "over"}]
        /\ \A g \in Group : g # m.group => known'[g] = known[g]
        /\ known'[m.group] # "no" => m.kind = "req" \/ known[m.group] # "no"
        /\ known'[m.group] = "aborted" => m.kind = "abort" \/ known[m.group] = "aborted"
        /\ known'[m.group] = "no" => known[m.group] = "no"
    BY <1>0, <2>1, <2>2 DEF Handle, RouterKnows
  <2>5. \A g \in Group : /\ known'[g] # "no" => g \in Started'
                         /\ known'[g] = "aborted" => g \in Closed'
    BY <1>0, <2>2, <2>4 DEF RouterKnows
  <2>6. \A s \in Sub : known'[s[1]] = "no" => generated[s] = 0 /\ s \notin ended
    BY <1>0, <2>2, <2>4, SubFacts DEF RouterKnows
  <2> QED
    BY <1>0, <2>3, <2>4, <2>5, <2>6 DEF RouterKnows
<1>3. CASE RouterForward
  <2>1. PICK batch \in SUBSET {g \in Group : known[g] \in {"joining", "running", "aborted"}} :
          \E last \in SUBSET Unended(batch) : Forward(batch, last)
    BY <1>3, ForwardOfKnown
  <2>2. PICK last \in SUBSET Unended(batch) : Forward(batch, last)
    BY <2>1
  <2>3. Unended(batch) \subseteq Sub /\ \A s \in Unended(batch) : s[1] \in batch
    BY DEF Unended
  <2>4. /\ generated' \in [Sub -> Nat] /\ ended' \subseteq Sub /\ req_id_to_out' = req_id_to_out
        /\ \A s \in Sub : s[1] \notin batch => generated'[s] = generated[s]
                                              /\ (s \in ended' => s \in ended)
    BY <1>0, <2>2, <2>3 DEF Forward, RouterKnows
  <2>5. /\ known' \in [Group -> {"no", "queued", "joining", "running", "aborted", "over"}]
        /\ \A g \in batch : known'[g] \in {known[g], "over"} /\ known[g] # "no"
        /\ \A g \in Group \ batch : known'[g] = known[g]
    BY <1>0, <2>2 DEF Forward, RouterKnows
  <2>6. \A g \in Group : /\ known'[g] # "no" => g \in Started'
                         /\ known'[g] = "aborted" => g \in Closed'
    BY <1>0, <2>5 DEF RouterKnows
  <2>7. \A s \in Sub : known'[s[1]] = "no" => generated'[s] = 0 /\ s \notin ended'
    BY <1>0, <2>4, <2>5, SubFacts DEF RouterKnows
  <2> QED
    BY <1>0, <2>4, <2>5, <2>6, <2>7 DEF RouterKnows
<1>4. CASE DetokRecv
  <2>1. router_to_detok[1] \in Messages \cup TokenMessages
    BY <1>0, <1>4, FirstMessage DEF DetokRecv, UnderWay
  <2>2. router_to_detok[1].kind = "req" => SubsOf(router_to_detok[1].group) \subseteq Sub
    BY <2>1, SubFacts DEF Messages, TokenMessages, Req, Abort, Started
  <2>3. router_to_detok[1].kind # "tokens" => router_to_detok[1].kind \in {"req", "abort"}
    BY <2>1 DEF Messages, TokenMessages, Req, Abort
  <2>4. req_id_to_out' \subseteq Sub
    BY <1>0, <1>4, <2>2, <2>3 DEF DetokRecv, RouterKnows
  <2> QED
    BY <1>0, <1>4, <2>4 DEF DetokRecv, RouterKnows, routerVars
<1>5. CASE Deliver \/ RecvBatch \/ Visual \/ \E g \in Group : Leave(g) \/ Read(g) \/ Http(g)
  <2>1. UNCHANGED <<routerVars, req_id_to_out>>
    BY <1>5 DEF Deliver, RecvBatch, Visual, VisualRecv, VisualTake, VisualSend, Leave, Read,
                Http, Start, FindGone, Wake, Cancel, BackgroundAbort
  <2> QED
    BY <1>1, <2>1
<1>6. CASE Moves
  <2>1. UNCHANGED <<generated, ended, req_id_to_out, generate>>
    BY <1>6 DEF Moves, httpVars
  <2> QED
    BY <1>0, <1>6, <2>1, SubFacts DEF Moves, RouterKnows
<1> QED
  BY <1>1, <1>2, <1>3, <1>4, <1>5, <1>6, RouterSteps DEF Next, vars

LEMMA ListsStep ==
  CausalInv /\ [Next]_vars => Lists'
<1> SUFFICES ASSUME CausalInv, [Next]_vars
             PROVE  Lists'
  OBVIOUS
<1>0. Coroutines /\ UnderWay /\ Lists /\ EntriesMatch
  BY DEF CausalInv
<1> USE <1>0 DEF Coroutines, Places, Lists
<1>1. ASSUME NEW g \in Group, Leave(g) \/ Start(g) \/ FindGone(g) \/ Cancel(g) \/ BackgroundAbort(g)
      PROVE  Lists'
  BY <1>1 DEF Leave, Start, FindGone, Cancel, BackgroundAbort, httpVars
<1>2. ASSUME NEW g \in Group, Wake(g)
      PROVE  Lists'
  <2>1. <<>> \in Seq(Item(g))
    BY EmptySeq
  <2>2. /\ generate' = [generate EXCEPT ![g] = generate'[g]] /\ generate'[g] # "new"
        /\ generate'[g] = "yield" => out_token_info_list' = out_token_info_list
                                     /\ out_token_info_list[g] # <<>>
    BY <1>2 DEF Wake
  <2>3. out_token_info_list' = out_token_info_list
        \/ out_token_info_list' = [out_token_info_list EXCEPT ![g] = <<>>]
    BY <1>2 DEF Wake
  <2> QED
    BY <2>1, <2>2, <2>3
<1>3. ASSUME NEW g \in Group, Read(g)
      PROVE  Lists'
  <2>1. /\ out_token_info_list[g] \in Seq(Item(g)) /\ out_token_info_list[g] # <<>>
        /\ Tail(out_token_info_list[g]) \in Seq(Item(g))
        /\ Len(out_token_info_list[g]) # 1 => Tail(out_token_info_list[g]) # <<>>
    <3>1. out_token_info_list[g] \in Seq(Item(g)) /\ out_token_info_list[g] # <<>>
      BY <1>3 DEF Read
    <3> QED
      BY <3>1, FirstMessage, ChannelFacts
  <2>2. /\ out_token_info_list' = [out_token_info_list EXCEPT ![g] = Tail(out_token_info_list[g])]
        /\ generate' = [generate EXCEPT ![g] = IF unfinished_count'[g] = 0 THEN "ending"
                                 ELSE IF Len(out_token_info_list[g]) = 1 THEN "wait" ELSE "yield"]
    BY <1>3 DEF Read
  <2>3. \A h \in Group : h # g => out_token_info_list'[h] = out_token_info_list[h]
                                 /\ generate'[h] = generate[h]
    BY <2>2
  <2>4. /\ DOMAIN out_token_info_list' = Group
        /\ out_token_info_list'[g] = Tail(out_token_info_list[g])
        /\ generate'[g] # "new"
        /\ generate'[g] = "yield" => Len(out_token_info_list[g]) # 1
    BY <2>2
  <2> QED
    BY <2>1, <2>3, <2>4
<1>4. CASE Deliver
  <2>1. PICK s \in DOMAIN delivering :
          \/ UNCHANGED out_token_info_list
          \/ /\ delivering[s].finish # "aborted" /\ s[1] \in req_id_to_out_inf
             /\ out_token_info_list' =
                  [out_token_info_list EXCEPT ![s[1]] = Append(@,
                     [sub |-> s, count |-> delivering[s].count, finish |-> delivering[s].finish])]
    BY <1>4 DEF Deliver
  <2>2. UNCHANGED generate
    BY <1>4 DEF Deliver
  <2>3. s \in SubsOf(s[1]) /\ s[1] \in Group /\ delivering[s].count \in Nat \ {0}
        /\ delivering[s].finish \in {"no", "finished", "aborted"}
    BY BatchIs, SubFacts DEF UnderWay
  <2>4. CASE UNCHANGED out_token_info_list
    BY <2>2, <2>4
  <2>5. CASE /\ delivering[s].finish # "aborted" /\ s[1] \in req_id_to_out_inf
             /\ out_token_info_list' =
                  [out_token_info_list EXCEPT ![s[1]] = Append(@,
                     [sub |-> s, count |-> delivering[s].count, finish |-> delivering[s].finish])]
    <3> DEFINE item == [sub |-> s, count |-> delivering[s].count, finish |-> delivering[s].finish]
    <3>1. item \in Item(s[1])
      BY <2>3, <2>5 DEF Item
    <3> HIDE DEF item
    <3>2. Append(out_token_info_list[s[1]], item) \in Seq(Item(s[1]))
          /\ Append(out_token_info_list[s[1]], item) # <<>>
      BY <2>3, <3>1, ChannelFacts
    <3>3. generate[s[1]] # "new"
      BY <2>5 DEF EntriesMatch
    <3>4. /\ DOMAIN out_token_info_list' = Group
          /\ out_token_info_list'[s[1]] = Append(out_token_info_list[s[1]], item)
          /\ \A h \in Group : h # s[1] => out_token_info_list'[h] = out_token_info_list[h]
      BY <2>3, <2>5 DEF item
    <3> QED
      BY <2>2, <2>3, <3>2, <3>3, <3>4
  <2> QED
    BY <2>1, <2>4, <2>5
<1>5. CASE RecvBatch \/ Visual \/ RouterRecv \/ RouterStep \/ DetokRecv \/ UNCHANGED vars
  BY <1>5 DEF RecvBatch, Visual, VisualRecv, VisualTake, VisualSend, RouterRecv, Handle,
              RouterStep, RouterTake, RouterForward, RouterMerge, Forward, DetokRecv, vars, httpVars
<1> QED
  BY <1>1, <1>2, <1>3, <1>4, <1>5 DEF Next, Http

LEMMA EntriesMatchStep ==
  CausalInv /\ [Next]_vars => EntriesMatch'
<1> SUFFICES ASSUME CausalInv, [Next]_vars
             PROVE  EntriesMatch'
  OBVIOUS
<1>0. Coroutines /\ UnderWay /\ EntriesMatch
  BY DEF CausalInv
<1> USE <1>0 DEF Coroutines, Places, EntriesMatch
<1>1. ASSUME NEW g \in Group, Leave(g) \/ Start(g) \/ FindGone(g) \/ Cancel(g) \/ BackgroundAbort(g)
      PROVE  EntriesMatch'
  BY <1>1 DEF Leave, Start, FindGone, Cancel, BackgroundAbort, SendAbort, httpVars
<1>2. ASSUME NEW g \in Group, Wake(g)
      PROVE  EntriesMatch'
  BY <1>2 DEF Wake, Hand
<1>3. ASSUME NEW g \in Group, Read(g)
      PROVE  EntriesMatch'
  BY <1>3 DEF Read, Hand
\* An abort notice comes for a closed request, whose entry is gone.
<1>4. CASE Deliver
  <2>1. PICK s \in DOMAIN delivering :
          \/ UNCHANGED req_id_to_out_inf
          \/ delivering[s].finish = "aborted" /\ req_id_to_out_inf' = req_id_to_out_inf \ {s[1]}
    BY <1>4 DEF Deliver
  <2>2. delivering[s].finish = "aborted" => s[1] \in Closed
    BY BatchIs DEF UnderWay
  <2>3. UNCHANGED generate
    BY <1>4 DEF Deliver
  <2> QED
    BY <2>1, <2>2, <2>3 DEF Closed
<1>5. CASE RecvBatch \/ Visual \/ RouterRecv \/ RouterStep \/ DetokRecv \/ UNCHANGED vars
  BY <1>5 DEF RecvBatch, Visual, VisualRecv, VisualTake, VisualSend, RouterRecv, Handle,
              RouterStep, RouterTake, RouterForward, RouterMerge, Forward, DetokRecv, vars, httpVars
<1> QED
  BY <1>1, <1>2, <1>3, <1>4, <1>5 DEF Next, Http

LEMMA NoLostWakeupStep ==
  CausalInv /\ [Next]_vars => NoLostWakeup'
<1> SUFFICES ASSUME CausalInv, [Next]_vars
             PROVE  NoLostWakeup'
  OBVIOUS
<1>0. Coroutines /\ UnderWay /\ Lists /\ NoLostWakeup
  BY DEF CausalInv
<1> USE <1>0 DEF Coroutines, Places, NoLostWakeup
<1>1. ASSUME NEW g \in Group, Leave(g) \/ Start(g) \/ FindGone(g) \/ Cancel(g) \/ BackgroundAbort(g)
      PROVE  NoLostWakeup'
  BY <1>1 DEF Leave, Start, FindGone, Cancel, BackgroundAbort, httpVars, clientVars, Lists
<1>2. ASSUME NEW g \in Group, Wake(g)
      PROVE  NoLostWakeup'
  BY <1>2 DEF Wake, Lists
<1>3. ASSUME NEW g \in Group, Read(g)
      PROVE  NoLostWakeup'
  <2>1. /\ out_token_info_list' = [out_token_info_list EXCEPT ![g] = Tail(out_token_info_list[g])]
        /\ generate' = [generate EXCEPT ![g] = IF unfinished_count'[g] = 0 THEN "ending"
                                 ELSE IF Len(out_token_info_list[g]) = 1 THEN "wait" ELSE "yield"]
        /\ UNCHANGED <<client, event>>
    BY <1>3 DEF Read
  <2>2. out_token_info_list[g] \in Seq(Item(g))
    BY DEF Lists
  <2>3. Len(out_token_info_list[g]) = 1 => Tail(out_token_info_list[g]) = <<>>
    <3>1. out_token_info_list[g] # <<>>
      BY <1>3 DEF Read, Lists
    <3> QED
      BY <2>2, <3>1, ChannelFacts
  <2>4. generate'[g] = "wait" => out_token_info_list'[g] = <<>>
    BY <2>1, <2>3 DEF Lists
  <2>5. \A h \in Group : h # g => out_token_info_list'[h] = out_token_info_list[h]
                                 /\ generate'[h] = generate[h]
    BY <2>1 DEF Lists
  <2> QED
    BY <2>1, <2>4, <2>5
<1>4. CASE Deliver
  BY <1>4 DEF Deliver, clientVars, Lists
<1>5. CASE RecvBatch \/ Visual \/ RouterRecv \/ RouterStep \/ DetokRecv \/ UNCHANGED vars
  BY <1>5 DEF RecvBatch, Visual, VisualRecv, VisualTake, VisualSend, RouterRecv, Handle,
              RouterStep, RouterTake, RouterForward, RouterMerge,
              Forward, DetokRecv, vars, httpVars, clientVars
<1> QED
  BY <1>1, <1>2, <1>3, <1>4, <1>5 DEF Next, Http

LEMMA InitCausalInv == Init => CausalInv
<1> SUFFICES ASSUME Init
             PROVE  CausalInv
  OBVIOUS
<1>1. Coroutines
  BY DEF Init, Coroutines, Places
<1>2. UnderWay
  <2>1. delivering \in Batches
    <3>1. {} \in SUBSET Sub /\ delivering \in [{} -> Outcome] /\ DOMAIN delivering = {}
      BY DEF Init
    <3> QED
      BY <3>1, IsBatch
  <2> QED
    BY <2>1, EmptySeq DEF Init, UnderWay
<1>3. RouterKnows
  BY SubFacts DEF Init, RouterKnows
<1>4. Lists
  BY EmptySeq DEF Init, Lists
<1>5. EntriesMatch /\ NoLostWakeup
  BY DEF Init, EntriesMatch, NoLostWakeup
<1> QED
  BY <1>1, <1>2, <1>3, <1>4, <1>5 DEF CausalInv

LEMMA CausalStep == CausalInv /\ [Next]_vars => CausalInv'
<1>1. CausalInv /\ [Next]_vars => Coroutines'
  BY CoroutinesMove DEF CausalInv
<1> QED
  BY <1>1, UnderWayStep, RouterKnowsStep, ListsStep, EntriesMatchStep, NoLostWakeupStep
     DEF CausalInv

-----------------------------------------------------------------------------
(* Tokens stay in order *)

LEMMA OpenShrinks ==
  CausalInv /\ [Next]_vars => Open' \subseteq Open
<1> SUFFICES ASSUME CausalInv, [Next]_vars
             PROVE  Open' \subseteq Open
  OBVIOUS
<1> USE DEF CausalInv, Coroutines, Places, Open
<1>1. ASSUME NEW g \in Group,
             Leave(g) \/ Read(g) \/ Start(g) \/ FindGone(g) \/ Wake(g) \/ Cancel(g) \/ BackgroundAbort(g)
      PROVE  Open' \subseteq Open
  BY <1>1 DEF Leave, Read, Start, FindGone, Wake, Cancel, BackgroundAbort, httpVars
<1>2. CASE RecvBatch \/ Deliver \/ Visual \/ RouterRecv \/ RouterStep \/ DetokRecv \/ UNCHANGED vars
  BY <1>2 DEF RecvBatch, Deliver, Visual, VisualRecv, VisualTake, VisualSend, RouterRecv, Handle,
              RouterStep, RouterTake, RouterForward, RouterMerge, Forward, DetokRecv, vars, httpVars
<1> QED
  BY <1>1, <1>2 DEF Next, Http

\* A view that gets longer at its end or loses its head.
LEMMA RunLonger ==
  ASSUME NEW v \in Seq(Nat), NEW w \in Seq(Nat), NEW a \in Nat, NEW b \in Nat, a <= b,
         Run(v, a, b), Len(w) = Len(v) + 1, \A i \in 1..Len(v) : w[i] = v[i]
  PROVE  /\ w[Len(w)] = 0 => Run(w, a, b)
         /\ w[Len(w)] = b+1 => Run(w, a, b+1)
<1>1. w = Append(v, w[Len(w)])
  <2>1. /\ Append(v, w[Len(w)]) \in Seq(Nat)
        /\ Len(Append(v, w[Len(w)])) = Len(v) + 1
        /\ \A i \in 1..Len(v) : Append(v, w[Len(w)])[i] = v[i]
        /\ Append(v, w[Len(w)])[Len(v)+1] = w[Len(w)]
    <3>1. w[Len(w)] \in Nat
      BY ElementOfSeq
    <3> QED
      BY <3>1, AppendProperties
  <2>2. \A i \in 1..Len(w) : i \in 1..Len(v) \/ i = Len(v) + 1
    BY LenProperties
  <2> QED
    BY <2>1, <2>2, SeqEqual
<1> QED
  BY <1>1, RunAppend

LEMMA RunShorter ==
  ASSUME NEW v \in Seq(Nat), NEW w \in Seq(Nat), NEW a \in Nat, NEW b \in Nat, a <= b,
         Run(v, a, b), v # <<>>, Len(w) = Len(v) - 1, \A i \in 1..Len(w) : w[i] = v[i+1]
  PROVE  /\ v[1] = 0 => Run(w, a, b)
         /\ v[1] # 0 => v[1] = a+1 /\ a < b /\ Run(w, a+1, b)
<1>1. w = Tail(v)
  <2>1. Tail(v) \in Seq(Nat) /\ Len(Tail(v)) = Len(v) - 1
        /\ \A i \in 1..Len(Tail(v)) : Tail(v)[i] = v[i+1]
    BY HeadTailProperties
  <2> QED
    BY <2>1, SeqEqual
<1> QED
  BY <1>1, RunTail

\* The views of one answer.
LEMMA ViewsAre ==
  ASSUME UnderWay, Lists, NEW s \in Sub
  PROVE  /\ ListView(s) \in Seq(Nat) /\ Len(ListView(s)) = Len(out_token_info_list[s[1]])
         /\ HttpView(s) \in Seq(Nat) /\ Len(HttpView(s)) = Len(detok_to_http)
         /\ DetokView(s) \in Seq(Nat) /\ Len(DetokView(s)) = Len(router_to_detok)
<1>1. ListView(s) \in Seq(Nat) /\ Len(ListView(s)) = Len(out_token_info_list[s[1]])
  <2>1. out_token_info_list[s[1]] \in Seq(Item(s[1]))
    BY SubFacts DEF Lists
  <2>2. \A i \in 1..Len(out_token_info_list[s[1]]) : out_token_info_list[s[1]][i].count \in Nat
    <3>1. \A x \in Item(s[1]) : x.count \in Nat
      BY DEF Item
    <3> QED
      BY <2>1, <3>1, ElementOfSeq
  <2>3. Len(out_token_info_list[s[1]]) \in Nat
    BY <2>1, LenProperties
  <2> QED
    BY <2>2, <2>3 DEF ListView, View
<1>2. HttpView(s) \in Seq(Nat) /\ Len(HttpView(s)) = Len(detok_to_http)
  <2>1. \A i \in 1..Len(detok_to_http) : detok_to_http[i] \in Batches
    BY ElementOfSeq DEF UnderWay
  <2>2. \A i \in 1..Len(detok_to_http) : s \in DOMAIN detok_to_http[i] => detok_to_http[i][s].count \in Nat
    BY <2>1, BatchIs
  <2>3. Len(detok_to_http) \in Nat
    BY LenProperties DEF UnderWay
  <2> QED
    BY <2>2, <2>3 DEF HttpView
<1>3. DetokView(s) \in Seq(Nat) /\ Len(DetokView(s)) = Len(router_to_detok)
  <2>1. \A i \in 1..Len(router_to_detok) : router_to_detok[i] \in Messages \cup TokenMessages
    BY ElementOfSeq DEF UnderWay
  <2>2. \A i \in 1..Len(router_to_detok) : router_to_detok[i].kind = "tokens" => router_to_detok[i].batch \in Batches
    BY <2>1 DEF Messages, TokenMessages, Req, Abort
  <2>3. \A i \in 1..Len(router_to_detok) : Has(router_to_detok[i], s) => router_to_detok[i].batch[s].count \in Nat
    BY <2>2, BatchIs DEF Has
  <2>4. Len(router_to_detok) \in Nat
    BY LenProperties DEF UnderWay
  <2> QED
    BY <2>3, <2>4 DEF DetokView
<1> QED
  BY <1>1, <1>2, <1>3

\* q is the sequence of the numbers after a up to b.
Counts(q, a, b) == q \in Seq(Nat) /\ Len(q) = b - a /\ \A k \in 1..(b-a) : q[k] = a + k

LEMMA CountOn ==
  ASSUME NEW r \in Nat, NEW l \in Nat, r <= l, NEW p, Counts(p, 0, r), NEW q, Counts(q, r, l)
  PROVE  Counts(p \o q, 0, l)
<1>0. /\ p \in Seq(Nat) /\ Len(p) = r /\ \A k \in 1..r : p[k] = k
      /\ q \in Seq(Nat) /\ Len(q) = l - r /\ \A k \in 1..(l-r) : q[k] = r + k
  BY DEF Counts
<1>1. Len(p) + Len(q) = l
  BY <1>0
<1>7. PICK w : w = p \o q
  OBVIOUS
<1>2. /\ w \in Seq(Nat) /\ Len(w) = l
      /\ \A i \in 1..l : w[i] = IF i <= r THEN p[i] ELSE q[i - r]
  BY <1>0, <1>1, <1>7, ConcatProperties
<1>3. \A i \in 1..l : i > r => i - r \in 1..(l-r) /\ r + (i - r) = i
  OBVIOUS
<1>4. \A i \in 1..l : i <= r => i \in 1..r
  OBVIOUS
<1>5. ASSUME NEW i \in 1..l
      PROVE  w[i] = 0 + i
  <2>1. CASE i <= r
    <3>1. w[i] = p[i] /\ p[i] = i
      BY <1>0, <1>2, <1>4, <2>1
    <3> QED
      BY <3>1
  <2>2. CASE i > r
    <3>1. PICK k \in 1..(l-r) : k = i - r /\ r + k = i
      BY <1>3, <2>2
    <3>2. w[i] = q[k]
      BY <1>2, <2>2, <3>1
    <3>3. q[k] = r + k
      BY <1>0
    <3> QED
      BY <3>1, <3>2, <3>3
  <2> QED
    BY <2>1, <2>2
<1>6. l - 0 = l
  OBVIOUS
<1>8. w \in Seq(Nat) /\ Len(w) = l /\ \A i \in 1..l : w[i] = 0 + i
  BY <1>2, <1>5
<1>9. Counts(w, 0, l)
  BY <1>6, <1>8 DEF Counts
<1> QED
  BY <1>7, <1>9

\* What a list hands out continues what was received.
Reaches(items, s, l) ==
  Len(received[s]) <= l /\ Run(View(items, s), Len(received[s]), l)

LEMMA GiveContinues ==
  ASSUME NEW g \in Group, NEW items \in Seq(Item(g)), Give(items), EndsCounted,
         NEW s \in Sub, NEW l \in Nat, Reaches(items, s, l)
  PROVE  received'[s] = [i \in 1..l |-> i] /\ Len(received'[s]) = l
<1> DEFINE r == Len(received[s])
           mine == Among(items, {i \in ToSet(items) : i.sub = s})
<1>1. r \in Nat /\ received[s] \in Seq(Nat) /\ \A i \in 1..r : received[s][i] = i
  <2>1. received[s] \in Seq(Nat) /\ received[s] = [i \in 1..r |-> i]
    BY DEF EndsCounted
  <2> QED
    BY <2>1
<1>2. \A i \in 1..Len(items) : items[i].count \in Nat \ {0}
  <2>1. \A x \in Item(g) : x.count \in Nat \ {0}
    BY DEF Item
  <2> QED
    BY <2>1, ElementOfSeq
<1>3. Len(mine) = l - r /\ \A k \in 1..Len(mine) : mine[k].count = r + k
  <2> HIDE DEF mine
  <2>1. mine = Among(items, {i \in ToSet(items) : i.sub = s})
    BY DEF mine
  <2>2. Run(View(items, s), r, l) /\ r <= l
    BY DEF Reaches
  <2> HIDE DEF r
  <2> QED
    BY <1>1, <1>2, <2>1, <2>2, RunGiven
<1>4. received'[s] = received[s] \o [k \in 1..Len(mine) |-> mine[k].count]
  BY DEF Give
<1> HIDE DEF mine, r
<1>5. PICK q : q = [k \in 1..Len(mine) |-> mine[k].count]
  OBVIOUS
<1>6. Len(received[s]) = r /\ r <= l
  BY DEF r, Reaches
<1>7. Counts(q, r, l)
  <2>1. q = [k \in 1..(l-r) |-> r + k]
    BY <1>3, <1>5
  <2> QED
    BY <1>1, <1>6, <2>1 DEF Counts
<1>8. Counts(received'[s], 0, l)
  <2>1. received'[s] = received[s] \o q
    BY <1>4, <1>5
  <2>2. Counts(received[s], 0, r)
    BY <1>1, <1>6 DEF Counts
  <2> QED
    BY <1>1, <1>6, <1>7, <2>1, <2>2, CountOn
<1> QED
  <2>1. /\ received'[s] \in Seq(Nat) /\ Len(received'[s]) = l
        /\ \A i \in 1..l : received'[s][i] = i
    BY <1>8 DEF Counts
  <2>2. received'[s] = [i \in 1..Len(received'[s]) |-> received'[s][i]]
    BY <2>1
  <2> QED
    BY <2>1, <2>2

\* The list of another request holds nothing for an answer.
LEMMA OthersGetNothing ==
  ASSUME NEW g \in Group, NEW items \in Seq(Item(g)), NEW s \in Sub, s[1] # g, NEW a \in Nat
  PROVE  Run(View(items, s), a, a)
<1>1. \A x \in Item(g) : x.sub # s
  BY SubFacts DEF Item
<1>2. \A i \in 1..Len(items) : items[i].sub # s
  BY <1>1, ElementOfSeq
<1>3. Len(View(items, s)) = Len(items) /\ \A i \in 1..Len(items) : View(items, s)[i] = 0
  <2>1. Len(items) \in Nat
    BY LenProperties
  <2> QED
    BY <1>2, <2>1 DEF View
<1> QED
  BY <1>3 DEF Run

\* The head of the list is handed out alone.
LEMMA HeadContinues ==
  ASSUME NEW g \in Group, NEW items \in Seq(Item(g)), items # <<>>, NEW s \in Sub,
         NEW a \in Nat, NEW b \in Nat, a <= b, Run(View(items, s), a, b)
  PROVE  \E c \in Nat : /\ a <= c /\ c <= b
                        /\ Run(View(<<items[1]>>, s), a, c)
                        /\ Run(View(Tail(items), s), c, b)
<1>1. \A i \in 1..Len(items) : items[i] \in Item(g) /\ items[i].count \in Nat \ {0}
  <2>1. \A x \in Item(g) : x.count \in Nat \ {0}
    BY DEF Item
  <2> QED
    BY <2>1, ElementOfSeq
<1>2. /\ Len(items) \in Nat \ {0} /\ Tail(items) \in Seq(Item(g))
      /\ Len(Tail(items)) = Len(items) - 1 /\ \A i \in 1..Len(Tail(items)) : Tail(items)[i] = items[i+1]
  BY HeadTailProperties, EmptySeq
<1> DEFINE v == View(items, s)
           w == View(Tail(items), s)
           u == View(<<items[1]>>, s)
<1>3. v \in Seq(Nat) /\ Len(v) = Len(items) /\ v # <<>>
  BY <1>1, <1>2 DEF View
<1>4. w \in Seq(Nat) /\ Len(w) = Len(v) - 1 /\ \A i \in 1..Len(w) : w[i] = v[i+1]
  <2>1. \A i \in 1..Len(Tail(items)) : i+1 \in 1..Len(items)
    BY <1>2
  <2>2. \A i \in 1..Len(Tail(items)) : Tail(items)[i].count \in Nat
    BY <1>1, <1>2, <2>1
  <2>3. Len(Tail(items)) \in Nat
    BY <1>2
  <2> QED
    BY <1>2, <1>3, <2>1, <2>2, <2>3 DEF View
<1>5. Len(u) = 1 /\ u[1] = v[1] /\ v[1] \in Nat
  BY <1>1, <1>2 DEF View
<1> HIDE DEF u, v, w
<1>6. /\ v[1] = 0 => Run(w, a, b)
      /\ v[1] # 0 => v[1] = a+1 /\ a < b /\ Run(w, a+1, b)
  BY <1>3, <1>4, RunShorter DEF v
<1>7. CASE v[1] = 0
  <2>1. Run(u, a, a)
    BY <1>5, <1>7 DEF Run
  <2> QED
    BY <1>6, <1>7, <2>1 DEF u, w
<1>8. CASE v[1] # 0
  <2>1. Run(u, a, a+1)
    BY <1>5, <1>6, <1>8 DEF Run
  <2> QED
    BY <1>6, <1>8, <2>1 DEF u, w
<1> QED
  BY <1>7, <1>8

LEMMA ChainBounds ==
  ASSUME EndsCounted, RouterKnows, NEW s \in Sub, NEW l, NEW d, NEW h,
         l \in 0..generated[s], d \in 0..generated[s], h \in 0..generated[s], Chain(s, l, d, h)
  PROVE  /\ l \in Nat /\ d \in Nat /\ h \in Nat /\ Len(received[s]) \in Nat /\ generated[s] \in Nat
         /\ Len(received[s]) <= l /\ l <= d /\ d <= h /\ h <= generated[s]
         /\ Run(ListView(s), Len(received[s]), l) /\ Run(HttpView(s), d, h)
         /\ Run(DetokView(s), h, generated[s])
         /\ s \in DOMAIN delivering => d = l+1 /\ delivering[s].count = d
         /\ s \notin DOMAIN delivering => d = l
<1>1. generated[s] \in Nat /\ received[s] \in Seq(Nat)
  BY DEF RouterKnows, EndsCounted
<1>2. Len(received[s]) \in Nat
  BY <1>1
<1> QED
  BY <1>1, <1>2 DEF Chain

LEMMA HandKeepsOrder ==
  ASSUME CausalInv, EndsCounted, NEW g \in Group, NEW items \in Seq(Item(g)),
         Give(items), NEW s \in Sub, OrderedFor(s),
         s[1] # g => out_token_info_list'[s[1]] = out_token_info_list[s[1]],
         s[1] = g => \/ items = out_token_info_list[g] /\ out_token_info_list'[g] = <<>>
                     \/ /\ out_token_info_list[g] # <<>> /\ items = <<out_token_info_list[g][1]>>
                        /\ out_token_info_list'[g] = Tail(out_token_info_list[g]),
         UNCHANGED <<delivering, generated, detok_to_http, router_to_detok>>
  PROVE  /\ OrderedFor(s)'
         /\ Reaches(items, s, Len(received'[s])) /\ Len(received'[s]) <= generated[s]
<1>0. UnderWay /\ RouterKnows /\ Lists
  BY DEF CausalInv
<1>1. PICK l \in 0..generated[s], d \in 0..generated[s], h \in 0..generated[s] : Chain(s, l, d, h)
  BY DEF OrderedFor
<1>2. /\ l \in Nat /\ d \in Nat /\ h \in Nat /\ Len(received[s]) \in Nat /\ generated[s] \in Nat
      /\ Len(received[s]) <= l /\ l <= d /\ d <= h /\ h <= generated[s]
      /\ Run(ListView(s), Len(received[s]), l) /\ Run(HttpView(s), d, h)
      /\ Run(DetokView(s), h, generated[s])
      /\ s \in DOMAIN delivering => d = l+1 /\ delivering[s].count = d
      /\ s \notin DOMAIN delivering => d = l
  BY <1>0, <1>1, ChainBounds
<1>3. HttpView(s)' = HttpView(s) /\ DetokView(s)' = DetokView(s)
  BY DEF HttpView, DetokView, Has
\* What is received and what is left of the list.
<1>4. PICK c \in Nat : /\ Len(received[s]) <= c /\ c <= l
                       /\ Run(View(items, s), Len(received[s]), c)
                       /\ Run(ListView(s)', c, l)
  <2>1. CASE s[1] # g
    <3>1. Run(View(items, s), Len(received[s]), Len(received[s]))
      BY <1>2, <2>1, OthersGetNothing
    <3>2. ListView(s)' = ListView(s)
      BY <2>1 DEF ListView
    <3> QED
      BY <1>2, <3>1, <3>2
  <2>2. CASE s[1] = g /\ items = out_token_info_list[g] /\ out_token_info_list'[g] = <<>>
    <3>1. View(items, s) = ListView(s)
      BY <2>2 DEF ListView
    <3>2. ListView(s)' = <<>>
      BY <2>2 DEF ListView, View
    <3> QED
      BY <1>2, <3>1, <3>2, RunEmpty
  <2>3. CASE /\ s[1] = g /\ out_token_info_list[g] # <<>> /\ items = <<out_token_info_list[g][1]>>
             /\ out_token_info_list'[g] = Tail(out_token_info_list[g])
    <3> DEFINE all == out_token_info_list[g]
    <3>1. all \in Seq(Item(g)) /\ all # <<>>
      BY <1>0, <2>3 DEF Lists
    <3>2. ListView(s) = View(all, s) /\ ListView(s)' = View(Tail(all), s) /\ items = <<all[1]>>
      BY <2>3 DEF ListView
    <3> HIDE DEF all
    <3>3. \E c \in Nat : /\ Len(received[s]) <= c /\ c <= l
                         /\ Run(View(<<all[1]>>, s), Len(received[s]), c)
                         /\ Run(View(Tail(all), s), c, l)
      BY <1>2, <3>1, <3>2, HeadContinues
    <3> QED
      BY <3>2, <3>3
  <2> QED
    BY <2>1, <2>2, <2>3
<1>5. Len(received'[s]) = c
  <2>1. Reaches(items, s, c)
    BY <1>4 DEF Reaches
  <2> QED
    BY <2>1, GiveContinues
<1>6. Chain(s, l, d, h)'
  BY <1>2, <1>3, <1>4, <1>5 DEF Chain
<1>7. Reaches(items, s, c) /\ c <= generated[s]
  BY <1>2, <1>4 DEF Reaches
<1> QED
  BY <1>5, <1>6, <1>7 DEF OrderedFor

\* Where nothing of an answer changes.
LEMMA OrderUntouched ==
  ASSUME NEW s \in Sub, OrderedFor(s),
         UNCHANGED <<received, out_token_info_list, delivering, generated, detok_to_http, router_to_detok>>
  PROVE  OrderedFor(s)'
<1>1. PICK l \in 0..generated[s], d \in 0..generated[s], h \in 0..generated[s] : Chain(s, l, d, h)
  BY DEF OrderedFor
<1>2. ListView(s)' = ListView(s) /\ HttpView(s)' = HttpView(s) /\ DetokView(s)' = DetokView(s)
  BY DEF HttpView, DetokView, Has, ListView
<1>3. Chain(s, l, d, h)'
  BY <1>1, <1>2 DEF Chain
<1> QED
  BY <1>3 DEF OrderedFor

LEMMA ViewsAreNow ==
  UnderWay /\ Lists =>
    \A s \in Sub :
      /\ ListView(s) \in Seq(Nat) /\ Len(ListView(s)) = Len(out_token_info_list[s[1]])
      /\ HttpView(s) \in Seq(Nat) /\ Len(HttpView(s)) = Len(detok_to_http)
      /\ DetokView(s) \in Seq(Nat) /\ Len(DetokView(s)) = Len(router_to_detok)
BY ViewsAre

LEMMA ViewsAreNext ==
  UnderWay' /\ Lists' =>
    \A s \in Sub :
      /\ ListView(s)' \in Seq(Nat) /\ Len(ListView(s)') = Len(out_token_info_list'[s[1]])
      /\ HttpView(s)' \in Seq(Nat) /\ Len(HttpView(s)') = Len(detok_to_http')
      /\ DetokView(s)' \in Seq(Nat) /\ Len(DetokView(s)') = Len(router_to_detok')
<1>1. (UnderWay /\ Lists =>
    \A s \in Sub :
      /\ ListView(s) \in Seq(Nat) /\ Len(ListView(s)) = Len(out_token_info_list[s[1]])
      /\ HttpView(s) \in Seq(Nat) /\ Len(HttpView(s)) = Len(detok_to_http)
      /\ DetokView(s) \in Seq(Nat) /\ Len(DetokView(s)) = Len(router_to_detok))'
  BY ViewsAreNow, PTL
<1> QED
  BY <1>1

\* The messages an answer finds under way.
LEMMA HeadOfDetok ==
  ASSUME UnderWay, router_to_detok # <<>>
  PROVE  /\ router_to_detok[1] \in Messages \cup TokenMessages
         /\ Len(Tail(router_to_detok)) = Len(router_to_detok) - 1 /\ Len(router_to_detok) \in Nat \ {0}
         /\ \A i \in 1..Len(Tail(router_to_detok)) :
              Tail(router_to_detok)[i] = router_to_detok[i+1] /\ i+1 \in 1..Len(router_to_detok)
         /\ \A s \in Sub : Has(router_to_detok[1], s) =>
              router_to_detok[1].batch[s].count \in Nat \ {0} /\ router_to_detok[1].batch \in Batches
<1>1. router_to_detok \in Seq(Messages \cup TokenMessages)
  BY DEF UnderWay
<1>2. router_to_detok[1] \in Messages \cup TokenMessages
  BY <1>1, FirstMessage
<1>3. /\ Len(Tail(router_to_detok)) = Len(router_to_detok) - 1 /\ Len(router_to_detok) \in Nat \ {0}
      /\ \A i \in 1..Len(Tail(router_to_detok)) : Tail(router_to_detok)[i] = router_to_detok[i+1]
  BY <1>1, HeadTailProperties, EmptySeq
<1>4. \A i \in 1..Len(Tail(router_to_detok)) : i+1 \in 1..Len(router_to_detok)
  BY <1>3
<1>5. ASSUME NEW s \in Sub, Has(router_to_detok[1], s)
      PROVE  router_to_detok[1].batch[s].count \in Nat \ {0} /\ router_to_detok[1].batch \in Batches
  <2>1. router_to_detok[1].batch \in Batches /\ s \in DOMAIN router_to_detok[1].batch
    BY <1>2, <1>5 DEF Has, Messages, TokenMessages, Req, Abort
  <2> QED
    BY <2>1, BatchIs
<1> QED
  BY <1>2, <1>3, <1>4, <1>5

LEMMA RecvBatchKeepsOrder ==
  ASSUME CausalInv, UnderWay', Lists', EndsCounted, RecvBatch, NEW s \in Sub, OrderedFor(s)
  PROVE  OrderedFor(s)'
<1>0. UnderWay /\ RouterKnows /\ Lists
  BY DEF CausalInv
<1>1. PICK l \in 0..generated[s], d \in 0..generated[s], h \in 0..generated[s] : Chain(s, l, d, h)
  BY DEF OrderedFor
<1>2. /\ l \in Nat /\ d \in Nat /\ h \in Nat /\ Len(received[s]) \in Nat /\ generated[s] \in Nat
      /\ Len(received[s]) <= l /\ l <= d /\ d <= h /\ h <= generated[s]
      /\ Run(ListView(s), Len(received[s]), l) /\ Run(HttpView(s), d, h)
      /\ Run(DetokView(s), h, generated[s])
      /\ s \in DOMAIN delivering => d = l+1 /\ delivering[s].count = d
      /\ s \notin DOMAIN delivering => d = l
  BY <1>0, <1>1, ChainBounds
<1>3. /\ UNCHANGED <<received, out_token_info_list, generated, router_to_detok>>
      /\ delivering = <<>> /\ detok_to_http # <<>>
      /\ delivering' = detok_to_http[1] /\ detok_to_http' = Tail(detok_to_http)
  BY DEF RecvBatch, clientVars, routerVars
<1>4. ListView(s)' = ListView(s) /\ DetokView(s)' = DetokView(s) /\ l = d
  BY <1>2, <1>3 DEF ListView, DetokView, Has
<1>5. HttpView(s) \in Seq(Nat) /\ Len(HttpView(s)) = Len(detok_to_http)
      /\ HttpView(s)' \in Seq(Nat) /\ Len(HttpView(s)') = Len(detok_to_http')
  BY <1>0, ViewsAreNow, ViewsAreNext
<1>6. /\ Len(detok_to_http) \in Nat \ {0} /\ Len(detok_to_http') = Len(detok_to_http) - 1
      /\ \A i \in 1..Len(detok_to_http') : detok_to_http'[i] = detok_to_http[i+1] /\ i+1 \in 1..Len(detok_to_http)
      /\ detok_to_http[1] \in Batches
  <2>1. detok_to_http \in Seq(Batches)
    BY <1>0 DEF UnderWay
  <2>2. /\ Len(detok_to_http) \in Nat \ {0} /\ Len(detok_to_http') = Len(detok_to_http) - 1
        /\ \A i \in 1..Len(detok_to_http') : detok_to_http'[i] = detok_to_http[i+1]
        /\ detok_to_http[1] \in Batches
    BY <1>3, <2>1, HeadTailProperties, EmptySeq, FirstMessage
  <2> QED
    BY <2>2
<1>7. /\ HttpView(s)[1] = IF s \in DOMAIN delivering' THEN delivering'[s].count ELSE 0
      /\ s \in DOMAIN delivering' => delivering'[s].count # 0
      /\ \A i \in 1..Len(HttpView(s)') : HttpView(s)'[i] = HttpView(s)[i+1]
  <2>1. s \in DOMAIN delivering' => delivering'[s].count # 0
    BY <1>3, <1>6, BatchIs
  <2>2. HttpView(s)[1] = IF s \in DOMAIN delivering' THEN delivering'[s].count ELSE 0
    BY <1>3, <1>6 DEF HttpView
  <2>3. \A i \in 1..Len(detok_to_http') : HttpView(s)'[i] = HttpView(s)[i+1]
    BY <1>6 DEF HttpView
  <2> QED
    BY <1>5, <2>1, <2>2, <2>3
<1>8. /\ HttpView(s)[1] = 0 => Run(HttpView(s)', d, h)
      /\ HttpView(s)[1] # 0 => HttpView(s)[1] = d+1 /\ d < h /\ Run(HttpView(s)', d+1, h)
  <2>1. HttpView(s) # <<>> /\ Len(HttpView(s)') = Len(HttpView(s)) - 1
    BY <1>5, <1>6
  <2> QED
    BY <1>2, <1>5, <1>7, <2>1, RunShorter
<1>9. CASE s \in DOMAIN delivering'
  <2>1. Chain(s, l, d+1, h)' /\ d+1 \in 0..generated[s]
    BY <1>2, <1>3, <1>4, <1>7, <1>8, <1>9 DEF Chain
  <2> QED
    BY <1>3, <2>1 DEF OrderedFor
<1>10. CASE s \notin DOMAIN delivering'
  <2>1. Chain(s, l, d, h)'
    BY <1>2, <1>3, <1>4, <1>7, <1>8, <1>10 DEF Chain
  <2> QED
    BY <1>3, <2>1 DEF OrderedFor
<1> QED
  BY <1>9, <1>10

LEMMA DeliverKeepsOrder ==
  ASSUME CausalInv, UnderWay', Lists', EndsCounted, Deliver, NEW s \in Sub, s[1] \in Open, OrderedFor(s)
  PROVE  OrderedFor(s)'
<1>0. UnderWay /\ RouterKnows /\ Lists /\ Coroutines /\ EntriesMatch
  BY DEF CausalInv
<1>1. PICK l \in 0..generated[s], d \in 0..generated[s], h \in 0..generated[s] : Chain(s, l, d, h)
  BY DEF OrderedFor
<1>2. /\ l \in Nat /\ d \in Nat /\ h \in Nat /\ Len(received[s]) \in Nat /\ generated[s] \in Nat
      /\ Len(received[s]) <= l /\ l <= d /\ d <= h /\ h <= generated[s]
      /\ Run(ListView(s), Len(received[s]), l) /\ Run(HttpView(s), d, h)
      /\ Run(DetokView(s), h, generated[s])
      /\ s \in DOMAIN delivering => d = l+1 /\ delivering[s].count = d
      /\ s \notin DOMAIN delivering => d = l
  BY <1>0, <1>1, ChainBounds
<1>3. UNCHANGED <<received, generated, router_to_detok, detok_to_http>>
  BY DEF Deliver, clientVars, routerVars, channels
<1>4. HttpView(s)' = HttpView(s) /\ DetokView(s)' = DetokView(s)
  BY <1>3 DEF HttpView, DetokView, Has
<1>5. PICK t \in DOMAIN delivering :
        /\ delivering' = Without(delivering, t)
        /\ \/ delivering[t].finish = "aborted" /\ UNCHANGED out_token_info_list
           \/ t[1] \notin req_id_to_out_inf /\ UNCHANGED out_token_info_list
           \/ /\ delivering[t].finish # "aborted"
              /\ out_token_info_list' =
                  [out_token_info_list EXCEPT ![t[1]] = Append(@,
                     [sub |-> t, count |-> delivering[t].count, finish |-> delivering[t].finish])]
  BY DEF Deliver
<1>6. t \in Sub /\ t[1] \in Group /\ (delivering[t].finish = "aborted" => t[1] \in Closed)
  BY <1>0, BatchIs, SubFacts DEF UnderWay
<1>7. /\ DOMAIN delivering' = DOMAIN delivering \ {t}
      /\ \A u \in DOMAIN delivering' : delivering'[u] = delivering[u]
  BY <1>5 DEF Without
\* What is delivered for an answer of an open request goes to its list.
<1>8. CASE UNCHANGED out_token_info_list /\ s # t
  <2>1. ListView(s)' = ListView(s)
    BY <1>8 DEF ListView
  <2>2. Chain(s, l, d, h)'
    BY <1>2, <1>3, <1>4, <1>7, <1>8, <2>1 DEF Chain
  <2> QED
    BY <1>3, <2>2 DEF OrderedFor
<1>9. ASSUME s = t
      PROVE  /\ delivering[t].finish # "aborted"
             /\ out_token_info_list' =
                  [out_token_info_list EXCEPT ![t[1]] = Append(@,
                     [sub |-> t, count |-> delivering[t].count, finish |-> delivering[t].finish])]
  <2>1. generated[s] # 0
    BY <1>2, <1>5, <1>9
  <2>2. known[s[1]] # "no" /\ s[1] \in Group
    BY <1>0, <2>1, SubFacts DEF RouterKnows
  <2>3. s[1] \in Started
    BY <1>0, <2>2 DEF RouterKnows
  <2>4. s[1] \in req_id_to_out_inf /\ s[1] \notin Closed
    BY <1>0, <2>3 DEF EntriesMatch, Started, Open, Closed
  <2> QED
    BY <1>5, <1>6, <1>9, <2>4
<1>10. CASE out_token_info_list' =
              [out_token_info_list EXCEPT ![t[1]] = Append(@,
                 [sub |-> t, count |-> delivering[t].count, finish |-> delivering[t].finish])]
  <2> DEFINE item == [sub |-> t, count |-> delivering[t].count, finish |-> delivering[t].finish]
             list == out_token_info_list[s[1]]
  <2>1. CASE s[1] # t[1]
    <3>1. out_token_info_list'[s[1]] = list /\ s # t
      BY <1>0, <1>10, <2>1 DEF Lists
    <3>2. ListView(s)' = ListView(s)
      BY <3>1 DEF ListView
    <3>3. Chain(s, l, d, h)'
      BY <1>2, <1>3, <1>4, <1>7, <3>1, <3>2 DEF Chain
    <3> QED
      BY <1>3, <3>3 DEF OrderedFor
  <2>2. CASE s[1] = t[1]
    <3>1. out_token_info_list'[s[1]] = Append(list, item) /\ list \in Seq(Item(s[1]))
      BY <1>0, <1>6, <1>10, <2>2 DEF Lists
    <3>2. item.sub = t /\ item.count = delivering[t].count
      OBVIOUS
    <3> HIDE DEF item, list
    <3>3. out_token_info_list' [s[1]] \in Seq(Item(s[1])')
      BY <1>6, <2>2 DEF Lists
    <3>4. /\ Len(list) \in Nat /\ Len(Append(list, item)) = Len(list) + 1
          /\ \A i \in 1..Len(list) : Append(list, item)[i] = list[i] /\ i \in 1..Len(Append(list, item))
          /\ Append(list, item)[Len(list)+1] = item
      <4>1. item \in Item(s[1])
        BY <3>1, <3>3, ElementOfSeq, <1>0, <1>5, <1>6, <2>2, BatchIs, SubFacts, <1>10
           DEF item, list, Item, UnderWay
      <4>2. /\ Len(list) \in Nat /\ Len(Append(list, item)) = Len(list) + 1
            /\ \A i \in 1..Len(list) : Append(list, item)[i] = list[i]
            /\ Append(list, item)[Len(list)+1] = item
        BY <3>1, <4>1, AppendProperties
      <4> QED
        BY <4>2
    <3>5. /\ ListView(s) \in Seq(Nat) /\ ListView(s)' \in Seq(Nat)
          /\ Len(ListView(s)) = Len(list) /\ Len(ListView(s)') = Len(list) + 1
      BY <1>0, <3>1, <3>4, ViewsAreNow, ViewsAreNext DEF list
    <3>6. /\ \A i \in 1..Len(ListView(s)) : ListView(s)'[i] = ListView(s)[i]
          /\ ListView(s)'[Len(ListView(s)')] = IF t = s THEN delivering[t].count ELSE 0
      <4>1. \A i \in 1..Len(list) : ListView(s)'[i] = ListView(s)[i]
        BY <3>1, <3>4 DEF ListView, View, list
      <4>2. ListView(s)'[Len(list)+1] = IF t = s THEN delivering[t].count ELSE 0
        BY <3>1, <3>2, <3>4 DEF ListView, View
      <4> QED
        BY <3>5, <4>1, <4>2
    <3>7. /\ t # s => Run(ListView(s)', Len(received[s]), l)
          /\ t = s => Run(ListView(s)', Len(received[s]), l+1)
      <4>1. t = s => delivering[t].count = l+1
        BY <1>2, <1>5
      <4> QED
        BY <1>2, <3>5, <3>6, <4>1, RunLonger
    <3>8. CASE s = t
      <4>1. Chain(s, d, d, h)'
        BY <1>2, <1>3, <1>4, <1>5, <1>7, <3>7, <3>8 DEF Chain
      <4> QED
        BY <1>3, <4>1 DEF OrderedFor
    <3>9. CASE s # t
      <4>1. Chain(s, l, d, h)'
        BY <1>2, <1>3, <1>4, <1>7, <3>7, <3>9 DEF Chain
      <4> QED
        BY <1>3, <4>1 DEF OrderedFor
    <3> QED
      BY <3>8, <3>9
  <2> QED
    BY <2>1, <2>2
<1> QED
  BY <1>5, <1>8, <1>9, <1>10

\* The router sends on a message that is no token.
LEMMA RouterRecvAppends ==
  ASSUME UnderWay, RouterRecv
  PROVE  \E m \in Messages : /\ router_to_detok' = Append(router_to_detok, m) /\ m.kind # "tokens"
                             /\ known' = [known EXCEPT ![m.group] = known'[m.group]]
                             /\ known'[m.group] # known[m.group] => \/ m = Req(m.group)
                                                                  \/ known[m.group] # "no"
                             /\ UNCHANGED <<clientVars, httpVars, generated, ended, req_id_to_out,
                                            detok_to_http>>
<1>1. PICK m \in Messages : Handle(m)
  <2>1. http_to_router # <<>> => http_to_router[1] \in Messages
    BY FirstMessage DEF UnderWay
  <2>2. visual_to_router # <<>> => visual_to_router[1] \in Messages
    BY FirstMessage DEF UnderWay
  <2> QED
    BY <2>1, <2>2 DEF RouterRecv
<1>2. m = Req(m.group) \/ m.kind = "abort"
  BY DEF Messages, Req, Abort
<1>3. m.kind # "tokens"
  BY DEF Messages, Req, Abort
<1>4. known'[m.group] # known[m.group] => m = Req(m.group) \/ known[m.group] # "no"
  BY <1>1, <1>2 DEF Handle
<1>5. known' = [known EXCEPT ![m.group] = known'[m.group]]
  BY <1>1 DEF Handle
<1> QED
  BY <1>1, <1>3, <1>4, <1>5 DEF Handle

\* What is appended to the channel to detokenization.
LEMMA DetokViewAppend ==
  ASSUME UnderWay, Lists, UnderWay', Lists', NEW m, router_to_detok' = Append(router_to_detok, m),
         m \in (Messages \cup TokenMessages)', NEW s \in Sub,
         NEW a \in Nat, NEW b \in Nat, a <= b, Run(DetokView(s), a, b),
         Has(m, s) => m.batch[s].count = b+1
  PROVE  /\ Has(m, s) => Run(DetokView(s)', a, b+1)
         /\ ~Has(m, s) => Run(DetokView(s)', a, b)
<1> DEFINE v == DetokView(s)
           w == DetokView(s)'
<1>0. router_to_detok \in Seq(Messages \cup TokenMessages)
  BY DEF UnderWay
<1>1. /\ Len(router_to_detok) \in Nat /\ Len(router_to_detok') = Len(router_to_detok) + 1
      /\ \A i \in 1..Len(router_to_detok) : router_to_detok'[i] = router_to_detok[i] /\ i \in 1..Len(router_to_detok')
      /\ router_to_detok'[Len(router_to_detok)+1] = m
  <2>1. router_to_detok \in Seq(Messages \cup TokenMessages \cup {m})
    BY <1>0
  <2>2. /\ Len(router_to_detok) \in Nat /\ Len(router_to_detok') = Len(router_to_detok) + 1
        /\ \A i \in 1..Len(router_to_detok) : router_to_detok'[i] = router_to_detok[i]
        /\ router_to_detok'[Len(router_to_detok)+1] = m
    BY <2>1, AppendProperties
  <2> QED
    BY <2>2
<1>2. v \in Seq(Nat) /\ w \in Seq(Nat) /\ Len(v) = Len(router_to_detok) /\ Len(w) = Len(v) + 1
  BY <1>1, ViewsAreNow, ViewsAreNext
<1>3. \A i \in 1..Len(router_to_detok) : w[i] = v[i]
  BY <1>1 DEF DetokView, Has
<1>4. w[Len(router_to_detok)+1] = IF Has(m, s) THEN m.batch[s].count ELSE 0
  BY <1>1 DEF DetokView, Has
<1>5. Run(v, a, b)
  OBVIOUS
<1> HIDE DEF v, w
<1>6. /\ w[Len(w)] = 0 => Run(w, a, b)
      /\ w[Len(w)] = b+1 => Run(w, a, b+1)
  BY <1>2, <1>3, <1>5, RunLonger
<1> QED
  BY <1>2, <1>4, <1>6 DEF w

LEMMA RouterRecvKeepsOrder ==
  ASSUME CausalInv, UnderWay', Lists', EndsCounted, RouterRecv, NEW s \in Sub, OrderedFor(s)
  PROVE  OrderedFor(s)'
<1>0. UnderWay /\ RouterKnows /\ Lists
  BY DEF CausalInv
<1>1. PICK l \in 0..generated[s], d \in 0..generated[s], h \in 0..generated[s] : Chain(s, l, d, h)
  BY DEF OrderedFor
<1>2. /\ h \in Nat /\ generated[s] \in Nat /\ h <= generated[s] /\ Run(DetokView(s), h, generated[s])
  BY <1>0, <1>1, ChainBounds
<1>3. PICK m \in Messages : /\ router_to_detok' = Append(router_to_detok, m) /\ m.kind # "tokens"
                            /\ UNCHANGED <<clientVars, httpVars, generated, detok_to_http>>
  BY <1>0, RouterRecvAppends
<1>4. ~Has(m, s) /\ m \in (Messages \cup TokenMessages)'
  <2>1. m \in Messages'
    <3>1. Started \subseteq Started' /\ Closed \subseteq Closed'
      BY <1>3 DEF httpVars, Started, Closed
    <3> QED
      BY <3>1, Widen
  <2> QED
    BY <1>3, <2>1 DEF Has
<1>5. Run(DetokView(s)', h, generated[s])
  BY <1>0, <1>2, <1>3, <1>4, DetokViewAppend
<1>6. ListView(s)' = ListView(s) /\ HttpView(s)' = HttpView(s)
  BY <1>3 DEF ListView, HttpView, clientVars, httpVars
<1>7. Chain(s, l, d, h)'
  BY <1>1, <1>3, <1>5, <1>6 DEF Chain, clientVars, httpVars
<1> QED
  BY <1>3, <1>7 DEF OrderedFor

LEMMA ForwardKeepsOrder ==
  ASSUME CausalInv, UnderWay', Lists', EndsCounted, NEW batch \in SUBSET Group,
         NEW last \in SUBSET Unended(batch), Forward(batch, last), NEW s \in Sub, OrderedFor(s)
  PROVE  OrderedFor(s)'
<1>0. UnderWay /\ RouterKnows /\ Lists
  BY DEF CausalInv
<1>1. PICK l \in 0..generated[s], d \in 0..generated[s], h \in 0..generated[s] : Chain(s, l, d, h)
  BY DEF OrderedFor
<1>2. /\ l \in Nat /\ d \in Nat /\ h \in Nat /\ generated[s] \in Nat /\ h <= generated[s]
      /\ l <= generated[s] /\ d <= generated[s] /\ Run(DetokView(s), h, generated[s])
  BY <1>0, <1>1, ChainBounds
<1> DEFINE m == [kind |-> "tokens", batch |-> Outcomes(batch, last)]
<1>3. /\ router_to_detok' = Append(router_to_detok, m)
      /\ generated'[s] = IF s \in Unended(batch) THEN generated[s] + 1 ELSE generated[s]
      /\ UNCHANGED <<clientVars, httpVars, detok_to_http>>
  BY DEF Forward
<1>4. /\ Has(m, s) <=> s \in Unended(batch)
      /\ Has(m, s) => m.batch[s].count = generated[s] + 1
  BY DEF Has, Outcomes
<1>5. m \in (Messages \cup TokenMessages)'
  <2>1. router_to_detok' \in Seq((Messages \cup TokenMessages)')
    BY DEF UnderWay
  <2>2. router_to_detok' = Append(router_to_detok, m) /\ router_to_detok \in Seq(Messages \cup TokenMessages)
    BY <1>0, <1>3 DEF UnderWay
  <2> HIDE DEF m
  <2>3. router_to_detok \in Seq(Messages \cup TokenMessages \cup {m})
    BY <2>2
  <2>4. Len(router_to_detok') = Len(router_to_detok) + 1 /\ router_to_detok'[Len(router_to_detok) + 1] = m
        /\ Len(router_to_detok) \in Nat
    BY <2>2, <2>3, AppendProperties
  <2>5. Len(router_to_detok) + 1 \in 1..Len(router_to_detok')
    BY <2>4
  <2> QED
    BY <2>1, <2>4, <2>5, ElementOfSeq
<1> HIDE DEF m
<1>6. Run(DetokView(s)', h, generated'[s])
  BY <1>0, <1>2, <1>3, <1>4, <1>5, DetokViewAppend
<1>7. ListView(s)' = ListView(s) /\ HttpView(s)' = HttpView(s)
  BY <1>3 DEF ListView, HttpView, clientVars, httpVars
<1>8. h <= generated'[s] /\ l \in 0..generated'[s] /\ d \in 0..generated'[s] /\ h \in 0..generated'[s]
  BY <1>2, <1>3
<1>9. Chain(s, l, d, h)'
  BY <1>1, <1>3, <1>6, <1>7, <1>8 DEF Chain, clientVars, httpVars
<1> QED
  BY <1>8, <1>9 DEF OrderedFor

\* Detokenization passes on what it has a state for.
LEMMA DetokPasses ==
  ASSUME UnderWay, StatesReady, DetokRecv, NEW s \in Sub, s[1] \in Open
  PROVE  IF Has(router_to_detok[1], s)
         THEN \E out \in Batches : /\ detok_to_http' = Append(detok_to_http, out) /\ s \in DOMAIN out
                                   /\ out[s] = router_to_detok[1].batch[s]
         ELSE \/ detok_to_http' = detok_to_http
              \/ \E out \in Batches : detok_to_http' = Append(detok_to_http, out) /\ s \notin DOMAIN out
<1> DEFINE m == router_to_detok[1]
           out == [u \in DOMAIN m.batch \cap req_id_to_out |-> m.batch[u]]
<1>1. m \in Messages \cup TokenMessages /\ Len(router_to_detok) \in Nat \ {0}
  BY HeadOfDetok DEF DetokRecv
<1>2. m.kind = "tokens" => m.batch \in Batches
  BY <1>1 DEF Messages, TokenMessages, Req, Abort
<1>3. IF m.kind = "tokens"
      THEN detok_to_http' = IF DOMAIN out = {} THEN detok_to_http ELSE Append(detok_to_http, out)
      ELSE detok_to_http' = detok_to_http
  BY DEF DetokRecv
<1>4. m.kind = "tokens" => out \in Batches
  <2> SUFFICES ASSUME m.kind = "tokens"
               PROVE  out \in Batches
    OBVIOUS
  <2> HIDE DEF m
  <2>1. DOMAIN m.batch \cap req_id_to_out \in SUBSET Sub
        /\ out \in [DOMAIN m.batch \cap req_id_to_out -> Outcome]
        /\ \A u \in DOMAIN m.batch \cap req_id_to_out : out[u].finish = "aborted" => u[1] \in Closed
    BY <1>2 DEF Batches
  <2> HIDE DEF out
  <2> QED
    BY <2>1, IsBatch
<1>5. Has(m, s) => s \in req_id_to_out
  BY <1>1 DEF StatesReady, Ready, Announced
<1>6. CASE Has(m, s)
  <2>1. s \in DOMAIN out /\ out[s] = m.batch[s] /\ m.kind = "tokens"
    BY <1>5, <1>6 DEF Has
  <2> QED
    BY <1>3, <1>4, <1>6, <2>1
<1>7. CASE ~Has(m, s)
  <2>1. m.kind = "tokens" => s \notin DOMAIN out
    BY <1>7 DEF Has
  <2> QED
    BY <1>3, <1>4, <1>7, <2>1
<1> QED
  BY <1>6, <1>7

LEMMA DetokRecvKeepsOrder ==
  ASSUME CausalInv, UnderWay', Lists', EndsCounted, StatesReady, DetokRecv,
         NEW s \in Sub, s[1] \in Open, OrderedFor(s)
  PROVE  OrderedFor(s)'
<1>0. UnderWay /\ RouterKnows /\ Lists
  BY DEF CausalInv
<1>1. PICK l \in 0..generated[s], d \in 0..generated[s], h \in 0..generated[s] : Chain(s, l, d, h)
  BY DEF OrderedFor
<1>2. /\ l \in Nat /\ d \in Nat /\ h \in Nat /\ generated[s] \in Nat
      /\ d <= h /\ h <= generated[s] /\ Run(HttpView(s), d, h)
      /\ Run(DetokView(s), h, generated[s])
  BY <1>0, <1>1, ChainBounds
<1>3. /\ UNCHANGED <<received, out_token_info_list, delivering, generated>>
      /\ router_to_detok # <<>> /\ router_to_detok' = Tail(router_to_detok)
  BY DEF DetokRecv, clientVars, routerVars, httpVars
<1> DEFINE m == router_to_detok[1]
           v == DetokView(s)
           w == DetokView(s)'
           x == HttpView(s)
           y == HttpView(s)'
<1>4. /\ v \in Seq(Nat) /\ w \in Seq(Nat) /\ x \in Seq(Nat) /\ y \in Seq(Nat)
      /\ Len(v) = Len(router_to_detok) /\ Len(w) = Len(router_to_detok')
      /\ Len(x) = Len(detok_to_http) /\ Len(y) = Len(detok_to_http')
  BY <1>0, ViewsAreNow, ViewsAreNext
\* The head leaves the channel from the router.
<1>5. /\ Len(v) \in Nat \ {0} /\ Len(w) = Len(v) - 1
      /\ v[1] = IF Has(m, s) THEN m.batch[s].count ELSE 0
      /\ Has(m, s) => m.batch[s].count # 0
      /\ \A i \in 1..Len(w) : w[i] = v[i+1]
  <2>1. /\ Len(router_to_detok) \in Nat \ {0} /\ Len(router_to_detok') = Len(router_to_detok) - 1
        /\ \A i \in 1..Len(router_to_detok') :
             router_to_detok'[i] = router_to_detok[i+1] /\ i+1 \in 1..Len(router_to_detok)
        /\ Has(m, s) => m.batch[s].count # 0
    BY <1>0, <1>3, HeadOfDetok
  <2>2. v[1] = IF Has(m, s) THEN m.batch[s].count ELSE 0
    BY <2>1 DEF DetokView
  <2>3. \A i \in 1..Len(router_to_detok') : w[i] = v[i+1]
    BY <2>1 DEF DetokView, Has
  <2> QED
    BY <1>4, <2>1, <2>2, <2>3
<1>6. /\ v[1] = 0 => Run(w, h, generated[s])
      /\ v[1] # 0 => v[1] = h+1 /\ h < generated[s] /\ Run(w, h+1, generated[s])
  <2>1. v # <<>> /\ Run(v, h, generated[s])
    BY <1>2, <1>4, <1>5
  <2> HIDE DEF v, w
  <2> QED
    BY <1>2, <1>4, <1>5, <2>1, RunShorter
\* It enters the one to the HTTP server.
<1>7. ASSUME NEW out \in Batches, detok_to_http' = Append(detok_to_http, out)
      PROVE  /\ Len(y) = Len(x) + 1 /\ \A i \in 1..Len(x) : y[i] = x[i]
             /\ y[Len(y)] = IF s \in DOMAIN out THEN out[s].count ELSE 0
  <2>1. detok_to_http \in Seq(Batches)
    BY <1>0 DEF UnderWay
  <2>2. /\ Len(detok_to_http) \in Nat /\ Len(detok_to_http') = Len(detok_to_http) + 1
        /\ \A i \in 1..Len(detok_to_http) : detok_to_http'[i] = detok_to_http[i]
        /\ detok_to_http'[Len(detok_to_http)+1] = out
    BY <1>7, <2>1, AppendProperties
  <2>3. \A i \in 1..Len(detok_to_http) : y[i] = x[i]
    <3>1. \A i \in 1..Len(detok_to_http) : i \in 1..Len(detok_to_http')
      BY <2>2
    <3> QED
      BY <2>2, <3>1 DEF HttpView
  <2>4. y[Len(detok_to_http)+1] = IF s \in DOMAIN out THEN out[s].count ELSE 0
    <3>1. Len(detok_to_http)+1 \in 1..Len(detok_to_http')
      BY <2>2
    <3> QED
      BY <2>2, <3>1 DEF HttpView
  <2> QED
    BY <1>4, <2>2, <2>3, <2>4
<1>8. CASE Has(m, s)
  <2>1. PICK out \in Batches : /\ detok_to_http' = Append(detok_to_http, out) /\ s \in DOMAIN out
                               /\ out[s] = m.batch[s]
    BY <1>0, <1>8, DetokPasses
  <2>2. v[1] = h+1 /\ h < generated[s] /\ Run(w, h+1, generated[s]) /\ out[s].count = h+1
    BY <1>5, <1>6, <1>8, <2>1
  <2>3. /\ Len(y) = Len(x) + 1 /\ \A i \in 1..Len(x) : y[i] = x[i]
        /\ y[Len(y)] = h+1
    BY <1>7, <2>1, <2>2
  <2>4. Run(y, d, h+1)
    <3>1. Run(x, d, h)
      BY <1>2
    <3> HIDE DEF x, y, v, w
    <3> QED
      BY <1>2, <1>4, <2>3, <3>1, RunLonger
  <2>5. ListView(s)' = ListView(s)
    BY <1>3 DEF ListView
  <2>6. Chain(s, l, d, h+1)' /\ h+1 \in 0..generated[s]
    BY <1>1, <1>2, <1>3, <2>2, <2>4, <2>5 DEF Chain
  <2> QED
    BY <1>3, <2>6 DEF OrderedFor
<1>9. CASE ~Has(m, s)
  <2>1. Run(w, h, generated[s])
    BY <1>5, <1>6, <1>9
  <2>2. Run(y, d, h)
    <3>1. CASE detok_to_http' = detok_to_http
      <4>1. y = x
        BY <3>1 DEF HttpView
      <4> QED
        BY <1>2, <4>1
    <3>2. CASE \E out \in Batches : detok_to_http' = Append(detok_to_http, out) /\ s \notin DOMAIN out
      <4>1. /\ Len(y) = Len(x) + 1 /\ \A i \in 1..Len(x) : y[i] = x[i]
            /\ y[Len(y)] = 0
        BY <1>7, <3>2
      <4>2. Run(x, d, h)
        BY <1>2
      <4> HIDE DEF x, y, v, w
      <4> QED
        BY <1>2, <1>4, <4>1, <4>2, RunLonger
    <3> QED
      BY <1>0, <1>9, <3>1, <3>2, DetokPasses
  <2>3. ListView(s)' = ListView(s)
    BY <1>3 DEF ListView
  <2>4. Chain(s, l, d, h)'
    BY <1>1, <1>3, <2>1, <2>2, <2>3 DEF Chain
  <2> QED
    BY <1>3, <2>4 DEF OrderedFor
<1> QED
  BY <1>8, <1>9

LEMMA InOrderStep ==
  CausalInv /\ CausalInv' /\ OrderInv /\ [Next]_vars => InOrder'
<1> SUFFICES ASSUME CausalInv, CausalInv', OrderInv, [Next]_vars, NEW s \in Sub, s[1] \in Open'
             PROVE  OrderedFor(s)'
  BY DEF InOrder
<1>0. /\ UnderWay /\ Lists /\ UnderWay' /\ Lists' /\ EndsCounted /\ StatesReady
      /\ s[1] \in Open /\ OrderedFor(s)
  BY OpenShrinks DEF CausalInv, OrderInv, InOrder
<1>1. ASSUME NEW g \in Group, Wake(g) \/ Read(g)
      PROVE  OrderedFor(s)'
  <2> DEFINE list == out_token_info_list[g]
  <2>0. list \in Seq(Item(g)) /\ DOMAIN out_token_info_list = Group
    BY <1>0 DEF Lists
  <2>1. UNCHANGED <<delivering, generated, detok_to_http, router_to_detok>>
    BY <1>1 DEF Wake, Read, routerVars, channels
  <2>2. CASE UNCHANGED <<received, out_token_info_list>>
    BY <1>0, <2>1, <2>2, OrderUntouched
  <2>3. CASE Give(list) /\ out_token_info_list' = [out_token_info_list EXCEPT ![g] = <<>>]
    <3>1. /\ s[1] # g => out_token_info_list'[s[1]] = out_token_info_list[s[1]]
          /\ s[1] = g => list = out_token_info_list[g] /\ out_token_info_list'[g] = <<>>
      BY <2>0, <2>3, SubFacts
    <3> HIDE DEF list
    <3> QED
      BY <1>0, <2>0, <2>1, <2>3, <3>1, HandKeepsOrder
  <2>4. CASE /\ Read(g) /\ Give(<<list[1]>>)
             /\ out_token_info_list' = [out_token_info_list EXCEPT ![g] = Tail(list)]
    <3>1. list # <<>>
      BY <1>0, <2>4 DEF Read, Lists
    <3>2. <<list[1]>> \in Seq(Item(g))
      <4> HIDE DEF list
      <4>1. list[1] \in Item(g)
        BY <2>0, <3>1, FirstMessage
      <4> QED
        BY <4>1
    <3>3. s[1] # g => out_token_info_list'[s[1]] = out_token_info_list[s[1]]
      BY <2>0, <2>4, SubFacts
    <3>4. s[1] = g => /\ out_token_info_list[g] # <<>> /\ <<list[1]>> = <<out_token_info_list[g][1]>>
                      /\ out_token_info_list'[g] = Tail(out_token_info_list[g])
      BY <2>0, <2>4, <3>1
    <3>5. Give(<<list[1]>>)
      BY <2>4
    <3> HIDE DEF list
    <3> QED
      BY <1>0, <2>1, <3>2, <3>3, <3>4, <3>5, HandKeepsOrder
  <2> QED
    BY <1>1, <2>2, <2>3, <2>4 DEF Wake, Read, Hand
<1>2. CASE RecvBatch
  BY <1>0, <1>2, RecvBatchKeepsOrder
<1>3. CASE Deliver
  BY <1>0, <1>3, DeliverKeepsOrder
<1>4. CASE RouterRecv
  BY <1>0, <1>4, RouterRecvKeepsOrder
<1>5. CASE RouterForward
  <2>1. PICK batch \in SUBSET Group : \E last \in SUBSET Unended(batch) : Forward(batch, last)
    BY <1>5 DEF RouterForward
  <2>2. PICK last \in SUBSET Unended(batch) : Forward(batch, last)
    BY <2>1
  <2> QED
    BY <1>0, <2>2, ForwardKeepsOrder
<1>6. CASE DetokRecv
  BY <1>0, <1>6, DetokRecvKeepsOrder
<1>7. CASE Visual \/ (\E g \in Group : Leave(g) \/ Start(g) \/ FindGone(g) \/ Cancel(g) \/ BackgroundAbort(g))
           \/ Moves \/ UNCHANGED vars
  <2>1. UNCHANGED <<received, out_token_info_list, delivering, generated, detok_to_http, router_to_detok>>
    BY <1>7 DEF Visual, VisualRecv, VisualTake, VisualSend, Leave, Start, FindGone, Cancel,
                BackgroundAbort, Moves, vars, clientVars, httpVars, routerVars, channels
  <2> QED
    BY <1>0, <2>1, OrderUntouched
<1> QED
  BY <1>1, <1>2, <1>3, <1>4, <1>5, <1>6, <1>7, RouterSteps DEF Next, Http

-----------------------------------------------------------------------------
(* The last token carries the end of its answer *)

\* Tokens under way have been generated.
LEMMA CountsKnown ==
  ASSUME CausalInv, EndsCounted, NEW s \in Sub, OrderedFor(s)
  PROVE  /\ \A i \in 1..Len(out_token_info_list[s[1]]) :
              out_token_info_list[s[1]][i].sub = s => out_token_info_list[s[1]][i].count <= generated[s]
         /\ s \in DOMAIN delivering => delivering[s].count <= generated[s]
         /\ \A i \in 1..Len(detok_to_http) :
              s \in DOMAIN detok_to_http[i] => detok_to_http[i][s].count <= generated[s]
         /\ \A i \in 1..Len(router_to_detok) :
              Has(router_to_detok[i], s) => router_to_detok[i].batch[s].count <= generated[s]
<1>0. UnderWay /\ RouterKnows /\ Lists
  BY DEF CausalInv
<1>1. PICK l \in 0..generated[s], d \in 0..generated[s], h \in 0..generated[s] : Chain(s, l, d, h)
  BY DEF OrderedFor
<1>2. /\ l \in Nat /\ d \in Nat /\ h \in Nat /\ Len(received[s]) \in Nat /\ generated[s] \in Nat
      /\ l <= generated[s] /\ d <= generated[s] /\ h <= generated[s]
      /\ Run(ListView(s), Len(received[s]), l) /\ Run(HttpView(s), d, h)
      /\ Run(DetokView(s), h, generated[s])
      /\ s \in DOMAIN delivering => delivering[s].count = d
  <2>1. /\ l \in Nat /\ d \in Nat /\ h \in Nat /\ Len(received[s]) \in Nat /\ generated[s] \in Nat
        /\ l <= d /\ d <= h /\ h <= generated[s]
        /\ Run(ListView(s), Len(received[s]), l) /\ Run(HttpView(s), d, h)
        /\ Run(DetokView(s), h, generated[s])
        /\ s \in DOMAIN delivering => delivering[s].count = d
    BY <1>0, <1>1, ChainBounds
  <2> QED
    BY <2>1
\* The entries of a view are numbers up to its upper end.
<1>3. ASSUME NEW v \in Seq(Nat), NEW a \in Nat, NEW b \in Nat, b <= generated[s], Run(v, a, b)
      PROVE  \A i \in 1..Len(v) : v[i] <= generated[s]
  <2>1. \A i \in 1..Len(v) : v[i] \in Nat /\ (v[i] # 0 => v[i] <= b)
    BY <1>3, ElementOfSeq DEF Run
  <2>2. PICK c \in Nat : c = generated[s] /\ b <= c
    BY <1>2, <1>3
  <2>3. \A i \in 1..Len(v) : v[i] <= c
    BY <2>1, <2>2
  <2> QED
    BY <2>2, <2>3
<1>4. /\ ListView(s) \in Seq(Nat) /\ Len(ListView(s)) = Len(out_token_info_list[s[1]])
      /\ HttpView(s) \in Seq(Nat) /\ Len(HttpView(s)) = Len(detok_to_http)
      /\ DetokView(s) \in Seq(Nat) /\ Len(DetokView(s)) = Len(router_to_detok)
  BY <1>0, ViewsAre
<1>5. /\ \A i \in 1..Len(out_token_info_list[s[1]]) : ListView(s)[i] <= generated[s]
      /\ \A i \in 1..Len(detok_to_http) : HttpView(s)[i] <= generated[s]
      /\ \A i \in 1..Len(router_to_detok) : DetokView(s)[i] <= generated[s]
  <2>1. \A i \in 1..Len(ListView(s)) : ListView(s)[i] <= generated[s]
    <3>1. /\ ListView(s) \in Seq(Nat) /\ Len(received[s]) \in Nat /\ l \in Nat /\ l <= generated[s]
          /\ Run(ListView(s), Len(received[s]), l)
      BY <1>2, <1>4
    <3> QED
      BY <1>3, <3>1
  <2>2. \A i \in 1..Len(HttpView(s)) : HttpView(s)[i] <= generated[s]
    <3>1. /\ HttpView(s) \in Seq(Nat) /\ d \in Nat /\ h \in Nat /\ h <= generated[s]
          /\ Run(HttpView(s), d, h)
      BY <1>2, <1>4
    <3> QED
      BY <1>3, <3>1
  <2>3. \A i \in 1..Len(DetokView(s)) : DetokView(s)[i] <= generated[s]
    <3>1. /\ DetokView(s) \in Seq(Nat) /\ h \in Nat /\ generated[s] \in Nat
          /\ generated[s] <= generated[s] /\ Run(DetokView(s), h, generated[s])
      BY <1>2, <1>4
    <3> QED
      BY <1>3, <3>1
  <2> QED
    BY <1>4, <2>1, <2>2, <2>3
<1>6. \A i \in 1..Len(out_token_info_list[s[1]]) :
        out_token_info_list[s[1]][i].sub = s => out_token_info_list[s[1]][i].count = ListView(s)[i]
  BY DEF ListView, View
<1>7. \A i \in 1..Len(detok_to_http) :
        s \in DOMAIN detok_to_http[i] => detok_to_http[i][s].count = HttpView(s)[i]
  BY DEF HttpView
<1>8. \A i \in 1..Len(router_to_detok) :
        Has(router_to_detok[i], s) => router_to_detok[i].batch[s].count = DetokView(s)[i]
  BY DEF DetokView
<1> QED
  BY <1>2, <1>5, <1>6, <1>7, <1>8

\* Every token under way has a number.
LEMMA CountsAreNumbers ==
  ASSUME UnderWay, Lists, NEW s \in Sub
  PROVE  /\ \A i \in 1..Len(out_token_info_list[s[1]]) : out_token_info_list[s[1]][i].count \in Nat
         /\ s \in DOMAIN delivering => delivering[s].count \in Nat
         /\ \A i \in 1..Len(detok_to_http) :
              s \in DOMAIN detok_to_http[i] => detok_to_http[i][s].count \in Nat
         /\ \A i \in 1..Len(router_to_detok) :
              Has(router_to_detok[i], s) => router_to_detok[i].batch[s].count \in Nat
<1>1. \A i \in 1..Len(out_token_info_list[s[1]]) : out_token_info_list[s[1]][i].count \in Nat
  <2>1. out_token_info_list[s[1]] \in Seq(Item(s[1])) /\ \A x \in Item(s[1]) : x.count \in Nat
    BY SubFacts DEF Lists, Item
  <2> QED
    BY <2>1, ElementOfSeq
<1>2. s \in DOMAIN delivering => delivering[s].count \in Nat
  BY BatchIs DEF UnderWay
<1>3. \A i \in 1..Len(detok_to_http) : s \in DOMAIN detok_to_http[i] => detok_to_http[i][s].count \in Nat
  <2>1. \A i \in 1..Len(detok_to_http) : detok_to_http[i] \in Batches
    BY ElementOfSeq DEF UnderWay
  <2> QED
    BY <2>1, BatchIs
<1>4. \A i \in 1..Len(router_to_detok) : Has(router_to_detok[i], s) => router_to_detok[i].batch[s].count \in Nat
  <2>1. \A i \in 1..Len(router_to_detok) : router_to_detok[i] \in Messages \cup TokenMessages
    BY ElementOfSeq DEF UnderWay
  <2>2. \A i \in 1..Len(router_to_detok) : Has(router_to_detok[i], s) =>
           router_to_detok[i].batch \in Batches /\ s \in DOMAIN router_to_detok[i].batch
    BY <2>1 DEF Has, Messages, TokenMessages, Req, Abort
  <2> QED
    BY <2>2, BatchIs
<1> QED
  BY <1>1, <1>2, <1>3, <1>4

\* Where each place holds what a place held before.
LEMMA MarksMove ==
  ASSUME NEW s \in Sub, UNCHANGED <<generated, ended>>,
         \A i \in 1..Len(out_token_info_list'[s[1]]) :
           out_token_info_list'[s[1]][i].sub = s => Marked(s, out_token_info_list'[s[1]][i]),
         (s \in DOMAIN delivering)' => Marked(s, delivering'[s]),
         \A i \in 1..Len(detok_to_http') :
           s \in DOMAIN detok_to_http'[i] => Marked(s, detok_to_http'[i][s]),
         \A i \in 1..Len(router_to_detok') :
           Has(router_to_detok'[i], s) => Marked(s, router_to_detok'[i].batch[s])
  PROVE  MarkedEverywhere(s)'
BY DEF MarkedEverywhere, Marked, Has

LEMMA EndsMarkedStep ==
  CausalInv /\ CausalInv' /\ OrderInv /\ [Next]_vars => EndsMarked'
<1> SUFFICES ASSUME CausalInv, CausalInv', OrderInv, [Next]_vars, NEW s \in Sub, s[1] \in Open'
             PROVE  MarkedEverywhere(s)'
  BY DEF EndsMarked
<1>0. /\ UnderWay /\ Lists /\ UnderWay' /\ Lists' /\ EndsCounted /\ StatesReady /\ RouterKnows
      /\ s[1] \in Open /\ OrderedFor(s) /\ MarkedEverywhere(s) /\ s[1] \in Group
  BY OpenShrinks, SubFacts DEF CausalInv, OrderInv, InOrder, EndsMarked
<1>m. /\ \A i \in 1..Len(out_token_info_list[s[1]]) :
           out_token_info_list[s[1]][i].sub = s => Marked(s, out_token_info_list[s[1]][i])
      /\ s \in DOMAIN delivering => Marked(s, delivering[s])
      /\ \A i \in 1..Len(detok_to_http) :
           s \in DOMAIN detok_to_http[i] => Marked(s, detok_to_http[i][s])
      /\ \A i \in 1..Len(router_to_detok) :
           Has(router_to_detok[i], s) => Marked(s, router_to_detok[i].batch[s])
  BY <1>0 DEF MarkedEverywhere
<1> DEFINE list == out_token_info_list[s[1]]
<1>1. ASSUME NEW g \in Group, Wake(g) \/ Read(g)
      PROVE  MarkedEverywhere(s)'
  <2>1. UNCHANGED <<generated, ended, delivering, detok_to_http, router_to_detok>>
    BY <1>1 DEF Wake, Read, routerVars, channels
  <2>2. \/ out_token_info_list'[s[1]] = list
        \/ out_token_info_list'[s[1]] = <<>>
        \/ list # <<>> /\ out_token_info_list'[s[1]] = Tail(list)
    BY <1>0, <1>1 DEF Wake, Read, Lists
  <2>3. \A i \in 1..Len(out_token_info_list'[s[1]]) :
          \E j \in 1..Len(list) : out_token_info_list'[s[1]][i] = list[j]
    <3>1. CASE list # <<>> /\ out_token_info_list'[s[1]] = Tail(list)
      <4>1. list \in Seq(Item(s[1]))
        BY <1>0 DEF Lists
      <4> HIDE DEF list
      <4>2. /\ Len(list) \in Nat \ {0} /\ Len(Tail(list)) = Len(list) - 1
            /\ \A i \in 1..Len(Tail(list)) : Tail(list)[i] = list[i+1]
        BY <3>1, <4>1, HeadTailProperties, EmptySeq
      <4>3. \A i \in 1..Len(Tail(list)) : i+1 \in 1..Len(list)
        BY <4>2
      <4> QED
        BY <3>1, <4>2, <4>3
    <3> QED
      BY <2>2, <3>1
  <2>4. \A i \in 1..Len(out_token_info_list'[s[1]]) :
          out_token_info_list'[s[1]][i].sub = s => Marked(s, out_token_info_list'[s[1]][i])
    BY <1>m, <2>3
  <2> QED
    BY <1>m, <2>1, <2>4, MarksMove
<1>2. CASE RecvBatch
  <2>1. /\ UNCHANGED <<generated, ended, out_token_info_list, router_to_detok>>
        /\ delivering' = detok_to_http[1] /\ detok_to_http' = Tail(detok_to_http) /\ detok_to_http # <<>>
    BY <1>2 DEF RecvBatch, routerVars
  <2>2. detok_to_http \in Seq(Batches)
    BY <1>0 DEF UnderWay
  <2>3. /\ Len(detok_to_http) \in Nat \ {0} /\ Len(detok_to_http') = Len(detok_to_http) - 1
        /\ \A i \in 1..Len(detok_to_http') : detok_to_http'[i] = detok_to_http[i+1]
    BY <2>1, <2>2, HeadTailProperties, EmptySeq
  <2>4. 1 \in 1..Len(detok_to_http) /\ \A i \in 1..Len(detok_to_http') : i+1 \in 1..Len(detok_to_http)
    BY <2>3
  <2>5. (s \in DOMAIN delivering)' => Marked(s, delivering'[s])
    BY <1>m, <2>1, <2>4
  <2>6. \A i \in 1..Len(detok_to_http') :
           s \in DOMAIN detok_to_http'[i] => Marked(s, detok_to_http'[i][s])
    BY <1>m, <2>3, <2>4
  <2> QED
    BY <1>m, <2>1, <2>5, <2>6, MarksMove
<1>3. CASE Deliver
  <2>1. PICK t \in DOMAIN delivering :
          /\ delivering' = Without(delivering, t)
          /\ \/ UNCHANGED out_token_info_list
             \/ out_token_info_list' =
                  [out_token_info_list EXCEPT ![t[1]] = Append(@,
                     [sub |-> t, count |-> delivering[t].count, finish |-> delivering[t].finish])]
    BY <1>3 DEF Deliver
  <2>2. UNCHANGED <<generated, ended, detok_to_http, router_to_detok>>
    BY <1>3 DEF Deliver, routerVars, channels
  <2>3. (s \in DOMAIN delivering)' => Marked(s, delivering'[s])
    BY <1>m, <2>1 DEF Without
  <2> DEFINE item == [sub |-> t, count |-> delivering[t].count, finish |-> delivering[t].finish]
  <2>4. CASE out_token_info_list'[s[1]] = list
    BY <1>m, <2>2, <2>3, <2>4, MarksMove
  <2>5. CASE out_token_info_list'[s[1]] = Append(list, item)
    <3>1. t = s => Marked(s, item)
      BY <1>m DEF Marked
    <3>2. item.sub = t
      OBVIOUS
    <3>3. list \in Seq(Item(s[1]))
      BY <1>0 DEF Lists
    <3> HIDE DEF item
    <3>4. list \in Seq(Item(s[1]) \cup {item})
      BY <3>3, SeqMonotonic
    <3> HIDE DEF list
    <3>5. /\ Len(list) \in Nat /\ Len(Append(list, item)) = Len(list) + 1
          /\ \A i \in 1..Len(list) : Append(list, item)[i] = list[i]
          /\ Append(list, item)[Len(list)+1] = item
      BY <3>4, AppendProperties
    <3>6. \A i \in 1..Len(out_token_info_list'[s[1]]) : i \in 1..Len(list) \/ i = Len(list) + 1
      BY <2>5, <3>5
    <3>7. \A i \in 1..Len(out_token_info_list'[s[1]]) :
            out_token_info_list'[s[1]][i].sub = s => Marked(s, out_token_info_list'[s[1]][i])
      BY <1>m, <2>5, <3>1, <3>2, <3>5, <3>6 DEF list
    <3> QED
      BY <1>m, <2>2, <2>3, <3>7, MarksMove
  <2> QED
    BY <1>0, <2>1, <2>4, <2>5 DEF Lists
<1>4. CASE RouterRecv
  <2>1. PICK m \in Messages : /\ router_to_detok' = Append(router_to_detok, m) /\ m.kind # "tokens"
                              /\ UNCHANGED <<httpVars, generated, ended, detok_to_http>>
    BY <1>0, <1>4, RouterRecvAppends
  <2>2. /\ Len(router_to_detok) \in Nat /\ Len(router_to_detok') = Len(router_to_detok) + 1
        /\ \A i \in 1..Len(router_to_detok) : router_to_detok'[i] = router_to_detok[i]
        /\ router_to_detok'[Len(router_to_detok)+1] = m
    <3>1. router_to_detok \in Seq(Messages \cup TokenMessages)
      BY <1>0 DEF UnderWay
    <3> QED
      BY <2>1, <3>1, AppendProperties
  <2>3. \A i \in 1..Len(router_to_detok') : i \in 1..Len(router_to_detok) \/ i = Len(router_to_detok) + 1
    BY <2>2
  <2>4. \A i \in 1..Len(router_to_detok') :
           Has(router_to_detok'[i], s) => Marked(s, router_to_detok'[i].batch[s])
    BY <1>m, <2>1, <2>2, <2>3 DEF Has
  <2> QED
    BY <1>m, <2>1, <2>4, MarksMove DEF httpVars
\* What was there before is not the last any more.
<1>5. CASE RouterForward
  <2>0. PICK batch \in SUBSET Group : \E last \in SUBSET Unended(batch) : Forward(batch, last)
    BY <1>5 DEF RouterForward
  <2>1. PICK last \in SUBSET Unended(batch) : Forward(batch, last)
    BY <2>0
  <2> DEFINE m == [kind |-> "tokens", batch |-> Outcomes(batch, last)]
  <2>2. /\ router_to_detok' = Append(router_to_detok, m)
        /\ generated'[s] = IF s \in Unended(batch) THEN generated[s] + 1 ELSE generated[s]
        /\ ended' = ended \cup last
        /\ UNCHANGED <<delivering, out_token_info_list, detok_to_http>>
    BY <2>1 DEF Forward, httpVars
  <2>3. generated[s] \in Nat /\ (s \in Unended(batch) => s \notin ended)
    BY <1>0 DEF RouterKnows, Unended
  <2> DEFINE EndMarked(o) == o.finish # "no" <=> o.count = generated'[s] /\ s \in ended'
  <2>4. ASSUME NEW o, Marked(s, o), o.count <= generated[s], o.count \in Nat
        PROVE  EndMarked(o)
    BY <2>2, <2>3, <2>4 DEF Marked
  <2>5. Has(m, s) => EndMarked(m.batch[s])
    <3>1. Has(m, s) <=> s \in Unended(batch)
      BY DEF Has, Outcomes
    <3>2. s \in Unended(batch) => /\ m.batch[s].count = generated[s] + 1
                                  /\ m.batch[s].finish # "no" <=> s \in last
      BY DEF Outcomes
    <3> HIDE DEF m
    <3> QED
      BY <2>2, <2>3, <3>1, <3>2
  <2>6. /\ \A i \in 1..Len(list) : list[i].sub = s => list[i].count <= generated[s]
        /\ s \in DOMAIN delivering => delivering[s].count <= generated[s]
        /\ \A i \in 1..Len(detok_to_http) :
             s \in DOMAIN detok_to_http[i] => detok_to_http[i][s].count <= generated[s]
        /\ \A i \in 1..Len(router_to_detok) :
             Has(router_to_detok[i], s) => router_to_detok[i].batch[s].count <= generated[s]
    BY <1>0, CountsKnown
  <2>7. /\ \A i \in 1..Len(list) : list[i].count \in Nat
        /\ s \in DOMAIN delivering => delivering[s].count \in Nat
        /\ \A i \in 1..Len(detok_to_http) :
             s \in DOMAIN detok_to_http[i] => detok_to_http[i][s].count \in Nat
        /\ \A i \in 1..Len(router_to_detok) :
             Has(router_to_detok[i], s) => router_to_detok[i].batch[s].count \in Nat
    BY <1>0, CountsAreNumbers
  <2>8. /\ Len(router_to_detok) \in Nat /\ Len(router_to_detok') = Len(router_to_detok) + 1
        /\ \A i \in 1..Len(router_to_detok) : router_to_detok'[i] = router_to_detok[i]
        /\ router_to_detok'[Len(router_to_detok)+1] = m
    <3>1. router_to_detok \in Seq(Messages \cup TokenMessages)
      BY <1>0 DEF UnderWay
    <3> HIDE DEF m
    <3>2. router_to_detok \in Seq(Messages \cup TokenMessages \cup {m})
      BY <3>1, SeqMonotonic
    <3> QED
      BY <2>2, <3>2, AppendProperties
  <2>9. \A i \in 1..Len(router_to_detok') : i \in 1..Len(router_to_detok) \/ i = Len(router_to_detok) + 1
    BY <2>8
  <2> HIDE DEF m, EndMarked
  <2>10. /\ \A i \in 1..Len(list) : list[i].sub = s => EndMarked(list[i])
         /\ s \in DOMAIN delivering => EndMarked(delivering[s])
         /\ \A i \in 1..Len(detok_to_http) :
              s \in DOMAIN detok_to_http[i] => EndMarked(detok_to_http[i][s])
         /\ \A i \in 1..Len(router_to_detok) :
              Has(router_to_detok[i], s) => EndMarked(router_to_detok[i].batch[s])
    BY <1>m, <2>4, <2>6, <2>7
  <2>11. \A i \in 1..Len(router_to_detok') :
           Has(router_to_detok'[i], s) => EndMarked(router_to_detok'[i].batch[s])
    BY <2>5, <2>8, <2>9, <2>10
  <2> QED
    BY <2>2, <2>10, <2>11 DEF MarkedEverywhere, Marked, Has, EndMarked
<1>6. CASE DetokRecv
  <2>1. /\ UNCHANGED <<generated, ended, out_token_info_list, delivering>>
        /\ router_to_detok # <<>> /\ router_to_detok' = Tail(router_to_detok)
    BY <1>6 DEF DetokRecv, routerVars, httpVars
  <2>2. /\ Len(router_to_detok) \in Nat \ {0}
        /\ \A i \in 1..Len(router_to_detok') :
              router_to_detok'[i] = router_to_detok[i+1] /\ i+1 \in 1..Len(router_to_detok)
    BY <1>0, <2>1, HeadOfDetok
  <2>3. \A i \in 1..Len(router_to_detok') :
           Has(router_to_detok'[i], s) => Marked(s, router_to_detok'[i].batch[s])
    BY <1>m, <2>2
  <2>4. \A i \in 1..Len(detok_to_http') :
           s \in DOMAIN detok_to_http'[i] => Marked(s, detok_to_http'[i][s])
    <3>1. CASE detok_to_http' = detok_to_http
      BY <1>m, <3>1
    <3>2. CASE \E out \in Batches : /\ detok_to_http' = Append(detok_to_http, out)
                                    /\ s \in DOMAIN out => /\ Has(router_to_detok[1], s)
                                                           /\ out[s] = router_to_detok[1].batch[s]
      <4>1. PICK out \in Batches : /\ detok_to_http' = Append(detok_to_http, out)
                                   /\ s \in DOMAIN out => /\ Has(router_to_detok[1], s)
                                                          /\ out[s] = router_to_detok[1].batch[s]
        BY <3>2
      <4>2. s \in DOMAIN out => Marked(s, out[s])
        BY <1>m, <2>2, <4>1
      <4>3. detok_to_http \in Seq(Batches)
        BY <1>0 DEF UnderWay
      <4>4. /\ Len(detok_to_http) \in Nat /\ Len(detok_to_http') = Len(detok_to_http) + 1
            /\ \A i \in 1..Len(detok_to_http) : detok_to_http'[i] = detok_to_http[i]
            /\ detok_to_http'[Len(detok_to_http)+1] = out
        BY <4>1, <4>3, AppendProperties
      <4>5. \A i \in 1..Len(detok_to_http') : i \in 1..Len(detok_to_http) \/ i = Len(detok_to_http) + 1
        BY <4>4
      <4> QED
        BY <1>m, <4>2, <4>4, <4>5
    <3> QED
      BY <1>0, <1>6, <3>1, <3>2, DetokPasses
  <2> QED
    BY <1>m, <2>1, <2>3, <2>4, MarksMove
<1>7. CASE Visual \/ (\E g \in Group : Leave(g) \/ Start(g) \/ FindGone(g) \/ Cancel(g) \/ BackgroundAbort(g))
           \/ Moves \/ UNCHANGED vars
  <2>1. UNCHANGED <<generated, ended, out_token_info_list, delivering, detok_to_http, router_to_detok>>
    BY <1>7 DEF Visual, VisualRecv, VisualTake, VisualSend, Leave, Start, FindGone, Cancel,
                BackgroundAbort, Moves, vars, clientVars, httpVars, routerVars, channels
  <2> QED
    BY <1>m, <2>1, MarksMove
<1> QED
  BY <1>1, <1>2, <1>3, <1>4, <1>5, <1>6, <1>7, RouterSteps DEF Next, Http

-----------------------------------------------------------------------------
(* Detokenization is told of a request before its tokens *)

LEMMA ReadyUntouched ==
  ASSUME NEW s \in Sub, Ready(s), UNCHANGED <<router_to_detok, req_id_to_out, known, ended>>
  PROVE  Ready(s)'
BY DEF Ready, Announced, Has

\* One more message from the router.
LEMMA ReadyAppend ==
  ASSUME NEW s \in Sub, Ready(s), UnderWay, NEW m, router_to_detok' = Append(router_to_detok, m),
         UNCHANGED req_id_to_out,
         Has(m, s) => known[s[1]] # "no" /\ s \notin ended,
         (known[s[1]] # "no" /\ s \notin ended)' =>
            (known[s[1]] # "no" /\ s \notin ended) \/ m = Req(s[1])
  PROVE  Ready(s)'
<1>0. PICK N : N = Len(router_to_detok)
  OBVIOUS
<1>1. /\ N \in Nat /\ Len(router_to_detok') = N + 1 /\ router_to_detok'[N+1] = m
      /\ \A i \in 1..N : router_to_detok'[i] = router_to_detok[i]
  <2>1. router_to_detok \in Seq(Messages \cup TokenMessages \cup {m})
    BY SeqMonotonic DEF UnderWay
  <2> QED
    BY <1>0, <2>1, AppendProperties
<1>2. ASSUME NEW n \in 0..N, Announced(s, n)
      PROVE  Announced(s, n)'
  <2>1. \A j \in 1..n : j \in 1..N
    BY <1>1
  <2> QED
    BY <1>1, <1>2, <2>1 DEF Announced
<1>3. ASSUME NEW i \in 1..(N+1), Has(router_to_detok'[i], s)
      PROVE  Announced(s, i-1)'
  <2>1. CASE i \in 1..N
    <3>1. Announced(s, i-1) /\ i-1 \in 0..N
      BY <1>0, <1>1, <1>3, <2>1 DEF Ready
    <3> QED
      BY <1>2, <3>1
  <2>2. CASE i = N+1
    <3>1. Announced(s, N) /\ N \in 0..N /\ i-1 = N
      BY <1>0, <1>1, <1>3, <2>2 DEF Ready
    <3> QED
      BY <1>2, <3>1
  <2> QED
    BY <1>1, <2>1, <2>2
<1>4. ASSUME (known[s[1]] # "no" /\ s \notin ended)'
      PROVE  Announced(s, N+1)'
  <2>1. CASE m = Req(s[1])
    <3>1. N+1 \in 1..(N+1) /\ router_to_detok'[N+1] = Req(s[1])
      BY <1>1, <2>1
    <3> QED
      BY <3>1 DEF Announced
  <2>2. CASE known[s[1]] # "no" /\ s \notin ended
    <3>1. Announced(s, N)' /\ N \in 0..N
      BY <1>0, <1>1, <1>2, <2>2 DEF Ready
    <3>2. \A j \in 1..N : j \in 1..(N+1)
      BY <1>1
    <3> QED
      BY <3>1, <3>2 DEF Announced
  <2> QED
    BY <1>4, <2>1, <2>2
<1> QED
  BY <1>0, <1>1, <1>3, <1>4 DEF Ready

\* The end of an answer is its last token under way.
LEMMA NothingAfterEnd ==
  ASSUME UnderWay, Lists, RouterKnows, EndsCounted, NEW s \in Sub, OrderedFor(s), MarkedEverywhere(s),
         router_to_detok # <<>>, Has(router_to_detok[1], s), router_to_detok[1].batch[s].finish # "no"
  PROVE  s \in ended /\ \A i \in 2..Len(router_to_detok) : ~Has(router_to_detok[i], s)
<1>1. /\ Len(router_to_detok) \in Nat \ {0}
      /\ \A i \in 1..Len(router_to_detok) : Has(router_to_detok[i], s) =>
           /\ router_to_detok[i].batch \in Batches /\ router_to_detok[i].batch[s].count \in Nat \ {0}
  <2>1. router_to_detok \in Seq(Messages \cup TokenMessages)
    BY DEF UnderWay
  <2>2. \A i \in 1..Len(router_to_detok) : router_to_detok[i] \in Messages \cup TokenMessages
    BY <2>1, ElementOfSeq
  <2>3. \A i \in 1..Len(router_to_detok) : Has(router_to_detok[i], s) =>
           router_to_detok[i].batch \in Batches /\ s \in DOMAIN router_to_detok[i].batch
    BY <2>2 DEF Has, Messages, TokenMessages, Req, Abort
  <2> QED
    BY <2>1, <2>3, BatchIs, EmptySeq
<1>2. s \in ended /\ router_to_detok[1].batch[s].count = generated[s]
  BY <1>1 DEF MarkedEverywhere, Marked
<1>3. PICK h \in Nat : generated[s] \in Nat /\ Run(DetokView(s), h, generated[s])
  <2>1. PICK l \in 0..generated[s], d \in 0..generated[s], h \in 0..generated[s] : Chain(s, l, d, h)
    BY DEF OrderedFor
  <2> QED
    BY <2>1, ChainBounds
<1>4. /\ Len(DetokView(s)) = Len(router_to_detok)
      /\ \A i \in 1..Len(router_to_detok) :
           Has(router_to_detok[i], s) => DetokView(s)[i] = router_to_detok[i].batch[s].count
  <2>1. Len(DetokView(s)) = Len(router_to_detok)
    BY ViewsAre
  <2> QED
    BY <2>1 DEF DetokView
<1>5. ASSUME NEW i \in 2..Len(router_to_detok), Has(router_to_detok[i], s)
      PROVE  FALSE
  <2>1. 1 \in 1..Len(router_to_detok) /\ i \in 1..Len(router_to_detok) /\ 1 < i
    BY <1>1
  <2>2. /\ DetokView(s)[1] = generated[s] /\ DetokView(s)[1] # 0 /\ DetokView(s)[i] # 0
        /\ DetokView(s)[i] \in Nat
    BY <1>1, <1>2, <1>4, <1>5, <2>1
  <2>3. DetokView(s)[1] < DetokView(s)[i] /\ DetokView(s)[i] <= generated[s]
    BY <1>3, <1>4, <2>1, <2>2 DEF Run
  <2> QED
    BY <1>3, <2>2, <2>3
<1> QED
  BY <1>2, <1>5

LEMMA StatesReadyStep ==
  CausalInv /\ CausalInv' /\ OrderInv /\ [Next]_vars => StatesReady'
<1> SUFFICES ASSUME CausalInv, CausalInv', OrderInv, [Next]_vars, NEW s \in Sub, s[1] \in Open'
             PROVE  Ready(s)'
  BY DEF StatesReady
<1>0. /\ UnderWay /\ Lists /\ EndsCounted /\ RouterKnows
      /\ s[1] \in Open /\ OrderedFor(s) /\ MarkedEverywhere(s) /\ s[1] \in Group /\ Ready(s)
      /\ s[1] \notin Closed /\ s \in SubsOf(s[1])
  BY OpenShrinks, SubFacts DEF CausalInv, OrderInv, InOrder, EndsMarked, StatesReady, Open, Closed
<1>1. CASE RouterRecv
  <2>1. PICK m \in Messages : /\ router_to_detok' = Append(router_to_detok, m) /\ m.kind # "tokens"
                              /\ known' = [known EXCEPT ![m.group] = known'[m.group]]
                              /\ known'[m.group] # known[m.group] => \/ m = Req(m.group)
                                                                   \/ known[m.group] # "no"
                              /\ UNCHANGED <<ended, req_id_to_out>>
    BY <1>0, <1>1, RouterRecvAppends
  <2>2. ~Has(m, s)
    BY <2>1 DEF Has
  <2>3. known'[s[1]] # "no" => known[s[1]] # "no" \/ m = Req(s[1])
    <3>1. s[1] # m.group => known'[s[1]] = known[s[1]]
      BY <1>0, <2>1 DEF RouterKnows
    <3> QED
      BY <2>1, <3>1
  <2> QED
    BY <1>0, <2>1, <2>2, <2>3, ReadyAppend
<1>2. CASE RouterForward
  <2>0. PICK batch \in SUBSET {g \in Group : known[g] \in {"joining", "running", "aborted"}} :
          \E last \in SUBSET Unended(batch) : Forward(batch, last)
    BY <1>2, ForwardOfKnown
  <2>1. PICK last \in SUBSET Unended(batch) : Forward(batch, last)
    BY <2>0
  <2> DEFINE m == [kind |-> "tokens", batch |-> Outcomes(batch, last)]
  <2>2. /\ router_to_detok' = Append(router_to_detok, m) /\ ended' = ended \cup last
        /\ UNCHANGED req_id_to_out
        /\ \A g \in Group : g \notin batch => known'[g] = known[g]
    BY <2>1 DEF Forward
  <2>3. Has(m, s) => known[s[1]] # "no" /\ s \notin ended
    BY DEF Has, Outcomes, Unended
  <2>4. (known[s[1]] # "no" /\ s \notin ended)' => known[s[1]] # "no" /\ s \notin ended
    BY <1>0, <2>2
  <2> HIDE DEF m
  <2> QED
    BY <1>0, <2>2, <2>3, <2>4, ReadyAppend
\* The head of the channel takes effect.
<1>3. CASE DetokRecv
  <2> DEFINE m == router_to_detok[1]
             Over == s \in ended /\ \A i \in 2..Len(router_to_detok) : ~Has(router_to_detok[i], s)
  <2>0. PICK N : N = Len(router_to_detok)
    OBVIOUS
  <2>1. /\ m \in Messages \cup TokenMessages /\ N \in Nat \ {0} /\ Len(router_to_detok') = N - 1
        /\ \A i \in 1..(N-1) : router_to_detok'[i] = router_to_detok[i+1] /\ i+1 \in 2..N
        /\ UNCHANGED <<known, ended>> /\ router_to_detok # <<>>
    <3>1. router_to_detok # <<>> /\ router_to_detok' = Tail(router_to_detok) /\ UNCHANGED <<known, ended>>
      BY <1>3 DEF DetokRecv, routerVars
    <3>2. /\ m \in Messages \cup TokenMessages /\ N \in Nat \ {0} /\ Len(router_to_detok') = N - 1
          /\ \A i \in 1..Len(router_to_detok') :
               router_to_detok'[i] = router_to_detok[i+1] /\ i+1 \in 1..N
      BY <1>0, <2>0, <3>1, HeadOfDetok
    <3> QED
      BY <3>1, <3>2
  <2>2. m = Req(s[1]) => s \in req_id_to_out'
    BY <1>0, <1>3 DEF DetokRecv, Req
  <2>3. s \in req_id_to_out => s \in req_id_to_out' \/ Over
    <3> SUFFICES ASSUME s \in req_id_to_out, s \notin req_id_to_out'
                 PROVE  Over
      OBVIOUS
    <3>1. m.kind # "tokens" => m.group # s[1] \/ m.kind = "req"
      BY <1>0, <2>1 DEF Messages, TokenMessages, Req, Abort
    <3>2. \A g : s \in SubsOf(g) => g = s[1]
      BY DEF SubsOf
    <3>3. m.kind = "tokens"
      BY <1>3, <3>1, <3>2 DEF DetokRecv
    <3> DEFINE out == [u \in DOMAIN m.batch \cap req_id_to_out |-> m.batch[u]]
    <3>4. req_id_to_out' = req_id_to_out \ Forget(out)
      BY <1>3, <3>3 DEF DetokRecv
    <3>5. s \in DOMAIN m.batch /\ m.batch[s].finish # "no"
      BY <3>4 DEF Forget
    <3>6. Has(m, s)
      BY <3>3, <3>5 DEF Has
    <3> QED
      BY <1>0, <2>1, <3>5, <3>6, NothingAfterEnd
  <2>7. Over => s \in ended /\ \A i \in 2..N : ~Has(router_to_detok[i], s)
    BY <2>0
  <2> HIDE DEF m, Over
  <2>4. ASSUME NEW n \in 1..N, Announced(s, n)
        PROVE  Announced(s, n-1)' \/ Over
    <3>1. CASE s \in req_id_to_out
      BY <2>3, <3>1 DEF Announced
    <3>2. CASE \E j \in 1..n : router_to_detok[j] = Req(s[1])
      <4>1. PICK j \in 1..n : router_to_detok[j] = Req(s[1])
        BY <3>2
      <4>2. CASE j = 1
        BY <2>2, <4>1, <4>2 DEF Announced, m
      <4>3. CASE j > 1
        <5>1. j-1 \in 1..(n-1) /\ j-1 \in 1..(N-1) /\ (j-1)+1 = j
          BY <2>1, <4>3
        <5>2. router_to_detok'[j-1] = Req(s[1])
          BY <2>1, <4>1, <5>1
        <5> QED
          BY <5>1, <5>2 DEF Announced
      <4> QED
        BY <4>2, <4>3
    <3> QED
      BY <2>4, <3>1, <3>2 DEF Announced
  <2>5. ASSUME NEW i \in 1..(N-1), Has(router_to_detok'[i], s)
        PROVE  Announced(s, i-1)'
    <3>1. i \in 1..N /\ i+1 \in 2..N /\ i+1 \in 1..N /\ Has(router_to_detok[i+1], s) /\ (i+1)-1 = i
      BY <2>1, <2>5
    <3>2. Announced(s, i)
      BY <1>0, <2>0, <3>1 DEF Ready
    <3> QED
      BY <2>4, <2>7, <3>1, <3>2
  <2>6. ASSUME (known[s[1]] # "no" /\ s \notin ended)'
        PROVE  Announced(s, N-1)'
    <3>1. Announced(s, N) /\ N \in 1..N /\ s \notin ended
      BY <1>0, <2>0, <2>1, <2>6 DEF Ready
    <3> QED
      BY <2>4, <2>7, <3>1
  <2> QED
    BY <2>1, <2>5, <2>6 DEF Ready
<1>4. CASE RecvBatch \/ Deliver \/ Visual \/ (\E g \in Group : Leave(g) \/ Read(g) \/ Http(g)) \/ UNCHANGED vars
  <2>1. UNCHANGED <<router_to_detok, req_id_to_out, known, ended>>
    BY <1>4 DEF RecvBatch, Deliver, Visual, VisualRecv, VisualTake, VisualSend, Leave, Read, Http, Start,
                FindGone, Wake, Cancel, BackgroundAbort, vars, clientVars, httpVars, routerVars, channels
  <2> QED
    BY <1>0, <2>1, ReadyUntouched
<1>5. CASE Moves
  <2>1. UNCHANGED <<router_to_detok, req_id_to_out, ended>>
    BY <1>5 DEF Moves, channels
  <2>2. known'[s[1]] # "no" => known[s[1]] # "no"
    BY <1>0, <1>5 DEF Moves
  <2> QED
    BY <1>0, <2>1, <2>2 DEF Ready, Announced, Has
<1> QED
  BY <1>1, <1>2, <1>3, <1>4, <1>5, RouterSteps DEF Next

-----------------------------------------------------------------------------
(* Ends are counted *)

LEMMA AnswersAreFinite ==
  ASSUME NEW g \in Group
  PROVE  IsFiniteSet(SubsOf(g)) /\ Cardinality(SubsOf(g)) = BestOf[g] /\ BestOf[g] \in Nat \ {0}
<1>1. BestOf[g] \in Nat \ {0}
  BY PipelineAssumption
<1>2. IsFiniteSet({g}) /\ Cardinality({g}) = 1
  BY FS_Singleton
<1>3. IsFiniteSet(1..BestOf[g]) /\ Cardinality(1..BestOf[g]) = BestOf[g]
  <2>1. PICK m \in Nat : m = BestOf[g] /\ 1 <= m
    BY <1>1
  <2>2. 1 \in Int /\ m \in Int
    OBVIOUS
  <2>3. IsFiniteSet(1..m) /\ Cardinality(1..m) = IF 1 > m THEN 0 ELSE m - 1 + 1
    BY <2>2, FS_Interval
  <2> QED
    BY <2>1, <2>3
<1>4. IsFiniteSet({g} \X (1..BestOf[g])) /\ Cardinality({g} \X (1..BestOf[g])) = 1 * BestOf[g]
  <2>1. PICK S, T : S = {g} /\ T = 1..BestOf[g]
    OBVIOUS
  <2>2. IsFiniteSet(S) /\ IsFiniteSet(T) /\ Cardinality(S) = 1 /\ Cardinality(T) = BestOf[g]
    BY <1>2, <1>3, <2>1
  <2>3. IsFiniteSet(S \X T) /\ Cardinality(S \X T) = Cardinality(S) * Cardinality(T)
    BY <2>2, FS_Product
  <2> QED
    BY <2>1, <2>2, <2>3
<1> QED
  BY <1>1, <1>4 DEF SubsOf

\* The ends that a list hands out are those of the answers that end with it.
LEMMA HandCounts ==
  ASSUME RouterKnows, NEW g \in Group, NEW items \in Seq(Item(g)), UNCHANGED <<generated, ended>>,
         \A s \in SubsOf(g) : /\ Len(received[s]) \in Nat /\ Len(received'[s]) \in Nat
                              /\ Reaches(items, s, Len(received'[s]))
                              /\ Len(received'[s]) <= generated[s],
         \A i \in 1..Len(items) : Marked(items[i].sub, items[i])
  PROVE  /\ Unfinished(g)' \subseteq Unfinished(g)
         /\ Cardinality(Unfinished(g)') =
              Cardinality(Unfinished(g)) - Len(Among(items, {i \in ToSet(items) : i.finish # "no"}))
<1> DEFINE N == Len(items)
           I == {i \in 1..N : items[i].finish # "no"}
           U == Unfinished(g)
           V == Unfinished(g)'
           r(s) == Len(received[s])
           c(s) == Len(received'[s])
           f == [i \in I |-> items[i].sub]
<1>1. /\ N \in Nat
      /\ \A i \in 1..N : items[i].sub \in SubsOf(g) /\ items[i].count \in Nat \ {0}
  <2>1. \A x \in Item(g) : x.sub \in SubsOf(g) /\ x.count \in Nat \ {0}
    BY DEF Item
  <2> QED
    BY <2>1, ElementOfSeq, LenProperties
<1>2. \A s \in SubsOf(g) : /\ r(s) \in Nat /\ c(s) \in Nat /\ generated[s] \in Nat
                           /\ r(s) <= c(s) /\ c(s) <= generated[s]
                           /\ Run(View(items, s), r(s), c(s))
  BY SubFacts DEF Reaches, RouterKnows
<1>3. \A s \in SubsOf(g) : /\ s \in U <=> ~(s \in ended /\ r(s) = generated[s])
                           /\ s \in V <=> ~(s \in ended /\ c(s) = generated[s])
  BY DEF Unfinished
<1>4. V \subseteq U
  <2>1. \A s \in SubsOf(g) : r(s) = generated[s] => c(s) = generated[s]
    BY <1>2
  <2>2. V \subseteq SubsOf(g)
    BY DEF Unfinished
  <2> HIDE DEF U, V, r, c
  <2> QED
    BY <1>3, <2>1, <2>2
<1>5. \A i \in 1..N : \A s : /\ Len(View(items, s)) = N
                             /\ View(items, s)[i] = IF items[i].sub = s THEN items[i].count ELSE 0
  BY <1>1 DEF View
<1>6. \A i \in I : items[i].count = generated[items[i].sub] /\ items[i].sub \in ended
  BY DEF Marked
<1>7. f \in Bijection(I, U \ V)
  <2>1. ASSUME NEW i \in I
        PROVE  items[i].sub \in U \ V
    <3> DEFINE s == items[i].sub
    <3>1. /\ s \in SubsOf(g) /\ s \in ended /\ items[i].count = generated[s] /\ items[i].count # 0
          /\ i \in 1..N
      BY <1>1, <1>6
    <3>2. View(items, s)[i] = generated[s] /\ generated[s] # 0 /\ Len(View(items, s)) = N
      BY <1>5, <3>1
    <3>3. r(s) < generated[s] /\ generated[s] <= c(s)
      BY <1>2, <3>1, <3>2 DEF Run
    <3>4. r(s) # generated[s] /\ c(s) = generated[s]
      <4> HIDE DEF r, c, s
      <4> QED
        BY <1>2, <3>1, <3>3
    <3> QED
      BY <1>3, <3>1, <3>4
  <2>2. ASSUME NEW s \in U \ V
        PROVE  \E i \in I : items[i].sub = s
    <3>1. s \in SubsOf(g) /\ s \in ended /\ r(s) # generated[s] /\ c(s) = generated[s]
      BY <1>3, <2>2 DEF Unfinished
    <3>2. c(s) \in (r(s)+1)..c(s) /\ c(s) # 0
      BY <1>2, <3>1
    <3>3. PICK i \in 1..Len(View(items, s)) : View(items, s)[i] = c(s)
      BY <1>2, <3>1, <3>2 DEF Run
    <3>4. Len(View(items, s)) = N
      BY <1>1 DEF View
    <3>5. items[i].sub = s /\ items[i].count = generated[s] /\ i \in 1..N
      BY <1>5, <3>1, <3>2, <3>3, <3>4
    <3>6. items[i].finish # "no"
      BY <3>1, <3>5 DEF Marked
    <3> QED
      BY <3>5, <3>6
  <2>3. ASSUME NEW i \in I, NEW j \in I, i < j, items[i].sub = items[j].sub
        PROVE  FALSE
    <3> DEFINE s == items[i].sub
    <3>1. /\ i \in 1..N /\ j \in 1..N /\ s \in SubsOf(g) /\ items[i].count = generated[s]
          /\ items[j].count = generated[s] /\ generated[s] # 0 /\ items[j].sub = s
      BY <1>1, <1>6, <2>3
    <3>2. View(items, s)[i] = generated[s] /\ View(items, s)[j] = generated[s] /\ Len(View(items, s)) = N
      BY <1>5, <3>1
    <3>3. generated[s] < generated[s] /\ generated[s] \in Nat
      BY <1>2, <2>3, <3>1, <3>2 DEF Run
    <3> QED
      BY <3>3
  <2>4. \A i, j \in I : i = j \/ i < j \/ j < i
    BY <1>1
  <2> HIDE DEF I, U, V
  <2>5. f \in [I -> U \ V]
    BY <2>1
  <2>6. \A i, j \in I : f[i] = f[j] => i = j
    BY <2>3, <2>4
  <2>7. \A s \in U \ V : \E i \in I : f[i] = s
    BY <2>2
  <2> HIDE DEF f
  <2> QED
    BY <2>5, <2>6, <2>7 DEF Bijection, Injection, Surjection, IsInjective
<1>8. IsFiniteSet(I) /\ Cardinality(I) = Len(Among(items, {i \in ToSet(items) : i.finish # "no"}))
  <2> DEFINE S == {i \in ToSet(items) : i.finish # "no"}
  <2>1. \A i \in 1..N : items[i] \in S <=> i \in I
    BY DEF ToSet
  <2>2. I = {i \in 1..Len(items) : items[i] \in S}
    BY <2>1
  <2>3. IsFiniteSet(I)
    <3>1. IsFiniteSet(1..N) /\ I \in SUBSET (1..N)
      BY <1>1, FS_Interval
    <3> HIDE DEF I
    <3> QED
      BY <3>1, FS_Subset
  <2> HIDE DEF S, I
  <2> QED
    BY <2>2, <2>3, AmongLen DEF S
<1>9. Cardinality(U \ V) = Cardinality(I)
  <2>1. ExistsBijection(I, U \ V)
    BY <1>7 DEF ExistsBijection
  <2> HIDE DEF I, U, V, f
  <2> QED
    BY <1>8, <2>1, FS_Bijection
<1>10. Cardinality(V) = Cardinality(U) - Cardinality(I)
  <2>1. IsFiniteSet(U)
    <3>1. U \in SUBSET SubsOf(g)
      BY DEF Unfinished
    <3> HIDE DEF U
    <3> QED
      BY <3>1, AnswersAreFinite, FS_Subset
  <2> HIDE DEF U, V, I
  <2>2. U \cap V = V /\ IsFiniteSet(V)
    BY <1>4, <2>1, FS_Subset
  <2>3. Cardinality(U \ V) = Cardinality(U) - Cardinality(V)
    BY <2>1, <2>2, FS_Difference
  <2>4. Cardinality(U) \in Nat /\ Cardinality(V) \in Nat /\ Cardinality(I) \in Nat
    BY <1>8, <2>1, <2>2, FS_CardinalityType
  <2> QED
    BY <1>9, <2>3, <2>4
<1> QED
  BY <1>4, <1>8, <1>10

\* A list is handed out, or its head.
HandsOut(g, items) ==
  /\ items \in Seq(Item(g)) /\ Hand(g, items)
  /\ \A h \in Group \ {g} : out_token_info_list'[h] = out_token_info_list[h]
  /\ \/ items = out_token_info_list[g] /\ out_token_info_list'[g] = <<>>
     \/ /\ out_token_info_list[g] # <<>> /\ items = <<out_token_info_list[g][1]>>
        /\ out_token_info_list'[g] = Tail(out_token_info_list[g])
  /\ UNCHANGED <<delivering, generated, ended, detok_to_http, router_to_detok>>

\* A coroutine that goes on with its list suspends itself at its first token, or
\* hands out and is through when no answer is left.
LEMMA GoesOn ==
  ASSUME CausalInv, NEW g \in Group, Wake(g) \/ Read(g)
  PROVE  /\ generate[g] \in {"wait", "yield"} /\ generate' = [generate EXCEPT ![g] = generate'[g]]
         /\ \/ /\ UNCHANGED <<received, unfinished_count, generated, ended>> /\ generate'[g] = "yield"
            \/ /\ \E items : HandsOut(g, items)
               /\ IF unfinished_count'[g] = 0 THEN generate'[g] \in {"ending", "done"}
                  ELSE generate'[g] \in {"wait", "yield"}
<1> DEFINE list == out_token_info_list[g]
<1>0. Coroutines /\ Lists /\ list \in Seq(Item(g))
  BY DEF CausalInv, Lists
<1>1. UNCHANGED <<delivering, generated, ended, detok_to_http, router_to_detok>>
  BY DEF Wake, Read, routerVars, channels
<1>2. CASE Wake(g)
  <2>1. CASE UNCHANGED <<received, unfinished_count, out_token_info_list>> /\ generate' = [generate EXCEPT ![g] = "yield"]
    BY <1>0, <1>1, <1>2, <2>1 DEF Wake, Coroutines
  <2>2. CASE /\ Hand(g, list) /\ out_token_info_list' = [out_token_info_list EXCEPT ![g] = <<>>]
             /\ generate' = [generate EXCEPT ![g] = IF unfinished_count'[g] = 0 THEN "done" ELSE "wait"]
    <3>1. HandsOut(g, list)
      BY <1>0, <1>1, <2>2 DEF HandsOut, Lists
    <3> QED
      BY <1>0, <1>2, <2>2, <3>1 DEF Wake, Coroutines
  <2> QED
    BY <1>2, <2>1, <2>2 DEF Wake
<1>3. CASE Read(g)
  <2>1. /\ generate[g] = "yield" /\ Hand(g, <<list[1]>>)
        /\ out_token_info_list' = [out_token_info_list EXCEPT ![g] = Tail(list)]
        /\ generate' = [generate EXCEPT ![g] = IF unfinished_count'[g] = 0 THEN "ending"
                                               ELSE IF Len(list) = 1 THEN "wait" ELSE "yield"]
    BY <1>3 DEF Read
  <2>2. list # <<>>
    BY <1>0, <2>1 DEF Lists
  <2>3. <<list[1]>> \in Seq(Item(g))
    <3> HIDE DEF list
    <3>1. list[1] \in Item(g)
      BY <1>0, <2>2, FirstMessage
    <3> QED
      BY <3>1
  <2>4. HandsOut(g, <<list[1]>>)
    BY <1>0, <1>1, <2>1, <2>2, <2>3 DEF HandsOut, Lists
  <2>5. generate' = [generate EXCEPT ![g] = generate'[g]]
        /\ generate'[g] = IF unfinished_count'[g] = 0 THEN "ending"
                          ELSE IF Len(list) = 1 THEN "wait" ELSE "yield"
    BY <1>0, <2>1 DEF Coroutines
  <2> QED
    BY <2>1, <2>4, <2>5
<1> QED
  BY <1>2, <1>3

\* What is handed out continues each answer of the request, and the ends are counted.
LEMMA HandsOutInOrder ==
  ASSUME CausalInv, OrderInv, NEW g \in Group, g \in Open, NEW items, HandsOut(g, items)
  PROVE  /\ received' \in [Sub -> Seq(Nat)]
         /\ \A s \in Sub : /\ received'[s] = [i \in 1..Len(received'[s]) |-> i]
                           /\ Len(received'[s]) \in Len(received[s])..generated[s]
         /\ \A s \in Sub : s[1] # g => received'[s] = received[s]
         /\ unfinished_count' = [unfinished_count EXCEPT ![g] = Cardinality(Unfinished(g)')]
         /\ Cardinality(Unfinished(g)') \in Nat
<1>0. /\ UnderWay /\ RouterKnows /\ Lists /\ InOrder /\ EndsMarked /\ EndsCounted
      /\ items \in Seq(Item(g)) /\ Hand(g, items)
      /\ UNCHANGED <<delivering, generated, ended, detok_to_http, router_to_detok>>
  BY DEF CausalInv, OrderInv, HandsOut
<1>1. Give(items)
  BY <1>0 DEF Hand
<1>2. \A s \in Sub : generated[s] \in Nat /\ Len(received[s]) \in Nat /\ Len(received[s]) <= generated[s]
  <2>1. \A s \in Sub : received[s] \in Seq(Nat) /\ generated[s] \in Nat /\ Len(received[s]) <= generated[s]
    BY <1>0 DEF RouterKnows, EndsCounted
  <2> QED
    BY <2>1, LenProperties
\* Of another request nothing is handed out.
<1>3. ASSUME NEW s \in Sub, s[1] # g
      PROVE  received'[s] = received[s]
  <2>1. Run(View(items, s), Len(received[s]), Len(received[s]))
    BY <1>0, <1>2, <1>3, OthersGetNothing
  <2>2. Reaches(items, s, Len(received[s]))
    BY <1>2, <2>1 DEF Reaches
  <2>3. received'[s] = [i \in 1..Len(received[s]) |-> i]
    BY <1>0, <1>1, <1>2, <2>2, GiveContinues
  <2> QED
    BY <1>0, <2>3 DEF EndsCounted
<1>4. ASSUME NEW s \in Sub, s[1] = g
      PROVE  /\ received'[s] = [i \in 1..Len(received'[s]) |-> i] /\ Len(received'[s]) \in Nat
             /\ Reaches(items, s, Len(received'[s])) /\ Len(received'[s]) <= generated[s]
  <2>1. OrderedFor(s)
    BY <1>0, <1>4 DEF InOrder
  <2>2. s[1] # g => out_token_info_list'[s[1]] = out_token_info_list[s[1]]
    BY <1>4
  <2>3. s[1] = g => \/ items = out_token_info_list[g] /\ out_token_info_list'[g] = <<>>
                    \/ /\ out_token_info_list[g] # <<>> /\ items = <<out_token_info_list[g][1]>>
                       /\ out_token_info_list'[g] = Tail(out_token_info_list[g])
    BY DEF HandsOut
  <2>4. Reaches(items, s, Len(received'[s])) /\ Len(received'[s]) <= generated[s]
    BY <1>0, <1>1, <2>1, <2>2, <2>3, HandKeepsOrder
  <2>5. Len(received'[s]) \in Nat
    <3>1. received'[s] = received[s] \o [k \in 1..Len(Among(items, {i \in ToSet(items) : i.sub = s})) |->
                                           Among(items, {i \in ToSet(items) : i.sub = s})[k].count]
      BY <1>1 DEF Give
    <3> DEFINE mine == Among(items, {i \in ToSet(items) : i.sub = s})
               counts == [k \in 1..Len(mine) |-> mine[k].count]
    <3>2. mine \in Seq(Item(g) \cap {i \in ToSet(items) : i.sub = s})
      BY <1>0, AmongIn
    <3> HIDE DEF mine
    <3>3. \A x \in Item(g) : x.count \in Nat
      BY DEF Item
    <3>4. Len(mine) \in Nat /\ \A k \in 1..Len(mine) : mine[k].count \in Nat
      BY <3>2, <3>3, ElementOfSeq, LenProperties
    <3>5. counts \in Seq(Nat) /\ received[s] \in Seq(Nat)
      BY <1>0, <3>4 DEF EndsCounted
    <3> HIDE DEF counts
    <3>6. received[s] \o counts \in Seq(Nat)
      BY <3>5, ConcatProperties
    <3> QED
      BY <3>1, <3>6, LenProperties DEF mine, counts
  <2>6. received'[s] = [i \in 1..Len(received'[s]) |-> i]
    <3>0. PICK l : l = Len(received'[s])
      OBVIOUS
    <3> QED
      BY <1>0, <1>1, <2>4, <2>5, <3>0, GiveContinues
  <2> QED
    BY <2>4, <2>5, <2>6
<1>5. \A s \in Sub : /\ received'[s] = [i \in 1..Len(received'[s]) |-> i]
                     /\ Len(received'[s]) \in Len(received[s])..generated[s]
  <2>1. ASSUME NEW s \in Sub, s[1] # g
        PROVE  /\ received'[s] = [i \in 1..Len(received'[s]) |-> i]
               /\ Len(received'[s]) \in Len(received[s])..generated[s]
    BY <1>0, <1>2, <1>3, <2>1 DEF EndsCounted
  <2>2. ASSUME NEW s \in Sub, s[1] = g
        PROVE  /\ received'[s] = [i \in 1..Len(received'[s]) |-> i]
               /\ Len(received'[s]) \in Len(received[s])..generated[s]
    <3>1. /\ received'[s] = [i \in 1..Len(received'[s]) |-> i] /\ Len(received'[s]) \in Nat
          /\ Len(received[s]) <= Len(received'[s]) /\ Len(received'[s]) <= generated[s]
      BY <1>4, <2>2 DEF Reaches
    <3> QED
      BY <1>2, <3>1
  <2> QED
    BY <2>1, <2>2
<1>6. received' \in [Sub -> Seq(Nat)]
  <2>1. DOMAIN received' = Sub /\ received' = [s \in Sub |-> received'[s]]
    BY <1>1 DEF Give
  <2>2. \A s \in Sub : Len(received'[s]) \in Nat
    BY <1>2, <1>5
  <2>3. \A s \in Sub : received'[s] \in Seq(Nat)
    <3>1. ASSUME NEW s \in Sub
          PROVE  received'[s] \in Seq(Nat)
      <4>1. PICK n \in Nat : n = Len(received'[s])
        BY <2>2
      <4>2. received'[s] = [i \in 1..n |-> i]
        BY <1>5, <4>1
      <4> QED
        BY <4>2
    <3> QED
      BY <3>1
  <2> QED
    BY <2>1, <2>3
<1>7. /\ unfinished_count[g] - Len(Among(items, {i \in ToSet(items) : i.finish # "no"}))
           = Cardinality(Unfinished(g)')
      /\ Cardinality(Unfinished(g)') \in Nat
  <2>1. \A s \in SubsOf(g) : /\ Len(received[s]) \in Nat /\ Len(received'[s]) \in Nat
                             /\ Reaches(items, s, Len(received'[s]))
                             /\ Len(received'[s]) <= generated[s]
    BY <1>2, <1>4, SubFacts
  <2>2. \A i \in 1..Len(items) : Marked(items[i].sub, items[i])
    <3> DEFINE list == out_token_info_list[g]
    <3>1. \A i \in 1..Len(items) : \E j \in 1..Len(list) : items[i] = list[j]
      <4>1. CASE items = list
        BY <4>1
      <4>2. CASE list # <<>> /\ items = <<list[1]>>
        <5>1. list \in Seq(Item(g))
          BY <1>0 DEF Lists
        <5> HIDE DEF list
        <5>2. 1 \in 1..Len(list) /\ \A i \in 1..Len(items) : items[i] = list[1]
          BY <4>2, <5>1, EmptySeq
        <5> QED
          BY <5>2
      <4> QED
        BY <4>1, <4>2 DEF HandsOut
    <3>2. \A j \in 1..Len(list) : list[j].sub \in SubsOf(g)
      <4>1. list \in Seq(Item(g)) /\ \A x \in Item(g) : x.sub \in SubsOf(g)
        BY <1>0 DEF Lists, Item
      <4> QED
        BY <4>1, ElementOfSeq
    <3>3. \A j \in 1..Len(list) : Marked(list[j].sub, list[j])
      <4>1. \A s \in SubsOf(g) : MarkedEverywhere(s) /\ s[1] = g
        BY <1>0, SubFacts DEF EndsMarked
      <4> QED
        BY <3>2, <4>1 DEF MarkedEverywhere
    <3> QED
      BY <3>1, <3>3
  <2>3. /\ Unfinished(g)' \subseteq Unfinished(g)
        /\ Cardinality(Unfinished(g)') =
             Cardinality(Unfinished(g)) - Len(Among(items, {i \in ToSet(items) : i.finish # "no"}))
    BY <1>0, <2>1, <2>2, HandCounts
  <2>4. Cardinality(Unfinished(g)') \in Nat
    <3>1. Unfinished(g)' \in SUBSET SubsOf(g)
      BY DEF Unfinished
    <3>2. IsFiniteSet(Unfinished(g)')
      BY <3>1, AnswersAreFinite, FS_Subset
    <3> QED
      BY <3>2, FS_CardinalityType
  <2>5. unfinished_count[g] = Cardinality(Unfinished(g))
    BY <1>0 DEF EndsCounted
  <2> QED
    BY <2>3, <2>4, <2>5
<1>8. unfinished_count' = [unfinished_count EXCEPT ![g] = Cardinality(Unfinished(g)')]
  <2>1. unfinished_count' = [unfinished_count EXCEPT
          ![g] = unfinished_count[g] - Len(Among(items, {i \in ToSet(items) : i.finish # "no"}))]
    BY <1>0 DEF Hand
  <2> QED
    BY <1>7, <2>1
<1> QED
  BY <1>3, <1>5, <1>6, <1>7, <1>8

LEMMA EndsCountedStep ==
  CausalInv /\ CausalInv' /\ OrderInv /\ [Next]_vars => EndsCounted'
<1> SUFFICES ASSUME CausalInv, CausalInv', OrderInv, [Next]_vars
             PROVE  EndsCounted'
  OBVIOUS
<1>0. EndsCounted /\ RouterKnows /\ RouterKnows' /\ Open' \subseteq Open /\ Coroutines
  BY OpenShrinks DEF CausalInv, OrderInv
<1>1. ASSUME UNCHANGED <<received, unfinished_count, generated, ended>>
      PROVE  EndsCounted'
  <2>1. \A g \in Group : Unfinished(g)' = Unfinished(g)
    BY <1>1 DEF Unfinished
  <2> QED
    BY <1>0, <1>1, <2>1 DEF EndsCounted, Open
<1>2. ASSUME NEW g \in Group, Wake(g) \/ Read(g)
      PROVE  EndsCounted'
  <2>1. g \in Open
    BY <1>2, GoesOn DEF Open
  <2>2. CASE \E items : HandsOut(g, items)
    <3>1. PICK items : HandsOut(g, items)
      BY <2>2
    <3>2. /\ received' \in [Sub -> Seq(Nat)]
          /\ \A s \in Sub : /\ received'[s] = [i \in 1..Len(received'[s]) |-> i]
                            /\ Len(received'[s]) \in Len(received[s])..generated[s]
          /\ \A s \in Sub : s[1] # g => received'[s] = received[s]
          /\ unfinished_count' = [unfinished_count EXCEPT ![g] = Cardinality(Unfinished(g)')]
          /\ Cardinality(Unfinished(g)') \in Nat
      BY <2>1, <3>1, HandsOutInOrder
    <3>3. UNCHANGED <<generated, ended>>
      BY <3>1 DEF HandsOut
    <3>4. \A h \in Group : h # g => Unfinished(h)' = Unfinished(h)
      <4>1. ASSUME NEW h \in Group, h # g
            PROVE  Unfinished(h)' = Unfinished(h)
        <5>1. \A s \in SubsOf(h) : s \in Sub /\ s[1] # g
          BY <4>1, SubFacts
        <5>2. \A s \in SubsOf(h) : received'[s] = received[s]
          BY <3>2, <5>1
        <5> QED
          BY <3>3, <5>2 DEF Unfinished
      <4> QED
        BY <4>1
    <3>5. \A s \in Sub : Len(received'[s]) <= generated'[s]
      <4>1. \A s \in Sub : generated[s] \in Nat /\ Len(received[s]) \in Nat
        <5>1. \A s \in Sub : received[s] \in Seq(Nat) /\ generated[s] \in Nat
          BY <1>0 DEF EndsCounted, RouterKnows
        <5> QED
          BY <5>1, LenProperties
      <4> QED
        BY <3>2, <3>3, <4>1
    <3>6. /\ unfinished_count' \in [Group -> Nat]
          /\ \A h \in Group : unfinished_count'[h] = IF h = g THEN Cardinality(Unfinished(g)')
                                                    ELSE unfinished_count[h]
      BY <1>0, <3>2 DEF EndsCounted
    <3>7. \A h \in Open' : unfinished_count'[h] = Cardinality(Unfinished(h)')
      BY <1>0, <3>4, <3>6 DEF EndsCounted, Open
    <3> QED
      BY <3>2, <3>5, <3>6, <3>7 DEF EndsCounted
  <2> QED
    BY <1>1, <1>2, <2>2, GoesOn
\* A token more: what was unfinished stays so.
<1>3. CASE RouterForward
  <2>0. PICK batch \in SUBSET Group : \E last \in SUBSET Unended(batch) : Forward(batch, last)
    BY <1>3 DEF RouterForward
  <2>1. PICK last \in SUBSET Unended(batch) : Forward(batch, last)
    BY <2>0
  <2>2. /\ \A s \in Sub : generated'[s] = IF s \in Unended(batch) THEN generated[s] + 1 ELSE generated[s]
        /\ ended' = ended \cup last /\ UNCHANGED <<received, unfinished_count, generate>>
    BY <2>1 DEF Forward, clientVars, httpVars
  <2>3. \A s \in Sub : /\ generated[s] \in Nat /\ Len(received[s]) \in Nat /\ Len(received[s]) <= generated[s]
                       /\ s \in Unended(batch) => s \notin ended
    <3>1. \A s \in Sub : received[s] \in Seq(Nat) /\ generated[s] \in Nat /\ Len(received[s]) <= generated[s]
      BY <1>0 DEF EndsCounted, RouterKnows
    <3> QED
      BY <3>1, LenProperties DEF Unended
  <2>4. \A s \in Sub : Len(received'[s]) <= generated'[s]
    BY <2>2, <2>3
  <2>5. \A s \in Sub : (s \in ended /\ Len(received[s]) = generated[s])'
                          <=> s \in ended /\ Len(received[s]) = generated[s]
    BY <2>2, <2>3
  <2>6. \A g \in Group : Unfinished(g)' = Unfinished(g)
    BY <2>5, SubFacts DEF Unfinished
  <2> QED
    BY <1>0, <2>2, <2>4, <2>6 DEF EndsCounted, Open
<1>4. CASE RecvBatch \/ Deliver \/ Visual \/ RouterRecv \/ DetokRecv \/ Moves \/ UNCHANGED vars
           \/ (\E g \in Group : Leave(g) \/ Start(g) \/ FindGone(g) \/ Cancel(g) \/ BackgroundAbort(g))
  <2>1. UNCHANGED <<received, unfinished_count, generated, ended>>
    BY <1>4 DEF RecvBatch, Deliver, Visual, VisualRecv, VisualTake, VisualSend, Leave, Start, FindGone,
                Cancel, BackgroundAbort, RouterRecv, Handle, DetokRecv, Moves, vars, clientVars, httpVars, routerVars
  <2> QED
    BY <1>1, <2>1
<1> QED
  BY <1>2, <1>3, <1>4, RouterSteps DEF Next, Http

LEMMA OrderStep ==
  CausalInv /\ CausalInv' /\ OrderInv /\ [Next]_vars => OrderInv'
BY InOrderStep, EndsMarkedStep, StatesReadyStep, EndsCountedStep DEF OrderInv

LEMMA InitOrderInv == Init => OrderInv
<1> SUFFICES ASSUME Init PROVE OrderInv
  OBVIOUS
<1>1. /\ \A s \in Sub : /\ out_token_info_list[s[1]] = <<>> /\ received[s] = <<>> /\ generated[s] = 0
                        /\ known[s[1]] = "no" /\ s[1] \in Group
      /\ ended = {} /\ delivering = <<>> /\ detok_to_http = <<>> /\ router_to_detok = <<>>
      /\ req_id_to_out = {} /\ unfinished_count = BestOf
  BY SubFacts DEF Init
<1>2. InOrder
  <2> SUFFICES ASSUME NEW s \in Sub PROVE OrderedFor(s)
    BY DEF InOrder
  <2>1. ListView(s) = <<>> /\ HttpView(s) = <<>> /\ DetokView(s) = <<>>
    BY <1>1 DEF ListView, HttpView, DetokView, View
  <2>2. Run(<<>>, 0, 0)
    BY RunEmpty
  <2>3. Chain(s, 0, 0, 0)
    BY <1>1, <2>1, <2>2 DEF Chain
  <2> QED
    BY <1>1, <2>3 DEF OrderedFor
<1>3. EndsMarked
  BY <1>1 DEF EndsMarked, MarkedEverywhere
<1>4. StatesReady
  BY <1>1 DEF StatesReady, Ready
<1>5. EndsCounted
  <2>1. received \in [Sub -> Seq(Nat)]
    BY EmptySeq DEF Init
  <2>2. \A s \in Sub : received[s] = [i \in 1..Len(received[s]) |-> i] /\ Len(received[s]) <= generated[s]
    BY <1>1
  <2>3. \A g \in Group : unfinished_count[g] = Cardinality(Unfinished(g))
    <3>1. ended = {}
      BY <1>1
    <3>2. \A g \in Group : Unfinished(g) = SubsOf(g)
      BY <3>1 DEF Unfinished
    <3>3. \A g \in Group : BestOf[g] = Cardinality(SubsOf(g))
      BY AnswersAreFinite
    <3> QED
      BY <1>1, <3>2, <3>3
  <2>4. unfinished_count \in [Group -> Nat]
    <3>1. BestOf \in [Group -> Nat]
      BY PipelineAssumption
    <3> QED
      BY <1>1, <3>1
  <2> QED
    BY <2>1, <2>2, <2>3, <2>4 DEF EndsCounted, Open
<1> QED
  BY <1>2, <1>3, <1>4, <1>5 DEF OrderInv

-----------------------------------------------------------------------------
(* The theorems *)

LEMMA InvariantsHold == Spec => [](CausalInv /\ OrderInv)
<1>1. Init => CausalInv /\ OrderInv
  BY InitCausalInv, InitOrderInv
<1>2. (CausalInv /\ OrderInv) /\ [Next]_vars => (CausalInv /\ OrderInv)'
  <2>1. CausalInv /\ [Next]_vars => CausalInv'
    BY CausalStep
  <2> QED
    BY <2>1, OrderStep
<1> QED
  BY <1>1, <1>2, PTL DEF Spec

\* Every variable keeps to its type, and a coroutine that is suspended at a yield
\* has the token it yields in its list.
THEOREM PipelineTypes == Spec => []TypeOK
<1>1. CausalInv /\ OrderInv => TypeOK
  <2> SUFFICES ASSUME CausalInv, OrderInv PROVE TypeOK
    OBVIOUS
  <2>1. DOMAIN delivering \subseteq Sub
    BY BatchIs DEF CausalInv, UnderWay
  <2>2. req_id_to_out_inf \subseteq Group
    BY DEF CausalInv, EntriesMatch
  <2> QED
    BY <2>1, <2>2 DEF CausalInv, OrderInv, Coroutines, RouterKnows, Lists, EndsCounted, TypeOK
<1> QED
  BY <1>1, InvariantsHold, PTL

\* The HTTP server keeps an entry for a request (req_id_to_out_inf) exactly while its
\* coroutine waits, yields or has its abort before it: every way out of generate, the
\* abort notice of detokenization included, removes the entry that is its own.
THEOREM EntriesMatchCoroutines == Spec => []EntriesMatch
<1>1. CausalInv => EntriesMatch
  BY DEF CausalInv
<1> QED
  BY <1>1, InvariantsHold, PTL

\* event.set and event.clear under the lock of the list lose no wake-up: tokens in
\* the list of a coroutine that waits mean that its event is set.
THEOREM WakeupsAreKept == Spec => []NoLostWakeup
<1>1. CausalInv => NoLostWakeup
  BY DEF CausalInv
<1> QED
  BY <1>1, InvariantsHold, PTL

-----------------------------------------------------------------------------
(* The pipeline implements AnswerStream *)

\* The refinement mapping.
Arrived == [s \in Sub |-> IF received[s] = [i \in 1..Len(received[s]) |-> i] THEN Len(received[s]) ELSE -1]
Phase == [g \in Group |-> IF generate[g] \in {"ending", "done"} THEN "complete"
                          ELSE IF generate[g] \in {"cancelled", "failed"} THEN "given up" ELSE "open"]

LEMMA InitStream == Init => Stream!Init
<1> SUFFICES ASSUME Init PROVE Stream!Init
  OBVIOUS
<1>1. /\ generated = [s \in Sub |-> 0] /\ ended = {} /\ \A s \in Sub : received[s] = <<>>
      /\ \A g \in Group : generate[g] = "new"
  BY DEF Init
<1>2. Arrived = [s \in Sub |-> 0]
  BY <1>1 DEF Arrived
<1>3. Phase = [g \in Group |-> "open"]
  BY <1>1 DEF Phase
<1> QED
  BY <1>1, <1>2, <1>3 DEF Stream!Init, Arrived, Phase

LEMMA StutterStream ==
  ASSUME UNCHANGED <<received, generated, ended>>, Phase' = Phase
  PROVE  [Stream!Next]_(Stream!vars)
<1>1. Arrived' = Arrived
  BY DEF Arrived
<1> QED
  BY <1>1 DEF Stream!vars, Arrived, Phase

\* A forward of the router generates.
LEMMA ForwardGenerates ==
  ASSUME RouterKnows, NEW batch, NEW last \in SUBSET Unended(batch), Forward(batch, last)
  PROVE  Stream!Generate
<1>1. /\ generated' = [s \in Sub |-> IF s \in Unended(batch) THEN generated[s] + 1 ELSE generated[s]]
      /\ ended' = ended \cup last /\ UNCHANGED <<received, generate>>
  BY DEF Forward, clientVars, httpVars
<1>2. \A s \in Sub : generated'[s] \in {generated[s], generated[s] + 1}
  BY <1>1
<1>3. \A s \in ended : generated'[s] = generated[s]
  BY <1>1 DEF RouterKnows, Unended
<1>4. Arrived' = Arrived /\ Phase' = Phase
  BY <1>1 DEF Arrived, Phase
<1> QED
  BY <1>1, <1>2, <1>3, <1>4 DEF Stream!Generate, Arrived, Phase

\* A list that is handed out is received.
LEMMA HandReceives ==
  ASSUME CausalInv, OrderInv, NEW g \in Group, g \in Open, NEW items, HandsOut(g, items),
         generate' = [generate EXCEPT ![g] = generate'[g]],
         IF unfinished_count'[g] = 0 THEN generate'[g] \in {"ending", "done"}
         ELSE generate'[g] \in {"wait", "yield"}
  PROVE  Stream!Receive
<1>0. EndsCounted /\ Coroutines /\ RouterKnows
  BY DEF CausalInv, OrderInv
<1>1. /\ received' \in [Sub -> Seq(Nat)]
      /\ \A s \in Sub : /\ received'[s] = [i \in 1..Len(received'[s]) |-> i]
                        /\ Len(received'[s]) \in Len(received[s])..generated[s]
      /\ unfinished_count' = [unfinished_count EXCEPT ![g] = Cardinality(Unfinished(g)')]
  BY HandsOutInOrder
<1>2. UNCHANGED <<generated, ended>>
  BY DEF HandsOut
<1>3. /\ \A s \in Sub : Arrived[s] = Len(received[s]) /\ Arrived'[s] = Len(received'[s])
  BY <1>0, <1>1 DEF Arrived, EndsCounted
<1>4. /\ Phase[g] = "open"
      /\ Phase'[g] = IF unfinished_count'[g] = 0 THEN "complete" ELSE "open"
      /\ \A h \in Group : h # g => Phase'[h] = Phase[h]
  <2>1. Phase[g] = "open" /\ \A h \in Group : h # g => Phase'[h] = Phase[h]
    BY <1>0 DEF Phase, Open, Coroutines
  <2>2. Phase'[g] = IF unfinished_count'[g] = 0 THEN "complete" ELSE "open"
    BY DEF Phase
  <2> QED
    BY <2>1, <2>2
\* A request that is complete has all its answers to their end.
<1>5. ASSUME unfinished_count'[g] = 0, NEW s \in Sub, s[1] = g
      PROVE  s \in ended /\ Arrived'[s] = generated[s]
  <2>1. Cardinality(Unfinished(g)') = 0
    BY <1>0, <1>1, <1>5 DEF EndsCounted
  <2>2. IsFiniteSet(Unfinished(g)')
    <3>1. Unfinished(g)' \in SUBSET SubsOf(g)
      BY DEF Unfinished
    <3> QED
      BY <3>1, AnswersAreFinite, FS_Subset
  <2>3. Unfinished(g)' = {}
    BY <2>1, <2>2, FS_EmptySet
  <2>4. s \in SubsOf(g)
    BY <1>5, SubFacts
  <2>5. s \in ended' /\ Len(received'[s]) = generated'[s]
    BY <2>3, <2>4 DEF Unfinished
  <2> QED
    BY <1>2, <1>3, <2>5
<1>6. \A s \in Sub : Arrived'[s] \in Arrived[s]..generated[s]
  BY <1>1, <1>3
<1>7. \A h \in Group : Phase'[h] # Phase[h] =>
        /\ Phase[h] = "open" /\ Phase'[h] = "complete"
        /\ \A s \in Sub : [t \in Sub |-> t[1]][s] = h => s \in ended /\ Arrived'[s] = generated[s]
  BY <1>4, <1>5
<1> QED
  BY <1>2, <1>6, <1>7 DEF Stream!Receive, Arrived, Phase

LEMMA StreamStep ==
  CausalInv /\ OrderInv /\ [Next]_vars => [Stream!Next]_(Stream!vars)
<1> SUFFICES ASSUME CausalInv, OrderInv, [Next]_vars
             PROVE  [Stream!Next]_(Stream!vars)
  OBVIOUS
<1>0. Coroutines /\ RouterKnows
  BY DEF CausalInv
<1>1. ASSUME NEW g \in Group, Wake(g) \/ Read(g)
      PROVE  [Stream!Next]_(Stream!vars)
  <2>1. /\ generate[g] \in {"wait", "yield"} /\ generate' = [generate EXCEPT ![g] = generate'[g]]
        /\ \/ /\ UNCHANGED <<received, unfinished_count, generated, ended>> /\ generate'[g] = "yield"
           \/ /\ \E items : HandsOut(g, items)
              /\ IF unfinished_count'[g] = 0 THEN generate'[g] \in {"ending", "done"}
                 ELSE generate'[g] \in {"wait", "yield"}
    BY <1>1, GoesOn
  <2>2. CASE UNCHANGED <<received, unfinished_count, generated, ended>> /\ generate'[g] = "yield"
    <3>1. \A h \in Group : h # g => generate'[h] = generate[h]
      BY <1>0, <2>1 DEF Coroutines
    <3>2. Phase' = Phase
      BY <2>1, <2>2, <3>1 DEF Phase
    <3> QED
      BY <2>2, <3>2, StutterStream
  <2>3. CASE /\ \E items : HandsOut(g, items)
             /\ IF unfinished_count'[g] = 0 THEN generate'[g] \in {"ending", "done"}
                ELSE generate'[g] \in {"wait", "yield"}
    <3>1. g \in Open
      BY <2>1 DEF Open
    <3>2. Stream!Receive
      BY <2>1, <2>3, <3>1, HandReceives
    <3> QED
      BY <3>2 DEF Stream!Next
  <2> QED
    BY <2>1, <2>2, <2>3
\* A client that left is given up; what else a coroutine does afterwards is not seen.
<1>2. ASSUME NEW g \in Group, FindGone(g) \/ Cancel(g) \/ BackgroundAbort(g) \/ Start(g)
      PROVE  [Stream!Next]_(Stream!vars)
  <2>1. /\ UNCHANGED <<received, generated, ended>>
        /\ \A h \in Group : h # g => generate'[h] = generate[h]
        /\ \/ generate[g] = "new" /\ generate'[g] = "wait"
           \/ generate[g] \in {"wait", "yield"} /\ generate'[g] \in {"failed", "cancelled"}
           \/ generate[g] = "ending" /\ generate'[g] = "done"
           \/ generate[g] = "cancelled" /\ generate'[g] = "failed"
    BY <1>0, <1>2 DEF FindGone, Cancel, BackgroundAbort, Start, Coroutines, clientVars, routerVars
  <2>2. CASE generate[g] \in {"wait", "yield"} /\ generate'[g] \in {"failed", "cancelled"}
    <3>1. Phase[g] # "complete" /\ Phase' = [Phase EXCEPT ![g] = "given up"]
      BY <2>1, <2>2 DEF Phase
    <3>2. Arrived' = Arrived
      BY <2>1 DEF Arrived
    <3>3. Stream!GiveUp(g)
      BY <2>1, <3>1, <3>2 DEF Stream!GiveUp, Arrived, Phase
    <3> QED
      BY <3>3 DEF Stream!Next
  <2>3. CASE ~(generate[g] \in {"wait", "yield"} /\ generate'[g] \in {"failed", "cancelled"})
    <3>1. Phase' = Phase
      BY <2>1, <2>3 DEF Phase
    <3> QED
      BY <2>1, <3>1, StutterStream
  <2> QED
    BY <2>2, <2>3
<1>3. CASE RouterForward
  <2>0. PICK batch \in SUBSET Group : \E last \in SUBSET Unended(batch) : Forward(batch, last)
    BY <1>3 DEF RouterForward
  <2>1. PICK last \in SUBSET Unended(batch) : Forward(batch, last)
    BY <2>0
  <2> QED
    BY <1>0, <2>1, ForwardGenerates DEF Stream!Next
<1>4. CASE RecvBatch \/ Deliver \/ Visual \/ RouterRecv \/ DetokRecv \/ (\E g \in Group : Leave(g)) \/ Moves
           \/ UNCHANGED vars
  <2>1. UNCHANGED <<received, generated, ended, generate>>
    BY <1>4 DEF RecvBatch, Deliver, Visual, VisualRecv, VisualTake, VisualSend, RouterRecv, Handle,
                DetokRecv, Leave, Moves, vars, clientVars, httpVars, routerVars
  <2>2. Phase' = Phase
    BY <2>1 DEF Phase
  <2> QED
    BY <2>1, <2>2, StutterStream
<1> QED
  BY <1>1, <1>2, <1>3, <1>4, RouterSteps DEF Next, Http

\* Through all the processes, channels, lists and locks every answer arrives token by
\* token, none missing, doubled or out of order, and a request is complete only with
\* all its answers to their end: the pipeline implements AnswerStream.
THEOREM StreamsInOrder == Spec => AnswersInOrder
<1>1. Init => Stream!Init
  BY InitStream
<1>2. CausalInv /\ OrderInv /\ [Next]_vars => [Stream!Next]_(Stream!vars)
  BY StreamStep
<1> QED
  BY <1>1, <1>2, InvariantsHold, PTL DEF Spec, AnswersInOrder, Stream!Spec

-----------------------------------------------------------------------------
(* What an abort leaves behind *)

\* x is in the channel once at most; some member of Y is in it; every x is followed
\* by some member of Y.
Unique(ch, x)      == \A i, j \in 1..Len(ch) : ch[i] = x /\ ch[j] = x => i = j
Meets(ch, Y)       == \E i \in 1..Len(ch) : ch[i] \in Y
Followed(ch, x, Y) == \A i \in 1..Len(ch) : ch[i] = x => \E j \in (i+1)..Len(ch) : ch[j] \in Y

LEMMA ContainsMeets ==
  ASSUME NEW ch, NEW x
  PROVE  Contains(ch, x) <=> Meets(ch, {x})
BY DEF Contains, Meets

LEMMA NothingInEmpty ==
  ASSUME NEW x, NEW Y
  PROVE  ~Contains(<<>>, x) /\ Unique(<<>>, x) /\ ~Meets(<<>>, Y) /\ Followed(<<>>, x, Y)
<1>1. Len(<<>>) = 0
  OBVIOUS
<1>2. 1..Len(<<>>) = {}
  BY <1>1
<1> QED
  BY <1>2 DEF Contains, Unique, Meets, Followed

LEMMA InSet ==
  ASSUME NEW T, NEW ch \in Seq(T), NEW x
  PROVE  x \in ToSet(ch) <=> Contains(ch, x)
<1>1. DOMAIN ch = 1..Len(ch)
  BY LenProperties
<1> QED
  BY <1>1 DEF ToSet, Contains

LEMMA AtTheEnd ==
  ASSUME NEW T, NEW ch \in Seq(T), NEW y \in T, NEW after, after = Append(ch, y)
  PROVE  /\ Len(ch) \in Nat /\ Len(after) = Len(ch) + 1 /\ after[Len(ch) + 1] = y
         /\ \A i \in 1..Len(ch) : after[i] = ch[i]
BY AppendProperties, LenProperties

LEMMA AppendKeeps ==
  ASSUME NEW T, NEW ch \in Seq(T), NEW y \in T, NEW x, NEW Y
  PROVE  /\ Contains(Append(ch, y), x) <=> Contains(ch, x) \/ x = y
         /\ Meets(Append(ch, y), Y) <=> Meets(ch, Y) \/ y \in Y
         /\ Unique(ch, x) /\ ~(x = y /\ Contains(ch, x)) => Unique(Append(ch, y), x)
         /\ x # y /\ (y \in Y \/ Followed(ch, x, Y)) => Followed(Append(ch, y), x, Y)
<1>1. PICK after, n : after = Append(ch, y) /\ n = Len(ch)
  OBVIOUS
<1>2. /\ n \in Nat /\ Len(after) = n + 1 /\ after[n + 1] = y
      /\ \A i \in 1..n : after[i] = ch[i]
  BY <1>1, AtTheEnd
<1>3. \A i \in 1..Len(after) : i \in 1..n \/ i = n + 1
  BY <1>2
<1>4. /\ \A i \in 1..n : i \in 1..Len(after) /\ i < n + 1 /\ i # n + 1
      /\ n + 1 \in 1..Len(after)
  BY <1>2
<1>5. Contains(after, x) <=> Contains(ch, x) \/ x = y
  BY <1>1, <1>2, <1>3, <1>4 DEF Contains
<1>6. Meets(after, Y) <=> Meets(ch, Y) \/ y \in Y
  BY <1>1, <1>2, <1>3, <1>4 DEF Meets
<1>7. ASSUME Unique(ch, x), ~(x = y /\ Contains(ch, x))
      PROVE  Unique(after, x)
  BY <1>1, <1>2, <1>3, <1>4, <1>7 DEF Unique, Contains
<1>8. ASSUME x # y, y \in Y \/ Followed(ch, x, Y), NEW i \in 1..Len(after), after[i] = x
      PROVE  \E j \in (i+1)..Len(after) : after[j] \in Y
  <2>1. i \in 1..n /\ ch[i] = x
    BY <1>2, <1>3, <1>8
  <2>2. CASE y \in Y
    <3>1. n + 1 \in (i+1)..Len(after)
      BY <1>2, <2>1
    <3> QED
      BY <1>2, <2>2, <3>1
  <2>3. CASE Followed(ch, x, Y)
    <3>1. PICK j \in (i+1)..n : ch[j] \in Y
      BY <1>1, <2>1, <2>3 DEF Followed
    <3>2. j \in (i+1)..Len(after) /\ j \in 1..n
      BY <1>2, <2>1, <3>1
    <3> QED
      BY <1>2, <3>1, <3>2
  <2> QED
    BY <1>8, <2>2, <2>3
<1>9. x # y /\ (y \in Y \/ Followed(ch, x, Y)) => Followed(after, x, Y)
  BY <1>8 DEF Followed
<1> QED
  BY <1>1, <1>5, <1>6, <1>7, <1>9

LEMMA TailKeeps ==
  ASSUME NEW T, NEW ch \in Seq(T), ch # <<>>, NEW x, NEW Y
  PROVE  /\ Contains(ch, x) <=> ch[1] = x \/ Contains(Tail(ch), x)
         /\ Meets(ch, Y) <=> ch[1] \in Y \/ Meets(Tail(ch), Y)
         /\ Unique(ch, x) => Unique(Tail(ch), x) /\ (ch[1] = x => ~Contains(Tail(ch), x))
         /\ Followed(ch, x, Y) => Followed(Tail(ch), x, Y) /\ (ch[1] = x => Meets(Tail(ch), Y))
<1>1. PICK rest, n : rest = Tail(ch) /\ n = Len(rest)
  OBVIOUS
<1>2. /\ n \in Nat /\ Len(ch) = n + 1 /\ \A i \in 1..n : rest[i] = ch[i + 1]
  <2>1. /\ rest \in Seq(T) /\ Len(rest) = Len(ch) - 1 /\ Len(ch) \in Nat
        /\ \A i \in 1..Len(rest) : rest[i] = ch[i + 1]
    BY <1>1, HeadTailProperties, LenProperties
  <2> QED
    BY <1>1, <2>1, LenProperties
<1>3. \A i \in 1..Len(ch) : i = 1 \/ (i - 1 \in 1..n /\ (i - 1) + 1 = i)
  BY <1>2
<1>4. 1 \in 1..Len(ch) /\ \A i \in 1..n : i + 1 \in 1..Len(ch) /\ i + 1 # 1
  BY <1>2
<1>5. \A i \in 1..Len(ch) : i = 1 \/ \E k \in 1..n : i = k + 1 /\ rest[k] = ch[i]
  BY <1>2, <1>3
<1>6. Contains(ch, x) <=> ch[1] = x \/ Contains(rest, x)
  BY <1>1, <1>2, <1>4, <1>5 DEF Contains
<1>7. Meets(ch, Y) <=> ch[1] \in Y \/ Meets(rest, Y)
  <2>1. Meets(ch, Y) => ch[1] \in Y \/ Meets(rest, Y)
    BY <1>1, <1>2, <1>5 DEF Meets
  <2>2. ch[1] \in Y \/ Meets(rest, Y) => Meets(ch, Y)
    BY <1>1, <1>2, <1>4 DEF Meets
  <2> QED
    BY <2>1, <2>2
<1>8. ASSUME Unique(ch, x)
      PROVE  Unique(rest, x) /\ (ch[1] = x => ~Contains(rest, x))
  <2>1. \A i, j \in 1..n : rest[i] = x /\ rest[j] = x => i + 1 = j + 1
    BY <1>2, <1>4, <1>8 DEF Unique
  <2>2. \A i, j \in 1..n : i + 1 = j + 1 => i = j
    BY <1>2
  <2>3. ch[1] = x => \A i \in 1..n : rest[i] # x
    BY <1>2, <1>4, <1>8 DEF Unique
  <2> QED
    BY <1>1, <2>1, <2>2, <2>3 DEF Unique, Contains
<1>9. ASSUME Followed(ch, x, Y)
      PROVE  Followed(rest, x, Y) /\ (ch[1] = x => Meets(rest, Y))
  <2>1. ASSUME NEW i \in 1..n, rest[i] = x
        PROVE  \E j \in (i+1)..n : rest[j] \in Y
    <3>1. PICK k \in ((i+1)+1)..(n+1) : ch[k] \in Y
      BY <1>2, <1>4, <1>9, <2>1 DEF Followed
    <3>2. PICK j \in (i+1)..n : k = j + 1
      <4>1. k - 1 \in (i+1)..n /\ k = (k - 1) + 1
        BY <1>2, <3>1
      <4> QED
        BY <4>1
    <3>3. j \in 1..n
      BY <1>2, <3>2
    <3> QED
      BY <1>2, <3>1, <3>2, <3>3
  <2>2. ASSUME ch[1] = x
        PROVE  Meets(rest, Y)
    <3>1. PICK k \in (1+1)..(n+1) : ch[k] \in Y
      BY <1>2, <1>4, <1>9, <2>2 DEF Followed
    <3>2. PICK j \in 1..n : k = j + 1
      <4>1. k - 1 \in 1..n /\ k = (k - 1) + 1
        BY <1>2, <3>1
      <4> QED
        BY <4>1
    <3> QED
      BY <1>1, <1>2, <3>1, <3>2 DEF Meets
  <2> QED
    BY <1>1, <2>1, <2>2 DEF Followed
<1> QED
  BY <1>1, <1>6, <1>7, <1>8, <1>9

LEMMA FollowedContains ==
  ASSUME NEW T, NEW ch \in Seq(T), NEW x, NEW y
  PROVE  Followed(ch, x, {y}) /\ Contains(ch, x) => Contains(ch, y)
<1> SUFFICES ASSUME Followed(ch, x, {y}), NEW i \in 1..Len(ch), ch[i] = x
             PROVE  \E j \in 1..Len(ch) : ch[j] = y
  BY DEF Contains
<1>1. PICK j \in (i+1)..Len(ch) : ch[j] = y
  BY DEF Followed
<1>2. j \in 1..Len(ch)
  BY LenProperties
<1> QED
  BY <1>1, <1>2

LEMMA EmptyToSet == ToSet(<<>>) = {}
<1>1. DOMAIN <<>> = {}
  OBVIOUS
<1> QED
  BY <1>1 DEF ToSet

LEMMA ConcatKeeps ==
  ASSUME NEW T, NEW p \in Seq(T), NEW q \in Seq(T), NEW x
  PROVE  /\ Contains(p \o q, x) <=> Contains(p, x) \/ Contains(q, x)
         /\ Unique(p, x) /\ Unique(q, x) /\ ~(Contains(p, x) /\ Contains(q, x)) => Unique(p \o q, x)
<1>1. PICK w, m, n : w = p \o q /\ m = Len(p) /\ n = Len(q)
  OBVIOUS
<1>2. /\ m \in Nat /\ n \in Nat /\ Len(w) = m + n
      /\ \A i \in 1..(m+n) : w[i] = IF i <= m THEN p[i] ELSE q[i - m]
  BY <1>1, ConcatProperties, LenProperties
<1>3. /\ \A i \in 1..m : i \in 1..(m+n) /\ w[i] = p[i]
      /\ \A k \in 1..n : k + m \in 1..(m+n) /\ w[k + m] = q[k]
  BY <1>2
<1>4. \A i \in 1..(m+n) : i \in 1..m \/ \E k \in 1..n : i = k + m
  <2>1. \A i \in 1..(m+n) : i \in 1..m \/ (i - m \in 1..n /\ i = (i - m) + m)
    BY <1>2
  <2> QED
    BY <2>1
<1>8. /\ Contains(p, x) <=> \E i \in 1..m : p[i] = x
      /\ Contains(q, x) <=> \E i \in 1..n : q[i] = x
      /\ Contains(w, x) <=> \E i \in 1..(m+n) : w[i] = x
  BY <1>1, <1>2 DEF Contains
<1>5. Contains(w, x) <=> Contains(p, x) \/ Contains(q, x)
  <2>1. (\E i \in 1..(m+n) : w[i] = x) => (\E i \in 1..m : p[i] = x) \/ (\E i \in 1..n : q[i] = x)
    BY <1>3, <1>4
  <2>2. (\E i \in 1..m : p[i] = x) \/ (\E i \in 1..n : q[i] = x) => \E i \in 1..(m+n) : w[i] = x
    BY <1>3
  <2> QED
    BY <1>8, <2>1, <2>2
<1>6. ASSUME Unique(p, x), Unique(q, x), ~(Contains(p, x) /\ Contains(q, x)),
             NEW i \in 1..(m+n), NEW j \in 1..(m+n), w[i] = x, w[j] = x
      PROVE  i = j
  <2>1. CASE i \in 1..m
    <3>0. p[i] = x /\ ~Contains(q, x)
      BY <1>3, <1>6, <1>8, <2>1
    <3>1. j \in 1..m
      BY <1>3, <1>4, <1>6, <1>8, <3>0
    <3> QED
      BY <1>1, <1>3, <1>6, <2>1, <3>1 DEF Unique
  <2>2. CASE \E k \in 1..n : i = k + m
    <3>1. PICK k \in 1..n : i = k + m
      BY <2>2
    <3>2. q[k] = x
      BY <1>3, <1>6, <3>1
    <3>3. PICK l \in 1..n : j = l + m
      BY <1>3, <1>4, <1>6, <1>8, <3>2
    <3>4. q[l] = x
      BY <1>3, <1>6, <3>3
    <3>5. k = l
      BY <1>1, <1>6, <3>2, <3>4 DEF Unique
    <3> QED
      BY <3>1, <3>3, <3>5
  <2> QED
    BY <1>4, <2>1, <2>2
<1>7. Unique(p, x) /\ Unique(q, x) /\ ~(Contains(p, x) /\ Contains(q, x)) => Unique(w, x)
  BY <1>2, <1>6 DEF Unique
<1> QED
  BY <1>1, <1>5, <1>7

LEMMA RequestsKeep ==
  ASSUME NEW T, NEW w \in Seq(T), NEW m \in 0..Len(w), NEW x
  PROVE  /\ Contains(Requests(w, m), Req(x)) <=> \E i \in 1..m : w[i] = x
         /\ Unique(w, x) => Unique(Requests(w, m), Req(x))
<1>1. PICK q, n : q = Requests(w, m) /\ n = Len(w)
  OBVIOUS
<1>2. n \in Nat /\ m \in 0..n /\ \A i \in 1..m : i \in 1..n
  BY <1>1, LenProperties
<1>3. Len(q) = m /\ \A i \in 1..m : q[i] = Req(w[i])
  BY <1>1, <1>2 DEF Requests
<1>4. \A y : Req(y) = Req(x) <=> y = x
  BY DEF Req
<1>5. \A i \in 1..m : q[i] = Req(x) <=> w[i] = x
  BY <1>3, <1>4
<1> QED
  BY <1>1, <1>2, <1>3, <1>5 DEF Contains, Unique

LEMMA PartKeeps ==
  ASSUME NEW T, NEW w \in Seq(T), NEW a \in Nat \ {0}, NEW b \in 0..Len(w), NEW x
  PROVE  /\ Contains(SubSeq(w, a, b), x) <=> \E i \in a..b : w[i] = x
         /\ Unique(w, x) => Unique(SubSeq(w, a, b), x)
<1>1. PICK q, n : q = SubSeq(w, a, b) /\ n = Len(w)
  OBVIOUS
<1>2. n \in Nat /\ b \in 0..n
  BY <1>1, LenProperties
<1>3. /\ Len(q) = IF a <= b THEN b - a + 1 ELSE 0
      /\ \A i \in 1..(b-a+1) : q[i] = w[a+i-1]
  <2>1. a \in 1..(n+1) \/ ~(a <= b)
    BY <1>2
  <2>2. CASE a <= b
    BY <1>1, <1>2, <2>2, SubSeqProperties
  <2>3. CASE ~(a <= b)
    <3>1. q = <<>>
      BY <1>1, <2>3
    <3> QED
      BY <1>2, <2>3, <3>1
  <2> QED
    BY <2>2, <2>3
<1>4. \A k \in 1..Len(q) : a+k-1 \in a..b /\ a+k-1 \in 1..n /\ q[k] = w[a+k-1]
  BY <1>2, <1>3
<1>5. \A i \in a..b : i-a+1 \in 1..Len(q) /\ a+(i-a+1)-1 = i
  BY <1>2, <1>3
<1>6. \A i \in a..b : \E k \in 1..Len(q) : q[k] = w[i]
  <2>1. ASSUME NEW i \in a..b
        PROVE  \E k \in 1..Len(q) : q[k] = w[i]
    <3>1. PICK k \in 1..Len(q) : a+k-1 = i
      BY <1>5
    <3> QED
      BY <1>4, <3>1
  <2> QED
    BY <2>1
<1>7. Contains(q, x) <=> \E i \in a..b : w[i] = x
  BY <1>4, <1>6 DEF Contains
<1>8. ASSUME Unique(w, x), NEW i \in 1..Len(q), NEW j \in 1..Len(q), q[i] = x, q[j] = x
      PROVE  i = j
  <2>1. a+i-1 = a+j-1
    BY <1>1, <1>4, <1>8 DEF Unique
  <2>2. i \in Nat /\ j \in Nat
    BY <1>2, <1>3
  <2> QED
    BY <2>1, <2>2
<1>9. Unique(w, x) => Unique(q, x)
  BY <1>8 DEF Unique
<1> QED
  BY <1>1, <1>7, <1>9

\* A selection has no element that was not there, and none twice that was there once.
LEMMA AmongKeeps ==
  ASSUME NEW T, NEW seq \in Seq(T), NEW S, NEW x
  PROVE  /\ Contains(Among(seq, S), x) => Contains(seq, x) /\ x \in S
         /\ Unique(seq, x) => Unique(Among(seq, S), x)
<1>0. PICK f : Builds(f, seq, S, T)
  BY AmongDef
<1>n. PICK N \in Nat : N = Len(seq)
  BY LenProperties
<1>1. /\ f \in [0..N -> Seq(T)] /\ f[0] = <<>>
      /\ \A n \in 1..N : f[n] = IF seq[n] \in S THEN Append(f[n-1], seq[n]) ELSE f[n-1]
      /\ Among(seq, S) = f[N]
  BY <1>0, <1>n DEF Builds
<1>2. \A n \in 1..N : seq[n] \in T /\ n-1 \in 0..N /\ n \in 0..N
  BY <1>n
<1>3. Contains(f[N], x) => x \in S
  <2>1. f[N] \in Seq(T \cap S)
    BY <1>1, AmongIn
  <2>2. \A i \in 1..Len(f[N]) : f[N][i] \in T \cap S
    BY <2>1, ElementOfSeq
  <2> QED
    BY <2>2 DEF Contains
<1> DEFINE Kept(n) == /\ Contains(f[n], x) => \E i \in 1..n : seq[i] = x
                      /\ Unique(seq, x) => Unique(f[n], x)
           G == {n \in 0..N : Kept(n)}
<1>4. 0 \in G
  <2>1. Kept(0)
    BY <1>1, NothingInEmpty
  <2> QED
    BY <2>1
<1>5. ASSUME NEW n \in 1..N, n-1 \in G
      PROVE  n \in G
  <2>1. PICK old, after : old = f[n-1] /\ after = f[n]
    OBVIOUS
  <2>2. /\ old \in Seq(T) /\ seq[n] \in T
        /\ after = IF seq[n] \in S THEN Append(old, seq[n]) ELSE old
    BY <1>1, <1>2, <2>1
  <2>3. /\ Contains(old, x) => \E i \in 1..(n-1) : seq[i] = x
        /\ Unique(seq, x) => Unique(old, x)
    BY <1>5, <2>1
  <2>4. /\ \A i \in 1..(n-1) : i \in 1..n /\ i # n /\ i \in 1..Len(seq)
        /\ n \in 1..n /\ n \in 1..Len(seq)
    BY <1>n
  <2>5. Contains(after, x) => \E i \in 1..n : seq[i] = x
    <3>1. Contains(after, x) => Contains(old, x) \/ seq[n] = x
      <4>1. Contains(Append(old, seq[n]), x) <=> Contains(old, x) \/ x = seq[n]
        BY <2>2, AppendKeeps
      <4> QED
        BY <2>2, <4>1
    <3> QED
      BY <2>3, <2>4, <3>1
  <2>6. ASSUME Unique(seq, x)
        PROVE  Unique(after, x)
    <3>1. ~(x = seq[n] /\ Contains(old, x))
      BY <2>3, <2>4, <2>6 DEF Unique
    <3>2. \A Y : Unique(old, x) /\ ~(x = seq[n] /\ Contains(old, x)) => Unique(Append(old, seq[n]), x)
      BY <2>2, AppendKeeps
    <3>3. Unique(Append(old, seq[n]), x) /\ Unique(old, x)
      BY <2>3, <2>6, <3>1, <3>2
    <3>4. after = Append(old, seq[n]) \/ after = old
      BY <2>2
    <3> QED
      BY <3>3, <3>4
  <2>7. Kept(n)
    BY <2>1, <2>5, <2>6
  <2> QED
    BY <1>2, <2>7
<1> HIDE DEF G
<1>6. \A n \in 0..N : n \in G
  BY <1>4, <1>5, InductionUpTo
<1>7. Kept(N)
  <2>1. N \in G
    BY <1>6
  <2> QED
    BY <2>1 DEF G
<1> QED
  BY <1>1, <1>3, <1>7, <1>n DEF Contains

-----------------------------------------------------------------------------
(* Requests travel once *)

EveryMessage == {Req(g) : g \in Group} \cup {Abort(g) : g \in Group}
EveryBatch   == UNION {[D -> Outcome] : D \in SUBSET Sub}
EveryToken   == [kind : {"tokens"}, batch : EveryBatch]

LEMMA MessagesDiffer ==
  /\ \A g, h : /\ Req(g) = Req(h) <=> g = h
               /\ Abort(g) = Abort(h) <=> g = h
               /\ Req(g) # Abort(h)
  /\ \A m \in EveryMessage : /\ m.kind \in {"req", "abort"} /\ m.group \in Group
                             /\ m.kind = "req" <=> m = Req(m.group)
                             /\ m.kind = "abort" <=> m = Abort(m.group)
BY DEF Req, Abort, EveryMessage

\* Messages for detokenization.
LEMMA DetokMessages ==
  ASSUME NEW m \in EveryMessage \cup EveryToken
  PROVE  /\ m.kind \in {"req", "abort", "tokens"}
         /\ m.kind = "req" => m = Req(m.group) /\ m.group \in Group
         /\ m.kind = "abort" => m = Abort(m.group) /\ m.group \in Group
         /\ m.kind = "tokens" => m \in EveryToken
BY DEF EveryMessage, EveryToken, Req, Abort

LEMMA ChannelTypes ==
  ASSUME UnderWay
  PROVE  /\ http_to_router \in Seq(EveryMessage) /\ http_to_visual \in Seq(EveryMessage)
         /\ visual_to_router \in Seq(EveryMessage)
         /\ waiting_reqs \in Seq(Group) /\ reqs_need_infer \in Seq(Group)
         /\ router_to_detok \in Seq(EveryMessage \cup EveryToken)
<1>1. Messages \subseteq EveryMessage /\ Started \subseteq Group
  BY DEF Messages, EveryMessage, Started, Closed
<1>2. TokenMessages \subseteq EveryToken
  BY DEF TokenMessages, EveryToken, Batches, EveryBatch
<1>3. Messages \cup TokenMessages \subseteq EveryMessage \cup EveryToken
  BY <1>1, <1>2
<1>4. /\ Seq(Messages) \subseteq Seq(EveryMessage) /\ Seq(Started) \subseteq Seq(Group)
      /\ Seq(Messages \cup TokenMessages) \subseteq Seq(EveryMessage \cup EveryToken)
  BY <1>1, <1>3, SeqMonotonic
<1> QED
  BY <1>4 DEF UnderWay

\* Before the router has it, a request is in one of five places, and there once.
Before(g) ==
  \/ Contains(http_to_router, Req(g)) \/ Contains(http_to_visual, Req(g))
  \/ Contains(visual_to_router, Req(g))
  \/ Contains(waiting_reqs, g) \/ Contains(reqs_need_infer, g)
Exclusive(a, b, c, d, e) ==
  /\ a => ~b /\ ~c /\ ~d /\ ~e
  /\ b => ~c /\ ~d /\ ~e
  /\ c => ~d /\ ~e
  /\ d => ~e
Once(g) ==
  /\ Unique(http_to_router, Req(g)) /\ Unique(http_to_visual, Req(g))
  /\ Unique(visual_to_router, Req(g))
  /\ Unique(waiting_reqs, g) /\ Unique(reqs_need_infer, g)
  /\ Exclusive(Contains(http_to_router, Req(g)), Contains(http_to_visual, Req(g)),
               Contains(visual_to_router, Req(g)),
               Contains(waiting_reqs, g), Contains(reqs_need_infer, g))
  /\ Before(g) => known[g] = "no"
OnceInv == \A g \in Group : Once(g)

LEMMA NewIsNowhere ==
  ASSUME UnderWay, NEW g \in Group, generate[g] = "new"
  PROVE  ~Before(g)
<1>1. \A T : \A ch \in Seq(T) : \A i \in 1..Len(ch) : ch[i] \in T
  BY ElementOfSeq
<1>2. Req(g) \notin Messages /\ g \notin Started
  BY MessagesDiffer DEF Messages, Started
<1>3. /\ \A i \in 1..Len(http_to_router) : http_to_router[i] \in Messages
      /\ \A i \in 1..Len(http_to_visual) : http_to_visual[i] \in Messages
      /\ \A i \in 1..Len(visual_to_router) : visual_to_router[i] \in Messages
      /\ \A i \in 1..Len(waiting_reqs) : waiting_reqs[i] \in Started
      /\ \A i \in 1..Len(reqs_need_infer) : reqs_need_infer[i] \in Started
  BY <1>1 DEF UnderWay
<1> QED
  BY <1>2, <1>3 DEF Before, Contains

LEMMA OnceTake ==
  ASSUME CausalInv, OnceInv, VisualTake, NEW g \in Group
  PROVE  Once(g)'
<1>0. UnderWay /\ Once(g)
  BY DEF CausalInv, OnceInv
<1>1. PICK m \in Nat, n \in 1..Len(waiting_reqs) :
            /\ m <= n
            /\ visual_to_router' = visual_to_router \o Requests(waiting_reqs, m)
            /\ reqs_need_infer' = SubSeq(waiting_reqs, m+1, n)
            /\ waiting_reqs' = SubSeq(waiting_reqs, n+1, Len(waiting_reqs))
  BY TakenInOrder
<1>2. PICK w, L : w = waiting_reqs /\ L = Len(waiting_reqs)
  OBVIOUS
<1>3. /\ w \in Seq(Group) /\ L \in Nat /\ L = Len(w) /\ n \in 1..L /\ m \in 0..n /\ n \in Nat
      /\ visual_to_router \in Seq(EveryMessage) /\ reqs_need_infer \in Seq(Group)
  BY <1>0, <1>1, <1>2, ChannelTypes, LenProperties
<1>4. /\ m \in 0..Len(w) /\ m+1 \in Nat \ {0} /\ n+1 \in Nat \ {0}
      /\ n \in 0..Len(w) /\ Len(w) \in 0..Len(w)
  BY <1>3
<1>5. PICK q : q = Requests(w, m)
  OBVIOUS
<1>6. /\ Contains(q, Req(g)) <=> \E i \in 1..m : w[i] = g
      /\ Unique(w, g) => Unique(q, Req(g))
  BY <1>3, <1>4, <1>5, RequestsKeep
<1>7. /\ Contains(reqs_need_infer', g) <=> \E i \in (m+1)..n : w[i] = g
      /\ Unique(w, g) => Unique(reqs_need_infer', g)
  BY <1>1, <1>2, <1>3, <1>4, PartKeeps
<1>8. /\ Contains(waiting_reqs', g) <=> \E i \in (n+1)..L : w[i] = g
      /\ Unique(w, g) => Unique(waiting_reqs', g)
  <2>1. /\ Contains(SubSeq(w, n+1, Len(w)), g) <=> \E i \in (n+1)..Len(w) : w[i] = g
        /\ Unique(w, g) => Unique(SubSeq(w, n+1, Len(w)), g)
    BY <1>3, <1>4, PartKeeps
  <2> QED
    BY <1>1, <1>2, <1>3, <2>1
<1>9. q \in Seq(EveryMessage)
  <2>1. \A i \in 1..m : i \in 1..Len(w)
    BY <1>3
  <2>2. \A i \in 1..m : Req(w[i]) \in EveryMessage
    BY <1>3, <2>1, ElementOfSeq DEF EveryMessage
  <2> QED
    BY <1>3, <1>5, <2>2 DEF Requests
<1>10. /\ Contains(visual_to_router', Req(g)) <=> Contains(visual_to_router, Req(g)) \/ Contains(q, Req(g))
       /\ Unique(visual_to_router, Req(g)) /\ Unique(q, Req(g))
            /\ ~(Contains(visual_to_router, Req(g)) /\ Contains(q, Req(g)))
            => Unique(visual_to_router', Req(g))
  BY <1>1, <1>2, <1>3, <1>5, <1>9, ConcatKeeps
<1>11. /\ (\E i \in 1..m : w[i] = g) => Contains(w, g)
       /\ (\E i \in (m+1)..n : w[i] = g) => Contains(w, g)
       /\ (\E i \in (n+1)..L : w[i] = g) => Contains(w, g)
  BY <1>3 DEF Contains
<1>12. Unique(w, g) =>
         /\ ~((\E i \in 1..m : w[i] = g) /\ (\E i \in (m+1)..n : w[i] = g))
         /\ ~((\E i \in 1..m : w[i] = g) /\ (\E i \in (n+1)..L : w[i] = g))
         /\ ~((\E i \in (m+1)..n : w[i] = g) /\ (\E i \in (n+1)..L : w[i] = g))
  <2>1. /\ \A i \in 1..m : i \in 1..L /\ i <= m
        /\ \A i \in (m+1)..n : i \in 1..L /\ i > m /\ i <= n
        /\ \A i \in (n+1)..L : i \in 1..L /\ i > n /\ i > m
    BY <1>3
  <2>2. /\ \A i \in 1..m, j \in (m+1)..n : i # j
        /\ \A i \in 1..m, j \in (n+1)..L : i # j
        /\ \A i \in (m+1)..n, j \in (n+1)..L : i # j
    BY <1>3
  <2> QED
    BY <1>3, <2>1, <2>2 DEF Unique
<1>13. UNCHANGED <<http_to_router, http_to_visual, known>>
  BY DEF VisualTake, routerVars
<1> QED
  BY <1>0, <1>2, <1>6, <1>7, <1>8, <1>10, <1>11, <1>12, <1>13 DEF Once, Before, Exclusive

\* A message that the router takes, and what is left of its channel.
LEMMA TakenByRouter ==
  ASSUME CausalInv, OnceInv, NEW g \in Group,
         NEW ch \in Seq(EveryMessage), ch # <<>>, Unique(ch, Req(g)), Handle(ch[1])
  PROVE  /\ Unique(Tail(ch), Req(g))
         /\ Contains(Tail(ch), Req(g)) => Contains(ch, Req(g)) /\ ch[1] # Req(g)
         /\ ch[1] = Req(g) => Contains(ch, Req(g))
         /\ ch[1] # Req(g) /\ known[g] = "no" => known'[g] = "no"
<1>1. ch[1] \in EveryMessage
  BY FirstMessage
<1>2. \A Y : /\ Contains(ch, Req(g)) <=> ch[1] = Req(g) \/ Contains(Tail(ch), Req(g))
             /\ Unique(ch, Req(g)) => Unique(Tail(ch), Req(g))
                                       /\ (ch[1] = Req(g) => ~Contains(Tail(ch), Req(g)))
  BY TailKeeps
<1>3. ch[1].group \in Group /\ known \in [Group -> {"no", "queued", "joining", "running", "aborted", "over"}]
  BY <1>1, MessagesDiffer DEF CausalInv, RouterKnows
<1>4. ASSUME ch[1] # Req(g), known[g] = "no"
      PROVE  known'[g] = "no"
  <2>1. CASE ch[1].group # g
    BY <1>3, <1>4, <2>1 DEF Handle
  <2>2. CASE ch[1].group = g
    <3>1. ch[1].kind = "abort"
      BY <1>1, <1>4, <2>2, MessagesDiffer
    <3> QED
      BY <1>3, <1>4, <2>2, <3>1 DEF Handle
  <2> QED
    BY <2>1, <2>2
<1> QED
  BY <1>2, <1>4

LEMMA OnceRouterRecv ==
  ASSUME CausalInv, OnceInv, RouterRecv, NEW g \in Group
  PROVE  Once(g)'
<1>0. /\ Once(g)
      /\ http_to_router \in Seq(EveryMessage) /\ visual_to_router \in Seq(EveryMessage)
  BY ChannelTypes DEF CausalInv, OnceInv
<1>1. UNCHANGED <<http_to_visual, waiting_reqs, reqs_need_infer>>
  BY DEF RouterRecv, Handle, visualVars
<1>2. CASE /\ http_to_router # <<>> /\ http_to_router' = Tail(http_to_router)
           /\ Handle(http_to_router[1]) /\ UNCHANGED visual_to_router
  <2>1. Unique(http_to_router, Req(g))
    BY <1>0 DEF Once
  <2>2. /\ Unique(Tail(http_to_router), Req(g))
        /\ Contains(Tail(http_to_router), Req(g)) =>
             Contains(http_to_router, Req(g)) /\ http_to_router[1] # Req(g)
        /\ http_to_router[1] = Req(g) => Contains(http_to_router, Req(g))
        /\ http_to_router[1] # Req(g) /\ known[g] = "no" => known'[g] = "no"
    BY <1>0, <1>2, <2>1, TakenByRouter
  <2> QED
    BY <1>0, <1>1, <1>2, <2>2 DEF Once, Before, Exclusive
<1>3. CASE /\ visual_to_router # <<>> /\ visual_to_router' = Tail(visual_to_router)
           /\ Handle(visual_to_router[1]) /\ UNCHANGED http_to_router
  <2>1. Unique(visual_to_router, Req(g))
    BY <1>0 DEF Once
  <2>2. /\ Unique(Tail(visual_to_router), Req(g))
        /\ Contains(Tail(visual_to_router), Req(g)) =>
             Contains(visual_to_router, Req(g)) /\ visual_to_router[1] # Req(g)
        /\ visual_to_router[1] = Req(g) => Contains(visual_to_router, Req(g))
        /\ visual_to_router[1] # Req(g) /\ known[g] = "no" => known'[g] = "no"
    BY <1>0, <1>3, <2>1, TakenByRouter
  <2> QED
    BY <1>0, <1>1, <1>3, <2>2 DEF Once, Before, Exclusive
<1> QED
  BY <1>2, <1>3 DEF RouterRecv

LEMMA OnceVisualRecv ==
  ASSUME CausalInv, OnceInv, VisualRecv, NEW g \in Group
  PROVE  Once(g)'
<1>0. Once(g) /\ UnderWay /\ UNCHANGED <<http_to_router, reqs_need_infer, known>>
  BY DEF CausalInv, OnceInv, VisualRecv, routerVars
<1>1. PICK ch, m : ch = http_to_visual /\ m = http_to_visual[1]
  OBVIOUS
<1>2. /\ ch \in Seq(EveryMessage) /\ ch # <<>> /\ m = ch[1] /\ m \in EveryMessage
      /\ waiting_reqs \in Seq(Group) /\ visual_to_router \in Seq(EveryMessage)
  BY <1>0, <1>1, ChannelTypes, FirstMessage DEF VisualRecv
<1>3. /\ http_to_visual' = Tail(ch)
      /\ m.kind = "req" => /\ waiting_reqs' = Append(waiting_reqs, m.group)
                           /\ visual_to_router' = visual_to_router
      /\ m.kind # "req" => /\ visual_to_router' = Append(visual_to_router, m)
                           /\ waiting_reqs' = Among(waiting_reqs, Group \ {m.group})
  BY <1>1 DEF VisualRecv
<1>4. \A Y : /\ Contains(ch, Req(g)) <=> ch[1] = Req(g) \/ Contains(Tail(ch), Req(g))
             /\ Unique(ch, Req(g)) => Unique(Tail(ch), Req(g))
                                       /\ (ch[1] = Req(g) => ~Contains(Tail(ch), Req(g)))
  BY <1>2, TailKeeps
<1>5. CASE m.kind = "req"
  <2>1. m.group \in Group /\ (m = Req(g) <=> m.group = g)
    BY <1>2, <1>5, MessagesDiffer
  <2>2. \A Y : /\ Contains(Append(waiting_reqs, m.group), g) <=> Contains(waiting_reqs, g) \/ g = m.group
               /\ Unique(waiting_reqs, g) /\ ~(g = m.group /\ Contains(waiting_reqs, g))
                    => Unique(Append(waiting_reqs, m.group), g)
    <3>1. PICK x \in Group : x = m.group
      BY <2>1
    <3>2. \A Y : /\ Contains(Append(waiting_reqs, x), g) <=> Contains(waiting_reqs, g) \/ g = x
                 /\ Unique(waiting_reqs, g) /\ ~(g = x /\ Contains(waiting_reqs, g))
                      => Unique(Append(waiting_reqs, x), g)
      BY <1>2, AppendKeeps
    <3> QED
      BY <3>1, <3>2
  <2> QED
    BY <1>0, <1>1, <1>2, <1>3, <1>4, <1>5, <2>1, <2>2 DEF Once, Before, Exclusive
<1>6. CASE m.kind # "req"
  <2>1. m # Req(g)
    BY <1>6 DEF Req
  <2>2. \A Y : /\ Contains(Append(visual_to_router, m), Req(g)) <=>
                    Contains(visual_to_router, Req(g)) \/ Req(g) = m
               /\ Unique(visual_to_router, Req(g)) /\ ~(Req(g) = m /\ Contains(visual_to_router, Req(g)))
                    => Unique(Append(visual_to_router, m), Req(g))
    BY <1>2, AppendKeeps
  <2>3. /\ Contains(Among(waiting_reqs, Group \ {m.group}), g) =>
             Contains(waiting_reqs, g) /\ g \in Group \ {m.group}
        /\ Unique(waiting_reqs, g) => Unique(Among(waiting_reqs, Group \ {m.group}), g)
    BY <1>2, AmongKeeps
  <2> QED
    BY <1>0, <1>1, <1>2, <1>3, <1>4, <1>6, <2>1, <2>2, <2>3 DEF Once, Before, Exclusive
<1> QED
  BY <1>5, <1>6

LEMMA OnceVisualSend ==
  ASSUME CausalInv, OnceInv, VisualSend, NEW g \in Group
  PROVE  Once(g)'
<1>0. /\ Once(g) /\ UnderWay
      /\ UNCHANGED <<http_to_router, http_to_visual, waiting_reqs, known>>
  BY DEF CausalInv, OnceInv, VisualSend, routerVars
<1>1. PICK w, n : w = reqs_need_infer /\ n = Len(reqs_need_infer)
  OBVIOUS
<1>2. /\ w \in Seq(Group) /\ n = Len(w) /\ n \in Nat /\ n \in 0..Len(w)
      /\ visual_to_router \in Seq(EveryMessage)
  BY <1>0, <1>1, ChannelTypes, LenProperties
<1>3. PICK q : q = Requests(w, n)
  OBVIOUS
<1>4. visual_to_router' = visual_to_router \o q /\ reqs_need_infer' = <<>>
  BY <1>1, <1>3 DEF VisualSend, Requests
<1>5. /\ Contains(q, Req(g)) <=> \E i \in 1..n : w[i] = g
      /\ Unique(w, g) => Unique(q, Req(g))
  BY <1>2, <1>3, RequestsKeep
<1>6. q \in Seq(EveryMessage)
  <2>1. \A i \in 1..n : Req(w[i]) \in EveryMessage
    BY <1>2, ElementOfSeq DEF EveryMessage
  <2> QED
    BY <1>2, <1>3, <2>1 DEF Requests
<1>7. /\ Contains(visual_to_router', Req(g)) <=> Contains(visual_to_router, Req(g)) \/ Contains(q, Req(g))
      /\ Unique(visual_to_router, Req(g)) /\ Unique(q, Req(g))
           /\ ~(Contains(visual_to_router, Req(g)) /\ Contains(q, Req(g)))
           => Unique(visual_to_router', Req(g))
  BY <1>2, <1>4, <1>6, ConcatKeeps
<1>8. Contains(w, g) <=> \E i \in 1..n : w[i] = g
  BY <1>2 DEF Contains
<1>9. \A Y : ~Contains(<<>>, g) /\ Unique(<<>>, g)
  BY NothingInEmpty
<1> QED
  BY <1>0, <1>1, <1>4, <1>5, <1>7, <1>8, <1>9 DEF Once, Before, Exclusive

LEMMA OnceHttp ==
  ASSUME CausalInv, OnceInv, NEW h \in Group, Start(h) \/ FindGone(h) \/ BackgroundAbort(h),
         NEW g \in Group
  PROVE  Once(g)'
<1>0. /\ Once(g) /\ UnderWay
      /\ http_to_router \in Seq(EveryMessage) /\ http_to_visual \in Seq(EveryMessage)
      /\ UNCHANGED <<visual_to_router, waiting_reqs, reqs_need_infer, known>>
      /\ Req(h) \in EveryMessage /\ Abort(h) \in EveryMessage
  BY ChannelTypes DEF CausalInv, OnceInv, Start, FindGone, BackgroundAbort, routerVars, visualVars,
     EveryMessage
<1>1. \A y \in EveryMessage : \A Y :
        /\ /\ Contains(Append(http_to_router, y), Req(g)) <=> Contains(http_to_router, Req(g)) \/ Req(g) = y
           /\ Unique(http_to_router, Req(g)) /\ ~(Req(g) = y /\ Contains(http_to_router, Req(g)))
                => Unique(Append(http_to_router, y), Req(g))
        /\ /\ Contains(Append(http_to_visual, y), Req(g)) <=> Contains(http_to_visual, Req(g)) \/ Req(g) = y
           /\ Unique(http_to_visual, Req(g)) /\ ~(Req(g) = y /\ Contains(http_to_visual, Req(g)))
                => Unique(Append(http_to_visual, y), Req(g))
  BY <1>0, AppendKeeps
<1>2. CASE Start(h)
  <2>1. h = g => ~Before(g) /\ known[g] = "no"
    <3>1. h = g => generate[g] = "new"
      BY <1>2 DEF Start
    <3> QED
      BY <1>0, <3>1, NewIsNowhere DEF CausalInv, RouterKnows, Started
  <2>2. Req(g) = Req(h) <=> g = h
    BY MessagesDiffer
  <2>3. \/ http_to_visual' = Append(http_to_visual, Req(h)) /\ UNCHANGED http_to_router
        \/ http_to_router' = Append(http_to_router, Req(h)) /\ UNCHANGED http_to_visual
    BY <1>2 DEF Start
  <2> QED
    BY <1>0, <1>1, <2>1, <2>2, <2>3 DEF Once, Before, Exclusive
<1>3. CASE FindGone(h) \/ BackgroundAbort(h)
  <2>1. /\ http_to_router' = Append(http_to_router, Abort(h))
        /\ http_to_visual' = Append(http_to_visual, Abort(h)) \/ UNCHANGED http_to_visual
    BY <1>3 DEF FindGone, BackgroundAbort, SendAbort
  <2>2. Req(g) # Abort(h)
    BY MessagesDiffer
  <2> QED
    BY <1>0, <1>1, <2>1, <2>2 DEF Once, Before, Exclusive
<1> QED
  BY <1>2, <1>3

LEMMA OnceStep ==
  CausalInv /\ OnceInv /\ [Next]_vars => OnceInv'
<1> SUFFICES ASSUME CausalInv, OnceInv, [Next]_vars, NEW g \in Group
             PROVE  Once(g)'
  BY DEF OnceInv
<1>0. Once(g)
  BY DEF OnceInv
<1>1. ASSUME UNCHANGED <<http_to_router, http_to_visual, visual_to_router, waiting_reqs,
                         reqs_need_infer>>,
             known[g] = "no" => known'[g] = "no"
      PROVE  Once(g)'
  BY <1>0, <1>1 DEF Once, Before, Exclusive
<1>2. ASSUME NEW h \in Group, Leave(h) \/ Read(h) \/ Wake(h) \/ Cancel(h)
      PROVE  Once(g)'
  BY <1>1, <1>2 DEF Leave, Read, Wake, Cancel, httpVars, visualVars, routerVars, channels
<1>3. ASSUME NEW h \in Group, Start(h) \/ FindGone(h) \/ BackgroundAbort(h)
      PROVE  Once(g)'
  BY <1>3, OnceHttp
<1>4. CASE RecvBatch \/ Deliver \/ DetokRecv \/ UNCHANGED vars
  BY <1>1, <1>4 DEF RecvBatch, Deliver, DetokRecv, vars, visualVars, routerVars, channels
<1>5. CASE Visual
  BY <1>5, OnceVisualRecv, OnceTake, OnceVisualSend DEF Visual
<1>6. CASE RouterRecv
  BY <1>6, OnceRouterRecv
<1>7. CASE RouterForward
  <2>1. PICK batch \in SUBSET {h \in Group : known[h] \in {"joining", "running", "aborted"}} :
          \E last \in SUBSET Unended(batch) : Forward(batch, last)
    BY <1>7, ForwardOfKnown
  <2>2. PICK last \in SUBSET Unended(batch) : Forward(batch, last)
    BY <2>1
  <2>3. known[g] = "no" => known'[g] = "no"
    BY <2>2 DEF Forward
  <2> QED
    BY <1>1, <2>2, <2>3 DEF Forward, visualVars
<1>8. CASE Moves
  BY <1>1, <1>8 DEF Moves, visualVars, channels
<1> QED
  BY <1>2, <1>3, <1>4, <1>5, <1>6, <1>7, <1>8, RouterSteps DEF Next, Http

-----------------------------------------------------------------------------
(* An abort follows its request to the router and to the visual server *)

\* Without a visual server its channels and lists stay empty.
TextOnly ==
  ~Multimodal => /\ http_to_visual = <<>> /\ visual_to_router = <<>>
                 /\ waiting_reqs = <<>> /\ reqs_need_infer = <<>>

LEMMA TextOnlyStep ==
  TextOnly /\ [Next]_vars => TextOnly'
<1> SUFFICES ASSUME ~Multimodal, TextOnly, [Next]_vars
             PROVE  /\ http_to_visual' = <<>> /\ visual_to_router' = <<>>
                    /\ waiting_reqs' = <<>> /\ reqs_need_infer' = <<>>
  BY DEF TextOnly
<1> USE DEF TextOnly, visualVars, channels
<1>1. ASSUME NEW h \in Group, Leave(h) \/ Read(h) \/ Wake(h) \/ Cancel(h)
      PROVE  UNCHANGED <<http_to_visual, visual_to_router, visualVars>>
  BY <1>1 DEF Leave, Read, Wake, Cancel
<1>2. ASSUME NEW h \in Group, Start(h) \/ FindGone(h) \/ BackgroundAbort(h)
      PROVE  UNCHANGED <<http_to_visual, visual_to_router, visualVars>>
  BY <1>2 DEF Start, FindGone, BackgroundAbort, SendAbort
<1>3. ASSUME RecvBatch \/ Deliver \/ RouterRecv \/ RouterStep \/ DetokRecv \/ UNCHANGED vars
      PROVE  UNCHANGED <<http_to_visual, visual_to_router, visualVars>>
  BY <1>3 DEF RecvBatch, Deliver, RouterRecv, Handle,
              RouterStep, RouterTake, RouterForward, RouterMerge, Forward, DetokRecv, vars
<1>4. ~Visual
  BY DEF Visual, VisualRecv, VisualTake, VisualSend
<1> QED
  BY <1>1, <1>2, <1>3, <1>4 DEF Next, Http

\* A request whose coroutine has failed is followed by its abort wherever it is: on
\* the way to the router, in its queue, and then on the way to detokenization.
RouterHears(g) ==
  generate[g] = "failed" =>
    /\ Followed(http_to_router, Req(g), {Abort(g)})
    /\ known[g] = "queued" => Contains(http_to_router, Abort(g))
DetokHears(g) ==
  generate[g] = "failed" /\ ~Contains(http_to_router, Abort(g)) =>
    /\ Followed(router_to_detok, Req(g), {Abort(g)})
    /\ (\E s \in SubsOf(g) : s \in req_id_to_out) => Contains(router_to_detok, Abort(g))
VisualHears(g) ==
  generate[g] = "failed" =>
    /\ Followed(http_to_visual, Req(g), {Abort(g)})
    /\ Contains(waiting_reqs, g) => Contains(http_to_visual, Abort(g))
HeardInv ==
  /\ TextOnly
  /\ \A g \in Group : VisualHears(g) /\ (~Multimodal => RouterHears(g) /\ DetokHears(g))

\* A coroutine fails when it sends the aborts.
LEMMA FailsBySending ==
  ASSUME CausalInv, [Next]_vars, NEW g \in Group, generate'[g] = "failed", generate[g] # "failed"
  PROVE  FindGone(g) \/ BackgroundAbort(g)
<1>0. generate \in [Group -> Places]
  BY DEF CausalInv, Coroutines
<1>1. ASSUME NEW h \in Group, Leave(h) \/ Read(h) \/ Wake(h) \/ Cancel(h) \/ Start(h)
      PROVE  FALSE
  BY <1>0, <1>1 DEF Leave, Read, Wake, Cancel, Start, httpVars
<1>2. ASSUME NEW h \in Group, FindGone(h) \/ BackgroundAbort(h)
      PROVE  h = g
  BY <1>0, <1>2 DEF FindGone, BackgroundAbort
<1>3. ASSUME RecvBatch \/ Deliver \/ Visual \/ RouterRecv \/ RouterStep \/ DetokRecv \/ UNCHANGED vars
      PROVE  FALSE
  BY <1>3 DEF RecvBatch, Deliver, Visual, VisualRecv, VisualTake, VisualSend, RouterRecv, Handle,
              RouterStep, RouterTake, RouterForward, RouterMerge, Forward, DetokRecv, vars, httpVars
<1> QED
  BY <1>1, <1>2, <1>3 DEF Next, Http

\* What the coroutines put into a channel keeps the requests in it followed.
LEMMA SentAndFollowed ==
  ASSUME CausalInv, NEW h \in Group, Start(h) \/ FindGone(h) \/ BackgroundAbort(h),
         NEW g \in Group, generate'[g] = "failed",
         NEW ch \in Seq(EveryMessage), NEW after,
         \/ /\ generate[g] = "failed" /\ after = ch
         \/ Start(h) /\ after = Append(ch, Req(h))
         \/ (FindGone(h) \/ BackgroundAbort(h)) /\ after = Append(ch, Abort(h)),
         generate[g] = "failed" => Followed(ch, Req(g), {Abort(g)})
  PROVE  /\ Followed(after, Req(g), {Abort(g)})
         /\ generate[g] = "failed" /\ Contains(ch, Abort(g)) => Contains(after, Abort(g))
         /\ generate[g] # "failed" => Contains(after, Abort(g))
<1>0. generate \in [Group -> Places] /\ Req(h) \in EveryMessage /\ Abort(h) \in EveryMessage
  BY DEF CausalInv, Coroutines, EveryMessage
<1>1. \A y \in EveryMessage :
        /\ Contains(Append(ch, y), Abort(g)) <=> Contains(ch, Abort(g)) \/ Abort(g) = y
        /\ Req(g) # y /\ (y \in {Abort(g)} \/ Followed(ch, Req(g), {Abort(g)}))
             => Followed(Append(ch, y), Req(g), {Abort(g)})
  BY AppendKeeps
<1>2. CASE generate[g] = "failed" /\ after = ch
  BY <1>2
<1>3. CASE Start(h) /\ after = Append(ch, Req(h))
  <2>1. generate[g] = "failed" /\ h # g
    BY <1>0, <1>3 DEF Start
  <2>2. Req(g) # Req(h)
    BY <2>1, MessagesDiffer
  <2> QED
    BY <1>0, <1>1, <1>3, <2>1, <2>2
<1>4. CASE (FindGone(h) \/ BackgroundAbort(h)) /\ after = Append(ch, Abort(h))
  <2>1. generate[g] # "failed" => h = g
    BY <1>0, <1>4 DEF FindGone, BackgroundAbort
  <2>2. Req(g) # Abort(h)
    BY MessagesDiffer
  <2> QED
    BY <1>0, <1>1, <1>4, <2>1, <2>2
<1> QED
  BY <1>2, <1>3, <1>4

LEMMA RouterHearsStep ==
  ASSUME CausalInv, HeardInv, ~Multimodal, [Next]_vars, NEW g \in Group
  PROVE  RouterHears(g)'
<1>0. /\ RouterHears(g) /\ UnderWay /\ RouterKnows /\ http_to_router \in Seq(EveryMessage)
      /\ visual_to_router = <<>>
  BY ChannelTypes DEF HeardInv, CausalInv, TextOnly
<1> SUFFICES ASSUME generate'[g] = "failed"
             PROVE  /\ Followed(http_to_router', Req(g), {Abort(g)})
                    /\ known'[g] = "queued" => Contains(http_to_router', Abort(g))
  BY DEF RouterHears
<1>1. ASSUME UNCHANGED http_to_router, generate[g] = "failed",
             known'[g] = "queued" => known[g] = "queued"
      PROVE  /\ Followed(http_to_router', Req(g), {Abort(g)})
             /\ known'[g] = "queued" => Contains(http_to_router', Abort(g))
  BY <1>0, <1>1 DEF RouterHears
<1>2. ASSUME NEW h \in Group, Start(h) \/ FindGone(h) \/ BackgroundAbort(h)
      PROVE  /\ Followed(http_to_router', Req(g), {Abort(g)})
             /\ known'[g] = "queued" => Contains(http_to_router', Abort(g))
  <2>1. UNCHANGED known
    BY <1>2 DEF Start, FindGone, BackgroundAbort, routerVars
  <2>2. \/ Start(h) /\ http_to_router' = Append(http_to_router, Req(h))
        \/ (FindGone(h) \/ BackgroundAbort(h)) /\ http_to_router' = Append(http_to_router, Abort(h))
    BY <1>2 DEF Start, FindGone, BackgroundAbort, SendAbort
  <2>3. generate[g] = "failed" => Followed(http_to_router, Req(g), {Abort(g)})
    BY <1>0 DEF RouterHears
  <2>4. /\ Followed(http_to_router', Req(g), {Abort(g)})
        /\ generate[g] = "failed" /\ Contains(http_to_router, Abort(g)) => Contains(http_to_router', Abort(g))
        /\ generate[g] # "failed" => Contains(http_to_router', Abort(g))
    BY <1>0, <1>2, <2>2, <2>3, SentAndFollowed
  <2> QED
    BY <1>0, <2>1, <2>4 DEF RouterHears
<1>3. ASSUME ~\E h \in Group : Start(h) \/ FindGone(h) \/ BackgroundAbort(h)
      PROVE  generate[g] = "failed"
  BY <1>3, FailsBySending
<1>4. ASSUME NEW h \in Group, Leave(h) \/ Read(h) \/ Wake(h) \/ Cancel(h)
      PROVE  UNCHANGED <<http_to_router, known>>
  BY <1>4 DEF Leave, Read, Wake, Cancel, routerVars, channels
<1>5. ASSUME RecvBatch \/ Deliver \/ Visual \/ DetokRecv \/ UNCHANGED vars
      PROVE  UNCHANGED <<http_to_router, known>>
  BY <1>5 DEF RecvBatch, Deliver, Visual, VisualRecv, VisualTake, VisualSend, DetokRecv, vars,
     routerVars, channels
<1>6. ASSUME RouterRecv, generate[g] = "failed"
      PROVE  /\ Followed(http_to_router', Req(g), {Abort(g)})
             /\ known'[g] = "queued" => Contains(http_to_router', Abort(g))
  <2>1. PICK ch, m : ch = http_to_router /\ m = http_to_router[1]
    OBVIOUS
  <2>2. /\ ch \in Seq(EveryMessage) /\ ch # <<>> /\ m = ch[1] /\ m \in EveryMessage
        /\ http_to_router' = Tail(ch) /\ Handle(m)
    BY <1>0, <1>6, <2>1, FirstMessage DEF RouterRecv
  <2>3. /\ Contains(ch, Abort(g)) <=> ch[1] = Abort(g) \/ Contains(Tail(ch), Abort(g))
        /\ Meets(ch, {Abort(g)}) <=> ch[1] \in {Abort(g)} \/ Meets(Tail(ch), {Abort(g)})
    BY <2>2, TailKeeps
  <2>4. Followed(ch, Req(g), {Abort(g)}) =>
          Followed(Tail(ch), Req(g), {Abort(g)}) /\ (ch[1] = Req(g) => Meets(Tail(ch), {Abort(g)}))
    BY <2>2, TailKeeps
  <2>5. Contains(Tail(ch), Abort(g)) <=> Meets(Tail(ch), {Abort(g)})
    BY ContainsMeets
  <2>6. m.kind \in {"req", "abort"} /\ m.group \in Group
        /\ (m.kind = "req" => m = Req(m.group)) /\ (m.kind = "abort" => m = Abort(m.group))
    BY <2>2, MessagesDiffer
  <2>7. /\ m.group # g => known'[g] = known[g]
        /\ m.group = g /\ m.kind = "abort" => known'[g] # "queued"
    BY <1>0, <2>2, <2>6 DEF Handle, RouterKnows
  <2>8. Followed(ch, Req(g), {Abort(g)})
        /\ (known[g] = "queued" => Contains(ch, Abort(g)))
    BY <1>0, <1>6, <2>1 DEF RouterHears
  <2>9. m = Abort(g) => m.group = g
    BY DEF Abort
  <2> QED
    BY <2>2, <2>3, <2>4, <2>5, <2>6, <2>7, <2>8, <2>9
<1>7. ASSUME RouterStep
      PROVE  /\ UNCHANGED http_to_router
             /\ known'[g] = "queued" => known[g] = "queued"
  <2>1. CASE Moves
    BY <2>1 DEF Moves, channels
  <2>2. CASE RouterForward
    BY <2>2 DEF RouterForward, Forward
  <2> QED
    BY <1>7, <2>1, <2>2, RouterSteps
<1> QED
  BY <1>1, <1>2, <1>3, <1>4, <1>5, <1>6, <1>7 DEF Next, Http

\* What follows an abort into a channel, and what goes out of it.
LEMMA DetokHearsStep ==
  ASSUME CausalInv, HeardInv, ~Multimodal, [Next]_vars, NEW g \in Group
  PROVE  DetokHears(g)'
<1>0. /\ RouterHears(g) /\ DetokHears(g) /\ UnderWay /\ RouterKnows
      /\ http_to_router \in Seq(EveryMessage) /\ visual_to_router = <<>>
      /\ router_to_detok \in Seq(EveryMessage \cup EveryToken)
  BY ChannelTypes DEF HeardInv, CausalInv, TextOnly
<1>a. PICK ch, d : ch = http_to_router /\ d = router_to_detok
  OBVIOUS
<1> SUFFICES ASSUME generate'[g] = "failed", ~Contains(http_to_router', Abort(g))
             PROVE  /\ Followed(router_to_detok', Req(g), {Abort(g)})
                    /\ (\E s \in SubsOf(g) : s \in req_id_to_out') => Contains(router_to_detok', Abort(g))
  BY DEF DetokHears
<1> DEFINE Goal == /\ Followed(router_to_detok', Req(g), {Abort(g)})
                   /\ (\E s \in SubsOf(g) : s \in req_id_to_out') => Contains(router_to_detok', Abort(g))
<1>1. ASSUME UNCHANGED <<router_to_detok, req_id_to_out>>, generate[g] = "failed",
             ~Contains(http_to_router, Abort(g))
      PROVE  Goal
  BY <1>0, <1>1 DEF DetokHears
<1>2. ASSUME NEW h \in Group, Start(h) \/ FindGone(h) \/ BackgroundAbort(h)
      PROVE  Goal
  <2>1. UNCHANGED <<router_to_detok, req_id_to_out>>
    BY <1>2 DEF Start, FindGone, BackgroundAbort
  <2>2. \/ Start(h) /\ http_to_router' = Append(http_to_router, Req(h))
        \/ (FindGone(h) \/ BackgroundAbort(h)) /\ http_to_router' = Append(http_to_router, Abort(h))
    BY <1>2 DEF Start, FindGone, BackgroundAbort, SendAbort
  <2>3. generate[g] = "failed" => Followed(http_to_router, Req(g), {Abort(g)})
    BY <1>0 DEF RouterHears
  <2>4. /\ generate[g] = "failed" /\ Contains(http_to_router, Abort(g)) => Contains(http_to_router', Abort(g))
        /\ generate[g] # "failed" => Contains(http_to_router', Abort(g))
    BY <1>0, <1>2, <2>2, <2>3, SentAndFollowed
  <2> QED
    BY <1>1, <2>1, <2>4
<1>3. ASSUME ~\E h \in Group : Start(h) \/ FindGone(h) \/ BackgroundAbort(h)
      PROVE  generate[g] = "failed"
  BY <1>3, FailsBySending
<1>4. ASSUME NEW h \in Group, Leave(h) \/ Read(h) \/ Wake(h) \/ Cancel(h)
      PROVE  UNCHANGED <<http_to_router, router_to_detok, req_id_to_out>>
  BY <1>4 DEF Leave, Read, Wake, Cancel, channels
<1>5. ASSUME RecvBatch \/ Deliver \/ Visual \/ Moves \/ UNCHANGED vars
      PROVE  UNCHANGED <<http_to_router, router_to_detok, req_id_to_out>>
  BY <1>5 DEF RecvBatch, Deliver, Visual, VisualRecv, VisualTake, VisualSend, Moves, vars, channels
<1>6. ASSUME RouterRecv, generate[g] = "failed"
      PROVE  Goal
  <2>1. PICK m : m = ch[1]
    OBVIOUS
  <2>2. /\ ch \in Seq(EveryMessage) /\ ch # <<>> /\ m \in EveryMessage
        /\ http_to_router' = Tail(ch) /\ Handle(m)
    BY <1>0, <1>a, <1>6, <2>1, FirstMessage DEF RouterRecv
  <2>3. router_to_detok' = Append(d, m) /\ UNCHANGED req_id_to_out
    BY <1>a, <2>2 DEF Handle
  <2>4. /\ Contains(ch, Abort(g)) <=> ch[1] = Abort(g) \/ Contains(Tail(ch), Abort(g))
        /\ Followed(ch, Req(g), {Abort(g)}) =>
             Followed(Tail(ch), Req(g), {Abort(g)}) /\ (ch[1] = Req(g) => Meets(Tail(ch), {Abort(g)}))
    BY <2>2, TailKeeps
  <2>5. Contains(Tail(ch), Abort(g)) <=> Meets(Tail(ch), {Abort(g)})
    BY ContainsMeets
  <2>6. m # Req(g)
    BY <1>0, <1>a, <1>6, <2>1, <2>2, <2>4, <2>5 DEF RouterHears
  <2>7. /\ Contains(Append(d, m), Abort(g)) <=> Contains(d, Abort(g)) \/ Abort(g) = m
        /\ Req(g) # m /\ (m \in {Abort(g)} \/ Followed(d, Req(g), {Abort(g)}))
             => Followed(Append(d, m), Req(g), {Abort(g)})
    <3>1. d \in Seq(EveryMessage \cup EveryToken) /\ m \in EveryMessage \cup EveryToken
      BY <1>0, <1>a, <2>2
    <3> QED
      BY <3>1, AppendKeeps
  <2>8. CASE m = Abort(g)
    BY <2>3, <2>6, <2>7, <2>8
  <2>9. CASE m # Abort(g)
    <3>1. ~Contains(http_to_router, Abort(g))
      BY <1>a, <2>1, <2>2, <2>4, <2>9
    <3> QED
      BY <1>0, <1>a, <1>6, <2>3, <2>6, <2>7, <3>1 DEF DetokHears
  <2> QED
    BY <2>8, <2>9
<1>7. ASSUME RouterForward, generate[g] = "failed"
      PROVE  Goal
  <2>1. PICK batch \in SUBSET Group : \E last \in SUBSET Unended(batch) : Forward(batch, last)
    BY <1>7 DEF RouterForward
  <2>2. PICK last \in SUBSET Unended(batch) : Forward(batch, last)
    BY <2>1
  <2>3. PICK m : m = [kind |-> "tokens", batch |-> Outcomes(batch, last)]
    OBVIOUS
  <2>4. /\ router_to_detok' = Append(d, m)
        /\ UNCHANGED <<req_id_to_out, http_to_router>>
    BY <1>a, <2>2, <2>3 DEF Forward
  <2>5. m # Req(g) /\ m # Abort(g)
    BY <2>3 DEF Req, Abort
  <2>6. /\ Contains(Append(d, m), Abort(g)) <=> Contains(d, Abort(g)) \/ Abort(g) = m
        /\ Req(g) # m /\ (m \in {Abort(g)} \/ Followed(d, Req(g), {Abort(g)}))
             => Followed(Append(d, m), Req(g), {Abort(g)})
    <3>1. EveryMessage \cup EveryToken \subseteq EveryMessage \cup EveryToken \cup {m}
      OBVIOUS
    <3>2. d \in Seq(EveryMessage \cup EveryToken \cup {m})
      BY <1>0, <1>a, <3>1, SeqMonotonic
    <3> QED
      BY <3>2, AppendKeeps
  <2>7. ~Contains(http_to_router, Abort(g))
    BY <2>4
  <2> QED
    BY <1>0, <1>a, <1>7, <2>4, <2>5, <2>6, <2>7 DEF DetokHears
<1>8. ASSUME DetokRecv, generate[g] = "failed"
      PROVE  Goal
  <2>1. PICK m : m = d[1]
    OBVIOUS
  <2>2. /\ d \in Seq(EveryMessage \cup EveryToken) /\ d # <<>> /\ m \in EveryMessage \cup EveryToken
        /\ router_to_detok' = Tail(d) /\ UNCHANGED http_to_router
    BY <1>0, <1>a, <1>8, <2>1, FirstMessage DEF DetokRecv
  <2>3. /\ Contains(d, Abort(g)) <=> d[1] = Abort(g) \/ Contains(Tail(d), Abort(g))
        /\ Followed(d, Req(g), {Abort(g)}) =>
             Followed(Tail(d), Req(g), {Abort(g)}) /\ (d[1] = Req(g) => Meets(Tail(d), {Abort(g)}))
    BY <2>2, TailKeeps
  <2>4. Contains(Tail(d), Abort(g)) <=> Meets(Tail(d), {Abort(g)})
    BY ContainsMeets
  <2>5. /\ Followed(d, Req(g), {Abort(g)})
        /\ (\E s \in SubsOf(g) : s \in req_id_to_out) => Contains(d, Abort(g))
    BY <1>0, <1>a, <1>8, <2>2 DEF DetokHears
  <2>6. \A h \in Group : \A s \in SubsOf(h) : s[1] = h
    BY SubFacts
  <2>7. CASE m.kind = "req"
    <3>1. m = Req(m.group) /\ m.group \in Group
      BY <2>2, <2>7, DetokMessages
    <3>2. req_id_to_out' = req_id_to_out \cup SubsOf(m.group)
      BY <1>8, <1>a, <2>1, <2>7 DEF DetokRecv
    <3>3. m # Abort(g)
      BY <3>1, MessagesDiffer
    <3>4. CASE m.group = g
      BY <2>1, <2>2, <2>3, <2>4, <2>5, <3>1, <3>4
    <3>5. CASE m.group # g
      <4>1. \A s \in SubsOf(g) : s \in req_id_to_out' => s \in req_id_to_out
        BY <2>6, <3>1, <3>2, <3>5
      <4> QED
        BY <2>1, <2>2, <2>3, <2>5, <3>3, <4>1
    <3> QED
      BY <3>4, <3>5
  <2>8. CASE m.kind = "abort"
    <3>1. m = Abort(m.group) /\ m.group \in Group
      BY <2>2, <2>8, DetokMessages
    <3>2. req_id_to_out' = req_id_to_out \ SubsOf(m.group)
      BY <1>8, <1>a, <2>1, <2>8 DEF DetokRecv
    <3>3. CASE m.group = g
      <4>1. ~\E s \in SubsOf(g) : s \in req_id_to_out'
        BY <3>2, <3>3
      <4> QED
        BY <2>2, <2>3, <2>5, <4>1
    <3>4. CASE m.group # g
      <4>1. m # Abort(g)
        BY <3>1, <3>4 DEF Abort
      <4>2. \A s \in SubsOf(g) : s \in req_id_to_out' => s \in req_id_to_out
        BY <3>2
      <4> QED
        BY <2>1, <2>2, <2>3, <2>5, <4>1, <4>2
    <3> QED
      BY <3>3, <3>4
  <2>9. CASE m.kind = "tokens"
    <3>1. m # Abort(g)
      BY <2>9 DEF Abort
    <3>2. req_id_to_out' \subseteq req_id_to_out
      BY <1>8, <1>a, <2>1, <2>9 DEF DetokRecv
    <3> QED
      BY <2>1, <2>2, <2>3, <2>5, <3>1, <3>2
  <2> QED
    BY <2>2, <2>7, <2>8, <2>9, DetokMessages
<1> HIDE DEF Goal
<1>9. Goal
  <2>1. CASE \E h \in Group : Start(h) \/ FindGone(h) \/ BackgroundAbort(h)
    BY <1>2, <2>1
  <2>2. CASE ~\E h \in Group : Start(h) \/ FindGone(h) \/ BackgroundAbort(h)
    <3>1. generate[g] = "failed"
      BY <1>3, <2>2
    <3>2. ASSUME UNCHANGED <<http_to_router, router_to_detok, req_id_to_out>>
          PROVE  Goal
      BY <1>1, <3>1, <3>2
    <3> QED
      BY <1>4, <1>5, <1>6, <1>7, <1>8, <2>2, <3>1, <3>2, RouterSteps DEF Next, Http
  <2> QED
    BY <2>1, <2>2
<1> QED
  BY <1>9 DEF Goal

LEMMA VisualHearsStep ==
  ASSUME CausalInv, HeardInv, Multimodal, [Next]_vars, NEW g \in Group
  PROVE  VisualHears(g)'
<1>0. /\ VisualHears(g) /\ UnderWay /\ http_to_visual \in Seq(EveryMessage)
      /\ waiting_reqs \in Seq(Group)
  BY ChannelTypes DEF HeardInv, CausalInv
<1> SUFFICES ASSUME generate'[g] = "failed"
             PROVE  /\ Followed(http_to_visual', Req(g), {Abort(g)})
                    /\ Contains(waiting_reqs', g) => Contains(http_to_visual', Abort(g))
  BY DEF VisualHears
<1>1. ASSUME UNCHANGED http_to_visual, generate[g] = "failed",
             Contains(waiting_reqs', g) => Contains(waiting_reqs, g)
      PROVE  /\ Followed(http_to_visual', Req(g), {Abort(g)})
             /\ Contains(waiting_reqs', g) => Contains(http_to_visual', Abort(g))
  BY <1>0, <1>1 DEF VisualHears
<1>2. ASSUME NEW h \in Group, Start(h) \/ FindGone(h) \/ BackgroundAbort(h)
      PROVE  /\ Followed(http_to_visual', Req(g), {Abort(g)})
             /\ Contains(waiting_reqs', g) => Contains(http_to_visual', Abort(g))
  <2>1. UNCHANGED waiting_reqs
    BY <1>2 DEF Start, FindGone, BackgroundAbort, visualVars
  <2>2. \/ Start(h) /\ http_to_visual' = Append(http_to_visual, Req(h))
        \/ (FindGone(h) \/ BackgroundAbort(h)) /\ http_to_visual' = Append(http_to_visual, Abort(h))
    BY <1>2 DEF Start, FindGone, BackgroundAbort, SendAbort
  <2>3. generate[g] = "failed" => Followed(http_to_visual, Req(g), {Abort(g)})
    BY <1>0 DEF VisualHears
  <2>4. /\ Followed(http_to_visual', Req(g), {Abort(g)})
        /\ generate[g] = "failed" /\ Contains(http_to_visual, Abort(g)) => Contains(http_to_visual', Abort(g))
        /\ generate[g] # "failed" => Contains(http_to_visual', Abort(g))
    BY <1>0, <1>2, <2>2, <2>3, SentAndFollowed
  <2> QED
    BY <1>0, <2>1, <2>4 DEF VisualHears
<1>3. ASSUME ~\E h \in Group : Start(h) \/ FindGone(h) \/ BackgroundAbort(h)
      PROVE  generate[g] = "failed"
  BY <1>3, FailsBySending
<1>4. ASSUME NEW h \in Group, Leave(h) \/ Read(h) \/ Wake(h) \/ Cancel(h)
      PROVE  UNCHANGED <<http_to_visual, waiting_reqs>>
  BY <1>4 DEF Leave, Read, Wake, Cancel, visualVars, channels
<1>5. ASSUME RecvBatch \/ Deliver \/ VisualSend \/ RouterRecv \/ RouterStep \/ DetokRecv \/ UNCHANGED vars
      PROVE  UNCHANGED <<http_to_visual, waiting_reqs>>
  BY <1>5 DEF RecvBatch, Deliver, VisualSend, RouterRecv, Handle,
              RouterStep, RouterTake, RouterForward, RouterMerge, Forward, DetokRecv,
     vars, visualVars, channels
<1>6. ASSUME VisualRecv, generate[g] = "failed"
      PROVE  /\ Followed(http_to_visual', Req(g), {Abort(g)})
             /\ Contains(waiting_reqs', g) => Contains(http_to_visual', Abort(g))
  <2>1. PICK ch, m : ch = http_to_visual /\ m = http_to_visual[1]
    OBVIOUS
  <2>2. /\ ch \in Seq(EveryMessage) /\ ch # <<>> /\ m = ch[1] /\ m \in EveryMessage
        /\ http_to_visual' = Tail(ch)
        /\ m.kind = "req" => waiting_reqs' = Append(waiting_reqs, m.group)
        /\ m.kind # "req" => waiting_reqs' = Among(waiting_reqs, Group \ {m.group})
    BY <1>0, <1>6, <2>1, FirstMessage DEF VisualRecv
  <2>3. /\ Contains(ch, Abort(g)) <=> ch[1] = Abort(g) \/ Contains(Tail(ch), Abort(g))
        /\ Meets(ch, {Abort(g)}) <=> ch[1] \in {Abort(g)} \/ Meets(Tail(ch), {Abort(g)})
    BY <2>2, TailKeeps
  <2>4. Followed(ch, Req(g), {Abort(g)}) =>
          Followed(Tail(ch), Req(g), {Abort(g)}) /\ (ch[1] = Req(g) => Meets(Tail(ch), {Abort(g)}))
    BY <2>2, TailKeeps
  <2>5. Contains(Tail(ch), Abort(g)) <=> Meets(Tail(ch), {Abort(g)})
    BY ContainsMeets
  <2>6. PICK x \in Group : x = m.group
    BY <2>2, MessagesDiffer
  <2>7. m.kind \in {"req", "abort"} /\ (m.kind = "req" => m = Req(x)) /\ (m.kind = "abort" => m = Abort(x))
        /\ (m = Abort(g) => m.kind = "abort" /\ x = g)
    BY <2>2, <2>6, MessagesDiffer DEF Abort
  <2>8. Contains(Append(waiting_reqs, x), g) => Contains(waiting_reqs, g) \/ g = x
    <3>1. \A Y : Contains(Append(waiting_reqs, x), g) <=> Contains(waiting_reqs, g) \/ g = x
      BY <1>0, AppendKeeps
    <3> QED
      BY <3>1
  <2>9. Contains(Among(waiting_reqs, Group \ {x}), g) => Contains(waiting_reqs, g) /\ g \in Group \ {x}
    BY <1>0, AmongKeeps
  <2>10. Followed(ch, Req(g), {Abort(g)})
         /\ (Contains(waiting_reqs, g) => Contains(ch, Abort(g)))
    BY <1>0, <1>6, <2>1 DEF VisualHears
  <2>11. CASE m.kind = "req"
    <3>1. Contains(waiting_reqs', g) => Contains(waiting_reqs, g) \/ m = Req(g)
      BY <2>2, <2>6, <2>7, <2>8, <2>11
    <3> QED
      BY <2>2, <2>3, <2>4, <2>5, <2>7, <2>10, <2>11, <3>1
  <2>12. CASE m.kind = "abort"
    <3>1. Contains(waiting_reqs', g) => Contains(waiting_reqs, g) /\ m # Abort(g)
      BY <2>2, <2>6, <2>7, <2>9, <2>12
    <3> QED
      BY <2>2, <2>3, <2>4, <2>10, <3>1
  <2> QED
    BY <2>7, <2>11, <2>12
<1>7. ASSUME VisualTake
      PROVE  UNCHANGED http_to_visual /\ (Contains(waiting_reqs', g) => Contains(waiting_reqs, g))
  <2>1. PICK m \in Nat, n \in 1..Len(waiting_reqs) :
            /\ m <= n
            /\ visual_to_router' = visual_to_router \o Requests(waiting_reqs, m)
            /\ reqs_need_infer' = SubSeq(waiting_reqs, m+1, n)
            /\ waiting_reqs' = SubSeq(waiting_reqs, n+1, Len(waiting_reqs))
    BY <1>7, TakenInOrder
  <2>2. PICK L \in Nat : L = Len(waiting_reqs)
    BY <1>0, LenProperties
  <2>3. n+1 \in Nat \ {0} /\ L \in 0..Len(waiting_reqs) /\ \A i \in (n+1)..L : i \in 1..L
    BY <2>1, <2>2
  <2>4. Contains(SubSeq(waiting_reqs, n+1, L), g) <=> \E i \in (n+1)..L : waiting_reqs[i] = g
    <3>0. PICK w : w = waiting_reqs
      OBVIOUS
    <3>1. PICK a \in Nat \ {0} : a = n+1
      BY <2>3
    <3>2. w \in Seq(Group) /\ L \in 0..Len(w)
      BY <1>0, <2>3, <3>0
    <3>3. Contains(SubSeq(w, a, L), g) <=> \E i \in a..L : w[i] = g
      BY <3>2, PartKeeps
    <3> QED
      BY <3>0, <3>1, <3>3
  <2>5. UNCHANGED http_to_visual
    BY <1>7 DEF VisualTake
  <2> QED
    BY <2>1, <2>2, <2>3, <2>4, <2>5 DEF Contains
<1> QED
  BY <1>1, <1>2, <1>3, <1>4, <1>5, <1>6, <1>7 DEF Next, Http, Visual

LEMMA HeardStep ==
  CausalInv /\ HeardInv /\ [Next]_vars => HeardInv'
<1> SUFFICES ASSUME CausalInv, HeardInv, [Next]_vars
             PROVE  HeardInv'
  OBVIOUS
<1>1. TextOnly'
  BY TextOnlyStep DEF HeardInv
<1>2. ASSUME NEW g \in Group
      PROVE  VisualHears(g)'
  <2>1. CASE Multimodal
    BY <2>1, VisualHearsStep
  <2>2. CASE ~Multimodal
    <3>1. http_to_visual' = <<>> /\ waiting_reqs' = <<>>
      BY <1>1, <2>2 DEF TextOnly
    <3>2. \A x, Y : ~Contains(<<>>, x) /\ Followed(<<>>, x, Y)
      BY NothingInEmpty
    <3> QED
      BY <3>1, <3>2 DEF VisualHears
  <2> QED
    BY <2>1, <2>2
<1>3. ~Multimodal => \A g \in Group : RouterHears(g)' /\ DetokHears(g)'
  BY RouterHearsStep, DetokHearsStep
<1> QED
  BY <1>1, <1>2, <1>3 DEF HeardInv

-----------------------------------------------------------------------------
(* What is left in detokenization will be taken away *)

\* The router works for the answer; the messages that take its state away.
Alive(s) == known[s[1]] \in {"queued", "joining", "running"} /\ s \notin ended
Ends(s)  == {m \in EveryMessage \cup EveryToken :
               m = Abort(s[1]) \/ (Has(m, s) /\ m.batch[s].finish # "no")}
Cleared(s) ==
  ~Alive(s) => /\ s \in req_id_to_out => Meets(router_to_detok, Ends(s))
               /\ Followed(router_to_detok, Req(s[1]), Ends(s))
ClearedInv == \A s \in Sub : Cleared(s)

LEMMA ClearedByRouterRecv ==
  ASSUME CausalInv, OnceInv, ClearedInv, RouterRecv, NEW s \in Sub
  PROVE  Cleared(s)'
<1>0. /\ Cleared(s) /\ RouterKnows /\ s[1] \in Group
      /\ http_to_router \in Seq(EveryMessage) /\ visual_to_router \in Seq(EveryMessage)
      /\ router_to_detok \in Seq(EveryMessage \cup EveryToken)
  BY ChannelTypes, SubFacts DEF CausalInv, ClearedInv
<1>1. PICK m \in EveryMessage : Handle(m) /\ (m = Req(s[1]) => known[s[1]] = "no")
  <2>1. CASE http_to_router # <<>> /\ Handle(http_to_router[1])
    <3>1. http_to_router[1] \in EveryMessage
      BY <1>0, <2>1, FirstMessage
    <3>2. http_to_router[1] = Req(s[1]) => Contains(http_to_router, Req(s[1]))
      <4>1. \A x, Y : Contains(http_to_router, x) <=> http_to_router[1] = x \/ Contains(Tail(http_to_router), x)
        BY <1>0, <2>1, TailKeeps
      <4> QED
        BY <4>1
    <3>3. Contains(http_to_router, Req(s[1])) => known[s[1]] = "no"
      BY <1>0 DEF OnceInv, Once, Before
    <3> QED
      BY <2>1, <3>1, <3>2, <3>3
  <2>2. CASE visual_to_router # <<>> /\ Handle(visual_to_router[1])
    <3>1. visual_to_router[1] \in EveryMessage
      BY <1>0, <2>2, FirstMessage
    <3>2. visual_to_router[1] = Req(s[1]) => Contains(visual_to_router, Req(s[1]))
      <4>1. \A x, Y : Contains(visual_to_router, x) <=> visual_to_router[1] = x \/ Contains(Tail(visual_to_router), x)
        BY <1>0, <2>2, TailKeeps
      <4> QED
        BY <4>1
    <3>3. Contains(visual_to_router, Req(s[1])) => known[s[1]] = "no"
      BY <1>0 DEF OnceInv, Once, Before
    <3> QED
      BY <2>2, <3>1, <3>2, <3>3
  <2> QED
    BY <2>1, <2>2 DEF RouterRecv
<1>2. /\ m.kind \in {"req", "abort"} /\ m.group \in Group
      /\ (m.kind = "req" => m = Req(m.group)) /\ (m.kind = "abort" => m = Abort(m.group))
  BY MessagesDiffer
<1>3. /\ UNCHANGED <<ended, req_id_to_out>>
      /\ router_to_detok' = Append(router_to_detok, m)
  BY <1>1 DEF Handle
<1>4. CASE m = Req(s[1])
  <2>1. known'[s[1]] = "queued" /\ s \notin ended
    <3>1. m.group = s[1] /\ m.kind = "req"
      BY <1>4 DEF Req
    <3> QED
      BY <1>0, <1>1, <1>4, <3>1 DEF Handle, RouterKnows
  <2> QED
    BY <1>3, <2>1 DEF Cleared, Alive
<1>5. CASE m # Req(s[1])
  <2>1. PICK ch, e : ch = router_to_detok /\ e = Ends(s)
    OBVIOUS
  <2>2. /\ Meets(Append(ch, m), e) <=> Meets(ch, e) \/ m \in e
        /\ Req(s[1]) # m /\ (m \in e \/ Followed(ch, Req(s[1]), e)) => Followed(Append(ch, m), Req(s[1]), e)
    <3>1. ch \in Seq(EveryMessage \cup EveryToken) /\ m \in EveryMessage \cup EveryToken
      BY <1>0, <2>1
    <3> QED
      BY <3>1, AppendKeeps
  <2>3. m \notin e => m.group # s[1]
    BY <1>2, <1>5, <2>1 DEF Ends
  <2>4. m.group # s[1] => known'[s[1]] = known[s[1]]
    BY <1>0, <1>1, <1>2 DEF Handle, RouterKnows
  <2>5. Ends(s)' = Ends(s)
    BY DEF Ends, Has
  <2> QED
    BY <1>0, <1>3, <1>5, <2>1, <2>2, <2>3, <2>4, <2>5 DEF Cleared, Alive
<1> QED
  BY <1>4, <1>5

LEMMA ClearedByForward ==
  ASSUME CausalInv, ClearedInv, RouterForward, NEW s \in Sub
  PROVE  Cleared(s)'
<1>0. /\ Cleared(s) /\ RouterKnows /\ s[1] \in Group /\ s \in SubsOf(s[1])
      /\ router_to_detok \in Seq(EveryMessage \cup EveryToken)
  BY ChannelTypes, SubFacts DEF CausalInv, ClearedInv
<1>1. PICK batch \in SUBSET {h \in Group : known[h] \in {"joining", "running", "aborted"}} :
        \E last \in SUBSET Unended(batch) : Forward(batch, last)
  BY ForwardOfKnown
<1>2. PICK last \in SUBSET Unended(batch) : Forward(batch, last)
  BY <1>1
<1>3. PICK b, m : b = Outcomes(batch, last) /\ m = [kind |-> "tokens", batch |-> b]
  OBVIOUS
<1>4. DOMAIN b = Unended(batch) /\ \A t \in last : t \in DOMAIN b /\ b[t].finish # "no"
  BY <1>3 DEF Outcomes
<1>5. m \in EveryToken
  <2>1. Unended(batch) \in SUBSET Sub /\ \A t \in Unended(batch) : generated[t] + 1 \in Nat \ {0}
    BY <1>0 DEF RouterKnows, Unended
  <2>2. b \in [Unended(batch) -> Outcome]
    BY <1>3, <2>1 DEF Outcome, Outcomes
  <2>3. b \in EveryBatch
    BY <2>1, <2>2 DEF EveryBatch
  <2> QED
    BY <1>3, <2>3 DEF EveryToken
<1>6. /\ router_to_detok' = Append(router_to_detok, m)
      /\ UNCHANGED req_id_to_out /\ ended' = ended \cup last
  BY <1>2, <1>3 DEF Forward
<1>7. m # Req(s[1]) /\ m.kind = "tokens" /\ m.batch = b
  BY <1>3 DEF Req
<1>8. s \in last => m \in Ends(s)
  BY <1>4, <1>5, <1>7 DEF Ends, Has
<1>9. s \notin last /\ Alive(s) => Alive(s)'
  <2> SUFFICES ASSUME s \notin last, Alive(s)
               PROVE  Alive(s)'
    OBVIOUS
  <2>1. s \notin ended'
    BY <1>6 DEF Alive
  <2>2. ~(SubsOf(s[1]) \subseteq ended')
    BY <1>0, <2>1
  <2>3. known'[s[1]] \in {"queued", "joining", "running"}
    BY <1>0, <1>2, <2>2 DEF Alive, Forward
  <2> QED
    BY <2>1, <2>3 DEF Alive
<1>10. Ends(s)' = Ends(s)
  BY DEF Ends, Has
<1>11. PICK ch, e : ch = router_to_detok /\ e = Ends(s)
  OBVIOUS
<1>12. /\ Meets(Append(ch, m), e) <=> Meets(ch, e) \/ m \in e
       /\ Req(s[1]) # m /\ (m \in e \/ Followed(ch, Req(s[1]), e)) => Followed(Append(ch, m), Req(s[1]), e)
  <2>1. ch \in Seq(EveryMessage \cup EveryToken) /\ m \in EveryMessage \cup EveryToken
    BY <1>0, <1>5, <1>11
  <2> QED
    BY <2>1, AppendKeeps
<1> QED
  BY <1>0, <1>6, <1>7, <1>8, <1>9, <1>10, <1>11, <1>12 DEF Cleared

LEMMA ClearedByDetokRecv ==
  ASSUME CausalInv, ClearedInv, DetokRecv, NEW s \in Sub
  PROVE  Cleared(s)'
<1>0. /\ Cleared(s) /\ RouterKnows /\ s[1] \in Group /\ s \in SubsOf(s[1])
      /\ router_to_detok \in Seq(EveryMessage \cup EveryToken)
      /\ \A g \in Group : \A t \in SubsOf(g) : t[1] = g
  BY ChannelTypes, SubFacts DEF CausalInv, ClearedInv
<1>1. PICK ch, m, e : ch = router_to_detok /\ m = router_to_detok[1] /\ e = Ends(s)
  OBVIOUS
<1>2. /\ ch \in Seq(EveryMessage \cup EveryToken) /\ ch # <<>> /\ m = ch[1]
      /\ m \in EveryMessage \cup EveryToken /\ router_to_detok' = Tail(ch)
  BY <1>0, <1>1, FirstMessage DEF DetokRecv
<1>3. /\ Meets(ch, e) <=> ch[1] \in e \/ Meets(Tail(ch), e)
      /\ Followed(ch, Req(s[1]), e) =>
           Followed(Tail(ch), Req(s[1]), e) /\ (ch[1] = Req(s[1]) => Meets(Tail(ch), e))
  BY <1>2, TailKeeps
<1>4. UNCHANGED <<known, ended>> /\ Ends(s)' = Ends(s)
  BY DEF DetokRecv, routerVars, Ends, Has
<1>5. s \in req_id_to_out' => m \notin e /\ (s \in req_id_to_out \/ m = Req(s[1]))
  <2>1. CASE m.kind = "req"
    <3>1. req_id_to_out' = req_id_to_out \cup SubsOf(m.group) /\ m = Req(m.group) /\ m.group \in Group
      BY <1>1, <1>2, <2>1, DetokMessages DEF DetokRecv
    <3>2. m \notin e
      BY <1>1, <2>1, MessagesDiffer, <3>1 DEF Ends, Has
    <3> QED
      BY <1>0, <3>1, <3>2
  <2>2. CASE m.kind = "abort"
    <3>1. req_id_to_out' = req_id_to_out \ SubsOf(m.group) /\ m = Abort(m.group) /\ m.group \in Group
      BY <1>1, <1>2, <2>2, DetokMessages DEF DetokRecv
    <3>2. m \in e => m.group = s[1]
      BY <1>1, <2>2, <3>1, MessagesDiffer DEF Ends, Has
    <3> QED
      BY <1>0, <3>1, <3>2
  <2>3. CASE m.kind = "tokens"
    <3> DEFINE out == [t \in DOMAIN m.batch \cap req_id_to_out |-> m.batch[t]]
    <3>1. req_id_to_out' = req_id_to_out \ Forget(out)
      BY <1>1, <2>3 DEF DetokRecv
    <3>2. m # Abort(s[1])
      BY <2>3 DEF Abort
    <3>3. m \in e => s \in DOMAIN m.batch /\ m.batch[s].finish # "no"
      BY <1>1, <3>2 DEF Ends, Has
    <3>4. s \in DOMAIN m.batch /\ m.batch[s].finish # "no" /\ s \in req_id_to_out => s \in Forget(out)
      BY DEF Forget
    <3> QED
      BY <3>1, <3>3, <3>4
  <2> QED
    BY <1>2, <2>1, <2>2, <2>3, DetokMessages
<1> QED
  BY <1>0, <1>1, <1>2, <1>3, <1>4, <1>5 DEF Cleared, Alive

LEMMA ClearedStep ==
  CausalInv /\ OnceInv /\ ClearedInv /\ [Next]_vars => ClearedInv'
<1> SUFFICES ASSUME CausalInv, OnceInv, ClearedInv, [Next]_vars, NEW s \in Sub
             PROVE  Cleared(s)'
  BY DEF ClearedInv
<1>0. Cleared(s)
  BY DEF ClearedInv
<1>1. ASSUME UNCHANGED <<known, ended, req_id_to_out, router_to_detok>>
      PROVE  Cleared(s)'
  BY <1>0, <1>1 DEF Cleared, Alive, Ends, Has
<1>2. ASSUME NEW h \in Group, Leave(h) \/ Read(h) \/ Http(h)
      PROVE  Cleared(s)'
  BY <1>1, <1>2 DEF Leave, Read, Http, Start, FindGone, Wake, Cancel, BackgroundAbort, routerVars,
     channels
<1>3. CASE RecvBatch \/ Deliver \/ Visual \/ UNCHANGED vars
  BY <1>1, <1>3 DEF RecvBatch, Deliver, Visual, VisualRecv, VisualTake, VisualSend, vars, routerVars,
     channels
<1>4. CASE RouterRecv
  BY <1>4, ClearedByRouterRecv
<1>5. CASE RouterForward
  BY <1>5, ClearedByForward
<1>6. CASE DetokRecv
  BY <1>6, ClearedByDetokRecv
<1>7. CASE Moves
  <2>1. UNCHANGED <<ended, req_id_to_out, router_to_detok>> /\ s[1] \in Group
    BY <1>7, SubFacts DEF Moves, channels
  <2>2. Alive(s)' <=> Alive(s)
    BY <1>7, <2>1 DEF Moves, Alive
  <2> QED
    BY <1>0, <2>1, <2>2 DEF Cleared, Ends, Has
<1> QED
  BY <1>2, <1>3, <1>4, <1>5, <1>6, <1>7, RouterSteps DEF Next

-----------------------------------------------------------------------------
AbortInv == OnceInv /\ HeardInv /\ ClearedInv

LEMMA InitAbortInv == Init => AbortInv
<1> SUFFICES ASSUME Init
             PROVE  AbortInv
  OBVIOUS
<1>1. \A x, Y : ~Contains(<<>>, x) /\ Unique(<<>>, x) /\ ~Meets(<<>>, Y) /\ Followed(<<>>, x, Y)
  BY NothingInEmpty
<1>2. /\ http_to_router = <<>> /\ http_to_visual = <<>> /\ visual_to_router = <<>>
      /\ router_to_detok = <<>> /\ waiting_reqs = <<>> /\ reqs_need_infer = <<>>
      /\ req_id_to_out = {} /\ \A g \in Group : generate[g] # "failed"
  BY DEF Init
<1>3. OnceInv
  BY <1>1, <1>2 DEF OnceInv, Once, Before, Exclusive
<1>4. HeardInv
  BY <1>1, <1>2 DEF HeardInv, TextOnly, VisualHears, RouterHears, DetokHears
<1>5. ClearedInv
  BY <1>1, <1>2 DEF ClearedInv, Cleared
<1> QED
  BY <1>3, <1>4, <1>5 DEF AbortInv

LEMMA AbortInvHolds == Spec => [](CausalInv /\ AbortInv)
<1>1. Init => CausalInv /\ AbortInv
  BY InitCausalInv, InitAbortInv
<1>2. CausalInv /\ AbortInv /\ [Next]_vars => (CausalInv /\ AbortInv)'
  <2>1. CausalInv /\ AbortInv /\ [Next]_vars => CausalInv' /\ OnceInv' /\ HeardInv' /\ ClearedInv'
    BY CausalStep, OnceStep, HeardStep, ClearedStep DEF AbortInv
  <2> QED
    BY <2>1 DEF AbortInv
<1> QED
  BY <1>1, <1>2, PTL DEF Spec

\* Detokenization keeps no state for an answer that the router no longer works for
\* once every message has been received.
THEOREM NothingIsLeft == Spec => []NothingLeft
<1>1. CausalInv /\ AbortInv => NothingLeft
  <2> SUFFICES ASSUME CausalInv, ClearedInv, Quiet, NEW s \in req_id_to_out
               PROVE  known[s[1]] \in {"queued", "joining", "running"} /\ s \notin ended
    BY DEF AbortInv, NothingLeft
  <2>1. s \in Sub /\ router_to_detok = <<>>
    BY DEF CausalInv, RouterKnows, Quiet
  <2>2. ~Meets(<<>>, Ends(s))
    BY NothingInEmpty
  <2> QED
    BY <2>1, <2>2 DEF ClearedInv, Cleared, Alive
<1> QED
  BY <1>1, AbortInvHolds, PTL

\* The visual server has no work left for a request when the abort has come to it.
THEOREM NoImageForTheAborted == Spec => []AbortedNotEncoded
<1>1. CausalInv /\ AbortInv => AbortedNotEncoded
  <2> SUFFICES ASSUME CausalInv, HeardInv, NEW g \in Group, generate[g] = "failed",
                      Abort(g) \notin ToSet(http_to_visual)
               PROVE  g \notin ToSet(waiting_reqs) /\ Req(g) \notin ToSet(http_to_visual)
    BY DEF AbortInv, AbortedNotEncoded
  <2>1. http_to_visual \in Seq(EveryMessage) /\ waiting_reqs \in Seq(Group)
    BY ChannelTypes DEF CausalInv
  <2>2. /\ \A x : x \in ToSet(http_to_visual) <=> Contains(http_to_visual, x)
        /\ \A x : x \in ToSet(waiting_reqs) <=> Contains(waiting_reqs, x)
    BY <2>1, InSet
  <2>3. VisualHears(g)
    BY DEF HeardInv
  <2>4. Followed(http_to_visual, Req(g), {Abort(g)}) /\ Contains(http_to_visual, Req(g))
           => Contains(http_to_visual, Abort(g))
    BY <2>1, FollowedContains
  <2> QED
    BY <2>2, <2>3, <2>4 DEF VisualHears
<1> QED
  BY <1>1, AbortInvHolds, PTL

\* Without a visual server an abort that was handled has silenced its request, though
\* the router may have dropped it: the request does not wait to be started, and once
\* the abort has come to detokenization nothing of its answers is decoded or sent.
THEOREM AbortSilencesText == ~Multimodal /\ Spec => []AbortSilences
<1> SUFFICES ASSUME ~Multimodal
             PROVE  Spec => []AbortSilences
  OBVIOUS
<1>1. CausalInv /\ AbortInv => AbortSilences
  <2> SUFFICES ASSUME CausalInv, HeardInv, NEW g \in Group, generate[g] = "failed",
                      ~AbortOnItsWay(g)
               PROVE  /\ ~OnItsWay(g) /\ known[g] # "queued"
                      /\ Abort(g) \notin ToSet(router_to_detok) => SubsOf(g) \cap req_id_to_out = {}
    BY DEF AbortInv, AbortSilences
  <2>1. /\ http_to_visual = <<>> /\ visual_to_router = <<>>
        /\ waiting_reqs = <<>> /\ reqs_need_infer = <<>>
        /\ http_to_router \in Seq(EveryMessage)
        /\ router_to_detok \in Seq(EveryMessage \cup EveryToken)
    BY ChannelTypes DEF CausalInv, HeardInv, TextOnly
  <2>2. /\ \A x : x \in ToSet(http_to_router) <=> Contains(http_to_router, x)
        /\ \A x : x \in ToSet(router_to_detok) <=> Contains(router_to_detok, x)
        /\ ToSet(<<>>) = {}
    BY <2>1, InSet, EmptyToSet
  <2>3. ~Contains(http_to_router, Abort(g)) /\ RouterHears(g) /\ DetokHears(g)
    BY <2>2 DEF AbortOnItsWay, HeardInv
  <2>4. Followed(http_to_router, Req(g), {Abort(g)}) /\ Contains(http_to_router, Req(g))
           => Contains(http_to_router, Abort(g))
    BY <2>1, FollowedContains
  <2>5. ~Contains(http_to_router, Req(g)) /\ known[g] # "queued"
    BY <2>3, <2>4 DEF RouterHears
  <2>6. ~OnItsWay(g)
    BY <2>1, <2>2, <2>5 DEF OnItsWay
  <2>7. Abort(g) \notin ToSet(router_to_detok) => SubsOf(g) \cap req_id_to_out = {}
    BY <2>2, <2>3 DEF DetokHears
  <2> QED
    BY <2>5, <2>6, <2>7
<1> QED
  BY <1>1, AbortInvHolds, PTL
=============================================================================

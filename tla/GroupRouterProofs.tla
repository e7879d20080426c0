-------------------------- MODULE GroupRouterProofs --------------------------
(***************************************************************************)
(* Proofs about GroupRouter: the types, that a sub-request leaves the      *)
(* queue at most once, that a shared token is freed with its last reader,  *)
(* that the estimate is the peak of the load, and that in diverse mode     *)
(* every decode fits the pool.  MCGroupRouter is extended for the last     *)
(* theorem, which is about its behaviours; the others are about Spec.      *)
(***************************************************************************)
EXTENDS MCGroupRouter, SequenceTheorems, InductionLemmas

(***************************************************************************)
(* The inductive invariant.                                                *)
(***************************************************************************)

\* The queue: no sub-request twice, a group's members next to each other.
Distinct(q) == \A i, j \in 1..Len(q) : q[i] = q[j] => i = j
Blocks(q) == \A i, j, k \in 1..Len(q) :
               i < j /\ j < k /\ q[i][1] = q[k][1] => q[j][1] = q[i][1]
QueueInv ==
  /\ waiting_req_list \in Seq(Req) /\ sent \subseteq Group
  /\ Distinct(waiting_req_list) /\ Blocks(waiting_req_list)
  /\ \A i \in 1..Len(waiting_req_list) : waiting_req_list[i][1] \in sent

\* What runs or was answered is not in the queue; what the queue still has of a
\* group that runs was aborted.
PlaceInv ==
  /\ running \subseteq Req /\ served \subseteq Req /\ aborted \subseteq Req
  /\ \A r \in running \cup served :
       r[1] \in sent /\ \A i \in 1..Len(waiting_req_list) : waiting_req_list[i] # r
  /\ \A r \in running : \A i \in 1..Len(waiting_req_list) :
       waiting_req_list[i][1] = r[1] => waiting_req_list[i] \in aborted

\* The members of a group that have produced tokens are equally far.
LengthInv ==
  /\ cur_output_len \in [Req -> Nat]
  /\ \A r \in Req \ (running \cup served) : cur_output_len[r] = 0
  /\ \A r \in running : cur_output_len[r] <= MaxNew[r[1]]
  /\ \A r \in served : cur_output_len[r] <= MaxNew[r[1]] + 1
  /\ \A r, q \in running :
       r[1] = q[1] /\ cur_output_len[r] > 0 /\ cur_output_len[q] > 0 =>
         cur_output_len[r] = cur_output_len[q]

\* A row has no token at the position of the next one, or later.
RowInv ==
  /\ held \in [Req -> SUBSET Cell]
  /\ \A r \in Req \ running : held[r] = {}
  /\ \A r \in running : cur_output_len[r] = 0 => held[r] = {}
  /\ \A r \in running : \A c \in held[r] : c[2] < InputLen[r[1]] + cur_output_len[r]

PoolInv == SharedTokens /\ can_use_mem_size \in Nat /\ mem_state \in [Cell -> Nat]

StateInv == has_wait_tokens \in 0..MaxWaitTokens /\ at \in {"step", "dead"}

GroupInv == QueueInv /\ PlaceInv /\ LengthInv /\ RowInv /\ PoolInv /\ StateInv

-----------------------------------------------------------------------------
(***************************************************************************)
(* Constants.                                                              *)
(***************************************************************************)
LEMMA Constants ==
  /\ MaxTotal \in Nat /\ MaxReqTotal \in Nat /\ MaxWaitTokens \in Nat \ {0}
  /\ Group \subseteq Nat /\ IsFiniteSet(Group)
  /\ \A g \in Group : /\ BestOf[g] \in Nat /\ 1 <= BestOf[g]
                      /\ InputLen[g] \in Nat /\ 1 <= InputLen[g]
                      /\ MaxNew[g] \in Nat /\ 1 <= MaxNew[g]
                      /\ InputLen[g] + MaxNew[g] <= MaxReqTotal
                      /\ InputLen[g] <= MaxReqTotal /\ MaxNew[g] + 1 <= MaxReqTotal
<1>1. /\ MaxTotal \in Nat /\ MaxReqTotal \in Nat /\ MaxWaitTokens \in Nat \ {0}
      /\ Group \subseteq Nat /\ IsFiniteSet(Group)
      /\ BestOf \in [Group -> 1..8] /\ InputLen \in [Group -> Nat \ {0}]
      /\ MaxNew \in [Group -> Nat \ {0}]
      /\ \A g \in Group : InputLen[g] + MaxNew[g] <= MaxReqTotal
  BY GroupAssumption
<1>2. QED
  BY <1>1

LEMMA ReqIs ==
  /\ \A r \in Req : r[1] \in Group /\ r[2] \in 1..BestOf[r[1]] /\ r = <<r[1], r[2]>>
  /\ \A g \in Group : \A i \in 1..BestOf[g] : <<g, i>> \in Req
  BY DEF Req

LEMMA ReqFinite == IsFiniteSet(Req)
<1>1. {<<g, i>> : g \in Group, i \in 1..8} = Group \X (1..8)
  OBVIOUS
<1>2. IsFiniteSet(Group \X (1..8))
  <2>1. IsFiniteSet(1..8)
    <3>1. 1 \in Int /\ 8 \in Int
      OBVIOUS
    <3>2. QED
      BY <3>1, FS_Interval
  <2>2. QED
    BY <2>1, FS_Product, Constants
<1>3. Req \subseteq Group \X (1..8)
  <2>1. \A g \in Group : BestOf[g] \in 1..8
    BY GroupAssumption
  <2>2. QED
    BY <2>1 DEF Req
<1>4. QED
  BY <1>2, <1>3, FS_Subset

LEMMA CellFacts ==
  /\ IsFiniteSet(Cell)
  /\ \A c \in Cell : c[1] \in Req /\ c[2] \in 1..(MaxReqTotal + 1) /\ c = <<c[1], c[2]>>
  /\ \A r \in Req, n \in 1..(MaxReqTotal + 1) : <<r, n>> \in Cell
<1>1. IsFiniteSet(Cell)
  <2>1. IsFiniteSet(1..(MaxReqTotal + 1))
    <3>1. 1 \in Int /\ MaxReqTotal + 1 \in Int
      BY Constants
    <3>2. QED
      BY <3>1, FS_Interval
  <2>2. QED
    BY <2>1, FS_Product, ReqFinite DEF Cell
<1>2. QED
  BY <1>1 DEF Cell

\* The subsets of a finite set.
LEMMA CardPart ==
  ASSUME NEW D, IsFiniteSet(D), NEW A, A \subseteq D
  PROVE  IsFiniteSet(A) /\ Cardinality(A) \in Nat /\ Cardinality(A) <= Cardinality(D)
  BY FS_Subset, FS_CardinalityType

LEMMA HoldersNat ==
  ASSUME NEW c, NEW S, S \subseteq Req, NEW row
  PROVE  Holders(c, S, row) \in Nat
<1>1. {r \in S : c \in row[r]} \subseteq Req
  OBVIOUS
<1>2. QED
  BY <1>1, CardPart, ReqFinite DEF Holders

\* Holders of two sets that have nobody in common.
LEMMA HoldersSplit ==
  ASSUME NEW c, NEW S, NEW A, NEW B, S \subseteq Req, A \cup B = S, A \cap B = {}, NEW row
  PROVE  Holders(c, S, row) = Holders(c, A, row) + Holders(c, B, row)
<1> DEFINE X == {r \in A : c \in row[r]}
           Y == {r \in B : c \in row[r]}
<1>1. X \subseteq Req /\ Y \subseteq Req /\ X \cap Y = {}
  OBVIOUS
<1>2. {r \in S : c \in row[r]} = X \cup Y
  OBVIOUS
<1>3. IsFiniteSet(X) /\ IsFiniteSet(Y)
  BY <1>1, CardPart, ReqFinite
<1> HIDE DEF X, Y
<1>4. Cardinality(X \cup Y) = Cardinality(X) + Cardinality(Y)
  BY <1>1, <1>3, CardDisjoint
<1>5. QED
  BY <1>2, <1>4 DEF Holders, X, Y

LEMMA HoldersSame ==
  ASSUME NEW c, NEW S, NEW row, NEW other, \A r \in S : c \in row[r] <=> c \in other[r]
  PROVE  Holders(c, S, row) = Holders(c, S, other)
<1>1. {r \in S : c \in row[r]} = {r \in S : c \in other[r]}
  OBVIOUS
<1>2. QED
  BY <1>1 DEF Holders

LEMMA HoldersNone ==
  ASSUME NEW c, NEW S, NEW row, S \subseteq Req
  PROVE  Holders(c, S, row) > 0 <=> \E r \in S : c \in row[r]
<1> DEFINE X == {r \in S : c \in row[r]}
<1>1. IsFiniteSet(X) /\ Cardinality(X) \in Nat
  <2>1. X \subseteq Req
    OBVIOUS
  <2>2. QED
    BY <2>1, CardPart, ReqFinite
<1>2. Cardinality(X) = 0 <=> X = {}
  <2> HIDE DEF X
  <2>1. QED
    BY <1>1, FS_EmptySet
<1>3. QED
  BY <1>1, <1>2 DEF Holders

-----------------------------------------------------------------------------
(***************************************************************************)
(* What generate_new_batch takes is the head of the queue.                 *)
(***************************************************************************)
LEMMA MinOf ==
  ASSUME NEW T, T \subseteq Nat, T # {}
  PROVE  Min(T) \in T /\ \A n \in T : Min(T) <= n
<1>1. \E m \in T : \A n \in T : m <= n
  BY MinElement
<1>2. QED
  BY <1>1 DEF Min

LEMMA FirstPosFacts ==
  ASSUME QueueInv, NEW g \in WaitingGroups
  PROVE  /\ FirstPos(g) \in 1..Len(waiting_req_list)
         /\ Live(FirstPos(g)) /\ waiting_req_list[FirstPos(g)][1] = g
         /\ \A i \in 1..Len(waiting_req_list) :
              Live(i) /\ waiting_req_list[i][1] = g => FirstPos(g) <= i
<1> DEFINE P == {i \in 1..Len(waiting_req_list) : Live(i) /\ waiting_req_list[i][1] = g}
<1>1. P \subseteq Nat
  BY LenProperties DEF QueueInv
<1>2. P # {}
  BY DEF WaitingGroups, WaitingReqs
<1>3. FirstPos(g) = Min(P)
  BY DEF FirstPos
<1>4. Min(P) \in P /\ \A n \in P : Min(P) <= n
  <2> HIDE DEF P
  <2>1. QED
    BY <1>1, <1>2, MinOf
<1>5. QED
  BY <1>3, <1>4

LEMMA WaitingIs ==
  /\ \A i \in 1..Len(waiting_req_list) :
       Live(i) => waiting_req_list[i] \in WaitingReqs /\ waiting_req_list[i][1] \in WaitingGroups
  /\ \A r \in WaitingReqs : \E i \in 1..Len(waiting_req_list) : Live(i) /\ waiting_req_list[i] = r
  BY DEF WaitingReqs, WaitingGroups

\* With a group, all groups before it are taken.
LEMMA TakenClosed ==
  ASSUME QueueInv
  PROVE  /\ Taken \subseteq WaitingGroups
         /\ \A g \in Taken : UpTo(g) \subseteq Taken /\ g \in UpTo(g)
<1>1. Taken \subseteq WaitingGroups
  BY DEF Taken
<1>2. SUFFICES ASSUME NEW g \in Taken
               PROVE  UpTo(g) \subseteq Taken /\ g \in UpTo(g)
  BY <1>1
<1>3. g \in UpTo(g)
  <2>1. g \in WaitingGroups /\ FirstPos(g) \in 1..Len(waiting_req_list)
    BY <1>1, FirstPosFacts
  <2>2. QED
    BY <2>1, LenProperties DEF UpTo, QueueInv
<1>4. ASSUME NEW h \in UpTo(g) PROVE h \in Taken
  <2>1. UpTo(h) \subseteq UpTo(g)
    <3>1. \A k \in WaitingGroups : FirstPos(k) \in Nat
      BY FirstPosFacts, LenProperties DEF QueueInv
    <3>2. QED
      BY <1>1, <1>4, <3>1 DEF UpTo
  <2>2. QED
    BY <1>4, <2>1 DEF Taken, UpTo
<1>5. QED
  BY <1>3, <1>4

LEMMA UpToFinite ==
  ASSUME QueueInv
  PROVE  /\ IsFiniteSet(WaitingReqs) /\ WaitingReqs \subseteq Req
         /\ IsFiniteSet(WaitingGroups) /\ WaitingGroups \subseteq Group
<1>1. WaitingReqs \subseteq Req
  BY ElementOfSeq DEF WaitingReqs, QueueInv
<1>2. WaitingGroups \subseteq Group
  BY <1>1, ReqIs DEF WaitingGroups
<1>3. QED
  BY <1>1, <1>2, ReqFinite, Constants, FS_Subset

\* What lies at or before a live member of a taken group: live members of taken
\* groups, and aborted requests that were scanned.
LEMMA BeforeTaken ==
  ASSUME QueueInv, NEW i \in 1..Len(waiting_req_list), Live(i),
         waiting_req_list[i][1] \in Taken, NEW j \in 1..i
  PROVE  IF Live(j) THEN waiting_req_list[j][1] \in Taken ELSE j \in Scanned
<1> DEFINE q == waiting_req_list
           g == q[i][1]
<1>1. Len(q) \in Nat /\ j \in 1..Len(q) /\ Blocks(q) /\ j <= i
  BY LenProperties DEF QueueInv
<1>2. g \in WaitingGroups /\ FirstPos(g) \in 1..Len(q) /\ q[FirstPos(g)][1] = g
      /\ FirstPos(g) <= i
  BY TakenClosed, FirstPosFacts
\* No other group begins between the first live member of g and i.
<1>3. ASSUME NEW h \in WaitingGroups, h # g, FirstPos(h) <= i
      PROVE  FirstPos(h) \in 1..Len(q) /\ FirstPos(h) <= FirstPos(g)
  <2>1. FirstPos(h) \in 1..Len(q) /\ q[FirstPos(h)][1] = h
    BY <1>3, FirstPosFacts
  <2>2. CASE FirstPos(h) <= FirstPos(g)
    BY <2>1, <2>2
  <2>3. CASE FirstPos(g) < FirstPos(h)
    <3>1. FirstPos(h) # i
      BY <1>3, <2>1
    <3>2. FirstPos(g) < FirstPos(h) /\ FirstPos(h) < i
      BY <1>1, <1>3, <2>1, <2>3, <3>1
    <3>3. q[FirstPos(h)][1] = q[FirstPos(g)][1]
      BY <1>1, <1>2, <2>1, <3>2 DEF Blocks
    <3>4. QED
      BY <1>2, <1>3, <2>1, <3>3
  <2>4. QED
    BY <1>1, <1>2, <2>1, <2>2, <2>3
<1>4. CASE Live(j)
  <2>1. q[j][1] \in WaitingGroups /\ FirstPos(q[j][1]) \in 1..Len(q) /\ FirstPos(q[j][1]) <= j
    BY <1>1, <1>4, WaitingIs, FirstPosFacts
  <2>2. CASE q[j][1] = g
    BY <1>4, <2>2
  <2>3. CASE q[j][1] # g
    <3>1. FirstPos(q[j][1]) <= i
      BY <1>1, <2>1
    <3>2. q[j][1] \in UpTo(g)
      BY <1>3, <2>1, <2>3, <3>1 DEF UpTo
    <3>3. QED
      BY <1>4, <3>2, TakenClosed
  <2>4. QED
    BY <2>2, <2>3
<1>5. CASE ~Live(j)
  <2>1. SUFFICES ASSUME NEW h \in WaitingGroups, Cardinality(UpTo(h)) = Cardinality(Taken) + 2
                 PROVE  j < FirstPos(h)
    BY <1>1, <1>5 DEF Scanned
  <2>2. IsFiniteSet(Taken)
    BY TakenClosed, UpToFinite, FS_Subset
  <2>3. h \notin Taken
    <3>1. SUFFICES ASSUME h \in Taken PROVE FALSE
      OBVIOUS
    <3>2. UpTo(h) \subseteq Taken
      BY <3>1, TakenClosed
    <3>3. Cardinality(UpTo(h)) <= Cardinality(Taken) /\ Cardinality(Taken) \in Nat
      BY <2>2, <3>2, CardPart, FS_CardinalityType
    <3>4. QED
      BY <2>1, <3>3
  <2>4. h # g
    BY <2>3
  <2>5. ~(FirstPos(h) <= i)
    <3>1. SUFFICES ASSUME FirstPos(h) <= i PROVE FALSE
      OBVIOUS
    <3>2. FirstPos(h) <= FirstPos(g)
      BY <1>3, <2>4, <3>1
    <3>3. h \in UpTo(g)
      BY <3>2 DEF UpTo
    <3>4. QED
      BY <2>3, <3>3, TakenClosed
  <2>6. FirstPos(h) \in Nat
    BY <1>1, FirstPosFacts
  <2>7. QED
    BY <1>1, <2>5, <2>6
<1>6. QED
  BY <1>4, <1>5

\* A set of positions of the queue is no larger than the set of what they hold.
LEMMA PositionsCount ==
  ASSUME QueueInv, NEW P, P \subseteq 1..Len(waiting_req_list), NEW S, IsFiniteSet(S),
         \A i \in P : waiting_req_list[i] \in S
  PROVE  IsFiniteSet(P) /\ Cardinality(P) <= Cardinality(S)
<1> DEFINE f == [i \in P |-> waiting_req_list[i]]
<1>1. f \in Injection(P, S)
  BY DEF QueueInv, Distinct, Injection, IsInjective
<1>2. QED
  <2> HIDE DEF f
  <2>1. QED
    BY <1>1, FS_Injection

\* The slice reaches every live member of a taken group.
LEMMA TakenIsHead ==
  ASSUME QueueInv
  PROVE  /\ TakenCount \in Nat
         /\ \A i \in 1..Len(waiting_req_list) :
              Live(i) /\ waiting_req_list[i][1] \in Taken => i <= TakenCount
<1> DEFINE B == {i \in Scanned : ~Live(i)}
           N == Len(waiting_req_list)
<1>1. N \in Nat
  BY LenProperties DEF QueueInv
<1>2. IsFiniteSet(MembersOf(Taken)) /\ Cardinality(MembersOf(Taken)) \in Nat
  <2>1. MembersOf(Taken) \subseteq WaitingReqs
    BY DEF MembersOf
  <2>2. QED
    BY <2>1, UpToFinite, CardPart
<1>3. IsFiniteSet(B) /\ Cardinality(B) \in Nat /\ B \subseteq 1..N
  <2>1. B \subseteq 1..N
    BY DEF Scanned
  <2>2. IsFiniteSet(1..N)
    <3>1. 1 \in Int /\ N \in Int
      BY <1>1
    <3>2. QED
      BY <3>1, FS_Interval
  <2>3. QED
    BY <2>1, <2>2, CardPart
<1>4. TakenCount = Cardinality(MembersOf(Taken)) + Cardinality(B)
  BY DEF TakenCount, AbortedCount
<1>5. ASSUME NEW i \in 1..N, Live(i), waiting_req_list[i][1] \in Taken
      PROVE  i <= TakenCount
  <2> DEFINE A == {j \in 1..i : Live(j)}
             C == {j \in 1..i : ~Live(j)}
  <2>1. \A j \in 1..i : j \in 1..N
    BY <1>1
  <2>2. \A j \in A : waiting_req_list[j] \in MembersOf(Taken)
    <3>1. \A j \in A : waiting_req_list[j][1] \in Taken
      BY <1>5, BeforeTaken
    <3>2. QED
      BY <2>1, <3>1, WaitingIs DEF MembersOf
  <2>3. C \subseteq B
    BY <1>5, BeforeTaken
  <2>4. IsFiniteSet(A) /\ Cardinality(A) \in Nat /\ Cardinality(A) <= Cardinality(MembersOf(Taken))
    <3>1. A \subseteq 1..N
      BY <2>1
    <3> HIDE DEF A
    <3>2. QED
      BY <1>2, <2>2, <3>1, PositionsCount, FS_CardinalityType
  <2>5. IsFiniteSet(C) /\ Cardinality(C) \in Nat /\ Cardinality(C) <= Cardinality(B)
    <3> HIDE DEF C, B
    <3>1. QED
      BY <1>3, <2>3, CardPart
  <2>6. A \cap C = {} /\ A \cup C = 1..i
    OBVIOUS
  <2>7. Cardinality(A \cup C) = Cardinality(A) + Cardinality(C)
    <3> HIDE DEF A, C
    <3>1. QED
      BY <2>4, <2>5, <2>6, CardDisjoint
  <2>8. Cardinality(1..i) = i
    <3>1. 1 \in Int /\ i \in Int /\ 1 <= i
      BY <1>1
    <3>2. QED
      BY <3>1, FS_Interval
  <2>9. i = Cardinality(A) + Cardinality(C)
    <3> HIDE DEF A, C
    <3>1. QED
      BY <2>6, <2>7, <2>8
  <2>10. QED
    <3> HIDE DEF A, B, C
    <3>1. PICK a \in Nat, c \in Nat, m \in Nat, b \in Nat :
            /\ a = Cardinality(A) /\ c = Cardinality(C)
            /\ m = Cardinality(MembersOf(Taken)) /\ b = Cardinality(B)
      BY <1>2, <1>3, <2>4, <2>5
    <3>2. a <= m /\ c <= b /\ i = a + c /\ TakenCount = m + b
      BY <1>4, <2>4, <2>5, <2>9, <3>1
    <3>3. QED
      BY <3>2
<1>6. QED
  BY <1>2, <1>3, <1>4, <1>5

-----------------------------------------------------------------------------
(***************************************************************************)
(* The queue.                                                              *)
(***************************************************************************)
LEMMA TailKept ==
  ASSUME QueueInv, NEW n \in Nat,
         NEW t, t = SubSeq(waiting_req_list, n + 1, Len(waiting_req_list))
  PROVE  /\ t \in Seq(Req) /\ Distinct(t) /\ Blocks(t)
         /\ \A i \in 1..Len(t) : /\ n + i \in 1..Len(waiting_req_list)
                                 /\ t[i] = waiting_req_list[n + i]
<1> DEFINE q == waiting_req_list
<1>1. Len(q) \in Nat /\ q \in [1..Len(q) -> Req] /\ Distinct(q) /\ Blocks(q)
  BY LenProperties DEF QueueInv
<1>2. \A i \in (n + 1)..Len(q) : q[i] \in Req
  BY <1>1
<1>3. /\ t \in Seq(Req)
      /\ Len(t) = IF n + 1 <= Len(q) THEN Len(q) - (n + 1) + 1 ELSE 0
      /\ \A i \in 1..(Len(q) - (n + 1) + 1) : t[i] = q[(n + 1) + i - 1]
  <2>1. n + 1 \in Int /\ Len(q) \in Int
    BY <1>1
  <2>2. QED
    BY <1>2, <2>1, SubSeqProperties
<1>4. \A i \in 1..Len(t) : i \in Nat /\ n + i \in 1..Len(q) /\ t[i] = q[n + i]
  <2>1. SUFFICES ASSUME NEW i \in 1..Len(t)
                 PROVE  i \in Nat /\ n + i \in 1..Len(q) /\ t[i] = q[n + i]
    OBVIOUS
  <2>2. n + 1 <= Len(q) /\ Len(t) = Len(q) - n
    <3>1. PICK m \in Nat : m = Len(q)
      BY <1>1
    <3>2. Len(t) = IF n + 1 <= m THEN m - (n + 1) + 1 ELSE 0
      BY <1>3, <3>1
    <3>3. CASE n + 1 <= m
      BY <3>1, <3>2, <3>3
    <3>4. CASE ~(n + 1 <= m)
      BY <3>2, <3>4
    <3>5. QED
      BY <3>3, <3>4
  <2>3. i \in 1..(Len(q) - (n + 1) + 1) /\ (n + 1) + i - 1 = n + i
    BY <1>1, <2>2
  <2>4. QED
    BY <1>1, <1>3, <2>2, <2>3
<1>5. Distinct(t)
  <2>1. SUFFICES ASSUME NEW i \in 1..Len(t), NEW j \in 1..Len(t), t[i] = t[j]
                 PROVE  i = j
    BY DEF Distinct
  <2>2. n + i = n + j
    BY <1>1, <1>4, <2>1 DEF Distinct
  <2>3. PICK x \in Nat, y \in Nat, z \in Nat : x = i /\ y = j /\ z = n
    BY <1>1, <1>4
  <2>4. x = y
    BY <2>2, <2>3
  <2>5. QED
    BY <2>3, <2>4
<1>6. Blocks(t)
  <2>0. SUFFICES \A i, j, k \in 1..Len(t) :
                   i < j /\ j < k /\ t[i][1] = t[k][1] => t[j][1] = t[i][1]
    BY DEF Blocks
  <2> TAKE i, j, k \in 1..Len(t)
  <2>1. HAVE i < j /\ j < k /\ t[i][1] = t[k][1]
  <2>2. n + i < n + j /\ n + j < n + k
    <3>1. \A a, b, c, d \in Nat : b < c /\ c < d => a + b < a + c /\ a + c < a + d
      OBVIOUS
    <3>2. i \in Nat /\ j \in Nat /\ k \in Nat
      BY <1>4
    <3>3. QED
      BY <2>1, <3>1, <3>2, Zenon
  <2>3. q[n + i][1] = q[n + k][1]
    BY <1>4, <2>1
  <2>4. q[n + j][1] = q[n + i][1]
    BY <1>1, <1>4, <2>2, <2>3 DEF Blocks
  <2>5. QED
    BY <1>4, <2>4
<1>7. QED
  BY <1>3, <1>4, <1>5, <1>6

-----------------------------------------------------------------------------
(***************************************************************************)
(* The batch that a prefill takes, and the part of it that runs.           *)
(***************************************************************************)
Batch == MembersOf(Taken)
Run   == {r \in Batch : HeadOf(r[1]) \in Batch}

LEMMA BatchFacts ==
  ASSUME QueueInv, PlaceInv
  PROVE  /\ Batch \subseteq Req /\ Run \subseteq Batch
         /\ \A r \in Batch : /\ r \notin running /\ r \notin served /\ r \notin aborted
                             /\ r[1] \in sent /\ r[1] \in Taken
                             /\ \A p \in running : p[1] # r[1]
<1>1. Batch \subseteq Req /\ Run \subseteq Batch
  BY UpToFinite DEF Batch, Run, MembersOf
<1>2. SUFFICES ASSUME NEW r \in Batch
               PROVE  /\ r \notin running /\ r \notin served /\ r \notin aborted
                      /\ r[1] \in sent /\ r[1] \in Taken
                      /\ \A p \in running : p[1] # r[1]
  BY <1>1
<1>3. PICK i \in 1..Len(waiting_req_list) : Live(i) /\ waiting_req_list[i] = r
  BY WaitingIs DEF Batch, MembersOf
<1>4. QED
  BY <1>3 DEF Batch, MembersOf, QueueInv, PlaceInv, Live

\* What a prefill leaves in the queue.
LEMMA QueueAfterPrefill ==
  ASSUME QueueInv, PlaceInv, StepPrefill
  PROVE  /\ QueueInv'
         /\ \A i \in 1..Len(waiting_req_list') :
              /\ \E j \in 1..Len(waiting_req_list) : waiting_req_list'[i] = waiting_req_list[j]
              /\ waiting_req_list'[i] \notin Batch
              /\ waiting_req_list'[i][1] \in Taken => waiting_req_list'[i] \in aborted
<1> DEFINE q == waiting_req_list
<1>1. PICK n \in Nat : n = TakenCount
  BY TakenIsHead
<1>2. PICK t : t = SubSeq(q, n + 1, Len(q))
  OBVIOUS
<1>3. waiting_req_list' = t /\ sent' = sent /\ aborted' = aborted
  BY <1>1, <1>2 DEF StepPrefill
<1>4. /\ t \in Seq(Req) /\ Distinct(t) /\ Blocks(t)
      /\ \A i \in 1..Len(t) : n + i \in 1..Len(q) /\ t[i] = q[n + i]
  BY <1>2, TailKept
<1>5. QueueInv'
  BY <1>3, <1>4 DEF QueueInv
<1>6. ASSUME NEW i \in 1..Len(t), t[i][1] \in Taken PROVE t[i] \in aborted
  <2>1. n + i \in 1..Len(q) /\ t[i] = q[n + i]
    BY <1>4
  <2>2. ~(n + i <= n)
    <3>1. Len(t) \in Nat
      BY <1>4, LenProperties
    <3>2. QED
      BY <3>1
  <2>3. ~Live(n + i)
    BY <1>1, <1>6, <2>1, <2>2, TakenIsHead
  <2>4. QED
    BY <2>1, <2>3 DEF Live
<1>7. \A i \in 1..Len(t) : t[i] \notin Batch
  BY <1>6, BatchFacts
<1>8. QED
  BY <1>3, <1>4, <1>5, <1>6, <1>7

LEMMA PlacesAfterPrefill ==
  ASSUME QueueInv, PlaceInv, StepPrefill
  PROVE  /\ running' \subseteq running \cup Batch
         /\ served \subseteq served' /\ served' \subseteq served \cup Batch
<1> DEFINE run == {r \in MembersOf(Taken) : HeadOf(r[1]) \in MembersOf(Taken)}
<1>1. run = Run /\ MembersOf(Taken) = Batch
  BY DEF Run, Batch
<1>2. CASE UNCHANGED <<running, served>>
  BY <1>2
<1>3. CASE \E ended \in Endings(run), mem \in {PromptRefs(run)} :
             AfterForward(running \cup MembersOf(Taken), ended,
                          [r \in run |-> PromptRow(r[1])], mem)
  <2>1. PICK ended \in Endings(run) :
          running' = (running \cup MembersOf(Taken)) \ ended /\ served' = served \cup ended
    BY <1>3 DEF AfterForward
  <2>2. ended \subseteq Run
    BY <1>1, <2>1 DEF Endings
  <2>3. QED
    BY <1>1, <2>1, <2>2, BatchFacts
<1>4. QED
  BY <1>2, <1>3 DEF StepPrefill, Fails

LEMMA PlacePrefill ==
  ASSUME QueueInv, PlaceInv, StepPrefill
  PROVE  PlaceInv'
<1>1. aborted' = aborted /\ sent' = sent
  BY DEF StepPrefill
<1>2. /\ running' \subseteq running \cup Batch
      /\ served' \subseteq served \cup Batch
  BY PlacesAfterPrefill
<1>3. \A i \in 1..Len(waiting_req_list') :
        /\ \E j \in 1..Len(waiting_req_list) : waiting_req_list'[i] = waiting_req_list[j]
        /\ waiting_req_list'[i] \notin Batch
        /\ waiting_req_list'[i][1] \in Taken => waiting_req_list'[i] \in aborted
  BY QueueAfterPrefill
<1>4. running' \subseteq Req /\ served' \subseteq Req /\ aborted' \subseteq Req
  BY <1>1, <1>2, BatchFacts DEF PlaceInv
<1>5. ASSUME NEW r \in running' \cup served'
      PROVE  r[1] \in sent' /\ \A i \in 1..Len(waiting_req_list') : waiting_req_list'[i] # r
  <2>1. CASE r \in Batch
    BY <1>1, <1>3, <2>1, BatchFacts
  <2>2. CASE r \in running \cup served
    BY <1>1, <1>3, <2>2 DEF PlaceInv
  <2>3. QED
    BY <1>2, <1>5, <2>1, <2>2
<1>6. ASSUME NEW r \in running', NEW i \in 1..Len(waiting_req_list'),
             waiting_req_list'[i][1] = r[1]
      PROVE  waiting_req_list'[i] \in aborted'
  <2>1. CASE r \in Batch
    BY <1>1, <1>3, <1>6, <2>1, BatchFacts
  <2>2. CASE r \in running
    BY <1>1, <1>3, <1>6, <2>2 DEF PlaceInv
  <2>3. QED
    BY <1>2, <1>6, <2>1, <2>2
<1>7. QED
  BY <1>4, <1>5, <1>6 DEF PlaceInv

LEMMA PlacesAfterDecode ==
  ASSUME StepDecode
  PROVE  running' \subseteq running /\ served' \subseteq served \cup running
<1>1. CASE UNCHANGED <<running, served>>
  BY <1>1
<1>2. CASE \E row, copied, mem : \E ended \in Endings(running) :
             AfterForward(running, ended, copied, mem)
  BY <1>2 DEF AfterForward, Endings
<1>3. QED
  BY <1>1, <1>2 DEF StepDecode, Fails

LEMMA PlaceDecode ==
  ASSUME QueueInv, PlaceInv, StepDecode
  PROVE  QueueInv' /\ PlaceInv'
<1>1. UNCHANGED queueVars
  BY DEF StepDecode
<1>2. running' \subseteq running /\ served' \subseteq served \cup running
  BY PlacesAfterDecode
<1>3. QED
  BY <1>1, <1>2 DEF queueVars, QueueInv, PlaceInv

-----------------------------------------------------------------------------
(***************************************************************************)
(* A group arrives, or its client gives up.                                *)
(***************************************************************************)
LEMMA QueueAfterAdd ==
  ASSUME QueueInv, NEW g \in Group, AddReqGroup(g)
  PROVE  /\ QueueInv' /\ sent' = sent \cup {g} /\ g \notin sent
         /\ \A i \in 1..Len(waiting_req_list') :
              \/ \E j \in 1..Len(waiting_req_list) : waiting_req_list'[i] = waiting_req_list[j]
              \/ waiting_req_list'[i][1] = g
<1> DEFINE q == waiting_req_list
           s == [i \in 1..BestOf[g] |-> <<g, i>>]
<1>1. q \in Seq(Req) /\ Len(q) \in Nat /\ q \in [1..Len(q) -> Req]
      /\ BestOf[g] \in Nat /\ g \notin sent /\ sent' = sent \cup {g}
  BY LenProperties, Constants DEF QueueInv, AddReqGroup
<1>2. s \in Seq(Req) /\ Len(s) = BestOf[g] /\ \A i \in 1..Len(s) : s[i] = <<g, i>>
  <2>1. \A i \in 1..BestOf[g] : <<g, i>> \in Req
    BY ReqIs
  <2>2. QED
    BY <1>1, <2>1, IsASeq
<1> HIDE DEF s
<1>3. PICK t : t = q \o s
  OBVIOUS
<1>4. waiting_req_list' = t
  BY <1>3 DEF AddReqGroup, s
<1>5. /\ t \in Seq(Req) /\ Len(t) = Len(q) + Len(s)
      /\ \A i \in 1..(Len(q) + Len(s)) : t[i] = IF i <= Len(q) THEN q[i] ELSE s[i - Len(q)]
  BY <1>1, <1>2, <1>3, ConcatProperties
<1>6. PICK n \in Nat, m \in Nat : n = Len(q) /\ m = Len(s)
  BY <1>1, <1>2
<1>7. \A i \in 1..Len(t) : /\ i \in Nat
                           /\ i <= n => i \in 1..n /\ t[i] = q[i]
                           /\ ~(i <= n) => t[i] = <<g, i - n>>
  <2>1. SUFFICES ASSUME NEW i \in 1..(n + m)
                 PROVE  /\ i <= n => t[i] = q[i]
                        /\ ~(i <= n) => t[i] = <<g, i - n>>
    BY <1>5, <1>6
  <2>2. t[i] = IF i <= n THEN q[i] ELSE s[i - n]
    BY <1>5, <1>6
  <2>3. ~(i <= n) => i - n \in 1..m
    OBVIOUS
  <2>4. QED
    BY <1>2, <1>6, <2>2, <2>3
<1>8. \A i \in 1..n : q[i][1] \in sent /\ q[i][1] # g
  BY <1>1, <1>6 DEF QueueInv
<1>9. Distinct(t)
  <2>1. SUFFICES ASSUME NEW i \in 1..Len(t), NEW j \in 1..Len(t), t[i] = t[j]
                 PROVE  i = j
    BY DEF Distinct
  <2>2. CASE i <= n /\ j <= n
    BY <1>6, <1>7, <2>1, <2>2 DEF QueueInv, Distinct
  <2>3. CASE ~(i <= n) /\ ~(j <= n)
    <3>1. i \in Nat /\ j \in Nat /\ i - n = j - n
      BY <1>7, <2>1, <2>3
    <3>2. QED
      BY <3>1
  <2>4. CASE (i <= n /\ ~(j <= n)) \/ (~(i <= n) /\ j <= n)
    BY <1>7, <1>8, <2>1, <2>4
  <2>5. QED
    BY <2>2, <2>3, <2>4
<1>10. Blocks(t)
  <2>0. SUFFICES \A i, j, k \in 1..Len(t) :
                   i < j /\ j < k /\ t[i][1] = t[k][1] => t[j][1] = t[i][1]
    BY DEF Blocks
  <2> TAKE i, j, k \in 1..Len(t)
  <2>1. HAVE i < j /\ j < k /\ t[i][1] = t[k][1]
  <2>2. i \in Nat /\ j \in Nat /\ k \in Nat
    BY <1>7
  <2>3. CASE k <= n
    <3>1. i <= n /\ j <= n
      BY <2>1, <2>2, <2>3
    <3>2. i \in 1..n /\ j \in 1..n /\ k \in 1..n /\ q[i][1] = q[k][1]
          /\ t[i] = q[i] /\ t[j] = q[j]
      BY <1>7, <2>1, <2>3, <3>1
    <3>3. q[j][1] = q[i][1]
      BY <1>6, <2>1, <3>2 DEF QueueInv, Blocks
    <3>4. QED
      BY <3>2, <3>3
  <2>4. CASE ~(k <= n)
    <3>1. t[k][1] = g
      BY <1>7, <2>4
    <3>2. ~(i <= n)
      BY <1>7, <1>8, <2>1, <3>1
    <3>3. ~(j <= n)
      BY <2>1, <2>2, <3>2
    <3>4. QED
      BY <1>7, <3>2, <3>3
  <2>5. QED
    BY <2>3, <2>4
<1>11. \A i \in 1..Len(t) : (\E j \in 1..n : t[i] = q[j]) \/ t[i][1] = g
  BY <1>7
<1>12. \A i \in 1..Len(t) : t[i][1] \in sent \cup {g}
  BY <1>8, <1>11
<1>13. QueueInv'
  <2>1. sent' \subseteq Group
    BY <1>1 DEF QueueInv
  <2>2. QED
    BY <1>1, <1>4, <1>5, <1>9, <1>10, <1>12, <2>1 DEF QueueInv
<1>14. QED
  BY <1>1, <1>4, <1>6, <1>11, <1>13

LEMMA PlaceAdd ==
  ASSUME QueueInv, PlaceInv, NEW g \in Group, AddReqGroup(g)
  PROVE  PlaceInv'
<1>1. /\ sent' = sent \cup {g} /\ g \notin sent
      /\ \A i \in 1..Len(waiting_req_list') :
           \/ \E j \in 1..Len(waiting_req_list) : waiting_req_list'[i] = waiting_req_list[j]
           \/ waiting_req_list'[i][1] = g
  BY QueueAfterAdd
<1>2. aborted' = aborted /\ running' = running /\ served' = served
  BY DEF AddReqGroup, runVars
<1>3. \A r \in running \cup served : r[1] # g
  BY <1>1 DEF PlaceInv
<1>4. QED
  BY <1>1, <1>2, <1>3 DEF PlaceInv

LEMMA PlaceAbort ==
  ASSUME QueueInv, PlaceInv, NEW g \in Group, AbortGroup(g)
  PROVE  QueueInv' /\ PlaceInv'
<1>1. /\ waiting_req_list' = waiting_req_list /\ sent' = sent
      /\ running' = running /\ served' = served
      /\ aborted \subseteq aborted' /\ aborted' \subseteq aborted \cup Req
  BY DEF AbortGroup, runVars
<1>2. QED
  BY <1>1 DEF QueueInv, PlaceInv

-----------------------------------------------------------------------------
(***************************************************************************)
(* The forward of a prefill and of a decode.                               *)
(***************************************************************************)
Kept == UNCHANGED <<running, cur_output_len, served, memVars>>

PrefillRows == [r \in Run |-> PromptRow(r[1])]
PrefillRuns(ended) ==
  /\ ended \subseteq Run
  /\ SumFunctionOnSet(InputLen, {r[1] : r \in Run}) <= can_use_mem_size
  /\ AfterForward(running \cup Batch, ended, PrefillRows, PromptRefs(Run))

LEMMA NeedIsSum ==
  ASSUME NEW S
  PROVE  MapThenSumSet(LAMBDA g : InputLen[g], S) = SumFunctionOnSet(InputLen, S)
BY DEF MapThenSumSet, SumFunctionOnSet, FoldFunctionOnSet, MapThenFoldSet

LEMMA PrefillCases ==
  ASSUME QueueInv, StepPrefill, PoolInv
  PROVE  Kept \/ \E ended : PrefillRuns(ended)
<1> DEFINE run  == {r \in MembersOf(Taken) : HeadOf(r[1]) \in MembersOf(Taken)}
           need == MapThenSumSet(LAMBDA g : InputLen[g], {r[1] : r \in run})
<1>1. run = Run /\ MembersOf(Taken) = Batch
  BY DEF Run, Batch
<1>2. CASE Fails
  BY <1>2 DEF Fails, Kept
<1>3. CASE ~(need > can_use_mem_size) /\
           \E ended \in Endings(run), mem \in {PromptRefs(run)} :
             AfterForward(running \cup MembersOf(Taken), ended,
                          [r \in run |-> PromptRow(r[1])], mem)
  <2>1. PICK ended \in Endings(Run) :
          AfterForward(running \cup Batch, ended, PrefillRows, PromptRefs(Run))
    BY <1>1, <1>3 DEF PrefillRows
  <2>2. ended \subseteq Run
    BY <2>1 DEF Endings
  <2>3. SumFunctionOnSet(InputLen, {r[1] : r \in Run}) <= can_use_mem_size
    <3>1. PICK G : G = {r[1] : r \in Run}
      OBVIOUS
    <3>2. ~(SumFunctionOnSet(InputLen, G) > can_use_mem_size)
      <4>1. ~(MapThenSumSet(LAMBDA g : InputLen[g], G) > can_use_mem_size)
        BY <1>1, <1>3, <3>1
      <4>2. QED
        BY <4>1, NeedIsSum
    <3>3. G \subseteq Group
      BY <3>1, UpToFinite, ReqIs DEF Run, Batch, MembersOf
    <3>4. IsFiniteSet(G) /\ \A g \in G : InputLen[g] \in Int
      <4>1. IsFiniteSet(G)
        BY <3>3, Constants, FS_Subset
      <4>2. \A g \in G : InputLen[g] \in Nat
        BY <3>3, Constants
      <4>3. QED
        BY <4>1, <4>2
    <3>5. SumFunctionOnSet(InputLen, G) \in Int
      BY <3>4, SumStep
    <3>6. can_use_mem_size \in Nat
      BY DEF PoolInv
    <3>7. QED
      BY <3>1, <3>2, <3>5, <3>6
  <2>4. QED
    BY <2>1, <2>2, <2>3 DEF PrefillRuns
<1>4. QED
  BY <1>2, <1>3 DEF StepPrefill

DecodeRows == [r \in running |-> held[r] \cup {NewCell(r)}]
CopiedRows(p) == [r \in running |-> DecodeRows[p[r]]]
DecodeRuns(p, ended) ==
  /\ p \in [running -> running]
  /\ \A r \in running : p[r][1] = r[1] /\ (IsBeam(r) \/ p[r] = r)
  /\ ended \subseteq running
  /\ \A r \in running \ ended : ~MustEnd(r)
  /\ CanDecode /\ \A r \in running : DecodeReady(r)
  /\ AfterForward(running, ended, CopiedRows(p), CopiedRefs(running, DecodeRows, CopiedRows(p)))

LEMMA DecodeCases ==
  ASSUME StepDecode
  PROVE  Kept \/ \E p, ended : DecodeRuns(p, ended)
<1>1. CASE Fails
  BY <1>1 DEF Fails, Kept
<1>2. CASE /\ CanDecode /\ \A r \in running : DecodeReady(r)
           /\ \E row \in {[r \in running |-> held[r] \cup {NewCell(r)}]} :
                \E copied \in {[r \in running |-> row[p[r]]] : p \in Parents(running)} :
                  \E ended \in Endings(running), mem \in {CopiedRefs(running, row, copied)} :
                    AfterForward(running, ended, copied, mem)
  <2>1. PICK row : /\ row = DecodeRows
                   /\ \E copied \in {[r \in running |-> row[p[r]]] : p \in Parents(running)} :
                        \E ended \in Endings(running), mem \in {CopiedRefs(running, row, copied)} :
                          AfterForward(running, ended, copied, mem)
    BY <1>2, Zenon DEF DecodeRows
  <2>9. PICK copied \in {[r \in running |-> row[p[r]]] : p \in Parents(running)} :
          \E ended \in Endings(running), mem \in {CopiedRefs(running, row, copied)} :
            AfterForward(running, ended, copied, mem)
    BY <2>1
  <2>8. PICK p \in Parents(running) : copied = [r \in running |-> row[p[r]]]
    OBVIOUS
  <2>2. p \in Parents(running) /\ \E ended \in Endings(running) :
          /\ copied = [r \in running |-> row[p[r]]]
          /\ AfterForward(running, ended, copied, CopiedRefs(running, row, copied))
    BY <2>9, <2>8, Zenon
  <2>6. copied = CopiedRows(p)
    BY <2>1, <2>2 DEF CopiedRows
  <2>7. PICK ended \in Endings(running) :
          AfterForward(running, ended, CopiedRows(p), CopiedRefs(running, DecodeRows, CopiedRows(p)))
    BY <2>1, <2>2, <2>6
  <2>3. /\ p \in [running -> running]
        /\ \A r \in running : p[r][1] = r[1] /\ (IsBeam(r) \/ p[r] = r)
    BY <2>2 DEF Parents
  <2>4. ended \subseteq running /\ \A r \in running \ ended : ~MustEnd(r)
    BY DEF Endings
  <2>5. QED
    BY <1>2, <2>3, <2>4, <2>7 DEF DecodeRuns
<1>3. QED
  BY <1>1, <1>2 DEF StepDecode

-----------------------------------------------------------------------------
(***************************************************************************)
(* Output lengths.                                                         *)
(***************************************************************************)
LEMMA LengthPrefill ==
  ASSUME QueueInv, PlaceInv, LengthInv, NEW ended, PrefillRuns(ended)
  PROVE  LengthInv'
<1>1. /\ running' = (running \cup Batch) \ ended /\ served' = served \cup ended
      /\ cur_output_len' = [r \in Req |-> IF r \in Run THEN cur_output_len[r] + 1
                                                       ELSE cur_output_len[r]]
  BY DEF PrefillRuns, AfterForward, PrefillRows
<1>2. /\ cur_output_len \in [Req -> Nat] /\ ended \subseteq Run
      /\ running \subseteq Req /\ served \subseteq Req
  BY DEF LengthInv, PrefillRuns, PlaceInv
<1>3. \A r \in Batch : /\ r \in Req /\ r[1] \in Group /\ cur_output_len[r] = 0
                       /\ r \notin running /\ \A p \in running : p[1] # r[1]
  BY BatchFacts, ReqIs DEF LengthInv
<1>4. \A r \in Batch : cur_output_len'[r] = IF r \in Run THEN 1 ELSE 0
  BY <1>1, <1>2, <1>3
<1>5. \A r \in Req : r \notin Batch => cur_output_len'[r] = cur_output_len[r]
  BY <1>1, <1>2, BatchFacts
<1>6. \A r \in Batch : 1 <= MaxNew[r[1]] /\ MaxNew[r[1]] \in Nat
  BY <1>3, Constants
<1>7. cur_output_len' \in [Req -> Nat]
  BY <1>1, <1>2
<1>8. ASSUME NEW r \in Req \ (running' \cup served') PROVE cur_output_len'[r] = 0
  <2>1. r \notin Batch /\ r \notin running /\ r \notin served
    BY <1>1, <1>2, <1>3, <1>8
  <2>2. QED
    BY <1>5, <2>1 DEF LengthInv
<1>9. ASSUME NEW r \in running' PROVE cur_output_len'[r] <= MaxNew[r[1]]
  <2>1. CASE r \in Batch
    BY <1>4, <1>6, <2>1
  <2>2. CASE r \notin Batch
    BY <1>1, <1>2, <1>5, <2>2 DEF LengthInv
  <2>3. QED
    BY <2>1, <2>2
<1>10. ASSUME NEW r \in served' PROVE cur_output_len'[r] <= MaxNew[r[1]] + 1
  <2>1. CASE r \in Batch
    BY <1>4, <1>6, <2>1
  <2>2. CASE r \notin Batch
    BY <1>1, <1>2, <1>5, <2>2, BatchFacts DEF LengthInv
  <2>3. QED
    BY <2>1, <2>2
<1>11. ASSUME NEW r \in running', NEW q \in running', r[1] = q[1],
              cur_output_len'[r] > 0, cur_output_len'[q] > 0
       PROVE  cur_output_len'[r] = cur_output_len'[q]
  <2>1. r \in running \cup Batch /\ q \in running \cup Batch
    BY <1>1
  <2>2. CASE r \in Batch \/ q \in Batch
    <3>1. r \in Batch /\ q \in Batch
      BY <1>3, <1>11, <2>1, <2>2
    <3>2. QED
      BY <1>4, <1>11, <3>1
  <2>3. CASE r \notin Batch /\ q \notin Batch
    <3>1. r \in Req /\ q \in Req /\ r \in running /\ q \in running
      BY <1>2, <2>1, <2>3
    <3>2. cur_output_len'[r] = cur_output_len[r] /\ cur_output_len'[q] = cur_output_len[q]
      BY <1>5, <2>3, <3>1
    <3>3. QED
      BY <1>11, <3>1, <3>2 DEF LengthInv
  <2>4. QED
    BY <2>2, <2>3
<1>12. QED
  BY <1>7, <1>8, <1>9, <1>10, <1>11 DEF LengthInv

LEMMA LengthDecode ==
  ASSUME PlaceInv, LengthInv, NEW p, NEW ended, DecodeRuns(p, ended)
  PROVE  LengthInv'
<1>1. /\ running' = running \ ended /\ served' = served \cup ended
      /\ cur_output_len' = [r \in Req |-> IF r \in running THEN cur_output_len[r] + 1
                                                           ELSE cur_output_len[r]]
  BY DEF DecodeRuns, AfterForward, CopiedRows
<1>2. /\ cur_output_len \in [Req -> Nat] /\ ended \subseteq running
      /\ running \subseteq Req /\ served \subseteq Req
  BY DEF LengthInv, DecodeRuns, PlaceInv
<1>3. \A r \in running : cur_output_len'[r] = cur_output_len[r] + 1 /\ cur_output_len[r] > 0
  BY <1>1, <1>2 DEF DecodeRuns, DecodeReady
<1>4. \A r \in Req : r \notin running => cur_output_len'[r] = cur_output_len[r]
  BY <1>1, <1>2
<1>5. cur_output_len' \in [Req -> Nat]
  BY <1>1, <1>2
<1>6. ASSUME NEW r \in Req \ (running' \cup served') PROVE cur_output_len'[r] = 0
  BY <1>1, <1>2, <1>4, <1>6 DEF LengthInv
<1>7. \A r \in running : MaxNew[r[1]] \in Nat /\ cur_output_len[r] \in Nat
                         /\ cur_output_len[r] <= MaxNew[r[1]]
  BY <1>2, ReqIs, Constants DEF LengthInv
<1>8. ASSUME NEW r \in running' PROVE cur_output_len'[r] <= MaxNew[r[1]]
  <2>1. r \in running /\ ~MustEnd(r)
    BY <1>1, <1>8 DEF DecodeRuns
  <2>2. PICK m \in Nat, n \in Nat : m = MaxNew[r[1]] /\ n = cur_output_len[r]
    BY <1>7, <2>1
  <2>3. n + 1 <= m
    BY <2>1, <2>2 DEF MustEnd
  <2>4. QED
    BY <1>3, <2>1, <2>2, <2>3
<1>9. ASSUME NEW r \in served' PROVE cur_output_len'[r] <= MaxNew[r[1]] + 1
  <2>1. CASE r \in running
    BY <1>3, <1>7, <2>1
  <2>2. CASE r \notin running
    BY <1>1, <1>2, <1>4, <1>9, <2>2 DEF LengthInv
  <2>3. QED
    BY <2>1, <2>2
<1>10. ASSUME NEW r \in running', NEW q \in running', r[1] = q[1]
       PROVE  cur_output_len'[r] = cur_output_len'[q]
  <2>1. r \in running /\ q \in running
    BY <1>1, <1>10
  <2>2. cur_output_len[r] = cur_output_len[q]
    BY <1>3, <1>10, <2>1 DEF LengthInv
  <2>3. QED
    BY <1>3, <2>1, <2>2
<1>11. QED
  BY <1>5, <1>6, <1>8, <1>9, <1>10 DEF LengthInv

-----------------------------------------------------------------------------
(***************************************************************************)
(* Rows.                                                                   *)
(***************************************************************************)
LEMMA PromptRowIs ==
  ASSUME NEW g \in Group
  PROVE  /\ PromptRow(g) \subseteq Cell
         /\ \A c \in PromptRow(g) : c[1] = HeadOf(g) /\ c[2] \in 1..InputLen[g]
         /\ IsFiniteSet(PromptRow(g)) /\ Cardinality(PromptRow(g)) = InputLen[g]
<1>1. /\ InputLen[g] \in Nat /\ InputLen[g] <= MaxReqTotal /\ MaxReqTotal \in Nat
      /\ BestOf[g] \in Nat /\ 1 <= BestOf[g] /\ 1 <= InputLen[g]
  BY Constants
<1>2. HeadOf(g) \in Req
  BY <1>1, ReqIs DEF HeadOf
<1>3. 1..InputLen[g] \subseteq 1..(MaxReqTotal + 1)
  BY <1>1
<1>4. PromptRow(g) \subseteq Cell
  BY <1>2, <1>3 DEF PromptRow, Cell
<1>5. \A c \in PromptRow(g) : c[1] = HeadOf(g) /\ c[2] \in 1..InputLen[g]
  BY DEF PromptRow
<1>6. IsFiniteSet(1..InputLen[g]) /\ Cardinality(1..InputLen[g]) = InputLen[g]
  <2>1. PICK m \in Nat : m = InputLen[g] /\ 1 <= m
    BY <1>1
  <2>2. 1 \in Int /\ m \in Int
    OBVIOUS
  <2>3. IsFiniteSet(1..m) /\ Cardinality(1..m) = IF 1 > m THEN 0 ELSE m - 1 + 1
    BY <2>2, FS_Interval
  <2>4. QED
    BY <2>1, <2>3
<1>7. IsFiniteSet({HeadOf(g)}) /\ Cardinality({HeadOf(g)}) = 1
  BY FS_Singleton
<1>8. IsFiniteSet(PromptRow(g)) /\ Cardinality(PromptRow(g)) = 1 * InputLen[g]
  <2>1. PICK S, T : S = {HeadOf(g)} /\ T = 1..InputLen[g]
    OBVIOUS
  <2>2. IsFiniteSet(S) /\ IsFiniteSet(T) /\ Cardinality(S) = 1 /\ Cardinality(T) = InputLen[g]
    BY <1>6, <1>7, <2>1
  <2>3. IsFiniteSet(S \X T) /\ Cardinality(S \X T) = Cardinality(S) * Cardinality(T)
    BY <2>2, FS_Product
  <2>4. PromptRow(g) = S \X T
    BY <2>1 DEF PromptRow
  <2> QED
    BY <2>2, <2>3, <2>4
<1>9. 1 * InputLen[g] = InputLen[g]
  BY <1>1
<1>10. QED
  BY <1>4, <1>5, <1>8, <1>9

LEMMA NewCellIs ==
  ASSUME PlaceInv, LengthInv, NEW r \in running
  PROVE  /\ NewCell(r) \in Cell /\ NewCell(r)[1] = r
         /\ NewCell(r)[2] = InputLen[r[1]] + cur_output_len[r]
<1>1. r \in Req /\ r[1] \in Group
  BY ReqIs DEF PlaceInv
<1>2. PICK i \in Nat, m \in Nat, n \in Nat, t \in Nat :
        /\ i = InputLen[r[1]] /\ m = MaxNew[r[1]] /\ n = cur_output_len[r] /\ t = MaxReqTotal
        /\ 1 <= i /\ i + m <= t
  BY <1>1, Constants DEF LengthInv
<1>3. n <= m
  BY <1>2 DEF LengthInv
<1>4. i + n \in 1..(t + 1)
  BY <1>2, <1>3
<1>5. <<r, i + n>> \in Cell
  BY <1>1, <1>2, <1>4, CellFacts
<1>6. QED
  BY <1>2, <1>5 DEF NewCell

LEMMA RowPrefill ==
  ASSUME QueueInv, PlaceInv, LengthInv, RowInv, NEW ended, PrefillRuns(ended)
  PROVE  RowInv'
<1>1. /\ running' = (running \cup Batch) \ ended
      /\ cur_output_len' = [r \in Req |-> IF r \in Run THEN cur_output_len[r] + 1
                                                       ELSE cur_output_len[r]]
      /\ held' = [r \in Req |-> IF r \in ended THEN {}
                                ELSE IF r \in Run THEN PromptRow(r[1]) ELSE held[r]]
  BY DEF PrefillRuns, AfterForward, PrefillRows
<1>2. /\ cur_output_len \in [Req -> Nat] /\ held \in [Req -> SUBSET Cell]
      /\ ended \subseteq Run /\ Run \subseteq Batch /\ Batch \subseteq Req /\ running \subseteq Req
  BY BatchFacts DEF LengthInv, RowInv, PrefillRuns, PlaceInv
<1>3. \A r \in Batch : /\ r[1] \in Group /\ cur_output_len[r] = 0 /\ r \notin running
                       /\ held[r] = {}
  BY <1>2, BatchFacts, ReqIs DEF LengthInv, RowInv
<1>4. \A r \in Run : PromptRow(r[1]) \subseteq Cell
                     /\ \A c \in PromptRow(r[1]) : c[2] \in 1..InputLen[r[1]]
  BY <1>2, <1>3, PromptRowIs
<1>5. held' \in [Req -> SUBSET Cell]
  BY <1>1, <1>2, <1>4
<1>6. ASSUME NEW r \in Req \ running' PROVE held'[r] = {}
  BY <1>1, <1>2, <1>3, <1>6 DEF RowInv
<1>7. ASSUME NEW r \in running'
      PROVE  /\ cur_output_len'[r] = 0 => held'[r] = {}
             /\ \A c \in held'[r] : c[2] < InputLen[r[1]] + cur_output_len'[r]
  <2>1. r \in Req /\ r \notin ended
    BY <1>1, <1>2
  <2>2. CASE r \in Run
    <3>1. held'[r] = PromptRow(r[1]) /\ cur_output_len'[r] = 1
      BY <1>1, <1>2, <1>3, <2>1, <2>2
    <3>2. InputLen[r[1]] \in Nat
      BY <1>2, <1>3, <2>2, Constants
    <3>3. \A c \in held'[r] : c[2] \in 1..InputLen[r[1]]
      BY <1>4, <2>2, <3>1
    <3>4. QED
      BY <3>1, <3>2, <3>3
  <2>3. CASE r \notin Run
    <3>1. held'[r] = held[r] /\ cur_output_len'[r] = cur_output_len[r]
      BY <1>1, <2>1, <2>3
    <3>2. QED
      BY <1>1, <1>3, <2>1, <3>1 DEF RowInv
  <2>4. QED
    BY <2>2, <2>3
<1>8. QED
  BY <1>5, <1>6, <1>7 DEF RowInv

LEMMA RowDecode ==
  ASSUME PlaceInv, LengthInv, RowInv, NEW p, NEW ended, DecodeRuns(p, ended)
  PROVE  RowInv'
<1>1. /\ running' = running \ ended
      /\ cur_output_len' = [r \in Req |-> IF r \in running THEN cur_output_len[r] + 1
                                                           ELSE cur_output_len[r]]
      /\ held' = [r \in Req |-> IF r \in ended THEN {}
                                ELSE IF r \in running THEN CopiedRows(p)[r] ELSE held[r]]
  BY DEF DecodeRuns, AfterForward, CopiedRows
<1>2. /\ cur_output_len \in [Req -> Nat] /\ held \in [Req -> SUBSET Cell]
      /\ ended \subseteq running /\ running \subseteq Req
      /\ p \in [running -> running] /\ \A r \in running : p[r][1] = r[1]
  BY DEF LengthInv, RowInv, DecodeRuns, PlaceInv
<1>3. \A r \in running : CopiedRows(p)[r] = held[p[r]] \cup {NewCell(p[r])}
  BY <1>2 DEF CopiedRows, DecodeRows
<1>4. \A r \in running : cur_output_len[p[r]] = cur_output_len[r]
  BY <1>2 DEF LengthInv, DecodeRuns, DecodeReady
<1>5. \A r \in running : CopiedRows(p)[r] \subseteq Cell
  BY <1>2, <1>3, NewCellIs
<1>6. held' \in [Req -> SUBSET Cell]
  BY <1>1, <1>2, <1>5
<1>7. ASSUME NEW r \in Req \ running' PROVE held'[r] = {}
  BY <1>1, <1>7 DEF RowInv
<1>8. ASSUME NEW r \in running'
      PROVE  /\ cur_output_len'[r] = 0 => held'[r] = {}
             /\ \A c \in held'[r] : c[2] < InputLen[r[1]] + cur_output_len'[r]
  <2>1. r \in running /\ r \notin ended /\ r \in Req /\ p[r] \in running /\ p[r][1] = r[1]
    BY <1>1, <1>2, <1>8
  <2>2. PICK i \in Nat, n \in Nat : i = InputLen[r[1]] /\ n = cur_output_len[r]
    BY <1>2, <2>1, ReqIs, Constants
  <2>3. cur_output_len'[r] = n + 1 /\ held'[r] = held[p[r]] \cup {NewCell(p[r])}
    BY <1>1, <1>3, <2>1, <2>2
  <2>4. \A c \in held[p[r]] : c[2] < i + n
    BY <1>4, <2>1, <2>2 DEF RowInv
  <2>5. NewCell(p[r])[2] = i + n
    BY <1>4, <2>1, <2>2, NewCellIs
  <2>6. \A c \in held[p[r]] : c[2] \in Nat
    <3>1. held[p[r]] \subseteq Cell
      BY <1>2, <2>1
    <3>2. \A c \in Cell : c[2] \in 1..(MaxReqTotal + 1)
      BY CellFacts
    <3>3. QED
      BY <3>1, <3>2, Constants
  <2>7. \A c \in held'[r] : c[2] < i + (n + 1)
    <3>1. SUFFICES ASSUME NEW c \in held'[r] PROVE c[2] < i + (n + 1)
      OBVIOUS
    <3>2. c[2] \in Nat /\ c[2] <= i + n
      BY <2>3, <2>4, <2>5, <2>6
    <3>3. QED
      BY <3>2
  <2>8. QED
    BY <2>2, <2>3, <2>7
<1>9. QED
  BY <1>6, <1>7, <1>8 DEF RowInv

-----------------------------------------------------------------------------
(***************************************************************************)
(* The pool.                                                               *)
(***************************************************************************)
\* SetMem counts the free tokens when as many are free as may be newly used.
LEMMA FreeTokens ==
  ASSUME PoolInv, NEW mem \in [Cell -> Nat], SetMem(mem),
         NEW F, IsFiniteSet(F), Cardinality(F) <= can_use_mem_size,
         \A c \in Cell : mem_state[c] = 0 /\ mem[c] > 0 => c \in F
  PROVE  /\ can_use_mem_size' \in Nat /\ mem_state' = mem
         /\ can_use_mem_size' + Cardinality({c \in Cell : mem_state'[c] > 0}) = MaxTotal
<1> DEFINE Used   == {c \in Cell : mem_state[c] > 0}
           Using  == {c \in Cell : mem[c] > 0}
           Taking == {c \in Cell : mem_state[c] = 0 /\ mem[c] > 0}
           Giving == {c \in Cell : mem_state[c] > 0 /\ mem[c] = 0}
           Both   == {c \in Cell : mem_state[c] > 0 /\ mem[c] > 0}
<1>1. mem_state \in [Cell -> Nat] /\ can_use_mem_size \in Nat
      /\ can_use_mem_size + Cardinality(Used) = MaxTotal
  BY DEF PoolInv, SharedTokens
<1>2. Used = Both \cup Giving /\ Both \cap Giving = {}
      /\ Using = Both \cup Taking /\ Both \cap Taking = {}
  BY <1>1
<1>3. Both \subseteq Cell /\ Giving \subseteq Cell /\ Taking \subseteq Cell /\ Taking \subseteq F
  OBVIOUS
<1>4. mem_state' = mem
      /\ can_use_mem_size' = can_use_mem_size - Cardinality(Taking) + Cardinality(Giving)
  BY DEF SetMem
<1>5. {c \in Cell : mem_state'[c] > 0} = Using
  BY <1>4
<1> HIDE DEF Used, Using, Taking, Giving, Both
<1>6. /\ IsFiniteSet(Both) /\ Cardinality(Both) \in Nat
      /\ IsFiniteSet(Giving) /\ Cardinality(Giving) \in Nat
      /\ IsFiniteSet(Taking) /\ Cardinality(Taking) \in Nat
  BY <1>3, CellFacts, CardPart
<1>7. Cardinality(Taking) <= Cardinality(F) /\ Cardinality(F) \in Nat
  BY <1>3, CardPart, FS_CardinalityType
<1>8. Cardinality(Used) = Cardinality(Both) + Cardinality(Giving)
  BY <1>2, <1>6, CardDisjoint
<1>9. Cardinality(Using) = Cardinality(Both) + Cardinality(Taking)
  BY <1>2, <1>6, CardDisjoint
<1>10. PICK b \in Nat, g \in Nat, t \in Nat, f \in Nat, n \in Nat :
         /\ b = Cardinality(Both) /\ g = Cardinality(Giving) /\ t = Cardinality(Taking)
         /\ f = Cardinality(F) /\ n = can_use_mem_size
  BY <1>1, <1>6, <1>7
<1>11. t <= n /\ n + (b + g) = MaxTotal /\ can_use_mem_size' = n - t + g
       /\ Cardinality(Using) = b + t
  BY <1>1, <1>4, <1>7, <1>8, <1>9, <1>10
<1>12. can_use_mem_size' \in Nat /\ can_use_mem_size' + Cardinality(Using) = MaxTotal
  BY <1>11
<1>13. QED
  BY <1>4, <1>5, <1>12

\* The rows after a forward of `batch' are those of the requests that go on.
LEMMA AfterForwardIs ==
  ASSUME NEW batch, NEW ended, NEW row, NEW mem, AfterForward(batch, ended, row, mem)
  PROVE  /\ running' = batch \ ended
         /\ held' = [r \in Req |-> IF r \in ended THEN {}
                                   ELSE IF r \in DOMAIN row THEN row[r] ELSE held[r]]
         /\ SetMem([c \in Cell |-> mem[c] - Holders(c, ended, row)])
BY DEF AfterForward

LEMMA PromptsFit ==
  ASSUME QueueInv, PlaceInv, NEW ended, PrefillRuns(ended)
  PROVE  LET F == UNION {PromptRow(g) : g \in {r[1] : r \in Run}}
         IN  IsFiniteSet(F) /\ Cardinality(F) <= can_use_mem_size
<1> DEFINE G == {r[1] : r \in Run}
           R == [g \in G |-> PromptRow(g)]
<1>1. G \subseteq Group
  BY BatchFacts, ReqIs
<1>2. UNION {PromptRow(g) : g \in G} = UNION {R[g] : g \in G}
  OBVIOUS
<1>3. \A g \in G : IsFiniteSet(R[g]) /\ Cardinality(R[g]) = InputLen[g] /\ InputLen[g] \in Nat
  <2>1. \A g \in G : IsFiniteSet(PromptRow(g)) /\ Cardinality(PromptRow(g)) = InputLen[g]
    BY <1>1, PromptRowIs
  <2>2. \A g \in G : InputLen[g] \in Nat
    BY <1>1, Constants
  <2>3. QED
    BY <2>1, <2>2
<1>4. \A g, h \in G : g # h => R[g] \cap R[h] = {}
  BY DEF PromptRow, HeadOf
<1>5. SumFunctionOnSet(InputLen, G) <= can_use_mem_size
  BY DEF PrefillRuns
<1>6. IsFiniteSet(G)
  BY <1>1, Constants, FS_Subset
<1> HIDE DEF G, R
<1>7. /\ IsFiniteSet(UNION {R[g] : g \in G})
      /\ Cardinality(UNION {R[g] : g \in G}) = SumFunctionOnSet(InputLen, G)
  BY <1>3, <1>4, <1>6, UnionSize
<1>8. IsFiniteSet(UNION {PromptRow(g) : g \in G})
      /\ Cardinality(UNION {PromptRow(g) : g \in G}) <= can_use_mem_size
  BY <1>2, <1>5, <1>7
<1>9. QED
  BY <1>8 DEF G

LEMMA PoolPrefill ==
  ASSUME QueueInv, PlaceInv, LengthInv, RowInv, PoolInv, NEW ended, PrefillRuns(ended)
  PROVE  PoolInv'
<1> DEFINE left == [c \in Cell |-> PromptRefs(Run)[c] - Holders(c, ended, PrefillRows)]
           F    == UNION {PromptRow(g) : g \in {r[1] : r \in Run}}
<1>1. /\ running' = (running \cup Batch) \ ended
      /\ held' = [r \in Req |-> IF r \in ended THEN {}
                                ELSE IF r \in DOMAIN PrefillRows THEN PrefillRows[r] ELSE held[r]]
      /\ SetMem(left)
  <2>1. AfterForward(running \cup Batch, ended, PrefillRows, PromptRefs(Run))
    BY DEF PrefillRuns
  <2>2. QED
    BY <2>1, AfterForwardIs
<1>2. /\ ended \subseteq Run /\ Run \subseteq Batch /\ Batch \subseteq Req /\ running \subseteq Req
      /\ \A r \in Batch : r \notin running /\ held[r] = {}
      /\ DOMAIN PrefillRows = Run
  BY BatchFacts DEF PrefillRuns, PlaceInv, RowInv, PrefillRows
<1>3. \A r \in Run : PrefillRows[r] = PromptRow(r[1])
  BY DEF PrefillRows
<1>4. ASSUME NEW c \in Cell
      PROVE  /\ left[c] = Holders(c, running', held') /\ left[c] \in Nat
             /\ mem_state[c] = 0 /\ left[c] > 0 => c \in F
  <2> DEFINE goes == Run \ ended
             idle == Batch \ Run
             rest == Batch \ ended
  <2>1. running' = running \cup rest /\ running \cap rest = {} /\ running' \subseteq Req
        /\ rest = goes \cup idle /\ goes \cap idle = {} /\ rest \subseteq Req
        /\ Run = goes \cup ended /\ goes \cap ended = {} /\ Run \subseteq Req
        /\ goes \subseteq Req /\ idle \subseteq Req /\ ended \subseteq Req
    BY <1>1, <1>2
  <2>2. /\ \A r \in running : held'[r] = held[r]
        /\ \A r \in goes : held'[r] = PrefillRows[r]
        /\ \A r \in idle : held'[r] = {}
    BY <1>1, <1>2
  <2> HIDE DEF goes, idle, rest
  <2>3. Holders(c, running', held') = Holders(c, running, held') + Holders(c, rest, held')
    BY <2>1, HoldersSplit
  <2>4. Holders(c, rest, held') = Holders(c, goes, held') + Holders(c, idle, held')
    BY <2>1, HoldersSplit
  <2>5. Holders(c, Run, PrefillRows) = Holders(c, goes, PrefillRows) + Holders(c, ended, PrefillRows)
    BY <2>1, HoldersSplit
  <2>6. Holders(c, running, held') = Holders(c, running, held)
    BY <2>2, HoldersSame
  <2>7. Holders(c, goes, held') = Holders(c, goes, PrefillRows)
    BY <2>2, HoldersSame
  <2>8. Holders(c, idle, held') = 0
    BY <2>1, <2>2, HoldersNone, HoldersNat
  <2>9. PromptRefs(Run)[c] = mem_state[c] + Holders(c, Run, PrefillRows)
    <3>1. {r \in Run : c \in PromptRow(r[1])} = {r \in Run : c \in PrefillRows[r]}
      BY <1>3
    <3>2. QED
      BY <3>1 DEF PromptRefs, Holders
  <2>10. mem_state[c] = Holders(c, running, held)
    BY DEF PoolInv, SharedTokens
  <2>11. left[c] = PromptRefs(Run)[c] - Holders(c, ended, PrefillRows)
    OBVIOUS
  <2>12. PICK a \in Nat, b \in Nat, e \in Nat :
           /\ a = Holders(c, running, held) /\ b = Holders(c, goes, PrefillRows)
           /\ e = Holders(c, ended, PrefillRows)
    BY <1>2, <2>1, HoldersNat
  <2> HIDE DEF left
  <2>13. left[c] = a + (b + e) - e /\ Holders(c, running', held') = a + (b + 0)
    BY <2>3, <2>4, <2>5, <2>6, <2>7, <2>8, <2>9, <2>10, <2>11, <2>12
  <2>14. left[c] = a + b /\ left[c] = Holders(c, running', held')
    BY <2>13
  <2>15. ASSUME mem_state[c] = 0, left[c] > 0 PROVE c \in F
    <3>1. b > 0
      BY <2>10, <2>12, <2>14, <2>15
    <3>2. \E r \in goes : c \in PrefillRows[r]
      BY <2>1, <2>12, <3>1, HoldersNone
    <3>3. QED
      BY <1>3, <2>1, <3>2
  <2>16. QED
    BY <2>14, <2>15
<1>5. left \in [Cell -> Nat]
  <2>1. \A c \in Cell : left[c] \in Nat
    BY <1>4
  <2>2. left = [c \in Cell |-> left[c]]
    OBVIOUS
  <2> HIDE DEF left
  <2>3. QED
    BY <2>1, <2>2
<1>6. IsFiniteSet(F) /\ Cardinality(F) <= can_use_mem_size
  BY PromptsFit
<1> HIDE DEF left, F
<1>7. /\ can_use_mem_size' \in Nat /\ mem_state' = left
      /\ can_use_mem_size' + Cardinality({c \in Cell : mem_state'[c] > 0}) = MaxTotal
  BY <1>1, <1>4, <1>5, <1>6, FreeTokens
<1>8. QED
  BY <1>4, <1>5, <1>7 DEF PoolInv, SharedTokens

LEMMA NewCellsFit ==
  ASSUME PlaceInv, PoolInv, CanDecode
  PROVE  LET F == {NewCell(r) : r \in running}
         IN  IsFiniteSet(F) /\ Cardinality(F) <= can_use_mem_size
<1> DEFINE F == {NewCell(r) : r \in running}
           f == [r \in running |-> NewCell(r)]
<1>1. IsFiniteSet(running) /\ Cardinality(running) \in Nat
  BY CardPart, ReqFinite DEF PlaceInv
<1>2. f \in Surjection(running, F)
  BY DEF Surjection
<1>3. IsFiniteSet(F) /\ Cardinality(F) <= Cardinality(running) /\ Cardinality(F) \in Nat
  <2> HIDE DEF f, F
  <2>1. QED
    BY <1>1, <1>2, FS_Surjection, FS_CardinalityType
<1>4. PICK n \in Nat, m \in Nat, t \in Nat :
        n = Cardinality(running) /\ m = can_use_mem_size /\ t = MaxTotal
  BY <1>1, Constants DEF PoolInv
<1>5. n + (t - m) <= t
  BY <1>4 DEF CanDecode, UsedTokens
<1>6. n <= m
  BY <1>5
<1> HIDE DEF F
<1>7. Cardinality(F) <= can_use_mem_size
  BY <1>3, <1>4, <1>6
<1>8. QED
  BY <1>3, <1>7 DEF F

LEMMA PoolDecode ==
  ASSUME PlaceInv, LengthInv, RowInv, PoolInv, NEW p, NEW ended, DecodeRuns(p, ended)
  PROVE  PoolInv'
<1> DEFINE row    == DecodeRows
           copied == CopiedRows(p)
           refs   == CopiedRefs(running, row, copied)
           left   == [c \in Cell |-> refs[c] - Holders(c, ended, copied)]
           F      == {NewCell(r) : r \in running}
           beams  == {r \in running : IsBeam(r)}
           plain  == {r \in running : ~IsBeam(r)}
           goes   == running \ ended
<1>1. /\ running' = running \ ended
      /\ held' = [r \in Req |-> IF r \in ended THEN {}
                                ELSE IF r \in DOMAIN copied THEN copied[r] ELSE held[r]]
      /\ SetMem(left)
  <2>1. AfterForward(running, ended, copied, refs)
    BY DEF DecodeRuns
  <2> HIDE DEF refs, copied
  <2>2. QED
    BY <2>1, AfterForwardIs
<1>2. /\ ended \subseteq running /\ running \subseteq Req
      /\ p \in [running -> running] /\ \A r \in plain : p[r] = r
      /\ DOMAIN copied = running
  BY DEF DecodeRuns, PlaceInv, CopiedRows
<1>3. \A r \in running : row[r] = held[r] \cup {NewCell(r)} /\ copied[r] = row[p[r]]
  BY DEF DecodeRows, CopiedRows
<1>4. \A r \in running : NewCell(r) \notin held[r]
  <2>1. SUFFICES ASSUME NEW r \in running, NewCell(r) \in held[r] PROVE FALSE
    OBVIOUS
  <2>2. PICK n : n = InputLen[r[1]] + cur_output_len[r]
    OBVIOUS
  <2>3. n \in Nat
    <3>1. InputLen[r[1]] \in Nat
      BY <1>2, ReqIs, Constants
    <3>2. cur_output_len[r] \in Nat
      BY <1>2 DEF LengthInv
    <3>3. QED
      BY <2>2, <3>1, <3>2
  <2>4. NewCell(r)[2] = n
    BY <2>2, NewCellIs
  <2>5. NewCell(r)[2] < n
    BY <2>1, <2>2 DEF RowInv
  <2>6. QED
    BY <2>3, <2>4, <2>5
<1>5. ASSUME NEW c \in Cell
      PROVE  /\ left[c] = Holders(c, running', held') /\ left[c] \in Nat
             /\ mem_state[c] = 0 /\ left[c] > 0 => c \in F
  <2> DEFINE X == {r \in running : c \in held[r]}
             Y == {r \in running : c = NewCell(r)}
  <2>1. Holders(c, running, row) = Holders(c, running, held) + Cardinality(Y)
        /\ Cardinality(Y) \in Nat
    <3>1. X \cap Y = {} /\ X \subseteq Req /\ Y \subseteq Req
      BY <1>2, <1>4
    <3>2. {r \in running : c \in row[r]} = X \cup Y
      BY <1>3
    <3>3. IsFiniteSet(X) /\ IsFiniteSet(Y) /\ Cardinality(Y) \in Nat
      <4> HIDE DEF X, Y
      <4>1. QED
        BY <3>1, CardPart, ReqFinite
    <3>4. Cardinality(X \cup Y) = Cardinality(X) + Cardinality(Y)
      <4> HIDE DEF X, Y
      <4>1. QED
        BY <3>1, <3>3, CardDisjoint
    <3>5. QED
      BY <3>2, <3>3, <3>4 DEF Holders
  <2>2. refs[c] = mem_state[c] + Cardinality(Y) - Holders(c, beams, row) + Holders(c, beams, copied)
    BY DEF CopiedRefs
  <2>3. /\ running = beams \cup plain /\ beams \cap plain = {}
        /\ running = goes \cup ended /\ goes \cap ended = {}
        /\ beams \subseteq Req /\ plain \subseteq Req /\ goes \subseteq Req /\ ended \subseteq Req
        /\ running' = goes
    BY <1>1, <1>2
  <2>4. (\A r \in plain : row[r] = copied[r]) /\ (\A r \in goes : held'[r] = copied[r])
    BY <1>1, <1>2, <1>3
  <2>5. mem_state[c] = Holders(c, running, held)
    BY DEF PoolInv, SharedTokens
  <2>6. left[c] = refs[c] - Holders(c, ended, copied)
    OBVIOUS
  <2> HIDE DEF row, copied, refs, left, beams, plain, goes, Y
  <2>7. Holders(c, running, row) = Holders(c, beams, row) + Holders(c, plain, row)
    BY <1>2, <2>3, HoldersSplit
  <2>8. Holders(c, running, copied) = Holders(c, beams, copied) + Holders(c, plain, copied)
    BY <1>2, <2>3, HoldersSplit
  <2>9. Holders(c, plain, row) = Holders(c, plain, copied)
    BY <2>4, HoldersSame
  <2>10. Holders(c, running, copied) = Holders(c, goes, copied) + Holders(c, ended, copied)
    BY <1>2, <2>3, HoldersSplit
  <2>11. Holders(c, running', held') = Holders(c, goes, copied)
    BY <2>3, <2>4, HoldersSame
  <2>12. PICK h \in Nat, y \in Nat, br \in Nat, bc \in Nat, pl \in Nat, g \in Nat, e \in Nat :
           /\ h = Holders(c, running, held) /\ y = Cardinality(Y)
           /\ br = Holders(c, beams, row) /\ bc = Holders(c, beams, copied)
           /\ pl = Holders(c, plain, copied)
           /\ g = Holders(c, goes, copied) /\ e = Holders(c, ended, copied)
    BY <1>2, <2>1, <2>3, HoldersNat
  <2>13. h + y = br + pl /\ bc + pl = g + e /\ left[c] = h + y - br + bc - e
    BY <2>1, <2>2, <2>5, <2>6, <2>7, <2>8, <2>9, <2>10, <2>12
  <2>14. left[c] = g
    BY <2>13
  <2>15. ASSUME mem_state[c] = 0, left[c] > 0 PROVE c \in F
    <3>1. \E r \in goes : c \in copied[r]
      BY <2>3, <2>12, <2>14, <2>15, HoldersNone
    <3>2. PICK r \in running : c \in held[p[r]] \cup {NewCell(p[r])} /\ p[r] \in running
      BY <1>2, <1>3, <2>3, <3>1
    <3>3. c \notin held[p[r]]
      <4>1. ~(Holders(c, running, held) > 0)
        BY <2>5, <2>15
      <4>2. ~ \E s \in running : c \in held[s]
        BY <1>2, <4>1, HoldersNone
      <4>3. QED
        BY <3>2, <4>2
    <3>4. QED
      BY <3>2, <3>3
  <2>16. QED
    BY <2>11, <2>12, <2>14, <2>15
<1>6. left \in [Cell -> Nat]
  <2>1. \A c \in Cell : left[c] \in Nat
    BY <1>5
  <2>2. left = [c \in Cell |-> left[c]]
    OBVIOUS
  <2> HIDE DEF left
  <2>3. QED
    BY <2>1, <2>2
<1>7. IsFiniteSet(F) /\ Cardinality(F) <= can_use_mem_size
  BY NewCellsFit DEF DecodeRuns
<1> HIDE DEF left, F
<1>8. /\ can_use_mem_size' \in Nat /\ mem_state' = left
      /\ can_use_mem_size' + Cardinality({c \in Cell : mem_state'[c] > 0}) = MaxTotal
  BY <1>1, <1>5, <1>6, <1>7, FreeTokens
<1>9. QED
  BY <1>5, <1>6, <1>8 DEF PoolInv, SharedTokens

-----------------------------------------------------------------------------
(***************************************************************************)
(* The invariant holds, and what follows from it.                          *)
(***************************************************************************)
LEMMA InitHolds ==
  ASSUME Init
  PROVE  GroupInv
<1>1. waiting_req_list \in Seq(Req) /\ Len(waiting_req_list) = 0 /\ 1..Len(waiting_req_list) = {}
  BY DEF Init
<1>2. QueueInv
  BY <1>1 DEF Init, QueueInv, Distinct, Blocks
<1>3. PlaceInv /\ LengthInv /\ RowInv
  BY DEF Init, PlaceInv, LengthInv, RowInv
<1>4. PoolInv
  <2>1. \A c \in Cell : Holders(c, running, held) = 0
    BY FS_EmptySet DEF Init, Holders
  <2>2. {c \in Cell : mem_state[c] > 0} = {}
    BY DEF Init
  <2>3. Cardinality({c \in Cell : mem_state[c] > 0}) = 0
    BY <2>2, FS_EmptySet
  <2>4. can_use_mem_size = MaxTotal /\ mem_state \in [Cell -> Nat] /\ \A c \in Cell : mem_state[c] = 0
    BY DEF Init
  <2>5. QED
    BY <2>1, <2>3, <2>4, Constants DEF PoolInv, SharedTokens
<1>5. StateInv
  BY Constants DEF Init, StateInv
<1>6. QED
  BY <1>2, <1>3, <1>4, <1>5 DEF GroupInv

\* A step that touches neither the running batch nor the pool.
LEMMA KeptHolds ==
  ASSUME PlaceInv, LengthInv, RowInv, PoolInv, Kept
  PROVE  LengthInv' /\ RowInv' /\ PoolInv'
<1>1. /\ running' = running /\ cur_output_len' = cur_output_len /\ served' = served
      /\ mem_state' = mem_state /\ held' = held /\ can_use_mem_size' = can_use_mem_size
  BY DEF Kept, memVars
<1>2. LengthInv' /\ RowInv'
  BY <1>1 DEF LengthInv, RowInv
<1>3. PoolInv'
  BY <1>1 DEF PoolInv, SharedTokens, Holders
<1>4. QED
  BY <1>2, <1>3

LEMMA StateHolds ==
  ASSUME StateInv, Next
  PROVE  StateInv'
<1>1. MaxWaitTokens \in Nat /\ 1 <= MaxWaitTokens
  BY Constants
<1>2. CASE StepPrefill
  BY <1>1, <1>2 DEF StepPrefill, Fails, StateInv
<1>3. CASE StepDecode
  <2>1. PICK w \in Nat, m \in Nat : w = has_wait_tokens /\ m = MaxWaitTokens /\ w <= m /\ 1 <= m
    BY <1>1 DEF StateInv
  <2>2. has_wait_tokens' = 1 + (IF w >= m THEN 0 ELSE w)
    BY <1>3, <2>1 DEF StepDecode, WaitTokensAtDecode
  <2>3. has_wait_tokens' \in 0..m
    BY <2>1, <2>2
  <2>4. at' \in {"step", "dead"}
    BY <1>3 DEF StepDecode, Fails, StateInv
  <2>5. QED
    BY <2>1, <2>3, <2>4 DEF StateInv
<1>4. CASE \E g \in Group : AddReqGroup(g) \/ AbortGroup(g)
  BY <1>4 DEF AddReqGroup, AbortGroup, runVars, StateInv
<1>5. QED
  BY <1>2, <1>3, <1>4 DEF Next, Fwd

LEMMA NextHolds ==
  ASSUME GroupInv, Next
  PROVE  GroupInv'
<1>1. QueueInv /\ PlaceInv /\ LengthInv /\ RowInv /\ PoolInv /\ StateInv
  BY DEF GroupInv
<1>2. StateInv'
  BY <1>1, StateHolds
<1>3. CASE StepPrefill
  <2>1. QueueInv' /\ PlaceInv'
    BY <1>1, <1>3, QueueAfterPrefill, PlacePrefill
  <2>2. CASE Kept
    BY <1>1, <1>2, <2>1, <2>2, KeptHolds DEF GroupInv
  <2>3. CASE \E ended : PrefillRuns(ended)
    <3>1. PICK ended : PrefillRuns(ended)
      BY <2>3
    <3>2. LengthInv' /\ RowInv' /\ PoolInv'
      BY <1>1, <3>1, LengthPrefill, RowPrefill, PoolPrefill
    <3>3. QED
      BY <1>2, <2>1, <3>2 DEF GroupInv
  <2>4. QED
    BY <1>1, <1>3, <2>2, <2>3, PrefillCases
<1>4. CASE StepDecode
  <2>1. QueueInv' /\ PlaceInv'
    BY <1>1, <1>4, PlaceDecode
  <2>2. CASE Kept
    BY <1>1, <1>2, <2>1, <2>2, KeptHolds DEF GroupInv
  <2>3. CASE \E p, ended : DecodeRuns(p, ended)
    <3>1. PICK p, ended : DecodeRuns(p, ended)
      BY <2>3
    <3>2. LengthInv' /\ RowInv' /\ PoolInv'
      BY <1>1, <3>1, LengthDecode, RowDecode, PoolDecode
    <3>3. QED
      BY <1>2, <2>1, <3>2 DEF GroupInv
  <2>4. QED
    BY <1>4, <2>2, <2>3, DecodeCases
<1>5. ASSUME NEW g \in Group, AddReqGroup(g) PROVE GroupInv'
  <2>1. Kept
    BY <1>5 DEF AddReqGroup, Kept, runVars
  <2>2. QueueInv' /\ PlaceInv'
    BY <1>1, <1>5, QueueAfterAdd, PlaceAdd
  <2>3. QED
    BY <1>1, <1>2, <2>1, <2>2, KeptHolds DEF GroupInv
<1>6. ASSUME NEW g \in Group, AbortGroup(g) PROVE GroupInv'
  <2>1. Kept
    BY <1>6 DEF AbortGroup, Kept, runVars
  <2>2. QueueInv' /\ PlaceInv'
    BY <1>1, <1>6, PlaceAbort
  <2>3. QED
    BY <1>1, <1>2, <2>1, <2>2, KeptHolds DEF GroupInv
<1>7. QED
  BY <1>3, <1>4, <1>5, <1>6 DEF Next, Fwd

LEMMA StutterHolds ==
  ASSUME GroupInv, UNCHANGED vars
  PROVE  GroupInv'
<1>1. UNCHANGED <<waiting_req_list, aborted, sent, has_wait_tokens, at>> /\ Kept
  BY DEF vars, queueVars, runVars, Kept
<1>2. LengthInv' /\ RowInv' /\ PoolInv'
  BY <1>1, KeptHolds DEF GroupInv
<1>3. QueueInv' /\ PlaceInv' /\ StateInv'
  BY <1>1 DEF GroupInv, QueueInv, PlaceInv, StateInv, Kept
<1>4. QED
  BY <1>2, <1>3 DEF GroupInv

\* The invariant is inductive: BeamContinuesBatchQueue, the passes of
\* RouterManager._step and the pool keep the queue in blocks, equal lengths
\* within a group, the rows and the references in step.
THEOREM GroupInvariant == Spec => []GroupInv
<1>1. GroupInv /\ [Next]_vars => GroupInv'
  BY NextHolds, StutterHolds
<1>2. QED
  BY <1>1, InitHolds, PTL DEF Spec

LEMMA InvTypes ==
  ASSUME GroupInv
  PROVE  TypeOK
<1>1. QueueInv /\ PlaceInv /\ LengthInv /\ RowInv /\ PoolInv /\ StateInv
  BY DEF GroupInv
<1>2. cur_output_len \in [Req -> 0..(MaxReqTotal + 1)]
  <2>1. SUFFICES ASSUME NEW r \in Req
                 PROVE  cur_output_len[r] \in 0..(MaxReqTotal + 1)
    BY <1>1 DEF LengthInv
  <2>2. PICK n \in Nat, m \in Nat, t \in Nat :
          n = cur_output_len[r] /\ m = MaxNew[r[1]] /\ t = MaxReqTotal /\ m + 1 <= t
    BY <1>1, <2>1, ReqIs, Constants DEF LengthInv
  <2>3. n <= m + 1
    BY <1>1, <2>1, <2>2 DEF LengthInv
  <2>4. QED
    BY <2>2, <2>3
<1>3. can_use_mem_size \in 0..MaxTotal
  <2>1. IsFiniteSet(Cell) /\ {c \in Cell : mem_state[c] > 0} \subseteq Cell
    BY CellFacts
  <2>2. Cardinality({c \in Cell : mem_state[c] > 0}) \in Nat
    BY <2>1, CardPart
  <2>3. QED
    BY <1>1, <2>2, Constants DEF PoolInv, SharedTokens
<1>4. QED
  BY <1>1, <1>2, <1>3 DEF QueueInv, PlaceInv, RowInv, PoolInv, StateInv, TypeOK

\* Every variable of GroupRouter keeps its type; the number of free tokens
\* stays between 0 and the size of the pool, and no output is longer than a
\* request may be.
THEOREM GroupTypes == Spec => []TypeOK
<1>1. GroupInv => TypeOK
  BY InvTypes
<1>2. QED
  BY <1>1, GroupInvariant, PTL

\* mem_state counts the running requests that refer to a token, so that
\* decrease_refs frees a shared token with its last reader, and
\* can_use_mem_size counts the tokens nobody refers to, whatever beams are
\* copied and whatever ends.
THEOREM SharedTokensCorrect == Spec => []SharedTokens
<1>1. GroupInv => SharedTokens
  BY DEF GroupInv, PoolInv
<1>2. QED
  BY <1>1, GroupInvariant, PTL

LEMMA InvTakenOnce ==
  ASSUME GroupInv
  PROVE  TakenOnce
BY DEF GroupInv, QueueInv, PlaceInv, Distinct, TakenOnce, InQueue

\* BeamContinuesBatchQueue hands each sub-request out at most once: the slice
\* that generate_new_batch cuts off holds all that the batch got.
THEOREM TakenOnceCorrect == Spec => []TakenOnce
<1>1. GroupInv => TakenOnce
  BY InvTakenOnce
<1>2. QED
  BY <1>1, GroupInvariant, PTL

-----------------------------------------------------------------------------
(***************************************************************************)
(* The estimate, in terms of the tokens produced and to come.              *)
(***************************************************************************)
ExtraLen == [r \in Req |-> RunLen(r) - InputLen[r[1]]]
Left     == [r \in Req |-> LeftLen(r)]

\* The order of the sorted list, who was met up to r, and who lasts k tokens more.
Sooner(l, q, r) == l[q] > l[r] \/ (l[q] = l[r] /\ Before(q, r))
Met(l, S, r)    == {q \in S : q = r \/ Sooner(l, q, r)}
Lasting(l, S, k) == {r \in S : l[r] >= k}
GroupsOf(A)     == {r[1] : r \in A}

\* The tokens that the requests A hold when each adds k to the e it has.
LoadOf(A, e, k) == SumFunctionOnSet(InputLen, GroupsOf(A))
                   + SumFunctionOnSet([r \in Req |-> e[r] + k], A)

LEMMA LensAreNat ==
  ASSUME LengthInv
  PROVE  /\ ExtraLen \in [Req -> Nat] /\ Left \in [Req -> Nat]
         /\ \A r \in Req : RunLen(r) = InputLen[r[1]] + ExtraLen[r] /\ Left[r] = LeftLen(r)
                           /\ RunLen(r) \in Nat
<1>1. ASSUME NEW r \in Req
      PROVE  /\ RunLen(r) - InputLen[r[1]] \in Nat /\ LeftLen(r) \in Nat /\ RunLen(r) \in Nat
             /\ RunLen(r) = InputLen[r[1]] + (RunLen(r) - InputLen[r[1]])
  <2>1. PICK i \in Nat, m \in Nat, n \in Nat :
          i = InputLen[r[1]] /\ m = MaxNew[r[1]] /\ n = cur_output_len[r]
    BY ReqIs, Constants DEF LengthInv
  <2>2. PICK e \in Nat : RunLen(r) = i + e
    BY <2>1 DEF RunLen
  <2>3. LeftLen(r) \in Nat
    <3>1. PICK d \in Int : LeftLen(r) = AtLeast(0, d)
      BY <2>1 DEF LeftLen
    <3>2. QED
      BY <3>1 DEF AtLeast
  <2>4. QED
    BY <2>1, <2>2, <2>3
<1>2. QED
  BY <1>1 DEF ExtraLen, Left

\* The order is total and transitive.
LEMMA BeforeOrder ==
  /\ \A q, r \in Req : q = r \/ Before(q, r) \/ Before(r, q)
  /\ \A p, q, r \in Req : Before(p, q) /\ Before(q, r) => Before(p, r)
  /\ \A r \in Req : ~Before(r, r)
  /\ \A q, r \in Req : Before(q, r) => ~Before(r, q)
<1>1. \A r \in Req : r[1] \in Nat /\ r[2] \in Nat /\ r = <<r[1], r[2]>>
  <2>1. \A r \in Req : r[1] \in Group /\ r[2] \in 1..BestOf[r[1]] /\ r = <<r[1], r[2]>>
    BY ReqIs
  <2>2. \A g \in Group : g \in Nat /\ BestOf[g] \in Nat
    BY Constants
  <2>3. QED
    BY <2>1, <2>2
<1>2. ASSUME NEW q \in Req, NEW r \in Req PROVE q = r \/ Before(q, r) \/ Before(r, q)
  <2>1. PICK a \in Nat, b \in Nat, c \in Nat, d \in Nat :
          q = <<a, b>> /\ r = <<c, d>> /\ q[1] = a /\ q[2] = b /\ r[1] = c /\ r[2] = d
    BY <1>1
  <2>2. QED
    BY <2>1 DEF Before
<1>3. ASSUME NEW p \in Req, NEW q \in Req, NEW r \in Req, Before(p, q), Before(q, r)
      PROVE  Before(p, r)
  <2>1. PICK a \in Nat, b \in Nat, c \in Nat, d \in Nat, e \in Nat, f \in Nat :
          q[1] = a /\ q[2] = b /\ r[1] = c /\ r[2] = d /\ p[1] = e /\ p[2] = f
    BY <1>1
  <2>2. QED
    BY <1>3, <2>1 DEF Before
<1>4. ASSUME NEW r \in Req PROVE ~Before(r, r)
  BY <1>1 DEF Before
<1>5. QED
  BY <1>2, <1>3, <1>4

LEMMA SoonerOrder ==
  ASSUME NEW l \in [Req -> Nat]
  PROVE  /\ \A q, r \in Req : q = r \/ Sooner(l, q, r) \/ Sooner(l, r, q)
         /\ \A p, q, r \in Req : Sooner(l, p, q) /\ Sooner(l, q, r) => Sooner(l, p, r)
         /\ \A r \in Req : ~Sooner(l, r, r)
         /\ \A q, r \in Req : Sooner(l, q, r) => ~Sooner(l, r, q) /\ l[q] >= l[r]
<1>1. ASSUME NEW q \in Req, NEW r \in Req
      PROVE  /\ q = r \/ Sooner(l, q, r) \/ Sooner(l, r, q)
             /\ ~Sooner(l, r, r)
             /\ Sooner(l, q, r) => ~Sooner(l, r, q) /\ l[q] >= l[r]
  <2>1. PICK a \in Nat, b \in Nat : a = l[q] /\ b = l[r]
    OBVIOUS
  <2>2. (q = r \/ Before(q, r) \/ Before(r, q)) /\ ~Before(r, r)
        /\ (Before(q, r) => ~Before(r, q))
    BY BeforeOrder
  <2>3. QED
    BY <2>1, <2>2 DEF Sooner
<1>2. ASSUME NEW p \in Req, NEW q \in Req, NEW r \in Req, Sooner(l, p, q), Sooner(l, q, r)
      PROVE  Sooner(l, p, r)
  <2>1. PICK a \in Nat, b \in Nat, c \in Nat : a = l[p] /\ b = l[q] /\ c = l[r]
    OBVIOUS
  <2>2. Before(p, q) /\ Before(q, r) => Before(p, r)
    BY BeforeOrder
  <2>3. QED
    BY <1>2, <2>1, <2>2 DEF Sooner
<1>3. QED
  BY <1>1, <1>2

\* A set of requests has a last one and a first one in it.
LEMMA EndsOf ==
  ASSUME NEW l \in [Req -> Nat], NEW A \in SUBSET Req, A # {}
  PROVE  /\ \E r \in A : \A q \in A : q = r \/ Sooner(l, q, r)
         /\ \E r \in A : \A q \in A : q = r \/ Sooner(l, r, q)
<1> DEFINE Ends(S) == /\ \E r \in S : \A q \in S : q = r \/ Sooner(l, q, r)
                      /\ \E r \in S : \A q \in S : q = r \/ Sooner(l, r, q)
           T == {S \in SUBSET Req : S # {} => Ends(S)}
<1>1. {} \in T
  OBVIOUS
<1>2. ASSUME NEW S \in SUBSET Req, NEW x \in Req \ S, S \in T PROVE S \cup {x} \in T
  <2>1. CASE S = {}
    BY <2>1
  <2>2. CASE S # {}
    <3>1. PICK u \in S : \A q \in S : q = u \/ Sooner(l, q, u)
      BY <1>2, <2>2
    <3>2. PICK v \in S : \A q \in S : q = v \/ Sooner(l, v, q)
      BY <1>2, <2>2
    <3>3. u \in Req /\ v \in Req /\ x \in Req
      OBVIOUS
    <3>4. \E r \in S \cup {x} : \A q \in S \cup {x} : q = r \/ Sooner(l, q, r)
      <4>1. CASE Sooner(l, x, u)
        BY <3>1, <4>1
      <4>2. CASE Sooner(l, u, x)
        <5>1. \A q \in S : Sooner(l, q, x)
          BY <3>1, <3>3, <4>2, SoonerOrder
        <5>2. QED
          BY <5>1
      <4>3. QED
        BY <3>3, <4>1, <4>2, SoonerOrder
    <3>5. \E r \in S \cup {x} : \A q \in S \cup {x} : q = r \/ Sooner(l, r, q)
      <4>1. CASE Sooner(l, v, x)
        BY <3>2, <4>1
      <4>2. CASE Sooner(l, x, v)
        <5>1. \A q \in S : Sooner(l, x, q)
          BY <3>2, <3>3, <4>2, SoonerOrder
        <5>2. QED
          BY <5>1
      <4>3. QED
        BY <3>3, <4>1, <4>2, SoonerOrder
    <3>6. QED
      BY <3>4, <3>5
  <2>3. QED
    BY <2>1, <2>2
<1>3. A \in T
  <2> HIDE DEF T
  <2>1. QED
    BY <1>1, <1>2, SubsetInduction, ReqFinite
<1>4. QED
  BY <1>3

-----------------------------------------------------------------------------
(***************************************************************************)
(* Sums over the members of groups.                                        *)
(***************************************************************************)
LEMMA SumConst ==
  ASSUME NEW D, IsFiniteSet(D), NEW f, NEW k \in Nat, \A x \in D : f[x] = k
  PROVE  SumFunctionOnSet(f, D) = Cardinality(D) * k
<1> DEFINE T == {S \in SUBSET D : SumFunctionOnSet(f, S) = Cardinality(S) * k}
<1>1. {} \in T
  <2>1. SumFunctionOnSet(f, {}) = 0 /\ Cardinality({}) = 0 /\ 0 * k = 0
    BY SumEmpty, FS_EmptySet
  <2>2. QED
    BY <2>1
<1>2. ASSUME NEW S \in SUBSET D, NEW x \in D \ S, S \in T PROVE S \cup {x} \in T
  <2>1. \A y \in D : f[y] \in Int
    OBVIOUS
  <2>2. SumFunctionOnSet(f, S \cup {x}) = SumFunctionOnSet(f, S) + f[x]
    BY <2>1, SumAdd
  <2>3. Cardinality(S \cup {x}) = Cardinality(S) + 1 /\ Cardinality(S) \in Nat
    BY FS_Subset, FS_AddElement, FS_CardinalityType
  <2>4. PICK n \in Nat : n = Cardinality(S)
    BY <2>3
  <2>5. (n + 1) * k = n * k + k
    OBVIOUS
  <2>6. SumFunctionOnSet(f, S) = n * k /\ f[x] = k
    BY <1>2, <2>4
  <2>7. SumFunctionOnSet(f, S \cup {x}) = Cardinality(S \cup {x}) * k
    BY <2>2, <2>3, <2>4, <2>5, <2>6
  <2>8. QED
    BY <2>7
<1>3. D \in T
  <2> HIDE DEF T
  <2>1. QED
    BY <1>1, <1>2, SubsetInduction
<1>4. QED
  BY <1>3

LEMMA PartFinite ==
  ASSUME NEW A \in SUBSET Req
  PROVE  /\ IsFiniteSet(A) /\ GroupsOf(A) \in SUBSET Group /\ IsFiniteSet(GroupsOf(A))
<1>1. IsFiniteSet(A)
  BY ReqFinite, FS_Subset
<1>2. GroupsOf(A) \in SUBSET Group
  BY ReqIs DEF GroupsOf
<1>3. QED
  BY <1>1, <1>2, Constants, FS_Subset

\* The prompt lengths of the groups of U, when U has one member of each.
PromptOf == [q \in Req |-> InputLen[q[1]]]

LEMMA OneOfEach ==
  ASSUME NEW U \in SUBSET Req, \A q, r \in U : q[1] = r[1] => q = r
  PROVE  SumFunctionOnSet(PromptOf, U) = SumFunctionOnSet(InputLen, GroupsOf(U))
<1> DEFINE T == {S \in SUBSET U : SumFunctionOnSet(PromptOf, S)
                                    = SumFunctionOnSet(InputLen, GroupsOf(S))}
<1>1. {} \in T
  <2>1. GroupsOf({}) = {}
    BY DEF GroupsOf
  <2>2. QED
    BY <2>1, SumEmpty
<1>2. ASSUME NEW S \in SUBSET U, NEW x \in U \ S, S \in T PROVE S \cup {x} \in T
  <2>1. /\ \A q \in U : PromptOf[q] = InputLen[q[1]] /\ PromptOf[q] \in Int
        /\ \A g \in Group : InputLen[g] \in Int
    BY ReqIs, Constants DEF PromptOf
  <2>2. IsFiniteSet(U) /\ IsFiniteSet(Group)
    BY PartFinite, Constants
  <2>3. SumFunctionOnSet(PromptOf, S \cup {x}) = SumFunctionOnSet(PromptOf, S) + PromptOf[x]
    BY <2>1, <2>2, SumAdd
  <2>4. GroupsOf(S) \in SUBSET Group /\ x[1] \in Group \ GroupsOf(S)
    <3>1. S \in SUBSET Req /\ x \in Req
      OBVIOUS
    <3>2. x[1] \notin GroupsOf(S)
      BY DEF GroupsOf
    <3>3. QED
      BY <3>1, <3>2, PartFinite, ReqIs
  <2>5. GroupsOf(S \cup {x}) = GroupsOf(S) \cup {x[1]}
    BY DEF GroupsOf
  <2>6. SumFunctionOnSet(InputLen, GroupsOf(S) \cup {x[1]})
          = SumFunctionOnSet(InputLen, GroupsOf(S)) + InputLen[x[1]]
    BY <2>1, <2>2, <2>4, SumAdd
  <2>7. SumFunctionOnSet(PromptOf, S) = SumFunctionOnSet(InputLen, GroupsOf(S))
        /\ PromptOf[x] = InputLen[x[1]]
    BY <1>2, <2>1
  <2>8. SumFunctionOnSet(PromptOf, S \cup {x}) = SumFunctionOnSet(InputLen, GroupsOf(S \cup {x}))
    BY <2>3, <2>5, <2>6, <2>7
  <2>9. QED
    BY <2>8
<1>3. U \in T
  <2>1. IsFiniteSet(U)
    BY PartFinite
  <2> HIDE DEF T
  <2>2. QED
    BY <1>1, <1>2, <2>1, SubsetInduction
<1>4. QED
  BY <1>3

\* Counting the prompt of each group with the first member that comes counts it
\* once.
Follows(l, A, q) == \E p \in A : p[1] = q[1] /\ Sooner(l, p, q)
FirstOnly(l, A)  == [q \in Req |-> IF Follows(l, A, q) THEN 0 ELSE InputLen[q[1]]]

LEMMA PromptsOnce ==
  ASSUME NEW l \in [Req -> Nat], NEW A \in SUBSET Req
  PROVE  SumFunctionOnSet(FirstOnly(l, A), A) = SumFunctionOnSet(InputLen, GroupsOf(A))
<1> DEFINE U == {q \in A : ~Follows(l, A, q)}
           V == {q \in A : Follows(l, A, q)}
<1>1. U \in SUBSET A /\ V \in SUBSET A /\ U \cap V = {} /\ U \cup V = A /\ U \in SUBSET Req
  OBVIOUS
<1>2. /\ \A q \in A : FirstOnly(l, A)[q] = IF q \in U THEN InputLen[q[1]] ELSE 0
      /\ \A q \in A : FirstOnly(l, A)[q] \in Int
  <2>1. \A q \in A : q \in Req /\ q[1] \in Group
    BY ReqIs
  <2>2. \A q \in A : InputLen[q[1]] \in Nat
    BY <2>1, Constants
  <2>3. \A q \in A : FirstOnly(l, A)[q] = IF q \in U THEN InputLen[q[1]] ELSE 0
    BY <2>1 DEF FirstOnly
  <2> HIDE DEF U
  <2>4. QED
    BY <2>2, <2>3
<1>3. GroupsOf(U) = GroupsOf(A)
  <2>1. ASSUME NEW q \in A PROVE \E p \in U : p[1] = q[1]
    <3>1. PICK M \in SUBSET Req : M = {p \in A : p[1] = q[1]}
      OBVIOUS
    <3>2. M # {}
      BY <3>1
    <3>3. PICK r \in M : \A p \in M : p = r \/ Sooner(l, r, p)
      BY <3>2, EndsOf
    <3>4. r \in A /\ r[1] = q[1] /\ r \in Req
      BY <3>1
    <3>5. ~Follows(l, A, r)
      <4>1. SUFFICES ASSUME NEW p \in A, p[1] = r[1], Sooner(l, p, r) PROVE FALSE
        BY DEF Follows
      <4>2. p \in M /\ p \in Req
        BY <3>1, <3>4, <4>1
      <4>3. p = r \/ Sooner(l, r, p)
        BY <3>3, <4>2
      <4>4. QED
        BY <3>4, <4>1, <4>2, <4>3, SoonerOrder
    <3>6. QED
      BY <3>4, <3>5
  <2>2. QED
    BY <1>1, <2>1 DEF GroupsOf
<1>4. \A q, r \in U : q[1] = r[1] => q = r
  <2>1. SUFFICES ASSUME NEW q \in U, NEW r \in U, q[1] = r[1], q # r PROVE FALSE
    OBVIOUS
  <2>2. Sooner(l, q, r) \/ Sooner(l, r, q)
    BY <1>1, <2>1, SoonerOrder
  <2>3. QED
    BY <1>1, <2>1, <2>2 DEF Follows
<1> HIDE DEF U, V
<1>5. IsFiniteSet(A) /\ IsFiniteSet(U) /\ IsFiniteSet(V)
  BY <1>1, PartFinite, FS_Subset
<1>6. SumFunctionOnSet(FirstOnly(l, A), U \cup V)
        = SumFunctionOnSet(FirstOnly(l, A), U) + SumFunctionOnSet(FirstOnly(l, A), V)
  BY <1>1, <1>2, <1>5, SumUnion
<1>7. SumFunctionOnSet(FirstOnly(l, A), V) = 0
  <2>1. \A q \in V : FirstOnly(l, A)[q] = 0
    BY <1>1, <1>2
  <2>2. SumFunctionOnSet(FirstOnly(l, A), V) = Cardinality(V) * 0
    BY <1>5, <2>1, SumConst
  <2>3. Cardinality(V) \in Nat
    BY <1>5, FS_CardinalityType
  <2>4. QED
    BY <2>2, <2>3
<1>8. SumFunctionOnSet(FirstOnly(l, A), U) = SumFunctionOnSet(PromptOf, U)
  <2>1. \A q \in U : FirstOnly(l, A)[q] \in Int /\ FirstOnly(l, A)[q] = PromptOf[q]
    BY <1>1, <1>2 DEF PromptOf
  <2>2. QED
    BY <1>5, <2>1, SumSame
<1>9. SumFunctionOnSet(PromptOf, U) = SumFunctionOnSet(InputLen, GroupsOf(U))
  BY <1>1, <1>4, OneOfEach
<1>10. SumFunctionOnSet(PromptOf, U) \in Int
  <2>1. \A q \in U : PromptOf[q] \in Int
    BY <1>1, ReqIs, Constants DEF PromptOf
  <2>2. QED
    BY <1>5, <2>1, SumStep
<1>11. PICK f : f = FirstOnly(l, A)
  OBVIOUS
<1>16. PICK a \in Int : a = SumFunctionOnSet(PromptOf, U)
  BY <1>10
<1>12. SumFunctionOnSet(f, A) = SumFunctionOnSet(f, U) + SumFunctionOnSet(f, V)
  BY <1>1, <1>6, <1>11
<1>13. SumFunctionOnSet(f, U) = a /\ SumFunctionOnSet(f, V) = 0
  BY <1>7, <1>8, <1>11, <1>16
<1>14. SumFunctionOnSet(f, A) = a
  BY <1>12, <1>13
<1>15. QED
  BY <1>3, <1>9, <1>11, <1>14, <1>16

-----------------------------------------------------------------------------
(***************************************************************************)
(* What the loop over the sorted list computes.                            *)
(***************************************************************************)
\* A load is a sum of natural numbers, and grows with its requests and tokens.
LEMMA LoadIs ==
  ASSUME NEW A \in SUBSET Req, NEW e \in [Req -> Nat], NEW k \in Nat
  PROVE  /\ LoadOf(A, e, k) \in Nat
         /\ SumFunctionOnSet(InputLen, GroupsOf(A)) \in Nat
         /\ SumFunctionOnSet([r \in Req |-> e[r] + k], A) \in Nat
         /\ SumFunctionOnSet(e, A) \in Nat
         /\ SumFunctionOnSet([r \in Req |-> e[r] + k], A)
              = SumFunctionOnSet(e, A) + Cardinality(A) * k
<1> DEFINE f == [r \in Req |-> e[r] + k]
           c == [r \in Req |-> k]
<1>1. IsFiniteSet(A) /\ IsFiniteSet(GroupsOf(A)) /\ GroupsOf(A) \in SUBSET Group
  BY PartFinite
<1>2. \A g \in GroupsOf(A) : InputLen[g] \in Nat
  BY <1>1, Constants
<1>3. \A r \in A : f[r] \in Nat /\ e[r] \in Nat /\ c[r] = k /\ f[r] = e[r] + c[r]
                   /\ f[r] \in Int /\ e[r] \in Int /\ c[r] \in Int
  OBVIOUS
<1>4. f = [r \in Req |-> e[r] + k]
  OBVIOUS
<1> HIDE DEF f, c
<1>5. SumFunctionOnSet(InputLen, GroupsOf(A)) \in Nat
  BY <1>1, <1>2, SumNat
<1>6. SumFunctionOnSet(f, A) \in Nat /\ SumFunctionOnSet(e, A) \in Nat
  BY <1>1, <1>3, SumNat
<1>7. SumFunctionOnSet(f, A) = SumFunctionOnSet(e, A) + SumFunctionOnSet(c, A)
  BY <1>1, <1>3, SumPlus
<1>8. SumFunctionOnSet(c, A) = Cardinality(A) * k
  BY <1>1, <1>3, SumConst
<1>9. LoadOf(A, e, k) = SumFunctionOnSet(InputLen, GroupsOf(A)) + SumFunctionOnSet(f, A)
  BY <1>4 DEF LoadOf
<1>10. LoadOf(A, e, k) \in Nat
  BY <1>5, <1>6, <1>9
<1>11. QED
  BY <1>4, <1>5, <1>6, <1>7, <1>8, <1>10

LEMMA LoadGrows ==
  ASSUME NEW B \in SUBSET Req, NEW A \in SUBSET B,
         NEW e \in [Req -> Nat], NEW f \in [Req -> Nat], NEW j \in Nat, NEW k \in Nat,
         \A r \in A : e[r] + j <= f[r] + k
  PROVE  LoadOf(A, e, j) <= LoadOf(B, f, k)
<1> DEFINE x == [r \in Req |-> e[r] + j]
           y == [r \in Req |-> f[r] + k]
<1>1. A \in SUBSET Req /\ IsFiniteSet(A) /\ IsFiniteSet(B)
      /\ GroupsOf(A) \in SUBSET GroupsOf(B) /\ GroupsOf(B) \in SUBSET Group
      /\ IsFiniteSet(Group) /\ \A g \in Group : InputLen[g] \in Nat
  <2>1. A \in SUBSET Req
    OBVIOUS
  <2>2. GroupsOf(A) \in SUBSET GroupsOf(B)
    BY DEF GroupsOf
  <2>3. QED
    BY <2>1, <2>2, PartFinite, Constants
<1>2. SumFunctionOnSet(InputLen, GroupsOf(A)) <= SumFunctionOnSet(InputLen, GroupsOf(B))
      /\ SumFunctionOnSet(InputLen, GroupsOf(A)) \in Nat
      /\ SumFunctionOnSet(InputLen, GroupsOf(B)) \in Nat
  BY <1>1, SumMono
<1>3. /\ \A r \in A : x[r] \in Int /\ y[r] \in Int /\ x[r] <= y[r]
      /\ \A r \in B : y[r] \in Nat
  <2>1. \A r \in B : x[r] = e[r] + j /\ y[r] = f[r] + k /\ e[r] \in Nat /\ f[r] \in Nat
    OBVIOUS
  <2> HIDE DEF x, y
  <2>2. QED
    BY <2>1
<1>4. LoadOf(A, e, j) = SumFunctionOnSet(InputLen, GroupsOf(A)) + SumFunctionOnSet(x, A)
      /\ LoadOf(B, f, k) = SumFunctionOnSet(InputLen, GroupsOf(B)) + SumFunctionOnSet(y, B)
  BY DEF LoadOf
<1> HIDE DEF x, y
<1>5. SumFunctionOnSet(x, A) <= SumFunctionOnSet(y, A)
  BY <1>1, <1>3, SumAtMost
<1>6. SumFunctionOnSet(y, A) <= SumFunctionOnSet(y, B)
      /\ SumFunctionOnSet(y, A) \in Nat /\ SumFunctionOnSet(y, B) \in Nat
  <2>1. B \in SUBSET B
    OBVIOUS
  <2>2. QED
    BY <1>1, <1>3, <2>1, SumMono
<1>7. SumFunctionOnSet(x, A) \in Int
  BY <1>1, <1>3, SumStep
<1>8. QED
  BY <1>2, <1>4, <1>5, <1>6, <1>7

\* The fold over RunLen, with the prompt of a group counted once.
CountedLen(S) == [q \in Req |-> RunLen(q) - (IF Follows(Left, S, q) THEN InputLen[q[1]] ELSE 0)]

LEMMA CountedIsSum ==
  ASSUME LengthInv, NEW S \in SUBSET Req, NEW M \in SUBSET S
  PROVE  MapThenSumSet(
           LAMBDA q : RunLen(q) - (IF \E p \in S : p[1] = q[1] /\ SortsBefore(p, q)
                                   THEN InputLen[q[1]] ELSE 0), M)
           = SumFunctionOnSet(CountedLen(S), M)
<1> DEFINE n(q) == RunLen(q) - (IF \E p \in S : p[1] = q[1] /\ SortsBefore(p, q)
                                THEN InputLen[q[1]] ELSE 0)
           G(g) == g = [s \in SUBSET M |-> IF s = {} THEN 0 ELSE n(Pick(s)) + g[s \ {Pick(s)}]]
           H == CHOOSE g : G(g)
           f == CountedLen(S)
<1>1. MapThenSumSet(
        LAMBDA q : RunLen(q) - (IF \E p \in S : p[1] = q[1] /\ SortsBefore(p, q)
                                THEN InputLen[q[1]] ELSE 0), M) = H[M]
  BY DEF MapThenSumSet, MapThenFoldSet, Pick
<1>2. \A q \in M : f[q] = n(q) /\ f[q] \in Int
  <2>1. SUFFICES ASSUME NEW q \in M PROVE f[q] = n(q) /\ f[q] \in Int
    OBVIOUS
  <2>2. q \in Req /\ InputLen[q[1]] \in Nat /\ RunLen(q) \in Nat
    BY ReqIs, Constants, LensAreNat
  <2>3. Follows(Left, S, q) <=> \E p \in S : p[1] = q[1] /\ SortsBefore(p, q)
    <3>1. \A p \in S : Sooner(Left, p, q) <=> SortsBefore(p, q)
      BY <2>2, LensAreNat DEF Sooner, SortsBefore
    <3>2. QED
      BY <3>1 DEF Follows
  <2>4. f[q] = RunLen(q) - (IF Follows(Left, S, q) THEN InputLen[q[1]] ELSE 0)
    BY <2>2 DEF CountedLen
  <2>5. f[q] = n(q)
    BY <2>3, <2>4
  <2> HIDE DEF n, f
  <2>6. QED
    BY <2>2, <2>4, <2>5
<1> HIDE DEF n, f
<1>3. \A g : G(g) <=> Folds(g, f, M)
  <2>1. SUFFICES ASSUME NEW g PROVE G(g) <=> Folds(g, f, M)
    OBVIOUS
  <2>2. \A s \in SUBSET M : s # {} => n(Pick(s)) = f[Pick(s)]
    BY <1>2, PickIn
  <2>3. [s \in SUBSET M |-> IF s = {} THEN 0 ELSE n(Pick(s)) + g[s \ {Pick(s)}]]
          = [s \in SUBSET M |-> IF s = {} THEN 0 ELSE f[Pick(s)] + g[s \ {Pick(s)}]]
    BY <2>2
  <2>4. QED
    BY <2>3 DEF Folds
<1>4. IsFiniteSet(M)
  <2>1. M \in SUBSET Req
    OBVIOUS
  <2>2. QED
    BY <2>1, PartFinite
<1>5. \E g : Folds(g, f, M)
  BY <1>2, <1>4, FoldExists
<1>6. G(H)
  <2>1. \E g : G(g)
    BY <1>3, <1>5
  <2> HIDE DEF G
  <2>2. QED
    BY <2>1
<1> HIDE DEF G, H
<1>7. PICK K : K = CHOOSE g : Folds(g, f, M)
  OBVIOUS
<1>8. Folds(K, f, M) /\ Folds(H, f, M)
  BY <1>3, <1>5, <1>6, <1>7
<1>9. \A s \in SUBSET M : K[s] = H[s]
  <2>1. M \in SUBSET M /\ \A x \in M : f[x] = f[x]
    OBVIOUS
  <2>2. QED
    BY <1>4, <1>8, <2>1, FoldUnique
<1>10. SumFunctionOnSet(f, M) = K[M]
  BY <1>7, SumUnfolds
<1>11. QED
  BY <1>1, <1>9, <1>10 DEF f

\* What the loop has summed up when it comes to r is what those met by then hold
\* when each adds as many tokens as r has left.
LEMMA MetLoad ==
  ASSUME LengthInv, NEW S \in SUBSET Req, NEW r \in S, NEW M, M = Met(Left, S, r)
  PROVE  SumFunctionOnSet(CountedLen(S), M) + Cardinality(M) * LeftLen(r)
           = LoadOf(M, ExtraLen, Left[r])
<1>1. M \in SUBSET S /\ M \in SUBSET Req /\ r \in Req /\ \A q \in M : q \in S /\ q \in Req
  BY DEF Met
<1>2. /\ ExtraLen \in [Req -> Nat] /\ Left \in [Req -> Nat] /\ Left[r] = LeftLen(r)
      /\ \A q \in Req : RunLen(q) = InputLen[q[1]] + ExtraLen[q]
  BY <1>1, LensAreNat
<1>3. \A q \in M : Follows(Left, S, q) <=> Follows(Left, M, q)
  <2>1. SUFFICES ASSUME NEW q \in M, NEW p \in S, Sooner(Left, p, q) PROVE p \in M
    BY <1>1 DEF Follows
  <2>2. q = r \/ Sooner(Left, q, r)
    BY DEF Met
  <2>3. Sooner(Left, p, r)
    BY <1>1, <1>2, <2>1, <2>2, SoonerOrder
  <2>4. QED
    BY <2>3 DEF Met
<1>4. \A q \in M : /\ CountedLen(S)[q] = ExtraLen[q] + FirstOnly(Left, M)[q]
                   /\ ExtraLen[q] \in Int /\ FirstOnly(Left, M)[q] \in Int
  <2>1. SUFFICES ASSUME NEW q \in M
                 PROVE  /\ CountedLen(S)[q] = ExtraLen[q] + FirstOnly(Left, M)[q]
                        /\ ExtraLen[q] \in Int /\ FirstOnly(Left, M)[q] \in Int
    OBVIOUS
  <2>2. PICK i \in Nat, e \in Nat : i = InputLen[q[1]] /\ e = ExtraLen[q] /\ RunLen(q) = i + e
    BY <1>1, <1>2, ReqIs, Constants
  <2>3. CountedLen(S)[q] = RunLen(q) - (IF Follows(Left, S, q) THEN i ELSE 0)
    BY <1>1, <2>2 DEF CountedLen
  <2>4. FirstOnly(Left, M)[q] = IF Follows(Left, M, q) THEN 0 ELSE i
    BY <1>1, <2>2 DEF FirstOnly
  <2>5. CASE Follows(Left, M, q)
    BY <1>3, <2>2, <2>3, <2>4, <2>5
  <2>6. CASE ~Follows(Left, M, q)
    BY <1>3, <2>2, <2>3, <2>4, <2>6
  <2>7. QED
    BY <2>5, <2>6
<1>5. IsFiniteSet(M)
  BY <1>1, PartFinite
<1>6. PICK c, f : c = CountedLen(S) /\ f = FirstOnly(Left, M)
  OBVIOUS
<1>7. SumFunctionOnSet(c, M) = SumFunctionOnSet(ExtraLen, M) + SumFunctionOnSet(f, M)
  <2>1. \A q \in M : ExtraLen[q] \in Int /\ f[q] \in Int /\ c[q] = ExtraLen[q] + f[q]
    BY <1>4, <1>6
  <2>2. QED
    BY <1>5, <2>1, SumPlus
<1>8. SumFunctionOnSet(f, M) = SumFunctionOnSet(InputLen, GroupsOf(M))
  BY <1>1, <1>2, <1>6, PromptsOnce
<1>9. PICK k \in Nat : k = Left[r]
  BY <1>1, <1>2
<1>10. /\ SumFunctionOnSet(InputLen, GroupsOf(M)) \in Nat
       /\ SumFunctionOnSet(ExtraLen, M) \in Nat
       /\ SumFunctionOnSet([q \in Req |-> ExtraLen[q] + k], M)
            = SumFunctionOnSet(ExtraLen, M) + Cardinality(M) * k
  BY <1>1, <1>2, LoadIs
<1>11. LoadOf(M, ExtraLen, k) = SumFunctionOnSet(InputLen, GroupsOf(M))
                                + SumFunctionOnSet([q \in Req |-> ExtraLen[q] + k], M)
  BY DEF LoadOf
<1>12. Cardinality(M) * k \in Nat
  <2>1. Cardinality(M) \in Nat
    BY <1>5, FS_CardinalityType
  <2>2. PICK m \in Nat : m = Cardinality(M)
    BY <2>1
  <2>3. m * k \in Nat
    OBVIOUS
  <2>4. QED
    BY <2>2, <2>3
<1>13. PICK a \in Nat, b \in Nat, m \in Nat :
         /\ a = SumFunctionOnSet(InputLen, GroupsOf(M)) /\ b = SumFunctionOnSet(ExtraLen, M)
         /\ m = Cardinality(M) * k
  BY <1>10, <1>12
<1>14. LoadOf(M, ExtraLen, k) = a + (b + m)
  BY <1>10, <1>11, <1>13
<1>15. SumFunctionOnSet(c, M) = b + a
  BY <1>7, <1>8, <1>13
<1>16. SumFunctionOnSet(c, M) + m = LoadOf(M, ExtraLen, k)
  BY <1>14, <1>15
<1>17. QED
  BY <1>2, <1>6, <1>9, <1>13, <1>16

LEMMA NeedIs ==
  ASSUME LengthInv, NEW S \in SUBSET Req
  PROVE  NeedMaxTokenNum(S)
           = Max({0} \cup {LoadOf(Met(Left, S, r), ExtraLen, Left[r]) : r \in S})
<1> DEFINE MetBy(r) == {q \in S : q = r \/ SortsBefore(q, r)}
           counted(r) == MapThenSumSet(
             LAMBDA q : RunLen(q) - (IF \E p \in S : p[1] = q[1] /\ SortsBefore(p, q)
                                     THEN InputLen[q[1]] ELSE 0), MetBy(r))
<1>1. ASSUME NEW r \in S
      PROVE  counted(r) + Cardinality(MetBy(r)) * LeftLen(r)
               = LoadOf(Met(Left, S, r), ExtraLen, Left[r])
  <2>1. MetBy(r) = Met(Left, S, r)
    <3>1. \A q \in S : Sooner(Left, q, r) <=> SortsBefore(q, r)
      BY LensAreNat DEF Sooner, SortsBefore
    <3>2. QED
      BY <3>1 DEF Met
  <2>2. PICK M \in SUBSET S : M = MetBy(r)
    OBVIOUS
  <2>3. counted(r) = SumFunctionOnSet(CountedLen(S), M)
    <3>1. MapThenSumSet(
            LAMBDA q : RunLen(q) - (IF \E p \in S : p[1] = q[1] /\ SortsBefore(p, q)
                                    THEN InputLen[q[1]] ELSE 0), M)
            = SumFunctionOnSet(CountedLen(S), M)
      BY CountedIsSum
    <3> HIDE DEF MetBy
    <3>2. QED
      BY <2>2, <3>1
  <2> HIDE DEF counted, MetBy
  <2>4. SumFunctionOnSet(CountedLen(S), M) + Cardinality(M) * LeftLen(r)
          = LoadOf(M, ExtraLen, Left[r])
    BY <2>1, <2>2, MetLoad
  <2>5. QED
    BY <2>1, <2>2, <2>3, <2>4
<1>2. NeedMaxTokenNum(S)
        = Max({0} \cup {counted(r) + Cardinality(MetBy(r)) * LeftLen(r) : r \in S})
  BY DEF NeedMaxTokenNum
<1> HIDE DEF MetBy, counted
<1>3. {counted(r) + Cardinality(MetBy(r)) * LeftLen(r) : r \in S}
        = {LoadOf(Met(Left, S, r), ExtraLen, Left[r]) : r \in S}
  BY <1>1
<1>4. QED
  BY <1>2, <1>3

\* Those that last k tokens more are those met up to the last of them.
LEMMA LastingIsMet ==
  ASSUME NEW l \in [Req -> Nat], NEW S \in SUBSET Req, NEW k \in Nat, Lasting(l, S, k) # {}
  PROVE  \E r \in Lasting(l, S, k) : Met(l, S, r) = Lasting(l, S, k)
<1>1. PICK A \in SUBSET Req : A = Lasting(l, S, k) /\ A # {}
  BY DEF Lasting
<1>2. PICK r \in A : \A q \in A : q = r \/ Sooner(l, q, r)
  BY <1>1, EndsOf
<1>3. r \in S /\ r \in Req /\ l[r] >= k /\ l[r] \in Nat
  BY <1>1 DEF Lasting
<1>4. A \subseteq Met(l, S, r)
  BY <1>1, <1>2 DEF Lasting, Met
<1>5. ASSUME NEW q \in Met(l, S, r) PROVE q \in A
  <2>1. q \in S /\ q \in Req /\ (q = r \/ Sooner(l, q, r)) /\ l[q] \in Nat
    BY DEF Met
  <2>2. l[q] >= l[r]
    BY <1>3, <2>1, SoonerOrder
  <2>3. l[q] >= k
    BY <1>3, <2>1, <2>2
  <2>4. QED
    BY <1>1, <2>1, <2>3 DEF Lasting
<1>6. QED
  BY <1>1, <1>4, <1>5

\* The greatest element of a finite set of numbers.
LEMMA MaxOf ==
  ASSUME NEW T, IsFiniteSet(T), T \subseteq Nat, T # {}
  PROVE  Max(T) \in T /\ \A n \in T : n <= Max(T)
<1> DEFINE U == {S \in SUBSET T : S # {} => \E m \in S : \A n \in S : m >= n}
<1>1. {} \in U
  OBVIOUS
<1>2. ASSUME NEW S \in SUBSET T, NEW x \in T \ S, S \in U PROVE S \cup {x} \in U
  <2>1. CASE S = {}
    BY <2>1
  <2>2. CASE S # {}
    <3>1. PICK m \in S : \A n \in S : m >= n
      BY <1>2, <2>2
    <3>2. m \in Nat /\ x \in Nat /\ \A n \in S : n \in Nat
      OBVIOUS
    <3>3. CASE m >= x
      BY <3>1, <3>3
    <3>4. CASE ~(m >= x)
      <4>1. \A n \in S \cup {x} : x >= n
        BY <3>1, <3>2, <3>4
      <4>2. QED
        BY <4>1
    <3>5. QED
      BY <3>3, <3>4
  <2>3. QED
    BY <2>1, <2>2
<1>3. T \in U
  <2> HIDE DEF U
  <2>1. QED
    BY <1>1, <1>2, SubsetInduction
<1>4. Max(T) \in T /\ \A n \in T : Max(T) >= n
  <2>1. \E m \in T : \A n \in T : m >= n
    BY <1>3
  <2>2. QED
    BY <2>1 DEF Max
<1>5. QED
  BY <1>4

\* The values that the loop takes the greatest of.
MetLoads(S) == {LoadOf(Met(Left, S, r), ExtraLen, Left[r]) : r \in S}
Loads(S)    == {LoadOf(Lasting(Left, S, Left[r]), ExtraLen, Left[r]) : r \in S}

LEMMA LoadsFinite ==
  ASSUME LengthInv, NEW S \in SUBSET Req
  PROVE  /\ IsFiniteSet(MetLoads(S)) /\ MetLoads(S) \subseteq Nat
         /\ IsFiniteSet(Loads(S)) /\ Loads(S) \subseteq Nat
<1> DEFINE f == [r \in S |-> LoadOf(Met(Left, S, r), ExtraLen, Left[r])]
           g == [r \in S |-> LoadOf(Lasting(Left, S, Left[r]), ExtraLen, Left[r])]
<1>1. IsFiniteSet(S)
  BY PartFinite
<1>2. f \in Surjection(S, MetLoads(S)) /\ g \in Surjection(S, Loads(S))
  BY DEF Surjection, MetLoads, Loads
<1>3. IsFiniteSet(MetLoads(S)) /\ IsFiniteSet(Loads(S))
  <2> HIDE DEF f, g
  <2>1. QED
    BY <1>1, <1>2, FS_Surjection
<1>4. \A r \in S : Met(Left, S, r) \in SUBSET Req /\ Lasting(Left, S, Left[r]) \in SUBSET Req
                   /\ Left[r] \in Nat /\ ExtraLen \in [Req -> Nat]
  BY LensAreNat DEF Met, Lasting
<1>5. \A r \in S : LoadOf(Met(Left, S, r), ExtraLen, Left[r]) \in Nat
                   /\ LoadOf(Lasting(Left, S, Left[r]), ExtraLen, Left[r]) \in Nat
  BY <1>4, LoadIs
<1>6. QED
  BY <1>3, <1>5 DEF MetLoads, Loads

\* The estimate is at least the load of any number of tokens to come.
LEMMA NeedBounds ==
  ASSUME LengthInv, NEW S \in SUBSET Req, NEW k \in Nat
  PROVE  /\ LoadOf(Lasting(Left, S, k), ExtraLen, k) <= NeedMaxTokenNum(S)
         /\ NeedMaxTokenNum(S) \in Nat
<1> DEFINE T == {0} \cup MetLoads(S)
<1>1. NeedMaxTokenNum(S) = Max(T)
  BY NeedIs DEF MetLoads
<1>2. IsFiniteSet(T) /\ T \subseteq Nat /\ T # {}
  <2>1. IsFiniteSet(MetLoads(S)) /\ MetLoads(S) \subseteq Nat
    BY LoadsFinite
  <2>2. PICK Z : Z = {0}
    OBVIOUS
  <2>3. IsFiniteSet(Z)
    BY <2>2, FS_Singleton
  <2>4. IsFiniteSet(Z \cup MetLoads(S))
    BY <2>1, <2>3, FS_Union
  <2>5. QED
    BY <2>1, <2>2, <2>4
<1>3. Max(T) \in T /\ \A n \in T : n <= Max(T)
  <2> HIDE DEF T
  <2>1. QED
    BY <1>2, MaxOf
<1>4. ExtraLen \in [Req -> Nat] /\ Left \in [Req -> Nat]
  BY LensAreNat
<1>5. CASE Lasting(Left, S, k) = {}
  <2>1. LoadOf({}, ExtraLen, k) = 0
    <3>1. GroupsOf({}) = {}
      BY DEF GroupsOf
    <3>2. SumFunctionOnSet(InputLen, {}) = 0
          /\ SumFunctionOnSet([r \in Req |-> ExtraLen[r] + k], {}) = 0
      BY SumEmpty
    <3>3. QED
      BY <3>1, <3>2 DEF LoadOf
  <2>2. QED
    BY <1>1, <1>2, <1>3, <1>5, <2>1
<1>6. CASE Lasting(Left, S, k) # {}
  <2>1. PICK r \in Lasting(Left, S, k) : Met(Left, S, r) = Lasting(Left, S, k)
    BY <1>4, <1>6, LastingIsMet
  <2>2. r \in S /\ Left[r] >= k /\ Left[r] \in Nat
    BY <1>4 DEF Lasting
  <2>3. PICK A \in SUBSET Req, j \in Nat : A = Lasting(Left, S, k) /\ j = Left[r]
    BY <2>2 DEF Lasting
  <2>4. LoadOf(A, ExtraLen, k) <= LoadOf(A, ExtraLen, j)
    <3>1. A \in SUBSET A
      OBVIOUS
    <3>2. \A q \in A : ExtraLen[q] + k <= ExtraLen[q] + j
      <4>1. \A q \in A : ExtraLen[q] \in Nat
        BY <1>4
      <4>2. QED
        BY <2>2, <2>3, <4>1
    <3>3. QED
      BY <1>4, <3>1, <3>2, LoadGrows
  <2>5. LoadOf(A, ExtraLen, j) \in MetLoads(S)
    BY <2>1, <2>2, <2>3 DEF MetLoads
  <2>6. LoadOf(A, ExtraLen, j) <= Max(T) /\ LoadOf(A, ExtraLen, j) \in Nat /\ Max(T) \in Nat
    BY <1>2, <1>3, <2>5
  <2>7. LoadOf(A, ExtraLen, k) \in Nat
    BY <1>4, LoadIs
  <2> HIDE DEF T
  <2>8. LoadOf(A, ExtraLen, k) <= Max(T)
    BY <2>4, <2>6, <2>7
  <2>9. QED
    BY <1>1, <2>3, <2>6, <2>8
<1>7. QED
  BY <1>5, <1>6

\* LoadIn is a load.
ExtraAt(k) == [r \in Req |-> ExtraLen[r] + k]

LEMMA LoadInIs ==
  ASSUME LengthInv, NEW S \in SUBSET Req, NEW k \in Nat
  PROVE  LoadIn(S, k) = LoadOf(Lasting(Left, S, k), ExtraLen, k)
<1>1. PICK M \in SUBSET Req : M = {r \in S : LeftLen(r) >= k}
  OBVIOUS
<1> DEFINE n(r) == RunLen(r) - InputLen[r[1]] + k
           G(g) == g = [s \in SUBSET M |-> IF s = {} THEN 0 ELSE n(Pick(s)) + g[s \ {Pick(s)}]]
           H == CHOOSE g : G(g)
           f == ExtraAt(k)
<1>2. MapThenSumSet(LAMBDA r : RunLen(r) - InputLen[r[1]] + k, M) = H[M]
  BY DEF MapThenSumSet, MapThenFoldSet, Pick
<1>3. LoadIn(S, k) = SumFunctionOnSet(InputLen, GroupsOf(M)) + H[M]
  <2>1. LoadIn(S, k) = MapThenSumSet(LAMBDA g : InputLen[g], GroupsOf(M))
                       + MapThenSumSet(LAMBDA r : RunLen(r) - InputLen[r[1]] + k, M)
    BY <1>1 DEF LoadIn, GroupsOf
  <2>2. MapThenSumSet(LAMBDA g : InputLen[g], GroupsOf(M))
          = SumFunctionOnSet(InputLen, GroupsOf(M))
    BY NeedIsSum
  <2>3. QED
    BY <1>2, <2>1, <2>2
<1>4. \A q \in M : f[q] = n(q) /\ f[q] \in Int
  <2>1. ASSUME NEW q \in M PROVE f[q] = n(q) /\ f[q] \in Int
    <3>1. q \in Req /\ ExtraLen \in [Req -> Nat]
      BY LensAreNat
    <3>2. f[q] = ExtraLen[q] + k /\ ExtraLen[q] = RunLen(q) - InputLen[q[1]] /\ ExtraLen[q] \in Nat
      BY <3>1 DEF ExtraAt, ExtraLen
    <3>3. QED
      BY <3>2
  <2>2. QED
    BY <2>1
<1> HIDE DEF n, f
<1>5. \A g : G(g) <=> Folds(g, f, M)
  <2>1. SUFFICES ASSUME NEW g PROVE G(g) <=> Folds(g, f, M)
    OBVIOUS
  <2>2. \A s \in SUBSET M : s # {} => n(Pick(s)) = f[Pick(s)]
    BY <1>4, PickIn
  <2>3. [s \in SUBSET M |-> IF s = {} THEN 0 ELSE n(Pick(s)) + g[s \ {Pick(s)}]]
          = [s \in SUBSET M |-> IF s = {} THEN 0 ELSE f[Pick(s)] + g[s \ {Pick(s)}]]
    BY <2>2
  <2>4. QED
    BY <2>3 DEF Folds
<1>6. IsFiniteSet(M)
  BY PartFinite
<1>7. \E g : Folds(g, f, M)
  BY <1>4, <1>6, FoldExists
<1>8. G(H)
  <2>1. \E g : G(g)
    BY <1>5, <1>7
  <2> HIDE DEF G
  <2>2. QED
    BY <2>1
<1> HIDE DEF G, H
<1>9. PICK K : K = CHOOSE g : Folds(g, f, M)
  OBVIOUS
<1>10. Folds(K, f, M) /\ Folds(H, f, M)
  BY <1>5, <1>7, <1>8, <1>9
<1>11. \A s \in SUBSET M : K[s] = H[s]
  <2>1. M \in SUBSET M /\ \A x \in M : f[x] = f[x]
    OBVIOUS
  <2>2. QED
    BY <1>6, <1>10, <2>1, FoldUnique
<1>12. SumFunctionOnSet(f, M) = K[M]
  BY <1>9, SumUnfolds
<1>13. M = Lasting(Left, S, k)
  BY <1>1, LensAreNat DEF Lasting
<1>14. LoadIn(S, k) = SumFunctionOnSet(InputLen, GroupsOf(M)) + SumFunctionOnSet(f, M)
  BY <1>3, <1>11, <1>12
<1>15. LoadOf(M, ExtraLen, k) = SumFunctionOnSet(InputLen, GroupsOf(M)) + SumFunctionOnSet(f, M)
  BY DEF LoadOf, f, ExtraAt
<1>16. QED
  BY <1>13, <1>14, <1>15

\* Every value of the loop is below some load, and every load is a value.
LEMMA NeedIsLoad ==
  ASSUME LengthInv, NEW S \in SUBSET Req, S # {}
  PROVE  NeedMaxTokenNum(S) = Max({LoadIn(S, LeftLen(r)) : r \in S})
<1>1. ExtraLen \in [Req -> Nat] /\ Left \in [Req -> Nat]
      /\ \A r \in S : r \in Req /\ Left[r] \in Nat /\ Left[r] = LeftLen(r)
  BY LensAreNat
<1>2. {LoadIn(S, LeftLen(r)) : r \in S} = Loads(S)
  <2>1. \A r \in S : LoadIn(S, LeftLen(r)) = LoadOf(Lasting(Left, S, Left[r]), ExtraLen, Left[r])
    BY <1>1, LoadInIs
  <2>2. QED
    BY <2>1 DEF Loads
<1>3. IsFiniteSet(Loads(S)) /\ Loads(S) \subseteq Nat /\ Loads(S) # {}
  BY LoadsFinite DEF Loads
<1>4. Max(Loads(S)) \in Loads(S) /\ \A n \in Loads(S) : n <= Max(Loads(S))
  BY <1>3, MaxOf
<1> DEFINE T == {0} \cup MetLoads(S)
<1>5. NeedMaxTokenNum(S) = Max(T)
  BY NeedIs DEF MetLoads
<1>6. IsFiniteSet(T) /\ T \subseteq Nat /\ T # {}
  <2>1. IsFiniteSet(MetLoads(S)) /\ MetLoads(S) \subseteq Nat
    BY LoadsFinite
  <2>2. PICK Z : Z = {0}
    OBVIOUS
  <2>3. IsFiniteSet(Z)
    BY <2>2, FS_Singleton
  <2>4. IsFiniteSet(Z \cup MetLoads(S))
    BY <2>1, <2>3, FS_Union
  <2>5. QED
    BY <2>1, <2>2, <2>4
<1>7. Max(T) \in T /\ \A n \in T : n <= Max(T)
  <2> HIDE DEF T
  <2>1. QED
    BY <1>6, MaxOf
<1>8. \A n \in Loads(S) : n <= Max(T)
  <2>1. ASSUME NEW r \in S
        PROVE  LoadOf(Lasting(Left, S, Left[r]), ExtraLen, Left[r]) <= Max(T)
    <3>1. LoadOf(Lasting(Left, S, Left[r]), ExtraLen, Left[r]) <= NeedMaxTokenNum(S)
      BY <1>1, NeedBounds
    <3> HIDE DEF T
    <3>2. QED
      BY <1>5, <3>1
  <2> HIDE DEF T
  <2>2. QED
    BY <2>1 DEF Loads
<1>9. \A n \in MetLoads(S) : n <= Max(Loads(S))
  <2>1. SUFFICES ASSUME NEW r \in S
                 PROVE  LoadOf(Met(Left, S, r), ExtraLen, Left[r]) <= Max(Loads(S))
    BY DEF MetLoads
  <2>2. PICK B \in SUBSET Req, k \in Nat : B = Lasting(Left, S, Left[r]) /\ k = Left[r]
    BY <1>1 DEF Lasting
  <2>3. PICK A \in SUBSET B : A = Met(Left, S, r)
    <3>1. \A q \in S : q = r \/ Sooner(Left, q, r) => Left[q] >= Left[r]
      BY <1>1, SoonerOrder
    <3>2. QED
      BY <2>2, <3>1 DEF Met, Lasting
  <2>4. LoadOf(A, ExtraLen, k) <= LoadOf(B, ExtraLen, k)
    <3>1. \A q \in A : ExtraLen[q] + k <= ExtraLen[q] + k
      <4>1. \A q \in A : ExtraLen[q] \in Nat
        BY <1>1
      <4>2. QED
        BY <4>1
    <3>2. QED
      BY <1>1, <3>1, LoadGrows
  <2>5. LoadOf(B, ExtraLen, k) \in Loads(S)
    BY <2>2 DEF Loads
  <2>6. LoadOf(B, ExtraLen, k) <= Max(Loads(S))
    BY <1>4, <2>5
  <2>7. LoadOf(A, ExtraLen, k) \in Nat /\ LoadOf(B, ExtraLen, k) \in Nat /\ Max(Loads(S)) \in Nat
    <3>1. A \in SUBSET Req
      OBVIOUS
    <3>2. QED
      BY <1>1, <1>3, <1>4, <3>1, LoadIs
  <2>8. QED
    BY <2>2, <2>3, <2>4, <2>6, <2>7
<1> HIDE DEF T
<1>10. PICK m \in Nat, n \in Nat : m = Max(T) /\ n = Max(Loads(S))
  BY <1>3, <1>4, <1>6, <1>7
<1>11. n <= m
  BY <1>4, <1>8, <1>10
<1>12. m <= n
  <2>1. m = 0 \/ m \in MetLoads(S)
    BY <1>7, <1>10 DEF T
  <2>2. QED
    BY <1>9, <1>10, <2>1
<1>13. m = n
  BY <1>11, <1>12
<1>14. QED
  BY <1>2, <1>5, <1>10, <1>13

LEMMA InvPeak ==
  ASSUME GroupInv
  PROVE  NeedIsPeak
<1>1. SUFFICES ASSUME NEW G, running \cup MembersOf(G) # {}
               PROVE  NeedMaxTokenNum(running \cup MembersOf(G))
                        = Max({LoadIn(running \cup MembersOf(G), LeftLen(r)) :
                                 r \in running \cup MembersOf(G)})
  BY DEF NeedIsPeak
<1>2. running \cup MembersOf(G) \in SUBSET Req
  BY UpToFinite DEF GroupInv, PlaceInv, MembersOf
<1>3. LengthInv
  BY DEF GroupInv
<1>4. QED
  BY <1>1, <1>2, <1>3, NeedIsLoad

\* The loop of _can_add_new_group_reqs over the list sorted by remaining length
\* computes the largest load of any later moment, a shared prompt counted once: it
\* is enough to look at the moments when a request ends, in the order of the list.
THEOREM NeedIsPeakCorrect == Spec => []NeedIsPeak
<1>1. GroupInv => NeedIsPeak
  BY InvPeak
<1>2. QED
  BY <1>1, GroupInvariant, PTL

-----------------------------------------------------------------------------
(***************************************************************************)
(* The load that the running batch may still reach.                        *)
(***************************************************************************)
\* Tokens counted as produced, and to come, for output lengths `len': a request
\* that prefill left out counts as one that has its first token.
MadeOf(len)   == [r \in Req |-> IF len[r] = 0 THEN 1 ELSE len[r]]
ToComeOf(len) == [r \in Req |-> AtLeast(0, MaxNew[r[1]] - MadeOf(len)[r] - 1)]

\* What a request has allocated itself, after n tokens.
OwnCells(r, n) == {r} \X ((InputLen[r[1]] + 1)..(InputLen[r[1]] + n - 1))

RowParts == \A r \in running : held[r] \subseteq PromptRow(r[1]) \cup OwnCells(r, cur_output_len[r])

\* At any later moment, the running requests fit the pool.
Fits == \A k \in Nat :
          LoadOf(Lasting(ToComeOf(cur_output_len), running, k), MadeOf(cur_output_len), k)
            < MaxTotal

\* A request that prefill left out is met by the next decode.
AllPrefilled == at = "step" /\ has_wait_tokens > 0 => \A r \in running : cur_output_len[r] > 0

PeakInv == RowParts /\ Fits /\ AllPrefilled

LEMMA MadeIs ==
  ASSUME NEW len \in [Req -> Nat]
  PROVE  /\ MadeOf(len) \in [Req -> Nat] /\ ToComeOf(len) \in [Req -> Nat]
         /\ \A r \in Req :
              /\ MadeOf(len)[r] = IF len[r] = 0 THEN 1 ELSE len[r]
              /\ ToComeOf(len)[r] = AtLeast(0, MaxNew[r[1]] - MadeOf(len)[r] - 1)
<1>1. ASSUME NEW r \in Req
      PROVE  /\ MadeOf(len)[r] = IF len[r] = 0 THEN 1 ELSE len[r]
             /\ ToComeOf(len)[r] = AtLeast(0, MaxNew[r[1]] - MadeOf(len)[r] - 1)
             /\ MadeOf(len)[r] \in Nat /\ ToComeOf(len)[r] \in Nat
  <2>1. MadeOf(len)[r] = IF len[r] = 0 THEN 1 ELSE len[r]
    BY DEF MadeOf
  <2>2. ToComeOf(len)[r] = AtLeast(0, MaxNew[r[1]] - MadeOf(len)[r] - 1)
    BY DEF ToComeOf
  <2>3. PICK n \in Nat, m \in Nat : n = MadeOf(len)[r] /\ m = MaxNew[r[1]]
    BY <2>1, ReqIs, Constants
  <2>4. AtLeast(0, m - n - 1) \in Nat
    BY DEF AtLeast
  <2>5. QED
    BY <2>1, <2>2, <2>3, <2>4
<1>2. MadeOf(len) = [r \in Req |-> MadeOf(len)[r]]
      /\ ToComeOf(len) = [r \in Req |-> ToComeOf(len)[r]]
  BY DEF MadeOf, ToComeOf
<1>3. QED
  BY <1>1, <1>2

\* With a group taken, all that are taken passed _can_add_new_group_reqs together.
LEMMA TakenPasses ==
  ASSUME QueueInv, Taken # {}
  PROVE  CanAddGroups(Taken)
<1> DEFINE P == {FirstPos(g) : g \in Taken}
           N == Len(waiting_req_list)
<1>1. N \in Nat
  BY LenProperties DEF QueueInv
<1>2. Taken \subseteq WaitingGroups /\ \A g \in Taken : UpTo(g) \subseteq Taken /\ g \in UpTo(g)
  BY TakenClosed
<1>3. P \subseteq 1..N
  BY <1>2, FirstPosFacts
<1>4. IsFiniteSet(P) /\ P \subseteq Nat /\ P # {}
  <2>1. IsFiniteSet(1..N)
    <3>1. 1 \in Int /\ N \in Int
      BY <1>1
    <3>2. QED
      BY <3>1, FS_Interval
  <2>2. P # {}
    OBVIOUS
  <2> HIDE DEF P
  <2>3. IsFiniteSet(P)
    BY <1>3, <2>1, FS_Subset
  <2>4. P \subseteq Nat
    BY <1>1, <1>3
  <2>5. QED
    BY <2>2, <2>3, <2>4
<1>5. PICK m \in P : \A n \in P : n <= m
  <2> HIDE DEF P
  <2>1. QED
    BY <1>4, MaxOf
<1>6. PICK g \in Taken : m = FirstPos(g)
  OBVIOUS
<1>7. Taken = UpTo(g)
  <2>1. \A h \in Taken : h \in UpTo(g)
    BY <1>2, <1>5, <1>6 DEF UpTo
  <2>2. QED
    BY <1>2, <2>1
<1>8. CanAddGroups(UpTo(g))
  BY <1>2 DEF Taken
<1>9. QED
  BY <1>7, <1>8

\* What the estimate reads of the running requests and of a batch taken now.
LEMMA EstimateIs ==
  ASSUME QueueInv, PlaceInv, LengthInv, \A r \in running : cur_output_len[r] > 0
  PROVE  \A r \in running \cup Batch :
           /\ r \in Req
           /\ ExtraLen[r] = MadeOf(cur_output_len)[r]
           /\ Left[r] = ToComeOf(cur_output_len)[r]
<1>1. SUFFICES ASSUME NEW r \in running \cup Batch
               PROVE  /\ r \in Req
                      /\ ExtraLen[r] = MadeOf(cur_output_len)[r]
                      /\ Left[r] = ToComeOf(cur_output_len)[r]
  OBVIOUS
<1>2. r \in Req /\ cur_output_len \in [Req -> Nat]
  BY BatchFacts DEF PlaceInv, LengthInv
<1>3. PICK i \in Nat, m \in Nat, n \in Nat :
        i = InputLen[r[1]] /\ m = MaxNew[r[1]] /\ n = cur_output_len[r]
  BY <1>2, ReqIs, Constants
<1>4. /\ MadeOf(cur_output_len)[r] = IF n = 0 THEN 1 ELSE n
      /\ ToComeOf(cur_output_len)[r] = AtLeast(0, m - MadeOf(cur_output_len)[r] - 1)
  BY <1>2, <1>3, MadeIs
<1>5. ExtraLen[r] = RunLen(r) - i /\ Left[r] = LeftLen(r)
  BY <1>2, <1>3 DEF ExtraLen, Left
<1>6. CASE r \in running
  <2>1. n > 0 /\ RunLen(r) = i + n /\ LeftLen(r) = AtLeast(0, m - (n + 1))
    BY <1>3, <1>6 DEF RunLen, LeftLen
  <2>2. MadeOf(cur_output_len)[r] = n /\ (i + n) - i = n /\ m - n - 1 = m - (n + 1)
    BY <1>4, <2>1
  <2>3. QED
    BY <1>2, <1>4, <1>5, <2>1, <2>2
<1>7. CASE r \notin running
  <2>1. n = 0
    BY <1>1, <1>3, <1>7, BatchFacts DEF LengthInv
  <2>2. RunLen(r) = i + 1 /\ LeftLen(r) = AtLeast(0, m - 2)
    BY <1>3, <1>7 DEF RunLen, LeftLen
  <2>3. MadeOf(cur_output_len)[r] = 1 /\ (i + 1) - i = 1 /\ m - 1 - 1 = m - 2
    BY <1>4, <2>1
  <2>4. QED
    BY <1>2, <1>4, <1>5, <2>2, <2>3
<1>8. QED
  BY <1>6, <1>7

LEMMA FitsPrefill ==
  ASSUME QueueInv, PlaceInv, LengthInv, StateInv, AllPrefilled, StepPrefill,
         NEW ended, PrefillRuns(ended), LengthInv'
  PROVE  Fits'
<1> DEFINE S == running \cup Batch
           e == MadeOf(cur_output_len)
           l == ToComeOf(cur_output_len)
           f == MadeOf(cur_output_len')
           m == ToComeOf(cur_output_len')
<1>1. \A r \in running : cur_output_len[r] > 0
  <2>1. CASE running = {}
    BY <2>1
  <2>2. CASE running # {}
    <3>1. at = "step" /\ has_wait_tokens >= MaxWaitTokens
      BY <2>2 DEF StepPrefill
    <3>2. has_wait_tokens > 0
      <4>1. MaxWaitTokens \in Nat \ {0} /\ has_wait_tokens \in 0..MaxWaitTokens
        BY Constants DEF StateInv
      <4>2. QED
        BY <3>1, <4>1
    <3>3. QED
      BY <3>1, <3>2 DEF AllPrefilled
  <2>3. QED
    BY <2>1, <2>2
<1>2. /\ S \in SUBSET Req /\ running' \in SUBSET S
      /\ cur_output_len \in [Req -> Nat] /\ cur_output_len' \in [Req -> Nat]
  BY BatchFacts DEF PlaceInv, LengthInv, PrefillRuns, AfterForward
<1>3. /\ e \in [Req -> Nat] /\ l \in [Req -> Nat] /\ f \in [Req -> Nat] /\ m \in [Req -> Nat]
      /\ \A r \in Req : e[r] = (IF cur_output_len[r] = 0 THEN 1 ELSE cur_output_len[r])
                        /\ l[r] = AtLeast(0, MaxNew[r[1]] - e[r] - 1)
      /\ \A r \in Req : f[r] = (IF cur_output_len'[r] = 0 THEN 1 ELSE cur_output_len'[r])
                        /\ m[r] = AtLeast(0, MaxNew[r[1]] - f[r] - 1)
  BY <1>2, MadeIs
<1>4. \A r \in S : r \in Req /\ ExtraLen[r] = e[r] /\ Left[r] = l[r]
  BY <1>1, EstimateIs
<1> HIDE DEF e, l, f, m
<1>5. \A r \in S : f[r] = e[r] /\ m[r] = l[r]
  <2>1. SUFFICES ASSUME NEW r \in S PROVE f[r] = e[r]
    BY <1>2, <1>3
  <2>2. cur_output_len'[r] = IF r \in Run THEN cur_output_len[r] + 1 ELSE cur_output_len[r]
    BY <1>2 DEF PrefillRuns, AfterForward, PrefillRows
  <2>3. CASE r \in Run
    <3>1. cur_output_len[r] = 0
      BY <2>3, BatchFacts DEF LengthInv
    <3>2. QED
      BY <1>2, <1>3, <2>2, <2>3, <3>1
  <2>4. CASE r \notin Run
    BY <1>2, <1>3, <2>2, <2>4
  <2>5. QED
    BY <2>3, <2>4
<1>6. NeedMaxTokenNum(S) < MaxTotal
  BY TakenPasses DEF CanAddGroups, Batch, StepPrefill
<1>7. ExtraLen \in [Req -> Nat]
  BY LensAreNat
<1> HIDE DEF S
<1>8. ASSUME NEW k \in Nat
      PROVE  LoadOf(Lasting(m, running', k), f, k) < MaxTotal
  <2>1. PICK B \in SUBSET Req : B = Lasting(Left, S, k)
    BY <1>2 DEF Lasting
  <2>2. PICK A \in SUBSET B : A = Lasting(m, running', k)
    BY <1>2, <1>4, <1>5, <2>1 DEF Lasting
  <2>3. \A r \in A : f[r] + k <= ExtraLen[r] + k
    <3>1. \A r \in A : f[r] = ExtraLen[r] /\ ExtraLen[r] \in Nat
      BY <1>2, <1>4, <1>5, <1>7, <2>2 DEF Lasting
    <3>2. QED
      BY <3>1
  <2>4. LoadOf(A, f, k) <= LoadOf(B, ExtraLen, k)
    BY <1>3, <1>7, <2>3, LoadGrows
  <2>5. LoadOf(B, ExtraLen, k) <= NeedMaxTokenNum(S) /\ NeedMaxTokenNum(S) \in Nat
    BY <1>2, <2>1, NeedBounds
  <2>6. LoadOf(A, f, k) \in Nat /\ LoadOf(B, ExtraLen, k) \in Nat
    <3>1. A \in SUBSET Req
      OBVIOUS
    <3>2. QED
      BY <1>3, <1>7, <3>1, LoadIs
  <2>7. MaxTotal \in Nat
    BY Constants
  <2>8. QED
    BY <1>6, <2>2, <2>4, <2>5, <2>6, <2>7
<1>9. QED
  BY <1>8 DEF Fits, f, m

LEMMA FitsDecode ==
  ASSUME ~BeamMode, PlaceInv, LengthInv, Fits, NEW p, NEW ended, DecodeRuns(p, ended), LengthInv'
  PROVE  Fits'
<1> DEFINE e == MadeOf(cur_output_len)
           l == ToComeOf(cur_output_len)
           f == MadeOf(cur_output_len')
           m == ToComeOf(cur_output_len')
<1>1. /\ running \in SUBSET Req /\ running' \in SUBSET running
      /\ cur_output_len \in [Req -> Nat] /\ cur_output_len' \in [Req -> Nat]
  BY DEF PlaceInv, LengthInv, DecodeRuns, AfterForward
<1>2. /\ e \in [Req -> Nat] /\ l \in [Req -> Nat] /\ f \in [Req -> Nat] /\ m \in [Req -> Nat]
      /\ \A r \in Req : e[r] = (IF cur_output_len[r] = 0 THEN 1 ELSE cur_output_len[r])
                        /\ l[r] = AtLeast(0, MaxNew[r[1]] - e[r] - 1)
      /\ \A r \in Req : f[r] = (IF cur_output_len'[r] = 0 THEN 1 ELSE cur_output_len'[r])
                        /\ m[r] = AtLeast(0, MaxNew[r[1]] - f[r] - 1)
  BY <1>1, MadeIs
<1> HIDE DEF e, l, f, m
<1>3. ASSUME NEW r \in running' PROVE f[r] = e[r] + 1 /\ l[r] = m[r] + 1
  <2>1. r \in running /\ r \in Req /\ ~MustEnd(r) /\ cur_output_len[r] > 0
    BY <1>1, <1>3 DEF DecodeRuns, AfterForward, DecodeReady
  <2>2. PICK n \in Nat, t \in Nat : n = cur_output_len[r] /\ t = MaxNew[r[1]]
    BY <1>1, <2>1, ReqIs, Constants
  <2>3. cur_output_len'[r] = n + 1
    BY <2>1, <2>2 DEF DecodeRuns, AfterForward, CopiedRows
  <2>4. n + 1 < t
    BY <2>1, <2>2 DEF MustEnd, IsBeam
  <2>5. e[r] = n /\ f[r] = n + 1
    BY <1>2, <2>1, <2>2, <2>3
  <2>6. l[r] = AtLeast(0, t - n - 1) /\ m[r] = AtLeast(0, t - (n + 1) - 1)
    BY <1>2, <2>1, <2>2, <2>5
  <2>7. AtLeast(0, t - n - 1) = AtLeast(0, t - (n + 1) - 1) + 1
    BY <2>4 DEF AtLeast
  <2>8. QED
    BY <2>5, <2>6, <2>7
<1>4. ASSUME NEW k \in Nat
      PROVE  LoadOf(Lasting(m, running', k), f, k) < MaxTotal
  <2>1. PICK j \in Nat : j = k + 1
    OBVIOUS
  <2>2. PICK B \in SUBSET Req : B = Lasting(l, running, j)
    BY <1>1 DEF Lasting
  <2>3. \A r \in running' : m[r] >= k => l[r] >= j
    <3>1. \A r \in running' : m[r] \in Nat /\ l[r] = m[r] + 1
      BY <1>1, <1>2, <1>3
    <3>2. QED
      BY <2>1, <3>1
  <2>4. PICK A \in SUBSET B : A = Lasting(m, running', k)
    BY <1>1, <2>2, <2>3 DEF Lasting
  <2>5. \A r \in A : f[r] + k <= e[r] + j
    <3>1. \A r \in A : f[r] = e[r] + 1 /\ e[r] \in Nat
      BY <1>1, <1>2, <1>3, <2>4 DEF Lasting
    <3>2. QED
      BY <2>1, <3>1
  <2>6. LoadOf(A, f, k) <= LoadOf(B, e, j)
    BY <1>2, <2>5, LoadGrows
  <2>7. LoadOf(B, e, j) < MaxTotal
    BY <2>2 DEF Fits, e, l
  <2>8. LoadOf(A, f, k) \in Nat /\ LoadOf(B, e, j) \in Nat
    <3>1. A \in SUBSET Req
      OBVIOUS
    <3>2. QED
      BY <1>2, <3>1, LoadIs
  <2>9. MaxTotal \in Nat
    BY Constants
  <2>10. QED
    BY <2>4, <2>6, <2>7, <2>8, <2>9
<1>5. QED
  BY <1>4 DEF Fits, f, m

LEMMA RowPartsPrefill ==
  ASSUME QueueInv, PlaceInv, LengthInv, RowInv, RowParts, NEW ended, PrefillRuns(ended)
  PROVE  RowParts'
<1>1. /\ running' = (running \cup Batch) \ ended
      /\ cur_output_len' = [r \in Req |-> IF r \in Run THEN cur_output_len[r] + 1
                                                       ELSE cur_output_len[r]]
      /\ held' = [r \in Req |-> IF r \in ended THEN {}
                                ELSE IF r \in Run THEN PromptRow(r[1]) ELSE held[r]]
  BY DEF PrefillRuns, AfterForward, PrefillRows
<1>2. SUFFICES ASSUME NEW r \in running'
               PROVE  held'[r] \subseteq PromptRow(r[1]) \cup OwnCells(r, cur_output_len'[r])
  BY DEF RowParts
<1>3. r \in Req /\ r \notin ended /\ r \in running \cup Batch
  BY <1>1, BatchFacts DEF PlaceInv
<1>4. CASE r \in Run
  BY <1>1, <1>3, <1>4
<1>5. CASE r \notin Run
  <2>1. held'[r] = held[r] /\ cur_output_len'[r] = cur_output_len[r]
    BY <1>1, <1>3, <1>5
  <2>2. CASE r \in running
    BY <2>1, <2>2 DEF RowParts
  <2>3. CASE r \in Batch
    <3>1. held[r] = {}
      BY <1>3, <2>3, BatchFacts DEF RowInv
    <3>2. QED
      BY <2>1, <3>1
  <2>4. QED
    BY <1>3, <2>2, <2>3
<1>6. QED
  BY <1>4, <1>5

LEMMA RowPartsDecode ==
  ASSUME ~BeamMode, PlaceInv, LengthInv, RowParts, NEW p, NEW ended, DecodeRuns(p, ended)
  PROVE  RowParts'
<1>1. /\ running' = running \ ended
      /\ cur_output_len' = [r \in Req |-> IF r \in running THEN cur_output_len[r] + 1
                                                           ELSE cur_output_len[r]]
      /\ held' = [r \in Req |-> IF r \in ended THEN {}
                                ELSE IF r \in running THEN CopiedRows(p)[r] ELSE held[r]]
  BY DEF DecodeRuns, AfterForward, CopiedRows
<1>2. SUFFICES ASSUME NEW r \in running'
               PROVE  held'[r] \subseteq PromptRow(r[1]) \cup OwnCells(r, cur_output_len'[r])
  BY DEF RowParts
<1>3. r \in running /\ r \in Req /\ r \notin ended /\ p[r] = r
  BY <1>1 DEF PlaceInv, DecodeRuns, IsBeam
<1>4. held'[r] = held[r] \cup {NewCell(r)}
  BY <1>1, <1>3 DEF CopiedRows, DecodeRows
<1>5. PICK i \in Nat, n \in Nat : i = InputLen[r[1]] /\ n = cur_output_len[r] /\ n > 0
  BY <1>3, ReqIs, Constants DEF LengthInv, DecodeRuns, DecodeReady
<1>6. cur_output_len'[r] = n + 1
  BY <1>1, <1>3, <1>5
<1>7. (i + 1)..(i + n - 1) \subseteq (i + 1)..(i + (n + 1) - 1)
      /\ i + n \in (i + 1)..(i + (n + 1) - 1)
  BY <1>5
<1>8. OwnCells(r, n) \subseteq OwnCells(r, n + 1)
  BY <1>5, <1>7 DEF OwnCells
<1>9. NewCell(r) \in OwnCells(r, n + 1)
  <2>1. NewCell(r) = <<r, i + n>>
    BY <1>5 DEF NewCell
  <2>2. QED
    BY <1>5, <1>7, <2>1 DEF OwnCells
<1>10. held[r] \subseteq PromptRow(r[1]) \cup OwnCells(r, n)
  BY <1>3, <1>5 DEF RowParts
<1>11. QED
  BY <1>4, <1>6, <1>8, <1>9, <1>10

LEMMA OwnCellsCount ==
  ASSUME NEW r \in Req, NEW n \in Nat
  PROVE  /\ IsFiniteSet(OwnCells(r, n))
         /\ Cardinality(OwnCells(r, n)) = IF n = 0 THEN 0 ELSE n - 1
<1>1. PICK i \in Nat : i = InputLen[r[1]]
  BY ReqIs, Constants
<1>2. PICK R, I : R = {r} /\ I = (i + 1)..(i + n - 1)
  OBVIOUS
<1>3. IsFiniteSet(I) /\ Cardinality(I) = IF n = 0 THEN 0 ELSE n - 1
  <2>1. PICK a \in Int, b \in Int : a = i + 1 /\ b = i + n - 1
    OBVIOUS
  <2>2. IsFiniteSet(a..b) /\ Cardinality(a..b) = IF a > b THEN 0 ELSE b - a + 1
    BY FS_Interval
  <2>3. (IF a > b THEN 0 ELSE b - a + 1) = IF n = 0 THEN 0 ELSE n - 1
    BY <2>1
  <2>4. QED
    BY <1>2, <2>1, <2>2, <2>3
<1>4. IsFiniteSet(R) /\ Cardinality(R) = 1
  BY <1>2, FS_Singleton
<1>5. IsFiniteSet(R \X I) /\ Cardinality(R \X I) = Cardinality(R) * Cardinality(I)
  BY <1>3, <1>4, FS_Product
<1>6. PICK c \in Nat : c = Cardinality(I)
  BY <1>3
<1>7. Cardinality(R \X I) = c
  BY <1>4, <1>5, <1>6
<1>8. OwnCells(r, n) = R \X I
  BY <1>1, <1>2 DEF OwnCells
<1>9. QED
  BY <1>3, <1>5, <1>6, <1>7, <1>8

\* The running requests and the tokens used are no more than the load now.
LEMMA UsedIsLoad ==
  ASSUME PlaceInv, LengthInv, PoolInv, RowParts
  PROVE  Cardinality(running) + UsedTokens <= LoadOf(running, MadeOf(cur_output_len), 0)
<1> DEFINE e   == MadeOf(cur_output_len)
           own == [r \in running |-> IF cur_output_len[r] = 0 THEN 0 ELSE cur_output_len[r] - 1]
           one == [r \in running |-> 1]
           U   == {c \in Cell : mem_state[c] > 0}
           G   == GroupsOf(running)
           PS  == [g \in G |-> PromptRow(g)]
           OS  == [r \in running |-> OwnCells(r, cur_output_len[r])]
           P   == UNION {PS[g] : g \in G}
           O   == UNION {OS[r] : r \in running}
<1>1. /\ running \in SUBSET Req /\ cur_output_len \in [Req -> Nat]
      /\ IsFiniteSet(running) /\ IsFiniteSet(G) /\ G \in SUBSET Group
  BY PartFinite DEF PlaceInv, LengthInv
<1>2. IsFiniteSet(P) /\ Cardinality(P) = SumFunctionOnSet(InputLen, G)
  <2>1. \A g \in G : IsFiniteSet(PS[g]) /\ Cardinality(PS[g]) = InputLen[g] /\ InputLen[g] \in Nat
    <3>1. \A g \in G : IsFiniteSet(PromptRow(g)) /\ Cardinality(PromptRow(g)) = InputLen[g]
      BY <1>1, PromptRowIs
    <3>2. \A g \in G : InputLen[g] \in Nat
      BY <1>1, Constants
    <3> HIDE DEF G
    <3>3. QED
      BY <3>1, <3>2
  <2>2. \A g, h \in G : g # h => PS[g] \cap PS[h] = {}
    BY DEF PromptRow, HeadOf
  <2> HIDE DEF G, PS
  <2>3. QED
    BY <1>1, <2>1, <2>2, UnionSize
<1>3. IsFiniteSet(O) /\ Cardinality(O) = SumFunctionOnSet(own, running)
  <2>1. \A r \in running : IsFiniteSet(OS[r]) /\ Cardinality(OS[r]) = own[r] /\ own[r] \in Nat
    <3>1. ASSUME NEW r \in running
          PROVE  IsFiniteSet(OS[r]) /\ Cardinality(OS[r]) = own[r] /\ own[r] \in Nat
      <4>1. PICK n \in Nat : n = cur_output_len[r] /\ r \in Req
        BY <1>1
      <4>2. OS[r] = OwnCells(r, n) /\ own[r] = IF n = 0 THEN 0 ELSE n - 1
        BY <4>1
      <4>3. IsFiniteSet(OwnCells(r, n)) /\ Cardinality(OwnCells(r, n)) = IF n = 0 THEN 0 ELSE n - 1
        BY <4>1, OwnCellsCount
      <4> HIDE DEF OS, own
      <4>4. QED
        BY <4>1, <4>2, <4>3
    <3>2. QED
      BY <3>1
  <2>2. \A r, q \in running : r # q => OS[r] \cap OS[q] = {}
    BY DEF OwnCells
  <2> HIDE DEF OS, own
  <2>3. QED
    BY <1>1, <2>1, <2>2, UnionSize
<1>4. U \subseteq P \cup O
  <2>1. SUFFICES ASSUME NEW c \in U PROVE c \in P \cup O
    OBVIOUS
  <2>2. Holders(c, running, held) > 0
    BY DEF PoolInv, SharedTokens
  <2>3. PICK r \in running : c \in held[r]
    BY <1>1, <2>2, HoldersNone
  <2>4. c \in PromptRow(r[1]) \/ c \in OwnCells(r, cur_output_len[r])
    BY <2>3 DEF RowParts
  <2>5. CASE c \in PromptRow(r[1])
    <3>1. r[1] \in G
      BY DEF GroupsOf
    <3>2. PS[r[1]] = PromptRow(r[1])
      BY <3>1
    <3>3. QED
      BY <2>5, <3>1, <3>2
  <2>6. CASE c \in OwnCells(r, cur_output_len[r])
    BY <2>6
  <2>7. QED
    BY <2>4, <2>5, <2>6
<1>5. \A r \in running : /\ own[r] \in Int /\ one[r] \in Int /\ one[r] = 1
                         /\ e[r] = own[r] + one[r] /\ own[r] \in Nat
  <2>1. ASSUME NEW r \in running
        PROVE  own[r] \in Nat /\ one[r] = 1 /\ e[r] = own[r] + one[r]
    <3>1. PICK n \in Nat : n = cur_output_len[r] /\ r \in Req
      BY <1>1
    <3>2. e[r] = (IF n = 0 THEN 1 ELSE n) /\ own[r] = (IF n = 0 THEN 0 ELSE n - 1) /\ one[r] = 1
      BY <1>1, <3>1, MadeIs
    <3> HIDE DEF e, own, one
    <3>3. QED
      BY <3>2
  <2> HIDE DEF e, own, one
  <2>2. QED
    BY <2>1
<1>6. LoadOf(running, e, 0) = SumFunctionOnSet(InputLen, G) + (SumFunctionOnSet(e, running) + 0)
      /\ SumFunctionOnSet(InputLen, G) \in Nat
  <2>1. e \in [Req -> Nat]
    BY <1>1, MadeIs
  <2> HIDE DEF e
  <2>2. /\ SumFunctionOnSet(InputLen, G) \in Nat
        /\ SumFunctionOnSet([r \in Req |-> e[r] + 0], running)
             = SumFunctionOnSet(e, running) + Cardinality(running) * 0
    BY <1>1, <2>1, LoadIs
  <2>3. Cardinality(running) * 0 = 0
    <3>1. Cardinality(running) \in Nat
      BY <1>1, FS_CardinalityType
    <3>2. QED
      BY <3>1
  <2>4. QED
    BY <2>2, <2>3 DEF LoadOf
<1>7. can_use_mem_size + Cardinality(U) = MaxTotal /\ can_use_mem_size \in Nat
  BY DEF PoolInv, SharedTokens
<1> HIDE DEF e, own, one, U, G, PS, OS, P, O
<1>8. SumFunctionOnSet(e, running) = SumFunctionOnSet(own, running) + SumFunctionOnSet(one, running)
  BY <1>1, <1>5, SumPlus
<1>9. SumFunctionOnSet(one, running) = Cardinality(running) * 1
  <2>1. \A r \in running : one[r] = 1
    BY <1>5
  <2>2. QED
    BY <1>1, <2>1, SumConst
<1>10. Cardinality(U) <= Cardinality(P) + Cardinality(O) /\ Cardinality(U) \in Nat
  <2>1. PICK R \in SUBSET O : R = O \ P
    OBVIOUS
  <2>2. IsFiniteSet(R) /\ Cardinality(R) <= Cardinality(O) /\ Cardinality(R) \in Nat
        /\ Cardinality(O) \in Nat /\ Cardinality(P) \in Nat
    BY <1>2, <1>3, FS_Subset, FS_CardinalityType
  <2>3. P \cap R = {} /\ P \cup O = P \cup R
    BY <2>1
  <2>4. IsFiniteSet(P \cup R) /\ Cardinality(P \cup R) = Cardinality(P) + Cardinality(R)
    BY <1>2, <2>2, <2>3, CardDisjoint
  <2>5. Cardinality(U) <= Cardinality(P \cup R) /\ Cardinality(U) \in Nat
    <3>1. U \subseteq P \cup R
      BY <1>4, <2>3
    <3>2. QED
      BY <2>4, <3>1, FS_Subset, FS_CardinalityType
  <2>6. QED
    BY <2>2, <2>4, <2>5
<1>11. PICK u \in Nat, a \in Nat, b \in Nat, n \in Nat, m \in Nat :
         /\ u = Cardinality(U) /\ a = Cardinality(P) /\ b = Cardinality(O)
         /\ n = Cardinality(running) /\ m = can_use_mem_size
  BY <1>1, <1>2, <1>3, <1>7, <1>10, FS_CardinalityType
<1>12. UsedTokens = u
  <2>1. MaxTotal = m + u
    BY <1>7, <1>11
  <2>2. QED
    BY <1>11, <2>1 DEF UsedTokens
<1>13. LoadOf(running, e, 0) = a + (b + n)
  <2>1. SumFunctionOnSet(e, running) = b + n * 1
    BY <1>3, <1>8, <1>9, <1>11
  <2>2. LoadOf(running, e, 0) = a + ((b + n * 1) + 0)
    BY <1>2, <1>6, <1>11, <2>1
  <2>3. QED
    BY <2>2
<1>14. n + u <= a + (b + n)
  BY <1>10, <1>11
<1>15. QED
  BY <1>11, <1>12, <1>13, <1>14 DEF e

LEMMA PeakFits ==
  ASSUME GroupInv, PeakInv
  PROVE  DecodeFits
<1>1. PlaceInv /\ LengthInv /\ PoolInv /\ RowParts /\ Fits
  BY DEF GroupInv, PeakInv
<1>2. running \in SUBSET Req /\ cur_output_len \in [Req -> Nat]
  BY <1>1 DEF PlaceInv, LengthInv
<1>3. MadeOf(cur_output_len) \in [Req -> Nat] /\ ToComeOf(cur_output_len) \in [Req -> Nat]
  BY <1>2, MadeIs
<1>4. Lasting(ToComeOf(cur_output_len), running, 0) = running
  <2>1. \A r \in running : ToComeOf(cur_output_len)[r] \in Nat
    BY <1>2, <1>3
  <2>2. QED
    BY <2>1 DEF Lasting
<1>5. LoadOf(running, MadeOf(cur_output_len), 0) < MaxTotal
  <2>1. 0 \in Nat
    OBVIOUS
  <2>2. QED
    BY <1>1, <1>4, <2>1 DEF Fits
<1>6. LoadOf(running, MadeOf(cur_output_len), 0) \in Nat
  BY <1>2, <1>3, LoadIs
<1>7. Cardinality(running) + UsedTokens <= LoadOf(running, MadeOf(cur_output_len), 0)
  BY <1>1, UsedIsLoad
<1>8. Cardinality(running) + UsedTokens \in Int /\ MaxTotal \in Nat
  <2>1. Cardinality(running) \in Nat
    BY <1>2, PartFinite, FS_CardinalityType
  <2>2. UsedTokens \in Int /\ MaxTotal \in Nat
    BY <1>1, Constants DEF UsedTokens, PoolInv
  <2>3. QED
    BY <2>1, <2>2
<1>9. QED
  BY <1>5, <1>6, <1>7, <1>8 DEF DecodeFits, CanDecode

LEMMA PeakInit ==
  ASSUME Init
  PROVE  PeakInv
<1>1. running = {} /\ has_wait_tokens = 0
  BY DEF Init
<1>2. ASSUME NEW k \in Nat
      PROVE  LoadOf(Lasting(ToComeOf(cur_output_len), running, k), MadeOf(cur_output_len), k) = 0
  <2>1. Lasting(ToComeOf(cur_output_len), running, k) = {}
    BY <1>1 DEF Lasting
  <2>2. GroupsOf({}) = {}
    BY DEF GroupsOf
  <2>3. SumFunctionOnSet(InputLen, {}) = 0
        /\ SumFunctionOnSet([r \in Req |-> MadeOf(cur_output_len)[r] + k], {}) = 0
    BY SumEmpty
  <2>4. QED
    BY <2>1, <2>2, <2>3 DEF LoadOf
<1>3. 0 < MaxTotal
  <2>1. MaxReqTotal \in Nat /\ MaxTotal \in Nat /\ MaxReqTotal + 8 < MaxTotal
    BY GroupAssumption
  <2>2. QED
    BY <2>1
<1>4. QED
  BY <1>1, <1>2, <1>3 DEF PeakInv, RowParts, Fits, AllPrefilled

\* A step that leaves the running batch and the pool alone.
LEMMA PeakKept ==
  ASSUME RowParts, Fits, Kept
  PROVE  RowParts' /\ Fits'
<1>1. running' = running /\ cur_output_len' = cur_output_len /\ held' = held
  BY DEF Kept, memVars
<1>2. RowParts'
  BY <1>1 DEF RowParts
<1>3. Fits'
  BY <1>1 DEF Fits, MadeOf, ToComeOf
<1>4. QED
  BY <1>2, <1>3

LEMMA PeakDecode ==
  ASSUME ~BeamMode, GroupInv, PeakInv, StepDecode, LengthInv'
  PROVE  PeakInv'
<1>1. PlaceInv /\ LengthInv /\ RowParts /\ Fits
  BY DEF GroupInv, PeakInv
<1>2. RowParts' /\ Fits'
  <2>1. CASE Kept
    BY <1>1, <2>1, PeakKept
  <2>2. CASE \E p, ended : DecodeRuns(p, ended)
    <3>1. PICK p, ended : DecodeRuns(p, ended)
      BY <2>2
    <3>2. QED
      BY <1>1, <3>1, FitsDecode, RowPartsDecode
  <2>3. QED
    BY <2>1, <2>2, DecodeCases
<1>3. AllPrefilled'
  <2>1. CASE Fails
    BY <2>1 DEF Fails, AllPrefilled
  <2>2. CASE \A r \in running : DecodeReady(r)
    <3>1. \A r \in running : r \in Req /\ cur_output_len[r] > 0 /\ cur_output_len[r] \in Nat
      BY <1>1, <2>2 DEF PlaceInv, LengthInv, DecodeReady
    <3>2. running' \subseteq running
      BY PlacesAfterDecode
    <3>3. CASE Kept
      BY <3>1, <3>2, <3>3 DEF Kept, AllPrefilled
    <3>4. CASE \E p, ended : DecodeRuns(p, ended)
      <4>1. \A r \in running : cur_output_len'[r] = cur_output_len[r] + 1
        BY <3>1, <3>4 DEF DecodeRuns, AfterForward, CopiedRows
      <4>2. \A r \in running' : cur_output_len'[r] > 0
        BY <3>1, <3>2, <4>1
      <4>3. QED
        BY <4>2 DEF AllPrefilled
    <3>5. QED
      BY <3>3, <3>4, DecodeCases
  <2>3. QED
    BY <2>1, <2>2 DEF StepDecode
<1>4. QED
  BY <1>2, <1>3 DEF PeakInv

LEMMA PeakPrefill ==
  ASSUME GroupInv, PeakInv, StepPrefill, LengthInv'
  PROVE  PeakInv'
<1>1. /\ QueueInv /\ PlaceInv /\ LengthInv /\ RowInv /\ PoolInv /\ StateInv
      /\ RowParts /\ Fits /\ AllPrefilled
  BY DEF GroupInv, PeakInv
<1>2. RowParts' /\ Fits'
  <2>1. CASE Kept
    BY <1>1, <2>1, PeakKept
  <2>2. CASE \E ended : PrefillRuns(ended)
    <3>1. PICK ended : PrefillRuns(ended)
      BY <2>2
    <3>2. QED
      BY <1>1, <3>1, FitsPrefill, RowPartsPrefill
  <2>3. QED
    BY <1>1, <2>1, <2>2, PrefillCases
<1>3. AllPrefilled'
  <2>1. has_wait_tokens' = 0
    BY DEF StepPrefill
  <2>2. QED
    BY <2>1 DEF AllPrefilled
<1>4. QED
  BY <1>2, <1>3 DEF PeakInv

LEMMA PeakHolds ==
  ASSUME ~BeamMode, GroupInv, PeakInv, [Next]_vars, LengthInv'
  PROVE  PeakInv'
<1>1. CASE StepPrefill
  BY <1>1, PeakPrefill
<1>2. CASE StepDecode
  BY <1>2, PeakDecode
<1>3. ASSUME UNCHANGED <<runVars, memVars>> PROVE PeakInv'
  <2>1. Kept /\ at' = at /\ has_wait_tokens' = has_wait_tokens
        /\ running' = running /\ cur_output_len' = cur_output_len
    BY <1>3 DEF Kept, runVars, memVars
  <2>2. RowParts' /\ Fits'
    BY <2>1, PeakKept DEF PeakInv
  <2>3. AllPrefilled'
    BY <2>1 DEF PeakInv, AllPrefilled
  <2>4. QED
    BY <2>2, <2>3 DEF PeakInv
<1>4. CASE \E g \in Group : AddReqGroup(g) \/ AbortGroup(g)
  BY <1>3, <1>4 DEF AddReqGroup, AbortGroup
<1>5. CASE UNCHANGED vars
  BY <1>3, <1>5 DEF vars
<1>6. QED
  BY <1>1, <1>2, <1>4, <1>5 DEF Next, Fwd

\* In diverse mode the running batch never outgrows the pool: whatever stops early
\* or is aborted, every running request gets its token at each decode, so that
\* _can_decode never asks for a pause.
THEOREM DecodeFitsCorrect ==
  ASSUME ~BeamMode
  PROVE  Spec => []DecodeFits
<1>1. Init => PeakInv
  BY PeakInit
<1>2. GroupInv /\ GroupInv' /\ PeakInv /\ [Next]_vars => PeakInv'
  BY PeakHolds DEF GroupInv
<1>3. GroupInv /\ PeakInv => DecodeFits
  BY PeakFits
<1>4. QED
  BY <1>1, <1>2, <1>3, GroupInvariant, PTL DEF Spec

\* The three together, for the behaviours of MCGroupRouter, which keep the settings
\* they start with: in diverse mode BeamContinuesBatchQueue hands every sub-request
\* out once, its estimate is the peak of the load, and every decode fits the pool.
THEOREM QueueHoldsCorrect ==
  ASSUME ~BeamMode
  PROVE  ModesSpec => []QueueHolds
<1> DEFINE J == mode = "diverse" => GroupInv /\ PeakInv
<1>1. ModesInit => J
  BY InitHolds, PeakInit DEF ModesInit
<1>2. J /\ [ModesNext]_<<vars, mode>> => J'
  <2>1. SUFFICES ASSUME mode = "diverse", GroupInv, PeakInv, [ModesNext]_<<vars, mode>>
                 PROVE  GroupInv' /\ PeakInv'
    BY DEF ModesNext
  <2>2. [Next]_vars
    BY <2>1 DEF ModesNext
  <2>3. GroupInv'
    BY <2>1, <2>2, NextHolds, StutterHolds
  <2>4. PeakInv'
    BY <2>1, <2>2, <2>3, PeakHolds DEF GroupInv
  <2>5. QED
    BY <2>3, <2>4
<1>3. J => QueueHolds
  BY InvTakenOnce, InvPeak, PeakFits DEF QueueHolds
<1> HIDE DEF J
<1>4. QED
  BY <1>1, <1>2, <1>3, PTL DEF ModesSpec

=============================================================================

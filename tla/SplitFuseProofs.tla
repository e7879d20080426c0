--------------------------- MODULE SplitFuseProofs ---------------------------
(***************************************************************************)
(* Theorems about SplitFuse, for every set of requests and every setting   *)
(* that satisfies SplitFuseAssumption: types, ownership, the blocks of a   *)
(* forward, the need cached for it, the tokens of the pool, and that no    *)
(* request is paused when the estimate is the default one.                 *)
(*                                                                         *)
(* The invariant is proved in layers.  Each layer is preserved by every    *)
(* step from a state in which it and the layers before it hold.            *)
(***************************************************************************)
EXTENDS SplitFuse, SequenceTheorems, InductionLemmas

-----------------------------------------------------------------------------
(***************************************************************************)
(* Numbers, maxima, and sums over requests                                 *)
(***************************************************************************)

\* A quotient and a remainder are what the division gives.
LEMMA Quotient ==
  ASSUME NEW B \in Nat \ {0}, NEW a \in Int, NEW q \in Int, NEW t \in 0..(B-1),
         a = B * q + t
  PROVE  a \div B = q /\ a % B = t
<1> DEFINE p == a \div B
           u == a % B
<1>1. p \in Int /\ u \in 0..(B-1) /\ a = B * p + u
  OBVIOUS
<1> HIDE DEF p, u
<1>2. B * (p - q) = t - u
  BY <1>1
<1>3. ~(p - q >= 1)
  BY <1>1, <1>2
<1>4. ~(q - p >= 1)
  BY <1>1, <1>2
<1>5. p = q
  BY <1>1, <1>3, <1>4
<1>6. u = t
  BY <1>1, <1>5
<1>7. QED
  BY <1>5, <1>6 DEF p, u

\* One block more.
LEMMA OneBlockMore ==
  ASSUME NEW B \in Nat \ {0}, NEW a \in Int
  PROVE  (a + B) \div B = (a \div B) + 1 /\ (a + B) % B = a % B
<1> DEFINE p == a \div B
           u == a % B
<1>1. p \in Int /\ u \in 0..(B-1) /\ a = B * p + u
  OBVIOUS
<1> HIDE DEF p, u
<1>2. a + B = B * (p + 1) + u
  BY <1>1
<1>3. (a + B) \div B = p + 1 /\ (a + B) % B = u
  BY <1>1, <1>2, Quotient
<1>4. QED
  BY <1>3 DEF p, u

\* What is left of a prompt counts as one block as long as it is not more than one.
LEMMA LastBlock ==
  ASSUME NEW B \in Nat \ {0}, NEW d \in 1..B
  PROVE  (d + B - 1) \div B = 1
<1>1. d - 1 \in 0..(B-1) /\ d + B - 1 = B * 1 + (d - 1) /\ d + B - 1 \in Int
  OBVIOUS
<1>2. QED
  BY <1>1, Quotient

\* A finite set of numbers has a largest one, and Max takes it.
LEMMA FiniteMax ==
  ASSUME NEW D, IsFiniteSet(D), D \subseteq Int, D # {}
  PROVE  Max(D) \in D /\ \A x \in D : x <= Max(D)
<1> DEFINE T == {S \in SUBSET D : S # {} => \E m \in S : \A x \in S : x <= m}
<1>1. {} \in T
  OBVIOUS
<1>2. ASSUME NEW S \in SUBSET D, NEW x \in D \ S, S \in T PROVE S \cup {x} \in T
  <2>1. CASE S = {}
    BY <2>1
  <2>2. CASE S # {}
    <3>1. PICK m \in S : \A y \in S : y <= m
      BY <1>2, <2>2
    <3>2. CASE x <= m
      BY <3>1, <3>2
    <3>3. CASE m < x
      BY <3>1, <3>3
    <3>4. QED
      BY <3>2, <3>3
  <2>3. QED
    BY <2>1, <2>2
<1> HIDE DEF T
<1>3. \A S \in SUBSET D : S \in T
  BY <1>1, <1>2, SubsetInduction
<1>4. \E m \in D : \A x \in D : m >= x
  BY <1>3 DEF T
<1>5. QED
  BY <1>4 DEF Max

LEMMA MinOfTwo ==
  ASSUME NEW a \in Int, NEW b \in Int
  PROVE  Min({a, b}) = IF a <= b THEN a ELSE b
<1>1. \A m \in {a, b} : (\A x \in {a, b} : m <= x) <=> m = IF a <= b THEN a ELSE b
  OBVIOUS
<1>2. (IF a <= b THEN a ELSE b) \in {a, b}
  OBVIOUS
<1>3. QED
  BY <1>1, <1>2 DEF Min

LEMMA MaxOfTwo ==
  ASSUME NEW a \in Int, NEW b \in Int
  PROVE  Max({a, b}) = IF a <= b THEN b ELSE a
<1>1. \A m \in {a, b} : (\A x \in {a, b} : m >= x) <=> m = IF a <= b THEN b ELSE a
  OBVIOUS
<1>2. (IF a <= b THEN b ELSE a) \in {a, b}
  OBVIOUS
<1>3. QED
  BY <1>1, <1>2 DEF Max

\* A set of requests is finite.
LEMMA ReqSubset ==
  ASSUME NEW S \in SUBSET Req
  PROVE  IsFiniteSet(S) /\ Cardinality(S) \in Nat
BY SplitFuseAssumption, FS_Subset, FS_CardinalityType

\* The sums of the model.
LEMMA TotalType ==
  ASSUME NEW f \in [Req -> Int]
  PROVE  /\ \A S \in SUBSET Req : Total(S, f) \in Int
         /\ \A S \in SUBSET Req : (\A r \in S : f[r] >= 0) =>
              Total(S, f) >= 0 /\ \A r \in S : f[r] <= Total(S, f)
         /\ \A S \in SUBSET Req : (\A r \in S : f[r] = 0) => Total(S, f) = 0
         /\ Total({}, f) = 0
<1>1. IsFiniteSet(Req) /\ \A r \in Req : f[r] \in Int
  BY SplitFuseAssumption
<1>2. \A S \in SUBSET Req : Total(S, f) \in Int
  BY <1>1, SumAdd DEF Total
<1>3. ASSUME NEW S \in SUBSET Req, \A r \in S : f[r] >= 0
      PROVE  Total(S, f) >= 0 /\ \A r \in S : f[r] <= Total(S, f)
  <2>1. IsFiniteSet(S) /\ \A r \in S : f[r] \in Nat
    BY <1>1, <1>3, ReqSubset
  <2>2. QED
    BY <2>1, SumNat DEF Total
<1>4. ASSUME NEW S \in SUBSET Req, \A r \in S : f[r] = 0 PROVE Total(S, f) = 0
  <2>1. IsFiniteSet(S) /\ \A r \in S : f[r] \in Int /\ f[r] = f[r] + f[r]
    BY <1>1, <1>4, ReqSubset
  <2>2. Total(S, f) = Total(S, f) + Total(S, f)
    BY <2>1, SumPlus DEF Total
  <2>3. QED
    BY <1>2, <2>2
<1>5. QED
  BY <1>2, <1>3, <1>4, SumEmpty DEF Total

LEMMA TotalSame ==
  ASSUME NEW f \in [Req -> Int], NEW g \in [Req -> Int], NEW S \in SUBSET Req,
         \A r \in S : f[r] = g[r]
  PROVE  Total(S, f) = Total(S, g)
<1>1. IsFiniteSet(S) /\ \A r \in S : f[r] \in Int /\ f[r] = g[r]
  BY ReqSubset
<1>2. QED
  BY <1>1, SumSame DEF Total

LEMMA TotalUnion ==
  ASSUME NEW f \in [Req -> Int], NEW S \in SUBSET Req, NEW T \in SUBSET Req
  PROVE  /\ S \cap T = {} => Total(S \cup T, f) = Total(S, f) + Total(T, f)
         /\ T \subseteq S => Total(S \ T, f) = Total(S, f) - Total(T, f)
<1>1. IsFiniteSet(Req) /\ \A r \in Req : f[r] \in Int
  BY SplitFuseAssumption
<1>2. S \cap T = {} => Total(S \cup T, f) = Total(S, f) + Total(T, f)
  BY <1>1, SumUnion DEF Total
<1>3. T \subseteq S => Total(S \ T, f) = Total(S, f) - Total(T, f)
  BY <1>1, SumMinus DEF Total
<1>4. QED
  BY <1>2, <1>3

LEMMA TotalAtMost ==
  ASSUME NEW f \in [Req -> Int], NEW g \in [Req -> Int], NEW S \in SUBSET Req
  PROVE  /\ (\A r \in S : f[r] <= g[r]) => Total(S, f) <= Total(S, g)
         /\ (\A r \in S : f[r] <= g[r] + 1) => Total(S, f) <= Total(S, g) + Cardinality(S)
<1>1. IsFiniteSet(S) /\ \A r \in S : f[r] \in Int /\ g[r] \in Int
  BY ReqSubset
<1>2. (\A r \in S : f[r] <= g[r]) => Total(S, f) <= Total(S, g)
  BY <1>1, SumAtMost DEF Total
<1>3. (\A r \in S : f[r] <= g[r] + 1) => Total(S, f) <= Total(S, g) + Cardinality(S)
  BY <1>1, SumAtMostOneMore DEF Total
<1>4. QED
  BY <1>2, <1>3

LEMMA TotalPlus ==
  ASSUME NEW f \in [Req -> Int], NEW g \in [Req -> Int], NEW h \in [Req -> Int],
         NEW S \in SUBSET Req, \A r \in S : h[r] = f[r] + g[r]
  PROVE  Total(S, h) = Total(S, f) + Total(S, g)
<1>1. IsFiniteSet(S) /\ \A r \in S : f[r] \in Int /\ g[r] \in Int /\ h[r] = f[r] + g[r]
  BY ReqSubset
<1>2. QED
  BY <1>1, SumPlus DEF Total

-----------------------------------------------------------------------------
(***************************************************************************)
(* Types and control                                                       *)
(***************************************************************************)
ReqStatus    == {"NOT_SENT", "WAIT_IN_QUEUE", "RUNNING", "PAUSED_AND_OFFLOAD"}
FinishStatus == {"NO_FINISH", "FINISHED_STOP", "FINISHED_LENGTH", "FINISHED_ABORT"}

\* TypeOK without its bounds, which later layers give.
BasicTypes ==
  /\ waiting_req_list \in Seq(Req)
  /\ req_status \in [Req -> ReqStatus] /\ finish_status \in [Req -> FinishStatus]
  /\ cur_output_len \in [Req -> Int] /\ cur_kv_len \in [Req -> Int]
  /\ running \in SUBSET Req /\ mini \in SUBSET Req /\ finished \in SUBSET Req
  /\ running_need \in Int /\ mini_need \in Int
  /\ has_wait_tokens \in 0..MaxWaitTokens
  /\ at \in {"step", "init", "merge", "decode", "finish", "dead"}
  /\ on \in {"new", "mini", "decode"}
  /\ can_use_mem_size \in Int

\* Where the coroutine is says which of its local variables are in use.
ControlInv ==
  /\ mini # {} => at \in {"init", "merge"} /\ on = "mini"
  /\ finished # {} => at = "finish"
  /\ at = "init" => on \in {"new", "mini"}
  /\ at = "init" /\ on = "mini" => running # {}
  /\ at = "merge" => on = "mini"
  /\ at \in {"decode", "finish"} => has_wait_tokens < MaxWaitTokens
  /\ Paused # {} => at = "dead"

TypeInv == BasicTypes /\ ControlInv

\* The lengths, and what they add up to, are numbers.
LEMMA LengthTypes ==
  ASSUME BasicTypes
  PROVE  /\ SeqLen \in [Req -> Int] /\ NextTokens \in [Req -> Int]
         /\ \A r \in Req : /\ SeqLen[r] = InputLen[r] + cur_output_len[r]
                           /\ NextTokens[r] = IF SeqLen[r] - cur_kv_len[r] <= Block
                                              THEN SeqLen[r] - cur_kv_len[r] ELSE Block
         /\ \A S \in SUBSET Req : Total(S, NextTokens) \in Int /\ Total(S, SeqLen) \in Int
         /\ \A S \in SUBSET Req : Total(S, cur_kv_len) \in Int
<1>1. \A r \in Req : InputLen[r] \in Int /\ cur_output_len[r] \in Int /\ cur_kv_len[r] \in Int
  BY SplitFuseAssumption DEF BasicTypes
<1>2. SeqLen \in [Req -> Int] /\ \A r \in Req : SeqLen[r] = InputLen[r] + cur_output_len[r]
  BY <1>1 DEF SeqLen
<1>3. Block \in Int
  BY SplitFuseAssumption
<1>4. \A r \in Req : Min({SeqLen[r] - cur_kv_len[r], Block})
                       = IF SeqLen[r] - cur_kv_len[r] <= Block
                         THEN SeqLen[r] - cur_kv_len[r] ELSE Block
  BY <1>1, <1>2, <1>3, MinOfTwo
<1>5. NextTokens \in [Req -> Int]
      /\ \A r \in Req : NextTokens[r] = IF SeqLen[r] - cur_kv_len[r] <= Block
                                        THEN SeqLen[r] - cur_kv_len[r] ELSE Block
  BY <1>1, <1>2, <1>3, <1>4 DEF NextTokens
<1>6. cur_kv_len \in [Req -> Int]
  BY DEF BasicTypes
<1>7. QED
  BY <1>2, <1>5, <1>6, TotalType

LEMMA NextLengthTypes ==
  BasicTypes' =>
       (/\ SeqLen \in [Req -> Int] /\ NextTokens \in [Req -> Int]
        /\ \A r \in Req : /\ SeqLen[r] = InputLen[r] + cur_output_len[r]
                          /\ NextTokens[r] = IF SeqLen[r] - cur_kv_len[r] <= Block
                                             THEN SeqLen[r] - cur_kv_len[r] ELSE Block
        /\ \A S \in SUBSET Req : Total(S, NextTokens) \in Int /\ Total(S, SeqLen) \in Int
        /\ \A S \in SUBSET Req : Total(S, cur_kv_len) \in Int)'
BY LengthTypes, PTL

\* The requests of a prefix of the queue.
LEMMA ScannedRequests ==
  ASSUME BasicTypes, NEW n \in 1..Len(waiting_req_list)
  PROVE  /\ Scanned(n) \in SUBSET Req
         /\ \A r \in Scanned(n) : \E i \in 1..n : waiting_req_list[i] = r
<1>1. \A i \in 1..n : waiting_req_list[i] \in Req
  BY DEF BasicTypes
<1>2. \A r \in Scanned(n) : \E i \in 1..n : waiting_req_list[i] = r
  BY DEF Scanned
<1>3. QED
  BY <1>1, <1>2

\* A queue that lost its first n requests.
LEMMA TakenQueue ==
  ASSUME BasicTypes, NEW n \in 1..Len(waiting_req_list), TakeFromQueue(n)
  PROVE  /\ waiting_req_list' \in Seq(Req)
         /\ Len(waiting_req_list') = Len(waiting_req_list) - n
         /\ \A i \in 1..Len(waiting_req_list') :
              waiting_req_list'[i] = waiting_req_list[n + i]
<1> DEFINE s == waiting_req_list
<1>1. s \in Seq(Req) /\ Len(s) \in Nat
  BY DEF BasicTypes
<1>2. \A i \in (n + 1)..Len(s) : s[i] \in Req
  BY <1>1
<1>3. SubSeq(s, n + 1, Len(s)) \in Seq(Req)
      /\ Len(SubSeq(s, n + 1, Len(s))) = (IF n + 1 <= Len(s) THEN Len(s) - (n + 1) + 1 ELSE 0)
      /\ \A i \in 1..(Len(s) - (n + 1) + 1) : SubSeq(s, n + 1, Len(s))[i] = s[n + 1 + i - 1]
  BY <1>1, <1>2, SubSeqProperties
<1>4. QED
  BY <1>1, <1>3 DEF TakeFromQueue

\* The youngest request of a batch is one of it, and is put before the queue.
LEMMA PausedRequest ==
  ASSUME TypeInv, running # {}
  PROVE  /\ Max(running) \in running /\ Max(running) \in Req
         /\ <<Max(running)>> \o waiting_req_list \in Seq(Req)
         /\ Len(<<Max(running)>> \o waiting_req_list) = Len(waiting_req_list) + 1
         /\ (<<Max(running)>> \o waiting_req_list)[1] = Max(running)
         /\ \A i \in 1..Len(waiting_req_list) :
              (<<Max(running)>> \o waiting_req_list)[i + 1] = waiting_req_list[i]
<1>1. IsFiniteSet(running) /\ running \subseteq Int /\ running \subseteq Req
  BY SplitFuseAssumption, ReqSubset DEF TypeInv, BasicTypes
<1>2. PICK m \in running : m = Max(running)
  BY <1>1, FiniteMax
<1>3. m \in Req /\ <<m>> \in Seq(Req) /\ Len(<<m>>) = 1 /\ <<m>>[1] = m
  BY <1>1
<1>4. waiting_req_list \in Seq(Req) /\ Len(waiting_req_list) \in Nat
  BY DEF TypeInv, BasicTypes
<1>5. /\ <<m>> \o waiting_req_list \in Seq(Req)
      /\ Len(<<m>> \o waiting_req_list) = 1 + Len(waiting_req_list)
      /\ \A i \in 1..(1 + Len(waiting_req_list)) :
           (<<m>> \o waiting_req_list)[i] = IF i <= 1 THEN <<m>>[i] ELSE waiting_req_list[i - 1]
  BY <1>3, <1>4, ConcatProperties
<1>6. QED
  BY <1>2, <1>3, <1>4, <1>5

LEMMA InitType == Init => TypeInv
<1>1. ASSUME Init PROVE TypeInv
  <2>1. <<>> \in Seq(Req) /\ MaxTotal \in Int /\ 0 \in 0..MaxWaitTokens
    BY EmptySeq, SplitFuseAssumption
  <2>2. BasicTypes
    BY <1>1, <2>1 DEF Init, BasicTypes, ReqStatus, FinishStatus
  <2>3. ControlInv
    BY <1>1 DEF Init, ControlInv, Paused
  <2>4. QED
    BY <2>2, <2>3 DEF TypeInv
<1>2. QED
  BY <1>1

\* What a forward does with the finish status is a finish status.
LEMMA FinishAfterType ==
  ASSUME NEW r, NEW stopped PROVE FinishAfter(r, stopped) \in FinishStatus
BY DEF FinishAfter, FinishStatus

LEMMA AddReqType ==
  ASSUME TypeInv, NEW r \in Req, AddReq(r) PROVE TypeInv'
<1> USE DEF AddReq, TypeInv, batchVars
<1>1. waiting_req_list' \in Seq(Req)
  BY AppendProperties DEF BasicTypes
<1>2. req_status' \in [Req -> ReqStatus]
  BY DEF BasicTypes, ReqStatus
<1>3. BasicTypes'
  BY <1>1, <1>2 DEF BasicTypes
<1>4. Paused' \subseteq Paused
  BY DEF Paused, BasicTypes
<1>5. ControlInv'
  BY <1>4 DEF ControlInv
<1>6. QED
  BY <1>3, <1>5

LEMMA AbortType ==
  ASSUME TypeInv, NEW r \in Req, Abort(r) PROVE TypeInv'
<1> USE DEF Abort, TypeInv, batchVars
<1>1. finish_status' \in [Req -> FinishStatus]
  BY DEF BasicTypes, FinishStatus
<1>2. BasicTypes'
  BY <1>1 DEF BasicTypes
<1>3. ControlInv'
  BY DEF ControlInv, Paused
<1>4. QED
  BY <1>2, <1>3

LEMMA StepNewBatchType ==
  ASSUME TypeInv, StepNewBatch PROVE TypeInv'
<1> USE DEF StepNewBatch, TypeInv, reqVars
<1>1. PICK n \in 1..Len(waiting_req_list) : running' = Scanned(n) /\ TakeFromQueue(n)
  OBVIOUS
<1>2. waiting_req_list' \in Seq(Req) /\ running' \in SUBSET Req
  BY <1>1, TakenQueue, ScannedRequests
<1>3. BasicTypes'
  BY <1>2 DEF BasicTypes
<1>4. ControlInv'
  BY DEF ControlInv, Paused
<1>5. QED
  BY <1>3, <1>4

LEMMA StepMiniBatchType ==
  ASSUME TypeInv, StepMiniBatch PROVE TypeInv'
<1> USE DEF StepMiniBatch, TypeInv, reqVars
<1>1. PICK n \in 1..Len(waiting_req_list) : mini' = Scanned(n) /\ TakeFromQueue(n)
  OBVIOUS
<1>2. waiting_req_list' \in Seq(Req) /\ mini' \in SUBSET Req
  BY <1>1, TakenQueue, ScannedRequests
<1>6. has_wait_tokens' = 0 /\ 0 \in 0..MaxWaitTokens /\ at' = "init" /\ on' = "mini"
  BY SplitFuseAssumption
<1>3. BasicTypes'
  BY <1>2, <1>6 DEF BasicTypes
<1>4. ControlInv'
  <2>1. Paused' = Paused /\ Paused = {}
    BY DEF ControlInv, Paused
  <2>2. running # {} /\ finished' = {}
    BY DEF ControlInv
  <2> QED
    BY <1>6, <2>1, <2>2 DEF ControlInv
<1>5. QED
  BY <1>3, <1>4

\* The decode phase is entered with the counter below its limit.
LEMMA DecodePhaseType ==
  ASSUME TypeInv, DecodePhase
  PROVE  has_wait_tokens' \in 0..MaxWaitTokens /\ has_wait_tokens' < MaxWaitTokens
BY SplitFuseAssumption DEF DecodePhase, TypeInv, BasicTypes

LEMMA StepDecodeType ==
  ASSUME TypeInv, StepDecode PROVE TypeInv'
<1> USE DEF StepDecode, TypeInv, reqVars, batchVars
<1>1. has_wait_tokens' \in 0..MaxWaitTokens /\ has_wait_tokens' < MaxWaitTokens
  BY DecodePhaseType
<1>2. BasicTypes'
  BY <1>1 DEF BasicTypes
<1>3. ControlInv'
  BY <1>1 DEF ControlInv, Paused, DecodePhase
<1>4. QED
  BY <1>2, <1>3

LEMMA StepPauseType ==
  ASSUME TypeInv, StepPause PROVE TypeInv'
<1> USE DEF StepPause, TypeInv
<1>1. has_wait_tokens' \in 0..MaxWaitTokens /\ running # {} /\ at = "step"
  BY DecodePhaseType DEF DecodePhase
<1>2. /\ Max(running) \in Req
      /\ <<Max(running)>> \o waiting_req_list \in Seq(Req)
  BY <1>1, PausedRequest
<1>3. PICK m \in Req :
        /\ waiting_req_list' \in Seq(Req)
        /\ running' = running \ {m} /\ running_need' = running_need - NextTokens[m]
        /\ req_status' = [req_status EXCEPT ![m] = "PAUSED_AND_OFFLOAD"]
  BY <1>2
<1>4. NextTokens[m] \in Int
  BY LengthTypes
<1>5. running' \in SUBSET Req /\ running_need' \in Int
      /\ req_status' \in [Req -> ReqStatus]
  BY <1>3, <1>4 DEF BasicTypes, ReqStatus
<1>6. BasicTypes'
  BY <1>1, <1>3, <1>5 DEF BasicTypes
<1>7. ControlInv'
  BY <1>1 DEF ControlInv
<1>8. QED
  BY <1>6, <1>7

LEMMA InitBatchType ==
  ASSUME TypeInv, InitBatch PROVE TypeInv'
<1> USE DEF InitBatch, TypeInv
<1>1. Total(mini, NextTokens) \in Int /\ Total(running, NextTokens) \in Int
  BY LengthTypes DEF BasicTypes
<1>2. req_status' \in [Req -> ReqStatus] /\ Paused' \subseteq Paused
  BY DEF BasicTypes, ReqStatus, Paused
<1>3. CASE on = "mini"
  <2>1. mini_need' = Total(mini, NextTokens) /\ at' = "merge"
        /\ UNCHANGED <<running_need, has_wait_tokens>>
    BY <1>3
  <2>2. BasicTypes'
    BY <1>1, <1>2, <2>1 DEF BasicTypes
  <2>3. ControlInv'
    BY <1>2, <1>3, <2>1 DEF ControlInv
  <2>4. QED
    BY <2>2, <2>3
<1>4. CASE on # "mini"
  <2>1. running_need' = Total(running, NextTokens) /\ at' = "step"
        /\ has_wait_tokens' = 0 /\ mini_need' = mini_need
    BY <1>4
  <2>2. 0 \in 0..MaxWaitTokens
    BY SplitFuseAssumption
  <2>3. BasicTypes'
    BY <1>1, <1>2, <2>1, <2>2 DEF BasicTypes
  <2>4. ControlInv'
    BY <1>2, <1>4, <2>1 DEF ControlInv
  <2>5. QED
    BY <2>3, <2>4
<1>5. QED
  BY <1>3, <1>4

LEMMA MergeBatchType ==
  ASSUME TypeInv, MergeBatch PROVE TypeInv'
<1> USE DEF MergeBatch, MergedNeed, TypeInv, reqVars
<1>1. BasicTypes'
  BY DEF BasicTypes
<1>2. ControlInv'
  BY DEF ControlInv, Paused
<1>3. QED
  BY <1>1, <1>2

LEMMA DecodeBatchType ==
  ASSUME TypeInv, DecodeBatch PROVE TypeInv'
<1> USE DEF TypeInv
<1>1. PICK stopped \in SUBSET {r \in running : EndsInToken(r)} :
        finish_status' = [r \in Req |-> IF r \in running THEN FinishAfter(r, stopped)
                                                         ELSE finish_status[r]]
  BY DEF DecodeBatch
<1>2. finish_status' \in [Req -> FinishStatus]
  BY <1>1, FinishAfterType DEF BasicTypes
<1>3. \A r \in Req : NextTokens[r] \in Int
  BY LengthTypes
<1>4. cur_kv_len' \in [Req -> Int] /\ cur_output_len' \in [Req -> Int]
  BY <1>3 DEF DecodeBatch, BasicTypes
<1>5. running' \in SUBSET Req /\ finished' \in SUBSET Req
  BY DEF DecodeBatch, BasicTypes
<1>6. can_use_mem_size' \in Int
  <2>1. Total(running, NextTokens) \in Int
    BY LengthTypes DEF BasicTypes
  <2>2. QED
    BY <2>1 DEF DecodeBatch, BasicTypes
<1>7. /\ at' \in {"step", "finish"} /\ (finished' # {} => at' = "finish")
      /\ has_wait_tokens' \in 0..MaxWaitTokens
      /\ at' = "finish" => has_wait_tokens' < MaxWaitTokens
  <2>1. has_wait_tokens \in 0..MaxWaitTokens /\ has_wait_tokens < MaxWaitTokens
        /\ MaxWaitTokens \in Nat
    BY SplitFuseAssumption DEF DecodeBatch, BasicTypes, ControlInv
  <2>2. \/ finished' = {} /\ at' = "step" /\ has_wait_tokens' = has_wait_tokens + 1
        \/ at' = "finish" /\ has_wait_tokens' = has_wait_tokens
    BY DEF DecodeBatch
  <2>3. QED
    BY <2>1, <2>2
<1>8. running_need' \in Int
  <2>1. running_need' = Total(running', NextTokens')
    BY DEF DecodeBatch, NeedAfter, Total
  <2>2. SeqLen' = [r \in Req |-> InputLen[r] + cur_output_len'[r]]
        /\ NextTokens' = [r \in Req |-> Min({SeqLen'[r] - cur_kv_len'[r], Block})]
    BY DEF SeqLen, NextTokens
  <2>3. NextTokens' \in [Req -> Int]
    <3>1. \A r \in Req : SeqLen'[r] - cur_kv_len'[r] \in Int
      BY <1>4, <2>2, SplitFuseAssumption
    <3>2. ASSUME NEW r \in Req PROVE Min({SeqLen'[r] - cur_kv_len'[r], Block}) \in Int
      <4>1. PICK d \in Int : d = SeqLen'[r] - cur_kv_len'[r]
        BY <3>1
      <4>2. Block \in Int
        BY SplitFuseAssumption
      <4>3. Min({d, Block}) \in Int
        BY <4>2, MinOfTwo
      <4>4. QED
        BY <4>1, <4>3
    <3>3. QED
      BY <2>2, <3>2
  <2>4. QED
    BY <1>5, <2>1, <2>3, TotalType
<1>9. BasicTypes'
  BY <1>2, <1>4, <1>5, <1>6, <1>7, <1>8 DEF DecodeBatch, BasicTypes
<1>10. ControlInv'
  BY <1>7 DEF DecodeBatch, ControlInv, Paused
<1>11. QED
  BY <1>9, <1>10

LEMMA FreeFinishedType ==
  ASSUME TypeInv, FreeFinished PROVE TypeInv'
<1> USE DEF FreeFinished, TypeInv
<1>1. can_use_mem_size' \in Int
  BY LengthTypes DEF BasicTypes, FreedTokens
<1>2. cur_kv_len' \in [Req -> Int]
  BY DEF BasicTypes
<1>3. has_wait_tokens' \in 0..MaxWaitTokens
  BY SplitFuseAssumption DEF BasicTypes, ControlInv
<1>4. BasicTypes'
  BY <1>1, <1>2, <1>3 DEF BasicTypes
<1>5. ControlInv'
  BY DEF ControlInv, Paused
<1>6. QED
  BY <1>4, <1>5

LEMMA NextType == ASSUME TypeInv, [Next]_vars PROVE TypeInv'
<1>1. ASSUME NEW r \in Req, AddReq(r) \/ Abort(r) PROVE TypeInv'
  BY <1>1, AddReqType, AbortType
<1>2. CASE UNCHANGED vars
  BY <1>2 DEF vars, reqVars, batchVars, TypeInv, BasicTypes, ControlInv, Paused
<1>3. CASE Fwd
  BY <1>3, StepNewBatchType, StepMiniBatchType, StepDecodeType, StepPauseType, InitBatchType,
     MergeBatchType, DecodeBatchType, FreeFinishedType DEF Fwd
<1>4. QED
  BY <1>1, <1>2, <1>3 DEF Next, NetIO

-----------------------------------------------------------------------------
(***************************************************************************)
(* A request is in one place                                               *)
(***************************************************************************)
QueueDistinct ==
  \A i, j \in 1..Len(waiting_req_list) : waiting_req_list[i] = waiting_req_list[j] => i = j

Batched == running \cup mini \cup finished

OwnerInv ==
  /\ OwnedOnce
  /\ \A r \in Req : req_status[r] = "NOT_SENT" => ~InQueue(r) /\ r \notin Batched

\* A batch taken from the queue has left it, and was nowhere else.
LEMMA TakenRequests ==
  ASSUME TypeInv, OwnerInv, NEW n \in 1..Len(waiting_req_list), TakeFromQueue(n)
  PROVE  /\ QueueDistinct'
         /\ \A r \in Req : InQueue(r)' => InQueue(r) /\ r \notin Scanned(n)
         /\ \A r \in Scanned(n) : r \in Req /\ InQueue(r) /\ r \notin Batched
<1> DEFINE s == waiting_req_list
<1>1. /\ s \in Seq(Req) /\ Len(s) \in Nat /\ Len(s') = Len(s) - n
      /\ \A i \in 1..Len(s') : s'[i] = s[n + i] /\ n + i \in 1..Len(s)
      /\ \A i, j \in 1..Len(s) : s[i] = s[j] => i = j
  <2>1. Len(s') = Len(s) - n /\ \A i \in 1..Len(s') : s'[i] = s[n + i]
    BY TakenQueue DEF TypeInv
  <2>2. s \in Seq(Req) /\ Len(s) \in Nat
    BY DEF TypeInv, BasicTypes
  <2>3. \A i, j \in 1..Len(s) : s[i] = s[j] => i = j
    BY DEF OwnerInv, OwnedOnce
  <2>4. \A i \in 1..Len(s') : n + i \in 1..Len(s)
    BY <2>1, <2>2
  <2>5. QED
    BY <2>1, <2>2, <2>3, <2>4
<1>2. \A r \in Scanned(n) : r \in Req /\ \E i \in 1..n : s[i] = r
  BY ScannedRequests DEF TypeInv
<1> HIDE DEF s
<1>3. QueueDistinct'
  <2>1. \A i, j \in 1..Len(s') : s'[i] = s'[j] => i = j
    <3> SUFFICES ASSUME NEW i \in 1..Len(s'), NEW j \in 1..Len(s'), s'[i] = s'[j]
                 PROVE  i = j
      OBVIOUS
    <3>1. s[n + i] = s[n + j] /\ n + i \in 1..Len(s) /\ n + j \in 1..Len(s)
      BY <1>1
    <3>2. n + i = n + j
      BY <1>1, <3>1
    <3>3. QED
      BY <1>1, <3>2
  <2>2. QED
    BY <2>1 DEF s, QueueDistinct
<1>4. ASSUME NEW r \in Req, InQueue(r)' PROVE InQueue(r) /\ r \notin Scanned(n)
  <2>1. PICK i \in 1..Len(s') : s'[i] = r
    BY <1>4 DEF InQueue, s
  <2>2. s[n + i] = r /\ n + i \in 1..Len(s)
    BY <1>1, <2>1
  <2>3. ASSUME r \in Scanned(n) PROVE FALSE
    <3>1. PICK j \in 1..n : s[j] = r
      BY <1>2, <2>3
    <3>2. j \in 1..Len(s)
      BY <1>1
    <3>3. j = n + i
      BY <1>1, <2>2, <3>1, <3>2
    <3>4. QED
      BY <1>1, <3>3
  <2>4. QED
    BY <2>2, <2>3 DEF InQueue, s
<1>5. ASSUME NEW r \in Scanned(n) PROVE r \in Req /\ InQueue(r) /\ r \notin Batched
  <2>1. PICK j \in 1..n : s[j] = r
    BY <1>2
  <2>2. j \in 1..Len(s)
    BY <1>1
  <2>3. InQueue(r) /\ r \in Req
    BY <1>2, <2>1, <2>2 DEF InQueue, s
  <2>4. QED
    BY <2>3 DEF OwnerInv, OwnedOnce, Batched
<1>6. QED
  BY <1>3, <1>4, <1>5

LEMMA AddReqOwner ==
  ASSUME TypeInv, OwnerInv, NEW r \in Req, AddReq(r) PROVE OwnerInv'
<1> DEFINE s == waiting_req_list
<1>1. s \in Seq(Req) /\ s' = Append(s, r) /\ req_status \in [Req -> ReqStatus]
  BY DEF AddReq, TypeInv, BasicTypes
<1>2. Len(s') = Len(s) + 1 /\ Len(s) \in Nat /\ s'[Len(s) + 1] = r
      /\ \A i \in 1..Len(s) : s'[i] = s[i]
  BY <1>1, AppendProperties
<1>3. \A i, j \in 1..Len(s) : s[i] = s[j] => i = j
  BY DEF OwnerInv, OwnedOnce
<1>4. ~InQueue(r) /\ r \notin Batched /\ req_status[r] = "NOT_SENT"
  BY DEF AddReq, OwnerInv
<1>5. \A i \in 1..Len(s) : s[i] # r
  BY <1>4 DEF InQueue
<1>6. Batched' = Batched /\ running' = running /\ mini' = mini /\ finished' = finished
  BY DEF AddReq, Batched, batchVars
<1> HIDE DEF s
<1>7. \A i, j \in 1..Len(s') : s'[i] = s'[j] => i = j
  <2> SUFFICES ASSUME NEW i \in 1..Len(s'), NEW j \in 1..Len(s'), s'[i] = s'[j], i # j
               PROVE  FALSE
    OBVIOUS
  <2>1. CASE i \in 1..Len(s) /\ j \in 1..Len(s)
    BY <1>2, <1>3, <2>1
  <2>2. CASE i = Len(s) + 1 /\ j \in 1..Len(s)
    BY <1>2, <1>5, <2>2
  <2>3. CASE j = Len(s) + 1 /\ i \in 1..Len(s)
    BY <1>2, <1>5, <2>3
  <2>4. QED
    BY <1>2, <2>1, <2>2, <2>3
<1>8. \A q \in Req : InQueue(q)' => InQueue(q) \/ q = r
  <2> SUFFICES ASSUME NEW q \in Req, InQueue(q)' PROVE InQueue(q) \/ q = r
    OBVIOUS
  <2>1. PICK i \in 1..Len(s') : s'[i] = q
    BY DEF InQueue, s
  <2>2. CASE i \in 1..Len(s)
    BY <1>2, <2>1, <2>2 DEF InQueue, s
  <2>3. CASE i = Len(s) + 1
    BY <1>2, <2>1, <2>3
  <2>4. QED
    BY <1>2, <2>2, <2>3
<1>9. OwnedOnce'
  <2>1. \A q \in Req : InQueue(q)' => q \notin Batched
    BY <1>4, <1>8 DEF OwnerInv, OwnedOnce, Batched
  <2>2. running \cap mini = {} /\ (running \cup mini) \cap finished = {}
    BY DEF OwnerInv, OwnedOnce
  <2>3. QED
    BY <1>6, <1>7, <2>1, <2>2 DEF OwnedOnce, Batched, s
<1>10. \A q \in Req : req_status'[q] = "NOT_SENT" => ~InQueue(q)' /\ q \notin Batched'
  <2>1. \A q \in Req : req_status'[q] = "NOT_SENT" => req_status[q] = "NOT_SENT" /\ q # r
    BY <1>1 DEF AddReq
  <2>2. QED
    BY <1>6, <1>8, <2>1 DEF OwnerInv
<1>11. QED
  BY <1>9, <1>10 DEF OwnerInv

\* The steps that leave the queue alone.
LEMMA SameQueueOwner ==
  ASSUME TypeInv, OwnerInv, waiting_req_list' = waiting_req_list,
         Batched' \subseteq Batched,
         running' \cap mini' = {}, (running' \cup mini') \cap finished' = {},
         \A r \in Req : req_status'[r] = "NOT_SENT" => req_status[r] = "NOT_SENT"
  PROVE  OwnerInv'
<1>1. \A r \in Req : InQueue(r)' <=> InQueue(r)
  BY DEF InQueue
<1>2. OwnedOnce'
  BY <1>1 DEF OwnerInv, OwnedOnce, Batched
<1>3. QED
  BY <1>1, <1>2 DEF OwnerInv

LEMMA AbortOwner ==
  ASSUME TypeInv, OwnerInv, NEW r \in Req, Abort(r) PROVE OwnerInv'
<1>1. Batched' = Batched /\ running' = running /\ mini' = mini /\ finished' = finished
      /\ waiting_req_list' = waiting_req_list /\ req_status' = req_status
  BY DEF Abort, Batched, batchVars
<1>2. running' \cap mini' = {} /\ (running' \cup mini') \cap finished' = {}
  BY <1>1 DEF OwnerInv, OwnedOnce
<1>3. QED
  BY <1>1, <1>2, SameQueueOwner

\* The steps that take a batch from the queue.
LEMMA TakeOwner ==
  ASSUME TypeInv, OwnerInv, NEW n \in 1..Len(waiting_req_list), TakeFromQueue(n),
         finished' = finished, req_status' = req_status,
         \/ running = {} /\ running' = Scanned(n) /\ mini' = mini
         \/ mini = {} /\ running' = running /\ mini' = Scanned(n)
  PROVE  OwnerInv'
<1>1. /\ QueueDistinct'
      /\ \A r \in Req : InQueue(r)' => InQueue(r) /\ r \notin Scanned(n)
      /\ \A r \in Scanned(n) : r \in Req /\ InQueue(r) /\ r \notin Batched
  BY TakenRequests
<1>2. Batched' = Batched \cup Scanned(n)
  BY DEF Batched
<1>3. \A r \in Req : InQueue(r)' => r \notin Batched'
  BY <1>1, <1>2 DEF OwnerInv, OwnedOnce, Batched
<1>4. running' \cap mini' = {} /\ (running' \cup mini') \cap finished' = {}
  BY <1>1 DEF OwnerInv, OwnedOnce, Batched
<1>5. OwnedOnce'
  BY <1>1, <1>3, <1>4 DEF OwnedOnce, QueueDistinct, Batched
<1>6. \A r \in Req : req_status'[r] = "NOT_SENT" => ~InQueue(r)' /\ r \notin Batched'
  BY <1>1, <1>2 DEF OwnerInv
<1>7. QED
  BY <1>5, <1>6 DEF OwnerInv

LEMMA StepPauseOwner ==
  ASSUME TypeInv, OwnerInv, StepPause PROVE OwnerInv'
<1> DEFINE s == waiting_req_list
<1>1. running # {}
  BY DEF StepPause, DecodePhase
<1>2. PICK m \in running :
        /\ m \in Req /\ running' = running \ {m} /\ s' = <<m>> \o s
        /\ req_status' = [req_status EXCEPT ![m] = "PAUSED_AND_OFFLOAD"]
        /\ Len(s') = Len(s) + 1 /\ s'[1] = m
        /\ \A i \in 1..Len(s) : s'[i + 1] = s[i]
  BY <1>1, PausedRequest DEF StepPause
<1>3. s \in Seq(Req) /\ Len(s) \in Nat /\ req_status \in [Req -> ReqStatus]
  BY DEF TypeInv, BasicTypes
<1>4. \A i, j \in 1..Len(s) : s[i] = s[j] => i = j
  BY DEF OwnerInv, OwnedOnce
<1>5. ~InQueue(m) /\ m \notin mini /\ m \notin finished
  BY <1>2 DEF OwnerInv, OwnedOnce
<1>6. \A i \in 1..Len(s) : s[i] # m
  BY <1>5 DEF InQueue
<1>7. mini' = mini /\ finished' = finished
  BY DEF StepPause
<1> HIDE DEF s
<1>8. \A i \in 1..Len(s') : i = 1 \/ (i - 1 \in 1..Len(s) /\ s'[i] = s[i - 1])
  <2> SUFFICES ASSUME NEW i \in 1..Len(s'), i # 1
               PROVE  i - 1 \in 1..Len(s) /\ s'[i] = s[i - 1]
    OBVIOUS
  <2>1. i - 1 \in 1..Len(s) /\ (i - 1) + 1 = i
    BY <1>2, <1>3
  <2>2. QED
    BY <1>2, <2>1
<1>9. \A i, j \in 1..Len(s') : s'[i] = s'[j] => i = j
  <2> SUFFICES ASSUME NEW i \in 1..Len(s'), NEW j \in 1..Len(s'), s'[i] = s'[j], i # j
               PROVE  FALSE
    OBVIOUS
  <2>1. CASE i # 1 /\ j # 1
    <3>1. i - 1 = j - 1
      BY <1>4, <1>8, <2>1
    <3>2. QED
      BY <1>2, <1>3, <3>1
  <2>2. CASE i = 1 /\ j # 1
    BY <1>2, <1>6, <1>8, <2>2
  <2>3. CASE j = 1 /\ i # 1
    BY <1>2, <1>6, <1>8, <2>3
  <2>4. QED
    BY <2>1, <2>2, <2>3
<1>10. \A q \in Req : InQueue(q)' => InQueue(q) \/ q = m
  <2> SUFFICES ASSUME NEW q \in Req, InQueue(q)' PROVE InQueue(q) \/ q = m
    OBVIOUS
  <2>1. PICK i \in 1..Len(s') : s'[i] = q
    BY DEF InQueue, s
  <2>2. QED
    BY <1>2, <1>8, <2>1 DEF InQueue, s
<1>11. OwnedOnce'
  <2>1. \A q \in Req : InQueue(q)' => q \notin Batched'
    BY <1>2, <1>5, <1>7, <1>10 DEF OwnerInv, OwnedOnce, Batched
  <2>2. running' \cap mini' = {} /\ (running' \cup mini') \cap finished' = {}
    BY <1>2, <1>7 DEF OwnerInv, OwnedOnce
  <2>3. QED
    BY <1>9, <2>1, <2>2 DEF OwnedOnce, Batched, s
<1>12. \A q \in Req : req_status'[q] = "NOT_SENT" => ~InQueue(q)' /\ q \notin Batched'
  <2>1. \A q \in Req : req_status'[q] = "NOT_SENT" => req_status[q] = "NOT_SENT" /\ q # m
    BY <1>2, <1>3
  <2>2. Batched' \subseteq Batched
    BY <1>2, <1>7 DEF Batched
  <2>3. QED
    BY <1>10, <2>1, <2>2 DEF OwnerInv
<1>13. QED
  BY <1>11, <1>12 DEF OwnerInv

LEMMA FwdOwner ==
  ASSUME TypeInv, OwnerInv, Fwd PROVE OwnerInv'
<1>1. CASE StepNewBatch
  <2>1. PICK n \in 1..Len(waiting_req_list) : running' = Scanned(n) /\ TakeFromQueue(n)
    BY <1>1 DEF StepNewBatch
  <2>2. running = {} /\ mini' = mini /\ finished' = finished /\ req_status' = req_status
    BY <1>1 DEF StepNewBatch, reqVars
  <2>3. QED
    BY <2>1, <2>2, TakeOwner
<1>2. CASE StepMiniBatch
  <2>1. PICK n \in 1..Len(waiting_req_list) : mini' = Scanned(n) /\ TakeFromQueue(n)
    BY <1>2 DEF StepMiniBatch
  <2>2. mini = {} /\ running' = running /\ finished' = finished /\ req_status' = req_status
    BY <1>2 DEF StepMiniBatch, reqVars, TypeInv, ControlInv
  <2>3. QED
    BY <2>1, <2>2, TakeOwner
<1>3. CASE StepPause
  BY <1>3, StepPauseOwner
<1>4. CASE StepDecode \/ InitBatch \/ MergeBatch \/ DecodeBatch \/ FreeFinished
  <2> USE <1>4 DEF StepDecode, InitBatch, MergeBatch, DecodeBatch, FreeFinished, reqVars, batchVars
  <2>1. waiting_req_list' = waiting_req_list
    OBVIOUS
  <2>2. Batched' \subseteq Batched
    BY DEF Batched
  <2>3. running \cap mini = {} /\ (running \cup mini) \cap finished = {}
    BY DEF OwnerInv, OwnedOnce
  <2>4. running' \cap mini' = {} /\ (running' \cup mini') \cap finished' = {}
    <3>1. CASE DecodeBatch
      <4>1. mini = {}
        BY <3>1 DEF TypeInv, ControlInv
      <4>2. QED
        BY <3>1, <4>1
    <3>2. CASE ~DecodeBatch
      BY <2>3, <3>2
    <3>3. QED
      BY <3>1, <3>2
  <2>5. \A r \in Req : req_status'[r] = "NOT_SENT" => req_status[r] = "NOT_SENT"
    BY DEF TypeInv, BasicTypes
  <2>6. QED
    BY <2>1, <2>2, <2>4, <2>5, SameQueueOwner
<1>5. QED
  BY <1>1, <1>2, <1>3, <1>4 DEF Fwd

LEMMA InitOwner == Init => OwnerInv
<1>1. ASSUME Init PROVE OwnerInv
  <2>1. Len(waiting_req_list) = 0 /\ \A r : ~InQueue(r)
    BY <1>1, EmptySeq DEF Init, InQueue
  <2>2. Batched = {} /\ running = {} /\ mini = {} /\ finished = {}
    BY <1>1 DEF Init, Batched
  <2>3. QED
    BY <2>1, <2>2 DEF OwnerInv, OwnedOnce
<1>2. QED
  BY <1>1

LEMMA NextOwner == ASSUME TypeInv, OwnerInv, [Next]_vars PROVE OwnerInv'
<1>1. ASSUME NEW r \in Req, AddReq(r) \/ Abort(r) PROVE OwnerInv'
  BY <1>1, AddReqOwner, AbortOwner
<1>2. CASE UNCHANGED vars
  BY <1>2 DEF vars, reqVars, batchVars, OwnerInv, OwnedOnce, InQueue, Batched
<1>3. CASE Fwd
  BY <1>3, FwdOwner
<1>4. QED
  BY <1>1, <1>2, <1>3 DEF Next, NetIO

-----------------------------------------------------------------------------
(***************************************************************************)
(* Lengths and blocks                                                      *)
(***************************************************************************)
Unstarted(r) == req_status[r] = "NOT_SENT" \/ (InQueue(r) /\ at # "dead")

LengthInv ==
  /\ \A r \in Req : Unstarted(r) => cur_kv_len[r] = 0 /\ cur_output_len[r] = 0
  /\ \A r \in Req : /\ cur_kv_len[r] >= 0 /\ cur_kv_len[r] <= SeqLen[r]
                    /\ cur_output_len[r] \in 0..MaxNew[r]
  /\ \A r \in running \cup mini : cur_output_len[r] < MaxNew[r]
  /\ BlocksInOrder

\* What a forward does to the lengths: a request that has no more than a block to come
\* makes a token, one that has more is still in its prompt and takes a block of it.
LEMMA Forward ==
  ASSUME TypeInv, LengthInv, DecodeBatch
  PROVE  /\ \A r \in Req \ running : /\ cur_kv_len'[r] = cur_kv_len[r]
                                     /\ cur_output_len'[r] = cur_output_len[r]
                                     /\ SeqLen'[r] = SeqLen[r]
                                     /\ NextTokens'[r] = NextTokens[r]
         /\ \A r \in running :
              /\ NextTokens[r] \in 1..Block
              /\ cur_kv_len'[r] = cur_kv_len[r] + NextTokens[r]
              /\ \/ /\ NextTokens[r] = SeqLen[r] - cur_kv_len[r]
                    /\ cur_output_len'[r] = cur_output_len[r] + 1
                    /\ SeqLen'[r] = SeqLen[r] + 1 /\ NextTokens'[r] = 1
                    /\ r \in running' => cur_output_len'[r] < MaxNew[r]
                 \/ /\ NextTokens[r] = Block /\ cur_kv_len[r] + Block < SeqLen[r]
                    /\ cur_output_len[r] = 0 /\ cur_output_len'[r] = 0
                    /\ SeqLen'[r] = SeqLen[r] /\ NextTokens'[r] \in 1..Block
         /\ running' \subseteq running /\ finished' = running \ running'
         /\ mini = {} /\ mini' = {} /\ finished = {}
<1>1. BasicTypes /\ BasicTypes'
  BY NextType DEF Next, Fwd, TypeInv
<1>2. \A r \in Req : /\ SeqLen[r] = InputLen[r] + cur_output_len[r]
                     /\ NextTokens[r] = IF SeqLen[r] - cur_kv_len[r] <= Block
                                        THEN SeqLen[r] - cur_kv_len[r] ELSE Block
  BY <1>1, LengthTypes
<1>3. \A r \in Req : /\ SeqLen'[r] = InputLen[r] + cur_output_len'[r]
                     /\ NextTokens'[r] = IF SeqLen'[r] - cur_kv_len'[r] <= Block
                                         THEN SeqLen'[r] - cur_kv_len'[r] ELSE Block
  BY <1>1, NextLengthTypes
<1>4. \A r \in Req : /\ InputLen[r] \in Nat /\ MaxNew[r] \in Nat
                     /\ cur_kv_len[r] \in Int /\ cur_output_len[r] \in Int
  BY <1>1, SplitFuseAssumption DEF BasicTypes
<1>5. /\ \A r \in Req \ running : /\ cur_kv_len'[r] = cur_kv_len[r]
                                  /\ cur_output_len'[r] = cur_output_len[r]
      /\ \A r \in running : /\ cur_kv_len'[r] = cur_kv_len[r] + NextTokens[r]
                            /\ cur_output_len'[r] = IF EndsInToken(r)
                                                    THEN cur_output_len[r] + 1
                                                    ELSE cur_output_len[r]
      /\ running \subseteq Req
  BY <1>1 DEF DecodeBatch, BasicTypes
<1>6. mini = {} /\ mini' = {} /\ finished = {}
  BY DEF DecodeBatch, TypeInv, ControlInv
<1>7. /\ running' \subseteq running /\ finished' = running \ running'
      /\ \A r \in running' : finish_status'[r] = "NO_FINISH"
  BY DEF DecodeBatch
<1>8. \A r \in running' : EndsInToken(r) => cur_output_len[r] + 1 < MaxNew[r]
  <2>1. PICK stopped \in SUBSET {r \in running : EndsInToken(r)} :
          finish_status' = [r \in Req |-> IF r \in running THEN FinishAfter(r, stopped)
                                                           ELSE finish_status[r]]
    BY DEF DecodeBatch
  <2>2. ASSUME NEW r \in running', EndsInToken(r) PROVE cur_output_len[r] + 1 < MaxNew[r]
    <3>1. r \in running /\ r \in Req
      BY <1>5, <1>7
    <3>2. FinishAfter(r, stopped) = "NO_FINISH"
      BY <1>7, <2>1, <3>1
    <3>3. ~(cur_output_len[r] + 1 >= MaxNew[r])
      BY <2>2, <3>2 DEF FinishAfter
    <3>4. QED
      BY <1>4, <3>1, <3>3
  <2>3. QED
    BY <2>2
<1>9. ASSUME NEW r \in running
      PROVE  /\ NextTokens[r] \in 1..Block
             /\ cur_kv_len'[r] = cur_kv_len[r] + NextTokens[r]
             /\ \/ /\ NextTokens[r] = SeqLen[r] - cur_kv_len[r]
                   /\ cur_output_len'[r] = cur_output_len[r] + 1
                   /\ SeqLen'[r] = SeqLen[r] + 1 /\ NextTokens'[r] = 1
                   /\ r \in running' => cur_output_len'[r] < MaxNew[r]
                \/ /\ NextTokens[r] = Block /\ cur_kv_len[r] + Block < SeqLen[r]
                   /\ cur_output_len[r] = 0 /\ cur_output_len'[r] = 0
                   /\ SeqLen'[r] = SeqLen[r] /\ NextTokens'[r] \in 1..Block
  <2>1. r \in Req /\ Block \in Nat \ {0} /\ cur_kv_len[r] \in Int /\ InputLen[r] \in Nat
        /\ cur_output_len[r] \in Int /\ SeqLen[r] \in Int /\ MaxNew[r] \in Nat
    <3>1. r \in Req /\ Block \in Nat \ {0}
      BY <1>5, SplitFuseAssumption
    <3>2. SeqLen[r] \in Int
      BY <1>2, <1>4, <3>1
    <3>3. QED
      BY <1>4, <3>1, <3>2
  <2>2. /\ cur_kv_len[r] < SeqLen[r] /\ cur_output_len[r] >= 0
        /\ cur_output_len[r] > 0 => cur_kv_len[r] = SeqLen[r] - 1
    BY <2>1 DEF LengthInv, BlocksInOrder
  <2>3. CASE SeqLen[r] - cur_kv_len[r] <= Block
    <3>1. NextTokens[r] = SeqLen[r] - cur_kv_len[r]
      BY <1>2, <2>1, <2>3
    <3>2. EndsInToken(r)
      BY <2>1, <3>1 DEF EndsInToken
    <3>3. cur_output_len'[r] = cur_output_len[r] + 1 /\ cur_kv_len'[r] = SeqLen[r]
      BY <1>5, <2>1, <3>1, <3>2
    <3>4. SeqLen'[r] = SeqLen[r] + 1
      BY <1>2, <1>3, <2>1, <3>3
    <3>5. NextTokens'[r] = 1
      BY <1>3, <2>1, <3>3, <3>4
    <3>6. r \in running' => cur_output_len'[r] < MaxNew[r]
      BY <1>8, <3>2, <3>3
    <3>7. QED
      BY <1>5, <2>1, <2>2, <2>3, <3>1, <3>3, <3>4, <3>5, <3>6
  <2>4. CASE SeqLen[r] - cur_kv_len[r] > Block
    <3>1. NextTokens[r] = Block
      BY <1>2, <2>1, <2>4
    <3>2. ~EndsInToken(r)
      BY <2>1, <2>4, <3>1 DEF EndsInToken
    <3>3. cur_output_len[r] = 0
      BY <2>1, <2>2, <2>4
    <3>4. cur_output_len'[r] = 0 /\ cur_kv_len'[r] = cur_kv_len[r] + Block
      BY <1>5, <3>1, <3>2, <3>3
    <3>5. SeqLen'[r] = SeqLen[r]
      BY <1>2, <1>3, <2>1, <3>3, <3>4
    <3>6. NextTokens'[r] \in 1..Block
      BY <1>3, <2>1, <2>4, <3>4, <3>5
    <3>7. QED
      BY <1>5, <2>1, <2>4, <3>1, <3>3, <3>4, <3>5, <3>6
  <2>5. QED
    BY <2>1, <2>3, <2>4
<1>10. \A r \in Req \ running : SeqLen'[r] = SeqLen[r] /\ NextTokens'[r] = NextTokens[r]
  BY <1>2, <1>3, <1>5
<1>11. QED
  BY <1>5, <1>6, <1>7, <1>9, <1>10

LEMMA DecodeBatchLengths ==
  ASSUME TypeInv, OwnerInv, LengthInv, DecodeBatch PROVE LengthInv'
<1>1. TypeInv'
  BY NextType DEF Next, Fwd
<1>2. \A r \in Req : /\ InputLen[r] \in Nat /\ MaxNew[r] \in Nat
                     /\ cur_kv_len[r] \in Int /\ cur_output_len[r] \in Int
                     /\ SeqLen[r] \in Int
  BY LengthTypes, SplitFuseAssumption DEF TypeInv, BasicTypes
<1>3. running \in SUBSET Req /\ Block \in Nat \ {0}
  BY SplitFuseAssumption DEF TypeInv, BasicTypes
<1>4. ASSUME NEW r \in Req, Unstarted(r)' PROVE cur_kv_len'[r] = 0 /\ cur_output_len'[r] = 0
  <2>1. Unstarted(r)
    BY <1>4 DEF DecodeBatch, Unstarted, InQueue
  <2>2. r \notin running
    BY <2>1 DEF Unstarted, OwnerInv, OwnedOnce, Batched
  <2>3. QED
    BY <2>1, <2>2, Forward DEF LengthInv
<1>5. ASSUME NEW r \in Req
      PROVE  /\ cur_kv_len'[r] >= 0 /\ cur_kv_len'[r] <= SeqLen'[r]
             /\ cur_output_len'[r] \in 0..MaxNew[r]
             /\ r \in running' => /\ cur_output_len'[r] < MaxNew[r]
                                  /\ cur_kv_len'[r] < SeqLen'[r]
                                  /\ IF cur_output_len'[r] > 0
                                     THEN cur_kv_len'[r] = SeqLen'[r] - 1
                                     ELSE cur_kv_len'[r] % Block = 0
  <2>1. /\ cur_kv_len[r] >= 0 /\ cur_kv_len[r] <= SeqLen[r]
        /\ cur_output_len[r] \in 0..MaxNew[r]
    BY DEF LengthInv
  <2>2. CASE r \notin running
    BY <2>1, <2>2, Forward
  <2>3. CASE r \in running
    <3>1. /\ cur_output_len[r] < MaxNew[r] /\ cur_kv_len[r] < SeqLen[r]
          /\ cur_output_len[r] = 0 => cur_kv_len[r] % Block = 0
      BY <1>2, <2>1, <2>3 DEF LengthInv, BlocksInOrder
    <3>2. CASE /\ NextTokens[r] = SeqLen[r] - cur_kv_len[r]
               /\ cur_output_len'[r] = cur_output_len[r] + 1
               /\ SeqLen'[r] = SeqLen[r] + 1
               /\ r \in running' => cur_output_len'[r] < MaxNew[r]
      <4>1. cur_kv_len'[r] = cur_kv_len[r] + NextTokens[r]
        BY <2>3, Forward
      <4>2. QED
        BY <1>2, <2>1, <3>1, <3>2, <4>1
    <3>3. CASE /\ NextTokens[r] = Block /\ cur_kv_len[r] + Block < SeqLen[r]
               /\ cur_output_len[r] = 0 /\ cur_output_len'[r] = 0
               /\ SeqLen'[r] = SeqLen[r]
      <4>1. cur_kv_len'[r] = cur_kv_len[r] + Block
        BY <2>3, <3>3, Forward
      <4>2. (cur_kv_len[r] + Block) % Block = 0
        BY <1>2, <1>3, <3>1, <3>3, OneBlockMore
      <4>3. cur_kv_len'[r] % Block = 0
        BY <4>1, <4>2
      <4>4. QED
        BY <1>2, <1>3, <2>1, <3>1, <3>3, <4>1, <4>3
    <3>4. QED
      BY <2>3, <3>2, <3>3, Forward
  <2>4. QED
    BY <2>2, <2>3, Forward
<1>6. mini' = {} /\ running' \subseteq Req
  BY <1>3, Forward
<1>7. BlocksInOrder'
  BY <1>5, <1>6 DEF BlocksInOrder
<1>8. QED
  BY <1>4, <1>5, <1>6, <1>7 DEF LengthInv

\* The steps that change no length of a request that is waiting or in a batch.
LEMMA SameLengths ==
  ASSUME TypeInv, LengthInv, cur_output_len' = cur_output_len, TypeInv',
         \A r \in Req : \/ cur_kv_len'[r] = cur_kv_len[r]
                        \/ cur_kv_len'[r] = 0 /\ r \notin running' \cup mini',
         \A r \in Req : Unstarted(r)' => Unstarted(r),
         \A r \in running' \cup mini' : r \in running \cup mini \/ Unstarted(r)
  PROVE  LengthInv'
<1>1. \A r \in Req : /\ InputLen[r] \in Nat \ {0} /\ MaxNew[r] \in Nat \ {0}
                     /\ cur_kv_len[r] \in Int /\ cur_output_len[r] \in Int
                     /\ SeqLen[r] = InputLen[r] + cur_output_len[r]
                     /\ SeqLen'[r] = SeqLen[r]
  <2>1. \A r \in Req : SeqLen[r] = InputLen[r] + cur_output_len[r]
    BY LengthTypes DEF TypeInv
  <2>2. SeqLen' = SeqLen
    BY DEF SeqLen
  <2>3. QED
    BY <2>1, <2>2, SplitFuseAssumption DEF TypeInv, BasicTypes
<1>2. running' \cup mini' \subseteq Req /\ Block \in Nat \ {0}
  BY SplitFuseAssumption DEF TypeInv, BasicTypes
<1>3. \A r \in Req : Unstarted(r)' => cur_kv_len'[r] = 0 /\ cur_output_len'[r] = 0
  BY DEF LengthInv
<1>4. \A r \in Req : /\ cur_kv_len'[r] >= 0 /\ cur_kv_len'[r] <= SeqLen'[r]
                     /\ cur_output_len'[r] \in 0..MaxNew[r]
  <2>1. \A r \in Req : /\ cur_kv_len[r] >= 0 /\ cur_kv_len[r] <= SeqLen[r]
                       /\ cur_output_len[r] \in 0..MaxNew[r]
    BY DEF LengthInv
  <2>2. QED
    BY <1>1, <2>1
<1>5. ASSUME NEW r \in running' \cup mini'
      PROVE  /\ cur_output_len'[r] < MaxNew[r] /\ cur_kv_len'[r] < SeqLen'[r]
             /\ IF cur_output_len'[r] > 0 THEN cur_kv_len'[r] = SeqLen'[r] - 1
                                          ELSE cur_kv_len'[r] % Block = 0
  <2>1. r \in Req /\ cur_kv_len'[r] = cur_kv_len[r] /\ SeqLen'[r] = SeqLen[r]
        /\ cur_output_len'[r] = cur_output_len[r]
    BY <1>1, <1>2
  <2>2. CASE r \in running \cup mini
    BY <2>1, <2>2 DEF LengthInv, BlocksInOrder
  <2>3. CASE Unstarted(r)
    <3>1. cur_kv_len[r] = 0 /\ cur_output_len[r] = 0
      BY <2>1, <2>3 DEF LengthInv
    <3>2. 0 % Block = 0
      BY <1>2
    <3>3. QED
      BY <1>1, <2>1, <3>1, <3>2
  <2>4. QED
    BY <2>2, <2>3
<1>6. BlocksInOrder'
  BY <1>5 DEF BlocksInOrder
<1>7. QED
  BY <1>3, <1>4, <1>5, <1>6 DEF LengthInv

\* A request that is not started after a step other than a forward was not started
\* before it.
LEMMA UnstartedBefore ==
  ASSUME TypeInv, OwnerInv, [Next]_vars
  PROVE  \A r \in Req : Unstarted(r)' => Unstarted(r)
<1> SUFFICES ASSUME NEW r \in Req, Unstarted(r)' PROVE Unstarted(r)
  OBVIOUS
<1>1. CASE UNCHANGED vars
  BY <1>1 DEF vars, reqVars, Unstarted, InQueue
<1>2. ASSUME NEW q \in Req, AddReq(q) PROVE Unstarted(r)
  <2>1. \A p \in Req : req_status'[p] = "NOT_SENT" => req_status[p] = "NOT_SENT"
    BY <1>2 DEF AddReq, TypeInv, BasicTypes
  <2>2. InQueue(r)' => InQueue(r) \/ r = q
    <3>1. waiting_req_list \in Seq(Req) /\ waiting_req_list' = Append(waiting_req_list, q)
      BY <1>2 DEF AddReq, TypeInv, BasicTypes
    <3>2. /\ Len(waiting_req_list') = Len(waiting_req_list) + 1 /\ Len(waiting_req_list) \in Nat
          /\ waiting_req_list'[Len(waiting_req_list) + 1] = q
          /\ \A i \in 1..Len(waiting_req_list) : waiting_req_list'[i] = waiting_req_list[i]
      BY <3>1, AppendProperties
    <3>3. ASSUME NEW i \in 1..Len(waiting_req_list'), waiting_req_list'[i] = r
          PROVE  InQueue(r) \/ r = q
      <4>1. i = Len(waiting_req_list) + 1 \/ i \in 1..Len(waiting_req_list)
        BY <3>2
      <4>2. QED
        BY <3>2, <3>3, <4>1 DEF InQueue
    <3>4. QED
      BY <3>3 DEF InQueue
  <2>3. req_status[q] = "NOT_SENT" /\ at' = at
    BY <1>2 DEF AddReq
  <2>4. QED
    BY <2>1, <2>2, <2>3 DEF Unstarted
<1>3. ASSUME NEW q \in Req, Abort(q) PROVE Unstarted(r)
  BY <1>3 DEF Abort, Unstarted, InQueue
<1>4. CASE StepNewBatch \/ StepMiniBatch
  <2>1. PICK n \in 1..Len(waiting_req_list) : TakeFromQueue(n)
    BY <1>4 DEF StepNewBatch, StepMiniBatch
  <2>2. InQueue(r)' => InQueue(r)
    BY <2>1, TakenRequests
  <2>3. at # "dead" /\ req_status' = req_status
    BY <1>4 DEF StepNewBatch, StepMiniBatch, reqVars
  <2>4. QED
    BY <2>2, <2>3 DEF Unstarted
<1>5. CASE StepPause
  BY <1>5 DEF StepPause, DecodePhase, Unstarted, TypeInv, BasicTypes
<1>6. CASE StepDecode \/ InitBatch \/ MergeBatch \/ DecodeBatch \/ FreeFinished
  <2>1. waiting_req_list' = waiting_req_list /\ at # "dead"
    BY <1>6 DEF StepDecode, DecodePhase, InitBatch, MergeBatch, DecodeBatch, FreeFinished
  <2>2. req_status'[r] = "NOT_SENT" => req_status[r] = "NOT_SENT"
    BY <1>6 DEF StepDecode, InitBatch, MergeBatch, DecodeBatch, FreeFinished, reqVars, TypeInv,
       BasicTypes
  <2>3. QED
    BY <2>1, <2>2 DEF Unstarted, InQueue
<1>7. QED
  BY <1>1, <1>2, <1>3, <1>4, <1>5, <1>6 DEF Next, NetIO, Fwd

\* What the steps other than a forward leave alone.
LEMMA OtherSteps ==
  ASSUME TypeInv, OwnerInv, [Next]_vars, ~DecodeBatch
  PROVE  /\ cur_output_len' = cur_output_len
         /\ \A r \in Req : \/ cur_kv_len'[r] = cur_kv_len[r]
                           \/ cur_kv_len'[r] = 0 /\ r \notin running' \cup mini'
         /\ \A r \in running' \cup mini' : r \in running \cup mini \/ Unstarted(r)
<1>1. ASSUME NEW q \in Req, AddReq(q) \/ Abort(q)
      PROVE  /\ cur_output_len' = cur_output_len /\ cur_kv_len' = cur_kv_len
             /\ running' = running /\ mini' = mini
  BY <1>1 DEF AddReq, Abort, batchVars
<1>2. CASE StepNewBatch \/ StepMiniBatch
  <2>1. PICK n \in 1..Len(waiting_req_list) :
          /\ TakeFromQueue(n)
          /\ \/ running' = Scanned(n) /\ mini' = mini
             \/ mini' = Scanned(n) /\ running' = running
    BY <1>2 DEF StepNewBatch, StepMiniBatch
  <2>2. \A r \in Scanned(n) : r \in Req /\ InQueue(r)
    BY <2>1, TakenRequests
  <2>3. \A r \in Scanned(n) : Unstarted(r)
    BY <1>2, <2>2 DEF Unstarted, StepNewBatch, StepMiniBatch
  <2>4. QED
    BY <1>2, <2>1, <2>3 DEF StepNewBatch, StepMiniBatch, reqVars
<1>3. CASE FreeFinished
  <2>1. (running \cup mini) \cap finished = {}
    BY DEF OwnerInv, OwnedOnce
  <2>2. QED
    BY <1>3, <2>1 DEF FreeFinished
<1>4. CASE StepPause \/ StepDecode \/ InitBatch \/ MergeBatch \/ UNCHANGED vars
  BY <1>4 DEF StepPause, StepDecode, InitBatch, MergeBatch, vars, reqVars, batchVars
<1>5. QED
  BY <1>1, <1>2, <1>3, <1>4 DEF Next, NetIO, Fwd

LEMMA InitLengths == Init => LengthInv
<1>1. ASSUME Init PROVE LengthInv
  <2>1. BasicTypes
    BY <1>1, InitType DEF TypeInv
  <2>2. \A r \in Req : /\ InputLen[r] \in Nat /\ MaxNew[r] \in Nat
                       /\ SeqLen[r] = InputLen[r] + cur_output_len[r]
    BY <2>1, LengthTypes, SplitFuseAssumption
  <2>3. \A r \in Req : cur_kv_len[r] = 0 /\ cur_output_len[r] = 0
    BY <1>1 DEF Init
  <2>4. running = {} /\ mini = {}
    BY <1>1 DEF Init
  <2>5. QED
    BY <2>2, <2>3, <2>4 DEF LengthInv, BlocksInOrder
<1>2. QED
  BY <1>1

LEMMA NextLengths == ASSUME TypeInv, OwnerInv, LengthInv, [Next]_vars PROVE LengthInv'
<1>1. CASE DecodeBatch
  BY <1>1, DecodeBatchLengths
<1>2. CASE ~DecodeBatch
  BY <1>2, NextType, UnstartedBefore, OtherSteps, SameLengths
<1>3. QED
  BY <1>1, <1>2

-----------------------------------------------------------------------------
(***************************************************************************)
(* The need of the next forward                                            *)
(***************************************************************************)
NeedInv ==
  /\ NeedIsExact
  /\ at = "merge" => mini_need = Total(mini, NextTokens)
  /\ Total(running \cup mini, NextTokens) <= BatchMaxTokens
  /\ running_need >= 0 /\ mini_need >= 0

\* A request of a batch takes between one token and a block.
LEMMA BatchNext ==
  ASSUME TypeInv, LengthInv
  PROVE  /\ \A r \in running \cup mini : NextTokens[r] \in 1..Block
         /\ \A S \in SUBSET (running \cup mini) :
              Total(S, NextTokens) \in Int /\ Total(S, NextTokens) >= 0
<1>1. running \cup mini \in SUBSET Req /\ Block \in Nat \ {0}
  BY SplitFuseAssumption DEF TypeInv, BasicTypes
<1>2. /\ NextTokens \in [Req -> Int] /\ SeqLen \in [Req -> Int] /\ cur_kv_len \in [Req -> Int]
      /\ \A r \in Req : NextTokens[r] = IF SeqLen[r] - cur_kv_len[r] <= Block
                                        THEN SeqLen[r] - cur_kv_len[r] ELSE Block
  BY LengthTypes DEF TypeInv, BasicTypes
<1>3. ASSUME NEW r \in running \cup mini PROVE NextTokens[r] \in 1..Block
  <2>1. cur_kv_len[r] < SeqLen[r] /\ r \in Req
    BY <1>1 DEF LengthInv, BlocksInOrder
  <2>2. SeqLen[r] \in Int /\ cur_kv_len[r] \in Int
    BY <1>2, <2>1
  <2>3. QED
    BY <1>1, <1>2, <2>1, <2>2
<1>4. ASSUME NEW S \in SUBSET (running \cup mini)
      PROVE  Total(S, NextTokens) \in Int /\ Total(S, NextTokens) >= 0
  <2>1. S \in SUBSET Req
    BY <1>1
  <2>2. \A r \in S : NextTokens[r] >= 0
    BY <1>3
  <2>3. QED
    BY <1>2, <2>1, <2>2, TotalType
<1>5. QED
  BY <1>3, <1>4

LEMMA NextBatchNext ==
  TypeInv' /\ LengthInv' =>
    (\A S \in SUBSET (running \cup mini) :
       Total(S, NextTokens) \in Int /\ Total(S, NextTokens) >= 0)'
<1>1. (TypeInv /\ LengthInv =>
         \A S \in SUBSET (running \cup mini) :
           Total(S, NextTokens) \in Int /\ Total(S, NextTokens) >= 0)'
  BY BatchNext, PTL
<1>2. QED
  BY <1>1

\* Only a forward changes what the requests of a batch take next.
LEMMA SameNext ==
  ASSUME TypeInv, OwnerInv, [Next]_vars, ~DecodeBatch
  PROVE  /\ SeqLen' = SeqLen
         /\ \A r \in Req : r \notin finished => NextTokens'[r] = NextTokens[r]
         /\ \A S \in SUBSET (Req \ finished) : Total(S, NextTokens') = Total(S, NextTokens)
<1>1. NextTokens \in [Req -> Int] /\ NextTokens' \in [Req -> Int]
  BY NextType, LengthTypes, NextLengthTypes DEF TypeInv
<1>2. SeqLen' = SeqLen
  BY OtherSteps DEF SeqLen
<1>3. \A r \in Req : r \notin finished => cur_kv_len'[r] = cur_kv_len[r]
  <2>1. CASE FreeFinished
    BY <2>1 DEF FreeFinished
  <2>2. CASE ~FreeFinished
    BY <2>2 DEF Next, NetIO, Fwd, AddReq, Abort, StepNewBatch, StepMiniBatch, StepDecode, StepPause,
       InitBatch, MergeBatch, vars, reqVars
  <2>3. QED
    BY <2>1, <2>2
<1>4. \A r \in Req : r \notin finished => NextTokens'[r] = NextTokens[r]
  BY <1>2, <1>3 DEF NextTokens
<1>5. ASSUME NEW S \in SUBSET (Req \ finished)
      PROVE  Total(S, NextTokens') = Total(S, NextTokens)
  <2>1. S \in SUBSET Req /\ \A r \in S : NextTokens'[r] = NextTokens[r]
    BY <1>4
  <2>2. QED
    BY <1>1, <2>1, TotalSame
<1>6. QED
  BY <1>2, <1>4, <1>5

\* The steps after which the batches are as before.
LEMMA SameBatchNeed ==
  ASSUME TypeInv, OwnerInv, LengthInv, NeedInv, [Next]_vars, ~DecodeBatch,
         running' = running, mini' = mini, running_need' = running_need,
         mini_need' = mini_need,
         \/ at' = at /\ on' = on
         \/ at \in {"step", "finish"} /\ at' \in {"step", "decode"}
  PROVE  NeedInv'
<1>1. /\ Total(running, NextTokens') = Total(running, NextTokens)
      /\ Total(mini, NextTokens') = Total(mini, NextTokens)
      /\ Total(running \cup mini, NextTokens') = Total(running \cup mini, NextTokens)
  <2>1. running \cup mini \in SUBSET (Req \ finished)
    BY DEF TypeInv, BasicTypes, OwnerInv, OwnedOnce
  <2>2. QED
    BY <2>1, SameNext
<1>2. /\ Total(running, NextTokens)' = Total(running, NextTokens)
      /\ Total(mini, NextTokens)' = Total(mini, NextTokens)
      /\ Total(running \cup mini, NextTokens)' = Total(running \cup mini, NextTokens)
  BY <1>1 DEF Total
<1>3. NeedIsExact'
  BY <1>2 DEF NeedInv, NeedIsExact
<1>4. QED
  BY <1>2, <1>3 DEF NeedInv

\* A batch taken from the queue: its need fits the forward with that of the running one.
LEMMA TakeBatchNeed ==
  ASSUME TypeInv, OwnerInv, LengthInv, NeedInv, StepNewBatch \/ StepMiniBatch
  PROVE  NeedInv'
<1>1. PICK n \in 1..Len(waiting_req_list) :
        /\ NewBatch(n) /\ TakeFromQueue(n)
        /\ \/ running = {} /\ running' = Scanned(n) /\ mini' = mini
           \/ running' = running /\ mini' = Scanned(n)
  BY DEF StepNewBatch, StepMiniBatch
<1>2. PICK S \in SUBSET Req : S = Scanned(n)
  BY ScannedRequests DEF TypeInv
<1>3. CanRun(S)
  BY <1>1, <1>2 DEF NewBatch
<1>4. running_need + Total(S, NextTokens) <= BatchMaxTokens
  BY <1>3 DEF CanRun
<1>5. mini = {} /\ finished = {} /\ at = "step"
  BY DEF StepNewBatch, StepMiniBatch, TypeInv, ControlInv
<1>6. running \in SUBSET Req /\ S \cap running = {}
  BY <1>1, <1>2, TakenRequests DEF TypeInv, BasicTypes, Batched
<1>7. running_need = Total(running, NextTokens)
  BY <1>5 DEF NeedInv, NeedIsExact
<1>8. /\ NextTokens \in [Req -> Int]
      /\ Total(S, NextTokens) \in Int /\ Total(running, NextTokens) \in Int
  BY <1>6, LengthTypes DEF TypeInv
<1>9. Total(running \cup S, NextTokens) <= BatchMaxTokens
  <2>1. Total(running \cup S, NextTokens) = Total(running, NextTokens) + Total(S, NextTokens)
    BY <1>6, <1>8, TotalUnion
  <2>2. QED
    BY <1>4, <1>7, <1>8, <2>1
<1>10. UNCHANGED <<running_need, mini_need>>
       /\ at' = "init" /\ (on' = "mini" => running' = running)
  BY DEF StepNewBatch, StepMiniBatch
<1>11. running' \cup mini' = running \cup S
  BY <1>1, <1>2, <1>5
<1>12. /\ Total(running, NextTokens') = Total(running, NextTokens)
       /\ Total(running \cup S, NextTokens') = Total(running \cup S, NextTokens)
  <2>1. ~DecodeBatch /\ [Next]_vars
    BY <1>5 DEF DecodeBatch, Next, Fwd
  <2>2. running \in SUBSET (Req \ finished) /\ running \cup S \in SUBSET (Req \ finished)
    BY <1>5, <1>6
  <2>3. QED
    BY <2>1, <2>2, SameNext
<1>13. Total(running \cup mini, NextTokens)' <= BatchMaxTokens
  BY <1>9, <1>11, <1>12 DEF Total
<1>14. NeedIsExact'
  <2>1. on' = "mini" => running_need' = Total(running', NextTokens')
    BY <1>7, <1>10, <1>12
  <2>2. Total(running, NextTokens)' = Total(running', NextTokens')
    BY DEF Total
  <2>3. QED
    BY <1>10, <2>1, <2>2 DEF NeedIsExact
<1>15. QED
  BY <1>10, <1>13, <1>14 DEF NeedInv

\* Bringing a batch to the model process, and merging it.
LEMMA InitMergeNeed ==
  ASSUME TypeInv, OwnerInv, LengthInv, NeedInv, InitBatch \/ MergeBatch
  PROVE  NeedInv'
<1>1. ~DecodeBatch /\ [Next]_vars
  BY DEF InitBatch, MergeBatch, DecodeBatch, Next, Fwd
<1>2. /\ running \in SUBSET (Req \ finished) /\ mini \in SUBSET (Req \ finished)
      /\ running \cup mini \in SUBSET (Req \ finished) /\ running \cap mini = {}
  BY DEF TypeInv, BasicTypes, OwnerInv, OwnedOnce
<1>3. /\ Total(running, NextTokens') = Total(running, NextTokens)
      /\ Total(mini, NextTokens') = Total(mini, NextTokens)
      /\ Total(running \cup mini, NextTokens') = Total(running \cup mini, NextTokens)
  BY <1>1, <1>2, SameNext
<1>4. /\ Total(running, NextTokens) \in Int /\ Total(running, NextTokens) >= 0
      /\ Total(mini, NextTokens) \in Int /\ Total(mini, NextTokens) >= 0
      /\ Total(running \cup mini, NextTokens)
           = Total(running, NextTokens) + Total(mini, NextTokens)
  <2>1. NextTokens \in [Req -> Int] /\ running \in SUBSET Req /\ mini \in SUBSET Req
    BY <1>2, LengthTypes DEF TypeInv
  <2>2. QED
    BY <1>2, <2>1, TotalUnion, BatchNext
<1>5. /\ Total(running, NextTokens)' = Total(running', NextTokens')
      /\ Total(mini, NextTokens)' = Total(mini', NextTokens')
      /\ Total(running \cup mini, NextTokens)' = Total(running' \cup mini', NextTokens')
  BY DEF Total
<1>6. CASE InitBatch /\ on = "mini"
  <2>1. /\ mini_need' = Total(mini, NextTokens) /\ at' = "merge" /\ at = "init"
        /\ running' = running /\ mini' = mini /\ on' = on /\ running_need' = running_need
    BY <1>6 DEF InitBatch
  <2>2. running_need = Total(running, NextTokens)
    BY <1>6, <2>1 DEF NeedInv, NeedIsExact
  <2>3. NeedIsExact'
    BY <1>3, <1>5, <2>1, <2>2 DEF NeedIsExact
  <2>4. QED
    BY <1>3, <1>4, <1>5, <2>1, <2>3 DEF NeedInv
<1>7. CASE InitBatch /\ on # "mini"
  <2>1. /\ running_need' = Total(running, NextTokens) /\ at' = "step"
        /\ running' = running /\ mini' = mini /\ mini_need' = mini_need
    BY <1>7 DEF InitBatch
  <2>2. NeedIsExact'
    BY <1>3, <1>5, <2>1 DEF NeedIsExact
  <2>3. QED
    BY <1>3, <1>4, <1>5, <2>1, <2>2 DEF NeedInv
<1>8. CASE MergeBatch
  <2>1. /\ running_need' = running_need + mini_need /\ mini_need' = 0
        /\ running' = running \cup mini /\ mini' = {} /\ at' = "step" /\ at = "merge"
    BY <1>8 DEF MergeBatch, MergedNeed
  <2>2. on = "mini"
    BY <2>1 DEF TypeInv, ControlInv
  <2>3. running_need = Total(running, NextTokens) /\ mini_need = Total(mini, NextTokens)
    BY <2>1, <2>2 DEF NeedInv, NeedIsExact
  <2>4. running_need' = Total(running', NextTokens')
    BY <1>3, <1>4, <2>1, <2>3
  <2>5. NeedIsExact'
    BY <1>5, <2>4 DEF NeedIsExact
  <2>6. running' \cup mini' = running \cup mini /\ running_need' >= 0
    BY <1>4, <2>1, <2>3
  <2>7. QED
    BY <1>3, <1>5, <2>1, <2>5, <2>6 DEF NeedInv
<1>9. QED
  BY <1>6, <1>7, <1>8

\* The paused request takes its need along.
LEMMA PauseNeed ==
  ASSUME TypeInv, OwnerInv, LengthInv, NeedInv, StepPause
  PROVE  NeedInv'
<1>1. at = "step" /\ running # {} /\ mini = {} /\ finished = {}
  BY DEF StepPause, DecodePhase, TypeInv, ControlInv
<1>2. PICK m \in running : /\ m \in Req /\ running' = running \ {m}
                           /\ running_need' = running_need - NextTokens[m]
  BY <1>1, PausedRequest DEF StepPause
<1>3. mini' = mini /\ mini_need' = mini_need /\ at' = "dead"
  BY DEF StepPause
<1>4. running_need = Total(running, NextTokens)
  BY <1>1 DEF NeedInv, NeedIsExact
<1>5. running \in SUBSET Req /\ {m} \in SUBSET Req /\ {m} \subseteq running
  BY <1>2 DEF TypeInv, BasicTypes
<1>6. /\ NextTokens \in [Req -> Int] /\ \A r \in running : NextTokens[r] >= 0
      /\ Total(running, NextTokens) \in Int /\ Total({m}, NextTokens) \in Int
      /\ Total({m}, NextTokens) >= 0
  <2>1. \A r \in running : NextTokens[r] \in 1..Block
    BY BatchNext
  <2>2. NextTokens \in [Req -> Int]
    BY LengthTypes DEF TypeInv
  <2>3. Block \in Nat /\ {m} \subseteq running \cup mini
    BY <1>5, SplitFuseAssumption
  <2>4. QED
    BY <1>5, <2>1, <2>2, <2>3, BatchNext
<1>7. Total(running \ {m}, NextTokens) = Total(running, NextTokens) - Total({m}, NextTokens)
  BY <1>5, <1>6, TotalUnion
<1>8. NextTokens[m] <= Total(running, NextTokens)
  BY <1>5, <1>6, TotalType
<1>9. running_need' >= 0
  BY <1>2, <1>4, <1>6, <1>8
<1>10. Total(running \ {m}, NextTokens') = Total(running \ {m}, NextTokens)
  <2>1. ~DecodeBatch /\ [Next]_vars
    BY <1>1 DEF DecodeBatch, Next, Fwd
  <2>2. running \ {m} \in SUBSET (Req \ finished)
    BY <1>1, <1>5
  <2>3. QED
    BY <2>1, <2>2, SameNext
<1>11. Total(running \ {m}, NextTokens) <= BatchMaxTokens
  <2>1. Total(running, NextTokens) <= BatchMaxTokens
    <3>1. running \cup mini = running
      BY <1>1
    <3>2. QED
      BY <3>1 DEF NeedInv
  <2>2. BatchMaxTokens \in Nat
    BY SplitFuseAssumption
  <2>3. QED
    BY <1>6, <1>7, <2>1, <2>2
<1>12. running' \cup mini' = running \ {m}
  BY <1>1, <1>2, <1>3
<1>13. Total(running \cup mini, NextTokens)' <= BatchMaxTokens
  BY <1>10, <1>11, <1>12 DEF Total
<1>14. QED
  BY <1>3, <1>9, <1>13 DEF NeedInv, NeedIsExact

\* After a forward no request takes more than before it.
LEMMA DecodeBatchNeed ==
  ASSUME TypeInv, OwnerInv, LengthInv, NeedInv, DecodeBatch
  PROVE  NeedInv'
<1>1. TypeInv' /\ LengthInv'
  BY NextType, NextLengths DEF Next, Fwd
<1>2. running \in SUBSET Req /\ running' \in SUBSET Req /\ running' \subseteq running
      /\ mini = {} /\ mini' = {}
  BY <1>1, Forward DEF TypeInv, BasicTypes
<1>3. /\ NextTokens \in [Req -> Int] /\ NextTokens' \in [Req -> Int]
      /\ Total(running, NextTokens) \in Int /\ Total(running', NextTokens') \in Int
      /\ Total(running', NextTokens) \in Int
      /\ Total(running \ running', NextTokens) \in Int
      /\ Total(running \ running', NextTokens) >= 0
  <2>1. running \ running' \in SUBSET Req /\ running \ running' \in SUBSET (running \cup mini)
    BY <1>2
  <2>2. NextTokens \in [Req -> Int] /\ NextTokens' \in [Req -> Int]
    BY <1>1, LengthTypes, NextLengthTypes DEF TypeInv
  <2>3. QED
    BY <1>2, <2>1, <2>2, TotalType, BatchNext
<1>4. Total(running', NextTokens') <= Total(running', NextTokens)
  <2>1. \A r \in running' : NextTokens'[r] <= NextTokens[r]
    <3>1. \A r \in running' : /\ NextTokens[r] \in 1..Block
                              /\ NextTokens'[r] = 1 \/ NextTokens[r] = Block
                              /\ NextTokens'[r] \in 1..Block
      <4>1. Block \in Nat \ {0}
        BY SplitFuseAssumption
      <4>2. QED
        BY <1>2, <4>1, Forward
    <3>2. Block \in Nat
      BY SplitFuseAssumption
    <3>3. QED
      BY <3>1, <3>2
  <2>2. QED
    BY <1>2, <1>3, <2>1, TotalAtMost
<1>5. Total(running \ running', NextTokens)
        = Total(running, NextTokens) - Total(running', NextTokens)
  BY <1>2, <1>3, TotalUnion
<1>6. Total(running, NextTokens) <= BatchMaxTokens
  <2>1. running \cup mini = running
    BY <1>2
  <2>2. QED
    BY <2>1 DEF NeedInv
<1>7. Total(running', NextTokens') <= BatchMaxTokens
  <2>1. BatchMaxTokens \in Nat
    BY SplitFuseAssumption
  <2>2. QED
    BY <1>3, <1>4, <1>5, <1>6, <2>1
<1>8. running_need' = Total(running', NextTokens')
  BY DEF DecodeBatch, NeedAfter, Total
<1>9. /\ Total(running, NextTokens)' = Total(running', NextTokens')
      /\ Total(running \cup mini, NextTokens)' = Total(running' \cup mini', NextTokens')
  BY DEF Total
<1>10. running' \cup mini' = running' /\ mini_need' = mini_need
       /\ at' \in {"step", "finish"}
  BY <1>2 DEF DecodeBatch
<1>11. running_need' >= 0
  <2>1. \A S \in SUBSET (running' \cup mini') : Total(S, NextTokens') >= 0
    BY <1>1, NextBatchNext DEF Total
  <2>2. QED
    BY <1>8, <2>1
<1>12. NeedIsExact'
  BY <1>8, <1>9 DEF NeedIsExact
<1>13. QED
  BY <1>7, <1>9, <1>10, <1>11, <1>12 DEF NeedInv

LEMMA InitNeed == Init => NeedInv
<1>1. ASSUME Init PROVE NeedInv
  <2>1. running = {} /\ mini = {} /\ running \cup mini = {}
        /\ running_need = 0 /\ mini_need = 0 /\ at = "step"
    BY <1>1 DEF Init
  <2>2. Total({}, NextTokens) = 0
    BY SumEmpty DEF Total
  <2>3. 0 <= BatchMaxTokens
    BY SplitFuseAssumption
  <2>4. QED
    BY <2>1, <2>2, <2>3 DEF NeedInv, NeedIsExact
<1>2. QED
  BY <1>1

LEMMA NextNeed ==
  ASSUME TypeInv, OwnerInv, LengthInv, NeedInv, [Next]_vars PROVE NeedInv'
<1>1. CASE UNCHANGED vars
  <2>1. ~DecodeBatch
    BY <1>1 DEF DecodeBatch, vars
  <2>2. QED
    BY <1>1, <2>1, SameBatchNeed DEF vars, batchVars
<1>2. ASSUME NEW r \in Req, AddReq(r) \/ Abort(r) PROVE NeedInv'
  <2>1. ~DecodeBatch
    <3>1. cur_kv_len' = cur_kv_len /\ running' = running /\ finished' = finished /\ at' = at
      BY <1>2 DEF AddReq, Abort, batchVars
    <3>2. QED
      BY <3>1 DEF DecodeBatch
  <2>2. QED
    BY <1>2, <2>1, SameBatchNeed DEF AddReq, Abort, batchVars
<1>3. CASE StepDecode \/ FreeFinished
  <2>1. ~DecodeBatch
    BY <1>3 DEF DecodeBatch, StepDecode, DecodePhase, FreeFinished
  <2>2. QED
    BY <1>3, <2>1, SameBatchNeed DEF StepDecode, DecodePhase, FreeFinished, batchVars
<1>4. CASE StepNewBatch \/ StepMiniBatch
  BY <1>4, TakeBatchNeed
<1>5. CASE InitBatch \/ MergeBatch
  BY <1>5, InitMergeNeed
<1>6. QED
  BY <1>1, <1>2, <1>3, <1>4, <1>5, PauseNeed, DecodeBatchNeed DEF Next, NetIO, Fwd

-----------------------------------------------------------------------------
(***************************************************************************)
(* The tokens of the pool                                                  *)
(***************************************************************************)
TokenInv == TokenAccounting /\ can_use_mem_size >= 0

LEMMA HeldType == BasicTypes => Held \in SUBSET Req
BY DEF BasicTypes, Held, Paused

\* The steps after which the same requests hold the same tokens.
LEMMA SameTokens ==
  ASSUME TokenInv, Held' = Held, cur_kv_len' = cur_kv_len,
         can_use_mem_size' = can_use_mem_size
  PROVE  TokenInv'
BY DEF TokenInv, TokenAccounting, Total

\* A batch taken from the queue holds no token yet.
LEMMA TakeBatchTokens ==
  ASSUME TypeInv, OwnerInv, LengthInv, TokenInv, StepNewBatch \/ StepMiniBatch
  PROVE  TokenInv'
<1>1. PICK n \in 1..Len(waiting_req_list) :
        /\ TakeFromQueue(n)
        /\ \/ running = {} /\ running' = Scanned(n) /\ mini' = mini
           \/ running' = running /\ mini' = Scanned(n)
  BY DEF StepNewBatch, StepMiniBatch
<1>2. PICK S \in SUBSET Req : S = Scanned(n)
  BY ScannedRequests DEF TypeInv
<1>3. /\ mini = {} /\ Paused = {} /\ Paused' = {} /\ at = "step"
      /\ finished' = finished /\ cur_kv_len' = cur_kv_len
      /\ can_use_mem_size' = can_use_mem_size
  BY DEF StepNewBatch, StepMiniBatch, TypeInv, ControlInv, reqVars, Paused
<1>4. PICK H \in SUBSET Req : H = Held
  BY HeldType DEF TypeInv
<1>5. Held' = H \cup S
  BY <1>1, <1>2, <1>3, <1>4 DEF Held
<1>6. H \cap S = {}
  BY <1>1, <1>2, <1>3, <1>4, TakenRequests DEF Held, Batched
<1>7. \A r \in S : cur_kv_len[r] = 0
  BY <1>1, <1>2, <1>3, TakenRequests DEF LengthInv, Unstarted
<1>8. cur_kv_len \in [Req -> Int]
  BY DEF TypeInv, BasicTypes
<1>9. Total(H \cup S, cur_kv_len) = Total(H, cur_kv_len)
  <2>1. Total(S, cur_kv_len) = 0 /\ Total(H, cur_kv_len) \in Int
    BY <1>7, <1>8, TotalType
  <2>2. Total(H \cup S, cur_kv_len) = Total(H, cur_kv_len) + Total(S, cur_kv_len)
    BY <1>6, <1>8, TotalUnion
  <2>3. QED
    BY <2>1, <2>2
<1>10. Total(Held, cur_kv_len)' = Total(Held, cur_kv_len)
  BY <1>3, <1>4, <1>5, <1>9 DEF Total
<1>11. QED
  BY <1>3, <1>10 DEF TokenInv, TokenAccounting

\* A forward takes from the pool what it adds to the requests of the batch, whether or
\* not they are finished by it.
LEMMA DecodeBatchTokens ==
  ASSUME TypeInv, OwnerInv, LengthInv, TokenInv, DecodeBatch
  PROVE  TokenInv'
<1>1. /\ can_use_mem_size' = can_use_mem_size - Total(running, NextTokens)
      /\ Total(running, NextTokens) <= can_use_mem_size
      /\ finished' = running \ running' /\ running' \subseteq running
      /\ mini = {} /\ mini' = {} /\ finished = {} /\ Paused' = Paused
  BY Forward DEF DecodeBatch, Paused
<1>2. PICK H \in SUBSET Req : H = Held
  BY HeldType DEF TypeInv
<1>3. Held' = H /\ running \in SUBSET Req /\ running \subseteq H
  BY <1>1, <1>2 DEF Held
<1>4. /\ NextTokens \in [Req -> Int] /\ cur_kv_len \in [Req -> Int]
      /\ cur_kv_len' \in [Req -> Int]
  BY NextType, LengthTypes DEF TypeInv, BasicTypes, Next, Fwd
<1> DEFINE taken == [r \in Req |-> IF r \in running THEN NextTokens[r] ELSE 0]
<1>5. /\ taken \in [Req -> Int]
      /\ \A r \in H : cur_kv_len'[r] = cur_kv_len[r] + taken[r]
      /\ \A r \in running : taken[r] = NextTokens[r]
      /\ \A r \in H \ running : taken[r] = 0
  <2>1. cur_kv_len' = [r \in Req |-> IF r \in running THEN cur_kv_len[r] + NextTokens[r]
                                                       ELSE cur_kv_len[r]]
    BY DEF DecodeBatch
  <2>2. \A r \in Req : /\ taken[r] = (IF r \in running THEN NextTokens[r] ELSE 0)
                       /\ NextTokens[r] \in Int /\ cur_kv_len[r] \in Int
    BY <1>4
  <2>3. taken \in [Req -> Int]
    BY <1>4
  <2> HIDE DEF taken
  <2>4. \A r \in H : cur_kv_len'[r] = cur_kv_len[r] + taken[r]
    BY <2>1, <2>2
  <2>5. QED
    BY <1>3, <2>2, <2>3, <2>4
<1> HIDE DEF taken
<1>6. Total(H, cur_kv_len') = Total(H, cur_kv_len) + Total(H, taken)
  BY <1>4, <1>5, TotalPlus
<1>7. Total(running, taken) = Total(running, NextTokens)
  BY <1>3, <1>4, <1>5, TotalSame
<1>8. Total(H \ running, taken) = 0
  <2>1. H \ running \in SUBSET Req
    BY <1>3
  <2>2. QED
    BY <1>5, <2>1, TotalType
<1>9. /\ Total(H \ running, taken) = Total(H, taken) - Total(running, taken)
      /\ Total(H, taken) \in Int /\ Total(running, taken) \in Int
      /\ Total(H, cur_kv_len) \in Int
  BY <1>3, <1>4, <1>5, TotalUnion, TotalType
<1>10. Total(H, cur_kv_len') = Total(H, cur_kv_len) + Total(running, NextTokens)
  BY <1>6, <1>7, <1>8, <1>9
<1>11. Total(Held, cur_kv_len)' = Total(Held, cur_kv_len) + Total(running, NextTokens)
  BY <1>2, <1>3, <1>10 DEF Total
<1>12. can_use_mem_size \in Int /\ MaxTotal \in Int /\ Total(running, NextTokens) \in Int
  BY <1>7, <1>9, SplitFuseAssumption DEF TypeInv, BasicTypes
<1>13. QED
  BY <1>1, <1>2, <1>9, <1>11, <1>12 DEF TokenInv, TokenAccounting

\* What the finished requests hold goes back.
LEMMA FreeFinishedTokens ==
  ASSUME TypeInv, OwnerInv, LengthInv, TokenInv, FreeFinished
  PROVE  TokenInv'
<1>1. /\ can_use_mem_size' = can_use_mem_size + Total(finished, cur_kv_len)
      /\ cur_kv_len' = [r \in Req |-> IF r \in finished THEN 0 ELSE cur_kv_len[r]]
      /\ running' = running /\ mini' = mini /\ finished' = {} /\ Paused' = Paused
      /\ Paused = {}
  BY DEF FreeFinished, FreedTokens, TypeInv, ControlInv, Paused
<1>2. PICK H \in SUBSET Req : H = Held
  BY HeldType DEF TypeInv
<1>3. Held' = H \ finished /\ finished \in SUBSET Req /\ finished \subseteq H
  BY <1>1, <1>2 DEF Held, OwnerInv, OwnedOnce
<1>4. cur_kv_len \in [Req -> Int] /\ cur_kv_len' \in [Req -> Int]
  BY NextType DEF TypeInv, BasicTypes, Next, Fwd
<1>5. Total(H \ finished, cur_kv_len') = Total(H \ finished, cur_kv_len)
  <2>1. H \ finished \in SUBSET Req /\ \A r \in H \ finished : cur_kv_len'[r] = cur_kv_len[r]
    BY <1>1
  <2>2. QED
    BY <1>4, <2>1, TotalSame
<1>6. /\ Total(H \ finished, cur_kv_len) = Total(H, cur_kv_len) - Total(finished, cur_kv_len)
      /\ Total(H, cur_kv_len) \in Int /\ Total(finished, cur_kv_len) \in Int
      /\ Total(finished, cur_kv_len) >= 0
  <2>1. \A r \in finished : cur_kv_len[r] >= 0
    BY <1>3 DEF LengthInv
  <2>2. QED
    BY <1>3, <1>4, <2>1, TotalUnion, TotalType
<1>7. Total(Held, cur_kv_len)' = Total(Held, cur_kv_len) - Total(finished, cur_kv_len)
  BY <1>2, <1>3, <1>5, <1>6 DEF Total
<1>8. can_use_mem_size \in Int /\ MaxTotal \in Int
  BY SplitFuseAssumption DEF TypeInv, BasicTypes
<1>9. QED
  BY <1>1, <1>2, <1>6, <1>7, <1>8 DEF TokenInv, TokenAccounting

LEMMA InitTokens == Init => TokenInv
<1>1. ASSUME Init PROVE TokenInv
  <2>1. Held = {} /\ can_use_mem_size = MaxTotal
    BY <1>1 DEF Init, Held, Paused
  <2>2. Total({}, cur_kv_len) = 0
    BY SumEmpty DEF Total
  <2>3. MaxTotal \in Nat
    BY SplitFuseAssumption
  <2>4. QED
    BY <2>1, <2>2, <2>3 DEF TokenInv, TokenAccounting
<1>2. QED
  BY <1>1

LEMMA NextTokenInv ==
  ASSUME TypeInv, OwnerInv, LengthInv, TokenInv, [Next]_vars PROVE TokenInv'
<1>1. CASE UNCHANGED vars
  BY <1>1, SameTokens DEF vars, reqVars, batchVars, Held, Paused
<1>2. ASSUME NEW r \in Req, AddReq(r) \/ Abort(r) PROVE TokenInv'
  <2>1. Paused' = Paused
    BY <1>2 DEF AddReq, Abort, Paused, TypeInv, BasicTypes
  <2>2. QED
    BY <1>2, <2>1, SameTokens DEF AddReq, Abort, batchVars, Held
<1>3. CASE StepDecode \/ MergeBatch
  BY <1>3, SameTokens DEF StepDecode, MergeBatch, reqVars, batchVars, Held, Paused
<1>4. CASE InitBatch
  <2>1. Paused = {} /\ Paused' = {}
    BY <1>4 DEF InitBatch, Paused, TypeInv, ControlInv
  <2>2. QED
    BY <1>4, <2>1, SameTokens DEF InitBatch, Held
<1>5. CASE StepPause
  <2>1. running # {}
    BY <1>5 DEF StepPause, DecodePhase
  <2>2. PICK m \in running :
          /\ m \in Req /\ running' = running \ {m}
          /\ req_status' = [req_status EXCEPT ![m] = "PAUSED_AND_OFFLOAD"]
    BY <1>5, <2>1, PausedRequest DEF StepPause
  <2>3. Paused' = Paused \cup {m}
    BY <2>2 DEF Paused, TypeInv, BasicTypes
  <2>4. QED
    BY <1>5, <2>2, <2>3, SameTokens DEF StepPause, Held
<1>6. QED
  BY <1>1, <1>2, <1>3, <1>4, <1>5, TakeBatchTokens, DecodeBatchTokens, FreeFinishedTokens
     DEF Next, NetIO, Fwd

-----------------------------------------------------------------------------
(***************************************************************************)
(* The theorems that hold with every estimate                              *)
(***************************************************************************)
IInv == TypeInv /\ OwnerInv /\ LengthInv /\ NeedInv /\ TokenInv

\* The free tokens are not more than the pool.
LEMMA FreeTokens == IInv => can_use_mem_size \in 0..MaxTotal
<1>1. ASSUME IInv PROVE can_use_mem_size \in 0..MaxTotal
  <2>1. /\ can_use_mem_size \in Int /\ can_use_mem_size >= 0 /\ MaxTotal \in Int
        /\ can_use_mem_size + Total(Held, cur_kv_len) = MaxTotal
    BY <1>1, SplitFuseAssumption DEF IInv, TokenInv, TokenAccounting, TypeInv, BasicTypes
  <2>2. PICK H \in SUBSET Req : H = Held
    BY <1>1, HeldType DEF IInv, TypeInv
  <2>3. cur_kv_len \in [Req -> Int] /\ \A r \in H : cur_kv_len[r] >= 0
    BY <1>1 DEF IInv, LengthInv, TypeInv, BasicTypes
  <2>4. Total(H, cur_kv_len) >= 0 /\ Total(H, cur_kv_len) \in Int
    BY <2>3, TotalType
  <2>5. QED
    BY <2>1, <2>2, <2>4
<1>2. QED
  BY <1>1

LEMMA InvariantTypes == IInv => TypeOK
<1>1. ASSUME IInv PROVE TypeOK
  <2>1. can_use_mem_size \in 0..MaxTotal
    BY <1>1, FreeTokens
  <2>2. /\ cur_output_len \in [Req -> Nat] /\ cur_kv_len \in [Req -> Nat]
        /\ \A r \in Req : cur_output_len[r] <= MaxNew[r]
    <3>1. \A r \in Req : /\ cur_output_len[r] \in 0..MaxNew[r] /\ MaxNew[r] \in Nat
                         /\ cur_kv_len[r] \in Int /\ cur_kv_len[r] >= 0
      BY <1>1, SplitFuseAssumption DEF IInv, LengthInv, TypeInv, BasicTypes
    <3>2. cur_output_len \in [Req -> Int] /\ cur_kv_len \in [Req -> Int]
      BY <1>1 DEF IInv, TypeInv, BasicTypes
    <3>3. \A r \in Req : cur_output_len[r] \in Nat /\ cur_kv_len[r] \in Nat
                         /\ cur_output_len[r] <= MaxNew[r]
      BY <3>1
    <3>4. QED
      BY <3>2, <3>3
  <2>3. running_need \in Nat /\ mini_need \in Nat
    BY <1>1 DEF IInv, NeedInv, TypeInv, BasicTypes
  <2>4. QED
    BY <1>1, <2>1, <2>2, <2>3 DEF IInv, TypeInv, BasicTypes, ReqStatus, FinishStatus, TypeOK
<1>2. QED
  BY <1>1

LEMMA InvariantForward == IInv => ForwardAsDecided
<1>1. ASSUME IInv PROVE ForwardAsDecided
  <2>1. StepFitsBatch
    <3>1. ASSUME at = "decode" PROVE Total(running, NextTokens) <= BatchMaxTokens
      <4>1. running \cup mini = running
        BY <1>1, <3>1 DEF IInv, TypeInv, ControlInv
      <4>2. QED
        BY <1>1, <4>1 DEF IInv, NeedInv
    <3>2. QED
      BY <3>1 DEF StepFitsBatch
  <2>2. NeedIsExact /\ BlocksInOrder
    BY <1>1 DEF IInv, NeedInv, LengthInv
  <2>3. QED
    BY <2>1, <2>2 DEF ForwardAsDecided
<1>2. QED
  BY <1>1

LEMMA NextIInv == IInv /\ [Next]_vars => IInv'
<1>1. ASSUME IInv, [Next]_vars PROVE IInv'
  BY <1>1, NextType, NextOwner, NextLengths, NextNeed, NextTokenInv DEF IInv
<1>2. QED
  BY <1>1

\* The inductive invariant: types, ownership, lengths, the need of the next forward and
\* the tokens of the pool.
THEOREM SplitFuseInvariant == Spec => []IInv
<1>1. Init => IInv
  BY InitType, InitOwner, InitLengths, InitNeed, InitTokens DEF IInv
<1>2. IInv /\ [Next]_vars => IInv'
  BY NextIInv
<1>3. QED
  BY <1>1, <1>2, PTL DEF Spec

\* TypeOK: the variables of the router take no other values; in particular the free
\* tokens are neither negative nor more than the pool, and no answer exceeds its length.
THEOREM SplitFuseTypes == Spec => []TypeOK
BY SplitFuseInvariant, InvariantTypes, PTL

\* OwnedOnce: a request is in the queue once, or in one of the batches, never in two
\* places.
THEOREM SplitFuseOwnedOnce == Spec => []OwnedOnce
<1>1. IInv => OwnedOnce
  BY DEF IInv, OwnerInv
<1>2. QED
  BY <1>1, SplitFuseInvariant, PTL

\* ForwardAsDecided: the cached need is that of the next forward, which stays within
\* batch_max_tokens, and prompts are cut at multiples of the block.
THEOREM ForwardAsDecidedCorrect == Spec => []ForwardAsDecided
BY SplitFuseInvariant, InvariantForward, PTL

\* TokenAccounting: the free tokens and those of the requests add up to the pool.
THEOREM TokensAddUp == Spec => []TokenAccounting
<1>1. IInv => TokenAccounting
  BY DEF IInv, TokenInv
<1>2. QED
  BY <1>1, SplitFuseInvariant, PTL

-----------------------------------------------------------------------------
(***************************************************************************)
(* The default estimate: no request is ever paused                         *)
(***************************************************************************)
Longer(S, r) == {q \in S : LeftLen(q) >= LeftLen(r)}

\* The tokens in the pool when r ends, as need_max_token_num has it.
PeakAt(S, r) == LeftLen(r) * Cardinality(Longer(S, r)) + Total(Longer(S, r), SeqLen)

Blocks(r) == (SeqLen[r] - cur_kv_len[r] + Block - 1) \div Block

PeakInv ==
  BusyFrom = 0 =>
    /\ \A r \in running \cup mini : PeakAt(running \cup mini, r) < MaxTotal
    /\ at # "dead"

\* With the default setting the whole answer is estimated: a request still needs as many
\* forwards as it has blocks and tokens to come.
LEMMA BusyLeft ==
  IInv /\ BusyFrom = 0 =>
    \A r \in Req : /\ LeftLen(r) \in Nat
                   /\ cur_output_len[r] < MaxNew[r] =>
                        LeftLen(r) = Blocks(r) + MaxNew[r] - cur_output_len[r] - 1
<1> SUFFICES ASSUME IInv, BusyFrom = 0, NEW r \in Req
             PROVE  /\ LeftLen(r) \in Nat
                    /\ cur_output_len[r] < MaxNew[r] =>
                         LeftLen(r) = Blocks(r) + MaxNew[r] - cur_output_len[r] - 1
  OBVIOUS
<1>1. can_use_mem_size \in 0..MaxTotal /\ MaxTotal \in Nat
  BY FreeTokens, SplitFuseAssumption
<1>2. IsBusy
  BY <1>1 DEF IsBusy
<1>3. ExpectedNew(r) = MaxNew[r] /\ MaxNew[r] \in Nat
  BY <1>2, SplitFuseAssumption DEF ExpectedNew
<1>4. /\ SeqLen[r] \in Int /\ cur_kv_len[r] \in Int /\ cur_kv_len[r] <= SeqLen[r]
      /\ cur_output_len[r] \in Int /\ Block \in Nat \ {0}
  BY LengthTypes, SplitFuseAssumption DEF IInv, TypeInv, BasicTypes, LengthInv
<1>5. PICK b \in Int : b = Blocks(r) /\ b >= 0
  <2>1. PICK a \in Int : a = SeqLen[r] - cur_kv_len[r] + Block - 1 /\ a >= 0
    BY <1>4
  <2>2. a \div Block \in Int /\ a \div Block >= 0
    BY <1>4, <2>1
  <2>3. QED
    BY <2>1, <2>2 DEF Blocks
<1>6. PICK e \in Int : e = b + MaxNew[r] - cur_output_len[r] - 1
  BY <1>3, <1>4
<1>7. LeftLen(r) = Max({0, e})
  BY <1>3, <1>5, <1>6 DEF LeftLen, Blocks
<1>8. LeftLen(r) = IF 0 <= e THEN e ELSE 0
  BY <1>7, MaxOfTwo
<1>9. QED
  BY <1>3, <1>4, <1>5, <1>6, <1>8

LEMMA NextBusyLeft ==
  IInv' /\ BusyFrom = 0 =>
    \A r \in Req : /\ LeftLen(r)' \in Nat
                   /\ cur_output_len'[r] < MaxNew[r] =>
                        LeftLen(r)' = Blocks(r)' + MaxNew[r] - cur_output_len'[r] - 1
<1>1. (IInv /\ BusyFrom = 0 =>
         \A r \in Req : /\ LeftLen(r) \in Nat
                        /\ cur_output_len[r] < MaxNew[r] =>
                             LeftLen(r) = Blocks(r) + MaxNew[r] - cur_output_len[r] - 1)'
  BY BusyLeft, PTL
<1>2. QED
  BY <1>1

\* The estimated peak is below a bound where the pool of every request's end is.
LEMMA PeakBelow ==
  ASSUME IInv, BusyFrom = 0, NEW S \in SUBSET Req, Peak(S) < MaxTotal
  PROVE  \A r \in S : PeakAt(S, r) < MaxTotal
<1> DEFINE D == {0} \cup {PeakAt(S, r) : r \in S}
<1>1. \A r \in Req : LeftLen(r) \in Nat
  BY BusyLeft
<1>2. \A r \in S : PeakAt(S, r) \in Int
  <2>1. ASSUME NEW r \in S PROVE PeakAt(S, r) \in Int
    <3>1. Longer(S, r) \in SUBSET Req
      BY DEF Longer
    <3>2. Cardinality(Longer(S, r)) \in Int /\ Total(Longer(S, r), SeqLen) \in Int
      BY <3>1, ReqSubset, LengthTypes DEF IInv, TypeInv
    <3>3. LeftLen(r) \in Int
      BY <1>1
    <3>4. QED
      BY <3>2, <3>3 DEF PeakAt
  <2>2. QED
    BY <2>1
<1>3. IsFiniteSet(D)
  <2>1. IsFiniteSet({PeakAt(S, r) : r \in S})
    <3> DEFINE T == {PeakAt(S, r) : r \in S}
               f == [r \in S |-> PeakAt(S, r)]
    <3>1. f \in [S -> T] /\ \A t \in T : \E r \in S : f[r] = t
      OBVIOUS
    <3>2. f \in Surjection(S, T)
      BY <3>1 DEF Surjection
    <3> HIDE DEF T, f
    <3>3. IsFiniteSet(T)
      BY <3>2, ReqSubset, FS_Surjection
    <3>4. QED
      BY <3>3 DEF T
  <2>2. IsFiniteSet({0})
    BY FS_Singleton
  <2>3. QED
    BY <2>1, <2>2, FS_Union
<1>4. D \subseteq Int /\ D # {}
  BY <1>2
<1>5. Peak(S) = Max(D)
  BY DEF Peak, PeakAt, Longer
<1>6. \A x \in D : x <= Max(D)
  <2> HIDE DEF D
  <2>1. QED
    BY <1>3, <1>4, FiniteMax
<1>7. Max(D) \in Int
  <2> HIDE DEF D
  <2>1. QED
    BY <1>3, <1>4, FiniteMax
<1>8. ASSUME NEW r \in S PROVE PeakAt(S, r) < MaxTotal
  <2>1. PeakAt(S, r) \in D /\ PeakAt(S, r) \in Int
    BY <1>2
  <2>2. PeakAt(S, r) <= Max(D)
    BY <1>6, <2>1
  <2>3. MaxTotal \in Int /\ Max(D) < MaxTotal
    BY <1>5, SplitFuseAssumption
  <2>4. QED
    BY <1>7, <2>1, <2>2, <2>3
<1>9. QED
  BY <1>8

\* One product and one sum.
LEMMA OneForwardLess ==
  ASSUME NEW L \in Nat, NEW c \in Nat, NEW d \in Nat, NEW s \in Int, NEW t \in Int,
         NEW u \in Int, L >= 1, d <= c, u <= t + d, t <= s
  PROVE  (L - 1) * d + u <= L * c + s
<1>1. (L - 1) * d = L * d - d
  OBVIOUS
<1>2. L * d <= L * c
  OBVIOUS
<1>3. L * d \in Int /\ L * c \in Int
  OBVIOUS
<1>4. QED
  BY <1>1, <1>2, <1>3

\* When every request has one forward less to come and one token more at most, and some
\* have left, the pool needed at each request's end has not grown.
NeededAt(S, L, s, r) ==
  LET longer == {q \in S : L[q] >= L[r]}
  IN  L[r] * Cardinality(longer) + Total(longer, s)

LEMMA PeakShrinks ==
  ASSUME NEW R \in SUBSET Req, NEW Q \in SUBSET R,
         NEW L \in [Req -> Int], NEW M \in [Req -> Int],
         NEW s \in [Req -> Int], NEW t \in [Req -> Int], NEW N \in Int,
         \A q \in R : L[q] >= 1 /\ s[q] >= 0,
         \A q \in Q : M[q] = L[q] - 1 /\ t[q] <= s[q] + 1,
         \A r \in R : NeededAt(R, L, s, r) < N
  PROVE  \A r \in Q : NeededAt(Q, M, t, r) < N
<1> SUFFICES ASSUME NEW r \in Q PROVE NeededAt(Q, M, t, r) < N
  OBVIOUS
<1>1. PICK A \in SUBSET Req : A = {q \in R : L[q] >= L[r]}
  OBVIOUS
<1>2. PICK B \in SUBSET Req : B = {q \in Q : M[q] >= M[r]}
  OBVIOUS
<1>3. B \subseteq A /\ B \subseteq Q /\ A \subseteq R
  <2>1. ASSUME NEW q \in B PROVE q \in A
    <3>1. q \in Q /\ q \in R /\ q \in Req /\ r \in Req /\ M[q] >= M[r]
      BY <1>2
    <3>2. L[q] \in Int /\ L[r] \in Int /\ M[q] = L[q] - 1 /\ M[r] = L[r] - 1
      BY <3>1
    <3>3. QED
      BY <1>1, <3>1, <3>2
  <2>2. QED
    BY <1>1, <1>2, <2>1
<1>4. /\ Cardinality(A) \in Nat /\ Cardinality(B) \in Nat
      /\ Cardinality(B) <= Cardinality(A)
  BY <1>3, ReqSubset, FS_Subset
<1>5. /\ Total(A, s) \in Int /\ Total(B, s) \in Int /\ Total(B, t) \in Int
      /\ Total(A \ B, s) \in Int /\ Total(A \ B, s) >= 0
  <2>1. A \ B \in SUBSET Req /\ \A q \in A \ B : s[q] >= 0
    BY <1>3
  <2>2. QED
    BY <2>1, TotalType
<1>6. Total(B, s) <= Total(A, s)
  <2>1. Total(A \ B, s) = Total(A, s) - Total(B, s)
    BY <1>3, TotalUnion
  <2>2. QED
    BY <1>5, <2>1
<1>7. Total(B, t) <= Total(B, s) + Cardinality(B)
  <2>1. \A q \in B : t[q] <= s[q] + 1
    BY <1>3
  <2>2. QED
    BY <2>1, TotalAtMost
<1>8. r \in R /\ r \in Req /\ L[r] \in Nat /\ L[r] >= 1 /\ M[r] = L[r] - 1
  <2>1. r \in R /\ r \in Req /\ L[r] \in Int
    OBVIOUS
  <2>2. QED
    BY <2>1
<1>9. (L[r] - 1) * Cardinality(B) + Total(B, t) <= L[r] * Cardinality(A) + Total(A, s)
  BY <1>4, <1>5, <1>6, <1>7, <1>8, OneForwardLess
<1>10. L[r] * Cardinality(A) + Total(A, s) < N
  BY <1>1, <1>8 DEF NeededAt
<1>11. M[r] * Cardinality(B) + Total(B, t) < N
  <2>1. L[r] * Cardinality(A) \in Int /\ (L[r] - 1) * Cardinality(B) \in Int
    BY <1>4, <1>8
  <2>2. QED
    BY <1>5, <1>8, <1>9, <1>10, <2>1
<1>12. QED
  BY <1>2, <1>11 DEF NeededAt

\* At a decision about a running batch, its next forward finds its tokens: they are part
\* of the longest estimate, that of the request with the fewest forwards to come.
LEMMA BusyCanDecode ==
  ASSUME IInv, PeakInv, BusyFrom = 0, at = "step", running # {}
  PROVE  CanDecode
<1>1. mini = {} /\ finished = {} /\ Paused = {}
  BY DEF IInv, TypeInv, ControlInv
<1>2. PICK R \in SUBSET Req : R = running /\ R # {}
  BY DEF IInv, TypeInv, BasicTypes
<1>3. Held = R /\ running \cup mini = R
  BY <1>1, <1>2 DEF Held
<1>4. \A r \in Req : LeftLen(r) \in Nat
  BY BusyLeft
<1>5. PICK r \in R : \A q \in R : LeftLen(r) <= LeftLen(q)
  <2> DEFINE T == {LeftLen(q) : q \in R}
  <2>1. T \subseteq Nat /\ T # {}
    BY <1>2, <1>4
  <2>2. \E m \in T : \A n \in T : m <= n
    <3> HIDE DEF T
    <3>1. QED
      BY <2>1, MinElement
  <2>3. QED
    BY <2>2
<1>6. Longer(R, r) = R
  <2>1. \A q \in R : LeftLen(q) >= LeftLen(r)
    BY <1>4, <1>5
  <2>2. QED
    BY <2>1 DEF Longer
<1>7. LeftLen(r) * Cardinality(R) + Total(R, SeqLen) < MaxTotal
  <2>1. PeakAt(R, r) < MaxTotal
    BY <1>3, <1>5 DEF PeakInv
  <2>2. QED
    BY <1>6, <2>1 DEF PeakAt
<1>8. /\ SeqLen \in [Req -> Int] /\ NextTokens \in [Req -> Int] /\ cur_kv_len \in [Req -> Int]
      /\ Total(R, SeqLen) \in Int /\ Total(R, NextTokens) \in Int /\ Total(R, cur_kv_len) \in Int
  BY LengthTypes DEF IInv, TypeInv, BasicTypes
<1>9. Total(R, SeqLen) < MaxTotal
  <2>1. Cardinality(R) \in Nat /\ LeftLen(r) \in Nat /\ MaxTotal \in Nat
    BY <1>2, <1>4, <1>5, ReqSubset, SplitFuseAssumption
  <2>2. LeftLen(r) * Cardinality(R) \in Nat
    BY <2>1
  <2>3. QED
    BY <1>7, <1>8, <2>1, <2>2
<1>10. Total(R, cur_kv_len) + Total(R, NextTokens) <= Total(R, SeqLen)
  <2> DEFINE h == [q \in Req |-> cur_kv_len[q] + NextTokens[q]]
  <2>1. h \in [Req -> Int] /\ \A q \in Req : h[q] = cur_kv_len[q] + NextTokens[q]
    BY <1>8
  <2>2. \A q \in R : h[q] <= SeqLen[q]
    <3>1. \A q \in Req : NextTokens[q] <= SeqLen[q] - cur_kv_len[q]
      <4>1. \A q \in Req : NextTokens[q] = IF SeqLen[q] - cur_kv_len[q] <= Block
                                           THEN SeqLen[q] - cur_kv_len[q] ELSE Block
        BY LengthTypes DEF IInv, TypeInv
      <4>2. \A q \in Req : SeqLen[q] \in Int /\ cur_kv_len[q] \in Int /\ Block \in Int
        BY <1>8, SplitFuseAssumption
      <4>3. QED
        BY <4>1, <4>2
    <3>2. \A q \in Req : SeqLen[q] \in Int /\ cur_kv_len[q] \in Int /\ NextTokens[q] \in Int
      BY <1>8
    <3>3. QED
      BY <2>1, <3>1, <3>2
  <2> HIDE DEF h
  <2>6. R \in SUBSET Req
    BY <1>4
  <2>7. cur_kv_len \in [Req -> Int] /\ NextTokens \in [Req -> Int] /\ SeqLen \in [Req -> Int]
    BY <1>8
  <2>8. h \in [Req -> Int] /\ \A q \in R : h[q] = cur_kv_len[q] + NextTokens[q]
    BY <2>1, <2>6
  <2>3. Total(R, h) = Total(R, cur_kv_len) + Total(R, NextTokens)
    BY <2>6, <2>7, <2>8, TotalPlus
  <2>4. Total(R, h) <= Total(R, SeqLen)
    BY <2>2, <2>6, <2>7, <2>8, TotalAtMost
  <2>5. QED
    BY <2>3, <2>4
<1>11. running_need = Total(R, NextTokens)
  BY <1>2 DEF IInv, NeedInv, NeedIsExact
<1>12. can_use_mem_size + Total(R, cur_kv_len) = MaxTotal
  BY <1>3 DEF IInv, TokenInv, TokenAccounting
<1>13. can_use_mem_size \in Int /\ MaxTotal \in Int
  BY SplitFuseAssumption DEF IInv, TypeInv, BasicTypes
<1>14. Total(R, NextTokens) + (MaxTotal - can_use_mem_size) <= MaxTotal
  BY <1>8, <1>9, <1>10, <1>12, <1>13
<1>15. QED
  BY <1>11, <1>14 DEF CanDecode

\* A forward brings every request that goes on one step nearer to its end.
LEMMA ForwardLeft ==
  ASSUME IInv, BusyFrom = 0, DecodeBatch, NEW r \in running
  PROVE  LeftLen(r) \in Nat /\ LeftLen(r) >= 1
         /\ (r \in running' => LeftLen(r)' = LeftLen(r) - 1)
<1>1. IInv'
  BY NextIInv DEF Next, Fwd
<1>2. r \in Req /\ Block \in Nat \ {0} /\ MaxNew[r] \in Nat
  BY SplitFuseAssumption DEF IInv, TypeInv, BasicTypes
<1>3. /\ SeqLen[r] \in Int /\ cur_kv_len[r] \in Int /\ cur_output_len[r] \in Int
      /\ cur_output_len[r] < MaxNew[r] /\ cur_kv_len[r] < SeqLen[r]
  BY <1>2, LengthTypes DEF IInv, TypeInv, BasicTypes, LengthInv, BlocksInOrder
<1>4. LeftLen(r) = Blocks(r) + MaxNew[r] - cur_output_len[r] - 1 /\ LeftLen(r) \in Nat
  BY <1>2, <1>3, BusyLeft
<1>5. PICK d \in Int : d = SeqLen[r] - cur_kv_len[r] /\ d >= 1
  BY <1>3
<1>6. Blocks(r) = (d + Block - 1) \div Block
  BY <1>5 DEF Blocks
<1>7. Blocks(r)' = (SeqLen'[r] - cur_kv_len'[r] + Block - 1) \div Block
  BY DEF Blocks
<1>8. cur_kv_len'[r] = cur_kv_len[r] + NextTokens[r] /\ NextTokens[r] \in 1..Block
  BY Forward DEF IInv
<1>9. r \in running' => cur_output_len'[r] < MaxNew[r]
  BY <1>1 DEF IInv, LengthInv
<1>10. r \in running' =>
         LeftLen(r)' = Blocks(r)' + MaxNew[r] - cur_output_len'[r] - 1
  BY <1>1, <1>2, <1>9, NextBusyLeft
<1>11. CASE /\ NextTokens[r] = SeqLen[r] - cur_kv_len[r]
            /\ cur_output_len'[r] = cur_output_len[r] + 1
            /\ SeqLen'[r] = SeqLen[r] + 1
  <2>1. d \in 1..Block /\ SeqLen'[r] - cur_kv_len'[r] = 1 /\ 1 \in 1..Block
    BY <1>2, <1>3, <1>5, <1>8, <1>11
  <2>2. Blocks(r) = 1
    BY <1>2, <1>6, <2>1, LastBlock
  <2>3. Blocks(r)' = 1
    BY <1>2, <1>7, <2>1, LastBlock
  <2>4. QED
    BY <1>2, <1>3, <1>4, <1>10, <1>11, <2>2, <2>3
<1>12. CASE /\ NextTokens[r] = Block /\ cur_kv_len[r] + Block < SeqLen[r]
            /\ cur_output_len[r] = 0 /\ cur_output_len'[r] = 0
            /\ SeqLen'[r] = SeqLen[r]
  <2>1. PICK a \in Int : a = d - 1 /\ a >= Block
    BY <1>2, <1>3, <1>5, <1>12
  <2>2. d + Block - 1 = a + Block
    BY <1>2, <1>5, <2>1
  <2>3. SeqLen'[r] - cur_kv_len'[r] + Block - 1 = a
    BY <1>2, <1>3, <1>5, <1>8, <1>12, <2>1
  <2>4. Blocks(r) = (a \div Block) + 1 /\ Blocks(r)' = a \div Block
    BY <1>2, <1>6, <1>7, <2>1, <2>2, <2>3, OneBlockMore
  <2>5. a \div Block \in Int /\ a \div Block >= 0
    BY <1>2, <2>1
  <2>6. QED
    BY <1>2, <1>3, <1>4, <1>10, <1>12, <2>4, <2>5
<1>13. QED
  BY <1>11, <1>12, Forward DEF IInv

LEMMA DecodeBatchPeak ==
  ASSUME IInv, PeakInv, BusyFrom = 0, DecodeBatch PROVE PeakInv'
<1>1. IInv'
  BY NextIInv DEF Next, Fwd
<1>2. PICK R \in SUBSET Req : R = running
  BY DEF IInv, TypeInv, BasicTypes
<1>3. PICK Q \in SUBSET R : Q = running'
  BY <1>2, Forward DEF IInv
<1>4. running \cup mini = R /\ running' \cup mini' = Q
  BY <1>2, <1>3, Forward DEF IInv
<1>5. PICK L \in [Req -> Int] : \A r \in Req : L[r] = LeftLen(r)
  <2>1. [r \in Req |-> LeftLen(r)] \in [Req -> Int]
    BY BusyLeft
  <2>2. QED
    BY <2>1
<1>6. PICK M \in [Req -> Int] : \A r \in Req : M[r] = LeftLen(r)'
  <2>1. [r \in Req |-> LeftLen(r)'] \in [Req -> Int]
    BY <1>1, NextBusyLeft
  <2>2. QED
    BY <2>1
<1>7. PICK s \in [Req -> Int] : s = SeqLen
  BY LengthTypes DEF IInv, TypeInv
<1>8. PICK t \in [Req -> Int] : t = SeqLen'
  BY <1>1, NextLengthTypes DEF IInv, TypeInv
<1>9. \A q \in R : L[q] >= 1 /\ s[q] >= 0
  <2>1. \A q \in R : LeftLen(q) >= 1
    BY <1>2, ForwardLeft
  <2>2. \A q \in R : SeqLen[q] >= 0
    <3>1. \A q \in Req : cur_kv_len[q] >= 0 /\ cur_kv_len[q] <= SeqLen[q]
                         /\ cur_kv_len[q] \in Int
      BY DEF IInv, LengthInv, TypeInv, BasicTypes
    <3>2. QED
      BY <1>7, <3>1
  <2>3. QED
    BY <1>5, <1>7, <2>1, <2>2
<1>10. \A q \in Q : M[q] = L[q] - 1 /\ t[q] <= s[q] + 1
  <2>1. \A q \in Q : q \in running /\ q \in running' /\ q \in Req
    BY <1>2, <1>3
  <2>2. \A q \in Q : LeftLen(q)' = LeftLen(q) - 1
    BY <2>1, ForwardLeft
  <2>3. \A q \in Q : SeqLen'[q] = SeqLen[q] \/ SeqLen'[q] = SeqLen[q] + 1
    BY <2>1, Forward DEF IInv
  <2>4. QED
    BY <1>5, <1>6, <1>7, <1>8, <2>1, <2>2, <2>3
<1>11. \A r \in R : NeededAt(R, L, s, r) < MaxTotal
  <2>1. ASSUME NEW r \in R PROVE NeededAt(R, L, s, r) < MaxTotal
    <3>1. PeakAt(R, r) < MaxTotal
      BY <1>4 DEF PeakInv
    <3>2. Longer(R, r) = {q \in R : L[q] >= L[r]} /\ L[r] = LeftLen(r)
      BY <1>5 DEF Longer
    <3>3. QED
      BY <1>7, <3>1, <3>2 DEF PeakAt, NeededAt
  <2>2. QED
    BY <2>1
<1>12. MaxTotal \in Int
  BY SplitFuseAssumption
<1>13. \A r \in Q : NeededAt(Q, M, t, r) < MaxTotal
  BY <1>9, <1>10, <1>11, <1>12, PeakShrinks
<1>14. ASSUME NEW r \in Q PROVE PeakAt(Q, r)' < MaxTotal
  <2>1. Longer(Q, r)' = {q \in Q : M[q] >= M[r]} /\ M[r] = LeftLen(r)'
    BY <1>6 DEF Longer
  <2>2. PeakAt(Q, r)' = LeftLen(r)' * Cardinality(Longer(Q, r)') + Total(Longer(Q, r)', SeqLen')
    BY DEF PeakAt, Total
  <2>3. QED
    BY <1>8, <1>13, <2>1, <2>2 DEF NeededAt
<1>15. \A r \in running' \cup mini' : PeakAt(running \cup mini, r)' < MaxTotal
  <2>1. \A r \in Q : PeakAt(running \cup mini, r)' = PeakAt(Q, r)'
    BY <1>4 DEF PeakAt, Longer, Total
  <2>2. QED
    BY <1>4, <1>14, <2>1
<1>16. at' # "dead"
  BY DEF DecodeBatch
<1>17. QED
  BY <1>15, <1>16 DEF PeakInv

\* A batch taken from the queue was admitted with the estimate of the larger batch.
LEMMA TakeBatchPeak ==
  ASSUME IInv, BusyFrom = 0, StepNewBatch \/ StepMiniBatch PROVE PeakInv'
<1>1. PICK n \in 1..Len(waiting_req_list) :
        /\ NewBatch(n)
        /\ \/ running = {} /\ running' = Scanned(n) /\ mini' = mini
           \/ running' = running /\ mini' = Scanned(n)
  BY DEF StepNewBatch, StepMiniBatch
<1>2. mini = {} /\ running \in SUBSET Req /\ Scanned(n) \in SUBSET Req
  BY ScannedRequests DEF StepNewBatch, StepMiniBatch, IInv, TypeInv, ControlInv, BasicTypes
<1>3. PICK S \in SUBSET Req : S = running \cup Scanned(n)
  BY <1>2
<1>4. Peak(S) < MaxTotal
  BY <1>1, <1>3 DEF NewBatch, CanRun
<1>5. \A r \in S : PeakAt(S, r) < MaxTotal
  BY <1>4, PeakBelow
<1>6. running' \cup mini' = S
  BY <1>1, <1>2, <1>3
<1>7. \A r : LeftLen(r)' = LeftLen(r)
  BY DEF StepNewBatch, StepMiniBatch, reqVars, LeftLen, ExpectedNew, IsBusy, SeqLen
<1>8. SeqLen' = SeqLen
  BY DEF StepNewBatch, StepMiniBatch, reqVars, SeqLen
<1>9. \A r \in S : PeakAt(running \cup mini, r)' = PeakAt(S, r)
  BY <1>6, <1>7, <1>8 DEF PeakAt, Longer, Total
<1>10. at' # "dead"
  BY DEF StepNewBatch, StepMiniBatch
<1>11. QED
  BY <1>5, <1>6, <1>9, <1>10 DEF PeakInv

\* The steps after which the batches, and what their requests need, are as before.
LEMMA SameBatchPeak ==
  ASSUME IInv, PeakInv, [Next]_vars, BusyFrom = 0, ~DecodeBatch,
         running' \cup mini' = running \cup mini, at' # "dead"
  PROVE  PeakInv'
<1>1. IInv'
  BY NextIInv
<1>2. PICK R \in SUBSET Req : R = running \cup mini
  BY DEF IInv, TypeInv, BasicTypes
<1>3. SeqLen' = SeqLen
  BY SameNext DEF IInv
<1>4. \A r \in R : cur_kv_len'[r] = cur_kv_len[r] /\ cur_output_len'[r] = cur_output_len[r]
  <2>1. \A r \in R : r \in Req /\ r \in running' \cup mini' /\ r \notin finished
    BY <1>2 DEF IInv, OwnerInv, OwnedOnce
  <2>2. CASE FreeFinished
    BY <2>1, <2>2 DEF FreeFinished
  <2>3. CASE ~FreeFinished
    BY <2>3 DEF Next, NetIO, Fwd, AddReq, Abort, StepNewBatch, StepMiniBatch, StepDecode, StepPause,
       InitBatch, MergeBatch, vars, reqVars
  <2>4. QED
    BY <2>2, <2>3
<1>5. ASSUME NEW r \in R PROVE LeftLen(r)' = LeftLen(r)
  <2>1. cur_output_len[r] < MaxNew[r] /\ r \in Req
    BY <1>2 DEF IInv, LengthInv
  <2>2. Blocks(r)' = Blocks(r)
    BY <1>3, <1>4 DEF Blocks
  <2>3. LeftLen(r) = Blocks(r) + MaxNew[r] - cur_output_len[r] - 1
    BY <2>1, BusyLeft
  <2>4. LeftLen(r)' = Blocks(r)' + MaxNew[r] - cur_output_len'[r] - 1
    BY <1>1, <1>4, <2>1, NextBusyLeft
  <2>5. QED
    BY <1>4, <2>2, <2>3, <2>4
<1>6. \A r \in R : PeakAt(running \cup mini, r)' = PeakAt(R, r)
  <2>1. ASSUME NEW r \in R PROVE Longer(R, r)' = Longer(R, r)
    BY <1>5 DEF Longer
  <2>2. ASSUME NEW r \in R
        PROVE  PeakAt(running \cup mini, r)'
                 = LeftLen(r)' * Cardinality(Longer(R, r)') + Total(Longer(R, r)', SeqLen')
    BY <1>2 DEF PeakAt, Longer, Total
  <2>3. QED
    BY <1>3, <1>5, <2>1, <2>2 DEF PeakAt
<1>7. QED
  BY <1>2, <1>6 DEF PeakInv

LEMMA NextPeak == IInv /\ PeakInv /\ [Next]_vars => PeakInv'
<1> SUFFICES ASSUME IInv, PeakInv, [Next]_vars, BusyFrom = 0 PROVE PeakInv'
  BY DEF PeakInv
<1>1. at # "dead"
  BY DEF PeakInv
<1>2. CASE DecodeBatch
  BY <1>2, DecodeBatchPeak
<1>3. CASE StepNewBatch \/ StepMiniBatch
  BY <1>3, TakeBatchPeak
<1>4. CASE StepPause
  BY <1>4, BusyCanDecode DEF StepPause, DecodePhase
<1>5. CASE ~DecodeBatch /\ ~(StepNewBatch \/ StepMiniBatch) /\ ~StepPause
  <2>1. running' \cup mini' = running \cup mini /\ at' # "dead"
    BY <1>1, <1>5 DEF Next, NetIO, Fwd, AddReq, Abort, StepDecode, InitBatch, MergeBatch,
       FreeFinished, vars, batchVars
  <2>2. QED
    BY <1>5, <2>1, SameBatchPeak
<1>6. QED
  BY <1>2, <1>3, <1>4, <1>5

\* NeverPauses: with router_token_ratio 0 the peak estimated at admission bounds every
\* later state, so no request is ever paused, and loop_for_fwd does not end.
THEOREM SplitFuseNeverPauses == ASSUME BusyFrom = 0 PROVE Spec => []NeverPauses
<1>1. Init => PeakInv
  BY DEF Init, PeakInv
<1>2. PeakInv => NeverPauses
  BY DEF PeakInv, NeverPauses
<1>3. IInv /\ PeakInv /\ [Next]_vars => PeakInv'
  BY NextPeak
<1>4. Spec => []PeakInv
  BY <1>1, <1>3, SplitFuseInvariant, PTL DEF Spec
<1>5. QED
  BY <1>2, <1>4, PTL

=============================================================================

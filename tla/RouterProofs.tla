---------------------------- MODULE RouterProofs ----------------------------
(***************************************************************************)
(* Theorems about Router, for every set of requests and every setting that *)
(* satisfies RouterAssumption.  The inductive invariant is proved part by  *)
(* part: each part is preserved by every step from a state in which it and *)
(* the parts before it hold.                                               *)
(***************************************************************************)
EXTENDS Router, FiniteSetTheorems, SequenceTheorems, WellFoundedInduction, TLAPS

-----------------------------------------------------------------------------
(***************************************************************************)
(* Finite sets, cells, and the queue                                       *)
(***************************************************************************)

\* A set of requests is finite (each of the batches of the router is one).
LEMMA ReqSubset ==
  ASSUME NEW S \in SUBSET Req
  PROVE  IsFiniteSet(S) /\ Cardinality(S) \in Nat
BY RouterAssumption, FS_Subset, FS_CardinalityType

\* Sizes of disjoint unions, differences and subsets.
LEMMA FiniteCard ==
  ASSUME NEW S, NEW T, IsFiniteSet(S), IsFiniteSet(T)
  PROVE  /\ S \cap T = {} => Cardinality(S \cup T) = Cardinality(S) + Cardinality(T)
         /\ T \subseteq S => Cardinality(S \ T) = Cardinality(S) - Cardinality(T)
         /\ T \subseteq S => Cardinality(T) <= Cardinality(S)
<1>1. Cardinality(S) \in Nat /\ Cardinality(T) \in Nat
  BY FS_CardinalityType
<1>2. S \cap T = {} => Cardinality(S \cup T) = Cardinality(S) + Cardinality(T)
  <2>1. Cardinality(S \cup T) = Cardinality(S) + Cardinality(T) - Cardinality(S \cap T)
    BY FS_Union
  <2>2. S \cap T = {} => Cardinality(S \cap T) = 0
    BY FS_EmptySet
  <2> QED
    BY <1>1, <2>1, <2>2
<1>3. T \subseteq S => Cardinality(S \ T) = Cardinality(S) - Cardinality(T)
  <2> HAVE T \subseteq S
  <2>1. S \cap T = T
    OBVIOUS
  <2> QED
    BY <1>1, <2>1, FS_Difference
<1>4. T \subseteq S => Cardinality(T) <= Cardinality(S)
  BY FS_Subset
<1> QED
  BY <1>2, <1>3, <1>4

\* The same for batches.
LEMMA ReqCard ==
  ASSUME NEW S \in SUBSET Req, NEW T \in SUBSET Req
  PROVE  /\ S \cap T = {} => Cardinality(S \cup T) = Cardinality(S) + Cardinality(T)
         /\ T \subseteq S => Cardinality(S \ T) = Cardinality(S) - Cardinality(T)
         /\ T \subseteq S => Cardinality(T) <= Cardinality(S)
BY ReqSubset, FiniteCard

\* A set of cells of req_to_token_indexs is finite.
LEMMA CellSubset ==
  ASSUME NEW C \in SUBSET (Req \X Position)
  PROVE  IsFiniteSet(C) /\ Cardinality(C) \in Nat
<1>1. IsFiniteSet(Position)
  BY RouterAssumption, FS_Interval DEF Position
<1>2. IsFiniteSet(Req \X Position)
  BY <1>1, RouterAssumption, FS_Product
<1> QED
  BY <1>2, FS_Subset, FS_CardinalityType

LEMMA CellCard ==
  ASSUME NEW C \in SUBSET (Req \X Position), NEW D \in SUBSET (Req \X Position)
  PROVE  /\ C \cap D = {} => Cardinality(C \cup D) = Cardinality(C) + Cardinality(D)
         /\ D \subseteq C => Cardinality(C \ D) = Cardinality(C) - Cardinality(D)
         /\ D \subseteq C => Cardinality(D) <= Cardinality(C)
BY CellSubset, FiniteCard

LEMMA MinElement ==
  ASSUME NEW T, T \subseteq Nat, T # {}
  PROVE  \E m \in T : \A n \in T : m <= n
<1>1. PICK m \in T : \A n \in T : <<n, m>> \notin OpToRel(<, Nat)
  BY NatLessThanWellFounded, WFMin
<1>2. \A n \in T : ~(n < m)
  BY <1>1 DEF OpToRel
<1> QED
  BY <1>2

\* The requests of a prefix of the queue are requests.
LEMMA ScannedSubset ==
  ASSUME TypeOK, NEW n \in 1..Len(waiting_req_list)
  PROVE  /\ Scanned(n) \in SUBSET Req
         /\ \A r \in Scanned(n) : \E i \in 1..n : waiting_req_list[i] = r
BY DEF TypeOK, Scanned

\* A queue that lost its first n requests.
LEMMA TakenQueue ==
  ASSUME TypeOK, NEW n \in 1..Len(waiting_req_list), TakeFromQueue(n)
  PROVE  /\ waiting_req_list' \in Seq(Req)
         /\ Len(waiting_req_list') = Len(waiting_req_list) - n
         /\ \A i \in 1..Len(waiting_req_list') :
              waiting_req_list'[i] = waiting_req_list[n + i]
<1> DEFINE s == waiting_req_list
<1>1. s \in Seq(Req) /\ Len(s) \in Nat
  BY DEF TypeOK
<1>2. \A i \in (n + 1)..Len(s) : s[i] \in Req
  BY <1>1
<1>3. SubSeq(s, n + 1, Len(s)) \in Seq(Req)
      /\ Len(SubSeq(s, n + 1, Len(s))) = (IF n + 1 <= Len(s) THEN Len(s) - (n + 1) + 1 ELSE 0)
      /\ \A i \in 1..(Len(s) - (n + 1) + 1) : SubSeq(s, n + 1, Len(s))[i] = s[n + 1 + i - 1]
  BY <1>1, <1>2, SubSeqProperties
<1> QED
  BY <1>1, <1>3 DEF TakeFromQueue

-----------------------------------------------------------------------------
(***************************************************************************)
(* Types and control                                                       *)
(***************************************************************************)
TypeInv == TypeOK /\ ControlInv

\* What a forward does with the finish status is a finish status.
LEMMA FinishAfterType ==
  ASSUME NEW r, NEW stopped PROVE FinishAfter(r, stopped) \in FinishStatus
BY DEF FinishAfter, FinishStatus

LEMMA InitTypeInv == Init => TypeInv
<1> SUFFICES ASSUME Init PROVE TypeInv
  OBVIOUS
<1>1. waiting_req_list \in Seq(Req)
  BY EmptySeq DEF Init
<1>2. MaxTotal \in Int /\ RunningMaxReqSize + SlotMargin \in Int
      /\ 0 \in 0..MaxWaitTokens
  BY RouterAssumption DEF SlotMargin
<1>3. cache \in [{"running", "mini"} -> SUBSET Req]
  BY DEF Init
<1>4. abort_at \in [Req -> Nat \cup {NotAborted}]
  BY DEF Init
<1>5. cur_output_len \in [Req -> Nat] /\ cur_kv_len \in [Req -> Nat]
  BY DEF Init
<1>6. TypeOK
  <2>1. req_status \in [Req -> ReqRunStatus] /\ finish_status \in [Req -> FinishStatus]
        /\ sent \in [Req -> FinishStatus]
    BY DEF Init, ReqRunStatus, FinishStatus
  <2>2. /\ is_running \in BOOLEAN
     BY DEF Init
  <2>3.   /\ running \subseteq Req /\ mini \subseteq Req /\ finished \subseteq Req /\ requests_mapping \subseteq Req
     BY DEF Init
  <2>4.   /\ running_need \in Int /\ mini_need \in Int
     BY DEF Init
  <2>5.   /\ at \in {"step", "init", "prefill", "decode", "finish", "merge", "pause", "dead"}
        /\ on \in {"new", "mini", "decode"}
    BY DEF Init
  <2>6. can_use_mem_size \in Int /\ can_use_req_size \in Int  /\ has_wait_tokens \in 0..MaxWaitTokens
    BY <1>2 DEF Init
  <2> QED
    BY <1>1, <1>3, <1>4, <1>5, <2>1, <2>2, <2>3, <2>4, <2>5, <2>6 DEF TypeOK
<1>7. ControlInv
  BY DEF Init, ControlInv, BatchOf
<1> QED
  BY <1>6, <1>7 DEF TypeInv

\* The end of _step keeps its part of the types and of the control.
LEMMA EndOfStepType ==
  ASSUME TypeInv, EndOfStep(on), at \in {"prefill", "decode", "finish"},
         running' \subseteq Req, mini' \subseteq Req,
         on' = on, finished' = {}, mini' = mini \/ on = "mini"
  PROVE  /\ is_running' \in BOOLEAN
         /\ has_wait_tokens' \in 0..MaxWaitTokens
         /\ at' \in {"step", "merge"}
         /\ ControlInv'
<1> USE DEF TypeInv, TypeOK, ControlInv
<1>1. CASE on = "new"
  BY <1>1, RouterAssumption DEF EndOfStep
<1>2. CASE on = "mini"
  BY <1>2 DEF EndOfStep
<1>3. CASE on = "decode"
  <2>1. has_wait_tokens' = has_wait_tokens + 1 /\ has_wait_tokens < MaxWaitTokens
        /\ at' = "step" /\ is_running' = (running' # {})
    BY <1>3 DEF EndOfStep
  <2> QED
    BY <1>3, <2>1, RouterAssumption
<1> QED
  BY <1>1, <1>2, <1>3

LEMMA AddReqType ==
  ASSUME TypeInv, NEW r \in Req, AddReq(r) PROVE TypeInv'
<1> USE DEF AddReq, TypeInv, batchVars, loopVars, modelVars, otherVars
<1>1. waiting_req_list' \in Seq(Req)
  BY AppendProperties DEF TypeOK
<1>2. req_status' \in [Req -> ReqRunStatus]
  BY DEF TypeOK, ReqRunStatus
<1>3. TypeOK'
  BY <1>1, <1>2 DEF TypeOK
<1>4. ControlInv'
  BY DEF ControlInv, BatchOf
<1> QED
  BY <1>3, <1>4

LEMMA AbortType ==
  ASSUME TypeInv, NEW r \in Req, Abort(r) PROVE TypeInv'
<1> USE DEF Abort, TypeInv, batchVars, loopVars, modelVars
<1>1. finish_status' \in [Req -> FinishStatus]
  BY DEF TypeOK, FinishStatus
<1>2. abort_at' \in [Req -> Nat \cup {NotAborted}]
  BY DEF TypeOK
<1>3. TypeOK'
  BY <1>1, <1>2 DEF TypeOK
<1>4. ControlInv'
  BY DEF ControlInv, BatchOf
<1> QED
  BY <1>3, <1>4

LEMMA StepNewBatchType ==
  ASSUME TypeInv, StepNewBatch PROVE TypeInv'
<1> USE DEF StepNewBatch, TypeInv, modelVars, otherVars
<1>1. PICK n \in 1..Len(waiting_req_list) : running' = Scanned(n) /\ TakeFromQueue(n)
  OBVIOUS
<1>2. waiting_req_list' \in Seq(Req) /\ running' \subseteq Req
  BY <1>1, TakenQueue, ScannedSubset
<1>3. TypeOK'
  BY <1>2 DEF TypeOK
<1>4. ControlInv'
  BY DEF ControlInv, BatchOf
<1> QED
  BY <1>3, <1>4

LEMMA StepMiniBatchType ==
  ASSUME TypeInv, StepMiniBatch PROVE TypeInv'
<1> USE DEF StepMiniBatch, TypeInv, modelVars, otherVars
<1>1. PICK n \in 1..Len(waiting_req_list) : mini' = Scanned(n) /\ TakeFromQueue(n)
  OBVIOUS
<1>2. waiting_req_list' \in Seq(Req) /\ mini' \subseteq Req
  BY <1>1, TakenQueue, ScannedSubset
<1>3. TypeOK'
  BY <1>2, RouterAssumption DEF TypeOK
<1>4. ControlInv'
  BY DEF ControlInv, BatchOf
<1> QED
  BY <1>3, <1>4

\* WaitTokensAtDecode is below the limit: the counter was reset, or had not
\* reached it.
LEMMA WaitTokensBelow ==
  ASSUME TypeInv PROVE WaitTokensAtDecode \in 0..MaxWaitTokens
                       /\ WaitTokensAtDecode < MaxWaitTokens
BY RouterAssumption DEF TypeInv, TypeOK, WaitTokensAtDecode

LEMMA StepDecodeType ==
  ASSUME TypeInv, StepDecode PROVE TypeInv'
<1> USE DEF StepDecode, DecodePhase, TypeInv, queueVars, batchVars, modelVars, otherVars
<1>1. TypeOK'
  BY WaitTokensBelow DEF TypeOK
<1>2. ControlInv'
  BY WaitTokensBelow DEF ControlInv, BatchOf
<1> QED
  BY <1>1, <1>2

LEMMA StepPauseType ==
  ASSUME TypeInv, StepPause PROVE TypeInv'
<1> USE DEF StepPause, DecodePhase, TypeInv, modelVars, otherVars
<1>1. PICK r \in running : /\ running' = running \ {r}
                           /\ req_status' = [req_status EXCEPT ![r] = "PAUSED_AND_OFFLOAD"]
                           /\ waiting_req_list' = <<r>> \o waiting_req_list
  OBVIOUS
<1>2. waiting_req_list' \in Seq(Req)
  <2>1. <<r>> \in Seq(Req)
    BY DEF TypeOK
  <2> QED
    BY <1>1, <2>1, ConcatProperties DEF TypeOK
<1>3. req_status' \in [Req -> ReqRunStatus]
  BY <1>1 DEF TypeOK, ReqRunStatus
<1>4. TypeOK'
  BY <1>1, <1>2, <1>3, WaitTokensBelow DEF TypeOK
<1>5. ControlInv'
  BY <1>1, WaitTokensBelow DEF ControlInv, BatchOf
<1> QED
  BY <1>4, <1>5

LEMMA InitBatchType ==
  ASSUME TypeInv, InitBatch PROVE TypeInv'
<1> USE DEF InitBatch, TypeInv, otherVars
<1>1. BatchOf(on) \subseteq Req
  BY DEF TypeOK, BatchOf
<1>2. Cardinality(BatchOf(on)) \in Int
      /\ Cardinality(BatchOf(on) \ requests_mapping) \in Int
  BY <1>1, ReqSubset
<1>3. /\ req_status' \in [Req -> ReqRunStatus]
      /\ cache' \in [{"running", "mini"} -> SUBSET Req]
  BY <1>1 DEF TypeOK, ReqRunStatus
<1>4. TypeOK'
  BY <1>1, <1>2, <1>3 DEF TypeOK, SetBatch, BatchOf
<1>5. ControlInv'
  BY <1>1 DEF ControlInv, SetBatch, BatchOf
<1> QED
  BY <1>4, <1>5

LEMMA ForwardType ==
  ASSUME TypeInv, PrefillBatch \/ DecodeBatch PROVE TypeInv'
<1> USE DEF PrefillBatch, DecodeBatch, Forward, TypeInv
<1> DEFINE batch == BatchOf(on)
<1>1. PICK stopped \in SUBSET batch : ForwardWith(stopped)
  OBVIOUS
<1> USE DEF ForwardWith
<1> DEFINE done == Done(batch, stopped)
<1>2. batch \subseteq Req /\ done \subseteq batch
  BY DEF TypeOK, BatchOf, Done
<1>3. Cardinality(batch) \in Int /\ Cardinality(done) \in Int
      /\ Cardinality(NewTokens(batch)) \in Int
  BY <1>2, ReqSubset, CellSubset DEF NewTokens, CellsUpTo
<1>4. SeqLen \in [Req -> Nat]
  BY RouterAssumption DEF SeqLen, TypeOK
<1>5. /\ cur_kv_len' \in [Req -> Nat]
      /\ cur_output_len' \in [Req -> Nat]
      /\ finish_status' \in [Req -> FinishStatus]
      /\ sent' \in [Req -> FinishStatus]
  BY <1>1, <1>4, FinishAfterType DEF TypeOK
<1>6. /\ running' \subseteq Req /\ mini' \subseteq Req /\ finished' \subseteq Req
      /\ running_need' \in Int /\ mini_need' \in Int
      /\ mini' = mini \/ on = "mini"
  BY <1>1, <1>2, <1>3 DEF TypeOK, SetBatch
<1>7. /\ is_running' \in BOOLEAN
      /\ has_wait_tokens' \in 0..MaxWaitTokens
      /\ at' \in {"step", "merge", "finish"}
      /\ ControlInv'
  <2>1. CASE done = {}
    BY <2>1, <1>1, <1>6, EndOfStepType
  <2>2. CASE done # {}
    BY <2>2, <1>1, <1>6 DEF TypeOK, ControlInv
  <2> QED
    BY <2>1, <2>2
<1>8. TypeOK'
  BY <1>1, <1>3, <1>5, <1>6, <1>7 DEF TypeOK
<1> QED
  BY <1>7, <1>8

LEMMA FreeFinishedType ==
  ASSUME TypeInv, FreeFinished PROVE TypeInv'
<1> USE DEF FreeFinished, FreedReqs, FreedTokens, TypeInv, queueVars, otherVars
<1>1. Cardinality(finished) \in Int
      /\ Cardinality(CellsUpTo(finished, cur_kv_len)) \in Int
  BY ReqSubset, CellSubset DEF CellsUpTo, TypeOK
<1>2. /\ cur_kv_len' \in [Req -> Nat]
      /\ cache' \in [{"running", "mini"} -> SUBSET Req]
  BY DEF TypeOK
<1>3. /\ is_running' \in BOOLEAN
      /\ has_wait_tokens' \in 0..MaxWaitTokens
      /\ at' \in {"step", "merge"}
      /\ ControlInv'
  BY EndOfStepType DEF TypeOK
<1>4. /\ can_use_mem_size' \in Int
      /\ can_use_req_size' \in Int
  BY <1>1 DEF TypeOK
<1>5. /\ UNCHANGED <<waiting_req_list, req_status, finish_status, cur_output_len>>
      /\ UNCHANGED <<running, mini, running_need, mini_need, on, sent, abort_at>>
      /\ finished' = {} /\ requests_mapping' \subseteq requests_mapping
  BY DEF batchVars
<1> HIDE DEF FreeFinished, FreedReqs, FreedTokens, queueVars, otherVars
<1>6. TypeOK'
  BY <1>2, <1>3, <1>4, <1>5 DEF TypeOK
<1> QED
  BY <1>3, <1>6

LEMMA MergeBatchType ==
  ASSUME TypeInv, MergeBatch PROVE TypeInv'
<1> USE DEF MergeBatch, TypeInv, queueVars, otherVars
<1>1. cache' \in [{"running", "mini"} -> SUBSET Req]
  BY DEF TypeOK
<1>2. TypeOK'
  BY <1>1 DEF TypeOK
<1>3. ControlInv'
  BY DEF ControlInv, BatchOf
<1> QED
  BY <1>2, <1>3

LEMMA PauseReqsType ==
  ASSUME TypeInv, PauseReqs PROVE TypeInv'
<1> USE DEF PauseReqs, TypeInv, queueVars, batchVars, otherVars
<1>1. cache' \in [{"running", "mini"} -> SUBSET Req]
  BY DEF TypeOK
<1>2. TypeOK'
  BY <1>1 DEF TypeOK
<1>3. ControlInv'
  BY DEF ControlInv, BatchOf
<1> QED
  BY <1>2, <1>3

LEMMA TypeStep == TypeInv /\ [Next]_vars => TypeInv'
<1> SUFFICES ASSUME TypeInv, [Next]_vars PROVE TypeInv'
  OBVIOUS
<1>1. CASE UNCHANGED vars
  BY <1>1 DEF vars, queueVars, batchVars, loopVars, modelVars, otherVars, TypeInv, TypeOK,
     ControlInv
<1>2. CASE NetIO
  BY <1>2, AddReqType, AbortType DEF NetIO
<1>3. CASE Fwd
  BY <1>3, StepNewBatchType, StepMiniBatchType, StepDecodeType, StepPauseType,
     InitBatchType, ForwardType, FreeFinishedType, MergeBatchType, PauseReqsType DEF Fwd
<1> QED
  BY <1>1, <1>2, <1>3 DEF Next

\* Every variable keeps its type, and _step is only ever suspended at one of its
\* awaits with the batches that await is about.
THEOREM TypeCorrect == Spec => []TypeOK
<1>1. TypeInv => TypeOK
  BY DEF TypeInv
<1> QED
  BY <1>1, InitTypeInv, TypeStep, PTL DEF Spec

-----------------------------------------------------------------------------
(***************************************************************************)
(* Where a request is                                                      *)
(***************************************************************************)
\* What both awaits that end a forward have in common.
LEMMA EndOfStepAt ==
  ASSUME NEW p, EndOfStep(p) PROVE at' \in {"step", "merge"}
BY DEF EndOfStep

LEMMA InitOwnerInv == Init => OwnerInv
<1> SUFFICES ASSUME Init PROVE OwnerInv
  OBVIOUS
<1>1. Len(waiting_req_list) = 0
  BY EmptySeq DEF Init
<1> QED
  BY <1>1 DEF Init, OwnerInv, Held, Paused, BatchOf

\* The requests taken from the queue are waiting ones, held by nobody, and no
\* longer in the queue.
LEMMA TakenRequests ==
  ASSUME TypeInv, OwnerInv, at = "step", NEW n \in 1..Len(waiting_req_list), TakeFromQueue(n)
  PROVE  /\ Scanned(n) \cap Held = {}
         /\ \A r \in Scanned(n) : req_status[r] = "WAIT_IN_QUEUE"
         /\ \A i, j \in 1..Len(waiting_req_list') :
              waiting_req_list'[i] = waiting_req_list'[j] => i = j
         /\ \A i \in 1..Len(waiting_req_list') :
              /\ waiting_req_list'[i] \notin Scanned(n) \cup Held
              /\ req_status[waiting_req_list'[i]] = "WAIT_IN_QUEUE"
<1> DEFINE q == waiting_req_list
<1>1. TypeOK /\ Len(q) \in Nat /\ \A i \in 1..Len(q) : q[i] \in Req
  BY DEF TypeInv, TypeOK
<1>2. \A i \in 1..Len(q) : q[i] \notin Held /\ req_status[q[i]] = "WAIT_IN_QUEUE"
  BY <1>1 DEF OwnerInv, Paused
<1>3. \A r \in Scanned(n) : \E i \in 1..n : q[i] = r
  BY <1>1, ScannedSubset
<1>4. Len(q') = Len(q) - n /\ \A i \in 1..Len(q') : q'[i] = q[n + i]
  BY <1>1, TakenQueue
<1>5. \A i \in 1..Len(q') : n + i \in 1..Len(q) /\ \A k \in 1..n : k # n + i
  BY <1>1, <1>4
<1>6. \A i, j \in 1..Len(q) : q[i] = q[j] => i = j
  BY DEF OwnerInv
<1>7. \A i, j \in 1..Len(q') : q'[i] = q'[j] => i = j
  BY <1>1, <1>4, <1>5, <1>6
<1>8. \A i \in 1..Len(q') : q'[i] \notin Scanned(n)
  BY <1>1, <1>3, <1>4, <1>5, <1>6
<1>9. Scanned(n) \cap Held = {} /\ \A r \in Scanned(n) : req_status[r] = "WAIT_IN_QUEUE"
  BY <1>1, <1>2, <1>3
<1> QED
  BY <1>2, <1>4, <1>5, <1>7, <1>8, <1>9

LEMMA AddReqOwner ==
  ASSUME TypeInv, OwnerInv, NEW r \in Req, AddReq(r) PROVE OwnerInv'
<1> USE DEF AddReq, batchVars, loopVars, modelVars, otherVars
<1> DEFINE q == waiting_req_list
<1>1. /\ Len(q) \in Nat /\ Len(q') = Len(q) + 1
      /\ \A i \in 1..Len(q) : q'[i] = q[i]
      /\ q'[Len(q) + 1] = r
  BY AppendProperties DEF TypeInv, TypeOK
<1>2. \A i \in 1..Len(q) : q[i] # r
  BY DEF OwnerInv
<1>3. r \notin Held /\ r \notin Paused
  BY DEF OwnerInv, Paused
<1>4. \A i, j \in 1..Len(q') : q'[i] = q'[j] => i = j
  BY <1>1, <1>2 DEF OwnerInv
<1>5. Held' = Held /\ Paused' = Paused /\ BatchOf(on)' = BatchOf(on)
  BY DEF Held, Paused, BatchOf, TypeInv, TypeOK
<1>6. \A s \in Req : s # r => req_status'[s] = req_status[s]
  BY DEF TypeInv, TypeOK
<1>7. \A i \in 1..Len(q') :
        q'[i] \notin Held /\ req_status'[q'[i]] \in {"WAIT_IN_QUEUE", "PAUSED_AND_OFFLOAD"}
  <2> SUFFICES ASSUME NEW i \in 1..Len(q')
               PROVE  q'[i] \notin Held
                      /\ req_status'[q'[i]] \in {"WAIT_IN_QUEUE", "PAUSED_AND_OFFLOAD"}
    OBVIOUS
  <2>1. CASE i \in 1..Len(q)
    <3>1. q'[i] = q[i] /\ q[i] \in Req /\ q[i] # r
      BY <2>1, <1>1, <1>2 DEF TypeInv, TypeOK
    <3> QED
      BY <2>1, <3>1, <1>6 DEF OwnerInv
  <2>2. CASE i = Len(q) + 1
    BY <2>2, <1>1, <1>3 DEF TypeInv, TypeOK
  <2> QED
    BY <2>1, <2>2, <1>1
<1>8. \A s \in Held : req_status'[s] = req_status[s]
  BY <1>3, <1>6 DEF Held, TypeInv, TypeOK
<1> QED
  BY <1>4, <1>5, <1>7, <1>8 DEF OwnerInv

LEMMA AbortOwner ==
  ASSUME OwnerInv, NEW r \in Req, Abort(r) PROVE OwnerInv'
BY DEF Abort, OwnerInv, Held, Paused, BatchOf, batchVars, loopVars, modelVars

LEMMA StepNewBatchOwner ==
  ASSUME TypeInv, OwnerInv, StepNewBatch PROVE OwnerInv'
<1> USE DEF StepNewBatch, modelVars, otherVars
<1>1. PICK n \in 1..Len(waiting_req_list) : running' = Scanned(n) /\ TakeFromQueue(n)
  OBVIOUS
<1>2. running = {} /\ mini = {} /\ finished = {} /\ Paused = {}
  BY DEF TypeInv, ControlInv, OwnerInv
<1>3. /\ Held' = Scanned(n) /\ Held = {} /\ BatchOf(on)' = Scanned(n)
      /\ Paused' = {} /\ requests_mapping' = {}
  BY <1>1, <1>2 DEF Held, BatchOf, Paused, OwnerInv
<1> QED
  BY <1>1, <1>2, <1>3, TakenRequests DEF OwnerInv

LEMMA StepMiniBatchOwner ==
  ASSUME TypeInv, OwnerInv, StepMiniBatch PROVE OwnerInv'
<1> USE DEF StepMiniBatch, modelVars, otherVars
<1>1. PICK n \in 1..Len(waiting_req_list) : mini' = Scanned(n) /\ TakeFromQueue(n)
  OBVIOUS
<1>2. mini = {} /\ finished = {} /\ Paused = {}
  BY DEF TypeInv, ControlInv, OwnerInv
<1>3. /\ Held' = running \cup Scanned(n) /\ Held = running /\ BatchOf(on)' = Scanned(n)
      /\ Paused' = {} /\ requests_mapping' = running
  BY <1>1, <1>2 DEF Held, BatchOf, Paused, OwnerInv
<1>4. Scanned(n) \cap running = {}
  BY <1>1, <1>3, TakenRequests
<1> QED
  BY <1>1, <1>2, <1>3, <1>4, TakenRequests DEF OwnerInv

LEMMA StepDecodeOwner ==
  ASSUME OwnerInv, StepDecode PROVE OwnerInv'
BY DEF StepDecode, DecodePhase, OwnerInv, Held, Paused, BatchOf, queueVars, batchVars,
   modelVars, otherVars

LEMMA StepPauseOwner ==
  ASSUME TypeInv, OwnerInv, StepPause PROVE OwnerInv'
<1> USE DEF StepPause, DecodePhase, modelVars, otherVars
<1> DEFINE q == waiting_req_list
<1>1. PICK r \in running : /\ running' = running \ {r}
                           /\ req_status' = [req_status EXCEPT ![r] = "PAUSED_AND_OFFLOAD"]
                           /\ q' = <<r>> \o q
  OBVIOUS
<1>2. r \in Req /\ q \in Seq(Req) /\ <<r>> \in Seq(Req) /\ Len(<<r>>) = 1 /\ <<r>>[1] = r
  BY DEF TypeInv, TypeOK
<1>3. /\ Len(q) \in Nat /\ Len(q') = Len(q) + 1
      /\ q'[1] = r
      /\ \A i \in 2..Len(q) + 1 : q'[i] = q[i - 1]
  BY <1>1, <1>2, ConcatProperties
<1>4. \A i \in 1..Len(q) : q[i] # r /\ q[i] \in Req
  BY <1>2 DEF OwnerInv, Held
<1>5. \A i, j \in 1..Len(q') : q'[i] = q'[j] => i = j
  BY <1>3, <1>4 DEF OwnerInv
<1>6. /\ Paused = {} /\ Paused' = {r} /\ mini = {} /\ finished = {}
      /\ Held = running /\ Held' = running \ {r}
  BY <1>1, <1>2 DEF Paused, OwnerInv, TypeInv, TypeOK, ControlInv, Held
<1>7. \A i \in 1..Len(q') :
        q'[i] \notin Held' /\ req_status'[q'[i]] \in {"WAIT_IN_QUEUE", "PAUSED_AND_OFFLOAD"}
  <2> SUFFICES ASSUME NEW i \in 1..Len(q')
               PROVE  q'[i] \notin Held'
                      /\ req_status'[q'[i]] \in {"WAIT_IN_QUEUE", "PAUSED_AND_OFFLOAD"}
    OBVIOUS
  <2>1. CASE i = 1
    BY <2>1, <1>1, <1>2, <1>3, <1>6 DEF TypeInv, TypeOK
  <2>2. CASE i \in 2..Len(q) + 1
    <3>1. i - 1 \in 1..Len(q) /\ q'[i] = q[i - 1]
      BY <2>2, <1>3
    <3> QED
      BY <3>1, <1>1, <1>4, <1>6 DEF OwnerInv, TypeInv, TypeOK
  <2> QED
    BY <2>1, <2>2, <1>3
<1>8. \A s \in Held' : req_status'[s] = "RUNNING"
  BY <1>1, <1>6 DEF OwnerInv, TypeInv, TypeOK
<1>9. requests_mapping' = Held' \cup Paused'
  BY <1>1, <1>6 DEF OwnerInv
<1> QED
  BY <1>5, <1>6, <1>7, <1>8, <1>9 DEF OwnerInv

LEMMA InitBatchOwner ==
  ASSUME TypeInv, OwnerInv, InitBatch PROVE OwnerInv'
<1> USE DEF InitBatch, otherVars
<1>1. /\ running' = running /\ mini' = mini /\ BatchOf(on) \subseteq Held
      /\ Held' = Held /\ finished' = finished
  BY DEF SetBatch, BatchOf, Held, TypeInv, ControlInv
<1>2. Paused = {} /\ Paused' = {}
  BY DEF OwnerInv, Paused, TypeInv, TypeOK
<1>3. \A r \in Held : req_status'[r] = "RUNNING"
  BY <1>1 DEF OwnerInv, Held, TypeInv, TypeOK
<1>4. \A i \in 1..Len(waiting_req_list) :
        /\ waiting_req_list[i] \in Req
        /\ waiting_req_list[i] \notin BatchOf(on)
        /\ req_status'[waiting_req_list[i]] = req_status[waiting_req_list[i]]
  BY <1>1 DEF OwnerInv, TypeInv, TypeOK
<1>5. requests_mapping' = Held'
  BY <1>1, <1>2 DEF OwnerInv
<1> QED
  BY <1>1, <1>2, <1>3, <1>4, <1>5 DEF OwnerInv

LEMMA ForwardOwner ==
  ASSUME TypeInv, OwnerInv, PrefillBatch \/ DecodeBatch PROVE OwnerInv'
<1> USE DEF PrefillBatch, DecodeBatch, Forward
<1> DEFINE batch == BatchOf(on)
<1>1. PICK stopped \in SUBSET batch : ForwardWith(stopped)
  OBVIOUS
<1> USE DEF ForwardWith
<1> DEFINE done == Done(batch, stopped)
<1>2. done \subseteq batch /\ finished = {} /\ finished' = done
  BY <1>1 DEF Done, TypeInv, ControlInv
<1>3. /\ Held' = Held
      /\ running' \cap mini' = {} /\ (running' \cup mini') \cap finished' = {}
  BY <1>1, <1>2 DEF SetBatch, BatchOf, Held, OwnerInv
<1>4. at' \in {"step", "merge", "finish"}
  BY <1>1, EndOfStepAt
<1>5. Paused' = {} /\ Paused = {}
  BY <1>1 DEF Paused, OwnerInv
<1> QED
  BY <1>1, <1>3, <1>4, <1>5 DEF OwnerInv

LEMMA FreeFinishedOwner ==
  ASSUME TypeInv, OwnerInv, FreeFinished PROVE OwnerInv'
<1> USE DEF FreeFinished, FreedReqs, queueVars, otherVars
<1>1. Held' = Held \ finished /\ Paused' = {} /\ Paused = {}
  BY DEF Held, OwnerInv, Paused
<1>2. at' \in {"step", "merge"}
  BY EndOfStepAt
<1>3. requests_mapping' = requests_mapping \ finished
  OBVIOUS
<1> QED
  BY <1>1, <1>2, <1>3 DEF OwnerInv

LEMMA MergeBatchOwner ==
  ASSUME TypeInv, OwnerInv, MergeBatch PROVE OwnerInv'
<1> USE DEF MergeBatch, queueVars, otherVars
<1>1. Held' = Held /\ Paused' = Paused
  BY DEF Held, Paused
<1> QED
  BY <1>1 DEF OwnerInv, Held, TypeInv, ControlInv

LEMMA PauseReqsOwner ==
  ASSUME OwnerInv, PauseReqs PROVE OwnerInv'
BY DEF PauseReqs, OwnerInv, Held, Paused, BatchOf, queueVars, batchVars, otherVars

LEMMA OwnerStep == TypeInv /\ OwnerInv /\ [Next]_vars => OwnerInv'
<1> SUFFICES ASSUME TypeInv, OwnerInv, [Next]_vars PROVE OwnerInv'
  OBVIOUS
<1>1. CASE UNCHANGED vars
  BY <1>1 DEF vars, queueVars, batchVars, loopVars, modelVars, otherVars, OwnerInv, Held,
     Paused, BatchOf
<1>2. CASE NetIO
  BY <1>2, AddReqOwner, AbortOwner DEF NetIO
<1>3. CASE Fwd
  BY <1>3, StepNewBatchOwner, StepMiniBatchOwner, StepDecodeOwner, StepPauseOwner,
     InitBatchOwner, ForwardOwner, FreeFinishedOwner, MergeBatchOwner, PauseReqsOwner
     DEF Fwd
<1> QED
  BY <1>1, <1>2, <1>3 DEF Next

\* A request is in one place only, and the model process knows exactly those
\* that were initialised and not released: none is lost, run twice or kept.
THEOREM OwnedOnceCorrect == Spec => []OwnedOnce
<1>1. TypeInv /\ OwnerInv => OwnedOnce
  BY DEF TypeInv, TypeOK, OwnerInv, OwnedOnce, Held, InQueue
<1> QED
  BY <1>1, InitTypeInv, TypeStep, InitOwnerInv, OwnerStep, PTL DEF Spec

-----------------------------------------------------------------------------
(***************************************************************************)
(* The batch, its decode need, and its copy in the model process           *)
(***************************************************************************)
OwnInv == TypeInv /\ OwnerInv

LEMMA InitNeedInv == Init => NeedInv
BY FS_EmptySet DEF Init, NeedInv

LEMMA NeedStep == OwnInv /\ NeedInv /\ [Next]_vars => NeedInv'
<1> SUFFICES ASSUME OwnInv, NeedInv, [Next]_vars PROVE NeedInv'
  OBVIOUS
<1> USE DEF NeedInv
<1>0. running \in SUBSET Req /\ mini \in SUBSET Req
  BY DEF OwnInv, TypeInv, TypeOK
<1>1. CASE UNCHANGED vars
  BY <1>1 DEF vars, batchVars, loopVars
<1>2. CASE NetIO
  BY <1>2 DEF NetIO, AddReq, Abort, batchVars, loopVars
<1>3. CASE StepNewBatch
  BY <1>3 DEF StepNewBatch
<1>4. CASE StepMiniBatch
  BY <1>4 DEF StepMiniBatch
<1>5. CASE StepDecode
  BY <1>5 DEF StepDecode, DecodePhase, batchVars
<1>6. CASE StepPause
  <2>1. PICK r \in running : running' = running \ {r}
    BY <1>6 DEF StepPause
  <2>2. Cardinality(running \ {r}) = Cardinality(running) - 1
    BY <1>0, <2>1, ReqSubset, FS_RemoveElement
  <2> QED
    BY <1>6, <2>1, <2>2 DEF StepPause, DecodePhase
<1>7. CASE InitBatch
  BY <1>7 DEF InitBatch, SetBatch, BatchOf, OwnInv, TypeInv, ControlInv
<1>8. CASE PrefillBatch \/ DecodeBatch
  <2>1. PICK stopped \in SUBSET BatchOf(on) : ForwardWith(stopped)
    BY <1>8 DEF PrefillBatch, DecodeBatch, Forward
  <2> DEFINE batch == BatchOf(on)
             done  == Done(batch, stopped)
  <2>2. batch \in SUBSET Req /\ done \in SUBSET Req /\ done \subseteq batch
    BY <1>0 DEF BatchOf, Done
  <2>3. Cardinality(batch \ done) = Cardinality(batch) - Cardinality(done)
    BY <2>2, ReqCard
  <2>4. at \in {"prefill", "decode"} /\ at' \in {"step", "merge", "finish"}
    BY <1>8, <2>1, EndOfStepAt DEF ForwardWith, PrefillBatch, DecodeBatch
  <2> QED
    BY <2>1, <2>3, <2>4 DEF ForwardWith, SetBatch, BatchOf
<1>9. CASE FreeFinished
  <2>1. at' \in {"step", "merge"}
    BY <1>9, EndOfStepAt DEF FreeFinished
  <2> QED
    BY <1>9, <2>1 DEF FreeFinished
<1>10. CASE MergeBatch
  <2>1. Cardinality(running \cup mini) = Cardinality(running) + Cardinality(mini)
    BY <1>0, ReqCard DEF OwnInv, OwnerInv
  <2> QED
    BY <1>10, <2>1, FS_EmptySet DEF MergeBatch
<1>11. CASE PauseReqs
  BY <1>11 DEF PauseReqs, batchVars
<1> QED
  BY <1>1, <1>2, <1>3, <1>4, <1>5, <1>6, <1>7, <1>8, <1>9, <1>10, <1>11 DEF Next, Fwd

LEMMA InitCacheInv == Init => CacheInv
BY DEF Init, CacheInv, BatchesAgree

LEMMA CacheStep == OwnInv /\ CacheInv /\ [Next]_vars => CacheInv'
<1> SUFFICES ASSUME OwnInv, CacheInv, [Next]_vars PROVE CacheInv'
  OBVIOUS
<1> USE DEF CacheInv, BatchesAgree, BatchOf, KeyOf
<1>0. cache \in [{"running", "mini"} -> SUBSET Req] /\ ControlInv
  BY DEF OwnInv, TypeInv, TypeOK
<1>1. CASE UNCHANGED vars
  BY <1>1 DEF vars, batchVars, loopVars, modelVars
<1>2. CASE NetIO
  BY <1>2 DEF NetIO, AddReq, Abort, batchVars, loopVars, modelVars
<1>3. CASE StepNewBatch
  BY <1>3, <1>0 DEF StepNewBatch, modelVars
<1>4. CASE StepMiniBatch
  BY <1>4 DEF StepMiniBatch, modelVars
<1>5. CASE StepDecode
  BY <1>5 DEF StepDecode, DecodePhase, batchVars, modelVars
<1>6. CASE StepPause
  BY <1>6 DEF StepPause, DecodePhase, modelVars
<1>7. CASE InitBatch
  BY <1>7, <1>0 DEF InitBatch, SetBatch, ControlInv
<1>8. CASE PrefillBatch \/ DecodeBatch
  <2>1. PICK stopped \in SUBSET BatchOf(on) : ForwardWith(stopped)
    BY <1>8 DEF PrefillBatch, DecodeBatch, Forward
  <2>2. at \in {"prefill", "decode"} /\ cache' = cache /\ on' = on
    BY <1>8, <2>1 DEF ForwardWith, PrefillBatch, DecodeBatch
  <2>3. Done(BatchOf(on), stopped) \subseteq BatchOf(on)
    BY DEF Done
  <2>4. CASE finished' # {}
    <3>1. at' = "finish" /\ BatchOf(on) = BatchOf(on)' \cup finished'
      BY <2>1, <2>3, <2>4 DEF ForwardWith, SetBatch
    <3> QED
      BY <2>1, <2>2, <3>1, <1>0 DEF ForwardWith, SetBatch, ControlInv
  <2>5. CASE finished' = {}
    <3>1. EndOfStep(on) /\ BatchOf(on)' = BatchOf(on) /\ (on # "mini" => mini' = mini)
          /\ (on = "mini" => running' = running)
      BY <2>1, <2>5 DEF ForwardWith, SetBatch
    <3> QED
      BY <2>1, <2>2, <3>1, <1>0 DEF EndOfStep, ControlInv
  <2> QED
    BY <2>4, <2>5
<1>9. CASE FreeFinished
  <2>1. /\ cache' = [cache EXCEPT ![KeyOf(on)] = @ \ finished]
        /\ UNCHANGED <<running, mini, on>> /\ EndOfStep(on)
    BY <1>9 DEF FreeFinished, FreedReqs
  <2>2. BatchOf(on) \cap finished = {}
    BY DEF OwnInv, OwnerInv
  <2>3. cache[KeyOf(on)] = BatchOf(on) \cup finished
    BY <1>9 DEF FreeFinished
  <2>4. cache'[KeyOf(on)] = BatchOf(on)
        /\ \A k \in {"running", "mini"} : k # KeyOf(on) => cache'[k] = cache[k]
    BY <1>0, <2>1, <2>2, <2>3
  <2> QED
    BY <1>0, <1>9, <2>1, <2>4 DEF FreeFinished, EndOfStep, ControlInv
<1>10. CASE MergeBatch
  BY <1>10, <1>0 DEF MergeBatch, ControlInv
<1>11. CASE PauseReqs
  BY <1>11, <1>0 DEF PauseReqs, ControlInv
<1> QED
  BY <1>1, <1>2, <1>3, <1>4, <1>5, <1>6, <1>7, <1>8, <1>9, <1>10, <1>11 DEF Next, Fwd

\* The stored batch of the model process is the batch the router has in hand at
\* every forward, merge and release.
THEOREM BatchesAgreeCorrect == Spec => []BatchesAgree
<1>1. TypeInv /\ OwnerInv => OwnInv
  BY DEF OwnInv
<1>2. CacheInv => BatchesAgree
  BY DEF CacheInv
<1> QED
  BY <1>1, <1>2, InitTypeInv, TypeStep, InitOwnerInv, OwnerStep, InitCacheInv, CacheStep,
     PTL DEF Spec

-----------------------------------------------------------------------------
(***************************************************************************)
(* Request slots                                                           *)
(***************************************************************************)
\* A new batch fits into the places beside the running batch.
LEMMA NewBatchPlaces ==
  ASSUME OwnInv, NEW n \in 1..Len(waiting_req_list), NewBatch(n)
  PROVE  Cardinality(running \cup Scanned(n)) <= RunningMaxReqSize
<1>1. Scanned(n) \in SUBSET Req /\ running \in SUBSET Req
  BY ScannedSubset DEF OwnInv, TypeInv, TypeOK
<1>2. Cardinality(running \cup Scanned(n)) + Cardinality(Paused \ Scanned(n))
        <= RunningMaxReqSize
  BY <1>1 DEF NewBatch, CanRun
<1>3. Cardinality(running \cup Scanned(n)) \in Nat /\ Cardinality(Paused \ Scanned(n)) \in Nat
  BY <1>1, ReqSubset DEF Paused
<1> QED
  BY <1>2, <1>3, RouterAssumption

LEMMA InitSlotInv == Init => SlotInv
BY FS_EmptySet, RouterAssumption DEF Init, SlotInv, Held, SlotMargin

LEMMA SlotStep == OwnInv /\ SlotInv /\ [Next]_vars => SlotInv'
<1> SUFFICES ASSUME OwnInv, SlotInv, [Next]_vars PROVE SlotInv'
  OBVIOUS
<1>0. /\ running \in SUBSET Req /\ mini \in SUBSET Req /\ finished \in SUBSET Req
      /\ requests_mapping \in SUBSET Req /\ Held \in SUBSET Req
      /\ can_use_req_size \in Int /\ ControlInv
  BY DEF OwnInv, TypeInv, TypeOK, Held
<1>00. Cardinality(Held) \in Nat /\ Cardinality(requests_mapping) \in Nat
       /\ RunningMaxReqSize + SlotMargin \in Nat
  BY <1>0, ReqSubset, RouterAssumption DEF SlotMargin
<1>1. CASE UNCHANGED vars
  BY <1>1 DEF vars, batchVars, loopVars, modelVars, SlotInv, Held
<1>2. CASE NetIO
  BY <1>2 DEF NetIO, AddReq, Abort, batchVars, loopVars, modelVars, SlotInv, Held
<1>3. CASE StepNewBatch
  <2>1. PICK n \in 1..Len(waiting_req_list) : NewBatch(n) /\ running' = Scanned(n)
    BY <1>3 DEF StepNewBatch
  <2>2. running = {} /\ mini = {} /\ finished = {}
    BY <1>0, <1>3 DEF StepNewBatch, ControlInv
  <2>3. Held' = running \cup Scanned(n)
    BY <1>3, <2>1, <2>2 DEF StepNewBatch, Held
  <2>4. Cardinality(Held') <= RunningMaxReqSize
    BY <2>1, <2>3, NewBatchPlaces
  <2> QED
    BY <1>3, <2>4 DEF StepNewBatch, modelVars, SlotInv
<1>4. CASE StepMiniBatch
  <2>1. PICK n \in 1..Len(waiting_req_list) : NewBatch(n) /\ mini' = Scanned(n)
    BY <1>4 DEF StepMiniBatch
  <2>2. finished = {}
    BY <1>0, <1>4 DEF StepMiniBatch, ControlInv
  <2>3. Held' = running \cup Scanned(n)
    BY <1>4, <2>1, <2>2 DEF StepMiniBatch, Held
  <2>4. Cardinality(Held') <= RunningMaxReqSize
    BY <2>1, <2>3, NewBatchPlaces
  <2> QED
    BY <1>4, <2>4 DEF StepMiniBatch, modelVars, SlotInv
<1>5. CASE StepDecode
  BY <1>5 DEF StepDecode, DecodePhase, batchVars, modelVars, SlotInv, Held
<1>6. CASE StepPause
  <2>1. Held' \in SUBSET Held
    BY <1>6 DEF StepPause, Held
  <2>2. Cardinality(Held') \in Nat /\ Cardinality(Held') <= Cardinality(Held)
    BY <1>0, <2>1, ReqSubset, ReqCard
  <2> QED
    BY <1>00, <1>6, <2>2, RouterAssumption DEF StepPause, modelVars, SlotInv
<1>7. CASE InitBatch
  <2> DEFINE fresh == BatchOf(on) \ requests_mapping
  <2>1. fresh \in SUBSET Req /\ requests_mapping \cap fresh = {}
    BY <1>0 DEF BatchOf
  <2>2. Cardinality(requests_mapping \cup fresh)
          = Cardinality(requests_mapping) + Cardinality(fresh)
        /\ Cardinality(fresh) \in Nat
    BY <1>0, <2>1, ReqCard, ReqSubset
  <2>3. Held' = Held
    BY <1>7 DEF InitBatch, SetBatch, BatchOf, Held
  <2>4. /\ can_use_req_size' = can_use_req_size - Cardinality(fresh)
        /\ requests_mapping' = requests_mapping \cup fresh
    BY <1>7 DEF InitBatch
  <2> QED
    BY <1>0, <1>00, <2>2, <2>3, <2>4 DEF SlotInv
<1>8. CASE PrefillBatch \/ DecodeBatch
  <2>1. PICK stopped \in SUBSET BatchOf(on) : ForwardWith(stopped)
    BY <1>8 DEF PrefillBatch, DecodeBatch, Forward
  <2>2. Held' = Held
    BY <1>0, <1>8, <2>1 DEF ForwardWith, PrefillBatch, DecodeBatch, ControlInv, SetBatch,
       BatchOf, Done, Held
  <2> QED
    BY <2>1, <2>2 DEF ForwardWith, SlotInv
<1>9. CASE FreeFinished
  <2>1. finished \subseteq requests_mapping
    BY <1>0, <1>9 DEF FreeFinished, OwnInv, OwnerInv, Held, ControlInv
  <2>2. Cardinality(requests_mapping \ finished)
          = Cardinality(requests_mapping) - Cardinality(finished)
        /\ Cardinality(finished) \in Nat
    BY <1>0, <2>1, ReqCard, ReqSubset
  <2>3. Held' \in SUBSET Held
    BY <1>9 DEF FreeFinished, Held
  <2>4. Cardinality(Held') \in Nat /\ Cardinality(Held') <= Cardinality(Held)
    BY <1>0, <2>3, ReqSubset, ReqCard
  <2>5. /\ can_use_req_size' = can_use_req_size + Cardinality(finished)
        /\ requests_mapping' = requests_mapping \ finished
    BY <1>9 DEF FreeFinished, FreedReqs
  <2> QED
    BY <1>0, <1>00, <2>2, <2>4, <2>5, RouterAssumption DEF SlotInv
<1>10. CASE MergeBatch
  <2>1. Held' = Held
    BY <1>10 DEF MergeBatch, Held
  <2> QED
    BY <1>10, <2>1 DEF MergeBatch, SlotInv
<1>11. CASE PauseReqs
  BY <1>11 DEF PauseReqs, batchVars, SlotInv, Held
<1> QED
  BY <1>1, <1>2, <1>3, <1>4, <1>5, <1>6, <1>7, <1>8, <1>9, <1>10, <1>11 DEF Next, Fwd

\* Slots are conserved, and at every init_batch the pool has SlotMargin slots
\* more than the batch asks for: ReqManager.alloc never returns None.
THEOREM SlotAccountingCorrect == Spec => []SlotAccounting
<1>1. TypeInv /\ OwnerInv => OwnInv
  BY DEF OwnInv
<1>2. OwnInv /\ SlotInv => SlotAccounting
  <2> SUFFICES ASSUME OwnInv, SlotInv PROVE SlotAccounting
    OBVIOUS
  <2>1. CASE at = "init"
    <3> DEFINE batch == BatchOf(on)
    <3>1. /\ Held \in SUBSET Req /\ batch \in SUBSET Req /\ batch \subseteq Held
          /\ can_use_req_size \in Int
      BY DEF OwnInv, TypeInv, TypeOK, BatchOf, Held
    <3>2. requests_mapping = Held \ batch
      BY <2>1 DEF OwnInv, OwnerInv
    <3>3. batch \ requests_mapping = batch
      BY <3>2
    <3>4. Cardinality(Held \ batch) = Cardinality(Held) - Cardinality(batch)
      BY <3>1, ReqCard
    <3>5. Cardinality(Held) \in Nat /\ Cardinality(batch) \in Nat
      BY <3>1, ReqSubset
    <3>6. /\ can_use_req_size + Cardinality(Held \ batch) = RunningMaxReqSize + SlotMargin
          /\ Cardinality(Held) <= RunningMaxReqSize
      BY <3>2 DEF SlotInv
    <3>7. Cardinality(batch) + SlotMargin <= can_use_req_size
      BY <3>1, <3>4, <3>5, <3>6, RouterAssumption DEF SlotMargin
    <3> QED
      BY <3>3, <3>7 DEF SlotAccounting, SlotInv
  <2>2. CASE at # "init"
    BY <2>2 DEF SlotAccounting, SlotInv
  <2> QED
    BY <2>1, <2>2
<1> QED
  BY <1>1, <1>2, InitTypeInv, TypeStep, InitOwnerInv, OwnerStep, InitSlotInv, SlotStep,
     PTL DEF Spec

-----------------------------------------------------------------------------
(***************************************************************************)
(* Lengths: what a request has produced and what it holds in the pool      *)
(***************************************************************************)
LEMMA ParamType ==
  ASSUME NEW r \in Req
  PROVE  /\ InputLen[r] \in Nat /\ InputLen[r] >= 1
         /\ MaxNew[r] \in Nat /\ MaxNew[r] >= 1
         /\ InputLen[r] + MaxNew[r] <= MaxReqTotal
<1>1. InputLen[r] \in Nat \ {0} /\ MaxNew[r] \in Nat \ {0}
  BY RouterAssumption
<1> QED
  BY <1>1, RouterAssumption

\* What Forward does to the lengths, and where it leaves _step.
LEMMA ForwardLengths ==
  ASSUME OwnInv, NEW stopped, ForwardWith(stopped), at \in {"prefill", "decode"}
  PROVE  /\ BatchOf(on) \subseteq running \cup mini
         /\ Held' = Held /\ finished' = Done(BatchOf(on), stopped)
         /\ running' \cup mini' = (running \cup mini) \ finished'
         /\ at' \in {"step", "merge", "finish"}
         /\ \A r \in Req : r \in BatchOf(on) =>
              /\ cur_output_len'[r] = cur_output_len[r] + 1
              /\ cur_kv_len'[r] = InputLen[r] + cur_output_len[r]
              /\ req_status[r] = "RUNNING"
         /\ \A r \in Req : r \notin BatchOf(on) =>
              cur_output_len'[r] = cur_output_len[r] /\ cur_kv_len'[r] = cur_kv_len[r]
<1>1. BatchOf(on) \subseteq running \cup mini
  BY DEF BatchOf
<1>2. finished = {} /\ (running \cap mini = {}) /\ (on # "mini" => mini = {})
  BY DEF OwnInv, TypeInv, ControlInv, OwnerInv
<1>3. finished' = Done(BatchOf(on), stopped) /\ Done(BatchOf(on), stopped) \subseteq BatchOf(on)
  BY DEF ForwardWith, Done
<1>4. Held' = Held /\ running' \cup mini' = (running \cup mini) \ finished'
  BY <1>2, <1>3 DEF ForwardWith, SetBatch, BatchOf, Held
<1>5. at' \in {"step", "merge", "finish"}
  BY EndOfStepAt DEF ForwardWith
<1>6. \A r \in BatchOf(on) : req_status[r] = "RUNNING"
  BY <1>1 DEF OwnInv, OwnerInv, Held
<1>7. /\ cur_kv_len' = [r \in Req |-> IF r \in BatchOf(on) THEN SeqLen[r] ELSE cur_kv_len[r]]
      /\ cur_output_len' = [r \in Req |-> IF r \in BatchOf(on) THEN cur_output_len[r] + 1
                                                               ELSE cur_output_len[r]]
  BY DEF ForwardWith
<1> QED
  BY <1>1, <1>3, <1>4, <1>5, <1>6, <1>7 DEF SeqLen

LEMMA InitLengthInv == Init => LengthInv
BY DEF Init, LengthInv, Held

LEMMA LengthStep == OwnInv /\ LengthInv /\ [Next]_vars => LengthInv'
<1> SUFFICES ASSUME OwnInv, LengthInv, [Next]_vars PROVE LengthInv'
  OBVIOUS
<1>0. TypeOK /\ ControlInv /\ OwnerInv
  BY DEF OwnInv, TypeInv
<1> USE DEF Starting, BatchOf
<1>1. CASE UNCHANGED vars
  BY <1>1 DEF vars, queueVars, batchVars, loopVars, modelVars, LengthInv, Held, SeqLen
<1>2. CASE NetIO
  <2>1. PICK r \in Req : AddReq(r) \/ Abort(r)
    BY <1>2 DEF NetIO
  <2>2. CASE AddReq(r)
    BY <1>0, <2>2 DEF AddReq, batchVars, loopVars, modelVars, LengthInv, Held, SeqLen, TypeOK
  <2>3. CASE Abort(r)
    BY <2>3 DEF Abort, batchVars, loopVars, modelVars, LengthInv, Held, SeqLen
  <2> QED
    BY <2>1, <2>2, <2>3
<1>3. CASE StepNewBatch
  <2>1. PICK n \in 1..Len(waiting_req_list) : TakeFromQueue(n) /\ running' = Scanned(n)
    BY <1>3 DEF StepNewBatch
  <2>2. at = "step" /\ at' = "init" /\ on' = "new" /\ mini' = {} /\ finished' = {}
    BY <1>0, <1>3 DEF StepNewBatch, ControlInv
  <2>3. \A r \in Scanned(n) : r \in Req /\ req_status[r] = "WAIT_IN_QUEUE"
    BY <1>0, <2>1, <2>2, TakenRequests, ScannedSubset DEF OwnInv
  <2>4. \A r \in Scanned(n) : cur_output_len[r] = 0 /\ cur_kv_len[r] = 0 /\ 0 < MaxNew[r]
    BY <2>3, ParamType DEF LengthInv
  <2> QED
    BY <1>3, <2>1, <2>2, <2>4 DEF StepNewBatch, LengthInv, modelVars, Held
<1>4. CASE StepMiniBatch
  <2>1. PICK n \in 1..Len(waiting_req_list) : TakeFromQueue(n) /\ mini' = Scanned(n)
    BY <1>4 DEF StepMiniBatch
  <2>2. /\ at = "step" /\ at' = "init" /\ on' = "mini" /\ running' = running
        /\ finished = {} /\ finished' = {}
        /\ UNCHANGED <<cur_output_len, cur_kv_len, req_status>>
    BY <1>0, <1>4 DEF StepMiniBatch, ControlInv, modelVars
  <2>3. \A r \in Scanned(n) : r \in Req /\ req_status[r] = "WAIT_IN_QUEUE"
    BY <1>0, <2>1, <2>2, TakenRequests, ScannedSubset DEF OwnInv
  <2>4. \A r \in Scanned(n) : cur_output_len[r] = 0 /\ cur_kv_len[r] = 0 /\ 0 < MaxNew[r]
    BY <2>3, ParamType DEF LengthInv
  <2>5. \A r \in running : r \notin Scanned(n)
    BY <1>0, <2>1, <2>2, TakenRequests DEF OwnInv, Held
  <2> QED
    BY <2>1, <2>2, <2>4, <2>5 DEF LengthInv, Held, SeqLen
<1>5. CASE StepDecode
  BY <1>5 DEF StepDecode, DecodePhase, queueVars, batchVars, modelVars, LengthInv, Held, SeqLen
<1>6. CASE StepPause
  <2>1. PICK r \in running : /\ running' = running \ {r}
                             /\ req_status' = [req_status EXCEPT ![r] = "PAUSED_AND_OFFLOAD"]
    BY <1>6 DEF StepPause
  <2> QED
    BY <1>0, <1>6, <2>1 DEF StepPause, DecodePhase, modelVars, LengthInv, Held, SeqLen, TypeOK
<1>7. CASE InitBatch
  BY <1>0, <1>7 DEF InitBatch, SetBatch, LengthInv, Held, SeqLen
<1>8. CASE PrefillBatch \/ DecodeBatch
  <2>1. PICK stopped \in SUBSET BatchOf(on) : ForwardWith(stopped)
    BY <1>8 DEF PrefillBatch, DecodeBatch, Forward
  <2>2. at \in {"prefill", "decode"} /\ on' = on /\ req_status' = req_status
    BY <1>8, <2>1 DEF PrefillBatch, DecodeBatch, ForwardWith
  <2> HIDE DEF BatchOf
  <2>3. \A r \in Req : req_status'[r] \in {"NOT_SENT", "WAIT_IN_QUEUE"}
                         => cur_output_len'[r] = 0 /\ cur_kv_len'[r] = 0
    BY <2>1, <2>2, ForwardLengths DEF LengthInv
  <2>4. \A r \in Held : r \in Req /\ cur_output_len[r] \in Nat /\ InputLen[r] \in Nat
    BY <1>0, RouterAssumption DEF TypeOK, Held
  <2>5. \A r \in Held : cur_output_len'[r] >= 1 /\ cur_kv_len'[r] = SeqLen'[r] - 1
    <3> SUFFICES ASSUME NEW r \in Held
                 PROVE  cur_output_len'[r] >= 1 /\ cur_kv_len'[r] = SeqLen'[r] - 1
      OBVIOUS
    <3>1. SeqLen'[r] = InputLen[r] + cur_output_len'[r]
      BY <2>4 DEF SeqLen
    <3>2. CASE r \in BatchOf(on)
      BY <2>1, <2>2, <2>4, <3>1, <3>2, ForwardLengths
    <3>3. CASE r \notin BatchOf(on)
      BY <2>1, <2>2, <2>4, <3>1, <3>3, ForwardLengths DEF LengthInv, SeqLen
    <3> QED
      BY <3>2, <3>3
  <2>6. \A r \in running' \cup mini' : cur_output_len'[r] < MaxNew[r]
    <3> SUFFICES ASSUME NEW r \in running' \cup mini' PROVE cur_output_len'[r] < MaxNew[r]
      OBVIOUS
    <3>1. r \in running \cup mini /\ r \in Held /\ r \notin finished'
      BY <2>1, <2>2, ForwardLengths DEF Held
    <3>2. CASE r \in BatchOf(on)
      <4>1. FinishAfter(r, stopped) = "NO_FINISH"
        BY <2>1, <2>2, <3>1, <3>2, ForwardLengths DEF Done
      <4>2. ~(cur_output_len[r] + 1 >= MaxNew[r])
        BY <4>1 DEF FinishAfter
      <4> QED
        BY <2>1, <2>2, <2>4, <3>1, <3>2, <4>2, ForwardLengths, ParamType
    <3>3. CASE r \notin BatchOf(on)
      BY <2>1, <2>2, <2>4, <3>1, <3>3, ForwardLengths DEF LengthInv
    <3> QED
      BY <3>2, <3>3
  <2>7. Held' = Held /\ at' \in {"step", "merge", "finish"}
    BY <2>1, <2>2, ForwardLengths
  <2> QED
    BY <2>3, <2>5, <2>6, <2>7 DEF LengthInv
<1>9. CASE FreeFinished
  <2>1. /\ UNCHANGED <<running, mini, cur_output_len, req_status, on>>
        /\ cur_kv_len' = [r \in Req |-> IF r \in finished THEN 0 ELSE cur_kv_len[r]]
        /\ finished' = {} /\ at = "finish"
    BY <1>9 DEF FreeFinished, FreedReqs, queueVars
  <2>2. at' \in {"step", "merge"}
    BY <1>9, EndOfStepAt DEF FreeFinished
  <2>3. \A r \in running \cup mini : r \in Req /\ r \notin finished
    BY <1>0 DEF OwnerInv, TypeOK
  <2> QED
    BY <2>1, <2>2, <2>3 DEF LengthInv, Held, SeqLen
<1>10. CASE MergeBatch
  BY <1>0, <1>10 DEF MergeBatch, queueVars, LengthInv, Held, SeqLen, ControlInv
<1>11. CASE PauseReqs
  BY <1>11 DEF PauseReqs, queueVars, batchVars, LengthInv, Held, SeqLen
<1> QED
  BY <1>1, <1>2, <1>3, <1>4, <1>5, <1>6, <1>7, <1>8, <1>9, <1>10, <1>11 DEF Next, Fwd

\* No assertion of prepare_prefill_inputs or prepare_decode_inputs ever fails.
THEOREM ForwardReadyCorrect == Spec => []ForwardReady
<1>1. TypeInv /\ OwnerInv => OwnInv
  BY DEF OwnInv
<1>2. OwnInv /\ NeedInv /\ LengthInv => ForwardReady
  <2> SUFFICES ASSUME OwnInv, NeedInv, LengthInv PROVE ForwardReady
    OBVIOUS
  <2>1. BatchOf(on) \subseteq Held /\ running \subseteq Held
    BY DEF BatchOf, Held
  <2> QED
    BY <2>1 DEF OwnInv, OwnerInv, NeedInv, LengthInv, ForwardReady, Starting
<1> QED
  BY <1>1, <1>2, InitTypeInv, TypeStep, InitOwnerInv, OwnerStep, InitNeedInv, NeedStep,
     InitLengthInv, LengthStep, PTL DEF Spec

-----------------------------------------------------------------------------
(***************************************************************************)
(* The peak estimate                                                       *)
(***************************************************************************)
\* get_tuple_tokens counts in natural numbers, and counts at least what the
\* request holds and what its next forward adds.
LEMMA TupleTokens ==
  ASSUME TypeOK, NEW r \in Req, req_status[r] \in {"RUNNING", "WAIT_IN_QUEUE"}
  PROVE  /\ LeftLen(r) \in Nat /\ RunLen(r) \in Nat /\ ExpectedNew(r) \in Nat
         /\ req_status[r] = "RUNNING" =>
              /\ RunLen(r) = InputLen[r] + cur_output_len[r]
              /\ LeftLen(r) = AtLeast(0, ExpectedNew(r) - cur_output_len[r] - 1)
         /\ req_status[r] = "WAIT_IN_QUEUE" =>
              /\ RunLen(r) = InputLen[r] + 1
              /\ LeftLen(r) = AtLeast(0, ExpectedNew(r) - 2)
<1>1. cur_output_len[r] \in Nat /\ InputLen[r] \in Nat /\ MaxNew[r] \in Nat
  BY ParamType DEF TypeOK
<1>2. (11 * cur_output_len[r]) \div 10 \in Nat /\ RouterMaxNewTokenLen \in Nat
  BY <1>1, RouterAssumption
<1>3. ExpectedNew(r) \in Nat
  BY <1>1, <1>2 DEF ExpectedNew, AtMost, AtLeast
<1>4. CASE req_status[r] = "RUNNING"
  BY <1>1, <1>3, <1>4 DEF LeftLen, RunLen, AtLeast
<1>5. CASE req_status[r] = "WAIT_IN_QUEUE"
  BY <1>1, <1>3, <1>5 DEF LeftLen, RunLen, AtLeast
<1> QED
  BY <1>3, <1>4, <1>5

\* "The actual maximum token usage is always one of" the times at which a
\* request ends: a bound that holds at those times holds at every time.
LEMMA PeakIsAtAnEnd ==
  ASSUME TypeOK, NEW S \in SUBSET Req, PeakFits(S),
         \A r \in S : req_status[r] \in {"RUNNING", "WAIT_IN_QUEUE"},
         NEW left \in Nat
  PROVE  Cardinality(LoadAt(S, left)) < MaxTotal
<1> DEFINE longer == {r \in S : LeftLen(r) >= left}
<1>1. \A r \in S : LeftLen(r) \in Nat /\ RunLen(r) \in Nat
  BY TupleTokens
<1>2. CASE longer = {}
  <2>1. LoadAt(S, left) = {}
    BY <1>2 DEF LoadAt
  <2> QED
    BY <2>1, FS_EmptySet, RouterAssumption DEF SlotMargin
<1>3. CASE longer # {}
  <2>1. PICK r \in longer : \A s \in longer : LeftLen(r) <= LeftLen(s)
    <3> DEFINE T == {LeftLen(s) : s \in longer}
    <3>1. T \subseteq Nat /\ T # {}
      BY <1>1, <1>3
    <3>2. PICK m \in T : \A n \in T : m <= n
      BY <3>1, MinElement
    <3> QED
      BY <3>2
  <2>2. LoadAt(S, left) \subseteq LoadAt(S, LeftLen(r))
    <3> SUFFICES ASSUME NEW c \in S \X Position, LeftLen(c[1]) >= left,
                        c[2] <= RunLen(c[1]) + left
                 PROVE  LeftLen(c[1]) >= LeftLen(r) /\ c[2] <= RunLen(c[1]) + LeftLen(r)
      BY DEF LoadAt
    <3>1. c[1] \in longer /\ c[2] \in Int
      BY RouterAssumption DEF Position
    <3> QED
      BY <1>1, <2>1, <3>1
  <2>3. /\ LoadAt(S, LeftLen(r)) \in SUBSET (Req \X Position)
        /\ LoadAt(S, left) \in SUBSET (Req \X Position)
    BY DEF LoadAt
  <2>4. /\ Cardinality(LoadAt(S, left)) <= Cardinality(LoadAt(S, LeftLen(r)))
        /\ Cardinality(LoadAt(S, left)) \in Nat /\ Cardinality(LoadAt(S, LeftLen(r))) \in Nat
    BY <2>2, <2>3, CellCard, CellSubset
  <2>5. Cardinality(LoadAt(S, LeftLen(r))) < MaxTotal
    BY DEF PeakFits
  <2> QED
    BY <2>4, <2>5, RouterAssumption
<1> QED
  BY <1>2, <1>3

-----------------------------------------------------------------------------
(***************************************************************************)
(* Tokens                                                                  *)
(***************************************************************************)
LEMMA CellParts ==
  ASSUME NEW S, NEW c \in S \X Position
  PROVE  c[1] \in S /\ c[2] \in Nat /\ c[2] >= 1
  BY RouterAssumption DEF Position

\* At a scheduling point the requests of a new batch are waiting, those of the
\* running batch run, and nobody else holds anything.
LEMMA AtSchedule ==
  ASSUME OwnInv, at = "step", NEW n \in 1..Len(waiting_req_list), TakeFromQueue(n)
  PROVE  /\ Scanned(n) \in SUBSET Req /\ running \in SUBSET Req
         /\ Scanned(n) \cap running = {} /\ requests_mapping = running
         /\ \A r \in running : req_status[r] = "RUNNING"
         /\ \A r \in Scanned(n) : req_status[r] = "WAIT_IN_QUEUE"
         /\ mini = {} /\ finished = {}
<1>1. TypeOK /\ TypeInv /\ OwnerInv
  BY DEF OwnInv, TypeInv
<1>2. Scanned(n) \in SUBSET Req /\ running \in SUBSET Req
  BY <1>1, ScannedSubset DEF TypeOK
<1>3. mini = {} /\ finished = {} /\ Paused = {}
  BY DEF OwnInv, TypeInv, ControlInv, OwnerInv
<1>4. Held = running /\ requests_mapping = running
  BY <1>1, <1>3 DEF Held, OwnerInv
<1>5. \A r \in running : req_status[r] = "RUNNING"
  BY <1>1, <1>4 DEF OwnerInv
<1> QED
  BY <1>1, <1>2, <1>3, <1>4, <1>5, TakenRequests

\* What a new batch passes: its first tokens, and those in use, fit.
LEMMA NewBatchTokens ==
  ASSUME OwnInv, LengthInv, TokenInv, at = "step",
         NEW n \in 1..Len(waiting_req_list), NewBatch(n), TakeFromQueue(n)
  PROVE  Cardinality(CellsUpTo(Scanned(n), InputLen)) <= can_use_mem_size
<1> DEFINE S     == Scanned(n)
           first == CellsUpTo(S, InputLen)
           used  == CellsUpTo(requests_mapping, cur_kv_len)
           load  == LoadAt(running \cup S, 0)
<1>1. /\ S \in SUBSET Req /\ running \in SUBSET Req
      /\ S \cap running = {} /\ requests_mapping = running
      /\ \A r \in running : req_status[r] = "RUNNING"
      /\ \A r \in S : req_status[r] = "WAIT_IN_QUEUE"
  BY AtSchedule
<1>2. TypeOK /\ can_use_mem_size \in Int
  BY DEF OwnInv, TypeInv, TypeOK
<1>3. PeakFits(running \cup S)
  <2>1. n \in 1..n
    BY <1>2 DEF OwnInv, TypeInv, TypeOK
  <2>2. CanRun(Scanned(n))
    BY <2>1 DEF NewBatch
  <2> QED
    BY <2>2 DEF CanRun
<1>4. running \cup S \in SUBSET Req
      /\ \A r \in running \cup S : req_status[r] \in {"RUNNING", "WAIT_IN_QUEUE"}
  BY <1>1
<1>5. Cardinality(load) < MaxTotal
  <2> HIDE DEF S
  <2> QED
    BY <1>2, <1>3, <1>4, PeakIsAtAnEnd
<1>6. first \subseteq load
  <2> SUFFICES ASSUME NEW c \in S \X Position, c[2] <= InputLen[c[1]]
               PROVE  c \in load
    BY DEF CellsUpTo
  <2>1. c[1] \in S /\ c[1] \in Req /\ c[2] \in Nat
    BY <1>1, CellParts
  <2>2. LeftLen(c[1]) \in Nat /\ RunLen(c[1]) = InputLen[c[1]] + 1 /\ InputLen[c[1]] \in Nat
    BY <1>1, <1>2, <2>1, TupleTokens, ParamType
  <2> QED
    BY <2>1, <2>2 DEF LoadAt
<1>7. used \subseteq load
  <2> SUFFICES ASSUME NEW c \in running \X Position, c[2] <= cur_kv_len[c[1]]
               PROVE  c \in load
    BY <1>1 DEF CellsUpTo
  <2>1. c[1] \in running /\ c[1] \in Req /\ c[2] \in Nat
    BY <1>1, CellParts
  <2>2. LeftLen(c[1]) \in Nat /\ RunLen(c[1]) = InputLen[c[1]] + cur_output_len[c[1]]
        /\ InputLen[c[1]] \in Nat /\ cur_output_len[c[1]] \in Nat
    BY <1>1, <1>2, <2>1, TupleTokens, ParamType DEF TypeOK
  <2>3. cur_kv_len[c[1]] = InputLen[c[1]] + cur_output_len[c[1]] - 1
    <3>1. ~Starting(c[1]) /\ c[1] \in Held
      BY <2>1 DEF Starting, Held
    <3>2. cur_kv_len[c[1]] = SeqLen[c[1]] - 1
      BY <3>1 DEF LengthInv
    <3>3. \A r \in Req : SeqLen[r] = InputLen[r] + cur_output_len[r]
      BY DEF SeqLen
    <3>4. SeqLen[c[1]] = InputLen[c[1]] + cur_output_len[c[1]]
      BY <2>1, <3>3
    <3> QED
      BY <2>2, <3>2, <3>4
  <2> QED
    BY <2>1, <2>2, <2>3 DEF LoadAt
<1>8. first \cap used = {}
  BY <1>1 DEF CellsUpTo
<1>9. /\ first \in SUBSET (Req \X Position) /\ used \in SUBSET (Req \X Position)
      /\ load \in SUBSET (Req \X Position) /\ first \cup used \in SUBSET (Req \X Position)
  BY <1>1, <1>4 DEF CellsUpTo, LoadAt
<1>10. /\ Cardinality(first \cup used) = Cardinality(first) + Cardinality(used)
       /\ Cardinality(first \cup used) <= Cardinality(load)
  <2>1. first \cup used \subseteq load
    BY <1>6, <1>7
  <2> HIDE DEF first, used, load
  <2> QED
    BY <1>8, <1>9, <2>1, CellCard
<1>11. Cardinality(first) \in Nat /\ Cardinality(used) \in Nat /\ Cardinality(load) \in Nat
  BY <1>9, CellSubset
<1>12. can_use_mem_size + Cardinality(used) = MaxTotal
  BY DEF TokenInv, TokenAccounting
<1> HIDE DEF first, used, load
<1>13. Cardinality(first) <= can_use_mem_size
  BY <1>2, <1>5, <1>10, <1>11, <1>12, RouterAssumption
<1> QED
  BY <1>13 DEF first, S

LEMMA InitTokenInv == Init => TokenInv
<1> SUFFICES ASSUME Init PROVE TokenInv
  OBVIOUS
<1>1. CellsUpTo(requests_mapping, cur_kv_len) = {}
  BY DEF Init, CellsUpTo
<1>2. MaxTotal + 0 = MaxTotal /\ MaxTotal >= 0
  BY RouterAssumption
<1> QED
  BY <1>1, <1>2, FS_EmptySet DEF Init, TokenInv, TokenAccounting

LEMMA TokenStep == OwnInv /\ LengthInv /\ TokenInv /\ [Next]_vars => TokenInv'
<1> SUFFICES ASSUME OwnInv, LengthInv, TokenInv, [Next]_vars PROVE TokenInv'
  OBVIOUS
<1> DEFINE used == CellsUpTo(requests_mapping, cur_kv_len)
<1>0. /\ TypeOK /\ ControlInv /\ OwnerInv
      /\ can_use_mem_size \in Nat /\ can_use_mem_size + Cardinality(used) = MaxTotal
  BY DEF OwnInv, TypeInv, TypeOK, TokenInv, TokenAccounting
<1>00. requests_mapping \in SUBSET Req /\ used \in SUBSET (Req \X Position)
       /\ Cardinality(used) \in Nat
  BY <1>0, CellSubset DEF TypeOK, CellsUpTo
<1>1. CASE UNCHANGED vars
  BY <1>1 DEF vars, batchVars, loopVars, modelVars, TokenInv, TokenAccounting, CanDecode,
     UsedTokens, CellsUpTo, BatchOf
<1>2. CASE NetIO
  BY <1>2 DEF NetIO, AddReq, Abort, batchVars, loopVars, modelVars, TokenInv, TokenAccounting,
     CanDecode, UsedTokens, CellsUpTo, BatchOf
<1>3. CASE StepNewBatch
  <2>1. PICK n \in 1..Len(waiting_req_list) :
          NewBatch(n) /\ TakeFromQueue(n) /\ running' = Scanned(n)
    BY <1>3 DEF StepNewBatch
  <2>2. Cardinality(CellsUpTo(Scanned(n), InputLen)) <= can_use_mem_size
    BY <1>3, <2>1, NewBatchTokens DEF StepNewBatch
  <2>3. /\ UNCHANGED <<requests_mapping, cur_kv_len, can_use_mem_size>>
        /\ at' = "init" /\ BatchOf(on)' = Scanned(n)
    BY <1>3, <2>1 DEF StepNewBatch, modelVars, BatchOf
  <2>4. CellsUpTo(BatchOf(on), InputLen)' = CellsUpTo(Scanned(n), InputLen)
    BY <2>3 DEF CellsUpTo
  <2> QED
    BY <2>2, <2>3, <2>4 DEF TokenInv, TokenAccounting, CellsUpTo
<1>4. CASE StepMiniBatch
  <2>1. PICK n \in 1..Len(waiting_req_list) :
          NewBatch(n) /\ TakeFromQueue(n) /\ mini' = Scanned(n)
    BY <1>4 DEF StepMiniBatch
  <2>2. Cardinality(CellsUpTo(Scanned(n), InputLen)) <= can_use_mem_size
    BY <1>4, <2>1, NewBatchTokens DEF StepMiniBatch
  <2>3. /\ UNCHANGED <<requests_mapping, cur_kv_len, can_use_mem_size>>
        /\ at' = "init" /\ BatchOf(on)' = Scanned(n)
    BY <1>4, <2>1 DEF StepMiniBatch, modelVars, BatchOf
  <2>4. CellsUpTo(BatchOf(on), InputLen)' = CellsUpTo(Scanned(n), InputLen)
    BY <2>3 DEF CellsUpTo
  <2> QED
    BY <2>2, <2>3, <2>4 DEF TokenInv, TokenAccounting, CellsUpTo
<1>5. CASE StepDecode
  BY <1>5 DEF StepDecode, DecodePhase, batchVars, modelVars, TokenInv, TokenAccounting,
     CanDecode, UsedTokens, CellsUpTo
<1>6. CASE StepPause
  BY <1>6 DEF StepPause, DecodePhase, modelVars, TokenInv, TokenAccounting, CellsUpTo
<1>7. CASE InitBatch
  <2> DEFINE fresh == BatchOf(on) \ requests_mapping
  <2>1. /\ requests_mapping' = requests_mapping \cup fresh
        /\ UNCHANGED <<cur_kv_len, can_use_mem_size>>
        /\ at = "init" /\ at' = "prefill" /\ BatchOf(on)' = BatchOf(on)
    BY <1>7 DEF InitBatch, SetBatch, BatchOf
  <2>2. \A r \in fresh : cur_kv_len[r] = 0
    BY <2>1 DEF LengthInv, Starting, Held, BatchOf
  <2>3. CellsUpTo(requests_mapping, cur_kv_len)' = used
    BY <2>1, <2>2, RouterAssumption DEF CellsUpTo, Position
  <2>4. CellsUpTo(BatchOf(on), InputLen)' = CellsUpTo(BatchOf(on), InputLen)
    BY <2>1 DEF CellsUpTo
  <2> QED
    BY <2>1, <2>3, <2>4 DEF TokenInv, TokenAccounting
<1>8. CASE PrefillBatch \/ DecodeBatch
  <2>1. PICK stopped \in SUBSET BatchOf(on) : ForwardWith(stopped)
    BY <1>8 DEF PrefillBatch, DecodeBatch, Forward
  <2> DEFINE new == NewTokens(BatchOf(on))
  <2>2. at \in {"prefill", "decode"}
    BY <1>8 DEF PrefillBatch, DecodeBatch
  <2>3. BatchOf(on) \subseteq requests_mapping
    BY <1>0, <2>2 DEF OwnerInv, Held, BatchOf
  <2>4. /\ requests_mapping' = requests_mapping
        /\ cur_kv_len' = [r \in Req |-> IF r \in BatchOf(on) THEN SeqLen[r] ELSE cur_kv_len[r]]
        /\ can_use_mem_size' = can_use_mem_size - Cardinality(new)
        /\ Cardinality(new) <= can_use_mem_size
    BY <2>1 DEF ForwardWith
  <2>5. \A r \in BatchOf(on) : r \in Req /\ SeqLen[r] \in Nat /\ cur_kv_len[r] \in Nat
                               /\ cur_kv_len[r] <= SeqLen[r]
    <3> SUFFICES ASSUME NEW r \in BatchOf(on)
                 PROVE  r \in Req /\ SeqLen[r] \in Nat /\ cur_kv_len[r] \in Nat
                        /\ cur_kv_len[r] <= SeqLen[r]
      OBVIOUS
    <3>1. r \in Req /\ r \in Held
      BY <1>00, <2>3 DEF BatchOf, Held
    <3>2. SeqLen[r] = InputLen[r] + cur_output_len[r] /\ InputLen[r] \in Nat
          /\ cur_output_len[r] \in Nat /\ cur_kv_len[r] \in Nat
      BY <1>0, <3>1, ParamType DEF SeqLen, TypeOK
    <3> QED
      BY <3>1, <3>2 DEF LengthInv
  <2>6. CellsUpTo(requests_mapping, cur_kv_len)' = used \cup new
    <3>1. CellsUpTo(requests_mapping, cur_kv_len)' \subseteq used \cup new
      BY <1>00, <2>4 DEF CellsUpTo, NewTokens
    <3>2. used \subseteq CellsUpTo(requests_mapping, cur_kv_len)'
      <4> SUFFICES ASSUME NEW c \in requests_mapping \X Position, c[2] <= cur_kv_len[c[1]]
                   PROVE  c[2] <= cur_kv_len'[c[1]]
        BY <2>4 DEF CellsUpTo
      <4>1. c[1] \in Req /\ c[2] \in Int
        BY <1>00, CellParts
      <4>2. CASE c[1] \in BatchOf(on)
        BY <2>4, <2>5, <4>1, <4>2
      <4>3. CASE c[1] \notin BatchOf(on)
        BY <2>4, <4>1, <4>3
      <4> QED
        BY <4>2, <4>3
    <3>3. new \subseteq CellsUpTo(requests_mapping, cur_kv_len)'
      BY <1>00, <2>3, <2>4 DEF CellsUpTo, NewTokens
    <3> QED
      BY <3>1, <3>2, <3>3
  <2>7. used \cap new = {}
    BY DEF CellsUpTo, NewTokens
  <2>8. new \in SUBSET (Req \X Position)
    BY <1>00, <2>3 DEF CellsUpTo, NewTokens
  <2>9. Cardinality(used \cup new) = Cardinality(used) + Cardinality(new)
        /\ Cardinality(new) \in Nat
    BY <1>00, <2>7, <2>8, CellCard, CellSubset
  <2>10. at' \in {"step", "merge", "finish"}
    BY <2>1, <2>2, ForwardLengths
  <2>11. Cardinality(CellsUpTo(requests_mapping, cur_kv_len))'
         = Cardinality(used) + Cardinality(new)
    BY <2>6, <2>9
  <2> HIDE DEF used, new
  <2>12. can_use_mem_size' >= 0
         /\ can_use_mem_size' + Cardinality(CellsUpTo(requests_mapping, cur_kv_len))' = MaxTotal
    BY <1>0, <1>00, <2>4, <2>9, <2>11, RouterAssumption
  <2> QED
    BY <2>10, <2>12 DEF TokenInv, TokenAccounting
<1>9. CASE FreeFinished
  <2> DEFINE freed == CellsUpTo(finished, cur_kv_len)
  <2>1. /\ requests_mapping' = requests_mapping \ finished
        /\ cur_kv_len' = [r \in Req |-> IF r \in finished THEN 0 ELSE cur_kv_len[r]]
        /\ can_use_mem_size' = can_use_mem_size + Cardinality(freed)
    BY <1>9 DEF FreeFinished, FreedReqs, FreedTokens
  <2>2. finished \subseteq requests_mapping
    BY <1>0, <1>9 DEF FreeFinished, OwnerInv, Held
  <2>3. CellsUpTo(requests_mapping, cur_kv_len)' = used \ freed
    BY <1>00, <2>1, <2>2 DEF CellsUpTo
  <2>4. freed \subseteq used /\ freed \in SUBSET (Req \X Position)
    BY <1>00, <2>2 DEF CellsUpTo
  <2>5. Cardinality(used \ freed) = Cardinality(used) - Cardinality(freed)
        /\ Cardinality(freed) \in Nat
    BY <1>00, <2>4, CellCard, CellSubset
  <2>6. at' \in {"step", "merge"}
    BY <1>9, EndOfStepAt DEF FreeFinished
  <2>7. Cardinality(CellsUpTo(requests_mapping, cur_kv_len))'
        = Cardinality(used) - Cardinality(freed)
    BY <2>3, <2>5
  <2> HIDE DEF used, freed
  <2>8. can_use_mem_size' >= 0
        /\ can_use_mem_size' + Cardinality(CellsUpTo(requests_mapping, cur_kv_len))' = MaxTotal
    BY <1>0, <1>00, <2>1, <2>5, <2>7, RouterAssumption
  <2> QED
    BY <2>6, <2>8 DEF TokenInv, TokenAccounting
<1>10. CASE MergeBatch
  BY <1>10 DEF MergeBatch, TokenInv, TokenAccounting, CellsUpTo
<1>11. CASE PauseReqs
  BY <1>11 DEF PauseReqs, TokenInv, TokenAccounting, CellsUpTo
<1> QED
  BY <1>1, <1>2, <1>3, <1>4, <1>5, <1>6, <1>7, <1>8, <1>9, <1>10, <1>11 DEF Next, Fwd

\* The counter of the pool and the lengths of the requests always add up.
THEOREM TokenAccountingCorrect == Spec => []TokenAccounting
<1>1. TypeInv /\ OwnerInv => OwnInv
  BY DEF OwnInv
<1>2. TokenInv => TokenAccounting
  BY DEF TokenInv
<1> QED
  BY <1>1, <1>2, InitTypeInv, TypeStep, InitOwnerInv, OwnerStep, InitLengthInv, LengthStep,
     InitTokenInv, TokenStep, PTL DEF Spec

\* Cells of different rows are at most as many as the rows.
LEMMA OneCellPerRow ==
  ASSUME NEW S \in SUBSET Req, NEW C \in SUBSET (S \X Position),
         \A c, d \in C : c[1] = d[1] => c = d
  PROVE  Cardinality(C) <= Cardinality(S)
<1> DEFINE row == [c \in C |-> c[1]]
<1>1. row \in [C -> S]
  <2>1. \A c \in C : c[1] \in S
    BY CellParts
  <2> QED
    BY <2>1
<1>2. \A c, d \in C : row[c] = row[d] => c = d
  OBVIOUS
<1> HIDE DEF row
<1>3. row \in Injection(C, S)
  BY <1>1, <1>2 DEF Injection, IsInjective
<1> QED
  BY <1>3, ReqSubset, FS_Injection

\* A decode adds one cell to each request, at position SeqLen.
LEMMA DecodeCells ==
  ASSUME OwnInv, LengthInv, at \in {"step", "decode"}
  PROVE  /\ \A r \in running : /\ SeqLen[r] = InputLen[r] + cur_output_len[r]
                               /\ SeqLen[r] \in Nat
                               /\ cur_kv_len[r] = SeqLen[r] - 1
         /\ Cardinality(NewTokens(running)) <= Cardinality(running)
<1>1. running \in SUBSET Req /\ cur_output_len \in [Req -> Nat] /\ cur_kv_len \in [Req -> Nat]
  BY DEF OwnInv, TypeInv, TypeOK
<1>2. \A r \in Req : SeqLen[r] = InputLen[r] + cur_output_len[r] /\ SeqLen[r] \in Nat
  BY <1>1, ParamType DEF SeqLen
<1>3. \A r \in running : cur_kv_len[r] = SeqLen[r] - 1
  BY DEF LengthInv, Held, Starting
<1>4. \A c \in NewTokens(running) : c[2] = SeqLen[c[1]]
  <2> SUFFICES ASSUME NEW c \in running \X Position, c[2] <= SeqLen[c[1]],
                      ~(c[2] <= cur_kv_len[c[1]])
               PROVE  c[2] = SeqLen[c[1]]
    BY DEF NewTokens, CellsUpTo
  <2>1. c[1] \in running /\ c[2] \in Nat
    BY CellParts
  <2>2. SeqLen[c[1]] \in Nat /\ cur_kv_len[c[1]] = SeqLen[c[1]] - 1
    BY <1>1, <1>2, <1>3, <2>1
  <2> QED
    BY <2>1, <2>2
<1>5. NewTokens(running) \in SUBSET (running \X Position)
  BY DEF NewTokens, CellsUpTo
<1>6. \A c, d \in NewTokens(running) : c[1] = d[1] => c = d
  BY <1>4, <1>5
<1>7. Cardinality(NewTokens(running)) <= Cardinality(running)
  BY <1>1, <1>5, <1>6, OneCellPerRow
<1> QED
  BY <1>1, <1>2, <1>3, <1>7

\* Every forward finds the tokens it allocates: alloc never returns None.
THEOREM NeverOutOfMemoryCorrect == Spec => []NeverOutOfMemory
<1>1. TypeInv /\ OwnerInv => OwnInv
  BY DEF OwnInv
<1>2. OwnInv /\ NeedInv /\ LengthInv /\ TokenInv => NeverOutOfMemory
  <2> SUFFICES ASSUME OwnInv, NeedInv, LengthInv, TokenInv, at \in {"prefill", "decode"}
               PROVE  Cardinality(NewTokens(BatchOf(on))) <= can_use_mem_size
    BY DEF NeverOutOfMemory
  <2> DEFINE batch == BatchOf(on)
  <2>1. /\ batch \in SUBSET Req /\ can_use_mem_size \in Int /\ batch \subseteq Held
        /\ cur_output_len \in [Req -> Nat]
    BY DEF BatchOf, OwnInv, TypeInv, TypeOK, Held
  <2>2. CASE at = "prefill"
    <3>1. \A r \in batch : SeqLen[r] = InputLen[r]
      <4> SUFFICES ASSUME NEW r \in batch PROVE SeqLen[r] = InputLen[r]
        OBVIOUS
      <4>1. r \in Req /\ r \in Held /\ Starting(r)
        BY <2>1, <2>2 DEF Starting
      <4>2. cur_output_len[r] = 0
        BY <4>1 DEF LengthInv
      <4> QED
        BY <4>1, <4>2, ParamType DEF SeqLen
    <3>2. NewTokens(batch) \subseteq CellsUpTo(batch, InputLen)
      <4> SUFFICES ASSUME NEW c \in batch \X Position, c[2] <= SeqLen[c[1]]
                   PROVE  c[2] <= InputLen[c[1]]
        BY DEF NewTokens, CellsUpTo
      <4> QED
        BY <3>1, CellParts
    <3>3. /\ NewTokens(batch) \in SUBSET (Req \X Position)
          /\ CellsUpTo(batch, InputLen) \in SUBSET (Req \X Position)
      BY <2>1 DEF NewTokens, CellsUpTo
    <3>4. /\ Cardinality(NewTokens(batch)) <= Cardinality(CellsUpTo(batch, InputLen))
          /\ Cardinality(NewTokens(batch)) \in Nat
          /\ Cardinality(CellsUpTo(batch, InputLen)) \in Nat
      BY <3>2, <3>3, CellCard, CellSubset
    <3>5. Cardinality(CellsUpTo(batch, InputLen)) <= can_use_mem_size
      BY <2>2 DEF TokenInv
    <3> QED
      BY <2>1, <3>4, <3>5
  <2>3. CASE at = "decode"
    <3>1. batch = running /\ running_need = Cardinality(running)
      BY <2>3 DEF BatchOf, OwnInv, TypeInv, ControlInv, NeedInv
    <3>2. Cardinality(NewTokens(running)) <= Cardinality(running)
      BY <2>3, DecodeCells
    <3>3. running_need + (MaxTotal - can_use_mem_size) <= MaxTotal
      BY <2>3 DEF TokenInv, CanDecode, UsedTokens
    <3>4. NewTokens(running) \in SUBSET (Req \X Position) /\ Cardinality(running) \in Nat
      BY <2>1, <3>1, ReqSubset DEF NewTokens, CellsUpTo
    <3>5. Cardinality(NewTokens(running)) \in Nat
      BY <3>4, CellSubset
    <3> QED
      BY <2>1, <3>1, <3>2, <3>3, <3>4, <3>5, RouterAssumption
  <2> QED
    BY <2>2, <2>3
<1> QED
  BY <1>1, <1>2, InitTypeInv, TypeStep, InitOwnerInv, OwnerStep, InitNeedInv, NeedStep,
     InitLengthInv, LengthStep, InitTokenInv, TokenStep, PTL DEF Spec

-----------------------------------------------------------------------------
(***************************************************************************)
(* No pause: the estimate made at admission bounds every later state       *)
(***************************************************************************)
LEMMA PeakCells ==
  ASSUME OwnInv, NEW left
  PROVE  /\ running \cup mini \in SUBSET Req
         /\ PeakLoad(left) \in SUBSET (Req \X Position)
         /\ \A r \in Req : /\ cur_output_len[r] \in Nat /\ OutAtLeastOne(r) \in Nat
                           /\ OutAtLeastOne(r) >= cur_output_len[r]
<1>1. running \cup mini \in SUBSET Req /\ cur_output_len \in [Req -> Nat]
  BY DEF OwnInv, TypeInv, TypeOK
<1>2. PeakLoad(left) \in SUBSET (Req \X Position)
  BY <1>1 DEF PeakLoad
<1>3. \A r \in Req : cur_output_len[r] \in Nat
  BY <1>1
<1> QED
  BY <1>1, <1>2, <1>3 DEF OutAtLeastOne, AtLeast

LEMMA SmallerPeak ==
  ASSUME OwnInv, PeakInv, NEW left \in Nat, NEW P, P \subseteq PeakLoad(left)
  PROVE  Cardinality(P) < MaxTotal
<1>1. PeakLoad(left) \in SUBSET (Req \X Position)
  BY PeakCells
<1>2. P \in SUBSET (Req \X Position)
  BY <1>1
<1>3. /\ Cardinality(P) <= Cardinality(PeakLoad(left))
      /\ Cardinality(P) \in Nat /\ Cardinality(PeakLoad(left)) \in Nat
  BY <1>1, <1>2, CellCard, CellSubset
<1>4. Cardinality(PeakLoad(left)) < MaxTotal
  BY DEF PeakInv
<1> QED
  BY <1>3, <1>4, RouterAssumption

\* Steps that admit nothing and produce nothing do not raise the estimate.
LEMMA QuietPeak ==
  ASSUME OwnInv, PeakInv, running' \cup mini' \subseteq running \cup mini,
         cur_output_len' = cur_output_len
  PROVE  PeakInv'
<1> SUFFICES ASSUME NEW left \in Nat PROVE Cardinality(PeakLoad(left)') < MaxTotal
  BY DEF PeakInv
<1>1. PeakLoad(left)' \subseteq PeakLoad(left)
  BY DEF PeakLoad, OutAtLeastOne
<1> QED
  BY <1>1, SmallerPeak

\* A busy server admits a batch only if its estimate, which is PeakLoad, fits.
LEMMA AdmissionPeak ==
  ASSUME BusyFrom = 0, OwnInv, LengthInv, TokenInv, at = "step",
         NEW n \in 1..Len(waiting_req_list), NewBatch(n), TakeFromQueue(n),
         running' \cup mini' = running \cup Scanned(n), cur_output_len' = cur_output_len
  PROVE  PeakInv'
<1> SUFFICES ASSUME NEW left \in Nat PROVE Cardinality(PeakLoad(left)') < MaxTotal
  BY DEF PeakInv
<1> DEFINE S == running \cup Scanned(n)
           used == CellsUpTo(requests_mapping, cur_kv_len)
<1>1. /\ Scanned(n) \in SUBSET Req /\ running \in SUBSET Req
      /\ \A r \in running : req_status[r] = "RUNNING"
      /\ \A r \in Scanned(n) : req_status[r] = "WAIT_IN_QUEUE"
  BY AtSchedule
<1>2. TypeOK /\ can_use_mem_size \in Int /\ cur_output_len \in [Req -> Nat]
      /\ requests_mapping \in SUBSET Req
  BY DEF OwnInv, TypeInv, TypeOK
<1>3. PeakFits(S)
  <2>1. n \in 1..n
    BY <1>2 DEF TypeOK
  <2>2. CanRun(Scanned(n))
    BY <2>1 DEF NewBatch
  <2> QED
    BY <2>2 DEF CanRun
<1>4. S \in SUBSET Req /\ \A r \in S : req_status[r] \in {"RUNNING", "WAIT_IN_QUEUE"}
  BY <1>1
<1>5. Cardinality(LoadAt(S, left)) < MaxTotal
  <2> HIDE DEF S
  <2> QED
    BY <1>2, <1>3, <1>4, PeakIsAtAnEnd
<1>6. IsBusy
  <2>1. used \in SUBSET (Req \X Position)
    BY <1>2 DEF CellsUpTo
  <2>2. Cardinality(used) \in Nat
    BY <2>1, CellSubset
  <2>3. can_use_mem_size + Cardinality(used) = MaxTotal
    BY DEF TokenInv, TokenAccounting
  <2> HIDE DEF used
  <2> QED
    BY <1>2, <2>2, <2>3, RouterAssumption DEF IsBusy, UsedTokens
<1>7. \A r \in S : /\ LeftLen(r) = AtLeast(0, MaxNew[r] - OutAtLeastOne(r) - 1)
                   /\ RunLen(r) = InputLen[r] + OutAtLeastOne(r)
  <2> SUFFICES ASSUME NEW r \in S
               PROVE  /\ LeftLen(r) = AtLeast(0, MaxNew[r] - OutAtLeastOne(r) - 1)
                      /\ RunLen(r) = InputLen[r] + OutAtLeastOne(r)
    OBVIOUS
  <2>1. /\ r \in Req /\ cur_output_len[r] \in Nat /\ InputLen[r] \in Nat /\ MaxNew[r] \in Nat
        /\ ExpectedNew(r) = MaxNew[r]
    BY <1>2, <1>4, <1>6, ParamType DEF ExpectedNew
  <2>2. CASE r \in running
    <3>1. r \in Held /\ ~Starting(r)
      BY <2>2 DEF Held, Starting
    <3>2. cur_output_len[r] >= 1
      BY <3>1 DEF LengthInv
    <3>3. OutAtLeastOne(r) = cur_output_len[r]
      BY <2>1, <3>2 DEF OutAtLeastOne, AtLeast
    <3> QED
      BY <1>1, <1>2, <2>1, <2>2, <3>3, TupleTokens
  <2>3. CASE r \in Scanned(n)
    <3>1. cur_output_len[r] = 0
      BY <1>1, <2>1, <2>3 DEF LengthInv
    <3>2. OutAtLeastOne(r) = 1
      BY <3>1 DEF OutAtLeastOne, AtLeast
    <3>3. LeftLen(r) = AtLeast(0, MaxNew[r] - 2) /\ RunLen(r) = InputLen[r] + 1
      BY <1>1, <1>2, <2>1, <2>3, TupleTokens
    <3>4. MaxNew[r] - 1 - 1 = MaxNew[r] - 2
      BY <2>1
    <3> QED
      BY <3>2, <3>3, <3>4
  <2> QED
    BY <2>2, <2>3
<1>8. PeakLoad(left)' \subseteq LoadAt(S, left)
  <2> SUFFICES ASSUME NEW c \in S \X Position,
                      AtLeast(0, MaxNew[c[1]] - OutAtLeastOne(c[1]) - 1) >= left,
                      c[2] <= InputLen[c[1]] + OutAtLeastOne(c[1]) + left
               PROVE  LeftLen(c[1]) >= left /\ c[2] <= RunLen(c[1]) + left
    BY DEF PeakLoad, LoadAt, OutAtLeastOne
  <2>1. c[1] \in S
    BY CellParts
  <2> QED
    BY <1>7, <2>1
<1>9. LoadAt(S, left) \in SUBSET (Req \X Position)
  BY <1>4 DEF LoadAt
<1> HIDE DEF S
<1>10. PeakLoad(left)' \in SUBSET (Req \X Position)
  BY <1>8, <1>9
<1>11. /\ Cardinality(PeakLoad(left)') <= Cardinality(LoadAt(S, left))
       /\ Cardinality(PeakLoad(left)') \in Nat /\ Cardinality(LoadAt(S, left)) \in Nat
  BY <1>8, <1>9, <1>10, CellCard, CellSubset
<1> QED
  BY <1>5, <1>11, RouterAssumption

\* A forward leaves the estimate (prefill: the first output was counted) or
\* advances it by one output (decode).
LEMMA ForwardPeak ==
  ASSUME OwnInv, LengthInv, LengthInv', PeakInv, NEW stopped, ForwardWith(stopped),
         at \in {"prefill", "decode"}
  PROVE  PeakInv'
<1> SUFFICES ASSUME NEW left \in Nat PROVE Cardinality(PeakLoad(left)') < MaxTotal
  BY DEF PeakInv
<1>1. /\ BatchOf(on) \subseteq running \cup mini
      /\ running' \cup mini' \subseteq running \cup mini
      /\ \A r \in Req : r \in BatchOf(on) => cur_output_len'[r] = cur_output_len[r] + 1
      /\ \A r \in Req : r \notin BatchOf(on) => cur_output_len'[r] = cur_output_len[r]
  BY ForwardLengths
<1>2. /\ running \cup mini \in SUBSET Req
      /\ \A r \in Req : cur_output_len[r] \in Nat
  BY PeakCells
<1>3. CASE at = "prefill"
  <2>1. \A r \in running \cup mini : OutAtLeastOne(r)' = OutAtLeastOne(r)
    <3> SUFFICES ASSUME NEW r \in running \cup mini
                 PROVE  OutAtLeastOne(r)' = OutAtLeastOne(r)
      OBVIOUS
    <3>1. r \in BatchOf(on) => cur_output_len[r] = 0
      BY <1>1, <1>3 DEF LengthInv, Starting, Held
    <3> QED
      BY <1>1, <1>2, <3>1 DEF OutAtLeastOne, AtLeast
  <2>2. PeakLoad(left)' \subseteq PeakLoad(left)
    <3> SUFFICES ASSUME NEW c \in (running' \cup mini') \X Position,
                        AtLeast(0, MaxNew[c[1]] - OutAtLeastOne(c[1])' - 1) >= left,
                        c[2] <= InputLen[c[1]] + OutAtLeastOne(c[1])' + left
                 PROVE  c \in PeakLoad(left)
      BY DEF PeakLoad, OutAtLeastOne
    <3>1. c[1] \in running \cup mini /\ c \in (running \cup mini) \X Position
      BY <1>1, CellParts
    <3> QED
      BY <2>1, <3>1 DEF PeakLoad
  <2> QED
    BY <2>2, SmallerPeak
<1>4. CASE at = "decode"
  <2>1. BatchOf(on) = running /\ mini = {}
    BY <1>4 DEF OwnInv, TypeInv, ControlInv, BatchOf
  <2>2. \A r \in running' \cup mini' :
          /\ r \in running /\ r \in Req
          /\ OutAtLeastOne(r)' = OutAtLeastOne(r) + 1 /\ OutAtLeastOne(r) \in Nat
          /\ OutAtLeastOne(r) + 1 < MaxNew[r]
    <3> SUFFICES ASSUME NEW r \in running' \cup mini'
                 PROVE  /\ r \in running /\ r \in Req
                        /\ OutAtLeastOne(r)' = OutAtLeastOne(r) + 1
                        /\ OutAtLeastOne(r) \in Nat
                        /\ OutAtLeastOne(r) + 1 < MaxNew[r]
      OBVIOUS
    <3>1. r \in running /\ r \in Req /\ r \in Held /\ ~Starting(r)
      BY <1>1, <1>2, <1>4, <2>1 DEF Held, Starting
    <3>2. cur_output_len[r] >= 1 /\ cur_output_len[r] \in Nat
          /\ cur_output_len'[r] = cur_output_len[r] + 1
      BY <1>1, <1>2, <2>1, <3>1 DEF LengthInv
    <3>3. cur_output_len'[r] < MaxNew[r]
      BY DEF LengthInv
    <3> QED
      BY <3>1, <3>2, <3>3 DEF OutAtLeastOne, AtLeast
  <2>3. PeakLoad(left)' \subseteq PeakLoad(left + 1)
    <3> SUFFICES ASSUME NEW c \in (running' \cup mini') \X Position,
                        AtLeast(0, MaxNew[c[1]] - OutAtLeastOne(c[1])' - 1) >= left,
                        c[2] <= InputLen[c[1]] + OutAtLeastOne(c[1])' + left
                 PROVE  c \in PeakLoad(left + 1)
      BY DEF PeakLoad, OutAtLeastOne
    <3> DEFINE out == OutAtLeastOne(c[1])
    <3>1. /\ c[1] \in running /\ c[1] \in Req /\ c \in (running \cup mini) \X Position
          /\ c[2] \in Nat /\ out \in Nat
          /\ OutAtLeastOne(c[1])' = out + 1 /\ out + 1 < MaxNew[c[1]]
      BY <1>1, <2>2, CellParts
    <3>2. MaxNew[c[1]] \in Nat /\ InputLen[c[1]] \in Nat
      BY <3>1, ParamType
    <3> HIDE DEF out
    <3>3. AtLeast(0, MaxNew[c[1]] - out - 1) >= left + 1
          /\ c[2] <= InputLen[c[1]] + out + (left + 1)
      BY <3>1, <3>2 DEF AtLeast
    <3> QED
      BY <3>1, <3>3 DEF PeakLoad, out
  <2> QED
    BY <2>3, SmallerPeak
<1> QED
  BY <1>3, <1>4

LEMMA InitPeakInv == Init => PeakInv
<1> SUFFICES ASSUME Init, NEW left \in Nat PROVE Cardinality(PeakLoad(left)) < MaxTotal
  BY DEF PeakInv
<1>1. PeakLoad(left) = {}
  BY DEF Init, PeakLoad
<1> QED
  BY <1>1, FS_EmptySet, RouterAssumption DEF SlotMargin

LEMMA PeakStep ==
  ASSUME BusyFrom = 0, OwnInv, LengthInv, LengthInv', TokenInv, PeakInv, [Next]_vars
  PROVE  PeakInv'
<1>0. ControlInv /\ OwnerInv
  BY DEF OwnInv, TypeInv
<1>1. CASE UNCHANGED vars
  BY <1>1, QuietPeak DEF vars, batchVars
<1>2. CASE NetIO
  BY <1>2, QuietPeak DEF NetIO, AddReq, Abort, batchVars
<1>3. CASE StepNewBatch
  <2>1. PICK n \in 1..Len(waiting_req_list) :
          NewBatch(n) /\ TakeFromQueue(n) /\ running' = Scanned(n)
    BY <1>3 DEF StepNewBatch
  <2>2. /\ at = "step" /\ mini' = mini /\ mini = {} /\ running = {}
        /\ cur_output_len' = cur_output_len
    BY <1>0, <1>3 DEF StepNewBatch, ControlInv
  <2> QED
    BY <2>1, <2>2, AdmissionPeak
<1>4. CASE StepMiniBatch
  <2>1. PICK n \in 1..Len(waiting_req_list) :
          NewBatch(n) /\ TakeFromQueue(n) /\ mini' = Scanned(n)
    BY <1>4 DEF StepMiniBatch
  <2>2. at = "step" /\ running' = running /\ cur_output_len' = cur_output_len
    BY <1>4 DEF StepMiniBatch
  <2> QED
    BY <2>1, <2>2, AdmissionPeak
<1>5. CASE StepDecode
  BY <1>5, QuietPeak DEF StepDecode, batchVars
<1>6. CASE StepPause
  BY <1>6, QuietPeak DEF StepPause
<1>7. CASE InitBatch
  BY <1>7, QuietPeak DEF InitBatch, SetBatch, BatchOf
<1>8. CASE PrefillBatch \/ DecodeBatch
  BY <1>8, ForwardPeak DEF PrefillBatch, DecodeBatch, Forward
<1>9. CASE FreeFinished
  BY <1>9, QuietPeak DEF FreeFinished
<1>10. CASE MergeBatch
  BY <1>10, QuietPeak DEF MergeBatch
<1>11. CASE PauseReqs
  BY <1>11, QuietPeak DEF PauseReqs, batchVars
<1> QED
  BY <1>1, <1>2, <1>3, <1>4, <1>5, <1>6, <1>7, <1>8, <1>9, <1>10, <1>11 DEF Next, Fwd

\* The tokens in use and one more for every running request are cells of the
\* estimate, so _can_decode answers True.
LEMMA DecodeFits ==
  ASSUME OwnInv, NeedInv, LengthInv, TokenInv, PeakInv, at = "step"
  PROVE  CanDecode
<1> DEFINE used == CellsUpTo(requests_mapping, cur_kv_len)
           new  == NewTokens(running)
<1>1. /\ running \in SUBSET Req /\ requests_mapping = running
      /\ can_use_mem_size \in Int
      /\ running_need = Cardinality(running)
  BY DEF OwnInv, TypeInv, TypeOK, ControlInv, OwnerInv, Held, NeedInv
<1>2. \A r \in running : /\ SeqLen[r] = InputLen[r] + cur_output_len[r]
                         /\ SeqLen[r] \in Nat
                         /\ cur_kv_len[r] = SeqLen[r] - 1
  BY DecodeCells
<1>3. \A r \in running : <<r, SeqLen[r]>> \in new
  <2> SUFFICES ASSUME NEW r \in running PROVE <<r, SeqLen[r]>> \in new
    OBVIOUS
  <2>1. r \in Req /\ r \in Held /\ ~Starting(r)
    BY <1>1 DEF Held, Starting
  <2>2. cur_output_len[r] \in Nat /\ cur_output_len[r] >= 1 /\ cur_output_len[r] < MaxNew[r]
    BY <2>1, PeakCells DEF LengthInv
  <2>3. SeqLen[r] \in Position
    BY <1>2, <2>1, <2>2, ParamType, RouterAssumption DEF Position
  <2>4. SeqLen[r] <= SeqLen[r] /\ ~(SeqLen[r] <= cur_kv_len[r])
    BY <1>2
  <2> QED
    BY <2>3, <2>4 DEF NewTokens, CellsUpTo
<1>4. new \in SUBSET (Req \X Position) /\ used \in SUBSET (Req \X Position)
  BY <1>1 DEF NewTokens, CellsUpTo
<1>5. Cardinality(running) <= Cardinality(new)
  <2> DEFINE cell == [r \in running |-> <<r, SeqLen[r]>>]
  <2>1. cell \in [running -> new]
    BY <1>3
  <2>2. \A r, s \in running : cell[r] = cell[s] => r = s
    OBVIOUS
  <2> HIDE DEF cell
  <2>3. cell \in Injection(running, new)
    BY <2>1, <2>2 DEF Injection, IsInjective
  <2>4. IsFiniteSet(new)
    BY <1>4, CellSubset
  <2> QED
    BY <2>3, <2>4, FS_Injection
<1>6. used \cup new \subseteq PeakLoad(0)
  <2> SUFFICES ASSUME NEW c \in running \X Position,
                      c[2] <= SeqLen[c[1]] \/ c[2] <= cur_kv_len[c[1]]
               PROVE  c \in PeakLoad(0)
    BY <1>1 DEF NewTokens, CellsUpTo
  <2>1. /\ c[1] \in running /\ c[1] \in Req /\ c[2] \in Nat
        /\ c \in (running \cup mini) \X Position
    BY <1>1, CellParts
  <2>2. /\ SeqLen[c[1]] = InputLen[c[1]] + cur_output_len[c[1]]
        /\ cur_kv_len[c[1]] = SeqLen[c[1]] - 1
        /\ InputLen[c[1]] \in Nat /\ MaxNew[c[1]] \in Nat
        /\ cur_output_len[c[1]] \in Nat /\ OutAtLeastOne(c[1]) \in Nat
        /\ OutAtLeastOne(c[1]) >= cur_output_len[c[1]]
    BY <1>2, <2>1, ParamType, PeakCells
  <2>3. c[2] <= InputLen[c[1]] + OutAtLeastOne(c[1]) + 0
    BY <2>1, <2>2
  <2>4. AtLeast(0, MaxNew[c[1]] - OutAtLeastOne(c[1]) - 1) >= 0
    BY <2>2 DEF AtLeast
  <2> QED
    BY <2>1, <2>3, <2>4 DEF PeakLoad
<1>7. used \cap new = {}
  BY <1>1 DEF NewTokens, CellsUpTo
<1>8. Cardinality(used \cup new) = Cardinality(used) + Cardinality(new)
  BY <1>4, <1>7, CellCard
<1>9. Cardinality(used \cup new) < MaxTotal
  BY <1>6, SmallerPeak
<1>10. /\ Cardinality(used) \in Nat /\ Cardinality(new) \in Nat /\ Cardinality(running) \in Nat
  BY <1>1, <1>4, CellSubset, ReqSubset
<1>11. can_use_mem_size + Cardinality(used) = MaxTotal
  BY DEF TokenInv, TokenAccounting
<1> HIDE DEF used, new
<1>12. Cardinality(running) + (MaxTotal - can_use_mem_size) <= MaxTotal
  BY <1>1, <1>5, <1>8, <1>9, <1>10, <1>11, RouterAssumption
<1> QED
  BY <1>1, <1>12 DEF CanDecode, UsedTokens

LEMMA NeverPausesStep ==
  ASSUME OwnInv, NeedInv, LengthInv, TokenInv, PeakInv, NeverPauses, [Next]_vars
  PROVE  NeverPauses'
<1> USE DEF NeverPauses
<1>1. CASE UNCHANGED vars \/ NetIO
  BY <1>1 DEF vars, NetIO, AddReq, Abort, loopVars
<1>2. CASE StepNewBatch \/ StepMiniBatch \/ StepDecode \/ InitBatch
  BY <1>2 DEF StepNewBatch, StepMiniBatch, StepDecode, InitBatch
<1>3. CASE StepPause
  <2>1. at = "step" /\ ~CanDecode
    BY <1>3 DEF StepPause, DecodePhase
  <2> QED
    BY <2>1, DecodeFits
<1>4. CASE PrefillBatch \/ DecodeBatch
  BY <1>4, ForwardLengths DEF PrefillBatch, DecodeBatch, Forward
<1>5. CASE FreeFinished
  BY <1>5, EndOfStepAt DEF FreeFinished
<1>6. CASE MergeBatch \/ PauseReqs
  BY <1>6 DEF MergeBatch, PauseReqs
<1> QED
  BY <1>1, <1>2, <1>3, <1>4, <1>5, <1>6 DEF Next, Fwd

\* With the default router_token_ratio (every server is busy) no request is
\* ever paused: what _can_add_new_req promises at admission is kept.
THEOREM NeverPausesWhenBusy == ASSUME BusyFrom = 0 PROVE Spec => []NeverPauses
<1>1. TypeInv /\ OwnerInv => OwnInv
  BY DEF OwnInv
<1>2. Init => NeverPauses
  BY DEF Init, NeverPauses
<1>3. OwnInv /\ LengthInv /\ LengthInv' /\ TokenInv /\ PeakInv /\ [Next]_vars => PeakInv'
  BY PeakStep
<1>4. OwnInv /\ NeedInv /\ LengthInv /\ TokenInv /\ PeakInv /\ NeverPauses /\ [Next]_vars
      => NeverPauses'
  BY NeverPausesStep
<1> QED
  BY <1>1, <1>2, <1>3, <1>4, InitTypeInv, TypeStep, InitOwnerInv, OwnerStep, InitNeedInv,
     NeedStep, InitLengthInv, LengthStep, InitTokenInv, TokenStep, InitPeakInv, PTL DEF Spec

-----------------------------------------------------------------------------
(***************************************************************************)
(* Finish notices and aborts                                               *)
(***************************************************************************)
LEMMA InitNoticeInv == Init => NoticeInv
BY DEF Init, NoticeInv

LEMMA NoticeStep == OwnInv /\ NoticeInv /\ [Next]_vars => NoticeInv'
<1> SUFFICES ASSUME OwnInv, NoticeInv, [Next]_vars PROVE NoticeInv'
  OBVIOUS
<1>0. TypeOK /\ ControlInv /\ OwnerInv
  BY DEF OwnInv, TypeInv
<1>1. CASE UNCHANGED vars
  BY <1>1 DEF vars, queueVars, batchVars, otherVars, NoticeInv
<1>2. CASE NetIO
  <2>1. PICK r \in Req : AddReq(r) \/ Abort(r)
    BY <1>2 DEF NetIO
  <2>2. CASE AddReq(r)
    BY <1>0, <2>2 DEF AddReq, batchVars, otherVars, NoticeInv, TypeOK
  <2>3. CASE Abort(r)
    BY <2>3 DEF Abort, batchVars, NoticeInv
  <2> QED
    BY <2>1, <2>2, <2>3
<1>3. CASE StepNewBatch \/ StepMiniBatch
  <2>1. PICK n \in 1..Len(waiting_req_list) :
          /\ at = "step" /\ NewBatch(n) /\ TakeFromQueue(n)
          /\ running' \cup mini' \subseteq running \cup mini \cup Scanned(n)
    BY <1>3 DEF StepNewBatch, StepMiniBatch
  <2>2. Scanned(n) \in SUBSET Req /\ \A r \in Scanned(n) : req_status[r] = "WAIT_IN_QUEUE"
    BY <2>1, AtSchedule
  <2>3. req_status' = req_status /\ sent' = sent
    BY <1>3 DEF StepNewBatch, StepMiniBatch, otherVars
  <2>4. \A r \in Scanned(n) : sent[r] = "NO_FINISH"
    BY <2>2 DEF NoticeInv
  <2> QED
    BY <2>1, <2>3, <2>4 DEF NoticeInv
<1>4. CASE StepDecode
  BY <1>4 DEF StepDecode, queueVars, batchVars, otherVars, NoticeInv
<1>5. CASE StepPause
  BY <1>0, <1>5 DEF StepPause, otherVars, NoticeInv, TypeOK
<1>6. CASE InitBatch
  BY <1>6 DEF InitBatch, SetBatch, BatchOf, otherVars, NoticeInv
<1>7. CASE PrefillBatch \/ DecodeBatch
  <2>1. PICK stopped \in SUBSET BatchOf(on) : ForwardWith(stopped)
    BY <1>7 DEF PrefillBatch, DecodeBatch, Forward
  <2>2. /\ at \in {"prefill", "decode"}
    BY <1>7 DEF PrefillBatch, DecodeBatch
  <2>3. /\ finished' = Done(BatchOf(on), stopped)
        /\ running' \cup mini' = (running \cup mini) \ finished'
        /\ \A r \in Req : r \in BatchOf(on) => req_status[r] = "RUNNING"
    BY <2>1, <2>2, ForwardLengths
  <2>4. /\ req_status' = req_status
        /\ sent' = [r \in Req |-> IF r \in BatchOf(on) THEN FinishAfter(r, stopped)
                                                       ELSE sent[r]]
    BY <2>1 DEF ForwardWith
  <2>5. running \cup mini \in SUBSET Req
    BY <1>0 DEF TypeOK
  <2> QED
    BY <2>3, <2>4, <2>5 DEF NoticeInv, Done
<1>8. CASE FreeFinished
  BY <1>8 DEF FreeFinished, queueVars, otherVars, NoticeInv
<1>9. CASE MergeBatch
  BY <1>9 DEF MergeBatch, queueVars, otherVars, NoticeInv
<1>10. CASE PauseReqs
  BY <1>10 DEF PauseReqs, queueVars, batchVars, otherVars, NoticeInv
<1> QED
  BY <1>1, <1>2, <1>3, <1>4, <1>5, <1>6, <1>7, <1>8, <1>9, <1>10 DEF Next, Fwd

\* Detokenization is told once that a request is finished, and nothing after.
THEOREM FinishNoticeCorrect == Spec => FinishNoticeIsLast
<1> DEFINE Quiet == \A r \in Req : sent[r] # "NO_FINISH" =>
                      sent'[r] = sent[r] /\ cur_output_len'[r] = cur_output_len[r]
<1>1. TypeInv /\ OwnerInv => OwnInv
  BY DEF OwnInv
<1>2. OwnInv /\ NoticeInv /\ [Next]_vars => Quiet \/ UNCHANGED vars
  <2> SUFFICES ASSUME OwnInv, NoticeInv, Next, NEW r \in Req, sent[r] # "NO_FINISH"
               PROVE  sent'[r] = sent[r] /\ cur_output_len'[r] = cur_output_len[r]
    OBVIOUS
  <2>1. CASE PrefillBatch \/ DecodeBatch
    <3>1. PICK stopped \in SUBSET BatchOf(on) : ForwardWith(stopped)
      BY <2>1 DEF PrefillBatch, DecodeBatch, Forward
    <3>2. r \notin BatchOf(on)
      BY DEF NoticeInv, BatchOf
    <3> QED
      BY <3>1, <3>2 DEF ForwardWith
  <2>2. CASE NetIO
    BY <2>2 DEF NetIO, AddReq, Abort, otherVars
  <2>3. CASE StepNewBatch \/ StepMiniBatch \/ StepDecode \/ StepPause
    BY <2>3 DEF StepNewBatch, StepMiniBatch, StepDecode, StepPause, otherVars
  <2>4. CASE InitBatch \/ FreeFinished \/ MergeBatch \/ PauseReqs
    BY <2>4 DEF InitBatch, FreeFinished, MergeBatch, PauseReqs, otherVars
  <2> QED
    BY <2>1, <2>2, <2>3, <2>4 DEF Next, Fwd
<1>3. OwnInv /\ NoticeInv /\ [Next]_vars => [Quiet]_vars
  BY <1>2
<1> QED
  BY <1>1, <1>3, InitTypeInv, TypeStep, InitOwnerInv, OwnerStep, InitNoticeInv, NoticeStep,
     PTL DEF Spec, FinishNoticeIsLast

LEMMA InitAbortInv == Init => AbortInv
BY DEF Init, AbortInv

LEMMA AbortStep == OwnInv /\ LengthInv /\ AbortInv /\ [Next]_vars => AbortInv'
<1> SUFFICES ASSUME OwnInv, LengthInv, AbortInv, [Next]_vars PROVE AbortInv'
  OBVIOUS
<1>0. /\ TypeOK /\ ControlInv /\ OwnerInv
      /\ running \cup mini \in SUBSET Req
      /\ \A r \in Req : cur_output_len[r] \in Nat /\ abort_at[r] \in Int
  BY DEF OwnInv, TypeInv, TypeOK, NotAborted
<1>1. CASE UNCHANGED vars
  BY <1>1 DEF vars, queueVars, batchVars, otherVars, AbortInv, InQueue
<1>2. CASE NetIO
  <2>1. PICK r \in Req : AddReq(r) \/ Abort(r)
    BY <1>2 DEF NetIO
  <2>2. CASE AddReq(r)
    <3>1. \A q \in Req : InQueue(q)' => InQueue(q) \/ q = r
      <4>1. /\ waiting_req_list \in Seq(Req) /\ Len(waiting_req_list) \in Nat
            /\ waiting_req_list' = Append(waiting_req_list, r)
        BY <1>0, <2>2 DEF AddReq, TypeOK
      <4>2. /\ Len(waiting_req_list') = Len(waiting_req_list) + 1
            /\ waiting_req_list'[Len(waiting_req_list) + 1] = r
            /\ \A i \in 1..Len(waiting_req_list) : waiting_req_list'[i] = waiting_req_list[i]
        BY <4>1
      <4> QED
        BY <4>1, <4>2 DEF InQueue
    <3>2. finish_status[r] # "FINISHED_ABORT"
      BY <2>2 DEF AddReq, AbortInv
    <3> QED
      BY <1>0, <2>2, <3>1, <3>2 DEF AddReq, batchVars, otherVars, AbortInv, TypeOK
  <2>3. CASE Abort(r)
    <3>1. \A q \in Req : InQueue(q)' = InQueue(q)
      BY <2>3 DEF Abort, InQueue
    <3>2. /\ UNCHANGED <<req_status, cur_output_len, running, mini>>
          /\ req_status[r] # "NOT_SENT"
          /\ abort_at' = [abort_at EXCEPT ![r] = cur_output_len[r]]
          /\ \A q \in Req : q # r => finish_status'[q] = finish_status[q]
      BY <1>0, <2>3 DEF Abort, batchVars, TypeOK
    <3>3. /\ abort_at'[r] = cur_output_len[r]
          /\ \A q \in Req : q # r => abort_at'[q] = abort_at[q]
      BY <1>0, <3>2 DEF TypeOK
    <3> QED
      BY <1>0, <3>1, <3>2, <3>3 DEF AbortInv
  <2> QED
    BY <2>1, <2>2, <2>3
<1>3. CASE StepNewBatch \/ StepMiniBatch
  <2>1. PICK n \in 1..Len(waiting_req_list) :
          /\ at = "step" /\ NewBatch(n) /\ TakeFromQueue(n)
          /\ running' \cup mini' \subseteq running \cup mini \cup Scanned(n)
    BY <1>3 DEF StepNewBatch, StepMiniBatch
  <2>2. \A r \in Scanned(n) : InQueue(r)
    BY <1>0, <2>1, ScannedSubset DEF InQueue, Scanned
  <2>3. \A r \in Req : InQueue(r)' => InQueue(r)
    <3>1. Len(waiting_req_list) \in Nat
      BY <1>0 DEF TypeOK
    <3>2. \A i \in 1..Len(waiting_req_list') :
            /\ n + i \in 1..Len(waiting_req_list)
            /\ waiting_req_list'[i] = waiting_req_list[n + i]
      BY <1>0, <2>1, <3>1, TakenQueue
    <3> QED
      BY <3>2 DEF InQueue
  <2>4. UNCHANGED <<req_status, finish_status, cur_output_len, abort_at>>
    BY <1>3 DEF StepNewBatch, StepMiniBatch, otherVars
  <2> QED
    BY <2>1, <2>2, <2>3, <2>4 DEF AbortInv
<1>4. CASE StepDecode
  BY <1>4 DEF StepDecode, queueVars, batchVars, otherVars, AbortInv, InQueue
<1>5. CASE StepPause
  <2>1. PICK r \in running : /\ running' = running \ {r}
                             /\ waiting_req_list' = <<r>> \o waiting_req_list
                             /\ req_status' = [req_status EXCEPT ![r] = "PAUSED_AND_OFFLOAD"]
    BY <1>5 DEF StepPause
  <2>2. \A q \in Req : InQueue(q)' => InQueue(q) \/ q = r
    <3> SUFFICES ASSUME NEW q \in Req, InQueue(q)', q # r PROVE InQueue(q)
      OBVIOUS
    <3>1. r \in Req /\ waiting_req_list \in Seq(Req) /\ Len(waiting_req_list) \in Nat
      BY <1>0 DEF TypeOK
    <3>2. /\ Len(waiting_req_list') = Len(waiting_req_list) + 1
          /\ waiting_req_list'[1] = r
          /\ \A i \in 2..Len(waiting_req_list') : waiting_req_list'[i] = waiting_req_list[i - 1]
      BY <2>1, <3>1
    <3> QED
      BY <3>1, <3>2 DEF InQueue
  <2>3. UNCHANGED <<finish_status, cur_output_len, abort_at, mini>>
    BY <1>5 DEF StepPause, otherVars
  <2> QED
    BY <1>0, <2>1, <2>2, <2>3 DEF AbortInv, TypeOK
<1>6. CASE InitBatch
  BY <1>0, <1>6 DEF InitBatch, SetBatch, BatchOf, otherVars, AbortInv, InQueue, TypeOK
<1>7. CASE PrefillBatch \/ DecodeBatch
  <2>1. PICK stopped \in SUBSET BatchOf(on) : ForwardWith(stopped)
    BY <1>7 DEF PrefillBatch, DecodeBatch, Forward
  <2>2. at \in {"prefill", "decode"}
    BY <1>7 DEF PrefillBatch, DecodeBatch
  <2>3. /\ BatchOf(on) \subseteq running \cup mini
        /\ finished' = Done(BatchOf(on), stopped)
        /\ running' \cup mini' = (running \cup mini) \ finished'
        /\ \A r \in Req : r \in BatchOf(on) => cur_output_len'[r] = cur_output_len[r] + 1
        /\ \A r \in Req : r \notin BatchOf(on) => cur_output_len'[r] = cur_output_len[r]
    BY <2>1, <2>2, ForwardLengths
  <2>4. /\ UNCHANGED <<req_status, abort_at, waiting_req_list>>
        /\ finish_status' = [r \in Req |-> IF r \in BatchOf(on) THEN FinishAfter(r, stopped)
                                                                ELSE finish_status[r]]
    BY <2>1 DEF ForwardWith
  <2>5. \A r \in Req : InQueue(r)' = InQueue(r)
    BY <2>4 DEF InQueue
  <2> SUFFICES ASSUME NEW r \in Req, finish_status'[r] = "FINISHED_ABORT"
               PROVE  /\ req_status[r] # "NOT_SENT"
                      /\ cur_output_len'[r] <= abort_at[r] + 1
                      /\ r \in running' \cup mini' \/ InQueue(r) => cur_output_len'[r] <= abort_at[r]
    BY <2>4, <2>5 DEF AbortInv
  <2>6. CASE r \in BatchOf(on)
    <3>1. FinishAfter(r, stopped) = "FINISHED_ABORT"
      BY <2>4, <2>6
    <3>2. finish_status[r] = "FINISHED_ABORT"
      BY <3>1 DEF FinishAfter
    <3>3. cur_output_len[r] <= abort_at[r] /\ req_status[r] # "NOT_SENT"
      BY <2>3, <2>6, <3>2 DEF AbortInv
    <3>4. r \in finished'
      BY <2>3, <2>6, <3>1 DEF Done
    <3>5. ~InQueue(r)
      BY <2>3, <2>6, <1>0 DEF OwnerInv, Held, InQueue
    <3> QED
      BY <1>0, <2>3, <2>6, <3>3, <3>4, <3>5
  <2>7. CASE r \notin BatchOf(on)
    BY <2>3, <2>4, <2>7 DEF AbortInv
  <2> QED
    BY <2>6, <2>7
<1>8. CASE FreeFinished
  BY <1>8 DEF FreeFinished, queueVars, otherVars, AbortInv, InQueue
<1>9. CASE MergeBatch
  BY <1>9 DEF MergeBatch, queueVars, otherVars, AbortInv, InQueue
<1>10. CASE PauseReqs
  BY <1>10 DEF PauseReqs, queueVars, batchVars, otherVars, AbortInv, InQueue
<1> QED
  BY <1>1, <1>2, <1>3, <1>4, <1>5, <1>6, <1>7, <1>8, <1>9, <1>10 DEF Next, Fwd

\* An abort that reached the Req object, in the queue or in the running batch,
\* ends the request with its next forward: it makes one more token at most.
THEOREM AbortIsPromptCorrect == Spec => []AbortIsPrompt
<1>1. TypeInv /\ OwnerInv => OwnInv
  BY DEF OwnInv
<1>2. AbortInv => AbortIsPrompt
  BY DEF AbortInv, AbortIsPrompt
<1> QED
  BY <1>1, <1>2, InitTypeInv, TypeStep, InitOwnerInv, OwnerStep, InitLengthInv, LengthStep,
     InitAbortInv, AbortStep, PTL DEF Spec

\* The whole strengthening is invariant: where each request is, what both copies of
\* its batch say, its slot, its tokens, its notice and its abort agree.
THEOREM IndInvCorrect == Spec => []IndInv
<1>1. TypeInv /\ OwnerInv => OwnInv
  BY DEF OwnInv
<1>2. /\ TypeInv /\ OwnerInv /\ NeedInv /\ SlotInv /\ CacheInv
      /\ LengthInv /\ TokenInv /\ NoticeInv /\ AbortInv
      => IndInv
  BY DEF IndInv, TypeInv
<1> QED
  BY <1>1, <1>2, InitTypeInv, TypeStep, InitOwnerInv, OwnerStep, InitNeedInv, NeedStep,
     InitSlotInv, SlotStep, InitCacheInv, CacheStep, InitLengthInv, LengthStep,
     InitTokenInv, TokenStep, InitNoticeInv, NoticeStep, InitAbortInv, AbortStep,
     PTL DEF Spec

\* The answer of the forward in flight does not overwrite an abort, and the
\* output sent with it carries the abort.
THEOREM AbortSticksCorrect == Spec => AbortSticks
<1> DEFINE Sticks == \A r \in Req : finish_status[r] = "FINISHED_ABORT" =>
                       /\ finish_status'[r] = "FINISHED_ABORT"
                       /\ cur_output_len'[r] # cur_output_len[r]
                             => sent'[r] = "FINISHED_ABORT"
<1>1. TypeInv /\ [Next]_vars => [Sticks]_vars
  <2> SUFFICES ASSUME TypeInv, Next, NEW r \in Req, finish_status[r] = "FINISHED_ABORT"
               PROVE  /\ finish_status'[r] = "FINISHED_ABORT"
                      /\ cur_output_len'[r] # cur_output_len[r]
                            => sent'[r] = "FINISHED_ABORT"
    OBVIOUS
  <2>1. CASE PrefillBatch \/ DecodeBatch
    <3>1. PICK stopped \in SUBSET BatchOf(on) : ForwardWith(stopped)
      BY <2>1 DEF PrefillBatch, DecodeBatch, Forward
    <3>2. FinishAfter(r, stopped) = "FINISHED_ABORT"
      BY DEF FinishAfter
    <3> QED
      BY <3>1, <3>2 DEF ForwardWith
  <2>2. CASE NetIO
    <3>1. PICK q \in Req : AddReq(q) \/ Abort(q)
      BY <2>2 DEF NetIO
    <3>2. cur_output_len' = cur_output_len
      BY <3>1 DEF AddReq, Abort
    <3>3. finish_status'[r] = "FINISHED_ABORT"
      BY <3>1 DEF AddReq, Abort, TypeInv, TypeOK
    <3> QED
      BY <3>2, <3>3
  <2>3. CASE StepNewBatch \/ StepMiniBatch \/ StepDecode \/ StepPause
    BY <2>3 DEF StepNewBatch, StepMiniBatch, StepDecode, StepPause, queueVars
  <2>4. CASE InitBatch \/ FreeFinished \/ MergeBatch \/ PauseReqs
    BY <2>4 DEF InitBatch, FreeFinished, MergeBatch, PauseReqs, queueVars
  <2> QED
    BY <2>1, <2>2, <2>3, <2>4 DEF Next, Fwd
<1> QED
  BY <1>1, InitTypeInv, TypeStep, PTL DEF Spec, AbortSticks
=============================================================================

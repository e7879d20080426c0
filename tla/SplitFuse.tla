------------------------------ MODULE SplitFuse ------------------------------
(***************************************************************************)
(* The split-fuse mode of the scheduler (SplitFuseQueue, SplitFuseReq,     *)
(* SplitFuseBackend).  A prompt is not prefilled at once: every forward of *)
(* the running batch takes one block of each prompt that is not yet done   *)
(* together with one token of each answer, and a request makes its first   *)
(* token with the last block of its prompt.  _prefill_batch only tells the *)
(* model process about the new requests.                                   *)
(*                                                                         *)
(* The loops, the awaits and the release of finished requests are those of *)
(* Router, whose variables and action names are kept; the batches stored   *)
(* in the model process and its request slots are shown to agree there and *)
(* are left out here.  No prompt cache, best_of = 1.                       *)
(***************************************************************************)
EXTENDS Integers, Sequences, FiniteSetsExt, Functions

CONSTANTS
  Req, InputLen, MaxNew, IgnoreEos,
  MaxTotal, MaxReqTotal, BatchMaxTokens, RunningMaxReqSize, MaxWaitTokens,
  BusyFrom, RouterMaxNewTokenLen,   \* as in Router
  Block                             (* splitfuse_block_size *)

\* The length check of HttpServerManager.generate, the assertions of
\* api_server in split-fuse mode, and the size assertion of the model.
ASSUME SplitFuseAssumption ==
  /\ Req \subseteq Nat /\ IsFiniteSet(Req)
  /\ InputLen \in [Req -> Nat \ {0}] /\ MaxNew \in [Req -> Nat \ {0}]
  /\ IgnoreEos \subseteq Req
  /\ {MaxTotal, MaxReqTotal, BatchMaxTokens, BusyFrom, RouterMaxNewTokenLen} \subseteq Nat
  /\ {RunningMaxReqSize, MaxWaitTokens, Block} \subseteq Nat \ {0}
  /\ \A r \in Req : InputLen[r] + MaxNew[r] <= MaxReqTotal
  /\ MaxReqTotal + 8 < MaxTotal
  /\ BatchMaxTokens > Block

VARIABLES
  waiting_req_list,         \* the queue, head first
  req_status, finish_status, cur_output_len, cur_kv_len,   \* of each Req
  running, running_need,    \* running_batch, its batch_decode_need_tokens
  mini, mini_need,          \* new_mini_batch, a local variable of _step
  finished,                 \* finished_req_ids, while their release is awaited
  has_wait_tokens,
  at, on,                   \* where loop_for_fwd is suspended, on which path
  can_use_mem_size          \* free tokens of the pool

reqVars   == <<req_status, finish_status, cur_output_len, cur_kv_len>>
batchVars == <<running, running_need, mini, mini_need, finished>>
vars == <<waiting_req_list, reqVars, batchVars, has_wait_tokens, at, on,
          can_use_mem_size>>

InQueue(r) == \E i \in 1..Len(waiting_req_list) : waiting_req_list[i] = r
Total(S, val) == SumFunctionOnSet(val, S)

Init ==
  /\ waiting_req_list = <<>>
  /\ req_status = [r \in Req |-> "NOT_SENT"]
  /\ finish_status = [r \in Req |-> "NO_FINISH"]
  /\ cur_output_len = [r \in Req |-> 0]
  /\ cur_kv_len = [r \in Req |-> 0]
  /\ running = {} /\ running_need = 0 /\ mini = {} /\ mini_need = 0
  /\ finished = {} /\ has_wait_tokens = 0
  /\ at = "step" /\ on = "new"
  /\ can_use_mem_size = MaxTotal

-----------------------------------------------------------------------------
(***************************************************************************)
(* SplitFuseReq: lengths and estimates.                                    *)
(***************************************************************************)
SeqLen == [r \in Req |-> InputLen[r] + cur_output_len[r]]

\* get_decode_need_tokens and get_first_router_need_tokens: the tokens a
\* request adds with the next forward, and the ones SplitFuseBackend gives it.
NextTokens == [r \in Req |-> Min({SeqLen[r] - cur_kv_len[r], Block})]

IsBusy == MaxTotal - can_use_mem_size >= BusyFrom

ExpectedNew(r) ==
  IF r \in IgnoreEos \/ IsBusy
  THEN MaxNew[r]
  ELSE Min({MaxNew[r], Max({(11 * cur_output_len[r]) \div 10, RouterMaxNewTokenLen})})

\* get_tuple_tokens, second part: the forwards a request still needs, which is
\* the number of its blocks to come and of its tokens to come.
LeftLen(r) ==
  Max({0, (SeqLen[r] - cur_kv_len[r] + Block - 1) \div Block
            + ExpectedNew(r) - cur_output_len[r] - 1})

\* need_max_token_num: as if the longest requests each added a token with every
\* forward, their whole prompts being there from the start.
Peak(S) ==
  Max({0} \cup {LET longer == {q \in S : LeftLen(q) >= LeftLen(r)}
                IN  LeftLen(r) * Cardinality(longer) + Total(longer, SeqLen) : r \in S})

-----------------------------------------------------------------------------
(***************************************************************************)
(* SplitFuseQueue.generate_new_batch                                       *)
(***************************************************************************)
Skipped(i) == finish_status[waiting_req_list[i]] = "FINISHED_ABORT"
Scanned(n) == {waiting_req_list[i] : i \in {j \in 1..n : ~Skipped(j)}}

\* Mutant: only the tokens of the next forward are looked for in the pool.
CanRunNow(S) ==
  /\ MaxTotal - can_use_mem_size + running_need + Total(S, NextTokens) <= MaxTotal
  /\ Cardinality(running \cup S) <= RunningMaxReqSize
  /\ running_need + Total(S, NextTokens) <= BatchMaxTokens

\* _can_add_new_req: whether the requests S taken so far, the last one included,
\* can join the running batch.
CanRun(S) ==
  /\ Peak(running \cup S) < MaxTotal
  /\ Cardinality(running \cup S) <= RunningMaxReqSize
  /\ running_need + Total(S, NextTokens) <= BatchMaxTokens

NewBatch(n) ==
  /\ Cardinality(running) < RunningMaxReqSize
  /\ n \in 1..Len(waiting_req_list)
  /\ \A i \in 1..n : Scanned(i) # {} => CanRun(Scanned(i))
  /\ n < Len(waiting_req_list) => ~Skipped(n + 1) /\ ~CanRun(Scanned(n + 1))
  /\ Scanned(n) # {}

\* Mutant: only the requests of the new batch leave the queue, though aborted
\* ones were skipped.
TakeOnlyBatch(n) ==
  waiting_req_list' = SubSeq(waiting_req_list, Cardinality(Scanned(n)) + 1,
                             Len(waiting_req_list))

TakeFromQueue(n) ==
  waiting_req_list' = SubSeq(waiting_req_list, n + 1, Len(waiting_req_list))

-----------------------------------------------------------------------------
(***************************************************************************)
(* loop_for_netio_req                                                      *)
(***************************************************************************)
AddReq(r) ==
  /\ req_status[r] = "NOT_SENT"
  /\ req_status' = [req_status EXCEPT ![r] = "WAIT_IN_QUEUE"]
  /\ waiting_req_list' = Append(waiting_req_list, r)
  /\ UNCHANGED <<finish_status, cur_output_len, cur_kv_len, batchVars,
                 has_wait_tokens, at, on, can_use_mem_size>>

\* The mini batch that is being initialised is not looked into.
Abort(r) ==
  /\ finish_status[r] = "NO_FINISH"
  /\ r \in running \/ InQueue(r)
  /\ finish_status' = [finish_status EXCEPT ![r] = "FINISHED_ABORT"]
  /\ UNCHANGED <<waiting_req_list, req_status, cur_output_len, cur_kv_len,
                 batchVars, has_wait_tokens, at, on, can_use_mem_size>>

-----------------------------------------------------------------------------
(***************************************************************************)
(* loop_for_fwd: the decision _step takes before its first await.          *)
(***************************************************************************)
StepNewBatch ==
  /\ at = "step" /\ running = {}
  /\ \E n \in 1..Len(waiting_req_list) :
       NewBatch(n) /\ running' = Scanned(n) /\ TakeFromQueue(n)
  /\ at' = "init" /\ on' = "new"
  /\ UNCHANGED <<reqVars, running_need, mini, mini_need, finished,
                 has_wait_tokens, can_use_mem_size>>

StepMiniBatch ==
  /\ at = "step" /\ running # {} /\ has_wait_tokens >= MaxWaitTokens
  /\ \E n \in 1..Len(waiting_req_list) :
       NewBatch(n) /\ mini' = Scanned(n) /\ TakeFromQueue(n)
  /\ has_wait_tokens' = 0
  /\ at' = "init" /\ on' = "mini"
  /\ UNCHANGED <<reqVars, running, running_need, mini_need, finished,
                 can_use_mem_size>>

CanDecode == running_need + (MaxTotal - can_use_mem_size) <= MaxTotal

DecodePhase ==
  /\ at = "step" /\ running # {}
  /\ has_wait_tokens >= MaxWaitTokens =>
       \A n \in 1..Len(waiting_req_list) : ~NewBatch(n)
  /\ has_wait_tokens' = IF has_wait_tokens >= MaxWaitTokens THEN 0 ELSE has_wait_tokens

StepDecode ==
  /\ DecodePhase /\ CanDecode
  /\ at' = "decode" /\ on' = "decode"
  /\ UNCHANGED <<waiting_req_list, reqVars, batchVars, can_use_mem_size>>

\* select_paused_reqs takes the youngest request out of the batch; the RPC that
\* follows raises in the model process (see PauseReqs in Router) and ends the loop.
StepPause ==
  /\ DecodePhase /\ ~CanDecode
  /\ LET r == Max(running)
     IN  /\ running' = running \ {r}
         /\ running_need' = running_need - NextTokens[r]
         /\ req_status' = [req_status EXCEPT ![r] = "PAUSED_AND_OFFLOAD"]
         /\ waiting_req_list' = <<r>> \o waiting_req_list
  /\ at' = "dead" /\ on' = "decode"
  /\ UNCHANGED <<finish_status, cur_output_len, cur_kv_len, mini, mini_need,
                 finished, can_use_mem_size>>

-----------------------------------------------------------------------------
(***************************************************************************)
(* loop_for_fwd: the RPCs and the code that follows each of them.          *)
(***************************************************************************)
\* init_batch, then _update_init_status_to_batch.  The first batch is decoded
\* by the next _step; has_wait_tokens is reset for it only.
InitBatch ==
  /\ at = "init"
  /\ LET batch == IF on = "mini" THEN mini ELSE running
         need  == Total(batch, NextTokens)
     IN  /\ req_status' = [r \in Req |-> IF r \in batch THEN "RUNNING" ELSE req_status[r]]
         /\ IF on = "mini"
            THEN mini_need' = need /\ at' = "merge" /\ UNCHANGED <<running_need, has_wait_tokens>>
            ELSE running_need' = need /\ at' = "step" /\ has_wait_tokens' = 0 /\ UNCHANGED mini_need
  /\ UNCHANGED <<waiting_req_list, finish_status, cur_output_len, cur_kv_len, running,
                 mini, finished, on, can_use_mem_size>>

\* Mutant: the need of the mini batch is not added.
MergedNeedForgotten == running_need

MergedNeed == running_need + mini_need

MergeBatch ==
  /\ at = "merge"
  /\ running' = running \cup mini /\ running_need' = MergedNeed
  /\ mini' = {} /\ mini_need' = 0
  /\ at' = "step"
  /\ UNCHANGED <<waiting_req_list, reqVars, finished, has_wait_tokens, on,
                 can_use_mem_size>>

\* The last block of a prompt, or the only token of a decoding request.
EndsInToken(r) == cur_kv_len[r] + NextTokens[r] = SeqLen[r]

\* update_finish_status, which does not overwrite an abort in the router.
FinishAfter(r, stopped) ==
  IF finish_status[r] = "FINISHED_ABORT" THEN "FINISHED_ABORT"
  ELSE IF ~EndsInToken(r) THEN "NO_FINISH"
  ELSE IF r \in stopped THEN "FINISHED_STOP"
  ELSE IF cur_output_len[r] + 1 >= MaxNew[r] THEN "FINISHED_LENGTH"
  ELSE "NO_FINISH"

\* batch_decode_need_tokens: summed over the answers, less the finished ones.
NeedAfter == Total(running, NextTokens)

\* decode_batch: one block or one token of every request, then the bookkeeping
\* of _decode_batch up to the release of the finished requests.
DecodeBatch ==
  /\ at = "decode"
  /\ Total(running, NextTokens) <= can_use_mem_size
  /\ can_use_mem_size' = can_use_mem_size - Total(running, NextTokens)
  /\ cur_kv_len' = [r \in Req |-> IF r \in running THEN cur_kv_len[r] + NextTokens[r]
                                                   ELSE cur_kv_len[r]]
  /\ cur_output_len' = [r \in Req |-> IF r \in running /\ EndsInToken(r)
                                      THEN cur_output_len[r] + 1 ELSE cur_output_len[r]]
  /\ \E stopped \in SUBSET {r \in running : EndsInToken(r)} :
       finish_status' = [r \in Req |-> IF r \in running THEN FinishAfter(r, stopped)
                                                        ELSE finish_status[r]]
  /\ finished' = {r \in running : finish_status'[r] # "NO_FINISH"}
  /\ running' = running \ finished'
  /\ running_need' = NeedAfter'
  /\ IF finished' = {} THEN at' = "step" /\ has_wait_tokens' = has_wait_tokens + 1
                       ELSE at' = "finish" /\ UNCHANGED has_wait_tokens
  /\ UNCHANGED <<waiting_req_list, req_status, mini, mini_need, on>>

\* Mutant: the whole prompt is freed, however far it has been prefilled.
FreedPrompt == [r \in Req |-> SeqLen[r] - 1]

\* _free_a_req_mem: all the request has put into the pool.
FreedTokens == cur_kv_len

\* filter_batch or remove_batch, then the end of _step.
FreeFinished ==
  /\ at = "finish"
  /\ can_use_mem_size' = can_use_mem_size + Total(finished, FreedTokens)
  /\ cur_kv_len' = [r \in Req |-> IF r \in finished THEN 0 ELSE cur_kv_len[r]]
  /\ finished' = {}
  /\ at' = "step" /\ has_wait_tokens' = has_wait_tokens + 1
  /\ UNCHANGED <<waiting_req_list, req_status, finish_status, cur_output_len,
                 running, running_need, mini, mini_need, on>>

-----------------------------------------------------------------------------
NetIO == \E r \in Req : AddReq(r) \/ Abort(r)

Fwd == \/ StepNewBatch \/ StepMiniBatch \/ StepDecode \/ StepPause
       \/ InitBatch \/ MergeBatch \/ DecodeBatch \/ FreeFinished

Next == NetIO \/ Fwd

Spec == Init /\ [][Next]_vars

\* The event loop runs loop_for_fwd again and again, and an RPC returns.
FairSpec == Spec /\ WF_vars(Fwd)

-----------------------------------------------------------------------------
(***************************************************************************)
(* Properties                                                              *)
(***************************************************************************)
Paused == {r \in Req : req_status[r] = "PAUSED_AND_OFFLOAD"}
Held   == running \cup mini \cup finished \cup Paused

\* The values the variables take, in the manager and in the requests.
TypeOK ==
  /\ waiting_req_list \in Seq(Req)
  /\ req_status \in [Req -> {"NOT_SENT", "WAIT_IN_QUEUE", "RUNNING", "PAUSED_AND_OFFLOAD"}]
  /\ finish_status \in
       [Req -> {"NO_FINISH", "FINISHED_STOP", "FINISHED_LENGTH", "FINISHED_ABORT"}]
  /\ cur_output_len \in [Req -> Nat] /\ cur_kv_len \in [Req -> Nat]
  /\ \A r \in Req : cur_output_len[r] <= MaxNew[r]
  /\ running \subseteq Req /\ mini \subseteq Req /\ finished \subseteq Req
  /\ running_need \in Nat /\ mini_need \in Nat
  /\ has_wait_tokens \in 0..MaxWaitTokens
  /\ at \in {"step", "init", "merge", "decode", "finish", "dead"}
  /\ on \in {"new", "mini", "decode"}
  /\ can_use_mem_size \in 0..MaxTotal

\* A forward never takes more than batch_max_tokens, though requests are taken
\* against the cached need of a batch that goes on decoding (impl.py: "splitfuse
\* decode ok").
StepFitsBatch ==
  at = "decode" => Total(running, NextTokens) <= BatchMaxTokens

\* The cached batch_decode_need_tokens, kept by four pieces of code, is what the
\* batch takes with its next forward whenever a decision is based on it.
NeedIsExact ==
  (at \in {"step", "decode", "finish"} \/ (on = "mini" /\ at # "dead")) =>
    running_need = Total(running, NextTokens)

\* The assertions of splitfuse_prepare_decode_inputs hold, a prompt is cut at
\* multiples of the block, and a token is made exactly where a prompt ends.
BlocksInOrder ==
  \A r \in running \cup mini :
    /\ cur_kv_len[r] < SeqLen[r]
    /\ IF cur_output_len[r] > 0 THEN cur_kv_len[r] = SeqLen[r] - 1
                                ELSE cur_kv_len[r] % Block = 0

\* What the decisions are based on is what happens: the cached need of the batch is
\* that of its next forward, which stays within batch_max_tokens, and the forward cuts
\* a prompt at multiples of the block and makes a token exactly where it ends.
ForwardAsDecided == NeedIsExact /\ StepFitsBatch /\ BlocksInOrder

\* No token of the pool is leaked or given back twice, wherever in its prompt a
\* request is when it ends.
TokenAccounting == can_use_mem_size + Total(Held, cur_kv_len) = MaxTotal

\* A request is in one place only.
OwnedOnce ==
  /\ \A i, j \in 1..Len(waiting_req_list) :
       waiting_req_list[i] = waiting_req_list[j] => i = j
  /\ \A r \in Req : InQueue(r) => r \notin running \cup mini \cup finished
  /\ running \cap mini = {} /\ (running \cup mini) \cap finished = {}

\* With the default router_token_ratio (always busy) the peak estimated at
\* admission bounds every later state: no request is ever paused, so the
\* forward finds its tokens.
NeverPauses == at # "dead"

\* "the max value for req_input_len + req_output_len" (api_cli.py): every request
\* within it that reaches the queue is served to its end, or was aborted.
EveryRequestServed == \A r \in Req : InQueue(r) ~> finish_status[r] # "NO_FINISH"
=============================================================================

------------------------------- MODULE Router -------------------------------
(***************************************************************************)
(* The request scheduler of the serving back end (lightllm/server/router): *)
(* RouterManager, its ContinuesBatchQueue, the Batch bookkeeping, and the  *)
(* part of the model process the router drives by RPC (InferBatch,         *)
(* requests_mapping, the token pool and the request-slot pool).            *)
(*                                                                         *)
(* Two asyncio tasks share the router's state.  loop_for_netio_req takes   *)
(* requests and aborts from the HTTP server (AddReq, Abort); loop_for_fwd  *)
(* runs _step for ever.  _step gives the control away at every await of an *)
(* RPC, so a network message can be handled between the statement that     *)
(* issues a call and the code that uses its answer.  `at' names the await  *)
(* at which loop_for_fwd is suspended and `on' the path of _step it is on. *)
(* One action serves one RPC and runs the code up to the next await: the   *)
(* served call touches only the model process, which nobody else touches.  *)
(*                                                                         *)
(* The module covers the default mode: NormalReq, best_of = 1 (a request   *)
(* is its own group), no prompt cache.  A generated token is abstracted to *)
(* whether it stops its request (end of sequence, or a stop sequence).     *)
(***************************************************************************)
EXTENDS Integers, FiniteSets, Sequences

CONSTANTS
  Req,                 (* request ids, in the order the id generator issued them *)
  InputLen,            (* prompt length of each request                          *)
  MaxNew,              (* its sampling parameter max_new_tokens                  *)
  IgnoreEos,           (* the requests whose sampling parameters ignore EOS      *)
  MaxTotal,            (* max_total_token_num: size of the KV token pool         *)
  MaxReqTotal,         (* max_req_total_len: bound on prompt + output            *)
  BatchMaxTokens,      (* batch_max_tokens: bound on the tokens of one prefill   *)
  RunningMaxReqSize,   (* running_max_req_size                                   *)
  MaxWaitTokens,       (* router_max_wait_tokens                                 *)
  BusyFrom,            (* least token use that makes router_token_ratio "busy"   *)
  RouterMaxNewTokenLen (* router_max_new_token_len                               *)

SlotMargin == 8    \* spare request slots and spare sequence positions

(***************************************************************************)
(* What the program checks before a request can reach the router: the      *)
(* length check of HttpServerManager.generate, the assertions of           *)
(* api_server and the size assertion of the model at start-up.             *)
(***************************************************************************)
ASSUME RouterAssumption ==
  /\ Req \subseteq Nat /\ IsFiniteSet(Req)
  /\ InputLen \in [Req -> Nat \ {0}]
  /\ MaxNew \in [Req -> Nat \ {0}]
  /\ IgnoreEos \subseteq Req
  /\ MaxTotal \in Nat /\ MaxReqTotal \in Nat /\ BatchMaxTokens \in Nat
  /\ \A r \in Req : InputLen[r] + MaxNew[r] <= MaxReqTotal
  /\ MaxReqTotal + SlotMargin < MaxTotal
  /\ BatchMaxTokens >= MaxReqTotal
  /\ RunningMaxReqSize \in Nat \ {0}
  /\ MaxWaitTokens \in Nat \ {0}
  /\ BusyFrom \in Nat
  /\ RouterMaxNewTokenLen \in Nat

VARIABLES
  \* router process, shared by its two tasks
  waiting_req_list,   \* the queue, head first
  req_status, finish_status, cur_output_len,   \* fields of each Req object
  is_running,         \* running_batch is not None
  running, running_need,   \* running_batch: its reqs and batch_decode_need_tokens
  mini, mini_need,    \* new_mini_batch, a local variable of _step
  finished,           \* finished_req_ids, while their release is awaited
  has_wait_tokens,
  at, on,             \* where loop_for_fwd is suspended, on which path of _step
  \* model process
  requests_mapping,   \* the requests it holds a slot and an InferReq for
  cache,              \* request_ids of the InferBatch stored for each batch id
  cur_kv_len,         \* tokens a request holds in the pool
  can_use_mem_size, can_use_req_size,
  \* what the others were told
  sent,               \* finish status in the last output sent to detokenization
  abort_at            \* output length when the AbortReq was handled

queueVars == <<waiting_req_list, req_status, finish_status>>
batchVars == <<is_running, running, running_need, mini, mini_need>>
loopVars  == <<finished, has_wait_tokens, at, on>>
modelVars == <<requests_mapping, cache, cur_kv_len, can_use_mem_size,
               can_use_req_size>>
otherVars == <<sent, abort_at>>

vars == <<queueVars, cur_output_len, batchVars, loopVars, modelVars, otherVars>>

ReqRunStatus == {"NOT_SENT", "WAIT_IN_QUEUE", "RUNNING", "PAUSED_AND_OFFLOAD"}
FinishStatus == {"NO_FINISH", "FINISHED_STOP", "FINISHED_LENGTH", "FINISHED_ABORT"}
NotAborted   == -1
InQueue(r)   == \E i \in 1..Len(waiting_req_list) : waiting_req_list[i] = r

Init ==
  /\ waiting_req_list = <<>>
  /\ req_status = [r \in Req |-> "NOT_SENT"]
  /\ finish_status = [r \in Req |-> "NO_FINISH"]
  /\ cur_output_len = [r \in Req |-> 0]
  /\ is_running = FALSE
  /\ running = {} /\ running_need = 0
  /\ mini = {} /\ mini_need = 0
  /\ finished = {} /\ has_wait_tokens = 0
  /\ at = "step" /\ on = "new"
  /\ requests_mapping = {}
  /\ cache = [b \in {"running", "mini"} |-> {}]
  /\ cur_kv_len = [r \in Req |-> 0]
  /\ can_use_mem_size = MaxTotal
  /\ can_use_req_size = RunningMaxReqSize + SlotMargin
  /\ sent = [r \in Req |-> "NO_FINISH"]
  /\ abort_at = [r \in Req |-> NotAborted]

-----------------------------------------------------------------------------
(***************************************************************************)
(* Estimating the peak token use of a set of requests.                     *)
(*                                                                         *)
(* Tokens are counted as cells of req_to_token_indexs, the table of the    *)
(* model process with one row per request and one column per position:     *)
(* the sum of a length over a set of requests is the cardinality of a set  *)
(* of cells.                                                               *)
(***************************************************************************)
Position == 1..MaxReqTotal

CellsUpTo(S, len) == {c \in S \X Position : c[2] <= len[c[1]]}

UsedTokens == MaxTotal - can_use_mem_size
IsBusy     == UsedTokens >= BusyFrom

AtMost(a, b)  == IF a <= b THEN a ELSE b
AtLeast(a, b) == IF a >= b THEN a ELSE b

\* The output length a request is expected to reach: its limit when the server
\* is busy, otherwise 1.1 times what it already produced.
ExpectedNew(r) ==
  IF r \in IgnoreEos \/ IsBusy
  THEN MaxNew[r]
  ELSE AtMost(MaxNew[r],
              AtLeast((11 * cur_output_len[r]) \div 10, RouterMaxNewTokenLen))

\* get_tuple_tokens: what a request will hold after the next forward, and how
\* many tokens it may still add after that.
RunLen(r) ==
  CASE req_status[r] = "RUNNING"            -> InputLen[r] + cur_output_len[r]
    [] req_status[r] = "WAIT_IN_QUEUE"      -> InputLen[r] + 1
    [] req_status[r] = "PAUSED_AND_OFFLOAD" -> InputLen[r] + cur_output_len[r] + 1

LeftLen(r) ==
  AtLeast(0,
    CASE req_status[r] = "RUNNING"            -> ExpectedNew(r) - cur_output_len[r] - 1
      [] req_status[r] = "WAIT_IN_QUEUE"      -> ExpectedNew(r) - 2
      [] req_status[r] = "PAUSED_AND_OFFLOAD" -> ExpectedNew(r) - cur_output_len[r] - 2)

\* The cells in use when the requests that add `left' tokens or fewer end and
\* the others have added `left': the term left_out_len * size + cum_run_len.
LoadAt(S, left) ==
  {c \in S \X Position : /\ LeftLen(c[1]) >= left
                         /\ c[2] <= RunLen(c[1]) + left}

\* Mutant: the peak is looked for at the request with most left to do only.
PeakFitsAtLongest(S) ==
  \A r \in S : (\A q \in S : LeftLen(q) <= LeftLen(r))
                => Cardinality(LoadAt(S, LeftLen(r))) < MaxTotal

PeakFits(S) == \A r \in S : Cardinality(LoadAt(S, LeftLen(r))) < MaxTotal

-----------------------------------------------------------------------------
(***************************************************************************)
(* generate_new_batch: the longest prefix of the queue whose requests are  *)
(* either skipped (aborted before they ever ran) or pass _can_add_new_req  *)
(* together with the running batch and the requests taken before them.     *)
(***************************************************************************)
Skipped(i) == /\ finish_status[waiting_req_list[i]] = "FINISHED_ABORT"
              /\ req_status[waiting_req_list[i]] = "WAIT_IN_QUEUE"

Scanned(n) == {waiting_req_list[i] : i \in {j \in 1..n : ~Skipped(j)}}

Paused == {r \in Req : req_status[r] = "PAUSED_AND_OFFLOAD"}

\* get_first_router_need_tokens, over the requests of one prefill
FirstTokens(S) ==
  CellsUpTo(S, [r \in Req |-> InputLen[r] + (IF r \in Paused THEN cur_output_len[r]
                                                             ELSE 0)])

\* Mutant: the slots of the batch and of the paused requests are not counted.
CanRunAnySlots(S) ==
  /\ PeakFits(running \cup S)
  /\ Cardinality(FirstTokens(S)) <= BatchMaxTokens

\* _can_add_new_req: whether the requests S taken so far, the last one included,
\* can run with the running batch.
CanRun(S) ==
  /\ PeakFits(running \cup S)
  /\ Cardinality(running \cup S) + Cardinality(Paused \ S) <= RunningMaxReqSize
  /\ Cardinality(FirstTokens(S)) <= BatchMaxTokens

ReqIsFull == Cardinality(running) + Cardinality(Paused) >= RunningMaxReqSize

\* n entries leave the queue, those of Scanned(n) as the new batch: every
\* request was tested with those before it, and the next one fails the test.
NewBatch(n) ==
  /\ ~ReqIsFull
  /\ n \in 1..Len(waiting_req_list)
  /\ \A i \in 1..n : Scanned(i) # {} => CanRun(Scanned(i))
  /\ n < Len(waiting_req_list) => ~Skipped(n + 1) /\ ~CanRun(Scanned(n + 1))
  /\ Scanned(n) # {}

NoNewBatch == \A n \in 1..Len(waiting_req_list) : ~NewBatch(n)

\* Mutant: only the requests of the new batch leave, the skipped ones are
\* not counted.
TakeOnlyBatch(n) ==
  waiting_req_list' = SubSeq(waiting_req_list, Cardinality(Scanned(n)) + 1,
                             Len(waiting_req_list))

\* Mutant: the skipped requests are counted twice.
TakeSkippedTwice(n) ==
  waiting_req_list' = SubSeq(waiting_req_list, 2 * n - Cardinality(Scanned(n)) + 1,
                             Len(waiting_req_list))

TakeFromQueue(n) ==
  waiting_req_list' = SubSeq(waiting_req_list, n + 1, Len(waiting_req_list))

-----------------------------------------------------------------------------
(***************************************************************************)
(* loop_for_netio_req                                                      *)
(***************************************************************************)
AddReq(r) ==
  /\ req_status[r] = "NOT_SENT"
  /\ req_status' = [req_status EXCEPT ![r] = "WAIT_IN_QUEUE"]
  /\ waiting_req_list' = Append(waiting_req_list, r)
  /\ UNCHANGED <<finish_status, cur_output_len, batchVars, loopVars, modelVars,
                 otherVars>>

\* An abort finds a request in the running batch or in the queue; it does not
\* look into the mini batch that _step is working on.
Abort(r) ==
  /\ req_status[r] # "NOT_SENT"
  /\ abort_at[r] = NotAborted
  /\ abort_at' = [abort_at EXCEPT ![r] = cur_output_len[r]]
  /\ finish_status' = IF (is_running /\ r \in running) \/ InQueue(r)
                      THEN [finish_status EXCEPT ![r] = "FINISHED_ABORT"]
                      ELSE finish_status
  /\ UNCHANGED <<waiting_req_list, req_status, cur_output_len, batchVars,
                 loopVars, modelVars, sent>>

-----------------------------------------------------------------------------
(***************************************************************************)
(* loop_for_fwd: the decision _step takes before its first await.          *)
(***************************************************************************)
StepNewBatch ==
  /\ at = "step" /\ ~is_running
  /\ \E n \in 1..Len(waiting_req_list) :
       /\ NewBatch(n)
       /\ running' = Scanned(n)
       /\ TakeFromQueue(n)
  /\ is_running' = TRUE
  /\ running_need' = 0     \* None in the code, until init_batch answers
  /\ at' = "init" /\ on' = "new"
  /\ UNCHANGED <<req_status, finish_status, cur_output_len, mini, mini_need,
                 finished, has_wait_tokens, modelVars, otherVars>>

StepMiniBatch ==
  /\ at = "step" /\ is_running /\ has_wait_tokens >= MaxWaitTokens
  /\ \E n \in 1..Len(waiting_req_list) :
       /\ NewBatch(n)
       /\ mini' = Scanned(n)
       /\ TakeFromQueue(n)
  /\ has_wait_tokens' = 0
  /\ at' = "init" /\ on' = "mini"
  /\ UNCHANGED <<req_status, finish_status, cur_output_len, is_running, running,
                 running_need, mini_need, finished, modelVars, otherVars>>

\* _step goes on to the decode phase when it is not yet time for a mini batch
\* or when there is none to run.
DecodePhase ==
  /\ at = "step" /\ is_running
  /\ has_wait_tokens >= MaxWaitTokens => NoNewBatch

\* Mutant: the counter is not reset when there is no mini batch to run.
WaitTokensNotReset == has_wait_tokens

WaitTokensAtDecode == IF has_wait_tokens >= MaxWaitTokens THEN 0 ELSE has_wait_tokens

\* Mutant: the tokens of the decode itself are not counted.
CanDecodeNow == UsedTokens <= MaxTotal

CanDecode == running_need + UsedTokens <= MaxTotal

StepDecode ==
  /\ DecodePhase /\ CanDecode
  /\ has_wait_tokens' = WaitTokensAtDecode
  /\ at' = "decode" /\ on' = "decode"
  /\ UNCHANGED <<queueVars, cur_output_len, batchVars, finished, modelVars, otherVars>>

\* select_paused_reqs with the Fcfs strategy: the youngest request leaves the
\* batch and goes back to the head of the queue; then the RPC is issued.
StepPause ==
  /\ DecodePhase /\ ~CanDecode
  /\ \E r \in running :
       /\ \A q \in running : q <= r
       /\ running' = running \ {r}
       /\ req_status' = [req_status EXCEPT ![r] = "PAUSED_AND_OFFLOAD"]
       /\ waiting_req_list' = <<r>> \o waiting_req_list
  /\ running_need' = running_need - 1
  /\ at' = "pause" /\ on' = "decode"
  /\ has_wait_tokens' = WaitTokensAtDecode
  /\ UNCHANGED <<finish_status, cur_output_len, is_running, mini, mini_need,
                 finished, modelVars, otherVars>>

-----------------------------------------------------------------------------
(***************************************************************************)
(* loop_for_fwd: the RPCs and the code that follows each of them.          *)
(***************************************************************************)
BatchOf(p) == IF p = "mini" THEN mini ELSE running

\* Mutant: the calls for a mini batch carry the id of the running batch.
KeyOfRunning(p) == "running"

KeyOf(p) == IF p = "mini" THEN "mini" ELSE "running"

\* Mutant: the mini batch keeps the decode need it was created with.
SetBatchKeepsNeed(p, reqs, need) ==
  IF p = "mini" THEN /\ mini' = reqs /\ mini_need' = mini_need
                     /\ UNCHANGED <<running, running_need>>
                ELSE /\ running' = reqs /\ running_need' = need
                     /\ UNCHANGED <<mini, mini_need>>

\* Replace the reqs and batch_decode_need_tokens of the batch on path p.
SetBatch(p, reqs, need) ==
  IF p = "mini" THEN /\ mini' = reqs /\ mini_need' = need
                     /\ UNCHANGED <<running, running_need>>
                ELSE /\ running' = reqs /\ running_need' = need
                     /\ UNCHANGED <<mini, mini_need>>

\* The end of _step once the batch of path p is final: _filter_runing_batch
\* and has_wait_tokens, or the merge of a mini batch that is not empty.
EndOfStep(p) ==
  \/ /\ p = "new"
     /\ is_running' = (running' # {}) /\ has_wait_tokens' = 0 /\ at' = "step"
  \/ /\ p = "mini"
     /\ UNCHANGED <<is_running, has_wait_tokens>>
     /\ at' = IF mini' = {} THEN "step" ELSE "merge"
  \/ /\ p = "decode"
     /\ is_running' = (running' # {}) /\ has_wait_tokens' = has_wait_tokens + 1
     /\ at' = "step"

\* The first conjunct of InitBatch and of Forward says that the pool has what
\* alloc is asked for.  Otherwise alloc returns None and the call raises:
\* SlotAccounting and NeverOutOfMemory say that it never comes to that.

\* InferBatch.init_batch: a slot for every request the model process does not
\* know, then _update_init_status_to_batch with its answer.
InitBatch ==
  /\ at = "init"
  /\ LET batch == BatchOf(on)
         fresh == batch \ requests_mapping
     IN  /\ Cardinality(fresh) <= can_use_req_size
         /\ can_use_req_size' = can_use_req_size - Cardinality(fresh)
         /\ requests_mapping' = requests_mapping \cup fresh
         /\ cache' = [cache EXCEPT ![KeyOf(on)] = batch]
         /\ req_status' = [r \in Req |-> IF r \in batch THEN "RUNNING" ELSE req_status[r]]
         /\ SetBatch(on, batch, Cardinality(batch))
  /\ at' = "prefill"
  /\ UNCHANGED <<waiting_req_list, finish_status, cur_output_len, is_running,
                 finished, has_wait_tokens, on, cur_kv_len, can_use_mem_size,
                 otherVars>>

\* Tokens a forward allocates: those of input_token_ids not yet in the pool.
SeqLen == [r \in Req |-> InputLen[r] + cur_output_len[r]]
NewTokens(S) == CellsUpTo(S, SeqLen) \ CellsUpTo(S, cur_kv_len)

\* Mutant: the status the model process answers overwrites an abort.
FinishAfterForgetsAbort(r, stopped) ==
  IF r \in stopped THEN "FINISHED_STOP"
  ELSE IF cur_output_len[r] + 1 >= MaxNew[r] THEN "FINISHED_LENGTH"
  ELSE "NO_FINISH"

\* update_finish_status of the model process, then _update_out_status_to_batch,
\* which does not overwrite an abort.
FinishAfter(r, stopped) ==
  IF finish_status[r] = "FINISHED_ABORT" THEN "FINISHED_ABORT"
  ELSE IF r \in stopped THEN "FINISHED_STOP"
  ELSE IF cur_output_len[r] + 1 >= MaxNew[r] THEN "FINISHED_LENGTH"
  ELSE "NO_FINISH"

\* Mutant: an aborted request is reported finished and stays in the batch.
DoneUnlessAborted(batch, stopped) ==
  {r \in batch : FinishAfter(r, stopped) \in {"FINISHED_STOP", "FINISHED_LENGTH"}}

\* mark_and_get_finished_req_and_preupdate_status
Done(batch, stopped) == {r \in batch : FinishAfter(r, stopped) # "NO_FINISH"}

\* One forward of the batch on path `on': every request of the stored batch
\* gets its tokens and one new output; finished requests leave the router's
\* batch at once and, if there are any, their release is awaited.
ForwardWith(stopped) ==
  LET batch == BatchOf(on)
      done  == Done(batch, stopped)
  IN  /\ Cardinality(NewTokens(batch)) <= can_use_mem_size
      /\ can_use_mem_size' = can_use_mem_size - Cardinality(NewTokens(batch))
      /\ cur_kv_len' = [r \in Req |-> IF r \in batch THEN SeqLen[r] ELSE cur_kv_len[r]]
      /\ cur_output_len' = [r \in Req |-> IF r \in batch THEN cur_output_len[r] + 1
                                                         ELSE cur_output_len[r]]
      /\ finish_status' = [r \in Req |-> IF r \in batch THEN FinishAfter(r, stopped)
                                                        ELSE finish_status[r]]
      /\ sent' = [r \in Req |-> IF r \in batch THEN FinishAfter(r, stopped) ELSE sent[r]]
      /\ SetBatch(on, batch \ done, Cardinality(batch) - Cardinality(done))
      /\ finished' = done
      /\ IF done = {} THEN EndOfStep(on)
                      ELSE /\ at' = "finish"
                           /\ UNCHANGED <<is_running, has_wait_tokens>>
      /\ UNCHANGED <<waiting_req_list, req_status, on, requests_mapping, cache,
                     can_use_req_size, abort_at>>

Forward == \E stopped \in SUBSET BatchOf(on) : ForwardWith(stopped)

PrefillBatch == at = "prefill" /\ Forward
DecodeBatch  == at = "decode" /\ Forward

\* Mutant: the last sampled token is freed too, though it has no KV entry yet.
FreedTokensOfOutput(S) == CellsUpTo(S, SeqLen)

\* _free_a_req_mem: the cells of the finished requests, up to cur_kv_len
FreedTokens(S) == CellsUpTo(S, cur_kv_len)

\* The requests whose InferReq is deleted: all the finished ones.
FreedReqs(S) == S

\* remove_batch or filter_batch: tokens and slots go back to their pools.
FreeFinished ==
  /\ at = "finish"
  /\ LET freed == FreedReqs(finished)
     IN  /\ can_use_mem_size' = can_use_mem_size + Cardinality(FreedTokens(freed))
         /\ can_use_req_size' = can_use_req_size + Cardinality(freed)
         /\ requests_mapping' = requests_mapping \ freed
         /\ cache' = [cache EXCEPT ![KeyOf(on)] = @ \ freed]
         /\ cur_kv_len' = [r \in Req |-> IF r \in freed THEN 0 ELSE cur_kv_len[r]]
  /\ finished' = {}
  /\ UNCHANGED <<running, running_need, mini, mini_need>>
  /\ EndOfStep(on)
  /\ UNCHANGED <<queueVars, cur_output_len, on, otherVars>>

MergeBatch ==
  /\ at = "merge"
  /\ running' = running \cup mini
  /\ running_need' = running_need + mini_need
  /\ mini' = {} /\ mini_need' = 0
  /\ cache' = [cache EXCEPT !["running"] = @ \cup cache["mini"], !["mini"] = {}]
  /\ at' = "step"
  /\ UNCHANGED <<queueVars, cur_output_len, is_running, finished, has_wait_tokens,
                 on, requests_mapping, cur_kv_len, can_use_mem_size,
                 can_use_req_size, otherVars>>

\* InferBatch.pause_reqs calls _free_a_req_mem without its third argument: the
\* call raises after the stored batch was popped, and ends loop_for_fwd.
PauseReqs ==
  /\ at = "pause"
  /\ cache' = [cache EXCEPT !["running"] = {}]
  /\ at' = "dead"
  /\ UNCHANGED <<queueVars, cur_output_len, batchVars, finished, has_wait_tokens,
                 on, requests_mapping, cur_kv_len, can_use_mem_size,
                 can_use_req_size, otherVars>>

-----------------------------------------------------------------------------
NetIO == \E r \in Req : AddReq(r) \/ Abort(r)

Fwd == \/ StepNewBatch \/ StepMiniBatch \/ StepDecode \/ StepPause
       \/ InitBatch \/ PrefillBatch \/ DecodeBatch \/ FreeFinished
       \/ MergeBatch \/ PauseReqs

Next == NetIO \/ Fwd

Spec == Init /\ [][Next]_vars

\* The event loop runs loop_for_fwd again and again, and an RPC returns.
FairSpec == Spec /\ WF_vars(Fwd)
-----------------------------------------------------------------------------
(***************************************************************************)
(* Properties                                                              *)
(***************************************************************************)

\* The values the variables take: types, and the points at which _step can be
\* suspended (manager.py _step and the _*_batch helpers).
TypeOK ==
  /\ waiting_req_list \in Seq(Req)
  /\ req_status \in [Req -> ReqRunStatus]
  /\ finish_status \in [Req -> FinishStatus]
  /\ cur_output_len \in [Req -> Nat]
  /\ is_running \in BOOLEAN
  /\ running \subseteq Req /\ mini \subseteq Req /\ finished \subseteq Req
  /\ running_need \in Int /\ mini_need \in Int
  /\ has_wait_tokens \in 0..MaxWaitTokens
  /\ at \in {"step", "init", "prefill", "decode", "finish", "merge", "pause", "dead"}
  /\ on \in {"new", "mini", "decode"}
  /\ requests_mapping \subseteq Req
  /\ cache \in [{"running", "mini"} -> SUBSET Req]
  /\ cur_kv_len \in [Req -> Nat]
  /\ can_use_mem_size \in Int /\ can_use_req_size \in Int
  /\ sent \in [Req -> FinishStatus]
  /\ abort_at \in [Req -> Nat \cup {NotAborted}]

\* No token is leaked or freed twice: the counter of the pool and the lengths
\* of the requests the model process knows add up to the pool, at every await.
TokenAccounting ==
  /\ can_use_mem_size >= 0
  /\ can_use_mem_size + Cardinality(CellsUpTo(requests_mapping, cur_kv_len)) = MaxTotal

\* No request slot is leaked or freed twice, and the bound on running and
\* paused requests keeps SlotMargin slots spare, so that ReqManager.alloc in
\* init_batch never returns None.
SlotAccounting ==
  /\ can_use_req_size + Cardinality(requests_mapping) = RunningMaxReqSize + SlotMargin
  /\ at = "init" => Cardinality(BatchOf(on) \ requests_mapping) + SlotMargin
                      <= can_use_req_size

\* A request is in one place only (the queue, once; the running batch; the
\* mini batch; or awaiting release), and the model process knows exactly those
\* that were initialised and not released.
OwnedOnce ==
  /\ \A i, j \in 1..Len(waiting_req_list) :
       waiting_req_list[i] = waiting_req_list[j] => i = j
  /\ \A r \in Req : InQueue(r) => r \notin running \cup mini \cup finished
  /\ running \cap mini = {} /\ (running \cup mini) \cap finished = {}
  /\ requests_mapping =
       (running \cup mini \cup finished \cup Paused)
         \ (IF at = "init" THEN BatchOf(on) ELSE {})

\* The batch a forward, a merge or a release works on in the model process is
\* the batch the router has in hand, whatever was aborted meanwhile.
BatchesAgree ==
  /\ at \in {"prefill", "decode", "merge"} => cache[KeyOf(on)] = BatchOf(on)
  /\ at = "finish" => cache[KeyOf(on)] = BatchOf(on) \cup finished
  /\ (at = "step" \/ (on = "mini" /\ at # "dead")) => cache["running"] = running
  /\ at \in {"step", "decode"} => cache["mini"] = {}

\* The assertions of prepare_prefill_inputs and prepare_decode_inputs hold
\* whenever a forward is called, and batch_decode_need_tokens counts the batch.
ForwardReady ==
  /\ at \in {"prefill", "decode"} =>
       \A r \in BatchOf(on) : req_status[r] = "RUNNING"
  /\ at = "decode" => \A r \in running : cur_kv_len[r] = SeqLen[r] - 1
  /\ at \in {"step", "decode"} => running_need = Cardinality(running)

\* "never a risk of out-of-memory": a forward finds the tokens it allocates.
\* (MemoryManager.alloc would return None otherwise, and the forward would fail.)
NeverOutOfMemory ==
  at \in {"prefill", "decode"} => Cardinality(NewTokens(BatchOf(on))) <= can_use_mem_size

\* With the default router_token_ratio (always busy) the peak estimate made at
\* admission bounds every later state, so no request is ever paused.
NeverPauses == at \notin {"pause", "dead"}

\* A request whose abort reached its Req object, in the queue or in the running
\* batch, leaves with the first forward that follows: it is never kept for a
\* second token, wherever in _step the abort came in.
AbortIsPrompt ==
  \A r \in Req : finish_status[r] = "FINISHED_ABORT" => cur_output_len[r] <= abort_at[r] + 1

\* The answer of a forward that was in flight when the abort came in does not
\* undo the abort, and the output sent for it tells that the request is aborted.
AbortSticks ==
  [][\A r \in Req : finish_status[r] = "FINISHED_ABORT" =>
       /\ finish_status'[r] = "FINISHED_ABORT"
       /\ cur_output_len'[r] # cur_output_len[r] => sent'[r] = "FINISHED_ABORT"]_vars

\* Detokenization gets one finish notice per request, and nothing after it.
FinishNoticeIsLast ==
  [][\A r \in Req : sent[r] # "NO_FINISH" =>
       sent'[r] = sent[r] /\ cur_output_len'[r] = cur_output_len[r]]_vars

\* Every accepted request is answered to the end, or was aborted, and gives the slot
\* it takes in the model process back.
EveryRequestServed ==
  \A r \in Req :
    /\ InQueue(r) ~> (sent[r] # "NO_FINISH" \/ abort_at[r] # NotAborted)
    /\ r \in requests_mapping ~> r \notin requests_mapping

\* "Abort the request if the client disconnects" (api_server.py): wherever the
\* request is when the router handles its AbortReq, it makes one more token at
\* most.
AbortReachesScheduled ==
  \A r \in Req : abort_at[r] # NotAborted => cur_output_len[r] <= abort_at[r] + 1

\* Pausing releases tokens and the router goes on serving: pause_reqs returns,
\* and loop_for_fwd lives.
PauseKeepsServing == at # "dead"
-----------------------------------------------------------------------------
(***************************************************************************)
(* The invariant that is inductive, in parts; RouterProofs proves them in  *)
(* this order, each from those before it.                                  *)
(***************************************************************************)
Held == running \cup mini \cup finished

\* The batch of this step has no token yet.
Starting(r) == at \in {"init", "prefill"} /\ r \in BatchOf(on)

ControlInv ==
  /\ at \in {"decode", "pause", "dead"} => on = "decode"
  /\ at \in {"init", "prefill"} => on \in {"new", "mini"}
  /\ at = "merge" => on = "mini"
  /\ at # "step" /\ on = "decode" => has_wait_tokens < MaxWaitTokens
  /\ at # "step" => is_running
  /\ ~is_running => running = {}
  /\ at = "step" \/ on # "mini" => mini = {}
  /\ at # "finish" => finished = {}

OwnerInv ==
  /\ \A i, j \in 1..Len(waiting_req_list) :
       waiting_req_list[i] = waiting_req_list[j] => i = j
  /\ \A i \in 1..Len(waiting_req_list) :
       /\ waiting_req_list[i] \notin Held
       /\ req_status[waiting_req_list[i]] \in {"WAIT_IN_QUEUE", "PAUSED_AND_OFFLOAD"}
  /\ running \cap mini = {} /\ (running \cup mini) \cap finished = {}
  /\ \A r \in Held : req_status[r] = IF at = "init" /\ r \in BatchOf(on)
                                     THEN "WAIT_IN_QUEUE" ELSE "RUNNING"
  /\ at \notin {"pause", "dead"} => Paused = {}
  /\ requests_mapping =
       (Held \cup Paused) \ (IF at = "init" THEN BatchOf(on) ELSE {})

NeedInv ==
  /\ ~(at = "init" /\ on = "new") => running_need = Cardinality(running)
  /\ ~(at = "init" /\ on = "mini") => mini_need = Cardinality(mini)

SlotInv ==
  /\ can_use_req_size + Cardinality(requests_mapping) = RunningMaxReqSize + SlotMargin
  /\ Cardinality(Held) <= RunningMaxReqSize

CacheInv ==
  /\ BatchesAgree
  /\ at # "step" /\ on = "mini" => cache["running"] = running
  /\ at = "step" \/ on # "mini" => cache["mini"] = {}

LengthInv ==
  /\ \A r \in Req : req_status[r] \in {"NOT_SENT", "WAIT_IN_QUEUE"}
                      => cur_output_len[r] = 0 /\ cur_kv_len[r] = 0
  /\ \A r \in Held : IF Starting(r)
                     THEN cur_output_len[r] = 0 /\ cur_kv_len[r] = 0
                     ELSE cur_output_len[r] >= 1 /\ cur_kv_len[r] = SeqLen[r] - 1
  /\ \A r \in running \cup mini : cur_output_len[r] < MaxNew[r]

TokenInv ==
  /\ TokenAccounting
  /\ at = "decode" => CanDecode
  /\ at \in {"init", "prefill"} =>
       Cardinality(CellsUpTo(BatchOf(on), InputLen)) <= can_use_mem_size

\* The peak estimate as it stands between two admissions: a request that has
\* no output yet is counted as having one, as get_tuple_tokens does.
OutAtLeastOne(r) == AtLeast(cur_output_len[r], 1)
PeakLoad(left) ==
  {c \in (running \cup mini) \X Position :
     /\ AtLeast(0, MaxNew[c[1]] - OutAtLeastOne(c[1]) - 1) >= left
     /\ c[2] <= InputLen[c[1]] + OutAtLeastOne(c[1]) + left}

PeakInv == \A left \in Nat : Cardinality(PeakLoad(left)) < MaxTotal

NoticeInv ==
  /\ \A r \in running \cup mini : sent[r] = "NO_FINISH"
  /\ \A r \in Req : req_status[r] \in {"NOT_SENT", "WAIT_IN_QUEUE"}
                      => sent[r] = "NO_FINISH"

AbortInv ==
  \A r \in Req : finish_status[r] = "FINISHED_ABORT" =>
    /\ req_status[r] # "NOT_SENT"
    /\ cur_output_len[r] <= abort_at[r] + 1
    /\ r \in running \cup mini \/ InQueue(r) => cur_output_len[r] <= abort_at[r]

IndInv ==
  /\ TypeOK /\ ControlInv /\ OwnerInv /\ NeedInv /\ SlotInv /\ CacheInv
  /\ LengthInv /\ TokenInv /\ NoticeInv /\ AbortInv
=============================================================================

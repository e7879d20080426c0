# A verification project for OmniKV

The repository holds two systems that share an idea. **OmniKV** is an inference
method for long prompts: most decoder layers keep their KV cache out of the way and
attend to a small selection of the prompt's tokens, chosen by a few selecting layers.
It exists as Hugging Face models (`modeling/`) and inside a serving system
(`omnikv-lightllm/`, a fork of LightLLM) of several processes, whose **router** schedules
requests over a bounded pool of KV tokens. Beside them are methods to compare with
(`baselines/`). This directory models the logic of these in TLA+, checks it with TLC and
proves the most important results with TLAPS.

Paths below are relative to the repository's root; `server/`, `common/` and `format_out/`
stand for `omnikv-lightllm/lightllm/server/`, `omnikv-lightllm/lightllm/common/` and
`omnikv-lightllm/format_out/`.

## 1. Inventory

### Serving system

| part | state | operations | interacts with |
|---|---|---|---|
| HTTP server manager (`server/httpserver/manager.py`) | `req_id_to_out_inf`: per request an output list, event and lock | `generate`, `abort`, `handle_loop` | requests and `AbortReq` to visual server or router; text from detokenization; references on images |
| Visual server (`server/visualserver/manager.py`) | `waiting_reqs` | `loop_for_netio_req`, `loop_for_fwd`, `abort` | requests on to the router once their images are encoded; records of the image cache |
| Image cache (`server/embed_cache/`) | records with a reference count and two flags, a capacity; shared memory | `alloc`, `release`, `set_item_*`, `get_item_*`, `_clear` | RPCs from HTTP server, visual server, model process |
| **Router** (`server/router/manager.py`) | request queue, running batch, wait counter | `add_req`, `abort`, `_step` and its batch helpers | messages from HTTP or visual server, RPCs to the model process, batches to detokenization |
| **Request queues** (`server/router/req_queue/`): default, beam, split-fuse | `waiting_req_list`, count of paused requests | `generate_new_batch` with its estimate of the peak, `back_to_wait_list` | called by the router |
| **Model process bookkeeping** (`server/router/model_infer/`, `common/req_manager.py`, `common/mem_manager.py`) | `requests_mapping`, `InferBatch` per batch id, slots, token pool | `add_batch`, `prefill_batch`, `decode_batch`, `filter_batch`, `merge_batch`, `remove_batch`, `pause_reqs` | RPC from the router |
| Prompt cache (`server/router/dynamic_prompt/`) | radix tree of token prefixes, reference counts, shared counters | `insert`, `match_prefix`, `evict`, `dec_node_ref_counter` | `InferBatch`; the router reads its counters |
| Detokenization (`server/detokenization/`) | per-request decode state | `handle_loop` | batches from the router, text to the HTTP server |
| Back ends that constrain the answer (`model_infer/mode_backend/continues_batch/impl_for_*`) | a prefix to repeat, a state of an automaton, per request | masks on the logits, `_handle_req_ans` | the model's `forward` and `sample`, detokenization |
| Health monitor (`server/health_monitor/manager.py`), metrics | failure count; counters | check, kill the process tree | all processes |
| Grammar tool (`format_out/`) | an LR(1) graph, a pushdown automaton, its stack | build, convert, accept | a model service over HTTP |

What is hard: the router runs two asyncio tasks over the same objects, and every RPC to
the model process is an `await` at which the other task may queue or abort a request;
a batch exists twice (router, model process) and both copies are updated step by
step; admission must foresee the peak token use of the whole future of a batch; aborts
chase requests through four processes; tokens, tree nodes and images are shared by
reference counts that several processes change; a restart must kill processes that may
be dead already.

What makes it correct: tokens, slots and records are conserved and never over-asked; a
request is in one place; both copies of a batch agree at each RPC; an abort takes effect
at once, is not undone and leaves nothing behind; each client that stays gets each of its
answers, complete and in order; an entry that is reused belongs to the same text; an
answer obeys its constraint.

### OmniKV for Hugging Face models

| part | state | operations |
|---|---|---|
| **KV cache** (`OmniKVMultiStageCache`, `WOPackCache` in `modeling/spec_cache.py`) | `stage`, `key_cache`, `tail_k`, `part_key`, `idx` | `update`, `set_idx_on_gpu`, `from_dynamic_cache` |
| **Decoder layer** (`modeling/omnikv.py`, `modeling/qwen3_omnikv.py`) | `prefill_len`, `decode_step`, kept across generations | `forward`: counts, selects, sets the stage |
| **Causal model** (same files) | none | `forward`: new cache, per-layer reset (Qwen3), stage, chunks |

What is hard: four pieces of state (`stage`, the counts of the layers, the contents of
the cache, the selection) are written by different objects and have to agree over chunks,
tokens, layers and generations; nothing checks them, and a disagreement is either an
index error deep in a kernel or a silently worse answer.

### Baselines

| part | state | operations |
|---|---|---|
| InfLLM (`baselines/infllm/inf_llm/attention/context_manager.py`) | sinks, local window, remainder, blocks in CPU memory, an LRU cache of blocks on the GPU, a buffer | `append`: choose, load, attend, store |
| Streaming LLM, infinite LM (`stream_llm.py`, `infinite_lm.py` beside it) | cached entries, number of tokens | one forward |
| H2O (`baselines/raw_h2o/`) | heavy-hitter scores | one forward (not modelled) |

What is hard: the place of a token is an offset into four tensors that are cut
and joined with every block; the buffer copies changes only.

## 2. Modules

| module | models |
|---|---|
| `Router` | router, queue, pause strategy, batch bookkeeping, token and slot pools: default mode |
| `RouterProofs` | theorems about `Router` |
| `GroupRouter` | beam and diverse modes: group queue, its estimate, shared tokens and their reference counts |
| `SplitFuse` | split-fuse mode: queue, estimates, block-wise forward |
| `SplitFuseProofs` | theorems about `SplitFuse` |
| `PromptCache` | radix tree with the `InferBatch` that uses it |
| `PromptCacheProofs` | theorems about `PromptCache` |
| `PromptStoreProofs` | more theorems about `PromptCache`, with the refinement of `PrefixStore` |
| `PrefixStore` | abstract specification of a prompt cache: a store of prefixes that can be pinned |
| `Pipeline` | HTTP server, visual server, router and detokenization as processes with channels |
| `AnswerStream` | abstract specification of what a client gets |
| `PipelineProofs` | theorems about `Pipeline`, with the refinement of `AnswerStream` |
| `ImageCache` | the image cache with all its users |
| `HealthMonitor` | the monitor and the process tree it kills |
| `TokenHealing`, `TokenConstraint` | back ends that constrain an answer |
| `GrammarLR1`, `Dpda`, `GrammarMatcher` | graph, pushdown automaton and matcher of the grammar tool, each extending the one before |
| `OmniKVCache` | KV cache, decoder layers and causal models of OmniKV |
| `RetainedKV` | abstract specification: a cache in which every layer keeps every token |
| `OmniKVCacheProofs` | theorems about `OmniKVCache`, with the refinement of `RetainedKV` |
| `GroupRouterProofs` | theorems about `GroupRouter` |
| `InductionLemmas` | induction over a set and sums over a set, used by the proofs |
| `InfLLM`, `SinkWindow` | caches of the baselines |
| `MCRouter`, `MCGroupRouter`, ... | instances for TLC. Several combine settings: a variable `mode` (`model`, `service`, `baseline`) is chosen in the initial state, kept, and selects an `INSTANCE` of the module with its own constants |

Three pairs compose a detailed and an abstract specification, by `INSTANCE ... WITH` a
refinement mapping that is checked as a property: `OmniKVCache` implements `RetainedKV`
(`RetainsAll`), `PromptCache` implements `PrefixStore` (`StoresPrefixes`), `Pipeline`
implements `AnswerStream` (`AnswersInOrder`). What one module assumes of a neighbour
another one checks: `Pipeline`, `PromptCache` and `TokenHealing` use a scheduler that
`Router` models, `SplitFuse` leaves stored batches and slots to `Router`.

### `Router` and the code

`loop_for_fwd` is a sequential process: `at` is the `await` it is suspended at, `on` the
path through `_step` (a new batch, a mini batch beside a running one, a decode). Each
action of `Fwd` serves one RPC and runs the code up to the next `await`. The model
process serves one RPC at a time and nobody else touches it, so its part of the call is
in the same action. `NetIO` (`AddReq`, `Abort`) is the other task; it interleaves at
every `await`.

| code | action |
|---|---|
| `add_req`, `abort` | `AddReq`, `Abort` |
| `_step`, no running batch / time for a mini batch | `StepNewBatch`, `StepMiniBatch` |
| `_step`, decode or pause | `StepDecode`, `StepPause` |
| `_init_batch` with `InferBatch.init_batch` | `InitBatch` |
| `_prefill_batch`, `_decode_batch` with the forward and `_update_out_status_to_batch` | `PrefillBatch`, `DecodeBatch` |
| `_filter_batch`, `_remove_batch` | `FreeFinished` |
| `_merge_batch` | `MergeBatch` |
| `_pause_reqs` | `PauseReqs` |

Tokens are not numbers that are added up but cells of the table `req_to_token_indexs`:
the tokens of a set of requests are a set of cells, and their sum is a cardinality. This
keeps recursion out of the module, so that the admission test can be reasoned about by
set inclusion. The admission test of the code sorts the requests by the tokens they have
left and looks at the load when each ends; `PeakFits` says the same without the sort. A
sampled token is abstracted to whether it stops its request; the queue, statuses, aborts,
counters and cached fields are kept as they are.

### `GroupRouter` and the code

A request with `best_of` > 1 is a group of sub-requests `<<group, number>>`; the number 1
has the group's id and is the only one that prefill runs. What `Router` says about
awaits is not repeated: a pass of `_step` is one action.

| code | definition |
|---|---|
| `add_req`, `abort` on a group | `AddReqGroup`, `AbortGroup` |
| `_can_add_new_group_reqs` | `NeedMaxTokenNum` (the loop over the sorted list), `CanAddGroups` |
| `generate_new_batch` | `Taken`, `Scanned`, `AbortedCount`, `TakenCount` |
| `_step` with a new or mini batch, prefill, `diverse_copy` / `beam_copy` | `StepPrefill`, `PromptRefs` |
| `_step` with a decode, `beam_sample`, `beam_copy` | `StepDecode`, `Parents`, `CopiedRefs` |
| `update_finish_status`, `filter`, `free_self` | `MustEnd`, `Endings`, `AfterForward` |
| `MemoryManager.add_refs`, `decrease_refs` | `SetMem` |

A token is named by the request that allocated it and its position, `held` is a request's
row of `req_to_token_indexs`, and `mem_state` counts references as the code does; that
they agree is `SharedTokens` (the property `TokensShared` in both modes). Which beams go on, and which requests stop,
depends on scores and is left open, with `best_of` candidates always left. A failing RPC
ends the scheduler (`at = "dead"`): a batch of which no group has its head, a decode of a
request that was never run, or a pause (finding 2).

### `SplitFuse` and the code

The loops and awaits of `Router`, with `SplitFuseQueue.generate_new_batch` (budget of a
forward, `_can_add_new_req`), `SplitFuseReq.get_tuple_tokens` and
`get_decode_need_tokens`, the need cached in the batch at each answer, and
`SplitFuseBackend.forward`, which cuts each unfinished prompt on its own: what the router
decided with and what the model process does are two computations, related by
`ForwardAsDecided`.

### `PromptCache` and the code

A node of the tree is named by the text from the root to its end, so that its parent is
its longest proper prefix in the tree and a split leaves the lower node its name, as the
code leaves it its object. One action is one call of the model process on tree or pool:
`InitReq` (`match_prefix`, the references of the path), `Prepare` and `Evict` (free
tokens before a forward), `Forward` (allocate and fill), `FreeAReqMem` and `FreeBatch`
(`insert`, `dec_node_ref_counter`, then free what the tree had already). Admission is that
of the queue of diverse mode, which counts a group's prompt once (`AdmittedLen`), as the
members share its tokens. The root is a
node that nobody holds: `match_prefix` returns nothing for a request that matches
nothing. The assertions of `evict` and `remove_child` are the guard `Evictable`, and an
allocation that would fail (`alloc` returns `None`) has no step. The counters of the tree
count the tokens on edges; since an edge's tokens are the prefixes that end on it, they
are cardinalities of sets of texts (`EdgeTokens`), which needs no recursion over the tree.
`alloc` prefers a contiguous range of free tokens; the model takes the free ones with the
smallest indices, and no property depends on which it takes. The content of a pool token is the text it
was computed for, which is what `RightContent` compares with the text of its reader. The
two shared counters are variables, read by the router's admission between any two calls.

### `Pipeline` and the code

One FIFO for each pair of sender and receiver (ZMQ PUSH/PULL), no order between senders.
The coroutine `generate` of each request gives up control at `event.wait()` and, for a
streaming client, at each `yield`, where it holds the lock of its request; `handle_loop`
waits for that lock while it hands out an answer. A client may leave at any of these
points (`Leave`), which sends the `AbortReq`. The list, event and finish counters of
`req_id_to_out_inf`, detokenization's map of running requests and the visual server's
list and batch are variables; the router is reduced to what it sends and
receives, and to where it has a request: an abort takes a queued request away and stops a
running one, and is dropped while the request is in a new mini batch (`RouterTake` to
`RouterMerge`), as in `Router`. One token is one message. A coroutine holds the lock of
its own request only and the list it reads is replaced in one piece: the list would be right without the lock too,
which the model shows by where it interleaves.

### `ImageCache` and the code

Each request is at one place of its way (`place`); actions are the calls it makes there:
the HTTP server's `alloc` of one record after another and its wait for a free one,
`set_item_data`, the visual server's `get_item_embed` and `set_item_embed`, the read of
the embedding in prefill, `release` at the end or at an abort. A client may leave at any
place. A streaming request is cancelled where it is: while it sleeps for a free record its
abort finds no entry, and the references it has taken stay (`Dropped`, with those of
prompts that turn out to be too long). Any other request finds out only once it was
sent. Shared memory is a variable
of its own, since `_clear` frees what the record's flags say. The visual server has one
request at a time. When a client leaves while its images are being encoded, the segment
written after the record was cleared belongs to no record any more
(`ShmAccounted` is therefore stated for clients that stay).

### `HealthMonitor` and the code

The check (`all processes alive and /health answered`), the count of failures and the
kills one by one in the order of psutil, against processes that die of a fault or of a
SIGKILL that takes effect later. A dead process is a zombie as long as its parent lives,
because no process of the server waits for its children; then init reaps it and `os.kill`
raises.

### The answer's constraints and the code

`TokenHealing`: how many tokens are taken off the prompt (`TokenHealingReq.__init__`), the
mask by `prefix_str` in prefill and decode, what `sample` does to masked logits afterwards
(an end that the exponential length penalty lifts over its mask may be sampled:
`DecayLength`), what `_handle_req_ans` sends, how detokenization cuts the prefix off the
text, and what the queue estimates.
Tokens are strings of letters so that one text can be cut into tokens in many ways.
`TokenConstraint`: the automaton of a regular expression or a list of tokens, its mask, and
what `sample` does to masked logits afterwards. `GrammarLR1`: closure, goto and lookaheads
of `core.py` and its check for conflicts; `Dpda`: the conversion in `dpda.py`, chains of
reductions merged into edges that pop and push, circles cut (a merge that gives no edge
makes the conversion fail, `Buildable`; none of the nine grammars does); `GrammarMatcher`: `accept`,
one terminal at a time. The order in which the code iterates over a Python set of inputs
is arbitrary; the model numbers the nodes in one order, and what the run checks (the
language, determinism) does not depend on it.

### `OmniKVCache` and the code

Tokens are numbered as they are fed, and the KV entry of a token is its number, so
"which tokens does this layer keep, or attend to" is visible. Scores are abstracted:
a selecting layer may choose any set of the size the code computes. Prompts have any length
from one token. `Scored`, `Selections` and `Indexable` follow the slice, the `arange` and
the `index_select` of the code also where `consider_len` is negative or `prefill_len` is
`None` or left from another prompt; what fails ends the generation with an exception
(`LayerRaises`, `raised`), and the next prompt makes a new cache for the same layers. A step is one layer's
forward (`PromptLayer`, `SelectLayer`, `DecodeLayer`); `NewPrompt`, `NextChunk` and
`NextToken` are what the causal model does between the layers' forwards. Constants switch
between the variants of the code: `Packed` (the two cache classes), `Accumulates` (Qwen3
or Llama), `RealOffload`, `ChunkSize`, `WindowSize` (0 for the "last" selectors).
Copies to and from the GPU are taken to have happened when the call returns (the code
copies into pageable memory, where `non_blocking` has no effect). `attended` and
`chosen` are observations that no action reads.

### `InfLLM`, `SinkWindow` and the code

Entries are numbers of tokens here too. `InfLLM` keeps the tensors of the context manager
as sequences and the offsets into them as they are (`remainder_st`, `init_st`, ...), with
the dict of cached blocks, the idle units of the GPU and the slots of the buffer; the
scores, and the order of removal under "lru-s", are left open. One unit of attention heads
is modelled; units do the same side by side. `SinkWindow` is one forward of the streaming
cache with the window and the sinks each query sees. The complement window
(`context_manager.py:435`) masks nothing of the remainder: while a token leaves the windows of one execution block, some of its
queries see it locally and globally, the last one does not (`TwiceOnlyInBlock`).

## 3. Runs

| run | question | bounds, distinct states |
|---|---|---|
| `router_busy` | default settings (busy from the first token): all interleavings of arrivals and aborts with the awaits | 3 requests of at most 8 tokens each in a pool of 17: two fit to the end, three fit for their first tokens only, so the queue, mini batches, merges and refusals all occur. 68 393 |
| `router_lazy` | estimates that are too short, so that a decode does not fit and a request is paused; slots at their limit | 2 running requests of at most 12 tokens in a pool of 21, 3 requests. 58 553 |
| `router_abort` (violation) | does an abort always reach its request? | as `router_busy` |
| `group` | shared prompts and beams: reference counts, the group estimate, the cut of the queue | diverse: two groups of two and a single request in a pool of 15 that one group and the single request fill; beam: a group of two and a single request, every choice of parents. 92 052 |
| `splitfuse` | blocks, budget and estimates; clients that give up at every await | busy: 3 requests (prompts of three, a half and two and a half blocks) for 19 tokens; lazy: the same requests with estimates that are too short, so that they outgrow the pool. 120 806 |
| `prompt_cache` | matching, splitting, eviction and the tokens under them | five prompts of up to 4 tokens that part at each place, or end inside each other, two of them a group, in a pool of 9. 82 455 |
| `pipeline` | answers, locks, events and aborts over four processes | two requests; text: one with two answers of two tokens, one streaming; images: two answers of one token, batches of two images. 951 818 |
| `images` | references, expiry, waiting for records | four requests that share three images, capacity two; two streaming clients leave anywhere (also asleep) and a prompt is rejected, all stay, one image each, or records expire. 406 277 |
| `health` | restarts, whatever dies or hangs and when | four processes, three failures in a row. 315 |
| `constrained` | the language of the automata; healed prompts; constrained answers | nine grammars (the repository's `test0` to `test6`, a left recursion, matched pairs) and all texts of up to 8 terminals; four prompts over six tokens, without and with a length penalty that lifts the end; answers of up to 7 tokens. 755 223 |
| `cache` | retention, selection and single attention over chunks, tokens and generations | 8 layers, selecting layers 1 and 4, one waiting layer; a window of 4 and 4 selected tokens; Qwen3 with chunks of 2, Llama with real offload; prompts of 1 to 6 tokens (shorter and longer than the window), 4 decoded, 2 generations. 34 743 |
| `baselines` | places of tokens over inputs cut anywhere | InfLLM: 16 tokens, blocks of 2, window of 3, 2 of 3 cached blocks ("lru"); blocks of 1 chosen once for two execution blocks ("lru-s"); `SinkWindow`: 24 tokens in forwards of 1 to 9. 24 444 |

`CHECK_DEADLOCK FALSE` throughout: the instances have finitely many requests,
generations or tokens, after which the system is quiet.

**Why the bounds are enough.** Two requests already make every pair of positions (queue,
mini batch, running batch, being released) occur; the third makes a refusal and a cut of
the queue behind a skipped request occur. In the pool of the prompt cache two or three
requests fit, so that eviction happens beside referenced leaves. Two requests with two
messages each are the fewest in which an answer can overtake another or a wake-up serve
the wrong one. A cache of two records for three images makes each request wait for
another's record. Grammars differ in the kind of recursion; 8 terminals run through each
circle of an automaton twice. Eight layers give two groups of offloaded layers, one of two
layers, and full layers before, between and after; two generations are the fewest in
which state can be carried over. What the bounds leave open in `Router` and
`OmniKVCache` is what the proofs are for.

**What the properties say.**

- `Router`: `TokenAccounting`, `SlotAccounting` (pools conserved and sufficient),
  `OwnedOnce`, `BatchesAgree`, `ForwardReady` (both copies of a batch),
  `NeverOutOfMemory`, `NeverPauses` (the admission test), `AbortSticks`,
  `FinishNoticeIsLast` (aborts against answers in flight), `EveryRequestServed` (and gives
  its slot back).
- `GroupRouter`: `TokensShared` (a shared token is freed with its last reader),
  `QueueHolds` (a sub-request is handed out once, the sorted loop computes the largest load of any later moment, the claim
  behind both queues, and a decode fits), `BeamGroupsServed`.
- `SplitFuse`: `ForwardAsDecided` (router and back end cut the prompts alike),
  `TokenAccounting` (the pool and both copies of the lengths), `BusyServes`.
- `PromptCache`: `RightContent` (nobody reads another text's entries), `TokensOwned`,
  `ReferencesExact`, `EvictionReady` (eviction finds what admission promised),
  `StoresPrefixes` (the tree is a store of prefixes, the least recent goes first).
- `Pipeline`: `EntriesMatch` (what the processes keep per request belongs together),
  `NoLostWakeup`, `AnswersInOrder`, `ImagesAnswered`, and `AbortLeavesNothing`: no state
  outlives its request, no image is encoded for an aborted one, and without a visual server
  an aborted request is not queued to be started and its answers are neither decoded nor
  sent. That the router stops to generate them is not among it (disagreements 1 and 7).
- `ImageCache`: `ReferencesHold` (exact counts, those of requests cancelled or rejected
  before they were sent on included, which disagreement 10 is about),
  `LoopsRunForStayers`, `StayersServed`.
- `HealthMonitor`: `Restarted` (and nothing but a sick service is killed, its parent last).
- constraints: `WordsExact`, `HealedAsPromised` (with the length penalty: nothing but an end
  it lifted reaches the assertion), `AnswerIsConstrained`.
- `OmniKVCache`: `RetainsAll` (the README's "Full Token Retention"), `SelectionInRange`
  (once a window of tokens was fed, indices are in range and no layer raises, also after
  generations that an exception ended; shorter prompts are disagreement 15),
  `FreshSelection`, `AttendedExactly` (the recent window is attended to, nothing twice).
- baselines: `GpuMemoryExact`, `OnlyBlocksMissed`, `SinksAndWindowOnce`.

**Fairness.** Weak fairness of what the code runs in a loop, and of nothing that comes
from outside (requests, aborts, faults and expiry may never happen; a generation need not
stop before `max_new_tokens`).

| module | assumed | why |
|---|---|---|
| `Router`, `SplitFuse`, `GroupRouter` | `Fwd`: `loop_for_fwd` is resumed and an RPC returns; in `GroupRouter` a pass of `_step` ends | `while True` with awaits on RPCs of the local model process |
| `Pipeline` | each event loop goes on, each request the router runs gets its next token, a client reads its stream or leaves | as above; `Router` checks that running requests are served |
| `ImageCache` | each loop that is up goes on with each request it has | the loops' `while True`; a request that waits for a record asks again after some seconds |
| `HealthMonitor` | the monitor goes on; SIGKILL takes effect | it is a process of its own |

**Disagreements between code and text.** `router_abort` is a run of the project; the
others are reproduced by the configuration named, whose property TLC finds violated.

1. `router_abort`: `RouterManager.abort` looks in the running batch and in the queue. A
   request in a new mini batch, while `init_batch`, the prefill or the merge is awaited,
   is in neither, and the abort is dropped; the request runs to its end for nobody.
2. `MCRouter_lazy.cfg` with `INVARIANT PauseKeepsServing`: `InferBatch.pause_reqs` calls `_free_a_req_mem` with an argument
   missing. The pause raises and ends the scheduler. With the default
   `router_token_ratio` of 0 it is unreachable (`NeverPausesWhenBusy` below); with a
   positive ratio it is not.
3. `MCOmniKVCache_chunk.cfg`: `qwen3_omnikv.py` processes a long prompt in chunks, "each
   chunk attends to all previous via KV cache", but takes a chunk of one token (a prompt
   length of `k * 8192 + 1`) for a decoding step: offloaded layers attend to a selection
   only, and keep the prompt's last token in the tail.
4. `MCGroupRouter_lost.cfg`: `BeamContinuesBatchQueue.generate_new_batch` judges a group
   when it meets the next one. An aborted request between the two is counted in
   `aborted_count` even if the group is refused, and the queue, cut from its head by the
   number of requests taken and aborted, loses a sub-request of the refused group.
5. `MCGroupRouter_lost.cfg` with `BeamMode = TRUE` and `INVARIANT DecodeFits`: a beam group
   compares `cur_kv_len + 1 - prompt_len` with `max_new_tokens` before `cur_kv_len` is moved
   on. Unless its scores end it in time it makes one forward too many, with `best_of` tokens
   the estimate did not count.
6. `MCSplitFuse_starved.cfg`: the estimate of `SplitFuseReq` adds the number of blocks of
   the prompt to the tokens to come; a request that fits the pool is never scheduled, and
   those behind it are not either.
7. `MCPipeline_encoding.cfg`: an abort overtakes its request in the visual server while
   the images are encoded; the router then serves it for a client that left. With
   `Multimodal = FALSE` and `Group = {1, 2}` the same property, `DisconnectStops`, fails
   because of disagreement 1.
8. `MCImageCache_race.cfg`: in the same moment the record of the image may be cleared, and
   `get_item_embed` raises in a task that nobody restarts: multimodal service ends.
9. `MCImageCache_wait.cfg`: two requests with two images each hold one record and wait for
   a second, for ever (until records expire).
10. `MCImageCache_held.cfg` with `INVARIANT RefsAreHolders` alone: a prompt that is too
    long is rejected after its images got references, which nobody gives back. Those of a
    streaming request whose client leaves while it sleeps for a record stay too: its
    coroutine is cancelled before the request has an entry for `abort` to find.
11. The same file with `INVARIANT HeldKept` alone: a record not visited for an hour is cleared while held.
12. `MCHealthMonitor_reaped.cfg`: with a dead model process the monitor kills the router
    first, init reaps the model process, and `os.kill` raises outside any `try`: the
    parent is not killed, the service not restarted.
13. `MCConstrained_else.cfg`: `check_lr1` compares a finished item with later items only;
    the dangling `else` passes, and words of its language are refused.
14. `MCConstrained_settings.cfg` (with `-continue`): a stop sequence inside the healed
    prefix ends an answer without telling the client (`StopIsTold`); a first token that
    ends within a character repeats the prefix (`BytesContinue`); `min_new_tokens` and the
    exponential length penalty change masked logits again, so that an answer leaves its
    regular expression (`AlwaysConstrained`), or the end is sampled while the prompt's end
    is still to be repeated and `assert False, "error state"`
    (`impl_for_token_healing.py:143`) fails in the forward of the whole batch (`MaskKept`).
15. `MCOmniKVCache_models.cfg` with `INVARIANT NeverRaises`: with a window selector
    ("uniform", "exp") a prompt shorter than the window makes `consider_len`, or the numbers
    of the `arange`, negative (`omnikv.py:187`, `:204`; `qwen3_omnikv.py:211`, `:228`), and
    `index_select` raises. A prompt of one token, with any selector, is taken for a decoding
    step that finds no part, or a `prefill_len` that is `None` or another prompt's. The
    configurations under `configs/` use "last".

## 4. Proofs

`RouterProofs` assumes `RouterAssumption`: the lengths that the HTTP server, the API
server's argument checks and the model's start-up check enforce. Its theorems hold for
every finite set of requests and every setting.

The properties are not inductive. `IndInv` strengthens them, in parts that are proved in
this order, each step using the parts before it: types and control (`TypeOK`,
`ControlInv`: which awaits and paths go together); ownership (`OwnerInv`: also the
status of a request in each place); the cached counts (`NeedInv`); the stored batches
(`CacheInv`); slots (`SlotInv`); lengths (`LengthInv`: outputs against tokens held);
tokens (`TokenInv`); and, apart, notices (`NoticeInv`) and aborts (`AbortInv`).
`NeverPauses` needs one more, `PeakInv`: at every moment between two admissions, the
load of the admitted requests at each later moment is below the pool. It is stated over
all future moments, whereas the code looks only at those where a request ends; the lemma
`PeakIsAtAnEnd` proves that this is enough (the claim of
`omnikv-lightllm/docs/EN/source/dev/router.rst:36`), `AdmissionPeak` that admission
establishes it, `ForwardPeak` that a forward keeps it and `DecodeFits` that it implies
`_can_decode`. The theorem has the hypothesis `BusyFrom = 0`, the default
`router_token_ratio`.

| theorem | property |
|---|---|
| `TypeCorrect`, `OwnedOnceCorrect`, `BatchesAgreeCorrect`, `ForwardReadyCorrect` | the bookkeeping |
| `SlotAccountingCorrect`, `TokenAccountingCorrect`, `NeverOutOfMemoryCorrect` | the pools |
| `NeverPausesWhenBusy` | admission bounds the future |
| `FinishNoticeCorrect`, `AbortIsPromptCorrect`, `AbortSticksCorrect` | notices and aborts |
| `IndInvCorrect` | all parts together |

`OmniKVCacheProofs` assumes `CacheAssumption`: sensible settings, and a Llama model that
is fed its prompt at once. The inductive invariant `CacheInv` says what a layer keeps
(`Retained`: the tokens fed up to here, split between `key_cache` and tail), when tails
exist (`Tails`), when each stage holds (`Stages`, `Feeding`), and what the layers have
counted (`Counted`, `CountsAgree`: the same number in every layer, equal to the prompt
part of an offloaded layer's cache). The counts are right for prompts of two tokens or
more; nothing is claimed of those that a prompt of one token or an exception leaves behind.
From it follows `RetainsAllCorrect`, the refinement: a layer's forward is a `Keep` step of `RetainedKV`,
a new prompt a `Clear`, anything else a stutter.

A second layer, `AttendInv`, says what a decoding step works with: all layers are in
the same step of the same generation, `decode_step` follows the length of the tail,
`key_cache` of an offloaded layer is the counted prompt, and `part_key` with `idx` are the
latest selection of the layer's group. `FreshSelectionCorrect` and
`AttendedExactlyCorrect` follow, and `SelectionInRangeCorrect`: an exception needs a
selection out of range or a missing part, which the invariant excludes unless the prompt
has one token or fewer were fed than the window has (`Short`).

| theorem | property |
|---|---|
| `CacheInvCorrect`, `CacheTypes`, `AttendInvCorrect` | the inductive invariants |
| `SelectionInRangeCorrect`, `FreshSelectionCorrect` | no index outside the cache, no selection of an earlier step |
| `AttendedExactlyCorrect` | what a layer attends to |
| `RetainsAllCorrect` | refinement of `RetainedKV` |

`PipelineProofs` assumes `PipelineAssumption`: finitely many requests, one answer for a
streaming one. `CausalInv` relates where a coroutine is to what is in the channels and
the other processes: an entry exists exactly while its coroutine does (`EntriesMatch`), a
list that is not read yet has its event set or its reader on the way (`NoLostWakeup`),
and each token is in one place. `OrderInv` follows one answer through its five places,
detokenization's channel, the channel to the HTTP server, the batch `handle_loop`
distributes, the list of the entry, and what the client has: their concatenation is
always `1..n` (`InOrder`), and the mark of the end is on the last token only. A step moves
a token over one border and leaves the concatenation alone, so what the client has is a
prefix, which is the refinement of `AnswerStream`.

`AbortInv` is about what an abort leaves behind. A request is in one of five places
before the router has it, and there once (`OnceInv`), so it is not queued a second time
after its abort. Its abort follows it in the channel to the router and in that to the
visual server, as long as its receiver can still act on it (`HeardInv`); between the
visual server and the router this is false, which is the disagreement `DisconnectStops`
shows. In the channel to detokenization, what takes away an answer's state, its abort or
its last token, comes after what creates it, from the moment the router stops to work for
it (`ClearedInv`); after the abort nothing creates it again, even while the router, which
dropped the abort, goes on to generate: detokenization passes over tokens of a request it
does not know. The three theorems are the three parts of `AbortLeavesNothing`, which
the module for TLC states for both settings at once.

| theorem | property |
|---|---|
| `PipelineTypes` | types |
| `EntriesMatchCoroutines`, `WakeupsAreKept` | entries and wake-ups |
| `StreamsInOrder` | `AnswersInOrder`, the refinement of `AnswerStream` |
| `NothingIsLeft`, `NoImageForTheAborted`, `AbortSilencesText` | the parts of `AbortLeavesNothing`, the last (`AbortSilences`) without a visual server |

`SplitFuseProofs` assumes `SplitFuseAssumption`, as `RouterAssumption` with blocks; a
forward's budget is above one block. `IInv` is layered like that of `Router`; its heart is
`NeedInv`, the need a batch caches is what the blocks of its requests sum up to, from
which `ForwardAsDecided` follows. Tokens of the pool are sums over requests here, so the
lemmas about sums of `InductionLemmas` carry `TokenAccounting`. `PeakInv` is the argument
of `NeverPauses` again, with the estimate in blocks.

| theorem | property |
|---|---|
| `SplitFuseInvariant`, `SplitFuseTypes`, `SplitFuseOwnedOnce` | the inductive invariant |
| `ForwardAsDecidedCorrect` | the model process forwards what the router decided |
| `TokensAddUp` | `TokenAccounting` |
| `SplitFuseNeverPauses` | admission bounds the future (a part of `BusyServes`), with `BusyFrom = 0` |

`PromptCacheProofs` assumes `PromptCacheAssumption`: prompts that are not empty, and one
prompt for the members of a group. The first layer, `TreeInv`, is about texts and needs
nothing of the pool: where each request is (`Control`), that a request has tokens and a
node of the tree only while it runs (`Texts`), that the members of a group enter together
with one prompt and one cached length (`GroupsTogether`), and that the tree is well-formed
with its reference counts and counters those of the holders (`Accounted`); each operation
of the tree (match with split, insert, evict, the reference counts along a path) has a
lemma that it keeps a tree a tree. The second, `PoolInv`, is about tokens: the references
on a pool token are its entry in the tree, the rows that have it and the frees under way
(`TokensOwned`), and its content is the text up to it (`RightContent`); the argument is
that `insert` finds how much the tree had, and that exactly the row's tokens in that range
are freed.

`PromptStoreProofs` adds what the refinement and the eviction need. `HoldInv`: the node a
running request holds is a prefix of its text, shorter than its tokens from the first
forward on, and the same for its group. `OrderInv`: `evict_tree_set` has exactly the
leaves under their present keys, and the times of two nodes are in the order of the last
uses of their edges. The second half is why `split_node` may give the upper half of an
edge a new time without changing who goes first. Every operation of the tree is then an
operation of `PrefixStore` on the texts kept, and the leaf evicted is one least recently
used (`StoreImplemented`). `RowInv`: a row's tokens up to the node held are the tree's, and
those beyond are in no edge and in no other group's row.

With these, the pool is covered by the free tokens, the edges of unreferenced nodes and
the rows of running requests, where a group's prompt counts once (`PoolCount`):
`SharedPrompts` says that members of a group that are past their prefill have its tokens
in common. So admission, which bounds the lengths of
the texts, bounds what a prefill lacks by what eviction can free (`PrefillRoom`). `RoomInv`
follows the bound through the preparation of a forward: admitted, gathered node by node
from tokens that the tree alone has, freed, allocated. That a pass finds a node at all is
`CanEvict`: the longest unreferenced node is a leaf, and unreferenced leaves sort first.

| theorem | property |
|---|---|
| `TreeIsInvariant`, `PoolIsInvariant`, `PromptCacheTypes` | the inductive invariant |
| `ReferencesExactCorrect` | `ref_counter` is the number of holders below, the counters are sums |
| `RightContentCorrect` | nobody reads another text's entries |
| `TokensOwnedCorrect` | a token is freed once, after its last reader |
| `HoldIsInvariant`, `OrderIsInvariant`, `RowIsInvariant`, `SharedIsInvariant`, `RoomIsInvariant` | the further layers |
| `StoreImplemented` | `StoresPrefixes`: refinement of `PrefixStore`, and the least recently used goes first |
| `EvictionReadyCorrect` | eviction finds what admission promised |

`GroupRouterProofs` assumes `GroupAssumption`, in either mode unless a theorem says
otherwise. The queue is a sequence of blocks, one per group, without repetition
(`QueueInv`). Therefore the groups up to a taken one are all taken, what lies before its
last live member is taken or an aborted request that was scanned (`BeforeTaken`), and the
number of both, by which the queue is cut, reaches that member (`TakenIsHead`). The
converse does not hold, which is disagreement 4: the cut may be too long. `PlaceInv` says
that the queue has only aborted members of a running group, so that a prefill never adds
to one. The references of `SharedTokens` are sums over disjoint parts of the running
batch, those that go on, end, or were copied from a parent (`HoldersSplit`). What a decode
adds is new because no row has the position of the next token (`RowInv`), which a copied
row keeps because the members of a group are equally far (`LengthInv`). A prefill fits
since the prompts' rows are disjoint and their sizes sum up to what `alloc` is asked for
(`PromptsFit`, by `UnionSize`).

That the estimate is the peak (`NeedIsPeakCorrect`, either mode) goes over what the loop
has summed up when it comes to a request: the lengths of those met by then, each without
its prompt when another member of its group was met before. Each group among them has one
member that is first in the order (`EndsOf`), so the prompts are counted once
(`PromptsOnce`), and with the remaining length added for each of them the value is a load
(`LoadOf`) of those met (`MetLoad`). They last at least as long as the request, so the
value is at most the load at that moment; and the load of any moment is that of the
requests that last so long, which are those met up to the last of them (`LastingIsMet`).

That a decode fits (`DecodeFitsCorrect`, diverse mode) needs a stronger invariant than
room for one token, which says nothing about the next one: the load of the running batch is
below the pool for every number of tokens to come (`Fits`). A prefill establishes it from
the test the taken groups passed together (`TakenPasses`, `NeedBounds`). A decode moves
every load on by one: who goes on has one token more and one less to come, and who has
none to come must end (`FitsDecode`). That last step fails for beam groups, which end a
token late: disagreement 5. The tokens used are no more than the load of now, as a row is
the prompt's and the request's own cells (`RowParts`, `UsedIsLoad`). A request that prefill
left out has no token yet but counts as if it had; the next decode meets it before another
prefill can (`AllPrefilled`).

| theorem | property |
|---|---|
| `GroupInvariant`, `GroupTypes` | the inductive invariant and types |
| `SharedTokensCorrect` | a shared token is freed with its last reader (`SharedTokens`, the diverse half of `TokensShared`, for all constants) |
| `TakenOnceCorrect` | a sub-request is handed out once (`TakenOnce`, a part of `QueueHolds`) |
| `NeedIsPeakCorrect` | the sorted loop computes the largest load (`NeedIsPeak`, a part of `QueueHolds`) |
| `DecodeFitsCorrect` | assuming `~BeamMode`: every decode fits the pool (`DecodeFits`, a part of `QueueHolds`) |
| `QueueHoldsCorrect` | assuming `~BeamMode`: the three parts together, `QueueHolds`, for the behaviours of `MCGroupRouter` |

Induction: the library's theorems take an operator as a parameter, which the provers
cannot instantiate. `InductionLemmas` states induction with sets instead: a set of
numbers without a least counterexample (`MinElement`, `InductionUpTo`), a set of subsets
closed under adding an element (`SubsetInduction`). With these, sums over finite sets
(`SumFunctionOnSet`) get their usual laws, and the recursive functions of `Pipeline` and
`SplitFuse` their recursion equations.

`TypeOK`, `IndInv` and `AbortIsPrompt` of `Router`, `CacheInv` and `AttendInv` of
`OmniKVCache`, and the invariants of the other proof modules are proved and in no run: what
they say is proved for all instances, and runs are kept for what could still be wrong.

**Only model-checked**: all of `ImageCache`, `HealthMonitor`, the constraints and the
baselines; the liveness properties (fairness and ENABLED are out of the prover's reach). The closures of `GrammarLR1` and `Dpda` are
RECURSIVE operators and stay with TLC.

## 5. Plan

Done: the scheduler in its three modes, the model process's bookkeeping, the prompt
cache, the pipeline, the image cache, the monitor, the constraining back ends, the grammar
tool, the OmniKV cache and the caches of InfLLM and the streaming baselines; proofs about
the default scheduler, split-fuse, the group queue, the prompt cache, the pipeline and the
OmniKV cache.

Next are proofs: the invariants of `SinkWindow`; the order of the kills of `HealthMonitor`; `ReferencesHold` of `ImageCache`.

## 6. Not modelled

The map covers about a tenth of the implementation's lines. Most of the others compute
numbers or run once from top to bottom, and a module about them would have no state:

- **Kernels, models and weights** (`lightllm/models`, `common/basemodel`, most of
  `modeling/`): numerical code in some hundred files. What they allocate and keep is in
  `Router` and `OmniKVCache`.
- **OmniKV attention in lightllm** (`models/llama_omnikv`): a measurement of speed. The
  indices of the important tokens are replaced by zeros and ones, with a comment that this
  is wrong and measures efficiency only (`triton_kernel/flash_decoding.py:105`).
- **Older caches and models** (`DynamicSub*`, `OmniKVLazyCache`, `OmniKVMoreEffCache`,
  brutal offload, `token_model.py`): earlier experiments behind the same interface.
- **H2O** (`baselines/raw_h2o`): which tokens a decoding step feeds after an eviction is
  decided by the installed `transformers` from the length of the evicted cache. The
  attention module takes no `cache_position`, so it needs a version older than the one the
  repository pins (4.41.2), and which one is not said.
- **Benchmarks, data generation, evaluation scripts, metrics, statistics**: sequential, or
  output only.
- **Parts of modelled components**: the shared-memory copy of the radix tree that the
  router reads (only its two counters are modelled); several requests at once in the
  visual server of `ImageCache`; the incremental decoding of characters in detokenization
  but for held-back first tokens; the mask of `impl_for_first_token_constraint_mode.py`;
  prompts of one token in token healing, whose prefill is then empty; the text front end
  and the chat session of `format_out`.

## 7. How to run

    tlc -config MCRouter_busy.cfg MCRouter      # and so on, see PROJECT.json "runs"
    tlc -continue -workers 1 -config MCConstrained_settings.cfg MCConstrained
    tlapm RouterProofs.tla
    tlapm OmniKVCacheProofs.tla                 # and the other modules of theorems

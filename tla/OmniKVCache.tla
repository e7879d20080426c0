---------------------------- MODULE OmniKVCache -----------------------------
(***************************************************************************)
(* The KV cache of OmniKV for Hugging Face models: OmniKVMultiStageCache   *)
(* and WOPackCache (modeling/spec_cache.py), driven by the decoder layers  *)
(* and the causal models of modeling/omnikv.py (Llama) and                 *)
(* modeling/qwen3_omnikv.py (Qwen3, with chunked prefill).                 *)
(*                                                                         *)
(* A generation feeds a prompt, in one forward or in chunks, and then one  *)
(* token per forward; a forward runs the layers in order.  Tokens are      *)
(* numbered from 1 in the order in which they are fed.  The KV entry of a  *)
(* token is the token's number; what a layer attends to is the entries     *)
(* that update returns.  Which tokens score highest is any choice.         *)
(*                                                                         *)
(* Most layers keep only the prompt in key_cache ("offload"), and attend   *)
(* to a part of it that the selecting layer before them chose, followed by *)
(* tail_k, the tokens decoded since.                                       *)
(***************************************************************************)
EXTENDS Integers, Sequences, FiniteSets, Functions

CONSTANTS
  NumLayers,      (* num_hidden_layers                                          *)
  SelectLayers,   (* do_select_layers                                           *)
  NumWait,        (* num_wait_load_layers: full layers after a selecting one    *)
  RealOffload,    (* real_offload: offloaded entries leave the GPU              *)
  Packed,         (* OmniKVMultiStageCache if TRUE, WOPackCache if FALSE        *)
  Accumulates,    (* the Qwen3 model if TRUE: it counts prompt tokens chunk by  *)
                  (* chunk and resets its layers; the Llama model if FALSE      *)
  ChunkSize,      (* prefill_chunk_size; the Llama model has one chunk          *)
  NumSelected,    (* num_of_selected_tokens                                     *)
  WindowSize,     (* window_size with a window selector, 0 with a "last" one    *)
  MaxPrompt,      (* bound: prompt tokens of a generation                       *)
  MaxDecode,      (* bound: tokens decoded in a generation                      *)
  MaxGenerations  (* bound: generations                                         *)

ASSUME CacheAssumption ==
  /\ NumLayers \in Nat \ {0}
  /\ SelectLayers \subseteq 0..(NumLayers - 1) /\ SelectLayers # {}
  /\ NumWait \in Nat
  /\ RealOffload \in BOOLEAN /\ Packed \in BOOLEAN /\ Accumulates \in BOOLEAN
  /\ ChunkSize \in Nat /\ ChunkSize >= 2
  /\ ~Accumulates => ChunkSize >= MaxPrompt
  /\ NumSelected \in Nat \ {0}
  /\ WindowSize \in Nat
  /\ MaxPrompt \in Nat /\ MaxDecode \in Nat /\ MaxGenerations \in Nat

VARIABLES
  \* the generation
  generation,   \* generations started
  prompt,       \* tokens of its prompt
  fed,          \* tokens the forwards before this one fed
  tokens,       \* tokens fed with this one
  layer,        \* the layer to run next; NumLayers between two forwards
  raised,       \* the generation was ended by an exception
  \* the cache
  stage, key_cache, tail_k, part_key,
  idx,          \* WOPackCache.idx
  \* kept by each layer, across generations
  prefill_len,  \* 0 stands for None
  decode_step,
  \* seen from outside
  attended,     \* what the last layer that ran attends to
  chosen        \* what each selecting layer chose in this forward

genVars   == <<generation, prompt, fed, tokens, layer, raised>>
cacheVars == <<stage, key_cache, tail_k, part_key, idx>>
layerVars == <<prefill_len, decode_step>>
seenVars  == <<attended, chosen>>
vars == <<genVars, cacheVars, layerVars, seenVars>>

Layer == 0..(NumLayers - 1)

TokenRange(from, to) == [i \in 1..(to - from + 1) |-> from + i - 1]
Chunk == TokenRange(fed + 1, tokens)
OneToken == tokens = fed + 1

AtLeast(a, b) == IF a >= b THEN a ELSE b
AtMost(a, b)  == IF a <= b THEN a ELSE b

-----------------------------------------------------------------------------
(***************************************************************************)
(* layer_state: which layers are full, and whose selection the others use. *)
(***************************************************************************)
\* full_attn_layers: those before the first selecting layer, and the selecting.
FullAttn(l) == l \in SelectLayers \/ \A s \in SelectLayers : l < s

\* The full layer a layer comes after (or is).
IsLeft(f, l) == /\ FullAttn(f) /\ f <= l
                /\ \A m \in Layer : FullAttn(m) /\ m <= l => m <= f

Offloaded(l) == \E f \in Layer : IsLeft(f, l) /\ l > f + NumWait

\* The layers whose part set_idx_on_gpu of selecting layer s sets.
Group(s) == {l \in Layer : IsLeft(s, l) /\ l > s + NumWait}

-----------------------------------------------------------------------------
Init ==
  /\ generation = 0 /\ prompt = 0 /\ fed = 0 /\ tokens = 0 /\ layer = NumLayers
  /\ raised = FALSE
  /\ stage = "prefill"
  /\ key_cache = [l \in Layer |-> <<>>]
  /\ tail_k = [l \in Layer |-> <<>>]
  /\ part_key = [l \in Layer |-> {}]
  /\ idx = {}
  /\ prefill_len = [l \in Layer |-> 0]
  /\ decode_step = [l \in Layer |-> 0]
  /\ attended = [part |-> {}, rest |-> <<>>]
  /\ chosen = [s \in SelectLayers |-> {}]

(***************************************************************************)
(* The causal model's forward: it prepares the cache and runs the layers.  *)
(***************************************************************************)

PrefillLenAtStart == IF Accumulates THEN [l \in Layer |-> 0] ELSE prefill_len

\* A prompt of n tokens, with a DynamicCache: a new cache is made, and the first
\* chunk is fed.  A prompt of one token is taken for a decoding step.
NewPrompt(n) ==
  /\ layer = NumLayers \/ raised
  /\ generation < MaxGenerations
  /\ generation' = generation + 1
  /\ prompt' = n /\ fed' = 0 /\ tokens' = AtMost(n, ChunkSize) /\ layer' = 0
  /\ raised' = FALSE
  /\ stage' = IF n = 1 THEN "decoding" ELSE "prefill"
  /\ key_cache' = [l \in Layer |-> <<>>]
  /\ tail_k' = [l \in Layer |-> <<>>]
  /\ part_key' = [l \in Layer |-> {}]
  /\ idx' = {}
  /\ prefill_len' = PrefillLenAtStart
  /\ decode_step' = IF Accumulates THEN [l \in Layer |-> 0] ELSE decode_step
  /\ chosen' = [s \in SelectLayers |-> {}]
  /\ UNCHANGED attended

\* The next chunk of the prompt.  The stage was set once, before the chunks.
NextChunk ==
  /\ layer = NumLayers /\ tokens < prompt
  /\ fed' = tokens /\ tokens' = AtMost(tokens + ChunkSize, prompt) /\ layer' = 0
  /\ chosen' = [s \in SelectLayers |-> {}]
  /\ UNCHANGED <<generation, prompt, raised, cacheVars, layerVars, attended>>

\* generate() feeds the token it sampled.
NextToken ==
  /\ layer = NumLayers /\ generation > 0
  /\ tokens >= prompt /\ tokens < prompt + MaxDecode
  /\ fed' = tokens /\ tokens' = tokens + 1 /\ layer' = 0
  /\ stage' = "decoding"
  /\ chosen' = [s \in SelectLayers |-> {}]
  /\ UNCHANGED <<generation, prompt, raised, key_cache, tail_k, part_key, idx, layerVars,
                 attended>>

-----------------------------------------------------------------------------
(***************************************************************************)
(* update: the entries of the tokens are stored, and the layer attends to  *)
(* what it returns.                                                        *)
(***************************************************************************)
IndexSelect(entries, S) == {entries[i] : i \in S}

\* Mutant: an offloaded chunk replaces the one before it.
OffloadLastChunk(l) ==
  /\ key_cache' = [key_cache EXCEPT ![l] = Chunk]
  /\ attended' = [part |-> {}, rest |-> Chunk]
  /\ UNCHANGED <<tail_k, part_key>>

\* An offloaded layer during prefill.
OffloadChunk(l) ==
  /\ key_cache' = [key_cache EXCEPT ![l] = @ \o Chunk]
  /\ attended' = [part |-> {}, rest |-> IF RealOffload THEN Chunk ELSE key_cache'[l]]
  /\ UNCHANGED <<tail_k, part_key>>

\* Mutant: the tail is replaced by the token, not extended.
TailOfOneToken(l) ==
  /\ tail_k' = [tail_k EXCEPT ![l] = Chunk]
  /\ part_key' = IF Packed THEN part_key
                 ELSE [part_key EXCEPT ![l] = IndexSelect(key_cache[l], idx)]
  /\ attended' = [part |-> part_key'[l], rest |-> tail_k'[l]]
  /\ UNCHANGED key_cache

\* An offloaded layer while decoding.
AttendPartAndTail(l) ==
  /\ tail_k' = [tail_k EXCEPT ![l] = @ \o Chunk]
  /\ part_key' = IF Packed THEN part_key
                 ELSE [part_key EXCEPT ![l] = IndexSelect(key_cache[l], idx)]
  /\ attended' = [part |-> part_key'[l], rest |-> tail_k'[l]]
  /\ UNCHANGED key_cache

\* A full layer.
AttendAll(l) ==
  /\ key_cache' = [key_cache EXCEPT ![l] = @ \o Chunk]
  /\ attended' = [part |-> {}, rest |-> key_cache'[l]]
  /\ UNCHANGED tail_k

Update(l) ==
  IF ~Offloaded(l) THEN AttendAll(l) /\ UNCHANGED part_key
  ELSE IF stage = "prefill" THEN OffloadChunk(l) ELSE AttendPartAndTail(l)

\* A decoding step that finds no part, or no index, of its generation ({} stands for
\* that), or an index that is not in the layer's key_cache.
UpdateRaises(l) ==
  /\ Offloaded(l) /\ stage # "prefill"
  /\ IF Packed THEN part_key[l] = {}
     ELSE idx = {} \/ ~(idx \subseteq DOMAIN key_cache[l])

-----------------------------------------------------------------------------
(***************************************************************************)
(* The forward of one decoder layer.                                       *)
(***************************************************************************)
\* A layer counts the prompt: the Qwen3 one adds up the chunks.
CountPrompt(l) ==
  /\ prefill_len' = [prefill_len EXCEPT ![l] = tokens - fed
                                               + (IF Accumulates THEN @ ELSE 0)]
  /\ decode_step' = IF WindowSize > 0 /\ l \in SelectLayers
                    THEN [decode_step EXCEPT ![l] = 1] ELSE decode_step

\* Several tokens are fed.
PromptLayer ==
  /\ layer < NumLayers /\ ~OneToken
  /\ CountPrompt(layer)
  /\ Update(layer)
  /\ layer' = layer + 1
  /\ UNCHANGED <<generation, prompt, fed, tokens, raised, stage, idx, chosen>>

\* Mutant: the window's prompt tokens are one fewer than they are.
WindowPromptOffByOne(l) == AtLeast(0, WindowSize - decode_step[l] - 1)

\* Tokens of the observation window that are still tokens of the prompt.
WindowPrompt(l) == AtLeast(0, WindowSize - decode_step[l])

\* consider_len: prompt tokens that are scored, negative if the window's prompt tokens
\* are more than the prompt has.
ConsiderLen(l) == prefill_len[l] - WindowPrompt(l)

\* key_cache[:, :, :consider_len]: up to that many entries, all but the last ones if
\* it is negative, all if it is None.
Scored(l) ==
  LET n == Len(key_cache[l])
  IN  IF prefill_len[l] = 0 THEN n
      ELSE IF ConsiderLen(l) < 0 THEN AtLeast(0, n + ConsiderLen(l))
      ELSE AtMost(ConsiderLen(l), n)

\* select_tokens_by_attn_universal picks the best of the scored tokens (as many as
\* there are); those of the window are added, from a number below 1 on if
\* consider_len is negative.
Selections(l) ==
  LET k == AtMost(AtLeast(1, NumSelected - WindowPrompt(l)), Scored(l))
  IN  {S \cup ((ConsiderLen(l) + 1)..prefill_len[l]) :
         S \in {T \in SUBSET (1..Scored(l)) : Cardinality(T) = k}}

\* There is nothing to score, or no window yet to add the token to.
CannotScore(l) == key_cache[l] = <<>> \/ (WindowSize > 0 /\ prefill_len[l] = 0)

\* index_select finds the indices in each layer of the group.
Indexable(l, S) == Packed => \A i \in Group(l) : S \subseteq DOMAIN key_cache[i]

\* Mutant: a layer that has a part keeps it.
KeepParts(l, S) ==
  IF Packed
  THEN /\ part_key' = [i \in Layer |->
                         IF i \in Group(l) /\ part_key[i] = {} THEN IndexSelect(key_cache[i], S)
                                                               ELSE part_key[i]]
       /\ UNCHANGED idx
  ELSE idx' = (IF idx = {} THEN S ELSE idx) /\ UNCHANGED part_key

\* set_idx_on_gpu
SetIdxOnGpu(l, S) ==
  IF Packed
  THEN /\ part_key' = [i \in Layer |-> IF i \in Group(l) THEN IndexSelect(key_cache[i], S)
                                                         ELSE part_key[i]]
       /\ UNCHANGED idx
  ELSE idx' = S /\ UNCHANGED part_key

\* A selecting layer chooses anew when it is given one token and the cache is not
\* empty: it is, for the first layer of a prompt of one token.
Selects(l) == OneToken /\ l \in SelectLayers /\ (l > 0 \/ fed > 0)

\* It chooses for its group.
SelectLayer ==
  /\ layer < NumLayers /\ ~raised /\ Selects(layer) /\ ~CannotScore(layer)
  /\ \E S \in Selections(layer) :
       /\ Indexable(layer, S)
       /\ SetIdxOnGpu(layer, S)
       /\ chosen' = [chosen EXCEPT ![layer] = S]
  /\ stage' = "decoding"
  /\ decode_step' = [decode_step EXCEPT ![layer] = @ + 1]
  /\ AttendAll(layer)
  /\ layer' = layer + 1
  /\ UNCHANGED <<generation, prompt, fed, tokens, raised, prefill_len>>

\* Another layer is given one token.
DecodeLayer ==
  /\ layer < NumLayers /\ ~raised /\ OneToken /\ ~Selects(layer) /\ ~UpdateRaises(layer)
  /\ Update(layer)
  /\ layer' = layer + 1
  /\ UNCHANGED <<generation, prompt, fed, tokens, raised, stage, idx, layerVars, chosen>>

\* An exception ends the generation; what it leaves in the cache goes with it.
LayerRaises ==
  /\ layer < NumLayers /\ ~raised /\ OneToken
  /\ IF Selects(layer)
     THEN CannotScore(layer) \/ \E S \in Selections(layer) : ~Indexable(layer, S)
     ELSE UpdateRaises(layer)
  /\ raised' = TRUE
  /\ UNCHANGED <<generation, prompt, fed, tokens, layer, cacheVars, layerVars, seenVars>>

RunLayer == PromptLayer \/ SelectLayer \/ DecodeLayer \/ LayerRaises

Next == \/ \E n \in 1..MaxPrompt : NewPrompt(n)
        \/ NextChunk \/ NextToken \/ RunLayer

Spec == Init /\ [][Next]_vars

-----------------------------------------------------------------------------
MaxToken == MaxPrompt + MaxDecode

\* The state has its types; a layer never counts more prompt tokens than a prompt
\* has (prefill_len of one generation is not added to the next one's).
TypeOK ==
  /\ generation \in 0..MaxGenerations /\ prompt \in 0..MaxPrompt
  /\ fed \in 0..MaxToken /\ tokens \in 0..MaxToken /\ layer \in 0..NumLayers
  /\ stage \in {"prefill", "decoding"}
  /\ key_cache \in [Layer -> Seq(1..MaxToken)]
  /\ tail_k \in [Layer -> Seq(1..MaxToken)]
  /\ part_key \in [Layer -> SUBSET (1..MaxToken)] /\ idx \subseteq Int
  /\ prefill_len \in [Layer -> 0..MaxPrompt] /\ decode_step \in [Layer -> Nat]
  /\ attended \in [part : SUBSET (1..MaxToken), rest : Seq(1..MaxToken)]
  /\ chosen \in [SelectLayers -> SUBSET Int] /\ raised \in BOOLEAN

\* A prompt of one token, or fewer tokens so far than a window has.
Short == prompt = 1 \/ tokens < WindowSize

\* When a selecting layer is about to choose, and a window of tokens has been fed, it
\* scores tokens of the prompt only, and every index it may choose is in the key_cache
\* of each layer of its group (index_select in set_idx_on_gpu or in update): the counts
\* of the layers agree, over chunks and generations, with what the cache holds.  No
\* layer looks outside the cache for another reason than that the prompt is short.
SelectionInRange ==
  /\ layer < NumLayers /\ OneToken /\ layer \in SelectLayers /\ ~Short =>
       /\ prefill_len[layer] > 0 /\ ConsiderLen(layer) \in 0..Len(key_cache[layer])
       /\ \A i \in Group(layer) \cup {layer} : prefill_len[layer] <= Len(key_cache[i])
  /\ raised => Short

\* No generation is ended by an exception.
NeverRaises == ~raised

\* An offloaded layer has just run on one token.
SparseAttention == layer > 0 /\ OneToken /\ Offloaded(layer - 1)

\* An offloaded layer attends to what the selecting layer before it has chosen
\* for this very token, not to the part of an earlier token or of another group.
FreshSelection ==
  SparseAttention =>
    \A s \in SelectLayers : IsLeft(s, layer - 1) =>
      attended.part = IndexSelect(key_cache[layer - 1], chosen[s])

\* An offloaded layer attends to the last WindowSize tokens, whether they are
\* still in the prompt or in the tail, and to every token decoded since: the
\* window's count of prompt tokens shrinks exactly as the tail grows.
RecentWindowAttended ==
  SparseAttention =>
    \A t \in 1..tokens :
      t > tokens - WindowSize \/ t > prompt => t \in attended.part \cup Range(attended.rest)

\* No token is attended to twice: the part and the tail never overlap, and no
\* token is in the tail twice.
NothingTwice ==
  /\ attended.part \cap Range(attended.rest) = {}
  /\ Cardinality(Range(attended.rest)) = Len(attended.rest)

\* What an offloaded layer attends to beside its selection is exact: the recent window
\* is there, and nothing is there twice.
AttendedExactly == RecentWindowAttended /\ NothingTwice

\* "Full Token Retention" (README.md:15): every layer keeps every token, in its
\* key_cache or in its tail, in order.
Dense == INSTANCE RetainedKV WITH
  MaxFed <- MaxToken, kv <- [l \in Layer |-> key_cache[l] \o tail_k[l]]
RetainsAll == Dense!Spec

\* "Process input in chunks, each chunk attends to all previous via KV cache"
\* (modeling/qwen3_omnikv.py:352): a layer that has run on a chunk of the prompt has
\* attended to all the tokens so far.
ChunkAttendsAll ==
  layer > 0 /\ 0 < tokens /\ tokens <= prompt =>
    attended.part \cup Range(attended.rest) = 1..tokens
-----------------------------------------------------------------------------
(***************************************************************************)
(* An inductive invariant, from which RetainsAll follows.                  *)
(***************************************************************************)
Types ==
  /\ key_cache \in [Layer -> Seq(Nat)] /\ tail_k \in [Layer -> Seq(Nat)]
  /\ prefill_len \in [Layer -> Nat] /\ decode_step \in [Layer -> Nat]
  /\ layer \in 0..NumLayers /\ prompt \in 0..MaxPrompt
  /\ fed \in Nat /\ tokens \in 0..(prompt + MaxDecode) /\ raised \in BOOLEAN

\* A forward feeds a token or more; only a whole chunk leaves tokens of the prompt.
Feeding ==
  \/ /\ generation = 0 /\ tokens = 0 /\ fed = 0 /\ prompt = 0 /\ layer = NumLayers
     /\ ~raised
  \/ /\ fed < tokens /\ prompt >= 1
     /\ tokens < prompt => ~OneToken /\ Accumulates
     /\ ~OneToken /\ ~Accumulates => fed = 0
     /\ prompt = 1 => OneToken
     /\ raised => OneToken /\ layer < NumLayers

\* Several tokens are always fed in stage "prefill"; a single one is, from the
\* first selecting layer on, in stage "decoding", and after a prompt of one always.
Stages ==
  /\ ~OneToken => stage = "prefill"
  /\ prompt = 1 => stage = "decoding"
  /\ OneToken /\ (\E s \in SelectLayers : s < layer) => stage = "decoding"

\* Tails are for offloaded layers and decoding.
Tails == \A l \in Layer : ~Offloaded(l) \/ stage = "prefill" => tail_k[l] = <<>>

\* What a layer has fed to it is what it keeps.
Retained ==
  \A l \in Layer :
    key_cache[l] \o tail_k[l] = TokenRange(1, IF l < layer THEN tokens ELSE fed)

\* The layer has run in this generation.
Started(l) == tokens > 0 /\ (l < layer \/ fed > 0)

\* What a layer has counted of a prompt of two tokens or more.
Counted ==
  \A l \in Layer :
    /\ prompt >= 2 /\ Started(l) =>
         /\ ~OneToken => prefill_len[l] = IF l < layer THEN tokens ELSE fed
         /\ OneToken => prompt - 1 <= prefill_len[l] /\ prefill_len[l] <= fed
         /\ Offloaded(l) => Len(key_cache[l]) = prefill_len[l]
         /\ WindowSize > 0 /\ l \in SelectLayers => decode_step[l] >= 1
    /\ Accumulates /\ ~Started(l) => prefill_len[l] = 0

\* All layers have counted the same prompt.
CountsAgree ==
  OneToken /\ prompt >= 2 => \A l, m \in Layer : prefill_len[l] = prefill_len[m]

CacheInv == Types /\ Feeding /\ Stages /\ Tails /\ Retained /\ Counted /\ CountsAgree

-----------------------------------------------------------------------------
(***************************************************************************)
(* A stronger one, from which SelectionInRange, FreshSelection,            *)
(* AttendedExactly and TypeOK follow.                                      *)
(***************************************************************************)
SeenTypes ==
  /\ generation \in 0..MaxGenerations
  /\ part_key \in [Layer -> SUBSET (1..MaxToken)] /\ idx \subseteq Int
  /\ chosen \in [SelectLayers -> SUBSET Int]
  /\ attended \in [part : SUBSET (1..MaxToken), rest : Seq(1..MaxToken)]
  /\ prefill_len \in [Layer -> 0..MaxPrompt]

\* Only tokens of the prompt are fed several at a time, and counted.
PromptBounds ==
  /\ stage \in {"prefill", "decoding"}
  /\ ~OneToken => tokens <= prompt
  /\ OneToken /\ prompt >= 2 => \A l \in Layer : prefill_len[l] <= prompt

\* A selecting layer's decode_step is the number of the token after its prompt.
WindowCounted ==
  \A s \in SelectLayers :
    WindowSize > 0 /\ prompt >= 2 /\ Started(s) =>
      decode_step[s] = IF ~OneToken THEN 1
                       ELSE tokens - prefill_len[s] + (IF s < layer THEN 1 ELSE 0)

\* Too few tokens: no offloaded layer has run on one token, for there is no part of this
\* generation, or the choice has an index below 1, and nothing else ends a generation.
Shorts ==
  /\ prompt = 1 /\ fed = 0 => idx = {} /\ \A l \in Layer : part_key[l] = {}
  /\ prompt = 1 /\ fed > 0 => \A l \in Layer : ~Offloaded(l)
  /\ OneToken /\ Short => \A l \in Layer : l < layer => ~Offloaded(l)
  /\ OneToken /\ prompt >= 2 /\ Short => \A s \in SelectLayers : s < layer =>
       IF Packed THEN Group(s) = {} ELSE \E x \in idx : x < 1
  /\ raised => Short

\* A selecting layer that has run on this token has chosen tokens of its prompt, the
\* window's among them, and its group has them: each layer its part, or the cache the
\* indices until the next selecting layer.
SelectedSoFar ==
  OneToken /\ ~Short => \A s \in SelectLayers : s < layer =>
    /\ chosen[s] # {} /\ chosen[s] \subseteq 1..prefill_len[s]
    /\ \A t \in 1..prefill_len[s] : t > tokens - WindowSize => t \in chosen[s]
    /\ Packed => \A i \in Group(s) : part_key[i] = chosen[s]
    /\ ~Packed => idx = chosen[s] \/ \E r \in SelectLayers : s < r /\ r < layer

\* What an offloaded layer has just attended to.
SparselyAttended ==
  SparseAttention =>
    \A s \in SelectLayers : IsLeft(s, layer - 1) =>
      attended = [part |-> chosen[s], rest |-> TokenRange(prefill_len[s] + 1, tokens)]

\* What the last layer attended to: some tokens, and a range of later ones.
AttendedInOrder ==
  \E a, b \in 0..MaxToken :
    /\ a <= b /\ attended.part \subseteq 1..a
    /\ attended.rest = TokenRange(a + 1, b)

SelectInv == /\ CacheInv /\ SeenTypes /\ PromptBounds /\ WindowCounted
             /\ Shorts /\ SelectedSoFar /\ SparselyAttended

\* NothingTwice holds between two forwards as well.
AttendInv == SelectInv /\ AttendedInOrder

=============================================================================

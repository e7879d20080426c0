-------------------------------- MODULE InfLLM --------------------------------
(***************************************************************************)
(* The context memory of the InfLLM baseline (ContextManager) for one      *)
(* layer and one unit; units do the same side by side.                     *)
(*                                                                         *)
(* The entries of old tokens leave the local window for the first n_init   *)
(* places (attention sinks) or for blocks in CPU memory.  An input is run  *)
(* in execution blocks of exc_block_size tokens.  Each chooses topk of the *)
(* memory blocks, brings them to the GPU through an LRU cache of           *)
(* max_cached_block units, puts them with the sinks and the tokens that    *)
(* left the window but are in no block yet (the remainder) into one        *)
(* buffer, and attends to the window and to the buffer.                    *)
(*                                                                         *)
(* An entry is the number of its token, 1 for the first.  The scores that  *)
(* choose blocks are left out: any topk blocks may be chosen.              *)
(***************************************************************************)
EXTENDS Integers, SequencesExt

CONSTANTS
  n_init, n_local, block_size, topk, max_cached_block, exc_block_size,
  cache_strategy,       (* "lru" or "lru-s"                                       *)
  TopkChunk,            (* execution blocks per choice of blocks: chunk_topk_calc *)
                        (* in exc_block_size, 1 if it is None                     *)
  MaxLen, InputLens     (* bounds: tokens in all; lengths an input may have       *)

ASSUME InfLLMAssumption ==
  /\ {n_init, n_local, block_size, topk, max_cached_block, exc_block_size,
      TopkChunk, MaxLen} \subseteq Nat
  /\ {block_size, topk, exc_block_size, TopkChunk} \subseteq Nat \ {0}
  /\ exc_block_size <= n_local
  /\ topk <= max_cached_block
  /\ cache_strategy \in {"lru", "lru-s"}
  /\ InputLens \subseteq Nat \ {0}

VARIABLES
  length,             \* tokens of the inputs handled before this one
  input, todo,        \* tokens of this input, those not executed yet
  at,                 \* "idle" or "exec": in the loop of append
  local_k,            \* the entries kept for the window
  remainder,          \* global_remainder: entries on their way to a block
  remainder_st, remainder_ed,   \* _global_remainder_st, _ed
  local_score,        \* per place of remainder: the tokens whose score it has
  init_k,             \* the sinks
  global_blocks,      \* the entries of each memory block
  cached_blocks,      \* per cached block: when it was last chosen
  load_count,
  resident, idle,     \* blocks with GPU data, units in CudaCache.idle_set
  known,              \* blocks that existed when the current choice was made
  buffer,             \* global_buffer: the entry at each place, 0 if none
  slots,              \* global_buffer_block_id_list: block of each slot, 0 if none
  init_st, init_ed,   \* global_buffer_init_st, _ed
  seen                \* what the last execution block attended to

inputVars  == <<length, input, todo, at, local_k>>
remVars    == <<remainder, remainder_st, remainder_ed, local_score, init_k, global_blocks>>
cacheVars  == <<cached_blocks, load_count, resident, idle, known>>
bufferVars == <<buffer, slots, init_st, init_ed, seen>>
vars == <<inputVars, remVars, cacheVars, bufferVars>>

AtMost(a, b)  == IF a <= b THEN a ELSE b
AtLeast(a, b) == IF a >= b THEN a ELSE b
LastOf(s, n)  == SubSeq(s, AtLeast(Len(s) - n, 0) + 1, Len(s))
Slot          == 1..topk
BufferLen     == topk * block_size + exc_block_size + block_size + n_init

Init ==
  /\ length = 0 /\ input = 0 /\ todo = 0 /\ at = "idle"
  /\ local_k = <<>> /\ remainder = <<>> /\ remainder_st = 0 /\ remainder_ed = 0
  /\ local_score = <<>> /\ init_k = <<>> /\ global_blocks = <<>>
  /\ cached_blocks = <<>> /\ load_count = 0
  /\ resident = {} /\ idle = max_cached_block /\ known = 0
  /\ buffer = [p \in 1..BufferLen |-> 0] /\ slots = [j \in Slot |-> 0]
  /\ init_st = 0 /\ init_ed = 0
  /\ seen = <<>>

\* append, up to the loop: the input is added to the window and to the remainder.
Append_(n) ==
  /\ at = "idle" /\ length + n <= MaxLen
  /\ LET new == [i \in 1..n |-> length + i]
     IN  /\ local_k' = local_k \o new
         /\ remainder' = remainder \o new
         /\ local_score' = local_score \o [i \in 1..n |-> {}]
  /\ remainder_st' = 0 /\ remainder_ed' = Len(remainder)
  /\ input' = n /\ todo' = n /\ at' = "exec"
  /\ UNCHANGED <<length, init_k, global_blocks, cacheVars, bufferVars>>

-----------------------------------------------------------------------------
(***************************************************************************)
(* _append: what one execution block chooses, loads and attends to.        *)
(***************************************************************************)
LenQ     == AtMost(exc_block_size, todo)
Query(i) == length + (input - todo) + i
NumBlocks == Len(global_blocks)

LocalK ==
  SubSeq(local_k, AtLeast(Len(local_k) - todo - n_local, 0) + 1, Len(local_k) - todo + LenQ)

\* The sliding window over the local keys, for the i-th query.
LocalSeen(i) ==
  {LocalK[j] : j \in {k \in 1..Len(LocalK) : i - k + Len(LocalK) - LenQ \in 0..(n_local - 1)}}

\* get_batched_topk is called before the first execution block of each chunk,
\* calc_block_topk (TopkChunk = 1) before every one.
KnownNow ==
  IF (input - todo) % (TopkChunk * exc_block_size) = 0 THEN NumBlocks ELSE known

BlockTopk == IF KnownNow <= topk THEN {1..KnownNow} ELSE kSubset(topk, 1..KnownNow)

Removable(chosen) == DOMAIN cached_blocks \ chosen

NumRemove(chosen) ==
  Cardinality(DOMAIN cached_blocks) - max_cached_block
    + Cardinality(chosen \ DOMAIN cached_blocks)

\* The order of remove_lru_blocks.  The scores of lru-s leave any order open.
OldestFirst(removed, rest) ==
  cache_strategy = "lru" =>
    \A r \in removed, k \in rest : cached_blocks[r] <= cached_blocks[k]

Victims(chosen) ==
  LET spare == Removable(chosen)
      n     == AtMost(AtLeast(NumRemove(chosen), 0), Cardinality(spare))
  IN  {removed \in kSubset(n, spare) : OldestFirst(removed, spare \ removed)}

\* The chosen blocks that have no slot take, in order, the slots that hold none
\* of the chosen ones.
Fresh(chosen) == chosen \ {slots[j] : j \in Slot}

SlotsAfter(chosen) ==
  LET fresh == SetToSortSeq(Fresh(chosen), <)
      free  == SetToSortSeq({j \in Slot : slots[j] \notin chosen}, <)
  IN  [j \in Slot |-> IF \E n \in 1..Len(fresh) : free[n] = j
                      THEN fresh[CHOOSE n \in 1..Len(fresh) : free[n] = j]
                      ELSE slots[j]]

\* Mutant: only the tokens that will leave the window for good are copied.
RemainderLenShort == AtLeast(remainder_ed - remainder_st - n_local, 0)

\* Tokens of the remainder outside the window of the last query.
RemainderLen == AtLeast(remainder_ed - remainder_st + LenQ - n_local, 0)

\* Mutant: the sinks are copied only when their number changes.
CopiesInitIfGrown(st, ed) == init_ed - init_st # ed - st

CopiesInit(st, ed) == init_st # st \/ init_ed # ed

\* The places of the buffer once the fresh blocks, the sinks (if they moved) and
\* the remainder are copied, in this order.
BufferAfter(chosen) ==
  LET st  == Cardinality(chosen) * block_size
      ed  == st + Len(init_k)
      new == SlotsAfter(chosen)
  IN  [p \in 1..BufferLen |->
         IF p \in (ed + 1)..(ed + RemainderLen) THEN remainder[remainder_st + p - ed]
         ELSE IF p \in (st + 1)..ed /\ CopiesInit(st, ed) THEN init_k[p - st]
         ELSE LET j == (p - 1) \div block_size + 1
              IN  IF j \in Slot /\ new[j] \in Fresh(chosen)
                  THEN global_blocks[new[j]][((p - 1) % block_size) + 1]
                  ELSE buffer[p]]

\* The offset of sliding_window in get_global_hidden_and_mask.
MaskOffset(ed) == Len(remainder) + ed

\* The places of the buffer that the i-th query attends to.
GlobalSeen(i, chosen) ==
  LET ed == Cardinality(chosen) * block_size + Len(init_k)
  IN  {p \in 1..(ed + RemainderLen) : i - p + MaskOffset(ed) >= n_local}

-----------------------------------------------------------------------------
(***************************************************************************)
(* append_global: what leaves the window goes to the sinks, then to blocks.*)
(***************************************************************************)

InitGain ==
  AtLeast(AtMost(n_init - Len(init_k), remainder_ed + LenQ - remainder_st - n_local), 0)

NewBlocks ==
  AtLeast((remainder_ed + LenQ - remainder_st - InitGain - n_local) \div block_size, 0)

BlocksFrom == remainder_st + InitGain

\* The scores of the local keys are added at the last places executed so far.
ScoreEnd == remainder_ed + LenQ

AppendGlobal ==
  LET added == LastOf(LocalK, LenQ + n_local)
      first == ScoreEnd - Len(added) + 1
  IN  /\ local_score' =
           [p \in 1..Len(local_score) |->
              IF p \in first..ScoreEnd THEN local_score[p] \cup {added[p - first + 1]}
                                       ELSE local_score[p]]
      /\ init_k' = init_k \o SubSeq(remainder, remainder_st + 1, remainder_st + InitGain)
      /\ global_blocks' =
           global_blocks \o [b \in 1..NewBlocks |->
             SubSeq(remainder, BlocksFrom + (b - 1) * block_size + 1,
                               BlocksFrom + b * block_size)]
      /\ remainder_st' = BlocksFrom + NewBlocks * block_size
      /\ remainder_ed' = remainder_ed + LenQ
      /\ UNCHANGED remainder

\* One execution block: _append, then append_global.
ExecBlock ==
  /\ at = "exec" /\ todo > 0
  /\ \E chosen \in BlockTopk : \E removed \in Victims(chosen) :
       /\ load_count' = load_count + 1
       /\ cached_blocks' = [b \in (DOMAIN cached_blocks \ removed) \cup chosen |->
                              IF b \in chosen THEN load_count + 1 ELSE cached_blocks[b]]
       /\ resident' = (resident \ removed) \cup Fresh(chosen)
       /\ idle' = idle + Cardinality(removed)
                       - Cardinality(Fresh(chosen) \ (resident \ removed))
       /\ slots' = SlotsAfter(chosen)
       /\ buffer' = BufferAfter(chosen)
       /\ init_st' = Cardinality(chosen) * block_size
       /\ init_ed' = init_st' + Len(init_k)
       /\ seen' = [i \in 1..LenQ |->
                     [query |-> Query(i), local |-> LocalSeen(i),
                      global |-> GlobalSeen(i, chosen), chosen |-> chosen, blocks |-> NumBlocks]]
  /\ known' = KnownNow
  /\ AppendGlobal
  /\ todo' = todo - LenQ
  /\ UNCHANGED <<length, input, at, local_k>>

\* The end of append: the window and the remainder are cut to what they need.
EndAppend ==
  /\ at = "exec" /\ todo = 0
  /\ length' = length + input
  /\ local_k' = LastOf(local_k, n_local)
  /\ remainder' = SubSeq(remainder, remainder_st + 1, Len(remainder))
  /\ local_score' = SubSeq(local_score, remainder_st + 1, Len(local_score))
  /\ remainder_st' = 0 /\ remainder_ed' = Len(remainder')
  /\ at' = "idle"
  /\ UNCHANGED <<input, todo, init_k, global_blocks, cacheVars, bufferVars>>

Next == (\E n \in InputLens : Append_(n)) \/ ExecBlock \/ EndAppend

Spec == Init /\ [][Next]_vars

-----------------------------------------------------------------------------
(***************************************************************************)
(* Properties                                                              *)
(***************************************************************************)
TokenSet(s) == {s[i] : i \in 1..Len(s)}

\* The values the variables take.  idle is a natural number: CudaCache.alloc
\* never finds its idle set empty.
TypeOK ==
  /\ length \in 0..MaxLen /\ input \in Nat /\ todo \in 0..input
  /\ at \in {"idle", "exec"}
  /\ {remainder_st, remainder_ed} \subseteq 0..Len(remainder)
  /\ Len(local_score) = Len(remainder)
  /\ Len(init_k) <= n_init
  /\ \A b \in 1..NumBlocks : Len(global_blocks[b]) = block_size
  /\ resident \subseteq 1..NumBlocks /\ idle \in 0..max_cached_block
  /\ known \in 0..NumBlocks
  /\ slots \in [Slot -> 0..NumBlocks]
  /\ buffer \in [1..BufferLen -> 0..MaxLen]

\* The dict of cached blocks, which decides about removal, and the blocks that
\* have GPU memory are the same, though a block that is in the buffer already is
\* not loaded again; offload's assertion holds, and no unit is lost.
CachedIsResident ==
  /\ DOMAIN cached_blocks = resident
  /\ idle + Cardinality(resident) = max_cached_block

\* The buffer, of which only what changed is copied, holds the chosen blocks, the
\* sinks and nothing stale at the places the queries attend to; it is long enough.
BufferIsFresh ==
  \A i \in 1..Len(seen) :
    LET chosen == seen[i].chosen
        held   == {buffer[p] : p \in seen[i].global}
    IN  /\ init_st = Cardinality(chosen) * block_size
        /\ {slots[j] : j \in 1..Cardinality(chosen)} = chosen
        /\ \A b \in chosen : TokenSet(global_blocks[b]) \subseteq held
        /\ \A p \in seen[i].global : p <= BufferLen /\ buffer[p] # 0
        /\ \A p, q \in seen[i].global : buffer[p] = buffer[q] => p = q

\* A query attends to every token before it, itself included, but those of the
\* blocks that were not chosen, and to no later one: as long as topk blocks are
\* enough, InfLLM is full attention.
NothingElseMissed ==
  \A i \in 1..Len(seen) :
    seen[i].local \cup {buffer[p] : p \in seen[i].global}
      = (1..seen[i].query) \ UNION {TokenSet(global_blocks[b]) :
                                      b \in 1..seen[i].blocks \ seen[i].chosen}

\* "no global token in input": the global part holds no token of the execution
\* block that attends to it.
NoInputTokenGlobal ==
  \A i \in 1..Len(seen) : \A p \in seen[i].global : buffer[p] < seen[1].query

\* The complement window masks nothing of the remainder: a token is attended to
\* both locally and globally only while it leaves the windows of the queries of
\* one execution block, and never by the last query (nor in decoding).
TwiceOnlyInBlock ==
  \A i \in 1..Len(seen) :
    \A p \in seen[i].global :
      buffer[p] \in seen[i].local => buffer[p] <= seen[Len(seen)].query - n_local

\* The scores that choose the representatives of a block are those of its tokens,
\* and every token of a block has one.
ScoresAligned ==
  \A p \in 1..Len(remainder) :
    /\ local_score[p] \subseteq {remainder[p]}
    /\ p \in (remainder_st + 1)..remainder_ed => local_score[p] = {remainder[p]}

=============================================================================

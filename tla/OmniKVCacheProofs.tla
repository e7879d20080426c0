------------------------- MODULE OmniKVCacheProofs --------------------------
(***************************************************************************)
(* Theorems about OmniKVCache, for every number of layers and every        *)
(* setting that satisfies CacheAssumption.                                 *)
(***************************************************************************)
EXTENDS OmniKVCache, SequenceTheorems, FiniteSetTheorems, TLAPS

-----------------------------------------------------------------------------
(***************************************************************************)
(* Ranges of tokens                                                        *)
(***************************************************************************)

\* A range of tokens is a sequence, as long as its bounds say.
LEMMA RangeIsSeq ==
  ASSUME NEW from \in Nat, NEW to \in Nat, from <= to + 1
  PROVE  /\ TokenRange(from, to) \in Seq(Nat)
         /\ Len(TokenRange(from, to)) = to - from + 1
         /\ \A i \in 1..(to - from + 1) : TokenRange(from, to)[i] = from + i - 1
<1> DEFINE n == to - from + 1
           r == [i \in 1..n |-> from + i - 1]
<1>1. n \in Nat
  OBVIOUS
<1>2. \A i \in 1..n : from + i - 1 \in Nat
  OBVIOUS
<1>3. r \in [1..n -> Nat]
  BY <1>2
<1>4. r \in Seq(Nat)
  BY <1>1, <1>3, SeqDef
<1>5. Len(r) = n
  BY <1>1, <1>4, LenProperties
<1>6. QED
  BY <1>4, <1>5 DEF TokenRange

\* A range that starts with the first token.
LEMMA RangeFromOne ==
  ASSUME NEW to \in Nat
  PROVE  /\ TokenRange(1, to) \in Seq(Nat) /\ Len(TokenRange(1, to)) = to
         /\ \A i \in 1..to : TokenRange(1, to)[i] = i
<1>1. 1 \in Nat /\ 1 <= to + 1 /\ to - 1 + 1 = to
  OBVIOUS
<1>2. /\ TokenRange(1, to) \in Seq(Nat) /\ Len(TokenRange(1, to)) = to - 1 + 1
      /\ \A i \in 1..(to - 1 + 1) : TokenRange(1, to)[i] = 1 + i - 1
  BY <1>1, RangeIsSeq
<1>3. \A i \in 1..to : 1 + i - 1 = i
  OBVIOUS
<1>4. QED
  BY <1>1, <1>2, <1>3

\* The tokens fed before, followed by those fed now, are the tokens fed.
LEMMA RangeExtends ==
  ASSUME NEW before \in Nat, NEW after \in Nat, before <= after
  PROVE  /\ TokenRange(before + 1, after) \in Seq(Nat)
         /\ Len(TokenRange(before + 1, after)) = after - before
         /\ TokenRange(1, before) \o TokenRange(before + 1, after) = TokenRange(1, after)
<1> DEFINE a == TokenRange(1, before)
           b == TokenRange(before + 1, after)
           c == TokenRange(1, after)
<1>1. /\ a \in Seq(Nat) /\ Len(a) = before
      /\ \A i \in 1..before : a[i] = i
  BY RangeFromOne
<1>2. /\ b \in Seq(Nat) /\ Len(b) = after - before
      /\ \A i \in 1..(after - before) : b[i] = before + i
  <2>1. before + 1 \in Nat /\ before + 1 <= after + 1
    OBVIOUS
  <2>2. after - (before + 1) + 1 = after - before
    OBVIOUS
  <2>3. /\ b \in Seq(Nat) /\ Len(b) = after - (before + 1) + 1
        /\ \A i \in 1..(after - (before + 1) + 1) : b[i] = before + 1 + i - 1
    BY <2>1, RangeIsSeq
  <2>4. \A i \in Nat : before + 1 + i - 1 = before + i
    OBVIOUS
  <2> HIDE DEF b
  <2>5. QED
    BY <2>2, <2>3, <2>4
<1>3. /\ c \in Seq(Nat) /\ Len(c) = after
      /\ \A i \in 1..after : c[i] = i
  BY RangeFromOne
<1> HIDE DEF a, b, c
<1>4. /\ a \o b \in Seq(Nat) /\ Len(a \o b) = after
      /\ \A i \in 1..after : (a \o b)[i] = IF i <= before THEN a[i] ELSE b[i - before]
  <2>1. Len(a) + Len(b) = after
    BY <1>1, <1>2
  <2>2. QED
    BY <1>1, <1>2, <2>1, ConcatProperties
<1>5. ASSUME NEW i \in 1..after PROVE (a \o b)[i] = c[i]
  <2>1. CASE i <= before
    <3>1. (a \o b)[i] = a[i]
      BY <1>4, <2>1
    <3>2. a[i] = i
      BY <1>1, <2>1
    <3>3. c[i] = i
      BY <1>3
    <3>4. QED
      BY <3>1, <3>2, <3>3
  <2>2. CASE ~(i <= before)
    <3>1. i - before \in 1..(after - before) /\ before + (i - before) = i
      BY <2>2
    <3>2. b[i - before] = i
      BY <1>2, <3>1
    <3>3. (a \o b)[i] = b[i - before]
      BY <1>4, <2>2
    <3>4. c[i] = i
      BY <1>3
    <3>5. QED
      BY <3>2, <3>3, <3>4
  <2>3. QED
    BY <2>1, <2>2
<1>6. a \o b = c
  BY <1>3, <1>4, <1>5, SeqEqual
<1>7. QED
  BY <1>2, <1>6 DEF a, b, c

\* Three pieces in a row.
LEMMA ConcatThree ==
  \A r, s, t \in Seq(Nat) : r \o (s \o t) = (r \o s) \o t
<1> TAKE r, s, t \in Seq(Nat)
<1> DEFINE left  == r \o (s \o t)
           right == (r \o s) \o t
<1>1. /\ r \o s \in Seq(Nat) /\ Len(r \o s) = Len(r) + Len(s)
      /\ s \o t \in Seq(Nat) /\ Len(s \o t) = Len(s) + Len(t)
  OBVIOUS
<1>2. /\ left \in Seq(Nat) /\ Len(left) = Len(r) + Len(s) + Len(t)
      /\ right \in Seq(Nat) /\ Len(right) = Len(r) + Len(s) + Len(t)
  BY <1>1
<1>3. \A i \in 1..Len(left) : left[i] = right[i]
  BY <1>1
<1>4. left = right
  <2> HIDE DEF left, right
  <2> QED
    BY <1>2, <1>3, SeqEqual
<1> QED
  BY <1>4 DEF left, right

\* No tokens.
LEMMA RangeEmpty == TokenRange(1, 0) = <<>>
<1>1. TokenRange(1, 0) \in Seq(Nat) /\ Len(TokenRange(1, 0)) = 0
  BY RangeIsSeq
<1>2. QED
  BY <1>1, EmptySeq

-----------------------------------------------------------------------------
(***************************************************************************)
(* Layers                                                                  *)
(***************************************************************************)

\* A selecting layer is full.
LEMMA SelectingIsFull ==
  ASSUME NEW s \in SelectLayers
  PROVE  s \in Layer /\ ~Offloaded(s)
<1>1. s \in Layer /\ FullAttn(s)
  BY CacheAssumption DEF Layer, FullAttn
<1>2. ASSUME NEW f \in Layer, IsLeft(f, s) PROVE ~(s > f + NumWait)
  BY <1>1, <1>2, CacheAssumption DEF IsLeft, Layer
<1>3. QED
  BY <1>1, <1>2 DEF Offloaded

\* Some selecting layer is before an offloaded one.
LEMMA OffloadedAfterSelecting ==
  ASSUME NEW l \in Layer, Offloaded(l)
  PROVE  \E s \in SelectLayers : s < l
<1>1. PICK f \in Layer : IsLeft(f, l) /\ l > f + NumWait
  BY DEF Offloaded
<1>2. f < l
  BY <1>1, CacheAssumption DEF Layer
<1>3. SelectLayers \subseteq Layer
  BY CacheAssumption DEF Layer
<1>4. ~FullAttn(l)
  BY <1>1, <1>2, CacheAssumption DEF IsLeft, Layer
<1>5. PICK s \in SelectLayers : ~(l < s)
  BY <1>4 DEF FullAttn
<1>6. s # l
  BY <1>4 DEF FullAttn
<1>7. QED
  BY <1>3, <1>5, <1>6, CacheAssumption DEF Layer

-----------------------------------------------------------------------------
(***************************************************************************)
(* The inductive invariant                                                 *)
(***************************************************************************)

\* The constants, as the proofs use them.
LEMMA Constants ==
  /\ NumLayers \in Nat /\ NumLayers > 0 /\ Layer = 0..(NumLayers - 1)
  /\ NumLayers \notin Layer /\ SelectLayers \subseteq Layer
  /\ ChunkSize \in Nat /\ ChunkSize >= 2
  /\ MaxPrompt \in Nat /\ MaxDecode \in Nat /\ WindowSize \in Nat
BY CacheAssumption DEF Layer

\* It holds of the initial state.
LEMMA CacheInvInit == Init => CacheInv
<1> SUFFICES ASSUME Init PROVE CacheInv
  OBVIOUS
<1> USE DEF Init
<1>1. <<>> \in Seq(Nat)
  BY EmptySeq
<1>2. Types
  <2>1. raised \in BOOLEAN
    OBVIOUS
  <2>2. QED
    BY <1>1, <2>1, Constants DEF Types
<1>3. Feeding /\ Stages /\ CountsAgree
  BY DEF Feeding, Stages, CountsAgree, OneToken
<1>4. Tails
  BY DEF Tails
<1>5. Retained
  <2>1. <<>> \o <<>> = <<>>
    BY <1>1, ConcatEmptySeq
  <2>2. QED
    BY <2>1, RangeEmpty DEF Retained
<1>6. Counted
  BY DEF Counted, Started
<1>7. QED
  BY <1>2, <1>3, <1>4, <1>5, <1>6 DEF CacheInv

\* A new prompt starts from an empty cache and from no count.
LEMMA NewPromptKeeps ==
  ASSUME CacheInv, NEW n \in 1..MaxPrompt, NewPrompt(n)
  PROVE  CacheInv'
<1> USE DEF NewPrompt
<1>1. <<>> \in Seq(Nat)
  BY EmptySeq
<1>2. /\ n \in Nat /\ n >= 1 /\ n <= MaxPrompt
      /\ tokens' \in Nat /\ tokens' >= 1 /\ tokens' <= n /\ tokens' <= ChunkSize
      /\ tokens' < n => tokens' = ChunkSize
      /\ n >= 2 => tokens' >= 2
      /\ fed' = 0 /\ prompt' = n /\ layer' = 0 /\ raised' = FALSE
  BY Constants DEF AtMost
<1>3. /\ OneToken' <=> n = 1
      /\ \A l \in Layer : ~(l < layer')
  BY <1>2, Constants DEF OneToken
<1>4. Types'
  <2>1. prefill_len' \in [Layer -> Nat] /\ decode_step' \in [Layer -> Nat]
    BY DEF CacheInv, Types, PrefillLenAtStart
  <2>2. /\ key_cache' \in [Layer -> Seq(Nat)] /\ tail_k' \in [Layer -> Seq(Nat)]
    BY <1>1
  <2>3. layer' \in 0..NumLayers /\ prompt' \in 0..MaxPrompt
        /\ fed' \in Nat /\ tokens' \in 0..(prompt' + MaxDecode) /\ raised' \in BOOLEAN
    BY <1>2, Constants
  <2>4. QED
    BY <2>1, <2>2, <2>3 DEF Types
<1>5. Feeding'
  <2>1. tokens' < prompt' => Accumulates /\ ~OneToken'
    BY <1>2, <1>3, CacheAssumption
  <2>2. fed' < tokens' /\ prompt' >= 1 /\ fed' = 0 /\ (prompt' = 1 => OneToken')
    BY <1>2, <1>3
  <2>3. QED
    BY <1>2, <2>1, <2>2 DEF Feeding
<1>6. Stages' /\ CountsAgree'
  <2>1. \A s \in SelectLayers : ~(s < layer')
    BY <1>3, Constants
  <2>2. prompt' = n /\ n \in Nat /\ (n >= 2 => ~OneToken')
    BY <1>2, <1>3
  <2>3. stage' = IF n = 1 THEN "decoding" ELSE "prefill"
    OBVIOUS
  <2>4. QED
    BY <1>3, <2>1, <2>2, <2>3 DEF Stages, CountsAgree
<1>7. Tails'
  BY DEF Tails
<1>8. Retained'
  <2>1. <<>> \o <<>> = <<>>
    BY <1>1, ConcatEmptySeq
  <2>2. QED
    BY <1>3, <2>1, RangeEmpty DEF Retained
<1>9. Counted'
  <2>1. \A l \in Layer : ~Started(l)'
    BY <1>3 DEF Started
  <2>2. Accumulates => \A l \in Layer : prefill_len'[l] = 0
    BY DEF PrefillLenAtStart
  <2>3. QED
    BY <2>1, <2>2 DEF Counted
<1>10. QED
  BY <1>4, <1>5, <1>6, <1>7, <1>8, <1>9 DEF CacheInv

\* The next chunk of a prompt, or the next token, starts at the first layer.
LEMMA NextForwardKeeps ==
  ASSUME CacheInv, NextChunk \/ NextToken
  PROVE  CacheInv'
<1> USE DEF CacheInv
<1>1. /\ layer = NumLayers /\ layer' = 0 /\ fed' = tokens
      /\ tokens > 0 /\ tokens' \in Nat /\ tokens < tokens'
      /\ tokens' <= prompt + MaxDecode
      /\ UNCHANGED <<prompt, raised, key_cache, tail_k, layerVars>>
  <2>1. CASE NextChunk
    <3>1. /\ layer = NumLayers /\ layer' = 0 /\ fed' = tokens
          /\ UNCHANGED <<prompt, raised, key_cache, tail_k, layerVars>>
      BY <2>1 DEF NextChunk, cacheVars, layerVars
    <3>2. tokens \in Nat /\ prompt \in Nat /\ tokens < prompt /\ tokens > 0
      BY <2>1 DEF NextChunk, Types, Feeding
    <3>3. tokens' \in Nat /\ tokens < tokens' /\ tokens' <= prompt
      BY <2>1, <3>2, Constants DEF NextChunk, AtMost
    <3>4. QED
      BY <3>1, <3>2, <3>3, Constants
  <2>2. CASE NextToken
    <3>1. /\ layer = NumLayers /\ layer' = 0 /\ fed' = tokens
          /\ UNCHANGED <<prompt, raised, key_cache, tail_k, layerVars>>
      BY <2>2 DEF NextToken, layerVars
    <3>2. tokens \in Nat /\ prompt \in Nat /\ tokens < prompt + MaxDecode /\ tokens > 0
      BY <2>2 DEF NextToken, Types, Feeding
    <3>3. tokens' = tokens + 1
      BY <2>2 DEF NextToken
    <3>4. QED
      BY <3>1, <3>2, <3>3, Constants
  <2>3. QED
    BY <2>1, <2>2
<1>2. /\ tokens \in Nat /\ tokens >= 1 /\ fed < tokens /\ fed \in Nat /\ prompt \in Nat /\ prompt <= MaxPrompt
      /\ prompt >= 1 /\ ~raised
  BY <1>1, Constants DEF Feeding, Types
<1>3. /\ tokens < prompt => ~OneToken
      /\ tokens' < prompt => ~OneToken' /\ Accumulates
      /\ ~OneToken' => Accumulates /\ stage' = "prefill" /\ stage = "prefill"
      /\ OneToken' => tokens' >= prompt
      /\ prompt = 1 => OneToken' /\ stage' = "decoding"
  <2>1. CASE NextChunk
    <3>1. tokens < prompt /\ Accumulates /\ ~OneToken /\ stage = "prefill" /\ stage' = stage
      BY <1>1, <2>1 DEF NextChunk, Feeding, Stages, cacheVars
    <3>2. tokens' = prompt \/ tokens' = tokens + ChunkSize
      BY <1>2, <2>1, Constants DEF NextChunk, AtMost
    <3>3. tokens' = tokens + ChunkSize => ~OneToken'
      BY <1>1, <1>2, Constants DEF OneToken
    <3>4. prompt # 1
      BY <1>2, <2>1 DEF NextChunk
    <3>5. QED
      BY <1>1, <1>2, <3>1, <3>2, <3>3, <3>4
  <2>2. CASE NextToken
    BY <1>1, <1>2, <2>2, Constants DEF NextToken, OneToken
  <2>3. QED
    BY <2>1, <2>2
<1>4. \A l \in Layer : l < layer /\ ~(l < layer')
  BY <1>1, Constants
<1>5. Types'
  BY <1>1, <1>2, Constants DEF Types, layerVars
<1>6. Feeding'
  BY <1>1, <1>2, <1>3 DEF Feeding
<1>7. Stages'
  <2>1. \A s \in SelectLayers : ~(s < layer')
    BY <1>4, Constants
  <2>2. QED
    BY <1>1, <1>3, <2>1 DEF Stages
<1>8. Tails'
  <2>1. stage' = "prefill" => stage = "prefill"
    BY DEF NextChunk, NextToken, cacheVars
  <2>2. QED
    BY <1>1, <2>1 DEF Tails
<1>9. Retained'
  BY <1>1, <1>4 DEF Retained
<1>10. Counted'
  <2> SUFFICES ASSUME NEW l \in Layer, prompt >= 2
               PROVE  /\ ~OneToken' => prefill_len[l] = tokens
                      /\ OneToken' => prompt - 1 <= prefill_len[l] /\ prefill_len[l] <= tokens
                      /\ Offloaded(l) => Len(key_cache[l]) = prefill_len[l]
                      /\ WindowSize > 0 /\ l \in SelectLayers => decode_step[l] >= 1
    <3>1. /\ prefill_len' = prefill_len /\ decode_step' = decode_step
          /\ key_cache' = key_cache /\ fed' = tokens /\ prompt' = prompt
      BY <1>1 DEF layerVars
    <3>2. \A l \in Layer : ~(l < layer') /\ (Started(l)' <=> TRUE)
      BY <1>1, <1>2, <1>4 DEF Started
    <3>3. QED
      BY <3>1, <3>2 DEF Counted
  <2>1. Started(l) /\ prefill_len[l] \in Nat
    BY <1>1, <1>4 DEF Started, Types
  <2>2. ~OneToken => prefill_len[l] = tokens
    BY <1>4, <2>1 DEF Counted
  <2>3. OneToken => prompt - 1 <= prefill_len[l] /\ prefill_len[l] <= fed
    BY <2>1 DEF Counted
  <2>4. /\ Offloaded(l) => Len(key_cache[l]) = prefill_len[l]
        /\ WindowSize > 0 /\ l \in SelectLayers => decode_step[l] >= 1
    BY <2>1 DEF Counted
  <2>5. ~OneToken' => ~OneToken
    BY <1>3, <1>2 DEF NextChunk, NextToken, Feeding, OneToken
  <2>6. OneToken' => prompt - 1 <= tokens
    BY <1>1, <1>2, <1>3 DEF OneToken
  <2>7. QED
    BY <1>1, <1>2, <2>1, <2>2, <2>3, <2>4, <2>5, <2>6
<1>11. CountsAgree'
  <2>1. ASSUME NEW l \in Layer, ~OneToken, prompt >= 2 PROVE prefill_len[l] = tokens
    BY <1>1, <1>4, <2>1 DEF Counted, Started
  <2>2. prompt >= 2 => \A l, m \in Layer : prefill_len[l] = prefill_len[m]
    BY <2>1 DEF CountsAgree
  <2>3. QED
    BY <1>1, <2>2 DEF CountsAgree, layerVars
<1>12. QED
  BY <1>5, <1>6, <1>7, <1>8, <1>9, <1>10, <1>11

\* A layer runs to its end.
LayerDone == PromptLayer \/ SelectLayer \/ DecodeLayer

\* What the forward of a layer does: its entries go to key_cache while it has no
\* tail, or to the tail while it decodes; it counts when several tokens are fed.
LEMMA LayerRuns ==
  ASSUME CacheInv, LayerDone
  PROVE  /\ layer \in Layer /\ layer' = layer + 1
         /\ UNCHANGED <<generation, prompt, fed, tokens, raised>> /\ ~raised
         /\ fed \in Nat /\ tokens \in Nat /\ fed < tokens
         /\ prompt \in Nat /\ prompt >= 1 /\ (OneToken /\ prompt >= 2 => fed > 0)
         /\ \/ /\ key_cache' = [key_cache EXCEPT ![layer] = @ \o Chunk]
               /\ UNCHANGED tail_k /\ tail_k[layer] = <<>>
               /\ Offloaded(layer) => ~OneToken
            \/ /\ tail_k' = [tail_k EXCEPT ![layer] = @ \o Chunk]
               /\ UNCHANGED key_cache
               /\ Offloaded(layer) /\ OneToken /\ stage = "decoding"
         /\ ~OneToken => CountPrompt(layer) /\ stage' = "prefill" /\ stage = "prefill"
         /\ OneToken => /\ UNCHANGED prefill_len
                        /\ \A l \in Layer : decode_step'[l] >= decode_step[l]
                        /\ decode_step' \in [Layer -> Nat]
                        /\ stage' = IF layer \in SelectLayers THEN "decoding" ELSE stage
<1> USE DEF CacheInv
<1>1. /\ layer \in Layer /\ layer' = layer + 1
      /\ UNCHANGED <<generation, prompt, fed, tokens, raised>>
  BY Constants DEF LayerDone, PromptLayer, SelectLayer, DecodeLayer, Types
<1>2. /\ fed \in Nat /\ tokens \in Nat /\ fed < tokens
      /\ prompt \in Nat /\ prompt >= 1
      /\ OneToken /\ prompt >= 2 => fed > 0
      /\ OneToken /\ fed = 0 => prompt = 1
  <2>1. /\ fed \in Nat /\ tokens \in Nat /\ fed < tokens
        /\ prompt \in Nat /\ prompt >= 1 /\ (tokens < prompt => ~OneToken)
    BY <1>1, Constants DEF Types, Feeding
  <2>2. QED
    BY <2>1 DEF OneToken
<1>3. Offloaded(layer) /\ OneToken => stage = "decoding"
  BY <1>1, OffloadedAfterSelecting DEF Stages
<1>4. ~Offloaded(layer) \/ stage = "prefill" => tail_k[layer] = <<>>
  BY <1>1 DEF Tails
<1>5. ~OneToken => stage = "prefill"
  BY DEF Stages
<1> DEFINE Stored == \/ /\ key_cache' = [key_cache EXCEPT ![layer] = @ \o Chunk]
                        /\ UNCHANGED tail_k /\ tail_k[layer] = <<>>
                        /\ Offloaded(layer) => ~OneToken
                     \/ /\ tail_k' = [tail_k EXCEPT ![layer] = @ \o Chunk]
                        /\ UNCHANGED key_cache
                        /\ Offloaded(layer) /\ OneToken /\ stage = "decoding"
<1>6. Update(layer) => Stored
  <2>1. CASE ~Offloaded(layer)
    BY <1>4, <2>1 DEF Update, AttendAll
  <2>2. CASE Offloaded(layer) /\ stage = "prefill"
    BY <1>3, <1>4, <2>2 DEF Update, OffloadChunk
  <2>3. CASE Offloaded(layer) /\ stage # "prefill"
    BY <1>3, <1>5, <2>3 DEF Update, AttendPartAndTail
  <2>4. QED
    BY <2>1, <2>2, <2>3
<1>7. CASE PromptLayer
  <2>1. Stored /\ ~OneToken /\ CountPrompt(layer) /\ UNCHANGED stage /\ ~raised
    BY <1>6, <1>7 DEF PromptLayer, Feeding, Types
  <2>2. QED
    BY <1>1, <1>2, <1>5, <2>1
<1>8. CASE DecodeLayer
  <2>1. /\ Stored /\ OneToken /\ UNCHANGED <<stage, prefill_len, decode_step>> /\ ~raised
        /\ layer \in SelectLayers => layer = 0 /\ fed = 0
    <3>1. ~Selects(layer) /\ Stored /\ OneToken /\ ~raised
      BY <1>6, <1>8 DEF DecodeLayer
    <3>2. layer \in SelectLayers => layer = 0 /\ fed = 0
      BY <1>1, <1>2, <3>1, Constants DEF Selects
    <3>3. QED
      BY <1>8, <3>1, <3>2 DEF DecodeLayer, layerVars
  <2>2. /\ \A l \in Layer : decode_step[l] \in Nat
        /\ decode_step' \in [Layer -> Nat]
    BY <2>1 DEF Types
  <2>3. layer \in SelectLayers => stage = "decoding"
    BY <1>2, <2>1 DEF Stages
  <2>4. \A l \in Layer : decode_step'[l] >= decode_step[l]
    BY <2>1, <2>2
  <2>5. QED
    BY <1>1, <1>2, <2>1, <2>2, <2>3, <2>4
<1>9. CASE SelectLayer
  <2>1. /\ AttendAll(layer) /\ OneToken /\ layer \in SelectLayers /\ ~raised
        /\ stage' = "decoding" /\ UNCHANGED prefill_len
        /\ decode_step' = [decode_step EXCEPT ![layer] = @ + 1]
    BY <1>9 DEF SelectLayer, Selects
  <2>2. Stored
    BY <1>4, <2>1, SelectingIsFull DEF AttendAll
  <2>3. /\ \A l \in Layer : decode_step'[l] >= decode_step[l]
        /\ decode_step' \in [Layer -> Nat]
    BY <1>1, <2>1 DEF Types
  <2>4. QED
    BY <1>1, <1>2, <2>1, <2>2, <2>3
<1>10. QED
  BY <1>7, <1>8, <1>9 DEF LayerDone

\* The layer that runs keeps what was fed to it, the others what they kept.
LEMMA RunRetains ==
  ASSUME CacheInv, LayerDone
  PROVE  /\ key_cache' \in [Layer -> Seq(Nat)] /\ tail_k' \in [Layer -> Seq(Nat)]
         /\ key_cache'[layer] \o tail_k'[layer] = TokenRange(1, tokens)
         /\ \A l \in Layer : l # layer =>
              key_cache'[l] = key_cache[l] /\ tail_k'[l] = tail_k[l]
         /\ Retained'
<1> USE DEF CacheInv
<1> DEFINE k == key_cache[layer]
           t == tail_k[layer]
<1>1. /\ layer \in Layer /\ layer' = layer + 1 /\ fed' = fed /\ tokens' = tokens
      /\ fed \in Nat /\ tokens \in Nat /\ fed < tokens
  BY LayerRuns
<1>2. k \in Seq(Nat) /\ t \in Seq(Nat)
  BY <1>1 DEF Types
<1>3. Chunk \in Seq(Nat) /\ TokenRange(1, fed) \o Chunk = TokenRange(1, tokens)
  <2>1. fed <= tokens
    BY <1>1
  <2>2. QED
    BY <1>1, <2>1, RangeExtends DEF Chunk
<1>4. k \o t = TokenRange(1, fed)
  <2>1. ~(layer < layer)
    BY <1>1, Constants
  <2>2. QED
    BY <1>1, <2>1 DEF Retained
<1>5. k \o Chunk \in Seq(Nat) /\ t \o Chunk \in Seq(Nat)
  BY <1>2, <1>3, ConcatProperties
<1>6. /\ key_cache' \in [Layer -> Seq(Nat)] /\ tail_k' \in [Layer -> Seq(Nat)]
      /\ key_cache'[layer] \o tail_k'[layer] = TokenRange(1, tokens)
      /\ \A l \in Layer : l # layer =>
           key_cache'[l] = key_cache[l] /\ tail_k'[l] = tail_k[l]
  <2>1. CASE /\ key_cache' = [key_cache EXCEPT ![layer] = @ \o Chunk]
             /\ UNCHANGED tail_k /\ t = <<>>
    <3>1. /\ key_cache' \in [Layer -> Seq(Nat)] /\ key_cache'[layer] = k \o Chunk
          /\ \A l \in Layer : l # layer => key_cache'[l] = key_cache[l]
      BY <1>1, <1>5, <2>1 DEF Types
    <3>2. k \o t = k /\ (k \o Chunk) \o t = k \o Chunk
      BY <1>2, <1>5, <2>1, ConcatEmptySeq
    <3>3. tail_k' \in [Layer -> Seq(Nat)] /\ tail_k' = tail_k
      BY <2>1 DEF Types
    <3>4. QED
      BY <1>3, <1>4, <3>1, <3>2, <3>3
  <2>2. CASE tail_k' = [tail_k EXCEPT ![layer] = @ \o Chunk] /\ UNCHANGED key_cache
    <3>1. /\ tail_k' \in [Layer -> Seq(Nat)] /\ tail_k'[layer] = t \o Chunk
          /\ \A l \in Layer : l # layer => tail_k'[l] = tail_k[l]
      BY <1>1, <1>5, <2>2 DEF Types
    <3>2. k \o (t \o Chunk) = (k \o t) \o Chunk
      <4>1. Chunk \in Seq(Nat)
        BY <1>3
      <4> HIDE DEF k, t
      <4>2. QED
        BY <1>2, <4>1, ConcatThree
    <3>3. key_cache' \in [Layer -> Seq(Nat)] /\ key_cache' = key_cache
      BY <2>2 DEF Types
    <3>4. QED
      BY <1>3, <1>4, <3>1, <3>2, <3>3
  <2>3. QED
    BY <2>1, <2>2, LayerRuns
<1>7. Retained'
  <2> SUFFICES ASSUME NEW l \in Layer
               PROVE  key_cache'[l] \o tail_k'[l]
                        = TokenRange(1, IF l < layer + 1 THEN tokens ELSE fed)
    BY <1>1 DEF Retained
  <2>1. CASE l = layer
    BY <1>1, <1>6, <2>1, Constants
  <2>2. CASE l # layer
    <3>1. l < layer + 1 <=> l < layer
      BY <1>1, <2>2, Constants
    <3>2. QED
      BY <1>6, <2>2, <3>1 DEF Retained
  <2>3. QED
    BY <2>1, <2>2
<1>8. QED
  BY <1>6, <1>7

\* The layers' counts follow what the forward does.
LEMMA RunCounts ==
  ASSUME CacheInv, LayerDone
  PROVE  prefill_len' \in [Layer -> Nat] /\ decode_step' \in [Layer -> Nat]
         /\ Counted' /\ CountsAgree'
<1> USE DEF CacheInv
<1>1. /\ layer \in Layer /\ layer' = layer + 1
      /\ fed' = fed /\ tokens' = tokens /\ prompt' = prompt
      /\ fed \in Nat /\ tokens \in Nat /\ fed < tokens
      /\ prompt \in Nat /\ (OneToken /\ prompt >= 2 => fed > 0)
      /\ OneToken' = OneToken
  BY LayerRuns DEF OneToken
<1>2. \A l \in Layer : l < layer' <=> l < layer \/ l = layer
  BY <1>1, Constants
<1>3. \A l \in Layer : /\ key_cache[l] \in Seq(Nat) /\ tail_k[l] \in Seq(Nat)
                       /\ prefill_len[l] \in Nat /\ decode_step[l] \in Nat
  BY DEF Types
<1>4. CASE OneToken
  <2>1. /\ prefill_len' = prefill_len /\ decode_step' \in [Layer -> Nat]
        /\ \A l \in Layer : decode_step'[l] >= decode_step[l]
    BY <1>4, LayerRuns
  <2>2. /\ prompt >= 2 => \A l \in Layer : Started(l) /\ Started(l)'
        /\ \A l \in Layer : Started(l) => Started(l)'
    BY <1>1, <1>2, <1>4 DEF Started
  <2>3. ASSUME NEW l \in Layer, Offloaded(l) PROVE key_cache'[l] = key_cache[l]
    <3>1. CASE l = layer
      BY <1>4, <2>3, <3>1, LayerRuns
    <3>2. CASE l # layer
      BY <3>2, RunRetains
    <3>3. QED
      BY <3>1, <3>2
  <2>4. Counted'
    <3> SUFFICES ASSUME NEW l \in Layer, prompt >= 2
                 PROVE  /\ prompt - 1 <= prefill_len[l] /\ prefill_len[l] <= fed
                        /\ Offloaded(l) => Len(key_cache'[l]) = prefill_len[l]
                        /\ WindowSize > 0 /\ l \in SelectLayers => decode_step'[l] >= 1
      BY <1>1, <1>4, <2>1, <2>2 DEF Counted
    <3>1. /\ prompt - 1 <= prefill_len[l] /\ prefill_len[l] <= fed
          /\ Offloaded(l) => Len(key_cache[l]) = prefill_len[l]
          /\ WindowSize > 0 /\ l \in SelectLayers => decode_step[l] >= 1
      BY <1>4, <2>2 DEF Counted
    <3>2. decode_step'[l] \in Nat /\ decode_step'[l] >= decode_step[l]
      BY <2>1
    <3>3. QED
      BY <1>3, <2>3, <3>1, <3>2
  <2>5. CountsAgree'
    BY <1>1, <1>4, <2>1 DEF CountsAgree
  <2>6. QED
    BY <2>1, <2>4, <2>5 DEF Types
<1>5. CASE ~OneToken
  <2>1. CountPrompt(layer) /\ stage = "prefill" /\ prompt >= 2
    BY <1>1, <1>5, LayerRuns DEF Feeding
  <2>2. Accumulates => prefill_len[layer] = fed
    <3>1. CASE Started(layer)
      BY <1>1, <1>5, <2>1, <3>1, Constants DEF Counted
    <3>2. CASE ~Started(layer)
      BY <1>1, <3>2 DEF Counted, Started
    <3>3. QED
      BY <3>1, <3>2
  <2>3. ~Accumulates => fed = 0
    BY <1>1, <1>5 DEF Feeding
  <2>4. prefill_len' = [prefill_len EXCEPT ![layer] = tokens]
    <3>1. tokens - fed + (IF Accumulates THEN prefill_len[layer] ELSE 0) = tokens
      BY <1>1, <2>2, <2>3
    <3>2. QED
      BY <2>1, <3>1 DEF CountPrompt
  <2>5. /\ prefill_len' \in [Layer -> Nat] /\ decode_step' \in [Layer -> Nat]
        /\ prefill_len'[layer] = tokens
        /\ \A l \in Layer : l # layer => /\ prefill_len'[l] = prefill_len[l]
                                         /\ decode_step'[l] = decode_step[l]
        /\ WindowSize > 0 /\ layer \in SelectLayers => decode_step'[layer] = 1
    BY <1>1, <2>1, <2>4 DEF Types, CountPrompt
  <2>6. Offloaded(layer) => Len(key_cache'[layer]) = tokens
    <3>1. tail_k[layer] = <<>> /\ tail_k' = tail_k
      BY <1>1, <1>5, <2>1, LayerRuns DEF Tails
    <3>2. key_cache'[layer] \in Seq(Nat)
      BY <1>1, RunRetains
    <3>3. key_cache'[layer] = TokenRange(1, tokens)
      BY <3>1, <3>2, RunRetains, ConcatEmptySeq
    <3>4. QED
      BY <1>1, <3>3, RangeFromOne
  <2>7. Counted'
    <3> SUFFICES ASSUME NEW l \in Layer
                 PROVE  /\ Started(l)' =>
                             /\ prefill_len'[l] = IF l < layer' THEN tokens ELSE fed
                             /\ Offloaded(l) => Len(key_cache'[l]) = prefill_len'[l]
                             /\ WindowSize > 0 /\ l \in SelectLayers => decode_step'[l] >= 1
                        /\ Accumulates /\ ~Started(l)' => prefill_len'[l] = 0
      BY <1>1, <1>5 DEF Counted
    <3>1. CASE l = layer
      <4>1. Started(l)' /\ l < layer'
        BY <1>1, <1>2, <3>1 DEF Started
      <4>2. QED
        BY <2>5, <2>6, <3>1, <4>1
    <3>2. CASE l # layer
      <4>1. (Started(l)' <=> Started(l)) /\ (l < layer' <=> l < layer)
        BY <1>1, <1>2, <3>2 DEF Started
      <4>2. prefill_len'[l] = prefill_len[l] /\ decode_step'[l] = decode_step[l]
            /\ key_cache'[l] = key_cache[l]
        BY <2>5, <3>2, RunRetains
      <4>3. /\ Started(l) =>
                 /\ prefill_len[l] = IF l < layer THEN tokens ELSE fed
                 /\ Offloaded(l) => Len(key_cache[l]) = prefill_len[l]
                 /\ WindowSize > 0 /\ l \in SelectLayers => decode_step[l] >= 1
            /\ Accumulates /\ ~Started(l) => prefill_len[l] = 0
        BY <1>5, <2>1 DEF Counted
      <4>4. QED
        BY <4>1, <4>2, <4>3
    <3>3. QED
      BY <3>1, <3>2
  <2>8. CountsAgree'
    BY <1>1, <1>5 DEF CountsAgree
  <2>9. QED
    BY <2>5, <2>7, <2>8
<1>6. QED
  BY <1>4, <1>5

\* The forward of a layer keeps the invariant.
LEMMA LayerDoneKeeps ==
  ASSUME CacheInv, LayerDone
  PROVE  CacheInv'
<1> USE DEF CacheInv
<1>1. /\ layer \in Layer /\ layer' = layer + 1
      /\ generation' = generation /\ fed' = fed /\ tokens' = tokens /\ prompt' = prompt
      /\ fed < tokens /\ OneToken' = OneToken /\ ~raised /\ raised' = raised
  BY LayerRuns DEF OneToken
<1>2. Types'
  <2>1. layer' \in 0..NumLayers
    BY <1>1, Constants
  <2>2. /\ prompt' \in 0..MaxPrompt /\ fed' \in Nat /\ tokens' \in 0..(prompt' + MaxDecode)
        /\ raised' \in BOOLEAN
    BY <1>1 DEF Types
  <2>3. key_cache' \in [Layer -> Seq(Nat)] /\ tail_k' \in [Layer -> Seq(Nat)]
    BY RunRetains
  <2>4. prefill_len' \in [Layer -> Nat] /\ decode_step' \in [Layer -> Nat]
    BY RunCounts
  <2>5. QED
    BY <2>1, <2>2, <2>3, <2>4 DEF Types
<1>3. Feeding'
  BY <1>1, Constants DEF Feeding
<1>4. Stages'
  <2>1. CASE ~OneToken
    BY <1>1, <2>1, LayerRuns DEF Stages, Feeding
  <2>2. CASE OneToken
    <3>1. stage' = IF layer \in SelectLayers THEN "decoding" ELSE stage
      BY <2>2, LayerRuns
    <3>2. ASSUME NEW s \in SelectLayers, s < layer' PROVE s < layer \/ s = layer
      BY <1>1, <3>2, Constants
    <3>3. QED
      BY <1>1, <2>2, <3>1, <3>2 DEF Stages
  <2>3. QED
    BY <2>1, <2>2
<1>5. Tails'
  <2> SUFFICES ASSUME NEW l \in Layer, ~Offloaded(l) \/ stage' = "prefill"
               PROVE  tail_k'[l] = <<>>
    BY DEF Tails
  <2>1. stage' = "prefill" => stage = "prefill"
    <3>1. CASE OneToken
      BY <3>1, LayerRuns
    <3>2. CASE ~OneToken
      BY <3>2, LayerRuns
    <3>3. QED
      BY <3>1, <3>2
  <2>2. tail_k[l] = <<>>
    BY <2>1 DEF Tails
  <2>3. CASE l = layer
    <3>1. ~(Offloaded(layer) /\ stage = "decoding")
      BY <2>1, <2>3
    <3>2. tail_k' = tail_k
      BY <3>1, LayerRuns
    <3>3. QED
      BY <2>2, <3>2
  <2>4. CASE l # layer
    BY <2>2, <2>4, RunRetains
  <2>5. QED
    BY <2>3, <2>4
<1>6. QED
  BY <1>2, <1>3, <1>4, <1>5, RunRetains, RunCounts

\* An exception changes nothing but that the generation ends.
LEMMA RaisesKeeps ==
  ASSUME CacheInv, LayerRaises
  PROVE  CacheInv'
<1>1. /\ OneToken /\ layer < NumLayers /\ raised' = TRUE
      /\ UNCHANGED <<generation, prompt, fed, tokens, layer, cacheVars, layerVars, seenVars>>
  BY DEF LayerRaises
<1>2. Feeding'
  BY <1>1, Constants DEF CacheInv, Types, Feeding, OneToken
<1>3. QED
  BY <1>1, <1>2 DEF cacheVars, layerVars, CacheInv, Types, Stages, Tails, Retained, Counted,
                    CountsAgree, Started, OneToken

\* The cache's invariant holds throughout: what the layers keep, count and select
\* from agree, over chunks, tokens and generations.
THEOREM CacheInvCorrect == Spec => []CacheInv
<1>1. Init => CacheInv
  BY CacheInvInit
<1>2. CacheInv /\ [Next]_vars => CacheInv'
  <2> SUFFICES ASSUME CacheInv, [Next]_vars PROVE CacheInv'
    OBVIOUS
  <2>1. ASSUME NEW n \in 1..MaxPrompt, NewPrompt(n) PROVE CacheInv'
    BY <2>1, NewPromptKeeps
  <2>2. CASE NextChunk \/ NextToken
    BY <2>2, NextForwardKeeps
  <2>3. CASE RunLayer
    BY <2>3, LayerDoneKeeps, RaisesKeeps DEF RunLayer, LayerDone
  <2>4. CASE UNCHANGED vars
    BY <2>4 DEF vars, genVars, cacheVars, layerVars, seenVars, CacheInv, Types, Feeding,
                Stages, Tails, Retained, Counted, CountsAgree, Started, OneToken
  <2>5. QED
    BY <2>1, <2>2, <2>3, <2>4 DEF Next
<1>3. QED
  BY <1>1, <1>2, PTL DEF Spec

-----------------------------------------------------------------------------
(***************************************************************************)
(* What follows from it                                                    *)
(***************************************************************************)

\* "Full Token Retention": the cache, with its offloading, its parts and its tails,
\* implements a cache in which every layer keeps every token in order.
THEOREM RetainsAllCorrect == Spec => RetainsAll
<1> DEFINE kv == [l \in Layer |-> key_cache[l] \o tail_k[l]]
<1>1. Init => Dense!Init
  <2> SUFFICES ASSUME Init PROVE kv = [l \in Layer |-> <<>>]
    BY DEF Dense!Init, Dense!Layer, Layer
  <2>1. <<>> \in Seq(Nat)
    BY EmptySeq
  <2>2. <<>> \o <<>> = <<>>
    BY <2>1, ConcatEmptySeq
  <2>3. \A l \in Layer : key_cache[l] \o tail_k[l] = <<>>
    BY <2>2 DEF Init
  <2>4. QED
    BY <2>3
<1>2. CacheInv /\ [Next]_vars => [Dense!Next]_kv
  <2> SUFFICES ASSUME CacheInv, Next, kv' # kv PROVE Dense!Next
    BY DEF vars, cacheVars
  <2>1. ASSUME NEW n \in 1..MaxPrompt, NewPrompt(n) PROVE Dense!Next
    <3>1. <<>> \in Seq(Nat)
      BY EmptySeq
    <3>2. <<>> \o <<>> = <<>>
      BY <3>1, ConcatEmptySeq
    <3>3. \A l \in Layer : key_cache'[l] \o tail_k'[l] = <<>>
      BY <2>1, <3>2 DEF NewPrompt
    <3>4. kv' = [l \in Layer |-> <<>>]
      BY <3>3
    <3>5. QED
      BY <3>4 DEF Dense!Next, Dense!Clear, Dense!Layer, Layer
  <2>2. CASE NextChunk \/ NextToken
    BY <2>2 DEF NextChunk, NextToken, cacheVars
  <2>3. CASE LayerDone
    <3> DEFINE more == tokens - fed
    <3>1. /\ layer \in Layer /\ fed \in Nat /\ tokens \in Nat /\ fed < tokens
          /\ tokens <= MaxToken /\ more \in 1..MaxToken /\ fed + more = tokens
      <4>1. layer \in Layer /\ fed \in Nat /\ tokens \in Nat /\ fed < tokens
        BY <2>3, LayerRuns
      <4>2. MaxToken \in Nat /\ tokens <= MaxToken
        BY Constants DEF CacheInv, Types, MaxToken
      <4>3. QED
        BY <4>1, <4>2
    <3>2. \A m \in Layer : kv[m] = TokenRange(1, IF m < layer THEN tokens ELSE fed)
      BY DEF CacheInv, Retained
    <3>3. Len(kv[layer]) = fed
      <4>1. ~(layer < layer)
        BY <3>1, Constants
      <4>2. QED
        BY <3>1, <3>2, <4>1, RangeFromOne
    <3>4. /\ kv'[layer] = TokenRange(1, tokens)
          /\ \A m \in Layer : m # layer => kv'[m] = kv[m]
      BY <2>3, <3>1, RunRetains
    <3>5. kv' = [kv EXCEPT ![layer] = TokenRange(1, tokens)]
      BY <3>1, <3>4
    <3> HIDE DEF kv, more
    <3>6. PICK l \in Layer, k \in 1..MaxToken : l = layer /\ k = more
      BY <3>1
    <3>7. Dense!Keep(l, k)
      BY <3>1, <3>2, <3>3, <3>5, <3>6
         DEF Dense!Keep, Dense!Layer, Dense!TokenRange, Layer, TokenRange, kv
    <3>8. l \in Dense!Layer
      BY DEF Dense!Layer, Layer
    <3>9. QED
      BY <3>7, <3>8 DEF Dense!Next
  <2>4. CASE LayerRaises
    BY <2>4 DEF LayerRaises, cacheVars
  <2>5. QED
    BY <2>1, <2>2, <2>3, <2>4 DEF Next, RunLayer, LayerDone
<1>3. QED
  BY <1>1, <1>2, CacheInvCorrect, PTL DEF Spec, RetainsAll, Dense!Spec

-----------------------------------------------------------------------------
(***************************************************************************)
(* Selections                                                              *)
(***************************************************************************)

\* Selecting among entries that are their own numbers gives the numbers.
LEMMA SelectOwnNumbers ==
  ASSUME NEW n \in Nat, NEW S \in SUBSET (1..n)
  PROVE  IndexSelect(TokenRange(1, n), S) = S
<1> DEFINE r == TokenRange(1, n)
<1>1. \A i \in 1..n : r[i] = i
  BY RangeFromOne
<1> HIDE DEF r
<1>2. {r[i] : i \in S} = S
  BY <1>1
<1>3. QED
  BY <1>2 DEF IndexSelect, r

\* A range of tokens has no token beyond its bound.
LEMMA RangeTyped ==
  ASSUME NEW before \in Nat, NEW after \in Nat, NEW top \in Nat, before <= after, after <= top
  PROVE  TokenRange(before + 1, after) \in Seq(1..top)
<1> DEFINE n == after - (before + 1) + 1
           r == [i \in 1..n |-> before + 1 + i - 1]
<1>1. n \in Nat
  OBVIOUS
<1>2. \A i \in 1..n : before + 1 + i - 1 \in 1..top
  OBVIOUS
<1>3. r \in [1..n -> 1..top]
  BY <1>2
<1>4. r \in Seq(1..top)
  BY <1>1, <1>3, SeqDef
<1>5. QED
  BY <1>4 DEF TokenRange

\* A sequence whose elements are all in a set is a sequence over the set.
LEMMA SeqOver ==
  ASSUME NEW q \in Seq(Nat), NEW S, \A i \in 1..Len(q) : q[i] \in S
  PROVE  q \in Seq(S)
<1>1. Len(q) \in Nat /\ q \in [1..Len(q) -> Nat]
  BY LenProperties
<1>2. q \in [1..Len(q) -> S]
  BY <1>1
<1>3. QED
  BY <1>1, <1>2, SeqDef

\* The two pieces of the first n tokens.
LEMMA PiecesOfRange ==
  ASSUME NEW n \in Nat, NEW k \in Seq(Nat), NEW t \in Seq(Nat), k \o t = TokenRange(1, n)
  PROVE  /\ Len(k) \in Nat /\ Len(k) <= n /\ Len(t) = n - Len(k)
         /\ \A i \in 1..Len(k) : k[i] = i
         /\ \A i \in 1..Len(t) : t[i] = Len(k) + i
         /\ k = TokenRange(1, Len(k)) /\ t = TokenRange(Len(k) + 1, n)
<1> DEFINE r == TokenRange(1, n)
<1>1. Len(r) = n /\ \A i \in 1..n : r[i] = i
  BY RangeFromOne
<1>2. /\ Len(k \o t) = Len(k) + Len(t) /\ Len(k) \in Nat /\ Len(t) \in Nat
      /\ \A i \in 1..(Len(k) + Len(t)) :
           (k \o t)[i] = IF i <= Len(k) THEN k[i] ELSE t[i - Len(k)]
  BY ConcatProperties, LenProperties
<1>3. Len(k) + Len(t) = n
  BY <1>1, <1>2
<1>4. ASSUME NEW i \in 1..Len(k) PROVE k[i] = i
  <2>1. i \in 1..n /\ i <= Len(k)
    BY <1>2, <1>3
  <2>2. QED
    BY <1>1, <1>2, <1>3, <2>1
<1>5. ASSUME NEW i \in 1..Len(t) PROVE t[i] = Len(k) + i
  <2>1. Len(k) + i \in 1..n /\ ~(Len(k) + i <= Len(k)) /\ (Len(k) + i) - Len(k) = i
    BY <1>2, <1>3
  <2>2. (k \o t)[Len(k) + i] = t[i]
    BY <1>2, <1>3, <2>1
  <2>3. r[Len(k) + i] = Len(k) + i
    BY <1>1, <2>1
  <2>4. QED
    BY <2>2, <2>3
<1>6. k = TokenRange(1, Len(k))
  <2> DEFINE a == TokenRange(1, Len(k))
  <2>1. a \in Seq(Nat) /\ Len(a) = Len(k) /\ \A i \in 1..Len(k) : a[i] = i
    BY <1>2, RangeFromOne
  <2> HIDE DEF a
  <2>2. QED
    BY <1>4, <2>1, SeqEqual DEF a
<1>7. t = TokenRange(Len(k) + 1, n)
  <2> DEFINE b == TokenRange(Len(k) + 1, n)
  <2>1. Len(k) + 1 \in Nat /\ Len(k) + 1 <= n + 1 /\ n - (Len(k) + 1) + 1 = Len(t)
    BY <1>2, <1>3
  <2>2. /\ b \in Seq(Nat) /\ Len(b) = n - (Len(k) + 1) + 1
        /\ \A i \in 1..(n - (Len(k) + 1) + 1) : b[i] = Len(k) + 1 + i - 1
    BY <2>1, RangeIsSeq
  <2> HIDE DEF b
  <2>3. \A i \in 1..Len(t) : b[i] = t[i]
    BY <1>2, <1>5, <2>1, <2>2
  <2>4. b = t
    BY <2>1, <2>2, <2>3, SeqEqual
  <2>5. QED
    BY <2>4 DEF b
<1>8. QED
  BY <1>2, <1>3, <1>4, <1>5, <1>6, <1>7

\* An offloaded layer comes after a selecting layer, and after one only.
LEMMA OffloadedHasGroup ==
  ASSUME NEW l \in Layer, Offloaded(l)
  PROVE  \E s \in SelectLayers : IsLeft(s, l) /\ l \in Group(s) /\ s < l
<1>1. PICK f \in Layer : IsLeft(f, l) /\ l > f + NumWait
  BY DEF Offloaded
<1>2. PICK s \in SelectLayers : s < l
  BY OffloadedAfterSelecting
<1>3. s \in Layer /\ FullAttn(s)
  BY <1>2, Constants DEF FullAttn
<1>4. s <= f
  BY <1>1, <1>2, <1>3, Constants DEF IsLeft
<1>5. f \in SelectLayers
  <2>1. ~(f < s)
    BY <1>1, <1>3, <1>4, Constants
  <2>2. QED
    BY <1>1, <2>1 DEF IsLeft, FullAttn
<1>6. f < l
  BY <1>1, CacheAssumption, Constants
<1>7. QED
  BY <1>1, <1>5, <1>6 DEF Group

LEMMA OneLeft ==
  ASSUME NEW l \in Layer, NEW f \in Layer, NEW g \in Layer, IsLeft(f, l), IsLeft(g, l)
  PROVE  f = g
BY Constants DEF IsLeft

\* A layer of a group is offloaded.
LEMMA GroupIsOffloaded ==
  ASSUME NEW s \in SelectLayers, NEW i \in Group(s)
  PROVE  i \in Layer /\ Offloaded(i) /\ IsLeft(s, i) /\ s < i
BY Constants, CacheAssumption DEF Group, Offloaded

\* While one token is fed, an offloaded layer's key_cache is the prompt as it counted
\* it, and its tail the tokens since.
LEMMA OffloadedHolds ==
  ASSUME CacheInv, OneToken, prompt >= 2, NEW l \in Layer, Offloaded(l)
  PROVE  LET n == IF l < layer THEN tokens ELSE fed
         IN  /\ prefill_len[l] \in Nat /\ prefill_len[l] <= fed
             /\ fed \in Nat /\ fed > 0 /\ tokens \in Nat /\ fed < tokens
             /\ key_cache[l] = TokenRange(1, prefill_len[l])
             /\ tail_k[l] = TokenRange(prefill_len[l] + 1, n)
<1> USE DEF CacheInv
<1>1. /\ fed \in Nat /\ tokens \in Nat /\ fed > 0 /\ fed < tokens
  BY Constants DEF Types, Feeding, OneToken
<1>2. Started(l)
  BY <1>1 DEF Started
<1>3. /\ prefill_len[l] \in Nat /\ prefill_len[l] <= fed
      /\ Len(key_cache[l]) = prefill_len[l]
  BY <1>2 DEF Counted, Types
<1>4. PICK n \in Nat : n = IF l < layer THEN tokens ELSE fed
  BY <1>1
<1>5. /\ key_cache[l] \in Seq(Nat) /\ tail_k[l] \in Seq(Nat)
      /\ key_cache[l] \o tail_k[l] = TokenRange(1, n)
  BY <1>4 DEF Types, Retained
<1>6. key_cache[l] = TokenRange(1, prefill_len[l]) /\ tail_k[l] = TokenRange(prefill_len[l] + 1, n)
  <2> DEFINE k == key_cache[l]
             t == tail_k[l]
  <2> HIDE DEF k, t
  <2>1. k \in Seq(Nat) /\ t \in Seq(Nat) /\ k \o t = TokenRange(1, n)
    BY <1>5 DEF k, t
  <2>2. k = TokenRange(1, Len(k)) /\ t = TokenRange(Len(k) + 1, n)
    BY <2>1, PiecesOfRange
  <2>3. Len(k) = prefill_len[l]
    BY <1>3 DEF k
  <2>4. QED
    BY <2>2, <2>3 DEF k, t
<1>7. QED
  BY <1>1, <1>3, <1>4, <1>6

\* The entries a layer keeps are tokens.
LEMMA EntriesAreTokens ==
  CacheInv => \A l \in Layer : /\ key_cache[l] \in Seq(1..MaxToken)
                               /\ tail_k[l] \in Seq(1..MaxToken)
<1> SUFFICES ASSUME CacheInv, NEW l \in Layer
             PROVE  key_cache[l] \in Seq(1..MaxToken) /\ tail_k[l] \in Seq(1..MaxToken)
  OBVIOUS
<1> USE DEF CacheInv
<1>1. /\ fed \in Nat /\ tokens \in Nat /\ fed <= tokens /\ tokens <= MaxToken
      /\ MaxToken \in Nat
  BY Constants DEF Types, Feeding, MaxToken
<1>2. PICK n \in Nat : n = (IF l < layer THEN tokens ELSE fed) /\ n <= MaxToken
  BY <1>1
<1>3. /\ key_cache[l] \in Seq(Nat) /\ tail_k[l] \in Seq(Nat)
      /\ key_cache[l] \o tail_k[l] = TokenRange(1, n)
  BY <1>2 DEF Types, Retained
<1> DEFINE k == key_cache[l]
           t == tail_k[l]
<1> HIDE DEF k, t
<1>4. k \in Seq(Nat) /\ t \in Seq(Nat) /\ k \o t = TokenRange(1, n)
  BY <1>3 DEF k, t
<1>5. /\ Len(k) \in Nat /\ Len(k) <= n /\ Len(t) = n - Len(k)
      /\ \A i \in 1..Len(k) : k[i] = i
      /\ \A i \in 1..Len(t) : t[i] = Len(k) + i
  BY <1>4, PiecesOfRange
<1>6. \A i \in 1..Len(k) : k[i] \in 1..MaxToken
  BY <1>1, <1>2, <1>5
<1>7. \A i \in 1..Len(t) : t[i] \in 1..MaxToken
  BY <1>1, <1>2, <1>5
<1>8. QED
  BY <1>4, <1>6, <1>7, SeqOver DEF k, t

\* One token is fed, and enough were: the prompt has two tokens or more.
LEMMA LongPrompt ==
  ASSUME CacheInv, OneToken
  PROVE  /\ fed \in Nat /\ tokens \in Nat /\ prompt \in Nat /\ prompt >= 1 /\ fed < tokens
         /\ prompt >= 2 => fed > 0
         /\ fed = 0 => prompt = 1
         /\ prompt = 1 => stage = "decoding"
         /\ ~Short <=> prompt >= 2 /\ tokens >= WindowSize
<1>1. /\ fed \in Nat /\ tokens \in Nat /\ prompt \in Nat /\ prompt >= 1 /\ tokens = fed + 1
      /\ ~(tokens < prompt) /\ (prompt = 1 => stage = "decoding")
  BY Constants DEF CacheInv, Types, Feeding, Stages, OneToken
<1>2. QED
  BY <1>1, Constants DEF Short

\* What a selecting layer scores, of a prompt of two tokens or more: its count of the
\* window's tokens is exact, so that a negative number of tokens to score means that
\* fewer tokens than a window were fed.
LEMMA LayerScores ==
  ASSUME CacheInv, WindowCounted, layer < NumLayers, OneToken, layer \in SelectLayers,
         prompt >= 2
  PROVE  LET P == prefill_len[layer]
             c == ConsiderLen(layer)
         IN  /\ P \in Nat /\ P > 0 /\ P <= fed /\ c \in Int /\ c <= P
             /\ c < 0 <=> tokens < WindowSize
             /\ c <= tokens - WindowSize
             /\ c < P \/ WindowPrompt(layer) = 0
             /\ Len(key_cache[layer]) = fed /\ fed > 0 /\ fed \in Nat
             /\ tokens >= WindowSize => Scored(layer) = c
<1> DEFINE P == prefill_len[layer]
           d == decode_step[layer]
           w == WindowPrompt(layer)
<1>1. layer \in Layer /\ ~Offloaded(layer) /\ ~(layer < layer)
  BY SelectingIsFull, Constants
<1>2. /\ fed \in Nat /\ tokens \in Nat /\ prompt \in Nat /\ fed > 0 /\ tokens = fed + 1
      /\ P \in Nat /\ d \in Nat /\ tokens > 0
  BY <1>1, LongPrompt DEF CacheInv, Types, OneToken
<1>3. Started(layer)
  BY <1>2 DEF Started
<1>4. prompt - 1 <= P /\ P <= fed
  BY <1>1, <1>3 DEF CacheInv, Counted
<1>5. WindowSize > 0 => d = tokens - P
  BY <1>1, <1>2, <1>3, <1>4, Constants DEF WindowCounted
<1>6. Len(key_cache[layer]) = fed
  <2>1. tail_k[layer] = <<>> /\ key_cache[layer] \in Seq(Nat)
    BY <1>1 DEF CacheInv, Tails, Types
  <2>2. key_cache[layer] \o tail_k[layer] = TokenRange(1, fed)
    BY <1>1 DEF CacheInv, Retained
  <2>3. key_cache[layer] = TokenRange(1, fed)
    BY <2>1, <2>2, ConcatEmptySeq
  <2>4. QED
    BY <1>2, <2>3, RangeFromOne
<1>7. w = IF WindowSize > d THEN WindowSize - d ELSE 0
  BY <1>2, Constants DEF WindowPrompt, AtLeast
<1>8. ConsiderLen(layer) = P - w
  BY DEF ConsiderLen
<1>9. w \in Nat /\ (WindowSize = 0 => w = 0)
  BY <1>2, <1>7, Constants
<1>10. WindowSize > 0 => w = IF WindowSize > tokens - P THEN WindowSize - tokens + P ELSE 0
  BY <1>2, <1>5, <1>7, Constants
<1> HIDE DEF P, d, w
<1>11. /\ P > 0 /\ P - w \in Int /\ P - w <= P
       /\ P - w < 0 <=> tokens < WindowSize
       /\ P - w <= tokens - WindowSize
       /\ P - w < P \/ w = 0
  <2>1. CASE WindowSize = 0
    BY <1>2, <1>4, <1>9, <2>1
  <2>2. CASE WindowSize > 0
    BY <1>2, <1>4, <1>9, <1>10, <2>2, Constants
  <2>3. QED
    BY <2>1, <2>2, Constants
<1>12. ASSUME tokens >= WindowSize PROVE Scored(layer) = P - w
  <2>1. ~(P - w < 0) /\ P # 0 /\ P - w <= fed
    BY <1>2, <1>4, <1>11, <1>12, Constants
  <2>2. QED
    BY <1>6, <1>8, <2>1 DEF Scored, AtMost, P
<1>13. QED
  BY <1>2, <1>4, <1>6, <1>8, <1>11, <1>12 DEF P, w

\* A selection is a set of numbers, of tokens of the prompt and of the window.
LEMMA SelectionShape ==
  ASSUME NEW l, NEW S \in Selections(l)
  PROVE  \E T \in SUBSET (1..Scored(l)) :
           /\ S = T \cup ((ConsiderLen(l) + 1)..prefill_len[l])
           /\ Cardinality(T) = AtMost(AtLeast(1, NumSelected - WindowPrompt(l)), Scored(l))
           /\ S \subseteq Int
<1>1. PICK T \in SUBSET (1..Scored(l)) :
        /\ S = T \cup ((ConsiderLen(l) + 1)..prefill_len[l])
        /\ Cardinality(T) = AtMost(AtLeast(1, NumSelected - WindowPrompt(l)), Scored(l))
  BY DEF Selections
<1> DEFINE a == 1..Scored(l)
           b == (ConsiderLen(l) + 1)..prefill_len[l]
<1>2. a \subseteq Int /\ b \subseteq Int
  OBVIOUS
<1> HIDE DEF a, b
<1>3. S \subseteq Int
  BY <1>1, <1>2 DEF a, b
<1>4. QED
  BY <1>1, <1>3

\* When enough tokens were fed, a selection has some, of the prompt only, and those of
\* the window that are in it.
LEMMA SelectionHasWindow ==
  ASSUME SelectInv, layer < NumLayers, OneToken, layer \in SelectLayers, ~Short,
         NEW S \in Selections(layer)
  PROVE  /\ prefill_len[layer] \in Nat /\ prefill_len[layer] <= prompt
         /\ S # {} /\ S \subseteq 1..prefill_len[layer]
         /\ \A t \in 1..prefill_len[layer] : t > tokens - WindowSize => t \in S
<1> DEFINE P == prefill_len[layer]
           c == ConsiderLen(layer)
<1>1. CacheInv /\ WindowCounted /\ PromptBounds
  BY DEF SelectInv
<1>2. layer \in Layer
  BY Constants
<1>3. /\ fed \in Nat /\ tokens \in Nat /\ prompt \in Nat /\ fed < tokens
      /\ prompt >= 2 /\ tokens >= WindowSize
  BY <1>1, LongPrompt
<1>4. /\ P \in Nat /\ P > 0 /\ P <= fed /\ c \in Int /\ c <= P
      /\ ~(c < 0)
      /\ c <= tokens - WindowSize
      /\ c < P \/ WindowPrompt(layer) = 0
      /\ Scored(layer) = c
  BY <1>1, <1>3, LayerScores, Constants
<1>5. P <= prompt
  BY <1>1, <1>2, <1>3 DEF PromptBounds
<1>6. PICK T \in SUBSET (1..c) :
        /\ S = T \cup ((c + 1)..P)
        /\ Cardinality(T) = AtMost(AtLeast(1, NumSelected - WindowPrompt(layer)), c)
  BY <1>4, SelectionShape
<1> HIDE DEF P, c
<1>7. \A t \in 1..P : t > tokens - WindowSize => t \in (c + 1)..P
  BY <1>3, <1>4, Constants
<1>8. S \subseteq 1..P
  <2>1. ASSUME NEW t \in S PROVE t \in 1..P
    <3>1. t \in 1..c \/ t \in (c + 1)..P
      BY <1>6
    <3>2. QED
      BY <1>4, <3>1
  <2>2. QED
    BY <2>1
<1>9. S # {}
  <2>1. CASE c < P
    <3>1. P \in (c + 1)..P
      BY <1>4, <2>1
    <3>2. QED
      BY <1>6, <3>1
  <2>2. CASE ~(c < P)
    <3>1. c > 0 /\ WindowPrompt(layer) = 0
      BY <1>4, <2>2
    <3>2. Cardinality(T) > 0
      BY <1>4, <1>6, <3>1, CacheAssumption DEF AtMost, AtLeast
    <3>3. Cardinality({}) = 0
      BY FS_EmptySet
    <3>4. T # {}
      BY <3>2, <3>3
    <3>5. QED
      BY <1>6, <3>4
  <2>3. QED
    BY <2>1, <2>2
<1>10. QED
  BY <1>4, <1>5, <1>6, <1>7, <1>8, <1>9 DEF P, c

\* The entries of the key_cache of an offloaded layer are the tokens of the prompt, as
\* any layer has counted them.
LEMMA OffloadedEntries ==
  ASSUME CacheInv, OneToken, prompt >= 2, NEW l \in Layer, Offloaded(l), NEW s \in Layer
  PROVE  /\ key_cache[l] = TokenRange(1, prefill_len[s]) /\ prefill_len[s] \in Nat
         /\ DOMAIN key_cache[l] = 1..prefill_len[s]
         /\ Len(key_cache[l]) = prefill_len[s]
         /\ \A S \in SUBSET (1..prefill_len[s]) : IndexSelect(key_cache[l], S) = S
<1>1. key_cache[l] = TokenRange(1, prefill_len[l]) /\ prefill_len[l] \in Nat
  BY OffloadedHolds
<1>2. prefill_len[l] = prefill_len[s]
  BY DEF CacheInv, CountsAgree
<1>3. TokenRange(1, prefill_len[s]) \in Seq(Nat) /\ Len(TokenRange(1, prefill_len[s])) = prefill_len[s]
  BY <1>1, <1>2, RangeFromOne
<1>4. DOMAIN TokenRange(1, prefill_len[s]) = 1..prefill_len[s]
  BY <1>3, LenProperties
<1>5. QED
  BY <1>1, <1>2, <1>3, <1>4, SelectOwnNumbers

\* What is selected from tokens is tokens.
LEMMA SelectedAreTokens ==
  ASSUME NEW X, NEW q \in Seq(X), NEW S \in SUBSET (DOMAIN q)
  PROVE  IndexSelect(q, S) \in SUBSET X
<1>1. q \in [1..Len(q) -> X] /\ DOMAIN q = 1..Len(q)
  BY LenProperties
<1>2. QED
  BY <1>1 DEF IndexSelect

-----------------------------------------------------------------------------
(***************************************************************************)
(* The stronger invariant                                                  *)
(***************************************************************************)

\* OffloadedHolds, of every layer at once.
LEMMA AllOffloadedHold ==
  CacheInv /\ OneToken /\ prompt >= 2 => \A l \in Layer : Offloaded(l) /\ l < layer =>
    tail_k[l] = TokenRange(prefill_len[l] + 1, tokens)
BY OffloadedHolds

LEMMA NextOffloadedHold ==
  CacheInv' /\ OneToken' /\ prompt' >= 2 => \A l \in Layer : Offloaded(l) /\ l < layer' =>
    tail_k'[l] = TokenRange(prefill_len'[l] + 1, tokens')
<1>1. (CacheInv /\ OneToken /\ prompt >= 2 => \A l \in Layer : Offloaded(l) /\ l < layer =>
         tail_k[l] = TokenRange(prefill_len[l] + 1, tokens))'
  BY AllOffloadedHold, PTL
<1>2. QED
  BY <1>1

\* The entries that the layers keep after a step are tokens.
LEMMA NextEntriesAreTokens ==
  CacheInv' => \A l \in Layer : /\ key_cache'[l] \in Seq(1..MaxToken)
                                /\ tail_k'[l] \in Seq(1..MaxToken)
<1>1. (CacheInv => \A l \in Layer : /\ key_cache[l] \in Seq(1..MaxToken)
                                    /\ tail_k[l] \in Seq(1..MaxToken))'
  BY EntriesAreTokens, PTL
<1>2. QED
  BY <1>1

\* What the typed bounds need of the constants.
LEMMA TokenBounds ==
  /\ MaxToken \in Nat /\ MaxPrompt <= MaxToken
  /\ CacheInv => /\ fed \in Nat /\ tokens \in Nat /\ fed <= tokens /\ tokens <= MaxToken
                 /\ prompt \in 0..MaxPrompt /\ fed \in 0..MaxToken /\ tokens \in 0..MaxToken
<1>1. MaxPrompt \in Nat /\ MaxDecode \in Nat /\ MaxToken = MaxPrompt + MaxDecode
  BY Constants DEF MaxToken
<1>2. ASSUME CacheInv
      PROVE  /\ fed \in Nat /\ tokens \in Nat /\ fed <= tokens /\ tokens <= MaxToken
             /\ prompt \in 0..MaxPrompt
  <2>1. prompt \in 0..MaxPrompt /\ fed \in Nat /\ tokens \in 0..(prompt + MaxDecode)
    BY <1>2 DEF CacheInv, Types
  <2>2. fed < tokens \/ (tokens = 0 /\ fed = 0)
    BY <1>2 DEF CacheInv, Feeding
  <2> QED
    BY <1>1, <2>1, <2>2
<1> QED
  BY <1>1, <1>2

LEMMA SelectInvInit == Init => SelectInv
<1> SUFFICES ASSUME Init PROVE SelectInv
  OBVIOUS
<1>1. CacheInv
  BY CacheInvInit
<1> USE DEF Init
<1>2. SeenTypes
  <2>1. <<>> \in Seq(1..MaxToken)
    BY EmptySeq
  <2>2. attended \in [part : SUBSET (1..MaxToken), rest : Seq(1..MaxToken)]
    BY <2>1
  <2>3. generation \in 0..MaxGenerations /\ prefill_len \in [Layer -> 0..MaxPrompt]
    BY CacheAssumption
  <2>4. QED
    BY <2>2, <2>3 DEF SeenTypes
<1>3. PromptBounds /\ WindowCounted
  BY DEF PromptBounds, WindowCounted, OneToken, Started
<1>4. Shorts /\ SelectedSoFar /\ SparselyAttended
  BY DEF Shorts, SelectedSoFar, SparselyAttended, SparseAttention, OneToken
<1>5. QED
  BY <1>1, <1>2, <1>3, <1>4 DEF SelectInv

\* The start of a generation.
LEMMA NewPromptSelects ==
  ASSUME SelectInv, NEW n \in 1..MaxPrompt, NewPrompt(n)
  PROVE  SelectInv'
<1>1. CacheInv'
  BY NewPromptKeeps DEF SelectInv
<1> USE DEF NewPrompt
<1>2. /\ n \in Nat /\ tokens' \in Nat /\ tokens' <= n /\ (n >= 2 => tokens' >= 2)
      /\ fed' = 0 /\ layer' = 0 /\ prompt' = n /\ raised' = FALSE
  BY Constants DEF AtMost
<1>3. /\ n >= 2 => ~OneToken'
      /\ \A l \in Layer : ~Started(l)' /\ ~(l < layer')
      /\ \A s \in SelectLayers : ~(s < layer')
  BY <1>2, Constants DEF OneToken, Started
<1>4. SeenTypes'
  <2>1. generation' \in 0..MaxGenerations
    BY CacheAssumption DEF SelectInv, SeenTypes
  <2>2. prefill_len' \in [Layer -> 0..MaxPrompt]
    BY CacheAssumption DEF SelectInv, SeenTypes, PrefillLenAtStart
  <2>3. /\ part_key' \in [Layer -> SUBSET (1..MaxToken)] /\ idx' \subseteq Int
        /\ chosen' \in [SelectLayers -> SUBSET Int]
    OBVIOUS
  <2>4. QED
    BY <2>1, <2>2, <2>3 DEF SelectInv, SeenTypes
<1>5. PromptBounds' /\ WindowCounted'
  BY <1>2, <1>3, Constants DEF PromptBounds, WindowCounted
<1>6. Shorts' /\ SelectedSoFar' /\ SparselyAttended'
  <2>1. idx' = {} /\ \A l \in Layer : part_key'[l] = {}
    OBVIOUS
  <2>2. QED
    BY <1>2, <1>3, <2>1 DEF Shorts, SelectedSoFar, SparselyAttended, SparseAttention
<1>7. QED
  BY <1>1, <1>4, <1>5, <1>6 DEF SelectInv

\* The start of the next forward of a generation.
LEMMA NextForwardSelects ==
  ASSUME SelectInv, NextChunk \/ NextToken
  PROVE  SelectInv'
<1>1. CacheInv /\ CacheInv'
  BY NextForwardKeeps DEF SelectInv
<1>2. /\ layer = NumLayers /\ layer' = 0 /\ fed' = tokens /\ prompt' = prompt
      /\ generation' = generation /\ part_key' = part_key /\ idx' = idx
      /\ attended' = attended /\ chosen' = [s \in SelectLayers |-> {}]
      /\ prefill_len' = prefill_len /\ decode_step' = decode_step
      /\ stage' \in {"decoding", stage} /\ raised' = raised
  BY DEF NextChunk, NextToken, cacheVars, layerVars
<1>3. /\ tokens \in Nat /\ fed \in Nat /\ tokens >= 1 /\ fed < tokens
      /\ prompt \in Nat /\ ~raised /\ (prompt = 1 => OneToken) /\ prompt >= 1
  <2>1. CASE NextChunk
    BY <1>1, <2>1, Constants DEF NextChunk, CacheInv, Types, Feeding
  <2>2. CASE NextToken
    BY <1>1, <2>2, Constants DEF NextToken, CacheInv, Types, Feeding
  <2>3. QED
    BY <2>1, <2>2
<1>4. \A l \in Layer : l < layer /\ ~(l < layer') /\ Started(l) /\ prefill_len[l] \in Nat
  BY <1>1, <1>2, <1>3, Constants DEF Started, CacheInv, Types
<1>5. ~OneToken => \A l \in Layer : prefill_len[l] = tokens
  BY <1>1, <1>3, <1>4 DEF CacheInv, Counted
<1>6. /\ NextChunk => tokens' \in Nat /\ tokens' <= prompt /\ tokens <= prompt /\ ~OneToken
      /\ NextToken => tokens' = tokens + 1
  <2>1. CASE NextChunk
    <3>1. ~OneToken /\ tokens < prompt
      BY <1>1, <1>2, <1>3, <2>1, Constants DEF CacheInv, Feeding, NextChunk
    <3>2. tokens' \in Nat /\ tokens' <= prompt
      BY <1>3, <2>1, Constants DEF NextChunk, AtMost
    <3>3. ~NextToken
      BY <1>3, <3>1 DEF NextToken
    <3>4. QED
      BY <1>3, <3>1, <3>2, <3>3
  <2>2. CASE NextToken
    BY <1>3, <2>2 DEF NextToken, NextChunk
  <2>3. QED
    BY <2>1, <2>2
<1>7. SeenTypes'
  <2>1. chosen' \in [SelectLayers -> SUBSET Int]
    BY <1>2
  <2>2. QED
    BY <1>2, <2>1 DEF SelectInv, SeenTypes
<1>8. PromptBounds'
  <2>1. stage' \in {"prefill", "decoding"}
    BY <1>2 DEF SelectInv, PromptBounds
  <2>2. ~OneToken' => tokens' <= prompt'
    BY <1>2, <1>3, <1>6 DEF OneToken
  <2>3. prompt >= 2 => \A l \in Layer : prefill_len[l] <= prompt
    <3>1. CASE OneToken
      BY <3>1 DEF SelectInv, PromptBounds
    <3>2. CASE ~OneToken
      BY <1>5, <3>2 DEF SelectInv, PromptBounds
    <3>3. QED
      BY <3>1, <3>2
  <2>4. QED
    BY <1>2, <2>1, <2>2, <2>3 DEF PromptBounds
<1>9. WindowCounted'
  <2> SUFFICES ASSUME NEW s \in SelectLayers, WindowSize > 0, prompt >= 2
               PROVE  decode_step[s] = IF ~OneToken' THEN 1 ELSE tokens' - prefill_len[s]
    <3>1. \A s \in SelectLayers : ~(s < layer')
      BY <1>4, Constants
    <3>2. /\ prefill_len' = prefill_len /\ decode_step' = decode_step
      BY <1>2
    <3>3. ASSUME NEW s \in SelectLayers
          PROVE  tokens' - prefill_len[s] + 0 = tokens' - prefill_len[s]
      <4>1. tokens' \in Nat /\ prefill_len[s] \in Nat
        BY <1>3, <1>4, <1>6, Constants
      <4>2. QED
        BY <4>1
    <3>4. QED
      BY <1>2, <3>1, <3>2, <3>3 DEF WindowCounted
  <2>1. s \in Layer /\ s < layer /\ Started(s) /\ prefill_len[s] \in Nat
    BY <1>4, Constants
  <2>2. decode_step[s] = IF ~OneToken THEN 1 ELSE tokens - prefill_len[s] + 1
    BY <2>1 DEF SelectInv, WindowCounted
  <2>3. ~OneToken => prefill_len[s] = tokens
    BY <1>5, <2>1
  <2>4. OneToken' => tokens' = tokens + 1
    BY <1>2 DEF OneToken
  <2>5. ~OneToken' => ~OneToken
    BY <1>2, <1>3, <1>6 DEF OneToken
  <2>6. QED
    BY <1>3, <2>1, <2>2, <2>3, <2>4, <2>5
<1>10. Shorts' /\ SelectedSoFar' /\ SparselyAttended'
  <2>1. \A s \in SelectLayers : ~(s < layer')
    BY <1>4, Constants
  <2>2. prompt = 1 => \A l \in Layer : ~Offloaded(l)
    BY <1>3, <1>4 DEF SelectInv, Shorts, Short
  <2>3. fed' # 0
    BY <1>2, <1>3
  <2>4. Shorts'
    BY <1>2, <1>3, <1>4, <2>1, <2>2, <2>3 DEF Shorts
  <2>5. QED
    BY <1>2, <2>1, <2>4 DEF SelectedSoFar, SparselyAttended, SparseAttention
<1>11. QED
  BY <1>1, <1>7, <1>8, <1>9, <1>10 DEF SelectInv

\* The forward of a layer that is given several tokens.
LEMMA PromptLayerSelects ==
  ASSUME SelectInv, PromptLayer
  PROVE  SelectInv'
<1>1. CacheInv /\ CacheInv' /\ LayerDone
  BY LayerDoneKeeps DEF SelectInv, LayerDone
<1>2. /\ layer \in Layer /\ layer' = layer + 1 /\ ~OneToken /\ ~OneToken'
      /\ ~raised /\ raised' = raised
      /\ UNCHANGED <<generation, prompt, fed, tokens, stage, idx, chosen>>
      /\ CountPrompt(layer) /\ Update(layer)
  BY <1>1, LayerRuns DEF PromptLayer, OneToken
<1>3. /\ fed \in Nat /\ tokens \in Nat /\ fed < tokens /\ tokens <= prompt
      /\ tokens <= MaxToken /\ MaxToken \in Nat /\ MaxPrompt \in Nat /\ prompt \in 0..MaxPrompt
      /\ prompt >= 2
  BY <1>1, <1>2, LayerRuns, TokenBounds, Constants DEF SelectInv, PromptBounds, CacheInv, Feeding
<1>4. Chunk \in Seq(1..MaxToken)
  BY <1>3, RangeTyped DEF Chunk
<1>5. \A l \in Layer : key_cache'[l] \in Seq(1..MaxToken)
  BY <1>1, NextEntriesAreTokens
<1>6. /\ attended' \in [part : SUBSET (1..MaxToken), rest : Seq(1..MaxToken)]
      /\ part_key' = part_key
  <2>1. CASE ~Offloaded(layer)
    BY <1>2, <1>5, <2>1 DEF Update, AttendAll
  <2>2. CASE Offloaded(layer)
    <3>1. stage = "prefill"
      BY <1>1, <1>2 DEF CacheInv, Stages
    <3>2. OffloadChunk(layer)
      BY <1>2, <2>2, <3>1 DEF Update
    <3>3. QED
      BY <1>2, <1>4, <1>5, <3>2 DEF OffloadChunk
  <2>3. QED
    BY <2>1, <2>2
<1>7. SeenTypes'
  <2>1. prefill_len'[layer] = tokens
    <3>1. PICK l \in Layer : l = layer
      BY <1>2
    <3>2. Started(l)' /\ l < layer'
      BY <1>2, <1>3, <3>1, Constants DEF Started
    <3>3. prefill_len'[l] = tokens
      BY <1>1, <1>2, <1>3, <3>2 DEF CacheInv, Counted
    <3>4. QED
      BY <3>1, <3>3
  <2>2. \A l \in Layer : l # layer => prefill_len'[l] = prefill_len[l]
    BY <1>1, <1>2 DEF CountPrompt, CacheInv, Types
  <2>3. prefill_len' \in [Layer -> Nat]
    BY <1>1 DEF CacheInv, Types
  <2>4. prefill_len' \in [Layer -> 0..MaxPrompt]
    <3>1. \A l \in Layer : prefill_len[l] \in 0..MaxPrompt
      BY DEF SelectInv, SeenTypes
    <3>2. \A l \in Layer : prefill_len'[l] \in 0..MaxPrompt
      BY <1>3, <2>1, <2>2, <3>1
    <3>3. QED
      BY <2>3, <3>2
  <2>5. QED
    BY <1>2, <1>6, <2>4 DEF SelectInv, SeenTypes
<1>8. PromptBounds'
  BY <1>2 DEF SelectInv, PromptBounds
<1>9. WindowCounted'
  <2> SUFFICES ASSUME NEW s \in SelectLayers, WindowSize > 0, Started(s)'
               PROVE  decode_step'[s] = 1
    BY <1>2 DEF WindowCounted
  <2>1. s \in Layer /\ decode_step \in [Layer -> Nat]
    BY <1>1, Constants DEF CacheInv, Types
  <2>2. CASE s = layer
    BY <1>2, <2>1, <2>2 DEF CountPrompt
  <2>3. CASE s # layer
    <3>1. Started(s)
      BY <1>2, <2>1, <2>3, Constants DEF Started
    <3>2. decode_step[s] = 1
      BY <1>2, <1>3, <3>1 DEF SelectInv, WindowCounted
    <3>3. decode_step'[s] = decode_step[s]
      BY <1>2, <2>1, <2>3 DEF CountPrompt
    <3>4. QED
      BY <3>2, <3>3
  <2>4. QED
    BY <2>2, <2>3
<1>10. Shorts' /\ SelectedSoFar' /\ SparselyAttended'
  BY <1>2, <1>3 DEF Shorts, SelectedSoFar, SparselyAttended, SparseAttention
<1>11. QED
  BY <1>1, <1>7, <1>8, <1>9, <1>10 DEF SelectInv

\* While one token is fed, the layers that have not run count as before, and no
\* layer changes the count of the prompt.
LEMMA OneTokenCounts ==
  ASSUME SelectInv, SelectLayer \/ DecodeLayer
  PROVE  /\ CacheInv /\ CacheInv' /\ OneToken /\ OneToken'
         /\ layer \in Layer /\ layer' = layer + 1
         /\ UNCHANGED <<generation, prompt, fed, tokens, prefill_len>>
         /\ ~raised /\ ~raised' /\ (Short' <=> Short)
         /\ prompt \in Nat /\ prompt >= 1 /\ (~Short => prompt >= 2)
         /\ stage' \in {"prefill", "decoding"}
         /\ PromptBounds'
         /\ \A l \in Layer : /\ prefill_len[l] \in Nat
                             /\ prompt >= 2 => /\ prefill_len[l] <= prompt
                                               /\ prefill_len[l] <= fed
                                               /\ Started(l) /\ Started(l)'
                             /\ l < layer' <=> l < layer \/ l = layer
<1>1. CacheInv /\ CacheInv' /\ LayerDone
  BY LayerDoneKeeps DEF SelectInv, LayerDone
<1>2. /\ layer \in Layer /\ layer' = layer + 1 /\ OneToken /\ OneToken'
      /\ UNCHANGED <<generation, prompt, fed, tokens, prefill_len, raised>> /\ ~raised
  BY <1>1, LayerRuns DEF SelectLayer, DecodeLayer, Selects, OneToken, layerVars
<1>3. stage' \in {"prefill", "decoding"}
  BY DEF SelectLayer, DecodeLayer, SelectInv, PromptBounds
<1>4. /\ fed \in Nat /\ tokens \in Nat /\ tokens > 0 /\ prompt \in Nat /\ prompt >= 1
      /\ prompt >= 2 => fed > 0
      /\ ~Short => prompt >= 2
  BY <1>1, <1>2, LongPrompt
<1>5. \A l \in Layer : prefill_len[l] \in Nat /\ (prompt >= 2 => prefill_len[l] <= prompt)
  BY <1>1, <1>2 DEF SelectInv, PromptBounds, CacheInv, Types
<1>6. PromptBounds' /\ (Short' <=> Short)
  BY <1>2, <1>3, <1>5 DEF PromptBounds, Short
<1>7. prompt >= 2 => \A l \in Layer : Started(l) /\ Started(l)'
  BY <1>2, <1>4 DEF Started
<1>8. prompt >= 2 => \A l \in Layer : prefill_len[l] <= fed
  BY <1>1, <1>2, <1>7 DEF CacheInv, Counted
<1>9. \A l \in Layer : l < layer' <=> l < layer \/ l = layer
  BY <1>2, Constants
<1>10. QED
  BY <1>1, <1>2, <1>3, <1>4, <1>5, <1>6, <1>7, <1>8, <1>9

\* A selecting layer chooses for its group, for this very token.
LEMMA SelectLayerSelects ==
  ASSUME SelectInv, SelectLayer
  PROVE  SelectInv'
<1>1. /\ CacheInv /\ CacheInv' /\ OneToken /\ OneToken'
      /\ layer \in Layer /\ layer' = layer + 1
      /\ UNCHANGED <<generation, prompt, fed, tokens, prefill_len>>
      /\ ~raised /\ ~raised' /\ (Short' <=> Short)
      /\ prompt \in Nat /\ prompt >= 1 /\ (~Short => prompt >= 2)
      /\ stage' \in {"prefill", "decoding"} /\ PromptBounds'
      /\ \A l \in Layer : /\ prefill_len[l] \in Nat
                          /\ prompt >= 2 => Started(l) /\ Started(l)'
                          /\ l < layer' <=> l < layer \/ l = layer
  BY OneTokenCounts
<1>2. layer < NumLayers /\ layer \in SelectLayers /\ ~Offloaded(layer) /\ ~CannotScore(layer)
  BY SelectingIsFull DEF SelectLayer, Selects
<1>3. PICK S \in Selections(layer) :
        /\ SetIdxOnGpu(layer, S) /\ chosen' = [chosen EXCEPT ![layer] = S]
        /\ Indexable(layer, S)
  BY DEF SelectLayer
<1>4. ASSUME ~Short
      PROVE  /\ S # {} /\ S \subseteq 1..prefill_len[layer]
             /\ \A t \in 1..prefill_len[layer] : t > tokens - WindowSize => t \in S
  BY <1>1, <1>2, <1>4, SelectionHasWindow
<1>5. S \subseteq Int
  BY SelectionShape
<1>6. ASSUME Packed, NEW i \in Group(layer) PROVE IndexSelect(key_cache[i], S) \in SUBSET (1..MaxToken)
  <2>1. i \in Layer /\ S \in SUBSET (DOMAIN key_cache[i])
    BY <1>2, <1>3, <1>6, GroupIsOffloaded DEF Indexable
  <2>2. key_cache[i] \in Seq(1..MaxToken)
    BY <1>1, <2>1, EntriesAreTokens
  <2>3. QED
    BY <2>1, <2>2, SelectedAreTokens
<1>7. ASSUME ~Short, NEW i \in Group(layer) PROVE IndexSelect(key_cache[i], S) = S
  <2>1. i \in Layer /\ Offloaded(i)
    BY <1>2, GroupIsOffloaded
  <2>2. QED
    BY <1>1, <1>4, <1>7, <2>1, OffloadedEntries
<1>8. /\ Packed => part_key' = [i \in Layer |-> IF i \in Group(layer)
                                               THEN IndexSelect(key_cache[i], S)
                                               ELSE part_key[i]]
      /\ ~Packed => idx' = S /\ part_key' = part_key
      /\ Packed => idx' = idx
  BY <1>3 DEF SetIdxOnGpu
<1>9. /\ part_key \in [Layer -> SUBSET (1..MaxToken)] /\ idx \subseteq Int
      /\ chosen \in [SelectLayers -> SUBSET Int]
  BY DEF SelectInv, SeenTypes
<1>10. /\ attended' = [part |-> {}, rest |-> key_cache'[layer]]
       /\ decode_step' = [decode_step EXCEPT ![layer] = @ + 1]
  BY DEF SelectLayer, AttendAll
<1>11. SeenTypes'
  <2>1. key_cache'[layer] \in Seq(1..MaxToken)
    BY <1>1, NextEntriesAreTokens
  <2>2. attended' \in [part : SUBSET (1..MaxToken), rest : Seq(1..MaxToken)]
    BY <1>10, <2>1
  <2>3. part_key' \in [Layer -> SUBSET (1..MaxToken)] /\ idx' \subseteq Int
    BY <1>5, <1>6, <1>8, <1>9
  <2>4. chosen' \in [SelectLayers -> SUBSET Int]
    BY <1>2, <1>3, <1>5, <1>9
  <2>5. QED
    BY <1>1, <2>2, <2>3, <2>4 DEF SelectInv, SeenTypes
<1>12. WindowCounted'
  <2> SUFFICES ASSUME NEW s \in SelectLayers, WindowSize > 0, prompt >= 2
               PROVE  decode_step'[s] = tokens - prefill_len[s]
                                        + (IF s < layer' THEN 1 ELSE 0)
    BY <1>1 DEF WindowCounted
  <2>1. s \in Layer /\ decode_step \in [Layer -> Nat] /\ tokens \in Nat /\ prefill_len[s] \in Nat
    BY <1>1, TokenBounds, Constants DEF CacheInv, Types
  <2>2. decode_step[s] = tokens - prefill_len[s] + (IF s < layer THEN 1 ELSE 0)
    BY <1>1, <2>1 DEF SelectInv, WindowCounted
  <2>3. CASE s = layer
    <3>1. ~(s < layer) /\ s < layer' /\ decode_step'[s] = decode_step[s] + 1
      BY <1>1, <1>10, <2>1, <2>3, Constants
    <3>2. QED
      BY <2>1, <2>2, <3>1
  <2>4. CASE s # layer
    BY <1>1, <1>10, <2>1, <2>2, <2>4
  <2>5. QED
    BY <2>3, <2>4
<1>13. SelectedSoFar'
  <2> SUFFICES ASSUME NEW s \in SelectLayers, s < layer', ~Short
               PROVE  /\ chosen'[s] # {} /\ chosen'[s] \subseteq 1..prefill_len[s]
                      /\ \A t \in 1..prefill_len[s] : t > tokens - WindowSize => t \in chosen'[s]
                      /\ Packed => \A i \in Group(s) : part_key'[i] = chosen'[s]
                      /\ ~Packed => \/ idx' = chosen'[s]
                                    \/ \E r \in SelectLayers : s < r /\ r < layer'
    BY <1>1 DEF SelectedSoFar
  <2>1. s \in Layer /\ layer \in SelectLayers /\ layer < layer'
    BY <1>1, <1>2, Constants
  <2>2. CASE s = layer
    <3>1. chosen'[s] = S
      BY <1>2, <1>3, <1>9, <2>2
    <3>2. Packed => \A i \in Group(s) : part_key'[i] = S
      BY <1>2, <1>7, <1>8, <2>2, GroupIsOffloaded
    <3>3. QED
      BY <1>4, <1>8, <2>2, <3>1, <3>2
  <2>3. CASE s # layer
    <3>1. s < layer
      BY <1>1, <2>1, <2>3
    <3>2. chosen'[s] = chosen[s]
      BY <1>3, <1>9, <2>3
    <3>3. /\ chosen[s] # {} /\ chosen[s] \subseteq 1..prefill_len[s]
          /\ \A t \in 1..prefill_len[s] : t > tokens - WindowSize => t \in chosen[s]
          /\ Packed => \A i \in Group(s) : part_key[i] = chosen[s]
      BY <1>1, <3>1 DEF SelectInv, SelectedSoFar
    <3>4. ASSUME Packed, NEW i \in Group(s) PROVE part_key'[i] = part_key[i]
      <4>1. i \in Layer /\ IsLeft(s, i)
        BY GroupIsOffloaded
      <4>2. i \notin Group(layer)
        BY <1>1, <2>1, <2>3, <4>1, OneLeft DEF Group
      <4>3. QED
        BY <1>8, <3>4, <4>1, <4>2
    <3>5. QED
      BY <2>1, <3>1, <3>2, <3>3, <3>4
  <2>4. QED
    BY <2>2, <2>3
<1>14. SparselyAttended'
  <2>1. layer' - 1 = layer
    BY <1>1, Constants
  <2>2. ~SparseAttention'
    BY <1>2, <2>1 DEF SparseAttention, Offloaded, IsLeft
  <2>3. QED
    BY <2>2 DEF SparselyAttended
<1>15. Shorts'
  <2>1. ~(prompt = 1 /\ fed = 0)
    <3>1. tail_k[layer] = <<>> /\ key_cache[layer] \in Seq(Nat)
      BY <1>1, <1>2 DEF CacheInv, Tails, Types
    <3>2. key_cache[layer] \o tail_k[layer] = TokenRange(1, fed)
      <4>1. ~(layer < layer)
        BY <1>1, Constants
      <4>2. QED
        BY <1>1, <4>1 DEF CacheInv, Retained
    <3>3. key_cache[layer] = TokenRange(1, fed)
      BY <3>1, <3>2, ConcatEmptySeq
    <3>4. key_cache[layer] # <<>>
      BY <1>2 DEF CannotScore
    <3>5. QED
      BY <3>3, <3>4, RangeEmpty
  <2>2. ASSUME Short, NEW l \in Layer, l < layer' PROVE ~Offloaded(l)
    BY <1>1, <1>2, <2>2 DEF SelectInv, Shorts
  <2>3. ASSUME prompt >= 2, Short, NEW s \in SelectLayers, s < layer'
        PROVE  IF Packed THEN Group(s) = {} ELSE \E x \in idx' : x < 1
    <3>1. tokens < WindowSize
      BY <2>3 DEF Short
    <3>2. /\ ConsiderLen(layer) \in Int /\ ConsiderLen(layer) < 0
          /\ prefill_len[layer] \in Nat
      BY <1>1, <1>2, <2>3, <3>1, LayerScores DEF SelectInv
    <3>3. ConsiderLen(layer) + 1 \in (ConsiderLen(layer) + 1)..prefill_len[layer]
      BY <3>2
    <3>4. ConsiderLen(layer) + 1 \in S /\ ConsiderLen(layer) + 1 < 1
      BY <3>2, <3>3, SelectionShape
    <3>5. CASE ~Packed
      BY <1>8, <3>4, <3>5
    <3>6. CASE Packed /\ s # layer
      <4>1. s < layer
        BY <1>1, <2>3, <3>6, Constants
      <4>2. QED
        BY <1>1, <2>3, <3>6, <4>1 DEF SelectInv, Shorts
    <3>7. CASE Packed /\ s = layer
      <4>1. ASSUME NEW i \in Group(layer) PROVE FALSE
        <5>1. i \in Layer /\ ConsiderLen(layer) + 1 \in DOMAIN key_cache[i]
          BY <1>2, <1>3, <3>4, <3>7, GroupIsOffloaded DEF Indexable
        <5>2. key_cache[i] \in Seq(Nat)
          BY <1>1, <5>1 DEF CacheInv, Types
        <5>3. DOMAIN key_cache[i] = 1..Len(key_cache[i])
          BY <5>2, LenProperties
        <5>4. QED
          BY <3>2, <3>4, <5>1, <5>3
      <4>2. QED
        BY <3>7, <4>1
    <3>8. QED
      BY <3>5, <3>6, <3>7
  <2>4. prompt = 1 /\ fed > 0 => \A l \in Layer : ~Offloaded(l)
    BY DEF SelectInv, Shorts
  <2>5. QED
    BY <1>1, <2>1, <2>2, <2>3, <2>4 DEF Shorts
<1>16. QED
  BY <1>1, <1>11, <1>12, <1>13, <1>14, <1>15 DEF SelectInv

\* An offloaded layer that decodes has had enough tokens.
LEMMA OffloadedIsLong ==
  ASSUME SelectInv, OneToken, layer \in Layer, Offloaded(layer), ~UpdateRaises(layer)
  PROVE  ~Short
<1> SUFFICES ASSUME Short PROVE FALSE
  OBVIOUS
<1>1. CacheInv /\ Shorts
  BY DEF SelectInv
<1>2. /\ fed \in Nat /\ tokens \in Nat /\ prompt \in Nat /\ prompt >= 1
      /\ prompt = 1 => stage = "decoding"
  BY <1>1, LongPrompt
<1>3. PICK s \in SelectLayers : IsLeft(s, layer) /\ layer \in Group(s) /\ s < layer
  BY OffloadedHasGroup
<1>4. stage # "prefill"
  BY <1>1, <1>3 DEF CacheInv, Stages
<1>5. CASE prompt = 1
  <2>1. fed = 0
    BY <1>1, <1>2, <1>5 DEF Shorts
  <2>2. idx = {} /\ part_key[layer] = {}
    BY <1>1, <1>5, <2>1 DEF Shorts
  <2>3. QED
    BY <1>4, <2>2 DEF UpdateRaises
<1>6. CASE prompt >= 2
  <2>1. IF Packed THEN Group(s) = {} ELSE \E x \in idx : x < 1
    BY <1>1, <1>3, <1>6 DEF Shorts
  <2>2. ~Packed
    BY <1>3, <2>1
  <2>3. PICK x \in idx : x < 1
    BY <2>1, <2>2
  <2>4. key_cache[layer] \in Seq(Nat)
    BY <1>1 DEF CacheInv, Types
  <2>5. DOMAIN key_cache[layer] = 1..Len(key_cache[layer])
    BY <2>4, LenProperties
  <2>6. x \notin DOMAIN key_cache[layer]
    BY <2>3, <2>5
  <2>7. QED
    BY <1>4, <2>2, <2>3, <2>6 DEF UpdateRaises
<1>7. QED
  BY <1>2, <1>5, <1>6

\* What an offloaded layer attends to while it decodes.
LEMMA OffloadedAttends ==
  ASSUME SelectInv, DecodeLayer, Offloaded(layer)
  PROVE  \E s \in SelectLayers :
           /\ IsLeft(s, layer)
           /\ chosen[s] \subseteq 1..prefill_len[s] /\ prefill_len[s] \in Nat
           /\ prefill_len[s] <= prompt /\ prefill_len[s] <= fed
           /\ attended' = [part |-> chosen[s], rest |-> TokenRange(prefill_len[s] + 1, tokens)]
           /\ attended'.rest = tail_k'[layer]
           /\ part_key' = IF Packed THEN part_key
                          ELSE [part_key EXCEPT ![layer] = chosen[s]]
<1>1. /\ CacheInv /\ CacheInv' /\ OneToken /\ OneToken'
      /\ layer \in Layer /\ layer' = layer + 1
      /\ UNCHANGED <<generation, prompt, fed, tokens, prefill_len>>
      /\ ~Short /\ prompt >= 2
      /\ \A l \in Layer : prefill_len[l] \in Nat /\ prefill_len[l] <= prompt
                         /\ prefill_len[l] <= fed
  BY OneTokenCounts, OffloadedIsLong DEF DecodeLayer
<1>2. PICK s \in SelectLayers : IsLeft(s, layer) /\ layer \in Group(s) /\ s < layer
  BY <1>1, OffloadedHasGroup
<1>3. /\ s \in Layer /\ prefill_len[s] \in Nat /\ prefill_len[s] <= prompt
      /\ prefill_len[s] <= fed
  BY <1>1, Constants
<1>4. stage # "prefill"
  BY <1>1, <1>2 DEF CacheInv, Stages
<1>5. AttendPartAndTail(layer)
  BY <1>4 DEF DecodeLayer, Update
<1>6. prefill_len[layer] = prefill_len[s]
  BY <1>1, <1>3 DEF CacheInv, CountsAgree
<1>7. key_cache[layer] = TokenRange(1, prefill_len[s])
  BY <1>1, <1>6, OffloadedHolds
<1>8. tail_k'[layer] = TokenRange(prefill_len[s] + 1, tokens)
  <2>1. layer < layer'
    BY <1>1, Constants
  <2>2. QED
    BY <1>1, <1>6, <2>1, NextOffloadedHold
<1>9. /\ chosen[s] \subseteq 1..prefill_len[s]
      /\ Packed => part_key[layer] = chosen[s]
      /\ ~Packed => idx = chosen[s] \/ \E r \in SelectLayers : s < r /\ r < layer
  BY <1>1, <1>2 DEF SelectInv, SelectedSoFar
<1>10. ~\E r \in SelectLayers : s < r /\ r < layer
  BY <1>1, <1>2, <1>3, Constants DEF IsLeft, FullAttn
<1>11. IndexSelect(key_cache[layer], chosen[s]) = chosen[s]
  BY <1>3, <1>7, <1>9, SelectOwnNumbers
<1>12. part_key' = IF Packed THEN part_key ELSE [part_key EXCEPT ![layer] = chosen[s]]
  BY <1>5, <1>9, <1>10, <1>11 DEF AttendPartAndTail
<1>13. part_key \in [Layer -> SUBSET (1..MaxToken)]
  BY DEF SelectInv, SeenTypes
<1>14. part_key'[layer] = chosen[s]
  BY <1>1, <1>9, <1>12, <1>13
<1>15. attended' = [part |-> chosen[s], rest |-> tail_k'[layer]]
  BY <1>5, <1>14 DEF AttendPartAndTail
<1>16. QED
  BY <1>2, <1>3, <1>8, <1>9, <1>12, <1>15

\* Another layer that is given one token leaves the selections as they are.
LEMMA DecodeLayerSelects ==
  ASSUME SelectInv, DecodeLayer
  PROVE  SelectInv'
<1>1. /\ CacheInv /\ CacheInv' /\ OneToken /\ OneToken'
      /\ layer \in Layer /\ layer' = layer + 1
      /\ UNCHANGED <<generation, prompt, fed, tokens, prefill_len>>
      /\ ~raised /\ ~raised' /\ (Short' <=> Short)
      /\ prompt \in Nat /\ prompt >= 1 /\ (~Short => prompt >= 2)
      /\ PromptBounds'
      /\ \A l \in Layer : /\ prefill_len[l] \in Nat
                          /\ prompt >= 2 => Started(l) /\ Started(l)'
                          /\ l < layer' <=> l < layer \/ l = layer
  BY OneTokenCounts
<1>2. /\ prompt >= 2 => layer \notin SelectLayers
      /\ Update(layer) /\ ~UpdateRaises(layer)
      /\ chosen' = chosen /\ idx' = idx /\ decode_step' = decode_step
  <2>1. prompt >= 2 => fed > 0
    BY <1>1, LongPrompt
  <2>2. ~Selects(layer)
    BY DEF DecodeLayer
  <2>3. prompt >= 2 => layer \notin SelectLayers
    BY <1>1, <2>1, <2>2 DEF Selects
  <2>4. QED
    BY <2>3 DEF DecodeLayer, layerVars
<1>3. /\ part_key \in [Layer -> SUBSET (1..MaxToken)] /\ idx \subseteq Int
      /\ chosen \in [SelectLayers -> SUBSET Int]
  BY DEF SelectInv, SeenTypes
<1>4. /\ attended' \in [part : SUBSET (1..MaxToken), rest : Seq(1..MaxToken)]
      /\ part_key' \in [Layer -> SUBSET (1..MaxToken)]
      /\ Packed \/ ~Offloaded(layer) => part_key' = part_key
  <2>1. key_cache'[layer] \in Seq(1..MaxToken) /\ tail_k'[layer] \in Seq(1..MaxToken)
    BY <1>1, NextEntriesAreTokens
  <2>2. CASE Offloaded(layer)
    <3>1. PICK s \in SelectLayers :
            /\ chosen[s] \subseteq 1..prefill_len[s] /\ prefill_len[s] \in Nat
            /\ prefill_len[s] <= prompt
            /\ attended' = [part |-> chosen[s], rest |-> TokenRange(prefill_len[s] + 1, tokens)]
            /\ attended'.rest = tail_k'[layer]
            /\ part_key' = IF Packed THEN part_key
                           ELSE [part_key EXCEPT ![layer] = chosen[s]]
      BY <2>2, OffloadedAttends
    <3>2. chosen[s] \in SUBSET (1..MaxToken)
      <4>1. prompt \in 0..MaxPrompt /\ MaxPrompt <= MaxToken /\ MaxToken \in Nat /\ MaxPrompt \in Nat
        BY <1>1, TokenBounds, Constants
      <4>2. \A t \in 1..prefill_len[s] : t \in 1..MaxToken
        BY <3>1, <4>1
      <4>3. QED
        BY <3>1, <4>2
    <3>3. /\ attended' \in [part : SUBSET (1..MaxToken), rest : Seq(1..MaxToken)]
          /\ part_key' \in [Layer -> SUBSET (1..MaxToken)]
      BY <1>1, <1>3, <2>1, <3>1, <3>2
    <3>4. QED
      BY <2>2, <3>1, <3>3
  <2>3. CASE ~Offloaded(layer)
    BY <1>2, <1>3, <2>1, <2>3 DEF Update, AttendAll
  <2>4. QED
    BY <2>2, <2>3
<1>5. SeenTypes'
  BY <1>1, <1>2, <1>3, <1>4 DEF SelectInv, SeenTypes
<1>6. prompt >= 2 => \A s \in SelectLayers : s < layer' <=> s < layer
  BY <1>1, <1>2, Constants
<1>7. WindowCounted'
  BY <1>1, <1>2, <1>6, Constants DEF SelectInv, WindowCounted
<1>8. SelectedSoFar'
  BY <1>1, <1>2, <1>4, <1>6 DEF SelectInv, SelectedSoFar
<1>9. SparselyAttended'
  <2>1. layer' - 1 = layer
    BY <1>1, Constants
  <2> SUFFICES ASSUME Offloaded(layer), NEW s \in SelectLayers, IsLeft(s, layer)
               PROVE  attended' = [part |-> chosen[s],
                                   rest |-> TokenRange(prefill_len[s] + 1, tokens)]
    BY <1>1, <1>2, <2>1 DEF SparselyAttended, SparseAttention, Offloaded, IsLeft
  <2>2. PICK r \in SelectLayers :
          /\ IsLeft(r, layer)
          /\ attended' = [part |-> chosen[r], rest |-> TokenRange(prefill_len[r] + 1, tokens)]
    BY OffloadedAttends
  <2>3. r = s
    BY <1>1, <2>2, Constants, OneLeft
  <2>4. QED
    BY <2>2, <2>3
<1>10. Shorts'
  <2>1. Offloaded(layer) => ~Short
    BY <1>1, <1>2, OffloadedIsLong
  <2>2. Short => \A l \in Layer : l < layer' => ~Offloaded(l)
    BY <1>1, <2>1 DEF SelectInv, Shorts
  <2>3. prompt = 1 /\ fed = 0 => idx' = {} /\ \A l \in Layer : part_key'[l] = {}
    <3>1. prompt = 1 => ~Offloaded(layer)
      BY <2>1 DEF Short
    <3>2. QED
      BY <1>2, <1>4, <3>1 DEF SelectInv, Shorts
  <2>4. prompt >= 2 /\ Short => \A s \in SelectLayers : s < layer' =>
          IF Packed THEN Group(s) = {} ELSE \E x \in idx' : x < 1
    BY <1>1, <1>2, <1>6 DEF SelectInv, Shorts
  <2>5. prompt = 1 /\ fed > 0 => \A l \in Layer : ~Offloaded(l)
    BY DEF SelectInv, Shorts
  <2>6. QED
    BY <1>1, <2>2, <2>3, <2>4, <2>5 DEF Shorts
<1>11. QED
  BY <1>1, <1>5, <1>7, <1>8, <1>9, <1>10 DEF SelectInv

\* An exception needs a short prompt: with enough tokens a selecting layer has tokens to
\* score and finds its indices in its group, and the group its part.
LEMMA RaisesIsShort ==
  ASSUME SelectInv, LayerRaises
  PROVE  Short
<1> SUFFICES ASSUME ~Short PROVE FALSE
  OBVIOUS
<1>1. /\ CacheInv /\ OneToken /\ layer \in Layer /\ layer < NumLayers
  <2>1. CacheInv /\ OneToken /\ layer < NumLayers
    BY DEF SelectInv, LayerRaises
  <2>2. layer \in Layer
    BY <2>1, Constants DEF CacheInv, Types
  <2>3. QED
    BY <2>1, <2>2
<1>2. /\ fed \in Nat /\ tokens \in Nat /\ prompt >= 2 /\ fed > 0 /\ tokens >= WindowSize
  BY <1>1, LongPrompt
<1>3. CASE Selects(layer)
  <2>1. layer \in SelectLayers
    BY <1>3 DEF Selects
  <2>2. /\ prefill_len[layer] \in Nat /\ prefill_len[layer] > 0
        /\ Len(key_cache[layer]) > 0
    BY <1>1, <1>2, <2>1, LayerScores DEF SelectInv
  <2>3. key_cache[layer] # <<>>
    BY <2>2
  <2>4. ~CannotScore(layer)
    BY <2>2, <2>3 DEF CannotScore
  <2>5. PICK S \in Selections(layer) : ~Indexable(layer, S)
    BY <1>3, <2>4 DEF LayerRaises
  <2>6. S \subseteq 1..prefill_len[layer]
    BY <1>1, <2>1, SelectionHasWindow
  <2>7. ASSUME NEW i \in Group(layer) PROVE S \subseteq DOMAIN key_cache[i]
    <3>1. i \in Layer /\ Offloaded(i)
      BY <2>1, GroupIsOffloaded
    <3>2. QED
      BY <1>1, <1>2, <2>6, <3>1, OffloadedEntries
  <2>8. QED
    BY <2>5, <2>7 DEF Indexable
<1>4. CASE ~Selects(layer)
  <2>1. UpdateRaises(layer)
    BY <1>4 DEF LayerRaises
  <2>2. Offloaded(layer)
    BY <2>1 DEF UpdateRaises
  <2>3. PICK s \in SelectLayers : IsLeft(s, layer) /\ layer \in Group(s) /\ s < layer
    BY <1>1, <2>2, OffloadedHasGroup
  <2>4. s \in Layer
    BY Constants
  <2>5. /\ chosen[s] # {} /\ chosen[s] \subseteq 1..prefill_len[s]
        /\ Packed => part_key[layer] = chosen[s]
        /\ ~Packed => idx = chosen[s] \/ \E r \in SelectLayers : s < r /\ r < layer
    BY <1>1, <2>3 DEF SelectInv, SelectedSoFar
  <2>6. ~\E r \in SelectLayers : s < r /\ r < layer
    BY <1>1, <2>3, <2>4, Constants DEF IsLeft, FullAttn
  <2>7. DOMAIN key_cache[layer] = 1..prefill_len[s]
    BY <1>1, <1>2, <2>2, <2>4, OffloadedEntries
  <2>8. QED
    BY <2>1, <2>5, <2>6, <2>7 DEF UpdateRaises
<1>5. QED
  BY <1>3, <1>4

LEMMA RaisesSelects ==
  ASSUME AttendInv, LayerRaises
  PROVE  AttendInv'
<1>1. /\ CacheInv' /\ Short
      /\ UNCHANGED <<generation, prompt, fed, tokens, layer, cacheVars, layerVars, seenVars>>
  BY RaisesKeeps, RaisesIsShort DEF AttendInv, SelectInv, LayerRaises
<1>2. SeenTypes' /\ PromptBounds' /\ WindowCounted' /\ AttendedInOrder'
  BY <1>1 DEF cacheVars, layerVars, seenVars, AttendInv, SelectInv, SeenTypes,
              PromptBounds, WindowCounted, Started, OneToken, AttendedInOrder
<1>3. SelectedSoFar' /\ SparselyAttended'
  BY <1>1 DEF cacheVars, layerVars, seenVars, AttendInv, SelectInv, SelectedSoFar,
              SparselyAttended, SparseAttention, OneToken, Short, Offloaded, IsLeft
<1>4. Shorts'
  BY <1>1 DEF cacheVars, layerVars, seenVars, AttendInv, SelectInv, Shorts, Short, OneToken
<1>5. QED
  BY <1>1, <1>2, <1>3, <1>4 DEF AttendInv, SelectInv

\* A layer's key_cache is the first tokens.
LEMMA KeyCacheIsPrefix ==
  CacheInv => \A l \in Layer : \E n \in 0..MaxToken : key_cache[l] = TokenRange(1, n)
<1> SUFFICES ASSUME CacheInv, NEW l \in Layer
             PROVE  \E n \in 0..MaxToken : key_cache[l] = TokenRange(1, n)
  OBVIOUS
<1> USE DEF CacheInv
<1>1. /\ fed \in Nat /\ tokens \in Nat /\ fed <= tokens /\ tokens <= MaxToken
      /\ MaxToken \in Nat
  BY TokenBounds
<1>2. PICK m \in Nat : m = (IF l < layer THEN tokens ELSE fed) /\ m <= MaxToken
  BY <1>1
<1>3. /\ key_cache[l] \in Seq(Nat) /\ tail_k[l] \in Seq(Nat)
      /\ key_cache[l] \o tail_k[l] = TokenRange(1, m)
  BY <1>2 DEF Types, Retained
<1> DEFINE k == key_cache[l]
           t == tail_k[l]
<1> HIDE DEF k, t
<1>4. k \in Seq(Nat) /\ t \in Seq(Nat) /\ k \o t = TokenRange(1, m)
  BY <1>3 DEF k, t
<1>5. Len(k) \in Nat /\ Len(k) <= m /\ k = TokenRange(1, Len(k))
  BY <1>4, PiecesOfRange
<1>6. Len(k) \in 0..MaxToken
  BY <1>1, <1>2, <1>5
<1>7. QED
  BY <1>5, <1>6 DEF k

\* A step keeps what AttendedInOrder says.
LEMMA NextKeyCacheIsPrefix ==
  CacheInv' => \A l \in Layer : \E n \in 0..MaxToken : key_cache'[l] = TokenRange(1, n)
<1>1. (CacheInv => \A l \in Layer : \E n \in 0..MaxToken : key_cache[l] = TokenRange(1, n))'
  BY KeyCacheIsPrefix, PTL
<1>2. QED
  BY <1>1

LEMMA RunAttendsInOrder ==
  ASSUME SelectInv, LayerDone
  PROVE  AttendedInOrder'
<1>1. /\ CacheInv /\ CacheInv' /\ layer \in Layer
      /\ fed \in 0..MaxToken /\ tokens \in 0..MaxToken /\ fed < tokens
      /\ MaxToken \in Nat /\ MaxPrompt \in Nat /\ MaxPrompt <= MaxToken /\ prompt \in 0..MaxPrompt
  BY LayerDoneKeeps, LayerRuns, TokenBounds, Constants DEF SelectInv
<1>2. PICK n \in 0..MaxToken : key_cache'[layer] = TokenRange(1, n)
  BY <1>1, NextKeyCacheIsPrefix
<1>3. ASSUME \/ attended' = [part |-> {}, rest |-> Chunk]
             \/ attended' = [part |-> {}, rest |-> key_cache'[layer]]
      PROVE  AttendedInOrder'
  <2>1. CASE attended' = [part |-> {}, rest |-> Chunk]
    <3>1. fed <= tokens /\ attended'.part \subseteq 1..fed
          /\ attended'.rest = TokenRange(fed + 1, tokens)
      BY <1>1, <2>1 DEF Chunk
    <3>2. QED
      BY <1>1, <3>1 DEF AttendedInOrder
  <2>2. CASE attended' = [part |-> {}, rest |-> key_cache'[layer]]
    <3>1. 0 <= n /\ attended'.part \subseteq 1..0 /\ attended'.rest = TokenRange(0 + 1, n)
          /\ 0 \in 0..MaxToken
      BY <1>1, <1>2, <2>2
    <3>2. QED
      BY <3>1 DEF AttendedInOrder
  <2>3. QED
    BY <1>3, <2>1, <2>2
<1>4. CASE ~Offloaded(layer)
  <2>1. attended' = [part |-> {}, rest |-> key_cache'[layer]]
    BY <1>4 DEF LayerDone, PromptLayer, SelectLayer, DecodeLayer, Update, AttendAll
  <2>2. QED
    BY <1>3, <2>1
<1>5. CASE Offloaded(layer) /\ PromptLayer
  <2>1. stage = "prefill"
    BY <1>1, <1>5 DEF PromptLayer, CacheInv, Stages
  <2>2. OffloadChunk(layer)
    BY <1>5, <2>1 DEF PromptLayer, Update
  <2>3. QED
    BY <1>3, <2>2 DEF OffloadChunk
<1>6. CASE Offloaded(layer) /\ DecodeLayer
  <2>1. PICK s \in SelectLayers :
          /\ chosen[s] \subseteq 1..prefill_len[s] /\ prefill_len[s] \in Nat
          /\ prefill_len[s] <= fed
          /\ attended' = [part |-> chosen[s], rest |-> TokenRange(prefill_len[s] + 1, tokens)]
    BY <1>6, OffloadedAttends
  <2>2. /\ prefill_len[s] \in 0..MaxToken /\ prefill_len[s] <= tokens
        /\ attended'.part \subseteq 1..prefill_len[s]
        /\ attended'.rest = TokenRange(prefill_len[s] + 1, tokens)
    BY <1>1, <2>1
  <2>3. QED
    BY <1>1, <2>2 DEF AttendedInOrder
<1>7. CASE Offloaded(layer) /\ SelectLayer
  BY <1>7, SelectingIsFull DEF SelectLayer, Selects
<1>8. QED
  BY <1>4, <1>5, <1>6, <1>7 DEF LayerDone

\* The invariant holds throughout: each offloaded layer finds the part its selecting
\* layer has chosen for this token, and what it attends to is in order.
THEOREM AttendInvCorrect == Spec => []AttendInv
<1>1. Init => AttendInv
  <2> SUFFICES ASSUME Init PROVE AttendInv
    OBVIOUS
  <2>1. /\ 0 \in 0..MaxToken /\ attended.part \subseteq 1..0
        /\ attended.rest = TokenRange(0 + 1, 0)
    BY RangeEmpty, TokenBounds DEF Init
  <2>2. AttendedInOrder
    BY <2>1 DEF AttendedInOrder
  <2>3. QED
    BY <2>2, SelectInvInit DEF AttendInv
<1>2. AttendInv /\ [Next]_vars => AttendInv'
  <2> SUFFICES ASSUME AttendInv, [Next]_vars PROVE AttendInv'
    OBVIOUS
  <2> USE DEF AttendInv
  <2>1. ASSUME NEW n \in 1..MaxPrompt, NewPrompt(n) PROVE AttendInv'
    <3>1. SelectInv' /\ attended' = attended
      BY <2>1, NewPromptSelects DEF NewPrompt
    <3>2. QED
      BY <3>1 DEF AttendedInOrder
  <2>2. CASE NextChunk \/ NextToken
    <3>1. SelectInv' /\ attended' = attended
      BY <2>2, NextForwardSelects DEF NextChunk, NextToken
    <3>2. QED
      BY <3>1 DEF AttendedInOrder
  <2>3. CASE LayerDone
    <3>1. SelectInv'
      BY <2>3, PromptLayerSelects, SelectLayerSelects, DecodeLayerSelects DEF LayerDone
    <3>2. QED
      BY <2>3, <3>1, RunAttendsInOrder
  <2>4. CASE UNCHANGED vars
    <3>1. CacheInv'
      BY <2>4 DEF vars, genVars, cacheVars, layerVars, seenVars, SelectInv, CacheInv, Types,
                  Feeding, Stages, Tails, Retained, Counted, CountsAgree, Started, OneToken
    <3>2. SeenTypes' /\ PromptBounds' /\ WindowCounted'
      BY <2>4 DEF vars, genVars, cacheVars, layerVars, seenVars, SelectInv, SeenTypes,
                  PromptBounds, WindowCounted, Started, OneToken
    <3>3. SelectedSoFar' /\ SparselyAttended' /\ AttendedInOrder'
      BY <2>4 DEF vars, genVars, cacheVars, layerVars, seenVars, SelectInv, SelectedSoFar,
                  SparselyAttended, SparseAttention, AttendedInOrder, OneToken, Short,
                  Offloaded, IsLeft
    <3>4. Shorts'
      BY <2>4 DEF vars, genVars, cacheVars, layerVars, SelectInv, Shorts, Short, OneToken
    <3>5. QED
      BY <3>1, <3>2, <3>3, <3>4 DEF SelectInv
  <2>5. CASE LayerRaises
    BY <2>5, RaisesSelects
  <2>6. QED
    BY <2>1, <2>2, <2>3, <2>4, <2>5 DEF Next, RunLayer, LayerDone
<1>3. QED
  BY <1>1, <1>2, PTL DEF Spec

\* index_select never leaves the cache once a window of tokens has been fed, whatever the
\* prompts before were: a selecting layer scores tokens of the prompt, every index it may
\* choose is in the key_cache of every layer of its group, and no exception ends a
\* generation but one of a prompt of one token, or of fewer tokens than a window has.
THEOREM SelectionInRangeCorrect == Spec => []SelectionInRange
<1>1. AttendInv => SelectionInRange
  <2> SUFFICES ASSUME AttendInv PROVE SelectionInRange
    OBVIOUS
  <2>1. CacheInv /\ WindowCounted /\ Shorts
    BY DEF AttendInv, SelectInv
  <2>2. ASSUME layer < NumLayers, OneToken, layer \in SelectLayers, ~Short
        PROVE  /\ prefill_len[layer] > 0 /\ ConsiderLen(layer) \in 0..Len(key_cache[layer])
               /\ \A i \in Group(layer) \cup {layer} : prefill_len[layer] <= Len(key_cache[i])
    <3>1. layer \in Layer /\ prompt >= 2 /\ tokens >= WindowSize
      BY <2>1, <2>2, LongPrompt, Constants
    <3>2. LET P == prefill_len[layer]
              c == ConsiderLen(layer)
          IN  /\ P \in Nat /\ P > 0 /\ P <= fed /\ c \in Int /\ c <= P
              /\ c < 0 <=> tokens < WindowSize
              /\ Len(key_cache[layer]) = fed /\ fed \in Nat
      BY <2>1, <2>2, <3>1, LayerScores
    <3>3. ~(tokens < WindowSize)
      BY <2>1, <2>2, <3>1, LongPrompt, Constants
    <3>4. ConsiderLen(layer) \in 0..Len(key_cache[layer])
      BY <3>2, <3>3
    <3>5. ASSUME NEW i \in Group(layer) PROVE prefill_len[layer] <= Len(key_cache[i])
      <4>1. i \in Layer /\ Offloaded(i)
        BY <2>2, GroupIsOffloaded
      <4>2. Len(key_cache[i]) = prefill_len[layer]
        BY <2>1, <2>2, <3>1, <4>1, OffloadedEntries
      <4>3. QED
        BY <3>2, <4>2
    <3>6. QED
      BY <3>2, <3>4, <3>5
  <2>3. raised => Short
    BY <2>1 DEF Shorts
  <2>4. QED
    BY <2>2, <2>3 DEF SelectionInRange
<1>2. QED
  BY <1>1, AttendInvCorrect, PTL

\* While an offloaded layer attends to a part, enough tokens were fed.
LEMMA SparseIsLong ==
  ASSUME SelectInv, SparseAttention
  PROVE  layer - 1 \in Layer /\ ~Short /\ prompt >= 2
<1>1. CacheInv /\ Shorts /\ layer > 0 /\ OneToken /\ Offloaded(layer - 1)
  BY DEF SelectInv, SparseAttention
<1>2. layer - 1 \in Layer /\ layer - 1 < layer
  BY <1>1, Constants DEF CacheInv, Types
<1>3. ~Short
  BY <1>1, <1>2 DEF Shorts
<1>4. QED
  BY <1>1, <1>2, <1>3, LongPrompt

\* Every variable keeps its type, and a layer never counts more prompt tokens than a
\* prompt has.
THEOREM CacheTypes == Spec => []TypeOK
<1>1. AttendInv => TypeOK
  <2> SUFFICES ASSUME AttendInv PROVE TypeOK
    OBVIOUS
  <2>1. CacheInv /\ SeenTypes /\ PromptBounds
    BY DEF AttendInv, SelectInv
  <2>2. /\ prompt \in 0..MaxPrompt /\ fed \in 0..MaxToken /\ tokens \in 0..MaxToken
    BY <2>1, TokenBounds
  <2>3. /\ key_cache \in [Layer -> Seq(1..MaxToken)]
        /\ tail_k \in [Layer -> Seq(1..MaxToken)]
        /\ decode_step \in [Layer -> Nat] /\ layer \in 0..NumLayers
    <3>1. /\ key_cache \in [Layer -> Seq(Nat)] /\ tail_k \in [Layer -> Seq(Nat)]
          /\ decode_step \in [Layer -> Nat] /\ layer \in 0..NumLayers
      BY <2>1 DEF CacheInv, Types
    <3>2. \A l \in Layer : /\ key_cache[l] \in Seq(1..MaxToken)
                           /\ tail_k[l] \in Seq(1..MaxToken)
      BY <2>1, EntriesAreTokens
    <3>3. QED
      BY <3>1, <3>2
  <2>4. stage \in {"prefill", "decoding"}
    BY <2>1 DEF PromptBounds
  <2>5. raised \in BOOLEAN
    BY <2>1 DEF CacheInv, Types
  <2>6. QED
    BY <2>1, <2>2, <2>3, <2>4, <2>5 DEF SeenTypes, TypeOK
<1>2. QED
  BY <1>1, AttendInvCorrect, PTL

\* An offloaded layer attends to the selection for this very token, made by the
\* selecting layer it comes after; never to the part of an earlier token, of another
\* group or of an earlier generation.
THEOREM FreshSelectionCorrect == Spec => []FreshSelection
<1>1. AttendInv => FreshSelection
  <2> SUFFICES ASSUME AttendInv, SparseAttention, NEW s \in SelectLayers,
                      IsLeft(s, layer - 1)
               PROVE  attended.part = IndexSelect(key_cache[layer - 1], chosen[s])
    BY DEF FreshSelection
  <2>1. CacheInv /\ SelectedSoFar /\ SparselyAttended /\ ~Short /\ prompt >= 2
    BY SparseIsLong DEF AttendInv, SelectInv
  <2>2. /\ layer > 0 /\ OneToken /\ Offloaded(layer - 1)
        /\ layer - 1 \in Layer /\ s \in Layer /\ s < layer
    BY <2>1, Constants DEF SparseAttention, CacheInv, Types, IsLeft
  <2>3. attended.part = chosen[s]
    BY <2>1 DEF SparselyAttended
  <2>4. chosen[s] \subseteq 1..prefill_len[s]
    BY <2>1, <2>2 DEF SelectedSoFar
  <2>5. prefill_len[layer - 1] = prefill_len[s]
    BY <2>1, <2>2 DEF CacheInv, CountsAgree
  <2>6. /\ key_cache[layer - 1] = TokenRange(1, prefill_len[layer - 1])
        /\ prefill_len[layer - 1] \in Nat
    BY <2>1, <2>2, OffloadedHolds
  <2>7. QED
    BY <2>3, <2>4, <2>5, <2>6, SelectOwnNumbers
<1>2. QED
  BY <1>1, AttendInvCorrect, PTL

\* The tokens of a range.
LEMMA RangeOfRange ==
  ASSUME NEW a \in Nat, NEW b \in Nat, a <= b
  PROVE  /\ Range(TokenRange(a + 1, b)) = (a + 1)..b
         /\ Len(TokenRange(a + 1, b)) = b - a
<1> DEFINE r == TokenRange(a + 1, b)
<1>1. a + 1 \in Nat /\ a + 1 <= b + 1 /\ b - (a + 1) + 1 = b - a /\ b - a \in Nat
  OBVIOUS
<1>2. /\ r \in Seq(Nat) /\ Len(r) = b - (a + 1) + 1
      /\ \A i \in 1..(b - (a + 1) + 1) : r[i] = a + 1 + i - 1
  BY <1>1, RangeIsSeq
<1> HIDE DEF r
<1>3. DOMAIN r = 1..(b - a)
  BY <1>1, <1>2
<1>4. ASSUME NEW t \in (a + 1)..b PROVE t \in Range(r)
  <2>1. t - a \in 1..(b - a) /\ a + 1 + (t - a) - 1 = t
    OBVIOUS
  <2>2. r[t - a] = t
    BY <1>1, <1>2, <2>1
  <2>3. QED
    BY <1>3, <2>1, <2>2 DEF Range
<1>5. ASSUME NEW t \in Range(r) PROVE t \in (a + 1)..b
  <2>1. PICK i \in 1..(b - a) : t = r[i]
    BY <1>3 DEF Range
  <2>2. t = a + 1 + i - 1
    BY <1>1, <1>2, <2>1
  <2>3. QED
    BY <2>2
<1>6. QED
  BY <1>1, <1>2, <1>4, <1>5 DEF r

\* What an offloaded layer attends to is the selection, the whole recent window and
\* every token decoded since the prompt, each once.
THEOREM AttendedExactlyCorrect == Spec => []AttendedExactly
<1>1. AttendInv => RecentWindowAttended
  <2> SUFFICES ASSUME AttendInv, SparseAttention, NEW t \in 1..tokens,
                      t > tokens - WindowSize \/ t > prompt
               PROVE  t \in attended.part \cup Range(attended.rest)
    BY DEF RecentWindowAttended
  <2>1. CacheInv /\ PromptBounds /\ SelectedSoFar /\ SparselyAttended /\ ~Short /\ prompt >= 2
    BY SparseIsLong DEF AttendInv, SelectInv
  <2>2. OneToken /\ Offloaded(layer - 1) /\ layer - 1 \in Layer
    BY <2>1, Constants DEF SparseAttention, CacheInv, Types
  <2>3. PICK s \in SelectLayers : IsLeft(s, layer - 1) /\ s < layer - 1
    BY <2>2, OffloadedHasGroup
  <2>4. s \in Layer /\ s < layer
    BY <2>1, <2>3, Constants DEF CacheInv, Types
  <2>5. attended = [part |-> chosen[s], rest |-> TokenRange(prefill_len[s] + 1, tokens)]
    BY <2>1, <2>3 DEF SparselyAttended
  <2>6. /\ prefill_len[s] <= prompt
        /\ \A u \in 1..prefill_len[s] : u > tokens - WindowSize => u \in chosen[s]
    BY <2>1, <2>2, <2>4 DEF PromptBounds, SelectedSoFar
  <2>7. /\ prefill_len[s] \in Nat /\ prefill_len[s] <= tokens /\ tokens \in Nat /\ prompt \in Nat
    <3>1. /\ prefill_len[layer - 1] \in Nat /\ prefill_len[layer - 1] <= fed
          /\ fed \in Nat /\ tokens \in Nat /\ fed < tokens
      BY <2>1, <2>2, OffloadedHolds
    <3>2. prefill_len[layer - 1] = prefill_len[s]
      BY <2>1, <2>2, <2>4 DEF CacheInv, CountsAgree
    <3>3. QED
      BY <2>1, <3>1, <3>2, TokenBounds, Constants
  <2>8. CASE t <= prefill_len[s]
    <3>1. t \in 1..prefill_len[s] /\ ~(t > prompt)
      BY <2>6, <2>7, <2>8
    <3>2. QED
      BY <2>5, <2>6, <3>1
  <2>9. CASE ~(t <= prefill_len[s])
    <3>1. t \in (prefill_len[s] + 1)..tokens
      BY <2>7, <2>9
    <3>2. Range(TokenRange(prefill_len[s] + 1, tokens)) = (prefill_len[s] + 1)..tokens
      BY <2>7, RangeOfRange
    <3>3. QED
      BY <2>5, <3>1, <3>2
  <2>10. QED
    BY <2>8, <2>9
<1>2. AttendInv => NothingTwice
  <2> SUFFICES ASSUME AttendInv PROVE NothingTwice
    OBVIOUS
  <2>1. PICK a, b \in 0..MaxToken :
          /\ a <= b /\ attended.part \subseteq 1..a
          /\ attended.rest = TokenRange(a + 1, b)
    BY DEF AttendInv, AttendedInOrder
  <2>2. a \in Nat /\ b \in Nat
    BY <2>1, TokenBounds
  <2>3. Range(attended.rest) = (a + 1)..b /\ Len(attended.rest) = b - a
    BY <2>1, <2>2, RangeOfRange
  <2>4. attended.part \cap Range(attended.rest) = {}
    <3>1. \A t \in 1..a : t \notin (a + 1)..b
      BY <2>2
    <3>2. QED
      BY <2>1, <2>3, <3>1
  <2>5. Cardinality((a + 1)..b) = b - a
    <3>1. a + 1 \in Int /\ b \in Int
      BY <2>2
    <3>2. Cardinality((a + 1)..b) = IF a + 1 > b THEN 0 ELSE b - (a + 1) + 1
      BY <3>1, FS_Interval
    <3>3. QED
      BY <2>1, <2>2, <3>2
  <2>6. QED
    BY <2>3, <2>4, <2>5 DEF NothingTwice
<1>3. QED
  BY <1>1, <1>2, AttendInvCorrect, PTL DEF AttendedExactly

=============================================================================

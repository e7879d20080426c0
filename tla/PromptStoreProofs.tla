-------------------------- MODULE PromptStoreProofs --------------------------
(***************************************************************************)
(* More theorems about PromptCache, for every set of requests and prompts, *)
(* any vocabulary and pool: the eviction order is current, eviction finds  *)
(* what admission promised, and the tree implements the store of prefixes. *)
(* The invariant of PromptCacheProofs (TreeInv, PoolInv) is strengthened   *)
(* by what running requests hold, by times, and by the room in the pool.   *)
(***************************************************************************)
EXTENDS PromptCacheProofs

-----------------------------------------------------------------------------
(* The steps that change a request, and what they do to it *)

\* init_batch for r, which looks up key.
Entered(r, key) ==
  /\ at = "init" /\ r \in todo /\ r \in Req /\ r \in batch /\ status[r] = "waiting"
  /\ shared_kv_node[r] = NoNode /\ input_token_ids[r] = Prompt[r]
  /\ key = FirstN(input_token_ids[r], Len(input_token_ids[r]) - 1)
  /\ key \in Seq(Token) /\ Len(key) = Len(input_token_ids[r]) - 1
  /\ CachedLen(r) \in 0..Len(key) /\ CachedLen(r) = MatchLen(tree, key)
  /\ at' = IF todo = {r} THEN "prefill" ELSE "init"
  /\ todo' = todo \ {r} /\ status' = [status EXCEPT ![r] = "running"]
  /\ UNCHANGED <<input_token_ids, batch, to_evict, free_token_index>>
  /\ shared_kv_node' = [shared_kv_node EXCEPT ![r] = FirstN(key, CachedLen(r))]
  /\ cur_kv_len' = [cur_kv_len EXCEPT ![r] = CachedLen(r)]
  /\ tree'.value = tree.value
  /\ tree' = IF key = <<>> THEN tree ELSE MatchPrefix(tree, key).tree
  /\ last_use' = IF key = <<>> THEN last_use
                 ELSE [p \in DOMAIN last_use |->
                         IF p \in PrefixesOf(key) THEN tree.clock ELSE last_use[p]]
  /\ \A s \in Req \ {r} : row'[s] = row[s]
  /\ \A i \in 1..CachedLen(r) : row'[r][i] = tree.value[FirstN(key, i)]
  /\ content' = content

\* init_batch does what Entered says.
LEMMA InitReqStep ==
  ASSUME TreeInv, PoolInv, InitReq
  PROVE  \E r, key : Entered(r, key)
<1> USE DEF TreeInv
<1>1. PICK r : r = Min(todo)
  OBVIOUS
<1>2. PICK key : key = FirstN(input_token_ids[r], Len(input_token_ids[r]) - 1)
  OBVIOUS
<1>3. PICK got : got = MatchPrefix(tree, key)
  OBVIOUS
<1>4. /\ at = "init"
      /\ status' = [status EXCEPT ![r] = "running"]
      /\ todo' = todo \ {r}
      /\ at' = IF todo = {r} THEN "prefill" ELSE "init"
      /\ UNCHANGED <<input_token_ids, batch, to_evict, free_token_index, content>>
      /\ key = <<>> => UNCHANGED <<tree, row, shared_kv_node, cur_kv_len, last_use>>
      /\ key # <<>> =>
           /\ tree' = got.tree
           /\ last_use' = [p \in DOMAIN last_use |->
                            IF p \in PrefixesOf(key) THEN tree.clock ELSE last_use[p]]
           /\ got.node = Root => UNCHANGED <<row, shared_kv_node, cur_kv_len>>
           /\ got.node # Root =>
                /\ shared_kv_node' = [shared_kv_node EXCEPT ![r] = got.node]
                /\ cur_kv_len' = [cur_kv_len EXCEPT ![r] = got.tree.prefix_total_len[got.node]]
                /\ row' = [row EXCEPT ![r] = [i \in 1..Len(got.node) |-> tree.value[FirstN(key, i)]]]
  BY <1>1, <1>2, <1>3 DEF InitReq
<1>5. /\ r \in todo /\ r \in Req /\ r \in batch
      /\ shared_kv_node[r] = NoNode /\ cur_kv_len[r] = 0
      /\ input_token_ids[r] = Prompt[r] /\ input_token_ids[r] \in Seq(Token) \ {<<>>}
      /\ key \in Seq(Token) /\ Len(key) = Len(input_token_ids[r]) - 1
      /\ CachedLen(r) = MatchLen(tree, key) /\ CachedLen(r) \in 0..Len(key)
      /\ key = <<>> => CachedLen(r) = 0
  BY <1>1, <1>2, <1>4, InitReqFacts
<1>6. /\ got.node = FirstN(key, CachedLen(r)) /\ got.node \in Seq(Token)
      /\ Len(got.node) = CachedLen(r)
      /\ TreeOK(got.tree) /\ got.tree.value = tree.value
      /\ tree.nodes \subseteq got.tree.nodes
      /\ got.node \in got.tree.nodes /\ got.tree.prefix_total_len[got.node] = CachedLen(r)
      /\ [shared_kv_node EXCEPT ![r] = got.node] \in [Req -> got.tree.nodes]
      /\ RefsOK(got.tree, [shared_kv_node EXCEPT ![r] = got.node])
      /\ CountersOK(got.tree)
  BY <1>1, <1>2, <1>3, <1>4, LookupFacts
<1>7. /\ shared_kv_node \in [Req -> tree.nodes] /\ cur_kv_len \in [Req -> Nat]
      /\ row \in [Req -> Seq(PoolToken)]
  BY DEF Texts, PoolInv, PoolTyped
<1>8. status[r] = "waiting"
  BY <1>4, <1>5 DEF Control, Waiting
<1>9. got.node = Root <=> CachedLen(r) = 0
  <2>1. Len(Root) = 0
    BY DEF Root
  <2>2. Len(got.node) = 0 => got.node = <<>>
    BY <1>6, EmptySeq
  <2> QED
    BY <1>6, <2>1, <2>2 DEF Root
<1>10. /\ shared_kv_node' = [shared_kv_node EXCEPT ![r] = FirstN(key, CachedLen(r))]
       /\ cur_kv_len' = [cur_kv_len EXCEPT ![r] = CachedLen(r)]
       /\ \A s \in Req \ {r} : row'[s] = row[s]
       /\ \A i \in 1..CachedLen(r) : row'[r][i] = tree.value[FirstN(key, i)]
  <2>1. CASE key = <<>> \/ got.node = Root
    <3>1. UNCHANGED <<row, shared_kv_node, cur_kv_len>> /\ CachedLen(r) = 0
      BY <1>4, <1>5, <1>9, <2>1
    <3>2. FirstN(key, CachedLen(r)) = NoNode
      BY <1>5, <3>1, FirstNFacts DEF NoNode
    <3>3. shared_kv_node = [shared_kv_node EXCEPT ![r] = FirstN(key, CachedLen(r))]
          /\ cur_kv_len = [cur_kv_len EXCEPT ![r] = CachedLen(r)]
      BY <1>5, <1>7, <3>1, <3>2
    <3>4. 1..CachedLen(r) = {}
      BY <3>1
    <3> QED
      BY <3>1, <3>3, <3>4
  <2>2. CASE key # <<>> /\ got.node # Root
    <3>1. PICK w : w = [i \in 1..Len(got.node) |-> tree.value[FirstN(key, i)]]
      OBVIOUS
    <3>2. row' = [row EXCEPT ![r] = w]
      BY <1>4, <2>2, <3>1
    <3>3. row'[r] = w /\ \A s \in Req \ {r} : row'[s] = row[s]
      BY <1>5, <1>7, <3>2
    <3>4. \A i \in 1..CachedLen(r) : w[i] = tree.value[FirstN(key, i)]
      BY <1>6, <3>1
    <3> QED
      BY <1>4, <1>6, <2>2, <3>3, <3>4
  <2> QED
    BY <2>1, <2>2
<1>11. /\ tree'.value = tree.value
       /\ tree' = IF key = <<>> THEN tree ELSE MatchPrefix(tree, key).tree
       /\ last_use' = IF key = <<>> THEN last_use
                 ELSE [p \in DOMAIN last_use |->
                         IF p \in PrefixesOf(key) THEN tree.clock ELSE last_use[p]]
  BY <1>3, <1>4, <1>6
<1>12. Entered(r, key)
  BY <1>2, <1>4, <1>5, <1>8, <1>10, <1>11 DEF Entered
<1> QED
  BY <1>12

\* _free_a_req_mem for r, whose text is key.
Left(r, key) ==
  /\ at = "filter" /\ r \in todo /\ r \in Req /\ status[r] = "running"
  /\ key = FirstN(input_token_ids[r], cur_kv_len[r])
  /\ key \in Seq(Token) /\ Len(key) = cur_kv_len[r]
  /\ Released(r, key, tree')
  /\ tree' = IF IsLast(r) THEN HandOver(tree, key, row[r], shared_kv_node[r])
             ELSE GiveUp(tree, shared_kv_node[r])
  /\ shared_kv_node' = [shared_kv_node EXCEPT ![r] = NoNode]
  /\ cur_kv_len' = [cur_kv_len EXCEPT ![r] = 0]
  /\ row' = [row EXCEPT ![r] = <<>>]
  /\ status' = [status EXCEPT ![r] = "done"]
  /\ todo' = todo \ {r}
  /\ at' = IF todo = {r} THEN "free" ELSE "filter"
  /\ last_use' = [p \in DOMAIN tree'.value |->
                    IF IsLast(r) /\ p \in UsedBy(tree, key) THEN tree.clock ELSE last_use[p]]
  /\ UNCHANGED <<input_token_ids, content, batch, to_evict>>

\* _free_a_req_mem does what Left says.
LEMMA FreeAReqMemStep ==
  ASSUME TreeInv, FreeAReqMem
  PROVE  \E r, key : Left(r, key)
<1> USE DEF TreeInv
<1>1. PICK r : r = Min(todo)
  OBVIOUS
<1>2. PICK key : key = FirstN(input_token_ids[r], cur_kv_len[r])
  OBVIOUS
<1>3. /\ at = "filter"
      /\ tree' = IF IsLast(r) THEN HandOver(tree, key, row[r], shared_kv_node[r])
                 ELSE GiveUp(tree, shared_kv_node[r])
      /\ shared_kv_node' = [shared_kv_node EXCEPT ![r] = NoNode]
      /\ cur_kv_len' = [cur_kv_len EXCEPT ![r] = 0]
      /\ row' = [row EXCEPT ![r] = <<>>]
      /\ status' = [status EXCEPT ![r] = "done"]
      /\ todo' = todo \ {r}
      /\ at' = IF todo = {r} THEN "free" ELSE "filter"
      /\ last_use' = [p \in DOMAIN tree'.value |->
                    IF IsLast(r) /\ p \in UsedBy(tree, key) THEN tree.clock ELSE last_use[p]]
      /\ UNCHANGED <<input_token_ids, content, batch, to_evict>>
  BY <1>1, <1>2 DEF FreeAReqMem
<1>4. /\ r \in todo /\ r \in Req /\ r \in Running
      /\ key \in Seq(Token) /\ Len(key) = cur_kv_len[r]
  BY <1>1, <1>2, <1>3, ReleasedFacts
<1>5. Released(r, key, tree')
  BY <1>3, <1>4, ReleasedTree
<1>6. Left(r, key)
  BY <1>2, <1>3, <1>4, <1>5 DEF Left, Running
<1> QED
  BY <1>6

\* The forward: what it leaves alone, and the texts that grow.
ForwardKeeps(kind) ==
  /\ at = AllocFor(kind) /\ at' \in {"idle", "filter"} /\ batch' = {}
  /\ Needed <= can_use_mem_size
  /\ UNCHANGED <<tree, shared_kv_node, status, to_evict, free_token_index, last_use>>
  /\ \A r \in Req \ batch : /\ cur_kv_len'[r] = cur_kv_len[r]
                            /\ input_token_ids'[r] = input_token_ids[r]
  /\ \A r \in batch : /\ cur_kv_len'[r] = Len(input_token_ids[r])
                      /\ input_token_ids'[r] \in Seq(Token)
                      /\ Len(input_token_ids'[r]) = Len(input_token_ids[r]) + 1
                      /\ IsPrefix(input_token_ids[r], input_token_ids'[r])
                      /\ \A i \in 0..Len(input_token_ids[r]) :
                           FirstN(input_token_ids'[r], i) = FirstN(input_token_ids[r], i)

LEMMA ForwardKeepsFacts ==
  ASSUME TreeInv, NEW kind \in {"prefill", "decode"}, Forward(kind)
  PROVE  ForwardKeeps(kind)
<1> USE DEF TreeInv
<1>1. at = AllocFor(kind) /\ at' \in {"idle", "filter"} /\ batch' = {}
      /\ UNCHANGED <<tree, shared_kv_node, status, to_evict, free_token_index, last_use>>
  BY DEF Forward
<1>2. /\ Needed <= can_use_mem_size
      /\ \E sampled \in [batch -> Token] :
              input_token_ids' = [r \in Req |-> IF r \in batch
                                                THEN Append(input_token_ids[r], sampled[r])
                                                ELSE input_token_ids[r]]
      /\ cur_kv_len' = [r \in Req |-> IF r \in batch THEN Len(input_token_ids[r])
                                      ELSE cur_kv_len[r]]
  BY ForwardStep
<1>3. PICK sampled \in [batch -> Token] :
              input_token_ids' = [r \in Req |-> IF r \in batch
                                                THEN Append(input_token_ids[r], sampled[r])
                                                ELSE input_token_ids[r]]
  BY <1>2
<1>4. \A r \in Req \ batch : /\ cur_kv_len'[r] = cur_kv_len[r]
                             /\ input_token_ids'[r] = input_token_ids[r]
  BY <1>2, <1>3
<1>5. ASSUME NEW r \in batch
      PROVE  /\ cur_kv_len'[r] = Len(input_token_ids[r])
             /\ input_token_ids'[r] \in Seq(Token)
             /\ Len(input_token_ids'[r]) = Len(input_token_ids[r]) + 1
             /\ IsPrefix(input_token_ids[r], input_token_ids'[r])
             /\ \A i \in 0..Len(input_token_ids[r]) :
                  FirstN(input_token_ids'[r], i) = FirstN(input_token_ids[r], i)
  <2>1. r \in Req /\ input_token_ids[r] \in Seq(Token) /\ sampled[r] \in Token
    BY DEF Control, Texts
  <2>2. PICK s \in Seq(Token) : s = input_token_ids[r]
    BY <2>1
  <2>3. PICK x \in Token : x = sampled[r]
    BY <2>1
  <2>4. input_token_ids'[r] = Append(s, x) /\ cur_kv_len'[r] = Len(s)
    BY <1>2, <1>3, <2>1, <2>2, <2>3
  <2>5. Append(s, x) \in Seq(Token) /\ Len(Append(s, x)) = Len(s) + 1
        /\ \A i \in 1..Len(s) : Append(s, x)[i] = s[i]
    OBVIOUS
  <2>6. IsPrefix(s, Append(s, x))
    <3>1. Len(s) <= Len(Append(s, x))
      BY <2>5
    <3> QED
      BY <2>5, <3>1, PrefixMeans
  <2>7. \A i \in 0..Len(s) : FirstN(Append(s, x), i) = FirstN(s, i)
    BY AppendKeepsFirst
  <2> QED
    BY <2>2, <2>4, <2>5, <2>6, <2>7
<1> QED
  BY <1>1, <1>2, <1>4, <1>5 DEF ForwardKeeps

-----------------------------------------------------------------------------
(* What running requests hold *)

\* A request that has entered and not run yet.
Entering(r) == (at = "init" \/ Prefilling) /\ r \in batch

\* A request holds a cached prefix of its text: all of its tokens when it enters, and
\* less than them from its first forward on, which leaves one token to compute.
HoldsPrefix ==
  \A r \in Req : status[r] = "running" =>
    /\ IsPrefix(shared_kv_node[r], FirstN(input_token_ids[r], cur_kv_len[r]))
    /\ Entering(r) => Len(shared_kv_node[r]) = cur_kv_len[r]
    /\ ~Entering(r) => /\ Len(shared_kv_node[r]) < cur_kv_len[r]
                       /\ Len(input_token_ids[r]) = cur_kv_len[r] + 1

\* The members of a group enter in one batch and hold the same node while they run.
GroupHolds ==
  \A r, s \in Req : GroupOf[r] = GroupOf[s] =>
    /\ status[r] # "waiting" /\ status[s] = "waiting" => at = "init" /\ s \in todo
    /\ status[r] = "running" /\ status[s] = "running" => shared_kv_node[r] = shared_kv_node[s]

HoldInv == HoldsPrefix /\ GroupHolds

\* What a step that leaves the requests alone keeps.
LEMMA HoldQuiet ==
  ASSUME HoldInv, UNCHANGED <<input_token_ids, cur_kv_len, shared_kv_node, status>>,
         \A r \in Req : status[r] = "running" => (Entering(r)' <=> Entering(r)),
         at = "init" => at' = "init" /\ todo' = todo
  PROVE  HoldInv'
<1>1. HoldsPrefix'
  BY DEF HoldInv, HoldsPrefix
<1>2. GroupHolds'
  BY DEF HoldInv, GroupHolds
<1> QED
  BY <1>1, <1>2 DEF HoldInv

LEMMA InitHold == Init => HoldInv
<1> SUFFICES ASSUME Init PROVE HoldInv
  OBVIOUS
<1>1. \A r \in Req : status[r] = "waiting"
  BY DEF Init
<1> QED
  BY <1>1 DEF HoldInv, HoldsPrefix, GroupHolds

\* A request takes the longest cached prefix, as the others of its group did.
LEMMA InitReqHold ==
  ASSUME TreeInv, PoolInv, HoldInv, InitReq
  PROVE  HoldInv'
<1> USE DEF TreeInv
<1>1. PICK r, key : Entered(r, key)
  BY InitReqStep
<1>2. /\ r \in Req /\ r \in todo /\ r \in batch /\ at = "init" /\ status[r] = "waiting"
      /\ key \in Seq(Token) /\ CachedLen(r) \in 0..Len(key)
      /\ key = FirstN(input_token_ids[r], Len(key)) /\ input_token_ids[r] = Prompt[r]
      /\ todo' = todo \ {r} /\ at' = IF todo = {r} THEN "prefill" ELSE "init"
      /\ UNCHANGED <<input_token_ids, batch>>
      /\ \A s \in Req \ {r} : /\ shared_kv_node'[s] = shared_kv_node[s]
                              /\ cur_kv_len'[s] = cur_kv_len[s] /\ status'[s] = status[s]
      /\ shared_kv_node'[r] = FirstN(key, CachedLen(r)) /\ cur_kv_len'[r] = CachedLen(r)
      /\ status'[r] = "running"
  <2>1. /\ shared_kv_node \in [Req -> tree.nodes] /\ cur_kv_len \in [Req -> Nat]
        /\ status \in [Req -> {"waiting", "running", "done"}]
    BY DEF Texts, Control
  <2> QED
    BY <1>1, <2>1 DEF Entered
<1>3. /\ input_token_ids[r] \in Seq(Token) /\ Len(key) \in 0..Len(input_token_ids[r])
      /\ Len(key) = Len(input_token_ids[r]) - 1
  BY <1>1, <1>2 DEF Texts, Entered
<1>4. FirstN(key, CachedLen(r)) = FirstN(input_token_ids[r], CachedLen(r))
      /\ Len(FirstN(input_token_ids[r], CachedLen(r))) = CachedLen(r)
      /\ FirstN(input_token_ids[r], CachedLen(r)) \in Seq(Token)
  <2>1. PICK s \in Seq(Token) : s = input_token_ids[r]
    BY <1>3
  <2>2. PICK l \in 0..Len(s) : l = Len(key)
    BY <1>3, <2>1
  <2>3. PICK i \in 0..l : i = CachedLen(r)
    BY <1>2, <2>2
  <2>4. FirstN(FirstN(s, l), i) = FirstN(s, i)
    BY FirstNTwice
  <2>5. i \in 0..Len(s)
    OBVIOUS
  <2>6. Len(FirstN(s, i)) = i /\ FirstN(s, i) \in Seq(Token)
    BY <2>5, FirstNFacts
  <2> QED
    BY <1>2, <2>1, <2>2, <2>3, <2>4, <2>6
<1>5. \A s \in Req : Entering(s)' <=> Entering(s)
  BY <1>2 DEF Entering, Prefilling
<1>6. HoldsPrefix'
  <2> SUFFICES ASSUME NEW s \in Req, status'[s] = "running"
               PROVE  /\ IsPrefix(shared_kv_node'[s], FirstN(input_token_ids[s], cur_kv_len'[s]))
                      /\ Entering(s) => Len(shared_kv_node'[s]) = cur_kv_len'[s]
                      /\ ~Entering(s) => /\ Len(shared_kv_node'[s]) < cur_kv_len'[s]
                                         /\ Len(input_token_ids[s]) = cur_kv_len'[s] + 1
    BY <1>2, <1>5 DEF HoldsPrefix
  <2>1. CASE s # r
    BY <1>2, <2>1 DEF HoldInv, HoldsPrefix
  <2>2. CASE s = r
    <3>1. Entering(s)
      BY <1>2, <2>2 DEF Entering
    <3>2. IsPrefix(FirstN(input_token_ids[r], CachedLen(r)), FirstN(input_token_ids[r], CachedLen(r)))
      BY <1>4, PrefixOrder
    <3> QED
      BY <1>2, <1>4, <2>2, <3>1, <3>2
  <2> QED
    BY <2>1, <2>2
<1>7. ASSUME NEW s \in Req, s # r, GroupOf[r] = GroupOf[s]
      PROVE  /\ s \in batch /\ Prompt[s] = Prompt[r]
             /\ status[s] # "waiting" => status[s] = "running" /\ shared_kv_node[s] = shared_kv_node'[r]
             /\ status[s] = "waiting" => s \in todo
  <2>1. s \in batch
    BY <1>2, <1>7 DEF GroupsTogether, Members
  <2>2. Prompt[s] = Prompt[r] /\ input_token_ids[s] = Prompt[s]
    BY <1>2, <1>7, <2>1, PromptCacheAssumption DEF GroupsTogether
  <2>3. status[s] = "waiting" => s \in todo
    BY <1>2, <2>1 DEF Control, Running
  <2>4. ASSUME status[s] # "waiting"
        PROVE  status[s] = "running" /\ shared_kv_node[s] = shared_kv_node'[r]
    <3>1. s \in batch \ todo /\ status[s] = "running"
      BY <1>2, <2>1, <2>4 DEF Control, Running, Waiting
    <3>2. cur_kv_len[s] = CachedLen(s) /\ CachedLen(s) = CachedLen(r)
      BY <1>2, <2>2, <3>1 DEF GroupsTogether, CachedLen
    <3>3. IsPrefix(shared_kv_node[s], FirstN(input_token_ids[s], cur_kv_len[s]))
          /\ Len(shared_kv_node[s]) = cur_kv_len[s]
      BY <1>2, <2>1, <3>1 DEF HoldInv, HoldsPrefix, Entering
    <3>4. FirstN(input_token_ids[s], cur_kv_len[s]) = FirstN(input_token_ids[r], CachedLen(r))
      BY <1>2, <2>2, <3>2
    <3>5. shared_kv_node[s] \in Seq(Token)
      BY DEF Texts, Accounted, TreeOK, NodesOK
    <3>6. shared_kv_node[s] = FirstN(input_token_ids[r], CachedLen(r))
      BY <1>4, <3>2, <3>3, <3>4, <3>5, PrefixOrder
    <3> QED
      BY <1>2, <1>4, <3>1, <3>6
  <2> QED
    BY <2>1, <2>2, <2>3, <2>4
<1>8. GroupHolds'
  <2> SUFFICES ASSUME NEW m \in Req, NEW s \in Req, GroupOf[m] = GroupOf[s]
               PROVE  /\ status'[m] # "waiting" /\ status'[s] = "waiting" => at' = "init" /\ s \in todo'
                      /\ status'[m] = "running" /\ status'[s] = "running"
                           => shared_kv_node'[m] = shared_kv_node'[s]
    BY DEF GroupHolds
  <2>1. CASE m = s
    BY <2>1
  <2>2. CASE m # s /\ m = r
    BY <1>2, <1>7, <2>2
  <2>3. CASE m # s /\ s = r
    BY <1>2, <1>7, <2>3
  <2>4. CASE m # r /\ s # r
    BY <1>2, <2>4 DEF HoldInv, GroupHolds
  <2> QED
    BY <2>1, <2>2, <2>3, <2>4
<1> QED
  BY <1>6, <1>8 DEF HoldInv

\* A request that leaves gives its node up, and the others keep theirs.
LEMMA FreeAReqMemHold ==
  ASSUME TreeInv, HoldInv, FreeAReqMem
  PROVE  HoldInv'
<1> USE DEF TreeInv
<1>1. PICK r, key : Left(r, key)
  BY FreeAReqMemStep
<1>2. /\ r \in Req /\ at = "filter" /\ at' \in {"free", "filter"} /\ status[r] = "running"
      /\ \A s \in Req \ {r} : /\ shared_kv_node'[s] = shared_kv_node[s]
                              /\ cur_kv_len'[s] = cur_kv_len[s] /\ status'[s] = status[s]
      /\ status'[r] = "done" /\ UNCHANGED <<input_token_ids, batch>>
  <2>1. /\ shared_kv_node \in [Req -> tree.nodes] /\ cur_kv_len \in [Req -> Nat]
        /\ status \in [Req -> {"waiting", "running", "done"}]
    BY DEF Texts, Control
  <2> QED
    BY <1>1, <2>1 DEF Left
<1>3. \A s : ~Entering(s)' /\ ~Entering(s)
  BY <1>2 DEF Entering, Prefilling
<1>4. HoldsPrefix'
  <2> SUFFICES ASSUME NEW s \in Req, status'[s] = "running"
               PROVE  /\ IsPrefix(shared_kv_node'[s], FirstN(input_token_ids[s], cur_kv_len'[s]))
                      /\ Len(shared_kv_node'[s]) < cur_kv_len'[s]
                      /\ Len(input_token_ids[s]) = cur_kv_len'[s] + 1
    BY <1>2, <1>3 DEF HoldsPrefix
  <2>1. s # r /\ status[s] = "running"
    BY <1>2
  <2> QED
    BY <1>2, <1>3, <2>1 DEF HoldInv, HoldsPrefix
<1>5. GroupHolds'
  BY <1>2 DEF HoldInv, GroupHolds
<1> QED
  BY <1>4, <1>5 DEF HoldInv

\* A forward leaves one token to compute.
LEMMA ForwardHold ==
  ASSUME TreeInv, HoldInv, NEW kind \in {"prefill", "decode"}, Forward(kind)
  PROVE  HoldInv'
<1> USE DEF TreeInv
<1>1. ForwardKeeps(kind)
  BY ForwardKeepsFacts
<1>2. /\ at \in {"alloc prefill", "alloc decode"} /\ at' \in {"idle", "filter"}
      /\ UNCHANGED <<shared_kv_node, status>> /\ batch \subseteq Req
  BY <1>1 DEF ForwardKeeps, AllocFor, Control
<1>3. \A s : ~Entering(s)'
  BY <1>2 DEF Entering, Prefilling
<1>4. \A s : s \notin batch => ~Entering(s)
  BY DEF Entering
<1>5. HoldsPrefix'
  <2> SUFFICES ASSUME NEW s \in Req, status[s] = "running"
               PROVE  /\ IsPrefix(shared_kv_node[s], FirstN(input_token_ids'[s], cur_kv_len'[s]))
                      /\ Len(shared_kv_node[s]) < cur_kv_len'[s]
                      /\ Len(input_token_ids'[s]) = cur_kv_len'[s] + 1
    BY <1>2, <1>3 DEF HoldsPrefix
  <2>1. CASE s \notin batch
    <3>1. cur_kv_len'[s] = cur_kv_len[s] /\ input_token_ids'[s] = input_token_ids[s]
      BY <1>1, <2>1 DEF ForwardKeeps
    <3> QED
      BY <1>4, <2>1, <3>1 DEF HoldInv, HoldsPrefix
  <2>2. CASE s \in batch
    <3>1. /\ cur_kv_len'[s] = Len(input_token_ids[s])
          /\ Len(input_token_ids'[s]) = Len(input_token_ids[s]) + 1
          /\ \A i \in 0..Len(input_token_ids[s]) :
                FirstN(input_token_ids'[s], i) = FirstN(input_token_ids[s], i)
      BY <1>1, <2>2 DEF ForwardKeeps
    <3>2. /\ input_token_ids[s] \in Seq(Token) /\ cur_kv_len[s] \in Nat
          /\ cur_kv_len[s] < Len(input_token_ids[s]) /\ Len(input_token_ids[s]) \in Nat
          /\ shared_kv_node[s] \in Seq(Token) /\ Len(shared_kv_node[s]) \in Nat
      BY DEF Texts, Accounted, TreeOK, NodesOK
    <3>3. FirstN(input_token_ids'[s], cur_kv_len'[s]) = input_token_ids[s]
      BY <3>1, <3>2, FirstNFacts
    <3>4. Len(shared_kv_node[s]) <= cur_kv_len[s]
      BY <3>2 DEF HoldInv, HoldsPrefix
    <3>5. IsPrefix(shared_kv_node[s], FirstN(input_token_ids[s], cur_kv_len[s]))
      BY DEF HoldInv, HoldsPrefix
    <3>6. cur_kv_len[s] \in 0..Len(input_token_ids[s])
      BY <3>2
    <3>7. FirstN(input_token_ids[s], cur_kv_len[s]) \in Seq(Token)
          /\ IsPrefix(FirstN(input_token_ids[s], cur_kv_len[s]), input_token_ids[s])
      BY <3>2, <3>6, FirstNFacts
    <3>8. IsPrefix(shared_kv_node[s], input_token_ids[s])
      BY <3>2, <3>5, <3>7, PrefixOrder
    <3> QED
      BY <3>1, <3>2, <3>3, <3>4, <3>8
  <2> QED
    BY <2>1, <2>2
<1>6. GroupHolds'
  BY <1>2 DEF HoldInv, GroupHolds
<1> QED
  BY <1>5, <1>6 DEF HoldInv

LEMMA HoldStep == TreeInv /\ PoolInv /\ HoldInv /\ [Next]_vars => HoldInv'
<1> SUFFICES ASSUME TreeInv, PoolInv, HoldInv, [Next]_vars PROVE HoldInv'
  OBVIOUS
<1> USE DEF TreeInv
<1>1. CASE UNCHANGED vars
  <2>1. UNCHANGED <<input_token_ids, cur_kv_len, shared_kv_node, status, at, batch, todo>>
    BY <1>1 DEF vars, reqVars, loopVars
  <2> QED
    BY <2>1, HoldQuiet DEF Entering, Prefilling
<1>2. ASSUME NEW new \in SUBSET Waiting, AddBatch(new) PROVE HoldInv'
  <2>1. /\ at = "idle" /\ batch' \subseteq Waiting
        /\ UNCHANGED <<input_token_ids, cur_kv_len, shared_kv_node, status>>
    BY <1>2 DEF AddBatch, reqVars
  <2>2. \A r \in Req : status[r] = "running" => (Entering(r)' <=> Entering(r))
    BY <2>1 DEF Entering, Prefilling, Waiting
  <2> QED
    BY <2>1, <2>2, HoldQuiet
<1>3. CASE InitReq
  BY <1>3, InitReqHold
<1>4. CASE StartDecode
  <2>1. /\ at = "idle" /\ at' = "decode"
        /\ UNCHANGED <<input_token_ids, cur_kv_len, shared_kv_node, status>>
    BY <1>4 DEF StartDecode, reqVars
  <2> QED
    BY <2>1, HoldQuiet DEF Entering, Prefilling
<1>5. ASSUME NEW kind \in {"prefill", "decode"}, Prepare(kind) PROVE HoldInv'
  <2>1. /\ at = kind /\ at' \in {EvictFor(kind), AllocFor(kind)}
        /\ UNCHANGED <<input_token_ids, cur_kv_len, shared_kv_node, status, batch>>
    BY <1>5 DEF Prepare, reqVars
  <2>2. (Prefilling' <=> Prefilling) /\ at # "init" /\ at' # "init"
    BY <2>1 DEF Prefilling, EvictFor, AllocFor
  <2> QED
    BY <2>1, <2>2, HoldQuiet DEF Entering
<1>6. ASSUME NEW kind \in {"prefill", "decode"}, Evict(kind) PROVE HoldInv'
  <2>1. /\ at = EvictFor(kind) /\ at' \in {EvictFor(kind), AllocFor(kind)}
        /\ UNCHANGED <<input_token_ids, cur_kv_len, shared_kv_node, status, batch>>
    BY <1>6 DEF Evict, reqVars
  <2>2. (Prefilling' <=> Prefilling) /\ at # "init" /\ at' # "init"
    BY <2>1 DEF Prefilling, EvictFor, AllocFor
  <2> QED
    BY <2>1, <2>2, HoldQuiet DEF Entering
<1>7. ASSUME NEW kind \in {"prefill", "decode"}, Forward(kind) PROVE HoldInv'
  BY <1>7, ForwardHold
<1>8. CASE FreeAReqMem
  BY <1>8, FreeAReqMemHold
<1>9. CASE FreeBatch
  <2>1. /\ at = "free" /\ at' = "idle"
        /\ UNCHANGED <<input_token_ids, cur_kv_len, shared_kv_node, status>>
    BY <1>9 DEF FreeBatch, reqVars
  <2> QED
    BY <2>1, HoldQuiet DEF Entering, Prefilling
<1> QED
  BY <1>1, <1>2, <1>3, <1>4, <1>5, <1>6, <1>7, <1>8, <1>9 DEF Next

-----------------------------------------------------------------------------
(* Times, and the order of eviction *)

\* Every node has a time of its own.
TimesOK(t) ==
  /\ t.clock \in Nat /\ \A n \in t.nodes : t.time_id[n] \in 1..t.clock
  /\ \A m, n \in t.nodes : t.time_id[m] = t.time_id[n] => m = n

\* evict_tree_set has the leaves, each with its key of now.
Current(t) == t.evict_tree_set = {Entry(t, n) : n \in {m \in t.nodes : IsLeaf(t, m)}}

\* A leaf has no children.
LEMMA NoChildren ==
  ASSUME NEW t, NodesOK(t.nodes), NEW n \in t.nodes, IsLeaf(t, n)
  PROVE  Children(t, n) = {}
<1> SUFFICES ASSUME NEW c \in t.nodes, c # Root, ParentOf(t, c) = n PROVE FALSE
  BY DEF Children
<1>1. IsPrefix(n, c) /\ n # c
  BY ParentFacts
<1> QED
  BY <1>1 DEF IsLeaf, IsStrictPrefix

\* The key of a leaf: whether it is referenced, and its time.
LEMMA LeafKey ==
  ASSUME NEW t, NodesOK(t.nodes), NEW n \in t.nodes, IsLeaf(t, n)
  PROVE  /\ CompareKey(t, n) = <<IF t.ref_counter[n] = 0 THEN 0 ELSE 1, 0, t.time_id[n]>>
         /\ Entry(t, n).node = n /\ Entry(t, n).key = CompareKey(t, n)
<1>1. Cardinality(Children(t, n)) = 0
  BY NoChildren, FS_EmptySet
<1> QED
  BY <1>1 DEF CompareKey, Entry

\* A leaf keeps its entry while its time stays, and stays referenced or not.
LEMMA SameEntry ==
  ASSUME NEW t, NEW u, NodesOK(t.nodes), NodesOK(u.nodes), NEW n \in t.nodes, n \in u.nodes,
         IsLeaf(t, n), IsLeaf(u, n), u.time_id[n] = t.time_id[n],
         u.ref_counter[n] = 0 <=> t.ref_counter[n] = 0
  PROVE  Entry(u, n) = Entry(t, n)
<1>1. /\ CompareKey(t, n) = <<IF t.ref_counter[n] = 0 THEN 0 ELSE 1, 0, t.time_id[n]>>
      /\ CompareKey(u, n) = <<IF u.ref_counter[n] = 0 THEN 0 ELSE 1, 0, u.time_id[n]>>
  BY LeafKey
<1> QED
  BY <1>1 DEF Entry

\* What leaves a leaf that is not on the path of a text a leaf.
LEMMA SameLeaf ==
  ASSUME NEW t, NEW u, NodesOK(t.nodes), NodesOK(u.nodes), t.nodes \subseteq u.nodes,
         NEW key \in Seq(Token), \A m \in u.nodes \ t.nodes : IsPrefix(m, key),
         NEW n \in t.nodes, ~IsPrefix(n, key)
  PROVE  IsLeaf(u, n) <=> IsLeaf(t, n)
<1>1. u.nodes \subseteq Seq(Token)
  BY DEF NodesOK
<1>2. ASSUME NEW m \in u.nodes \ t.nodes PROVE ~IsPrefix(n, m)
  BY <1>1, <1>2, PrefixOrder
<1> QED
  BY <1>2 DEF IsLeaf, IsStrictPrefix

\* Entries are apart by their nodes.
LEMMA EntryNode == \A t, n : Entry(t, n).node = n
BY DEF Entry

\* An operation that takes the leaves it visits out of evict_tree_set and puts the new
\* leaves back keeps it current, if it leaves the other nodes alone.
LEMMA RekeyCurrent ==
  ASSUME NEW t, NEW v, NodesOK(t.nodes), NodesOK(v.nodes), IsTree(v), t.nodes \subseteq v.nodes,
         Current(t), v.evict_tree_set = t.evict_tree_set, NEW visited \in SUBSET t.nodes,
         \A n \in t.nodes \ visited : /\ IsLeaf(v, n) <=> IsLeaf(t, n)
                                      /\ v.time_id[n] = t.time_id[n]
                                      /\ v.ref_counter[n] = 0 <=> t.ref_counter[n] = 0,
         NEW u, u = Rekey(t, v, visited)
  PROVE  Current(u)
<1> DEFINE Out == {Entry(t, n) : n \in {m \in visited : IsLeaf(t, m)}}
           In  == {Entry(v, n) : n \in {m \in visited \cup (v.nodes \ t.nodes) : IsLeaf(v, m)}}
<1>1. u = [v EXCEPT !.evict_tree_set = (@ \ Out) \cup In]
  BY DEF Rekey
<1>2. /\ u.nodes = v.nodes /\ u.time_id = v.time_id /\ u.ref_counter = v.ref_counter
      /\ u.evict_tree_set = (v.evict_tree_set \ Out) \cup In
  BY <1>1 DEF IsTree
<1>3. \A n \in v.nodes : IsLeaf(u, n) <=> IsLeaf(v, n)
  BY <1>2 DEF IsLeaf
<1>4. \A n \in v.nodes : Entry(u, n) = Entry(v, n)
  BY <1>2 DEF Entry, CompareKey, Children, ParentOf
<1>5. \A n \in t.nodes \ visited : IsLeaf(t, n) => Entry(v, n) = Entry(t, n)
  BY SameEntry
<1>6. t.evict_tree_set \ Out = {Entry(t, n) : n \in {m \in t.nodes \ visited : IsLeaf(t, m)}}
  <2>1. \A n, m : Entry(t, n) = Entry(t, m) => n = m
    BY EntryNode
  <2>2. t.evict_tree_set = {Entry(t, n) : n \in {m \in t.nodes : IsLeaf(t, m)}}
    BY DEF Current
  <2>3. ASSUME NEW e, e \in t.evict_tree_set \ Out
        PROVE  e \in {Entry(t, n) : n \in {m \in t.nodes \ visited : IsLeaf(t, m)}}
    BY <2>2, <2>3
  <2>4. ASSUME NEW n \in t.nodes \ visited, IsLeaf(t, n) PROVE Entry(t, n) \in t.evict_tree_set \ Out
    BY <2>1, <2>2, <2>4
  <2> QED
    BY <2>3, <2>4
<1>7. t.evict_tree_set \ Out = {Entry(v, n) : n \in {m \in t.nodes \ visited : IsLeaf(v, m)}}
  <2>1. \A n \in t.nodes \ visited : IsLeaf(v, n) <=> IsLeaf(t, n)
    OBVIOUS
  <2> HIDE DEF Out
  <2> QED
    BY <1>5, <1>6, <2>1
<1>8. u.evict_tree_set = {Entry(v, n) : n \in {m \in t.nodes \ visited : IsLeaf(v, m)}} \cup In
  BY <1>2, <1>7
<1>9. u.evict_tree_set = {Entry(v, n) : n \in {m \in v.nodes : IsLeaf(v, m)}}
  <2>1. ASSUME NEW n \in v.nodes
        PROVE  n \in t.nodes \ visited \/ n \in visited \cup (v.nodes \ t.nodes)
    OBVIOUS
  <2>2. \A n \in visited \cup (v.nodes \ t.nodes) : n \in v.nodes
    OBVIOUS
  <2> QED
    BY <1>8, <2>1, <2>2
<1>10. {Entry(v, n) : n \in {m \in v.nodes : IsLeaf(v, m)}}
         = {Entry(u, n) : n \in {m \in u.nodes : IsLeaf(u, m)}}
  BY <1>2, <1>3, <1>4
<1> QED
  BY <1>9, <1>10 DEF Current

\* A step that adds nodes gives them times later than all before.
LaterTimes(t, u) ==
  /\ t.nodes \subseteq u.nodes /\ u.evict_tree_set = t.evict_tree_set
  /\ TimesOK(u) /\ t.clock <= u.clock
  /\ \A n \in t.nodes : u.time_id[n] = t.time_id[n]
  /\ \A n \in u.nodes \ t.nodes : u.time_id[n] > t.clock

\* A new node has the latest time.
LEMMA WithNodeTimes ==
  ASSUME NEW t, TreeOK(t), TimesOK(t), NEW n, n \notin t.nodes, NEW p, NEW ref,
         NEW u, u = WithNode(t, n, p, ref)
  PROVE  LaterTimes(t, u)
<1>1. /\ u.nodes = t.nodes \cup {n} /\ u.evict_tree_set = t.evict_tree_set
      /\ u.time_id = Extend(t.time_id, n, t.clock + 1) /\ u.clock = t.clock + 1
  BY DEF WithNode, TreeOK, IsTree
<1>2. DOMAIN t.time_id = t.nodes
  BY DEF TreeOK
<1>3. u.time_id[n] = t.clock + 1 /\ \A m \in t.nodes : u.time_id[m] = t.time_id[m]
  BY <1>1, <1>2 DEF Extend
<1>4. TimesOK(u)
  <2>1. u.clock \in Nat /\ \A m \in u.nodes : u.time_id[m] \in 1..u.clock
    BY <1>1, <1>3 DEF TimesOK
  <2>2. ASSUME NEW m \in u.nodes, NEW k \in u.nodes, u.time_id[m] = u.time_id[k] PROVE m = k
    BY <1>1, <1>3, <2>2 DEF TimesOK
  <2> QED
    BY <2>1, <2>2 DEF TimesOK
<1>5. t.clock <= u.clock /\ t.clock + 1 > t.clock
  BY <1>1 DEF TimesOK
<1> QED
  BY <1>1, <1>3, <1>4, <1>5 DEF LaterTimes

LEMMA SplitTimes ==
  ASSUME NEW t, TreeOK(t), TimesOK(t), NEW c, NEW p, p \notin t.nodes, NEW u, u = SplitNode(t, c, p)
  PROVE  LaterTimes(t, u)
<1>1. PICK v : v = WithNode(t, p, ParentOf(t, c), t.ref_counter[c])
  OBVIOUS
<1>2. LaterTimes(t, v) /\ IsTree(v)
  <2>1. IsTree(v)
    BY <1>1 DEF WithNode, TreeOK, IsTree
  <2> QED
    BY <1>1, <2>1, WithNodeTimes
<1>3. u = [v EXCEPT !.prefix_total_len[c] = v.prefix_total_len[p] + Len(c) - Len(p)]
  BY <1>1 DEF SplitNode
<1>4. u.nodes = v.nodes /\ u.time_id = v.time_id /\ u.clock = v.clock
      /\ u.evict_tree_set = v.evict_tree_set
  BY <1>2, <1>3 DEF IsTree
<1> QED
  BY <1>2, <1>4 DEF LaterTimes, TimesOK

LEMMA AddChildTimes ==
  ASSUME NEW t, TreeOK(t), TimesOK(t), NEW key, key \notin t.nodes, NEW p, NEW value,
         NEW u, u = AddChild(t, p, key, value)
  PROVE  LaterTimes(t, u)
<1>1. PICK v : v = WithNode(t, key, p, 0)
  OBVIOUS
<1>2. LaterTimes(t, v) /\ IsTree(v)
  <2>1. IsTree(v)
    BY <1>1 DEF WithNode, TreeOK, IsTree
  <2> QED
    BY <1>1, <2>1, WithNodeTimes
<1>3. u.nodes = v.nodes /\ u.time_id = v.time_id /\ u.clock = v.clock
      /\ u.evict_tree_set = v.evict_tree_set
  BY <1>1, <1>2 DEF AddChild, IsTree
<1> QED
  BY <1>2, <1>3 DEF LaterTimes, TimesOK

LEMMA LaterTwice ==
  ASSUME NEW t, NEW u, NEW v, TimesOK(t), LaterTimes(t, u), LaterTimes(u, v)
  PROVE  LaterTimes(t, v)
<1>1. t.clock \in Nat /\ u.clock \in Nat /\ v.clock \in Nat /\ t.clock <= u.clock /\ u.clock <= v.clock
  BY DEF LaterTimes, TimesOK
<1>2. ASSUME NEW n \in v.nodes \ t.nodes PROVE v.time_id[n] > t.clock
  <2>1. v.time_id[n] \in Nat
    BY DEF LaterTimes, TimesOK
  <2>2. CASE n \in u.nodes
    BY <1>1, <2>2 DEF LaterTimes
  <2>3. CASE n \notin u.nodes
    BY <1>1, <2>1, <2>3 DEF LaterTimes
  <2> QED
    BY <2>2, <2>3
<1> QED
  BY <1>1, <1>2 DEF LaterTimes

\* update_time of the nodes of one path: later times, the deeper ones first.
LEMMA UpdateTimes ==
  ASSUME NEW t, TreeOK(t), TimesOK(t), NEW path \in SUBSET t.nodes,
         \A m, n \in path : Len(m) = Len(n) => m = n, NEW u, u = UpdateTime(t, path)
  PROVE  /\ IsTree(u) /\ u.nodes = t.nodes /\ u.ref_counter = t.ref_counter
         /\ u.evict_tree_set = t.evict_tree_set
         /\ TimesOK(u) /\ t.clock <= u.clock
         /\ \A n \in t.nodes \ path : u.time_id[n] = t.time_id[n]
         /\ \A n \in path : u.time_id[n] > t.clock
<1> DEFINE Deeper(n) == {m \in path : Len(m) >= Len(n)}
<1>1. /\ IsTree(u) /\ u.nodes = t.nodes /\ u.ref_counter = t.ref_counter
      /\ u.evict_tree_set = t.evict_tree_set
      /\ u.time_id = [n \in t.nodes |-> IF n \in path THEN t.clock + Cardinality(Deeper(n))
                                        ELSE t.time_id[n]]
      /\ u.clock = t.clock + Cardinality(path)
  BY DEF UpdateTime, TreeOK, IsTree
<1>2. IsFiniteSet(path) /\ Cardinality(path) \in Nat
  BY FS_Subset, FS_CardinalityType DEF TreeOK, NodesOK
<1>3. \A n \in path : Len(n) \in Nat
  BY DEF TreeOK, NodesOK
<1>4. ASSUME NEW n \in path
      PROVE  Cardinality(Deeper(n)) \in 1..Cardinality(path) /\ IsFiniteSet(Deeper(n))
  <2>1. n \in Deeper(n) /\ Deeper(n) \subseteq path
    BY <1>3
  <2> HIDE DEF Deeper
  <2>2. IsFiniteSet(Deeper(n)) /\ Cardinality(Deeper(n)) <= Cardinality(path)
        /\ Cardinality(Deeper(n)) \in Nat
    BY <1>2, <2>1, FS_Subset, FS_CardinalityType
  <2>3. Cardinality(Deeper(n)) # 0
    BY <2>1, <2>2, FS_EmptySet
  <2> QED
    BY <1>2, <2>2, <2>3
<1>5. ASSUME NEW m \in path, NEW n \in path, Len(m) < Len(n)
      PROVE  Cardinality(Deeper(n)) < Cardinality(Deeper(m))
  <2>1. Deeper(n) \subseteq Deeper(m) /\ m \in Deeper(m) /\ m \notin Deeper(n)
    BY <1>3, <1>5
  <2>2. IsFiniteSet(Deeper(m))
    BY <1>4
  <2> HIDE DEF Deeper
  <2>3. PICK A : A = Deeper(m)
    OBVIOUS
  <2>4. PICK B : B = Deeper(n)
    OBVIOUS
  <2>5. Cardinality(B) < Cardinality(A)
    <3>1. B \subseteq A /\ B # A /\ IsFiniteSet(A)
      BY <2>1, <2>2, <2>3, <2>4
    <3>2. Cardinality(B) <= Cardinality(A) /\ (Cardinality(B) = Cardinality(A) => B = A)
      BY <3>1, FS_Subset
    <3>3. Cardinality(A) \in Nat /\ Cardinality(B) \in Nat
      BY <3>1, FS_Subset, FS_CardinalityType
    <3> QED
      BY <3>1, <3>2, <3>3
  <2> QED
    BY <2>3, <2>4, <2>5
<1>6. \A n \in path : u.time_id[n] = t.clock + Cardinality(Deeper(n))
  BY <1>1
<1>7. \A n \in t.nodes \ path : u.time_id[n] = t.time_id[n]
  BY <1>1
<1> HIDE DEF Deeper
<1>8. \A n \in path : u.time_id[n] > t.clock /\ u.time_id[n] \in 1..u.clock
  BY <1>1, <1>2, <1>4, <1>6 DEF TimesOK
<1>9. \A m, n \in path : u.time_id[m] = u.time_id[n] => m = n
  <2> SUFFICES ASSUME NEW m \in path, NEW n \in path, u.time_id[m] = u.time_id[n] PROVE m = n
    OBVIOUS
  <2>1. Cardinality(Deeper(m)) \in Nat /\ Cardinality(Deeper(n)) \in Nat
    BY <1>2, <1>4
  <2>2. Cardinality(Deeper(m)) = Cardinality(Deeper(n))
    BY <1>6, <2>1 DEF TimesOK
  <2>3. Len(m) = Len(n)
    BY <1>3, <1>5, <2>1, <2>2
  <2> QED
    BY <2>3
<1>10. TimesOK(u)
  <2>1. u.clock \in Nat /\ t.clock <= u.clock /\ t.clock \in Nat
    BY <1>1, <1>2 DEF TimesOK
  <2>2. ASSUME NEW n \in t.nodes PROVE u.time_id[n] \in 1..u.clock
    BY <1>7, <1>8, <2>1 DEF TimesOK
  <2>3. ASSUME NEW m \in t.nodes, NEW n \in t.nodes, u.time_id[m] = u.time_id[n] PROVE m = n
    <3>1. \A k \in t.nodes : t.time_id[k] \in 1..t.clock
      BY DEF TimesOK
    <3>2. CASE m \in path /\ n \in path
      BY <1>9, <2>3, <3>2
    <3>3. CASE m \notin path /\ n \notin path
      BY <1>7, <2>3, <3>3 DEF TimesOK
    <3>4. CASE m \in path /\ n \notin path
      BY <1>7, <1>8, <2>1, <2>3, <3>1, <3>4
    <3>5. CASE m \notin path /\ n \in path
      BY <1>7, <1>8, <2>1, <2>3, <3>1, <3>5
    <3> QED
      BY <3>2, <3>3, <3>4, <3>5
  <2> QED
    BY <1>1, <2>1, <2>2, <2>3 DEF TimesOK
<1>11. t.clock <= u.clock
  BY <1>1, <1>2 DEF TimesOK
<1> QED
  BY <1>1, <1>7, <1>8, <1>10, <1>11

\* The end of insert and match_prefix: the nodes visited get new times and entries.
FinishedOrder(t, g, path, u) ==
  /\ u.nodes = g.nodes /\ TimesOK(u) /\ Current(u) /\ t.clock <= u.clock
  /\ \A n \in u.nodes : IF n \in path \/ n \notin t.nodes THEN u.time_id[n] > t.clock
                        ELSE u.time_id[n] = t.time_id[n]

LEMMA FinishOrder ==
  ASSUME NEW t, TreeOK(t), Current(t), TimesOK(t), NEW s, LaterTimes(t, s),
         NEW g, TreeOK(g), g.nodes = s.nodes, g.time_id = s.time_id, g.clock = s.clock,
         g.evict_tree_set = s.evict_tree_set,
         NEW visited \in SUBSET t.nodes, NEW path \in SUBSET visited,
         \A m, n \in path : Len(m) = Len(n) => m = n,
         NEW key \in Seq(Token), \A m \in g.nodes \ t.nodes : IsPrefix(m, key),
         \A n \in t.nodes : IsPrefix(n, key) => n \in visited,
         \A n \in t.nodes \ visited : g.ref_counter[n] = 0 <=> t.ref_counter[n] = 0,
         NEW u, u = Rekey(t, UpdateTime(g, path), visited)
  PROVE  FinishedOrder(t, g, path, u)
<1>1. /\ t.nodes \subseteq g.nodes /\ g.evict_tree_set = t.evict_tree_set
      /\ TimesOK(g) /\ t.clock <= g.clock
      /\ \A n \in t.nodes : g.time_id[n] = t.time_id[n]
      /\ \A n \in g.nodes \ t.nodes : g.time_id[n] > t.clock
      /\ t.clock \in Nat /\ g.clock \in Nat
  BY DEF LaterTimes, TimesOK
<1>2. PICK v : v = UpdateTime(g, path)
  OBVIOUS
<1>3. /\ IsTree(v) /\ v.nodes = g.nodes /\ v.ref_counter = g.ref_counter
      /\ v.evict_tree_set = g.evict_tree_set
      /\ TimesOK(v) /\ g.clock <= v.clock
      /\ \A n \in g.nodes \ path : v.time_id[n] = g.time_id[n]
      /\ \A n \in path : v.time_id[n] > g.clock
  <2>1. path \in SUBSET g.nodes
    BY <1>1
  <2> QED
    BY <1>1, <1>2, <2>1, UpdateTimes
<1>4. NodesOK(t.nodes) /\ NodesOK(v.nodes)
  BY <1>3 DEF TreeOK
<1>5. \A n \in t.nodes \ visited : /\ IsLeaf(v, n) <=> IsLeaf(t, n)
                                   /\ v.time_id[n] = t.time_id[n]
                                   /\ v.ref_counter[n] = 0 <=> t.ref_counter[n] = 0
  <2>1. TAKE n \in t.nodes \ visited
  <2>2. n \in t.nodes /\ ~IsPrefix(n, key) /\ n \notin path /\ n \in g.nodes
    BY <1>1
  <2>3. IsLeaf(v, n) <=> IsLeaf(t, n)
    BY <1>1, <1>3, <1>4, <2>2, SameLeaf
  <2> QED
    BY <1>1, <1>3, <2>2, <2>3
<1>6. u = Rekey(t, v, visited)
  BY <1>2
<1>7. Current(u)
  <2>1. t.nodes \subseteq v.nodes /\ v.evict_tree_set = t.evict_tree_set
    BY <1>1, <1>3
  <2> QED
    BY <1>3, <1>4, <1>5, <1>6, <2>1, RekeyCurrent
<1>8. u.nodes = v.nodes /\ u.time_id = v.time_id /\ u.clock = v.clock
  BY <1>3, <1>6 DEF Rekey, IsTree
<1>9. TimesOK(u) /\ t.clock <= u.clock
  BY <1>1, <1>3, <1>8 DEF TimesOK
<1>10. ASSUME NEW n \in u.nodes
       PROVE  IF n \in path \/ n \notin t.nodes THEN u.time_id[n] > t.clock
              ELSE u.time_id[n] = t.time_id[n]
  <2>1. n \in g.nodes /\ u.time_id[n] = v.time_id[n] /\ v.time_id[n] \in Nat
    BY <1>3, <1>8 DEF TimesOK
  <2>2. CASE n \in path
    BY <1>1, <1>3, <2>1, <2>2
  <2>3. CASE n \notin path /\ n \notin t.nodes
    BY <1>1, <1>3, <2>1, <2>3
  <2>4. CASE n \notin path /\ n \in t.nodes
    BY <1>1, <1>3, <2>1, <2>4
  <2> QED
    BY <2>2, <2>3, <2>4
<1> QED
  BY <1>3, <1>7, <1>8, <1>9, <1>10 DEF FinishedOrder

\* The nodes of one path differ in length.
LEMMA ChainFacts ==
  ASSUME NEW key \in Seq(Token), NEW N \in SUBSET Seq(Token), \A n \in N : IsPrefix(n, key)
  PROVE  \A m, n \in N : Len(m) = Len(n) => m = n
<1>1. \A n \in N : n = FirstN(key, Len(n))
  BY FirstNFacts
<1> QED
  BY <1>1

\* An operation that walks to x: the nodes above have new times, the others their own.
Walked(t, u, x) ==
  /\ x \in u.nodes /\ t.nodes \subseteq u.nodes
  /\ TimesOK(u) /\ Current(u) /\ t.clock <= u.clock
  /\ \A n \in u.nodes : IF IsPrefix(n, x) THEN u.time_id[n] > t.clock
                        ELSE n \in t.nodes /\ u.time_id[n] = t.time_id[n]

\* insert keeps the eviction order current, and its path is used last.
LEMMA InsertOrder ==
  ASSUME NEW t, TreeOK(t), Current(t), TimesOK(t), NEW key \in Seq(Token), NEW value,
         NEW u, u = Insert(t, key, value)
  PROVE  \E x \in u.nodes : Walked(t, u, x) /\ UsedBy(t, key) = PrefixesOf(x)
<1>1. PICK d, m, p, path : d = Deepest(Path(t, key)) /\ m = MatchLen(t, key) /\ p = FirstN(key, m)
                           /\ path = Path(t, key)
  OBVIOUS
<1>2. NodesOK(t.nodes) /\ KeepsInside(t) /\ t.nodes \subseteq Seq(Token)
  BY DEF TreeOK, NodesOK
<1>3. /\ p \in Seq(Token) /\ IsPrefix(d, p) /\ IsPrefix(p, key) /\ d \in t.nodes
      /\ ChildOn(t, key) = {} => p = d
      /\ ChildOn(t, key) # {} =>
           \E c : ChildOn(t, key) = {c} /\ OnEdge(t, c, p) /\ ParentOf(t, c) = d
      /\ \A n \in t.nodes : IsPrefix(n, key) => IsPrefix(n, d)
  BY <1>1, <1>2, Landing, PathFacts
<1>4. m \in 0..Len(key) /\ (m = Len(key) => p = key)
  BY <1>1, <1>2, MatchLenFacts, FirstNFacts
<1>5. path = {n \in t.nodes : IsPrefix(n, key)} /\ path \in SUBSET t.nodes
  BY <1>1 DEF Path
<1>6. IsPrefix(key, key)
  BY PrefixOrder
<1>7. CASE m = Len(key)
  <2>1. PICK met : met = path \cup ChildOn(t, key)
    OBVIOUS
  <2>2. u = Rekey(t, UpdateTime(t, met), met)
    BY <1>1, <1>7, <2>1 DEF Insert
  <2>3. PICK x \in t.nodes : /\ met = {n \in t.nodes : IsPrefix(n, x)}
                             /\ UsedBy(t, key) = PrefixesOf(x)
    <3>1. UsedBy(t, key) = PrefixesOf(key) \cup UNION {EdgeTokens(t, c) : c \in ChildOn(t, key)}
      BY <1>1, <1>4, <1>7 DEF UsedBy
    <3>2. CASE ChildOn(t, key) = {}
      <4>1. met = {n \in t.nodes : IsPrefix(n, key)} /\ UsedBy(t, key) = PrefixesOf(key)
        BY <1>5, <2>1, <3>1, <3>2
      <4>2. key \in t.nodes
        BY <1>3, <1>4, <1>7, <3>2
      <4> QED
        BY <4>1, <4>2
    <3>3. CASE ChildOn(t, key) # {}
      <4>1. PICK c : ChildOn(t, key) = {c} /\ OnEdge(t, c, key) /\ ParentOf(t, c) = d
        BY <1>3, <1>4, <1>7, <3>3
      <4>2. c \in t.nodes \ {Root} /\ c \in Seq(Token) /\ IsPrefix(key, c) /\ IsPrefix(c, c)
            /\ d \in Seq(Token) /\ IsPrefix(d, key) /\ key \notin t.nodes
        BY <1>2, <1>3, <1>4, <1>7, <4>1, PrefixOrder DEF OnEdge
      <4>3. \A n \in t.nodes : IsPrefix(n, c) /\ n # c => IsPrefix(n, d)
        BY <1>2, <4>1, <4>2, ParentFacts
      <4>4. met = {n \in t.nodes : IsPrefix(n, c)}
        <5>1. met = {n \in t.nodes : IsPrefix(n, key)} \cup {c}
          BY <1>5, <2>1, <4>1
        <5>2. \A n \in t.nodes : IsPrefix(n, c) <=> IsPrefix(n, key) \/ n = c
          BY <1>2, <4>2, <4>3, PrefixOrder
        <5> QED
          BY <4>2, <5>1, <5>2
      <4>5. UsedBy(t, key) = PrefixesOf(c)
        <5>1. UsedBy(t, key) = PrefixesOf(key) \cup EdgeTokens(t, c)
          BY <3>1, <4>1
        <5>2. EdgeTokens(t, c) = {q \in PrefixesOf(c) : Len(q) > Len(d)}
          BY <4>1 DEF EdgeTokens
        <5>3. PrefixesOf(key) = {q \in Seq(Token) \ {Root} : IsPrefix(q, key)}
              /\ PrefixesOf(c) = {q \in Seq(Token) \ {Root} : IsPrefix(q, c)}
          BY <4>2, PrefixesFacts
        <5>4. \A q \in Seq(Token) : IsPrefix(q, key) => IsPrefix(q, c)
          BY <4>2, PrefixOrder
        <5>5. \A q \in Seq(Token) : IsPrefix(q, c) /\ ~(Len(q) > Len(d)) => IsPrefix(q, key)
          <6>1. TAKE q \in Seq(Token)
          <6>2. HAVE IsPrefix(q, c) /\ ~(Len(q) > Len(d))
          <6>3. Len(q) <= Len(d) /\ IsPrefix(d, c)
            BY <4>2, <6>2, PrefixOrder
          <6>4. IsPrefix(q, d)
            BY <4>2, <6>2, <6>3, PrefixOrder
          <6> QED
            BY <4>2, <6>4, PrefixOrder
        <5> QED
          BY <5>1, <5>2, <5>3, <5>4, <5>5
      <4> QED
        BY <4>2, <4>4, <4>5
    <3> QED
      BY <3>2, <3>3
  <2>4. x \in Seq(Token) /\ \A n \in met : IsPrefix(n, x)
    BY <1>2, <2>3
  <2>5. met \in SUBSET t.nodes /\ \A n \in t.nodes : IsPrefix(n, x) => n \in met
    BY <2>3
  <2>6. FinishedOrder(t, t, met, u)
    <3>1. LaterTimes(t, t)
      BY DEF LaterTimes, TimesOK
    <3>2. \A n, k \in met : Len(n) = Len(k) => n = k
      BY <1>2, <2>4, <2>5, ChainFacts
    <3> QED
      BY <2>2, <2>4, <2>5, <3>1, <3>2, FinishOrder
  <2>7. Walked(t, u, x)
    BY <2>3, <2>6 DEF FinishedOrder, Walked
  <2> QED
    BY <2>3, <2>7 DEF Walked
<1>8. CASE m # Len(key)
  <2>1. PICK visited : visited = path \cup ChildOn(t, key)
    OBVIOUS
  <2>2. visited \in SUBSET t.nodes /\ path \in SUBSET visited
    BY <1>3, <1>5, <2>1 DEF OnEdge
  <2>3. \A n, k \in path : Len(n) = Len(k) => n = k
    <3>1. key \in Seq(Token) /\ path \in SUBSET Seq(Token) /\ \A n \in path : IsPrefix(n, key)
      BY <1>2, <1>5
    <3> QED
      BY <3>1, ChainFacts
  <2>4. UsedBy(t, key) = PrefixesOf(key)
    <3>1. m < Len(key)
      BY <1>4, <1>8
    <3> QED
      BY <1>1, <3>1 DEF UsedBy
  <2>5. ASSUME NEW s, NEW g, LaterTimes(t, s), TreeOK(g), g.nodes = s.nodes, s = g,
               key \in g.nodes, \A n \in g.nodes \ t.nodes : IsPrefix(n, key),
               \A n \in t.nodes : g.ref_counter[n] = t.ref_counter[n],
               u = Rekey(t, UpdateTime(g, path), visited)
        PROVE  Walked(t, u, key)
    <3>1. \A n \in t.nodes : IsPrefix(n, key) => n \in visited
      BY <1>5, <2>2
    <3>2. FinishedOrder(t, g, path, u)
      BY <2>2, <2>3, <2>5, <3>1, FinishOrder
    <3>3. t.nodes \subseteq g.nodes
      BY <2>5 DEF LaterTimes
    <3> QED
      BY <1>5, <2>5, <3>2, <3>3 DEF FinishedOrder, Walked
  <2>6. CASE ChildOn(t, key) = {}
    <3>1. PICK g : g = AddChild(t, p, key, value)
      OBVIOUS
    <3>2. p \in t.nodes
      BY <1>3, <2>6
    <3>3. /\ key \notin t.nodes /\ TreeOK(g) /\ g.nodes = t.nodes \cup {key}
          /\ \A n \in t.nodes : g.ref_counter[n] = t.ref_counter[n]
      BY <1>1, <1>8, <3>1, <3>2, AddChildFacts
    <3>4. LaterTimes(t, g)
      BY <3>1, <3>3, AddChildTimes
    <3>5. u = Rekey(t, UpdateTime(g, path), visited)
      BY <1>1, <1>8, <2>1, <2>6, <3>1 DEF Insert
    <3>6. Walked(t, u, key)
      BY <1>6, <2>5, <3>3, <3>4, <3>5
    <3> QED
      BY <2>4, <3>6 DEF Walked
  <2>7. CASE ChildOn(t, key) # {}
    <3>1. PICK c : ChildOn(t, key) = {c} /\ OnEdge(t, c, p)
      BY <1>3, <2>7
    <3>2. PICK s : s = SplitNode(t, c, p)
      OBVIOUS
    <3>3. /\ TreeOK(s) /\ s.nodes = t.nodes \cup {p} /\ s.value = t.value
          /\ \A n \in t.nodes : s.ref_counter[n] = t.ref_counter[n]
      BY <3>1, <3>2, SplitFacts
    <3>4. LaterTimes(t, s)
      BY <3>1, <3>2, SplitTimes DEF OnEdge
    <3>5. MatchLen(s, key) = m
      BY <1>1, <3>3 DEF MatchLen
    <3>6. PICK g : g = AddChild(s, p, key, value)
      OBVIOUS
    <3>7. p \in s.nodes /\ p = FirstN(key, MatchLen(s, key)) /\ MatchLen(s, key) # Len(key)
      BY <1>1, <1>8, <3>3, <3>5
    <3>8. /\ key \notin s.nodes /\ TreeOK(g) /\ g.nodes = s.nodes \cup {key}
          /\ \A n \in s.nodes : g.ref_counter[n] = s.ref_counter[n]
      BY <3>3, <3>6, <3>7, AddChildFacts
    <3>9. TimesOK(s)
      BY <3>4 DEF LaterTimes
    <3>10. LaterTimes(s, g)
      BY <3>3, <3>6, <3>8, <3>9, AddChildTimes
    <3>11. LaterTimes(t, g)
      BY <3>4, <3>10, LaterTwice
    <3>12. u = Rekey(t, UpdateTime(g, path), visited)
      <4>1. (CHOOSE e \in ChildOn(t, key) : TRUE) = c
        BY <3>1
      <4> QED
        BY <1>1, <1>8, <2>1, <2>7, <3>2, <3>6, <4>1 DEF Insert
    <3>13. key \in g.nodes /\ (\A n \in g.nodes \ t.nodes : IsPrefix(n, key))
           /\ (\A n \in t.nodes : g.ref_counter[n] = t.ref_counter[n])
      BY <1>3, <1>6, <3>3, <3>8
    <3>14. Walked(t, u, key)
      BY <2>5, <3>8, <3>11, <3>12, <3>13
    <3> QED
      BY <2>4, <3>14 DEF Walked
  <2> QED
    BY <2>6, <2>7
<1> QED
  BY <1>7, <1>8

\* dec_node_ref_counter touches no entry if no leaf on the path loses its last reference.
LEMMA DecOrder ==
  ASSUME NEW t, TreeOK(t), Current(t), TimesOK(t), \A n \in t.nodes : t.ref_counter[n] \in Nat,
         NEW node \in Seq(Token),
         \A n \in t.nodes : IsPrefix(n, node) /\ IsLeaf(t, n) => t.ref_counter[n] > 1,
         NEW u, u = DecNodeRefCounter(t, node)
  PROVE  /\ u.nodes = t.nodes /\ u.time_id = t.time_id /\ u.clock = t.clock
         /\ Current(u) /\ TimesOK(u)
<1>1. PICK path : path = Path(t, node)
  OBVIOUS
<1>2. /\ u.nodes = t.nodes /\ u.time_id = t.time_id /\ u.clock = t.clock
      /\ u.evict_tree_set = t.evict_tree_set
      /\ u.ref_counter = [n \in t.nodes |-> IF n \in path THEN t.ref_counter[n] - 1
                                            ELSE t.ref_counter[n]]
  BY <1>1 DEF DecNodeRefCounter, TreeOK, IsTree
<1>3. NodesOK(t.nodes) /\ NodesOK(u.nodes)
  BY <1>2 DEF TreeOK
<1>4. \A n \in t.nodes : IsLeaf(u, n) <=> IsLeaf(t, n)
  BY <1>2 DEF IsLeaf
<1>5. ASSUME NEW n \in t.nodes, IsLeaf(t, n) PROVE Entry(u, n) = Entry(t, n)
  <2>1. n \in path <=> IsPrefix(n, node)
    BY <1>1 DEF Path
  <2>2. u.ref_counter[n] = 0 <=> t.ref_counter[n] = 0
    BY <1>2, <1>5, <2>1
  <2> QED
    BY <1>2, <1>3, <1>4, <1>5, <2>2, SameEntry
<1>6. {Entry(u, n) : n \in {m \in u.nodes : IsLeaf(u, m)}}
        = {Entry(t, n) : n \in {m \in t.nodes : IsLeaf(t, m)}}
  BY <1>2, <1>4, <1>5
<1>7. Current(u)
  BY <1>2, <1>6 DEF Current
<1>8. TimesOK(u)
  BY <1>2 DEF TimesOK
<1> QED
  BY <1>2, <1>7, <1>8

\* match_prefix keeps the eviction order current, and its path is used last.
LEMMA MatchOrder ==
  ASSUME NEW t, TreeOK(t), Current(t), TimesOK(t), NEW hold \in [Req -> t.nodes], RefsOK(t, hold),
         NEW key \in Seq(Token), NEW u, u = MatchPrefix(t, key).tree,
         NEW found, found = FirstN(key, MatchLen(t, key))
  PROVE  Walked(t, u, found)
<1>1. PICK path : path = Path(t, key)
  OBVIOUS
<1>c. PICK c0 : c0 = CHOOSE c \in ChildOn(t, key) : TRUE
  OBVIOUS
<1>s. PICK s : s = SplitNode(t, c0, found)
  OBVIOUS
<1>i. PICK g : g = IF found \in path THEN t ELSE s
  OBVIOUS
<1>2. g = IF found \in path THEN t
          ELSE SplitNode(t, CHOOSE c \in ChildOn(t, key) : TRUE, found)
  BY <1>c, <1>s, <1>i
<1>3. /\ Grows(t, g) /\ found \in g.nodes /\ g.value = t.value
      /\ path \cup {found} = {n \in g.nodes : IsPrefix(n, found)}
  BY <1>1, <1>2, MatchGrows
<1>4. /\ TreeOK(g) /\ t.nodes \subseteq g.nodes /\ RefsOK(g, hold) /\ hold \in [Req -> g.nodes]
  BY <1>3 DEF Grows
<1>5. (\A n \in g.nodes : g.ref_counter[n] \in Nat) /\ g.ref_counter[Root] > 0
  BY <1>4, RefsFacts
<1>6. PICK a : a = AddRef(g, path \cup {found})
  OBVIOUS
<1>7. /\ TreeOK(a) /\ a.nodes = g.nodes /\ a.value = g.value
      /\ \A n \in g.nodes :
           a.ref_counter[n] = g.ref_counter[n] + (IF n \in path \cup {found} THEN 1 ELSE 0)
  <2>1. path \cup {found} \in SUBSET g.nodes
    BY <1>3
  <2> QED
    BY <1>4, <1>5, <1>6, <2>1, AddRefFacts
<1>8. PICK visited : visited = IF found \in path THEN path ELSE path \cup ChildOn(t, key)
  OBVIOUS
<1>9. PICK b : b = Rekey(t, UpdateTime(a, path), visited)
  OBVIOUS
<1>10. u = IF found = Root THEN DecNodeRefCounter(b, Root) ELSE b
  BY <1>1, <1>2, <1>6, <1>8, <1>9 DEF MatchPrefix
<1>11. NodesOK(t.nodes) /\ KeepsInside(t) /\ t.nodes \subseteq Seq(Token)
  BY DEF TreeOK, NodesOK
<1>12. /\ found \in Seq(Token) /\ IsPrefix(found, key)
       /\ ChildOn(t, key) = {} => found \in path
       /\ ChildOn(t, key) # {} => \E c : ChildOn(t, key) = {c} /\ OnEdge(t, c, found)
  <2>1. PICK d : d = Deepest(Path(t, key))
    OBVIOUS
  <2>2. d \in t.nodes /\ IsPrefix(d, key)
    BY <1>11, <2>1, PathFacts
  <2>3. /\ found \in Seq(Token) /\ IsPrefix(found, key)
        /\ ChildOn(t, key) = {} => found = d
        /\ ChildOn(t, key) # {} => \E c : ChildOn(t, key) = {c} /\ OnEdge(t, c, found)
    BY <1>11, <2>1, Landing
  <2> QED
    BY <1>1, <2>2, <2>3 DEF Path
<1>13. path = {n \in t.nodes : IsPrefix(n, key)}
  BY <1>1 DEF Path
<1>14. /\ LaterTimes(t, g) /\ g.nodes \ t.nodes \subseteq {found}
       /\ visited \in SUBSET t.nodes /\ path \in SUBSET visited
       /\ found \in path \/ found \notin t.nodes
       /\ \A n \in t.nodes : g.ref_counter[n] = t.ref_counter[n]
  <2>1. CASE found \in path
    <3>1. g = t /\ visited = path
      BY <1>8, <1>i, <2>1
    <3>2. LaterTimes(t, t)
      BY DEF LaterTimes, TimesOK
    <3> QED
      BY <1>13, <2>1, <3>1, <3>2
  <2>2. CASE found \notin path
    <3>1. PICK c : ChildOn(t, key) = {c} /\ OnEdge(t, c, found)
      BY <1>12, <2>2
    <3>2. c0 = c /\ g = s /\ visited = path \cup {c}
      BY <1>8, <1>c, <1>i, <2>2, <3>1
    <3>3. found \notin t.nodes /\ c \in t.nodes
      BY <3>1 DEF OnEdge
    <3>4. g.nodes = t.nodes \cup {found} /\ \A n \in t.nodes : g.ref_counter[n] = t.ref_counter[n]
      BY <1>s, <3>1, <3>2, SplitFacts
    <3>5. LaterTimes(t, g)
      BY <1>s, <3>1, <3>2, <3>3, SplitTimes
    <3> QED
      BY <1>13, <3>2, <3>3, <3>4, <3>5
  <2> QED
    BY <2>1, <2>2
<1>15. a.time_id = g.time_id /\ a.clock = g.clock /\ a.evict_tree_set = g.evict_tree_set
  BY <1>4, <1>6 DEF AddRef, TreeOK, IsTree
<1>16. FinishedOrder(t, a, path, b)
  <2>1. \A m, n \in path : Len(m) = Len(n) => m = n
    BY <1>11, <1>13, ChainFacts
  <2>2. \A m \in a.nodes \ t.nodes : IsPrefix(m, key)
    BY <1>7, <1>12, <1>14
  <2>3. \A n \in t.nodes : IsPrefix(n, key) => n \in visited
    BY <1>13, <1>14
  <2>4. \A n \in t.nodes \ visited : a.ref_counter[n] = 0 <=> t.ref_counter[n] = 0
    <3>1. TAKE n \in t.nodes \ visited
    <3>2. n \notin path \cup {found} /\ n \in g.nodes
      BY <1>4, <1>14
    <3>3. a.ref_counter[n] = g.ref_counter[n] + 0
      BY <1>7, <3>2
    <3>4. g.ref_counter[n] \in Nat
      BY <1>5, <3>2
    <3>5. g.ref_counter[n] = t.ref_counter[n]
      BY <1>14
    <3>6. a.ref_counter[n] = g.ref_counter[n]
      BY <3>3, <3>4
    <3> QED
      BY <3>5, <3>6
  <2>5. a.nodes = g.nodes
    BY <1>7
  <2> QED
    BY <1>7, <1>9, <1>14, <1>15, <2>1, <2>2, <2>3, <2>4, <2>5, FinishOrder
<1>17. Walked(t, b, found)
  <2>1. b.nodes = g.nodes /\ TimesOK(b) /\ Current(b) /\ t.clock <= b.clock
        /\ \A n \in b.nodes : IF n \in path \/ n \notin t.nodes THEN b.time_id[n] > t.clock
                              ELSE b.time_id[n] = t.time_id[n]
    BY <1>7, <1>16 DEF FinishedOrder
  <2>2. \A n \in g.nodes : IsPrefix(n, found) <=> n \in path \/ n \notin t.nodes
    BY <1>3, <1>14
  <2> QED
    BY <1>3, <1>4, <2>1, <2>2 DEF Walked
<1>18. CASE found = Root
  <2>1. u = DecNodeRefCounter(b, Root)
    BY <1>10, <1>18
  <2>2. TreeOK(b) /\ SameTree(a, b)
    BY <1>7, <1>9, FinishFacts
  <2>3. \A n \in b.nodes : /\ b.ref_counter[n] = a.ref_counter[n] /\ n \in g.nodes
                           /\ a.ref_counter[n] = g.ref_counter[n] + (IF n \in path \cup {found} THEN 1 ELSE 0)
                           /\ g.ref_counter[n] \in Nat
    BY <1>5, <1>7, <2>2 DEF SameTree
  <2>4. \A n \in b.nodes : b.ref_counter[n] \in Nat
    BY <2>3
  <2>5. ASSUME NEW n \in b.nodes, IsPrefix(n, Root) PROVE b.ref_counter[n] > 1
    <3>1. n = Root
      BY <1>12, <1>18, <2>2, <2>5, PrefixOrder DEF TreeOK, NodesOK
    <3> QED
      BY <1>5, <1>18, <2>3, <3>1
  <2>6. Root \in Seq(Token)
    BY <1>12, <1>18
  <2>7. Current(b) /\ TimesOK(b)
    BY <1>17 DEF Walked
  <2>8. /\ u.nodes = b.nodes /\ u.time_id = b.time_id /\ u.clock = b.clock
        /\ Current(u) /\ TimesOK(u)
    BY <2>1, <2>2, <2>4, <2>5, <2>6, <2>7, DecOrder
  <2> QED
    BY <1>17, <2>8 DEF Walked
<1>19. CASE found # Root
  BY <1>10, <1>17, <1>19
<1> QED
  BY <1>18, <1>19

\* The order of two leaves' keys.
LEMMA LeafOrder ==
  ASSUME NEW a \in {0, 1}, NEW b \in {0, 1}, NEW x \in Nat, NEW y \in Nat
  PROVE  SortsBefore(<<a, 0, x>>, <<b, 0, y>>) <=> a < b \/ (a = b /\ x < y)
<1> DEFINE k == <<a, 0, x>>
           l == <<b, 0, y>>
<1>1. k[1] = a /\ k[2] = 0 /\ k[3] = x /\ l[1] = b /\ l[2] = 0 /\ l[3] = y
  OBVIOUS
<1>2. ASSUME a < b PROVE SortsBefore(k, l)
  <2>1. k[1] < l[1] /\ \A j \in 1..(1 - 1) : k[j] = l[j]
    BY <1>2
  <2> HIDE DEF k, l
  <2> QED
    BY <2>1 DEF SortsBefore
<1>3. ASSUME a = b, x < y PROVE SortsBefore(k, l)
  <2>1. k[3] < l[3]
    BY <1>1, <1>3
  <2>2. \A j \in 1..(3 - 1) : k[j] = l[j]
    <3>1. TAKE j \in 1..(3 - 1)
    <3>2. j = 1 \/ j = 2
      OBVIOUS
    <3> QED
      BY <1>1, <1>3, <3>2
  <2> HIDE DEF k, l
  <2> QED
    BY <2>1, <2>2 DEF SortsBefore
<1>4. ASSUME SortsBefore(k, l) PROVE a < b \/ (a = b /\ x < y)
  <2> HIDE DEF k, l
  <2>1. PICK i \in 1..3 : k[i] < l[i] /\ \A j \in 1..(i - 1) : k[j] = l[j]
    BY <1>4 DEF SortsBefore
  <2>2. i = 1 \/ i = 2 \/ i = 3
    OBVIOUS
  <2>3. CASE i = 1
    BY <1>1, <2>1, <2>3
  <2>4. CASE i = 2
    BY <1>1, <2>1, <2>4
  <2>5. CASE i = 3
    <3>1. 1 \in 1..(i - 1)
      BY <2>5
    <3> QED
      BY <1>1, <2>1, <2>5, <3>1
  <2> QED
    BY <2>2, <2>3, <2>4, <2>5
<1> QED
  BY <1>2, <1>3, <1>4

\* The first entry is a leaf's, and no leaf is before it.
LEMMA FirstFacts ==
  ASSUME NEW t, TreeOK(t), Current(t), TimesOK(t), \A n \in t.nodes : t.ref_counter[n] \in Nat,
         NEW l \in t.nodes, IsLeaf(t, l), NEW n, n = FirstEntry(t).node
  PROVE  /\ FirstEntry(t) \in t.evict_tree_set /\ FirstEntry(t) = Entry(t, n)
         /\ n \in t.nodes /\ IsLeaf(t, n)
         /\ t.ref_counter[l] = 0 => t.ref_counter[n] = 0 /\ t.time_id[n] <= t.time_id[l]
<1> DEFINE Leaves == {m \in t.nodes : IsLeaf(t, m)}
           Flag(m) == IF t.ref_counter[m] = 0 THEN 0 ELSE 1
           Rank(m) == (IF t.ref_counter[m] = 0 THEN 0 ELSE t.clock) + t.time_id[m]
           D == {Rank(m) : m \in Leaves}
<1>1. NodesOK(t.nodes) /\ t.clock \in Nat /\ \A m \in t.nodes : t.time_id[m] \in 1..t.clock
  BY DEF TreeOK, TimesOK
<1>2. t.evict_tree_set = {Entry(t, m) : m \in Leaves}
  BY DEF Current
<1>3. \A m \in Leaves : Entry(t, m).node = m /\ Entry(t, m).key = <<Flag(m), 0, t.time_id[m]>>
  BY <1>1, LeafKey
<1>4. \A m \in Leaves : Flag(m) \in {0, 1} /\ t.time_id[m] \in Nat
  BY <1>1
<1>5. \A m, k \in Leaves : SortsBefore(Entry(t, m).key, Entry(t, k).key)
                             <=> Flag(m) < Flag(k) \/ (Flag(m) = Flag(k) /\ t.time_id[m] < t.time_id[k])
  <2>1. TAKE m, k \in Leaves
  <2> HIDE DEF Flag, Leaves
  <2>2. SortsBefore(<<Flag(m), 0, t.time_id[m]>>, <<Flag(k), 0, t.time_id[k]>>)
          <=> Flag(m) < Flag(k) \/ (Flag(m) = Flag(k) /\ t.time_id[m] < t.time_id[k])
    BY <1>4, LeafOrder
  <2> QED
    BY <1>3, <2>2
<1>6. PICK m0 \in Leaves : \A m \in Leaves : Rank(m0) <= Rank(m)
  <2>1. D \subseteq Nat /\ D # {}
    BY <1>1
  <2>2. PICK d \in D : \A e \in D : d <= e
    <3> HIDE DEF D
    <3> QED
      BY <2>1, MinElement
  <2>3. PICK m0 \in Leaves : d = Rank(m0)
    BY <2>2
  <2>4. \A m \in Leaves : Rank(m) \in D
    OBVIOUS
  <2> HIDE DEF D, Rank, Leaves
  <2> QED
    BY <2>2, <2>3, <2>4
<1>7. \A m \in Leaves : m # m0 => SortsBefore(Entry(t, m0).key, Entry(t, m).key)
  <2>1. TAKE m \in Leaves
  <2>2. HAVE m # m0
  <2>3. t.time_id[m0] # t.time_id[m] /\ Rank(m0) <= Rank(m)
    BY <1>6, <2>2 DEF TimesOK
  <2>4. t.time_id[m0] \in 1..t.clock /\ t.time_id[m] \in 1..t.clock
    BY <1>1, <1>6
  <2>5. Flag(m0) < Flag(m) \/ (Flag(m0) = Flag(m) /\ t.time_id[m0] < t.time_id[m])
    BY <1>1, <2>3, <2>4
  <2> HIDE DEF Flag, Leaves
  <2> QED
    BY <1>5, <2>5
<1>8. PICK S : S = t.evict_tree_set
  OBVIOUS
<1>9. \E e \in S : \A f \in S \ {e} : SortsBefore(e.key, f.key)
  <2> HIDE DEF Leaves, Flag
  <2>1. Entry(t, m0) \in S
    BY <1>2, <1>6, <1>8
  <2>2. \A f \in S \ {Entry(t, m0)} : SortsBefore(Entry(t, m0).key, f.key)
    BY <1>2, <1>7, <1>8
  <2> QED
    BY <2>1, <2>2
<1>10. PICK e : e = FirstEntry(t)
  OBVIOUS
<1>11. e \in S /\ \A f \in S \ {e} : SortsBefore(e.key, f.key)
  <2>1. e = CHOOSE x \in S : \A f \in S \ {x} : SortsBefore(x.key, f.key)
    BY <1>8, <1>10 DEF FirstEntry
  <2> QED
    BY <1>9, <2>1
<1>12. PICK k \in Leaves : e = Entry(t, k)
  BY <1>2, <1>8, <1>11
<1>13. k = n
  BY <1>3, <1>10, <1>12
<1>14. ASSUME t.ref_counter[l] = 0 PROVE t.ref_counter[n] = 0 /\ t.time_id[n] <= t.time_id[l]
  <2>1. CASE l = n
    BY <1>1, <1>14, <2>1
  <2>2. CASE l # n
    <3>1. Entry(t, l) \in S \ {e}
      BY <1>2, <1>3, <1>8, <1>12, <1>13, <2>2
    <3>2. SortsBefore(Entry(t, n).key, Entry(t, l).key)
      BY <1>11, <1>12, <1>13, <3>1
    <3>3. l \in Leaves /\ n \in Leaves
      BY <1>13
    <3>4. Flag(n) < Flag(l) \/ (Flag(n) = Flag(l) /\ t.time_id[n] < t.time_id[l])
      <4> HIDE DEF Flag, Leaves
      <4> QED
        BY <1>5, <3>2, <3>3
    <3>5. t.time_id[n] \in Nat /\ t.time_id[l] \in Nat
      BY <1>4, <3>3
    <3> QED
      BY <1>14, <3>4, <3>5
  <2> QED
    BY <2>1, <2>2
<1> QED
  BY <1>8, <1>10, <1>11, <1>12, <1>13, <1>14

\* One pass of the loop of evict: the first entry goes, and the parent's comes if it
\* is a leaf now.
PoppedOrder(t, n, u) ==
  /\ n \in t.nodes \ {Root} /\ IsLeaf(t, n) /\ t.ref_counter[n] = 0
  /\ u.nodes = t.nodes \ {n} /\ u.clock = t.clock
  /\ \A m \in u.nodes : u.time_id[m] = t.time_id[m] /\ u.ref_counter[m] = t.ref_counter[m]
  /\ u.refed_tokens_num = t.refed_tokens_num
  /\ u.tree_total_tokens_num = t.tree_total_tokens_num - ValueLen(t, n)
  /\ Current(u) /\ TimesOK(u)

\* A pass of evict takes an unreferenced leaf and keeps the eviction order current.
LEMMA PopOrder ==
  ASSUME NEW t, TreeOK(t), Current(t), TimesOK(t), \A m \in t.nodes : t.ref_counter[m] \in Nat,
         Evictable(t), NEW n, n = FirstEntry(t).node, NEW u, u = PopFirst(t)
  PROVE  PoppedOrder(t, n, u)
<1>1. n \in t.nodes \ {Root} /\ t.ref_counter[n] = 0 /\ IsLeaf(t, n)
  BY DEF Evictable
<1>2. IsTree(t) /\ NodesOK(t.nodes) /\ t.nodes \subseteq Seq(Token)
  BY DEF TreeOK, NodesOK
<1>3. PICK p : p = ParentOf(t, n)
  OBVIOUS
<1>4. PICK l : l = ValueLen(t, n)
  OBVIOUS
<1>5. PICK e : e = t.evict_tree_set \ {FirstEntry(t)}
  OBVIOUS
<1>V. PICK V : V = [q \in {x \in DOMAIN t.value : Len(x) <= Len(p) \/ ~IsPrefix(x, n)} |-> t.value[q]]
  OBVIOUS
<1>R. PICK R : R = [m \in t.nodes \ {n} |-> t.ref_counter[m]]
  OBVIOUS
<1>T. PICK T : T = [m \in t.nodes \ {n} |-> t.time_id[m]]
  OBVIOUS
<1>P. PICK P : P = [m \in t.nodes \ {n} |-> t.prefix_total_len[m]]
  OBVIOUS
<1>v. PICK v : v = [t EXCEPT !.nodes = @ \ {n}, !.value = V, !.ref_counter = R, !.time_id = T,
                             !.prefix_total_len = P, !.evict_tree_set = e,
                             !.tree_total_tokens_num = @ - l]
  OBVIOUS
<1>6. v = [nodes |-> t.nodes \ {n}, value |-> V, ref_counter |-> R, time_id |-> T,
           prefix_total_len |-> P, evict_tree_set |-> e, clock |-> t.clock,
           refed_tokens_num |-> t.refed_tokens_num,
           tree_total_tokens_num |-> t.tree_total_tokens_num - l]
  BY <1>2, <1>v DEF IsTree
<1>t. IsTree(v)
  BY <1>6 DEF IsTree
<1>7. PICK f : f = v.evict_tree_set \cup {Entry(v, p)}
  OBVIOUS
<1>8. u = IF IsLeaf(v, p) THEN [v EXCEPT !.evict_tree_set = f] ELSE v
  <2>1. u = IF IsLeaf(v, p) THEN [v EXCEPT !.evict_tree_set = @ \cup {Entry(v, p)}] ELSE v
    BY <1>3, <1>4, <1>5, <1>V, <1>R, <1>T, <1>P, <1>v DEF PopFirst
  <2> QED
    BY <1>7, <2>1
<1>9. /\ v.nodes = t.nodes \ {n} /\ v.clock = t.clock /\ v.evict_tree_set = e
      /\ \A m \in v.nodes : v.time_id[m] = t.time_id[m] /\ v.ref_counter[m] = t.ref_counter[m]
      /\ v.refed_tokens_num = t.refed_tokens_num
      /\ v.tree_total_tokens_num = t.tree_total_tokens_num - l
  BY <1>6, <1>R, <1>T
<1>10. /\ u.nodes = v.nodes /\ u.clock = v.clock /\ u.time_id = v.time_id
       /\ u.ref_counter = v.ref_counter /\ u.refed_tokens_num = v.refed_tokens_num
       /\ u.tree_total_tokens_num = v.tree_total_tokens_num
       /\ u.evict_tree_set = IF IsLeaf(v, p) THEN f ELSE e
  <2>1. CASE ~IsLeaf(v, p)
    BY <1>8, <1>9, <2>1
  <2>2. CASE IsLeaf(v, p)
    <3>1. u = [v EXCEPT !.evict_tree_set = f]
      BY <1>8, <2>2
    <3> QED
      BY <1>t, <2>2, <3>1 DEF IsTree
  <2> QED
    BY <2>1, <2>2
<1>11. FirstEntry(t) = Entry(t, n)
  BY <1>1, FirstFacts
<1>12. /\ p \in v.nodes /\ p \in Seq(Token) /\ IsPrefix(p, n) /\ p # n /\ n \in Seq(Token)
       /\ \A m \in t.nodes : IsPrefix(m, n) /\ m # n => IsPrefix(m, p)
  BY <1>1, <1>2, <1>3, <1>9, ParentFacts
<1>13. NodesOK(v.nodes)
  <2>1. v.nodes = t.nodes \ {n}
    BY <1>9
  <2>2. Remains(t, n, v)
    BY ONLY TreeOK(t), <1>1, <2>1, LeafGoes
  <2> QED
    BY <2>2 DEF Remains
<1>14. ~IsLeaf(t, p)
  BY <1>1, <1>12 DEF IsLeaf, IsStrictPrefix
<1>15. ASSUME NEW m \in v.nodes, m # p PROVE IsLeaf(v, m) <=> IsLeaf(t, m)
  <2>1. IsLeaf(t, m) => IsLeaf(v, m)
    BY <1>9 DEF IsLeaf
  <2>2. ASSUME NEW k \in t.nodes, IsStrictPrefix(m, k) PROVE ~IsLeaf(v, m)
    <3>1. CASE k # n
      BY <1>9, <2>2, <3>1 DEF IsLeaf
    <3>2. CASE k = n
      <4>1. IsPrefix(m, p)
        BY <1>9, <1>12, <2>2, <3>2 DEF IsStrictPrefix
      <4> QED
        BY <1>12, <1>15, <4>1 DEF IsLeaf, IsStrictPrefix
    <3> QED
      BY <3>1, <3>2
  <2> QED
    BY <2>1, <2>2 DEF IsLeaf
<1>16. \A m \in v.nodes : m # p /\ IsLeaf(v, m) => Entry(v, m) = Entry(t, m)
  <2>1. TAKE m \in v.nodes
  <2>2. HAVE m # p /\ IsLeaf(v, m)
  <2>3. IsLeaf(t, m) /\ m \in t.nodes
    BY <1>9, <1>15, <2>2
  <2>4. v.time_id[m] = t.time_id[m] /\ (v.ref_counter[m] = 0 <=> t.ref_counter[m] = 0)
    BY <1>9
  <2>5. NodesOK(t.nodes) /\ NodesOK(v.nodes) /\ IsLeaf(v, m)
    BY <1>2, <1>13, <2>2
  <2> QED
    BY ONLY <2>3, <2>4, <2>5, m \in v.nodes, SameEntry
<1>17. e = {Entry(v, m) : m \in {k \in v.nodes \ {p} : IsLeaf(v, k)}}
  <2>1. e = {Entry(t, m) : m \in {k \in t.nodes : IsLeaf(t, k)}} \ {Entry(t, n)}
    BY <1>5, <1>11 DEF Current
  <2>2. e = {Entry(t, m) : m \in {k \in t.nodes \ {n} : IsLeaf(t, k)}}
    BY <2>1, EntryNode
  <2>3. {k \in t.nodes \ {n} : IsLeaf(t, k)} = {k \in v.nodes \ {p} : IsLeaf(v, k)}
    BY <1>9, <1>14, <1>15
  <2>4. e = {Entry(t, m) : m \in {k \in v.nodes \ {p} : IsLeaf(v, k)}}
    BY <2>2, <2>3
  <2> QED
    BY <1>16, <2>4
<1>18. u.evict_tree_set = {Entry(v, m) : m \in {k \in v.nodes : IsLeaf(v, k)}}
  <2>1. CASE IsLeaf(v, p)
    <3>1. u.evict_tree_set = e \cup {Entry(v, p)}
      BY <1>7, <1>9, <1>10, <2>1
    <3>2. {k \in v.nodes : IsLeaf(v, k)} = {k \in v.nodes \ {p} : IsLeaf(v, k)} \cup {p}
      BY <1>12, <2>1
    <3>3. {Entry(v, m) : m \in {k \in v.nodes \ {p} : IsLeaf(v, k)} \cup {p}}
            = {Entry(v, m) : m \in {k \in v.nodes \ {p} : IsLeaf(v, k)}} \cup {Entry(v, p)}
      OBVIOUS
    <3> QED
      BY <1>17, <3>1, <3>2, <3>3
  <2>2. CASE ~IsLeaf(v, p)
    <3>1. {k \in v.nodes : IsLeaf(v, k)} = {k \in v.nodes \ {p} : IsLeaf(v, k)}
      BY <2>2
    <3> QED
      BY <1>10, <1>17, <2>2, <3>1
  <2> QED
    BY <2>1, <2>2
<1>19. Current(u)
  <2>1. \A m : Entry(u, m) = Entry(v, m) /\ (IsLeaf(u, m) <=> IsLeaf(v, m))
    BY <1>10 DEF Entry, CompareKey, Children, ParentOf, IsLeaf
  <2> QED
    BY <1>10, <1>18, <2>1 DEF Current
<1>20. TimesOK(u)
  BY <1>9, <1>10 DEF TimesOK
<1> QED
  BY <1>1, <1>4, <1>9, <1>10, <1>19, <1>20 DEF PoppedOrder

-----------------------------------------------------------------------------
(* When texts were used *)

\* When the text on the edge above a node was last used.
Stamp(t, used, n) == used[EdgeStart(t, n)]

\* An edge is used as a whole, before its node got its time; and what was used earlier
\* has the earlier time.
UsesOK(t, used) ==
  /\ DOMAIN used = DOMAIN t.value
  /\ \A n \in t.nodes \ {Root} :
       /\ \A q \in EdgeTokens(t, n) : used[q] = Stamp(t, used, n)
       /\ Stamp(t, used, n) \in Nat /\ Stamp(t, used, n) < t.time_id[n]
  /\ \A m, n \in t.nodes \ {Root} :
       Stamp(t, used, m) < Stamp(t, used, n) => t.time_id[m] <= Stamp(t, used, n)

LEMMA EdgeStartFacts ==
  ASSUME NEW t, NodesOK(t.nodes), NEW n \in t.nodes \ {Root}
  PROVE  EdgeStart(t, n) \in EdgeTokens(t, n)
<1>1. PICK p : p = ParentOf(t, n)
  OBVIOUS
<1>2. p \in Seq(Token) /\ Len(p) < Len(n) /\ n \in Seq(Token)
  BY <1>1, ParentFacts DEF NodesOK
<1>3. Len(p) \in Nat /\ Len(n) \in Nat /\ Len(p) + 1 \in 1..Len(n) /\ Len(p) + 1 \in 0..Len(n)
  BY <1>2
<1>4. Len(FirstN(n, Len(p) + 1)) = Len(p) + 1
  BY <1>2, <1>3, FirstNFacts
<1>5. FirstN(n, Len(p) + 1) \in PrefixesOf(n)
  BY <1>3 DEF PrefixesOf
<1> QED
  BY <1>1, <1>3, <1>4, <1>5 DEF EdgeStart, EdgeTokens

\* The edges below a node x of its path are not part of x.
LEMMA EdgeSides ==
  ASSUME NEW t, NodesOK(t.nodes), NEW x \in t.nodes, NEW n \in t.nodes \ {Root},
         NEW q \in EdgeTokens(t, n)
  PROVE  q \in PrefixesOf(x) <=> IsPrefix(n, x)
<1>1. x \in Seq(Token) /\ n \in Seq(Token) /\ t.nodes \subseteq Seq(Token)
  BY DEF NodesOK
<1>2. /\ q \in Seq(Token) \ {Root} /\ IsPrefix(q, n)
      /\ \A m \in t.nodes : IsPrefix(m, n) /\ m # n => ~IsPrefix(q, m)
  <2>1. EdgeTokens(t, n) =
              {y \in Seq(Token) \ {Root} : /\ IsPrefix(y, n)
                                           /\ \A m \in t.nodes : IsPrefix(m, n) /\ m # n => ~IsPrefix(y, m)}
    BY EdgeFacts
  <2> QED
    BY <2>1
<1>3. q \in PrefixesOf(x) <=> IsPrefix(q, x)
  BY <1>1, <1>2, PrefixesFacts
<1>4. ASSUME IsPrefix(q, x) PROVE IsPrefix(n, x)
  <2>1. PICK k \in t.nodes : IsPrefix(q, k) /\ IsPrefix(k, n) /\ IsPrefix(k, x)
    BY <1>1, <1>2, <1>4 DEF NodesOK, Forks
  <2>2. k = n
    BY <1>2, <2>1
  <2> QED
    BY <2>1, <2>2
<1>5. ASSUME IsPrefix(n, x) PROVE IsPrefix(q, x)
  BY <1>1, <1>2, <1>5, PrefixOrder
<1> QED
  BY <1>3, <1>4, <1>5

\* A walk to x that marks what is above x as used now.
LEMMA WalkUses ==
  ASSUME NEW t, TreeOK(t), TimesOK(t), NEW used, UsesOK(t, used),
         NEW u, TreeOK(u), NEW x, Walked(t, u, x),
         DOMAIN u.value = DOMAIN t.value \cup PrefixesOf(x),
         NEW after, DOMAIN after = DOMAIN u.value,
         \A q \in DOMAIN after : after[q] = IF q \in PrefixesOf(x) THEN t.clock ELSE used[q]
  PROVE  UsesOK(u, after)
<1>1. /\ NodesOK(t.nodes) /\ NodesOK(u.nodes) /\ KeepsInside(u)
      /\ x \in u.nodes /\ t.nodes \subseteq u.nodes /\ t.clock \in Nat
      /\ \A n \in u.nodes : IF IsPrefix(n, x) THEN u.time_id[n] > t.clock
                            ELSE n \in t.nodes /\ u.time_id[n] = t.time_id[n]
      /\ \A n \in u.nodes : u.time_id[n] \in Nat
      /\ \A n \in t.nodes : t.time_id[n] \in Nat /\ t.time_id[n] <= t.clock
  BY DEF TreeOK, Walked, TimesOK
<1>2. ASSUME NEW n \in u.nodes \ {Root}, NEW q \in EdgeTokens(u, n)
      PROVE  /\ q \in DOMAIN u.value
             /\ q \in PrefixesOf(x) <=> IsPrefix(n, x)
  <2>1. q \in Seq(Token) \ {Root} /\ IsPrefix(q, n)
    <3>1. n \in Seq(Token)
      BY <1>1 DEF NodesOK
    <3>2. q \in PrefixesOf(n)
      BY DEF EdgeTokens
    <3> QED
      BY <3>1, <3>2, PrefixesFacts
  <2>2. q \in DOMAIN u.value
    BY <1>1, <2>1 DEF KeepsInside, Inside
  <2>3. q \in PrefixesOf(x) <=> IsPrefix(n, x)
    BY <1>1, EdgeSides
  <2> QED
    BY <2>2, <2>3
<1>3. ASSUME NEW n \in u.nodes \ {Root}, ~IsPrefix(n, x)
      PROVE  /\ n \in t.nodes \ {Root} /\ EdgeTokens(u, n) \subseteq EdgeTokens(t, n)
  <2>1. n \in t.nodes
    BY <1>1, <1>3
  <2>2. EdgeTokens(u, n) = {q \in Seq(Token) \ {Root} : /\ IsPrefix(q, n)
                             /\ \A m \in u.nodes : IsPrefix(m, n) /\ m # n => ~IsPrefix(q, m)}
    BY <1>1, EdgeFacts
  <2>3. EdgeTokens(t, n) = {q \in Seq(Token) \ {Root} : /\ IsPrefix(q, n)
                             /\ \A m \in t.nodes : IsPrefix(m, n) /\ m # n => ~IsPrefix(q, m)}
    BY <1>1, <2>1, EdgeFacts
  <2> QED
    BY <1>1, <2>1, <2>2, <2>3
<1>4. ASSUME NEW n \in u.nodes \ {Root}
      PROVE  /\ \A q \in EdgeTokens(u, n) :
                  after[q] = IF IsPrefix(n, x) THEN t.clock ELSE Stamp(t, used, n)
             /\ Stamp(u, after, n) = IF IsPrefix(n, x) THEN t.clock ELSE Stamp(t, used, n)
  <2>1. \A q \in EdgeTokens(u, n) :
          after[q] = IF IsPrefix(n, x) THEN t.clock ELSE Stamp(t, used, n)
    <3>1. TAKE q \in EdgeTokens(u, n)
    <3>2. q \in DOMAIN u.value /\ (q \in PrefixesOf(x) <=> IsPrefix(n, x))
      BY <1>2
    <3>3. CASE IsPrefix(n, x)
      BY <3>2, <3>3
    <3>4. CASE ~IsPrefix(n, x)
      <4>1. n \in t.nodes \ {Root} /\ q \in EdgeTokens(t, n)
        BY <1>3, <3>4
      <4>2. used[q] = Stamp(t, used, n)
        BY <4>1 DEF UsesOK
      <4> QED
        BY <3>2, <3>4, <4>2
    <3> QED
      BY <3>3, <3>4
  <2>2. EdgeStart(u, n) \in EdgeTokens(u, n)
    BY <1>1, EdgeStartFacts
  <2>3. Stamp(u, after, n) = after[EdgeStart(u, n)]
    BY DEF Stamp
  <2> QED
    BY <2>1, <2>2, <2>3
<1>5. \A n \in t.nodes \ {Root} : Stamp(t, used, n) \in Nat /\ Stamp(t, used, n) < t.time_id[n]
  BY DEF UsesOK
<1>6. ASSUME NEW n \in u.nodes \ {Root}
      PROVE  /\ \A q \in EdgeTokens(u, n) : after[q] = Stamp(u, after, n)
             /\ Stamp(u, after, n) \in Nat /\ Stamp(u, after, n) < u.time_id[n]
  <2>1. \A q \in EdgeTokens(u, n) : after[q] = Stamp(u, after, n)
    BY <1>4
  <2>2. CASE IsPrefix(n, x)
    BY <1>1, <1>4, <2>1, <2>2
  <2>3. CASE ~IsPrefix(n, x)
    <3>1. n \in t.nodes \ {Root} /\ u.time_id[n] = t.time_id[n]
      BY <1>1, <2>3
    <3> QED
      BY <1>4, <1>5, <2>1, <2>3, <3>1
  <2> QED
    BY <2>2, <2>3
<1>7. ASSUME NEW m \in u.nodes \ {Root}, NEW n \in u.nodes \ {Root},
             Stamp(u, after, m) < Stamp(u, after, n)
      PROVE  u.time_id[m] <= Stamp(u, after, n)
  <2>1. CASE IsPrefix(m, x) /\ IsPrefix(n, x)
    BY <1>1, <1>4, <1>7, <2>1
  <2>2. CASE IsPrefix(m, x) /\ ~IsPrefix(n, x)
    <3>1. n \in t.nodes \ {Root} /\ Stamp(u, after, n) = Stamp(t, used, n)
      BY <1>1, <1>4, <2>2
    <3>2. Stamp(u, after, m) = t.clock
      BY <1>4, <2>2
    <3>3. Stamp(t, used, n) < t.clock
      BY <1>1, <1>5, <3>1
    <3> QED
      BY <1>1, <1>5, <1>7, <3>1, <3>2, <3>3
  <2>3. CASE ~IsPrefix(m, x) /\ IsPrefix(n, x)
    BY <1>1, <1>4, <2>3
  <2>4. CASE ~IsPrefix(m, x) /\ ~IsPrefix(n, x)
    <3>1. m \in t.nodes \ {Root} /\ n \in t.nodes \ {Root} /\ u.time_id[m] = t.time_id[m]
      BY <1>1, <2>4
    <3>2. Stamp(u, after, m) = Stamp(t, used, m) /\ Stamp(u, after, n) = Stamp(t, used, n)
      BY <1>4, <2>4
    <3> QED
      BY <1>7, <3>1, <3>2 DEF UsesOK
  <2> QED
    BY <2>1, <2>2, <2>3, <2>4
<1> QED
  BY <1>6, <1>7 DEF UsesOK

\* Nodes that stay, with their edges and times, stay as they were used.
LEMMA KeptUses ==
  ASSUME NEW t, NEW used, UsesOK(t, used), NEW u, NodesOK(u.nodes), KeepsInside(u),
         u.nodes \subseteq t.nodes,
         \A m \in u.nodes : EdgeTokens(u, m) = EdgeTokens(t, m) /\ u.time_id[m] = t.time_id[m],
         NEW after, DOMAIN after = DOMAIN u.value, \A q \in DOMAIN after : after[q] = used[q]
  PROVE  UsesOK(u, after)
<1>3. ASSUME NEW m \in u.nodes \ {Root}
      PROVE  /\ \A q \in EdgeTokens(t, m) : after[q] = Stamp(t, used, m)
             /\ Stamp(u, after, m) = Stamp(t, used, m)
  <2>1. m \in Seq(Token)
    BY DEF NodesOK
  <2>2. \A q \in EdgeTokens(u, m) : q \in Seq(Token) \ {Root} /\ IsPrefix(q, m)
    <3>1. TAKE q \in EdgeTokens(u, m)
    <3>2. q \in PrefixesOf(m)
      BY DEF EdgeTokens
    <3> QED
      BY <2>1, <3>2, PrefixesFacts
  <2>3. EdgeTokens(u, m) \subseteq DOMAIN after
    BY <2>2 DEF KeepsInside, Inside
  <2>4. \A q \in EdgeTokens(t, m) : used[q] = Stamp(t, used, m)
    BY DEF UsesOK
  <2>5. \A q \in EdgeTokens(t, m) : after[q] = Stamp(t, used, m)
    BY <2>3, <2>4
  <2>6. EdgeStart(u, m) \in EdgeTokens(u, m)
    BY EdgeStartFacts
  <2>7. Stamp(u, after, m) = after[EdgeStart(u, m)]
    BY DEF Stamp
  <2> QED
    BY <2>5, <2>6, <2>7
<1>4. ASSUME NEW m \in u.nodes \ {Root}
      PROVE  /\ \A q \in EdgeTokens(u, m) : after[q] = Stamp(u, after, m)
             /\ Stamp(u, after, m) \in Nat /\ Stamp(u, after, m) < u.time_id[m]
  BY <1>3 DEF UsesOK
<1>5. ASSUME NEW k \in u.nodes \ {Root}, NEW m \in u.nodes \ {Root},
             Stamp(u, after, k) < Stamp(u, after, m)
      PROVE  u.time_id[k] <= Stamp(u, after, m)
  BY <1>3, <1>5 DEF UsesOK
<1> QED
  BY <1>4, <1>5 DEF UsesOK

\* When the first leaf goes, the others stay as they are.
LEMMA PopUses ==
  ASSUME NEW t, TreeOK(t), NEW used, UsesOK(t, used), NEW n, NEW u, PoppedOrder(t, n, u),
         TreeOK(u), DOMAIN u.value \subseteq DOMAIN t.value,
         NEW after, DOMAIN after = DOMAIN u.value, \A q \in DOMAIN after : after[q] = used[q]
  PROVE  UsesOK(u, after)
<1>1. /\ n \in t.nodes \ {Root} /\ IsLeaf(t, n) /\ u.nodes = t.nodes \ {n}
      /\ \A m \in u.nodes : u.time_id[m] = t.time_id[m]
      /\ NodesOK(u.nodes) /\ KeepsInside(u)
  BY DEF PoppedOrder, TreeOK
<1>2. \A m \in u.nodes : EdgeTokens(u, m) = EdgeTokens(t, m) /\ u.time_id[m] = t.time_id[m]
  BY <1>1, LeafGoes DEF Remains
<1> QED
  BY <1>1, <1>2, KeptUses

-----------------------------------------------------------------------------
(* The second layer of the invariant: times and the order of eviction *)

OrderInv == TimesOK(tree) /\ Current(tree) /\ UsesOK(tree, last_use)

LEMMA InitOrder == Init => OrderInv
<1> SUFFICES ASSUME Init PROVE OrderInv
  OBVIOUS
<1>1. PICK t : t = [nodes |-> {Root}, value |-> <<>>, ref_counter |-> [n \in {Root} |-> 1],
            time_id |-> [n \in {Root} |-> 1], prefix_total_len |-> [n \in {Root} |-> 0],
            evict_tree_set |-> {}, clock |-> 1,
            refed_tokens_num |-> 0, tree_total_tokens_num |-> 0]
  OBVIOUS
<1>2. PICK e : e = {Entry(t, Root)}
  OBVIOUS
<1>3. tree = [t EXCEPT !.evict_tree_set = e]
  BY <1>1, <1>2 DEF Init, EmptyTree
<1>4. /\ tree.nodes = {Root} /\ tree.time_id = [n \in {Root} |-> 1] /\ tree.clock = 1
      /\ tree.evict_tree_set = e /\ tree.value = <<>>
      /\ tree.nodes = t.nodes /\ tree.ref_counter = t.ref_counter /\ tree.time_id = t.time_id
  BY <1>1, <1>3
<1>5. TimesOK(tree)
  BY <1>4 DEF TimesOK
<1>6. Current(tree)
  <2>1. Entry(tree, Root) = Entry(t, Root)
    BY <1>4 DEF Entry, CompareKey, Children, ParentOf
  <2>2. IsLeaf(tree, Root)
    BY <1>4 DEF IsLeaf, IsStrictPrefix
  <2>3. {m \in tree.nodes : IsLeaf(tree, m)} = {Root}
    BY <1>4, <2>2
  <2>4. {Entry(tree, n) : n \in {Root}} = {Entry(tree, Root)}
    OBVIOUS
  <2> QED
    BY <1>2, <1>4, <2>1, <2>3, <2>4 DEF Current
<1>7. UsesOK(tree, last_use)
  <2>1. last_use = <<>> /\ tree.nodes \ {Root} = {}
    BY <1>4 DEF Init
  <2> QED
    BY <1>4, <2>1 DEF UsesOK
<1> QED
  BY <1>5, <1>6, <1>7 DEF OrderInv

\* What of a text the tree has: the prefixes of the longest one that it has.
LEMMA MatchedPrefixes ==
  ASSUME NEW t, TreeOK(t), NEW key \in Seq(Token), NEW found, found = FirstN(key, MatchLen(t, key))
  PROVE  /\ found \in Seq(Token) /\ Len(found) = MatchLen(t, key) /\ IsPrefix(found, key)
         /\ MatchLen(t, key) \in 0..Len(key)
         /\ PrefixesOf(found) = PrefixesOf(key) \cap DOMAIN t.value
<1>1. /\ MatchLen(t, key) \in 0..Len(key) /\ NodesOK(t.nodes) /\ KeepsInside(t)
      /\ \A i \in 0..Len(key) : Inside(t.nodes, FirstN(key, i)) <=> i <= MatchLen(t, key)
  BY MatchLenFacts DEF TreeOK
<1>2. /\ found \in Seq(Token) /\ Len(found) = MatchLen(t, key) /\ IsPrefix(found, key)
  BY <1>1, FirstNFacts
<1>3. /\ PrefixesOf(found) = {q \in Seq(Token) \ {Root} : IsPrefix(q, found)}
      /\ PrefixesOf(key) = {q \in Seq(Token) \ {Root} : IsPrefix(q, key)}
  BY <1>2, PrefixesFacts
<1>4. \A q \in DOMAIN t.value : q \in PrefixesOf(key) => q \in PrefixesOf(found)
  <2> SUFFICES ASSUME NEW q \in DOMAIN t.value, q \in PrefixesOf(key)
               PROVE  q \in PrefixesOf(found)
    OBVIOUS
  <2>1. q \in Seq(Token) \ {Root} /\ IsPrefix(q, key) /\ Inside(t.nodes, q)
    BY <1>1, <1>3 DEF KeepsInside
  <2>2. Len(q) \in 0..Len(key) /\ q = FirstN(key, Len(q))
    BY <2>1, FirstNFacts
  <2>3. Len(q) <= Len(found)
    BY <1>1, <1>2, <2>1, <2>2
  <2>4. IsPrefix(q, found)
    BY <1>2, <2>1, <2>3, PrefixOrder
  <2> QED
    BY <1>3, <2>1, <2>4
<1>5. \A q \in PrefixesOf(found) : q \in DOMAIN t.value /\ q \in PrefixesOf(key)
  <2>1. TAKE q \in PrefixesOf(found)
  <2>2. q \in Seq(Token) \ {Root} /\ IsPrefix(q, found)
    BY <1>3
  <2>3. Inside(t.nodes, found)
    BY <1>1
  <2>4. PICK n \in t.nodes : IsPrefix(found, n)
    BY <2>3 DEF Inside
  <2>5. n \in Seq(Token)
    BY <1>1 DEF NodesOK
  <2>6. IsPrefix(q, n) /\ IsPrefix(q, key)
    BY <1>2, <2>2, <2>4, <2>5, PrefixOrder
  <2> QED
    BY <1>1, <1>3, <2>2, <2>6 DEF KeepsInside, Inside
<1> QED
  BY <1>1, <1>2, <1>4, <1>5

LEMMA InitReqOrder ==
  ASSUME TreeInv, PoolInv, OrderInv, InitReq
  PROVE  OrderInv'
<1> USE DEF TreeInv
<1>1. PICK r, key : Entered(r, key)
  BY InitReqStep
<1>2. /\ key \in Seq(Token) /\ tree'.value = tree.value
      /\ tree' = IF key = <<>> THEN tree ELSE MatchPrefix(tree, key).tree
      /\ last_use' = IF key = <<>> THEN last_use
                     ELSE [p \in DOMAIN last_use |->
                             IF p \in PrefixesOf(key) THEN tree.clock ELSE last_use[p]]
  BY <1>1 DEF Entered
<1>3. CASE key = <<>>
  BY <1>2, <1>3 DEF OrderInv
<1>4. CASE key # <<>>
  <2>1. PICK u : u = MatchPrefix(tree, key).tree
    OBVIOUS
  <2>2. PICK used : used = last_use'
    OBVIOUS
  <2>3. PICK found : found = FirstN(key, MatchLen(tree, key))
    OBVIOUS
  <2>4. tree' = u /\ u.value = tree.value
        /\ used = [p \in DOMAIN last_use |->
                     IF p \in PrefixesOf(key) THEN tree.clock ELSE last_use[p]]
    BY <1>2, <1>4, <2>1, <2>2
  <2>5. TreeOK(tree) /\ RefsOK(tree, shared_kv_node) /\ shared_kv_node \in [Req -> tree.nodes]
        /\ Current(tree) /\ TimesOK(tree) /\ UsesOK(tree, last_use)
    BY DEF OrderInv, Accounted, Texts
  <2>6. TreeOK(u)
    <3>1. Accounted'
      BY InitReqTree
    <3> QED
      BY <2>4, <3>1 DEF Accounted
  <2>7. Walked(tree, u, found)
    BY <1>2, <2>1, <2>3, <2>5, MatchOrder
  <2>8. PrefixesOf(found) = PrefixesOf(key) \cap DOMAIN tree.value
    BY <1>2, <2>3, <2>5, MatchedPrefixes
  <2>14. DOMAIN last_use = DOMAIN tree.value
    BY <2>5 DEF UsesOK
  <2>15. DOMAIN used = DOMAIN u.value
         /\ DOMAIN u.value = DOMAIN tree.value \cup PrefixesOf(found)
    BY <2>4, <2>8, <2>14
  <2>16. \A q \in DOMAIN used :
           used[q] = IF q \in PrefixesOf(found) THEN tree.clock ELSE last_use[q]
    BY <2>4, <2>8, <2>14
  <2>17. UsesOK(u, used)
    BY <2>5, <2>6, <2>7, <2>15, <2>16, WalkUses
  <2>18. TimesOK(u) /\ Current(u)
    BY <2>7 DEF Walked
  <2> QED
    BY <2>2, <2>4, <2>17, <2>18 DEF OrderInv
<1> QED
  BY <1>3, <1>4

LEMMA EvictOrder ==
  ASSUME TreeInv, OrderInv, NEW kind \in {"prefill", "decode"}, Evict(kind)
  PROVE  OrderInv' /\ \E n : PoppedOrder(tree, n, tree') /\ n = FirstEntry(tree).node
<1> USE DEF TreeInv
<1>1. PICK u : u = PopFirst(tree)
  OBVIOUS
<1>2. PICK used : used = last_use'
  OBVIOUS
<1>3. PICK n : n = FirstEntry(tree).node
  OBVIOUS
<1>4. /\ TreeOK(tree) /\ RefsOK(tree, shared_kv_node) /\ shared_kv_node \in [Req -> tree.nodes]
      /\ Current(tree) /\ TimesOK(tree) /\ UsesOK(tree, last_use) /\ Evictable(tree)
      /\ tree' = u /\ used = [p \in DOMAIN u.value |-> last_use[p]]
  BY <1>1, <1>2 DEF OrderInv, Accounted, Texts, Evict
<1>5. TreeOK(u) /\ DOMAIN u.value = DOMAIN tree.value \ EdgeTokens(tree, n)
  BY <1>1, <1>3, <1>4, PopFacts
<1>6. \A m \in tree.nodes : tree.ref_counter[m] \in Nat
  BY <1>4, RefsFacts
<1>7. PoppedOrder(tree, n, u)
  BY <1>1, <1>3, <1>4, <1>6, PopOrder
<1>8. DOMAIN u.value \subseteq DOMAIN tree.value /\ DOMAIN used = DOMAIN u.value
      /\ \A q \in DOMAIN used : used[q] = last_use[q]
  BY <1>4, <1>5
<1>9. UsesOK(u, used)
  BY <1>4, <1>5, <1>7, <1>8, PopUses
<1>10. TimesOK(u) /\ Current(u)
  BY <1>7 DEF PoppedOrder
<1> QED
  BY <1>2, <1>3, <1>4, <1>7, <1>9, <1>10 DEF OrderInv

\* A node that two requests hold, or hold a node below, has two references.
LEMMA TwoHolders ==
  ASSUME NEW t, NEW hold, RefsOK(t, hold), NEW n \in t.nodes,
         NEW r \in Req, NEW s \in Req, r # s, hold[r] # NoNode, hold[s] = hold[r],
         IsPrefix(n, hold[r])
  PROVE  t.ref_counter[n] > 1
<1>1. PICK H : H = HoldersOf(hold, n)
  OBVIOUS
<1>2. {r, s} \subseteq H /\ H \subseteq Req
  BY <1>1 DEF HoldersOf
<1>3. IsFiniteSet(H)
  BY <1>2, PromptCacheAssumption, FS_Subset
<1>4. Cardinality({r, s}) = 2
  <2>1. IsFiniteSet({r}) /\ Cardinality({r}) = 1
    BY FS_Singleton
  <2>2. Cardinality({r} \cup {s}) = 2
    <3>1. PICK S : S = {r}
      OBVIOUS
    <3>2. IsFiniteSet(S) /\ Cardinality(S) = 1 /\ s \notin S
      BY <2>1, <3>1
    <3>3. Cardinality(S \cup {s}) = Cardinality(S) + 1
      BY ONLY <3>2, FS_AddElement
    <3> QED
      BY <3>1, <3>2, <3>3
  <2>3. {r, s} = {r} \cup {s}
    OBVIOUS
  <2> QED
    BY <2>2, <2>3
<1>5. Cardinality(H) \in Nat /\ Cardinality({r, s}) <= Cardinality(H)
  BY <1>2, <1>3, FS_Subset, FS_CardinalityType
<1>6. t.ref_counter[n] = (IF n = Root THEN 1 ELSE 0) + Cardinality(H)
  BY <1>1 DEF RefsOK
<1> QED
  BY <1>4, <1>5, <1>6

LEMMA FreeAReqMemOrder ==
  ASSUME TreeInv, HoldInv, OrderInv, FreeAReqMem
  PROVE  OrderInv'
<1> USE DEF TreeInv
<1>1. PICK r, key : Left(r, key)
  BY FreeAReqMemStep
<1>2. PICK node : node = shared_kv_node[r]
  OBVIOUS
<1>3. PICK used : used = last_use'
  OBVIOUS
<1>4. /\ at = "filter" /\ r \in todo /\ r \in Req /\ status[r] = "running"
      /\ key = FirstN(input_token_ids[r], cur_kv_len[r])
      /\ key \in Seq(Token) /\ Len(key) = cur_kv_len[r] /\ Released(r, key, tree')
      /\ tree' = IF IsLast(r) THEN HandOver(tree, key, row[r], node) ELSE GiveUp(tree, node)
      /\ used = [p \in DOMAIN tree'.value |->
                    IF IsLast(r) /\ p \in UsedBy(tree, key) THEN tree.clock ELSE last_use[p]]
  BY <1>1, <1>2, <1>3 DEF Left
<1>5. /\ TreeOK(tree) /\ RefsOK(tree, shared_kv_node) /\ shared_kv_node \in [Req -> tree.nodes]
      /\ Current(tree) /\ TimesOK(tree) /\ UsesOK(tree, last_use)
      /\ node \in tree.nodes /\ tree.nodes \subseteq Seq(Token) /\ node \in Seq(Token)
      /\ TreeOK(tree')
  BY <1>2, <1>4 DEF OrderInv, Accounted, Texts, TreeOK, NodesOK, Released
<1>6. ~Entering(r)
  BY <1>4 DEF Entering, Prefilling
<1>7. IsPrefix(node, key) /\ Len(node) < Len(key)
  BY <1>2, <1>4, <1>6 DEF HoldInv, HoldsPrefix
<1>8. CASE IsLast(r)
  <2>1. PICK t : t = Insert(tree, key, row[r])
    OBVIOUS
  <2>2. PICK x \in t.nodes : Walked(tree, t, x) /\ UsedBy(tree, key) = PrefixesOf(x)
    BY <1>4, <1>5, <2>1, InsertOrder
  <2>3. Grows(tree, t) /\ DOMAIN t.value = DOMAIN tree.value \cup PrefixesOf(key)
    BY <1>4, <1>5, <2>1, InsertFacts
  <2>4. TreeOK(t) /\ RefsOK(t, shared_kv_node) /\ tree.nodes \subseteq t.nodes
        /\ shared_kv_node \in [Req -> t.nodes]
    BY <1>5, <2>3 DEF Grows
  <2>5. TimesOK(t) /\ Current(t)
    BY <2>2 DEF Walked
  <2>6. PrefixesOf(key) \subseteq PrefixesOf(x)
    BY <2>2 DEF UsedBy
  <2>7. x \in Seq(Token) /\ NodesOK(t.nodes) /\ KeepsInside(t)
    BY <2>4 DEF TreeOK, NodesOK
  <2>8. PrefixesOf(x) \subseteq DOMAIN t.value
    <3>1. PrefixesOf(x) = {q \in Seq(Token) \ {Root} : IsPrefix(q, x)}
      BY <2>7, PrefixesFacts
    <3> QED
      BY <2>7, <3>1 DEF KeepsInside, Inside
  <2>9. DOMAIN t.value = DOMAIN tree.value \cup PrefixesOf(x)
    BY <2>3, <2>6, <2>8
  <2>10. PICK after : after = [p \in DOMAIN t.value |->
                                 IF p \in PrefixesOf(x) THEN tree.clock ELSE last_use[p]]
    OBVIOUS
  <2>11. DOMAIN after = DOMAIN t.value
         /\ \A q \in DOMAIN after : after[q] = IF q \in PrefixesOf(x) THEN tree.clock ELSE last_use[q]
    BY <2>10
  <2>12. UsesOK(t, after)
    <3>1. TreeOK(tree) /\ TimesOK(tree) /\ UsesOK(tree, last_use) /\ TreeOK(t) /\ Walked(tree, t, x)
      BY <1>5, <2>2, <2>4
    <3> QED
      BY ONLY <2>9, <2>11, <3>1, WalkUses
  <2>13. tree' = IF node = NoNode THEN t ELSE DecNodeRefCounter(t, node)
    BY <1>4, <1>8, <2>1 DEF HandOver
  <2>14. CASE node = NoNode
    <3>1. tree' = t
      BY <2>13, <2>14
    <3>2. used = after
      BY <1>4, <1>8, <2>2, <2>10, <3>1
    <3> QED
      BY <1>3, <2>5, <2>12, <3>1, <3>2 DEF OrderInv
  <2>15. CASE node # NoNode
    <3>1. PICK u : u = DecNodeRefCounter(t, node)
      OBVIOUS
    <3>2. tree' = u
      BY <2>13, <2>15, <3>1
    <3>3. \A n \in t.nodes : t.ref_counter[n] \in Nat
      BY <2>4, RefsFacts
    <3>4. ASSUME NEW n \in t.nodes, IsPrefix(n, node), IsLeaf(t, n) PROVE FALSE
      <4>1. n \in Seq(Token) /\ IsPrefix(n, key) /\ Len(n) <= Len(node)
        BY <1>4, <1>5, <1>7, <2>7, <3>4, PrefixOrder DEF NodesOK
      <4>2. n # key /\ key # Root
        <5>1. Len(Root) = 0 /\ Len(node) \in Nat /\ Len(key) \in Nat /\ Len(n) \in Nat
          BY <1>4, <1>5, <4>1 DEF Root
        <5> QED
          BY <1>7, <4>1, <5>1
      <4>3. PrefixesOf(key) = {q \in Seq(Token) \ {Root} : IsPrefix(q, key)} /\ IsPrefix(key, key)
        BY <1>4, PrefixesFacts, PrefixOrder
      <4>4. key \in DOMAIN t.value
        BY <1>4, <2>3, <4>2, <4>3
      <4>5. PICK m \in t.nodes : IsPrefix(key, m)
        BY <2>7, <4>4 DEF KeepsInside, Inside
      <4>6. m \in Seq(Token) /\ IsPrefix(n, m)
        BY <1>4, <2>7, <4>1, <4>5, PrefixOrder DEF NodesOK
      <4>7. n # m
        <5>1. n = m => n = key
          BY <1>4, <4>1, <4>5, PrefixOrder
        <5> QED
          BY <4>2, <5>1
      <4> QED
        BY <3>4, <4>6, <4>7 DEF IsLeaf, IsStrictPrefix
    <3>5. /\ u.nodes = t.nodes /\ u.time_id = t.time_id /\ u.clock = t.clock
          /\ Current(u) /\ TimesOK(u)
      BY <1>5, <2>4, <2>5, <3>1, <3>3, <3>4, DecOrder
    <3>6. u.value = t.value
      BY <2>4, <3>1 DEF DecNodeRefCounter, TreeOK, IsTree
    <3>7. used = after
      BY <1>4, <1>8, <2>2, <2>10, <3>2, <3>6
    <3>8. NodesOK(u.nodes) /\ KeepsInside(u)
      BY <2>7, <3>5, <3>6 DEF KeepsInside
    <3>9. \A m \in u.nodes : EdgeTokens(u, m) = EdgeTokens(t, m) /\ u.time_id[m] = t.time_id[m]
      BY <3>5 DEF EdgeTokens, ParentOf
    <3>10. UsesOK(u, after)
      BY <2>11, <2>12, <3>5, <3>6, <3>8, <3>9, KeptUses
    <3> QED
      BY <1>3, <3>2, <3>5, <3>7, <3>10 DEF OrderInv
  <2> QED
    BY <2>14, <2>15
<1>9. CASE ~IsLast(r)
  <2>1. tree' = IF node = NoNode THEN tree ELSE DecNodeRefCounter(tree, node)
    BY <1>4, <1>9 DEF GiveUp
  <2>2. DOMAIN used = DOMAIN tree'.value /\ \A q \in DOMAIN used : used[q] = last_use[q]
    BY <1>4, <1>9
  <2>3. tree'.value = tree.value
    BY <1>4, <1>9 DEF Released
  <2>4. /\ tree'.nodes = tree.nodes /\ tree'.time_id = tree.time_id
        /\ Current(tree') /\ TimesOK(tree')
    <3>1. CASE node = NoNode
      BY <1>5, <2>1, <3>1
    <3>2. CASE node # NoNode
      <4>1. PICK u : u = DecNodeRefCounter(tree, node)
        OBVIOUS
      <4>2. PICK s \in Req \ {r} : GroupOf[s] = GroupOf[r] /\ status[s] # "done"
        BY <1>9 DEF IsLast, Members
      <4>3. status[s] = "running"
        BY <1>4, <4>2 DEF HoldInv, GroupHolds, Control
      <4>4. shared_kv_node[s] = node
        BY <1>2, <1>4, <4>2, <4>3 DEF HoldInv, GroupHolds
      <4>5. \A n \in tree.nodes : IsPrefix(n, node) /\ IsLeaf(tree, n) => tree.ref_counter[n] > 1
        BY <1>2, <1>4, <1>5, <3>2, <4>2, <4>4, TwoHolders
      <4>6. \A n \in tree.nodes : tree.ref_counter[n] \in Nat
        BY <1>5, RefsFacts
      <4>7. /\ u.nodes = tree.nodes /\ u.time_id = tree.time_id /\ u.clock = tree.clock
            /\ Current(u) /\ TimesOK(u)
        BY <1>5, <4>1, <4>5, <4>6, DecOrder
      <4> QED
        BY <2>1, <3>2, <4>1, <4>7
    <3> QED
      BY <3>1, <3>2
  <2>5. PICK u : u = tree'
    OBVIOUS
  <2>6. NodesOK(u.nodes) /\ KeepsInside(u)
    BY <1>5, <2>5 DEF TreeOK
  <2>7. \A m \in u.nodes : EdgeTokens(u, m) = EdgeTokens(tree, m) /\ u.time_id[m] = tree.time_id[m]
    BY <2>4, <2>5 DEF EdgeTokens, ParentOf
  <2>8. UsesOK(u, used)
    BY <1>5, <2>2, <2>4, <2>5, <2>6, <2>7, KeptUses
  <2> QED
    BY <1>3, <2>4, <2>5, <2>8 DEF OrderInv
<1> QED
  BY <1>8, <1>9

LEMMA OrderStep == TreeInv /\ PoolInv /\ HoldInv /\ OrderInv /\ [Next]_vars => OrderInv'
<1> SUFFICES ASSUME TreeInv, PoolInv, HoldInv, OrderInv, [Next]_vars PROVE OrderInv'
  OBVIOUS
<1>1. CASE UNCHANGED <<tree, last_use>>
  BY <1>1 DEF OrderInv
<1>2. UNCHANGED vars => UNCHANGED <<tree, last_use>>
  BY DEF vars
<1>3. \A new : AddBatch(new) => UNCHANGED <<tree, last_use>>
  BY DEF AddBatch
<1>4. StartDecode \/ FreeBatch => UNCHANGED <<tree, last_use>>
  BY DEF StartDecode, FreeBatch
<1>5. \A kind : Prepare(kind) => UNCHANGED <<tree, last_use>>
  BY DEF Prepare
<1>6. \A kind : Forward(kind) => UNCHANGED <<tree, last_use>>
  BY DEF Forward
<1>7. InitReq => OrderInv'
  BY InitReqOrder
<1>8. FreeAReqMem => OrderInv'
  BY FreeAReqMemOrder
<1>9. \A kind \in {"prefill", "decode"} : Evict(kind) => OrderInv'
  BY EvictOrder
<1> QED
  BY <1>1, <1>2, <1>3, <1>4, <1>5, <1>6, <1>7, <1>8, <1>9 DEF Next

\* The node evicted was, of the unreferenced leaves, not looked up or inserted for the
\* longest time.
LEMMA EvictsLeastRecent ==
  ASSUME TreeInv, OrderInv, [Next]_vars, NEW gone \in tree.nodes \ tree'.nodes,
         NEW n \in tree.nodes, n # Root, IsLeaf(tree, n), tree.ref_counter[n] = 0
  PROVE  last_use[EdgeStart(tree, gone)] <= last_use[EdgeStart(tree, n)]
<1> USE DEF TreeInv
<1>1. \E kind \in {"prefill", "decode"} : Evict(kind)
  <2>1. UNCHANGED vars => tree' = tree
    BY DEF vars
  <2>2. \A new : AddBatch(new) => tree' = tree
    BY DEF AddBatch
  <2>3. StartDecode \/ FreeBatch => tree' = tree
    BY DEF StartDecode, FreeBatch
  <2>4. \A kind : Prepare(kind) \/ Forward(kind) => tree' = tree
    BY DEF Prepare, Forward
  <2>5. InitReq => tree.nodes \subseteq tree'.nodes
    <3> SUFFICES ASSUME InitReq PROVE tree.nodes \subseteq tree'.nodes
      OBVIOUS
    <3>1. PICK r : r = Min(todo)
      OBVIOUS
    <3>2. PICK key : key = FirstN(input_token_ids[r], Len(input_token_ids[r]) - 1)
      OBVIOUS
    <3>3. PICK got : got = MatchPrefix(tree, key)
      OBVIOUS
    <3>4. at = "init" /\ (tree' = tree \/ tree' = got.tree)
      BY <3>1, <3>2, <3>3 DEF InitReq
    <3>5. tree.nodes \subseteq got.tree.nodes
      BY <3>1, <3>2, <3>3, <3>4, LookupFacts
    <3> QED
      BY <3>4, <3>5
  <2>6. FreeAReqMem => tree.nodes \subseteq tree'.nodes
    <3> SUFFICES ASSUME FreeAReqMem PROVE tree.nodes \subseteq tree'.nodes
      OBVIOUS
    <3>1. PICK r, key : Left(r, key)
      BY FreeAReqMemStep
    <3> QED
      BY <3>1 DEF Left, Released
  <2> QED
    BY <2>1, <2>2, <2>3, <2>4, <2>5, <2>6 DEF Next
<1>2. PoppedOrder(tree, gone, tree') /\ gone = FirstEntry(tree).node
  <2>1. \E k : PoppedOrder(tree, k, tree') /\ k = FirstEntry(tree).node
    BY <1>1, EvictOrder
  <2>2. PICK k : PoppedOrder(tree, k, tree') /\ k = FirstEntry(tree).node
    BY <2>1
  <2>3. gone = k
    BY <2>2 DEF PoppedOrder
  <2> QED
    BY <2>2, <2>3
<1>3. /\ TreeOK(tree) /\ RefsOK(tree, shared_kv_node) /\ shared_kv_node \in [Req -> tree.nodes]
      /\ Current(tree) /\ TimesOK(tree) /\ UsesOK(tree, last_use)
  BY DEF OrderInv, Accounted, Texts
<1>4. \A m \in tree.nodes : tree.ref_counter[m] \in Nat
  BY <1>3, RefsFacts
<1>5. tree.time_id[gone] <= tree.time_id[n]
  BY <1>2, <1>3, <1>4, FirstFacts
<1>6. gone \in tree.nodes \ {Root}
  BY <1>2 DEF PoppedOrder
<1>7. /\ tree.time_id[gone] \in Nat /\ tree.time_id[n] \in Nat
  BY <1>3, <1>6 DEF TimesOK
<1>8. /\ Stamp(tree, last_use, gone) \in Nat /\ Stamp(tree, last_use, n) \in Nat
      /\ Stamp(tree, last_use, gone) < tree.time_id[gone]
      /\ Stamp(tree, last_use, n) < Stamp(tree, last_use, gone)
           => tree.time_id[n] <= Stamp(tree, last_use, gone)
  BY <1>3, <1>6 DEF UsesOK
<1> QED
  BY <1>5, <1>7, <1>8 DEF Stamp

-----------------------------------------------------------------------------
(* The tree implements the store of prefixes *)

LEMMA StoreUnchanged ==
  ASSUME UNCHANGED <<tree, input_token_ids, shared_kv_node>>
  PROVE  UNCHANGED Store!vars
BY DEF Store!vars

\* A lookup pins the longest prefix kept, if there is one.
LEMMA InitReqStore ==
  ASSUME TreeInv, PoolInv, InitReq
  PROVE  [Store!Next]_(Store!vars)
<1> USE DEF TreeInv
<1>1. PICK r, key : Entered(r, key)
  BY InitReqStep
<1>2. PICK found : found = FirstN(key, CachedLen(r))
  OBVIOUS
<1>3. /\ r \in Req /\ shared_kv_node[r] = NoNode /\ key \in Seq(Token)
      /\ CachedLen(r) = MatchLen(tree, key)
      /\ key = FirstN(input_token_ids[r], Len(input_token_ids[r]) - 1)
      /\ input_token_ids' = input_token_ids /\ tree'.value = tree.value
      /\ shared_kv_node' = [shared_kv_node EXCEPT ![r] = found]
  BY <1>1, <1>2 DEF Entered
<1>4. TreeOK(tree) /\ shared_kv_node \in [Req -> tree.nodes]
  BY DEF Accounted, Texts
<1>5. /\ found \in Seq(Token) /\ Len(found) = MatchLen(tree, key) /\ IsPrefix(found, key)
      /\ MatchLen(tree, key) \in 0..Len(key)
      /\ PrefixesOf(found) = PrefixesOf(key) \cap DOMAIN tree.value
  BY <1>2, <1>3, <1>4, MatchedPrefixes
<1>6. Store!Kept(r) = PrefixesOf(found)
  BY <1>3, <1>5 DEF Store!Kept, Store!PrefixesOf, PrefixesOf, FirstN, Store!Front
<1>7. PrefixesOf(found) = {q \in Seq(Token) \ {Root} : IsPrefix(q, found)}
      /\ \A q \in PrefixesOf(found) : Len(q) \in 1..Len(found)
  BY <1>5, PrefixesFacts
<1>8. CASE found = Root
  <2>1. shared_kv_node' = shared_kv_node
    BY <1>3, <1>4, <1>8 DEF NoNode
  <2> QED
    BY <1>3, <2>1 DEF Store!vars
<1>9. CASE found # Root
  <2>1. found \in PrefixesOf(found)
    BY <1>5, <1>7, <1>9, PrefixOrder
  <2>2. \A other \in PrefixesOf(found) : Len(other) <= Len(found)
    BY <1>5, <1>7
  <2>3. Store!Pin(r)
    BY <1>3, <1>6, <2>1, <2>2 DEF Store!Pin, Store!Unpinned, NoNode, Root
  <2> QED
    BY <1>3, <2>3 DEF Store!Next
<1> QED
  BY <1>8, <1>9

LEMMA ForwardStore ==
  ASSUME TreeInv, NEW kind \in {"prefill", "decode"}, Forward(kind)
  PROVE  Store!Grow
<1> USE DEF TreeInv
<1>1. /\ UNCHANGED <<tree, shared_kv_node>>
      /\ \A r \in Req \ batch : input_token_ids'[r] = input_token_ids[r]
      /\ \A r \in batch : IsPrefix(input_token_ids[r], input_token_ids'[r])
  BY ForwardKeepsFacts DEF ForwardKeeps
<1>2. \A r \in Req : input_token_ids[r] \in Seq(Token)
  BY DEF Texts
<1>3. \A r \in Req \ batch : IsPrefix(input_token_ids[r], input_token_ids'[r])
  BY <1>1, <1>2, PrefixOrder
<1> QED
  BY <1>1, <1>3 DEF Store!Grow, Store!IsPrefix, IsPrefix

\* The last request of a group adds its text; every request gives up its node.
LEMMA FreeAReqMemStore ==
  ASSUME TreeInv, HoldInv, FreeAReqMem
  PROVE  \E r \in Req : Store!Add(r) \/ Store!Unpin(r)
<1> USE DEF TreeInv
<1>1. PICK r, key : Left(r, key)
  BY FreeAReqMemStep
<1>2. /\ at = "filter" /\ r \in Req /\ status[r] = "running"
      /\ key = FirstN(input_token_ids[r], cur_kv_len[r])
      /\ Released(r, key, tree') /\ input_token_ids' = input_token_ids
      /\ shared_kv_node' = [shared_kv_node EXCEPT ![r] = NoNode]
  BY <1>1 DEF Left
<1>3. ~Entering(r)
  BY <1>2 DEF Entering, Prefilling
<1>4. Len(input_token_ids[r]) = cur_kv_len[r] + 1 /\ cur_kv_len[r] \in Nat
  BY <1>2, <1>3 DEF HoldInv, HoldsPrefix, Texts
<1>5. cur_kv_len[r] = Len(input_token_ids[r]) - 1
  BY <1>4
<1>6. Store!PrefixesOf(Store!Front(input_token_ids[r])) = PrefixesOf(key)
  BY <1>2, <1>5 DEF Store!PrefixesOf, PrefixesOf, FirstN, Store!Front
<1>7. CASE IsLast(r)
  <2>1. /\ DOMAIN tree'.value = DOMAIN tree.value \cup PrefixesOf(key)
        /\ \A q \in DOMAIN tree.value : tree'.value[q] = tree.value[q]
    BY <1>2, <1>7 DEF Released
  <2>2. Store!Add(r)
    BY <1>2, <1>6, <2>1 DEF Store!Add, Store!Unpinned, NoNode, Root
  <2> QED
    BY <1>2, <2>2
<1>8. CASE ~IsLast(r)
  <2>1. tree'.value = tree.value
    BY <1>2, <1>8 DEF Released
  <2>2. Store!Unpin(r)
    BY <1>2, <2>1 DEF Store!Unpin, Store!Unpinned, NoNode, Root
  <2> QED
    BY <1>2, <2>2
<1> QED
  BY <1>7, <1>8

\* Eviction drops the texts on one edge, none of which a held node continues.
LEMMA EvictStore ==
  ASSUME TreeInv, NEW kind \in {"prefill", "decode"}, Evict(kind)
  PROVE  Store!Drop
<1> USE DEF TreeInv
<1>1. PICK u : u = PopFirst(tree)
  OBVIOUS
<1>2. PICK n : n = FirstEntry(tree).node
  OBVIOUS
<1>3. /\ TreeOK(tree) /\ RefsOK(tree, shared_kv_node) /\ shared_kv_node \in [Req -> tree.nodes]
      /\ Evictable(tree) /\ tree' = u /\ UNCHANGED <<input_token_ids, shared_kv_node>>
  BY <1>1 DEF Accounted, Texts, Evict, reqVars
<1>4. /\ TreeOK(u) /\ shared_kv_node \in [Req -> u.nodes]
      /\ DOMAIN u.value = DOMAIN tree.value \ EdgeTokens(tree, n)
      /\ \A q \in DOMAIN u.value : u.value[q] = tree.value[q]
  BY <1>1, <1>2, <1>3, PopFacts
<1>5. KeepsInside(u) /\ u.nodes \subseteq Seq(Token)
  BY <1>4 DEF TreeOK, NodesOK
<1>6. \A s \in Seq(Token) : Inside(u.nodes, s) => Store!PrefixesOf(s) \subseteq DOMAIN u.value
  <2> SUFFICES ASSUME NEW s \in Seq(Token), NEW n0 \in u.nodes, IsPrefix(s, n0),
                      NEW q \in PrefixesOf(s)
               PROVE  q \in DOMAIN u.value
    BY DEF Inside, Store!PrefixesOf, PrefixesOf, FirstN
  <2>1. q \in Seq(Token) \ {Root} /\ IsPrefix(q, s)
    BY PrefixesFacts
  <2>2. n0 \in Seq(Token)
    BY <1>5
  <2>3. IsPrefix(q, n0)
    BY <2>1, <2>2, PrefixOrder
  <2> QED
    BY <1>5, <2>1, <2>3 DEF KeepsInside, Inside
<1>7. \A p \in DOMAIN u.value : Store!PrefixesOf(p) \subseteq DOMAIN u.value
  BY <1>5, <1>6 DEF KeepsInside
<1>8. \A r \in Req : Store!PrefixesOf(shared_kv_node[r]) \subseteq DOMAIN u.value
  <2>1. TAKE r \in Req
  <2>2. shared_kv_node[r] \in u.nodes /\ shared_kv_node[r] \in Seq(Token)
    BY <1>4, <1>5
  <2>3. Inside(u.nodes, shared_kv_node[r])
    BY <2>2, PrefixOrder DEF Inside
  <2> QED
    BY <1>6, <2>2, <2>3
<1> QED
  BY <1>3, <1>4, <1>7, <1>8 DEF Store!Drop

LEMMA StoreStep == TreeInv /\ PoolInv /\ HoldInv /\ [Next]_vars => [Store!Next]_(Store!vars)
<1> SUFFICES ASSUME TreeInv, PoolInv, HoldInv, [Next]_vars PROVE [Store!Next]_(Store!vars)
  OBVIOUS
<1>1. UNCHANGED vars => UNCHANGED <<tree, input_token_ids, shared_kv_node>>
  BY DEF vars, reqVars
<1>2. \A new : AddBatch(new) => UNCHANGED <<tree, input_token_ids, shared_kv_node>>
  BY DEF AddBatch, reqVars
<1>3. StartDecode \/ FreeBatch => UNCHANGED <<tree, input_token_ids, shared_kv_node>>
  BY DEF StartDecode, FreeBatch, reqVars
<1>4. \A kind : Prepare(kind) => UNCHANGED <<tree, input_token_ids, shared_kv_node>>
  BY DEF Prepare, reqVars
<1>5. \A kind \in {"prefill", "decode"} : Forward(kind) => Store!Next
  BY ForwardStore DEF Store!Next
<1>6. InitReq => [Store!Next]_(Store!vars)
  BY InitReqStore
<1>7. FreeAReqMem => Store!Next
  BY FreeAReqMemStore DEF Store!Next
<1>8. \A kind \in {"prefill", "decode"} : Evict(kind) => Store!Next
  BY EvictStore DEF Store!Next
<1>9. UNCHANGED <<tree, input_token_ids, shared_kv_node>> => UNCHANGED Store!vars
  BY StoreUnchanged
<1> QED
  BY <1>1, <1>2, <1>3, <1>4, <1>5, <1>6, <1>7, <1>8, <1>9 DEF Next

LEMMA InitStore == Init => Store!Init
BY DEF Init, EmptyTree, Store!Init, Store!Unpinned, NoNode, Root

-----------------------------------------------------------------------------
(* The third layer: which rows share their tokens *)

\* The tokens of a row up to the node held are the tree's.
HeldRows ==
  \A r \in Req : \A i \in 1..Len(shared_kv_node[r]) :
    row[r][i] = tree.value[FirstN(input_token_ids[r], i)]

\* The tokens beyond are not in the tree, and in no row of another group.
OwnRows ==
  \A r \in Req : \A i \in 1..cur_kv_len[r] :
    i > Len(shared_kv_node[r]) =>
      /\ ~InTree(tree, row[r][i])
      /\ \A s \in Req : GroupOf[s] # GroupOf[r] => row[r][i] \notin ToSet(row[s])

RowInv == HeldRows /\ OwnRows

\* The tree has the prefixes of its nodes.
LEMMA InsideNodes ==
  ASSUME NEW t, TreeOK(t), NEW n \in t.nodes
  PROVE  PrefixesOf(n) \subseteq DOMAIN t.value
<1>1. KeepsInside(t) /\ n \in Seq(Token)
  BY DEF TreeOK, NodesOK
<1>2. PrefixesOf(n) = {q \in Seq(Token) \ {Root} : IsPrefix(q, n)}
  BY <1>1, PrefixesFacts
<1> QED
  BY <1>1, <1>2 DEF KeepsInside, Inside

\* The node a request holds is a prefix of its text, with tokens in its row.
LEMMA HeldText ==
  ASSUME TreeInv, HoldInv, NEW r \in Req
  PROVE  /\ Len(shared_kv_node[r]) \in 0..cur_kv_len[r] /\ cur_kv_len[r] \in Nat
         /\ shared_kv_node[r] \in tree.nodes /\ shared_kv_node[r] \in Seq(Token)
         /\ \A i \in 1..Len(shared_kv_node[r]) :
              FirstN(input_token_ids[r], i) \in PrefixesOf(shared_kv_node[r])
         /\ \A q \in PrefixesOf(shared_kv_node[r]) :
              Len(q) \in 1..Len(shared_kv_node[r]) /\ q = FirstN(input_token_ids[r], Len(q))
         /\ \A i \in 1..Len(shared_kv_node[r]) : FirstN(input_token_ids[r], i) \in DOMAIN tree.value
<1> USE DEF TreeInv
<1>1. PICK n : n = shared_kv_node[r]
  OBVIOUS
<1>2. PICK s : s = input_token_ids[r]
  OBVIOUS
<1>3. PICK l : l = cur_kv_len[r]
  OBVIOUS
<1>4. /\ n \in tree.nodes /\ s \in Seq(Token) /\ l \in 0..Len(s) /\ l \in Nat
      /\ TreeOK(tree) /\ n \in Seq(Token)
  BY <1>1, <1>2, <1>3 DEF Texts, Accounted, TreeOK, NodesOK
<1>5. Len(n) \in 0..l /\ n = FirstN(s, Len(n))
  <2>1. CASE status[r] # "running"
    <3>1. n = Root
      BY <1>1, <2>1 DEF Texts, NoNode
    <3>2. Len(n) = 0
      BY <3>1 DEF Root
    <3>3. FirstN(s, 0) = Root
      BY <1>4, FirstNFacts
    <3> QED
      BY <1>4, <3>1, <3>2, <3>3
  <2>2. CASE status[r] = "running"
    <3>1. IsPrefix(n, FirstN(s, l))
      BY <1>1, <1>2, <1>3, <2>2 DEF HoldInv, HoldsPrefix
    <3>2. PICK f : f = FirstN(s, l)
      OBVIOUS
    <3>3. f \in Seq(Token) /\ Len(f) = l
      BY <1>4, <3>2, FirstNFacts
    <3>4. Len(n) <= Len(f) /\ n = FirstN(f, Len(n))
      BY <1>4, <3>1, <3>2, <3>3, FirstNFacts
    <3>5. Len(n) \in 0..l
      BY <1>4, <3>3, <3>4
    <3>6. FirstN(FirstN(s, l), Len(n)) = FirstN(s, Len(n))
      BY <1>4, <3>5, FirstNTwice
    <3> QED
      BY <3>2, <3>4, <3>5, <3>6
  <2> QED
    BY <2>1, <2>2
<1>6. \A i \in 1..Len(n) : FirstN(n, i) = FirstN(s, i)
  <2> SUFFICES ASSUME NEW i \in 1..Len(n) PROVE FirstN(n, i) = FirstN(s, i)
    OBVIOUS
  <2>1. PICK k \in 0..Len(s) : k = Len(n)
    BY <1>4, <1>5
  <2>2. i \in 0..k
    BY <2>1
  <2>3. FirstN(FirstN(s, k), i) = FirstN(s, i)
    BY <1>4, <2>2, FirstNTwice
  <2> QED
    BY <1>5, <2>1, <2>3
<1>7. \A i \in 1..Len(n) : FirstN(s, i) \in PrefixesOf(n)
  BY <1>6 DEF PrefixesOf
<1>8. \A q \in PrefixesOf(n) : Len(q) \in 1..Len(n) /\ q = FirstN(s, Len(q))
  <2>1. \A q \in PrefixesOf(n) : Len(q) \in 1..Len(n) /\ q = FirstN(n, Len(q))
    BY <1>4, PrefixesFacts
  <2> QED
    BY <1>6, <2>1
<1>9. PrefixesOf(n) \subseteq DOMAIN tree.value
  BY <1>4, InsideNodes
<1> QED
  BY <1>1, <1>2, <1>3, <1>4, <1>5, <1>7, <1>8, <1>9

\* The index of a token of a row.
LEMMA InRow ==
  ASSUME TreeInv, PoolInv, NEW r \in Req, NEW p
  PROVE  p \in ToSet(row[r]) <=> \E i \in 1..cur_kv_len[r] : row[r][i] = p
<1>1. DOMAIN row[r] = 1..cur_kv_len[r]
  BY RowsApart DEF PoolInv
<1> QED
  BY <1>1 DEF ToSet

LEMMA InitRows == Init => RowInv
<1> SUFFICES ASSUME Init PROVE RowInv
  OBVIOUS
<1>1. \A r \in Req : Len(shared_kv_node[r]) = 0 /\ cur_kv_len[r] = 0
  BY DEF Init, NoNode, Root
<1>2. 1..0 = {}
  OBVIOUS
<1> QED
  BY <1>1, <1>2 DEF RowInv, HeldRows, OwnRows

\* A step that keeps requests and rows and drops or keeps the tree's other entries.
LEMMA RowsQuiet ==
  ASSUME TreeInv, HoldInv, RowInv,
         UNCHANGED <<input_token_ids, cur_kv_len, row, shared_kv_node>>,
         TreeOK(tree'), shared_kv_node \in [Req -> tree'.nodes],
         DOMAIN tree'.value \subseteq DOMAIN tree.value,
         \A q \in DOMAIN tree'.value : tree'.value[q] = tree.value[q]
  PROVE  RowInv'
<1>1. PICK u : u = tree'
  OBVIOUS
<1>2. \A p : InTree(u, p) => InTree(tree, p)
  BY <1>1 DEF InTree
<1>3. \A r \in Req : \A i \in 1..Len(shared_kv_node[r]) :
        FirstN(input_token_ids[r], i) \in DOMAIN u.value
  <2>1. TAKE r \in Req
  <2>2. PrefixesOf(shared_kv_node[r]) \subseteq DOMAIN u.value
    BY <1>1, InsideNodes
  <2> QED
    BY <2>2, HeldText
<1>4. HeldRows'
  BY <1>1, <1>3 DEF RowInv, HeldRows
<1>5. OwnRows'
  BY <1>1, <1>2 DEF RowInv, OwnRows
<1> QED
  BY <1>4, <1>5 DEF RowInv

LEMMA InitReqRows ==
  ASSUME TreeInv, PoolInv, PoolInv', TreeInv', HoldInv, RowInv, InitReq
  PROVE  RowInv'
<1> USE DEF TreeInv
<1>1. PICK r, key : Entered(r, key)
  BY InitReqStep
<1>2. PICK l : l = CachedLen(r)
  OBVIOUS
<1>3. PICK u : u = tree'
  OBVIOUS
<1>w. PICK w : w = row'
  OBVIOUS
<1>4. /\ r \in Req /\ key \in Seq(Token) /\ l \in 0..Len(key) /\ l = MatchLen(tree, key)
      /\ key = FirstN(input_token_ids[r], Len(key)) /\ input_token_ids[r] \in Seq(Token)
      /\ Len(key) \in 0..Len(input_token_ids[r])
      /\ input_token_ids' = input_token_ids /\ u.value = tree.value
      /\ shared_kv_node'[r] = FirstN(key, l) /\ cur_kv_len'[r] = l
      /\ \A s \in Req \ {r} : /\ shared_kv_node'[s] = shared_kv_node[s]
                              /\ cur_kv_len'[s] = cur_kv_len[s] /\ w[s] = row[s]
      /\ \A i \in 1..l : w[r][i] = tree.value[FirstN(key, i)]
  <2>1. /\ shared_kv_node \in [Req -> tree.nodes] /\ cur_kv_len \in [Req -> Nat]
        /\ input_token_ids \in [Req -> Seq(Token) \ {<<>>}]
    BY DEF Texts
  <2>2. r \in Req /\ key \in Seq(Token) /\ Len(key) = Len(input_token_ids[r]) - 1
        /\ key = FirstN(input_token_ids[r], Len(input_token_ids[r]) - 1)
    BY <1>1 DEF Entered
  <2>3. Len(key) \in 0..Len(input_token_ids[r])
    BY <2>1, <2>2
  <2> QED
    BY <1>1, <1>2, <1>3, <1>w, <2>1, <2>2, <2>3 DEF Entered
<1>5. Len(FirstN(key, l)) = l
  BY <1>4, FirstNFacts
<1>6. \A i \in 1..l : FirstN(input_token_ids[r], i) = FirstN(key, i)
  <2> SUFFICES ASSUME NEW i \in 1..l PROVE FirstN(input_token_ids[r], i) = FirstN(key, i)
    OBVIOUS
  <2>1. PICK s \in Seq(Token) : s = input_token_ids[r]
    BY <1>4
  <2>2. PICK k \in 0..Len(s) : k = Len(key)
    BY <1>4, <2>1
  <2>3. i \in 0..k
    BY <1>4, <2>2
  <2>4. FirstN(FirstN(s, k), i) = FirstN(s, i)
    BY <2>3, FirstNTwice
  <2> QED
    BY <1>4, <2>1, <2>2, <2>4
<1>7. \A i \in 1..l : FirstN(key, i) \in DOMAIN tree.value
  <2>1. TreeOK(tree)
    BY DEF Accounted
  <2>2. PrefixesOf(FirstN(key, l)) = PrefixesOf(key) \cap DOMAIN tree.value
    BY <1>4, <2>1, MatchedPrefixes
  <2> SUFFICES ASSUME NEW i \in 1..l PROVE FirstN(key, i) \in PrefixesOf(FirstN(key, l))
    BY <2>2
  <2>3. FirstN(FirstN(key, l), i) = FirstN(key, i)
    BY <1>4, FirstNTwice
  <2> QED
    BY <1>5, <2>3 DEF PrefixesOf
<1>8. \A p : InTree(u, p) <=> InTree(tree, p)
  BY <1>4 DEF InTree
<1>9. \A p : p \in ToSet(w[r]) => InTree(tree, p)
  <2>1. w \in [Req -> Seq(PoolToken)] /\ Len(w[r]) = l
    BY <1>4, <1>w DEF PoolInv, PoolTyped
  <2>2. DOMAIN w[r] = 1..l
    <3>1. w[r] \in Seq(PoolToken)
      BY <1>4, <2>1
    <3> QED
      BY <2>1, <3>1
  <2> QED
    BY <1>4, <1>7, <2>2 DEF ToSet, InTree
<1>10. HeldRows'
  <2> SUFFICES ASSUME NEW s \in Req, NEW i \in 1..Len(shared_kv_node'[s])
               PROVE  w[s][i] = u.value[FirstN(input_token_ids[s], i)]
    BY <1>3, <1>4, <1>w DEF HeldRows
  <2>1. CASE s = r
    <3>1. i \in 1..l
      BY <1>4, <1>5, <2>1
    <3> QED
      BY <1>4, <1>6, <2>1, <3>1
  <2>2. CASE s # r
    BY <1>4, <2>2 DEF RowInv, HeldRows
  <2> QED
    BY <2>1, <2>2
<1>11. OwnRows'
  <2> SUFFICES ASSUME NEW s \in Req, NEW i \in 1..cur_kv_len'[s], i > Len(shared_kv_node'[s])
               PROVE  /\ ~InTree(u, w[s][i])
                      /\ \A q \in Req : GroupOf[q] # GroupOf[s] => w[s][i] \notin ToSet(w[q])
    BY <1>3, <1>w DEF OwnRows
  <2>1. s # r
    <3>1. s = r => i \in 1..l /\ i > l
      BY <1>4, <1>5
    <3> QED
      BY <1>4, <3>1
  <2>2. /\ ~InTree(tree, row[s][i]) /\ w[s][i] = row[s][i]
        /\ \A q \in Req : GroupOf[q] # GroupOf[s] => row[s][i] \notin ToSet(row[q])
    BY <1>4, <2>1 DEF RowInv, OwnRows
  <2>3. \A q \in Req \ {r} : ToSet(w[q]) = ToSet(row[q])
    BY <1>4
  <2>4. w[s][i] \notin ToSet(w[r])
    BY <1>9, <2>2
  <2> QED
    BY <1>8, <2>2, <2>3, <2>4
<1> QED
  BY <1>10, <1>11 DEF RowInv

\* The forward's tokens were free, and those of two groups are apart.
LEMMA ForwardRows ==
  ASSUME TreeInv, PoolInv, HoldInv, RowInv, NEW kind \in {"prefill", "decode"}, Forward(kind)
  PROVE  RowInv'
<1> USE DEF TreeInv
<1>1. ForwardKeeps(kind)
  BY ForwardKeepsFacts
<1>2. /\ Prefilling \/ Decoding
      /\ Needed <= Cardinality(FreeTokens)
      /\ \E rows, added : Fed(rows, added)
  BY ForwardStep DEF PoolInv, TokensOwned
<1>3. PICK rows, added : Fed(rows, added)
  BY <1>2
<1>w. PICK w : w = row'
  OBVIOUS
<1>4. batch \subseteq Req
  BY <1>2, LeaderFacts
<1>5. ASSUME NEW r \in Req \ batch
      PROVE  /\ w[r] = row[r] /\ cur_kv_len'[r] = cur_kv_len[r]
             /\ input_token_ids'[r] = input_token_ids[r]
  BY <1>1, <1>3, <1>w DEF Fed, ForwardKeeps
<1>6. ASSUME NEW r \in batch
      PROVE  /\ r \in Req /\ Extended(r, w[r]) /\ ToSet(w[r]) = ToSet(row[r]) \cup FreshOf(r)
             /\ cur_kv_len'[r] = cur_kv_len[r] + Missing(r)
             /\ \A i \in 1..cur_kv_len[r] :
                  FirstN(input_token_ids'[r], i) = FirstN(input_token_ids[r], i)
  <2>1. w[r] = RowOf(r)
    BY <1>3, <1>4, <1>w DEF Fed
  <2>2. Extended(r, RowOf(r))
    BY <1>2, RowFacts
  <2>3. ToSet(w[r]) = ToSet(row[r]) \cup FreshOf(r)
    BY <1>4, <2>1, <2>2, RowTokens
  <2>4. /\ cur_kv_len[r] \in Nat /\ Missing(r) \in Nat
        /\ Len(input_token_ids[r]) = cur_kv_len[r] + Missing(r)
    BY <1>4, MissingFacts
  <2>5. /\ cur_kv_len'[r] = Len(input_token_ids[r])
        /\ \A i \in 0..Len(input_token_ids[r]) :
             FirstN(input_token_ids'[r], i) = FirstN(input_token_ids[r], i)
    BY <1>1 DEF ForwardKeeps
  <2>6. \A i \in 1..cur_kv_len[r] : i \in 0..Len(input_token_ids[r])
    BY <2>4
  <2> QED
    BY <1>4, <2>1, <2>2, <2>3, <2>4, <2>5, <2>6
<1>7. UNCHANGED <<tree, shared_kv_node>>
  BY <1>1 DEF ForwardKeeps
<1>8. \A r \in Req : Len(shared_kv_node[r]) \in 0..cur_kv_len[r] /\ cur_kv_len[r] \in Nat
                     /\ Missing(r) \in Nat
  BY HeldText, MissingFacts
<1>9. \A p \in FreeTokens : /\ ~InTree(tree, p) /\ \A s \in Req : p \notin ToSet(row[s])
  BY HasOwner DEF FreeTokens, InTree
<1>10. \A r \in batch : FreshOf(r) \subseteq FreeTokens
  BY <1>2, FreshFacts
<1>11. ASSUME NEW r \in batch, NEW s \in batch, NEW j \in 1..Missing(r),
              NthFree(Offset(Leader(r)) + j) \in FreshOf(s)
       PROVE  GroupOf[r] = GroupOf[s]
  <2>1. PICK k \in 1..Missing(s) : NthFree(Offset(Leader(r)) + j) = NthFree(Offset(Leader(s)) + k)
    BY <1>11 DEF FreshOf
  <2>2. Leader(r) = Leader(s)
    BY <1>2, <2>1, FreshFacts
  <2>3. \A q \in batch : GroupOf[Leader(q)] = GroupOf[q]
    BY <1>4, HeadFacts DEF Leader
  <2> QED
    BY <2>2, <2>3
<1>12. HeldRows'
  <2> SUFFICES ASSUME NEW r \in Req, NEW i \in 1..Len(shared_kv_node[r])
               PROVE  w[r][i] = tree.value[FirstN(input_token_ids'[r], i)]
    BY <1>7, <1>w DEF HeldRows
  <2>1. i \in 1..cur_kv_len[r]
    BY <1>8
  <2>2. row[r][i] = tree.value[FirstN(input_token_ids[r], i)]
    BY DEF RowInv, HeldRows
  <2>3. CASE r \in batch
    BY <1>6, <2>1, <2>2, <2>3 DEF Extended
  <2>4. CASE r \notin batch
    BY <1>5, <2>2, <2>4
  <2> QED
    BY <2>3, <2>4
<1>13. ASSUME NEW r \in Req, NEW i \in 1..cur_kv_len[r], i > Len(shared_kv_node[r])
       PROVE  /\ ~InTree(tree, row[r][i])
              /\ \A s \in Req : GroupOf[s] # GroupOf[r] => row[r][i] \notin ToSet(w[s])
  <2>1. /\ ~InTree(tree, row[r][i])
        /\ \A s \in Req : GroupOf[s] # GroupOf[r] => row[r][i] \notin ToSet(row[s])
    BY <1>13 DEF RowInv, OwnRows
  <2>2. row[r][i] \notin FreeTokens
    <3>1. row[r][i] \in ToSet(row[r])
      BY InRow
    <3> QED
      BY <1>9, <3>1
  <2>3. ASSUME NEW s \in Req, GroupOf[s] # GroupOf[r] PROVE row[r][i] \notin ToSet(w[s])
    <3>1. CASE s \in batch
      BY <1>6, <1>10, <2>1, <2>2, <2>3, <3>1
    <3>2. CASE s \notin batch
      BY <1>5, <2>1, <2>3, <3>2
    <3> QED
      BY <3>1, <3>2
  <2> QED
    BY <2>1, <2>3
<1>14. ASSUME NEW r \in batch, NEW j \in 1..Missing(r)
       PROVE  /\ ~InTree(tree, NthFree(Offset(Leader(r)) + j))
              /\ \A s \in Req : GroupOf[s] # GroupOf[r] => NthFree(Offset(Leader(r)) + j) \notin ToSet(w[s])
  <2>1. NthFree(Offset(Leader(r)) + j) \in FreeTokens
    BY <1>10 DEF FreshOf
  <2>2. ASSUME NEW s \in Req, GroupOf[s] # GroupOf[r]
        PROVE  NthFree(Offset(Leader(r)) + j) \notin ToSet(w[s])
    <3>1. CASE s \in batch
      BY <1>6, <1>9, <1>11, <2>1, <2>2, <3>1
    <3>2. CASE s \notin batch
      BY <1>5, <1>9, <2>1, <3>2
    <3> QED
      BY <3>1, <3>2
  <2> QED
    BY <1>9, <2>1, <2>2
<1>15. OwnRows'
  <2> SUFFICES ASSUME NEW r \in Req, NEW i \in 1..cur_kv_len'[r], i > Len(shared_kv_node[r])
               PROVE  /\ ~InTree(tree, w[r][i])
                      /\ \A s \in Req : GroupOf[s] # GroupOf[r] => w[r][i] \notin ToSet(w[s])
    BY <1>7, <1>w DEF OwnRows
  <2>1. CASE r \notin batch
    BY <1>5, <1>13, <2>1
  <2>2. CASE r \in batch /\ i <= cur_kv_len[r]
    <3>1. i \in 1..cur_kv_len[r]
      BY <1>8, <2>2
    <3>2. w[r][i] = row[r][i]
      BY <1>6, <2>2, <3>1 DEF Extended
    <3> QED
      BY <1>13, <3>1, <3>2
  <2>3. CASE r \in batch /\ ~(i <= cur_kv_len[r])
    <3>1. PICK j : j = i - cur_kv_len[r]
      OBVIOUS
    <3>2. j \in 1..Missing(r) /\ i = cur_kv_len[r] + j
      BY <1>6, <1>8, <2>3, <3>1
    <3>3. w[r][i] = NthFree(Offset(Leader(r)) + j)
      BY <1>6, <2>3, <3>2 DEF Extended
    <3> QED
      BY <1>14, <2>3, <3>2, <3>3
  <2> QED
    BY <2>1, <2>2, <2>3
<1> QED
  BY <1>12, <1>15 DEF RowInv

\* The last request of a group leaves its own tokens to the tree.
LEMMA FreeAReqMemRows ==
  ASSUME TreeInv, PoolInv, HoldInv, RowInv, FreeAReqMem
  PROVE  RowInv'
<1> USE DEF TreeInv
<1>1. PICK r, key : Left(r, key)
  BY FreeAReqMemStep
<1>2. PICK u : u = tree'
  OBVIOUS
<1>w. PICK w : w = row'
  OBVIOUS
<1>3. PICK l : l = cur_kv_len[r]
  OBVIOUS
<1>4. /\ at = "filter" /\ r \in Req /\ status[r] = "running"
      /\ key = FirstN(input_token_ids[r], l) /\ key \in Seq(Token) /\ Len(key) = l
      /\ Released(r, key, u) /\ TreeOK(u) /\ input_token_ids' = input_token_ids
      /\ shared_kv_node'[r] = NoNode /\ cur_kv_len'[r] = 0 /\ w[r] = <<>>
      /\ \A s \in Req \ {r} : /\ shared_kv_node'[s] = shared_kv_node[s]
                              /\ cur_kv_len'[s] = cur_kv_len[s] /\ w[s] = row[s]
  <2>1. /\ shared_kv_node \in [Req -> tree.nodes] /\ cur_kv_len \in [Req -> Nat]
        /\ row \in [Req -> Seq(PoolToken)]
    BY DEF Texts, PoolInv, PoolTyped
  <2> QED
    BY <1>1, <1>2, <1>3, <1>w, <2>1 DEF Left, Released
<1>5. PICK k : k = IF IsLast(r) THEN MatchLen(tree, key) ELSE l
  OBVIOUS
<1>6. Moved(r, l, k, u)
  BY <1>3, <1>4, <1>5, HandOverContent
<1>7. \A q \in DOMAIN tree.value : u.value[q] = tree.value[q]
  <2>1. Released(r, key, u)
    BY <1>4
  <2> QED
    BY <2>1 DEF Released
<1>8. Len(NoNode) = 0
  BY DEF NoNode, Root
<1>9. HeldRows'
  <2> SUFFICES ASSUME NEW s \in Req, NEW i \in 1..Len(shared_kv_node'[s])
               PROVE  w[s][i] = u.value[FirstN(input_token_ids[s], i)]
    BY <1>2, <1>4, <1>w DEF HeldRows
  <2>1. s # r
    <3>1. 1..0 = {}
      OBVIOUS
    <3> QED
      BY <1>4, <1>8, <3>1
  <2>2. i \in 1..Len(shared_kv_node[s])
    BY <1>4, <2>1
  <2>3. FirstN(input_token_ids[s], i) \in DOMAIN tree.value
    BY <2>2, HeldText
  <2>4. row[s][i] = tree.value[FirstN(input_token_ids[s], i)]
    BY <2>2 DEF RowInv, HeldRows
  <2> QED
    BY <1>4, <1>7, <2>1, <2>3, <2>4
<1>10. OwnRows'
  <2> SUFFICES ASSUME NEW s \in Req, NEW i \in 1..cur_kv_len'[s], i > Len(shared_kv_node'[s])
               PROVE  /\ ~InTree(u, w[s][i])
                      /\ \A q \in Req : GroupOf[q] # GroupOf[s] => w[s][i] \notin ToSet(w[q])
    BY <1>2, <1>w DEF OwnRows
  <2>1. s # r
    <3>1. 1..0 = {}
      OBVIOUS
    <3> QED
      BY <1>4, <3>1
  <2>2. /\ w[s] = row[s] /\ i \in 1..cur_kv_len[s] /\ i > Len(shared_kv_node[s])
    BY <1>4, <2>1
  <2>3. /\ ~InTree(tree, row[s][i])
        /\ \A q \in Req : GroupOf[q] # GroupOf[s] => row[s][i] \notin ToSet(row[q])
    BY <2>2 DEF RowInv, OwnRows
  <2>4. \A q \in Req : GroupOf[q] # GroupOf[s] => w[s][i] \notin ToSet(w[q])
    <3>1. TAKE q \in Req
    <3>2. CASE q = r
      BY <1>4, <3>2, EmptyToSet
    <3>3. CASE q # r
      BY <1>4, <2>2, <2>3, <3>3
    <3> QED
      BY <3>2, <3>3
  <2>5. ~InTree(u, row[s][i])
    <3>1. CASE IsLast(r)
      <4>1. GroupOf[s] # GroupOf[r]
        <5>1. status[s] # "done"
          <6>1. cur_kv_len[s] # 0
            <7>1. 1..0 = {}
              OBVIOUS
            <7> QED
              BY <2>2, <7>1
          <6> QED
            BY <6>1 DEF Texts
        <5> QED
          BY <2>1, <3>1, <5>1 DEF IsLast, Members
      <4>2. row[s][i] \notin ToSet(row[r])
        BY <1>4, <2>3, <4>1
      <4> QED
        BY <1>6, <2>3, <4>2 DEF Moved
    <3>2. CASE ~IsLast(r)
      <4>1. u.value = tree.value
        BY <1>4, <3>2 DEF Released
      <4> QED
        BY <2>3, <4>1 DEF InTree
    <3> QED
      BY <3>1, <3>2
  <2> QED
    BY <2>2, <2>4, <2>5
<1> QED
  BY <1>9, <1>10 DEF RowInv

\* Eviction takes no node that a row shares tokens with.
LEMMA EvictRows ==
  ASSUME TreeInv, HoldInv, RowInv, NEW kind \in {"prefill", "decode"}, Evict(kind)
  PROVE  RowInv'
<1> USE DEF TreeInv
<1>1. /\ TreeOK(tree) /\ RefsOK(tree, shared_kv_node) /\ shared_kv_node \in [Req -> tree.nodes]
      /\ Evictable(tree) /\ tree' = PopFirst(tree)
      /\ UNCHANGED <<input_token_ids, cur_kv_len, row, shared_kv_node>>
  BY DEF Accounted, Texts, Evict, reqVars
<1>2. PICK u : u = PopFirst(tree)
  OBVIOUS
<1>3. PICK n : n = FirstEntry(tree).node
  OBVIOUS
<1>4. /\ TreeOK(u) /\ shared_kv_node \in [Req -> u.nodes]
      /\ DOMAIN u.value = DOMAIN tree.value \ EdgeTokens(tree, n)
      /\ \A q \in DOMAIN u.value : u.value[q] = tree.value[q]
  BY <1>1, <1>2, <1>3, PopFacts
<1> QED
  BY <1>1, <1>2, <1>4, RowsQuiet

LEMMA RowsStep ==
  TreeInv /\ TreeInv' /\ PoolInv /\ PoolInv' /\ HoldInv /\ RowInv /\ [Next]_vars => RowInv'
<1> SUFFICES ASSUME TreeInv, TreeInv', PoolInv, PoolInv', HoldInv, RowInv, [Next]_vars
             PROVE  RowInv'
  OBVIOUS
<1>1. UNCHANGED <<tree, reqVars>> => RowInv'
  <2> SUFFICES ASSUME UNCHANGED <<tree, reqVars>> PROVE RowInv'
    OBVIOUS
  <2>1. /\ UNCHANGED <<input_token_ids, cur_kv_len, row, shared_kv_node>> /\ tree' = tree
    BY DEF reqVars
  <2>2. TreeOK(tree) /\ shared_kv_node \in [Req -> tree.nodes]
    BY DEF TreeInv, Accounted, Texts
  <2> QED
    BY <2>1, <2>2, RowsQuiet
<1>2. UNCHANGED vars => UNCHANGED <<tree, reqVars>>
  BY DEF vars
<1>3. \A new : AddBatch(new) => UNCHANGED <<tree, reqVars>>
  BY DEF AddBatch
<1>4. StartDecode \/ FreeBatch => UNCHANGED <<tree, reqVars>>
  BY DEF StartDecode, FreeBatch
<1>5. \A kind : Prepare(kind) => UNCHANGED <<tree, reqVars>>
  BY DEF Prepare
<1>6. \A kind \in {"prefill", "decode"} : Forward(kind) => RowInv'
  BY ForwardRows
<1>7. InitReq => RowInv'
  BY InitReqRows
<1>8. FreeAReqMem => RowInv'
  BY FreeAReqMemRows
<1>9. \A kind \in {"prefill", "decode"} : Evict(kind) => RowInv'
  BY EvictRows
<1> QED
  BY <1>1, <1>2, <1>3, <1>4, <1>5, <1>6, <1>7, <1>8, <1>9 DEF Next

-----------------------------------------------------------------------------
(* The prompt that a group shares *)

\* After their first forward the requests of a group have its prompt in the same
\* tokens.
SharedPrompts ==
  \A r \in Req : status[r] = "running" /\ ~Entering(r) =>
    /\ Len(Prompt[r]) <= cur_kv_len[r]
    /\ \A s \in Req : GroupOf[s] = GroupOf[r] /\ status[s] = "running" =>
         \A i \in 1..Len(Prompt[r]) : row[s][i] = row[r][i]

LEMMA InitShared == Init => SharedPrompts
BY DEF Init, SharedPrompts

\* The requests of a group enter together.
LEMMA EnterTogether ==
  ASSUME TreeInv, NEW r \in Req, NEW s \in Req, GroupOf[s] = GroupOf[r], Entering(r)
  PROVE  /\ s \in batch /\ Entering(s) /\ Prompt[s] = Prompt[r]
         /\ input_token_ids[r] = Prompt[r] /\ input_token_ids[s] = Prompt[s]
<1>1. /\ at = "init" \/ Prefilling
      /\ \A q \in batch : Members(GroupOf[q]) \subseteq batch /\ input_token_ids[q] = Prompt[q]
  BY DEF Entering, TreeInv, GroupsTogether
<1>2. s \in Members(GroupOf[r])
  BY DEF Members
<1> QED
  BY <1>1, <1>2, PromptCacheAssumption DEF Entering

\* A step that keeps rows and what has entered.
LEMMA SharedQuiet ==
  ASSUME SharedPrompts, UNCHANGED <<cur_kv_len, row, status>>,
         \A r \in Req : status[r] = "running" => (Entering(r)' <=> Entering(r))
  PROVE  SharedPrompts'
BY DEF SharedPrompts

\* The forward gives the requests of a group the tokens of its head.
LEMMA ForwardShared ==
  ASSUME TreeInv, PoolInv, HoldInv, RowInv, SharedPrompts,
         NEW kind \in {"prefill", "decode"}, Forward(kind)
  PROVE  SharedPrompts'
<1> USE DEF TreeInv
<1>1. ForwardKeeps(kind)
  BY ForwardKeepsFacts
<1>2. /\ Prefilling \/ Decoding
      /\ Needed <= Cardinality(FreeTokens)
      /\ \E rows, added : Fed(rows, added)
  BY ForwardStep DEF PoolInv, TokensOwned
<1>3. PICK rows, added : Fed(rows, added)
  BY <1>2
<1>w. PICK w : w = row'
  OBVIOUS
<1>4. /\ batch \subseteq Req /\ status' = status
      /\ \A r \in Req \ batch : cur_kv_len'[r] = cur_kv_len[r]
      /\ \A r \in batch : cur_kv_len'[r] = Len(input_token_ids[r])
  BY <1>1 DEF Control, ForwardKeeps
<1>5. \A r \in Req \ batch : w[r] = row[r]
  BY <1>3, <1>w DEF Fed
<1>6. \A r \in batch : Extended(r, w[r])
  <2> SUFFICES ASSUME NEW r \in batch PROVE Extended(r, w[r])
    OBVIOUS
  <2>1. w[r] = RowOf(r)
    BY <1>3, <1>4, <1>w DEF Fed
  <2> QED
    BY <1>2, <2>1, RowFacts
<1>7. \A r \in Req : /\ cur_kv_len[r] \in Nat /\ Missing(r) \in Nat
                     /\ Len(input_token_ids[r]) = cur_kv_len[r] + Missing(r)
                     /\ Len(Prompt[r]) \in Nat
  BY MissingFacts, PromptCacheAssumption
<1>8. ASSUME NEW r \in Req, status[r] = "running", ~Entering(r)
      PROVE  /\ Len(Prompt[r]) <= cur_kv_len[r] /\ Len(Prompt[r]) <= cur_kv_len'[r]
             /\ \A i \in 1..Len(Prompt[r]) : w[r][i] = row[r][i]
  <2>1. Len(Prompt[r]) <= cur_kv_len[r]
    BY <1>8 DEF SharedPrompts
  <2>2. CASE r \in batch
    <3>1. \A i \in 1..Len(Prompt[r]) : i \in 1..cur_kv_len[r]
      BY <1>7, <2>1
    <3>2. \A i \in 1..cur_kv_len[r] : w[r][i] = row[r][i]
      BY <1>6, <2>2 DEF Extended
    <3>3. cur_kv_len'[r] = cur_kv_len[r] + Missing(r)
      BY <1>4, <1>7, <2>2
    <3> QED
      BY <1>7, <2>1, <3>1, <3>2, <3>3
  <2>3. CASE r \notin batch
    BY <1>4, <1>5, <2>1, <2>3
  <2> QED
    BY <2>2, <2>3
<1>9. ASSUME NEW r \in Req, status[r] = "running", Entering(r),
             NEW s \in Req, status[s] = "running", GroupOf[s] = GroupOf[r],
             NEW i \in 1..Len(Prompt[r])
      PROVE  w[s][i] = w[r][i]
  <2>1. /\ r \in batch /\ s \in batch /\ Entering(s) /\ Prompt[s] = Prompt[r]
        /\ input_token_ids[r] = Prompt[r] /\ input_token_ids[s] = Prompt[r]
    BY <1>9, EnterTogether DEF Entering
  <2>2. shared_kv_node[s] = shared_kv_node[r]
    BY <1>9 DEF HoldInv, GroupHolds
  <2>3. /\ Len(shared_kv_node[r]) = cur_kv_len[r] /\ cur_kv_len[s] = cur_kv_len[r]
    BY <1>9, <2>1, <2>2 DEF HoldInv, HoldsPrefix
  <2>4. Missing(s) = Missing(r) /\ Len(Prompt[r]) = cur_kv_len[r] + Missing(r)
    BY <1>7, <2>1, <2>3 DEF Missing
  <2>5. Extended(r, w[r]) /\ Extended(s, w[s])
    BY <1>6, <2>1
  <2>6. CASE i <= cur_kv_len[r]
    <3>1. i \in 1..cur_kv_len[r]
      BY <1>7, <2>6
    <3>2. row[r][i] = tree.value[FirstN(input_token_ids[r], i)]
          /\ row[s][i] = tree.value[FirstN(input_token_ids[s], i)]
      BY <2>2, <2>3, <3>1 DEF RowInv, HeldRows
    <3>3. w[r][i] = row[r][i] /\ w[s][i] = row[s][i]
      BY <2>3, <2>5, <3>1 DEF Extended
    <3> QED
      BY <2>1, <3>2, <3>3
  <2>7. CASE ~(i <= cur_kv_len[r])
    <3>1. PICK j : j = i - cur_kv_len[r]
      OBVIOUS
    <3>2. j \in 1..Missing(r) /\ i = cur_kv_len[r] + j
      BY <1>7, <2>4, <2>7, <3>1
    <3>3. w[r][i] = NthFree(Offset(Leader(r)) + j) /\ w[s][i] = NthFree(Offset(Leader(s)) + j)
      BY <2>3, <2>4, <2>5, <3>2 DEF Extended
    <3>4. Leader(r) = Leader(s)
      <4>1. HeadOf(r) = HeadOf(s)
        BY <1>9 DEF HeadOf
      <4>2. Prefilling
        BY <1>2, <1>9 DEF Entering, Prefilling, Decoding
      <4>3. \A q \in batch : q \in Computed <=> q = HeadOf(q)
        BY <4>2 DEF Computed, Prefilling
      <4> QED
        BY <2>1, <4>1, <4>3 DEF Leader
    <3> QED
      BY <3>3, <3>4
  <2> QED
    BY <2>6, <2>7
<1>10. ASSUME NEW r \in Req, status[r] = "running"
       PROVE  /\ Len(Prompt[r]) <= cur_kv_len'[r]
              /\ \A s \in Req : GroupOf[s] = GroupOf[r] /\ status[s] = "running" =>
                   \A i \in 1..Len(Prompt[r]) : w[s][i] = w[r][i]
  <2>1. CASE Entering(r)
    <3>1. cur_kv_len'[r] = Len(Prompt[r])
      BY <1>4, <2>1, EnterTogether DEF Entering
    <3> QED
      BY <1>7, <1>9, <1>10, <2>1, <3>1
  <2>2. CASE ~Entering(r)
    <3> SUFFICES ASSUME NEW s \in Req, GroupOf[s] = GroupOf[r], status[s] = "running",
                        NEW i \in 1..Len(Prompt[r])
                 PROVE  w[s][i] = w[r][i]
      BY <1>8, <1>10, <2>2
    <3>1. ~Entering(s) /\ Prompt[s] = Prompt[r]
      BY <2>2, EnterTogether, PromptCacheAssumption
    <3>2. row[s][i] = row[r][i]
      BY <1>10, <2>2 DEF SharedPrompts
    <3> QED
      BY <1>8, <1>10, <2>2, <3>1, <3>2
  <2> QED
    BY <2>1, <2>2
<1> QED
  BY <1>4, <1>10, <1>w DEF SharedPrompts

LEMMA SharedStep ==
  TreeInv /\ PoolInv /\ HoldInv /\ RowInv /\ SharedPrompts /\ [Next]_vars => SharedPrompts'
<1> SUFFICES ASSUME TreeInv, PoolInv, HoldInv, RowInv, SharedPrompts, [Next]_vars
             PROVE  SharedPrompts'
  OBVIOUS
<1>1. CASE UNCHANGED vars
  BY <1>1, SharedQuiet DEF vars, reqVars, loopVars, Entering, Prefilling
<1>2. ASSUME NEW new \in SUBSET Waiting, AddBatch(new) PROVE SharedPrompts'
  <2>1. /\ at = "idle" /\ batch' \subseteq Waiting /\ UNCHANGED <<cur_kv_len, row, status>>
    BY <1>2 DEF AddBatch, reqVars
  <2> QED
    BY <2>1, SharedQuiet DEF Entering, Prefilling, Waiting
<1>3. CASE InitReq
  <2>1. PICK q, key : Entered(q, key)
    BY <1>3, InitReqStep
  <2>2. /\ q \in Req /\ Entering(q) /\ Entering(q)'
        /\ \A r \in Req : Entering(r)' <=> Entering(r)
    BY <2>1 DEF Entered, Entering, Prefilling
  <2>3. \A r \in Req \ {q} : /\ status'[r] = status[r] /\ cur_kv_len'[r] = cur_kv_len[r]
                             /\ row'[r] = row[r]
    BY <2>1 DEF Entered, TreeInv, Texts, Control
  <2>4. \A r \in Req : ~Entering(r) => GroupOf[r] # GroupOf[q]
    BY <2>2, EnterTogether
  <2> QED
    BY <2>2, <2>3, <2>4 DEF SharedPrompts
<1>4. CASE StartDecode
  BY <1>4, SharedQuiet DEF StartDecode, reqVars, Entering, Prefilling
<1>5. ASSUME NEW kind \in {"prefill", "decode"}, Prepare(kind) PROVE SharedPrompts'
  BY <1>5, SharedQuiet DEF Prepare, reqVars, Entering, Prefilling, EvictFor, AllocFor
<1>6. ASSUME NEW kind \in {"prefill", "decode"}, Evict(kind) PROVE SharedPrompts'
  BY <1>6, SharedQuiet DEF Evict, reqVars, Entering, Prefilling, EvictFor, AllocFor
<1>7. ASSUME NEW kind \in {"prefill", "decode"}, Forward(kind) PROVE SharedPrompts'
  BY <1>7, ForwardShared
<1>8. CASE FreeAReqMem
  <2>1. PICK q, key : Left(q, key)
    BY <1>8, FreeAReqMemStep
  <2>2. /\ q \in Req /\ at = "filter" /\ at' \in {"free", "filter"} /\ status'[q] = "done"
        /\ \A r \in Req \ {q} : /\ status'[r] = status[r] /\ cur_kv_len'[r] = cur_kv_len[r]
                                /\ row'[r] = row[r]
    BY <2>1 DEF Left, TreeInv, Texts, Control, PoolInv, PoolTyped
  <2>3. \A r \in Req : ~Entering(r) /\ ~Entering(r)'
    BY <2>2 DEF Entering, Prefilling
  <2> QED
    BY <2>2, <2>3 DEF SharedPrompts
<1>9. CASE FreeBatch
  BY <1>9, SharedQuiet DEF FreeBatch, reqVars, Entering, Prefilling
<1> QED
  BY <1>1, <1>2, <1>3, <1>4, <1>5, <1>6, <1>7, <1>8, <1>9 DEF Next

-----------------------------------------------------------------------------
(* The fourth layer: the room in the pool *)

\* The size of a union is at most the sum of the sizes.
LEMMA UnionAtMost ==
  ASSUME NEW D, IsFiniteSet(D), NEW F, NEW f,
         \A x \in D : IsFiniteSet(F[x]) /\ Cardinality(F[x]) <= f[x] /\ f[x] \in Nat
  PROVE  /\ IsFiniteSet(UNION {F[x] : x \in D})
         /\ Cardinality(UNION {F[x] : x \in D}) <= SumFunctionOnSet(f, D)
<1> DEFINE U(S) == UNION {F[x] : x \in S}
           T == {S \in SUBSET D : IsFiniteSet(U(S)) /\ Cardinality(U(S)) <= SumFunctionOnSet(f, S)}
<1>1. {} \in T
  <2>1. U({}) = {}
    OBVIOUS
  <2> QED
    BY <2>1, FS_EmptySet, SumEmpty
<1>2. ASSUME NEW S \in SUBSET D, NEW x \in D \ S, S \in T PROVE S \cup {x} \in T
  <2>1. PICK A : A = U(S)
    OBVIOUS
  <2>2. PICK B : B = F[x]
    OBVIOUS
  <2>3. U(S \cup {x}) = A \cup B
    BY <2>1, <2>2
  <2>4. IsFiniteSet(A) /\ Cardinality(A) <= SumFunctionOnSet(f, S)
    BY <1>2, <2>1
  <2>5. IsFiniteSet(B) /\ Cardinality(B) <= f[x]
    BY <2>2
  <2>6. /\ IsFiniteSet(A \cup B) /\ IsFiniteSet(A \cap B)
        /\ Cardinality(A \cup B) = Cardinality(A) + Cardinality(B) - Cardinality(A \cap B)
    <3>1. A \cap B \in SUBSET A
      OBVIOUS
    <3>2. IsFiniteSet(A \cap B)
      BY <2>4, <3>1, FS_Subset
    <3> QED
      BY <2>4, <2>5, <3>2, FS_Union
  <2>7. Cardinality(A) \in Nat /\ Cardinality(B) \in Nat /\ Cardinality(A \cap B) \in Nat
    BY <2>4, <2>5, <2>6, FS_CardinalityType
  <2>8. /\ SumFunctionOnSet(f, S \cup {x}) = SumFunctionOnSet(f, S) + f[x]
        /\ SumFunctionOnSet(f, S) \in Int
    BY SumAdd
  <2>9. S \cup {x} \in SUBSET D
    OBVIOUS
  <2>10. f[x] \in Nat
    OBVIOUS
  <2>11. Cardinality(A \cup B) <= SumFunctionOnSet(f, S \cup {x})
    BY <2>4, <2>5, <2>6, <2>7, <2>8, <2>10
  <2>12. IsFiniteSet(U(S \cup {x})) /\ Cardinality(U(S \cup {x})) <= SumFunctionOnSet(f, S \cup {x})
    BY <2>3, <2>6, <2>11
  <2> HIDE DEF U
  <2> QED
    BY <2>9, <2>12 DEF T
<1> HIDE DEF T
<1>3. \A S \in SUBSET D : S \in T
  BY <1>1, <1>2, SubsetInduction
<1>4. D \in T
  BY <1>3
<1> QED
  BY <1>4 DEF T

\* Two sets have together at most as many elements as both.
LEMMA UnionOfTwo ==
  ASSUME NEW A, NEW B, IsFiniteSet(A), IsFiniteSet(B)
  PROVE  IsFiniteSet(A \cup B) /\ Cardinality(A \cup B) <= Cardinality(A) + Cardinality(B)
<1>1. IsFiniteSet(A \cap B)
  <2>1. A \cap B \in SUBSET A
    OBVIOUS
  <2> QED
    BY <2>1, FS_Subset
<1>2. Cardinality(A) \in Nat /\ Cardinality(B) \in Nat /\ Cardinality(A \cap B) \in Nat
  BY <1>1, FS_CardinalityType
<1>3. /\ IsFiniteSet(A \cup B)
      /\ Cardinality(A \cup B) = Cardinality(A) + Cardinality(B) - Cardinality(A \cap B)
  BY FS_Union
<1> QED
  BY <1>2, <1>3

\* The entries of a row are at most as many as its length.
LEMMA RowSize ==
  ASSUME TreeInv, PoolInv, NEW r \in Req
  PROVE  IsFiniteSet(ToSet(row[r])) /\ Cardinality(ToSet(row[r])) <= cur_kv_len[r]
<1>1. PICK s : s = row[r]
  OBVIOUS
<1>2. PICK l \in Nat : l = cur_kv_len[r]
  BY RowsApart DEF PoolInv
<1>3. /\ DOMAIN s = 1..l /\ \A i, j \in 1..l : s[i] = s[j] => i = j
  BY <1>1, <1>2, RowsApart DEF PoolInv
<1>4. PICK f : f = [i \in 1..l |-> s[i]]
  OBVIOUS
<1>5. /\ f \in [1..l -> ToSet(s)]
      /\ \A i, j \in 1..l : f[i] = f[j] => i = j
      /\ \A z \in ToSet(s) : \E i \in 1..l : f[i] = z
  BY <1>3, <1>4 DEF ToSet
<1>6. IsFiniteSet(1..l) /\ Cardinality(1..l) = l
  BY FS_Interval
<1>7. IsFiniteSet(ToSet(s)) /\ Cardinality(ToSet(s)) = Cardinality(1..l)
  BY <1>5, <1>6, OneToOne
<1> QED
  BY <1>1, <1>2, <1>6, <1>7

\* Every text in the tree is on an edge.
LEMMA OnSomeEdge ==
  ASSUME NEW t, TreeOK(t), NEW q \in DOMAIN t.value
  PROVE  \E n \in t.nodes \ {Root} : q \in EdgeTokens(t, n)
<1>1. NodesOK(t.nodes) /\ KeepsInside(t) /\ t.nodes \subseteq Seq(Token)
  BY DEF TreeOK, NodesOK
<1>2. q \in Seq(Token) \ {Root} /\ Inside(t.nodes, q)
  BY <1>1 DEF KeepsInside
<1>3. PICK M : M = {Len(n) : n \in {m \in t.nodes : IsPrefix(q, m)}}
  OBVIOUS
<1>4. M \subseteq Nat /\ M # {}
  <2>1. \A n \in t.nodes : Len(n) \in Nat
    BY <1>1
  <2> QED
    BY <1>2, <1>3, <2>1 DEF Inside
<1>5. PICK l \in M : \A k \in M : l <= k
  BY <1>4, MinElement
<1>6. PICK n \in t.nodes : IsPrefix(q, n) /\ Len(n) = l
  BY <1>3, <1>5
<1>7. \A m \in t.nodes : IsPrefix(q, m) => Len(n) <= Len(m)
  BY <1>3, <1>5, <1>6
<1>8. \A m \in t.nodes : IsPrefix(m, n) /\ m # n => ~IsPrefix(q, m)
  <2> SUFFICES ASSUME NEW m \in t.nodes, IsPrefix(m, n), IsPrefix(q, m) PROVE m = n
    OBVIOUS
  <2>1. Len(n) <= Len(m) /\ m \in Seq(Token) /\ n \in Seq(Token)
    BY <1>1, <1>7
  <2> QED
    BY <2>1, PrefixOrder
<1>9. q \in EdgeTokens(t, n)
  <2>1. EdgeTokens(t, n) =
              {y \in Seq(Token) \ {Root} : /\ IsPrefix(y, n)
                                           /\ \A m \in t.nodes : IsPrefix(m, n) /\ m # n => ~IsPrefix(y, m)}
    BY <1>1, EdgeFacts
  <2> QED
    BY <1>2, <1>6, <1>8, <2>1
<1>10. n # Root
  <2>1. IsPrefix(q, Root) => q = Root
    <3>1. Root \in Seq(Token) /\ IsPrefix(Root, q)
      BY <1>1, <1>2, PrefixOrder DEF NodesOK
    <3>2. Len(Root) = 0 /\ Len(q) >= 0
      BY <1>2 DEF Root
    <3>3. IsPrefix(q, Root) => Len(q) <= Len(Root)
      BY <1>2, <3>1, PrefixOrder
    <3>4. IsPrefix(q, Root) => Len(Root) <= Len(q)
      BY <3>2
    <3> QED
      BY <1>2, <3>1, <3>2, <3>4, PrefixOrder
  <2> QED
    BY <1>2, <1>6, <2>1
<1> QED
  BY <1>9, <1>10

\* The tokens that eviction can free: those on the edges of unreferenced nodes.
Unreferenced(t) == t.nodes \ Referenced(t)

\* The counter the router reads is the number of tokens on unreferenced edges.
LEMMA UnrefedAre ==
  ASSUME TreeInv
  PROVE  /\ UnrefedTokensNum \in Nat
         /\ IsFiniteSet(EdgesOf(tree, Unreferenced(tree)))
         /\ UnrefedTokensNum = Cardinality(EdgesOf(tree, Unreferenced(tree)))
<1>1. TreeOK(tree) /\ CountersOK(tree) /\ NodesOK(tree.nodes)
  BY DEF TreeInv, Accounted, TreeOK
<1>2. PICK R : R = Referenced(tree)
  OBVIOUS
<1>3. PICK N : N = tree.nodes
  OBVIOUS
<1>4. R \in SUBSET N /\ N \in SUBSET N /\ N \ R \in SUBSET N
  BY <1>2, <1>3 DEF Referenced
<1>5. TokensOf(tree, N \ R) = TokensOf(tree, N) - TokensOf(tree, R)
  BY <1>1, <1>3, <1>4, EdgesFacts
<1>6. /\ IsFiniteSet(EdgesOf(tree, N \ R)) /\ TokensOf(tree, N \ R) = Cardinality(EdgesOf(tree, N \ R))
      /\ TokensOf(tree, N \ R) \in Nat
  BY <1>1, <1>3, <1>4, EdgesFacts
<1>7. UnrefedTokensNum = TokensOf(tree, N \ R)
  BY <1>1, <1>2, <1>3, <1>5 DEF UnrefedTokensNum, CountersOK
<1> QED
  BY <1>2, <1>3, <1>6, <1>7 DEF Unreferenced

\* A token on the edge of a referenced node is in the row of a running request.
LEMMA ReferencedInRow ==
  ASSUME TreeInv, PoolInv, HoldInv, RowInv, NEW n \in tree.nodes \ {Root}, tree.ref_counter[n] > 0,
         NEW q \in EdgeTokens(tree, n)
  PROVE  \E r \in Running : tree.value[q] \in ToSet(row[r])
<1> USE DEF TreeInv
<1>1. TreeOK(tree) /\ RefsOK(tree, shared_kv_node) /\ NodesOK(tree.nodes) /\ n \in Seq(Token)
  BY DEF Accounted, TreeOK, NodesOK
<1>2. HoldersOf(shared_kv_node, n) # {}
  <2>1. HoldersOf(shared_kv_node, n) = {} => tree.ref_counter[n] = 0
    <3>1. Cardinality({}) = 0
      BY FS_EmptySet
    <3>2. tree.ref_counter[n] = 0 + Cardinality(HoldersOf(shared_kv_node, n))
      BY <1>1 DEF RefsOK
    <3> QED
      BY <3>1, <3>2
  <2> QED
    BY <2>1
<1>3. PICK r \in Req : shared_kv_node[r] # NoNode /\ IsPrefix(n, shared_kv_node[r])
  BY <1>2 DEF HoldersOf
<1>4. r \in Running
  BY <1>3 DEF Texts, Running
<1>5. q \in PrefixesOf(shared_kv_node[r])
  <2>1. shared_kv_node[r] \in tree.nodes
    BY DEF Texts
  <2> QED
    BY <1>1, <1>3, <2>1, EdgeSides
<1>6. PICK i \in 1..Len(shared_kv_node[r]) : q = FirstN(input_token_ids[r], i)
  BY <1>5, HeldText
<1>7. row[r][i] = tree.value[q]
  BY <1>6 DEF RowInv, HeldRows
<1>8. i \in 1..cur_kv_len[r]
  BY HeldText
<1>9. tree.value[q] \in ToSet(row[r])
  BY <1>7, <1>8, InRow
<1> QED
  BY <1>4, <1>9

\* The tokens beyond its prompt that a request has, and how many it adds to those of
\* the first of its group.
OwnTokens(r) == {row[r][i] : i \in (Len(Prompt[r]) + 1)..cur_kv_len[r]}
Adds(r) == IF r \in First(Running) THEN cur_kv_len[r]
           ELSE IF cur_kv_len[r] > Len(Prompt[r]) THEN cur_kv_len[r] - Len(Prompt[r]) ELSE 0

LEMMA OwnSize ==
  ASSUME TreeInv, PoolInv, NEW r \in Req, r \notin First(Running)
  PROVE  IsFiniteSet(OwnTokens(r)) /\ Cardinality(OwnTokens(r)) <= Adds(r) /\ Adds(r) \in Nat
<1>1. PICK l \in Nat : l = cur_kv_len[r]
  BY DEF TreeInv, Texts
<1>2. PICK k \in Nat : k = Len(Prompt[r])
  BY PromptCacheAssumption
<1>3. PICK s : s = row[r]
  OBVIOUS
<1>4. \A i, j \in 1..l : s[i] = s[j] => i = j
  BY <1>1, <1>3, RowsApart DEF PoolInv
<1>5. CASE l > k
  <2>1. PICK m \in Nat : m = l - k
    BY <1>5
  <2>2. PICK f : f = [i \in 1..m |-> s[k + i]]
    OBVIOUS
  <2>3. \A i \in 1..m : f[i] = s[k + i] /\ k + i \in 1..l /\ k + i \in (k + 1)..l
    BY <2>1, <2>2
  <2>4. \A i \in (k + 1)..l : i - k \in 1..m /\ k + (i - k) = i
    BY <2>1
  <2>5. OwnTokens(r) = {s[i] : i \in (k + 1)..l}
    BY <1>1, <1>2, <1>3 DEF OwnTokens
  <2>6. f \in [1..m -> OwnTokens(r)]
    BY <2>2, <2>3, <2>5
  <2>7. \A x, y \in 1..m : f[x] = f[y] => x = y
    BY <1>4, <2>3
  <2>8. \A z \in OwnTokens(r) : \E x \in 1..m : f[x] = z
    BY <2>3, <2>4, <2>5
  <2>9. IsFiniteSet(1..m) /\ Cardinality(1..m) = m
    BY FS_Interval
  <2>10. IsFiniteSet(OwnTokens(r)) /\ Cardinality(OwnTokens(r)) = m
    BY <2>6, <2>7, <2>8, <2>9, OneToOne
  <2> QED
    BY <1>1, <1>2, <1>5, <2>1, <2>10 DEF Adds
<1>6. CASE ~(l > k)
  <2>1. (k + 1)..l = {}
    BY <1>6
  <2>2. OwnTokens(r) = {}
    BY <1>1, <1>2, <2>1 DEF OwnTokens
  <2>3. Adds(r) = 0
    BY <1>1, <1>2, <1>6 DEF Adds
  <2> QED
    BY <2>2, <2>3, FS_EmptySet
<1> QED
  BY <1>5, <1>6

\* The tokens of a request's prompt are in the row of the first of its group.
LEMMA PromptOfFirst ==
  ASSUME TreeInv, PoolInv, HoldInv, RowInv, SharedPrompts,
         NEW r \in Running, NEW i \in 1..cur_kv_len[r], i <= Len(Prompt[r])
  PROVE  \E h \in First(Running) : row[r][i] \in ToSet(row[h])
<1>1. PICK S \in SUBSET Req : S = {s \in Running : GroupOf[s] = GroupOf[r]}
  BY DEF Running
<1>2. PICK h : h = Min(S)
  OBVIOUS
<1>3. h \in S /\ \A s \in S : h <= s
  BY <1>1, <1>2, MinFacts
<1>4. /\ h \in First(Running) /\ h \in Req /\ r \in Req /\ GroupOf[h] = GroupOf[r]
      /\ status[h] = "running" /\ status[r] = "running" /\ Prompt[h] = Prompt[r]
  BY <1>1, <1>3, PromptCacheAssumption DEF First, Running
<1>5. /\ cur_kv_len[h] \in Nat /\ cur_kv_len[r] \in Nat /\ Len(Prompt[r]) \in Nat
  BY <1>4, PromptCacheAssumption DEF TreeInv, Texts
<1>6. row[h][i] = row[r][i] /\ i <= cur_kv_len[h]
  <2>1. CASE Entering(r)
    <3>1. /\ Entering(h) /\ input_token_ids[h] = input_token_ids[r]
      BY <1>4, <2>1, EnterTogether
    <3>2. shared_kv_node[h] = shared_kv_node[r]
      BY <1>4 DEF HoldInv, GroupHolds
    <3>3. Len(shared_kv_node[r]) = cur_kv_len[r] /\ Len(shared_kv_node[h]) = cur_kv_len[h]
      BY <1>4, <2>1, <3>1 DEF HoldInv, HoldsPrefix
    <3>4. row[r][i] = tree.value[FirstN(input_token_ids[r], i)]
          /\ row[h][i] = tree.value[FirstN(input_token_ids[h], i)]
      BY <1>4, <3>2, <3>3 DEF RowInv, HeldRows
    <3> QED
      BY <1>5, <3>1, <3>2, <3>3, <3>4
  <2>2. CASE ~Entering(r)
    <3>1. ~Entering(h)
      BY <1>4, <2>2, EnterTogether
    <3>2. Len(Prompt[r]) <= cur_kv_len[h]
      BY <1>4, <3>1 DEF SharedPrompts
    <3>3. i \in 1..Len(Prompt[r])
      BY <1>5
    <3> QED
      BY <1>4, <1>5, <2>2, <3>2, <3>3 DEF SharedPrompts
  <2> QED
    BY <2>1, <2>2
<1>7. i \in 1..cur_kv_len[h]
  BY <1>5, <1>6
<1> QED
  BY <1>4, <1>6, <1>7, InRow

\* What the running requests have, what eviction can free and what is free is the
\* whole pool.
LEMMA PoolCount ==
  ASSUME TreeInv, PoolInv, HoldInv, RowInv, SharedPrompts, free_token_index = <<>>,
         NEW f, f = [r \in Req |-> Adds(r)]
  PROVE  MaxTotal <= can_use_mem_size + UnrefedTokensNum + SumFunctionOnSet(f, Running)
<1>1. /\ TreeOK(tree) /\ NodesOK(tree.nodes)
      /\ \A q \in DOMAIN tree.value : content[tree.value[q]] = q /\ tree.value[q] \in PoolToken
  BY DEF TreeInv, Accounted, TreeOK, PoolInv, PoolTyped, RightContent
<1>2. PICK E : E = EdgesOf(tree, Unreferenced(tree))
  OBVIOUS
<1>3. IsFiniteSet(E) /\ Cardinality(E) = UnrefedTokensNum
  BY <1>2, UnrefedAre
<1>4. E \subseteq DOMAIN tree.value
  <2>1. \A n \in tree.nodes : EdgeTokens(tree, n) \subseteq PrefixesOf(n)
    BY DEF EdgeTokens
  <2>2. \A n \in tree.nodes : PrefixesOf(n) \subseteq DOMAIN tree.value
    BY <1>1, InsideNodes
  <2> QED
    BY <1>2, <2>1, <2>2 DEF EdgesOf, Unreferenced
<1>5. PICK V : V = {tree.value[q] : q \in E}
  OBVIOUS
<1>6. IsFiniteSet(V) /\ Cardinality(V) = UnrefedTokensNum
  <2>1. PICK v : v = [q \in E |-> tree.value[q]]
    OBVIOUS
  <2>2. v \in [E -> V] /\ (\A x, y \in E : v[x] = v[y] => x = y)
        /\ (\A z \in V : \E x \in E : v[x] = z)
    BY <1>1, <1>4, <1>5, <2>1
  <2>3. IsFiniteSet(V) /\ Cardinality(V) = Cardinality(E)
    BY <1>3, <2>2, OneToOne
  <2> QED
    BY <1>3, <2>3
<1>7. PICK D \in SUBSET Req : D = Running
  BY DEF Running
<1>8. IsFiniteSet(D)
  BY <1>7, PromptCacheAssumption, FS_Subset
<1>9. PICK F : F = [r \in Req |-> IF r \in First(Running) THEN ToSet(row[r]) ELSE OwnTokens(r)]
  OBVIOUS
<1>10. \A r \in D : IsFiniteSet(F[r]) /\ Cardinality(F[r]) <= f[r] /\ f[r] \in Nat
  <2> SUFFICES ASSUME NEW r \in D
               PROVE  IsFiniteSet(F[r]) /\ Cardinality(F[r]) <= f[r] /\ f[r] \in Nat
    OBVIOUS
  <2>1. CASE r \in First(Running)
    <3>1. IsFiniteSet(ToSet(row[r])) /\ Cardinality(ToSet(row[r])) <= cur_kv_len[r]
      BY RowSize
    <3>2. cur_kv_len[r] \in Nat
      BY DEF TreeInv, Texts
    <3> QED
      BY <1>9, <2>1, <3>1, <3>2 DEF Adds
  <2>2. CASE r \notin First(Running)
    <3>1. IsFiniteSet(OwnTokens(r)) /\ Cardinality(OwnTokens(r)) <= Adds(r) /\ Adds(r) \in Nat
      BY <2>2, OwnSize
    <3> QED
      BY <1>9, <2>2, <3>1
  <2> QED
    BY <2>1, <2>2
<1>11. PICK W : W = UNION {F[r] : r \in D}
  OBVIOUS
<1>12. IsFiniteSet(W) /\ Cardinality(W) <= SumFunctionOnSet(f, D)
  <2>1. /\ IsFiniteSet(UNION {F[x] : x \in D})
        /\ Cardinality(UNION {F[x] : x \in D}) <= SumFunctionOnSet(f, D)
    BY <1>8, <1>10, UnionAtMost
  <2> QED
    BY <1>11, <2>1
<1>13. PoolToken \subseteq FreeTokens \cup (V \cup W)
  <2> SUFFICES ASSUME NEW p \in PoolToken, p \notin FreeTokens, p \notin W PROVE p \in V
    OBVIOUS
  <2>1. \A r \in Running : p \notin ToSet(row[r])
    <3>1. \A r \in First(Running) : p \notin ToSet(row[r])
      <4>1. \A r \in First(Running) : r \in D /\ F[r] = ToSet(row[r])
        BY <1>7, <1>9 DEF First
      <4> QED
        BY <1>11, <4>1
    <3> SUFFICES ASSUME NEW r \in Running, p \in ToSet(row[r]) PROVE FALSE
      OBVIOUS
    <3>2. r \in Req /\ r \in D /\ r \notin First(Running) /\ F[r] = OwnTokens(r)
      BY <1>7, <1>9, <3>1
    <3>3. PICK i \in 1..cur_kv_len[r] : row[r][i] = p
      BY <3>2, InRow
    <3>4. CASE i <= Len(Prompt[r])
      BY <3>1, <3>3, <3>4, PromptOfFirst
    <3>5. CASE ~(i <= Len(Prompt[r]))
      <4>1. cur_kv_len[r] \in Nat /\ Len(Prompt[r]) \in Nat
        BY <3>2, PromptCacheAssumption DEF TreeInv, Texts
      <4>2. i \in (Len(Prompt[r]) + 1)..cur_kv_len[r]
        BY <3>5, <4>1
      <4>3. p \in OwnTokens(r)
        BY <3>3, <4>2 DEF OwnTokens
      <4> QED
        BY <1>11, <3>2, <4>3
    <3> QED
      BY <3>4, <3>5
  <2>2. \A r \in Req \ Running : p \notin ToSet(row[r])
    <3> SUFFICES ASSUME NEW r \in Req \ Running PROVE p \notin ToSet(row[r])
      OBVIOUS
    <3>1. cur_kv_len[r] = 0
      BY DEF TreeInv, Texts, Running
    <3>2. 1..0 = {}
      OBVIOUS
    <3> QED
      BY <3>1, <3>2, InRow
  <2>3. \E q \in DOMAIN tree.value : tree.value[q] = p
    <3>1. RowCount(row, p) = 0
      BY <2>1, <2>2, RowCountFacts
    <3>2. Occ(free_token_index, p) = 0
      BY EmptyToSet, OccFacts DEF PoolInv, PoolTyped
    <3>3. mem_state[p] # 0
      BY DEF FreeTokens
    <3> QED
      BY <3>1, <3>2, <3>3, HasOwner
  <2>4. PICK q \in DOMAIN tree.value : tree.value[q] = p
    BY <2>3
  <2>5. PICK n \in tree.nodes \ {Root} : q \in EdgeTokens(tree, n)
    BY <1>1, OnSomeEdge
  <2>6. ~(tree.ref_counter[n] > 0)
    BY <2>1, <2>4, <2>5, ReferencedInRow
  <2>7. q \in E
    BY <1>2, <2>5, <2>6 DEF EdgesOf, Unreferenced, Referenced
  <2> QED
    BY <1>5, <2>4, <2>7
<1>14. IsFiniteSet(FreeTokens) /\ Cardinality(FreeTokens) = can_use_mem_size
  BY FreeFinite DEF PoolInv, TokensOwned
<1>15. IsFiniteSet(V \cup W) /\ Cardinality(V \cup W) <= Cardinality(V) + Cardinality(W)
  BY <1>6, <1>12, UnionOfTwo
<1>16. /\ IsFiniteSet(FreeTokens \cup (V \cup W))
       /\ Cardinality(FreeTokens \cup (V \cup W)) <= Cardinality(FreeTokens) + Cardinality(V \cup W)
  <2>1. PICK X : X = V \cup W
    OBVIOUS
  <2>2. IsFiniteSet(X)
    BY <1>15, <2>1
  <2>3. IsFiniteSet(FreeTokens \cup X) /\ Cardinality(FreeTokens \cup X) <= Cardinality(FreeTokens) + Cardinality(X)
    BY <1>14, <2>2, UnionOfTwo
  <2> QED
    BY <2>1, <2>3
<1>17. Cardinality(PoolToken) = MaxTotal /\ MaxTotal \in Nat
  BY PromptCacheAssumption, FS_Interval DEF PoolToken
<1>18. Cardinality(PoolToken) <= Cardinality(FreeTokens \cup (V \cup W))
  BY <1>13, <1>16, FS_Subset
<1>19. /\ Cardinality(FreeTokens \cup (V \cup W)) \in Nat /\ Cardinality(V \cup W) \in Nat
       /\ Cardinality(V) \in Nat /\ Cardinality(W) \in Nat /\ Cardinality(FreeTokens) \in Nat
  BY <1>6, <1>12, <1>14, <1>15, <1>16, FS_CardinalityType
<1>20. SumFunctionOnSet(f, D) \in Nat
  BY <1>8, <1>10, SumNat
<1> QED
  BY <1>6, <1>7, <1>12, <1>14, <1>15, <1>16, <1>17, <1>18, <1>19, <1>20

\* The tokens that requests have after their prefill, a group's prompt counted once.
Claim(S) == [r \in Req |-> Len(input_token_ids[r]) - Len(Prompt[r])
                              + (IF r \in First(S) THEN Len(Prompt[r]) ELSE 0)]
Claimed  == Total(Claim(Running \cup batch), Running \cup batch)

\* The room for a forward, from its admission to its allocation.  The prefill of an
\* admitted batch fits the pool (Admitted), and when its requests are initialised it
\* fits what is free or can be evicted (Fits).  Eviction gathers what is missing,
\* from tokens that the tree alone has (Gathered).
Admitted == at = "init" \/ Prefilling => Claimed < MaxTotal
Fits == at = "decode" => Needed <= can_use_mem_size + UnrefedTokensNum
Gathered ==
  Evicting => /\ to_evict = Needed - can_use_mem_size
              /\ Len(free_token_index) < to_evict
              /\ to_evict - Len(free_token_index) <= UnrefedTokensNum
              /\ \A p \in ToSet(free_token_index) : mem_state[p] = 1
Enough == at \in {"alloc prefill", "alloc decode"} => Needed <= can_use_mem_size

RoomInv == Admitted /\ Fits /\ Gathered /\ Enough

\* What the prefill of an admitted batch needs is free or can be evicted.
LEMMA PrefillRoom ==
  ASSUME TreeInv, PoolInv, HoldInv, RowInv, SharedPrompts, RoomInv, at = "prefill"
  PROVE  Needed <= can_use_mem_size + UnrefedTokensNum
<1>1. PICK R \in SUBSET Req : R = Running
  BY DEF Running
<1>2. Prefilling /\ free_token_index = <<>>
  BY DEF TreeInv, Control, Prefilling, Evicting
<1>3. batch \subseteq R /\ Computed \subseteq batch
  BY <1>1, <1>2, LeaderFacts DEF TreeInv, Control
<1>4. PICK C \in SUBSET R : C = Computed
  BY <1>3
<1>5. IsFiniteSet(R)
  BY <1>1, PromptCacheAssumption, FS_Subset
<1>6. PICK f : f = [r \in Req |-> Adds(r)]
  OBVIOUS
<1>7. PICK m : m = [r \in Req |-> Missing(r)]
  OBVIOUS
<1>8. PICK g : g = [r \in Req |-> IF r \in C THEN Missing(r) ELSE 0]
  OBVIOUS
<1>9. PICK h : h = Claim(R)
  OBVIOUS
<1>10. PICK k : k = [r \in Req |-> f[r] + g[r]]
  OBVIOUS
\* The head of a group is the first of it.
<1>11. \A r \in C : r \in First(R)
  <2> SUFFICES ASSUME NEW r \in C, NEW s \in R, GroupOf[s] = GroupOf[r] PROVE r <= s
    BY DEF First
  <2>1. r \in Req /\ s \in Req /\ r = HeadOf(r)
    BY <1>2, <1>4 DEF Computed, Prefilling
  <2>2. Members(GroupOf[r]) \in SUBSET Req /\ s \in Members(GroupOf[r])
    BY <2>1 DEF Members
  <2> QED
    BY <2>1, <2>2, MinFacts DEF HeadOf
<1>12. ASSUME NEW r \in R
       PROVE  /\ f[r] \in Nat /\ g[r] \in Nat /\ h[r] \in Int /\ k[r] = f[r] + g[r]
              /\ k[r] <= h[r] /\ (r \in C => g[r] = m[r] /\ m[r] \in Nat)
  <2>1. /\ r \in Req /\ cur_kv_len[r] \in Nat /\ Missing(r) \in Nat
        /\ Len(input_token_ids[r]) = cur_kv_len[r] + Missing(r)
    BY MissingFacts
  <2>2. Len(Prompt[r]) \in Nat /\ Len(Prompt[r]) <= Len(input_token_ids[r])
    <3>1. Len(Prompt[r]) \in Nat
      BY <2>1, PromptCacheAssumption
    <3>2. CASE Entering(r)
      BY <2>1, <3>1, <3>2, EnterTogether
    <3>3. CASE ~Entering(r)
      <4>1. Len(Prompt[r]) <= cur_kv_len[r]
        BY <1>1, <2>1, <3>3 DEF SharedPrompts, Running
      <4> QED
        BY <2>1, <3>1, <4>1
    <3> QED
      BY <3>1, <3>2, <3>3
  <2>3. CASE r \in First(R)
    <3>1. f[r] = cur_kv_len[r]
      BY <1>1, <1>6, <2>1, <2>3 DEF Adds
    <3>2. h[r] = Len(input_token_ids[r]) - Len(Prompt[r]) + Len(Prompt[r])
      BY <1>9, <2>1, <2>3 DEF Claim
    <3>3. g[r] = Missing(r) \/ g[r] = 0
      BY <1>8, <2>1
    <3> QED
      BY <1>7, <1>8, <1>10, <2>1, <2>2, <3>1, <3>2, <3>3
  <2>4. CASE r \notin First(R)
    <3>1. f[r] = IF cur_kv_len[r] > Len(Prompt[r]) THEN cur_kv_len[r] - Len(Prompt[r]) ELSE 0
      BY <1>1, <1>6, <2>1, <2>4 DEF Adds
    <3>2. h[r] = Len(input_token_ids[r]) - Len(Prompt[r]) + 0
      BY <1>9, <2>1, <2>4 DEF Claim
    <3>3. r \notin C /\ g[r] = 0
      BY <1>8, <1>11, <2>1, <2>4
    <3> QED
      BY <1>10, <2>1, <2>2, <3>1, <3>2, <3>3
  <2> QED
    BY <2>3, <2>4
<1>13. SumFunctionOnSet(k, R) = SumFunctionOnSet(f, R) + SumFunctionOnSet(g, R)
  <2>1. \A r \in R : f[r] \in Int /\ g[r] \in Int /\ k[r] = f[r] + g[r]
    BY <1>12
  <2> QED
    BY <1>5, <2>1, SumPlus
<1>14. SumFunctionOnSet(k, R) <= SumFunctionOnSet(h, R)
  <2>1. \A r \in R : k[r] \in Int /\ h[r] \in Int /\ k[r] <= h[r]
    BY <1>12
  <2> QED
    BY <1>5, <2>1, SumAtMost
<1>15. /\ SumFunctionOnSet(g, C) \in Nat /\ SumFunctionOnSet(g, R) \in Nat
       /\ SumFunctionOnSet(g, C) <= SumFunctionOnSet(g, R)
  BY <1>5, <1>12, SumMono
<1>16. SumFunctionOnSet(f, R) \in Nat
  BY <1>5, <1>12, SumNat
<1>17. Needed = SumFunctionOnSet(g, C)
  <2>1. Needed = SumFunctionOnSet(m, C)
    BY <1>4, <1>7 DEF Needed, Total
  <2>2. IsFiniteSet(C) /\ \A r \in C : m[r] \in Int /\ m[r] = g[r]
    BY <1>5, <1>12, FS_Subset
  <2> QED
    BY <2>1, <2>2, SumSame
<1>18. SumFunctionOnSet(h, R) < MaxTotal
  <2>1. Running \cup batch = R
    BY <1>1, <1>3
  <2> QED
    BY <1>2, <1>9, <2>1 DEF RoomInv, Admitted, Claimed, Total
<1>19. SumFunctionOnSet(h, R) \in Int
  BY <1>5, <1>12, SumAdd
<1>20. MaxTotal <= can_use_mem_size + UnrefedTokensNum + SumFunctionOnSet(f, R)
  BY <1>1, <1>2, <1>6, PoolCount
<1>21. MaxTotal \in Nat /\ UnrefedTokensNum \in Nat /\ can_use_mem_size \in Nat
  BY PromptCacheAssumption, UnrefedAre, FreeFinite DEF PoolInv, TokensOwned
<1> QED
  BY <1>13, <1>14, <1>15, <1>16, <1>17, <1>18, <1>19, <1>20, <1>21

\* The claims do not change while requests enter and a forward is prepared.
LEMMA ClaimedSame ==
  ASSUME UNCHANGED input_token_ids, Running' \cup batch' = Running \cup batch
  PROVE  Claimed' = Claimed
BY DEF Claimed, Claim, First, Total

\* What is computed, and needed, does not change while a forward is prepared.
LEMMA NeededSame ==
  ASSUME UNCHANGED <<input_token_ids, cur_kv_len, batch>>, Prefilling' <=> Prefilling
  PROVE  Needed' = Needed
<1>1. Computed' = Computed
  <2>1. Prefilling => Computed = {r \in batch : r = HeadOf(r)}
    BY DEF Prefilling, Computed
  <2>2. ~Prefilling => Computed = batch
    BY DEF Prefilling, Computed
  <2>3. Prefilling' => Computed' = {r \in batch' : r = HeadOf(r)}
    BY DEF Prefilling, Computed
  <2>4. ~Prefilling' => Computed' = batch'
    BY DEF Prefilling, Computed
  <2> QED
    BY <2>1, <2>2, <2>3, <2>4
<1>2. [r \in Req |-> Missing(r)]' = [r \in Req |-> Missing(r)]
  BY DEF Missing
<1> QED
  BY <1>1, <1>2 DEF Needed, Total

\* What a forward needs is a number of tokens.
LEMMA NeededIsNat ==
  ASSUME TreeInv, Prefilling \/ Decoding
  PROVE  Needed \in Nat
<1>1. PICK C \in SUBSET Req : C = Computed
  BY LeaderFacts
<1>2. PICK f : f = [r \in Req |-> Missing(r)]
  OBVIOUS
<1>3. \A r \in C : f[r] \in Nat
  BY <1>2, MissingFacts
<1>4. IsFiniteSet(C)
  BY PromptCacheAssumption, FS_Subset
<1>5. SumFunctionOnSet(f, C) \in Nat
  BY <1>3, <1>4, SumNat
<1> QED
  BY <1>1, <1>2, <1>5 DEF Needed, Total

\* A step to where no forward is prepared.
LEMMA RoomIdle == at' \in {"idle", "filter", "free"} => RoomInv'
BY DEF RoomInv, Admitted, Fits, Gathered, Enough, Prefilling, Evicting

\* Admission leaves room for the prefill.
LEMMA AddBatchRoom ==
  ASSUME TreeInv, NEW new \in SUBSET Waiting, AddBatch(new)
  PROVE  RoomInv'
<1>1. PICK R \in SUBSET Req : R = Running \cup new
  BY DEF Running, Waiting
<1>2. IsFiniteSet(R)
  BY <1>1, PromptCacheAssumption, FS_Subset
<1>3. PICK f : f = Claim(R)
  OBVIOUS
<1>4. PICK g : g = AdmittedLen(R)
  OBVIOUS
<1>5. \A r \in R : f[r] \in Int /\ g[r] \in Int /\ f[r] <= g[r]
  <2> SUFFICES ASSUME NEW r \in R PROVE f[r] \in Int /\ g[r] \in Int /\ f[r] <= g[r]
    OBVIOUS
  <2>1. Len(input_token_ids[r]) \in Nat /\ Len(Prompt[r]) \in Nat
    BY PromptCacheAssumption DEF TreeInv, Texts
  <2>2. PICK p \in Nat : p = IF r \in First(R) THEN Len(Prompt[r]) ELSE 0
    BY <2>1
  <2>3. /\ f[r] = Len(input_token_ids[r]) - Len(Prompt[r]) + p
        /\ g[r] = OwnLen(r) + p
    BY <1>3, <1>4, <2>2 DEF Claim, AdmittedLen
  <2>4. CASE status[r] = "running"
    <3>1. PICK i \in Nat, j \in Nat : i = Len(input_token_ids[r]) /\ j = Len(Prompt[r])
      BY <2>1
    <3>2. f[r] = i - j + p /\ g[r] = i - j + p
      BY <2>3, <2>4, <3>1 DEF OwnLen
    <3> QED
      BY <3>2
  <2>5. CASE status[r] # "running"
    <3>1. status[r] = "waiting"
      BY <1>1, <2>5 DEF Running, Waiting
    <3>2. input_token_ids[r] = Prompt[r]
      BY <3>1 DEF TreeInv, GroupsTogether
    <3>3. g[r] = 1 + p /\ f[r] = p
      BY <2>1, <2>3, <2>5, <3>2 DEF OwnLen
    <3> QED
      BY <3>3
  <2> QED
    BY <2>4, <2>5
<1>6. SumFunctionOnSet(f, R) <= SumFunctionOnSet(g, R)
  BY <1>2, <1>5, SumAtMost
<1>7. SumFunctionOnSet(g, R) < MaxTotal
  BY <1>1, <1>4 DEF AddBatch, Total
<1>8. SumFunctionOnSet(f, R) \in Int /\ SumFunctionOnSet(g, R) \in Int /\ MaxTotal \in Nat
  <2>1. R \in SUBSET R
    OBVIOUS
  <2> QED
    BY <1>2, <1>5, <2>1, SumAdd, PromptCacheAssumption
<1>9. SumFunctionOnSet(f, R) < MaxTotal
  BY <1>6, <1>7, <1>8
<1>10. /\ at' = "init" /\ batch' = new /\ UNCHANGED <<input_token_ids, status>>
  BY DEF AddBatch, reqVars
<1>11. Running' = Running
  BY <1>10 DEF Running
<1>12. Admitted'
  <2>1. Claimed' = SumFunctionOnSet(f, R)
    BY <1>1, <1>3, <1>10, <1>11 DEF Claimed, Claim, First, Total
  <2> QED
    BY <1>9, <2>1 DEF Admitted
<1> QED
  BY <1>10, <1>12 DEF RoomInv, Fits, Gathered, Enough, Evicting

LEMMA InitReqRoom ==
  ASSUME TreeInv, PoolInv, HoldInv, RoomInv, InitReq
  PROVE  RoomInv'
<1>1. PICK r, key : Entered(r, key)
  BY InitReqStep
<1>2. /\ at = "init" /\ at' \in {"init", "prefill"} /\ UNCHANGED <<input_token_ids, batch>>
      /\ r \in batch /\ r \in Req /\ status \in [Req -> {"waiting", "running", "done"}]
      /\ status' = [status EXCEPT ![r] = "running"]
  BY <1>1 DEF Entered, TreeInv, Control, InitReq
<1>3. Running' \cup batch' = Running \cup batch
  BY <1>2 DEF Running
<1>4. Admitted'
  <2>1. Claimed' = Claimed
    BY <1>2, <1>3, ClaimedSame
  <2> QED
    BY <1>2, <2>1 DEF RoomInv, Admitted, Prefilling
<1> QED
  BY <1>2, <1>4 DEF RoomInv, Fits, Gathered, Enough, Evicting

\* A decode needs one token of each running request.
LEMMA StartDecodeRoom ==
  ASSUME TreeInv, PoolInv, HoldInv, StartDecode
  PROVE  RoomInv'
<1>1. PICK R \in SUBSET Req : R = Running
  BY DEF Running
<1>2. IsFiniteSet(R)
  BY <1>1, PromptCacheAssumption, FS_Subset
<1>3. /\ at = "idle" /\ at' = "decode" /\ batch' = R /\ Cardinality(R) <= can_use_mem_size + UnrefedTokensNum
      /\ UNCHANGED <<tree, input_token_ids, cur_kv_len, can_use_mem_size>>
  BY <1>1 DEF StartDecode, reqVars, poolVars
<1>4. Computed' = R
  BY <1>3 DEF Computed
<1>5. PICK f : f = [r \in Req |-> Missing(r)]
  OBVIOUS
<1>6. PICK z : z = [r \in Req |-> 0]
  OBVIOUS
<1>7. \A r \in R : f[r] = 1 /\ z[r] = 0
  <2> SUFFICES ASSUME NEW r \in R PROVE f[r] = 1 /\ z[r] = 0
    OBVIOUS
  <2>1. status[r] = "running" /\ ~Entering(r)
    BY <1>1, <1>3 DEF Running, Entering, Prefilling
  <2>2. Len(input_token_ids[r]) = cur_kv_len[r] + 1
    BY <2>1 DEF HoldInv, HoldsPrefix
  <2>3. cur_kv_len[r] \in Nat
    BY DEF TreeInv, Texts
  <2> QED
    BY <1>5, <1>6, <2>2, <2>3 DEF Missing
<1>8. SumFunctionOnSet(f, R) <= SumFunctionOnSet(z, R) + Cardinality(R)
  BY <1>2, <1>7, SumAtMostOneMore
<1>9. SumFunctionOnSet(z, R) = SumFunctionOnSet(z, R) + SumFunctionOnSet(z, R)
  BY <1>2, <1>7, SumPlus
<1>10. SumFunctionOnSet(z, R) \in Nat /\ SumFunctionOnSet(f, R) \in Nat /\ Cardinality(R) \in Nat
  BY <1>2, <1>7, SumNat, FS_CardinalityType
<1>11. SumFunctionOnSet(f, R) <= Cardinality(R)
  BY <1>8, <1>9, <1>10
<1>12. Needed' = SumFunctionOnSet(f, R)
  <2>1. [r \in Req |-> Missing(r)]' = f
    BY <1>3, <1>5 DEF Missing
  <2> QED
    BY <1>4, <2>1 DEF Needed, Total
<1>13. can_use_mem_size \in Nat /\ UnrefedTokensNum \in Nat /\ UnrefedTokensNum' = UnrefedTokensNum
  BY <1>3, FreeFinite, UnrefedAre DEF PoolInv, TokensOwned, UnrefedTokensNum
<1>14. Fits'
  BY <1>3, <1>10, <1>11, <1>12, <1>13 DEF Fits
<1> QED
  BY <1>3, <1>14 DEF RoomInv, Admitted, Gathered, Enough, Evicting, Prefilling

\* What is missing can be evicted.
LEMMA PrepareRoom ==
  ASSUME TreeInv, PoolInv, HoldInv, RowInv, SharedPrompts, RoomInv, NEW kind \in {"prefill", "decode"}, Prepare(kind)
  PROVE  RoomInv'
<1>1. /\ at = kind /\ UNCHANGED <<tree, input_token_ids, cur_kv_len, status, batch, free_token_index,
                                  mem_state, can_use_mem_size>>
      /\ \/ Needed > can_use_mem_size /\ at' = EvictFor(kind) /\ to_evict' = Needed - can_use_mem_size
         \/ ~(Needed > can_use_mem_size) /\ at' = AllocFor(kind)
  BY DEF Prepare, reqVars, poolVars
<1>2. Prefilling' <=> Prefilling
  BY <1>1 DEF Prefilling, EvictFor, AllocFor
<1>3. Needed' = Needed
  BY <1>1, <1>2, NeededSame
<1>4. free_token_index = <<>>
  BY <1>1 DEF TreeInv, Control, Evicting
<1>5. Needed <= can_use_mem_size + UnrefedTokensNum
  <2>1. CASE kind = "prefill"
    BY <1>1, <2>1, PrefillRoom
  <2>2. CASE kind = "decode"
    BY <1>1, <2>2 DEF RoomInv, Fits
  <2> QED
    BY <2>1, <2>2
<1>6. can_use_mem_size \in Nat /\ UnrefedTokensNum \in Nat /\ UnrefedTokensNum' = UnrefedTokensNum
  BY <1>1, FreeFinite, UnrefedAre DEF PoolInv, TokensOwned, UnrefedTokensNum
<1>7. Needed \in Nat
  BY <1>1, NeededIsNat DEF Prefilling, Decoding
<1>8. Admitted'
  <2>1. Running' = Running
    BY <1>1 DEF Running
  <2>2. Claimed' = Claimed
    BY <1>1, <2>1, ClaimedSame
  <2>3. at' # "init"
    BY <1>1 DEF EvictFor, AllocFor
  <2> QED
    BY <1>1, <1>2, <2>1, <2>2, <2>3 DEF RoomInv, Admitted
<1>9. at' # "decode"
  BY <1>1 DEF EvictFor, AllocFor
<1>10. CASE Needed > can_use_mem_size /\ at' = EvictFor(kind) /\ to_evict' = Needed - can_use_mem_size
  <2>1. Gathered'
    <3>1. Len(free_token_index') = 0 /\ ToSet(free_token_index') = {}
      BY <1>1, <1>4, EmptyToSet
    <3> QED
      BY <1>1, <1>3, <1>5, <1>6, <1>7, <1>10, <3>1 DEF Gathered
  <2>2. at' \notin {"alloc prefill", "alloc decode"}
    BY <1>10 DEF EvictFor
  <2> QED
    BY <1>8, <1>9, <2>1, <2>2 DEF RoomInv, Fits, Enough
<1>11. CASE ~(Needed > can_use_mem_size) /\ at' = AllocFor(kind)
  <2>1. Needed <= can_use_mem_size
    BY <1>6, <1>7, <1>11
  <2>3. Needed' <= can_use_mem_size'
    BY <1>1, <1>3, <2>1
  <2>4. Enough'
    BY <2>3 DEF Enough
  <2>2. ~Evicting'
    BY <1>11 DEF AllocFor, Evicting
  <2> QED
    BY <1>8, <1>9, <2>2, <2>4 DEF RoomInv, Fits, Gathered
<1> QED
  BY <1>1, <1>10, <1>11

\* The tokens of the node evicted are the tree's alone, and not gathered before.
LEMMA EvictedAlone ==
  ASSUME TreeInv, PoolInv, HoldInv, RowInv, RoomInv, Evicting,
         NEW n \in tree.nodes \ {Root}, tree.ref_counter[n] = 0,
         NEW q \in EdgeTokens(tree, n), q \in DOMAIN tree.value
  PROVE  mem_state[tree.value[q]] = 1 /\ tree.value[q] \notin ToSet(free_token_index)
<1> USE DEF TreeInv
<1>1. PICK p \in PoolToken : p = tree.value[q]
  BY DEF PoolInv, PoolTyped
<1>2. /\ TreeOK(tree) /\ NodesOK(tree.nodes) /\ RefsOK(tree, shared_kv_node)
      /\ shared_kv_node \in [Req -> tree.nodes]
      /\ \A x \in DOMAIN tree.value : content[tree.value[x]] = x
  BY DEF Accounted, Texts, TreeOK, PoolInv, RightContent
<1>3. \A r \in Req : p \notin ToSet(row[r])
  <2> SUFFICES ASSUME NEW r \in Req, p \in ToSet(row[r]) PROVE FALSE
    OBVIOUS
  <2>1. PICK i \in 1..cur_kv_len[r] : row[r][i] = p
    BY InRow
  <2>2. PICK l \in Nat : l = Len(shared_kv_node[r])
    BY HeldText
  <2>3. i \in Nat /\ i >= 1
    BY HeldText
  <2>4. CASE i <= l
    <3>1. i \in 1..Len(shared_kv_node[r])
      BY <2>2, <2>3, <2>4
    <3>2. PICK x \in DOMAIN tree.value : x = FirstN(input_token_ids[r], i) /\ x \in PrefixesOf(shared_kv_node[r])
      BY <3>1, HeldText
    <3>3. tree.value[x] = p
      BY <2>1, <3>1, <3>2 DEF RowInv, HeldRows
    <3>4. x = q
      BY <1>1, <1>2, <3>3
    <3>5. shared_kv_node[r] \in tree.nodes
      BY <1>2
    <3>6. IsPrefix(n, shared_kv_node[r])
      BY <1>2, <3>2, <3>4, <3>5, EdgeSides
    <3>7. shared_kv_node[r] # NoNode
      <4>1. Len(NoNode) = 0
        BY DEF NoNode, Root
      <4> QED
        BY <2>2, <2>3, <2>4, <4>1
    <3>8. tree.ref_counter[n] > 0
      BY <1>2, <3>6, <3>7, RefsFacts
    <3> QED
      BY <3>8
  <2>5. CASE ~(i <= l)
    <3>1. i > Len(shared_kv_node[r])
      BY <2>2, <2>3, <2>5
    <3>2. ~InTree(tree, p)
      BY <2>1, <3>1 DEF RowInv, OwnRows
    <3> QED
      BY <1>1, <3>2 DEF InTree
  <2> QED
    BY <2>4, <2>5
<1>4. RowCount(row, p) = 0
  BY <1>3, RowCountFacts
<1>5. /\ TreeCount(tree.value, p) = 1 /\ Occ(free_token_index, p) \in Nat
      /\ mem_state[p] = TreeCount(tree.value, p) + RowCount(row, p) + Occ(free_token_index, p)
  BY <1>1, HasOwner
<1>6. Occ(free_token_index, p) = 0 <=> p \notin ToSet(free_token_index)
  BY OccFacts DEF PoolInv, PoolTyped
<1>7. p \in ToSet(free_token_index) => mem_state[p] = 1
  BY DEF RoomInv, Gathered
<1>8. p \notin ToSet(free_token_index)
  BY <1>4, <1>5, <1>6, <1>7
<1> QED
  BY <1>1, <1>4, <1>5, <1>6, <1>8

\* Tokens that occur once are as many as the sequence is long.
LEMMA OnceEach ==
  ASSUME NEW S, NEW s \in Seq(S), \A p \in ToSet(s) : Occ(s, p) = 1
  PROVE  IsFiniteSet(ToSet(s)) /\ Cardinality(ToSet(s)) = Len(s)
<1>1. PICK l \in Nat : l = Len(s) /\ DOMAIN s = 1..l
  OBVIOUS
<1>2. ASSUME NEW i \in 1..l, NEW j \in 1..l, s[i] = s[j] PROVE i = j
  <2>1. PICK C : C = {k \in DOMAIN s : s[k] = s[i]}
    OBVIOUS
  <2>2. s[i] \in ToSet(s)
    BY <1>1 DEF ToSet
  <2>3. Cardinality(C) = 1 /\ IsFiniteSet(C)
    BY <2>1, <2>2, OccFacts DEF Occ
  <2>4. i \in C /\ j \in C
    BY <1>1, <1>2, <2>1
  <2>5. Cardinality(C \ {i}) = 0 /\ IsFiniteSet(C \ {i})
    <3>1. Cardinality(C \ {i}) = Cardinality(C) - 1 /\ IsFiniteSet(C \ {i})
      BY <2>3, <2>4, FS_RemoveElement
    <3> QED
      BY <2>3, <3>1
  <2>6. C \ {i} = {}
    BY <2>5, FS_EmptySet
  <2> QED
    BY <2>4, <2>6
<1>3. PICK f : f = [i \in 1..l |-> s[i]]
  OBVIOUS
<1>4. /\ f \in [1..l -> ToSet(s)]
      /\ \A i, j \in 1..l : f[i] = f[j] => i = j
      /\ \A z \in ToSet(s) : \E i \in 1..l : f[i] = z
  BY <1>1, <1>2, <1>3 DEF ToSet
<1>5. IsFiniteSet(1..l) /\ Cardinality(1..l) = l
  BY FS_Interval
<1>6. IsFiniteSet(ToSet(s)) /\ Cardinality(ToSet(s)) = Cardinality(1..l)
  BY <1>4, <1>5, OneToOne
<1> QED
  BY <1>1, <1>5, <1>6

\* decrease_refs of tokens that nobody else has makes them free.
LEMMA FreedRoom ==
  ASSUME PoolTyped, PoolTyped', can_use_mem_size = Cardinality(FreeTokens),
         can_use_mem_size' = Cardinality(FreeTokens'),
         NEW s \in Seq(PoolToken), \A p \in ToSet(s) : mem_state[p] = 1, DecreaseRefs(s)
  PROVE  can_use_mem_size' \in Nat /\ can_use_mem_size \in Nat
         /\ can_use_mem_size + Len(s) <= can_use_mem_size'
<1>1. \A p \in PoolToken : Occ(s, p) \in Nat /\ (Occ(s, p) = 0 <=> p \notin ToSet(s))
  BY OccFacts
<1>2. ToSet(s) \subseteq PoolToken
  BY DEF ToSet
<1>3. \A p \in PoolToken : /\ mem_state'[p] = mem_state[p] - Occ(s, p)
                           /\ mem_state'[p] \in Nat /\ mem_state[p] \in Nat
  BY DEF DecreaseRefs, Occ, PoolTyped
<1>4. \A p \in ToSet(s) : Occ(s, p) = 1 /\ mem_state'[p] = 0
  <2> SUFFICES ASSUME NEW p \in ToSet(s) PROVE Occ(s, p) = 1 /\ mem_state'[p] = 0
    OBVIOUS
  <2>1. p \in PoolToken /\ mem_state[p] = 1
    BY <1>2
  <2>2. Occ(s, p) \in Nat /\ Occ(s, p) # 0
    BY <1>1, <2>1
  <2>3. mem_state'[p] = mem_state[p] - Occ(s, p) /\ mem_state'[p] \in Nat
    BY <1>3, <2>1
  <2> QED
    BY <2>1, <2>2, <2>3
<1>5. IsFiniteSet(ToSet(s)) /\ Cardinality(ToSet(s)) = Len(s)
  BY <1>4, OnceEach
<1>6. FreeTokens \cap ToSet(s) = {}
  BY DEF FreeTokens
<1>7. FreeTokens \cup ToSet(s) \subseteq FreeTokens'
  <2>1. ASSUME NEW p \in FreeTokens PROVE p \in FreeTokens'
    <3>1. p \in PoolToken /\ mem_state[p] = 0 /\ p \notin ToSet(s)
      BY <1>6 DEF FreeTokens
    <3>2. mem_state'[p] = 0
      BY <1>1, <1>3, <3>1
    <3> QED
      BY <3>1, <3>2 DEF FreeTokens
  <2>2. ASSUME NEW p \in ToSet(s) PROVE p \in FreeTokens'
    BY <1>2, <1>4 DEF FreeTokens
  <2> QED
    BY <2>1, <2>2
<1>8. IsFiniteSet(FreeTokens) /\ IsFiniteSet(FreeTokens')
  <2>1. IsFiniteSet(PoolToken)
    BY PromptCacheAssumption, FS_Interval DEF PoolToken
  <2>2. FreeTokens \in SUBSET PoolToken /\ FreeTokens' \in SUBSET PoolToken
    BY DEF FreeTokens
  <2> QED
    BY <2>1, <2>2, FS_Subset
<1>9. Cardinality(FreeTokens \cup ToSet(s)) = Cardinality(FreeTokens) + Cardinality(ToSet(s))
  BY <1>5, <1>6, <1>8, CardDisjoint
<1>10. Cardinality(FreeTokens \cup ToSet(s)) <= Cardinality(FreeTokens')
  BY <1>7, <1>8, FS_Subset
<1>11. Cardinality(FreeTokens) \in Nat /\ Cardinality(FreeTokens') \in Nat
  BY <1>8, FS_CardinalityType
<1> QED
  BY <1>5, <1>9, <1>10, <1>11

\* What the tree still has to evict goes down by the tokens gathered.
LEMMA GatheredFacts ==
  ASSUME TreeInv, PoolInv, HoldInv, RowInv, RoomInv, Evicting,
         NEW n, n = FirstEntry(tree).node, n \in tree.nodes \ {Root}, tree.ref_counter[n] = 0,
         NEW s, s = EvictedTokens(tree), NEW freed, freed = free_token_index \o s
  PROVE  /\ freed \in Seq(PoolToken)
         /\ \A p \in ToSet(freed) : mem_state[p] = 1
         /\ ValueLen(tree, n) \in Nat /\ Len(free_token_index) \in Nat
         /\ Len(freed) = Len(free_token_index) + ValueLen(tree, n)
<1>1. /\ TreeOK(tree) /\ NodesOK(tree.nodes) /\ \A q \in DOMAIN tree.value : content[tree.value[q]] = q
      /\ \A q \in DOMAIN tree.value : tree.value[q] \in PoolToken
      /\ free_token_index \in Seq(PoolToken)
  BY DEF TreeInv, Accounted, TreeOK, PoolInv, PoolTyped, RightContent
<1>2. PICK E : E = EdgeTokens(tree, n)
  OBVIOUS
<1>3. /\ s \in Seq(PoolToken) /\ E \subseteq DOMAIN tree.value
      /\ \A p : Occ(s, p) = IF \E q \in E : tree.value[q] = p THEN 1 ELSE 0
  BY <1>1, <1>2, EvictedFacts
<1>4. PICK k : k = ParentOf(tree, n)
  OBVIOUS
<1>5. Len(k) \in Nat /\ Len(n) \in Nat /\ Len(k) < Len(n)
  <2>1. n \in Seq(Token)
    BY <1>1 DEF NodesOK
  <2> QED
    BY <1>1, <1>4, <2>1, ParentFacts
<1>6. PICK l \in Nat : l = ValueLen(tree, n)
  <2>1. ValueLen(tree, n) = Len(n) - Len(k)
    BY <1>4 DEF ValueLen
  <2>2. PICK a \in Nat, b \in Nat : a = Len(k) /\ b = Len(n) /\ a < b
    BY <1>5
  <2>3. b - a \in Nat
    BY <2>2
  <2> QED
    BY <2>1, <2>2, <2>3
<1>7. Len(s) = l
  <2>1. s = [i \in 1..l |-> tree.value[FirstN(n, Len(k) + i)]]
    BY <1>4, <1>6 DEF EvictedTokens
  <2>2. DOMAIN s = 1..l
    BY <2>1
  <2> QED
    BY <1>3, <1>6, <2>2
<1>8. freed \in Seq(PoolToken) /\ Len(freed) = Len(free_token_index) + l /\ Len(free_token_index) \in Nat
  BY <1>1, <1>3, <1>7
<1>9. ASSUME NEW p \in ToSet(freed) PROVE mem_state[p] = 1
  <2>1. Occ(freed, p) = Occ(free_token_index, p) + Occ(s, p)
    BY <1>1, <1>3, OccConcat
  <2>2. Occ(freed, p) # 0 /\ Occ(free_token_index, p) \in Nat /\ Occ(s, p) \in Nat
    BY <1>1, <1>3, <1>8, <1>9, OccFacts
  <2>3. CASE Occ(s, p) # 0
    <3>1. PICK q \in E : tree.value[q] = p
      BY <1>3, <2>3
    <3>2. q \in DOMAIN tree.value
      BY <1>3
    <3> QED
      BY <1>2, <3>1, <3>2, EvictedAlone
  <2>4. CASE Occ(free_token_index, p) # 0
    <3>1. p \in ToSet(free_token_index)
      BY <1>1, <2>4, OccFacts
    <3> QED
      BY <3>1 DEF RoomInv, Gathered
  <2> QED
    BY <2>1, <2>2, <2>3, <2>4
<1> QED
  BY <1>6, <1>8, <1>9

\* A pass of evict gathers tokens nobody else has, and the last frees enough.
LEMMA EvictRoom ==
  ASSUME TreeInv, PoolInv, PoolInv', HoldInv, RowInv, OrderInv, RoomInv,
         NEW kind \in {"prefill", "decode"}, Evict(kind)
  PROVE  RoomInv'
<1>1. PICK n : PoppedOrder(tree, n, tree') /\ n = FirstEntry(tree).node
  BY EvictOrder
<1>2. PICK s : s = EvictedTokens(tree)
  OBVIOUS
<1>3. PICK freed : freed = free_token_index \o s
  OBVIOUS
<1>4. PICK e : e = to_evict
  OBVIOUS
<1>5. /\ at = EvictFor(kind) /\ UNCHANGED <<input_token_ids, cur_kv_len, status, batch>>
      /\ \/ /\ Len(freed) < e /\ free_token_index' = freed
            /\ UNCHANGED <<at, to_evict, mem_state, can_use_mem_size>>
         \/ /\ ~(Len(freed) < e)
            /\ at' = AllocFor(kind) /\ DecreaseRefs(freed)
  BY <1>2, <1>3, <1>4 DEF Evict, reqVars, poolVars
<1>6. Evicting /\ (Prefilling' <=> Prefilling) /\ at' \notin {"init", "decode"}
  BY <1>5 DEF Evicting, Prefilling, EvictFor, AllocFor
<1>7. Needed' = Needed
  BY <1>5, <1>6, NeededSame
<1>8. Admitted'
  <2>1. Running' = Running
    BY <1>5 DEF Running
  <2>2. Claimed' = Claimed
    BY <1>5, <2>1, ClaimedSame
  <2> QED
    BY <1>5, <1>6, <2>1, <2>2 DEF RoomInv, Admitted
<1>9. /\ e = Needed - can_use_mem_size /\ Len(free_token_index) < e
      /\ e - Len(free_token_index) <= UnrefedTokensNum
  BY <1>4, <1>6 DEF RoomInv, Gathered
<1>10. PICK l \in Nat, k \in Nat : l = ValueLen(tree, n) /\ k = Len(free_token_index)
  <2>1. n \in tree.nodes \ {Root} /\ tree.ref_counter[n] = 0
    BY <1>1 DEF PoppedOrder
  <2> QED
    BY <1>1, <1>2, <1>3, <1>6, <2>1, GatheredFacts
<1>11. freed \in Seq(PoolToken) /\ (\A p \in ToSet(freed) : mem_state[p] = 1) /\ Len(freed) = k + l
  <2>1. n \in tree.nodes \ {Root} /\ tree.ref_counter[n] = 0
    BY <1>1 DEF PoppedOrder
  <2> QED
    BY <1>1, <1>2, <1>3, <1>6, <1>10, <2>1, GatheredFacts
<1>12. UnrefedTokensNum' = UnrefedTokensNum - l /\ UnrefedTokensNum \in Nat
  <2>1. /\ tree'.refed_tokens_num = tree.refed_tokens_num
        /\ tree'.tree_total_tokens_num = tree.tree_total_tokens_num - l
    BY <1>1, <1>10 DEF PoppedOrder
  <2>2. tree.refed_tokens_num \in Nat /\ tree.tree_total_tokens_num \in Nat
    <3>1. NodesOK(tree.nodes) /\ CountersOK(tree)
      BY DEF TreeInv, Accounted, TreeOK
    <3>2. Referenced(tree) \in SUBSET tree.nodes /\ tree.nodes \in SUBSET tree.nodes
      BY DEF Referenced
    <3> QED
      BY <3>1, <3>2, EdgesFacts DEF CountersOK
  <2> QED
    BY <2>1, <2>2, UnrefedAre DEF UnrefedTokensNum
<1>13. can_use_mem_size \in Nat
  BY FreeFinite DEF PoolInv, TokensOwned
<1>14. Needed \in Nat
  <2>1. Prefilling \/ Decoding
    BY <1>6 DEF Evicting, Prefilling, Decoding
  <2> QED
    BY <2>1, NeededIsNat
<1>15. e \in Int
  BY <1>9, <1>13, <1>14
<1>16. CASE /\ Len(freed) < e /\ free_token_index' = freed
            /\ UNCHANGED <<at, to_evict, mem_state, can_use_mem_size>>
  <2>1. e - Len(freed) <= UnrefedTokensNum'
    BY <1>9, <1>10, <1>11, <1>12, <1>15
  <2>2. to_evict' = Needed' - can_use_mem_size'
    BY <1>4, <1>7, <1>9, <1>16
  <2>3. Gathered'
    BY <1>4, <1>11, <1>16, <2>1, <2>2 DEF Gathered
  <2>4. at' \notin {"alloc prefill", "alloc decode"}
    BY <1>5, <1>16 DEF EvictFor
  <2> QED
    BY <1>6, <1>8, <2>3, <2>4 DEF RoomInv, Fits, Enough
<1>17. CASE /\ ~(Len(freed) < e)
            /\ at' = AllocFor(kind) /\ DecreaseRefs(freed)
  <2>1. /\ can_use_mem_size' \in Nat /\ can_use_mem_size + Len(freed) <= can_use_mem_size'
    BY <1>11, <1>17, FreedRoom DEF PoolInv, TokensOwned
  <2>2. Needed <= can_use_mem_size'
    BY <1>9, <1>10, <1>11, <1>13, <1>14, <1>15, <1>17, <2>1
  <2>3. Enough'
    BY <1>7, <2>2 DEF Enough
  <2>4. ~Evicting'
    BY <1>17 DEF Evicting, AllocFor
  <2> QED
    BY <1>6, <1>8, <2>3, <2>4 DEF RoomInv, Fits, Gathered
<1> QED
  BY <1>5, <1>16, <1>17

LEMMA RoomStep ==
  TreeInv /\ PoolInv /\ PoolInv' /\ HoldInv /\ RowInv /\ SharedPrompts /\ OrderInv /\ RoomInv /\ [Next]_vars
    => RoomInv'
<1> SUFFICES ASSUME TreeInv, PoolInv, PoolInv', HoldInv, RowInv, SharedPrompts, OrderInv, RoomInv,
                    [Next]_vars
             PROVE  RoomInv'
  OBVIOUS
<1>1. UNCHANGED vars => RoomInv'
  <2> SUFFICES ASSUME UNCHANGED vars PROVE RoomInv'
    OBVIOUS
  <2>1. UNCHANGED <<tree, input_token_ids, cur_kv_len, status, mem_state, can_use_mem_size, at, batch,
                    to_evict, free_token_index>>
    BY DEF vars, reqVars, poolVars, loopVars
  <2>2. (Prefilling' <=> Prefilling) /\ (Evicting' <=> Evicting) /\ Running' = Running
        /\ UnrefedTokensNum' = UnrefedTokensNum
    BY <2>1 DEF Prefilling, Evicting, Running, UnrefedTokensNum
  <2>3. Needed' = Needed
    BY <2>1, <2>2, NeededSame
  <2>4. Claimed' = Claimed
    BY <2>1, <2>2, ClaimedSame
  <2>5. Admitted' /\ Fits'
    BY <2>1, <2>2, <2>3, <2>4 DEF RoomInv, Admitted, Fits
  <2>6. Gathered' /\ Enough'
    BY <2>1, <2>2, <2>3 DEF RoomInv, Gathered, Enough
  <2> QED
    BY <2>5, <2>6 DEF RoomInv
<1>2. \A new \in SUBSET Waiting : AddBatch(new) => RoomInv'
  BY AddBatchRoom
<1>3. InitReq => RoomInv'
  BY InitReqRoom
<1>4. StartDecode => RoomInv'
  BY StartDecodeRoom
<1>5. \A kind \in {"prefill", "decode"} : Prepare(kind) => RoomInv'
  BY PrepareRoom
<1>6. \A kind \in {"prefill", "decode"} : Evict(kind) => RoomInv'
  BY EvictRoom
<1>7. \A kind : Forward(kind) => at' \in {"idle", "filter", "free"}
  BY DEF Forward
<1>8. FreeAReqMem \/ FreeBatch => at' \in {"idle", "filter", "free"}
  BY DEF FreeAReqMem, FreeBatch
<1> QED
  BY <1>1, <1>2, <1>3, <1>4, <1>5, <1>6, <1>7, <1>8, RoomIdle DEF Next

LEMMA InitRoom == Init => RoomInv
BY DEF Init, RoomInv, Admitted, Fits, Gathered, Enough, Prefilling, Evicting

\* While unreferenced tokens are in the tree, the first entry of the eviction order
\* is an unreferenced leaf: below an unreferenced node no node is referenced.
LEMMA CanEvict ==
  ASSUME TreeInv, OrderInv, UnrefedTokensNum > 0
  PROVE  Evictable(tree)
<1>1. /\ TreeOK(tree) /\ RefsOK(tree, shared_kv_node) /\ shared_kv_node \in [Req -> tree.nodes]
      /\ NodesOK(tree.nodes) /\ Current(tree) /\ TimesOK(tree)
  BY DEF TreeInv, Accounted, Texts, OrderInv, TreeOK
<1>2. /\ tree.nodes \subseteq Seq(Token) /\ Root \in tree.nodes /\ IsFiniteSet(tree.nodes)
  BY <1>1 DEF NodesOK
<1>3. PICK S : S = Unreferenced(tree)
  OBVIOUS
<1>4. S \subseteq tree.nodes /\ \A n \in tree.nodes : n \in S <=> ~(tree.ref_counter[n] > 0)
  BY <1>3 DEF Unreferenced, Referenced
<1>5. S # {}
  <2> SUFFICES ASSUME S = {} PROVE FALSE
    OBVIOUS
  <2>1. EdgesOf(tree, S) = {}
    BY DEF EdgesOf
  <2>2. UnrefedTokensNum = 0
    BY <1>3, <2>1, UnrefedAre, FS_EmptySet
  <2> QED
    BY <2>2
<1>6. PICK L \in Nat : \A n \in S : Len(n) <= L
  <2>1. PICK f : f = [n \in tree.nodes |-> Len(n)]
    OBVIOUS
  <2>2. \A n \in tree.nodes : f[n] \in Nat /\ f[n] = Len(n)
    BY <1>2, <2>1
  <2>3. /\ SumFunctionOnSet(f, tree.nodes) \in Nat
        /\ \A n \in tree.nodes : f[n] <= SumFunctionOnSet(f, tree.nodes)
    BY <1>2, <2>2, SumNat
  <2> QED
    BY <1>4, <2>2, <2>3
<1>7. PICK l : l = Deepest(S)
  OBVIOUS
<1>8. l \in S /\ \A m \in S : Len(m) <= Len(l)
  BY <1>2, <1>4, <1>5, <1>6, <1>7, DeepestFacts
<1>9. l \in tree.nodes /\ l \in Seq(Token) /\ ~(tree.ref_counter[l] > 0)
  BY <1>2, <1>4, <1>8
<1>10. /\ \A m \in tree.nodes : tree.ref_counter[m] \in Nat
       /\ tree.ref_counter[Root] > 0
       /\ \A r \in Req, m \in tree.nodes :
            shared_kv_node[r] # NoNode /\ IsPrefix(m, shared_kv_node[r]) => tree.ref_counter[m] > 0
  BY <1>1, RefsFacts
<1>11. IsLeaf(tree, l)
  <2> SUFFICES ASSUME NEW m \in tree.nodes, IsPrefix(l, m), l # m PROVE FALSE
    BY DEF IsLeaf, IsStrictPrefix
  <2>1. m \in Seq(Token) /\ Len(l) \in Nat /\ Len(m) \in Nat
    BY <1>2, <1>9
  <2>2. Len(l) <= Len(m) /\ ~(Len(m) <= Len(l))
    BY <1>9, <2>1, PrefixOrder
  <2>3. tree.ref_counter[m] > 0
    BY <1>4, <1>8, <2>2
  <2>4. m # Root
    <3>1. Len(Root) = 0
      BY DEF Root
    <3> QED
      BY <2>1, <2>2, <3>1
  <2>5. HoldersOf(shared_kv_node, m) # {}
    <3>1. tree.ref_counter[m] = 0 + Cardinality(HoldersOf(shared_kv_node, m))
      BY <1>1, <2>4 DEF RefsOK
    <3>2. HoldersOf(shared_kv_node, m) = {} => tree.ref_counter[m] = 0
      BY <3>1, FS_EmptySet
    <3> QED
      BY <2>3, <3>2
  <2>6. PICK r \in Req : shared_kv_node[r] # NoNode /\ IsPrefix(m, shared_kv_node[r])
    BY <2>5 DEF HoldersOf
  <2>7. shared_kv_node[r] \in Seq(Token)
    BY <1>1, <1>2
  <2>8. IsPrefix(l, shared_kv_node[r])
    BY <1>9, <2>1, <2>6, <2>7, PrefixOrder
  <2> QED
    BY <1>9, <1>10, <2>6, <2>8
<1>12. tree.ref_counter[l] = 0
  BY <1>9, <1>10
<1>13. PICK n : n = FirstEntry(tree).node
  OBVIOUS
<1>14. n \in tree.nodes /\ IsLeaf(tree, n) /\ tree.ref_counter[n] = 0
  BY <1>1, <1>9, <1>10, <1>11, <1>12, <1>13, FirstFacts
<1>15. n # Root
  BY <1>10, <1>14
<1> QED
  BY <1>13, <1>14, <1>15 DEF Evictable

LEMMA ReadyIsThere == TreeInv /\ PoolInv /\ OrderInv /\ RoomInv => EvictionReady
<1> SUFFICES ASSUME TreeInv, PoolInv, OrderInv, RoomInv PROVE EvictionReady
  OBVIOUS
<1>1. EvictSetCurrent
  BY DEF OrderInv, Current, EvictSetCurrent
<1>2. ASSUME at \in {"evict prefill", "evict decode"}
      PROVE  to_evict - Len(free_token_index) <= UnrefedTokensNum /\ Evictable(tree)
  <2>1. Evicting /\ (Prefilling \/ Decoding)
    BY <1>2 DEF Evicting, Prefilling, Decoding
  <2>2. /\ to_evict = Needed - can_use_mem_size /\ Len(free_token_index) < to_evict
        /\ to_evict - Len(free_token_index) <= UnrefedTokensNum
    BY <2>1 DEF RoomInv, Gathered
  <2>3. Needed \in Nat /\ can_use_mem_size \in Nat /\ UnrefedTokensNum \in Nat
    BY <2>1, NeededIsNat, FreeFinite, UnrefedAre DEF PoolInv, TokensOwned
  <2>4. Len(free_token_index) \in Nat
    BY DEF PoolInv, PoolTyped
  <2>5. UnrefedTokensNum > 0
    BY <2>2, <2>3, <2>4
  <2> QED
    BY <2>2, <2>5, CanEvict
<1>3. at \in {"alloc prefill", "alloc decode"} => Needed <= can_use_mem_size
  BY DEF RoomInv, Enough
<1> QED
  BY <1>1, <1>2, <1>3 DEF EvictionReady, EvictionSucceeds

-----------------------------------------------------------------------------
(* The theorems *)

\* A running request holds the cached prefix it was admitted with, its group the same
\* node (init_batch, _free_a_req_mem).
THEOREM HoldIsInvariant == Spec => []HoldInv
<1>1. Init => HoldInv
  BY InitHold
<1>2. TreeInv /\ PoolInv /\ HoldInv /\ [Next]_vars => HoldInv'
  BY HoldStep
<1> QED
  BY <1>1, <1>2, TreeIsInvariant, PoolIsInvariant, PTL DEF Spec

\* evict_tree_set has the leaves under their present keys, and the times of the nodes
\* are in the order of the uses of their edges (update_time, split_node).
THEOREM OrderIsInvariant == Spec => []OrderInv
<1>1. Init => OrderInv
  BY InitOrder
<1>2. TreeInv /\ PoolInv /\ HoldInv /\ OrderInv /\ [Next]_vars => OrderInv'
  BY OrderStep
<1> QED
  BY <1>1, <1>2, TreeIsInvariant, PoolIsInvariant, HoldIsInvariant, PTL DEF Spec

\* The radix tree with its splits, references and eviction order implements the store
\* of prefixes, and evicts the least recently used first.
THEOREM StoreImplemented == Spec => StoresPrefixes
<1>1. Init => Store!Init
  BY InitStore
<1>2. TreeInv /\ PoolInv /\ HoldInv /\ [Next]_vars => [Store!Next]_(Store!vars)
  BY StoreStep
<1>3. TreeInv /\ OrderInv /\ [Next]_vars
        => [\A gone \in tree.nodes \ tree'.nodes, n \in tree.nodes :
              n # Root /\ IsLeaf(tree, n) /\ tree.ref_counter[n] = 0 =>
                last_use[EdgeStart(tree, gone)] <= last_use[EdgeStart(tree, n)]]_vars
  BY EvictsLeastRecent
<1> QED
  BY <1>1, <1>2, <1>3, TreeIsInvariant, PoolIsInvariant, HoldIsInvariant, OrderIsInvariant, PTL
     DEF Spec, StoresPrefixes, LeastRecentFirst, Store!Spec

\* The tokens of a row up to the node held are the tree's, the others its group's own.
THEOREM RowIsInvariant == Spec => []RowInv
<1>1. Init => RowInv
  BY InitRows
<1>2. TreeInv /\ TreeInv' /\ PoolInv /\ PoolInv' /\ HoldInv /\ RowInv /\ [Next]_vars => RowInv'
  BY RowsStep
<1> QED
  BY <1>1, <1>2, TreeIsInvariant, PoolIsInvariant, HoldIsInvariant, PTL DEF Spec

\* From their first forward on, the requests of a group have their prompt in the same
\* tokens, which admission counts once (exist_group_req_set, prepare_prefill_inputs).
THEOREM SharedIsInvariant == Spec => []SharedPrompts
<1>1. Init => SharedPrompts
  BY InitShared
<1>2. TreeInv /\ PoolInv /\ HoldInv /\ RowInv /\ SharedPrompts /\ [Next]_vars => SharedPrompts'
  BY SharedStep
<1> QED
  BY <1>1, <1>2, TreeIsInvariant, PoolIsInvariant, HoldIsInvariant, RowIsInvariant, PTL DEF Spec

\* What an admitted batch needs is free or can be evicted, from its admission to its
\* allocation (free_radix_cache_to_get_enough_token, alloc).
THEOREM RoomIsInvariant == Spec => []RoomInv
<1>1. Init => RoomInv
  BY InitRoom
<1>2. TreeInv /\ PoolInv /\ PoolInv' /\ HoldInv /\ RowInv /\ SharedPrompts /\ OrderInv /\ RoomInv
        /\ [Next]_vars => RoomInv'
  BY RoomStep
<1> QED
  BY <1>1, <1>2, TreeIsInvariant, PoolIsInvariant, HoldIsInvariant, RowIsInvariant, SharedIsInvariant,
     OrderIsInvariant, PTL DEF Spec

\* Eviction is always ready: its order is the leaves' order now, and a batch that was
\* admitted finds an unreferenced leaf for every pass and its tokens at the end.
THEOREM EvictionReadyCorrect == Spec => []EvictionReady
<1>1. TreeInv /\ PoolInv /\ OrderInv /\ RoomInv => EvictionReady
  BY ReadyIsThere
<1> QED
  BY <1>1, TreeIsInvariant, PoolIsInvariant, OrderIsInvariant, RoomIsInvariant, PTL

=============================================================================

---------------------------- MODULE PromptCache ----------------------------
(***************************************************************************)
(* The dynamic prompt cache (lightllm/server/router/dynamic_prompt): the   *)
(* radix tree that keeps the KV tokens of finished requests, with the part *)
(* of the model process that uses it (InferBatch in prompt-cache mode, the *)
(* preparation of a forward, the reference-counted token pool).            *)
(*                                                                         *)
(* A node is named by the text from the root to its end: its parent is its *)
(* longest proper prefix in the tree.  Splitting an edge then leaves the   *)
(* lower node its name, as the code leaves it its object.  One action is   *)
(* one operation of the model process on the tree or the pool; the router  *)
(* reads the two shared counters between any two of them.                  *)
(*                                                                         *)
(* The scheduler is reduced to what it guarantees: a new batch is admitted *)
(* only if all tokens it may hold after its prefill fit, and a decode runs *)
(* only if its tokens fit (Router models both tests).                      *)
(***************************************************************************)
EXTENDS Integers, FiniteSets, Sequences, SequencesExt, FiniteSetsExt

CONSTANTS
  Req,        (* request ids                                           *)
  GroupOf,    (* the group of each request (best_of > 1: several)      *)
  Prompt,     (* the prompt of each request; a group shares it         *)
  MaxNew,     (* max_new_tokens                                        *)
  Token,      (* the vocabulary                                        *)
  MaxTotal    (* size of the token pool                                *)

ASSUME PromptCacheAssumption ==
  /\ Req \subseteq Nat /\ IsFiniteSet(Req)
  /\ Prompt \in [Req -> Seq(Token) \ {<<>>}] /\ MaxNew \in [Req -> Nat \ {0}]
  /\ MaxTotal \in Nat
  /\ \A r, s \in Req : GroupOf[r] = GroupOf[s] => Prompt[r] = Prompt[s]

VARIABLES
  tree,             (* the radix tree with its counters and eviction order *)
  input_token_ids,  (* of each request: prompt and generated tokens        *)
  cur_kv_len,       (* tokens of it that are in the pool                   *)
  row,              (* its row of req_to_token_indexs                      *)
  shared_kv_node,   (* the node it holds a reference on                    *)
  status,           (* where the request is                                *)
  mem_state,        (* references on each pool token                       *)
  can_use_mem_size,
  at,               (* what the model process is about to do               *)
  batch,            (* the requests it does it for                         *)
  todo,             (* those still to be initialised, or released          *)
  to_evict,         (* tokens still to be evicted for this forward         *)
  free_token_index, (* tokens gathered to be freed together, in order      *)
  content,          (* the text whose entry a pool token holds             *)
  last_use          (* when a cached prefix was last looked up or inserted *)

reqVars  == <<input_token_ids, cur_kv_len, row, shared_kv_node, status>>
poolVars == <<mem_state, can_use_mem_size>>
loopVars == <<at, batch, todo, to_evict, free_token_index>>
vars == <<tree, reqVars, poolVars, loopVars, content, last_use>>

PoolToken == 1..MaxTotal
Root      == <<>>
NoNode    == Root    \* None: no request holds the root
FirstN(s, n) == SubSeq(s, 1, n)
PrefixesOf(s) == {FirstN(s, i) : i \in 1..Len(s)}

-----------------------------------------------------------------------------
(* The shape of the tree *)

Deepest(S) == CHOOSE n \in S : \A m \in S : Len(m) <= Len(n)

\* The nodes on the path of a text, and the edge below them it enters.
Path(t, key) == {n \in t.nodes : IsPrefix(n, key)}
ParentOf(t, n) == Deepest({m \in t.nodes : IsStrictPrefix(m, n)})
Children(t, n) == {c \in t.nodes : c # Root /\ ParentOf(t, c) = n}
IsLeaf(t, n) == \A m \in t.nodes : ~IsStrictPrefix(n, m)
ValueLen(t, n) == IF n = Root THEN 0 ELSE Len(n) - Len(ParentOf(t, n))
ChildOn(t, key) ==
  LET d == Deepest(Path(t, key)) IN
  {c \in Children(t, d) : Len(key) > Len(d) /\ c[Len(d) + 1] = key[Len(d) + 1]}
MatchLen(t, key) == Max({0} \cup {Len(p) : p \in PrefixesOf(key) \cap DOMAIN t.value})

\* The tokens on the edge above a node (token_mem_index_value), each named by the
\* text it ends, and how many a set of nodes has.
EdgeTokens(t, n) == {q \in PrefixesOf(n) : Len(q) > Len(ParentOf(t, n))}
TokensOf(t, S)   == Cardinality(UNION {EdgeTokens(t, n) : n \in S})

\* get_compare_key, and the entries of evict_tree_set: a sorted set keeps the
\* key its element had when it was added.
CompareKey(t, n) == <<IF t.ref_counter[n] = 0 THEN 0 ELSE 1,
                      Cardinality(Children(t, n)), t.time_id[n]>>
Entry(t, n) == [node |-> n, key |-> CompareKey(t, n)]
SortsBefore(k, l) == \E i \in 1..3 : k[i] < l[i] /\ \A j \in 1..(i - 1) : k[j] = l[j]
FirstEntry(t) == CHOOSE e \in t.evict_tree_set :
                    \A f \in t.evict_tree_set \ {e} : SortsBefore(e.key, f.key)

EmptyTree ==
  LET t == [nodes |-> {Root}, value |-> <<>>, ref_counter |-> [n \in {Root} |-> 1],
            time_id |-> [n \in {Root} |-> 1], prefix_total_len |-> [n \in {Root} |-> 0],
            evict_tree_set |-> {}, clock |-> 1,
            refed_tokens_num |-> 0, tree_total_tokens_num |-> 0]
  IN [t EXCEPT !.evict_tree_set = {Entry(t, Root)}]

-----------------------------------------------------------------------------
(* Operations on the tree *)

Extend(f, x, e) == [y \in DOMAIN f \cup {x} |-> IF y = x THEN e ELSE f[y]]

\* A new node n below p, with a shared record of its own.
WithNode(t, n, p, ref) ==
  [t EXCEPT !.nodes = @ \cup {n},
            !.ref_counter = Extend(@, n, ref),
            !.time_id = Extend(@, n, t.clock + 1),
            !.clock = @ + 1,
            !.prefix_total_len = Extend(@, n, @[p] + Len(n) - Len(p))]

\* Mutant: the upper node of a split starts without references.
SplitUnreferenced(t, c, p) ==
  LET t1 == WithNode(t, p, ParentOf(t, c), 0) IN
  [t1 EXCEPT !.prefix_total_len[c] = t1.prefix_total_len[p] + Len(c) - Len(p)]

\* split_node: the lower node keeps its identity, the new upper one its reference count.
SplitNode(t, c, p) ==
  LET t1 == WithNode(t, p, ParentOf(t, c), t.ref_counter[c]) IN
  [t1 EXCEPT !.prefix_total_len[c] = t1.prefix_total_len[p] + Len(c) - Len(p)]

\* Mutant: the new child takes the first pool tokens of the text, not those of
\* its own part.
AddChildUnsliced(t, p, key, value) ==
  LET new == {q \in PrefixesOf(key) : Len(q) > Len(p)} IN
  [WithNode(t, key, p, 0) EXCEPT
     !.value = [q \in DOMAIN @ \cup new |-> IF q \in new THEN value[Len(q) - Len(p)] ELSE @[q]],
     !.tree_total_tokens_num = @ + Cardinality(new)]

\* add_and_return_new_child
AddChild(t, p, key, value) ==
  LET new == {q \in PrefixesOf(key) : Len(q) > Len(p)} IN
  [WithNode(t, key, p, 0) EXCEPT
     !.value = [q \in DOMAIN @ \cup new |-> IF q \in new THEN value[Len(q)] ELSE @[q]],
     !.tree_total_tokens_num = @ + Cardinality(new)]

\* update_time of the nodes of one path, from the deepest up.
UpdateTime(t, path) ==
  [t EXCEPT !.time_id = [n \in t.nodes |->
               IF n \in path THEN t.clock + Cardinality({m \in path : Len(m) >= Len(n)})
               ELSE @[n]],
            !.clock = @ + Cardinality(path)]

\* A visited leaf leaves evict_tree_set before it changes, and what is a leaf
\* afterwards enters with its new key.
Rekey(before, after, visited) ==
  [after EXCEPT !.evict_tree_set =
     (@ \ {Entry(before, n) : n \in {m \in visited : IsLeaf(before, m)}})
       \cup {Entry(after, n) : n \in {m \in visited \cup (after.nodes \ before.nodes) :
                                        IsLeaf(after, m)}}]

\* insert
Insert(t, key, value) ==
  LET path  == Path(t, key)
      child == ChildOn(t, key)
      m     == MatchLen(t, key)
      p     == FirstN(key, m)
      grown == IF m = Len(key) THEN t
               ELSE IF child = {} THEN AddChild(t, p, key, value)
               ELSE LET c == CHOOSE c \in child : TRUE
                    IN AddChild(SplitNode(t, c, p), p, key, value)
      met   == IF m = Len(key) THEN path \cup child ELSE path
  IN Rekey(t, UpdateTime(grown, met), path \cup child)

\* A reference more on the nodes of a path; the tokens of those that had none
\* become referenced.
AddRef(t, path) ==
  [t EXCEPT !.ref_counter = [n \in t.nodes |-> IF n \in path THEN @[n] + 1 ELSE @[n]],
            !.refed_tokens_num = @ + TokensOf(t, {n \in path : t.ref_counter[n] = 0})]

\* dec_node_ref_counter: from the node up to the root.
DecNodeRefCounter(t, node) ==
  LET path == Path(t, node) IN
  [t EXCEPT !.ref_counter = [n \in t.nodes |-> IF n \in path THEN @[n] - 1 ELSE @[n]],
            !.refed_tokens_num = @ - TokensOf(t, {n \in path : t.ref_counter[n] = 1})]

\* Mutant: only whole edges match.
MatchWholeEdges(t, key) ==
  LET path == Path(t, key)
      t1   == Rekey(t, UpdateTime(AddRef(t, path), path), path)
  IN [node |-> Deepest(path),
      tree |-> IF Deepest(path) = Root THEN DecNodeRefCounter(t1, Root) ELSE t1]

\* match_prefix with update_refs: the tree afterwards and the node found.  If the
\* text ends inside an edge, the edge is split there; the root is no match.
MatchPrefix(t, key) ==
  LET path  == Path(t, key)
      child == ChildOn(t, key)
      found == FirstN(key, MatchLen(t, key))
      grown == IF found \in path THEN t
               ELSE SplitNode(t, CHOOSE c \in child : TRUE, found)
      t1    == Rekey(t, UpdateTime(AddRef(grown, path \cup {found}), path),
                     IF found \in path THEN path ELSE path \cup child)
  IN [node |-> found,
      tree |-> IF found = Root THEN DecNodeRefCounter(t1, Root) ELSE t1]

\* One pass of the loop of evict.
PopFirst(t) ==
  LET n  == FirstEntry(t).node
      p  == ParentOf(t, n)
      t1 == [t EXCEPT
               !.nodes = @ \ {n},
               !.value = [q \in {x \in DOMAIN @ :
                                  Len(x) <= Len(p) \/ ~IsPrefix(x, n)} |-> @[q]],
               !.ref_counter = [m \in t.nodes \ {n} |-> @[m]],
               !.time_id = [m \in t.nodes \ {n} |-> @[m]],
               !.prefix_total_len = [m \in t.nodes \ {n} |-> @[m]],
               !.evict_tree_set = @ \ {FirstEntry(t)},
               !.tree_total_tokens_num = @ - ValueLen(t, n)]
  IN IF IsLeaf(t1, p) THEN [t1 EXCEPT !.evict_tree_set = @ \cup {Entry(t1, p)}] ELSE t1

\* evict's assertion; remove_child finds the node below its parent.
Evictable(t) ==
  LET n == FirstEntry(t).node
  IN n \in t.nodes \ {Root} /\ t.ref_counter[n] = 0 /\ IsLeaf(t, n)

EvictedTokens(t) ==
  LET n == FirstEntry(t).node IN
  [i \in 1..ValueLen(t, n) |-> t.value[FirstN(n, Len(ParentOf(t, n)) + i)]]

\* Mutant: the reference goes before the text is inserted.
HandOverLate(t, key, value, node) ==
  Insert(IF node = NoNode THEN t ELSE DecNodeRefCounter(t, node), key, value)

\* A finished request's text goes to the tree, then its reference goes.
HandOver(t, key, value, node) ==
  LET t1 == Insert(t, key, value)
  IN IF node = NoNode THEN t1 ELSE DecNodeRefCounter(t1, node)
GiveUp(t, node) == IF node = NoNode THEN t ELSE DecNodeRefCounter(t, node)

UnrefedTokensNum == tree.tree_total_tokens_num - tree.refed_tokens_num

-----------------------------------------------------------------------------
(* The token pool *)

ZerosIn(S, state) == Cardinality({p \in S : state[p] = 0})

\* add_refs and decrease_refs, both on a sequence of pool tokens.
AddRefs(s) ==
  /\ mem_state' = [p \in PoolToken |->
                     mem_state[p] + Cardinality({i \in DOMAIN s : s[i] = p})]
  /\ can_use_mem_size' = can_use_mem_size - ZerosIn(ToSet(s), mem_state)
DecreaseRefs(s) ==
  /\ mem_state' = [p \in PoolToken |->
                     mem_state[p] - Cardinality({i \in DOMAIN s : s[i] = p})]
  /\ can_use_mem_size' = can_use_mem_size + ZerosIn(ToSet(s), mem_state')

\* alloc: the free tokens in the order of their index.
FreeTokens == {p \in PoolToken : mem_state[p] = 0}
NthFree(i) == CHOOSE p \in FreeTokens : Cardinality({q \in FreeTokens : q <= p}) = i

-----------------------------------------------------------------------------
(* InferBatch and the forward *)

Waiting == {r \in Req : status[r] = "waiting"}
Running == {r \in Req : status[r] = "running"}
Members(g)  == {r \in Req : GroupOf[r] = g}
HeadOf(r)     == Min(Members(GroupOf[r]))
Total(f, S) == SumFunctionOnSet(f, S)
Missing(r)  == Len(input_token_ids[r]) - cur_kv_len[r]

Init ==
  /\ tree = EmptyTree
  /\ input_token_ids = Prompt
  /\ cur_kv_len = [r \in Req |-> 0]
  /\ row = [r \in Req |-> <<>>]
  /\ shared_kv_node = [r \in Req |-> NoNode]
  /\ status = [r \in Req |-> "waiting"]
  /\ mem_state = [p \in PoolToken |-> 0]
  /\ can_use_mem_size = MaxTotal
  /\ at = "idle" /\ batch = {} /\ todo = {} /\ to_evict = 0
  /\ free_token_index = <<>>
  /\ content = [p \in PoolToken |-> <<>>]
  /\ last_use = <<>>

\* The router admits a batch of whole groups: the tokens of the running requests and
\* of the new prompts, one more for each request, stay below the pool.  The prompt
\* that a group shares is counted once (exist_group_req_set).
First(S)    == {r \in S : \A s \in S : GroupOf[s] = GroupOf[r] => r <= s}
OwnLen(r)   == IF status[r] = "running" THEN Len(input_token_ids[r]) - Len(Prompt[r]) ELSE 1
AdmittedLen(S) ==
  [r \in Req |-> OwnLen(r) + (IF r \in First(S) THEN Len(Prompt[r]) ELSE 0)]
AddBatch(new) ==
  /\ at = "idle"
  /\ new # {} /\ \A r \in new : Members(GroupOf[r]) \subseteq new
  /\ Total(AdmittedLen(Running \cup new), Running \cup new) < MaxTotal
  /\ at' = "init" /\ todo' = new /\ batch' = new
  /\ UNCHANGED <<tree, reqVars, poolVars, to_evict, free_token_index, content, last_use>>

\* init_batch, for one request of the batch: the last token of its text is not
\* looked up, so that its forward has a token to compute.
InitReq ==
  LET r   == Min(todo)
      key == FirstN(input_token_ids[r], Len(input_token_ids[r]) - 1)
      got == MatchPrefix(tree, key)
  IN
  /\ at = "init" /\ todo # {}
  /\ status' = [status EXCEPT ![r] = "running"]
  /\ todo' = todo \ {r}
  /\ at' = IF todo = {r} THEN "prefill" ELSE "init"
  /\ IF key = <<>>
     THEN UNCHANGED <<tree, row, shared_kv_node, cur_kv_len, poolVars, last_use>>
     ELSE /\ tree' = got.tree
          /\ last_use' = [p \in DOMAIN last_use |->
                            IF p \in PrefixesOf(key) THEN tree.clock ELSE last_use[p]]
          /\ IF got.node = Root
             THEN UNCHANGED <<row, shared_kv_node, cur_kv_len, poolVars>>
             ELSE LET value == [i \in 1..Len(got.node) |-> tree.value[FirstN(key, i)]] IN
                  /\ shared_kv_node' = [shared_kv_node EXCEPT ![r] = got.node]
                  /\ cur_kv_len' = [cur_kv_len EXCEPT
                                      ![r] = got.tree.prefix_total_len[got.node]]
                  /\ row' = [row EXCEPT ![r] = value]
                  /\ AddRefs(value)
  /\ UNCHANGED <<input_token_ids, batch, to_evict, free_token_index, content>>

\* The requests of a forward that are computed: prefill runs one of each group.
Computed == IF at \in {"prefill", "evict prefill", "alloc prefill"}
            THEN {r \in batch : r = HeadOf(r)} ELSE batch
Needed   == Total([r \in Req |-> Missing(r)], Computed)

\* The router starts a decode if its tokens fit (_can_decode).
StartDecode ==
  /\ at = "idle" /\ Running # {}
  /\ Cardinality(Running) <= can_use_mem_size + UnrefedTokensNum
  /\ at' = "decode" /\ batch' = Running
  /\ UNCHANGED <<tree, reqVars, poolVars, todo, to_evict, free_token_index, content, last_use>>

\* What follows the preparation of a forward.
EvictFor(kind) == IF kind = "prefill" THEN "evict prefill" ELSE "evict decode"
AllocFor(kind) == IF kind = "prefill" THEN "alloc prefill" ELSE "alloc decode"

\* prepare_*_inputs ends with free_radix_cache_to_get_enough_token.
Prepare(kind) ==
  /\ at = kind
  /\ IF Needed > can_use_mem_size
     THEN at' = EvictFor(kind) /\ to_evict' = Needed - can_use_mem_size
     ELSE at' = AllocFor(kind) /\ UNCHANGED to_evict
  /\ UNCHANGED <<tree, reqVars, poolVars, batch, todo, free_token_index, content, last_use>>

\* One node is evicted; its tokens are freed once the loop has enough.
Evict(kind) ==
  LET freed == free_token_index \o EvictedTokens(tree)
      kept  == PopFirst(tree) IN
  /\ at = EvictFor(kind)
  /\ Evictable(tree)
  /\ tree' = kept
  /\ last_use' = [p \in DOMAIN kept.value |-> last_use[p]]
  /\ IF Len(freed) < to_evict
     THEN free_token_index' = freed /\ UNCHANGED <<at, to_evict, poolVars>>
     ELSE /\ free_token_index' = <<>> /\ to_evict' = 0
          /\ at' = AllocFor(kind)
          /\ DecreaseRefs(freed)
  /\ UNCHANGED <<reqVars, batch, todo, content>>

\* Pool tokens for the texts computed, one request after the other.
Offset(r)  == Total([s \in Req |-> Missing(s)], {s \in Computed : s < r})
NewRow(r)  == row[r] \o [i \in 1..Missing(r) |-> NthFree(Offset(r) + i)]
\* The row of the head beyond the cached prefix, for the others of its group.
SharedRow(r) ==
  LET h == HeadOf(r) IN
  row[r] \o SubSeq(NewRow(h), Len(row[h]) + 1, Len(input_token_ids[h]))

\* The forward: alloc, the pool is written, every request gets a token, and some
\* are finished.
Forward(kind) ==
  /\ at = AllocFor(kind)
  /\ Needed <= can_use_mem_size     \* alloc returns None otherwise, and the forward fails
  /\ \E sampled \in [batch -> Token], ended \in SUBSET batch :
     LET rows == [r \in batch |-> IF r \in Computed THEN NewRow(r) ELSE SharedRow(r)]
         added == [r \in batch |-> SubSeq(rows[r], Len(row[r]) + 1, Len(rows[r]))]
     IN
     /\ \A r \in batch : Len(input_token_ids[r]) + 1 >= Len(Prompt[r]) + MaxNew[r] => r \in ended
     /\ row' = [r \in Req |-> IF r \in batch THEN rows[r] ELSE row[r]]
     /\ mem_state' = [p \in PoolToken |->
                        mem_state[p] + Cardinality({r \in batch : p \in ToSet(added[r])})]
     /\ can_use_mem_size' = can_use_mem_size - Needed
     /\ content' = [p \in PoolToken |->
          IF \E r \in Computed : p \in ToSet(added[r])
          THEN LET r == CHOOSE r \in Computed : p \in ToSet(added[r])
               IN FirstN(input_token_ids[r], CHOOSE i \in DOMAIN rows[r] : rows[r][i] = p)
          ELSE content[p]]
     /\ cur_kv_len' = [r \in Req |-> IF r \in batch THEN Len(input_token_ids[r])
                                     ELSE cur_kv_len[r]]
     /\ input_token_ids' = [r \in Req |-> IF r \in batch
                                          THEN Append(input_token_ids[r], sampled[r])
                                          ELSE input_token_ids[r]]
     /\ todo' = ended /\ batch' = {}
     /\ at' = IF ended = {} THEN "idle" ELSE "filter"
  /\ UNCHANGED <<tree, shared_kv_node, status, to_evict, free_token_index, last_use>>

IsLast(r) == \A s \in Members(GroupOf[r]) \ {r} : status[s] = "done"

\* Mutant: all tokens of the request are freed, those left to the tree too.
ReleasedLenAll(r) == cur_kv_len[r]

\* The tokens a request gives back: those the tree had already, or all.
ReleasedLen(r) ==
  IF IsLast(r) THEN MatchLen(tree, FirstN(input_token_ids[r], cur_kv_len[r]))
               ELSE cur_kv_len[r]

\* What an insertion uses: the prefixes of the text and, if the text ends inside an
\* edge, the rest of this edge, whose node gets a new time.
UsedBy(t, key) ==
  PrefixesOf(key) \cup (IF MatchLen(t, key) < Len(key) THEN {}
                        ELSE UNION {EdgeTokens(t, c) : c \in ChildOn(t, key)})

\* _free_a_req_mem: the last request of a group leaves its tokens to the tree,
\* the others give theirs back.
FreeAReqMem ==
  LET r    == Min(todo)
      key  == FirstN(input_token_ids[r], cur_kv_len[r])
      node == shared_kv_node[r]
  IN
  /\ at = "filter" /\ todo # {}
  /\ tree' = IF IsLast(r) THEN HandOver(tree, key, row[r], node) ELSE GiveUp(tree, node)
  /\ free_token_index' = free_token_index \o FirstN(row[r], ReleasedLen(r))
  /\ shared_kv_node' = [shared_kv_node EXCEPT ![r] = NoNode]
  /\ cur_kv_len' = [cur_kv_len EXCEPT ![r] = 0]
  /\ row' = [row EXCEPT ![r] = <<>>]
  /\ status' = [status EXCEPT ![r] = "done"]
  /\ todo' = todo \ {r}
  /\ at' = IF todo = {r} THEN "free" ELSE "filter"
  /\ last_use' = [p \in DOMAIN tree'.value |->
                    IF IsLast(r) /\ p \in UsedBy(tree, key) THEN tree.clock ELSE last_use[p]]
  /\ UNCHANGED <<input_token_ids, poolVars, batch, to_evict, content>>

\* filter and free_self end with one free for all requests released.
FreeBatch ==
  /\ at = "free"
  /\ DecreaseRefs(free_token_index)
  /\ free_token_index' = <<>> /\ at' = "idle"
  /\ UNCHANGED <<tree, reqVars, batch, todo, to_evict, content, last_use>>

Next ==
  \/ \E new \in SUBSET Waiting : AddBatch(new)
  \/ InitReq
  \/ StartDecode
  \/ \E kind \in {"prefill", "decode"} : Prepare(kind) \/ Evict(kind) \/ Forward(kind)
  \/ FreeAReqMem \/ FreeBatch

Spec == Init /\ [][Next]_vars

-----------------------------------------------------------------------------
(* Properties *)

TypeOK ==
  /\ tree.nodes \subseteq Seq(Token) /\ Root \in tree.nodes
  /\ Cardinality(tree.nodes) <= MaxTotal + 1   \* SharedLinkedListManager has that many
  /\ DOMAIN tree.value = UNION {PrefixesOf(n) : n \in tree.nodes}
  /\ \A f \in {tree.ref_counter, tree.time_id, tree.prefix_total_len} : DOMAIN f = tree.nodes
  /\ \A r \in Req : /\ cur_kv_len[r] = Len(row[r])
                    /\ shared_kv_node[r] \in tree.nodes
  /\ can_use_mem_size \in 0..MaxTotal
  /\ \A n \in tree.nodes : tree.ref_counter[n] \in Nat
  /\ at = "idle" => to_evict = 0 /\ free_token_index = <<>> /\ todo = {}

\* Every reference on a pool token belongs to someone: the tree, a request's
\* row, or a free under way.  A token is free exactly when nobody has it
\* (MemoryManager.add_refs, decrease_refs; the hand-over in _free_a_req_mem).
Owners(p) ==
  Cardinality({q \in DOMAIN tree.value : tree.value[q] = p})
    + Cardinality({r \in Req : p \in ToSet(row[r])})
    + Cardinality({i \in DOMAIN free_token_index : free_token_index[i] = p})
TokensOwned ==
  /\ \A p \in PoolToken : mem_state[p] = Owners(p)
  /\ can_use_mem_size = Cardinality(FreeTokens)

\* A request, and the tree, only ever refer to entries computed for exactly the
\* same text: no request attends to another text's tokens, whatever was cached,
\* split, evicted and reused.
RightContent ==
  /\ \A r \in Req : \A i \in 1..Len(row[r]) :
        content[row[r][i]] = FirstN(input_token_ids[r], i)
  /\ \A p \in DOMAIN tree.value : content[tree.value[p]] = p

\* The counters that the router reads from shared memory are the sums they stand
\* for, though each is kept by increments over splits, matches and evictions.
CountersExact ==
  /\ tree.refed_tokens_num = TokensOf(tree, {n \in tree.nodes : tree.ref_counter[n] > 0})
  /\ tree.tree_total_tokens_num = TokensOf(tree, tree.nodes)

\* A node's references are the requests that hold it or a node below it, and its
\* shared record knows the length of its text.
RefsExact ==
  \A n \in tree.nodes :
    /\ tree.ref_counter[n] = (IF n = Root THEN 1 ELSE 0)
         + Cardinality({r \in Req : shared_kv_node[r] # NoNode
                                      /\ IsPrefix(n, shared_kv_node[r])})
    /\ tree.prefix_total_len[n] = Len(n)

\* evict_tree_set holds exactly the leaves, each under the key it has now: a
\* stale key would make SortedSet fail to find the element it has to discard.
EvictSetCurrent ==
  tree.evict_tree_set = {Entry(tree, n) : n \in {m \in tree.nodes : IsLeaf(tree, m)}}

\* What admission promised is there: evict's assertion holds, the entry it takes
\* first is an unreferenced leaf, and alloc then finds enough tokens.
EvictionSucceeds ==
  /\ at \in {"evict prefill", "evict decode"} =>
       /\ to_evict - Len(free_token_index) <= UnrefedTokensNum
       /\ Evictable(tree)
  /\ at \in {"alloc prefill", "alloc decode"} => Needed <= can_use_mem_size

\* References are exact: those of the nodes, which other processes' requests keep
\* alive, and the two sums of them the router admits requests by.
ReferencesExact == RefsExact /\ CountersExact

\* Eviction can always do what it is asked for: its order is current, and it finds
\* unreferenced leaves and then tokens.
EvictionReady == EvictSetCurrent /\ EvictionSucceeds

\* The node evicted is, among the unreferenced leaves, one whose edge was not looked
\* up or inserted for the longest time (time_id), however edges were split since.
EdgeStart(t, n) == FirstN(n, Len(ParentOf(t, n)) + 1)
LeastRecentFirst ==
  [][\A gone \in tree.nodes \ tree'.nodes, n \in tree.nodes :
       n # Root /\ IsLeaf(tree, n) /\ tree.ref_counter[n] = 0 =>
         last_use[EdgeStart(tree, gone)] <= last_use[EdgeStart(tree, n)]]_vars

\* The tree with its splits, counters and reference counts is a store of prefixes:
\* lookups find the longest prefix kept, and no referenced prefix is evicted; of the
\* others, the least recently used goes first (LeastRecentFirst).
Store == INSTANCE PrefixStore WITH
  Reader <- Req,
  text   <- input_token_ids,
  stored <- tree.value,
  pinned <- shared_kv_node
StoresPrefixes == Store!Spec /\ LeastRecentFirst
=============================================================================

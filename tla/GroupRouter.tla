----------------------------- MODULE GroupRouter -----------------------------
(***************************************************************************)
(* Beam and diverse modes of the serving back end: a request with          *)
(* best_of > 1 is a group of sub-requests that share the prompt.           *)
(* BeamContinuesBatchQueue admits whole groups; the back end keeps one     *)
(* copy of the shared tokens in the pool and counts who refers to it       *)
(* (MemoryManager.mem_state).                                              *)
(*                                                                         *)
(* One action is one pass through RouterManager._step with its RPCs, or    *)
(* one message from the HTTP server.  What can happen between the awaits   *)
(* of _step is Router's subject; what is new here is the group queue, the  *)
(* peak estimate over shared prompts, written as the code computes it, and *)
(* the shared tokens.  The API server asserts router_token_ratio = 0 in    *)
(* these modes (always busy); the prompt cache, which it excludes in beam  *)
(* mode, is left out of both.  Beams that stop are assumed to leave        *)
(* best_of candidates to go on with.                                       *)
(***************************************************************************)
EXTENDS Integers, Sequences, FiniteSets, FiniteSetsExt

CONSTANTS
  Group,               (* group_req_ids, in the order they were issued      *)
  BestOf,              (* sampling parameter best_of of each group          *)
  InputLen, MaxNew,    (* its prompt length and max_new_tokens              *)
  MayAbort,            (* the groups whose client may disconnect            *)
  MaxTotal, MaxReqTotal, BatchMaxTokens, RunningMaxReqSize, MaxWaitTokens,
  BeamMode             (* beam_mode, or else diverse_mode                   *)

ASSUME GroupAssumption ==
  /\ Group \subseteq Nat /\ IsFiniteSet(Group) /\ MayAbort \subseteq Group
  /\ BestOf \in [Group -> 1..8]
  /\ InputLen \in [Group -> Nat \ {0}] /\ MaxNew \in [Group -> Nat \ {0}]
  /\ \A g \in Group : InputLen[g] + MaxNew[g] <= MaxReqTotal
  /\ MaxTotal \in Nat /\ MaxReqTotal \in Nat /\ BatchMaxTokens \in Nat
  /\ MaxReqTotal + 8 < MaxTotal /\ BatchMaxTokens >= MaxReqTotal
  /\ RunningMaxReqSize \in Nat \ {0} /\ MaxWaitTokens \in Nat \ {0}
  /\ BeamMode \in BOOLEAN

\* A sub-request, as its group and its number in it; the first one has the
\* group's own id.
Req == UNION {{g} \X (1..BestOf[g]) : g \in Group}
HeadOf(g) == <<g, 1>>

\* A token of the pool is named by the request that allocated it and the
\* position it holds.
Cell == Req \X (1..(MaxReqTotal + 1))

VARIABLES
  waiting_req_list,   \* the queue of sub-requests, head first
  aborted,            \* the sub-requests marked FINISHED_ABORT
  running,            \* reqs of the running batch
  cur_output_len,
  has_wait_tokens,
  at,                 \* "step", or "dead" once an RPC has raised
  mem_state,          \* number of references to each token
  held,               \* tokens in a request's row of req_to_token_indexs
  can_use_mem_size,
  sent, served        \* groups that arrived, sub-requests answered to the end

queueVars == <<waiting_req_list, aborted, sent>>
runVars   == <<running, cur_output_len, has_wait_tokens, at, served>>
memVars   == <<mem_state, held, can_use_mem_size>>
vars      == <<queueVars, runVars, memVars>>

Init ==
  /\ waiting_req_list = <<>> /\ aborted = {} /\ sent = {}
  /\ running = {} /\ cur_output_len = [r \in Req |-> 0]
  /\ has_wait_tokens = 0 /\ at = "step" /\ served = {}
  /\ mem_state = [c \in Cell |-> 0] /\ held = [r \in Req |-> {}]
  /\ can_use_mem_size = MaxTotal

InQueue(r) == \E i \in 1..Len(waiting_req_list) : waiting_req_list[i] = r

-----------------------------------------------------------------------------
(***************************************************************************)
(* _can_add_new_group_reqs: the estimate.                                  *)
(***************************************************************************)
AtLeast(a, b) == IF a >= b THEN a ELSE b

\* get_tuple_tokens of a server that is always busy
RunLen(r)  == InputLen[r[1]] + (IF r \in running THEN cur_output_len[r] ELSE 1)
LeftLen(r) == AtLeast(0, MaxNew[r[1]] - (IF r \in running THEN cur_output_len[r] + 1
                                                          ELSE 2))

Before(q, r) == q[1] < r[1] \/ (q[1] = r[1] /\ q[2] < r[2])

\* Mutant: cache_len_list is sorted by rising LeftLen.
SortsRising(q, r) == LeftLen(q) < LeftLen(r) \/ (LeftLen(q) = LeftLen(r) /\ Before(q, r))

\* cache_len_list.sort: by falling LeftLen.
SortsBefore(q, r) == LeftLen(q) > LeftLen(r) \/ (LeftLen(q) = LeftLen(r) /\ Before(q, r))

\* The loop over the sorted list: when it comes to r, cumsum_len counts the
\* prompt of each group once, and as many requests as were met so far will all
\* add the tokens r has left.
NeedMaxTokenNum(S) ==
  LET MetBy(r)  == {q \in S : q = r \/ SortsBefore(q, r)}
      Shared(q) == \E p \in S : p[1] = q[1] /\ SortsBefore(p, q)
      cumsum_len(r) ==
        MapThenSumSet(LAMBDA q : RunLen(q) - (IF Shared(q) THEN InputLen[q[1]] ELSE 0),
                      MetBy(r))
  IN  Max({0} \cup {cumsum_len(r) + Cardinality(MetBy(r)) * LeftLen(r) : r \in S})

-----------------------------------------------------------------------------
(***************************************************************************)
(* generate_new_batch                                                      *)
(***************************************************************************)
Live(i) == waiting_req_list[i] \notin aborted
WaitingReqs == {waiting_req_list[i] : i \in {j \in 1..Len(waiting_req_list) : Live(j)}}
WaitingGroups == {r[1] : r \in WaitingReqs}

FirstPos(g) == Min({i \in 1..Len(waiting_req_list) : Live(i) /\ waiting_req_list[i][1] = g})
UpTo(g)     == {h \in WaitingGroups : FirstPos(h) <= FirstPos(g)}
MembersOf(G) == {r \in WaitingReqs : r[1] \in G}

CanAddGroups(G) ==
  /\ NeedMaxTokenNum(running \cup MembersOf(G)) < MaxTotal
  /\ Cardinality(running) + Cardinality(MembersOf(G)) <= RunningMaxReqSize
  /\ MapThenSumSet(LAMBDA g : InputLen[g], G) <= BatchMaxTokens

ReqIsFull == Cardinality(running) >= RunningMaxReqSize

\* The groups taken: those that pass together with all groups before them.
Taken ==
  LET Passing == {G \in {UpTo(g) : g \in WaitingGroups} : CanAddGroups(G)}
  IN  IF ReqIsFull THEN {}
      ELSE {g \in WaitingGroups : \A h \in UpTo(g) : UpTo(h) \in Passing}

\* The loop judges a group when it meets the next one, or at the end of the
\* queue: up to there it has counted the aborted requests.
Scanned ==
  {i \in 1..Len(waiting_req_list) :
     \A g \in WaitingGroups :
        Cardinality(UpTo(g)) = Cardinality(Taken) + 2 => i < FirstPos(g)}

AbortedCount == Cardinality({i \in Scanned : ~Live(i)})

\* Mutant: the slice counts groups, where the queue holds sub-requests.
TakenGroupsCount == Cardinality(Taken) + AbortedCount

TakenCount == Cardinality(MembersOf(Taken)) + AbortedCount

-----------------------------------------------------------------------------
(***************************************************************************)
(* The token pool: references and the number of free tokens.               *)
(***************************************************************************)
Holders(c, S, row) == Cardinality({r \in S : c \in row[r]})

\* add_refs and decrease_refs: a token leaves the free ones with its first
\* reference and comes back with its last.
SetMem(mem) ==
  /\ mem_state' = mem
  /\ can_use_mem_size' = can_use_mem_size
       - Cardinality({c \in Cell : mem_state[c] = 0 /\ mem[c] > 0})
       + Cardinality({c \in Cell : mem_state[c] > 0 /\ mem[c] = 0})

UsedTokens == MaxTotal - can_use_mem_size

\* _can_decode: every running request needs one token.
CanDecode == Cardinality(running) + UsedTokens <= MaxTotal

Fails == /\ at' = "dead"
         /\ UNCHANGED <<running, cur_output_len, served, memVars>>

IsBeam(r) == BeamMode /\ BestOf[r[1]] > 1

\* A beam group must end when cur_kv_len + 1 - prompt_len, the length of its
\* output without the token being sampled, has reached max_new_tokens; any
\* other request ends when that token is the last.
MustEnd(r) == IF IsBeam(r) THEN cur_output_len[r] >= MaxNew[r[1]]
                           ELSE cur_output_len[r] + 1 >= MaxNew[r[1]]

\* The ways the requests S of one forward may end: those that must, the
\* aborted ones, and any others that stop; a beam group ends as a whole.
Endings(S) ==
  {E \in SUBSET S :
     /\ \A r \in S : MustEnd(r) \/ r \in aborted => r \in E
     /\ \A r \in E, q \in S : r[1] = q[1] /\ IsBeam(r) => q \in E}

\* What the router and the pool keep after a forward: `batch' with the rows
\* `row', of which `ended' are answered and freed; `mem' has not freed them yet.
AfterForward(batch, ended, row, mem) ==
  /\ running' = batch \ ended
  /\ served' = served \cup ended
  /\ cur_output_len' = [r \in Req |-> IF r \in DOMAIN row
                                      THEN cur_output_len[r] + 1 ELSE cur_output_len[r]]
  /\ held' = [r \in Req |-> IF r \in ended THEN {}
                            ELSE IF r \in DOMAIN row THEN row[r] ELSE held[r]]
  /\ \E left \in {[c \in Cell |-> mem[c] - Holders(c, ended, row)]} : SetMem(left)

-----------------------------------------------------------------------------
(***************************************************************************)
(* The steps.                                                              *)
(***************************************************************************)
AddReqGroup(g) ==
  /\ g \notin sent
  /\ sent' = sent \cup {g}
  /\ waiting_req_list' = waiting_req_list \o [i \in 1..BestOf[g] |-> <<g, i>>]
  /\ UNCHANGED <<aborted, runVars, memVars>>

\* Sub-requests that the router has, running or in the queue, are marked.
AbortGroup(g) ==
  /\ g \in sent \cap MayAbort
  /\ \E r \in Req : r[1] = g /\ r \notin aborted /\ (r \in running \/ InQueue(r))
  /\ aborted' = aborted \cup {r \in Req : r[1] = g /\ (r \in running \/ InQueue(r))}
  /\ UNCHANGED <<waiting_req_list, sent, runVars, memVars>>

\* Prefill runs the head of each group; beam_copy and diverse_copy then let
\* every member refer to the head's tokens.
PromptRow(g) == {HeadOf(g)} \X (1..InputLen[g])
PromptRefs(batch) ==
  [c \in Cell |-> mem_state[c]
                  + Cardinality({r \in batch : c \in PromptRow(r[1])})]

\* A new batch, or a mini batch when it is time for one: init_batch, prefill,
\* and the merge with what runs.  Only groups whose head is there are run.
StepPrefill ==
  /\ at = "step" /\ Taken # {}
  /\ running # {} => has_wait_tokens >= MaxWaitTokens
  /\ waiting_req_list' = SubSeq(waiting_req_list, TakenCount + 1, Len(waiting_req_list))
  /\ has_wait_tokens' = 0
  /\ LET batch == MembersOf(Taken)
         run   == {r \in batch : HeadOf(r[1]) \in batch}
         need  == MapThenSumSet(LAMBDA g : InputLen[g], {r[1] : r \in run})
     IN  IF run = {} \/ need > can_use_mem_size
         THEN Fails
         ELSE /\ \E ended \in Endings(run), mem \in {PromptRefs(run)} :
                   AfterForward(running \cup batch, ended,
                                [r \in run |-> PromptRow(r[1])], mem)
              /\ UNCHANGED at
  /\ UNCHANGED <<aborted, sent>>

\* The token a decode allocates for a request.
NewCell(r) == <<r, InputLen[r[1]] + cur_output_len[r]>>

\* The beam each beam continues; other requests continue themselves.
Parents(S) ==
  {p \in [S -> S] : \A r \in S : p[r][1] = r[1] /\ (IsBeam(r) \/ p[r] = r)}

\* Mutant: beam_copy does not give up the tokens of the replaced beams.
CopiedRefsKept(S, row, copied) ==
  [c \in Cell |-> mem_state[c]
     + Cardinality({r \in S : c = NewCell(r)})
     + Holders(c, {r \in S : IsBeam(r)}, copied)]

\* References once every request of S has its new token and, in a beam group,
\* the old rows were freed and those of the parents taken over.
CopiedRefs(S, row, copied) ==
  LET beams == {r \in S : IsBeam(r)}
  IN  [c \in Cell |-> mem_state[c]
         + Cardinality({r \in S : c = NewCell(r)})
         - Holders(c, beams, row) + Holders(c, beams, copied)]

\* prepare_decode_inputs asserts that all tokens of a request but its last are
\* in the pool; sample looks up every member its group was built with.  A
\* request that prefill left out fails the one or the other.
DecodeReady(r) ==
  /\ cur_output_len[r] > 0
  /\ Cardinality(held[r]) = InputLen[r[1]] + cur_output_len[r] - 1

\* Mutant: has_wait_tokens is not reset when no mini batch was found.
WaitTokensNotReset == has_wait_tokens + 1
WaitTokensAtDecode == 1 + (IF has_wait_tokens >= MaxWaitTokens THEN 0 ELSE has_wait_tokens)

StepDecode ==
  /\ at = "step" /\ running # {}
  /\ has_wait_tokens < MaxWaitTokens \/ Taken = {}
  /\ has_wait_tokens' = WaitTokensAtDecode
  /\ IF ~CanDecode \/ \E r \in running : ~DecodeReady(r)
     THEN Fails       \* pause_reqs raises, as in Router
     ELSE /\ \E row \in {[r \in running |->
                            held[r] \cup {NewCell(r)}]} :
             \E copied \in {[r \in running |-> row[p[r]]] : p \in Parents(running)} :
               \E ended \in Endings(running), mem \in {CopiedRefs(running, row, copied)} :
                 AfterForward(running, ended, copied, mem)
          /\ UNCHANGED at
  /\ UNCHANGED queueVars

Fwd  == StepPrefill \/ StepDecode
Next == Fwd \/ \E g \in Group : AddReqGroup(g) \/ AbortGroup(g)

Spec     == Init /\ [][Next]_vars
FairSpec == Spec /\ WF_vars(Fwd)
-----------------------------------------------------------------------------
(***************************************************************************)
(* Properties                                                              *)
(***************************************************************************)

\* The values the variables take.
TypeOK ==
  /\ waiting_req_list \in Seq(Req)
  /\ aborted \subseteq Req /\ running \subseteq Req /\ served \subseteq Req
  /\ sent \subseteq Group
  /\ cur_output_len \in [Req -> 0..(MaxReqTotal + 1)]
  /\ has_wait_tokens \in 0..MaxWaitTokens
  /\ at \in {"step", "dead"}
  /\ mem_state \in [Cell -> Nat]
  /\ held \in [Req -> SUBSET Cell]
  /\ can_use_mem_size \in 0..MaxTotal

\* Shared tokens are freed with their last reader, no earlier and no later:
\* the references are those of the running requests, and the pool counts the
\* tokens nobody refers to.
SharedTokens ==
  /\ \A c \in Cell : mem_state[c] = Holders(c, running, held)
  /\ can_use_mem_size + Cardinality({c \in Cell : mem_state[c] > 0}) = MaxTotal

\* "The actual maximum token usage is always one of Time 1, Time 2, or Time 3"
\* (router.rst), with shared prompts: the loop over the sorted list computes
\* the largest number of tokens at any later moment, if every request runs to
\* its limit.
LoadIn(S, left) ==
  LET alive == {r \in S : LeftLen(r) >= left}
  IN  MapThenSumSet(LAMBDA g : InputLen[g], {r[1] : r \in alive})
      + MapThenSumSet(LAMBDA r : RunLen(r) - InputLen[r[1]] + left, alive)

NeedIsPeak ==
  \A G \in {{}} \cup {UpTo(g) : g \in WaitingGroups} :
    LET S == running \cup MembersOf(G)
    IN  S # {} => NeedMaxTokenNum(S) = Max({LoadIn(S, LeftLen(r)) : r \in S})

\* A decode always fits: the group queue admits no more than the pool can
\* hold to the end ("there is never a risk of out-of-memory").
DecodeFits == running # {} => CanDecode

\* The group queue hands every sub-request out at most once.
TakenOnce ==
  /\ \A i, j \in 1..Len(waiting_req_list) :
       waiting_req_list[i] = waiting_req_list[j] => i = j
  /\ \A r \in running \cup served : ~InQueue(r)

\* The router is "responsible for storing the request" (lightllm_impl.rst):
\* until it is served or its client gives up, a request is in the queue or in
\* the running batch.
NoRequestLost ==
  \A r \in Req : r[1] \in sent =>
    InQueue(r) \/ r \in running \/ r \in served \/ r \in aborted

\* When no client gives up, every group is answered, all its members.
EveryGroupServed ==
  \A g \in Group : g \in sent ~> \A r \in Req : r[1] = g => r \in served
=============================================================================

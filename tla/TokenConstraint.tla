---------------------------- MODULE TokenConstraint ----------------------------
(***************************************************************************)
(* One request of --simple_constraint_mode (SimpleConstraintBackend with   *)
(* sample and the patched index of outlines): the answer is generated      *)
(* under a regular expression or from a list of allowed tokens.  The       *)
(* expression is its automaton over the vocabulary, as outlines builds it. *)
(* Masked logits are very small, not impossible: a mask that leaves no     *)
(* token leaves them all.                                                  *)
(***************************************************************************)
EXTENDS Integers, Sequences, FiniteSets, SequencesExt

CONSTANTS
  Vocab,          (* the tokens                                                     *)
  EosIds,         (* eos_id of the server, the tokenizer's eos_token_id among them  *)
  EosToken,       (* tokenizer.eos_token_id                                         *)
  Edges,          (* <<state, token, state>>: the automaton, state 0 the first      *)
  Finals,         (* its final states                                               *)
  Constraints,    (* records: regular, whether there is a regular_constraint, and   *)
                  (* allowed_token_ids, which counts if there is none               *)
  MinNews,        (* values of min_new_tokens                                       *)
  MaxNew,         (* max_new_tokens                                                 *)
  DecayLength,    (* outputs after which exponential_decay_length_penalty has       *)
                  (* brought a masked eos back to the others, MaxNew for never      *)
  IgnoreEos       (* values of ignore_eos                                           *)

VARIABLES
  constraint, min_new_tokens, ignore_eos,    \* the request's sampling parameters
  outputs,             \* the tokens made
  fsm_current_state,   \* the automaton's state, -1 after the end
  finish_status        \* "no", "stop" or "length"

vars == <<constraint, min_new_tokens, ignore_eos, outputs, fsm_current_state, finish_status>>

Init ==
  /\ constraint \in Constraints /\ min_new_tokens \in MinNews /\ ignore_eos \in IgnoreEos
  /\ outputs = <<>> /\ fsm_current_state = 0 /\ finish_status = "no"

-----------------------------------------------------------------------------
(***************************************************************************)
(* RegexGuide of outlines, with the index of outlines_patch                *)
(***************************************************************************)
\* new_create_fsm_index_tokenizer: each eos is an edge of a final state to itself, if
\* the state has edges at all.
States == {e[1] : e \in Edges}
EosEdges == {<<s, t, s>> : s \in Finals \cap States, t \in EosIds}
Index == Edges \cup EosEdges

\* get_next_instruction: where the index has no state, only the end is allowed.
NextTokens(s) ==
  IF s \in States THEN {e[2] : e \in {f \in Index : f[1] = s}} ELSE {EosToken}

\* get_next_state
NextState(s, t) ==
  LET to == {e[3] : e \in {f \in Index : f[1] = s /\ f[2] = t}}
  IN  IF t = EosToken \/ to = {} THEN -1 ELSE CHOOSE x \in to : TRUE

-----------------------------------------------------------------------------
(***************************************************************************)
(* Masks and sampling                                                      *)
(***************************************************************************)
\* Mutant: the mask is that of the first state.
OkTokensFirst == IF constraint.regular THEN NextTokens(0) ELSE constraint.allowed_token_ids

\* _mask_req_out_token
OkTokens == IF constraint.regular THEN NextTokens(fsm_current_state) ELSE constraint.allowed_token_ids

\* sample: the decay lifts an eos, masked or not; min_new_tokens masks it after that.
\* When everything is masked alike, anything may be sampled.
Sampled ==
  LET lifted == IF Len(outputs) >= DecayLength THEN OkTokens \cup EosIds ELSE OkTokens
      open   == IF Len(outputs) < min_new_tokens - 1 THEN lifted \ EosIds ELSE lifted
  IN  IF open = {} THEN Vocab ELSE open

\* update_finish_status, without stop sequences (those are TokenHealing's)
Finished(ids) ==
  IF Last(ids) \in EosIds /\ ~ignore_eos THEN "stop"
  ELSE IF Len(ids) >= MaxNew THEN "length"
  ELSE "no"

\* _handle_req_ans
HandleReqAns(token) ==
  /\ fsm_current_state' = IF constraint.regular THEN NextState(fsm_current_state, token)
                                                  ELSE fsm_current_state
  /\ finish_status' = IF fsm_current_state' = -1 THEN "stop" ELSE Finished(outputs')

\* prefill_batch, decode_batch
Next ==
  /\ finish_status = "no"
  /\ \E token \in Sampled :
       /\ outputs' = Append(outputs, token)
       /\ HandleReqAns(token)
  /\ UNCHANGED <<constraint, min_new_tokens, ignore_eos>>

Spec == Init /\ [][Next]_vars

-----------------------------------------------------------------------------
(***************************************************************************)
(* Properties                                                              *)
(***************************************************************************)
TypeOK ==
  /\ outputs \in Seq(Vocab) /\ Len(outputs) <= MaxNew
  /\ fsm_current_state \in {-1, 0} \cup {e[3] : e \in Edges}
  /\ finish_status \in {"no", "stop", "length"}

\* The states in which the automaton can be after a text, by its edges alone.
Reached(ids) ==
  FoldLeft(LAMBDA at, t : {e[3] : e \in {f \in Edges : f[1] \in at /\ f[2] = t}}, {0}, ids)

Printed == SelectSeq(outputs, LAMBDA t : t \notin EosIds)

\* "Regular expressions constrain the output": what has been printed is the beginning of
\* a match, the whole of one when the answer has stopped; and an answer from a list of
\* tokens has no others.
ConstraintHolds ==
  IF constraint.regular
  THEN /\ Reached(Printed) # {}
       /\ finish_status = "stop" => Reached(Printed) \cap Finals # {}
  ELSE \A i \in DOMAIN outputs : outputs[i] \in constraint.allowed_token_ids

\* Nothing is made after the end of the match, even for a client that ignores eos.
EndsAtMatch ==
  constraint.regular
    => \A i \in DOMAIN outputs : outputs[i] = EosToken => i = Len(outputs) /\ finish_status = "stop"
=============================================================================

----------------------------- MODULE TokenHealing -----------------------------
(***************************************************************************)
(* One request of --token_healing_mode, from its admission to the client's *)
(* text.  The last tokens of the prompt are taken off and generated again, *)
(* under a mask that keeps the text they stood for; what that text has     *)
(* already told the client is cut from the answer by detokenization.       *)
(*                                                                         *)
(* A token is its string, a sequence of letters (the vocabulary is a       *)
(* bijection).  Which token the scores favour is left open.  A forward and *)
(* its message's way to the client are one step: the channels are FIFO and *)
(* the answer is read by nothing else.  Batches, aborts and pauses are     *)
(* those of Router.                                                        *)
(***************************************************************************)
EXTENDS Integers, SequencesExt

CONSTANTS
  Vocab,          (* the strings of the vocabulary, none of them empty               *)
  Eos,            (* eos_id: the tokens that end an answer                           *)
  Lead,           (* letters that are the beginning of a character (bytes)           *)
  Prompts,        (* prompts, sequences of at least two tokens (one: see README)     *)
  MaxNews,        (* values of max_new_tokens                                        *)
  StopSequences,  (* sampling_params.stop_sequences: sequences of tokens             *)
  AddedMaxNew,    (* added_max_new_tokens, 6 in the code                             *)
  DecayLength     (* outputs after which exponential_decay_length_penalty has        *)
                  (* brought a masked eos back to the others, at least one           *)

VARIABLES
  prompt,         \* the prompt as it was sent
  max_new_tokens, \* as the client asked for it
  at,             \* "prefill", "decode", "done", or "error": the assertion "error state"
  prefix_str,     \* InferReq.prefix_str: what the next tokens have yet to repeat
  outputs,        \* input_token_ids after the prompt that was prefilled
  visible,        \* current_sub_text of the detokenization, joined
  output_str,     \* ReqDetokenizationState.output_str
  text,           \* what the client has received
  told            \* the client was told that the answer has ended

vars == <<prompt, max_new_tokens, at, prefix_str, outputs, visible, output_str, text, told>>

Joined(tokens) == FlattenSeq(tokens)

\* TokenHealingReq.__init__: two tokens, or one of a prompt of two.
PrefixTokenNum(p) == IF Len(p) > 2 THEN 2 ELSE 1

prefix_token_ids == SubSeq(prompt, Len(prompt) - PrefixTokenNum(prompt) + 1, Len(prompt))
prompt_len       == Len(prompt) - PrefixTokenNum(prompt)

Init ==
  /\ prompt \in Prompts /\ max_new_tokens \in MaxNews
  /\ at = "prefill" /\ prefix_str = <<>> /\ outputs = <<>>
  /\ visible = <<>> /\ output_str = <<>> /\ text = <<>> /\ told = FALSE

-----------------------------------------------------------------------------
(***************************************************************************)
(* Masks                                                                   *)
(***************************************************************************)
PrefixTokens(str) == {t \in Vocab : IsPrefix(t, str)}
Extensions(str)   == {t \in Vocab : IsPrefix(str, t)}

\* _mask_not_prefix_token, _mask_decode_not_prefix_token
Allowed(str) ==
  IF str = <<>> THEN Vocab
  ELSE IF at = "prefill" \/ Extensions(str) = {} THEN PrefixTokens(str) \cup Extensions(str)
  ELSE Extensions(str)

\* sample: the decay lifts an eos, masked or not.  With every logit masked alike, any
\* token may be sampled.
Sampled(str) ==
  LET open == IF Len(outputs) >= DecayLength THEN Allowed(str) \cup Eos ELSE Allowed(str)
  IN  IF open = {} THEN Vocab ELSE open

-----------------------------------------------------------------------------
(***************************************************************************)
(* The end of an answer                                                    *)
(***************************************************************************)
\* _stop_sequences_matched
StopSequenceMatched(ids) ==
  \E stop \in StopSequences : stop # <<>> /\ IsSuffix(stop, ids)

\* update_finish_status
Finished(ids) ==
  \/ StopSequenceMatched(ids)
  \/ Last(ids) \in Eos
  \/ Len(ids) >= max_new_tokens + AddedMaxNew

-----------------------------------------------------------------------------
(***************************************************************************)
(* Detokenization.handle_loop with decode_token, and the client            *)
(***************************************************************************)
Incomplete(str) == str # <<>> /\ Last(str) \in Lead
After(str, n) == SubSeq(str, n + 1, Len(str))

\* An exception drops the message.
Dropped == UNCHANGED <<visible, output_str, text, told>>

\* A token that ends the answer is not printed.
Detokenize(token, repeated, ends) ==
  LET seen == IF token \in Eos THEN visible ELSE visible \o token
      out_text == IF token \in Eos THEN output_str ELSE seen
      new_text == After(out_text, Len(output_str))
  IN  IF Incomplete(out_text)
      THEN visible' = seen /\ told' = ends /\ UNCHANGED <<output_str, text>>
      ELSE IF IsPrefix(repeated, new_text)
      THEN /\ visible' = seen /\ told' = ends
           /\ output_str' = out_text
           /\ text' = text \o After(new_text, Len(repeated))
      ELSE Dropped

-----------------------------------------------------------------------------
(***************************************************************************)
(* Forwards                                                                *)
(***************************************************************************)
\* Mutant: what the first tokens repeat is sent as well.
HandleReqAnsWhole(token, str, ends) ==
  IF ~(IsPrefix(token, str) \/ IsPrefix(str, token))
  THEN prefix_str' = str /\ Dropped
  ELSE prefix_str' = After(str, Len(token)) /\ Detokenize(token, <<>>, ends)

\* _handle_req_ans with _send_to_detokenization_proc: while the prefix is repeated no
\* token is sent, and with no token no end either.
HandleReqAns(token, str, ends) ==
  IF str # <<>> /\ IsPrefix(token, str)
  THEN prefix_str' = After(str, Len(token)) /\ Dropped
  ELSE IF IsPrefix(str, token)
  THEN prefix_str' = <<>> /\ Detokenize(token, str, ends)
  ELSE prefix_str' = str /\ Dropped

\* The tail of prefill_batch and of decode_batch.
Forward(str) ==
  \E token \in Sampled(str) :
    /\ outputs' = Append(outputs, token)
    /\ at' = IF ~(IsPrefix(token, str) \/ IsPrefix(str, token)) THEN "error"
             ELSE IF Finished(outputs') THEN "done" ELSE "decode"
    /\ HandleReqAns(token, str, Finished(outputs'))
    /\ UNCHANGED <<prompt, max_new_tokens>>

\* prefill_batch: the prefix is the joined strings of prefix_token_ids.
PrefillBatch == at = "prefill" /\ Forward(Joined(prefix_token_ids))

\* decode_batch
DecodeBatch == at = "decode" /\ Forward(prefix_str)

Next == PrefillBatch \/ DecodeBatch

Spec == Init /\ [][Next]_vars

-----------------------------------------------------------------------------
(***************************************************************************)
(* What the router expects of the request                                  *)
(***************************************************************************)
Larger(a, b) == IF a >= b THEN a ELSE b

\* TokenHealingReq.get_tuple_tokens on a busy router, summed: input_len is the prompt's
\* before the tokens were taken off, max_output_len is as the client asked.
EstimatedTokens ==
  LET more == PrefixTokenNum(prompt) + AddedMaxNew
      has_out_len == Len(outputs)
  IN  IF at = "prefill"
      THEN Len(prompt) + 1 + Larger(0, max_new_tokens - 2) + more
      ELSE Len(prompt) + has_out_len + Larger(0, max_new_tokens - has_out_len - 1) + more

-----------------------------------------------------------------------------
(***************************************************************************)
(* Properties                                                              *)
(***************************************************************************)
TypeOK ==
  /\ prompt \in Prompts /\ max_new_tokens \in MaxNews
  /\ at \in {"prefill", "decode", "done", "error"}
  /\ outputs \in Seq(Vocab)
  /\ told \in BOOLEAN

Spoken == Joined(SelectSeq(outputs, LAMBDA t : t \notin Eos))

\* The client reads the prompt continued: what was taken off the prompt and the text
\* received are together the text that was generated, at each moment when the end of
\* the prompt has been repeated and the text ends with a whole character.
TextContinues ==
  (at # "prefill" /\ prefix_str = <<>> /\ ~Incomplete(Spoken))
     => Joined(prefix_token_ids) \o text = Spoken

\* With a vocabulary that has every letter as a token, the masks always leave a token
\* that goes on with the prompt's end: the assertion "error state" of _handle_req_ans
\* fails for nothing but an eos that the decay lifted over the mask.
NoDeadEnd ==
  (\A t \in Vocab : \A i \in DOMAIN t : <<t[i]>> \in Vocab) =>
     (at = "error" => Last(outputs) \in Eos /\ Len(outputs) > DecayLength)

\* "error state": no sampled token leaves the mask.
NoErrorState == at # "error"

\* The tokens made while the prompt's end is repeated are in the scheduler's estimate:
\* the request never holds more tokens of KV than it announces, at this moment for any
\* later one, and its length stays within the 8 more that its row of the token table has
\* than max_req_total_len.
EstimateCovers ==
  LET most == prompt_len + max_new_tokens + AddedMaxNew
  IN  /\ prompt_len + Len(outputs) <= most
      /\ at \in {"prefill", "decode"} => EstimatedTokens >= most - 1
      /\ most <= Len(prompt) + max_new_tokens + 8

\* "update_finish_status": the client of an answer that has ended is told so.
EveryAnswerEnds == at = "done" => told
=============================================================================

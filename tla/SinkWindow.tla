------------------------------ MODULE SinkWindow ------------------------------
(***************************************************************************)
(* The attention-sink baselines stream_llm and infinite_lm, for one layer: *)
(* the KV cache keeps the first n_init tokens and the last n_local, and a  *)
(* forward attends to its window and, as a second part, to the sinks.  The *)
(* two differ in rotary angles only.                                       *)
(*                                                                         *)
(* An entry is the number of its token.  past_key_value is <<h_k, len_k>>: *)
(* what is cached and how many tokens there have been.                     *)
(***************************************************************************)
EXTENDS Integers, SequencesExt

CONSTANTS
  n_init, n_local,      (* natural numbers, n_local positive                *)
  MaxLen, InputLens     (* bounds: tokens in all; lengths an input may have *)

VARIABLES h_k, len_k, seen

vars == <<h_k, len_k, seen>>

AtLeast(a, b) == IF a >= b THEN a ELSE b
First(s, n)   == SubSeq(s, 1, n)
LastOf(s, n)  == SubSeq(s, AtLeast(Len(s) - n, 0) + 1, Len(s))

Init == h_k = <<>> /\ len_k = 0 /\ seen = <<>>

\* h_k_cache
CacheAfter(keys, total) ==
  IF total <= n_local + n_init THEN keys ELSE First(keys, n_init) \o LastOf(keys, n_local)

\* Mutant: the window starts at the first query.
WindowKeysShort(keys, len_q) == LastOf(keys, n_local)

\* h_k_: the keys the window of some query reaches, and one more.
WindowKeys(keys, len_q) ==
  IF len_q + n_local < Len(keys) THEN LastOf(keys, len_q + n_local) ELSE keys

\* The sliding window of the i-th of len_q queries.
LocalSeen(keys, len_q, i) ==
  {keys[j] : j \in {k \in 1..Len(keys) : i - k + Len(keys) - len_q \in 0..(n_local - 1)}}

SinkOffset(keys, total, len_q) == total - len_q

\* init_h_k with the complement of the window.
SinkSeen(keys, total, len_q, i) ==
  IF total > n_local
  THEN {keys[j] : j \in {k \in 1..Len(First(keys, n_init)) :
                           i - k + SinkOffset(keys, total, len_q) >= n_local}}
  ELSE {}

Forward(len_q) ==
  /\ len_k + len_q <= MaxLen
  /\ LET keys  == h_k \o [i \in 1..len_q |-> len_k + i]
         total == len_k + len_q
     IN  /\ h_k' = CacheAfter(keys, total)
         /\ len_k' = total
         /\ seen' = [i \in 1..len_q |->
              [query |-> len_k + i,
               local |-> LocalSeen(WindowKeys(keys, len_q), len_q, i),
               sinks |-> SinkSeen(keys, total, len_q, i)]]

Next == \E len_q \in InputLens : Forward(len_q)

Spec == Init /\ [][Next]_vars

-----------------------------------------------------------------------------
\* The cache keeps at most n_init + n_local tokens, each once, in order.
TypeOK ==
  /\ len_k \in 0..MaxLen
  /\ Len(h_k) <= n_init + n_local
  /\ \A i, j \in 1..Len(h_k) : i < j => h_k[i] < h_k[j]
  /\ \A i \in 1..Len(h_k) : h_k[i] \in 1..len_k

\* However the text is cut into forwards, every query attends to exactly the
\* sinks and its own window of n_local tokens (the README's "n_init" and
\* "n_local"): nothing is dropped from the cache that a later window reaches.
SinksAndWindow ==
  \A i \in 1..Len(seen) :
    LET q == seen[i].query
    IN  seen[i].local \cup seen[i].sinks
          = {t \in 1..q : t <= n_init \/ t > q - n_local}

\* No token counts twice, as a sink and in the window, though the parts are cut
\* from tensors of different lengths.
NothingTwice == \A i \in 1..Len(seen) : seen[i].local \cap seen[i].sinks = {}
=============================================================================

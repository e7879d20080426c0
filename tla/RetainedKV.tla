----------------------------- MODULE RetainedKV -----------------------------
(***************************************************************************)
(* What a KV cache that drops nothing promises ("Full Token Retention"):   *)
(* every layer keeps one entry per token, in the order of the tokens.  A   *)
(* forward hands its tokens to the layers from the first to the last, so   *)
(* no layer is ahead of an earlier one, and none starts the next tokens    *)
(* before the last layer has got the previous ones.                        *)
(***************************************************************************)
EXTENDS Integers, Sequences

CONSTANTS
  NumLayers,            (* number of decoder layers            *)
  MaxFed                (* the most tokens a forward is given  *)

VARIABLE kv             (* the tokens whose entries each layer keeps *)

Layer == 0..(NumLayers - 1)

\* The tokens from..to, which are numbered from 1.
TokenRange(from, to) == [i \in 1..(to - from + 1) |-> from + i - 1]

Init == kv = [l \in Layer |-> <<>>]

\* Layer l gets the next k tokens: the earlier layers have them already, the
\* later ones have what l had.
Keep(l, k) ==
  LET held == Len(kv[l])
  IN  /\ \A m \in Layer : kv[m] = TokenRange(1, IF m < l THEN held + k ELSE held)
      /\ kv' = [kv EXCEPT ![l] = TokenRange(1, held + k)]

\* A new generation starts with an empty cache.
Clear == kv' = [l \in Layer |-> <<>>]

Next == Clear \/ \E l \in Layer, k \in 1..MaxFed : Keep(l, k)

Spec == Init /\ [][Next]_kv
=============================================================================

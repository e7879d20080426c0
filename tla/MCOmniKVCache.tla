--------------------------- MODULE MCOmniKVCache ----------------------------
(***************************************************************************)
(* Instances of OmniKVCache for TLC: layers 0 and 1 are full, 1 and 4      *)
(* select, 2 and 5 wait, 3, 6 and 7 use the selection.  Behaviours start   *)
(* with the settings of a configuration file (a Qwen3 model, chunks,       *)
(* WOPackCache) or with those of Llama (one chunk, OmniKVMultiStageCache,  *)
(* real offload), and keep them.                                           *)
(***************************************************************************)
EXTENDS OmniKVCache

TwoSelecting == {1, 4}

VARIABLE model

Llama == INSTANCE OmniKVCache WITH
  RealOffload <- TRUE, Packed <- TRUE, Accumulates <- FALSE, ChunkSize <- MaxPrompt

MCInit == \/ model = "qwen3" /\ Init
          \/ model = "llama" /\ Llama!Init

MCNext == /\ \/ model = "qwen3" /\ Next
             \/ model = "llama" /\ Llama!Next
          /\ UNCHANGED model

\* The settings of the configuration file alone.
AloneSpec == model = "qwen3" /\ Init /\ [][Next /\ UNCHANGED model]_<<vars, model>>

MCSpec == MCInit /\ [][MCNext]_<<vars, model>>
=============================================================================

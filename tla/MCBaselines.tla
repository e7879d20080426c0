----------------------------- MODULE MCBaselines -----------------------------
(***************************************************************************)
(* Instances for TLC of the baselines' caches: InfLLM with the settings of *)
(* the configuration file (strategy "lru") or with those of Chunk, or a    *)
(* cache of sinks and a window.  A behaviour keeps what it starts with.    *)
(***************************************************************************)
EXTENDS InfLLM

VARIABLES baseline, h_k, len_k, attended

sinkVars == <<h_k, len_k, attended>>

\* Any order of removal, and one choice of blocks for two execution blocks.
Chunk == INSTANCE InfLLM WITH
  n_init <- 1, n_local <- 2, block_size <- 1, cache_strategy <- "lru-s", TopkChunk <- 2,
  MaxLen <- 11, InputLens <- {1, 3, 7}

Sinks == INSTANCE SinkWindow WITH
  n_init <- 3, n_local <- 4, MaxLen <- 24, InputLens <- {1, 2, 3, 5, 9}, seen <- attended

MCInit ==
  /\ Sinks!Init
  /\ \/ baseline \in {"lru", "sinks"} /\ Init
     \/ baseline = "lru-s" /\ Chunk!Init

MCNext ==
  /\ \/ baseline = "lru" /\ Next /\ UNCHANGED sinkVars
     \/ baseline = "lru-s" /\ Chunk!Next /\ UNCHANGED sinkVars
     \/ baseline = "sinks" /\ Sinks!Next /\ UNCHANGED vars
  /\ UNCHANGED baseline

MCSpec == MCInit /\ [][MCNext]_<<vars, sinkVars, baseline>>

\* InfLLM's GPU memory is what the two structures that describe it say: the dict of
\* cached blocks (CachedIsResident) and the buffer of which only changes are copied
\* (BufferIsFresh; with blocks kept for several execution blocks, the first of these).
GpuMemoryExact ==
  IF baseline = "lru-s" THEN Chunk!CachedIsResident ELSE CachedIsResident /\ BufferIsFresh

\* A query of InfLLM misses nothing but the blocks that were not chosen
\* (NothingElseMissed) and sees nothing of its own input twice (NoInputTokenGlobal,
\* TwiceOnlyInBlock), with either strategy; the scores a block is represented by are
\* those of its tokens (ScoresAligned).
OnlyBlocksMissed ==
  IF baseline = "lru-s"
  THEN /\ Chunk!NothingElseMissed /\ Chunk!NoInputTokenGlobal
       /\ Chunk!TwiceOnlyInBlock /\ Chunk!ScoresAligned
  ELSE /\ NothingElseMissed /\ NoInputTokenGlobal
       /\ TwiceOnlyInBlock /\ ScoresAligned

\* However the text is cut into forwards, a query attends once to each sink and to
\* each token of its own window, and to nothing else (SinksAndWindow, NothingTwice).
SinksAndWindowOnce == Sinks!SinksAndWindow /\ Sinks!NothingTwice
=============================================================================

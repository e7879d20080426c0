SPECIFICATION MCSpec
CONSTANTS
  n_init = 2
  n_local = 3
  block_size = 2
  topk = 2
  max_cached_block = 3
  exc_block_size = 2
  cache_strategy = "lru"
  TopkChunk = 1
  MaxLen = 16
  InputLens = {1, 5}
INVARIANTS GpuMemoryExact OnlyBlocksMissed SinksAndWindowOnce
CHECK_DEADLOCK FALSE

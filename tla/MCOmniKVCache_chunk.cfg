SPECIFICATION AloneSpec
CONSTANTS
  NumLayers = 8
  SelectLayers <- TwoSelecting
  NumWait = 1
  RealOffload = FALSE
  Packed = TRUE
  Accumulates = TRUE
  ChunkSize = 2
  NumSelected = 2
  WindowSize = 0
  MaxPrompt = 5
  MaxDecode = 3
  MaxGenerations = 2
INVARIANT ChunkAttendsAll
CHECK_DEADLOCK FALSE

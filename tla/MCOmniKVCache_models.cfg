SPECIFICATION MCSpec
CONSTANTS
  NumLayers = 8
  SelectLayers <- TwoSelecting
  NumWait = 1
  RealOffload = FALSE
  Packed = FALSE
  Accumulates = TRUE
  ChunkSize = 2
  NumSelected = 4
  WindowSize = 4
  MaxPrompt = 6
  MaxDecode = 4
  MaxGenerations = 2
INVARIANTS SelectionInRange FreshSelection AttendedExactly
PROPERTY RetainsAll
CHECK_DEADLOCK FALSE

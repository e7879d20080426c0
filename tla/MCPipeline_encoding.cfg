CONSTANTS
  Group = {1}
  BestOf <- OneAnswer
  MaxNew <- TwoTokens
  Multimodal = TRUE
  Streaming = {}
  InferBatch = 1
SPECIFICATION AloneSpec
INVARIANTS DisconnectStops
CHECK_DEADLOCK FALSE

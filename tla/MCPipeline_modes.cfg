CONSTANTS
  Group = {1, 2}
  BestOf <- TwoAnswers
  MaxNew <- TwoTokens
  Multimodal = FALSE
  Streaming = {2}
  InferBatch = 1
SPECIFICATION MCSpec
INVARIANTS EntriesMatch NoLostWakeup AbortLeavesNothing
PROPERTIES AnswersInOrder ImagesAnswered
CHECK_DEADLOCK FALSE

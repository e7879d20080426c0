CONSTANTS
  Request = {1, 2, 3, 4}
  Image = {"a", "b", "c"}
  ImagesOf <- Shared
  Capacity = 2
  Reserved = 1
  MayLeave = {1, 3}
  Streaming = {1, 3}
  TooLong = {2}
  MayExpire = FALSE
SPECIFICATION MCSpec
INVARIANTS ReferencesHold LoopsRunForStayers
PROPERTY StayersServed
CHECK_DEADLOCK FALSE

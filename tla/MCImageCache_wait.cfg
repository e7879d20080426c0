CONSTANTS
  Request = {1, 2, 3}
  Image = {"a", "b", "c", "d", "e"}
  ImagesOf <- Pairs
  Capacity = 2
  Reserved = 1
  MayLeave = {}
  Streaming = {}
  TooLong = {}
  MayExpire = FALSE
SPECIFICATION AloneSpec
PROPERTIES EveryRequestServed
CHECK_DEADLOCK FALSE

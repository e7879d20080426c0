CONSTANTS
  Request = {1, 2}
  Image = {"a", "b", "c"}
  ImagesOf <- Single
  Capacity = 1
  Reserved = 0
  MayLeave = {1}
  Streaming = {}
  TooLong = {}
  MayExpire = FALSE
SPECIFICATION AloneSpec
INVARIANTS LoopsRun
CHECK_DEADLOCK FALSE

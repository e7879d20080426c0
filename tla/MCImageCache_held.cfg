CONSTANTS
  Request = {1, 2, 3}
  Image = {"a", "b", "c", "d", "e"}
  ImagesOf <- Pairs
  Capacity = 2
  Reserved = 0
  MayLeave = {1}
  Streaming = {1}
  TooLong = {2}
  MayExpire = TRUE
SPECIFICATION AloneSpec
INVARIANTS HeldKept RefsAreHolders
CHECK_DEADLOCK FALSE

SPECIFICATION Spec
CONSTANTS
  Req <- ThreeReq
  InputLen <- LongInput
  MaxNew <- LongMaxNew
  IgnoreEos = {}
  MaxTotal = 21
  MaxReqTotal = 12
  BatchMaxTokens = 17
  RunningMaxReqSize = 2
  MaxWaitTokens = 1
  BusyFrom = 99
  RouterMaxNewTokenLen = 1
INVARIANTS SlotAccounting NeverOutOfMemory
CHECK_DEADLOCK FALSE

SPECIFICATION Spec
CONSTANTS
  Req <- ThreeReq
  InputLen <- ThreeInput
  MaxNew <- ThreeMaxNew
  IgnoreEos = {}
  MaxTotal = 17
  MaxReqTotal = 8
  BatchMaxTokens = 8
  RunningMaxReqSize = 3
  MaxWaitTokens = 1
  BusyFrom = 0
  RouterMaxNewTokenLen = 2
INVARIANT AbortReachesScheduled
CHECK_DEADLOCK FALSE

SPECIFICATION MCSpec
CONSTANTS
  Req <- ThreeReq
  InputLen <- ThreeInput
  MaxNew <- ThreeMaxNew
  IgnoreEos = {}
  MaxTotal = 19
  MaxReqTotal = 10
  BatchMaxTokens = 5
  RunningMaxReqSize = 3
  MaxWaitTokens = 1
  BusyFrom = 0
  RouterMaxNewTokenLen = 2
  Block = 2
INVARIANTS ForwardAsDecided TokenAccounting
PROPERTY BusyServes
CHECK_DEADLOCK FALSE

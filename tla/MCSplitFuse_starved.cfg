SPECIFICATION MCSpec
CONSTANTS
  Req <- OneReq
  InputLen <- OneInput
  MaxNew <- OneMaxNew
  IgnoreEos = {}
  MaxTotal = 20
  MaxReqTotal = 11
  BatchMaxTokens = 4
  RunningMaxReqSize = 2
  MaxWaitTokens = 1
  BusyFrom = 0
  RouterMaxNewTokenLen = 2
  Block = 1
PROPERTIES BusyServes
CHECK_DEADLOCK FALSE

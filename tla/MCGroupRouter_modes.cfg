SPECIFICATION ModesSpec
CONSTANTS
  Group <- ThreeGroups
  BestOf <- ThreeBestOf
  InputLen <- ThreeInput
  MaxNew <- ThreeMaxNew
  MayAbort <- ThreeGroups
  MaxTotal = 15
  MaxReqTotal = 6
  BatchMaxTokens = 6
  RunningMaxReqSize = 4
  MaxWaitTokens = 1
  BeamMode = FALSE
INVARIANTS TokensShared QueueHolds
PROPERTY BeamGroupsServed
CHECK_DEADLOCK FALSE

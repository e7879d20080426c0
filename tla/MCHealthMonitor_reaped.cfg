SPECIFICATION FairSpec
CONSTANTS
  Pids <- MCPids
  ParentOf <- MCParentOf
  MayDie = {"model"}
  MaxFailures = 3
PROPERTIES Restarted
CHECK_DEADLOCK FALSE

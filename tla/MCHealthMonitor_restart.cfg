SPECIFICATION FairSpec
CONSTANTS
  Pids <- MCPids
  ParentOf <- MCParentOf
  MayDie = {"router", "detokenization"}
  MaxFailures = 3
PROPERTIES Restarted
CHECK_DEADLOCK FALSE

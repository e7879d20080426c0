SPECIFICATION OtherSpec
CONSTANTS
  Grammars <- MCGrammars
  MaxWord = 8
  Modes = {"lifted", "stop", "bytes", "minimum", "decay"}
INVARIANTS MaskKept StopIsTold BytesContinue AlwaysConstrained
CHECK_DEADLOCK FALSE

SPECIFICATION MCSpec
CONSTANTS
  Grammars <- ElseGrammars
  MaxWord = 7
  Modes = {"grammar"}
INVARIANTS GrammarsAreLR1
CHECK_DEADLOCK FALSE

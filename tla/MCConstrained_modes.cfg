SPECIFICATION MCSpec
CONSTANTS
  Grammars <- MCGrammars
  MaxWord = 8
  Modes = {"grammar", "healing", "lifted", "choice"}
INVARIANTS WordsExact HealedAsPromised AnswerIsConstrained
CHECK_DEADLOCK FALSE

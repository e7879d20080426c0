CONSTANTS
  Req = {1, 2, 3, 4, 5}
  Token = {1, 2}
  MaxTotal = 9
  Prompt <- PromptsMixed
  GroupOf <- FirstTwo
  MaxNew <- NewMixed
SPECIFICATION Spec
INVARIANTS RightContent TokensOwned ReferencesExact EvictionReady
PROPERTIES StoresPrefixes
CHECK_DEADLOCK FALSE

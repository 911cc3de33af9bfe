SPECIFICATION Spec
CONSTANTS
  Parts <- MCParts
  Armors <- MCArmors
  Jewels <- MCJewels
  MaxHoles = 5
  Queries <- MCQueries
INVARIANTS
  SetsVerify
  AnswersAreShown
  NoSetTwice
  ResetRepeats
CHECK_DEADLOCK FALSE

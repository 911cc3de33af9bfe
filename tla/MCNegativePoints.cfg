SPECIFICATION SearchSpec
CONSTANTS
  PartSeq <- NegativeParts
  ArmorData <- NegativeArmors
  JewelData <- NegativeJewels
  Activation <- MCActivation
  TorsoUp = "torso_up"
  FOUNDATION_NUM = 2
  Queries <- NegativeQueries
  MaxSearches = 1
INVARIANT EveryAnswerFound
CHECK_DEADLOCK FALSE

SPECIFICATION SearchSpec
CONSTANTS
  PartSeq <- MCPartSeq
  ArmorData <- MCArmorData
  JewelData <- MCJewelData
  Activation <- MCActivation
  TorsoUp = "torso_up"
  FOUNDATION_NUM = 1
  Queries <- MCQueries
  MaxSearches = 2
INVARIANT ResultsVerify
INVARIANT JewelsFitArmors
INVARIANT KeysReachTargets
INVARIANT NeverCrashes
PROPERTY SearchEnds
PROPERTY FindsAnswers
CHECK_DEADLOCK FALSE

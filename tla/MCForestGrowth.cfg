SPECIFICATION GrowthSpec
CONSTANTS
  PartSeq <- MCPartSeq
  ArmorData <- MCArmorData
  JewelData <- MCJewelData
  Activation <- MCActivation
  TorsoUp = "torso_up"
  FOUNDATION_NUM = 1
  Queries <- MCQueries
  SubMins <- MCSubMins
  MaxSplits = 3
INVARIANT KeysTellTheSets
INVARIANT FoundationHoldsEverySet
INVARIANT SplitIsExact
INVARIANT MaxIsReached
CHECK_DEADLOCK FALSE

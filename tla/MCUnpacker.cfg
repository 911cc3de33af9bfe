SPECIFICATION Spec
CONSTANTS
  PartSeq <- MCPartSeq
  ArmorData <- MCArmorData
  JewelData <- MCJewelData
  Activation <- MCActivation
  TorsoUp = "torso_up"
  FOUNDATION_NUM = 2
  Queries <- MCQueries
  MaxResets = 1
PROPERTY GivesEverySetOnce
PROPERTY AllGivenAtLast
CHECK_DEADLOCK FALSE

SPECIFICATION Spec
CONSTANTS
  PartSeq <- MCPartSeq
  ArmorData <- MCArmorData
  JewelData <- MCJewelData
  Activation <- MCActivation
  TorsoUp = "torso_up"
  Effects <- MCEffects
  Blacklists <- MCBlacklists
  MAX_ONES = 5
  MAX_TWOS = 3
  MAX_THREES = 3
  SlotsLimit = 2
  HolesLimit = 4
  MultLimit = 2
  MaxQueries = 2
INVARIANT AnswerIsEveryStuffing
INVARIANT EntriesComplete
CHECK_DEADLOCK FALSE

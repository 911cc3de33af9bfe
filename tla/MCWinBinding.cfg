SPECIFICATION Spec
CONSTANTS
  SkillRows <- Skills3
  JewelRows <- Jewels2
  ArmorRows <- Armors6
  Queries <- ThreeQueries
  Jewelry <- JewelLists
  MaxSets = 2
  MaxSearches = 2
INVARIANTS
  IdsMeanTheirRows
  CallerSeesWhatWasFound
CHECK_DEADLOCK FALSE

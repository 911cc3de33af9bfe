SPECIFICATION RegressionSpec
CONSTANTS
  Skills <- MCSkills
  Armors <- MCArmors
  Jewels <- MCJewels
  Files <- MCFiles
  MaxFiles = 3
INVARIANT OnlyAvoidNegativeStays
CHECK_DEADLOCK FALSE

SPECIFICATION Spec
CONSTANTS
  Skills <- MCSkills
  Armors <- MCArmors
  Jewels <- MCJewels
  Connections = {c1, c2}
  Bodies <- MCBodies
  MaxRequests = 3
INVARIANT AnswerIsItsOwn
INVARIANT ResponseIsHeld
INVARIANT CutQueryIsAFront
PROPERTY RecordsAreFreed
CHECK_DEADLOCK FALSE

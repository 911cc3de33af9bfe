SPECIFICATION Spec
CONSTANTS
  MaxLength = 6
  ExtraCalls = 2
INVARIANTS
  EvaluatedOnce
  InOrder
PROPERTY CallsReturn
CHECK_DEADLOCK FALSE

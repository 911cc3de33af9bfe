SPECIFICATION PlacingSpec
CONSTANTS
  MaxSlots = 2
  MaxStages = 3
  Parts = 4
INVARIANT NeverOverstuffed
INVARIANT ResidualIsReal
INVARIANT ShownAsChosen
INVARIANT RestAlwaysFits
INVARIANT PartsKeepTheirSlots
CHECK_DEADLOCK FALSE

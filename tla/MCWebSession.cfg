SPECIFICATION Spec
CONSTANTS
  warrior = warrior
  broken = broken
  helm = helm
  boots = boots
  Choices <- Settings
  Screenable = {warrior}
  Unreadable = {broken}
  FirstChoice = warrior
  NSystems = 3
  Reachable <- ReachableSystems
  Armors = {helm, boots}
  Found <- FoundArmors
  CallIds = {1, 2}
  MaxScreens = 2
  MaxSearches = 3
  MaxBoth <- TwoScreensOrThreeSearches
INVARIANTS
  TypeOK
  ScreenIsPolled
  ResultIsOfTheQuery
  FilteredStaysOut
  FinishedMeansComplete
PROPERTIES
  ScreenIsExact
  PageComesToRest
CHECK_DEADLOCK FALSE

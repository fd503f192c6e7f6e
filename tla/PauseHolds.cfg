SPECIFICATION Spec
CONSTANTS
  ScreenIds <- MCScreenIds
  Strategies <- MCStrategies
  Horizon = 3
PROPERTIES
  PauseHoldsTheWall
CHECK_DEADLOCK FALSE

SPECIFICATION FairSpec
CONSTANTS
  ScreenIds <- MCScreenIds
  Strategies <- MCStrategies
  Horizon = 3
INVARIANTS
  TypeOK
  TourIndexInRange
  PinHoldsTour
  TransitionHasTarget
PROPERTIES
  LandsAsAnnounced
  EditKeepsScreen
  TourGoesRound
  SequencesRotate
CHECK_DEADLOCK FALSE

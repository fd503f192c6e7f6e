SPECIFICATION Spec
CONSTANTS
  QueueDepth = 2
  Vsync = 3
  Lead = 3
  Staggers = {0, 2}
  Resync = 5
  Slew = 1
  Cadences = {1, 4}
  Restarts = {0, 14}
  MaxFrames = 4
  MaxTime = 18
INVARIANTS
  TypeOK
  PendingIsFresh
  WaitingFrameStays
  TileKeepsMoving
PROPERTIES
  EarlyOnlyAfterEviction
CHECK_DEADLOCK FALSE

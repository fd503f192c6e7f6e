SPECIFICATION PacedSpec
CONSTANTS
  QueueDepth = 6
  Vsync = 50
  Lead = 150
  Staggers = {0, 50, 100, 150}
  Resync = 3000
  Slew = 3
  Cadences = {50}
  Restarts = {0}
  MaxFrames = 40
  MaxTime = 2000
INVARIANTS
  LeadStaysInsideQueue
CHECK_DEADLOCK FALSE

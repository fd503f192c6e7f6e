SPECIFICATION FairSpec
CONSTANTS
  Sources = {1, 2}
  YouTube = {2}
  HWCapable = {}
  HWCap = 0
  CmdCapacity = 1
  WorkerIds = {1, 2, 3}
  MaxEvents = 2
PROPERTIES
  EventuallyConverged
CHECK_DEADLOCK FALSE

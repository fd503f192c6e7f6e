SPECIFICATION FairSpec
CONSTANTS
  Sources = {1, 2}
  YouTube = {2}
  HWCapable = {}
  HWCap = 1
  CmdCapacity = 1
  WorkerIds = {1, 2, 3}
  MaxEvents = 1
PROPERTIES
  ManagerComesToRest
CHECK_DEADLOCK FALSE

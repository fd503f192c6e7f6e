SPECIFICATION Spec
CONSTANTS
  Sources = {1, 2}
  YouTube = {2}
  HWCapable = {1, 2}
  HWCap = 1
  CmdCapacity = 1
  WorkerIds = {1, 2, 3}
  MaxEvents = 2
INVARIANTS
  HwSessionsWithinCap
CHECK_DEADLOCK FALSE

SPECIFICATION Spec
CONSTANTS
  Sources = {s1, s2}
  s1 = s1
  s2 = s2
  Publishers = {"main", "manager", "handler", "worker"}
  ChunkBuffer = 1
  MaxChanges = 2
  MaxFreeBuffers = 2
  MaxFrames = 3
  MaxPanics = 1
  QueueSize = 1
  MaxSyncs = 1
INVARIANTS
  BuffersApart
PROPERTIES
  
  NoFrameStranded
  StopsInTheEnd
CHECK_DEADLOCK FALSE

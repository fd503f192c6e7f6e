SPECIFICATION Spec
CONSTANTS
  QueueDepth = 3
  MaxSeq = 7
INVARIANTS
  TypeOK
  NoSharedBuffer
  WholeFrames
PROPERTIES
  HeldFrameIsStable
  ImplementsPresentationQueue
CHECK_DEADLOCK FALSE

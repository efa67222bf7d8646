SPECIFICATION Spec
CONSTANTS
  MaxFrames = 3
INVARIANTS
  OneEventPerPendingFrame
  ProducersAreSafe
  FpsCounterIsAwake
PROPERTIES
  FramesInOrder
  FramesAreShown
  TeardownEnds
CHECK_DEADLOCK FALSE

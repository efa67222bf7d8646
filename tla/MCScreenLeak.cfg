SPECIFICATION Spec
CONSTANTS
  MaxFrames = 3
INVARIANTS
  NoRecursiveLock
CHECK_DEADLOCK FALSE

SPECIFICATION Spec
CONSTANTS
  MaxFrames = 6
  SC_CLOCK_RANGE = 4
  Date <- MCDate
  Delay <- MCDelay
INVARIANTS
  FramesAreClaimed
  ClockIsExact
PROPERTIES
  FramesInOrder
  FramesReachTheDevice
CHECK_DEADLOCK FALSE

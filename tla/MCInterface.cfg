SPECIFICATION InterfaceSpec
CONSTANTS
  Bounds <- MCBounds
  FullSize <- MCFullSize
  Users <- MCUsers
  MaxEvents = 1
INVARIANTS
  PendingSizeIsKept
  WindowFits
  ClicksHitTheFrame
  NothingSticks
  NothingIsSentWithoutControl

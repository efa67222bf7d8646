SPECIFICATION Spec
CONSTANTS
  Pts <- MCPts
  NoPts = NoPts
  NoPacket = NoPacket
  MaxPackets = 5
INVARIANTS
  FileIsFaithful
  NoLostWakeup
  PacketsAreOwned
PROPERTIES
  FailureIsFinal
  FramesReachTheFile
  ImplementsRecording

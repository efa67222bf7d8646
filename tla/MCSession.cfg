SPECIFICATION Spec
CONSTANTS
  MaxPackets = 3
  External = {e1}
  DECODER_MAX_SINKS = 2
INVARIANTS
  DecoderGetsTheStream
  SinksAreUsedWhileOpen
  NothingOutlivesTheSession
  ZeroMemoryIsSafe
PROPERTIES
  SessionEnds

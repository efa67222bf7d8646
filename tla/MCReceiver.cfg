SPECIFICATION ReceiverSpec
CONSTANTS
  MaxSize = 5
  MaxTexts = 3
INVARIANTS
  TextsAreReceived
PROPERTIES
  TextsReachTheClipboard

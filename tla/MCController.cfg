SPECIFICATION Spec
CONSTANTS
  Capacity = 2
  NoMsg = NoMsg
  MaxMsgs = 6
INVARIANTS
  MessagesAreSafe
PROPERTIES
  MessagesAreSent
  TeardownEnds
  ImplementsWorkQueue

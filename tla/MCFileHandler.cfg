SPECIFICATION Spec
CONSTANTS
  Capacity = 2
  NoFile = NoFile
  MaxFiles = 5
INVARIANTS
  KillsItsOwnProcess
  FilesAreOwned
PROPERTIES
  TeardownEnds
  ImplementsWorkQueue

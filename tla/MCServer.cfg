SPECIFICATION ServerSpec
CONSTANTS
  FirstPort = 1
  LastPort = 2
INVARIANTS
  ResourcesAreReleased
  KillsItsOwnProcess
PROPERTIES
  AcceptIsUnblocked
  StopEnds

CONSTANTS
  MaxStarts = 2
  MaxFaults = 2
SPECIFICATION FairSpec
INVARIANTS
  SocketsMatch
  NothingIsLeft
PROPERTIES
  StartEnds
  ReturnEnds
  CaptureEnds
\* Nobody has to connect any more.
CHECK_DEADLOCK FALSE

CONSTANTS
  MaxSignIns = 2
  MaxDisconnects = 2
  MaxTaps = 4
  MaxLost = 1
SPECIFICATION FairSpec
INVARIANTS
  SignedOutIsSilent
  OneLossIsHarmless
PROPERTIES
  ConnectingEnds
  TakeoverIsShown
\* The user may stop tapping.
CHECK_DEADLOCK FALSE

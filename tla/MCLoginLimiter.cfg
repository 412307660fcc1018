CONSTANTS
  Limit = 3
  Window = 4
  MaxPending = 3
SPECIFICATION FairSpec
INVARIANTS
  TypeOK
  AtMostTwoBursts
  CountsTheWindow
PROPERTIES
  LockoutEnds

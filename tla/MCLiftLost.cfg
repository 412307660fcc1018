CONSTANTS
  MaxPointer = 2
  MaxEvents = 4
  MaxRevision = 1
  MaxKeys = 0
  Limit = 3
  MayBreak = FALSE
SPECIFICATION Spec
CHECK_DEADLOCK FALSE
INVARIANTS LiftIsNotLost

CONSTANTS
  MaxPointer = 2
  MaxEvents = 3
  MaxRevision = 2
  MaxKeys = 1
  Limit = 0
  MayBreak = TRUE
SPECIFICATION FairSpec
CHECK_DEADLOCK FALSE
INVARIANTS
  NoForgottenContact
  OneRevision
  NoPhantomContact
PROPERTIES
  PositionNeverBack
  QuietScreenIsReleased

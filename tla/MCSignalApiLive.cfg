CONSTANTS
  Sessions = {s1}
  Clients = {c1}
  Gateways = {g1}
  NoPeer = NoPeer
  NoSession = NoSession
  PendingCap = 1
  SendCap = 1
  MaxMessages = 1
  Ops = {o1, o2}
  Kinds = {"create", "delete", "logout"}
  MayExpire = FALSE
SPECIFICATION FairApiSpec
CHECK_DEADLOCK FALSE
PROPERTIES
  DeadConnectionFreesSlot
  ClosedPeerEnds
  DeletionDisconnects

CONSTANTS
  Sessions = {s1}
  Clients = {c1}
  Gateways = {g1}
  NoPeer = NoPeer
  NoSession = NoSession
  PendingCap = 1
  SendCap = 1
  MaxMessages = 0
  Ops = {o1, o2}
  Kinds = {"create", "delete"}
  MayExpire = FALSE
SPECIFICATION ApiSpec
CHECK_DEADLOCK FALSE
INVARIANTS DeletedSessionIsSilent

CONSTANTS
  Sessions = {s1, s2}
  Clients = {c1, c2}
  Gateways = {g1}
  NoPeer = NoPeer
  NoSession = NoSession
  PendingCap = 1
  SendCap = 1
  MaxMessages = 1
  Ops = {o1, o2}
  Kinds = {"create", "delete", "logout"}
  MayExpire = TRUE
SPECIFICATION ApiSpec
CHECK_DEADLOCK FALSE
SYMMETRY Symmetry
INVARIANTS
  OneUnrevokedSession
  SlotHasHandler

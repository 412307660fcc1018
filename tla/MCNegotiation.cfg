CONSTANTS
  Sessions = {s1, s2}
  Clients = {c1, c2}
  Gateways = {g1, g2, g3, g4, g5}
  NoPeer = NoPeer
  NoSession = NoSession
  MinCap = 4
  MaxCap = 4
  MaxCandidates = 1
  MaxEvents = 1
  MayExpire = TRUE
SPECIFICATION FairNegSpec
INVARIANTS
  NegTypeOK
  AnswerIsAwaited
  OfferIsAccountedFor
PROPERTIES
  UnexpiredIsServed
  RevokedIsLeft
\* A behaviour ends when every app has come and gone.
CHECK_DEADLOCK FALSE

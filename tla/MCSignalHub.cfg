CONSTANTS
  Sessions = {s1, s2}
  Clients = {c1, c2}
  Gateways = {g1, g2}
  NoPeer = NoPeer
  NoSession = NoSession
  PendingCap = 2
  SendCap = 2
  MaxMessages = 3
SPECIFICATION Spec
SYMMETRY Symmetry
CHECK_DEADLOCK FALSE
INVARIANTS
  NoLeakedRoom
  SlotsAreLive
  EvictedIsTold
  WaitOnlyForAbsent
  WithinCaps
  NeverHung
  DeliveredInOrder
  NoCrossTalk
PROPERTIES
  ImplementsMailbox

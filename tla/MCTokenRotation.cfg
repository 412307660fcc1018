CONSTANTS
  Tokens = {t1, t2, t3}
  Clients = {c1, c2}
  Calls = {k1, k2, k3, k4}
  NoToken = NoToken
  NoClient = NoClient
SPECIFICATION Spec
SYMMETRY Symmetry
INVARIANTS
  OneCredentialPerLogin
  NotLockedOut
  LogoutEndsLogins
\* A behaviour ends when every call was made.
CHECK_DEADLOCK FALSE

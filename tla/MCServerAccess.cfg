CONSTANTS
  Tokens = {t1, t2}
  NoToken = NoToken
  Requests = {r1, r2}
  Sockets = {k1, k2, k3}
  Pollers = {p1, p2}
  MaxDevices = 2
  MaxSockets = 2
  MaxPerToken = 1
SPECIFICATION Spec
SYMMETRY Symmetry
INVARIANTS
  CacheIsCoherent
  RevokedIsRefused
  NothingAfterRevoke
  SlotsAreReturned
  OnePoller
  ListenersAreServed

CONSTANTS
  Callers = {c1, c2}
  Sessions = {s1, s2}
  NoSession = NoSession
  Keys = {k1, k2}
  NoKey = NoKey
  Ttl = 2
  MaxDelay = 1
  MaxStreams = 1
  Chunks = 3
  Capacity = 1
SPECIFICATION Spec
SYMMETRY Symmetry
INVARIANTS
  RecoveryKeyOpens
  OneLiveHandle
  LateIsBounded

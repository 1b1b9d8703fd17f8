CONSTANTS
  Callers = {c1, c2}
  Sessions = {s1}
  NoSession = NoSession
  Keys = {k1}
  NoKey = NoKey
  Ttl = 2
  MaxDelay = 1
  MaxStreams = 1
  Chunks = 2
  Capacity = 1
SPECIFICATION FairSpec
INVARIANTS
  BodyIsWhole
PROPERTIES
  ProducersEnd
  IdleIsRevoked

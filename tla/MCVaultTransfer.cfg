CONSTANTS
  Requests = {r1}
  Assets = {a1, a2}
  NoAsset = NoAsset
  HashOf <- SameHash
  Paged = {}
  MaxTransfers = 2
  MaxBegun = 2
  MaxFaults = 1
SPECIFICATION MCSpec
INVARIANTS
  AlwaysACopy
  CrashIsCompletable
  LeasedIsClosed
  IssuedIsReconciled
PROPERTIES
  ImplementsMove
  InterruptedSettles
CHECK_DEADLOCK FALSE

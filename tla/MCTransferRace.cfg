CONSTANTS
  Requests = {r1, r2}
  Assets = {a1}
  NoAsset = NoAsset
  HashOf <- SameHash
  Paged = {}
  MaxTransfers = 3
SPECIFICATION RaceSpec
INVARIANTS
  AlwaysACopy
CHECK_DEADLOCK FALSE

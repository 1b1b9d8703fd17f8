CONSTANTS
  Requests = {r1, r2}
  Assets = {a1}
  NoAsset = NoAsset
  HashOf <- SameHash
  Paged = {}
  MaxTransfers = 1
  MaxBegun = 1
  MaxFaults = 0
SPECIFICATION MCSpec
INVARIANTS
  CommittedIsCompletable
CHECK_DEADLOCK FALSE

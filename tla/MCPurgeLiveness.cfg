CONSTANTS
  h1 = h1
  NoAsset = NoAsset
  Assets = {a1, a2}
  Hashes = {h1}
  HashOf <- SameHash
  Stacks = {s1}
  MaxPages = 2
  MaxChapters = 2
  Ticker = ticker
  ApiCalls = {call}
SPECIFICATION FairSpec
INVARIANTS
  StacksAreWellFormed
PROPERTIES
  TombstonesAreResolved
  ExpiryIsHonoured

CONSTANTS
  h1 = h1
  NoAsset = NoAsset
  Assets = {a1, a2, a3}
  Hashes = {h1}
  HashOf <- SameHash
  Stacks = {s1}
  MaxPages = 1
  MaxChapters = 1
  Ticker = ticker
  ApiCalls = {}
SPECIFICATION Spec
SYMMETRY Symmetry
INVARIANTS
  NeededIsStored
  TombstonesAreFree
  DuplicatesNameAnOriginal
  OnePrimaryPerHash
  VisibleIsExact
  DerivedHasRow
PROPERTIES
  LastCopyWasTrashed
  ImplementsPromise

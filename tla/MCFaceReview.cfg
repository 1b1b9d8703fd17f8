CONSTANTS
  t1 = t1
  t2 = t2
  a1 = a1
  a2 = a2
  m1 = m1
  Threads = {t1, t2}
  Assets = {a1, a2}
  NoAsset = NoAsset
  Models = {m1}
  NoModel = NoModel
  Active = {"main"}
  MaxMoves = 1
  MaxFaces = 2
  MaxClusters = 2
  MinSize = 1
  RowBudget = 1
SPECIFICATION Spec
SYMMETRY Symmetry
INVARIANTS
  LabelFits
  OneAnalysis
PROPERTIES
  VerdictStands
CHECK_DEADLOCK FALSE

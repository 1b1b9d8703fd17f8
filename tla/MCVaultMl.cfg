CONSTANTS
  MaxJobs = 3
  Assets = {a1}
  NoAsset = NoAsset
  MaxActive = 2
  MaxActiveMl = 2
  MaxTerminal = 1
  MaxGenerations = 2
  MaxFaults = 1
SPECIFICATION MCSpec
INVARIANTS
  OneTaskPerRequest
PROPERTIES
  AbandonedIsCancelled
  OldTasksEnd
  QueuedIsServed
CHECK_DEADLOCK FALSE

CONSTANTS
  MaxJobs = 2
  Assets = {a1}
  NoAsset = NoAsset
  MaxActive = 2
  MaxActiveMl = 2
  MaxTerminal = 1
  Workers = {w1, w2}
  GateLimit = 1
  MaxInterruptions = 1
  MaxErrors = 1
SPECIFICATION MCFairSpec
INVARIANTS
  OneRunnerPerRequest
PROPERTIES
  CancelIsFinal
  JobsAreAnswered
  StopEnds

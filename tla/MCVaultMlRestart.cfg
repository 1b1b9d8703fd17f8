CONSTANTS
  MaxJobs = 2
  Assets = {a1}
  NoAsset = NoAsset
  MaxActive = 2
  MaxActiveMl = 2
  MaxTerminal = 1
  MaxGenerations = 2
  MaxFaults = 1
SPECIFICATION RestartSpec
PROPERTIES
  InterruptedIsRetried
CHECK_DEADLOCK FALSE

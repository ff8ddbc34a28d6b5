CONSTANTS
  w1 = w1
  w2 = w2
  left = left
  right = right
  both = both
  bomb = bomb
  spark = spark
  fuse = fuse
  dull = dull
  CrashRun = CrashRun
  NoInput = NoInput
  Lane = 1
  Blocks = 2
  CoverCounters = FALSE
  Workers <- OneWorker
  Data <- LeftBoth
  Runs <- SteadyRuns
  Hanging <- MCHanging
  Suppression <- MCSuppression
  ResOf <- NoResOf
  Smaller <- MCSmaller
  UserCorpus <- LeftBoth
  OldCorpus <- None
  Foreign <- None
  Dup = FALSE
  MaxFaults = 1
  MaxReports = 2
  MaxCrashes = 0
SPECIFICATION FairSpec
PROPERTIES BarrierOpens SendersFreed FoundInputsTriaged

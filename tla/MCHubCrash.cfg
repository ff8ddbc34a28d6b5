CONSTANTS
  w1 = w1
  w2 = w2
  left = left
  right = right
  both = both
  bomb = bomb
  spark = spark
  fuse = fuse
  dull = dull
  CrashRun = CrashRun
  NoInput = NoInput
  Lane = 1
  Blocks = 2
  CoverCounters = FALSE
  Workers <- OneWorker
  Data <- CrashInputs
  Runs <- FlakyRuns
  Hanging <- MCHanging
  Suppression <- MCSuppression
  ResOf <- NoResOf
  Smaller <- MCSmaller
  UserCorpus <- LeftOnly
  OldCorpus <- None
  Foreign <- None
  Dup = FALSE
  MaxFaults = 2
  MaxReports = 0
  MaxCrashes = 1
SPECIFICATION FairSpec
INVARIANT HonestCover
PROPERTY CrashersReachHub
CHECK_DEADLOCK FALSE

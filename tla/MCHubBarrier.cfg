CONSTANTS
  w1 = w1
  w2 = w2
  left = left
  right = right
  both = both
  bomb = bomb
  spark = spark
  fuse = fuse
  dull = dull
  CrashRun = CrashRun
  NoInput = NoInput
  Lane = 1
  Blocks = 2
  CoverCounters = FALSE
  Workers <- OneWorker
  Data <- CoverInputs
  Runs <- SteadyRuns
  Hanging <- MCHanging
  Suppression <- MCSuppression
  ResOf <- NoResOf
  Smaller <- MCSmaller
  UserCorpus <- LeftOnly
  OldCorpus <- RightOnly
  Foreign <- BothOnly
  Dup = FALSE
  MaxFaults = 0
  MaxReports = 0
  MaxCrashes = 0
SPECIFICATION Spec
INVARIANT BarrierHolds

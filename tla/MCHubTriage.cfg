CONSTANTS
  w1 = w1
  w2 = w2
  left = left
  right = right
  both = both
  bomb = bomb
  spark = spark
  fuse = fuse
  dull = dull
  CrashRun = CrashRun
  NoInput = NoInput
  Lane = 1
  Blocks = 2
  CoverCounters = FALSE
  Workers <- TwoWorkers
  Data <- CoverInputs
  Runs <- SteadyRuns
  Hanging <- MCHanging
  Suppression <- MCSuppression
  ResOf <- NoResOf
  Smaller <- MCSmaller
  UserCorpus <- BothOnly
  OldCorpus <- None
  Foreign <- RightOnly
  Dup = FALSE
  MaxFaults = 1
  MaxReports = 0
  MaxCrashes = 0
SPECIFICATION Spec
INVARIANTS TypeOK BarrierBacked CorpusWithinMax NoCoverageLost NoHerd

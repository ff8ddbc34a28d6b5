CONSTANTS
  h1 = h1
  h2 = h2
  x1 = x1
  x2 = x2
  c1 = c1
  c2 = c2
  s1 = s1
  NoCrash = NoCrash
  Hubs <- MCHubs
  Inputs <- OneInput
  UserCorpus <- NoInputs
  CrashInputs = {c1}
  Suppressions = {s1}
  SuppOf <- MCSuppOf
  Dup = FALSE
  MaxExecs = 1
  MaxCrashes = 1
  MaxFaults = 2
  MaxDiskFaults = 0
SPECIFICATION LiveSpec
CONSTRAINT Bounded
INVARIANT StatsConserved
PROPERTIES EveryHubLearns CallsReturn

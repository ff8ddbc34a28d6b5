CONSTANTS
  h1 = h1
  h2 = h2
  x1 = x1
  x2 = x2
  c1 = c1
  c2 = c2
  s1 = s1
  NoCrash = NoCrash
  Hubs <- OneHub
  Inputs <- OneInput
  UserCorpus <- NoInputs
  CrashInputs = {}
  Suppressions = {s1}
  SuppOf <- MCSuppOf
  Dup = FALSE
  MaxExecs = 0
  MaxCrashes = 0
  MaxFaults = 1
  MaxDiskFaults = 0
SPECIFICATION Spec
INVARIANT FoundInputsPersist

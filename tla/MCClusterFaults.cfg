CONSTANTS
  h1 = h1
  h2 = h2
  x1 = x1
  x2 = x2
  c1 = c1
  c2 = c2
  s1 = s1
  NoCrash = NoCrash
  Hubs <- OneHub
  Inputs <- OneInput
  UserCorpus <- NoInputs
  CrashInputs <- TwoCrashes
  Suppressions = {s1}
  SuppOf <- MCSuppOf
  Dup = FALSE
  MaxExecs = 0
  MaxCrashes = 2
  MaxFaults = 2
  MaxDiskFaults = 1
SPECIFICATION Spec
SYMMETRY CrashSym
INVARIANTS OneCrasherPerSuppression
PROPERTIES CorpusServiceSpec

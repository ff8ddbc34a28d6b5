CONSTANTS
  Lane = 2
  Blocks = 2
  CoverCounters = TRUE
  Observed <- MCObserved
  Finds <- MCFinds
  MaxCorpus = 4
  main = main
  g1 = g1
  g2 = g2
  Goroutines <- MCGoroutines
  Main = main
  RegionSize = 5
  SonarHdrLen = 1
  Operands = {0, 1}
  MaxTests = 2
  MaxCalls = 3
  Base = 4
  Wide = 3
  MaxHint = 8
  HexDigit <- MCHexDigit
  HexBase = 2
  Radix = 2
  Separator <- MCSeparator
  Logs <- MCLogs
  Values = {0, 1}
  Enough = 0
  Plenty = 2
  MaxSamples = 4
  Texts <- MCTexts
SPECIFICATION AlgorithmsSpec
CHECK_DEADLOCK FALSE
INVARIANTS
  VectorAgrees NewIffGrows MinimizedStillNew SummaryIsExact
  FavoredSetRight DrawnByWeight
  RecordsWhole LogParsed
  EvaluateExact HintsComplete
  SkipEarned
  TextKept StructureFound

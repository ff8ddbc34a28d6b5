CONSTANTS
  good = good
  crasher = crasher
  stuck = stuck
  NoInput = NoInput
  Inputs = {good, crasher, stuck}
  Crashing = {crasher}
  Hanging = {stuck}
  Chatter <- MCChatter
  Limits = {1, 2}
  PipeCap = 1
  BufSize = 4
  MaxTests = 2
  MaxSlow = 1
SPECIFICATION FairSpec
CHECK_DEADLOCK FALSE
INVARIANTS NeverFatal OneProcess OwnKillsNotReported BlameNeedsTimeout ExecsWithinRestarts BufferHasRoom
PROPERTIES ServiceSpec TestReturns HelpersEnd

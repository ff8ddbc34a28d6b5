CONSTANTS
  good = good
  crasher = crasher
  stuck = stuck
  NoInput = NoInput
  Inputs = {good, crasher, stuck}
  Crashing = {crasher}
  Hanging = {stuck}
  Chatter <- MCChatter
  Limits = {1, 2}
  PipeCap = 1
  BufSize = 4
  MaxTests = 2
  MaxSlow = 1
SPECIFICATION Spec
CHECK_DEADLOCK FALSE
INVARIANT OnlyBadReported

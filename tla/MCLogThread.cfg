CONSTANTS
  Events = {e1, e2, e3}
  Fatal = {e3}
  Batch = 2
  PipeCap = 1
SPECIFICATION LogFairSpec
INVARIANTS
  EarlyPrinted
PROPERTY SendReturns

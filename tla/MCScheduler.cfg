CONSTANTS
  N = 2
  Fibers = {f1}
  CbFibers = {}
  Throwing = {f1}
  Sleepers = {f1}
  Stopped = {0, 1}
  Dispatching = TRUE
  SemCap = 1
  NoFiber = NoFiber
SPECIFICATION SchedFairSpec
INVARIANTS
  ReactorOutlivesFibers
  NoEarlyExit
PROPERTIES
  QueuedRuns
  StopJoinsWorkers

CONSTANTS
  N = 2
  Fibers = {f1, f2}
  CbFibers = {f2}
  Throwing = {}
  Sleepers = {f2}
  Stopped = {0, 1}
  Dispatching = TRUE
  SemCap = 1
  NoFiber = NoFiber
SPECIFICATION Spec
CONSTRAINT Bounded
ACTION_CONSTRAINT DispatchLate
INVARIANTS
  OneRunner
  ResumeSaved
  OnePlace
  NoLostWakeup

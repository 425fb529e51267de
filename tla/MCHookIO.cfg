CONSTANTS
  Fds = {d1}
  Fibers = {f1, f2}
  Timed = {f1, f2}
  Connecting = {f2}
  Closable = {d1}
  Types = {WRITE}
  NoFiber = NoFiber
  MaxIter = 2
SPECIFICATION HookFairSpec
INVARIANTS
  WokenOnce
  NoTimerLeft
  ConnectTruthful
PROPERTY TimeoutEnds

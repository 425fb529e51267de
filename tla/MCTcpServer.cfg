CONSTANTS
  Fds = {3, 4}
  Nobody = Nobody
  Listeners = {l1, l2}
  Conns = {c1}
  User = User
  StopFiber = StopFiber
  Infinite = Infinite
  Timeout = T
  MaxStops = 1
SPECIFICATION Spec
INVARIANTS
  EntryIsOwn
  NonBlockKept
  NoLeak
CHECK_DEADLOCK FALSE
PROPERTIES
  StopEnds
  PendingTaken

CONSTANTS
  Fds = {d1, d2}
  Fibers = {f1, f2}
  Types = {READ, WRITE}
  NoFiber = NoFiber
SPECIFICATION ReactorFairSpec
INVARIANTS
  NoMissedReadiness
  HoldMatches
PROPERTY ReadyWakes

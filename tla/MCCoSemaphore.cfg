CONSTANTS
  Fibers = {f1, f2, f3, f4}
  Value = 1
  MaxSignals = 2
SPECIFICATION CoFairSpec
INVARIANTS
  PermitsConserved
PROPERTIES
  AbsSpec
  WaiterServed

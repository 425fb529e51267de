CONSTANTS
  Timers = {1, 2, 3}
  Loops = {}
  Interval <- ThreeIntervals
  MaxTimeOut = 2
  MaxTime = 2
  MaxFires = 2
SPECIFICATION TimerFairSpec
INVARIANTS
  CancelFindsTimer
  NoOversleep
PROPERTIES
  CancelPreventsFiring
  TimerFires

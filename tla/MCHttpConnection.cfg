CONSTANTS
  Scripts <- MCScripts
  HeaderSize = 32
  MaxCuts = 2
SPECIFICATION Spec
INVARIANTS
  ResponseDelivered
  NoSpuriousFailure
PROPERTIES
  ResponseEnds
CHECK_DEADLOCK FALSE

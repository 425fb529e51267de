CONSTANTS
  Methods <- MCMethods
  FormType <- MCFormType
  Scripts <- MCScripts
  HeaderSize = 64
  MaxCuts = 1
  Paths <- MCPaths
  Patterns <- MCPatterns
  fnmatch <- MCfnmatch
  Default = Default
  Servlets = {s1, s2}
  MaxOps = 3
SPECIFICATION Spec
INVARIANTS
  RequestDelivered
  NoSpuriousClose
  MatchIsStanding
PROPERTIES
  RequestEnds
CHECK_DEADLOCK FALSE

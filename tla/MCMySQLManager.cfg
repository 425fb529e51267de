CONSTANTS
  Users = {u1, u2}
  Conns = {1, 2, 3, 4, 5, 6}
  Names = {root, other}
  Root = root
  NoConn = 0
  MaxConns = 1
  MaxDowns = 2
SPECIFICATION Spec
INVARIANTS
  ExclusiveUse
PROPERTIES
  RetryServed
CHECK_DEADLOCK FALSE

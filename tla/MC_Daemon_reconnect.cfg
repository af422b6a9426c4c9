SPECIFICATION Spec
CONSTANTS
  Node = {n1, n2}
  Client = {k1, k2}
  MaxConns = 2
  None = none
INVARIANT
  ConnectedIsListed
CHECK_DEADLOCK FALSE

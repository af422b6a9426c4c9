SPECIFICATION Spec
CONSTANTS
  Node = {n1, n2}
  Client = {k1, k2}
  MaxConns = 2
  None = none
INVARIANTS
  TypeOK
  SoleConnectionListed
  StaleEntryIsEarly
PROPERTIES
  DisconnectIsFinal
  DeadIsDelisted
  DisconnectedIsDropped
CHECK_DEADLOCK FALSE

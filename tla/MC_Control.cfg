SPECIFICATION Spec
CONSTANTS
  Proc = {d1, d2}
  Cli = {k1, k2}
  None = none
  MaxHeight = 1
INVARIANTS
  WalletReady
  InfoOrdered
PROPERTIES
  ClientsEnd
  StopEnds
  StartRecovers
CHECK_DEADLOCK FALSE

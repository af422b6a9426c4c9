SPECIFICATION Spec
CONSTANTS
  Client = {k1, k2}
  Peer = {p1}
  NodeA = 2
  NodeB = 1
  FundingBlocks = 6
  BlockLimit = 64
  TxLimit = 4
  OutLimit = 2
  MineArgs = {0, 1}
  MaxBlocks = 6
  Typed <- MCTyped
  Foreign = foreign
  None = none
  MaxCommands = 3
  MaxExternal = 2
SYMMETRY MCSymmetry
INVARIANT
  UpdateVerifies
CHECK_DEADLOCK FALSE

SPECIFICATION Spec
CONSTANTS
  Proc = {d1, d2}
  Cli = {k1, k2}
  None = none
  MaxHeight = 1
INVARIANT
  SoleDaemonReachable
CHECK_DEADLOCK FALSE

SPECIFICATION Spec
CONSTANTS
  Nodes = {n1, n2}
  None = None
  MaxSnaps = 2
  MaxCalls = 1
  MaxFaults = 1
INVARIANTS TombstoneUntilClean
CHECK_DEADLOCK FALSE

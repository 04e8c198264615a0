SPECIFICATION Spec
CONSTANTS
  Task = {t1, t2}
  None = None
  Cap = 1
  MaxTries = 2
  MaxFaults = 0
  MaxRequests = 0
INVARIANT CapRespected
CHECK_DEADLOCK FALSE

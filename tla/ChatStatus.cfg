SPECIFICATION Spec
CONSTANTS
  Task = {t1, t2}
  None = None
  Cap = 2
  MaxTries = 2
  MaxFaults = 0
  MaxRequests = 0
INVARIANT OwnerShownRunning
CHECK_DEADLOCK FALSE

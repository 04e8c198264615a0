SPECIFICATION FairSpec
CONSTANTS
  Task = {t1, t2}
  None = None
  Cap = 2
  MaxTries = 1
  MaxFaults = 0
  MaxRequests = 1
PROPERTIES LockKept LoserStops
CHECK_DEADLOCK FALSE

SPECIFICATION Spec
CONSTANTS
  Task = {t1, t2}
  None = None
  Cap = 2
  MaxTries = 2
  MaxFaults = 0
  MaxRequests = 0
INVARIANTS ChatSettles HandoverTaken
CHECK_DEADLOCK FALSE

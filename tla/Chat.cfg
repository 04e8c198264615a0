SPECIFICATION Spec
CONSTANTS
  Task = {t1, t2}
  None = None
  Cap = 2
  MaxTries = 2
  MaxFaults = 1
  MaxRequests = 1
SYMMETRY ChatSymmetry
INVARIANTS Watched GivenBack RunningHasCause
PROPERTIES LockKept
CHECK_DEADLOCK FALSE

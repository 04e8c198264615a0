SPECIFICATION FairSpec
CONSTANTS
  Job = {j1, j2}
  Request = {r1}
  User = {u1}
  None = None
  MaxRetries = 1
  MaxDefers = 1
  MaxDeliveries = 2
  MaxFaults = 1
INVARIANTS TypeOK WaitingHasRequest SucceededMeansCompleted
PROPERTIES RunningEnds WaitingEnds
CHECK_DEADLOCK FALSE

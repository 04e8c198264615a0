SPECIFICATION Spec
CONSTANTS
  Job = {j1, j2}
  Request = {r1}
  User = {u1, u2}
  None = None
  MaxRetries = 1
  MaxDefers = 1
  MaxDeliveries = 1
  MaxFaults = 0
INVARIANTS ResolvedOnce GateHasRequest
CHECK_DEADLOCK FALSE

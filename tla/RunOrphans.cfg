SPECIFICATION Spec
CONSTANTS
  Job = {j1, j2}
  Request = {r1}
  User = {u1}
  None = None
  MaxRetries = 1
  MaxDefers = 1
  MaxDeliveries = 1
  MaxFaults = 0
PROPERTIES SweepsOrphans
CHECK_DEADLOCK FALSE

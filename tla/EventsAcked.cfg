SPECIFICATION FairSpec
CONSTANTS
  Controllers = {c1}
  Events = {e1}
  None = None
  MaxFaults = 1
CHECK_DEADLOCK FALSE
PROPERTY AckedDelivered

SPECIFICATION Spec
CONSTANTS
  Task = {t1, t2}
  None = None
  Cap = 2
  MaxTries = 2
  MaxFaults = 0
  MaxRequests = 1
INVARIANT HealsWhatItSaw
CHECK_DEADLOCK FALSE

SPECIFICATION FairSpec
CONSTANTS
  Controllers = {c1}
  Events = {e1, e2}
  None = None
  MaxFaults = 2
CHECK_DEADLOCK FALSE
PROPERTIES BlockedOwnerNotFired

SPECIFICATION FairSpec
CONSTANTS
  Controllers = {c1, c2}
  Events = {e1}
  None = None
  MaxFaults = 2
CHECK_DEADLOCK FALSE
INVARIANT StampedWasQueued
PROPERTY EventsSettle

SPECIFICATION FairSpec
CONSTANTS
  Controllers = {c1}
  Events = {e1, e2}
  None = None
  MaxFaults = 1
CHECK_DEADLOCK FALSE
INVARIANTS TypeOK StampedWasQueued
PROPERTIES SlotUsedOnce EventsSettle

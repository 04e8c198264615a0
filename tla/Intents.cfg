SPECIFICATION FairIntentSpec
CONSTANTS
  Holder = {h1, h2}
  None = None
  Intent = {i1}
  MaxFaults = 1
  MaxAttempts = 2
INVARIANTS MutatedByRecorder
PROPERTIES RecordedUnderLease IntentsSettle
CHECK_DEADLOCK FALSE

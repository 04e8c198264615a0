SPECIFICATION Spec
CONSTANTS
    Interval = 0
    MaxWrites = 3
    MaxSnapshots = 3
    MaxFaults = 0
    MaxDisruptions = 2
INVARIANT RestoreExact
CHECK_DEADLOCK FALSE

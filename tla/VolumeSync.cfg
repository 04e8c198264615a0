SPECIFICATION FairSpec
CONSTANTS
    Interval = 2
    MaxWrites = 2
    MaxSnapshots = 3
    MaxFaults = 1
    MaxDisruptions = 1
INVARIANTS ExactUnlessMisled UndoPointSaved
PROPERTIES EventuallySaved
CHECK_DEADLOCK FALSE

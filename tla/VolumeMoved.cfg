SPECIFICATION FairSpec
CONSTANTS
    Interval = 0
    MaxWrites = 1
    MaxSnapshots = 2
    MaxFaults = 0
    MaxDisruptions = 1
PROPERTIES MoveKeepsWrites
CHECK_DEADLOCK FALSE

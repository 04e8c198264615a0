SPECIFICATION FairSpec
CONSTANTS
  Holder = {h1, h2, h3}
  None = None
  MaxTerm = 3
  MaxFaults = 2
INVARIANTS KeptUntilLapsed
PROPERTIES K8sImplementsContract K8sFailover
CHECK_DEADLOCK FALSE

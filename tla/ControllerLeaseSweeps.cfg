SPECIFICATION Spec
CONSTANTS
  Holder = {h1, h2, h3}
  None = None
  MaxFaults = 2
SYMMETRY HolderSymmetry
INVARIANTS SweepsFenced
CHECK_DEADLOCK FALSE

SPECIFICATION Spec
CONSTANTS
  child = child
  parent = parent
  free = free
  None = None
  Dispatches = {d1, d2, d3}
  Automations = {child, parent, free}
  Parent <- MCParent
  DayCap <- MCDayCap
  RunCost = 2
  PressureCap = 1
  MaxFaults = 1
SYMMETRY Symmetry
CHECK_DEADLOCK FALSE
INVARIANT CountersRollOver

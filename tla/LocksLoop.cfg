SPECIFICATION LockSpec
CONSTANTS
  p1 = p1 p2 = p2 o1 = o1 o2 = o2 o3 = o3
  Pod <- MCPod
  Op <- MCOp
  PodOf <- MCPodOf
  Nobody = Nobody
  MaxLockFaults = 1
INVARIANT OneLoop
CHECK_DEADLOCK FALSE

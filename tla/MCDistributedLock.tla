------------------------- MODULE MCDistributedLock -------------------------
(* Instances of DistributedLock for TLC. *)
EXTENDS DistributedLock

CONSTANTS p1, p2, o1, o2, o3

MCPod == {p1, p2}
MCOp == {o1, o2, o3}
\* Two operations of one pod, one of another.
MCPodOf == [o \in MCOp |-> IF o = o3 THEN p2 ELSE p1]
=============================================================================

SPECIFICATION LockFairSpec
CONSTANTS
    p1 = p1
    p2 = p2
    p3 = p3
    Procs <- UsedProcs
    Inodes = {i1, i2, i3, i4}
    None = None
    Requests <- UsedRequests
INVARIANTS
  Exclusive
PROPERTIES
  SomebodyGetsIt
CHECK_DEADLOCK FALSE

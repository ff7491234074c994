SPECIFICATION LockSpec
CONSTANTS
  Procs = {p1, p2, p3}
  Commands = {"start", "status", "stop"}
  MaxInodes = 5
  MaxLaunches = 5
  NoProc = NoProc
SYMMETRY Symmetric
INVARIANTS ExclusiveUntilOrphaned StopFindsInstance

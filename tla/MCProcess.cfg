SPECIFICATION Spec
CONSTANTS
  Connections = {c1, c2, c3}
  Pools = 3
INVARIANTS FailedBootLeavesNothing PoolsOutliveClients ClosedInReverse ExitIsTold
PROPERTIES StopsWhenTold
CHECK_DEADLOCK FALSE

\* A snapshot taken while the next Session is being numbered.
CONSTANTS
  Interval = 2
  Idle = 9
  MaxLatency = 3
  MaxDropped = 2
  NonceWidth = 2
  MaxMissed = 4
  MaxGen = 2
  None = None
SPECIFICATION Spec
INVARIANT SnapshotIsCurrent
CHECK_DEADLOCK FALSE

\* Quiet, slow Sessions; a full queue may swallow a probe or two.
CONSTANTS
  Interval = 2
  Idle = 9
  MaxLatency = 3
  MaxDropped = 2
  NonceWidth = 2
  MaxMissed = 4
  MaxGen = 2
  None = None
SPECIFICATION Spec
INVARIANTS ProbeAccounted KeptAlive MissesExplained
CHECK_DEADLOCK FALSE

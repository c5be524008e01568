CONSTANTS
  o1 = o1  o2 = o2
  Open = {o1}
  MaxOpens = 1
  Initial = 4
  MaxDelay = 10
  JitterCap = 1
  MaxAttempts = 2
SPECIFICATION Spec
INVARIANT ShutdownJoinsTasks
CHECK_DEADLOCK FALSE

CONSTANTS
  c1 = c1  c2 = c2  c3 = c3
  Conn = {c1, c2}
  MaxHandshakes = 2
  MaxSessions = 2
  QueueFull = {FALSE}
SPECIFICATION Spec
INVARIANT RejectingIsFree
CHECK_DEADLOCK FALSE

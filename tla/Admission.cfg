\* Three connections, two at a time, one Session at a time.
CONSTANTS
  c1 = c1  c2 = c2  c3 = c3
  Conn = {c1, c2, c3}
  MaxHandshakes = 2
  MaxSessions = 1
  QueueFull = {FALSE, TRUE}
SPECIFICATION FairSpec
INVARIANTS GaugesBounded DrainSound
PROPERTY NobodyHoldsUp
CHECK_DEADLOCK FALSE

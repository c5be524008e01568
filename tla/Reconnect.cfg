\* Two Opens, one at a time, and enough attempts to reach the longest delay.
CONSTANTS
  o1 = o1  o2 = o2
  Open = {o1, o2}
  MaxOpens = 1
  Initial = 4
  MaxDelay = 10
  JitterCap = 1
  MaxAttempts = 4
SPECIFICATION FairSpec
INVARIANTS OpensAccounted BackoffAccounted
PROPERTIES ClientEnds TriesAgain
CHECK_DEADLOCK FALSE

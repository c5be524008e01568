\* The documented claim DrainedFirst, against what the code does over QUIC.
CONSTANTS
  Setups <- MCSetups
  MaxAttempts = 2
  MaxSessions = 1
  MaxStreams = 1
  MaxOpened = 2
SPECIFICATION Spec
INVARIANT DrainedFirst
CHECK_DEADLOCK FALSE

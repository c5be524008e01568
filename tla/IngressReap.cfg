\* The documented claim AllReaped, against what the code does over QUIC.
CONSTANTS
  Setups <- MCSetups
  MaxAttempts = 2
  MaxSessions = 1
  MaxStreams = 1
  MaxOpened = 2
SPECIFICATION Spec
INVARIANT AllReaped
CHECK_DEADLOCK FALSE

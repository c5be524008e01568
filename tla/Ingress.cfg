\* Two attempts, of which the first may leave its Session behind.
CONSTANTS
  Setups <- MCSetups
  MaxAttempts = 2
  MaxSessions = 1
  MaxStreams = 1
  MaxOpened = 2
SPECIFICATION FairSpec
INVARIANTS SessionAgreed OutcomeExplained TasksOwned
PROPERTIES HandshakeEnds TasksReleased
CHECK_DEADLOCK FALSE

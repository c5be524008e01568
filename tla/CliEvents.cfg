\* The documented claim EventsComplete, against what the program does.
CONSTANTS
  Files <- MCFiles
  Spoiled <- MCSpoiled
  World <- MCWorld
  Contents <- MCContents
  Commands <- MCCommands
  Requests <- MCRequests
  MaxChanges = 1
  MaxBinds = 2
  MaxSessions = 1
SPECIFICATION FairSpec
INVARIANT EventsComplete
CHECK_DEADLOCK FALSE

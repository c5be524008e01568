\* The documented claim StoppedClientExits, against what the program does.
CONSTANTS
  Files <- MCFiles
  Spoiled <- MCSpoiled
  World <- MCWorld
  Contents <- MCContents
  Commands <- MCCommands
  Requests <- MCRequests
  MaxChanges = 1
  MaxBinds = 2
  MaxSessions = 1
SPECIFICATION FairSpec
PROPERTY StoppedClientExits
CHECK_DEADLOCK FALSE

\* Every file with up to two changes, one change of an input, two binds, one Session.
CONSTANTS
  Files <- MCFiles
  Spoiled <- MCSpoiled
  World <- MCWorld
  Contents <- MCContents
  Commands <- MCCommands
  Requests <- MCRequests
  MaxChanges = 1
  MaxBinds = 2
  MaxSessions = 1
SPECIFICATION FairSpec
INVARIANTS CheckPredictsStart SnapshotSound PublicOnlyByConsent
PROPERTIES Announced SignalEnds
CHECK_DEADLOCK FALSE

SPECIFICATION ServicesSpec
CONSTANTS
  Outboxes <- MCOutboxes
  Attempts = 2
  FinalAttempts = 3
  QuarantineAfter = 2
  Scenes <- MCScenes
  Worlds <- MCWorlds
  MaxCandidate = 2
  Settings <- MCSettings
INVARIANTS
  OneOpenRun VerdictShown
  RunsMoveForward NothingSkipped
  SignedRemovalHolds LaneEndsOnlyLost
  RowHasBytes BackupWhole CopyAccountedFor
PROPERTIES
  ChecksSettle DeliveriesSettle AccessCatchesUp
CHECK_DEADLOCK FALSE

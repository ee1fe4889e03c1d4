SPECIFICATION LogSpec
CONSTANTS
  MaxSeq = 3
  Window = 2
  MaxGaps = 3
  SegFrames = 3
  MaxConns = 3
  Faults = {"store", "refused", "full"}
  MaxFaults = 3
  RouteMoves = FALSE
  Timeouts = {}
INVARIANT JumpCovers
CHECK_DEADLOCK FALSE

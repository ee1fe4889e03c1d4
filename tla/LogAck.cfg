SPECIFICATION LogSpec
CONSTANTS
  MaxSeq = 2
  Window = 2
  MaxGaps = 3
  SegFrames = 1
  MaxConns = 3
  Faults = {}
  MaxFaults = 0
  RouteMoves = FALSE
  Timeouts = {}
INVARIANT AckedIsStored
CHECK_DEADLOCK FALSE

SPECIFICATION WorkerSpec
CONSTANTS
  MaxSeq = 2
  Window = 2
  MaxGaps = 3
  SegFrames = 1
  MaxConns = 3
  Faults = {"refused", "full", "closed", "worker", "store", "seal"}
  MaxFaults = 2
  RouteMoves = TRUE
  Timeouts = {"recovering"}
  Leased = {1, 2}
  LEASE = 3
  LEASE_GUARD = 1
  WATCHDOG = 1
  OFFER_ACK = 1
  HEARTBEAT = 2
  MailBound = 1
INVARIANTS AckedOrHole StoredOnce NoSilentGap JumpRecorded SpoolOutlivesLog LogRests WorkEndsFirst
CHECK_DEADLOCK FALSE

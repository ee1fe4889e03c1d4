SPECIFICATION LinkSpec
CONSTANTS
  None = None
  Runs = {"r1"}
  Workers = {"w1"}
  Hosts = {"h1"}
  Jobs = {"job"}
  RunOf <- OneJob
  Needs <- NoNeeds
  Condition <- NoneIf
  Cpu <- OneUnit
  HostOf <- OneHost
  Capacity <- OneRoom
  Group <- OneGroup
  CancelInProgress = {}
  Lineage <- OneLineage
  IdOrder <- OneOrder
  Classes = {"preparation"}
  Operated = {}
  Logged = {}
  Slow = {}
  MaxFence = 1
  LeaseTicks = 1
  MaxClock = 1
  W = "w1"
  J = "job"
  MaxSessions = 2
  MaxFaults = 0
  MaxCrashes = 0
  MaxDeferred = 2
  MaxInFlight = 2
  KeepElapses = FALSE
  LeasesPass = TRUE
  LateArrivals = TRUE
INVARIANTS HeldVerdictTaken
CHECK_DEADLOCK FALSE

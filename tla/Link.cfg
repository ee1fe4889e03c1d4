SPECIFICATION LinkSpec
CONSTANTS
  None = None
  Runs = {"r1"}
  Workers = {"w1"}
  Hosts = {"h1"}
  Jobs = {"job"}
  RunOf <- OneJob
  Needs <- NoNeeds
  Condition <- NoneIf
  Cpu <- OneUnit
  HostOf <- OneHost
  Capacity <- OneRoom
  Group <- OneGroup
  CancelInProgress = {}
  Lineage <- OneLineage
  IdOrder <- OneOrder
  Classes = {"preparation"}
  Operated = {}
  Logged = {}
  Slow = {}
  MaxFence = 1
  LeaseTicks = 1
  MaxClock = 1
  W = "w1"
  J = "job"
  MaxSessions = 2
  MaxFaults = 1
  MaxCrashes = 1
  MaxDeferred = 1
  MaxInFlight = 1
  KeepElapses = TRUE
  LeasesPass = TRUE
  LateArrivals = TRUE
INVARIANTS LinkTypeOK AbandonedIsOver ReportsFollowAck ServedIsListed StartedIsNotRequeued
PROPERTIES ImplementsDispatch
CHECK_DEADLOCK FALSE

SPECIFICATION Spec
CONSTANTS
  None = None
  Runs = {"r1"}
  Workers = {"w1", "w2"}
  Hosts = {"h1", "h2"}
  Jobs <- FleetJobs
  RunOf <- FleetRunOf
  Needs <- FleetNeeds
  Condition <- FleetCondition
  Cpu <- FleetCpu
  HostOf <- FleetHostOf
  Capacity <- FleetCapacity
  Group <- DagGroup
  CancelInProgress = {}
  Lineage <- DagLineage
  IdOrder <- DagIdOrder
  Classes = {"command_failed", "canceled", "execution_timeout", "publication"}
  Operated = {"w1", "w2"}
  Logged = {"job"}
  Slow = {"job"}
  MaxFence = 2
  LeaseTicks = 2
  MaxClock = 1
INVARIANTS TypeOK HeldIffOwned
PROPERTIES AttemptsOnlyAdvance NeverReplayed RevokedIsMute ImplementsOwnership
CHECK_DEADLOCK FALSE

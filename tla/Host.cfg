SPECIFICATION Spec
CONSTANTS
  None = None
  Runs = {"r1"}
  Workers = {"w1", "w2"}
  Hosts = {"h1"}
  Jobs <- GroupJobs
  RunOf <- HostRunOf
  Needs <- GroupNeeds
  Condition <- GroupCondition
  Cpu <- HostCpu
  HostOf <- HostHostOf
  Capacity <- HostCapacity
  Group <- DagGroup
  CancelInProgress = {}
  Lineage <- DagLineage
  IdOrder <- DagIdOrder
  Classes = {"canceled"}
  Operated = {}
  Logged = {}
  Slow = {}
  MaxFence = 2
  LeaseTicks = 1
  MaxClock = 1
INVARIANTS NoOversubscription
CHECK_DEADLOCK FALSE

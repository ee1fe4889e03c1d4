SPECIFICATION Spec
CONSTANTS
  None = None
  Runs = {"r1"}
  Workers = {"w1"}
  Hosts = {"h1"}
  Jobs <- DagJobs
  RunOf <- DagRunOf
  Needs <- DagNeeds
  Condition <- DagCondition
  Cpu <- DagCpu
  HostOf <- DagHostOf
  Capacity <- DagCapacity
  Group <- DagGroup
  CancelInProgress = {}
  Lineage <- DagLineage
  IdOrder <- DagIdOrder
  Classes = {"command_failed", "canceled"}
  Operated = {}
  Logged = {}
  Slow = {}
  MaxFence = 1
  LeaseTicks = 1
  MaxClock = 1
INVARIANTS BlockedWaits CancelledDrains ClassExplainsOutcome
CHECK_DEADLOCK FALSE

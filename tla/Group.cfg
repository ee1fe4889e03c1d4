SPECIFICATION FairSpec
CONSTANTS
  None = None
  Runs = {"r1", "r2"}
  Workers = {"w1"}
  Hosts = {"h1"}
  Jobs <- GroupJobs
  RunOf <- GroupRunOf
  Needs <- GroupNeeds
  Condition <- GroupCondition
  Cpu <- GroupCpu
  HostOf <- DagHostOf
  Capacity <- DagCapacity
  Group <- GroupGroup
  CancelInProgress = {"main"}
  Lineage <- GroupLineage
  IdOrder <- GroupIdOrder
  Classes = {"canceled"}
  Operated = {}
  Logged = {}
  Slow <- GroupJobs
  MaxFence = 2
  LeaseTicks = 1
  MaxClock = 2
INVARIANTS GroupExclusive
PROPERTIES SupersededStop NoLeaseLasts
CHECK_DEADLOCK FALSE

----------------------------- MODULE MCDispatch -----------------------------
(***************************************************************************)
(* Small instances of Dispatch for TLC.                                    *)
(*   Dag   - one run of three jobs with dependencies and conditions        *)
(*   Group - two runs of one concurrency group                             *)
(*   Host  - two identities of one machine                                 *)
(*   Fleet - one job, two operated workers, many leases                    *)
(***************************************************************************)
EXTENDS Dispatch

NoGroup(runs) == [r \in runs |-> None]
Own(set)      == [x \in set |-> x]
Units(set, n) == [x \in set |-> n]

DagJobs      == {"build", "test", "notify"}
DagRunOf     == [j \in DagJobs |-> "r1"]
DagNeeds     == [build |-> <<>>, test |-> <<"build">>, notify |-> <<"build", "test">>]
DagCondition == [build |-> "none", test |-> "none", notify |-> "failure"]
DagGroup     == NoGroup({"r1"})
DagLineage   == Own({"r1"})
DagIdOrder   == Units({"r1"}, 0)
DagCpu       == Units(DagJobs, 1)
DagHostOf    == [w1 |-> "h1"]
DagCapacity  == [w1 |-> 2]

GroupJobs      == {"one", "two"}
GroupRunOf     == [one |-> "r1", two |-> "r2"]
GroupNeeds     == [j \in GroupJobs |-> <<>>]
GroupCondition == [one |-> "none", two |-> "true"]
GroupGroup     == [r1 |-> "main", r2 |-> "main"]
GroupLineage   == [r1 |-> "main", r2 |-> "main"]
GroupIdOrder   == [r1 |-> 2, r2 |-> 1]
GroupCpu       == Units(GroupJobs, 1)

\* Two identities of one machine that has room for one of the two jobs.
HostRunOf      == [j \in GroupJobs |-> "r1"]
HostHostOf     == [w1 |-> "h1", w2 |-> "h1"]
HostCapacity   == [w1 |-> 2, w2 |-> 2]
HostCpu        == [one |-> 1, two |-> 2]

FleetJobs      == {"job"}
FleetRunOf     == [job |-> "r1"]
FleetNeeds     == [job |-> <<>>]
FleetCondition == [job |-> "none"]
FleetCpu       == [job |-> 1]
FleetHostOf    == [w1 |-> "h1", w2 |-> "h2"]
FleetCapacity  == [w1 |-> 1, w2 |-> 1]
=============================================================================

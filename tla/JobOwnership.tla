---------------------------- MODULE JobOwnership ----------------------------
(***************************************************************************)
(* What dispatch promises about who runs a job, without attempts, leases,  *)
(* cancellation or dependencies: a job has at most one owner, ownership    *)
(* never passes from one worker to another without the job being free in   *)
(* between, every grant carries a higher generation than all before it, an *)
(* ended job has no owner and only leaves that state unowned, and at most  *)
(* one job is granted in a step. One step may free or end many jobs (a     *)
(* cancelled run, a startup sweep).                                        *)
(***************************************************************************)
EXTENDS Naturals

CONSTANTS Jobs, Workers, None

VARIABLES owner, generation, ended

vars == <<owner, generation, ended>>

Init == /\ owner = [j \in Jobs |-> None]
        /\ generation = [j \in Jobs |-> 0]
        /\ ended = [j \in Jobs |-> FALSE]

Granted(j) == owner[j] = None /\ owner'[j] \in Workers

\* One job's part of a step: it is granted, stays with its owner, or is unowned after it.
JobStep(j) ==
  \/ /\ Granted(j) /\ ~ended[j] /\ ~ended'[j]
     /\ generation'[j] = generation[j] + 1
  \/ /\ owner[j] \in Workers /\ owner'[j] = owner[j] /\ ~ended'[j]
     /\ generation'[j] = generation[j]
  \/ /\ owner'[j] = None
     /\ generation'[j] = generation[j]

Next == /\ \A j \in Jobs : JobStep(j)
        /\ \A i, j \in Jobs : Granted(i) /\ Granted(j) => i = j

Spec == Init /\ [][Next]_vars
=============================================================================

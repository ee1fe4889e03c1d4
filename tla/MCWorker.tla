------------------------------ MODULE MCWorker ------------------------------
(***************************************************************************)
(* Instances of what crosses the link beside offers and verdicts: the log  *)
(* of an attempt, and the clocks of its lease.  The two meet nowhere in    *)
(* the modules: each behaviour is one of a single part, while the other    *)
(* rests in its initial state.                                             *)
(***************************************************************************)
EXTENDS LogStream, Lease

VARIABLE part  \* the part of this behaviour

workerVars == <<part, logVars, leaseVars>>

WorkerInit == part \in {"log", "lease"} /\ LogInit /\ LeaseInit

WorkerNext ==
    /\ UNCHANGED part
    /\ \/ part = "log"   /\ LogNext   /\ UNCHANGED leaseVars
       \/ part = "lease" /\ LeaseNext /\ UNCHANGED logVars

WorkerSpec == WorkerInit /\ [][WorkerNext]_workerVars
=============================================================================

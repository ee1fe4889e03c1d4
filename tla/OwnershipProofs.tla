-------------------------- MODULE OwnershipProofs ---------------------------
(***************************************************************************)
(* Only a placement gives a job to a worker. From that, two results about  *)
(* Dispatch for every set of jobs, runs and workers: a concurrency group   *)
(* is exclusive, and Dispatch implements JobOwnership.                     *)
(***************************************************************************)
EXTENDS DispatchProofs

\* No job is newly owned or fenced, and no attempt changes hands.
RowsKept(jb)    == \A j \in Jobs : /\ jb[j].fence = job[j].fence
                                   /\ jb[j].state \in Owned => job[j].state \in Owned
AttemptsKept    == \A j \in Jobs, f \in Fences : attempt'[j][f].worker = attempt[j][f].worker
NothingGranted  == RowsKept(job') /\ AttemptsKept

\* release_dependents grants nothing: it only decides blocked jobs.
LEMMA ReleaseKept ==
  ASSUME NEW jb \in [Jobs -> Job], NEW rn, NEW rs, release_dependents(jb, rn, rs), RowsKept(jb)
  PROVE  RowsKept(job')
BY ReleaseEffect DEF RowsKept, Owned

\* Closing an attempt does not change whose it was.
LEMMA CloseKept ==
  ASSUME TypeOK, NEW j \in Jobs, NEW f \in Fences, NEW how \in {"lapsed", "finished"},
         NEW ended \in BOOLEAN,
         attempt' = [attempt EXCEPT ![j][f] = Closed(@, how, ended)]
  PROVE  AttemptsKept
<1>1. attempt[j][f] \in Attempt
  BY DEF TypeOK
<1>2. Closed(attempt[j][f], how, ended).worker = attempt[j][f].worker
  BY <1>1, ClosedType
<1> QED BY <1>2 DEF TypeOK, AttemptsKept

\* Writing one row that keeps its fence and is not newly owned.
LEMMA OneRowKept ==
  ASSUME TypeOK, NEW j \in Jobs, NEW row \in Job, row.fence = job[j].fence,
         row.state \in Owned => job[j].state \in Owned
  PROVE  [job EXCEPT ![j] = row] \in [Jobs -> Job] /\ RowsKept([job EXCEPT ![j] = row])
BY DEF TypeOK, RowsKept

\* Handing back an offer grants nothing.
LEMMA GiveBackKept ==
  ASSUME TypeOK, NEW j \in Jobs, NEW f \in Fences, give_back(j, f)
  PROVE  NothingGranted
<1> DEFINE row == Returned(job[j])
           jb  == [job EXCEPT ![j] = row]
<1>0. job[j] \in Job
  BY DEF TypeOK
<1>1. row \in Job /\ row.fence = job[j].fence /\ row.state \notin Owned
  BY <1>0, ReturnedType DEF Owned
<1>2. /\ attempt' = [attempt EXCEPT ![j][f] = Closed(@, "lapsed", FALSE)]
      /\ release_dependents(jb, run, {RunOf[j]}) \/ job' = jb
  BY DEF give_back, TypeOK
<1> HIDE DEF row
<1>3. jb \in [Jobs -> Job] /\ RowsKept(jb)
  BY <1>1, OneRowKept
<1> HIDE DEF jb
<1> QED BY <1>2, <1>3, CloseKept, ReleaseKept DEF NothingGranted

\* An event on a held attempt grants nothing.
LEMMA FinishKept ==
  ASSUME IInv, NEW j \in Jobs, NEW f \in Fences, NEW actor, NEW event, event # "leased",
         NEW ended \in BOOLEAN, NEW lost \in BOOLEAN, finish(j, f, actor, event, ended, lost)
  PROVE  NothingGranted
<1> DEFINE e   == IF event = "passed" /\ lost THEN "publication" ELSE event
           row == Apply(job[j], e, f)
           jb  == [job EXCEPT ![j] = row]
<1>0. TypeOK /\ job[j] \in Job /\ job[j].state \in Owned
  BY DEF IInv, TypeOK, Sound, Reserves, finish
<1>1. e # "leased" /\ f \in 0 .. MaxFence
  BY SizesAssumption DEF Fences
<1>2. /\ attempt' = [attempt EXCEPT ![j][f] = Closed(@, "finished", ended)] \/ attempt' = attempt
      /\ release_dependents(jb, run, {RunOf[j]}) \/ job' = jb
  BY <1>0 DEF finish, TypeOK
<1> HIDE DEF e
<1>3. row \in Job /\ row.fence = job[j].fence
  BY <1>0, <1>1, ApplyType
<1> HIDE DEF row
<1>4. jb \in [Jobs -> Job] /\ RowsKept(jb)
  BY <1>0, <1>3, OneRowKept
<1> HIDE DEF jb
<1>5. RowsKept(job')
  BY <1>2, <1>4, ReleaseKept
<1>6. AttemptsKept
  BY <1>0, <1>2, CloseKept DEF AttemptsKept
<1> QED BY <1>5, <1>6 DEF NothingGranted

\* Settling a set of jobs grants nothing.
LEMMA SettleKept ==
  ASSUME TypeOK, NEW D \in SUBSET Jobs,
         NEW fate \in [D -> {"lease_expired", "reconciled", "offer_lapsed"}], NEW ended,
         settle(fate, ended)
  PROVE  NothingGranted
<1> DEFINE jb == [j \in Jobs |-> IF j \notin DOMAIN fate THEN job[j]
                                 ELSE IF fate[j] = "offer_lapsed" THEN Returned(job[j])
                                 ELSE Apply(job[j], fate[j], 0)]
           how(j) == IF fate[j] = "offer_lapsed" THEN "lapsed" ELSE "finished"
           rs == {RunOf[j] : j \in {k \in DOMAIN fate : jb[k].state \in Terminal}}
<1>0. /\ attempt' = [j \in Jobs |-> [f \in Fences |->
                       IF j \in DOMAIN fate /\ Held(attempt[j][f])
                       THEN Closed(attempt[j][f], how(j), j \in ended) ELSE attempt[j][f]]]
      /\ release_dependents(jb, run, rs)
  BY DEF settle
<1>1. ASSUME NEW j \in Jobs
      PROVE  /\ jb[j] \in Job /\ jb[j].fence = job[j].fence
             /\ jb[j].state \in Owned => job[j].state \in Owned
  <2>0. job[j] \in Job
    BY DEF TypeOK
  <2>1. CASE j \notin D
    BY <2>0, <2>1
  <2>2. CASE j \in D /\ fate[j] = "offer_lapsed"
    BY <2>0, <2>2, ReturnedType DEF Owned
  <2>3. CASE j \in D /\ fate[j] # "offer_lapsed"
    <3>1. jb[j] = Apply(job[j], fate[j], 0) /\ fate[j] \in {"lease_expired", "reconciled"}
      BY <2>3
    <3>2. To(fate[j]) = "infra_failed"
      BY <3>1 DEF To, ClassOutcome
    <3> QED BY <2>0, <3>1, <3>2, ApplyType, SizesAssumption DEF Owned
  <2> QED BY <2>1, <2>2, <2>3
<1>2. jb \in [Jobs -> Job] /\ RowsKept(jb)
  BY <1>1 DEF RowsKept
<1>3. ASSUME NEW j \in Jobs, NEW f \in Fences
      PROVE  attempt'[j][f].worker = attempt[j][f].worker
  <2>0. attempt[j][f] \in Attempt
    BY DEF TypeOK
  <2> DEFINE h == how(j)
             b == j \in ended
  <2>1. attempt'[j][f] = Closed(attempt[j][f], h, b) \/ attempt'[j][f] = attempt[j][f]
    BY <1>0
  <2>2. h \in {"lapsed", "finished"} /\ b \in BOOLEAN
    OBVIOUS
  <2> HIDE DEF h, b
  <2> QED BY <2>0, <2>1, <2>2, ClosedType
<1> HIDE DEF jb, rs
<1> QED BY <1>0, <1>2, <1>3, ReleaseKept DEF NothingGranted, AttemptsKept

\* Cancelling jobs grants nothing.
LEMMA CancelJobsKept ==
  ASSUME NEW jb \in [Jobs -> Job], NEW rs, RowsKept(jb)
  PROVE  CancelJobs(jb, rs) \in [Jobs -> Job] /\ RowsKept(CancelJobs(jb, rs))
<1>1. ASSUME NEW j \in Jobs
      PROVE  /\ cancel_one(jb[j]) \in Job /\ cancel_one(jb[j]).fence = jb[j].fence
             /\ cancel_one(jb[j]).state \in Owned => jb[j].state \in Owned
  BY CancelOneType DEF Owned
<1> QED BY <1>1 DEF CancelJobs, RowsKept

\* Creating a run grants nothing.
LEMMA CreateRunKept ==
  ASSUME TypeOK, NEW r \in Runs, create_run(r)
  PROVE  NothingGranted
<1> DEFINE rows == [j \in JobsOf(r) |-> IF Ready(j) THEN Apply(job[j], "dependencies_satisfied", 0)
                                        ELSE job[j]]
           born == [j \in Jobs |-> IF RunOf[j] = r THEN rows[j] ELSE job[j]]
<1>1. attempt' = attempt /\ \E old : release_dependents(CancelJobs(born, old), run', old \cup {r})
  BY DEF create_run
<1>2. ASSUME NEW j \in Jobs
      PROVE  /\ born[j] \in Job /\ born[j].fence = job[j].fence
             /\ born[j].state \in Owned => job[j].state \in Owned
  <2>0. job[j] \in Job
    BY DEF TypeOK
  <2>1. born[j] = job[j] \/ born[j] = Apply(job[j], "dependencies_satisfied", 0)
    BY DEF JobsOf
  <2>2. /\ Apply(job[j], "dependencies_satisfied", 0) \in Job
        /\ Apply(job[j], "dependencies_satisfied", 0).fence = job[j].fence
        /\ Apply(job[j], "dependencies_satisfied", 0).state = "queued"
    BY <2>0, ApplyType, SizesAssumption DEF To
  <2> HIDE DEF born
  <2> QED BY <2>0, <2>1, <2>2 DEF Owned
<1>3. born \in [Jobs -> Job] /\ RowsKept(born)
  BY <1>2 DEF RowsKept
<1> HIDE DEF born
<1> QED BY <1>1, <1>3, CancelJobsKept, ReleaseKept DEF NothingGranted, AttemptsKept

\* Nothing a user or the forge requests grants a job to a worker.
LEMMA RequestsKept ==
  ASSUME IInv, Requests
  PROVE  NothingGranted
<1>0. TypeOK /\ job \in [Jobs -> Job]
  BY DEF IInv, TypeOK
<1>1. ASSUME NEW r \in Runs, create_run(r) PROVE NothingGranted
  BY <1>0, <1>1, CreateRunKept
<1>2. ASSUME NEW r \in Runs, cancel_run(r) PROVE NothingGranted
  <2>1. attempt' = attempt /\ release_dependents(CancelJobs(job, {r}), run', {r})
    BY <1>2 DEF cancel_run
  <2>2. RowsKept(job)
    BY DEF RowsKept
  <2> QED BY <1>0, <2>1, <2>2, CancelJobsKept, ReleaseKept DEF NothingGranted, AttemptsKept
<1>3. ASSUME NEW rs \in SUBSET Runs, rerequest(rs) PROVE NothingGranted
  <2> DEFINE jb == [j \in Jobs |-> IF RunOf[j] \notin rs THEN job[j]
                                   ELSE [Reset(job[j], IF Ready(j) THEN "queued" ELSE "blocked")
                                           EXCEPT !.cancel = FALSE]]
  <2>1. attempt' = attempt /\ release_dependents(jb, run', rs)
    BY <1>3 DEF rerequest
  <2>2. ASSUME NEW j \in Jobs
        PROVE  /\ jb[j] \in Job /\ jb[j].fence = job[j].fence
               /\ jb[j].state \in Owned => job[j].state \in Owned
    BY <1>0 DEF Reset, Job, JobStates, Waiting, Owned
  <2>3. jb \in [Jobs -> Job] /\ RowsKept(jb)
    BY <2>2 DEF RowsKept
  <2> HIDE DEF jb
  <2> QED BY <2>1, <2>3, ReleaseKept DEF NothingGranted, AttemptsKept
<1>4. ASSUME NEW j \in Jobs, cancel(j) PROVE NothingGranted
  <2> DEFINE row == cancel_one(job[j])
             jb  == [job EXCEPT ![j] = row]
  <2>1. /\ attempt' = attempt
        /\ release_dependents(jb, run, {RunOf[j]}) \/ job' = jb
    BY <1>0, <1>4 DEF cancel
  <2>2. /\ row \in Job /\ row.fence = job[j].fence
        /\ row.state \in Owned => job[j].state \in Owned
    BY <1>0, CancelOneType DEF Owned
  <2> HIDE DEF row
  <2>3. jb \in [Jobs -> Job] /\ RowsKept(jb)
    BY <1>0, <2>2, OneRowKept
  <2> HIDE DEF jb
  <2> QED BY <2>1, <2>3, ReleaseKept DEF NothingGranted, AttemptsKept
<1>5. ASSUME NEW j \in Jobs, rerun_job(j) PROVE NothingGranted
  <2>1. PICK reached :
          /\ attempt' = attempt
          /\ job' = [k \in Jobs |-> IF k \notin reached THEN job[k]
                                    ELSE Reset(job[k], IF k = j THEN "queued" ELSE "blocked")]
    BY <1>5 DEF rerun_job
  <2>2. ASSUME NEW k \in Jobs
        PROVE  /\ job'[k].fence = job[k].fence
               /\ job'[k].state \in Owned => job[k].state \in Owned
    BY <1>0, <2>1 DEF Reset, Job, Owned
  <2> QED BY <2>1, <2>2 DEF NothingGranted, AttemptsKept, RowsKept
<1> QED BY <1>1, <1>2, <1>3, <1>4, <1>5 DEF Requests

\* Acknowledging, ending a log and time passing grant nothing.
LEMMA AttemptStepsKept ==
  ASSUME IInv, NEW w, NEW j \in Jobs, NEW f \in Fences,
         acknowledge(w, j, f) \/ log_ended(j, f) \/ LeaseAges(j, f) \/ Overruns(j, f)
  PROVE  NothingGranted
<1>0. attempt \in [Jobs -> [Fences -> Attempt]]
  BY DEF IInv, TypeOK
<1>1. job' = job
  BY DEF acknowledge, log_ended, LeaseAges, Overruns
<1>2. AttemptsKept
  <2>1. CASE acknowledge(w, j, f)
    BY <1>0, <2>1 DEF acknowledge, AttemptsKept, Attempt
  <2>2. CASE log_ended(j, f)
    BY <1>0, <2>2 DEF log_ended, AttemptsKept, Attempt
  <2>3. CASE LeaseAges(j, f)
    BY <1>0, <2>3 DEF LeaseAges, AttemptsKept, Attempt
  <2>4. CASE Overruns(j, f)
    BY <1>0, <2>4 DEF Overruns, AttemptsKept, Attempt
  <2> QED BY <2>1, <2>2, <2>3, <2>4
<1> QED BY <1>1, <1>2 DEF NothingGranted, RowsKept

\* A heartbeat grants nothing.
LEMMA RenewKept ==
  ASSUME IInv, NEW w, NEW hs, renew(w, hs)
  PROVE  NothingGranted
<1>1. ASSUME NEW j \in Jobs, NEW f \in Fences
      PROVE  attempt'[j][f].worker = attempt[j][f].worker
  <2>1. attempt'[j][f] \in {attempt[j][f], [attempt[j][f] EXCEPT !.left = LeaseTicks]}
    BY DEF renew
  <2>2. attempt[j][f] \in Attempt
    BY DEF IInv, TypeOK
  <2> QED BY <2>1, <2>2 DEF Attempt
<1> QED BY <1>1 DEF renew, NothingGranted, RowsKept, AttemptsKept

\* A step either places one job or gives nothing to anybody.
LEMMA OnlyPlacementGrants ==
  ASSUME IInv, [Next]_vars
  PROVE  NothingGranted \/ \E w \in Workers, j \in Jobs : place(w, j)
<1>0. TypeOK
  BY DEF IInv
<1>1. CASE UNCHANGED vars
  BY <1>1 DEF vars, NothingGranted, RowsKept, AttemptsKept
<1>2. ASSUME NEW j \in Jobs, NEW f \in Fences, NEW actor, NEW event, event # "leased",
             NEW lost \in BOOLEAN, \E ended \in Ends(j) : finish(j, f, actor, event, ended, lost)
      PROVE  NothingGranted
  <2>1. PICK ended \in Ends(j) : finish(j, f, actor, event, ended, lost)
    BY <1>2
  <2>2. ended \in BOOLEAN
    BY DEF Ends
  <2> QED BY <1>2, <2>1, <2>2, FinishKept
<1>3. ASSUME NEW w \in Workers, NEW j \in Jobs, NEW f \in Fences,
             acknowledge(w, j, f) \/ decline(w, j, f) \/ abandon(w, j, f)
               \/ \E e \in Reports : report(w, j, f, e)
      PROVE  NothingGranted
  <2>1. CASE acknowledge(w, j, f)
    BY <2>1, AttemptStepsKept
  <2>2. CASE decline(w, j, f)
    BY <1>0, <2>2, GiveBackKept DEF decline
  <2>3. CASE abandon(w, j, f)
    BY <1>0, <1>2, <2>3, GiveBackKept DEF abandon, lapse
  <2>4. CASE \E e \in Reports : report(w, j, f, e)
    <3>1. PICK e \in Reports : report(w, j, f, e)
      BY <2>4
    <3> DEFINE ev == IF e = "canceled" /\ ~job[j].cancel THEN "runtime" ELSE e
    <3>2. \E lost \in BOOLEAN, ended \in Ends(j) : finish(j, f, "worker", ev, ended, lost)
      BY <3>1 DEF report
    <3>3. ev # "leased"
      BY JobsAssumption DEF Reports, WorkerClass
    <3> HIDE DEF ev
    <3> QED BY <1>2, <3>2, <3>3
  <2> QED BY <1>3, <2>1, <2>2, <2>3, <2>4
<1>4. CASE WorkerCalls
  BY <1>3, <1>4, RenewKept DEF WorkerCalls
<1>5. CASE Sweeps
  <2>1. ASSUME NEW j \in Jobs, NEW f \in Fences, lapse(j, f) \/ expire(j, f)
        PROVE  NothingGranted
    BY <1>0, <1>2, <2>1, GiveBackKept DEF lapse, expire
  <2>2. ASSUME NEW j \in Jobs, sweep_queue_timeouts(j) PROVE NothingGranted
    <3> DEFINE row == Apply(job[j], "queue_timed_out", 0)
               jb  == [job EXCEPT ![j] = row]
    <3>1. attempt' = attempt /\ release_dependents(jb, run, {RunOf[j]})
      BY <1>0, <2>2 DEF sweep_queue_timeouts, TypeOK
    <3>2. row \in Job /\ row.fence = job[j].fence /\ row.state = "timed_out"
      BY <1>0, ApplyType, SizesAssumption DEF To, TypeOK
    <3> HIDE DEF row
    <3>3. jb \in [Jobs -> Job] /\ RowsKept(jb)
      BY <1>0, <3>2, OneRowKept DEF Owned
    <3> HIDE DEF jb
    <3> QED BY <3>1, <3>3, ReleaseKept DEF NothingGranted, AttemptsKept
  <2>3. ASSUME reconcile_revoked \/ reconcile_startup PROVE NothingGranted
    BY <1>0, <2>3, SettledSets, SettleKept
  <2> QED BY <1>5, <2>1, <2>2, <2>3 DEF Sweeps
<1>6. CASE Requests
  BY <1>6, RequestsKept
<1>7. CASE Administration
  <2>1. UNCHANGED <<job, attempt>>
    BY <1>7 DEF Administration, revoke, drain, undrain, request_uninstall, settle_uninstalls
  <2> QED BY <2>1 DEF NothingGranted, RowsKept, AttemptsKept
<1>8. CASE Time
  BY <1>8, AttemptStepsKept DEF Time
<1> QED BY <1>1, <1>4, <1>5, <1>6, <1>7, <1>8 DEF Next

-----------------------------------------------------------------------------
\* A step keeps a group exclusive: a placement checks group_free_sql, nothing else grants.
LEMMA GroupStep == IInv /\ GroupExclusive /\ [Next]_vars => GroupExclusive'
<1> SUFFICES ASSUME IInv, GroupExclusive, [Next]_vars PROVE GroupExclusive'
  OBVIOUS
<1>1. CASE NothingGranted
  BY <1>1 DEF NothingGranted, RowsKept, GroupExclusive
<1>2. ASSUME NEW w \in Workers, NEW j \in Jobs, place(w, j)
      PROVE  GroupExclusive'
  <2>1. /\ \A k \in Jobs : k # j => job'[k] = job[k]
        /\ GroupFree(RunOf[j])
    BY <1>2 DEF place, IInv, TypeOK
  <2>2. ASSUME NEW k \in Jobs, job[k].state \in Owned, RunOf[k] # RunOf[j],
               Group[RunOf[j]] # None
        PROVE  Group[RunOf[k]] # Group[RunOf[j]]
    <3>1. RunOf[k] \in Runs /\ run[RunOf[k]] \in Run
      BY JobsAssumption DEF IInv, TypeOK
    <3>2. run[RunOf[k]].created # 0
      BY <2>2 DEF IInv, Sound, Owned
    <3>3. Exists(RunOf[k])
      BY <3>1, <3>2, SizesAssumption DEF Exists, Run
    <3> QED BY <2>1, <2>2, <3>3 DEF GroupFree
  <2> QED BY <2>1, <2>2 DEF GroupExclusive
<1> QED BY <1>1, <1>2, OnlyPlacementGrants

\* A concurrency group is a lock between runs, whatever the runs, jobs, workers and their
\* interleaving: group_free_sql in the placement query is enough to make it one.
THEOREM GroupsAreExclusive == Spec => []GroupExclusive
<1>1. Init => GroupExclusive
  BY DEF Init, GroupExclusive, Owned
<1> QED BY <1>1, GroupStep, DispatchInvariant, PTL DEF Spec

-----------------------------------------------------------------------------
\* A step that grants nothing keeps or frees every job's owner, as JobOwnership allows.
LEMMA OwnerKept ==
  ASSUME IInv, IInv', NothingGranted
  PROVE  Ownership!Next
<1>1. ASSUME NEW j \in Jobs
      PROVE  Ownership!JobStep(j) /\ ~Ownership!Granted(j)
  <2>1. job'[j].fence = job[j].fence
    BY DEF NothingGranted, RowsKept
  <2>2. CASE job'[j].state \in Owned
    <3>1. job[j].state \in Owned /\ job[j].fence \in Fences
      BY <2>2 DEF NothingGranted, RowsKept, IInv, Sound, Reserves
    <3>2. attempt'[j][job'[j].fence].worker = attempt[j][job[j].fence].worker
      BY <2>1, <3>1 DEF NothingGranted, AttemptsKept
    <3>3. attempt[j][job[j].fence].worker \in Workers
      BY <3>1 DEF IInv, Sound, Reserves, Held
    <3>4. job'[j].state \notin Terminal
      BY <2>2 DEF Owned, Terminal, Outcome
    <3>5. Owner[j] \in Workers /\ Owner'[j] = Owner[j]
      BY <2>2, <3>1, <3>2, <3>3 DEF Owner
    <3> QED BY <2>1, <3>4, <3>5, NoneAssumption DEF Ownership!JobStep, Ownership!Granted
  <2>3. CASE job'[j].state \notin Owned
    BY <2>1, <2>3, NoneAssumption DEF Ownership!JobStep, Ownership!Granted, Owner
  <2> QED BY <2>2, <2>3
<1> QED BY <1>1 DEF Ownership!Next

\* A placement is JobOwnership's grant of one job under the next generation.
LEMMA OwnerPlaced ==
  ASSUME IInv, NEW w \in Workers, NEW j \in Jobs, place(w, j)
  PROVE  Ownership!Next
<1>0. /\ TypeOK /\ job[j] \in Job /\ job[j].fence \in Nat
      /\ job[j].state = "queued" /\ job[j].fence < MaxFence
  BY SizesAssumption DEF IInv, TypeOK, place, Job
<1>1. job[j].fence + 1 \in 0 .. MaxFence /\ job[j].fence + 1 \in Fences
  BY <1>0, SizesAssumption DEF Fences
<1>2. /\ job'[j] = Apply(job[j], "leased", job[j].fence + 1)
      /\ attempt'[j][job[j].fence + 1] = Offer(w)
      /\ \A k \in Jobs : k # j => job'[k] = job[k] /\ attempt'[k] = attempt[k]
  BY <1>0, <1>1 DEF place, TypeOK
<1>3. job'[j].fence = job[j].fence + 1 /\ job'[j].state = "leased"
  BY <1>0, <1>1, <1>2, ApplyType DEF To
<1>4. Owner[j] = None /\ Owner'[j] = w
  BY <1>0, <1>2, <1>3 DEF Owner, Offer, Owned
<1>5. Ownership!Granted(j) /\ Ownership!JobStep(j)
  BY <1>0, <1>3, <1>4 DEF Ownership!Granted, Ownership!JobStep, Terminal, Outcome
<1>6. ASSUME NEW k \in Jobs, k # j
      PROVE  Ownership!JobStep(k) /\ ~Ownership!Granted(k)
  <2>1. job'[k] = job[k] /\ Owner'[k] = Owner[k]
    BY <1>2, <1>6 DEF Owner
  <2>2. CASE job[k].state \in Owned
    <3>1. Owner[k] \in Workers
      BY <2>2 DEF IInv, Sound, Reserves, Held, Owner
    <3>2. job[k].state \notin Terminal
      BY <2>2 DEF Owned, Terminal, Outcome
    <3> QED BY <2>1, <3>1, <3>2, NoneAssumption DEF Ownership!JobStep, Ownership!Granted
  <2>3. CASE job[k].state \notin Owned
    <3>1. Owner[k] = None
      BY <2>3 DEF Owner
    <3> QED BY <2>1, <3>1, NoneAssumption DEF Ownership!JobStep, Ownership!Granted
  <2> QED BY <2>2, <2>3
<1> QED BY <1>5, <1>6 DEF Ownership!Next

\* Dispatch implements JobOwnership: for every fleet and every schedule a job has one
\* owner at a time, changes hands only through the queue, and every lease is fenced above
\* all earlier ones.
THEOREM DispatchImplementsOwnership == Spec => ImplementsOwnership
<1>1. Init => Ownership!Init
  <2> SUFFICES ASSUME Init PROVE Ownership!Init
    OBVIOUS
  <2>1. \A j \in Jobs : job[j].state = "blocked" /\ job[j].fence = 0
    BY DEF Init
  <2>2. Owner = [j \in Jobs |-> None]
    BY <2>1 DEF Owner, Owned
  <2>3. [j \in Jobs |-> job[j].fence] = [j \in Jobs |-> 0]
    BY <2>1
  <2>4. \A j \in Jobs : (job[j].state \in Terminal) = FALSE
    BY <2>1 DEF Terminal, Outcome
  <2>5. [j \in Jobs |-> job[j].state \in Terminal] = [j \in Jobs |-> FALSE]
    BY <2>4, Zenon
  <2> QED BY <2>2, <2>3, <2>5 DEF Ownership!Init
<1>2. IInv /\ IInv' /\ [Next]_vars => [Ownership!Next]_(Ownership!vars)
  BY OnlyPlacementGrants, OwnerKept, OwnerPlaced
<1> QED BY <1>1, <1>2, DispatchInvariant, PTL DEF Spec, ImplementsOwnership, Ownership!Spec
=============================================================================

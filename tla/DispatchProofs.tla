--------------------------- MODULE DispatchProofs ---------------------------
(***************************************************************************)
(* The proofs of Dispatch. The properties are not inductive on their own:  *)
(* that a job's reservation is exact needs the cancel flags (a returned    *)
(* offer), those need the run's flag, and a run that does not exist yet    *)
(* must have touched nothing. Sound collects what one job's row, its       *)
(* attempts and its run's row say of one another, so that a step on one    *)
(* job is an argument about one job. There is one lemma per action; every  *)
(* one that ends a job goes through ReleaseSound.                          *)
(***************************************************************************)
EXTENDS Dispatch, TLAPS

\* Every event leads to a job state and records a failure class or none (state.rs, apply).
LEMMA EventTypes ==
  ASSUME NEW e
  PROVE  /\ To(e) \in JobStates
         /\ ClassOf(e) \in FailureClass \cup {NoClass}
<1>1. ClassOutcome(e) \in Outcome
  BY DEF ClassOutcome, Outcome
<1>2. To(e) \in JobStates
  BY <1>1 DEF To, ClassOutcome, JobStates, Waiting, Owned, Terminal, Outcome
<1>3. ClassOf(e) \in FailureClass \cup {NoClass}
  BY DEF ClassOf, FailureClass, WorkerClass
<1> QED BY <1>2, <1>3

\* jobs::transition_from keeps the shape of a job row, and only a lease moves the fence.
LEMMA ApplyType ==
  ASSUME NEW row \in Job, NEW e, NEW f \in 0 .. MaxFence
  PROVE  /\ Apply(row, e, f) \in Job
         /\ Apply(row, e, f).state = To(e)
         /\ Apply(row, e, f).cancel = row.cancel
         /\ e # "leased" => Apply(row, e, f).fence = row.fence
         /\ e = "leased" => Apply(row, e, f).fence = f
BY EventTypes DEF Apply, Job

\* Deciding dependents only moves blocked jobs, and never into a worker's hands.
LEMMA ReleaseEffect ==
  ASSUME NEW jb \in [Jobs -> Job], NEW rn, NEW rs, release_dependents(jb, rn, rs)
  PROVE  /\ job' \in [Jobs -> Job]
         /\ \A j \in Jobs :
              \/ job'[j] = jb[j]
              \/ /\ jb[j].state = "blocked"
                 /\ RunOf[j] \in rs
                 /\ job'[j].state \in {"queued", "skipped", "infra_failed"}
                 /\ job'[j].fence = jb[j].fence
                 /\ job'[j].cancel = jb[j].cancel
<1>1. PICK d \in [{j \in Jobs : RunOf[j] \in rs /\ jb[j].state = "blocked"} -> Decisions] :
        job' = Decide(jb, d)
  BY DEF release_dependents
<1>2. ASSUME NEW j \in Jobs
      PROVE  /\ job'[j] \in Job
             /\ \/ job'[j] = jb[j]
                \/ /\ jb[j].state = "blocked"
                   /\ RunOf[j] \in rs
                   /\ job'[j].state \in {"queued", "skipped", "infra_failed"}
                   /\ job'[j].fence = jb[j].fence
                   /\ job'[j].cancel = jb[j].cancel
  <2>1. CASE j \in DOMAIN d /\ d[j] # "wait"
    <3>1. job'[j] = Apply(jb[j], d[j], 0)
      BY <1>1, <2>1 DEF Decide
    <3>2. jb[j].state = "blocked" /\ RunOf[j] \in rs /\ d[j] \in Decisions \ {"wait"}
      BY <2>1
    <3>3. To(d[j]) \in {"queued", "skipped", "infra_failed"} /\ d[j] # "leased"
      BY <3>2 DEF To, ClassOutcome, Decisions
    <3> QED BY <3>1, <3>2, <3>3, ApplyType, SizesAssumption
  <2>2. CASE ~(j \in DOMAIN d /\ d[j] # "wait")
    BY <1>1, <2>2 DEF Decide
  <2> QED BY <2>1, <2>2
<1>3. job' = [j \in Jobs |-> job'[j]]
  BY <1>1 DEF Decide
<1> QED BY <1>2, <1>3

\* Closing an attempt keeps its worker and writes one of the two released statuses.
LEMMA ClosedType ==
  ASSUME NEW a \in Attempt, NEW how \in {"lapsed", "finished"}, NEW ended \in BOOLEAN
  PROVE  /\ Closed(a, how, ended) \in Attempt
         /\ Closed(a, how, ended).status = how
         /\ Closed(a, how, ended).worker = a.worker
<1> DEFINE log == IF how = "finished" /\ a.log = "pending"
                  THEN IF ended THEN "complete" ELSE "incomplete" ELSE a.log
<1>1. log \in LogState
  BY DEF Attempt, LogState
<1>2. Closed(a, how, ended) = [a EXCEPT !.status = how, !.left = 0, !.overrun = FALSE, !.log = log]
  BY DEF Closed, Attempt
<1>3. 0 \in 0 .. LeaseTicks
  BY SizesAssumption
<1> HIDE DEF log
<1> QED BY <1>1, <1>2, <1>3 DEF Attempt

\* A returned offer is queued, or canceled if that was requested while it was out.
LEMMA ReturnedType ==
  ASSUME NEW row \in Job
  PROVE  /\ Returned(row) \in Job
         /\ Returned(row).state = IF row.cancel THEN "canceled" ELSE "queued"
         /\ Returned(row).fence = row.fence
         /\ Returned(row).cancel = row.cancel
<1>1. To("offer_lapsed") = "queued" /\ To("cancel_before_start") = "canceled"
  BY DEF To
<1> QED BY <1>1, ApplyType, SizesAssumption DEF Returned

\* dispatch::cancel_one ends a waiting job, flags an owned one and leaves an ended one.
LEMMA CancelOneType ==
  ASSUME NEW row \in Job
  PROVE  /\ cancel_one(row) \in Job
         /\ cancel_one(row).fence = row.fence
         /\ \/ row.state \in Terminal /\ cancel_one(row) = row
            \/ row.state \in Waiting /\ cancel_one(row).state = "canceled"
            \/ /\ row.state \in Owned /\ cancel_one(row).state = row.state
               /\ cancel_one(row).cancel
<1> DEFINE asked == [row EXCEPT !.cancel = TRUE]
<1>1. asked \in Job /\ asked.state = row.state /\ asked.fence = row.fence /\ asked.cancel
  BY DEF Job
<1> HIDE DEF asked
<1>2. /\ Apply(asked, "cancel_before_start", 0) \in Job
      /\ Apply(asked, "cancel_before_start", 0).state = "canceled"
      /\ Apply(asked, "cancel_before_start", 0).fence = row.fence
  BY <1>1, ApplyType, SizesAssumption DEF To
<1>3. row.state \in Waiting \cup Owned \cup Terminal
  BY DEF Job, JobStates
<1> QED BY <1>1, <1>2, <1>3 DEF cancel_one, asked

-----------------------------------------------------------------------------
(* The inductive invariant, one job at a time.                             *)

Sound(row, at, rn) ==
  /\ Reserves(row, at)
  /\ \A f \in Fences : at[f].status # "none" => at[f].worker \in Workers
  /\ row.cancel => row.state \notin Waiting
  /\ rn.cancel => row.state \in Terminal \/ (row.state \in Owned /\ row.cancel)
  /\ rn.created = 0 => row.state = "blocked"

IInv == TypeOK /\ \A j \in Jobs : Sound(job[j], attempt[j], run[RunOf[j]])

\* release_dependents keeps every job sound: what it decides was blocked, so unheld.
LEMMA ReleaseSound ==
  ASSUME NEW jb \in [Jobs -> Job], NEW at, NEW rn, NEW rs, release_dependents(jb, rn, rs),
         \A j \in Jobs : Sound(jb[j], at[j], rn[RunOf[j]]),
         \A r \in rs : rn[r].created # 0
  PROVE  /\ job' \in [Jobs -> Job]
         /\ \A j \in Jobs : Sound(job'[j], at[j], rn[RunOf[j]])
<1> SUFFICES ASSUME NEW j \in Jobs PROVE Sound(job'[j], at[j], rn[RunOf[j]])
  BY ReleaseEffect
<1>1. CASE job'[j] = jb[j]
  BY <1>1
<1>2. CASE job'[j] # jb[j]
  <2>1. /\ jb[j].state = "blocked"
        /\ RunOf[j] \in rs
        /\ job'[j].state \in {"queued", "skipped", "infra_failed"}
        /\ job'[j].cancel = jb[j].cancel
    BY <1>2, ReleaseEffect
  <2> QED BY <2>1 DEF Sound, Reserves, Owned, Waiting, Terminal, Outcome
<1> QED BY <1>1, <1>2

\* An owned job whose attempts are all released has ended, or is queued again and wanted.
LEMMA RowReleased ==
  ASSUME NEW row, NEW at, NEW rn, NEW row2, NEW at2,
         Sound(row, at, rn), row.state \in Owned,
         row2.cancel = row.cancel,
         row2.state \in Terminal \/ (row2.state = "queued" /\ ~row.cancel),
         \A g \in Fences : /\ ~Held(at2[g])
                           /\ at2[g].status # "none" =>
                                at[g].status # "none" /\ at2[g].worker = at[g].worker
  PROVE  Sound(row2, at2, rn)
BY DEF Sound, Reserves, Owned, Waiting, Terminal, Outcome

\* An owned job holds the attempt of its fence and no other.
LEMMA OnlyFence ==
  ASSUME IInv, NEW j \in Jobs, NEW f \in Fences, job[j].state \in Owned, job[j].fence = f
  PROVE  /\ Held(attempt[j][f])
         /\ \A g \in Fences \ {f} : ~Held(attempt[j][g])
BY DEF IInv, Sound, Reserves

\* Closing the attempt of an owned job, with the row the release leads to.
LEMMA CloseSound ==
  ASSUME IInv, NEW j \in Jobs, NEW f \in Fences, job[j].state \in Owned, job[j].fence = f,
         NEW how \in {"lapsed", "finished"}, NEW ended \in BOOLEAN, NEW row \in Job,
         row.cancel = job[j].cancel,
         row.state \in Terminal \/ (row.state = "queued" /\ ~row.cancel),
         attempt' = [attempt EXCEPT ![j][f] = Closed(@, how, ended)]
  PROVE  /\ attempt' \in [Jobs -> [Fences -> Attempt]]
         /\ [job EXCEPT ![j] = row] \in [Jobs -> Job]
         /\ \A k \in Jobs : Sound([job EXCEPT ![j] = row][k], attempt'[k], run[RunOf[k]])
<1>0. TypeOK
  BY DEF IInv
<1>1. attempt[j][f] \in Attempt
  BY <1>0 DEF TypeOK
<1>2. Closed(attempt[j][f], how, ended) \in Attempt
  BY <1>1, ClosedType
<1>3. attempt' \in [Jobs -> [Fences -> Attempt]]
  BY <1>0, <1>2 DEF TypeOK
<1>4. [job EXCEPT ![j] = row] \in [Jobs -> Job]
  BY <1>0 DEF TypeOK
<1>5. ASSUME NEW k \in Jobs, k # j
      PROVE  Sound([job EXCEPT ![j] = row][k], attempt'[k], run[RunOf[k]])
  <2>1. [job EXCEPT ![j] = row][k] = job[k] /\ attempt'[k] = attempt[k]
    BY <1>0, <1>5 DEF TypeOK
  <2> QED BY <2>1 DEF IInv
<1>6. Sound(row, attempt'[j], run[RunOf[j]])
  <2>1. attempt'[j] = [attempt[j] EXCEPT ![f] = Closed(attempt[j][f], how, ended)]
    BY <1>0 DEF TypeOK
  <2>2. ASSUME NEW g \in Fences
        PROVE  /\ ~Held(attempt'[j][g])
               /\ attempt'[j][g].status # "none" =>
                    attempt[j][g].status # "none" /\ attempt'[j][g].worker = attempt[j][g].worker
    <3>1. CASE g = f
      <4>1. attempt'[j][g] = Closed(attempt[j][f], how, ended)
        BY <2>1, <3>1, <1>0 DEF TypeOK
      <4> QED BY <4>1, <3>1, <1>1, ClosedType, OnlyFence DEF Held
    <3>2. CASE g # f
      <4>1. attempt'[j][g] = attempt[j][g]
        BY <2>1, <3>2, <1>0 DEF TypeOK
      <4> QED BY <4>1, <3>2, OnlyFence
    <3> QED BY <3>1, <3>2
  <2>3. Sound(job[j], attempt[j], run[RunOf[j]])
    BY DEF IInv
  <2> QED BY <2>2, <2>3, RowReleased
<1>7. [job EXCEPT ![j] = row][j] = row
  BY <1>0 DEF TypeOK
<1> QED BY <1>3, <1>4, <1>5, <1>6, <1>7

\* Handing back an offer (lapse, decline, abandon) preserves the invariant.
LEMMA GiveBackSound ==
  ASSUME IInv, NEW j \in Jobs, NEW f \in Fences, give_back(j, f)
  PROVE  IInv'
<1> DEFINE row == Returned(job[j])
           jb  == [job EXCEPT ![j] = row]
<1>0. TypeOK /\ job[j] \in Job /\ run[RunOf[j]].created # 0
  BY DEF IInv, TypeOK, Sound, give_back
<1>1. /\ row \in Job /\ row.cancel = job[j].cancel
      /\ row.state = IF job[j].cancel THEN "canceled" ELSE "queued"
  BY <1>0, ReturnedType
<1>2. /\ job[j].state \in Owned /\ job[j].fence = f
      /\ attempt' = [attempt EXCEPT ![j][f] = Closed(@, "lapsed", FALSE)]
      /\ run' = run /\ worker' = worker
  BY DEF give_back, Owned
<1>3. row.state \in Terminal \/ (row.state = "queued" /\ ~row.cancel)
  BY <1>1 DEF Terminal, Outcome
<1>4. jb = [job EXCEPT ![j] = Returned(@)]
  BY <1>0 DEF TypeOK
<1> HIDE DEF row
<1>5. /\ attempt' \in [Jobs -> [Fences -> Attempt]]
      /\ jb \in [Jobs -> Job]
      /\ \A k \in Jobs : Sound(jb[k], attempt'[k], run[RunOf[k]])
  BY <1>1, <1>2, <1>3, CloseSound
<1> HIDE DEF jb
<1>6. job' \in [Jobs -> Job] /\ \A k \in Jobs : Sound(job'[k], attempt'[k], run[RunOf[k]])
  <2>1. CASE job[j].cancel
    <3>1. release_dependents(jb, run, {RunOf[j]})
      BY <2>1, <1>4 DEF give_back
    <3> QED BY <3>1, <1>0, <1>5, ReleaseSound
  <2>2. CASE ~job[j].cancel
    BY <2>2, <1>4, <1>5 DEF give_back
  <2> QED BY <2>1, <2>2
<1> QED BY <1>0, <1>2, <1>5, <1>6 DEF IInv, TypeOK

\* An event on an acknowledged attempt (report, expire, abandon) preserves the invariant.
LEMMA FinishSound ==
  ASSUME IInv, NEW j \in Jobs, NEW f \in Fences, NEW actor, NEW event,
         event # "leased", event # "offer_lapsed", event # "rerun", attempt[j][f].status = "acked",
         NEW ended \in BOOLEAN, NEW lost \in BOOLEAN, finish(j, f, actor, event, ended, lost)
  PROVE  IInv'
<1> DEFINE e   == IF event = "passed" /\ lost THEN "publication" ELSE event
           row == Apply(job[j], e, f)
           jb  == [job EXCEPT ![j] = row]
<1>0. TypeOK /\ job[j] \in Job /\ run' = run /\ worker' = worker
  BY DEF IInv, TypeOK, finish
<1>1. job[j].state \in Owned /\ job[j].fence = f /\ run[RunOf[j]].created # 0
  BY DEF IInv, Sound, Reserves, finish, Owned
<1>2. e # "leased" /\ e # "offer_lapsed" /\ e # "rerun"
  OBVIOUS
<1>3. job[j].state \in From(e)
  BY DEF finish, CanApply
<1>4. jb = [job EXCEPT ![j] = Apply(@, e, f)]
  BY <1>0 DEF TypeOK
<1>5. /\ To(e) \in Terminal => /\ attempt' = [attempt EXCEPT ![j][f] = Closed(@, "finished", ended)]
                               /\ release_dependents(jb, run, {RunOf[j]})
      /\ To(e) \notin Terminal => job' = jb /\ attempt' = attempt
  BY <1>4 DEF finish
<1> HIDE DEF e
<1>6. f \in 0 .. MaxFence
  BY SizesAssumption DEF Fences
<1>7. row \in Job /\ row.state = To(e) /\ row.cancel = job[j].cancel /\ row.fence = job[j].fence
  BY <1>0, <1>2, <1>6, ApplyType
<1> HIDE DEF row
<1>8. CASE To(e) \in Terminal
  <2>1. /\ attempt' \in [Jobs -> [Fences -> Attempt]]
        /\ jb \in [Jobs -> Job]
        /\ \A k \in Jobs : Sound(jb[k], attempt'[k], run[RunOf[k]])
    BY <1>1, <1>5, <1>7, <1>8, CloseSound
  <2> HIDE DEF jb
  <2>2. job' \in [Jobs -> Job] /\ \A k \in Jobs : Sound(job'[k], attempt'[k], run[RunOf[k]])
    BY <1>1, <1>5, <1>8, <2>1, ReleaseSound
  <2> QED BY <1>0, <2>1, <2>2 DEF IInv, TypeOK
<1>9. CASE To(e) \notin Terminal
  <2>1. row.state \in {"preparing", "running", "finalizing"}
    BY <1>1, <1>2, <1>3, <1>7, <1>9
       DEF To, From, ClassOutcome, Terminal, Outcome, Owned, Waiting
  <2>2. job' = jb /\ attempt' = attempt
    BY <1>5, <1>9
  <2>3. e \in {"preparation_started", "steps_started", "finalization_started"}
    BY <1>1, <1>2, <1>3, <1>7, <1>9
       DEF To, From, ClassOutcome, Terminal, Outcome, Owned, Waiting
  <2>4. Sound(row, attempt[j], run[RunOf[j]])
    BY <1>1, <1>7, <2>1 DEF IInv, Sound, Reserves, Owned, Waiting, Terminal, Outcome
  <2> QED BY <1>0, <1>7, <2>2, <2>4 DEF IInv, TypeOK
<1> QED BY <1>8, <1>9

\* Steps that only touch attempt rows, and at most acknowledge an offer.
LEMMA AttemptOnlySound ==
  ASSUME IInv, UNCHANGED <<job, run, worker>>,
         attempt' \in [Jobs -> [Fences -> Attempt]],
         \A j \in Jobs, f \in Fences :
           /\ attempt'[j][f].worker = attempt[j][f].worker
           /\ \/ attempt'[j][f].status = attempt[j][f].status
              \/ attempt[j][f].status = "offered" /\ attempt'[j][f].status = "acked"
  PROVE  IInv'
<1>1. TypeOK'
  BY DEF IInv, TypeOK
<1>2. ASSUME NEW j \in Jobs PROVE Sound(job[j], attempt'[j], run[RunOf[j]])
  <2>1. Sound(job[j], attempt[j], run[RunOf[j]])
    BY DEF IInv
  <2>2. \A f \in Fences : Held(attempt'[j][f]) <=> Held(attempt[j][f])
    BY DEF Held
  <2> QED BY <2>1, <2>2 DEF Sound, Reserves, Held
<1> QED BY <1>1, <1>2 DEF IInv

\* Acknowledging, ending a log and the passing of time preserve the invariant.
LEMMA AttemptStepsSound ==
  ASSUME IInv, NEW w, NEW j \in Jobs, NEW f \in Fences,
         acknowledge(w, j, f) \/ log_ended(j, f) \/ LeaseAges(j, f) \/ Overruns(j, f)
  PROVE  IInv'
<1>0. /\ attempt \in [Jobs -> [Fences -> Attempt]]
      /\ attempt[j][f] \in Attempt
      /\ LeaseTicks \in Nat
  BY SizesAssumption DEF IInv, TypeOK
<1>1. CASE acknowledge(w, j, f)
  <2>1. /\ attempt' \in [Jobs -> [Fences -> Attempt]]
        /\ \A k \in Jobs, g \in Fences :
             /\ attempt'[k][g].worker = attempt[k][g].worker
             /\ \/ attempt'[k][g].status = attempt[k][g].status
                \/ attempt[k][g].status = "offered" /\ attempt'[k][g].status = "acked"
    BY <1>0, <1>1 DEF acknowledge, Attempt
  <2> QED BY <1>1, <2>1, AttemptOnlySound DEF acknowledge
<1>2. CASE log_ended(j, f)
  <2>1. /\ attempt' \in [Jobs -> [Fences -> Attempt]]
        /\ \A k \in Jobs, g \in Fences :
             /\ attempt'[k][g].worker = attempt[k][g].worker
             /\ attempt'[k][g].status = attempt[k][g].status
    BY <1>0, <1>2 DEF log_ended, Attempt, LogState
  <2> QED BY <1>2, <2>1, AttemptOnlySound DEF log_ended
<1>3. CASE LeaseAges(j, f)
  <2>1. /\ attempt' \in [Jobs -> [Fences -> Attempt]]
        /\ \A k \in Jobs, g \in Fences :
             /\ attempt'[k][g].worker = attempt[k][g].worker
             /\ attempt'[k][g].status = attempt[k][g].status
    BY <1>0, <1>3, SMTT(30) DEF LeaseAges, Attempt
  <2> QED BY <1>3, <2>1, AttemptOnlySound DEF LeaseAges
<1>4. CASE Overruns(j, f)
  <2>1. /\ attempt' \in [Jobs -> [Fences -> Attempt]]
        /\ \A k \in Jobs, g \in Fences :
             /\ attempt'[k][g].worker = attempt[k][g].worker
             /\ attempt'[k][g].status = attempt[k][g].status
    BY <1>0, <1>4 DEF Overruns, Attempt
  <2> QED BY <1>4, <2>1, AttemptOnlySound DEF Overruns
<1> QED BY <1>1, <1>2, <1>3, <1>4

\* A heartbeat preserves the invariant.
LEMMA RenewSound ==
  ASSUME IInv, NEW w, NEW hs, renew(w, hs)
  PROVE  IInv'
<1>0. attempt \in [Jobs -> [Fences -> Attempt]] /\ LeaseTicks \in Nat
  BY SizesAssumption DEF IInv, TypeOK
<1>1. LeaseTicks \in 0 .. LeaseTicks
  BY <1>0
<1>2. ASSUME NEW k \in Jobs, NEW g \in Fences
      PROVE  /\ attempt'[k][g] \in Attempt
             /\ attempt'[k][g].worker = attempt[k][g].worker
             /\ attempt'[k][g].status = attempt[k][g].status
  <2>1. attempt'[k][g] \in {attempt[k][g], [attempt[k][g] EXCEPT !.left = LeaseTicks]}
    BY DEF renew
  <2>2. attempt[k][g] \in Attempt
    BY <1>0
  <2> QED BY <1>1, <2>1, <2>2 DEF Attempt
<1>3. attempt' = [k \in Jobs |-> [g \in Fences |-> attempt'[k][g]]]
  BY DEF renew
<1>4. attempt' \in [Jobs -> [Fences -> Attempt]]
  BY <1>2, <1>3
<1> QED BY <1>2, <1>4, AttemptOnlySound DEF renew

\* Placement preserves it: the offered attempt is the only held one, under the new fence.
LEMMA PlaceSound ==
  ASSUME IInv, NEW w \in Workers, NEW j \in Jobs, place(w, j)
  PROVE  IInv'
<1> DEFINE f   == job[j].fence + 1
           row == Apply(job[j], "leased", f)
           new == Offer(w)
<1>0. /\ TypeOK /\ job[j] \in Job /\ run' = run /\ worker' = worker
      /\ job[j].state = "queued" /\ ~job[j].cancel
      /\ Sound(job[j], attempt[j], run[RunOf[j]])
  BY DEF IInv, TypeOK, place
<1>1. f \in Fences /\ f \in 0 .. MaxFence
  BY <1>0, SizesAssumption DEF place, Job, Fences
<1>2. new \in Attempt /\ new.status = "offered" /\ new.worker = w
  <2>1. LeaseTicks \in 0 .. LeaseTicks
    BY SizesAssumption
  <2> QED BY <2>1 DEF Offer, Attempt, LogState
<1>3. /\ job' = [job EXCEPT ![j] = row]
      /\ attempt' = [attempt EXCEPT ![j][f] = new]
  BY <1>0 DEF place, TypeOK
<1> HIDE DEF new
<1>4. row \in Job /\ row.state = "leased" /\ row.fence = f /\ row.cancel = job[j].cancel
  BY <1>0, <1>1, ApplyType DEF To
<1> HIDE DEF row, f
<1>5. TypeOK'
  BY <1>0, <1>1, <1>2, <1>3, <1>4 DEF TypeOK
<1>6. \A g \in Fences : ~Held(attempt[j][g])
  BY <1>0 DEF Sound, Reserves, Owned
<1>7. Sound(row, attempt'[j], run[RunOf[j]])
  <2>1. attempt'[j][f] = new /\ \A g \in Fences \ {f} : attempt'[j][g] = attempt[j][g]
    BY <1>0, <1>1, <1>3 DEF TypeOK
  <2>2. Reserves(row, attempt'[j])
    BY <1>1, <1>2, <1>4, <1>6, <2>1 DEF Reserves, Held, Owned
  <2>3. \A g \in Fences : attempt'[j][g].status # "none" => attempt'[j][g].worker \in Workers
    BY <1>0, <1>2, <2>1 DEF Sound
  <2> QED BY <1>0, <1>4, <2>2, <2>3 DEF Sound, Owned, Waiting, Terminal, Outcome
<1>8. ASSUME NEW k \in Jobs PROVE Sound(job'[k], attempt'[k], run'[RunOf[k]])
  <2>1. CASE k = j
    BY <1>0, <1>3, <1>7, <2>1 DEF TypeOK
  <2>2. CASE k # j
    BY <1>0, <1>3, <2>2 DEF TypeOK, IInv
  <2> QED BY <2>1, <2>2
<1> QED BY <1>5, <1>8 DEF IInv

\* Steps that leave the attempts alone: every row is sound with its run's new row.
LEMMA RowsSound ==
  ASSUME IInv, NEW jb \in [Jobs -> Job], NEW rs,
         UNCHANGED <<attempt, worker>>, run' \in [Runs -> Run],
         \A j \in Jobs : Sound(jb[j], attempt[j], run'[RunOf[j]]),
         \/ job' = jb
         \/ release_dependents(jb, run', rs) /\ \A r \in rs : run'[r].created # 0
  PROVE  IInv'
<1>1. job' \in [Jobs -> Job] /\ \A j \in Jobs : Sound(job'[j], attempt[j], run'[RunOf[j]])
  BY ReleaseSound
<1> QED BY <1>1 DEF IInv, TypeOK

\* A job nobody holds has ended, or waits and is wanted.
LEMMA RowUnowned ==
  ASSUME NEW row, NEW at, NEW rn, NEW row2, NEW rn2,
         Sound(row, at, rn), row.state \notin Owned,
         row2.state \notin Owned,
         row2.cancel => row2.state \notin Waiting,
         rn2.cancel => row2.state \in Terminal,
         rn2.created # 0
  PROVE  Sound(row2, at, rn2)
BY DEF Sound, Reserves

\* Timing a job out of the queue preserves the invariant.
LEMMA SweepQueueSound ==
  ASSUME IInv, NEW j \in Jobs, sweep_queue_timeouts(j)
  PROVE  IInv'
<1> DEFINE row == Apply(job[j], "queue_timed_out", 0)
           jb  == [job EXCEPT ![j] = row]
<1>0. /\ TypeOK /\ job[j] \in Job /\ job[j].state = "queued"
      /\ UNCHANGED <<attempt, run, worker>>
      /\ \A k \in Jobs : Sound(job[k], attempt[k], run[RunOf[k]])
  BY DEF IInv, TypeOK, sweep_queue_timeouts
<1>1. row \in Job /\ row.state = "timed_out" /\ row.cancel = job[j].cancel
  BY <1>0, ApplyType, SizesAssumption DEF To
<1>2. release_dependents(jb, run, {RunOf[j]})
  BY <1>0 DEF sweep_queue_timeouts, TypeOK
<1> HIDE DEF row
<1>3. jb \in [Jobs -> Job] /\ jb[j] = row /\ \A k \in Jobs \ {j} : jb[k] = job[k]
  BY <1>0, <1>1 DEF TypeOK
<1> HIDE DEF jb
<1>4. run[RunOf[j]].created # 0
  BY <1>0 DEF Sound
<1>5. Sound(row, attempt[j], run[RunOf[j]])
  BY <1>0, <1>1, <1>4, RowUnowned DEF Owned, Waiting, Terminal, Outcome
<1>6. \A k \in Jobs : Sound(jb[k], attempt[k], run'[RunOf[k]])
  BY <1>0, <1>3, <1>5
<1>7. run' = run /\ run' \in [Runs -> Run] /\ \A r \in {RunOf[j]} : run'[r].created # 0
  BY <1>0, <1>4 DEF TypeOK
<1> QED BY <1>0, <1>2, <1>3, <1>6, <1>7, RowsSound

\* A cancelled row is sound whatever its run's cancel flag becomes.
LEMMA CancelOneSound ==
  ASSUME NEW row \in Job, NEW at, NEW rn, NEW rn2, Sound(row, at, rn), rn.created # 0,
         rn2.created # 0
  PROVE  Sound(cancel_one(row), at, rn2)
<1>1. CASE row.state \in Terminal
  BY <1>1, CancelOneType, RowUnowned DEF Owned, Waiting, Terminal, Outcome, Sound
<1>2. CASE row.state \in Waiting
  BY <1>2, CancelOneType, RowUnowned DEF Owned, Waiting, Terminal, Outcome
<1>3. CASE row.state \in Owned
  <2>1. /\ cancel_one(row).state = row.state /\ cancel_one(row).cancel
        /\ cancel_one(row).fence = row.fence
    BY <1>3, CancelOneType DEF Owned, Waiting, Terminal, Outcome
  <2> QED BY <1>3, <2>1 DEF Sound, Reserves, Owned, Waiting
<1> QED BY <1>1, <1>2, <1>3 DEF Job, JobStates

\* Cancelling one job preserves the invariant.
LEMMA CancelSound ==
  ASSUME IInv, NEW j \in Jobs, cancel(j)
  PROVE  IInv'
<1> DEFINE row == cancel_one(job[j])
           jb  == [job EXCEPT ![j] = row]
<1>0. /\ TypeOK /\ job[j] \in Job /\ RunOf[j] \in Runs
      /\ UNCHANGED <<attempt, run, worker>>
      /\ \A k \in Jobs : Sound(job[k], attempt[k], run[RunOf[k]])
  BY JobsAssumption DEF IInv, TypeOK, cancel
<1>1. run[RunOf[j]].created # 0
  BY <1>0 DEF cancel, Exists, TypeOK, Run
<1>2. release_dependents(jb, run, {RunOf[j]}) \/ job' = jb
  BY <1>0 DEF cancel, TypeOK
<1>3. row \in Job /\ Sound(row, attempt[j], run[RunOf[j]])
  BY <1>0, <1>1, CancelOneType, CancelOneSound
<1> HIDE DEF row
<1>4. jb \in [Jobs -> Job] /\ jb[j] = row /\ \A k \in Jobs \ {j} : jb[k] = job[k]
  BY <1>0, <1>3 DEF TypeOK
<1> HIDE DEF jb
<1>5. \A k \in Jobs : Sound(jb[k], attempt[k], run'[RunOf[k]])
  BY <1>0, <1>3, <1>4
<1>6. run' = run /\ run' \in [Runs -> Run] /\ \A r \in {RunOf[j]} : run'[r].created # 0
  BY <1>0, <1>1 DEF TypeOK
<1> QED BY <1>0, <1>2, <1>4, <1>5, <1>6, RowsSound

\* Cancelling runs keeps their creation times and leaves the other runs alone.
LEMMA CancelRunsType ==
  ASSUME NEW rn \in [Runs -> Run], NEW rs
  PROVE  /\ CancelRuns(rn, rs) \in [Runs -> Run]
         /\ \A r \in Runs : /\ CancelRuns(rn, rs)[r].created = rn[r].created
                            /\ r \notin rs => CancelRuns(rn, rs)[r] = rn[r]
BY DEF CancelRuns, Run

\* Cancelling whole runs leaves every row sound with the cancelled run rows.
LEMMA CancelJobsSound ==
  ASSUME NEW jb \in [Jobs -> Job], NEW rn \in [Runs -> Run], NEW rs,
         \A j \in Jobs : Sound(jb[j], attempt[j], rn[RunOf[j]]),
         \A r \in rs : rn[r].created # 0
  PROVE  /\ CancelJobs(jb, rs) \in [Jobs -> Job]
         /\ \A j \in Jobs : Sound(CancelJobs(jb, rs)[j], attempt[j], CancelRuns(rn, rs)[RunOf[j]])
<1>1. CancelJobs(jb, rs) \in [Jobs -> Job]
  BY CancelOneType DEF CancelJobs
<1>2. ASSUME NEW j \in Jobs
      PROVE  Sound(CancelJobs(jb, rs)[j], attempt[j], CancelRuns(rn, rs)[RunOf[j]])
  <2>1. RunOf[j] \in Runs
    BY JobsAssumption
  <2>2. CASE RunOf[j] \in rs
    <3>1. CancelJobs(jb, rs)[j] = cancel_one(jb[j]) /\ jb[j] \in Job
      BY <2>2 DEF CancelJobs
    <3>2. rn[RunOf[j]].created # 0 /\ CancelRuns(rn, rs)[RunOf[j]].created # 0
      BY <2>1, <2>2, CancelRunsType
    <3> QED BY <3>1, <3>2, CancelOneSound
  <2>3. CASE RunOf[j] \notin rs
    BY <2>1, <2>3, CancelRunsType DEF CancelJobs
  <2> QED BY <2>2, <2>3
<1> QED BY <1>1, <1>2

\* Cancelling a run preserves the invariant.
LEMMA CancelRunSound ==
  ASSUME IInv, NEW r \in Runs, cancel_run(r)
  PROVE  IInv'
<1> DEFINE jb == CancelJobs(job, {r})
<1>0. /\ TypeOK /\ UNCHANGED <<attempt, worker>> /\ run' = CancelRuns(run, {r})
      /\ release_dependents(jb, run', {r})
      /\ \A k \in Jobs : Sound(job[k], attempt[k], run[RunOf[k]])
  BY DEF IInv, cancel_run
<1>1. \A s \in {r} : run[s].created # 0
  BY <1>0 DEF cancel_run, Exists, TypeOK, Run
<1>2. job \in [Jobs -> Job] /\ run \in [Runs -> Run]
  BY <1>0 DEF TypeOK
<1>3. /\ jb \in [Jobs -> Job]
      /\ \A j \in Jobs : Sound(jb[j], attempt[j], run'[RunOf[j]])
  BY <1>0, <1>1, <1>2, CancelJobsSound
<1>4. run' \in [Runs -> Run] /\ \A s \in {r} : run'[s].created # 0
  BY <1>0, <1>1, <1>2, CancelRunsType
<1> HIDE DEF jb
<1> QED BY <1>0, <1>3, <1>4, RowsSound

\* Creating a run, with the supersession of its group's live runs, preserves the invariant.
LEMMA CreateRunSound ==
  ASSUME IInv, NEW r \in Runs, create_run(r)
  PROVE  IInv'
<1>0. /\ TypeOK /\ UNCHANGED <<attempt, worker>> /\ ~Exists(r)
      /\ \A k \in Jobs : Sound(job[k], attempt[k], run[RunOf[k]])
      /\ job \in [Jobs -> Job] /\ run \in [Runs -> Run]
  BY DEF IInv, TypeOK, create_run
<1>1. PICK now \in {Latest, Latest + 1} \cap 1 .. MaxClock :
        LET new  == [run EXCEPT ![r].created = now]
            old  == supersede(r, new)
            rows == [j \in JobsOf(r) |-> IF Ready(j) THEN Apply(job[j], "dependencies_satisfied", 0)
                                         ELSE job[j]]
        IN  /\ run' = CancelRuns(new, old)
            /\ release_dependents(CancelJobs([j \in Jobs |-> IF RunOf[j] = r THEN rows[j]
                                                             ELSE job[j]], old),
                                  run', old \cup {r})
  BY DEF create_run
<1> DEFINE new  == [run EXCEPT ![r].created = now]
           old  == supersede(r, new)
           rows == [j \in JobsOf(r) |-> IF Ready(j) THEN Apply(job[j], "dependencies_satisfied", 0)
                                        ELSE job[j]]
           born == [j \in Jobs |-> IF RunOf[j] = r THEN rows[j] ELSE job[j]]
           jb   == CancelJobs(born, old)
<1>2. run' = CancelRuns(new, old) /\ release_dependents(jb, run', old \cup {r})
  BY <1>1
<1>3. now \in 0 .. MaxClock /\ now # 0
  BY <1>1, SizesAssumption
<1>4. /\ new \in [Runs -> Run]
      /\ \A s \in Runs \ {r} : new[s] = run[s]
      /\ new[r].created # 0 /\ new[r].cancel = run[r].cancel
  BY <1>0, <1>3 DEF Run
<1>5. \A s \in old : s \in Runs /\ new[s].created # 0
  BY <1>3, SizesAssumption DEF supersede
<1> HIDE DEF new, old
<1>6. ASSUME NEW j \in Jobs
      PROVE  born[j] \in Job /\ Sound(born[j], attempt[j], new[RunOf[j]])
  <2>0. job[j] \in Job /\ RunOf[j] \in Runs
    BY <1>0, JobsAssumption
  <2>1. CASE RunOf[j] = r
    <3>1. job[j].state = "blocked" /\ ~job[j].cancel /\ ~run[r].cancel
      BY <1>0, <2>0, <2>1 DEF Sound, Exists, Run, Terminal, Owned, Outcome, Waiting
    <3>2. \/ born[j] = job[j]
          \/ born[j] = Apply(job[j], "dependencies_satisfied", 0)
      BY <2>1 DEF JobsOf
    <3>3. /\ Apply(job[j], "dependencies_satisfied", 0) \in Job
          /\ Apply(job[j], "dependencies_satisfied", 0).state = "queued"
          /\ Apply(job[j], "dependencies_satisfied", 0).cancel = job[j].cancel
      BY <2>0, ApplyType, SizesAssumption DEF To
    <3>4. /\ born[j] \in Job /\ ~born[j].cancel
          /\ born[j].state \in {"blocked", "queued"}
      BY <2>0, <3>1, <3>2, <3>3
    <3> HIDE DEF born
    <3> QED BY <1>0, <1>4, <2>1, <3>1, <3>4, RowUnowned DEF Owned
  <2>2. CASE RunOf[j] # r
    BY <1>0, <1>4, <2>0, <2>2
  <2> QED BY <2>1, <2>2
<1>7. born \in [Jobs -> Job]
  BY <1>6
<1> HIDE DEF born
<1>8. /\ jb \in [Jobs -> Job]
      /\ \A j \in Jobs : Sound(jb[j], attempt[j], run'[RunOf[j]])
  BY <1>2, <1>4, <1>5, <1>6, <1>7, CancelJobsSound
<1>9. run' \in [Runs -> Run] /\ \A s \in old \cup {r} : run'[s].created # 0
  BY <1>2, <1>4, <1>5, CancelRunsType
<1> HIDE DEF jb
<1> QED BY <1>0, <1>2, <1>8, <1>9, RowsSound

\* Running a job again, with the revival of its skipped dependents, preserves the invariant.
LEMMA RerunSound ==
  ASSUME IInv, NEW j \in Jobs, rerun_job(j)
  PROVE  IInv'
<1>0. /\ TypeOK /\ UNCHANGED <<attempt, worker>>
      /\ \A k \in Jobs : Sound(job[k], attempt[k], run[RunOf[k]])
      /\ job \in [Jobs -> Job] /\ run \in [Runs -> Run] /\ RunOf[j] \in Runs
      /\ run' = [run EXCEPT ![RunOf[j]].cancel = FALSE]
  BY JobsAssumption DEF IInv, TypeOK, rerun_job
<1>1. PICK reached \in SUBSET JobsOf(RunOf[j]) :
        /\ \A k \in reached : k = j \/ (job[k].state = "skipped" /\ ~job[k].cancel)
        /\ job' = [k \in Jobs |-> IF k \notin reached THEN job[k]
                                  ELSE Reset(job[k], IF k = j THEN "queued" ELSE "blocked")]
  BY DEF rerun_job
<1>2. job[j].state \in Terminal /\ ~job[j].cancel
  BY DEF rerun_job, CanApply, From
<1>3. /\ run' \in [Runs -> Run]
      /\ ~run'[RunOf[j]].cancel /\ run'[RunOf[j]].created = run[RunOf[j]].created
      /\ \A r \in Runs \ {RunOf[j]} : run'[r] = run[r]
  BY <1>0 DEF Run
<1>4. run[RunOf[j]].created # 0
  BY <1>0, <1>2 DEF Sound, Terminal, Outcome
<1>5. ASSUME NEW k \in Jobs
      PROVE  job'[k] \in Job /\ Sound(job'[k], attempt[k], run'[RunOf[k]])
  <2>0. job[k] \in Job /\ RunOf[k] \in Runs
    BY <1>0, JobsAssumption
  <2>1. CASE k \in reached
    <3>1. /\ job[k].state \notin Owned /\ ~job[k].cancel /\ RunOf[k] = RunOf[j]
      BY <1>1, <1>2, <2>1 DEF JobsOf, Owned, Terminal, Outcome
    <3>2. /\ job'[k] \in Job /\ ~job'[k].cancel
          /\ job'[k].state \in {"blocked", "queued"}
      BY <1>1, <2>0, <2>1, <3>1 DEF Reset, Job, JobStates, Waiting
    <3> QED BY <1>0, <1>3, <1>4, <3>1, <3>2, RowUnowned DEF Owned
  <2>2. CASE k \notin reached
    <3>1. job'[k] = job[k]
      BY <1>1, <2>2
    <3>2. CASE RunOf[k] = RunOf[j]
      BY <1>0, <1>3, <1>4, <3>1, <3>2 DEF Sound
    <3>3. CASE RunOf[k] # RunOf[j]
      BY <1>0, <1>3, <2>0, <3>1, <3>3
    <3> QED BY <2>0, <3>1, <3>2, <3>3
  <2> QED BY <2>1, <2>2
<1>6. job' \in [Jobs -> Job]
  <2>1. job' = [k \in Jobs |-> job'[k]]
    BY <1>1
  <2> QED BY <1>5, <2>1
<1> QED BY <1>0, <1>3, <1>5, <1>6 DEF IInv, TypeOK

\* A forge rerequest preserves the invariant.
LEMMA RerequestSound ==
  ASSUME IInv, NEW rs \in SUBSET Runs, rerequest(rs)
  PROVE  IInv'
<1> DEFINE jb == [j \in Jobs |-> IF RunOf[j] \notin rs THEN job[j]
                                 ELSE [Reset(job[j], IF Ready(j) THEN "queued" ELSE "blocked")
                                         EXCEPT !.cancel = FALSE]]
<1>0. /\ TypeOK /\ UNCHANGED <<attempt, worker>>
      /\ \A k \in Jobs : Sound(job[k], attempt[k], run[RunOf[k]])
      /\ job \in [Jobs -> Job] /\ run \in [Runs -> Run]
      /\ run' = [r \in Runs |-> IF r \in rs THEN [run[r] EXCEPT !.cancel = FALSE] ELSE run[r]]
      /\ release_dependents(jb, run', rs)
      /\ \A r \in rs : Rerequestable(r)
  BY DEF IInv, TypeOK, rerequest
<1>1. /\ run' \in [Runs -> Run]
      /\ \A r \in rs : ~run'[r].cancel /\ run'[r].created # 0
      /\ \A s \in Runs \ rs : run'[s] = run[s]
  <2>1. \A r \in rs : run[r].created # 0
    BY <1>0 DEF Rerequestable, Exists, Run
  <2> QED BY <1>0, <2>1 DEF Run
<1>2. ASSUME NEW k \in Jobs
      PROVE  jb[k] \in Job /\ Sound(jb[k], attempt[k], run'[RunOf[k]])
  <2>0. job[k] \in Job /\ RunOf[k] \in Runs
    BY <1>0, JobsAssumption
  <2>1. CASE RunOf[k] \in rs
    <3>1. job[k].state \notin Owned
      BY <1>0, <2>1 DEF Rerequestable, JobsOf, Terminal, Outcome, Owned
    <3>2. jb[k] \in Job /\ ~jb[k].cancel /\ jb[k].state \in {"queued", "blocked"}
      BY <2>0, <2>1 DEF Reset, Job, JobStates, Waiting
    <3> HIDE DEF jb
    <3> QED BY <1>0, <1>1, <2>1, <3>1, <3>2, RowUnowned DEF Owned
  <2>2. CASE RunOf[k] \notin rs
    BY <1>0, <1>1, <2>0, <2>2
  <2> QED BY <2>1, <2>2
<1>3. jb \in [Jobs -> Job]
  BY <1>2
<1> HIDE DEF jb
<1>4. \A r \in rs : run'[r].created # 0
  BY <1>1
<1>5. \A k \in Jobs : Sound(jb[k], attempt[k], run'[RunOf[k]])
  BY <1>2
<1>6. run' \in [Runs -> Run] /\ release_dependents(jb, run', rs) /\ UNCHANGED <<attempt, worker>>
  BY <1>0, <1>1
<1> QED BY <1>3, <1>4, <1>5, <1>6, RowsSound

\* Settling a set of held jobs in one transaction preserves the invariant.
LEMMA SettleSound ==
  ASSUME IInv, NEW D \in SUBSET Jobs,
         NEW fate \in [D -> {"lease_expired", "reconciled", "offer_lapsed"}], NEW ended,
         settle(fate, ended)
  PROVE  IInv'
<1> DEFINE jb == [j \in Jobs |-> IF j \notin DOMAIN fate THEN job[j]
                                 ELSE IF fate[j] = "offer_lapsed" THEN Returned(job[j])
                                 ELSE Apply(job[j], fate[j], 0)]
           how(j) == IF fate[j] = "offer_lapsed" THEN "lapsed" ELSE "finished"
           rs == {RunOf[j] : j \in {k \in DOMAIN fate : jb[k].state \in Terminal}}
<1>0. /\ TypeOK /\ UNCHANGED <<run, worker>>
      /\ \A k \in Jobs : Sound(job[k], attempt[k], run[RunOf[k]])
      /\ job \in [Jobs -> Job] /\ attempt \in [Jobs -> [Fences -> Attempt]]
      /\ \A j \in D : job[j].state \in From(fate[j])
      /\ attempt' = [j \in Jobs |-> [f \in Fences |->
                       IF j \in DOMAIN fate /\ Held(attempt[j][f])
                       THEN Closed(attempt[j][f], how(j), j \in ended) ELSE attempt[j][f]]]
      /\ release_dependents(jb, run, rs)
  BY DEF IInv, TypeOK, settle
<1>1. ASSUME NEW j \in D
      PROVE  /\ job[j].state \in Owned /\ run[RunOf[j]].created # 0
             /\ jb[j] \in Job /\ jb[j].cancel = job[j].cancel
             /\ jb[j].state \in Terminal \/ (jb[j].state = "queued" /\ ~job[j].cancel)
  <2>1. job[j] \in Job /\ Sound(job[j], attempt[j], run[RunOf[j]])
    BY <1>0
  <2>2. job[j].state \in Owned
    BY <1>0 DEF From, Owned
  <2>3. run[RunOf[j]].created # 0
    BY <2>1, <2>2 DEF Sound, Owned
  <2>4. CASE fate[j] = "offer_lapsed"
    BY <2>1, <2>2, <2>3, <2>4, ReturnedType DEF Terminal, Outcome
  <2>5. CASE fate[j] # "offer_lapsed"
    <3>1. jb[j] = Apply(job[j], fate[j], 0) /\ fate[j] \in {"lease_expired", "reconciled"}
      BY <2>5
    <3>2. To(fate[j]) = "infra_failed"
      BY <3>1 DEF To, ClassOutcome
    <3> QED BY <2>1, <2>2, <2>3, <3>1, <3>2, ApplyType, SizesAssumption DEF Terminal, Outcome
  <2> QED BY <2>4, <2>5
<1>2. ASSUME NEW j \in Jobs, NEW f \in Fences
      PROVE  /\ attempt'[j][f] \in Attempt
             /\ j \in D => /\ ~Held(attempt'[j][f])
                           /\ attempt'[j][f].status # "none" =>
                                /\ attempt[j][f].status # "none"
                                /\ attempt'[j][f].worker = attempt[j][f].worker
             /\ j \notin D => attempt'[j][f] = attempt[j][f]
  <2>0. attempt[j][f] \in Attempt
    BY <1>0
  <2>1. CASE j \in D /\ Held(attempt[j][f])
    <3>1. attempt'[j][f] = Closed(attempt[j][f], how(j), j \in ended)
      BY <1>0, <2>1
    <3> DEFINE h == how(j)
               b == j \in ended
    <3>2. h \in {"lapsed", "finished"} /\ b \in BOOLEAN
      OBVIOUS
    <3>3. attempt'[j][f] = Closed(attempt[j][f], h, b)
      BY <3>1
    <3> HIDE DEF h, b
    <3>4. /\ attempt'[j][f] \in Attempt
          /\ attempt'[j][f].status \in {"lapsed", "finished"}
          /\ attempt'[j][f].worker = attempt[j][f].worker
      BY <2>0, <3>2, <3>3, ClosedType
    <3>5. attempt[j][f].status # "none"
      BY <2>1 DEF Held
    <3> QED BY <2>1, <3>4, <3>5 DEF Held
  <2>2. CASE ~(j \in D /\ Held(attempt[j][f]))
    <3>1. attempt'[j][f] = attempt[j][f]
      BY <1>0, <2>2
    <3> QED BY <2>0, <2>2, <3>1
  <2> QED BY <2>1, <2>2
<1>3. attempt' \in [Jobs -> [Fences -> Attempt]]
  <2>1. attempt' = [j \in Jobs |-> [f \in Fences |-> attempt'[j][f]]]
    BY <1>0
  <2> QED BY <1>2, <2>1
<1>4. ASSUME NEW j \in Jobs
      PROVE  jb[j] \in Job /\ Sound(jb[j], attempt'[j], run[RunOf[j]])
  <2>0. job[j] \in Job /\ Sound(job[j], attempt[j], run[RunOf[j]])
    BY <1>0
  <2>1. CASE j \in D
    <3> HIDE DEF jb
    <3> QED BY <2>0, <2>1, <1>1, <1>2, RowReleased
  <2>2. CASE j \notin D
    <3>1. jb[j] = job[j]
      BY <2>2
    <3>2. \A f \in Fences : attempt'[j][f] = attempt[j][f]
      BY <1>2, <2>2
    <3> QED BY <2>0, <3>1, <3>2 DEF Sound, Reserves
  <2> QED BY <2>1, <2>2
<1>5. jb \in [Jobs -> Job]
  BY <1>4
<1>6. \A r \in rs : run[r].created # 0
  BY <1>1
<1> HIDE DEF jb, rs
<1>7. job' \in [Jobs -> Job] /\ \A j \in Jobs : Sound(job'[j], attempt'[j], run[RunOf[j]])
  BY <1>0, <1>4, <1>5, <1>6, ReleaseSound
<1> QED BY <1>0, <1>3, <1>7 DEF IInv, TypeOK

\* Draining, uninstalling and revoking touch the worker rows only.
LEMMA AdministrationSound ==
  ASSUME IInv, Administration
  PROVE  IInv'
<1>0. UNCHANGED <<job, attempt, run>>
  BY DEF Administration, revoke, drain, undrain, request_uninstall, settle_uninstalls
<1>1. worker' \in [Workers -> Worker]
  <2>0. worker \in [Workers -> Worker]
    BY DEF IInv, TypeOK
  <2>1. ASSUME NEW w \in Operated, revoke(w) \/ drain(w) \/ undrain(w) \/ request_uninstall(w)
        PROVE  worker' \in [Workers -> Worker]
    BY <2>0, <2>1, JobsAssumption, ZenonT(60) DEF revoke, drain, undrain, request_uninstall, Worker
  <2>2. ASSUME settle_uninstalls
        PROVE  worker' \in [Workers -> Worker]
    BY <2>0, <2>2 DEF settle_uninstalls, Worker
  <2> QED BY <2>1, <2>2 DEF Administration
<1> QED BY <1>0, <1>1 DEF IInv, TypeOK

\* A worker's report preserves the invariant, an unrequested `canceled` included.
LEMMA ReportSound ==
  ASSUME IInv, NEW w \in Workers, NEW j \in Jobs, NEW f \in Fences, NEW e \in Reports,
         report(w, j, f, e)
  PROVE  IInv'
<1> DEFINE ev == IF e = "canceled" /\ ~job[j].cancel THEN "runtime" ELSE e
<1>1. PICK ended \in Ends(j), lost \in BOOLEAN : finish(j, f, "worker", ev, ended, lost)
  BY DEF report
<1>2. ev # "leased" /\ ev # "offer_lapsed" /\ ev # "rerun"
  BY JobsAssumption DEF Reports, WorkerClass
<1>3. ended \in BOOLEAN /\ attempt[j][f].status = "acked"
  BY DEF Ends, report
<1> QED BY <1>1, <1>2, <1>3, FinishSound

\* Everything a worker may call preserves the invariant.
LEMMA WorkerCallsSound ==
  ASSUME IInv, WorkerCalls
  PROVE  IInv'
<1>1. ASSUME NEW w \in Workers, NEW j \in Jobs, NEW f \in Fences, abandon(w, j, f)
      PROVE  IInv'
  <2>1. CASE lapse(j, f)
    BY <2>1, GiveBackSound DEF lapse
  <2>2. CASE ~lapse(j, f)
    <3>1. PICK ended \in Ends(j) : finish(j, f, "reconciler", "reconciled", ended, FALSE)
      BY <1>1, <2>2 DEF abandon
    <3>2. ended \in BOOLEAN /\ attempt[j][f].status = "acked"
      BY <1>1, <2>2 DEF Ends, abandon
    <3> QED BY <3>1, <3>2, FinishSound
  <2> QED BY <2>1, <2>2
<1>2. ASSUME NEW w \in Workers, NEW j \in Jobs, NEW f \in Fences,
             acknowledge(w, j, f) \/ decline(w, j, f) \/ abandon(w, j, f)
               \/ \E e \in Reports : report(w, j, f, e)
      PROVE  IInv'
  <2>1. CASE acknowledge(w, j, f)
    BY <2>1, AttemptStepsSound
  <2>2. CASE decline(w, j, f)
    BY <2>2, GiveBackSound DEF decline
  <2>3. CASE abandon(w, j, f)
    BY <1>1, <2>3
  <2>4. CASE \E e \in Reports : report(w, j, f, e)
    BY <2>4, ReportSound
  <2> QED BY <1>2, <2>1, <2>2, <2>3, <2>4
<1>3. ASSUME NEW w \in Workers, NEW j \in Jobs, place(w, j)
      PROVE  IInv'
  BY <1>3, PlaceSound
<1>4. ASSUME NEW w \in Workers, NEW hs \in SUBSET Jobs, renew(w, hs)
      PROVE  IInv'
  BY <1>4, RenewSound
<1> QED BY <1>2, <1>3, <1>4 DEF WorkerCalls

\* Both reconciliations settle a set of jobs with one of three events each, and return
\* only offers nobody answered.
LEMMA SettledSets ==
  ASSUME reconcile_revoked \/ reconcile_startup
  PROVE  \E D \in SUBSET Jobs :
           \E fate \in [D -> {"lease_expired", "reconciled", "offer_lapsed"}] :
             /\ \A j \in D : fate[j] = "offer_lapsed" =>
                  \E f \in Fences : attempt[j][f].status = "offered"
             /\ \E ended : settle(fate, ended)
<1>0. \A j \in Jobs : \A a \in HeldRows(j) :
        a.status # "acked" => \E f \in Fences : attempt[j][f].status = "offered"
  BY DEF HeldRows, Held
<1>1. CASE reconcile_revoked
  <2> DEFINE orphans == {j \in Jobs : \E a \in HeldRows(j) : Revoked(a)}
             acked   == {j \in orphans : \E a \in HeldRows(j) : a.status = "acked"}
             fate    == [j \in orphans |-> IF j \in acked THEN "reconciled" ELSE "offer_lapsed"]
  <2>1. orphans \in SUBSET Jobs
    OBVIOUS
  <2>2. \E ended : settle(fate, ended)
    BY <1>1 DEF reconcile_revoked
  <2>3. fate \in [orphans -> {"lease_expired", "reconciled", "offer_lapsed"}]
    OBVIOUS
  <2>4. \A j \in orphans : fate[j] = "offer_lapsed" =>
          \E f \in Fences : attempt[j][f].status = "offered"
    BY <1>0
  <2> HIDE DEF fate, orphans, acked
  <2> QED BY <2>1, <2>2, <2>3, <2>4
<1>2. CASE reconcile_startup
  <2> DEFINE due     == {j \in Jobs : \E a \in HeldRows(j) : Due(a)}
             offered == {j \in Jobs : \E a \in HeldRows(j) : a.status = "offered"}
             orphans == {j \in Jobs : \E a \in HeldRows(j) : Revoked(a)}
             swept(late) == due \cup late \cup orphans
             fate(late)  == [j \in swept(late) |-> IF j \in due THEN "lease_expired"
                                                   ELSE IF j \in offered THEN "offer_lapsed"
                                                   ELSE "reconciled"]
  <2>1. PICK late \in SUBSET offered : \E ended : settle(fate(late), ended)
    BY <1>2 DEF reconcile_startup
  <2>2. swept(late) \in SUBSET Jobs
    OBVIOUS
  <2>3. fate(late) \in [swept(late) -> {"lease_expired", "reconciled", "offer_lapsed"}]
    OBVIOUS
  <2> DEFINE F == fate(late)
             S == swept(late)
  <2>4. \A j \in S : F[j] = "offer_lapsed" => \E f \in Fences : attempt[j][f].status = "offered"
    <3>1. ASSUME NEW j \in S, F[j] = "offer_lapsed" PROVE j \in offered
      BY <3>1
    <3>2. \A j \in offered : \E f \in Fences : attempt[j][f].status = "offered"
      BY DEF HeldRows
    <3> QED BY <3>1, <3>2
  <2> HIDE DEF F, S
  <2>5. S \in SUBSET Jobs /\ F \in [S -> {"lease_expired", "reconciled", "offer_lapsed"}]
          /\ \E ended : settle(F, ended)
    BY <2>1, <2>2, <2>3 DEF F, S
  <2> QED BY <2>4, <2>5
<1> QED BY <1>1, <1>2

\* The dispatch pass's sweeps and both reconciliations preserve the invariant.
LEMMA SweepsSound ==
  ASSUME IInv, Sweeps
  PROVE  IInv'
<1>1. ASSUME NEW j \in Jobs, NEW f \in Fences, expire(j, f)
      PROVE  IInv'
  <2>1. PICK ended \in Ends(j) : finish(j, f, "controller", "lease_expired", ended, FALSE)
    BY <1>1 DEF expire
  <2>2. ended \in BOOLEAN /\ attempt[j][f].status = "acked"
    BY <1>1 DEF Ends, expire, Due
  <2> QED BY <2>1, <2>2, FinishSound
<1>2. ASSUME NEW j \in Jobs, NEW f \in Fences, lapse(j, f)
      PROVE  IInv'
  BY <1>2, GiveBackSound DEF lapse
<1>3. ASSUME NEW j \in Jobs, sweep_queue_timeouts(j)
      PROVE  IInv'
  BY <1>3, SweepQueueSound
<1>4. CASE reconcile_revoked \/ reconcile_startup
  BY <1>4, SettledSets, SettleSound
<1> QED BY <1>1, <1>2, <1>3, <1>4 DEF Sweeps

\* Everything a user or the forge may request preserves the invariant.
LEMMA RequestsSound ==
  ASSUME IInv, Requests
  PROVE  IInv'
BY CreateRunSound, CancelRunSound, RerequestSound, CancelSound, RerunSound DEF Requests

\* Time passing preserves the invariant.
LEMMA TimeSound ==
  ASSUME IInv, Time
  PROVE  IInv'
<1>1. PICK j \in Jobs, f \in Fences : LeaseAges(j, f) \/ Overruns(j, f) \/ log_ended(j, f)
  BY DEF Time
<1> QED BY <1>1, AttemptStepsSound

\* The empty store satisfies the invariant.
LEMMA InitSound == Init => IInv
<1> SUFFICES ASSUME Init PROVE IInv
  OBVIOUS
<1>0. 0 \in 0 .. MaxFence /\ 0 \in 0 .. LeaseTicks /\ 0 \in 0 .. MaxClock
  BY SizesAssumption
<1>1. job \in [Jobs -> Job]
  BY <1>0 DEF Init, Job, JobStates, Waiting
<1>2. NoAttempt \in Attempt
  BY <1>0 DEF NoAttempt, Attempt, LogState
<1>3. TypeOK
  BY <1>0, <1>1, <1>2 DEF Init, TypeOK, Run, Worker
<1>4. ASSUME NEW j \in Jobs PROVE Sound(job[j], attempt[j], run[RunOf[j]])
  <2>1. /\ job[j].state = "blocked" /\ ~job[j].cancel
        /\ \A f \in Fences : attempt[j][f].status = "none"
        /\ run[RunOf[j]].cancel = FALSE
    BY JobsAssumption DEF Init, NoAttempt
  <2> QED BY <2>1 DEF Sound, Reserves, Held, Owned
<1> QED BY <1>3, <1>4 DEF IInv

\* Every step preserves the invariant.
LEMMA NextSound == IInv /\ [Next]_vars => IInv'
<1> SUFFICES ASSUME IInv, [Next]_vars PROVE IInv'
  OBVIOUS
<1>1. CASE UNCHANGED vars
  BY <1>1 DEF vars, IInv, TypeOK
<1>2. CASE Next
  BY <1>2, WorkerCallsSound, SweepsSound, RequestsSound, AdministrationSound, TimeSound DEF Next
<1> QED BY <1>1, <1>2

\* The store's tables satisfy the inductive invariant in every reachable state.
THEOREM DispatchInvariant == Spec => []IInv
BY InitSound, NextSound, PTL DEF Spec

\* Every row dispatch writes is well formed: fences stay within the leases made and a
\* renewal sets a lease to its full length instead of adding to it.
THEOREM TypeCorrect == Spec => []TypeOK
<1>1. IInv => TypeOK
  BY DEF IInv
<1> QED BY <1>1, DispatchInvariant, PTL

\* The attempt under a job's fence is unreleased exactly while the job is owned by a
\* worker, and every other attempt is released (jobs::lease_reserved, dispatch::finish and
\* give_back): capacity is neither leaked nor freed early.
THEOREM ReservationCorrect == Spec => []HeldIffOwned
<1>1. IInv => HeldIffOwned
  BY DEF IInv, Sound, HeldIffOwned
<1> QED BY <1>1, DispatchInvariant, PTL

\* A job whose cancel, or whose run's cancel, was requested has ended or is being stopped,
\* although its offer may come back by a lapse, a decline, an abandonment or a reconciliation;
\* reruns and rerequests clear the flags in the transaction that revives a job.
THEOREM CancelledWorkDrains == Spec => []CancelledDrains
<1>1. IInv => \A j \in Jobs : job[j] \in Job /\ Sound(job[j], attempt[j], run[RunOf[j]])
  BY DEF IInv, TypeOK
<1>2. IInv => CancelledDrains
  BY <1>1 DEF Sound, CancelledDrains, Job, JobStates
<1> QED BY <1>2, DispatchInvariant, PTL
=============================================================================

------------------------------ MODULE RowProofs -----------------------------
(***************************************************************************)
(* What one transaction of Dispatch may do to a job row and to an attempt  *)
(* row. RowMoves says it of the job rows: the class explains the state, an *)
(* owned job is left only as its attempt allows, an ended one stays ended  *)
(* unless someone asks for it to run again. A transaction writes rows and  *)
(* then decides the dependents of the runs it ended jobs in, so each lemma *)
(* shows RowMoves of the rows written, and ReleaseMoves carries it over    *)
(* the release. Advance says it of the attempt rows.                       *)
(***************************************************************************)
EXTENDS OwnershipProofs, WellFoundedInduction, FiniteSetTheorems

\* Every non-empty set of natural numbers has a least element.
LEMMA LeastNatural ==
  ASSUME NEW T \in SUBSET Nat, T # {}
  PROVE  \E m \in T : \A k \in T : m <= k
<1> DEFINE R == OpToRel(<, Nat)
<1>1. IsWellFoundedOn(R, Nat)
  BY NatLessThanWellFounded
<1>2. \A k \in Nat, m \in Nat : k < m => <<k, m>> \in R
  BY DEF OpToRel
<1> HIDE DEF R
<1>3. \E m \in T : \A k \in T : ~(<<k, m>> \in R)
  BY <1>1, WFMin
<1>4. \E m \in T : \A k \in T : ~(k < m)
  BY <1>2, <1>3
<1>5. \A k \in T, m \in T : ~(k < m) => m <= k
  OBVIOUS
<1> QED BY <1>4, <1>5

-----------------------------------------------------------------------------
(* Decisions: a job is left blocked only for a need that has not ended.    *)

\* decide waits only while some need is undecided (dispatch.rs, release_dependents).
LEMMA DecisionWaits ==
  ASSUME NEW j \in Jobs, NEW eff, NEW cancelled, Decision(j, eff, cancelled) = "wait"
  PROVE  \E n \in NeedSet(j) : eff[n] \notin Terminal
<1> DEFINE ok == \A n \in NeedSet(j) : Satisfied(eff[n])
<1>1. CASE Condition[j] # "none"
  <2>1. \A c, b, x : Eval(c, b, x) # "wait"
    BY DEF Eval
  <2>2. \E n \in NeedSet(j) : ~Decided(eff[n])
    BY <1>1, <2>1 DEF Decision
  <2> QED BY <2>2 DEF Decided
<1>2. CASE Condition[j] = "none"
  <2> DEFINE bad   == {i \in DOMAIN Needs[j] : ~Satisfied(eff[Needs[j][i]])}
             P(i)  == /\ ~Satisfied(eff[Needs[j][i]])
                      /\ \A k \in 1 .. (i - 1) : Satisfied(eff[Needs[j][k]])
             first == CHOOSE i \in DOMAIN Needs[j] : P(i)
  <2>1. ~ok /\ eff[Needs[j][first]] \notin Terminal
    BY <1>2 DEF Decision, Decided
  <2>2. PICK n \in Nat : DOMAIN Needs[j] = 1 .. n
    BY JobsAssumption
  <2>3. bad \in SUBSET Nat /\ bad # {}
    BY <2>1, <2>2 DEF NeedSet
  <2>4. PICK m \in bad : \A k \in bad : m <= k
    BY <2>3, LeastNatural
  <2>5. P(m) /\ m \in DOMAIN Needs[j]
    BY <2>2, <2>4
  <2>6. first \in DOMAIN Needs[j]
    BY <2>5
  <2> QED BY <2>1, <2>6 DEF NeedSet
<1> QED BY <1>1, <1>2

\* After release_dependents no job of the runs it decided is blocked for nothing.
LEMMA ReleaseWaits ==
  ASSUME NEW jb \in [Jobs -> Job], NEW rn, NEW rs, release_dependents(jb, rn, rs),
         NEW j \in Jobs, RunOf[j] \in rs, job'[j].state = "blocked"
  PROVE  \E n \in NeedSet(j) : job'[n].state \notin Terminal
<1> DEFINE B == {k \in Jobs : RunOf[k] \in rs /\ jb[k].state = "blocked"}
           st == [k \in Jobs |-> job'[k].state]
           eff(bf) == [n \in Jobs |-> effective_state(st, bf, n)]
<1>0. PICK d \in [B -> Decisions] :
        /\ job' = Decide(jb, d)
        /\ \E bf : \A k \in DOMAIN d :
             d[k] = Decision(k, [n \in Jobs |-> effective_state([i \in Jobs |-> Decide(jb, d)[i].state],
                                                               bf, n)],
                             rn[RunOf[k]].cancel)
  BY ZenonT(60) DEF release_dependents
<1>1. PICK bf : \A k \in DOMAIN d : d[k] = Decision(k, eff(bf), rn[RunOf[k]].cancel)
  BY <1>0
<1>2. jb[j].state = "blocked"
  BY ReleaseEffect
<1>3. j \in DOMAIN d /\ d[j] \in Decisions
  BY <1>0, <1>2
<1>4. d[j] = "wait"
  <2>1. SUFFICES ASSUME d[j] # "wait" PROVE FALSE
    OBVIOUS
  <2>2. job'[j] = Apply(jb[j], d[j], 0)
    BY <1>0, <1>3, <2>1 DEF Decide
  <2>3. To(d[j]) # "blocked"
    BY <1>3, <2>1 DEF To, ClassOutcome, Decisions
  <2> QED BY <2>2, <2>3, ApplyType, SizesAssumption
<1> DEFINE E == eff(bf)
<1>5. \A n \in Jobs : E[n] \notin Terminal => job'[n].state \notin Terminal
  BY DEF effective_state, Terminal, Outcome
<1>6. Decision(j, E, rn[RunOf[j]].cancel) = "wait"
  BY <1>1, <1>3, <1>4
<1> HIDE DEF E
<1>7. \A n \in NeedSet(j) : n \in Jobs
  BY JobsAssumption DEF NeedSet
<1> QED BY <1>5, <1>6, <1>7, DecisionWaits

-----------------------------------------------------------------------------
(* What a transaction may do to a job row.                                 *)

Classed(row) == IF row.class = NoClass
                THEN row.state \notin Terminal \/ row.state \in Success
                ELSE row.state = ClassOutcome(row.class)

\* A job leaves its worker as an infrastructure failure or canceled, unstarted back to the
\* queue, or as a worker that is not revoked says.
LeavesWorker(j, row) ==
  job[j].state \in Owned /\ row.state # job[j].state =>
    \/ row.state \in {"infra_failed", "canceled"}
    \/ /\ row.state = "queued" /\ job[j].state = "leased"
       /\ \/ attempt[j][job[j].fence].status = "offered"
          \/ \E w \in Workers : decline(w, j, job[j].fence)
    \/ row.state \notin Waiting /\ Live(attempt[j][job[j].fence].worker)

RunAgain == \/ \E rs \in SUBSET Runs : rerequest(rs)
            \/ \E k \in Jobs : rerun_job(k)

RowMoves(jb) ==
  \A j \in Jobs : /\ Classed(jb[j])
                  /\ LeavesWorker(j, jb[j])
                  /\ job[j].state \in Terminal => jb[j] = job[j] \/ RunAgain

\* Outside the runs rs no job ends and none is blocked.
EndsIn(jb, rs) ==
  \A j \in Jobs : RunOf[j] \notin rs =>
    /\ jb[j].state \in Terminal => job[j].state \in Terminal
    /\ jb[j].state = "blocked" => job[j].state = "blocked"

RInv == IInv /\ ClassExplainsOutcome /\ BlockedWaits

\* An event that records a class leads to the outcome of that class, any other to a state
\* that needs none (state.rs apply, jobs::transition_from).
LEMMA ApplyClassed ==
  ASSUME NEW row \in Job, Classed(row), row.state \notin Terminal,
         NEW e \in Event, NEW f \in 0 .. MaxFence
  PROVE  Classed(Apply(row, e, f))
<1>1. row.class = NoClass
  BY DEF Classed, ClassOutcome, Terminal, Outcome
<1>2. Apply(row, e, f).class = ClassOf(e) /\ Apply(row, e, f).state = To(e)
  BY <1>1 DEF Apply, Job
<1>3. IF ClassOf(e) = NoClass THEN To(e) \notin Terminal \/ To(e) \in Success
                              ELSE To(e) = ClassOutcome(ClassOf(e))
  BY DEF ClassOf, To, NoClass, FailureClass, WorkerClass, Event, ControllerEvent, WorkerEvent,
         ReconcilerEvent, ClassOutcome, Terminal, Outcome, Success
<1> QED BY <1>2, <1>3 DEF Classed

\* Deciding dependents keeps the classes: a blocked job has none.
LEMMA ReleaseClassed ==
  ASSUME NEW jb \in [Jobs -> Job], NEW rn, NEW rs, release_dependents(jb, rn, rs),
         NEW j \in Jobs, Classed(jb[j])
  PROVE  Classed(job'[j])
<1>1. PICK d \in [{k \in Jobs : RunOf[k] \in rs /\ jb[k].state = "blocked"} -> Decisions] :
        job' = Decide(jb, d)
  BY DEF release_dependents
<1>2. CASE j \in DOMAIN d /\ d[j] # "wait"
  <2>1. job'[j] = Apply(jb[j], d[j], 0) /\ jb[j].state = "blocked" /\ d[j] \in Decisions \ {"wait"}
    BY <1>1, <1>2 DEF Decide
  <2>2. d[j] \in Event /\ jb[j].state \notin Terminal
    BY <2>1 DEF Decisions, Event, ControllerEvent, Terminal, Outcome
  <2> QED BY <2>1, <2>2, ApplyClassed, SizesAssumption
<1>3. CASE ~(j \in DOMAIN d /\ d[j] # "wait")
  BY <1>1, <1>3 DEF Decide
<1> QED BY <1>2, <1>3

\* What was true of the rows written is true of the rows released, and a job that is still
\* blocked waits for one that has not ended.
LEMMA ReleaseMoves ==
  ASSUME RInv, NEW jb \in [Jobs -> Job], NEW rn, NEW rs,
         RowMoves(jb), EndsIn(jb, rs),
         \A r \in Runs : r \notin rs => run'[r].created = run[r].created,
         release_dependents(jb, rn, rs) \/ (rs = {} /\ job' = jb)
  PROVE  RowMoves(job') /\ BlockedWaits'
<1>1. ASSUME NEW j \in Jobs
      PROVE  \/ job'[j] = jb[j]
             \/ /\ jb[j].state = "blocked" /\ RunOf[j] \in rs
                /\ job'[j].state \in {"queued", "skipped", "infra_failed"}
  BY ReleaseEffect
<1>2. RowMoves(job')
  <2> SUFFICES ASSUME NEW j \in Jobs
               PROVE  /\ Classed(job'[j])
                      /\ LeavesWorker(j, job'[j])
                      /\ job[j].state \in Terminal => job'[j] = job[j] \/ RunAgain
    BY DEF RowMoves
  <2>1. Classed(job'[j])
    BY ReleaseClassed DEF RowMoves
  <2>2. CASE job'[j] = jb[j]
    BY <2>1, <2>2 DEF RowMoves
  <2>3. CASE jb[j].state = "blocked"
    <3>1. job[j].state \notin Owned
      BY <2>3 DEF RowMoves, LeavesWorker, Waiting, Owned
    <3>2. job[j].state \in Terminal => RunAgain
      BY <2>3 DEF RowMoves, Terminal, Outcome
    <3> QED BY <2>1, <3>1, <3>2 DEF LeavesWorker
  <2> QED BY <1>1, <2>2, <2>3
<1>3. BlockedWaits'
  <2> SUFFICES ASSUME NEW j \in Jobs, Exists(RunOf[j])', job'[j].state = "blocked"
               PROVE  \E n \in NeedSet(j) : job'[n].state \notin Terminal
    BY DEF BlockedWaits, NeedSet
  <2>1. CASE RunOf[j] \in rs
    BY <2>1, ReleaseWaits
  <2>2. CASE RunOf[j] \notin rs
    <3>1. job'[j] = jb[j] /\ job[j].state = "blocked" /\ Exists(RunOf[j])
      BY <1>1, <2>2, JobsAssumption DEF EndsIn, Exists
    <3>2. PICK n \in NeedSet(j) : job[n].state \notin Terminal
      BY <3>1 DEF RInv, BlockedWaits
    <3>3. n \in Jobs /\ RunOf[n] \notin rs
      BY <2>2, JobsAssumption, NeedsAssumption DEF NeedSet
    <3> QED BY <1>1, <3>2, <3>3 DEF EndsIn
  <2> QED BY <2>1, <2>2
<1> QED BY <1>2, <1>3

\* Writing one row of a job that has not ended.
LEMMA OneRowMoves ==
  ASSUME RInv, NEW j \in Jobs, NEW row \in Job, NEW rs, job[j].state \notin Terminal,
         Classed(row), LeavesWorker(j, row), row.state = "blocked" => job[j].state = "blocked",
         row.state \in Terminal => RunOf[j] \in rs
  PROVE  /\ [job EXCEPT ![j] = row] \in [Jobs -> Job]
         /\ RowMoves([job EXCEPT ![j] = row])
         /\ EndsIn([job EXCEPT ![j] = row], rs)
<1> DEFINE jb == [job EXCEPT ![j] = row]
<1>1. jb \in [Jobs -> Job] /\ jb[j] = row /\ \A k \in Jobs \ {j} : jb[k] = job[k]
  BY DEF RInv, IInv, TypeOK
<1>2. \A k \in Jobs : Classed(job[k]) /\ LeavesWorker(k, job[k])
  BY DEF RInv, ClassExplainsOutcome, Classed, LeavesWorker
<1> HIDE DEF jb
<1> QED BY <1>1, <1>2 DEF RowMoves, EndsIn, jb

\* A returned offer has no class, or that of the cancellation it was waiting for.
LEMMA ReturnedClassed ==
  ASSUME NEW row \in Job, Classed(row), row.state \in Owned
  PROVE  Classed(Returned(row))
<1> DEFINE back == Apply(row, "offer_lapsed", 0)
<1>1. "offer_lapsed" \in Event /\ "cancel_before_start" \in Event /\ row.state \notin Terminal
  BY DEF Event, ControllerEvent, Owned, Terminal, Outcome
<1>2. back \in Job /\ Classed(back) /\ back.state = "queued"
  BY <1>1, ApplyType, ApplyClassed, SizesAssumption DEF To
<1> HIDE DEF back
<1>3. back.state \notin Terminal
  BY <1>2 DEF Terminal, Outcome
<1>4. Classed(Apply(back, "cancel_before_start", 0))
  BY <1>1, <1>2, <1>3, ApplyClassed, SizesAssumption
<1> QED BY <1>2, <1>4 DEF Returned, back

\* Handing back an offer: unanswered, or declined by its worker before it started.
LEMMA GiveBackMoves ==
  ASSUME RInv, NEW j \in Jobs, NEW f \in Fences, give_back(j, f),
         attempt[j][f].status = "offered" \/ \E w \in Workers : decline(w, j, f)
  PROVE  RowMoves(job') /\ BlockedWaits'
<1> DEFINE row == Returned(job[j])
           jb  == [job EXCEPT ![j] = row]
           rs  == IF job[j].cancel THEN {RunOf[j]} ELSE {}
<1>0. /\ job[j] \in Job /\ job[j].state = "leased" /\ job[j].fence = f /\ Classed(job[j])
      /\ run' = run
  BY DEF RInv, IInv, TypeOK, give_back, ClassExplainsOutcome, Classed
<1>1. job[j].state \in Owned /\ job[j].state \notin Terminal
  BY <1>0 DEF Owned, Terminal, Outcome
<1>2. /\ row \in Job /\ Classed(row)
      /\ row.state = IF job[j].cancel THEN "canceled" ELSE "queued"
  BY <1>0, <1>1, ReturnedType, ReturnedClassed
<1>3. release_dependents(jb, run, rs) \/ (rs = {} /\ job' = jb)
  BY <1>0 DEF give_back, RInv, IInv, TypeOK
<1> HIDE DEF row
<1>4. LeavesWorker(j, row)
  BY <1>0, <1>2 DEF LeavesWorker
<1>5. row.state # "blocked" /\ (row.state \in Terminal => RunOf[j] \in rs)
  BY <1>2 DEF Terminal, Outcome
<1> HIDE DEF rs
<1>6. jb \in [Jobs -> Job] /\ RowMoves(jb) /\ EndsIn(jb, rs)
  BY <1>1, <1>2, <1>4, <1>5, OneRowMoves
<1> HIDE DEF jb
<1> QED BY <1>0, <1>3, <1>6, ReleaseMoves

\* An event on a held attempt: from a worker that is not revoked, or the end of its lease.
LEMMA FinishMoves ==
  ASSUME RInv, NEW j \in Jobs, NEW f \in Fences, NEW actor, NEW event,
         NEW ended, NEW lost \in BOOLEAN, finish(j, f, actor, event, ended, lost),
         \/ event \in {"lease_expired", "reconciled"}
         \/ event \in WorkerEvent /\ Live(attempt[j][f].worker)
  PROVE  RowMoves(job') /\ BlockedWaits'
<1> DEFINE e   == IF event = "passed" /\ lost THEN "publication" ELSE event
           row == Apply(job[j], e, f)
           jb  == [job EXCEPT ![j] = row]
           rs  == IF To(e) \in Terminal THEN {RunOf[j]} ELSE {}
<1>0. /\ job[j] \in Job /\ job[j].state \in Owned /\ job[j].fence = f /\ Classed(job[j])
      /\ run' = run
  BY DEF RInv, IInv, TypeOK, Sound, Reserves, finish, ClassExplainsOutcome, Classed
<1>1. job[j].state \notin Terminal /\ f \in 0 .. MaxFence
  BY <1>0, SizesAssumption DEF Owned, Terminal, Outcome, Fences
<1>2. \/ e \in {"lease_expired", "reconciled"}
      \/ e \in WorkerEvent /\ Live(attempt[j][f].worker)
  BY DEF WorkerEvent, WorkerClass
<1>3. release_dependents(jb, run, rs) \/ (rs = {} /\ job' = jb)
  BY DEF finish, RInv, IInv, TypeOK
<1> HIDE DEF e
<1>4. e \in Event /\ To(e) \notin Waiting
  BY <1>2 DEF Event, ReconcilerEvent, WorkerEvent, WorkerClass, To, ClassOutcome, Waiting
<1>5. row \in Job /\ Classed(row) /\ row.state = To(e)
  BY <1>0, <1>1, <1>4, ApplyType, ApplyClassed
<1> HIDE DEF row
<1>6. LeavesWorker(j, row)
  <2>1. e \in {"lease_expired", "reconciled"} => To(e) = "infra_failed"
    BY DEF To, ClassOutcome
  <2> QED BY <1>0, <1>2, <1>4, <1>5, <2>1 DEF LeavesWorker
<1>7. row.state # "blocked" /\ (row.state \in Terminal => RunOf[j] \in rs)
  BY <1>4, <1>5 DEF Waiting
<1> HIDE DEF rs
<1>8. jb \in [Jobs -> Job] /\ RowMoves(jb) /\ EndsIn(jb, rs)
  BY <1>1, <1>5, <1>6, <1>7, OneRowMoves
<1> HIDE DEF jb
<1> QED BY <1>0, <1>3, <1>8, ReleaseMoves

\* Timing a job out of the queue.
LEMMA SweepQueueMoves ==
  ASSUME RInv, NEW j \in Jobs, sweep_queue_timeouts(j)
  PROVE  RowMoves(job') /\ BlockedWaits'
<1> DEFINE row == Apply(job[j], "queue_timed_out", 0)
           jb  == [job EXCEPT ![j] = row]
<1>0. /\ job[j] \in Job /\ job[j].state = "queued" /\ Classed(job[j]) /\ run' = run
      /\ release_dependents(jb, run, {RunOf[j]})
  BY DEF RInv, IInv, TypeOK, sweep_queue_timeouts, ClassExplainsOutcome, Classed
<1>1. "queue_timed_out" \in Event /\ job[j].state \notin Terminal
  BY <1>0 DEF Event, ControllerEvent, Terminal, Outcome
<1>2. row \in Job /\ Classed(row) /\ row.state = "timed_out"
  BY <1>0, <1>1, ApplyType, ApplyClassed, SizesAssumption DEF To
<1> HIDE DEF row
<1>3. LeavesWorker(j, row)
  BY <1>0 DEF LeavesWorker, Owned
<1>4. jb \in [Jobs -> Job] /\ RowMoves(jb) /\ EndsIn(jb, {RunOf[j]})
  BY <1>1, <1>2, <1>3, OneRowMoves
<1> HIDE DEF jb
<1> QED BY <1>0, <1>4, ReleaseMoves

\* A placement moves a queued job to leased.
LEMMA PlaceMoves ==
  ASSUME RInv, NEW w \in Workers, NEW j \in Jobs, place(w, j)
  PROVE  RowMoves(job') /\ BlockedWaits'
<1> DEFINE f   == job[j].fence + 1
           row == Apply(job[j], "leased", f)
           jb  == [job EXCEPT ![j] = row]
<1>0. /\ job[j] \in Job /\ job[j].state = "queued" /\ Classed(job[j]) /\ run' = run
      /\ job' = jb
  BY DEF RInv, IInv, TypeOK, place, ClassExplainsOutcome, Classed
<1>1. "leased" \in Event /\ job[j].state \notin Terminal /\ f \in 0 .. MaxFence
  BY <1>0, SizesAssumption DEF Event, ControllerEvent, Terminal, Outcome, place, Job
<1> HIDE DEF f
<1>2. row \in Job /\ Classed(row) /\ row.state = "leased"
  BY <1>0, <1>1, ApplyType, ApplyClassed DEF To
<1> HIDE DEF row
<1>3. LeavesWorker(j, row)
  BY <1>0 DEF LeavesWorker, Owned
<1>4. jb \in [Jobs -> Job] /\ RowMoves(jb) /\ EndsIn(jb, {})
  BY <1>1, <1>2, <1>3, OneRowMoves DEF Terminal, Outcome
<1> HIDE DEF jb
<1> QED BY <1>0, <1>4, ReleaseMoves

\* dispatch::cancel_one records the cancellation as the class of a job it ends.
LEMMA CancelOneClassed ==
  ASSUME NEW row \in Job, Classed(row)
  PROVE  Classed(cancel_one(row))
<1> DEFINE asked == [row EXCEPT !.cancel = TRUE]
<1>1. asked \in Job /\ asked.state = row.state /\ asked.class = row.class
  BY DEF Job
<1>2. Classed(asked)
  BY <1>1 DEF Classed
<1> HIDE DEF asked
<1>3. "cancel_before_start" \in Event
  BY DEF Event, ControllerEvent
<1>4. row.state \notin Terminal => Classed(Apply(asked, "cancel_before_start", 0))
  BY <1>1, <1>2, <1>3, ApplyClassed, SizesAssumption
<1> QED BY <1>2, <1>4 DEF cancel_one, asked

\* Cancelling one job.
LEMMA CancelMoves ==
  ASSUME RInv, NEW j \in Jobs, cancel(j)
  PROVE  RowMoves(job') /\ BlockedWaits'
<1> DEFINE row == cancel_one(job[j])
           jb  == [job EXCEPT ![j] = row]
           rs  == IF job[j].state \in Waiting THEN {RunOf[j]} ELSE {}
<1>0. /\ job[j] \in Job /\ job[j].state \notin Terminal /\ Classed(job[j]) /\ run' = run
      /\ release_dependents(jb, run, rs) \/ (rs = {} /\ job' = jb)
  BY DEF RInv, IInv, TypeOK, cancel, ClassExplainsOutcome, Classed
<1>1. /\ row \in Job /\ Classed(row)
      /\ \/ job[j].state \in Waiting /\ row.state = "canceled"
         \/ job[j].state \in Owned /\ row.state = job[j].state
  BY <1>0, CancelOneType, CancelOneClassed
<1> HIDE DEF row
<1>2. LeavesWorker(j, row)
  BY <1>1 DEF LeavesWorker, Waiting, Owned
<1>3. /\ row.state = "blocked" => job[j].state = "blocked"
      /\ row.state \in Terminal => RunOf[j] \in rs
  BY <1>0, <1>1
<1> HIDE DEF rs
<1>4. jb \in [Jobs -> Job] /\ RowMoves(jb) /\ EndsIn(jb, rs)
  BY <1>0, <1>1, <1>2, <1>3, OneRowMoves
<1> HIDE DEF jb
<1> QED BY <1>0, <1>4, ReleaseMoves

\* Cancelling runs ends what waits in them and leaves what is owned to its worker.
LEMMA CancelJobsMoves ==
  ASSUME NEW jb \in [Jobs -> Job], NEW rs, RowMoves(jb),
         \A j \in Jobs : job[j].state \in Owned => jb[j].state = job[j].state
  PROVE  CancelJobs(jb, rs) \in [Jobs -> Job] /\ RowMoves(CancelJobs(jb, rs))
<1>1. ASSUME NEW j \in Jobs
      PROVE  /\ cancel_one(jb[j]) \in Job /\ Classed(cancel_one(jb[j]))
             /\ jb[j].state \in Terminal => cancel_one(jb[j]) = jb[j]
             /\ LeavesWorker(j, cancel_one(jb[j]))
             /\ job[j].state \in Terminal => cancel_one(jb[j]) = job[j] \/ RunAgain
  <2>1. jb[j] \in Job /\ Classed(jb[j])
    BY DEF RowMoves
  <2>2. Classed(cancel_one(jb[j]))
    BY <2>1, CancelOneClassed
  <2>3. /\ cancel_one(jb[j]) \in Job
        /\ jb[j].state \in Terminal => cancel_one(jb[j]) = jb[j]
        /\ jb[j].state \in Owned => cancel_one(jb[j]).state = jb[j].state
    BY <2>1, CancelOneType DEF Waiting, Owned, Terminal, Outcome
  <2>4. LeavesWorker(j, cancel_one(jb[j]))
    BY <2>3 DEF LeavesWorker
  <2>5. job[j].state \in Terminal => cancel_one(jb[j]) = job[j] \/ RunAgain
    BY <2>3 DEF RowMoves
  <2> QED BY <2>2, <2>3, <2>4, <2>5
<1>2. ASSUME NEW j \in Jobs
      PROVE  CancelJobs(jb, rs)[j] = cancel_one(jb[j]) \/ CancelJobs(jb, rs)[j] = jb[j]
  BY DEF CancelJobs
<1>3. CancelJobs(jb, rs) \in [Jobs -> Job]
  BY <1>1 DEF CancelJobs
<1> QED BY <1>1, <1>2, <1>3 DEF RowMoves

\* The rows before a step move nowhere.
LEMMA RowsAtRest ==
  ASSUME RInv
  PROVE  job \in [Jobs -> Job] /\ RowMoves(job)
BY DEF RInv, IInv, TypeOK, ClassExplainsOutcome, Classed, RowMoves, LeavesWorker

\* Cancelling a run.
LEMMA CancelRunMoves ==
  ASSUME RInv, NEW r \in Runs, cancel_run(r)
  PROVE  RowMoves(job') /\ BlockedWaits'
<1> DEFINE jb == CancelJobs(job, {r})
<1>1. jb \in [Jobs -> Job] /\ RowMoves(jb)
  BY RowsAtRest, CancelJobsMoves
<1>2. EndsIn(jb, {r})
  BY DEF EndsIn, CancelJobs
<1>3. \A s \in Runs : s \notin {r} => run'[s].created = run[s].created
  BY DEF cancel_run, CancelRuns
<1>4. release_dependents(jb, run', {r})
  BY DEF cancel_run
<1> HIDE DEF jb
<1> QED BY <1>1, <1>2, <1>3, <1>4, ReleaseMoves

\* Creating a run, and superseding others.
LEMMA CreateRunMoves ==
  ASSUME RInv, NEW r \in Runs, create_run(r)
  PROVE  RowMoves(job') /\ BlockedWaits'
<1> DEFINE rows == [j \in JobsOf(r) |-> IF Ready(j) THEN Apply(job[j], "dependencies_satisfied", 0)
                                        ELSE job[j]]
           born == [j \in Jobs |-> IF RunOf[j] = r THEN rows[j] ELSE job[j]]
<1>1. PICK now, old :
        /\ run' = CancelRuns([run EXCEPT ![r].created = now], old)
        /\ release_dependents(CancelJobs(born, old), run', old \cup {r})
  BY DEF create_run
<1> DEFINE jb == CancelJobs(born, old)
<1>2. ASSUME NEW j \in Jobs
      PROVE  /\ born[j] \in Job /\ Classed(born[j]) /\ LeavesWorker(j, born[j])
             /\ job[j].state \in Terminal \cup Owned => born[j] = job[j]
  <2>0. job[j] \in Job /\ Classed(job[j]) /\ LeavesWorker(j, job[j])
    BY RowsAtRest DEF RowMoves
  <2>1. CASE RunOf[j] = r /\ Ready(j)
    <3>1. born[j] = Apply(job[j], "dependencies_satisfied", 0)
      BY <2>1 DEF JobsOf
    <3>2. run[r] \in Run /\ run[r].created = 0
      BY SizesAssumption DEF create_run, Exists, RInv, IInv, TypeOK, Run
    <3>3. job[j].state = "blocked"
      BY <2>1, <3>2 DEF RInv, IInv, Sound
    <3>4. "dependencies_satisfied" \in Event /\ job[j].state \notin Terminal \cup Owned
      BY <3>3 DEF Event, ControllerEvent, Terminal, Outcome, Owned
    <3> HIDE DEF born
    <3> QED BY <2>0, <3>1, <3>4, ApplyType, ApplyClassed, SizesAssumption DEF LeavesWorker
  <2>2. CASE ~(RunOf[j] = r /\ Ready(j))
    <3>1. born[j] = job[j]
      BY <2>2 DEF JobsOf
    <3> QED BY <2>0, <3>1
  <2> QED BY <2>1, <2>2
<1>3. /\ born \in [Jobs -> Job] /\ RowMoves(born)
      /\ \A j \in Jobs : job[j].state \in Owned => born[j].state = job[j].state
  BY <1>2 DEF RowMoves
<1>4. \A j \in Jobs : RunOf[j] # r => born[j] = job[j]
  OBVIOUS
<1> HIDE DEF born
<1>5. jb \in [Jobs -> Job] /\ RowMoves(jb)
  BY <1>3, CancelJobsMoves
<1>6. EndsIn(jb, old \cup {r})
  BY <1>4 DEF EndsIn, CancelJobs
<1>7. \A s \in Runs : s \notin old \cup {r} => run'[s].created = run[s].created
  BY <1>1 DEF CancelRuns, RInv, IInv, TypeOK
<1> HIDE DEF jb
<1>8. release_dependents(jb, run', old \cup {r})
  BY <1>1 DEF jb
<1> QED BY <1>5, <1>6, <1>7, <1>8, ReleaseMoves

\* Running a job again: the dependents blocked with it wait for it or for one another.
LEMMA RerunMoves ==
  ASSUME RInv, NEW j \in Jobs, rerun_job(j)
  PROVE  RowMoves(job') /\ BlockedWaits'
<1>1. PICK reached \in SUBSET JobsOf(RunOf[j]) :
        /\ reached = {k \in JobsOf(RunOf[j]) :
                        \/ k = j
                        \/ /\ job[k].state = "skipped" /\ ~job[k].cancel
                           /\ NeedSet(k) \cap reached # {}}
        /\ job' = [k \in Jobs |-> IF k \notin reached THEN job[k]
                                  ELSE Reset(job[k], IF k = j THEN "queued" ELSE "blocked")]
  BY DEF rerun_job
<1>2. RunAgain /\ job[j].state \in Terminal
  BY DEF RunAgain, rerun_job, CanApply, From
<1>3. \A k \in Jobs : k \in reached => job[k].state \in Terminal
  BY <1>1, <1>2 DEF Terminal, Outcome
<1>4. ASSUME NEW k \in Jobs, k \in reached
      PROVE  job'[k].state = (IF k = j THEN "queued" ELSE "blocked") /\ job'[k].class = NoClass
  BY <1>1, <1>4 DEF Reset, RInv, IInv, TypeOK, Job
<1>5. \A k \in Jobs : k \notin reached => job'[k] = job[k]
  BY <1>1
<1>6. RowMoves(job')
  <2> SUFFICES ASSUME NEW k \in Jobs PROVE Classed(job'[k]) /\ LeavesWorker(k, job'[k])
    BY <1>2 DEF RowMoves
  <2>1. CASE k \in reached
    BY <1>3, <1>4, <2>1 DEF Classed, LeavesWorker, Terminal, Outcome, Owned
  <2>2. CASE k \notin reached
    BY <1>5, <2>2, RowsAtRest DEF RowMoves
  <2> QED BY <2>1, <2>2
<1>7. BlockedWaits'
  <2> SUFFICES ASSUME NEW k \in Jobs, Exists(RunOf[k])', job'[k].state = "blocked"
               PROVE  \E n \in NeedSet(k) : job'[n].state \notin Terminal
    BY DEF BlockedWaits, NeedSet
  <2>0. \A n \in NeedSet(k) : n \in Jobs
    BY JobsAssumption DEF NeedSet
  <2>1. \A n \in Jobs : n \in reached => job'[n].state \notin Terminal
    BY <1>4 DEF Terminal, Outcome
  <2>2. CASE k \in reached
    <3>1. NeedSet(k) \cap reached # {}
      BY <1>1, <1>4, <2>2
    <3> QED BY <2>0, <2>1, <3>1
  <2>3. CASE k \notin reached
    <3>1. Exists(RunOf[k]) /\ job[k].state = "blocked"
      BY <1>5, <2>3, JobsAssumption DEF rerun_job, Exists, RInv, IInv, TypeOK, Run
    <3>2. PICK n \in NeedSet(k) : job[n].state \notin Terminal
      BY <3>1 DEF RInv, BlockedWaits
    <3> QED BY <1>5, <2>0, <2>1, <3>2
  <2> QED BY <2>2, <2>3
<1> QED BY <1>6, <1>7

\* A rerequest: finished runs start over, nobody else's rows change.
LEMMA RerequestMoves ==
  ASSUME RInv, NEW rs \in SUBSET Runs, rerequest(rs)
  PROVE  RowMoves(job') /\ BlockedWaits'
<1> DEFINE jb == [j \in Jobs |-> IF RunOf[j] \notin rs THEN job[j]
                                 ELSE [Reset(job[j], IF Ready(j) THEN "queued" ELSE "blocked")
                                         EXCEPT !.cancel = FALSE]]
<1>1. RunAgain
  BY DEF RunAgain
<1>2. ASSUME NEW j \in Jobs
      PROVE  jb[j] \in Job /\ Classed(jb[j]) /\ LeavesWorker(j, jb[j])
  <2>0. job[j] \in Job /\ Classed(job[j]) /\ LeavesWorker(j, job[j])
    BY RowsAtRest DEF RowMoves
  <2>1. CASE RunOf[j] \in rs
    <3>1. job[j].state \in Terminal
      BY <2>1 DEF rerequest, Rerequestable, JobsOf
    <3>2. /\ jb[j] \in Job /\ jb[j].class = NoClass
          /\ jb[j].state \in {"queued", "blocked"}
      BY <2>0, <2>1 DEF Reset, Job, JobStates, Waiting
    <3> HIDE DEF jb
    <3> QED BY <3>1, <3>2 DEF Classed, LeavesWorker, Owned, Terminal, Outcome
  <2>2. CASE RunOf[j] \notin rs
    BY <2>0, <2>2
  <2> QED BY <2>1, <2>2
<1>3. jb \in [Jobs -> Job] /\ RowMoves(jb)
  BY <1>1, <1>2 DEF RowMoves
<1>4. EndsIn(jb, rs)
  BY DEF EndsIn
<1>5. release_dependents(jb, run', rs)
  BY DEF rerequest
<1>6. \A s \in Runs : s \notin rs => run'[s].created = run[s].created
  BY DEF rerequest
<1> HIDE DEF jb
<1> QED BY <1>3, <1>4, <1>5, <1>6, ReleaseMoves

\* Settling a set of jobs: offers go back, the rest are infrastructure failures.
LEMMA SettleMoves ==
  ASSUME RInv, NEW D \in SUBSET Jobs,
         NEW fate \in [D -> {"lease_expired", "reconciled", "offer_lapsed"}], NEW ended,
         \A j \in D : fate[j] = "offer_lapsed" => \E f \in Fences : attempt[j][f].status = "offered",
         settle(fate, ended)
  PROVE  RowMoves(job') /\ BlockedWaits'
<1> DEFINE jb == [j \in Jobs |-> IF j \notin DOMAIN fate THEN job[j]
                                 ELSE IF fate[j] = "offer_lapsed" THEN Returned(job[j])
                                 ELSE Apply(job[j], fate[j], 0)]
           rs == {RunOf[j] : j \in {k \in DOMAIN fate : jb[k].state \in Terminal}}
<1>0. /\ release_dependents(jb, run, rs) /\ run' = run
      /\ \A j \in D : job[j].state \in From(fate[j])
  BY DEF settle
<1>1. ASSUME NEW j \in Jobs
      PROVE  /\ jb[j] \in Job /\ Classed(jb[j]) /\ LeavesWorker(j, jb[j])
             /\ j \in D => job[j].state \notin Terminal /\ jb[j].state # "blocked"
             /\ j \notin D => jb[j] = job[j]
  <2>0. job[j] \in Job /\ Classed(job[j]) /\ LeavesWorker(j, job[j])
    BY RowsAtRest DEF RowMoves
  <2>1. CASE j \notin D
    BY <2>0, <2>1
  <2>2. CASE j \in D /\ fate[j] = "offer_lapsed"
    <3>1. jb[j] = Returned(job[j]) /\ job[j].state = "leased"
      BY <1>0, <2>2 DEF From
    <3>2. attempt[j][job[j].fence].status = "offered"
      BY <2>2 DEF RInv, IInv, Sound, Reserves, Held
    <3>3. job[j].state \in Owned /\ job[j].state \notin Terminal
      BY <3>1 DEF Owned, Terminal, Outcome
    <3>4. /\ jb[j] \in Job /\ Classed(jb[j])
          /\ jb[j].state = IF job[j].cancel THEN "canceled" ELSE "queued"
      BY <2>0, <3>1, <3>3, ReturnedType, ReturnedClassed
    <3> HIDE DEF jb
    <3> QED BY <2>2, <3>1, <3>2, <3>3, <3>4 DEF LeavesWorker
  <2>3. CASE j \in D /\ fate[j] # "offer_lapsed"
    <3>1. jb[j] = Apply(job[j], fate[j], 0) /\ fate[j] \in {"lease_expired", "reconciled"}
      BY <2>3
    <3>2. To(fate[j]) = "infra_failed" /\ fate[j] \in Event /\ job[j].state \in Owned
      BY <1>0, <2>3, <3>1 DEF To, ClassOutcome, From, Event, ReconcilerEvent
    <3>3. job[j].state \notin Terminal
      BY <3>2 DEF Owned, Terminal, Outcome
    <3> HIDE DEF jb
    <3> QED BY <2>0, <2>3, <3>1, <3>2, <3>3, ApplyType, ApplyClassed, SizesAssumption
            DEF LeavesWorker
  <2> QED BY <2>1, <2>2, <2>3
<1>2. jb \in [Jobs -> Job]
  BY <1>1
<1>3. EndsIn(jb, rs)
  <2> SUFFICES ASSUME NEW j \in Jobs, RunOf[j] \notin rs
               PROVE  /\ jb[j].state \in Terminal => job[j].state \in Terminal
                      /\ jb[j].state = "blocked" => job[j].state = "blocked"
    BY DEF EndsIn
  <2>1. j \in D => jb[j].state \notin Terminal
    OBVIOUS
  <2> HIDE DEF jb, rs
  <2> QED BY <1>1, <2>1
<1> HIDE DEF jb, rs
<1>4. RowMoves(jb)
  BY <1>1 DEF RowMoves
<1> QED BY <1>0, <1>2, <1>3, <1>4, ReleaseMoves

\* A step that writes no job row.
LEMMA AttemptOrWorkerMoves ==
  ASSUME RInv, job' = job, run' = run
  PROVE  RowMoves(job') /\ BlockedWaits'
BY RowsAtRest DEF RInv, BlockedWaits, Exists, NeedSet

\* Every step of Dispatch moves the rows as RowMoves says and leaves nothing stuck.
LEMMA EveryStepMoves ==
  ASSUME RInv, [Next]_vars
  PROVE  RowMoves(job') /\ BlockedWaits'
<1>1. CASE UNCHANGED vars
  BY <1>1, AttemptOrWorkerMoves DEF vars
<1>2. ASSUME NEW w \in Workers, NEW j \in Jobs, NEW f \in Fences,
             acknowledge(w, j, f) \/ decline(w, j, f) \/ abandon(w, j, f)
               \/ \E e \in Reports : report(w, j, f, e)
      PROVE  RowMoves(job') /\ BlockedWaits'
  <2>1. CASE acknowledge(w, j, f)
    BY <2>1, AttemptOrWorkerMoves DEF acknowledge
  <2>2. CASE decline(w, j, f)
    BY <2>2, GiveBackMoves DEF decline
  <2>3. CASE abandon(w, j, f)
    BY <2>3, GiveBackMoves, FinishMoves DEF abandon, lapse
  <2>4. CASE \E e \in Reports : report(w, j, f, e)
    <3>1. PICK e \in Reports : report(w, j, f, e)
      BY <2>4
    <3> DEFINE ev == IF e = "canceled" /\ ~job[j].cancel THEN "runtime" ELSE e
    <3>2. PICK ended \in Ends(j), lost \in BOOLEAN : finish(j, f, "worker", ev, ended, lost)
      BY <3>1 DEF report
    <3>3. ev \in WorkerEvent /\ Live(attempt[j][f].worker)
      BY <3>1, JobsAssumption DEF Reports, WorkerEvent, WorkerClass, report
    <3> HIDE DEF ev
    <3> QED BY <3>2, <3>3, FinishMoves
  <2> QED BY <1>2, <2>1, <2>2, <2>3, <2>4
<1>3. CASE WorkerCalls
  BY <1>2, <1>3, PlaceMoves, AttemptOrWorkerMoves DEF WorkerCalls, renew
<1>4. CASE Sweeps
  <2>1. ASSUME NEW j \in Jobs, NEW f \in Fences, lapse(j, f) \/ expire(j, f)
        PROVE  RowMoves(job') /\ BlockedWaits'
    BY <2>1, GiveBackMoves, FinishMoves DEF lapse, expire
  <2>2. CASE reconcile_revoked \/ reconcile_startup
    BY <2>2, SettledSets, SettleMoves
  <2> QED BY <1>4, <2>1, <2>2, SweepQueueMoves DEF Sweeps
<1>5. CASE Requests
  BY <1>5, CreateRunMoves, CancelRunMoves, RerequestMoves, CancelMoves, RerunMoves DEF Requests
<1>6. CASE Administration
  BY <1>6, AttemptOrWorkerMoves
     DEF Administration, revoke, drain, undrain, request_uninstall, settle_uninstalls
<1>7. CASE Time
  BY <1>7, AttemptOrWorkerMoves DEF Time, LeaseAges, Overruns, log_ended
<1> QED BY <1>1, <1>3, <1>4, <1>5, <1>6, <1>7 DEF Next

\* The rows satisfy the inductive invariant in every reachable state.
THEOREM RowInvariant == Spec => []RInv
<1>1. Init => RInv
  <2>1. Init => ClassExplainsOutcome
    BY DEF Init, ClassExplainsOutcome, Terminal, Outcome
  <2>2. Init => BlockedWaits
    BY JobsAssumption DEF Init, BlockedWaits, Exists
  <2> QED BY <2>1, <2>2, InitSound DEF RInv
<1>2. RInv /\ [Next]_vars => RInv'
  <2> SUFFICES ASSUME RInv, [Next]_vars PROVE RInv'
    OBVIOUS
  <2>1. IInv' /\ BlockedWaits' /\ RowMoves(job')
    BY NextSound, EveryStepMoves DEF RInv
  <2>2. ClassExplainsOutcome'
    BY <2>1 DEF RowMoves, Classed, ClassExplainsOutcome
  <2> QED BY <2>1, <2>2 DEF RInv
<1> QED BY <1>1, <1>2, PTL DEF Spec

\* The failure class a job row shows is that of the outcome it shows, or there is none
\* and there was no failure, through reruns, revivals and cancellations (jobs.rs
\* transition_from, reset_terminal_job).
THEOREM ClassesExplainOutcomes == Spec => []ClassExplainsOutcome
<1>1. RInv => ClassExplainsOutcome
  BY DEF RInv
<1> QED BY <1>1, RowInvariant, PTL

\* No job of a run waits for jobs that have all ended, whichever transaction ended them
\* (dispatch.rs release_dependents is called by all that do, and rerun_job revives).
THEOREM NothingIsStuck == Spec => []BlockedWaits
<1>1. RInv => BlockedWaits
  BY DEF RInv
<1> QED BY <1>1, RowInvariant, PTL

\* A revoked worker's word changes nothing: its jobs end as infrastructure failures or
\* canceled, or return to the queue unstarted (dispatch.rs live_attempt, settle_orphans).
THEOREM RevokedWorkersAreMute == Spec => RevokedIsMute
<1>1. RInv /\ [Next]_vars =>
        [\A j \in Jobs, f \in Fences :
           (Held(attempt[j][f]) /\ worker[attempt[j][f].worker].revoked
              /\ job'[j].state # job[j].state)
             => job'[j].state \in {"infra_failed", "queued", "canceled"}]_vars
  <2> SUFFICES ASSUME RInv, [Next]_vars, NEW j \in Jobs, NEW f \in Fences,
                      Held(attempt[j][f]), worker[attempt[j][f].worker].revoked,
                      job'[j].state # job[j].state
               PROVE  job'[j].state \in {"infra_failed", "queued", "canceled"}
    OBVIOUS
  <2>1. LeavesWorker(j, job'[j])
    BY EveryStepMoves DEF RowMoves
  <2>2. job[j].state \in Owned /\ job[j].fence = f
    BY DEF RInv, IInv, Sound, Reserves
  <2> QED BY <2>1, <2>2 DEF LeavesWorker, Live
<1> QED BY <1>1, RowInvariant, PTL DEF Spec, RevokedIsMute

\* Acknowledged work is not offered to anyone else: only its own worker's decline, before
\* it starts, returns it, and only a rerun or a rerequest revives an ended job.
THEOREM WorkIsNeverReplayed == Spec => NeverReplayed
<1>1. RInv /\ [Next]_vars =>
        [\A j \in Jobs :
           /\ (job[j].state \in Owned /\ job'[j].state \in Waiting) =>
              /\ job[j].state = "leased"
              /\ \/ attempt[j][job[j].fence].status = "offered"
                 \/ \E w \in Workers : decline(w, j, job[j].fence)
           /\ (job[j].state \in Terminal /\ job'[j].state \notin Terminal) =>
                \/ \E rs \in SUBSET Runs : rerequest(rs)
                \/ \E k \in Jobs : rerun_job(k)]_vars
  <2> SUFFICES ASSUME RInv, [Next]_vars, NEW j \in Jobs
               PROVE  /\ (job[j].state \in Owned /\ job'[j].state \in Waiting) =>
                         /\ job[j].state = "leased"
                         /\ \/ attempt[j][job[j].fence].status = "offered"
                            \/ \E w \in Workers : decline(w, j, job[j].fence)
                      /\ (job[j].state \in Terminal /\ job'[j].state \notin Terminal) =>
                           \/ \E rs \in SUBSET Runs : rerequest(rs)
                           \/ \E k \in Jobs : rerun_job(k)
    OBVIOUS
  <2>1. /\ LeavesWorker(j, job'[j])
        /\ job[j].state \in Terminal => job'[j] = job[j] \/ RunAgain
    BY EveryStepMoves DEF RowMoves
  <2>2. (job[j].state \in Owned /\ job'[j].state \in Waiting) =>
           /\ job[j].state = "leased"
           /\ \/ attempt[j][job[j].fence].status = "offered"
              \/ \E w \in Workers : decline(w, j, job[j].fence)
    BY <2>1 DEF LeavesWorker, Owned, Waiting
  <2> QED BY <2>1, <2>2 DEF RunAgain
<1> QED BY <1>1, RowInvariant, PTL DEF Spec, NeverReplayed

-----------------------------------------------------------------------------
(* Supersession.                                                           *)

\* The steady clock: a new run is created no earlier than any other.
LEMMA LatestBounds ==
  ASSUME TypeOK, NEW r \in Runs
  PROVE  Latest \in Nat /\ run[r].created <= Latest
<1> DEFINE S == {run[s].created : s \in Runs}
           T == {MaxClock - x : x \in S}
<1>1. S \subseteq 0 .. MaxClock /\ run[r].created \in S /\ MaxClock \in Nat
  BY SizesAssumption DEF TypeOK, Run
<1> HIDE DEF S
<1>2. T \in SUBSET Nat /\ T # {}
  <2>1. \A x \in S : x \in Nat /\ MaxClock - x \in Nat
    BY <1>1
  <2>2. MaxClock - run[r].created \in T
    BY <1>1
  <2> QED BY <2>1, <2>2
<1>3. PICK m \in T : \A k \in T : m <= k
  BY <1>2, LeastNatural
<1>4. PICK x \in S : m = MaxClock - x
  BY <1>3
<1>5. \A y \in S : x >= y
  <2> SUFFICES ASSUME NEW y \in S PROVE x >= y
    OBVIOUS
  <2>1. MaxClock - x <= MaxClock - y
    BY <1>3, <1>4
  <2> QED BY <1>1, <2>1
<1>6. Max(S) \in S /\ \A y \in S : Max(S) >= y
  BY <1>5 DEF Max
<1>7. Latest = Max(S)
  BY DEF Latest, S
<1>8. Max(S) \in 0 .. MaxClock /\ Max(S) >= run[r].created /\ run[r].created \in 0 .. MaxClock
  BY <1>1, <1>6
<1> QED BY <1>7, <1>8

\* Only create_run gives a run its creation time.
LEMMA OnlyCreateCreates ==
  ASSUME IInv, [Next]_vars, NEW r \in Runs, ~Exists(r), run'[r].created > 0
  PROVE  create_run(r)
<1>0. run \in [Runs -> Run] /\ run[r].created = 0
  BY SizesAssumption DEF IInv, TypeOK, Exists, Run
<1> SUFFICES ASSUME ~create_run(r) PROVE run'[r].created = run[r].created
  BY <1>0
<1>1. CASE WorkerCalls \/ Sweeps \/ Administration \/ Time \/ UNCHANGED vars
  <2>1. run' = run
    <3>1. CASE WorkerCalls
      <4>1. ASSUME NEW w \in Workers, NEW j \in Jobs, NEW f \in Fences,
                   acknowledge(w, j, f) \/ decline(w, j, f) \/ abandon(w, j, f)
            PROVE  run' = run
        BY <4>1 DEF acknowledge, decline, abandon, lapse, give_back, finish
      <4>2. ASSUME NEW w \in Workers, NEW j \in Jobs, NEW f \in Fences, NEW e \in Reports,
                   report(w, j, f, e)
            PROVE  run' = run
        BY <4>2 DEF report, finish
      <4>3. ASSUME NEW w \in Workers, NEW j \in Jobs, place(w, j)
            PROVE  run' = run
        BY <4>3 DEF place
      <4>4. ASSUME NEW w \in Workers, NEW hs \in SUBSET Jobs, renew(w, hs)
            PROVE  run' = run
        BY <4>4 DEF renew
      <4> QED BY <3>1, <4>1, <4>2, <4>3, <4>4 DEF WorkerCalls
    <3>2. CASE Sweeps
      BY <3>2, SettledSets DEF Sweeps, lapse, give_back, expire, finish, sweep_queue_timeouts, settle
    <3>3. CASE Administration \/ Time \/ UNCHANGED vars
      BY <3>3 DEF Administration, revoke, drain, undrain, request_uninstall, settle_uninstalls,
                  Time, LeaseAges, Overruns, log_ended, vars
    <3> QED BY <1>1, <3>1, <3>2, <3>3
  <2> QED BY <2>1
<1>2. ASSUME NEW s \in Runs, create_run(s) PROVE run'[r].created = run[r].created
  <2>1. s # r
    BY <1>2
  <2>2. PICK now, old : run' = CancelRuns([run EXCEPT ![s].created = now], old)
    BY <1>2 DEF create_run
  <2> QED BY <1>0, <2>1, <2>2 DEF CancelRuns
<1>3. ASSUME NEW s \in Runs, cancel_run(s) PROVE run'[r].created = run[r].created
  BY <1>0, <1>3 DEF cancel_run, CancelRuns
<1>4. ASSUME NEW rs \in SUBSET Runs, rerequest(rs) PROVE run'[r].created = run[r].created
  BY <1>0, <1>4 DEF rerequest, Run
<1>5. ASSUME NEW j \in Jobs, cancel(j) \/ rerun_job(j) PROVE run'[r].created = run[r].created
  BY <1>0, <1>5 DEF cancel, rerun_job, Run
<1> QED BY <1>1, <1>2, <1>3, <1>4, <1>5 DEF Next, Requests

\* What a new run supersedes has ended or is being stopped, and so it is for its whole group.
LEMMA CreateSupersedes ==
  ASSUME IInv, NEW r \in Runs, create_run(r), Group[r] \in CancelInProgress,
         NEW j \in Jobs, RunOf[j] # r, Exists(RunOf[j]), Group[RunOf[j]] = Group[r]
  PROVE  job'[j].state \in Terminal \/ (job'[j].state \in Owned /\ job'[j].cancel)
<1> DEFINE s    == RunOf[j]
           rows == [k \in JobsOf(r) |-> IF Ready(k) THEN Apply(job[k], "dependencies_satisfied", 0)
                                        ELSE job[k]]
           born == [k \in Jobs |-> IF RunOf[k] = r THEN rows[k] ELSE job[k]]
           new(now) == [run EXCEPT ![r].created = now]
<1>0. s \in Runs /\ TypeOK /\ run[s].created \in Nat /\ run[s].created > 0 /\ job[j] \in Job
  BY JobsAssumption, SizesAssumption DEF IInv, TypeOK, Exists, Run
<1>1. PICK now \in {Latest, Latest + 1} \cap 1 .. MaxClock :
        release_dependents(CancelJobs(born, supersede(r, new(now))), run',
                           supersede(r, new(now)) \cup {r})
  BY DEF create_run
<1>2. now \in Nat /\ run[s].created <= now
  BY <1>0, <1>1, LatestBounds
<1>3. new(now)[s].created = run[s].created /\ new(now)[r].created = now
  BY <1>0 DEF TypeOK, Run
<1> DEFINE old == supersede(r, new(now))
           jb  == CancelJobs(born, old)
<1>4. job[j].state \notin Terminal => s \in old
  BY <1>0, <1>2, <1>3 DEF supersede, JobsOf
<1>5. born[j] = job[j]
  OBVIOUS
<1>6. born \in [Jobs -> Job]
  <2> SUFFICES ASSUME NEW k \in Jobs PROVE born[k] \in Job
    OBVIOUS
  <2>1. job[k] \in Job
    BY <1>0 DEF TypeOK
  <2>2. Apply(job[k], "dependencies_satisfied", 0) \in Job
    BY <2>1, ApplyType, SizesAssumption
  <2>3. born[k] = job[k] \/ born[k] = Apply(job[k], "dependencies_satisfied", 0)
    BY DEF JobsOf
  <2> QED BY <2>1, <2>2, <2>3
<1>7. jb \in [Jobs -> Job]
  BY <1>6, CancelOneType DEF CancelJobs
<1> HIDE DEF born, old
<1>8. jb[j].state \in Terminal \/ (jb[j].state \in Owned /\ jb[j].cancel)
  <2>1. CASE s \in old
    <3>1. jb[j] = cancel_one(job[j])
      BY <1>5, <2>1 DEF CancelJobs
    <3> QED BY <1>0, <3>1, CancelOneType DEF Terminal, Outcome
  <2>2. CASE s \notin old
    BY <1>4, <1>5, <2>2 DEF CancelJobs
  <2> QED BY <2>1, <2>2
<1>9. release_dependents(jb, run', old \cup {r})
  BY <1>1 DEF old
<1> HIDE DEF jb
<1>10. job'[j] = jb[j]
  BY <1>7, <1>8, <1>9, ReleaseEffect DEF Terminal, Outcome, Owned
<1> QED BY <1>8, <1>10

\* Creating a run of a cancelling group stops the group's live runs in the same
\* transaction, those of the same millisecond included (runs.rs supersede).
THEOREM SupersededRunsStop == Spec => SupersededStop
<1>1. IInv /\ [Next]_vars =>
        [\A r \in Runs : (~Exists(r) /\ run'[r].created > 0 /\ Group[r] \in CancelInProgress) =>
           \A j \in Jobs : (RunOf[j] # r /\ Exists(RunOf[j]) /\ Group[RunOf[j]] = Group[r]) =>
             job'[j].state \in Terminal \/ (job'[j].state \in Owned /\ job'[j].cancel)]_vars
  BY OnlyCreateCreates, CreateSupersedes
<1> QED BY <1>1, DispatchInvariant, PTL DEF Spec, SupersededStop

-----------------------------------------------------------------------------
(* What a transaction may do to an attempt row.                            *)

Advance(a, b) ==
  /\ StatusRank(b) >= StatusRank(a)
  /\ StatusRank(a) = 3 => b.status = a.status
  /\ LogRank(b) >= LogRank(a)
  /\ a.status = "none" => b = a

\* No row of attempts is written before its lease is made.
Unwritten ==
  \A j \in Jobs, f \in Fences :
    /\ f > job[j].fence => attempt[j][f].status = "none"
    /\ attempt[j][f].status = "none" => attempt[j][f].log = "pending"

AttemptsAdvance == \A j \in Jobs, f \in Fences : Advance(attempt[j][f], attempt'[j][f])

\* A row that is left alone, and a held one that is closed, advance.
LEMMA RowAdvances ==
  ASSUME NEW a \in Attempt
  PROVE  /\ Advance(a, a)
         /\ \A how \in {"lapsed", "finished"}, ended \in BOOLEAN :
              Held(a) => Advance(a, Closed(a, how, ended))
<1>1. Advance(a, a)
  BY DEF Advance, StatusRank, LogRank
<1>2. ASSUME NEW how \in {"lapsed", "finished"}, NEW ended \in BOOLEAN, Held(a)
      PROVE  Advance(a, Closed(a, how, ended))
  <2> DEFINE b == Closed(a, how, ended)
  <2>1. b.status = how
    BY ClosedType
  <2>2. b.log = IF how = "finished" /\ a.log = "pending"
                THEN IF ended THEN "complete" ELSE "incomplete" ELSE a.log
    BY DEF Closed, Attempt
  <2> HIDE DEF b
  <2>3. StatusRank(a) \in {1, 2} /\ StatusRank(b) = 3
    BY <1>2, <2>1 DEF StatusRank, Held
  <2>4. LogRank(b) >= LogRank(a)
    BY <2>2 DEF LogRank
  <2> QED BY <1>2, <2>3, <2>4 DEF Advance, b, Held
<1> QED BY <1>1, <1>2

\* Writing one attempt row that advances.
LEMMA OneAttemptAdvances ==
  ASSUME IInv, NEW j \in Jobs, NEW f \in Fences, NEW b, Advance(attempt[j][f], b),
         attempt' = [attempt EXCEPT ![j][f] = b]
  PROVE  AttemptsAdvance
<1>0. attempt \in [Jobs -> [Fences -> Attempt]]
  BY DEF IInv, TypeOK
<1>1. attempt'[j][f] = b
  BY <1>0
<1>2. \A k \in Jobs, g \in Fences : ~(k = j /\ g = f) => attempt'[k][g] = attempt[k][g]
  BY <1>0
<1>3. \A k \in Jobs, g \in Fences : Advance(attempt[k][g], attempt[k][g])
  BY <1>0, RowAdvances
<1> QED BY <1>1, <1>2, <1>3 DEF AttemptsAdvance

\* A step that writes no attempt row.
LEMMA AttemptsAtRest ==
  ASSUME IInv, attempt' = attempt
  PROVE  AttemptsAdvance
BY RowAdvances DEF IInv, TypeOK, AttemptsAdvance

\* Handing back an offer closes its attempt.
LEMMA GiveBackAdvances ==
  ASSUME IInv, NEW j \in Jobs, NEW f \in Fences, give_back(j, f)
  PROVE  AttemptsAdvance
<1>1. Held(attempt[j][f]) /\ attempt[j][f] \in Attempt
  BY OnlyFence DEF IInv, TypeOK, give_back, Owned
<1>2. attempt' = [attempt EXCEPT ![j][f] = Closed(attempt[j][f], "lapsed", FALSE)]
  BY DEF give_back, IInv, TypeOK
<1>3. Advance(attempt[j][f], Closed(attempt[j][f], "lapsed", FALSE))
  BY <1>1, RowAdvances
<1> QED BY <1>2, <1>3, OneAttemptAdvances

\* An event that ends a job closes its attempt, any other leaves it alone.
LEMMA FinishAdvances ==
  ASSUME IInv, NEW j \in Jobs, NEW f \in Fences, NEW actor, NEW event,
         NEW ended \in BOOLEAN, NEW lost, finish(j, f, actor, event, ended, lost)
  PROVE  AttemptsAdvance
<1>1. Held(attempt[j][f]) /\ attempt[j][f] \in Attempt
  BY DEF finish, IInv, TypeOK
<1>2. \/ attempt' = [attempt EXCEPT ![j][f] = Closed(attempt[j][f], "finished", ended)]
      \/ attempt' = attempt
  BY DEF finish, IInv, TypeOK
<1>3. Advance(attempt[j][f], Closed(attempt[j][f], "finished", ended))
  BY <1>1, RowAdvances
<1> QED BY <1>2, <1>3, OneAttemptAdvances, AttemptsAtRest

\* Settling a set of jobs closes what they hold.
LEMMA SettleAdvances ==
  ASSUME IInv, NEW D \in SUBSET Jobs,
         NEW fate \in [D -> {"lease_expired", "reconciled", "offer_lapsed"}], NEW ended,
         settle(fate, ended)
  PROVE  AttemptsAdvance
<1> DEFINE how(j) == IF fate[j] = "offer_lapsed" THEN "lapsed" ELSE "finished"
<1>0. attempt' = [j \in Jobs |-> [f \in Fences |->
                       IF j \in DOMAIN fate /\ Held(attempt[j][f])
                       THEN Closed(attempt[j][f], how(j), j \in ended) ELSE attempt[j][f]]]
  BY DEF settle
<1> SUFFICES ASSUME NEW j \in Jobs, NEW f \in Fences
             PROVE  Advance(attempt[j][f], attempt'[j][f])
  BY DEF AttemptsAdvance
<1>1. attempt[j][f] \in Attempt
  BY DEF IInv, TypeOK
<1> DEFINE h == how(j)
           b == j \in ended
<1>2. \/ Held(attempt[j][f]) /\ attempt'[j][f] = Closed(attempt[j][f], h, b)
      \/ attempt'[j][f] = attempt[j][f]
  BY <1>0
<1>3. h \in {"lapsed", "finished"} /\ b \in BOOLEAN
  OBVIOUS
<1> HIDE DEF h, b
<1> QED BY <1>1, <1>2, <1>3, RowAdvances

\* Acknowledging, ending a log and time passing write one row.
LEMMA AttemptStepsAdvance ==
  ASSUME IInv, NEW w, NEW j \in Jobs, NEW f \in Fences,
         acknowledge(w, j, f) \/ log_ended(j, f) \/ LeaseAges(j, f) \/ Overruns(j, f)
  PROVE  AttemptsAdvance
<1> DEFINE a == attempt[j][f]
<1>0. a \in Attempt /\ attempt \in [Jobs -> [Fences -> Attempt]]
  BY DEF IInv, TypeOK
<1>1. CASE acknowledge(w, j, f)
  <2>1. Advance(a, [a EXCEPT !.status = "acked"])
    BY <1>0, <1>1 DEF acknowledge, Attempt, Advance, StatusRank, LogRank
  <2>2. attempt' = [attempt EXCEPT ![j][f] = [a EXCEPT !.status = "acked"]]
    BY <1>0, <1>1 DEF acknowledge
  <2> QED BY <2>1, <2>2, OneAttemptAdvances
<1>2. CASE log_ended(j, f)
  <2>1. Advance(a, [a EXCEPT !.log = "complete"])
    BY <1>0, <1>2 DEF log_ended, Attempt, Advance, StatusRank, LogRank
  <2>2. attempt' = [attempt EXCEPT ![j][f] = [a EXCEPT !.log = "complete"]]
    BY <1>0, <1>2 DEF log_ended
  <2> QED BY <2>1, <2>2, OneAttemptAdvances
<1>3. CASE LeaseAges(j, f)
  <2>1. Advance(a, [a EXCEPT !.left = @ - 1])
    BY <1>0, <1>3 DEF LeaseAges, Held, Attempt, Advance, StatusRank, LogRank
  <2>2. attempt' = [attempt EXCEPT ![j][f] = [a EXCEPT !.left = @ - 1]]
    BY <1>0, <1>3 DEF LeaseAges
  <2> QED BY <2>1, <2>2, OneAttemptAdvances
<1>4. CASE Overruns(j, f)
  <2>1. Advance(a, [a EXCEPT !.overrun = TRUE])
    BY <1>0, <1>4 DEF Overruns, Attempt, Advance, StatusRank, LogRank
  <2>2. attempt' = [attempt EXCEPT ![j][f] = [a EXCEPT !.overrun = TRUE]]
    BY <1>0, <1>4 DEF Overruns
  <2> QED BY <2>1, <2>2, OneAttemptAdvances
<1> QED BY <1>1, <1>2, <1>3, <1>4

\* A heartbeat only lengthens leases.
LEMMA RenewAdvances ==
  ASSUME IInv, NEW w, NEW hs, renew(w, hs)
  PROVE  AttemptsAdvance
<1> SUFFICES ASSUME NEW j \in Jobs, NEW f \in Fences
             PROVE  Advance(attempt[j][f], attempt'[j][f])
  BY DEF AttemptsAdvance
<1> DEFINE a == attempt[j][f]
<1>1. a \in Attempt
  BY DEF IInv, TypeOK
<1>2. \/ attempt'[j][f] = a
      \/ a.status = "acked" /\ attempt'[j][f] = [a EXCEPT !.left = LeaseTicks]
  BY DEF renew
<1>3. a.status = "acked" => Advance(a, [a EXCEPT !.left = LeaseTicks])
  BY <1>1 DEF Attempt, Advance, StatusRank, LogRank
<1> QED BY <1>1, <1>2, <1>3, RowAdvances

\* Every step but a placement advances the rows that are written and no other.
LEMMA EveryStepAdvances ==
  ASSUME IInv, [Next]_vars, \A w \in Workers, j \in Jobs : ~place(w, j)
  PROVE  AttemptsAdvance
<1>1. CASE UNCHANGED vars
  BY <1>1, AttemptsAtRest DEF vars
<1>2. ASSUME NEW j \in Jobs, NEW f \in Fences, NEW actor, NEW event,
             NEW lost \in BOOLEAN, \E ended \in Ends(j) : finish(j, f, actor, event, ended, lost)
      PROVE  AttemptsAdvance
  <2>1. PICK ended \in Ends(j) : finish(j, f, actor, event, ended, lost)
    BY <1>2
  <2>2. ended \in BOOLEAN
    BY DEF Ends
  <2> QED BY <2>1, <2>2, FinishAdvances
<1>3. ASSUME NEW w \in Workers, NEW j \in Jobs, NEW f \in Fences,
             acknowledge(w, j, f) \/ decline(w, j, f) \/ abandon(w, j, f)
               \/ \E e \in Reports : report(w, j, f, e)
      PROVE  AttemptsAdvance
  <2>1. CASE acknowledge(w, j, f)
    BY <2>1, AttemptStepsAdvance
  <2>2. CASE decline(w, j, f)
    BY <2>2, GiveBackAdvances DEF decline
  <2>3. CASE abandon(w, j, f)
    BY <1>2, <2>3, GiveBackAdvances DEF abandon, lapse
  <2>4. CASE \E e \in Reports : report(w, j, f, e)
    BY <1>2, <2>4 DEF report
  <2> QED BY <1>3, <2>1, <2>2, <2>3, <2>4
<1>4. CASE WorkerCalls
  BY <1>3, <1>4, RenewAdvances DEF WorkerCalls
<1>5. CASE Sweeps
  <2>1. ASSUME NEW j \in Jobs, NEW f \in Fences, lapse(j, f) \/ expire(j, f)
        PROVE  AttemptsAdvance
    BY <1>2, <2>1, GiveBackAdvances DEF lapse, expire
  <2>2. ASSUME NEW j \in Jobs, sweep_queue_timeouts(j)
        PROVE  AttemptsAdvance
    BY <2>2, AttemptsAtRest DEF sweep_queue_timeouts
  <2>3. ASSUME reconcile_revoked \/ reconcile_startup PROVE AttemptsAdvance
    BY <2>3, SettledSets, SettleAdvances
  <2> QED BY <1>5, <2>1, <2>2, <2>3 DEF Sweeps
<1>6. CASE Requests
  <2>1. attempt' = attempt
    BY <1>6 DEF Requests, create_run, cancel_run, rerequest, cancel, rerun_job
  <2> QED BY <2>1, AttemptsAtRest
<1>7. CASE Administration
  <2>1. attempt' = attempt
    BY <1>7 DEF Administration, revoke, drain, undrain, request_uninstall, settle_uninstalls
  <2> QED BY <2>1, AttemptsAtRest
<1>8. CASE Time
  BY <1>8, AttemptStepsAdvance DEF Time
<1> QED BY <1>1, <1>4, <1>5, <1>6, <1>7, <1>8 DEF Next

\* A placement writes the row of the next fence, which nothing had written.
LEMMA PlaceWrites ==
  ASSUME IInv, Unwritten, NEW w \in Workers, NEW j \in Jobs, place(w, j)
  PROVE  /\ Unwritten'
         /\ \A k \in Jobs, g \in Fences :
              \/ attempt'[k][g] = attempt[k][g]
              \/ /\ attempt[k][g].status = "none" /\ attempt[k][g].log = "pending"
                 /\ attempt'[k][g].status = "offered" /\ attempt'[k][g].log = "pending"
<1> DEFINE f == job[j].fence + 1
<1>0. job \in [Jobs -> Job] /\ attempt \in [Jobs -> [Fences -> Attempt]] /\ job[j].fence \in Nat
  BY SizesAssumption DEF IInv, TypeOK, Job
<1>1. f \in Fences /\ f \in 0 .. MaxFence /\ f > job[j].fence
  BY <1>0, SizesAssumption DEF place, Fences
<1>2. /\ attempt'[j][f] = Offer(w)
      /\ \A k \in Jobs, g \in Fences : ~(k = j /\ g = f) => attempt'[k][g] = attempt[k][g]
  BY <1>0, <1>1 DEF place
<1>3. job'[j].fence = f /\ \A k \in Jobs \ {j} : job'[k] = job[k]
  <2>1. job'[j] = Apply(job[j], "leased", f) /\ \A k \in Jobs \ {j} : job'[k] = job[k]
    BY <1>0 DEF place
  <2> QED BY <1>0, <1>1, <2>1, ApplyType
<1>4. \A g \in Fences : g > f => g > job[j].fence
  BY <1>0, SizesAssumption DEF Fences
<1>5. attempt[j][f].status = "none" /\ attempt[j][f].log = "pending"
  BY <1>1 DEF Unwritten
<1>6. attempt'[j][f].status = "offered" /\ attempt'[j][f].log = "pending"
  BY <1>2 DEF Offer
<1> HIDE DEF f
<1>7. ASSUME NEW k \in Jobs, NEW g \in Fences
      PROVE  /\ g > job'[k].fence => attempt'[k][g].status = "none"
             /\ attempt'[k][g].status = "none" => attempt'[k][g].log = "pending"
  <2>1. CASE k = j /\ g = f
    <3>1. ~(f > f)
      BY <1>1, SizesAssumption
    <3> QED BY <1>3, <1>6, <2>1, <3>1
  <2>2. CASE k = j /\ g # f
    BY <1>2, <1>3, <1>4, <2>2 DEF Unwritten
  <2>3. CASE k # j
    BY <1>2, <1>3, <2>3 DEF Unwritten
  <2> QED BY <2>1, <2>2, <2>3
<1>8. Unwritten'
  BY <1>7 DEF Unwritten
<1> QED BY <1>2, <1>5, <1>6, <1>8

\* No attempt row is written before its lease is made.
THEOREM LeasesWriteFreshRows == Spec => []Unwritten
<1>1. Init => Unwritten
  BY DEF Init, Unwritten, NoAttempt
<1>2. IInv /\ Unwritten /\ [Next]_vars => Unwritten'
  <2> SUFFICES ASSUME IInv, Unwritten, [Next]_vars PROVE Unwritten'
    OBVIOUS
  <2>1. CASE \E w \in Workers, j \in Jobs : place(w, j)
    BY <2>1, PlaceWrites
  <2>2. CASE ~\E w \in Workers, j \in Jobs : place(w, j)
    <3>1. AttemptsAdvance /\ \A j \in Jobs : job'[j].fence = job[j].fence
      BY <2>2, EveryStepAdvances, OnlyPlacementGrants DEF NothingGranted, RowsKept
    <3>2. ASSUME NEW j \in Jobs, NEW f \in Fences
          PROVE  /\ attempt[j][f].status = "none" => attempt'[j][f] = attempt[j][f]
                 /\ attempt'[j][f].status = "none" => attempt[j][f].status = "none"
      BY <3>1 DEF AttemptsAdvance, Advance, StatusRank
    <3> QED BY <3>1, <3>2 DEF Unwritten
  <2> QED BY <2>1, <2>2
<1> QED BY <1>1, <1>2, DispatchInvariant, PTL DEF Spec

\* What an attempt did is settled once: no interleaving of late, repeated or foreign calls
\* holds a released attempt again, forgets an acknowledgement or reopens a log verdict.
THEOREM AttemptsNeverGoBack == Spec => AttemptsOnlyAdvance
<1>1. IInv /\ Unwritten /\ [Next]_vars =>
        [\A j \in Jobs, f \in Fences :
           /\ StatusRank(attempt'[j][f]) >= StatusRank(attempt[j][f])
           /\ StatusRank(attempt[j][f]) = 3 => attempt'[j][f].status = attempt[j][f].status
           /\ LogRank(attempt'[j][f]) >= LogRank(attempt[j][f])]_vars
  <2> SUFFICES ASSUME IInv, Unwritten, [Next]_vars, NEW j \in Jobs, NEW f \in Fences
               PROVE  /\ StatusRank(attempt'[j][f]) >= StatusRank(attempt[j][f])
                      /\ StatusRank(attempt[j][f]) = 3 => attempt'[j][f].status = attempt[j][f].status
                      /\ LogRank(attempt'[j][f]) >= LogRank(attempt[j][f])
    OBVIOUS
  <2>1. CASE \E w \in Workers, k \in Jobs : place(w, k)
    <3>1. \/ attempt'[j][f] = attempt[j][f]
          \/ /\ attempt[j][f].status = "none" /\ attempt[j][f].log = "pending"
             /\ attempt'[j][f].status = "offered" /\ attempt'[j][f].log = "pending"
      BY <2>1, PlaceWrites
    <3> QED BY <3>1 DEF StatusRank, LogRank
  <2>2. CASE ~\E w \in Workers, k \in Jobs : place(w, k)
    BY <2>2, EveryStepAdvances DEF AttemptsAdvance, Advance
  <2> QED BY <2>1, <2>2
<1> QED BY <1>1, DispatchInvariant, LeasesWriteFreshRows, PTL DEF Spec, AttemptsOnlyAdvance

-----------------------------------------------------------------------------
(* Capacity.                                                               *)

\* The units of some jobs are finitely many, and no fewer than those of a part of them.
LEMMA UnitsFinite ==
  ASSUME NEW S \in SUBSET Jobs, NEW T \in SUBSET S
  PROVE  /\ IsFiniteSet(UnitsOf(S))
         /\ Cardinality(UnitsOf(T)) <= Cardinality(UnitsOf(S))
         /\ Cardinality(UnitsOf(S)) \in Nat
<1> DEFINE U == {{j} \X (1 .. Cpu[j]) : j \in S}
<1>1. IsFiniteSet(S)
  BY RoomAssumption, FS_Subset
<1>2. IsFiniteSet(U)
  <2> DEFINE f == [j \in S |-> {j} \X (1 .. Cpu[j])]
  <2>1. f \in [S -> U] /\ \A u \in U : \E j \in S : f[j] = u
    OBVIOUS
  <2> HIDE DEF f, U
  <2>2. f \in Surjection(S, U)
    BY <2>1 DEF Surjection
  <2> QED BY <1>1, <2>2, FS_Surjection
<1>3. \A u \in U : IsFiniteSet(u)
  <2> SUFFICES ASSUME NEW j \in S PROVE IsFiniteSet({j} \X (1 .. Cpu[j]))
    OBVIOUS
  <2>1. Cpu[j] \in Int /\ 1 \in Int
    BY RoomAssumption
  <2>2. IsFiniteSet(1 .. Cpu[j]) /\ IsFiniteSet({j})
    BY <2>1, FS_Interval, FS_Singleton
  <2> QED BY <2>2, FS_Product
<1>4. IsFiniteSet(UnitsOf(S))
  BY <1>2, <1>3, FS_UNION DEF UnitsOf
<1>5. UnitsOf(T) \subseteq UnitsOf(S)
  BY DEF UnitsOf
<1> QED BY <1>4, <1>5, FS_Subset, FS_CardinalityType

\* One more job adds at most its own units.
LEMMA UnitsAdded ==
  ASSUME NEW S \in SUBSET Jobs, NEW j \in Jobs
  PROVE  Cardinality(UnitsOf(S \cup {j})) <= Cardinality(UnitsOf(S)) + Cpu[j]
<1> DEFINE A == UnitsOf(S)
           B == {j} \X (1 .. Cpu[j])
<1>1. UnitsOf(S \cup {j}) = A \cup B
  BY DEF UnitsOf
<1>2. IsFiniteSet(A) /\ Cardinality(A) \in Nat
  BY UnitsFinite
<1>3. Cpu[j] \in Nat
  BY RoomAssumption
<1>4. IsFiniteSet(1 .. Cpu[j]) /\ Cardinality(1 .. Cpu[j]) = Cpu[j]
  BY <1>3, FS_Interval, SMTT(30)
<1>5. IsFiniteSet({j}) /\ Cardinality({j}) = 1
  BY FS_Singleton
<1>6. IsFiniteSet(B) /\ Cardinality(B) = 1 * Cpu[j]
  BY <1>4, <1>5, FS_Product
<1> HIDE DEF A, B
<1>7. Cardinality(A \cup B) = Cardinality(A) + Cardinality(B) - Cardinality(A \cap B)
  BY <1>2, <1>6, FS_Union
<1>8. Cardinality(A \cap B) \in Nat
  <2>1. IsFiniteSet(A \cap B)
    BY <1>2, FS_Intersection
  <2> QED BY <2>1, FS_CardinalityType
<1>9. Cardinality(B) = Cpu[j]
  BY <1>3, <1>6
<1>10. Cardinality(A \cup B) <= Cardinality(A) + Cpu[j]
  BY <1>2, <1>3, <1>7, <1>8, <1>9
<1> QED BY <1>1, <1>10 DEF A

\* A step reserves nothing on a machine, or one job on the machine of the worker it is
\* placed on.
LEMMA ReservedStep ==
  ASSUME IInv, Unwritten, [Next]_vars, NEW h \in Hosts
  PROVE  \/ ReservedOn(h)' \subseteq ReservedOn(h)
         \/ \E w \in Workers, j \in Jobs :
              /\ place(w, j) /\ HostOf[w] = h
              /\ ReservedOn(h)' \subseteq ReservedOn(h) \cup {j}
<1>1. CASE ~\E w \in Workers, j \in Jobs : place(w, j)
  <2>1. AttemptsAdvance /\ AttemptsKept
    BY <1>1, EveryStepAdvances, OnlyPlacementGrants DEF NothingGranted
  <2>2. \A j \in Jobs, f \in Fences : Held(attempt'[j][f]) =>
          Held(attempt[j][f]) /\ attempt'[j][f].worker = attempt[j][f].worker
    <3> SUFFICES ASSUME NEW j \in Jobs, NEW f \in Fences, Held(attempt'[j][f])
                 PROVE  Held(attempt[j][f])
      BY <2>1 DEF AttemptsKept
    <3>1. Advance(attempt[j][f], attempt'[j][f])
      BY <2>1 DEF AttemptsAdvance
    <3>2. attempt[j][f].status \in {"none", "offered", "acked", "lapsed", "finished"}
      BY DEF IInv, TypeOK, Attempt
    <3> QED BY <3>1, <3>2 DEF Advance, StatusRank, Held
  <2>3. ReservedOn(h)' \subseteq ReservedOn(h)
    BY <2>2 DEF ReservedOn, Held
  <2> QED BY <2>3
<1>2. ASSUME NEW w \in Workers, NEW j \in Jobs, place(w, j)
      PROVE  /\ ReservedOn(h)' \subseteq ReservedOn(h) \cup {j}
             /\ HostOf[w] # h => ReservedOn(h)' \subseteq ReservedOn(h)
  <2>0. job \in [Jobs -> Job] /\ attempt \in [Jobs -> [Fences -> Attempt]] /\ job[j].fence \in Nat
    BY SizesAssumption DEF IInv, TypeOK, Job
  <2>1. job[j].fence + 1 \in Fences
    BY <1>2, <2>0, SizesAssumption DEF place, Fences
  <2>2. /\ attempt'[j][job[j].fence + 1].worker = w
        /\ \A k \in Jobs, g \in Fences :
             ~(k = j /\ g = job[j].fence + 1) => attempt'[k][g] = attempt[k][g]
    BY <1>2, <2>0, <2>1 DEF place, Offer
  <2>3. \A g \in Fences : ~Held(attempt[j][g])
    BY <1>2 DEF IInv, Sound, Reserves, Owned, place
  <2>4. ReservedOn(h)' \subseteq ReservedOn(h) \cup {j}
    BY <2>2 DEF ReservedOn, Held
  <2>5. ASSUME HostOf[w] # h PROVE j \notin ReservedOn(h)'
    BY <2>2, <2>3, <2>5 DEF ReservedOn, Held
  <2> QED BY <2>4, <2>5
<1> QED BY <1>1, <1>2

\* The jobs on a machine fit one of its identities' capacity, whatever identities share it
\* and whatever they answer: place_in_fleet counts every unreleased attempt of the machine
\* (dispatch.rs free_capacity), unanswered offers included.
THEOREM MachinesAreNotOversubscribed == Spec => []NoOversubscription
<1>1. Init => NoOversubscription
  <2> SUFFICES ASSUME Init, NEW h \in Hosts
               PROVE  \E w \in Workers : HostOf[w] = h /\ Reserved(h) <= Capacity[w]
    BY DEF NoOversubscription
  <2>1. UnitsOf(ReservedOn(h)) = {}
    BY DEF Init, ReservedOn, Held, NoAttempt, UnitsOf
  <2>2. Reserved(h) = 0
    BY <2>1, FS_EmptySet DEF Reserved
  <2> QED BY <2>2, RoomAssumption
<1>2. IInv /\ Unwritten /\ NoOversubscription /\ [Next]_vars => NoOversubscription'
  <2> SUFFICES ASSUME IInv, Unwritten, NoOversubscription, [Next]_vars, NEW h \in Hosts
               PROVE  \E w \in Workers : HostOf[w] = h /\ Reserved(h)' <= Capacity[w]
    BY DEF NoOversubscription
  <2> DEFINE S == ReservedOn(h)
             T == ReservedOn(h)'
  <2>0. /\ S \in SUBSET Jobs /\ T \in SUBSET Jobs
        /\ Cardinality(UnitsOf(S)) \in Nat /\ Cardinality(UnitsOf(T)) \in Nat
    BY UnitsFinite DEF ReservedOn
  <2>1. Reserved(h) = Cardinality(UnitsOf(S)) /\ Reserved(h)' = Cardinality(UnitsOf(T))
    BY DEF Reserved, UnitsOf
  <2>2. CASE T \subseteq S
    <3> HIDE DEF S, T
    <3>1. Reserved(h)' <= Reserved(h)
      BY <2>0, <2>1, <2>2, UnitsFinite
    <3>2. PICK w \in Workers : HostOf[w] = h /\ Reserved(h) <= Capacity[w]
      BY DEF NoOversubscription
    <3>3. Capacity[w] \in Nat
      BY RoomAssumption
    <3> QED BY <2>0, <2>1, <3>1, <3>2, <3>3
  <2>3. ASSUME NEW w \in Workers, NEW j \in Jobs, place(w, j), HostOf[w] = h,
               T \subseteq S \cup {j}
        PROVE  Reserved(h)' <= Capacity[w]
    <3>1. Cpu[j] <= Capacity[w] - Reserved(h) /\ Cpu[j] \in Nat /\ Capacity[w] \in Nat
      BY <2>3, RoomAssumption DEF place, free_capacity
    <3> HIDE DEF S, T
    <3>2. Cardinality(UnitsOf(T)) <= Cardinality(UnitsOf(S \cup {j}))
      BY <2>0, <2>3, UnitsFinite
    <3>3. Cardinality(UnitsOf(S \cup {j})) <= Cardinality(UnitsOf(S)) + Cpu[j]
      BY <2>0, UnitsAdded
    <3>4. Cardinality(UnitsOf(S \cup {j})) \in Nat
      BY <2>0, UnitsFinite
    <3> QED BY <2>0, <2>1, <3>1, <3>2, <3>3, <3>4
  <2> QED BY <2>2, <2>3, ReservedStep
<1> QED BY <1>1, <1>2, DispatchInvariant, LeasesWriteFreshRows, PTL DEF Spec
=============================================================================

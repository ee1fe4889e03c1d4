------------------------------ MODULE Dispatch ------------------------------
(***************************************************************************)
(* The controller's durable dispatch state and the transactions on it:     *)
(* crates/sentinel-store/src/{dispatch,jobs,runs,workers}.rs and the       *)
(* rerequest of github_events.rs. The tables are variables and every       *)
(* transaction is one action, which is what SQLite's single writer gives.  *)
(* A call that returns an error rolls back, so it is a stutter and has no  *)
(* action. Messages are not modelled here: any worker may present any      *)
(* attempt and fence at any time, so late, duplicated, reordered and       *)
(* foreign calls are all inputs of these actions.                          *)
(*                                                                         *)
(* Time is abstracted to what the statements compare: how many renewals'   *)
(* worth of lease is left (0 is past the deadline) and whether the         *)
(* execution backstop has passed. The ack and queue timeouts are never     *)
(* read twice, so those sweeps may simply happen.                          *)
(***************************************************************************)
EXTENDS JobControl, Sequences, FiniteSets, FiniteSetsExt

CONSTANTS Runs, Jobs, Workers, Hosts,
          RunOf,            \* job -> run
          Needs,            \* job -> sequence of earlier jobs of its run
          Condition,        \* job -> the shape of its `if`
          Cpu,              \* job -> reserved units
          HostOf,           \* worker -> machine
          Capacity,         \* worker -> units of its machine it may use
          Group,            \* run -> concurrency group, or None
          CancelInProgress, \* the groups whose new run supersedes the live ones
          Lineage,          \* run -> trigger, ref and pull request
          IdOrder,          \* run -> Nat, the order of run ids
          Classes,          \* the failure classes workers report in this instance
          Operated,         \* the workers an operator drains, uninstalls or revokes
          Logged,           \* the jobs whose log reaches its end
          Slow,             \* the jobs that may outlive their execution timeout
          MaxFence,         \* bound: leases of one job
          LeaseTicks,       \* lease length in ticks
          MaxClock,         \* bound: distinct creation times
          None

ASSUME SizesAssumption == MaxFence \in Nat /\ LeaseTicks \in Nat \ {0} /\ MaxClock \in Nat
ASSUME NoneAssumption  == None \notin Workers /\ None \notin Hosts
ASSUME JobsAssumption  == /\ RunOf \in [Jobs -> Runs]
                          /\ Needs \in [Jobs -> Seq(Jobs)]
                          /\ Classes \subseteq WorkerClass
                          /\ Operated \subseteq Workers
ASSUME RoomAssumption  == /\ IsFiniteSet(Jobs) /\ Cpu \in [Jobs -> Nat]
                          /\ HostOf \in [Workers -> Hosts] /\ Capacity \in [Workers -> Nat]
                          /\ \A h \in Hosts : \E w \in Workers : HostOf[w] = h
ASSUME NeedsAssumption == \A j \in Jobs : \A i \in DOMAIN Needs[j] : RunOf[Needs[j][i]] = RunOf[j]

Fences     == 1 .. MaxFence
Conditions == {"none", "true", "false", "broken", "success", "failure", "always"}
LogState   == {"pending", "incomplete", "complete"}

VARIABLES job,     \* job rows: state, fence, cancel_requested, failure class
          attempt, \* attempt rows, by job and fence: a lease inserts exactly one
          run,     \* run rows: creation time (0: no row yet), cancel_requested
          worker   \* worker rows: revoked, draining, uninstall requested

vars == <<job, attempt, run, worker>>

Job     == [state : JobStates, fence : 0 .. MaxFence, cancel : BOOLEAN,
            class : FailureClass \cup {NoClass}]
\* "lapsed" and "finished" are the two ways released_ms is written: given back, or ended.
Attempt == [status : {"none", "offered", "acked", "lapsed", "finished"},
            worker : Workers \cup {None}, left : 0 .. LeaseTicks, overrun : BOOLEAN,
            log : LogState]
Run     == [created : 0 .. MaxClock, cancel : BOOLEAN]
Worker  == [revoked : BOOLEAN, drain : BOOLEAN, uninstall : BOOLEAN]

TypeOK == /\ job \in [Jobs -> Job]
          /\ attempt \in [Jobs -> [Fences -> Attempt]]
          /\ run \in [Runs -> Run]
          /\ worker \in [Workers -> Worker]

NoAttempt == [status |-> "none", worker |-> None, left |-> 0, overrun |-> FALSE,
              log |-> "pending"]

Init == /\ job = [j \in Jobs |-> [state |-> "blocked", fence |-> 0, cancel |-> FALSE,
                                  class |-> NoClass]]
        /\ attempt = [j \in Jobs |-> [f \in Fences |-> NoAttempt]]
        /\ run = [r \in Runs |-> [created |-> 0, cancel |-> FALSE]]
        /\ worker = [w \in Workers |-> [revoked |-> FALSE, drain |-> FALSE,
                                        uninstall |-> FALSE]]

-----------------------------------------------------------------------------
(* Reading the tables.                                                     *)

Exists(r)  == run[r].created > 0
JobsOf(r)  == {j \in Jobs : RunOf[j] = r}
NeedSet(j) == {Needs[j][i] : i \in DOMAIN Needs[j]}
Held(a)    == a.status \in {"offered", "acked"}
Live(w)    == ~worker[w].revoked

\* Whether the log store has the end of a job's log.
Ends(j) == IF j \in Logged THEN BOOLEAN ELSE {FALSE}

\* Variant: an offer reserves nothing until it is acknowledged.
ReservedOn_acked_only(h) == {j \in Jobs : \E f \in Fences :
  attempt[j][f].status = "acked" /\ HostOf[attempt[j][f].worker] = h}

\* The jobs whose unreleased attempt sits on host h, whichever identity holds it.
ReservedOn(h) == {j \in Jobs : \E f \in Fences :
                    Held(attempt[j][f]) /\ HostOf[attempt[j][f].worker] = h}

\* The sum over the rows, as the number of units they name.
UnitsOf(js) == UNION {{j} \X (1 .. Cpu[j]) : j \in js}
Reserved(h) == Cardinality(UnitsOf(ReservedOn(h)))

free_capacity(w) == Capacity[w] - Reserved(HostOf[w])

Older(r, s) == \/ run[r].created < run[s].created
               \/ run[r].created = run[s].created /\ IdOrder[r] < IdOrder[s]

\* Variant: only the queue order is looked at.
GroupFree_order_only(r) ==
  Group[r] # None =>
    \A j \in Jobs : (RunOf[j] # r /\ Exists(RunOf[j]) /\ Group[RunOf[j]] = Group[r]) =>
       (job[j].state \in Terminal \/ ~Older(RunOf[j], r))

\* No other run of the group has a job a worker owns, and no older one a live job.
GroupFree(r) ==
  Group[r] # None =>
    \A j \in Jobs : (RunOf[j] # r /\ Exists(RunOf[j]) /\ Group[RunOf[j]] = Group[r]) =>
       /\ job[j].state \notin Owned
       /\ job[j].state \in Waiting => ~Older(RunOf[j], r)

-----------------------------------------------------------------------------
(* Deciding dependents. release_dependents walks a run's jobs in index     *)
(* order and every need precedes its job, so the walk's result is the one  *)
(* assignment in which each blocked job is decided from its needs' final   *)
(* states; it is stated as that equation.                                  *)

Unsuccessful == Terminal \ Success
Decisions    == {"wait", "dependencies_satisfied", "skip", "condition_failed"}

\* The jobs skipped because of a failure above them: failure_skips.
FailureSkips(st, bf) ==
  bf = {j \in Jobs : st[j] = "skipped" /\ \E n \in NeedSet(j) : n \in bf \/ st[n] \in Unsuccessful}

effective_state(st, bf, n) == IF st[n] = "skipped" /\ n \in bf THEN "failed" ELSE st[n]

\* A condition's value once every need has ended.
Eval(c, ok, cancelled) ==
  CASE c = "true"    -> "dependencies_satisfied"
    [] c = "false"   -> "skip"
    [] c = "success" -> IF ok /\ ~cancelled THEN "dependencies_satisfied" ELSE "skip"
    [] c = "failure" -> IF ~ok /\ ~cancelled THEN "dependencies_satisfied" ELSE "skip"
    [] c = "always"  -> IF ~cancelled THEN "dependencies_satisfied" ELSE "skip"
    [] OTHER         -> "condition_failed"

UsesStatusFunction(c) == c \in {"success", "failure", "always"}

\* What one blocked job becomes, from its needs' effective states in their order.
Decision(j, eff, cancelled) ==
  LET ok == \A n \in NeedSet(j) : Satisfied(eff[n])
  IN  IF Condition[j] = "none"
      THEN IF ok THEN "dependencies_satisfied"
           ELSE LET first == CHOOSE i \in DOMAIN Needs[j] :
                               /\ ~Satisfied(eff[Needs[j][i]])
                               /\ \A k \in 1 .. (i - 1) : Satisfied(eff[Needs[j][k]])
                IN  IF Decided(eff[Needs[j][first]]) THEN "skip" ELSE "wait"
      ELSE IF \E n \in NeedSet(j) : ~Decided(eff[n]) THEN "wait"
      ELSE IF ~UsesStatusFunction(Condition[j]) /\ (~ok \/ cancelled) THEN "skip"
      ELSE Eval(Condition[j], ok, cancelled)

\* The job rows jb after the decisions d.
Decide(jb, d) ==
  [j \in Jobs |-> IF j \in DOMAIN d /\ d[j] # "wait" THEN Apply(jb[j], d[j], 0) ELSE jb[j]]

\* The step leaves the job rows jb with the blocked jobs of the runs rs decided.
release_dependents(jb, rn, rs) ==
  \E d \in [{j \in Jobs : RunOf[j] \in rs /\ jb[j].state = "blocked"} -> Decisions] :
    LET rows == Decide(jb, d)
        st   == [j \in Jobs |-> rows[j].state]
    IN  \E bf \in SUBSET {j \in Jobs : st[j] = "skipped"} :
          /\ FailureSkips(st, bf)
          /\ \A j \in DOMAIN d :
               d[j] = Decision(j, [n \in Jobs |-> effective_state(st, bf, n)],
                               rn[RunOf[j]].cancel)
          /\ job' = rows

-----------------------------------------------------------------------------
(* Ending an attempt.                                                      *)

\* Variant: the verdict is written over a log that already ended.
Closed_overwrites_log(a, how, ended) ==
  [a EXCEPT !.status = how, !.left = 0, !.overrun = FALSE,
            !.log = IF ended THEN "complete" ELSE "incomplete"]

\* The attempt row once released. No statement reads the lease of a released attempt.
Closed(a, how, ended) ==
  [a EXCEPT !.status = how, !.left = 0, !.overrun = FALSE,
            !.log = IF how = "finished" /\ @ = "pending"
                    THEN IF ended THEN "complete" ELSE "incomplete" ELSE @]

\* Variant: a cancel recorded while the offer was out is forgotten.
Returned_forgets_cancel(row) == Apply(row, "offer_lapsed", 0)

\* The offer returns to the queue, or ends canceled if that was asked for meanwhile.
Returned(row) ==
  LET back == Apply(row, "offer_lapsed", 0)
  IN  IF row.cancel THEN Apply(back, "cancel_before_start", 0) ELSE back

\* Variant: the state the job has reached is not looked at.
give_back_any_state(j, f) ==
  /\ job[j].fence = f
  /\ attempt' = [attempt EXCEPT ![j][f] = Closed(@, "lapsed", FALSE)]
  /\ job' = [job EXCEPT ![j] = Returned(@)]
  /\ UNCHANGED <<run, worker>>

give_back(j, f) ==
  /\ job[j].fence = f
  /\ job[j].state = "leased"
  /\ attempt' = [attempt EXCEPT ![j][f] = Closed(@, "lapsed", FALSE)]
  /\ IF job[j].cancel
     THEN release_dependents([job EXCEPT ![j] = Returned(@)], run, {RunOf[j]})
     ELSE job' = [job EXCEPT ![j] = Returned(@)]
  /\ UNCHANGED <<run, worker>>

\* An event on a held attempt. lost: a required artifact that was due is missing, which
\* turns a pass into a publication failure; ended: the log store has the log's end.
finish(j, f, actor, event, ended, lost) ==
  LET e == IF event = "passed" /\ lost THEN "publication" ELSE event
  IN  /\ Held(attempt[j][f])
      /\ CanApply(job[j], actor, e, f)
      /\ IF To(e) \in Terminal
         THEN /\ attempt' = [attempt EXCEPT ![j][f] = Closed(@, "finished", ended)]
              /\ release_dependents([job EXCEPT ![j] = Apply(@, e, f)], run, {RunOf[j]})
         ELSE /\ job' = [job EXCEPT ![j] = Apply(@, e, f)]
              /\ UNCHANGED attempt
      /\ UNCHANGED <<run, worker>>

-----------------------------------------------------------------------------
(* Placement and the worker's calls.                                       *)

\* The attempt row lease_reserved inserts.
Offer(w) == [status |-> "offered", worker |-> w, left |-> LeaseTicks, overrun |-> FALSE,
             log |-> "pending"]

\* Variant: a job that is already offered is offered again.
place_offered_again(w, j) ==
  /\ Live(w) /\ job[j].state \in {"queued", "leased"} /\ job[j].fence < MaxFence
  /\ job' = [job EXCEPT ![j] = Apply(@, "leased", @.fence + 1)]
  /\ attempt' = [attempt EXCEPT ![j][job[j].fence + 1] = Offer(w)]
  /\ UNCHANGED <<run, worker>>

\* place_in_fleet: the reservation is the attempt. Labels, images and the fairness and
\* locality heuristics only choose among the jobs admitted here.
place(w, j) ==
  /\ Live(w) /\ ~worker[w].drain
  /\ job[j].state = "queued" /\ ~job[j].cancel
  /\ job[j].fence < MaxFence
  /\ Cpu[j] <= free_capacity(w)
  /\ GroupFree(RunOf[j])
  /\ job' = [job EXCEPT ![j] = Apply(@, "leased", @.fence + 1)]
  /\ attempt' = [attempt EXCEPT ![j][job[j].fence + 1] = Offer(w)]
  /\ UNCHANGED <<run, worker>>

\* Variant: the release of the attempt is not checked.
acknowledge_released(w, j, f) ==
  /\ attempt[j][f].status \in {"offered", "lapsed"} /\ attempt[j][f].worker = w /\ Live(w)
  /\ attempt' = [attempt EXCEPT ![j][f].status = "acked"]
  /\ UNCHANGED <<job, run, worker>>

acknowledge(w, j, f) ==
  /\ attempt[j][f].status = "offered" /\ attempt[j][f].worker = w /\ Live(w)
  /\ attempt' = [attempt EXCEPT ![j][f].status = "acked"]
  /\ UNCHANGED <<job, run, worker>>

\* An unanswered offer: the ack timeout, a send that failed, or the startup sweep.
lapse(j, f) == attempt[j][f].status = "offered" /\ give_back(j, f)

decline(w, j, f) ==
  /\ Held(attempt[j][f]) /\ attempt[j][f].worker = w /\ Live(w)
  /\ give_back(j, f)

\* Variant: a renewal is added to the lease that is left.
renew_accumulates(w, hs) ==
  /\ Live(w)
  /\ attempt' = [j \in Jobs |-> [f \in Fences |->
       LET a == attempt[j][f]
       IN  IF j \in hs /\ a.worker = w /\ a.status = "acked" /\ a.left > 0
           THEN [a EXCEPT !.left = @ + LeaseTicks] ELSE a]]
  /\ UNCHANGED <<job, run, worker>>

\* One heartbeat: the attempts hs of one worker that are still renewable are extended.
renew(w, hs) ==
  /\ Live(w)
  /\ attempt' = [j \in Jobs |-> [f \in Fences |->
       LET a == attempt[j][f]
       IN  IF j \in hs /\ a.worker = w /\ a.status = "acked" /\ a.left > 0
           THEN [a EXCEPT !.left = LeaseTicks] ELSE a]]
  /\ UNCHANGED <<job, run, worker>>

\* Variant: a report is taken from a revoked worker.
report_revoked(w, j, f, event) ==
  /\ attempt[j][f].status = "acked" /\ attempt[j][f].worker = w
  /\ finish(j, f, "worker", event, FALSE, FALSE)

report(w, j, f, event) ==
  /\ attempt[j][f].status = "acked" /\ attempt[j][f].worker = w /\ Live(w)
  /\ \E ended \in Ends(j), lost \in BOOLEAN :
       finish(j, f, "worker",
              IF event = "canceled" /\ ~job[j].cancel THEN "runtime" ELSE event, ended, lost)

\* A restarted worker hands back what it was running. Revocation is not checked here.
abandon(w, j, f) ==
  /\ attempt[j][f].worker = w
  /\ \/ lapse(j, f)
     \/ /\ attempt[j][f].status = "acked"
        /\ \E ended \in Ends(j) : finish(j, f, "reconciler", "reconciled", ended, FALSE)

log_ended(j, f) ==
  /\ j \in Logged
  /\ attempt[j][f].status # "none" /\ attempt[j][f].log # "complete"
  /\ attempt' = [attempt EXCEPT ![j][f].log = "complete"]
  /\ UNCHANGED <<job, run, worker>>

-----------------------------------------------------------------------------
(* Sweeps.                                                                 *)

\* Variant: a renewed lease is never due.
Due_lease_only(a) == a.status = "acked" /\ a.left = 0

Due(a) == a.status = "acked" /\ (a.left = 0 \/ a.overrun)

\* The deadline is read again in the transaction that ends the attempt.
expire(j, f) ==
  /\ Due(attempt[j][f])
  /\ \E ended \in Ends(j) : finish(j, f, "controller", "lease_expired", ended, FALSE)

\* Variant: the dependents of a job that timed out in the queue are left for later.
sweep_queue_timeouts_alone(j) ==
  /\ job[j].state = "queued"
  /\ job' = [job EXCEPT ![j] = Apply(@, "queue_timed_out", 0)]
  /\ UNCHANGED <<attempt, run, worker>>

sweep_queue_timeouts(j) ==
  /\ job[j].state = "queued"
  /\ release_dependents([job EXCEPT ![j] = Apply(@, "queue_timed_out", 0)], run, {RunOf[j]})
  /\ UNCHANGED <<attempt, run, worker>>

\* The jobs of a sweep that is one transaction, with the event that settles each one.
\* Settling one never unsettles another, so the whole is one update and one release.
settle(fate, ended) ==
  LET rows == [j \in Jobs |->
                 IF j \notin DOMAIN fate THEN job[j]
                 ELSE IF fate[j] = "offer_lapsed" THEN Returned(job[j])
                 ELSE Apply(job[j], fate[j], 0)]
      how(j) == IF fate[j] = "offer_lapsed" THEN "lapsed" ELSE "finished"
  IN  /\ \A j \in DOMAIN fate : job[j].state \in From(fate[j])
      /\ attempt' = [j \in Jobs |-> [f \in Fences |->
                       IF j \in DOMAIN fate /\ Held(attempt[j][f])
                       THEN Closed(attempt[j][f], how(j), j \in ended) ELSE attempt[j][f]]]
      /\ release_dependents(rows, run,
                            {RunOf[j] : j \in {k \in DOMAIN fate : rows[k].state \in Terminal}})
      /\ UNCHANGED <<run, worker>>

\* The unreleased attempts of a job.
HeldRows(j) == {attempt[j][f] : f \in {g \in Fences : Held(attempt[j][g])}}

Revoked(a) == ~Live(a.worker)

reconcile_revoked ==
  LET orphans == {j \in Jobs : \E a \in HeldRows(j) : Revoked(a)}
      acked   == {j \in orphans : \E a \in HeldRows(j) : a.status = "acked"}
  IN  /\ orphans # {}
      /\ \E ended \in SUBSET (orphans \cap Logged) :
           settle([j \in orphans |-> IF j \in acked THEN "reconciled" ELSE "offer_lapsed"], ended)

\* Before the listener binds: leases that passed expire, offers the ack timeout caught
\* lapse, and what a revoked worker still holds is settled.
reconcile_startup ==
  LET due     == {j \in Jobs : \E a \in HeldRows(j) : Due(a)}
      offered == {j \in Jobs : \E a \in HeldRows(j) : a.status = "offered"}
      orphans == {j \in Jobs : \E a \in HeldRows(j) : Revoked(a)}
  IN  \E late \in SUBSET offered :
        LET swept == due \cup late \cup orphans
        IN  /\ swept # {}
            /\ \E ended \in SUBSET (swept \cap Logged) :
                 settle([j \in swept |-> IF j \in due THEN "lease_expired"
                                         ELSE IF j \in offered THEN "offer_lapsed"
                                         ELSE "reconciled"], ended)

-----------------------------------------------------------------------------
(* Runs: creation, cancellation and running again.                         *)

\* dispatch::cancel_one: the request is recorded, and ends a job nobody has started.
cancel_one(row) ==
  LET asked == [row EXCEPT !.cancel = TRUE]
  IN  IF row.state \in Terminal THEN row
      ELSE IF row.state \in Waiting THEN Apply(asked, "cancel_before_start", 0) ELSE asked

cancel(j) ==
  /\ Exists(RunOf[j])
  /\ job[j].state \notin Terminal /\ ~job[j].cancel
  /\ IF job[j].state \in Waiting
     THEN release_dependents([job EXCEPT ![j] = cancel_one(@)], run, {RunOf[j]})
     ELSE job' = [job EXCEPT ![j] = cancel_one(@)]
  /\ UNCHANGED <<attempt, run, worker>>

\* The job and run rows after cancelling every run in rs.
CancelJobs(jb, rs) == [j \in Jobs |-> IF RunOf[j] \in rs THEN cancel_one(jb[j]) ELSE jb[j]]
CancelRuns(rn, rs) == [r \in Runs |-> IF r \in rs THEN [rn[r] EXCEPT !.cancel = TRUE] ELSE rn[r]]

cancel_run(r) ==
  /\ Exists(r)
  /\ run' = CancelRuns(run, {r})
  /\ release_dependents(CancelJobs(job, {r}), run', {r})
  /\ UNCHANGED <<attempt, worker>>

\* Variant: runs of the same millisecond do not supersede one another.
supersede_strictly_older(r, rn) ==
  {s \in Runs \ {r} : /\ Group[r] \in CancelInProgress /\ Group[s] = Group[r]
                      /\ rn[s].created \in 1 .. (rn[r].created - 1)
                      /\ \E j \in JobsOf(s) : job[j].state \notin Terminal}

\* The live runs a new run of a cancelling group supersedes: created no later than it.
supersede(r, rn) ==
  {s \in Runs \ {r} : /\ Group[r] \in CancelInProgress /\ Group[s] = Group[r]
                      /\ rn[s].created \in 1 .. rn[r].created
                      /\ \E j \in JobsOf(s) : job[j].state \notin Terminal}

Latest == Max({run[r].created : r \in Runs})
Ready(j) == Needs[j] = <<>> /\ Condition[j] = "none"

\* The run row, its jobs, its concurrency group and the first release, in one transaction.
\* The steady clock may not have moved since the last run was created.
create_run(r) ==
  \E now \in {Latest, Latest + 1} \cap 1 .. MaxClock :
    LET new  == [run EXCEPT ![r].created = now]
        old  == supersede(r, new)
        rows == [j \in JobsOf(r) |-> IF Ready(j) THEN Apply(job[j], "dependencies_satisfied", 0)
                                     ELSE job[j]]
    IN  /\ ~Exists(r)
        /\ run' = CancelRuns(new, old)
        /\ release_dependents(CancelJobs([j \in Jobs |-> IF RunOf[j] = r THEN rows[j] ELSE job[j]],
                                         old),
                              run', old \cup {r})
        /\ UNCHANGED <<attempt, worker>>

\* Variant: the class of the last failure is kept.
Reset_keeps_class(row, state) == [row EXCEPT !.state = state]

\* reset_terminal_job: back to the start with the fence kept.
Reset(row, state) == [row EXCEPT !.state = state, !.class = NoClass]

\* The job goes back to the queue, and the skipped jobs that (transitively) need it are
\* blocked again; needs precede their job, so the equation has one solution.
rerun_job(j) ==
  /\ CanApply(job[j], "controller", "rerun", 0)
  /\ \E reached \in SUBSET JobsOf(RunOf[j]) :
       /\ reached = {k \in JobsOf(RunOf[j]) :
                       \/ k = j
                       \/ /\ job[k].state = "skipped" /\ ~job[k].cancel
                          /\ NeedSet(k) \cap reached # {}}
       /\ job' = [k \in Jobs |-> IF k \notin reached THEN job[k]
                                 ELSE Reset(job[k], IF k = j THEN "queued" ELSE "blocked")]
  /\ run' = [run EXCEPT ![RunOf[j]].cancel = FALSE]
  /\ UNCHANGED <<attempt, worker>>

\* A forge rerequest starts the finished runs it names over, cancellation requests included.
\* A run that has unfinished jobs, or a newer run of its lineage, is passed over.
Rerequestable(r) ==
  /\ Exists(r)
  /\ \A j \in JobsOf(r) : job[j].state \in Terminal
  /\ \A s \in Runs : Lineage[s] = Lineage[r] => run[s].created <= run[r].created

rerequest(rs) ==
  /\ rs # {} /\ \A r \in rs : Rerequestable(r)
  /\ run' = [r \in Runs |-> IF r \in rs THEN [run[r] EXCEPT !.cancel = FALSE] ELSE run[r]]
  /\ release_dependents(
       [j \in Jobs |-> IF RunOf[j] \notin rs THEN job[j]
                       ELSE [Reset(job[j], IF Ready(j) THEN "queued" ELSE "blocked")
                               EXCEPT !.cancel = FALSE]],
       run', rs)
  /\ UNCHANGED <<attempt, worker>>

-----------------------------------------------------------------------------
(* Worker administration.                                                  *)

revoke(w) ==
  /\ Live(w)
  /\ worker' = [worker EXCEPT ![w].revoked = TRUE]
  /\ UNCHANGED <<job, attempt, run>>

drain(w) ==
  /\ Live(w) /\ ~worker[w].drain
  /\ worker' = [worker EXCEPT ![w].drain = TRUE]
  /\ UNCHANGED <<job, attempt, run>>

undrain(w) ==
  /\ Live(w) /\ worker[w].drain
  /\ worker' = [worker EXCEPT ![w].drain = FALSE]
  /\ UNCHANGED <<job, attempt, run>>

request_uninstall(w) ==
  /\ Live(w) /\ ~worker[w].uninstall
  /\ worker' = [worker EXCEPT ![w].uninstall = TRUE, ![w].drain = TRUE]
  /\ UNCHANGED <<job, attempt, run>>

\* Every worker whose uninstall was requested and which holds nothing is revoked.
settle_uninstalls ==
  LET ready == {w \in Workers : /\ worker[w].uninstall /\ Live(w)
                                /\ \A j \in Jobs, f \in Fences :
                                     Held(attempt[j][f]) => attempt[j][f].worker # w}
  IN  /\ ready # {}
      /\ worker' = [w \in Workers |-> IF w \in ready THEN [worker[w] EXCEPT !.revoked = TRUE]
                                      ELSE worker[w]]
      /\ UNCHANGED <<job, attempt, run>>

-----------------------------------------------------------------------------
(* Time.                                                                   *)

LeaseAges(j, f) ==
  /\ Held(attempt[j][f]) /\ attempt[j][f].left > 0
  /\ attempt' = [attempt EXCEPT ![j][f].left = @ - 1]
  /\ UNCHANGED <<job, run, worker>>

\* acked + timeout + EXECUTION_GRACE_MS passes, however often the lease is renewed.
Overruns(j, f) ==
  /\ j \in Slow
  /\ attempt[j][f].status = "acked" /\ ~attempt[j][f].overrun
  /\ attempt' = [attempt EXCEPT ![j][f].overrun = TRUE]
  /\ UNCHANGED <<job, run, worker>>

-----------------------------------------------------------------------------
Reports == {"preparation_started", "steps_started", "finalization_started", "passed"}
             \cup Classes

WorkerCalls == \E w \in Workers :
  \/ \E j \in Jobs : place(w, j)
  \/ \E hs \in SUBSET Jobs : renew(w, hs)
  \/ \E j \in Jobs, f \in Fences :
       \/ acknowledge(w, j, f)
       \/ decline(w, j, f)
       \/ abandon(w, j, f)
       \/ \E e \in Reports : report(w, j, f, e)

Sweeps == \/ \E j \in Jobs, f \in Fences : lapse(j, f) \/ expire(j, f)
          \/ \E j \in Jobs : sweep_queue_timeouts(j)
          \/ reconcile_revoked
          \/ reconcile_startup

Requests == \/ \E r \in Runs : create_run(r) \/ cancel_run(r)
            \/ \E rs \in SUBSET Runs : rerequest(rs)
            \/ \E j \in Jobs : cancel(j) \/ rerun_job(j)

Administration == \/ \E w \in Operated : revoke(w) \/ drain(w) \/ undrain(w) \/ request_uninstall(w)
                  \/ settle_uninstalls

Time == \E j \in Jobs, f \in Fences : LeaseAges(j, f) \/ Overruns(j, f) \/ log_ended(j, f)

Next == WorkerCalls \/ Sweeps \/ Requests \/ Administration \/ Time

Spec == Init /\ [][Next]_vars

-----------------------------------------------------------------------------
(* Correctness.                                                            *)

\* A job row and its attempts: the job is owned exactly while an attempt is unreleased,
\* that one is the attempt of the job's fence, and an unanswered offer is still `leased`.
Reserves(row, at) ==
  /\ row.state \in Owned => row.fence \in Fences /\ Held(at[row.fence])
  /\ \A f \in Fences : Held(at[f]) =>
       /\ f = row.fence
       /\ row.state \in Owned
       /\ at[f].status = "offered" => row.state = "leased"

\* The reservation is the attempt: a job a worker owns has exactly one unreleased
\* attempt, under the job's current fence, and an unreleased attempt belongs to an
\* owned job. Capacity, renewal and every fence check rest on it.
HeldIffOwned == \A j \in Jobs : Reserves(job[j], attempt[j])

\* Nothing is stuck: a blocked job of an existing run still waits for a job that has not
\* ended. Every transaction that ends a job must decide its dependents before it commits.
BlockedWaits ==
  \A j \in Jobs : Exists(RunOf[j]) /\ job[j].state = "blocked" =>
    \E n \in NeedSet(j) : job[n].state \notin Terminal

\* Once a cancel of a job or of its run is recorded, nothing of it can start: the job has
\* ended, or is on a worker that is being told to stop it, whichever way an offer comes back
\* and whatever reruns and rerequests revive.
CancelledDrains ==
  \A j \in Jobs : job[j].cancel \/ run[RunOf[j]].cancel =>
    job[j].state \in Terminal \/ (job[j].state \in Owned /\ job[j].cancel)

\* A concurrency group is a lock between runs: two runs of one group never have a job on
\* a worker at the same time.
GroupExclusive ==
  \A i, j \in Jobs :
    /\ job[i].state \in Owned /\ job[j].state \in Owned
    /\ RunOf[i] # RunOf[j]
    /\ Group[RunOf[i]] # None
    => Group[RunOf[i]] # Group[RunOf[j]]

\* When a run of a cancelling group is created, whatever was live in the group has ended
\* or is being stopped, runs created in the same millisecond included.
SupersededStop ==
  [][\A r \in Runs : (~Exists(r) /\ run'[r].created > 0 /\ Group[r] \in CancelInProgress) =>
       \A j \in Jobs : (RunOf[j] # r /\ Exists(RunOf[j]) /\ Group[RunOf[j]] = Group[r]) =>
         job'[j].state \in Terminal \/ (job'[j].state \in Owned /\ job'[j].cancel)]_vars

\* The identities of one machine together never hold more than the machine has.
NoOversubscription ==
  \A h \in Hosts : \E w \in Workers : HostOf[w] = h /\ Reserved(h) <= Capacity[w]

\* The recorded class explains the recorded outcome, through reruns and revivals.
ClassExplainsOutcome ==
  \A j \in Jobs : IF job[j].class = NoClass
                  THEN job[j].state \notin Terminal \/ job[j].state \in Success
                  ELSE job[j].state = ClassOutcome(job[j].class)

\* A revoked worker is not believed: whatever its unsettled attempts still say, their jobs
\* only end as infrastructure failures, or go back to the queue (or end canceled) unstarted.
RevokedIsMute ==
  [][\A j \in Jobs, f \in Fences :
       (Held(attempt[j][f]) /\ worker[attempt[j][f].worker].revoked /\ job'[j].state # job[j].state)
         => job'[j].state \in {"infra_failed", "queued", "canceled"}]_vars

\* What an attempt did is settled once: a released attempt is never held again, an
\* acknowledgement is not forgotten, a finished log verdict only improves.
StatusRank(a) == CASE a.status = "none" -> 0 [] a.status = "offered" -> 1
                   [] a.status = "acked" -> 2 [] OTHER -> 3
LogRank(a) == CASE a.log = "pending" -> 0 [] a.log = "incomplete" -> 1 [] OTHER -> 2

AttemptsOnlyAdvance ==
  [][\A j \in Jobs, f \in Fences :
       /\ StatusRank(attempt'[j][f]) >= StatusRank(attempt[j][f])
       /\ StatusRank(attempt[j][f]) = 3 => attempt'[j][f].status = attempt[j][f].status
       /\ LogRank(attempt'[j][f]) >= LogRank(attempt[j][f])]_vars

\* Work that may have run is never replayed by the system: a job whose offer was
\* acknowledged goes back to waiting only when its own worker declines it before
\* starting, and an ended job only when someone asks for it to run again.
NeverReplayed ==
  [][\A j \in Jobs :
       /\ (job[j].state \in Owned /\ job'[j].state \in Waiting) =>
          /\ job[j].state = "leased"
          /\ \/ attempt[j][job[j].fence].status = "offered"
             \/ \E w \in Workers : decline(w, j, job[j].fence)
       /\ (job[j].state \in Terminal /\ job'[j].state \notin Terminal) =>
            \/ \E rs \in SUBSET Runs : rerequest(rs)
            \/ \E k \in Jobs : rerun_job(k)]_vars

-----------------------------------------------------------------------------
(* Progress. Each dispatch pass (a wake, or every two seconds) expires     *)
(* leases, times the queue out, lapses offers, settles the revoked and     *)
(* then places; time does not stop. Nothing is assumed of workers or       *)
(* operators. All of it is weakly fair: the sweep reads only the jobs that *)
(* are queued when it runs, so a job whose offer lapses and is placed      *)
(* again between two sweeps is not seen by either.                         *)

Fairness ==
  /\ \A j \in Jobs, f \in Fences :
       WF_vars(Overruns(j, f)) /\ WF_vars(expire(j, f)) /\ WF_vars(lapse(j, f))
  /\ \A j \in Jobs : WF_vars(sweep_queue_timeouts(j))
  /\ WF_vars(reconcile_revoked)

FairSpec == Spec /\ Fairness

\* No lease and no wait lasts: a job does not stay queued or owned under one fence for
\* ever, even if its worker renews without end, vanishes or is revoked: it ends, or is
\* leased under a later fence. A job that is leased again and again need not end.
NoLeaseLasts ==
  \A j \in Jobs, f \in 0..MaxFence :
    []<>~(job[j].fence = f /\ job[j].state \in {"queued"} \cup Owned)

-----------------------------------------------------------------------------
(* Dispatch implements JobOwnership: the owner is the worker of the        *)
(* attempt under the job's fence, the generation is the fence.             *)

Owner == [j \in Jobs |-> IF job[j].state \in Owned THEN attempt[j][job[j].fence].worker ELSE None]

Ownership == INSTANCE JobOwnership
               WITH owner <- Owner, generation <- [j \in Jobs |-> job[j].fence],
                    ended <- [j \in Jobs |-> job[j].state \in Terminal]

\* The fenced, exclusive ownership of a job that the workers and the log, secret and
\* artifact paths rely on.
ImplementsOwnership == Ownership!Spec
=============================================================================

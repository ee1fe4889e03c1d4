# Sentinel in TLA+

Sentinel is a CI system: a controller (one process over one SQLite store), workers that attach to
it over an authenticated link, and the forge whose events start runs. This directory holds TLA+
modules translated from the Rust source, the TLC configurations that check small instances, and
TLAPS proofs for every instance. Paths below are relative to the repository.

## The system

| Component | State | Operations | Talks to | Modelled in |
|---|---|---|---|---|
| Job state machine (`crates/sentinel-core/src/state.rs`) | none: a pure transition function | `transition`, `dependency_decision`, the outcome of a failure class; `aggregate` | everything that changes a job | `JobControl` (not `aggregate`, which only reads) |
| Dispatch (`sentinel-store/src/dispatch.rs`, `jobs.rs`) | `jobs`, `attempts` rows | place, acknowledge, decline, renew, report, abandon, lapse, expire, queue timeout, revoked and startup reconciliation, release of dependents | controller link, runs | `Dispatch`, `JobOwnership` |
| Runs (`sentinel-store/src/runs.rs`) | `runs` rows, concurrency groups | create, cancel, supersede, rerun, revive | API, intake, dispatch | `Dispatch` |
| Forge events (`github_events.rs`, `sources_forge.rs`) | receipts, the refresh schedule, installation rows | accept, schedule, apply, finish, rerequest | forge, runs, sources | `Dispatch` (rerequest), `ForgeAccess` |
| Worker administration (`workers.rs`) | `workers`, `enrollments` rows | revoke, drain, undrain, uninstall, enroll | dispatch, link | `Dispatch` (not enrollment) |
| Controller link (`sentinel-link/src/controller.rs`) | fleet of sessions, deferred queue, spec requests, unflushed logs | session threads, heartbeat answers, dispatch pass, cancel pushes, log flush | store, worker sessions | `Link`, `LogStream`, `Lease` |
| Worker link (`session.rs`, `worker.rs`) | one session, its reader and heartbeat, its bulk connection | attach, detach, ping, forward, route | controller, executor | `Link`, `LogStream`, `Lease` |
| Worker executor (`sentinel-worker/src/executor.rs`, `attempt.rs`, `recovery.rs`) | slots, unsent and unconfirmed reports, markers on disk, one lease deadline | offer, spec, run, cancel, stop, lease watch, recovery | worker link, containers | `Link`, `Lease` |
| Log spool and log store (`spool.rs`, `logpipe.rs`, `sentinel-store/src/logs.rs`) | numbered frames, cursors, holes and gaps on both sides | write, send, acknowledge, sync, finish, seal, repair | executor, dispatch (log end) | `LogStream` |
| Objects, replication, offload (`objects.rs`, `replicate.rs`, `offload.rs`) and backup (`backup.rs`) | files, rows, put marks, queued deletes, pins, the maintenance lock | stage, commit, discard, read, reclaim, copy, evict, delete, snapshot | artifacts, S3 | `Objects` (not retention dates, space or quotas) |
| Check publication (`store/checks.rs`, `sentinel-checks/src/lane.rs`, `github.rs`) | outbox of desired states with a sequence, the lane's strikes | record, create, update, look up, retry, refuse, quarantine, rearm | runs and jobs, forge | `Checks` |
| Intake and polling (`store/intake.rs`, `poll.rs`, `sources.rs`, `sentinel-intake`) | deliveries, poll configuration and cursor, source bindings | accept, resolve, dispatch, retry, purge, poll, bind, revoke | forge, runs | `Intake` (branches) |
| Idempotency keys (`idempotency.rs`) | key, request hash, answer | begin, complete, purge | API | no: decision and mutation are one transaction |
| Cache (`sentinel-cache`) | entries, leases, journal | attach, publish, restore, sweep, resume | executor | no |
| Link identity, admission, TLS, tailnet | certificates, handshakes | enroll, admit | link | no: cryptography and I/O |
| Accounts, tokens, secrets, mail | credentials, sealed values | issue, revoke, deliver, reseal | API, spec delivery | no: cryptography and row lookups |
| Tenancy and forge membership (`github_members.rs`, `github_app.rs`, `sentinel-checks/src/members.rs`, `reconcile.rs`) | organisations, derived members and grants, member checks | enqueue, walk, apply, retry, remove | forge, API | `ForgeAccess` (one person, one repository) |
| Pipeline compiler (`sentinel-pipeline`) | none | parse, expand, evaluate | runs | only the status functions of conditions |
| Restore, upgrade, schema | files | verify, restore, migrate | store | no: file copies and SQL |
| HTTP API, OAuth, MCP, protocol | sessions | routes over the store | everything | no: routing and formats |
| Git, S3, CLI, agent, benchmarks, probes | - | - | - | no: process and network I/O; the answers of `is_ancestor` (`sentinel-git`) are in `Intake` |

What is hard in it: every worker call may arrive late, twice, after the lease was given to
someone else, or from a revoked worker; a cancel races every transition; a job's end must decide
its dependents in whichever of eight transactions ends it; store writes fail although they
committed; messages wait in a bounded queue while later ones arrive on a newer session; sweeps
and heartbeat answers use what they read before the write; both processes restart. A log crosses
two connections with cumulative acknowledgements and is repaired after a crash of either end; the
background lanes ask the outside world between two transactions and write what they learned under
a fence; content-addressed files are shared by threads that stage, reclaim, evict, copy and back
up. The list, at
the line where each bites and with the property that would catch it, is `hazards` in
`PROJECT.json`.

## Modules

`JobControl` - states, outcomes, failure classes and events of `state.rs`: `CanApply` is the
guard of `transition` (who may raise an event, in which state, under which fence), `Apply` its
effect, `Satisfied`/`Decided` the dependency decision.

`Dispatch` (extends `JobControl`) - the store. The variables are the tables `job`, `attempt`,
`run`, `worker`, reduced to the columns a statement compares. A transaction is one action,
because the store has a single writer; a call that returns an error rolls back and is a stutter.
There are no messages: any worker may present any attempt and fence at any time, so late,
duplicated, reordered and foreign calls are inputs.

| Action | Code |
|---|---|
| `place` | `place_in_fleet`, `lease_reserved` and the eligibility query |
| `acknowledge`, `decline`, `renew`, `report`, `abandon`, `log_ended` | the worker's calls in `dispatch.rs` |
| `lapse`, `expire`, `sweep_queue_timeouts`, `reconcile_revoked`, `reconcile_startup` | the sweeps |
| `finish`, `give_back`, `settle`, `release_dependents` | what they share: ending an attempt and deciding dependents |
| `create_run` (with `supersede`), `cancel`, `cancel_run`, `rerun_job`, `rerequest` | `runs.rs`, `github_events.rs` |
| `revoke`, `drain`, `undrain`, `request_uninstall`, `settle_uninstalls` | `workers.rs` |
| `LeaseAges`, `Overruns` | time: `left = 0` is a passed lease, `overrun` is past `acked + timeout + EXECUTION_GRACE_MS` |

`release_dependents` walks the jobs in index order and every need precedes its job; the model
states the result as the unique assignment in which each blocked job is decided from the final
states of its needs, so no recursion is needed.

`JobOwnership` - what dispatch promises, without attempts, leases or cancellation: at most one
owner, never handed from one worker to another in a step, each grant under a new generation, an
ended job unowned.

`Link` (extends `Dispatch`) - one worker's connections to the controller and the attempts of one
job on them. Every write it makes is an action of `Dispatch`.

| Part | Variables | Actions and code |
|---|---|---|
| connection | `opened`, `attached`, `serving`, `closed`, `peer`, `inbox`, `outbox` | `connect` (`accept` sends the Welcome, `attached`), `register` (after `vouch`; closes the session it finds in the fleet), `session_ends` (`unregister`), `detached` |
| deferred queue | `deferred` | `receive`, `defer` (`receive_with`), `retry_deferred`, `settle_deferred` (`retry_with`), `push` |
| session thread | `beat`, `desk` | `ping`/`pong` (renewal, then the answer), `declined`, `abandoned`, `resolve_spec` |
| dispatch pass | `pass`, `shield` | `expired_scoped`/`expire_batch`, `deferred_attempts`/`lapse_due`, `placement_pass`/`send_offer`, `cancel_push`; the two steps of each are the read and the write |
| worker reports | `unconfirmed`, `pending`, `resending`, `pinged` | `send`, `resend_pending`, `heartbeat`, `renewed` |
| worker attempts | `exec`, `marker`, `leftovers` | `offered`, `accept_spec`, `no_spec`, `canceled`, `ask_again`, `hand_back`, `spawn`, `run_attempt`, `attempt_over`, `lease_lost`, `abandon_leftover` |
| restarts | `crashes` | `controller_restarts`, `worker_restarts` |

The modules below model parts that share no table or connection state with `Dispatch`; each is a
state machine of its own, with the outside world (forge, bucket, hook) as actions marked external.

`LogStream` - the log of one attempt. A frame is its number.

| Part | Variables | Actions and code |
|---|---|---|
| worker's disk and pipe | `spool`, `pipe` | `Write`, `WriteDirect`, `SendDirect`, `WriteRefused` (`write`, `store`), `SendBatch`, `Wake` (`pump`, one frame of the batch that `send_next` read at a time; a send may fail and take the reporter with it), `Complete`, `Delivered`, `GiveUp`, `GiveBack`, `Recover` (`complete`, `finish`, `recovery.rs`) |
| session and routes | `link`, `conns` | `Attach`, `Detach`, `AttachBulk`, `DetachBulk`, `BulkDetached` (`resync`), `Hear` (acks and refusals) |
| controller | `disk`, `writer` | `Serve` (`append_to`, `finish`), `Flush` (`sync` and the cumulative `LogAck`), `CloseWriter`; `WithWriter` is `open_attempt` with its repair |
| faults, history | `used` | `Break`, `WorkerDies`, `StoreDies`, `DiesInAppend`, `DiesInSeal`, `DiesInFinish`. `used.spooled`, `used.stale` (a crash left the `jump` record past all surviving frames) and `used.torn` (the frames a power cut inside `seal` took) are history for the properties |

`Lease` - the controller's lease of each attempt and the worker's one deadline for all of them, as
times left that `Tick` counts down: `place`, `acknowledge`, `renew`, `expire`, `lapse`, `spec_gate`
against `offered`, `accept_spec`, `Ping`, `renewed_at`, `watch_lease`, with sessions that are lost.

`Checks` - the outbox row (`upsert` makes generations; `create_started`, `published`, `retry`,
`refused` and `defer` are the outcomes of a request), the lane's thread with its batch (a set of the
rows as they were read, worked off in the order of the outbox: `due`, `Update`, `create`,
`LookupFails`, `Record`, `Strike`, `Close`), its quarantine (`poison`) and the forge's check runs.

`Intake` - one branch of one repository: `HookDelivers` and `admit` (both through `Accepted`),
`resolve_due`, then the lane's `ReadReady` (its batch is a set, worked off oldest first), `resolve`, `fetch`, `dispatch` with the network between
transactions; `bind`, `revoke`, `configure`, `disable`, `purge_settled` happen at any time.

`ForgeAccess` - one installation, one bound repository and one person. Signed events (`accept`), the
reconcile lane (`ReconcileReads` asks, `ReconcileApplies` writes), the installation page (`PageAsks`,
`PageBinds`) and the members lane (`WalkReads`, `WalkAsks`, `WalkApplies`), each fenced by the
sequence or version the code compares.

`Objects` - one digest: stagers (`place`, `commit`, `discard`), a reader (`open_read`, `open_local`
with rehydration), the storage pass (`reclaim`, `unlink`, `orphans`, `sweep_orphan`), the
replicator's stages in their order (`keep_if_live` to `local_again`), a backup, and `recover`.

`MCWorker` (log and lease) and `MCServices` (checks, intake, forge access, objects) put the instances
of these modules side by side. The parts share no state, so a behaviour is one of a single part,
chosen in the initial state, and the state counts add up instead of multiplying.

`MCDispatch`, `MCLink` - the constants of the instances. `DispatchProofs`, `RowProofs`,
`OwnershipProofs` (all about `Dispatch`), `LinkProofs`, `WorkerProofs` (`Lease` and `LogStream`), `ChecksProofs`, `ServiceProofs`
(`Intake` and `ForgeAccess`) and `ObjectsProofs` - the proofs. Definitions marked "Variant" are mutated forms of the definition that
follows them: with the variant in its place, TLC must find the property violated.

## Runs

All runs check with `CHECK_DEADLOCK FALSE`: when every job has ended and nobody asks for more,
the system rests.

| Run | Instance | Shows |
|---|---|---|
| `dag` (81,284 states) | one run, three jobs (a chain and a `failure()` job that needs both), one worker | `BlockedWaits`, `CancelledDrains`, `ClassExplainsOutcome` under timeouts, cancels, reruns and rerequests |
| `fleet` (269,952) | one job, two operated workers, two leases of two ticks, a log, an overrun | `TypeOK`, `HeldIffOwned`, `AttemptsOnlyAdvance`, `NeverReplayed`, `RevokedIsMute`, `ImplementsOwnership` |
| `group` (110,774) | two runs of one cancelling group, two creation times, run ids ordered against creation, two leases each, fair sweeps | `GroupExclusive`, `SupersededStop`, `NoLeaseLasts` |
| `host` (128,434) | one run of two jobs that do not fit together, two identities of one machine, two leases each | `NoOversubscription` |
| `link` (1,440,101) | two sessions whose threads register in either order, one store error, one restart of either process, a deferred queue of one | `LinkTypeOK`, `AbandonedIsOver`, `ReportsFollowAck`, `ServedIsListed`, `StartedIsNotRequeued`, `ImplementsDispatch` |
| `deliver` (209,799) | two sessions, one store error, leases that do not pass, fair threads | `FailureArrives` |
| `cancel` (272,783) | two sessions, cancels, fair threads | `CancelArrives` |
| `worker` (1,970,756) | log: two frames, segments of one, three connections, sends that fail, two faults (refused or unstorable frame, closed writer, kill or power cut of either end, power cut inside a seal); lease: two attempts, a lease of three ticks, guard and watchdog of one | `AckedOrHole`, `StoredOnce`, `NoSilentGap`, `JumpRecorded`, `SpoolOutlivesLog`, `LogRests`, `WorkEndsFirst` |
| `services` (761,866) | checks: five outboxes (one row of four generations, or of two with three troubles; a bad row before a good one); intake: three scenes of up to three pushes with hook and poll, Git proving ancestry or not; forge: each lane with two changes and a mishap, both with one; objects: two stagers, or a stager, a reader and a backup | `OneOpenRun`, `VerdictShown`, `RunsMoveForward`, `NothingSkipped`, `SignedRemovalHolds`, `LaneEndsOnlyLost`, `RowHasBytes`, `BackupWhole`, `CopyAccountedFor`, and under fairness `ChecksSettle`, `DeliveriesSettle`, `AccessCatchesUp` |
| `logack` | log without faults, three connections | violates `AckedIsStored`: see the finding |
| `jump` | log of three frames in one segment, three faults of the controller, the spool and the disk's room | violates `JumpCovers`: see the finding |
| `verdict` | two sessions | violates `HeldVerdictTaken`: see the finding |

### Bounds, and why they are enough

- Three jobs are the smallest graph with a direct and a transitive need; two jobs the smallest
  that compete for a machine or a group. `MaxFence = 2` is one lease, one requeue or rerun and a
  second lease, which is what a late call needs to meet a successor; with `MaxFence = 1` (`dag`,
  and the runs of `Link`) the job can still end, be rerun and wait again. A job at
  the bound is not placed again but may still time out, be cancelled and rerun. Two leases over one
  session of `Link`, with a deferred queue of two, were checked by hand (299,263 states) with the same
  result, and the theorems on `Link` hold for every number of leases.
- `LeaseTicks = 2` (`fleet`) separates a lease that was renewed from one that only has not passed
  yet. `MaxClock = 2` lets two runs be created in one millisecond or in two.
- `MaxSessions = 2` is one break at either end, at any moment, and one replacement; the last
  session stays, so that liveness is not decided by running out of connections.
- `MaxFaults = 1` reaches a deferral and a write that committed although it failed. A retry that
  fails again, and a message that grows too old over such retries, need a second fault: no run of
  `Link` fires those two branches of `retry_deferred`, and only the theorems, which hold for every
  bound, speak of them. `MaxDeferred = 1` fills the queue with one message, 2 lets an
  acknowledgement and a report wait together. `MaxInFlight` is the point where a write blocks.
- `LateArrivals` lets the worker connect again before the thread of its last session has registered
  (`link`, `verdict`). `deliver` and `cancel` leave that out: there the late registration of session 1
  would close session 2, the last one the bound allows, and the runs would only show that a worker
  without connections delivers nothing. In the code the worker simply connects once more.
- `LeasesPass = FALSE` (`deliver`) leaves out the lease that passes before it is renewed: it would
  end the attempt, and the run asks whether the verdict itself arrives.
- `Classes` is the set of failure classes workers report in an instance: one that is as good as
  any other, plus `canceled` where cancels are in play, `runtime` where a panic is told apart.

- `worker`: two frames are one that is overtaken and one that overtakes; `SegFrames = 1` seals
  between them; three connections are a session, its bulk connection and a successor; two faults
  are, for instance, a kill on top of a refused frame. The last connection holds and outlives the
  faults, so that rest is not reached by running out. Two attempts are what one deadline confuses;
  `LEASE = 3`, `LEASE_GUARD = WATCHDOG = 1` keep the code's order (`LeaseBounds`). Larger instances
  (three frames with segments of two; a lease of four with a guard of two; two messages in flight)
  were checked by hand with the same result, as was `MaxGaps = 2`, where one gap fills the list and
  every later write is refused: with `MaxGaps = 3` two frames do not fill it.
- `services`: a bound is a field of the instance (`outbox`, `scene`, `world`, `setting`), so that one
  run holds instances that stress different things. Four generations are queued, running, completed
  and reopened; two troubles let an answer be lost and its retry fail, three spend
  the budget of a verdict, so that `rearm_exhausted` has something to do. Three pushes are the smallest
  number in which one is behind a dispatched one without being its parent; one open delivery makes
  the queue full. Two changes at the forge are a removal and a return. Three stages let content be
  committed, reclaimed and committed again while the first delete waits.

### Fairness

`Dispatch` (`FairSpec`): the dispatch loop runs on a wake or every two seconds, and each pass
expires leases, times the queue out, lapses offers, reconciles revoked workers and then places. So
`expire`, `lapse`, `reconcile_revoked`, `sweep_queue_timeouts` and time itself (`Overruns`) are weakly
fair, and nothing is assumed of workers, operators or users. No more than weak fairness is justified for the
queue timeout: the sweep (`controller.rs:997`) reads only jobs that are queued when it runs, and a job whose
offer lapses (`controller.rs:1006`) can be leased again by the placement of the same pass
(`controller.rs:1019`). A job whose offers lapse or are declined without end may therefore never be seen by the
sweep, however long ago it was queued, although `docs/cancellation.md` says a job queued for longer than
`QUEUE_TIMEOUT_MS` is timed out. `NoLeaseLasts` says what does hold: no job stays queued or owned
*under one fence* for ever; it ends or is leased under a later one. That a blocked job is not forgotten is the
invariant `BlockedWaits`, because users may rerun its needs for ever.

`Link` (`LinkFairSpec`): one weak fairness condition per thread (the worker's session thread,
the dispatch thread, each controller session thread, the worker's reader), and a strong one on
a heartbeat answer that sends again what is due: the worker resends at every answer later than
the resend interval. Breaks, store errors and restarts stop after their bounds.

`services` (`ChecksFair`, `IntakeFair`, `ForgeFair`): one weak fairness condition per lane thread and
one per timer it waits for (a row comes due, a limit or a skip lapses, `next_attempt_ms` passes).
Each lane is a loop over a condition variable with a timeout, which is what justifies them. Nothing
is assumed of hooks, events, operators or of requests that succeed: troubles are bounded, and the
budgets of the code must do the rest. A part that is not the behaviour's own has no enabled action,
so its fairness asks nothing. `LogRests` is the safety form of progress for logs: a state in which
nobody can do anything is one in which the log is delivered or refused, or one of four named states that
only `LOG_FLUSH_TIMEOUT` or another session ends (`EndAtRisk`, `Muted`, `Skipped`, `Postponed`; below).

## What is proved

For all sets of jobs, runs, workers, hosts and attempts, all graphs, groups, capacities and bounds.

### Assumptions

The named `ASSUME`s of the modules: the constants have their types, `None` is not a worker or a host,
the link's worker and job are among the store's. Beyond types:

- `NeedsAssumption`: a job's needs are jobs of its run (the compiler resolves `needs` within one
  pipeline, and `runs::create` inserts the jobs of one run);
- `RoomAssumption`: jobs are finite in number, and what a job asks of a machine is a natural number,
  as the columns are;
  every host of the model has a worker;
- `LeaseBounds`: the watchdog's interval is at most the guard, and the guard is shorter than the lease,
  as `WATCHDOG_INTERVAL`, `LEASE_GUARD` and `DEFAULT_LEASE_MS` are;
- `CheckBounds`: an outbox lists each of its rows once, in a sequence.

### Dispatch

- `DispatchProofs`: `TypeCorrect`, `ReservationCorrect` (`HeldIffOwned`),
  `CancelledWorkDrains` (`CancelledDrains`). None is inductive alone: a report preserves
  `HeldIffOwned` only because of types, and a cancelled run drains only because its cancelled jobs
  do not wait and an owned job is held. The inductive invariant `IInv` is `TypeOK` with one conjunction
  `Sound` per job over its row, its attempts and its run. Actions touch one job and then decide
  dependents, so the proof is about a single row: lemmas show which row functions (`Apply`,
  `Returned`, `cancel_one`, `Reset`, `Decide`) keep `Sound`, and `release_dependents` is covered
  once. `DispatchInvariant` combines one step per action.
- `OwnershipProofs`: `GroupsAreExclusive` and `DispatchImplementsOwnership`: initial states map to
  initial states, every action to a `JobStep` of each job with at most one grant.
- `RowProofs`, over the same rows:
  - `ClassesExplainOutcomes` and `NothingIsStuck` (`BlockedWaits`) from `RInv`, which is `IInv` with
    both. `BlockedWaits` needs `NeedsAssumption`: a transaction decides the dependents of the runs in
    which it ended something (`EndsIn`), and every dependent is in one of these.
  - `RevokedWorkersAreMute` and `WorkIsNeverReplayed`, action properties: `RowMoves` says of each row
    function what it may do to a job that is on a worker (`LeavesWorker`) or has ended.
  - `SupersededRunsStop`, of the one action that creates a run: `cancel_one` on every job of the group.
  - `LeasesWriteFreshRows` (`Unwritten`: no row above the fence is written), and from it
    `AttemptsNeverGoBack`: every row steps by `Advance`, which never lowers its status or log verdict.
  - `MachinesAreNotOversubscribed`: what is reserved is counted as a set of units, one per processor
    and job, so that a placement adds the job's units and a release only removes some; the bound
    follows from facts on cardinality instead of an induction over a sum.

### Link

- `LinkImplementsDispatch` (every step of the composed system is a step of `Dispatch` or leaves the
  store alone), hence `LinkKeepsReservations`, `LinkReplaysNothing` and, since `Dispatch` implements
  `JobOwnership` in turn, `LinkImplementsOwnership`.
- `ServedSessionsAreListed` (`ServedIsListed`): in whichever order the threads of two sessions register and
  end, a session that is served and was not closed is the one dispatch and cancel pushes reach. It needs
  `Listed`: the fleet's entry is that of a thread that runs, has registered and was not closed since. So a
  registration closes all the sessions it displaces, and the end of a session removes no entry but its own.
  Which of two sessions stays is not promised (below).
- `LinkIsWellTyped`, `ReportsComeAfterTheAck`, `StartedWorkStays` and `OnlyTheDeadAreAbandoned` from
  `LinkInvariant`. The properties relate messages that wait in five places, the executor and the
  worker's disk to a row, and none survives a step alone.
  `LinkInv` says for every attempt: whatever shows that it was served - a spec or a refusal of one on
  the way, work in the executor, a verdict kept or a report anywhere - has a row past `offered`
  (`Served => Past`); while the worker was not told of it, nothing of it is on the worker's side
  (`Untold => Quiet`, with `OfferedOnce`: an offer is on the connection once); a decline on the way
  means that the executor let go; an attempt that is handed back (`HandedBack`: a leftover, or an
  abandonment not yet handled) is over for this process (`Over`: no executor, no verdict kept, no report
  unsent), and a leftover has its marker; work
  that has begun has no lapsed row, unless the job is cancelled. The store's half comes from `IInv` and
  `Unwritten`, which the refinement carries over. `Steady` is what any step may do to an attempt it
  neither places nor offers; each action has a lemma that it is steady, or treats its one attempt apart.

### Log

`WorkerProofs`: `FramesStoredOnce`, `NoGapIsSilent`, `FirstHoleIsRecorded`, `SpoolStaysUntilTheEnd` and
`NoSilentLoss` (`AckedOrHole`), all from one inductive invariant, `LogInv` (`LogInvariant`), and all of the form
`LogSpec => [](Intact => ...)`: they hold until a power cut falls between the two syncs of a `seal`
(`Intact == used.torn = {}`, and `TornStays`: what was torn stays torn). The hypothesis is the code's,
not the proof's: after such a cut `LogInv` is false, since the index entry covers frames that are gone. What the run
`worker` checks after one is that nothing but those frames is unaccounted for.
No property holds alone: whether a resent frame is a duplicate depends on the holes a reopened writer folds
back, which depends on what a crash left, which depends on what was synced before it was acknowledged.

- The disk is sound (`Sound`, `Marked`, `Covered`): frames are distinct; the sealed part is synced, its
  index entry names its highest frame, and below that every number is a synced frame or a persisted hole;
  every persisted hole lies below a synced frame; a marker lists what is missing below it; the recorded
  first hole covers late frames and holes alike, unless `used.stale`. Every state a crash can leave
  (`Survivors`) is sound again, which is what the order of the code's writes (jump, frame, sync, holes)
  is for.
- An open writer knows (`Knows`): its `last` is the highest number on the disk, its holes are the numbers
  missing below it, and a flag that is not dirty means that the disk has it.
- Nothing that was said claims more than is durable: acknowledgements on their way (`TellsTruth`), the
  worker's `acked` and its spool's `cursor` (`Believes`) reach no further than the highest synced frame,
  one that waits for the flush no further than the highest stored frame, and an acknowledged end has its
  marker and its row.

The steps of the store are shown call by call (sync, persisting holes, seal, append, finish, reopen), each
a lemma over one directory and one writer that `Good` relates, and composed as the handlers compose them.
`Leads` says that between crashes frames stay where they are, and `Keeps` that crashes spare the synced
ones, so that messages on their way stay true. The steps of the worker leave the disk alone; a pump, its
batches and its failing sends are covered once by what they leave alone of spool, pipe and queues.

### Lease, checks, intake, forge access, objects

- `WorkerProofs`: `WorkersStopInTime` (`WorkEndsFirst`) for all lengths that satisfy `LeaseBounds`. The
  worker's one deadline covers an attempt because an unanswered heartbeat names every renewed attempt
  it has, and what the answer does not stop was renewed after the heartbeat was sent (`Answered`); so
  after the answer the deadline lies a guard before every such lease (`Guarded`). `Handshake` and `Beats`
  keep a second acknowledgement or a second heartbeat from being on the way. An attempt that awaits
  its spec is covered only until the watchdog has had time to fire, and `accept_spec` asks just that.
- `ChecksProofs`: `PublishedVerdictsAreShown` and `NoCheckRunIsLeftOpen`. All runs of a row but the newest are completed
  and their identities grow (`Ordered`); the row's handle is the newest run, and without a handle the
  create's mark leads to the newest run or nothing is open (`Leads`): that is why a retried create
  finds what a lost answer created. `Batch` says that what the lane read is still the row's handle and
  mark, because only the lane writes these.
- `ServiceProofs`: `RunsAreInOrder` (`RunsMoveForward`) and `NoPushIsSkipped` from `IntakeInv`: past its comparison the lane
  holds a commit ahead of the newest run, one to be compared with exactly that run's, or one that Git could
  not prove to precede it (`LaneSound`), and every covered delivery has a run at or past its commit. A run
  is for a newer commit than the run before it, or for another one that was not proven older, as
  `docs/intake.md` says; across such a run nothing is promised of the order of the others. `RemovalsHold` and `BindingsEndForCause` from `ForgeInv`: for each lane,
  what it read still holds since the last change, or the version it will compare has moved on. The
  schedule and the messages on their way are not mentioned: whatever they are, the fences hold.
- `ObjectsProofs`: `NothingDeletesTheOnlyCopy`, `BackupsAreWhole`, `CopiesAreAccountedFor` from `ObjectsInv`: the maintenance lock has the
  holder its stage says (`Locked`), a recorded copy is in the bucket and not being deleted (`Rested`),
  and what is sent or deleted has a mark or a queued delete (`Accounted`).

Each inductive invariant was checked with TLC on the instances of the runs before it was proved. Where
a proof needs the least element of a set of numbers (`Min`), it takes it from the library's theorem on
minimal elements of well-founded relations (`LeastNatural`).

### Only model-checked

- `LogRests`, and `AckedOrHole`, `NoSilentGap` and the others on the log once a power cut has torn a seal.
- `NoLeaseLasts`, `FailureArrives`, `CancelArrives`, `ChecksSettle`, `DeliveriesSettle`,
  `AccessCatchesUp`: liveness under fairness and `ENABLED` are out of the prover's reach. So are
  induction over data and `RECURSIVE` operators (there are none here).

## Abstractions

- Dispatch: labels, images, fairness between tenants and locality choose among admitted jobs and
  are nondeterminism; `SWEEP_BATCH` splits sweeps into single items, each in its own savepoint;
  timestamps are reduced to comparisons; a machine's capacity is a constant
  (`report_capacity`, which replaces it when a worker connects, is left out); outbox, audit and artifact rows are left out except that
  a missing required artifact turns a pass into a publication failure. The model's clock never goes
  back.
- Link: one worker and one job. `receive_with` holds the queue's lock only around its check and its
  push: the failed write and the push are two steps (`receive`, `defer`), as are a retried write and
  the removal from the queue (`retry_deferred`, `settle_deferred`); the check and the write are one
  step, because a push between them cannot change what the store answers. A heartbeat naming no attempt is omitted; the phases of a pass are separate because with one job only
  one has work. Shutdown and draining, revocation during a session, refused secrets, queue timeouts
  and repeated offers are left out. The thread that hands leftovers back (`abandon_leftovers`) is one
  action per leftover; when its session breaks it keeps the leftover it is at and drops the ones behind
  it (`Unreached`, in `detached`). One job has at most one attempt with a marker, so `Link` has the step
  and never meets two leftovers.
- LogStream: bytes, redaction, quotas and protocol versions before 5 are left out; ranges of numbers
  are sets. A power cut keeps any prefix of what was not synced. `LOG_FLUSH_TIMEOUT` may pass only for
  a recovering pipe (`Timeouts`), so that `LogRests` does not lean on it. The worker also drops a spool without
  the controller's end where the log no longer counts: `discard` (`logpipe.rs:248`) of an attempt that ends
  before its log does (`executor.rs:925`, `956`, `989`, `1061`), and a spool that a restarted worker
  finds without a marker (`recovery.rs:148`). These are not modelled, and `SpoolOutlivesLog` does not speak of them.
- Lease: both clocks run at one rate and the watchdog is on time; an attempt that ends is over on both
  sides at once (verdicts are in `Link`).
- Checks: a forge that ignores an update reopening a completed run. The lookup before a repeated create
  finds the run if there is one; `find` answers none also on a 404 and after ten pages
  (`sentinel-github/src/checks.rs:290`, `298`), when a second run would be created.
- Intake: commits are numbered along a branch that only moves forward; a deleted ref is 0. Whether
  the pipeline file is there and valid is nondeterminism, and so is whether `is_ancestor` proves what is
  true (a vanished tip, an ancestor beyond the fetched depth: `sentinel-git/src/unix.rs`); it never proves
  what is false. A retry whose own write fails aborts the batch (`intake.rs:825`); this is not modelled.
- ForgeAccess: `since` is history for the properties; the retry time of an incomplete walk
  (`github_members.rs:788`) is one with the periodic recheck; owners, walks over many repositories, renames,
  transfers and account links are left out.
- Objects: two digests meet only in locks and in the order of a batch, so one is modelled. A kill
  loses memory and keeps files. The bucket stores or deletes one key; multipart uploads are one step.

## What the source and its documentation disagree on

`verdict`: `docs/worker-link.md` says only a stale, foreign or settled attempt makes the store drop
a message, and that a verdict lost with a connection is delivered again. `Passed` is accepted only in
`finalizing`, and progress reports are sent once: when `finalization_started` is lost with the
connection, every resent pass is refused although the attempt is held, and the job ends as an
infrastructure failure when its lease or its backstop passes.

`logack`: `docs/worker-link.md` says that every log pipe rewinds to its last acknowledgement before it
sends anything on the fallback route, so that no frame is acknowledged past without having been
stored. `write` (`logpipe.rs`) asks whether the spool is caught up *before* `route_ready` rewinds it, and
then sends the new chunk directly: the frame that was in flight on the lost bulk connection is never
sent again, and the controller's cumulative acknowledgement covers it. A frame the store refuses,
followed by one it takes, is acknowledged past in the same way. What does hold is `AckedOrHole`: the
controller knows the frame is missing, and (`NoSilentGap`) the finished log says so.

`jump`: `logs.rs` says of the `jump` sidecar that it is "the lowest sequence the log ever lacked when a
later one arrived", and of a jump that fails after its record was written that it leaves the record
"conservative, never wrong". The record is durable before the jumping frame while frames below it may not
be synced. After a power cut there the record lies past what is left; when the worker sends again and the
lower frame is refused for lack of room while a higher one is taken, `append_to` records nothing, because
there is a first hole already, and the frame stored late lies below it. The trace: 1 is stored unsynced, 2
was never spooled, the append of 3 records 2 and the power fails; 1 is refused, 3 is stored, 1 is stored.
Readers then take line numbers before 2 as exact. This is the only way: `FirstHoleIsRecorded` proves
`JumpRecorded`, the same claim for behaviours in which no crash left the record past all that survived.

The properties of the six newer modules except the following, which the code does not promise or does
not keep:

- a power cut inside `seal` (`logs.rs:847`): the index entry is synced before the segment it covers, and
  reopening skips a covered segment (`logs.rs:592`). The writer takes the segment's lost frames for stored: it
  answers their resend as duplicates, acknowledges them, and `finish` marks the log complete without naming
  them. `AckedOrHole` and `NoSilentGap` except exactly these frames (`used.torn`);
- a send that fails on the bulk connection takes the pipe's reporter although the control session lives
  (`logpipe.rs:203`, `227`, `329`); `resync` then returns at once, and the log waits for the next session or
  for `LOG_FLUSH_TIMEOUT` (`Muted` in `LogRests`);
- when a bulk connection is attached while `pump` works off a batch, the pump returns, and the rest of the
  batch, read from the spool and not sent, is skipped until the next rewind (`Skipped`), although
  `docs/worker-link.md` has a route change rewind the pipe;
- a recovery that gives its spool back after the next session was attached waits for the one after
  (`Postponed`);
- a `LogEnd` lost with a bulk connection alone is not sent again: the attempt waits for
  `LOG_FLUSH_TIMEOUT` and fails publication (`EndAtRisk` in `LogRests`); a stale duplicate that arrives
  after the end on the other connection is answered `LogRefused`, with the same result;
- `docs/cancellation.md` says the worker "acts before the controller could have expired it, never after".
  Before the first renewal the worker measures from the offer's arrival and the controller from the
  placement, and an acknowledgement in the deferred queue shields the attempt from lapsing; and when
  the watchdog has fired while another attempt awaits its spec, that attempt starts with no deadline
  or with the one a new offer sets. `WorkEndsFirst` speaks of renewed attempts whose spec came in time;
- `github_app::bind` reads the lifecycle version in the transaction that writes, so the installation
  page's snapshot, taken before a signed suspension, enables the installation again, although
  `sources_forge.rs` says "only a fresh API snapshot may re-enable it" (`by = "page"` in
  `SignedRemovalHolds`); a removed installation revived so has no refresh row that would correct it
  before an event or a restart;
- `keep_if_live` drops a queued delete for a row that has neither recorded nor marked the copy; when the
  row is reclaimed before the next upload, nothing deletes the copy (`spared` in `CopyAccountedFor`;
  `docs/s3.md` says a copy is deleted after its record is gone). A note in `Objects::rehydrated` outlives
  its row, so that a later, evicted row of the same content is marked local and a backup reports as
  missing what S3 holds.

Observed without a property: `docs/worker-link.md` says of two live sessions of one worker that "the newer
replaces the older", but a session registers only after its Welcome and `vouch` (`controller.rs:832`, `880`): the
thread of the older one, held up by the store, registers after its successor's and closes the newer
session, and the worker has to connect a third time. A completed update that reached the forge but was not recorded keeps the
row's handle, and the next generation's update of that run is ignored by the forge while the row says
published; a listing read before a rebind is admitted as the baseline of the new remote.

`docs/reconciliation.md` says of handing leftovers back: "If the session is lost midway, the leftover
waits for the next attach." `abandon_leftovers` puts back the one whose `abandon` failed and returns;
the rest of its list is gone, and their attempts are held until their leases expire or the worker
starts again and finds the markers.

Four narrower races are behaviours of `Link` and are recorded here, without a run of their own:

- `attached` takes the waiting reports out of `pending` under the lock and sends them after it. An
  attempt's thread that ends meanwhile finds none of its own there, takes them for delivered and removes
  its marker, although `docs/reconciliation.md` says the marker "is removed only once the terminal report
  has actually been **sent**". If the send fails, the verdict returns to `pending`; if the process then
  dies, no marker is left to reconcile from, and the attempt ends with its lease instead (TLC finds the
  removal in a trace of fifteen states);

- a progress report waiting in the deferred queue makes `has_report` drop the attempt's later
  reports, its verdict included, as `Received::Copy`, which its comment describes as a verdict
  already waiting; the worker's resend heals this unless a progress report was dropped;
- the sweeps read the deferred attempts before they get the writer; a message deferred in between
  does not protect its attempt;
- `ping` computes its stop list in the renewal's transaction and removes the deferred attempts read
  after it; an acknowledgement the dispatch thread applies in between leaves both, so an attempt that
  is held and acknowledged is stopped.

## Not modelled

- The remote repository's history beyond one branch (force pushes back, pull requests, tags,
  schedules), quotas, disk admission and retention dates, several leftovers of a restarted worker at
  once, enrollment, the worker's cache: state machines within reach, left out so far.
- Containers, virtual machines, checkouts, git, S3, TLS, the tailnet, mail: process and network I/O.
- Credentials, tokens, sealing: cryptography and row lookups in one transaction.
- Pipeline parsing and expansion, protocol framing, HTTP routes, OAuth, MCP, the command line:
  text, formats and routing over operations modelled here. Idempotency keys are decided in the
  transaction that creates the run.
- Backups' verification and restore, schema migrations, upgrade: file copies and SQL.

## Plan

Several leftovers of a restarted worker in `Link`, which needs two jobs or two leases on one worker and
three sessions: more states than TLC explores in the time a run may take, so it calls for a module of its
own.

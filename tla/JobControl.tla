----------------------------- MODULE JobControl -----------------------------
(***************************************************************************)
(* The job state machine every Sentinel process shares                     *)
(* (crates/sentinel-core/src/state.rs): the states, the outcomes a job can *)
(* end in, the failure classes and the outcome each one means, the events, *)
(* who may raise them and what they do, and the decision a finished        *)
(* dependency allows.                                                      *)
(*                                                                         *)
(* A terminal state is written as its outcome, and Failed(class) as the    *)
(* name of the class, so an event that records a class and has its name    *)
(* ("lease_expired", "reconciled", ...) needs no second spelling.          *)
(***************************************************************************)
EXTENDS Naturals

Outcome == {"passed", "skipped", "canceled", "timed_out", "failed", "infra_failed"}

Success   == {"passed", "skipped"}
Waiting   == {"blocked", "queued"}
Owned     == {"leased", "preparing", "running", "finalizing"}
Terminal  == Outcome
JobStates == Waiting \cup Owned \cup Terminal

-----------------------------------------------------------------------------
(* Failure classes.                                                        *)

NoClass == "none"

\* The classes a worker may name on the wire (WireEvent::to_event).
WorkerClass == {"command_failed", "command_signaled", "out_of_memory", "execution_timeout",
                "canceled", "preparation", "publication", "runtime"}

FailureClass == WorkerClass \cup {"queue_timeout", "lease_expired", "worker_lost", "reconciled"}

ClassOutcome(c) ==
  IF c \in {"command_failed", "command_signaled", "out_of_memory"} THEN "failed"
  ELSE IF c \in {"execution_timeout", "queue_timeout"} THEN "timed_out"
  ELSE IF c = "canceled" THEN "canceled" ELSE "infra_failed"

-----------------------------------------------------------------------------
(* Events.                                                                 *)

ControllerEvent == {"dependencies_satisfied", "skip", "condition_failed", "leased",
                    "offer_lapsed", "cancel_before_start", "queue_timed_out",
                    "lease_expired", "worker_lost", "rerun"}
WorkerEvent     == {"preparation_started", "steps_started", "finalization_started",
                    "passed"} \cup WorkerClass
ReconcilerEvent == {"lease_expired", "worker_lost", "reconciled"}
Event           == ControllerEvent \cup WorkerEvent \cup ReconcilerEvent

\* Who may raise an event.
Permits(actor, e) ==
  \/ actor = "controller" /\ e \in ControllerEvent
  \/ actor = "worker"     /\ e \in WorkerEvent
  \/ actor = "reconciler" /\ e \in ReconcilerEvent

\* The states an event applies to. Every other pair is an invalid transition;
\* only a rerun leaves a terminal state.
From(e) ==
  IF e \in {"dependencies_satisfied", "condition_failed"} THEN {"blocked"}
  ELSE IF e \in {"skip", "cancel_before_start", "queue_timed_out"} THEN Waiting
  ELSE IF e = "leased" THEN {"queued"}
  ELSE IF e \in {"offer_lapsed", "preparation_started"} THEN {"leased"}
  ELSE IF e = "steps_started" THEN {"leased", "preparing"}
  ELSE IF e = "finalization_started" THEN {"preparing", "running"}
  ELSE IF e = "passed" THEN {"finalizing"}
  ELSE IF e = "rerun" THEN Terminal ELSE Owned

\* The state an event leads to.
To(e) ==
  IF e \in {"dependencies_satisfied", "offer_lapsed", "rerun"} THEN "queued"
  ELSE IF e = "condition_failed" THEN ClassOutcome("preparation")
  ELSE IF e = "skip" THEN "skipped"
  ELSE IF e = "cancel_before_start" THEN "canceled"
  ELSE IF e = "queue_timed_out" THEN "timed_out"
  ELSE IF e = "leased" THEN "leased"
  ELSE IF e = "preparation_started" THEN "preparing"
  ELSE IF e = "steps_started" THEN "running"
  ELSE IF e = "finalization_started" THEN "finalizing"
  ELSE IF e = "passed" THEN "passed" ELSE ClassOutcome(e)

\* The class the store records with an event (jobs::transition_from).
ClassOf(e) ==
  IF e = "condition_failed" THEN "preparation"
  ELSE IF e = "cancel_before_start" THEN "canceled"
  ELSE IF e = "queue_timed_out" THEN "queue_timeout"
  ELSE IF e \in FailureClass THEN e ELSE NoClass

\* JobControl::apply accepts the event: the actor may raise it, a worker holds the
\* current fence, the state admits it, a lease advances the fence, and a job that
\* was asked to be cancelled is not run again. f is the worker's or the lease's fence.
CanApply(ctl, actor, e, f) ==
  /\ Permits(actor, e)
  /\ actor = "worker" => f = ctl.fence
  /\ ctl.state \in From(e)
  /\ e = "leased" => f > ctl.fence
  /\ e = "rerun" => ~ctl.cancel

\* The job after an accepted event: jobs::transition_from writes the state, the
\* fence and, when the event names one, the failure class.
Apply(ctl, e, f) ==
  [ctl EXCEPT !.state = To(e),
              !.fence = IF e = "leased" THEN f ELSE @,
              !.class = IF ClassOf(e) = NoClass THEN @ ELSE ClassOf(e)]

-----------------------------------------------------------------------------
(* What a need's state says of its dependents.                             *)

\* dependency_decision under OnSuccess, the policy of every job without a condition.
Decided(upstream)   == upstream \in Terminal
Satisfied(upstream) == upstream \in Success
=============================================================================

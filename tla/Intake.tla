------------------------------- MODULE Intake -------------------------------
(***************************************************************************)
(* From a moved ref to a run: one repository and one branch of it, told    *)
(* of by a hook whose messages come late, twice, out of order or not at    *)
(* all, and watched by the polling lane.  A delivery is accepted under its *)
(* identity, validated, ordered against the newest dispatched one, fetched *)
(* outside any transaction and dispatched or settled.                      *)
(*                                                                         *)
(* Commits are numbered along the branch, which only moves forward; 0 is   *)
(* the zero id of a ref that is not there.                                 *)
(***************************************************************************)
EXTENDS Integers, Sequences, FiniteSets, SequencesExt

CONSTANTS
    Scenes  \* the bounds to explore together: moves of the branch, open
            \* deliveries (MAX_PENDING_PER_REPO), tries of a delivery
            \* (MAX_ATTEMPTS), versions of the binding, mishaps (lost messages
            \* and answers, purges, restarts, polling set up anew or given
            \* up), and whether polling is used

ASSUME IntakeBounds ==
    Scenes \subseteq [moves : Nat, open : Nat \ {0}, tries : Nat \ {0}, binds : Nat,
                      mishaps : Nat, polled : BOOLEAN]

VARIABLES
    scene,       \* the bounds of this behaviour
    branch,      \* the remote: its tip, its newest commit, moves so far
    wire,        \* hook messages on their way
    binding,     \* source_bindings: version, and whether it is revoked
    deliveries,  \* webhook_deliveries, in the order they were received; unproven
                 \* is history: the newer commit it was not proven to precede
    dispatched,  \* the deliveries that became runs, in that order
    resolver,    \* the lane's thread
    poll,        \* poll_configs, poll_observations and the polling thread
    mishaps

intakeVars == <<scene, branch, wire, binding, deliveries, dispatched, resolver, poll, mishaps>>

Mishap == mishaps < scene.mishaps /\ mishaps' = mishaps + 1

Open(d) == d.state \in {"pending", "ready"}
Opened == {i \in DOMAIN deliveries : Open(deliveries[i])}

------------------------------------------------------------------------------
(***************************************************************************)
(* The remote and the hook.                                                *)
(***************************************************************************)
Told(new) == [ext |-> <<branch.moves + 1>>, old |-> branch.at, new |-> new]

Move(new) ==
    /\ branch.moves < scene.moves
    /\ branch' = [at |-> new, top |-> IF new = 0 THEN branch.top ELSE new,
                  moves |-> branch.moves + 1]
    /\ wire' = wire \cup {Told(new)}
    /\ UNCHANGED <<binding, deliveries, dispatched, resolver, poll, mishaps>>

Push      == Move(branch.top + 1)
DeleteRef == branch.at # 0 /\ Move(0)

(* A message is given up: the hook's attempts are spent, the forge stops. *)
HookGivesUp(m) ==
    /\ wire' = wire \ {m}
    /\ Mishap
    /\ UNCHANGED <<branch, binding, deliveries, dispatched, resolver, poll>>

------------------------------------------------------------------------------
(***************************************************************************)
(* accept.                                                                 *)
(***************************************************************************)
Twin(src, ext) ==
    {i \in DOMAIN deliveries : /\ deliveries[i].src = src /\ deliveries[i].ext = ext
                               /\ deliveries[i].state # "purged"}

Full == Cardinality(Opened) >= scene.open

Fresh(src, m) ==
    [src |-> src, ext |-> m.ext, old |-> m.old, new |-> m.new,
     state |-> "pending", tries |-> 0, waits |-> FALSE, unproven |-> 0]

(* What accept answers, and the deliveries it leaves. *)
Accepted(src, m) ==
    IF Twin(src, m.ext) # {} THEN [answer |-> "duplicate", rows |-> deliveries]
    ELSE IF Full             THEN [answer |-> "overloaded", rows |-> deliveries]
    ELSE [answer |-> "fresh", rows |-> Append(deliveries, Fresh(src, m))]

(* A hook message arrives.  A revoked binding refuses it for good and a    *)
(* full repository asks for a retry; an answer can be lost.                *)
HookDelivers(m) ==
    /\ IF binding.revoked
       THEN wire' = wire \ {m} /\ UNCHANGED <<deliveries, mishaps>>
       ELSE /\ Accepted("hook", m).answer # "overloaded"
            /\ deliveries' = Accepted("hook", m).rows
            /\ \/ wire' = wire \ {m} /\ UNCHANGED mishaps
               \/ UNCHANGED wire /\ Mishap
    /\ UNCHANGED <<branch, binding, dispatched, resolver, poll>>

(* purge_settled *)
purge_settled ==
    /\ \E i \in DOMAIN deliveries : deliveries[i].state \in {"covered", "deleted", "failed"}
    /\ deliveries' = [i \in DOMAIN deliveries |->
                        IF Open(deliveries[i]) \/ deliveries[i].state = "dispatched"
                        THEN deliveries[i]
                        ELSE [deliveries[i] EXCEPT !.state = "purged"]]
    /\ Mishap
    /\ UNCHANGED <<branch, wire, binding, dispatched, resolver, poll>>

------------------------------------------------------------------------------
(***************************************************************************)
(* The source binding.                                                     *)
(***************************************************************************)
NoCursor == [oid |-> 0, by |-> 0]
NotPolling == [on |-> FALSE, baselined |-> FALSE, cursor |-> NoCursor, seen |-> FALSE, tip |-> 0]

revoke ==
    /\ ~binding.revoked /\ binding.version < scene.binds
    /\ binding' = [version |-> binding.version + 1, revoked |-> TRUE]
    /\ poll' = [poll EXCEPT !.on = FALSE, !.baselined = FALSE, !.cursor = NoCursor]
    /\ UNCHANGED <<branch, wire, deliveries, dispatched, resolver, mishaps>>

(* bind: the baseline is built anew. *)
bind ==
    /\ binding.version < scene.binds
    /\ binding' = [version |-> binding.version + 1, revoked |-> FALSE]
    /\ poll' = [poll EXCEPT !.baselined = FALSE, !.cursor = NoCursor]
    /\ UNCHANGED <<branch, wire, deliveries, dispatched, resolver, mishaps>>

(* configure: the baseline is built anew, also over a configuration that   *)
(* is there.  Second thoughts are counted among the mishaps.               *)
configure ==
    /\ ~binding.revoked /\ scene.polled
    /\ poll' = [poll EXCEPT !.on = TRUE, !.baselined = FALSE, !.cursor = NoCursor]
    /\ IF poll.on THEN Mishap ELSE UNCHANGED mishaps
    /\ UNCHANGED <<branch, wire, binding, deliveries, dispatched, resolver>>

disable ==
    /\ poll.on
    /\ poll' = [poll EXCEPT !.on = FALSE, !.baselined = FALSE, !.cursor = NoCursor]
    /\ Mishap
    /\ UNCHANGED <<branch, wire, binding, deliveries, dispatched, resolver>>

------------------------------------------------------------------------------
(***************************************************************************)
(* The polling lane: what the remote advertises is read first and admitted *)
(* in one transaction with the cursor.                                     *)
(***************************************************************************)
ls_remote ==
    /\ poll.on /\ ~poll.seen /\ ~binding.revoked
    /\ poll.baselined => branch.at # poll.cursor.oid
    /\ poll' = [poll EXCEPT !.seen = TRUE, !.tip = branch.at]
    /\ UNCHANGED <<branch, wire, binding, deliveries, dispatched, resolver, mishaps>>

Observed(oid, by) == [oid |-> oid, by |-> by]

(* external_id: the transition and the cursor it moves, or the time when   *)
(* there is none.                                                          *)
Transition(tip) ==
    [ext |-> <<poll.cursor.oid, tip, IF poll.cursor.oid = 0 THEN Len(deliveries) ELSE poll.cursor.by>>,
     old |-> poll.cursor.oid, new |-> tip]

(* Variant: the cursor moves though the delivery was deferred. *)
AfterAdmit_eager(rows, answer) ==
    IF poll.tip = 0 THEN NoCursor ELSE Observed(poll.tip, Len(rows))

(* The cursor after a transition was offered to accept; a deferred one is  *)
(* offered again.                                                          *)
AfterAdmit(rows, answer) ==
    IF answer = "overloaded" THEN poll.cursor
    ELSE IF poll.tip = 0 THEN NoCursor
    ELSE Observed(poll.tip, Len(rows))

(* A configuration that is gone admits nothing; the first look only        *)
(* records the baseline; a revoked binding fails the pass.                 *)
admit ==
    /\ poll.seen
    /\ IF ~poll.on \/ binding.revoked
       THEN /\ poll' = [poll EXCEPT !.seen = FALSE, !.tip = 0]
            /\ UNCHANGED deliveries
       ELSE IF ~poll.baselined
       THEN /\ poll' = [poll EXCEPT !.seen = FALSE, !.tip = 0, !.baselined = TRUE,
                                    !.cursor = IF poll.tip = 0 THEN NoCursor ELSE Observed(poll.tip, 0)]
            /\ UNCHANGED deliveries
       ELSE LET a == IF poll.tip = poll.cursor.oid
                     THEN [answer |-> "same", rows |-> deliveries]
                     ELSE Accepted("poll", Transition(poll.tip))
            IN  /\ deliveries' = a.rows
                /\ poll' = [poll EXCEPT !.seen = FALSE, !.tip = 0,
                              !.cursor = IF a.answer = "same" THEN @ ELSE AfterAdmit(a.rows, a.answer)]
    /\ UNCHANGED <<branch, wire, binding, dispatched, resolver, mishaps>>

------------------------------------------------------------------------------
(***************************************************************************)
(* The resolution lane.                                                    *)
(***************************************************************************)
(* A settled row's schedule is not read again. *)
Closed(d, s) == [d EXCEPT !.state = s, !.tries = 0, !.waits = FALSE]

(* Variant: the budget is never spent. *)
Retried_for_ever(d) == [d EXCEPT !.waits = TRUE]

(* retry: a spent budget fails the delivery. *)
Retried(d) ==
    IF d.tries + 1 >= scene.tries
    THEN Closed(d, "failed")
    ELSE [d EXCEPT !.tries = @ + 1, !.waits = TRUE]

(* validate, against the binding as it is now. *)
Validated(d) ==
    IF binding.revoked THEN Closed(d, "failed")
    ELSE IF d.new = 0 THEN Closed(d, "deleted")
    ELSE [d EXCEPT !.state = "ready"]

DueIn(s) == {i \in DOMAIN deliveries : deliveries[i].state = s /\ ~deliveries[i].waits}

Resting == [at |-> "idle", batch |-> {}, version |-> 0, prove |-> 0]

(* resolve_due: every pending delivery that is due, each under its own     *)
(* savepoint, so that those the store rejects are only retried.            *)
resolve_due ==
    /\ resolver.at = "idle" /\ DueIn("pending") # {}
    /\ \E bad \in SUBSET DueIn("pending") :
         deliveries' = [i \in DOMAIN deliveries |->
                          IF i \notin DueIn("pending") THEN deliveries[i]
                          ELSE IF i \in bad THEN Retried(deliveries[i])
                          ELSE Validated(deliveries[i])]
    /\ UNCHANGED <<branch, wire, binding, dispatched, resolver, poll, mishaps>>

(* dispatch reads its batch when nothing is left to validate, and works it *)
(* off oldest first.                                                       *)
ReadReady ==
    /\ resolver.at = "idle" /\ DueIn("pending") = {} /\ DueIn("ready") # {}
    /\ resolver' = [Resting EXCEPT !.at = "resolve", !.batch = DueIn("ready")]
    /\ UNCHANGED <<branch, wire, binding, deliveries, dispatched, poll, mishaps>>

It == Min(resolver.batch)
This_ == deliveries[It]

Following ==
    IF resolver.batch = {It} THEN Resting
    ELSE [Resting EXCEPT !.at = "resolve", !.batch = resolver.batch \ {It}]

Settle(d) ==
    /\ deliveries' = [deliveries EXCEPT ![It] = d]
    /\ resolver' = Following

Settled(s) == Settle(Closed(This_, s))

(* Variant: only the ends of the transitions are compared. *)
Order_by_ends(d) ==
    IF dispatched = <<>> THEN "new"
    ELSE LET p == deliveries[Last(dispatched)]
         IN  IF (p.old = d.old /\ p.new = d.new) \/ d.new = p.old THEN "covered" ELSE "new"

(* order: against the newest dispatched delivery of the branch. *)
Order(d) ==
    IF dispatched = <<>> THEN "new"
    ELSE LET p == deliveries[Last(dispatched)]
         IN  CASE p.old = d.old /\ p.new = d.new -> "covered"
               [] d.old = p.new -> "new"
               [] d.new = p.old -> "covered"
               [] OTHER -> "prove"

(* resolve, up to the network: the binding and the order. *)
resolve ==
    /\ resolver.at = "resolve"
    /\ IF binding.revoked THEN Settled("failed")
       ELSE IF Order(This_) = "covered" THEN Settled("covered")
       ELSE /\ resolver' = [resolver EXCEPT
                              !.at = "fetch", !.version = binding.version,
                              !.prove = IF Order(This_) = "prove"
                                        THEN deliveries[Last(dispatched)].new ELSE 0]
            /\ UNCHANGED deliveries
    /\ UNCHANGED <<branch, wire, binding, dispatched, poll, mishaps>>

(* What is_ancestor may answer, on a branch that only moved forward: a     *)
(* commit is its own ancestor; for an earlier one, a tip the remote no     *)
(* longer has and an ancestor outside the depth prove nothing.             *)
IsAncestor(c, tip) == IF c = tip THEN {TRUE} ELSE IF c < tip THEN BOOLEAN ELSE {FALSE}

Stale(d) == IF resolver.prove = 0 THEN {FALSE} ELSE IsAncestor(d.new, resolver.prove)

(* The network: access that is refused when the binding changed, a proof   *)
(* that the push is behind, and the pipeline file, which may not be there. *)
fetch ==
    /\ resolver.at = "fetch"
    /\ \/ Settle(Retried(This_))
       \/ /\ resolver.version = binding.version
          /\ \/ TRUE \in Stale(This_) /\ Settled("covered")
             \/ FALSE \in Stale(This_) /\ Settled("failed")
             \/ /\ FALSE \in Stale(This_)
                /\ resolver' = [resolver EXCEPT !.at = "dispatch"]
                /\ UNCHANGED deliveries
    /\ UNCHANGED <<branch, wire, binding, dispatched, poll, mishaps>>

Dispatched(d) ==
    [Closed(d, "dispatched") EXCEPT !.unproven = IF d.new < resolver.prove THEN resolver.prove ELSE @]

(* The dispatch transaction: create_run checks the source again, and a     *)
(* refusal or a store fault parks the delivery.                            *)
dispatch ==
    /\ resolver.at = "dispatch"
    /\ \/ /\ ~binding.revoked
          /\ Settle(Dispatched(This_))
          /\ dispatched' = Append(dispatched, It)
       \/ /\ Settle(Retried(This_))
          /\ UNCHANGED dispatched
    /\ UNCHANGED <<branch, wire, binding, poll, mishaps>>

(* next_attempt_ms comes. *)
TryAgain(i) ==
    /\ deliveries[i].waits
    /\ deliveries' = [deliveries EXCEPT ![i].waits = FALSE]
    /\ UNCHANGED <<branch, wire, binding, dispatched, resolver, poll, mishaps>>

(* The controller restarts, or the store fails and the lane backs off. *)
IntakeRestarts ==
    /\ resolver.at # "idle" \/ poll.seen
    /\ resolver' = Resting
    /\ poll' = [poll EXCEPT !.seen = FALSE, !.tip = 0]
    /\ Mishap
    /\ UNCHANGED <<branch, wire, binding, deliveries, dispatched>>

------------------------------------------------------------------------------
IntakeInit ==
    /\ scene \in Scenes
    /\ branch = [at |-> 0, top |-> 0, moves |-> 0]
    /\ wire = {}
    /\ binding = [version |-> 1, revoked |-> FALSE]
    /\ deliveries = <<>> /\ dispatched = <<>>
    /\ resolver = Resting
    /\ poll = NotPolling
    /\ mishaps = 0

ResolverStep == resolve_due \/ ReadReady \/ resolve \/ fetch \/ dispatch

IntakeStep ==
    \/ Push \/ DeleteRef
    \/ \E m \in wire : HookDelivers(m) \/ HookGivesUp(m)
    \/ purge_settled \/ revoke \/ bind \/ configure \/ disable
    \/ ls_remote \/ admit
    \/ ResolverStep \/ IntakeRestarts
    \/ \E i \in DOMAIN deliveries : TryAgain(i)

IntakeNext == IntakeStep /\ UNCHANGED scene

(* The lane runs and the clock goes on. *)
IntakeFair ==
    /\ WF_intakeVars(ResolverStep /\ UNCHANGED scene)
    /\ WF_intakeVars((\E i \in DOMAIN deliveries : TryAgain(i)) /\ UNCHANGED scene)

IntakeSpec == IntakeInit /\ [][IntakeNext]_intakeVars /\ IntakeFair

------------------------------------------------------------------------------
(***************************************************************************)
(* Properties.                                                             *)
(***************************************************************************)
Follows(this, before) == before.new < this.new \/ (this.unproven # 0 /\ before.new # this.new)

(* However hook and poll report the moves of a branch, each run is for a   *)
(* newer commit than the run before it; a push behind that run is only     *)
(* dispatched when Git could not prove that it is, and never for the       *)
(* commit of that run itself (docs/intake.md, rule 4).                     *)
RunsMoveForward ==
    \A i \in DOMAIN dispatched \ {1} : Follows(deliveries[dispatched[i]], deliveries[dispatched[i - 1]])

(* A push is dropped as duplicate or superseded only when its commit, or a *)
(* later one, has been dispatched; and the polling cursor never stands on  *)
(* a commit that was neither its baseline nor accepted as a delivery.      *)
NothingSkipped ==
    /\ \A i \in DOMAIN deliveries : deliveries[i].state = "covered" =>
          \E j \in DOMAIN dispatched : deliveries[i].new <= deliveries[dispatched[j]].new
    /\ poll.cursor.by # 0 =>
          \E i \in DOMAIN deliveries : deliveries[i].src = "poll" /\ deliveries[i].new = poll.cursor.oid

(* Every accepted delivery is settled in the end: transient faults spend a *)
(* bounded budget, whatever the binding and the store do meanwhile.        *)
DeliveriesSettle == <>[](Opened = {})
=============================================================================

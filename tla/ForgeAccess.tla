----------------------------- MODULE ForgeAccess -----------------------------
(***************************************************************************)
(* Access that follows the forge: one installation of an organization, one *)
(* bound repository and one person whose membership is derived.            *)
(*                                                                         *)
(* The forge sends signed events, which come late, out of order or not at  *)
(* all; each is handled once, by its receipt.  Two lanes ask the forge on  *)
(* a schedule, outside any transaction, and write what they saw under a    *)
(* fence: the row's sequence number, the installation's lifecycle version, *)
(* the binding's version.                                                  *)
(*                                                                         *)
(* Left out: owners (who carry no grants), the walk over many repositories *)
(* and its cursor, an organization that is renamed or transferred, linking *)
(* and unlinking an account, and turning derived membership on or off.     *)
(***************************************************************************)
EXTENDS Integers, Sequences, SequencesExt

CONSTANTS
    Worlds,        \* the bounds to explore together: the lanes at work, what
                   \* may change at the forge and how often, rebinds, sign-ins
                   \* and returns to the installation page, and mishaps (lost
                   \* events, failed requests, failed writes)
    MaxCandidate   \* MAX_CANDIDATE_ATTEMPTS

ASSUME ForgeBounds ==
    /\ Worlds \subseteq [lanes : SUBSET {"reconcile", "members"},
                         changes : SUBSET {"inst", "repo", "member", "access"},
                         moves : Nat, asks : Nat, mishaps : Nat]
    /\ MaxCandidate \in Nat \ {0}

VARIABLES
    world,      \* the bounds of this behaviour
    hub,        \* the forge
    notes,      \* signed events on their way
    inst,       \* the installation's row
    bound,      \* the repository's source binding, and who ended it
    refresh,    \* github_refresh: a row of kind 0 and one of kind 1
    ready,      \* those that are due, by next_ms
    pass,       \* the reconcile lane
    page,       \* a return to the installation page, on the wire
    member,     \* the derived membership
    grant,      \* the derived grant on the repository
    check,      \* github_member_checks
    walk,       \* the members lane
    since,      \* what was true at the forge since the last signed removal,
                \* and false since the last bind
    asks, slips \* requests of people so far, mishaps so far

forgeVars == <<world, hub, notes, inst, bound, refresh, ready, pass, page,
               member, grant, check, walk, since, asks, slips>>

reconcileVars == <<refresh, ready, pass>>
memberVars    == <<member, grant, check, walk>>

Slip == slips < world.mishaps /\ slips' = slips + 1
Smooth == UNCHANGED slips

------------------------------------------------------------------------------
(***************************************************************************)
(* The forge.  A removed installation does not come back under its number. *)
(***************************************************************************)
Changes ==
    {[at |-> "inst", to |-> [hub EXCEPT !.inst = i], note |-> [kind |-> "installation"]] :
        i \in {"active", "suspended", "gone"}}
    \cup {[at |-> "repo", to |-> [hub EXCEPT !.repo = ~@], note |-> n] :
        n \in {[kind |-> "repositories", removed |-> hub.repo]}
              \cup IF hub.repo THEN {[kind |-> "repository"]} ELSE {}}
    \cup {[at |-> "member", to |-> [hub EXCEPT !.member = ~@],
           note |-> [kind |-> "members", removed |-> hub.member]]}
    \cup {[at |-> "access", to |-> [hub EXCEPT !.access = ~@],
           note |-> [kind |-> "members", removed |-> FALSE]]}

HubMoves(c) ==
    /\ c.at \in world.changes /\ hub.moves < world.moves
    /\ c.to # hub /\ hub.inst # "gone"
    /\ hub' = [c.to EXCEPT !.moves = @ + 1]
    /\ notes' = notes \cup {[id |-> hub.moves] @@ c.note}
    /\ since' = [since EXCEPT !.inst = @ \/ c.to.inst = "active",
                              !.member = @ \/ c.to.member,
                              !.lost = @ \/ ~c.to.repo \/ c.to.inst = "gone"]
    /\ UNCHANGED <<inst, bound, reconcileVars, page, memberVars, asks, slips>>

NoteLost(n) ==
    /\ notes' = notes \ {n}
    /\ Slip
    /\ UNCHANGED <<hub, inst, bound, reconcileVars, page, memberVars, since, asks>>

------------------------------------------------------------------------------
(***************************************************************************)
(* The schedule of the reconcile lane.                                     *)
(***************************************************************************)
(* schedule and seed_repos: the row is due now, after those already due;   *)
(* its number is counted on while a pass holds the old one.                *)
Scheduled(rows, r) ==
    [rows EXCEPT ![r] = [there |-> TRUE, seq |-> IF ~@.there THEN 1
                                                 ELSE IF pass.at # "idle" /\ pass.row = r
                                                 THEN @.seq + 1 ELSE @.seq]]
Queued(q, r) == Append(SelectSeq(q, LAMBDA x : x # r), r)

(* settled, and finished: only the row that was read. *)
Own == refresh[pass.row].there /\ refresh[pass.row].seq = pass.seq
Waiting(q) == IF Own THEN SelectSeq(q, LAMBDA x : x # pass.row) ELSE q

settled  == refresh' = refresh /\ ready' = Waiting(ready)
finished ==
    /\ refresh' = IF Own THEN [refresh EXCEPT ![pass.row].there = FALSE] ELSE refresh
    /\ ready' = Waiting(ready)

(* next_ms comes. *)
RefreshDue(r) ==
    /\ "reconcile" \in world.lanes
    /\ refresh[r].there /\ r \notin ToSet(ready)
    /\ ready' = Append(ready, r)
    /\ UNCHANGED <<hub, notes, inst, bound, refresh, pass, page, memberVars, since, asks, slips>>

Revoked(b, who) == IF b.live THEN [live |-> FALSE, version |-> b.version + 1, by |-> who] ELSE b

(* Variant: whatever the version is now. *)
RevokedAt_any(b, v) == Revoked(b, "lane")

(* revoke_binding: only the version that was read. *)
RevokedAt(b, v) == IF b.version = v THEN Revoked(b, "lane") ELSE b

(* remove *)
Disabled(i) == [state |-> "removed", version |-> i.version + 1, by |-> i.by]

------------------------------------------------------------------------------
(***************************************************************************)
(* accept.                                                                 *)
(***************************************************************************)
Absent == [on |-> FALSE, stale |-> FALSE]

(* enqueue_pair *)
Pair(c) == [c EXCEPT !.there = TRUE, !.seq = IF c.there THEN @ + 1 ELSE 1,
                     !.next = "due", !.tries = IF c.there THEN @ ELSE 0]

AcceptInstallation(n) ==
    /\ n.kind = "installation"
    /\ inst' = Disabled(inst)
    /\ refresh' = Scheduled(refresh, "inst") /\ ready' = Queued(ready, "inst")
    /\ since' = [since EXCEPT !.inst = hub.inst = "active"]
    /\ UNCHANGED <<bound, memberVars>>

AcceptRepositories(n) ==
    /\ n.kind = "repositories"
    /\ bound' = IF n.removed THEN Revoked(bound, "event") ELSE bound
    /\ inst' = [inst EXCEPT !.version = @ + 1]
    /\ refresh' = IF bound'.live THEN Scheduled(Scheduled(refresh, "inst"), "repo")
                                 ELSE Scheduled(refresh, "inst")
    /\ ready' = IF bound'.live THEN Queued(Queued(ready, "inst"), "repo")
                               ELSE Queued(ready, "inst")
    /\ UNCHANGED <<memberVars, since>>

AcceptRepository(n) ==
    /\ n.kind = "repository"
    /\ bound' = Revoked(bound, "event")
    /\ UNCHANGED <<inst, refresh, ready, memberVars, since>>

(* members: member_removed revokes at once, anything else is a hint. *)
AcceptMembers(n) ==
    /\ n.kind = "members"
    /\ IF n.removed
       THEN /\ member' = Absent /\ grant' = Absent
            /\ since' = [since EXCEPT !.member = hub.member]
       ELSE UNCHANGED <<member, grant, since>>
    /\ check' = Pair(check)
    /\ UNCHANGED <<inst, bound, refresh, ready, walk>>

accept(n) ==
    /\ \/ AcceptInstallation(n) \/ AcceptRepositories(n)
       \/ AcceptRepository(n)   \/ AcceptMembers(n)
    /\ notes' = notes \ {n}
    /\ UNCHANGED <<hub, pass, page, asks, slips>>

------------------------------------------------------------------------------
(***************************************************************************)
(* The reconcile lane.                                                     *)
(***************************************************************************)
NoPass == [at |-> "idle", row |-> "inst", seq |-> 0, expected |-> 0, version |-> 0,
           revoke |-> FALSE, answer |-> "none"]

(* due, and install_target or repo_target: a repository whose binding is   *)
(* gone is done with.                                                      *)
ReconcileReads ==
    /\ "reconcile" \in world.lanes
    /\ pass.at = "idle" /\ ready # <<>>
    /\ LET r == Head(ready)
       IN  pass' = [NoPass EXCEPT
                      !.at = IF r = "repo" /\ ~bound.live THEN "finish" ELSE "ask",
                      !.row = r, !.seq = refresh[r].seq,
                      !.expected = inst.version, !.version = bound.version]
    /\ UNCHANGED <<hub, notes, inst, bound, refresh, ready, page, memberVars, since, asks, slips>>

Answers(a) == pass' = [pass EXCEPT !.at = "apply", !.answer = a]

(* installation_status; the bindings are read before the repositories are  *)
(* listed, with a token of their own.                                      *)
AskInstallation ==
    /\ pass.at = "ask" /\ pass.row = "inst"
    /\ \/ Slip /\ Answers("retry")
       \/ Smooth /\ hub.inst # "active" /\ Answers(hub.inst)
       \/ Smooth /\ hub.inst = "active"
          /\ pass' = [pass EXCEPT !.at = "list", !.version = IF bound.live THEN bound.version ELSE 0]
    /\ UNCHANGED <<hub, notes, inst, bound, refresh, ready, page, memberVars, since, asks>>

(* installation_repositories *)
ListRepositories ==
    /\ pass.at = "list"
    /\ \/ Slip /\ Answers("retry")
       \/ Smooth /\ hub.inst # "active" /\ Answers("retry")
       \/ Smooth /\ hub.inst = "active"
          /\ pass' = [pass EXCEPT !.at = "apply", !.answer = "active", !.revoke = ~hub.repo]
    /\ UNCHANGED <<hub, notes, inst, bound, refresh, ready, page, memberVars, since, asks>>

(* token and repository_state; a token still cached is refused by the      *)
(* forge, and dropped.                                                     *)
AskRepository ==
    /\ pass.at = "ask" /\ pass.row = "repo"
    /\ \/ Slip /\ Answers("retry")
       \/ Smooth /\ hub.inst = "gone" /\ (Answers("gone") \/ Answers("retry"))
       \/ Smooth /\ hub.inst = "suspended" /\ (Answers("refused") \/ Answers("retry"))
       \/ Smooth /\ hub.inst = "active"
          /\ pass' = [pass EXCEPT !.at = "apply", !.answer = "state", !.revoke = ~hub.repo]
    /\ UNCHANGED <<hub, notes, inst, bound, refresh, ready, page, memberVars, since, asks>>

Shows(a) == IF a = "active" THEN "usable" ELSE "suspended"

(* Variant: the lifecycle version is not compared. *)
Refreshes_unfenced(a, expected) == TRUE

(* refresh: a snapshot that says what the row says changes nothing, any    *)
(* other needs the version it was asked under.                             *)
Refreshes(a, expected) == inst.state = Shows(a) \/ inst.version = expected

Refreshed(a, who) ==
    IF inst.state = Shows(a) THEN inst
    ELSE [state |-> Shows(a), version |-> inst.version + 1, by |-> who]

(* apply_installation; a conflict undoes it and is retried. *)
apply_installation ==
    /\ pass.answer \in {"active", "suspended"}
    /\ IF Refreshes(pass.answer, pass.expected)
       THEN /\ inst' = Refreshed(pass.answer, "lane")
            /\ bound' = IF pass.revoke THEN RevokedAt(bound, pass.version) ELSE bound
       ELSE UNCHANGED <<inst, bound>>
    /\ settled

installation_gone ==
    /\ pass.answer = "gone"
    /\ inst' = Disabled(inst)
    /\ bound' = Revoked(bound, "lane")
    /\ finished

apply_repository ==
    /\ pass.answer = "state"
    /\ bound' = IF pass.revoke THEN RevokedAt(bound, pass.version) ELSE bound
    /\ settled /\ UNCHANGED inst

(* A refused token asks for the installation itself. *)
RefusedToken ==
    /\ pass.answer = "refused"
    /\ refresh' = Scheduled(refresh, "inst") /\ ready' = Waiting(Queued(ready, "inst"))
    /\ UNCHANGED <<inst, bound>>

RetryLater ==
    /\ pass.answer = "retry"
    /\ settled /\ UNCHANGED <<inst, bound>>

ReconcileApplies ==
    /\ pass.at = "apply"
    /\ apply_installation \/ installation_gone \/ apply_repository \/ RefusedToken \/ RetryLater
    /\ pass' = NoPass
    /\ UNCHANGED <<hub, notes, page, memberVars, since, asks, slips>>

ReconcileFinishes ==
    /\ pass.at = "finish" /\ finished
    /\ pass' = NoPass
    /\ UNCHANGED <<hub, notes, inst, bound, page, memberVars, since, asks, slips>>

(* The write fails, or the controller restarts: seed adds missing rows. *)
ReconcileLost ==
    /\ pass.at # "idle" /\ Slip
    /\ pass' = NoPass
    /\ LET new == {r \in {"inst", "repo"} : ~refresh[r].there /\ (r = "repo" => bound.live)}
       IN  \/ UNCHANGED <<refresh, ready>>
           \/ /\ refresh' = [r \in DOMAIN refresh |->
                               IF r \in new THEN [there |-> TRUE, seq |-> 1] ELSE refresh[r]]
              /\ ready' = ready \o SetToSeq(new)
    /\ UNCHANGED <<hub, notes, inst, bound, page, memberVars, since, asks>>

------------------------------------------------------------------------------
(***************************************************************************)
(* What people do.                                                         *)
(***************************************************************************)
Asks == asks < world.asks /\ asks' = asks + 1

(* sources.rs bind: an operator binds the repository (again). *)
rebind ==
    /\ Asks /\ inst.state = "usable"
    /\ bound' = [live |-> TRUE, version |-> bound.version + 1, by |-> "none"]
    /\ since' = [since EXCEPT !.lost = ~hub.repo \/ hub.inst = "gone"]
    /\ UNCHANGED <<hub, notes, inst, reconcileVars, page, memberVars, slips>>

(* installation: the browser returns from the forge; the snapshot is read  *)
(* first and recorded under the version the row has by then.               *)
PageAsks ==
    /\ Asks /\ page = "none" /\ hub.inst # "gone"
    /\ page' = hub.inst
    /\ UNCHANGED <<hub, notes, inst, bound, reconcileVars, memberVars, since, slips>>

PageBinds ==
    /\ page # "none"
    /\ inst' = Refreshed(page, "page")
    /\ page' = "none"
    /\ UNCHANGED <<hub, notes, bound, reconcileVars, memberVars, since, asks, slips>>

(* enqueue_user, at a sign-in: parked rows are swept, and a pair checked   *)
(* a moment ago is left alone.                                             *)
SignIn ==
    /\ Asks
    /\ check' = Pair(IF check.next = "parked" THEN [check EXCEPT !.there = FALSE] ELSE check)
    /\ UNCHANGED <<hub, notes, inst, bound, reconcileVars, page, member, grant, walk, since, slips>>

------------------------------------------------------------------------------
(***************************************************************************)
(* The members lane.                                                       *)
(***************************************************************************)
NoWalk == [at |-> "idle", seq |-> 0, tries |-> 0, usable |-> FALSE, listed |-> FALSE,
           answer |-> "none", sees |-> "none"]

CheckDue ==
    /\ "members" \in world.lanes
    /\ check.there /\ check.next = "later"
    /\ check' = [check EXCEPT !.next = "due"]
    /\ UNCHANGED <<hub, notes, inst, bound, reconcileVars, page, member, grant, walk, since, asks, slips>>

(* The grace period since the last confirmation passes. *)
GracePasses ==
    /\ "members" \in world.lanes
    /\ \/ member.on /\ ~member.stale /\ member' = [member EXCEPT !.stale = TRUE] /\ UNCHANGED grant
       \/ grant.on /\ ~grant.stale /\ grant' = [grant EXCEPT !.stale = TRUE] /\ UNCHANGED member
    /\ UNCHANGED <<hub, notes, inst, bound, reconcileVars, page, check, walk, since, asks, slips>>

(* due and target *)
WalkReads ==
    /\ "members" \in world.lanes
    /\ walk.at = "idle" /\ check.there /\ check.next = "due"
    /\ walk' = [NoWalk EXCEPT !.at = "ask", !.seq = check.seq, !.tries = check.tries,
                              !.usable = inst.state = "usable", !.listed = bound.live]
    /\ UNCHANGED <<hub, notes, inst, bound, reconcileVars, page, member, grant, check, since, asks, slips>>

Learns(a, s) == walk' = [walk EXCEPT !.at = "apply", !.answer = a, !.sees = s]

(* observe: an absent answer is believed only of an installation that      *)
(* still answers for its organization; an unknown repository is passed     *)
(* over.                                                                   *)
WalkAsks ==
    /\ walk.at = "ask"
    /\ \/ Slip /\ Learns("unknown", "none")
       \/ Smooth /\ (~walk.usable \/ hub.inst # "active") /\ Learns("unknown", "none")
       \/ /\ walk.usable /\ hub.inst = "active"
          /\ \/ Smooth /\ ~hub.member /\ Learns("absent", "none")
             \/ Smooth /\ hub.member
                /\ Learns("active", IF ~walk.listed THEN "none"
                                    ELSE IF hub.repo /\ hub.access THEN "yes" ELSE "no")
             \/ Slip /\ hub.member /\ walk.listed /\ Learns("active", "unknown")
    /\ UNCHANGED <<hub, notes, inst, bound, reconcileVars, page, member, grant, check, since, asks>>

superseded == ~(check.there /\ check.seq = walk.seq)

Parked == [check EXCEPT !.next = "parked", !.tries = 0]

(* Tries past the candidate's budget are alike. *)
Retry == [check EXCEPT !.next = "later",
                       !.tries = IF walk.tries < MaxCandidate THEN walk.tries + 1 ELSE @]

(* Variant: a settled member is not asked about again. *)
Settled_for_good == [check EXCEPT !.next = "parked", !.tries = 0]

(* settle_row: again after the recheck interval. *)
Recheck == [check EXCEPT !.next = "later", !.tries = 0]

(* settle_grants: a known answer is written while the binding lives; what  *)
(* was not confirmed in time, or is not bound any more, goes.              *)
Granted ==
    LET g == CASE walk.sees = "no" -> Absent
               [] walk.sees = "yes" /\ (bound.live \/ grant.on) -> [on |-> TRUE, stale |-> FALSE]
               [] OTHER -> grant
    IN  IF g.stale \/ ~bound.live THEN Absent ELSE g

RemoveDerived == member' = Absent /\ grant' = Absent /\ check' = Parked

WalkActive ==
    /\ walk.answer = "active"
    /\ member' = [on |-> TRUE, stale |-> FALSE]
    /\ grant' = Granted
    /\ check' = Recheck

(* unreachable *)
WalkUnknown ==
    /\ walk.answer = "unknown"
    /\ IF member.on /\ member.stale THEN RemoveDerived
       ELSE /\ check' = IF ~member.on /\ walk.tries + 1 >= MaxCandidate THEN Parked ELSE Retry
            /\ UNCHANGED <<member, grant>>

WalkApplies ==
    /\ walk.at = "apply"
    /\ IF superseded THEN UNCHANGED <<member, grant, check>>
       ELSE WalkActive \/ WalkUnknown \/ (walk.answer = "absent" /\ RemoveDerived)
    /\ walk' = NoWalk
    /\ UNCHANGED <<hub, notes, inst, bound, reconcileVars, page, since, asks, slips>>

WalkLost ==
    /\ walk.at # "idle" /\ Slip
    /\ walk' = NoWalk
    /\ UNCHANGED <<hub, notes, inst, bound, reconcileVars, page, member, grant, check, since, asks>>

------------------------------------------------------------------------------
ForgeInit ==
    /\ world \in Worlds
    /\ hub = [inst |-> "active", repo |-> TRUE, member |-> TRUE, access |-> TRUE, moves |-> 0]
    /\ notes = {}
    /\ inst = [state |-> "usable", version |-> 1, by |-> "lane"]
    /\ bound = [live |-> TRUE, version |-> 1, by |-> "none"]
    /\ refresh = [r \in {"inst", "repo"} |-> [there |-> TRUE, seq |-> 1]]
    /\ ready = <<>>
    /\ pass = NoPass /\ page = "none"
    /\ member = [on |-> TRUE, stale |-> FALSE] /\ grant = [on |-> TRUE, stale |-> FALSE]
    /\ check = [there |-> TRUE, seq |-> 1, next |-> "later", tries |-> 0]
    /\ walk = NoWalk
    /\ since = [inst |-> TRUE, member |-> TRUE, lost |-> FALSE]
    /\ asks = 0 /\ slips = 0

ReconcileStep ==
    \/ ReconcileReads \/ AskInstallation \/ ListRepositories \/ AskRepository
    \/ ReconcileApplies \/ ReconcileFinishes
WalkStep == WalkReads \/ WalkAsks \/ WalkApplies

ForgeStep ==
    \/ \E c \in Changes : HubMoves(c)
    \/ \E n \in notes : NoteLost(n) \/ accept(n)
    \/ ReconcileStep \/ ReconcileLost \/ (\E r \in {"inst", "repo"} : RefreshDue(r))
    \/ rebind \/ PageAsks \/ PageBinds \/ SignIn
    \/ WalkStep \/ WalkLost \/ CheckDue \/ GracePasses

ForgeNext == ForgeStep /\ UNCHANGED world

(* The lanes run, time passes, an event that is not lost arrives and a     *)
(* request of a browser is answered.                                       *)
ForgeFair ==
    /\ WF_forgeVars(ReconcileStep /\ UNCHANGED world)
    /\ WF_forgeVars(WalkStep /\ UNCHANGED world)
    /\ WF_forgeVars(CheckDue /\ UNCHANGED world)
    /\ WF_forgeVars(GracePasses /\ UNCHANGED world)
    /\ WF_forgeVars(PageBinds /\ UNCHANGED world)
    /\ \A r \in {"inst", "repo"} : WF_forgeVars(RefreshDue(r) /\ UNCHANGED world)

ForgeSpec == ForgeInit /\ [][ForgeNext]_forgeVars /\ ForgeFair

------------------------------------------------------------------------------
(***************************************************************************)
(* Properties.                                                             *)
(***************************************************************************)
(* A signed removal holds until the forge itself has been the other way    *)
(* since: a pass that saw the person a member, or the installation active, *)
(* before the event never undoes it (superseded, lifecycle_version).  The  *)
(* installation page is not fenced so, and is excepted.                    *)
SignedRemovalHolds ==
    /\ member.on => since.member
    /\ inst.state = "usable" /\ inst.by = "lane" => since.inst

(* A lane ends a binding only when the repository has been out of the      *)
(* installation's reach since that binding was made: what it saw of an     *)
(* earlier one never ends a newer.                                         *)
LaneEndsOnlyLost == ~bound.live /\ bound.by = "lane" => since.lost

(* Whatever events are lost, the store catches up: in the end an           *)
(* installation is usable exactly when it is active, and a person or a     *)
(* repository that was removed has no access left.  Excepted is a removed  *)
(* installation that the page revived after its refresh row was finished.  *)
AccessCatchesUp ==
    <>[](/\ "reconcile" \in world.lanes /\ ~(hub.inst = "gone" /\ inst.by = "page") =>
               /\ hub.inst = "active" <=> inst.state = "usable"
               /\ hub.inst = "gone" \/ (hub.inst = "active" /\ ~hub.repo) => ~bound.live
         /\ "members" \in world.lanes =>
               /\ ~hub.member => ~member.on
               /\ ~hub.access => ~grant.on)
=============================================================================

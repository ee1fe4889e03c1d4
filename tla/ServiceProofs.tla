---------------------------- MODULE ServiceProofs ----------------------------
(***************************************************************************)
(* Proofs about two services of the controller: intake, which turns moves  *)
(* of a branch into runs, and the access that follows the forge.           *)
(***************************************************************************)
EXTENDS Intake, ForgeAccess, WellFoundedInduction, TLAPS

\* A set of natural numbers that is not empty has a least element.
LEMMA LeastNatural ==
  ASSUME NEW T \in SUBSET Nat, T # {}
  PROVE  \E m \in T : \A k \in T : m <= k
<1> DEFINE R == OpToRel(<, Nat)
<1>1. IsWellFoundedOn(R, Nat)
  BY NatLessThanWellFounded
<1>2. \A k \in Nat, m \in Nat : k < m => <<k, m>> \in R
  BY DEF OpToRel
<1> HIDE DEF R
<1>3. \E m \in T : \A k \in T : ~(<<k, m>> \in R)
  BY <1>1, WFMin
<1>4. \E m \in T : \A k \in T : ~(k < m)
  BY <1>2, <1>3
<1>5. \A k \in T, m \in T : ~(k < m) => m <= k
  OBVIOUS
<1> QED BY <1>4, <1>5

------------------------------------------------------------------------------
(***************************************************************************)
(* Intake: the inductive invariant.                                        *)
(***************************************************************************)
Flag == BOOLEAN

LEMMA Flags == TRUE \in Flag /\ FALSE \in Flag
  BY DEF Flag

Ext == Seq(Nat)

Delivery ==
    [src : {"hook", "poll"}, ext : Ext, old : Nat, new : Nat,
     state : {"pending", "ready", "covered", "deleted", "failed", "dispatched", "purged"},
     tries : Nat, waits : Flag, unproven : Nat]

Cursor == [oid : Nat, by : Nat]

IntakeTypes ==
    /\ branch \in [at : Nat, top : Nat, moves : Nat]
    /\ wire \subseteq [ext : Ext, old : Nat, new : Nat]
    /\ deliveries \in Seq(Delivery)
    /\ dispatched \in Seq(DOMAIN deliveries)
    /\ resolver \in [at : {"idle", "resolve", "fetch", "dispatch"},
                     batch : SUBSET DOMAIN deliveries, version : Nat, prove : Nat]
    /\ poll \in [on : Flag, baselined : Flag, cursor : Cursor, seen : Flag, tip : Nat]
    /\ binding.version \in Nat

(* A move ends the ref or leads forward; what is told of one is a move. *)
Forward(d) == d.new # 0 => d.old < d.new

RemoteSound ==
    /\ branch.at # 0 => branch.at = branch.top
    /\ \A m \in wire : Forward(m)

(* What a poll found carries its own tip in its identity, and nothing but a *)
(* commit is ready.                                                         *)
RowsForward ==
    \A i \in DOMAIN deliveries :
       /\ Forward(deliveries[i])
       /\ deliveries[i].src = "poll" => deliveries[i].ext[2] = deliveries[i].new
       /\ deliveries[i].state = "ready" => deliveries[i].new # 0

(* The polling thread looks at what the cursor already knows, or at later  *)
(* commits.                                                                *)
PollForward ==
    /\ poll.cursor.oid <= branch.top /\ poll.tip <= branch.top
    /\ poll.seen /\ poll.tip # 0 => poll.cursor.oid <= poll.tip
    /\ poll.cursor.by # 0 =>
          \E i \in DOMAIN deliveries : deliveries[i].src = "poll" /\ deliveries[i].new = poll.cursor.oid

Newest == deliveries[dispatched[Len(dispatched)]].new

Ahead(i) == dispatched # <<>> => Newest < deliveries[i].new

RunsSound ==
    /\ \A i \in DOMAIN dispatched : deliveries[dispatched[i]].new # 0
    /\ RunsMoveForward

(* Behind the newest run, and known to be: what the lane could not prove. *)
Unproven(i) == dispatched # <<>> /\ resolver.prove = Newest /\ deliveries[i].new < Newest

(* The lane works on commits, and past the order of the transitions only   *)
(* on one that is ahead of the newest run, on one still to be compared     *)
(* with that run's commit, or on one that this did not prove to precede.   *)
LaneSound ==
    /\ resolver.at # "idle" => resolver.batch # {}
    /\ \A i \in resolver.batch : deliveries[i].new # 0
    /\ resolver.at = "fetch" =>
          IF resolver.prove = 0 THEN Ahead(It)
          ELSE dispatched # <<>> /\ resolver.prove = Newest
    /\ resolver.at = "dispatch" => Ahead(It) \/ Unproven(It)

CoveredRan ==
    \A i \in DOMAIN deliveries : deliveries[i].state = "covered" =>
       \E j \in DOMAIN dispatched : deliveries[i].new <= deliveries[dispatched[j]].new

IntakeInv ==
    /\ IntakeTypes /\ RemoteSound /\ RowsForward /\ PollForward
    /\ RunsSound /\ LaneSound /\ CoveredRan

------------------------------------------------------------------------------
(***************************************************************************)
(* Intake: what the rows of the deliveries keep.                           *)
(***************************************************************************)
SameMove(d, e) ==
    /\ d.src = e.src /\ d.ext = e.ext /\ d.old = e.old /\ d.new = e.new
    /\ e.unproven # 0 => d.unproven # 0

(* Rows are added, never removed, and none changes what it reports or      *)
(* forgets that it ran unproven.                                           *)
Keeps ==
    /\ deliveries' \in Seq(Delivery)
    /\ DOMAIN deliveries \subseteq DOMAIN deliveries'
    /\ \A i \in DOMAIN deliveries : SameMove(deliveries'[i], deliveries[i])

(* The rows are the same ones, none became ready that is not a commit, and *)
(* none became covered.                                                    *)
Holds ==
    /\ Keeps /\ DOMAIN deliveries' = DOMAIN deliveries
    /\ \A i \in DOMAIN deliveries :
          /\ deliveries'[i].state = "ready" => deliveries[i].new # 0
          /\ deliveries'[i].state = "covered" => deliveries[i].state = "covered"

LEMMA ClosedRow ==
  ASSUME NEW d \in Delivery,
         NEW s \in {"pending", "ready", "covered", "deleted", "failed", "dispatched", "purged"}
  PROVE  Closed(d, s) \in Delivery /\ SameMove(Closed(d, s), d) /\ Closed(d, s).state = s
  BY Flags DEF Closed, Delivery, SameMove

LEMMA RetriedRow ==
  ASSUME NEW d \in Delivery
  PROVE  /\ Retried(d) \in Delivery /\ SameMove(Retried(d), d)
         /\ Retried(d).state \in {"failed", d.state}
<1>1. CASE d.tries + 1 >= scene.tries
  BY <1>1, ClosedRow DEF Retried
<1>2. CASE ~(d.tries + 1 >= scene.tries)
  <2>1. PICK n \in Nat : n = d.tries + 1
    BY DEF Delivery
  <2>2. Retried(d) = [d EXCEPT !.tries = n, !.waits = TRUE]
    BY <1>2, <2>1 DEF Retried
  <2> QED BY <2>2, Flags DEF Delivery, SameMove
<1> QED BY <1>1, <1>2

LEMMA ValidatedRow ==
  ASSUME NEW d \in Delivery
  PROVE  /\ Validated(d) \in Delivery /\ SameMove(Validated(d), d)
         /\ Validated(d).state \in {"failed", "deleted", "ready"}
         /\ Validated(d).state = "ready" => d.new # 0
<1>1. CASE binding.revoked
  BY <1>1, ClosedRow DEF Validated
<1>2. CASE ~binding.revoked /\ d.new = 0
  BY <1>2, ClosedRow DEF Validated
<1>3. CASE ~binding.revoked /\ d.new # 0
  BY <1>3 DEF Validated, Delivery, SameMove
<1> QED BY <1>1, <1>2, <1>3

\* The rows stay: nothing is to be shown of an action that does not write them.
LEMMA RowsStay == IntakeInv /\ UNCHANGED deliveries => Holds
  BY DEF Holds, Keeps, SameMove, IntakeInv, IntakeTypes, RowsForward

\* Rewriting every row in place leaves a sequence of rows.
LEMMA RowsRewritten ==
  ASSUME NEW q \in Seq(Delivery), NEW f \in [DOMAIN q -> Delivery]
  PROVE  f \in Seq(Delivery) /\ DOMAIN f = DOMAIN q
<1>1. PICK n \in Nat : n = Len(q)
  OBVIOUS
<1>2. DOMAIN q = 1 .. n
  BY <1>1
<1>3. f \in [1 .. n -> Delivery]
  BY <1>2
<1> QED BY <1>2, <1>3

\* One row is replaced by one with the same move.
LEMMA RowReplaced ==
  ASSUME IntakeInv, NEW k \in DOMAIN deliveries, NEW d \in Delivery, SameMove(d, deliveries[k]),
         deliveries' = [deliveries EXCEPT ![k] = d]
  PROVE  /\ Keeps /\ DOMAIN deliveries' = DOMAIN deliveries
         /\ \A i \in DOMAIN deliveries : deliveries'[i] = IF i = k THEN d ELSE deliveries[i]
<1>1. deliveries \in Seq(Delivery)
  BY DEF IntakeInv, IntakeTypes
<1>2. deliveries' \in Seq(Delivery) /\ DOMAIN deliveries' = DOMAIN deliveries
  BY <1>1
<1>3. \A i \in DOMAIN deliveries : deliveries'[i] = IF i = k THEN d ELSE deliveries[i]
  BY <1>1
<1>4. \A i \in DOMAIN deliveries : SameMove(deliveries'[i], deliveries[i])
  BY <1>3 DEF SameMove
<1> QED BY <1>2, <1>3, <1>4 DEF Keeps

LEMMA HoldsRows == IntakeInv /\ Holds => RowsForward'
<1> SUFFICES ASSUME IntakeInv, Holds, NEW i \in DOMAIN deliveries'
             PROVE  /\ Forward(deliveries'[i])
                    /\ deliveries'[i].src = "poll" => deliveries'[i].ext[2] = deliveries'[i].new
                    /\ deliveries'[i].state = "ready" => deliveries'[i].new # 0
  BY DEF RowsForward, Forward
<1>1. i \in DOMAIN deliveries /\ SameMove(deliveries'[i], deliveries[i])
  BY DEF Holds, Keeps
<1>2. Forward(deliveries[i]) /\ (deliveries[i].src = "poll" => deliveries[i].ext[2] = deliveries[i].new)
  BY <1>1 DEF IntakeInv, RowsForward
<1>3. deliveries'[i].state = "ready" => deliveries[i].new # 0
  BY <1>1 DEF Holds
<1> QED BY <1>1, <1>2, <1>3 DEF SameMove, Forward

LEMMA KeepsRuns ==
  ASSUME IntakeInv, Keeps, UNCHANGED dispatched
  PROVE  /\ dispatched' \in Seq(DOMAIN deliveries') /\ RunsSound'
         /\ \A i \in DOMAIN dispatched : deliveries'[dispatched[i]].new = deliveries[dispatched[i]].new
         /\ dispatched # <<>> => Newest' = Newest
<1>1. dispatched \in Seq(DOMAIN deliveries)
  BY DEF IntakeInv, IntakeTypes
<1>2. \A i \in DOMAIN dispatched : dispatched[i] \in DOMAIN deliveries
  BY <1>1
<1>3. \A i \in DOMAIN dispatched : deliveries'[dispatched[i]].new = deliveries[dispatched[i]].new
  BY <1>2 DEF Keeps, SameMove
<1>4. dispatched' \in Seq(DOMAIN deliveries')
  BY <1>1 DEF Keeps
<1>5. RunsSound'
  <2>1. \A i \in DOMAIN dispatched : deliveries[dispatched[i]].unproven # 0 => deliveries'[dispatched[i]].unproven # 0
    BY <1>2 DEF Keeps, SameMove
  <2>2. \A i \in DOMAIN dispatched \ {1} : i - 1 \in DOMAIN dispatched
    BY <1>1
  <2>3. ASSUME NEW i \in DOMAIN dispatched \ {1}
        PROVE  Follows(deliveries'[dispatched[i]], deliveries'[dispatched[i - 1]])
    <3>1. Follows(deliveries[dispatched[i]], deliveries[dispatched[i - 1]])
      BY DEF IntakeInv, RunsSound, RunsMoveForward
    <3> QED BY <1>3, <2>1, <2>2, <3>1 DEF Follows
  <2>4. RunsMoveForward'
    BY <2>3 DEF RunsMoveForward, Follows
  <2> QED BY <1>3, <2>4 DEF IntakeInv, RunsSound
<1>6. dispatched # <<>> => Len(dispatched) \in DOMAIN dispatched
  BY <1>1
<1>7. dispatched # <<>> => Newest' = Newest
  BY <1>3, <1>6 DEF Newest
<1> QED BY <1>3, <1>4, <1>5, <1>7

LEMMA KeepsCovered ==
  ASSUME IntakeInv, Holds, UNCHANGED dispatched
  PROVE  CoveredRan'
<1> SUFFICES ASSUME NEW i \in DOMAIN deliveries', deliveries'[i].state = "covered"
             PROVE  \E j \in DOMAIN dispatched : deliveries'[i].new <= deliveries'[dispatched[j]].new
  BY DEF CoveredRan
<1>1. i \in DOMAIN deliveries /\ deliveries[i].state = "covered" /\ deliveries'[i].new = deliveries[i].new
  BY DEF Holds, Keeps, SameMove
<1>2. PICK j \in DOMAIN dispatched : deliveries[i].new <= deliveries[dispatched[j]].new
  BY <1>1 DEF IntakeInv, CoveredRan
<1>3. deliveries'[dispatched[j]].new = deliveries[dispatched[j]].new
  BY KeepsRuns DEF Holds
<1> QED BY <1>1, <1>2, <1>3

LEMMA OldestIsThere ==
  ASSUME IntakeTypes, resolver.batch # {}
  PROVE  It \in resolver.batch /\ It \in DOMAIN deliveries
<1>1. resolver.batch \subseteq DOMAIN deliveries /\ DOMAIN deliveries \subseteq Nat
  BY DEF IntakeTypes
<1>2. \E m \in resolver.batch : \A k \in resolver.batch : m <= k
  BY <1>1, LeastNatural
<1>3. It \in resolver.batch
  BY <1>2 DEF It, Min
<1> QED BY <1>1, <1>3

LEMMA KeepsLane ==
  ASSUME IntakeInv, Keeps, UNCHANGED <<dispatched, resolver>>
  PROVE  LaneSound' /\ resolver' \in [at : {"idle", "resolve", "fetch", "dispatch"},
                     batch : SUBSET DOMAIN deliveries', version : Nat, prove : Nat]
<1>1. resolver \in [at : {"idle", "resolve", "fetch", "dispatch"},
                     batch : SUBSET DOMAIN deliveries, version : Nat, prove : Nat]
  BY DEF IntakeInv, IntakeTypes
<1>2. resolver' \in [at : {"idle", "resolve", "fetch", "dispatch"},
                     batch : SUBSET DOMAIN deliveries', version : Nat, prove : Nat]
  BY <1>1 DEF Keeps
<1>3. \A i \in DOMAIN deliveries : deliveries'[i].new = deliveries[i].new
  BY DEF Keeps, SameMove
<1>4. resolver.at # "idle" => resolver.batch # {}
  BY DEF IntakeInv, LaneSound
<1>5. \A i \in resolver'.batch : deliveries'[i].new # 0
  BY <1>1, <1>3 DEF IntakeInv, LaneSound
<1>6. dispatched # <<>> => Newest' = Newest
  BY KeepsRuns
<1>7. It' = It
  BY DEF It
<1>8. resolver.at # "idle" => It \in DOMAIN deliveries
  BY <1>4, OldestIsThere DEF IntakeInv
<1>9. resolver.at # "idle" /\ Ahead(It) => Ahead(It)'
  BY <1>3, <1>6, <1>7, <1>8 DEF Ahead
<1>10. resolver.at = "fetch" =>
          IF resolver.prove = 0 THEN Ahead(It)
          ELSE dispatched # <<>> /\ resolver.prove = Newest
  BY DEF IntakeInv, LaneSound
<1>11. (resolver.at = "fetch" =>
          IF resolver.prove = 0 THEN Ahead(It)
          ELSE dispatched # <<>> /\ resolver.prove = Newest)'
  BY <1>6, <1>9, <1>10
<1>12. resolver.at = "dispatch" => Ahead(It) \/ Unproven(It)
  BY DEF IntakeInv, LaneSound
<1>12a. resolver.at # "idle" /\ Unproven(It) => Unproven(It)'
  BY <1>3, <1>6, <1>7, <1>8 DEF Unproven
<1>13. (resolver.at = "dispatch" => Ahead(It) \/ Unproven(It))'
  BY <1>9, <1>12, <1>12a
<1>14. (resolver.at # "idle" => resolver.batch # {})'
  BY <1>4
<1>15. LaneSound'
  BY <1>5, <1>11, <1>13, <1>14 DEF LaneSound
<1> QED BY <1>2, <1>15

LEMMA KeepsPoll ==
  ASSUME IntakeInv, Keeps, UNCHANGED poll, branch' \in [at : Nat, top : Nat, moves : Nat],
         branch.top <= branch'.top
  PROVE  PollForward'
<1>1. branch \in [at : Nat, top : Nat, moves : Nat] /\ poll.cursor \in Cursor /\ poll.tip \in Nat
  BY DEF IntakeInv, IntakeTypes
<1>2. poll.cursor.oid <= branch'.top /\ poll.tip <= branch'.top
  BY <1>1 DEF IntakeInv, PollForward, Cursor
<1>3. poll.seen /\ poll.tip # 0 => poll.cursor.oid <= poll.tip
  BY DEF IntakeInv, PollForward
<1>4. poll.cursor.by # 0 =>
          \E i \in DOMAIN deliveries' : deliveries'[i].src = "poll" /\ deliveries'[i].new = poll.cursor.oid
  BY DEF IntakeInv, PollForward, Keeps, SameMove
<1> QED BY <1>2, <1>3, <1>4 DEF PollForward

------------------------------------------------------------------------------
(***************************************************************************)
(* Intake: the steps.                                                      *)
(***************************************************************************)
\* The remote moves and says so: the ref goes, or leads to a commit later than all.
LEMMA RemoteSteps ==
  ASSUME IntakeInv, Push \/ DeleteRef
  PROVE  IntakeInv'
<1>0. branch \in [at : Nat, top : Nat, moves : Nat] /\ wire \subseteq [ext : Ext, old : Nat, new : Nat]
      /\ (branch.at # 0 => branch.at = branch.top)
  BY DEF IntakeInv, IntakeTypes, RemoteSound
<1>1. PICK new \in Nat : Move(new) /\ (new # 0 => new = branch.top + 1)
  BY <1>0 DEF Push, DeleteRef
<1>2. branch' = [at |-> new, top |-> IF new = 0 THEN branch.top ELSE new, moves |-> branch.moves + 1]
      /\ wire' = wire \cup {Told(new)} /\ UNCHANGED <<binding, deliveries, dispatched, resolver, poll>>
  BY <1>1 DEF Move
<1>3. branch' \in [at : Nat, top : Nat, moves : Nat] /\ branch.top <= branch'.top
      /\ (branch'.at # 0 => branch'.at = branch'.top)
  BY <1>0, <1>1, <1>2
<1>4. <<branch.moves + 1>> \in Ext
  BY <1>0 DEF Ext
<1>5. Told(new) \in [ext : Ext, old : Nat, new : Nat] /\ Forward(Told(new))
  BY <1>0, <1>1, <1>4 DEF Told, Forward
<1>6. RemoteSound'
  BY <1>2, <1>3, <1>5 DEF IntakeInv, RemoteSound, Forward
<1>7. Holds
  BY <1>2, RowsStay
<1>8. IntakeTypes'
  BY <1>0, <1>2, <1>3, <1>5 DEF IntakeInv, IntakeTypes
<1>9. RowsForward' /\ RunsSound' /\ LaneSound' /\ CoveredRan' /\ PollForward'
  BY <1>2, <1>3, <1>7, HoldsRows, KeepsRuns, KeepsLane, KeepsCovered, KeepsPoll DEF Holds
<1> QED BY <1>6, <1>8, <1>9 DEF IntakeInv

\* Types and remote stay where branch, binding's version and the polling thread stay sound,
\* and messages only leave the wire.
LEMMA StoreStep ==
  ASSUME IntakeInv, Holds, UNCHANGED <<branch, dispatched, resolver, poll>>,
         wire' \subseteq wire, binding'.version \in Nat
  PROVE  IntakeInv'
<1>1. branch.top <= branch'.top /\ branch' \in [at : Nat, top : Nat, moves : Nat]
  BY DEF IntakeInv, IntakeTypes
<1>2. RowsForward' /\ RunsSound' /\ LaneSound' /\ CoveredRan' /\ PollForward'
  BY <1>1, HoldsRows, KeepsRuns, KeepsLane, KeepsCovered, KeepsPoll DEF Holds
<1>3. RemoteSound'
  BY DEF IntakeInv, RemoteSound, Forward
<1>4. dispatched' \in Seq(DOMAIN deliveries')
  BY KeepsRuns DEF Holds
<1>5. IntakeTypes'
  BY <1>4, KeepsLane DEF IntakeInv, IntakeTypes, Holds, Keeps
<1> QED BY <1>2, <1>3, <1>5 DEF IntakeInv

\* A delivery is added, pending and with a forward move; poll and cursor are left to the caller.
LEMMA FreshRow ==
  ASSUME IntakeInv, NEW src \in {"hook", "poll"}, NEW m \in [ext : Ext, old : Nat, new : Nat],
         Forward(m), src = "poll" => m.ext[2] = m.new,
         deliveries' = Append(deliveries, Fresh(src, m)), UNCHANGED <<dispatched, resolver>>
  PROVE  /\ Keeps /\ RowsForward' /\ RunsSound' /\ LaneSound' /\ CoveredRan'
         /\ dispatched' \in Seq(DOMAIN deliveries')
         /\ Len(deliveries) + 1 \in DOMAIN deliveries' /\ Len(deliveries') = Len(deliveries) + 1
         /\ SameMove(deliveries'[Len(deliveries) + 1], Fresh(src, m))
<1>0. deliveries \in Seq(Delivery)
  BY DEF IntakeInv, IntakeTypes
<1> DEFINE d == Fresh(src, m)
<1>1. d \in Delivery /\ Forward(d) /\ (d.src = "poll" => d.ext[2] = d.new) /\ d.state = "pending"
  BY Flags DEF Fresh, Delivery, Forward
<1> HIDE DEF d
<1>2. deliveries' \in Seq(Delivery) /\ Len(deliveries') = Len(deliveries) + 1
      /\ DOMAIN deliveries' = DOMAIN deliveries \cup {Len(deliveries) + 1}
  BY <1>0, <1>1 DEF d
<1>3. \A i \in DOMAIN deliveries : deliveries'[i] = deliveries[i]
  BY <1>0, <1>1 DEF d
<1>4. deliveries'[Len(deliveries) + 1] = d
  BY <1>0, <1>1 DEF d
<1>5. Keeps
  BY <1>2, <1>3 DEF Keeps, SameMove
<1>6. RowsForward'
  <2> SUFFICES ASSUME NEW i \in DOMAIN deliveries'
               PROVE  /\ Forward(deliveries'[i])
                      /\ deliveries'[i].src = "poll" => deliveries'[i].ext[2] = deliveries'[i].new
                      /\ deliveries'[i].state = "ready" => deliveries'[i].new # 0
    BY DEF RowsForward, Forward
  <2>1. CASE i \in DOMAIN deliveries
    BY <2>1, <1>3 DEF IntakeInv, RowsForward
  <2>2. CASE i = Len(deliveries) + 1
    BY <2>2, <1>1, <1>4
  <2> QED BY <1>2, <2>1, <2>2
<1>7. RunsSound' /\ LaneSound' /\ dispatched' \in Seq(DOMAIN deliveries')
  BY <1>5, KeepsRuns, KeepsLane
<1>8. CoveredRan'
  <2> SUFFICES ASSUME NEW i \in DOMAIN deliveries', deliveries'[i].state = "covered"
               PROVE  \E j \in DOMAIN dispatched : deliveries'[i].new <= deliveries'[dispatched[j]].new
    BY DEF CoveredRan
  <2>1. i \in DOMAIN deliveries
    BY <1>1, <1>2, <1>4
  <2>2. PICK j \in DOMAIN dispatched : deliveries[i].new <= deliveries[dispatched[j]].new
    BY <1>3, <2>1 DEF IntakeInv, CoveredRan
  <2>3. deliveries'[dispatched[j]].new = deliveries[dispatched[j]].new
    BY <1>5, KeepsRuns
  <2> QED BY <1>3, <2>1, <2>2, <2>3
<1> QED BY <1>2, <1>4, <1>5, <1>6, <1>7, <1>8 DEF d, SameMove

\* A hook message arrives: refused, a duplicate, or a new row.
LEMMA HookSteps ==
  ASSUME IntakeInv, NEW m \in wire, HookDelivers(m) \/ HookGivesUp(m)
  PROVE  IntakeInv'
<1>0. UNCHANGED <<branch, binding, dispatched, resolver, poll>> /\ wire' \subseteq wire
  BY DEF HookDelivers, HookGivesUp
<1>1. CASE UNCHANGED deliveries
  <2>1. Holds /\ binding'.version \in Nat
    BY <1>0, <1>1, RowsStay DEF IntakeInv, IntakeTypes
  <2> QED BY <1>0, <2>1, StoreStep
<1>2. CASE deliveries' # deliveries
  <2>1. deliveries' = Append(deliveries, Fresh("hook", m))
    BY <1>2 DEF HookDelivers, HookGivesUp, Accepted
  <2>2. m \in [ext : Ext, old : Nat, new : Nat] /\ Forward(m)
    BY DEF IntakeInv, IntakeTypes, RemoteSound
  <2>3. /\ Keeps /\ RowsForward' /\ RunsSound' /\ LaneSound' /\ CoveredRan'
        /\ dispatched' \in Seq(DOMAIN deliveries')
    BY <1>0, <2>1, <2>2, FreshRow
  <2>4. branch.top <= branch'.top /\ branch' \in [at : Nat, top : Nat, moves : Nat]
    BY <1>0 DEF IntakeInv, IntakeTypes
  <2>5. PollForward'
    BY <1>0, <2>3, <2>4, KeepsPoll
  <2>6. RemoteSound'
    BY <1>0 DEF IntakeInv, RemoteSound, Forward
  <2>7. IntakeTypes'
    BY <1>0, <2>3, KeepsLane DEF IntakeInv, IntakeTypes, Keeps
  <2> QED BY <2>3, <2>5, <2>6, <2>7 DEF IntakeInv
<1> QED BY <1>1, <1>2

\* Rows are purged, or their time comes.
LEMMA RowSteps ==
  ASSUME IntakeInv, purge_settled \/ \E i \in DOMAIN deliveries : TryAgain(i)
  PROVE  IntakeInv'
<1>0. UNCHANGED <<branch, wire, binding, dispatched, resolver, poll>> /\ binding'.version \in Nat
  BY DEF purge_settled, TryAgain, IntakeInv, IntakeTypes
<1>1. deliveries \in Seq(Delivery) /\ \A i \in DOMAIN deliveries : deliveries[i] \in Delivery
  BY DEF IntakeInv, IntakeTypes
<1>2. CASE purge_settled
  <2>1. \A i \in DOMAIN deliveries :
          LET d == [deliveries[i] EXCEPT !.state = "purged"]
          IN  d \in Delivery /\ SameMove(d, deliveries[i]) /\ d.state = "purged"
    BY <1>1 DEF Delivery, SameMove
  <2>2. deliveries' = [i \in DOMAIN deliveries |->
                        IF Open(deliveries[i]) \/ deliveries[i].state = "dispatched"
                        THEN deliveries[i]
                        ELSE [deliveries[i] EXCEPT !.state = "purged"]]
    BY <1>2 DEF purge_settled
  <2>3a. deliveries' \in [DOMAIN deliveries -> Delivery]
    BY <1>1, <2>1, <2>2
  <2>3. DOMAIN deliveries' = DOMAIN deliveries /\ deliveries' \in Seq(Delivery)
    BY <1>1, <2>3a, RowsRewritten
  <2>4. \A i \in DOMAIN deliveries :
          /\ SameMove(deliveries'[i], deliveries[i])
          /\ deliveries'[i].state \in {"purged", deliveries[i].state}
    BY <2>1, <2>2 DEF SameMove
  <2>5. Holds
    BY <2>3, <2>4 DEF Holds, Keeps, IntakeInv, RowsForward
  <2> QED BY <1>0, <2>5, StoreStep
<1>3. CASE \E i \in DOMAIN deliveries : TryAgain(i)
  <2>1. PICK k \in DOMAIN deliveries : deliveries' = [deliveries EXCEPT ![k].waits = FALSE]
    BY <1>3 DEF TryAgain
  <2>2. PICK d \in Delivery : d = [deliveries[k] EXCEPT !.waits = FALSE]
    BY <1>1, Flags DEF Delivery
  <2>3. SameMove(d, deliveries[k]) /\ d.state = deliveries[k].state
    BY <1>1, <2>2 DEF Delivery, SameMove
  <2>4. deliveries' = [deliveries EXCEPT ![k] = d]
    BY <2>1, <2>2
  <2>5. Holds
    BY <2>3, <2>4, RowReplaced DEF Holds, IntakeInv, RowsForward
  <2> QED BY <1>0, <2>5, StoreStep
<1> QED BY <1>2, <1>3

\* The polling thread with its schedule: what it may leave of poll and branch.
LEMMA PollStep ==
  ASSUME IntakeInv, UNCHANGED <<branch, wire, deliveries, dispatched, resolver>>,
         binding'.version \in Nat,
         poll' \in [on : Flag, baselined : Flag, cursor : Cursor, seen : Flag, tip : Nat],
         PollForward'
  PROVE  IntakeInv'
<1>1. Holds
  BY RowsStay
<1>2. RowsForward' /\ RunsSound' /\ LaneSound' /\ CoveredRan'
  BY <1>1, HoldsRows, KeepsRuns, KeepsLane, KeepsCovered DEF Holds
<1>3. RemoteSound'
  BY DEF IntakeInv, RemoteSound, Forward
<1>4. IntakeTypes'
  BY DEF IntakeInv, IntakeTypes
<1> QED BY <1>2, <1>3, <1>4 DEF IntakeInv

LEMMA PollTypes ==
  ASSUME IntakeInv
  PROVE  /\ poll \in [on : Flag, baselined : Flag, cursor : Cursor, seen : Flag, tip : Nat]
         /\ branch \in [at : Nat, top : Nat, moves : Nat] /\ poll.cursor \in Cursor
         /\ poll.tip \in Nat /\ poll.cursor.oid \in Nat /\ poll.cursor.by \in Nat
         /\ NoCursor \in Cursor /\ NoCursor.oid = 0 /\ NoCursor.by = 0
  BY DEF IntakeInv, IntakeTypes, Cursor, NoCursor

\* The binding and the configuration change: the cursor, if anything, starts anew.
LEMMA BindingSteps ==
  ASSUME IntakeInv, revoke \/ bind \/ configure \/ disable
  PROVE  IntakeInv'
<1>0. UNCHANGED <<branch, wire, deliveries, dispatched, resolver>> /\ binding'.version \in Nat
  BY DEF revoke, bind, configure, disable, IntakeInv, IntakeTypes
<1>1. PICK on \in Flag : poll' = [poll EXCEPT !.on = on, !.baselined = FALSE, !.cursor = NoCursor]
  <2>1. CASE revoke \/ disable
    BY <2>1, Flags DEF revoke, disable
  <2>2. CASE configure
    BY <2>2, Flags DEF configure
  <2>3. CASE bind
    <3>1. poll' = [poll EXCEPT !.baselined = FALSE, !.cursor = NoCursor]
      BY <2>3 DEF bind
    <3>2. poll.on \in Flag
      BY PollTypes
    <3> QED BY <3>1, <3>2, PollTypes
  <2> QED BY <2>1, <2>2, <2>3
<1>2. /\ poll' \in [on : Flag, baselined : Flag, cursor : Cursor, seen : Flag, tip : Nat]
      /\ poll'.cursor = NoCursor /\ poll'.tip = poll.tip
  BY <1>1, PollTypes, Flags
<1>3. PollForward'
  BY <1>0, <1>2, PollTypes DEF PollForward, IntakeInv
<1> QED BY <1>0, <1>2, <1>3, PollStep

\* The remote is looked at.
LEMMA LookStep ==
  ASSUME IntakeInv, ls_remote
  PROVE  IntakeInv'
<1>0. UNCHANGED <<branch, wire, deliveries, dispatched, resolver>> /\ binding'.version \in Nat
      /\ poll' = [poll EXCEPT !.seen = TRUE, !.tip = branch.at]
  BY DEF ls_remote, IntakeInv, IntakeTypes
<1>1. /\ poll' \in [on : Flag, baselined : Flag, cursor : Cursor, seen : Flag, tip : Nat]
      /\ poll'.cursor = poll.cursor /\ poll'.tip = branch.at
  BY <1>0, PollTypes, Flags
<1>2. branch.at # 0 => branch.at = branch.top
  BY DEF IntakeInv, RemoteSound
<1>3. branch.at <= branch.top /\ (branch.at # 0 => poll.cursor.oid <= branch.at)
  BY <1>2, PollTypes DEF IntakeInv, PollForward
<1>4. PollForward'
  BY <1>0, <1>1, <1>3, PollTypes DEF PollForward, IntakeInv
<1> QED BY <1>0, <1>1, <1>4, PollStep

\* What was looked at is admitted: nothing, the baseline, or a transition, which is a new
\* row, an old row again, or offered again later.
LEMMA AdmitStep ==
  ASSUME IntakeInv, admit
  PROVE  IntakeInv'
<1>0. UNCHANGED <<branch, wire, binding, dispatched, resolver>> /\ binding'.version \in Nat
      /\ branch'.top = branch.top
  BY DEF admit, IntakeInv, IntakeTypes
<1>1. poll.cursor.oid <= branch.top /\ poll.tip <= branch.top
      /\ (poll.tip # 0 => poll.cursor.oid <= poll.tip)
  BY DEF IntakeInv, PollForward, admit
<1>2. ASSUME NEW c \in Cursor, NEW b \in Flag,
             poll' = [poll EXCEPT !.seen = FALSE, !.tip = 0, !.baselined = b, !.cursor = c]
      PROVE  /\ poll' \in [on : Flag, baselined : Flag, cursor : Cursor, seen : Flag, tip : Nat]
             /\ poll'.cursor = c /\ poll'.tip = 0
  BY <1>2, PollTypes, Flags
<1>3. poll.baselined \in Flag
  BY PollTypes
<1>4. CASE ~poll.on \/ binding.revoked
  <2>1. poll' = [poll EXCEPT !.seen = FALSE, !.tip = 0] /\ UNCHANGED deliveries
    BY <1>4 DEF admit
  <2>2. poll' = [poll EXCEPT !.seen = FALSE, !.tip = 0, !.baselined = poll.baselined, !.cursor = poll.cursor]
    BY <2>1, PollTypes
  <2>3. /\ poll' \in [on : Flag, baselined : Flag, cursor : Cursor, seen : Flag, tip : Nat]
        /\ poll'.cursor = poll.cursor /\ poll'.tip = 0
    BY <1>2, <1>3, <2>2, PollTypes
  <2>4. PollForward'
    BY <1>0, <1>1, <2>1, <2>3, PollTypes DEF PollForward, IntakeInv
  <2> QED BY <1>0, <2>1, <2>3, <2>4, PollStep
<1>5. CASE poll.on /\ ~binding.revoked /\ ~poll.baselined
  <2>1. PICK c \in Cursor : c = IF poll.tip = 0 THEN NoCursor ELSE Observed(poll.tip, 0)
    BY PollTypes DEF Observed, Cursor
  <2>2. c.oid <= branch.top /\ c.by = 0
    BY <1>1, <2>1, PollTypes DEF Observed
  <2>3. poll' = [poll EXCEPT !.seen = FALSE, !.tip = 0, !.baselined = TRUE, !.cursor = c] /\ UNCHANGED deliveries
    BY <1>5, <2>1 DEF admit
  <2>4. /\ poll' \in [on : Flag, baselined : Flag, cursor : Cursor, seen : Flag, tip : Nat]
        /\ poll'.cursor = c /\ poll'.tip = 0
    BY <1>2, <2>3, Flags
  <2>5. PollForward'
    BY <1>0, <2>2, <2>4, PollTypes DEF PollForward
  <2> QED BY <1>0, <2>3, <2>4, <2>5, PollStep
<1>6. CASE poll.on /\ ~binding.revoked /\ poll.baselined
  <2> DEFINE m == Transition(poll.tip)
             a == IF poll.tip = poll.cursor.oid
                     THEN [answer |-> "same", rows |-> deliveries]
                     ELSE Accepted("poll", m)
  <2>1. deliveries' = a.rows
        /\ poll' = [poll EXCEPT !.seen = FALSE, !.tip = 0,
                              !.cursor = IF a.answer = "same" THEN @ ELSE AfterAdmit(a.rows, a.answer)]
    BY <1>6 DEF admit
  <2>2. m \in [ext : Ext, old : Nat, new : Nat] /\ m.old = poll.cursor.oid /\ m.new = poll.tip
        /\ m.ext[2] = poll.tip
    <3>1. PICK n \in Nat : n = IF poll.cursor.oid = 0 THEN Len(deliveries) ELSE poll.cursor.by
      BY PollTypes DEF IntakeInv, IntakeTypes
    <3>2. m = [ext |-> <<poll.cursor.oid, poll.tip, n>>, old |-> poll.cursor.oid, new |-> poll.tip]
      BY <3>1 DEF Transition
    <3>3. <<poll.cursor.oid, poll.tip, n>> \in Ext /\ <<poll.cursor.oid, poll.tip, n>>[2] = poll.tip
      BY PollTypes DEF Ext
    <3> QED BY <3>2, <3>3, PollTypes
  <2>3. deliveries \in Seq(Delivery) /\ Len(deliveries) \in Nat
    BY DEF IntakeInv, IntakeTypes
  <2> HIDE DEF m
  <2>4. CASE a.answer \in {"same", "overloaded"} /\ a.rows = deliveries
    <3>1. poll' = [poll EXCEPT !.seen = FALSE, !.tip = 0, !.baselined = poll.baselined, !.cursor = poll.cursor]
      BY <2>1, <2>4, PollTypes DEF AfterAdmit
    <3>2. /\ poll' \in [on : Flag, baselined : Flag, cursor : Cursor, seen : Flag, tip : Nat]
          /\ poll'.cursor = poll.cursor /\ poll'.tip = 0
      BY <1>2, <1>3, <3>1, PollTypes
    <3>3. UNCHANGED deliveries
      BY <2>1, <2>4
    <3>4. PollForward'
      BY <1>0, <1>1, <3>2, <3>3, PollTypes DEF PollForward, IntakeInv
    <3> QED BY <1>0, <3>2, <3>3, <3>4, PollStep
  <2>5. CASE a.answer = "duplicate" /\ a.rows = deliveries /\ Twin("poll", m.ext) # {}
    <3>1. PICK i \in DOMAIN deliveries : deliveries[i].src = "poll" /\ deliveries[i].ext = m.ext
      BY <2>5 DEF Twin
    <3>2. deliveries[i].new = poll.tip
      BY <2>2, <3>1 DEF IntakeInv, RowsForward
    <3>3. PICK c \in Cursor : c = IF poll.tip = 0 THEN NoCursor ELSE Observed(poll.tip, Len(deliveries))
      BY <2>3, PollTypes DEF Observed, Cursor
    <3>4. c.oid <= branch.top /\ (c.by # 0 => c.oid = poll.tip)
      BY <1>1, <3>3, PollTypes DEF Observed
    <3>5. poll' = [poll EXCEPT !.seen = FALSE, !.tip = 0, !.baselined = poll.baselined, !.cursor = c]
      BY <2>1, <2>5, <3>3, PollTypes DEF AfterAdmit
    <3>6. /\ poll' \in [on : Flag, baselined : Flag, cursor : Cursor, seen : Flag, tip : Nat]
          /\ poll'.cursor = c /\ poll'.tip = 0
      BY <1>2, <1>3, <3>5
    <3>7. UNCHANGED deliveries
      BY <2>1, <2>5
    <3>8. PollForward'
      BY <1>0, <3>1, <3>2, <3>4, <3>6, <3>7, PollTypes DEF PollForward
    <3> QED BY <1>0, <3>6, <3>7, <3>8, PollStep
  <2>6. CASE a.answer = "fresh" /\ a.rows = Append(deliveries, Fresh("poll", m)) /\ poll.tip # poll.cursor.oid
    <3>1. Forward(m)
      BY <1>1, <2>2, <2>6, PollTypes DEF Forward
    <3>2. deliveries' = Append(deliveries, Fresh("poll", m))
      BY <2>1, <2>6
    <3>3. /\ Keeps /\ RowsForward' /\ RunsSound' /\ LaneSound' /\ CoveredRan'
          /\ dispatched' \in Seq(DOMAIN deliveries')
          /\ Len(deliveries) + 1 \in DOMAIN deliveries' /\ Len(deliveries') = Len(deliveries) + 1
          /\ SameMove(deliveries'[Len(deliveries) + 1], Fresh("poll", m))
      BY <1>0, <2>2, <3>1, <3>2, FreshRow
    <3>3a. PICK n \in Nat : n = Len(deliveries')
      BY <2>3, <3>3
    <3>3b. PICK c \in Cursor : c = IF poll.tip = 0 THEN NoCursor ELSE Observed(poll.tip, n)
      BY PollTypes DEF Observed, Cursor
    <3>4. c = IF poll.tip = 0 THEN NoCursor ELSE Observed(poll.tip, Len(deliveries'))
      BY <3>3a, <3>3b
    <3>5. c.oid <= branch.top /\ (c.by # 0 => c.oid = poll.tip)
      BY <1>1, <3>4, PollTypes DEF Observed
    <3>6. poll' = [poll EXCEPT !.seen = FALSE, !.tip = 0, !.baselined = poll.baselined, !.cursor = c]
      BY <2>1, <2>6, <3>4, PollTypes DEF AfterAdmit
    <3>7. /\ poll' \in [on : Flag, baselined : Flag, cursor : Cursor, seen : Flag, tip : Nat]
          /\ poll'.cursor = c /\ poll'.tip = 0
      BY <1>2, <1>3, <3>6
    <3>8. \E i \in DOMAIN deliveries' : deliveries'[i].src = "poll" /\ deliveries'[i].new = poll.tip
      BY <2>2, <3>3 DEF SameMove, Fresh
    <3>9. PollForward'
      BY <1>0, <3>5, <3>7, <3>8, PollTypes DEF PollForward
    <3>10. RemoteSound'
      BY <1>0 DEF IntakeInv, RemoteSound, Forward
    <3>11. IntakeTypes'
      BY <1>0, <3>3, <3>7, KeepsLane DEF IntakeInv, IntakeTypes, Keeps
    <3> QED BY <3>3, <3>9, <3>10, <3>11 DEF IntakeInv
  <2> QED BY <2>4, <2>5, <2>6 DEF Accepted
<1> QED BY <1>4, <1>5, <1>6, PollTypes DEF Flag

\* Pending deliveries are validated, retried or given up.
LEMMA ValidateStep ==
  ASSUME IntakeInv, resolve_due
  PROVE  IntakeInv'
<1>0. UNCHANGED <<branch, wire, binding, dispatched, resolver, poll>> /\ binding'.version \in Nat
  BY DEF resolve_due, IntakeInv, IntakeTypes
<1>1. deliveries \in Seq(Delivery) /\ \A i \in DOMAIN deliveries : deliveries[i] \in Delivery
  BY DEF IntakeInv, IntakeTypes
<1>2. PICK bad \in SUBSET DueIn("pending") :
         deliveries' = [i \in DOMAIN deliveries |->
                          IF i \notin DueIn("pending") THEN deliveries[i]
                          ELSE IF i \in bad THEN Retried(deliveries[i])
                          ELSE Validated(deliveries[i])]
  BY DEF resolve_due
<1>3. \A i \in DOMAIN deliveries :
         /\ deliveries'[i] \in Delivery /\ SameMove(deliveries'[i], deliveries[i])
         /\ deliveries'[i].state = "ready" => deliveries[i].new # 0
         /\ deliveries'[i].state = "covered" => deliveries[i].state = "covered"
  <2> TAKE i \in DOMAIN deliveries
  <2>1. CASE i \notin DueIn("pending")
    BY <1>1, <1>2, <2>1 DEF SameMove, IntakeInv, RowsForward
  <2>2. CASE i \in DueIn("pending") /\ i \in bad
    <3>1. deliveries'[i] = Retried(deliveries[i]) /\ deliveries[i].state = "pending"
      BY <1>2, <2>2 DEF DueIn
    <3> QED BY <1>1, <3>1, RetriedRow
  <2>3. CASE i \in DueIn("pending") /\ i \notin bad
    <3>1. deliveries'[i] = Validated(deliveries[i])
      BY <1>2, <2>3
    <3> QED BY <1>1, <3>1, ValidatedRow
  <2> QED BY <2>1, <2>2, <2>3
<1>4. deliveries' \in [DOMAIN deliveries -> Delivery]
  BY <1>2, <1>3
<1>5. DOMAIN deliveries' = DOMAIN deliveries /\ deliveries' \in Seq(Delivery)
  BY <1>1, <1>4, RowsRewritten
<1>6. Holds
  BY <1>3, <1>5 DEF Holds, Keeps
<1> QED BY <1>0, <1>6, StoreStep

\* The lane goes on without a write.
LEMMA LaneStep ==
  ASSUME IntakeInv, UNCHANGED <<branch, wire, binding, deliveries, dispatched>>,
         poll' \in [on : Flag, baselined : Flag, cursor : Cursor, seen : Flag, tip : Nat],
         resolver' \in [at : {"idle", "resolve", "fetch", "dispatch"},
                     batch : SUBSET DOMAIN deliveries, version : Nat, prove : Nat],
         LaneSound', PollForward'
  PROVE  IntakeInv'
<1>1. Holds
  BY RowsStay
<1>2. RowsForward' /\ RunsSound' /\ CoveredRan'
  BY <1>1, HoldsRows, KeepsRuns, KeepsCovered DEF Holds
<1>3. RemoteSound' /\ IntakeTypes'
  BY DEF IntakeInv, RemoteSound, Forward, IntakeTypes
<1> QED BY <1>2, <1>3 DEF IntakeInv

\* A batch of ready deliveries is read.
LEMMA ReadStep ==
  ASSUME IntakeInv, ReadReady
  PROVE  IntakeInv'
<1>1. UNCHANGED <<branch, wire, binding, deliveries, dispatched, poll>>
      /\ resolver' = [at |-> "resolve", batch |-> DueIn("ready"), version |-> 0, prove |-> 0]
      /\ DueIn("ready") # {}
  BY DEF ReadReady, Resting
<1>2. DueIn("ready") \subseteq DOMAIN deliveries /\ \A i \in DueIn("ready") : deliveries[i].new # 0
  BY DEF DueIn, IntakeInv, RowsForward
<1>3. LaneSound'
  BY <1>1, <1>2 DEF LaneSound
<1>4. PollForward'
  BY <1>1 DEF IntakeInv, PollForward
<1> QED BY <1>1, <1>2, <1>3, <1>4, PollTypes, LaneStep

\* The lane or the process stops and begins again.
LEMMA RestartStep ==
  ASSUME IntakeInv, IntakeRestarts
  PROVE  IntakeInv'
<1>1. UNCHANGED <<branch, wire, binding, deliveries, dispatched>>
      /\ resolver' = [at |-> "idle", batch |-> {}, version |-> 0, prove |-> 0]
      /\ poll' = [poll EXCEPT !.seen = FALSE, !.tip = 0]
  BY DEF IntakeRestarts, Resting
<1>2. LaneSound'
  BY <1>1 DEF LaneSound
<1>3. /\ poll' \in [on : Flag, baselined : Flag, cursor : Cursor, seen : Flag, tip : Nat]
      /\ poll'.cursor = poll.cursor /\ poll'.tip = 0
  BY <1>1, PollTypes, Flags
<1>4. PollForward'
  BY <1>1, <1>3, PollTypes DEF IntakeInv, PollForward
<1> QED BY <1>1, <1>2, <1>3, <1>4, LaneStep

\* The oldest delivery of the batch is settled and the next is taken.
LEMMA SettleStep ==
  ASSUME IntakeInv, resolver.at # "idle", NEW d \in Delivery, SameMove(d, This_), Settle(d),
         UNCHANGED <<branch, wire, binding, poll>>
  PROVE  /\ Keeps /\ DOMAIN deliveries' = DOMAIN deliveries /\ RowsForward' /\ PollForward' /\ RemoteSound'
         /\ \A i \in DOMAIN deliveries : deliveries'[i] = IF i = It THEN d ELSE deliveries[i]
         /\ It \in DOMAIN deliveries /\ deliveries[It].new # 0
         /\ LaneSound'
         /\ resolver' \in [at : {"idle", "resolve", "fetch", "dispatch"},
                     batch : SUBSET DOMAIN deliveries', version : Nat, prove : Nat]
<1>1. It \in resolver.batch /\ It \in DOMAIN deliveries /\ deliveries[It].new # 0
  BY OldestIsThere DEF IntakeInv, LaneSound
<1>2. PICK k \in DOMAIN deliveries : k = It
  BY <1>1
<1>3. SameMove(d, deliveries[k]) /\ deliveries' = [deliveries EXCEPT ![k] = d]
  BY <1>2 DEF This_, Settle
<1>4. /\ Keeps /\ DOMAIN deliveries' = DOMAIN deliveries
      /\ \A i \in DOMAIN deliveries : deliveries'[i] = IF i = k THEN d ELSE deliveries[i]
  BY <1>3, RowReplaced
<1>5. RowsForward'
  <2> SUFFICES ASSUME NEW i \in DOMAIN deliveries'
               PROVE  /\ Forward(deliveries'[i])
                      /\ deliveries'[i].src = "poll" => deliveries'[i].ext[2] = deliveries'[i].new
                      /\ deliveries'[i].state = "ready" => deliveries'[i].new # 0
    BY DEF RowsForward, Forward
  <2>0. i \in DOMAIN deliveries
    BY <1>4
  <2>1. CASE i = k
    BY <1>1, <1>2, <1>3, <1>4, <2>1 DEF SameMove, Forward, IntakeInv, RowsForward
  <2>2. CASE i # k
    BY <1>4, <2>0, <2>2 DEF IntakeInv, RowsForward
  <2> QED BY <2>1, <2>2
<1>6. RemoteSound'
  BY DEF IntakeInv, RemoteSound, Forward
<1>7. branch.top <= branch'.top /\ branch' \in [at : Nat, top : Nat, moves : Nat]
  BY DEF IntakeInv, IntakeTypes
<1>8. PollForward'
  BY <1>4, <1>7, KeepsPoll
<1>9. PICK b \in SUBSET DOMAIN deliveries, at \in {"idle", "resolve"} :
        /\ resolver' = [at |-> at, batch |-> b, version |-> 0, prove |-> 0]
        /\ b \subseteq resolver.batch /\ (at # "idle" => b # {})
  <2>1. resolver.batch \subseteq DOMAIN deliveries
    BY DEF IntakeInv, IntakeTypes
  <2> QED BY <1>1, <2>1 DEF Settle, Following, Resting
<1>10. \A i \in resolver.batch : deliveries'[i].new # 0
  <2>1. resolver.batch \subseteq DOMAIN deliveries /\ \A i \in resolver.batch : deliveries[i].new # 0
    BY DEF IntakeInv, IntakeTypes, LaneSound
  <2> QED BY <1>4, <2>1 DEF Keeps, SameMove
<1>11. LaneSound'
  BY <1>9, <1>10 DEF LaneSound
<1> QED BY <1>1, <1>2, <1>4, <1>5, <1>6, <1>8, <1>9, <1>11

\* A delivery is settled without a run: covered only if a run covers it.
LEMMA SettleQuietly ==
  ASSUME IntakeInv, resolver.at # "idle", NEW d \in Delivery, SameMove(d, This_), Settle(d),
         d.state = "covered" => \E j \in DOMAIN dispatched : This_.new <= deliveries[dispatched[j]].new,
         UNCHANGED <<branch, wire, binding, poll, dispatched>>
  PROVE  IntakeInv'
<1>1. /\ Keeps /\ DOMAIN deliveries' = DOMAIN deliveries /\ RowsForward' /\ PollForward' /\ RemoteSound'
      /\ \A i \in DOMAIN deliveries : deliveries'[i] = IF i = It THEN d ELSE deliveries[i]
      /\ It \in DOMAIN deliveries /\ LaneSound'
      /\ resolver' \in [at : {"idle", "resolve", "fetch", "dispatch"},
                     batch : SUBSET DOMAIN deliveries', version : Nat, prove : Nat]
  BY SettleStep
<1>2. /\ dispatched' \in Seq(DOMAIN deliveries') /\ RunsSound'
      /\ \A i \in DOMAIN dispatched : deliveries'[dispatched[i]].new = deliveries[dispatched[i]].new
  BY <1>1, KeepsRuns
<1>4. CoveredRan'
  <2> SUFFICES ASSUME NEW i \in DOMAIN deliveries', deliveries'[i].state = "covered"
               PROVE  \E j \in DOMAIN dispatched : deliveries'[i].new <= deliveries'[dispatched[j]].new
    BY DEF CoveredRan
  <2>0. i \in DOMAIN deliveries /\ deliveries'[i].new = deliveries[i].new
    BY <1>1 DEF Keeps, SameMove
  <2>1. CASE i = It
    <3>1. PICK j \in DOMAIN dispatched : deliveries[i].new <= deliveries[dispatched[j]].new
      BY <1>1, <2>0, <2>1 DEF This_
    <3> QED BY <1>2, <2>0, <3>1
  <2>2. CASE i # It
    <3>1. PICK j \in DOMAIN dispatched : deliveries[i].new <= deliveries[dispatched[j]].new
      BY <1>1, <2>0, <2>2 DEF IntakeInv, CoveredRan
    <3> QED BY <1>2, <2>0, <3>1
  <2> QED BY <2>1, <2>2
<1>5. IntakeTypes'
  BY <1>1, <1>2 DEF IntakeInv, IntakeTypes, Keeps
<1> QED BY <1>1, <1>2, <1>4, <1>5 DEF IntakeInv

LEMMA Working ==
  ASSUME IntakeInv, resolver.at # "idle"
  PROVE  /\ It \in resolver.batch /\ It \in DOMAIN deliveries
         /\ This_ \in Delivery /\ This_.new \in Nat \ {0} /\ This_.old < This_.new /\ This_.old \in Nat
<1>1. It \in resolver.batch /\ It \in DOMAIN deliveries
  BY OldestIsThere DEF IntakeInv, LaneSound
<1>2. This_ \in Delivery
  BY <1>1 DEF IntakeInv, IntakeTypes, This_
<1>3. This_.new # 0
  BY <1>1 DEF IntakeInv, LaneSound, This_
<1>4. This_.old < This_.new
  BY <1>1, <1>3 DEF IntakeInv, RowsForward, Forward, This_
<1>5. This_.new \in Nat /\ This_.old \in Nat
  BY <1>2 DEF Delivery
<1> QED BY <1>1, <1>2, <1>3, <1>4, <1>5

LEMMA NewestRun ==
  ASSUME IntakeInv, dispatched # <<>>
  PROVE  /\ Last(dispatched) \in DOMAIN deliveries /\ Newest = deliveries[Last(dispatched)].new
         /\ Newest \in Nat \ {0} /\ deliveries[Last(dispatched)].old < Newest
         /\ deliveries[Last(dispatched)].old \in Nat
         /\ Len(dispatched) \in DOMAIN dispatched /\ Newest = deliveries[dispatched[Len(dispatched)]].new
<1>1. dispatched \in Seq(DOMAIN deliveries) /\ deliveries \in Seq(Delivery)
  BY DEF IntakeInv, IntakeTypes
<1>2. Len(dispatched) \in DOMAIN dispatched
  BY <1>1
<1>3. PICK k \in DOMAIN deliveries : k = dispatched[Len(dispatched)]
  BY <1>1, <1>2
<1>4. Last(dispatched) = k /\ Newest = deliveries[k].new
  BY <1>3 DEF Last, Newest
<1>5. deliveries[k] \in Delivery
  BY <1>1
<1>6. deliveries[k].new \in Nat /\ deliveries[k].old \in Nat
  BY <1>5 DEF Delivery
<1>7. Newest # 0
  BY <1>2, <1>3, <1>4 DEF IntakeInv, RunsSound
<1>8. deliveries[k].old < Newest
  BY <1>4, <1>7 DEF IntakeInv, RowsForward, Forward
<1> QED BY <1>2, <1>3, <1>4, <1>6, <1>7, <1>8

\* resolve: the binding and the order of the transitions.
LEMMA ResolveStep ==
  ASSUME IntakeInv, resolve
  PROVE  IntakeInv'
<1>0. resolver.at # "idle" /\ UNCHANGED <<branch, wire, binding, dispatched, poll>>
  BY DEF resolve
<1>1. CASE binding.revoked
  <2>1. PICK d \in Delivery : d = Closed(This_, "failed") /\ SameMove(d, This_) /\ d.state = "failed"
    BY <1>0, Working, ClosedRow
  <2>2. Settle(d)
    BY <1>1, <2>1 DEF resolve, Settled
  <2> QED BY <1>0, <2>1, <2>2, SettleQuietly
<1>2. CASE ~binding.revoked /\ Order(This_) = "covered"
  <2>1. PICK d \in Delivery : d = Closed(This_, "covered") /\ SameMove(d, This_)
    BY <1>0, Working, ClosedRow
  <2>2. Settle(d)
    BY <1>2, <2>1 DEF resolve, Settled
  <2>3. dispatched # <<>> /\ This_.new <= Newest
    <3>1. dispatched # <<>>
      BY <1>2 DEF Order
    <3>2. PICK p : p = deliveries[Last(dispatched)]
      OBVIOUS
    <3>3. This_.new = p.new \/ This_.new = p.old
      BY <1>2, <3>1, <3>2 DEF Order
    <3> QED BY <1>0, <3>1, <3>2, <3>3, NewestRun, Working
  <2>4. \E j \in DOMAIN dispatched : This_.new <= deliveries[dispatched[j]].new
    BY <2>3, NewestRun
  <2> QED BY <1>0, <2>1, <2>2, <2>4, SettleQuietly
<1>3. CASE ~binding.revoked /\ Order(This_) # "covered"
  <2>1. UNCHANGED deliveries
        /\ resolver' = [resolver EXCEPT
                          !.at = "fetch", !.version = binding.version,
                          !.prove = IF Order(This_) = "prove" THEN deliveries[Last(dispatched)].new ELSE 0]
    BY <1>3 DEF resolve
  <2>2. Order(This_) = "prove" => dispatched # <<>>
    BY DEF Order
  <2>3. PICK p \in Nat : p = IF Order(This_) = "prove" THEN deliveries[Last(dispatched)].new ELSE 0
    BY <2>2, NewestRun
  <2>4. PICK v \in Nat : v = binding.version
    BY DEF IntakeInv, IntakeTypes
  <2>5. resolver' = [resolver EXCEPT !.at = "fetch", !.version = v, !.prove = p]
    BY <2>1, <2>3, <2>4
  <2>6. resolver \in [at : {"idle", "resolve", "fetch", "dispatch"},
                     batch : SUBSET DOMAIN deliveries, version : Nat, prove : Nat]
    BY DEF IntakeInv, IntakeTypes
  <2>7. /\ resolver' \in [at : {"idle", "resolve", "fetch", "dispatch"},
                     batch : SUBSET DOMAIN deliveries, version : Nat, prove : Nat]
        /\ resolver'.at = "fetch" /\ resolver'.batch = resolver.batch /\ resolver'.prove = p
    BY <2>5, <2>6
  <2>8. It' = It
    BY <2>7 DEF It
  <2>9. CASE Order(This_) = "prove"
    <3>1. dispatched # <<>> /\ p = Newest /\ p # 0
      BY <2>2, <2>3, <2>9, NewestRun
    <3>2. Newest' = Newest
      BY <1>0, <2>1 DEF Newest
    <3>3. LaneSound'
      BY <1>0, <2>1, <2>7, <3>1, <3>2 DEF LaneSound, IntakeInv
    <3>4. PollForward'
      BY <1>0, <2>1 DEF IntakeInv, PollForward
    <3> QED BY <1>0, <2>1, <2>7, <3>3, <3>4, PollTypes, LaneStep
  <2>10. CASE Order(This_) # "prove"
    <3>1. p = 0
      BY <2>3, <2>10
    <3>2. Ahead(It)
      <4> SUFFICES ASSUME dispatched # <<>> PROVE Newest < This_.new
        BY DEF Ahead, This_
      <4>1. PICK q : q = deliveries[Last(dispatched)]
        OBVIOUS
      <4>2. This_.old = q.new
        BY <1>3, <2>10, <4>1 DEF Order
      <4> QED BY <1>0, <4>1, <4>2, NewestRun, Working
    <3>3. Ahead(It)'
      BY <1>0, <2>1, <2>8, <3>2 DEF Ahead, Newest
    <3>4. LaneSound'
      BY <1>0, <2>1, <2>7, <3>1, <3>3 DEF LaneSound, IntakeInv
    <3>5. PollForward'
      BY <1>0, <2>1 DEF IntakeInv, PollForward
    <3> QED BY <1>0, <2>1, <2>7, <3>4, <3>5, PollTypes, LaneStep
  <2> QED BY <2>9, <2>10
<1> QED BY <1>1, <1>2, <1>3

\* Another try: the delivery waits or has failed.
LEMMA RetrySettles ==
  ASSUME IntakeInv, resolver.at # "idle", Settle(Retried(This_)),
         UNCHANGED <<branch, wire, binding, dispatched, poll>>
  PROVE  IntakeInv'
<1>0. This_ \in Delivery
  BY Working
<1>1. PICK d \in Delivery : d = Retried(This_) /\ SameMove(d, This_) /\ d.state \in {"failed", This_.state}
  BY <1>0, RetriedRow
<1>2. CASE d.state # "covered"
  BY <1>1, <1>2, SettleQuietly
<1>3. CASE d.state = "covered"
  <2>1. This_.state = "covered"
    BY <1>1, <1>3
  <2>2. \E j \in DOMAIN dispatched : This_.new <= deliveries[dispatched[j]].new
    BY <2>1, Working DEF IntakeInv, CoveredRan, This_
  <2> QED BY <1>1, <2>2, SettleQuietly
<1> QED BY <1>2, <1>3

\* fetch: the network, and the proof that the push is behind.
LEMMA FetchStep ==
  ASSUME IntakeInv, fetch
  PROVE  IntakeInv'
<1>0. resolver.at = "fetch" /\ resolver.at # "idle" /\ UNCHANGED <<branch, wire, binding, dispatched, poll>>
  BY DEF fetch
<1>1. This_ \in Delivery
  BY <1>0, Working
<1>2. IF resolver.prove = 0 THEN Ahead(It)
      ELSE dispatched # <<>> /\ resolver.prove = Newest
  BY <1>0 DEF IntakeInv, LaneSound
<1>3. CASE Settle(Retried(This_))
  BY <1>0, <1>3, RetrySettles
<1>4. CASE TRUE \in Stale(This_) /\ Settled("covered")
  <2>1. PICK d \in Delivery : d = Closed(This_, "covered") /\ SameMove(d, This_)
    BY <1>1, ClosedRow
  <2>2. Settle(d)
    BY <1>4, <2>1 DEF Settled
  <2>3. dispatched # <<>> /\ This_.new <= Newest
    <3>1. resolver.prove # 0 /\ (This_.new = resolver.prove \/ This_.new < resolver.prove)
      BY <1>4 DEF Stale, IsAncestor
    <3>2. dispatched # <<>> /\ resolver.prove = Newest
      BY <1>2, <3>1
    <3> QED BY <1>0, <3>1, <3>2, NewestRun, Working
  <2>4. \E j \in DOMAIN dispatched : This_.new <= deliveries[dispatched[j]].new
    BY <2>3, NewestRun
  <2> QED BY <1>0, <2>1, <2>2, <2>4, SettleQuietly
<1>5. CASE Settled("failed")
  <2>1. PICK d \in Delivery : d = Closed(This_, "failed") /\ SameMove(d, This_) /\ d.state = "failed"
    BY <1>1, ClosedRow
  <2>2. Settle(d)
    BY <1>5, <2>1 DEF Settled
  <2> QED BY <1>0, <2>1, <2>2, SettleQuietly
<1>6. CASE FALSE \in Stale(This_) /\ resolver' = [resolver EXCEPT !.at = "dispatch"] /\ UNCHANGED deliveries
  <2>1. resolver \in [at : {"idle", "resolve", "fetch", "dispatch"},
                     batch : SUBSET DOMAIN deliveries, version : Nat, prove : Nat]
    BY DEF IntakeInv, IntakeTypes
  <2>2. /\ resolver' \in [at : {"idle", "resolve", "fetch", "dispatch"},
                     batch : SUBSET DOMAIN deliveries, version : Nat, prove : Nat]
        /\ resolver'.at = "dispatch" /\ resolver'.batch = resolver.batch
        /\ resolver'.prove = resolver.prove
    BY <1>6, <2>1
  <2>3. Ahead(It) \/ Unproven(It)
    <3>1. CASE resolver.prove = 0
      BY <1>2, <3>1
    <3>2. CASE resolver.prove # 0
      <4>1. dispatched # <<>> /\ resolver.prove = Newest /\ This_.new # Newest
        BY <1>2, <1>6, <3>2 DEF Stale, IsAncestor
      <4>2. Newest \in Nat /\ This_.new \in Nat
        BY <1>0, <4>1, NewestRun, Working
      <4> QED BY <4>1, <4>2 DEF Ahead, Unproven, This_
    <3> QED BY <3>1, <3>2
  <2>4. It' = It
    BY <2>2 DEF It
  <2>5. Ahead(It)' \/ Unproven(It)'
    BY <1>0, <1>6, <2>2, <2>3, <2>4 DEF Ahead, Unproven, Newest
  <2>6. LaneSound'
    BY <1>0, <1>6, <2>2, <2>5 DEF LaneSound, IntakeInv
  <2>7. PollForward'
    BY <1>0, <1>6 DEF IntakeInv, PollForward
  <2> QED BY <1>0, <1>6, <2>2, <2>6, <2>7, PollTypes, LaneStep
<1> QED BY <1>3, <1>4, <1>5, <1>6 DEF fetch

\* dispatch: a run for a commit ahead of the newest run or not proven to precede it, or
\* another try.
LEMMA DispatchStep ==
  ASSUME IntakeInv, dispatch
  PROVE  IntakeInv'
<1>0. resolver.at = "dispatch" /\ resolver.at # "idle" /\ UNCHANGED <<branch, wire, binding, poll>>
  BY DEF dispatch
<1>1. This_ \in Delivery /\ It \in DOMAIN deliveries
  BY <1>0, Working
<1>2. CASE Settle(Retried(This_)) /\ UNCHANGED dispatched
  BY <1>0, <1>2, RetrySettles
<1>3. CASE Settle(Dispatched(This_)) /\ dispatched' = Append(dispatched, It)
  <2>0. /\ This_.new \in Nat /\ resolver.prove \in Nat
        /\ (IF This_.new < resolver.prove THEN resolver.prove ELSE This_.unproven) \in Nat
    BY <1>1 DEF IntakeInv, IntakeTypes, Delivery
  <2>1. PICK d \in Delivery : /\ d = Dispatched(This_) /\ SameMove(d, This_) /\ d.state = "dispatched"
                              /\ This_.new < resolver.prove => d.unproven # 0
    <3>0. PICK c \in Delivery : c = Closed(This_, "dispatched") /\ SameMove(c, This_) /\ c.state = "dispatched"
      BY <1>1, ClosedRow
    <3>1. c.unproven = This_.unproven
      BY <1>1, <3>0 DEF Closed, Delivery
    <3>2. PICK u \in Nat : u = IF This_.new < resolver.prove THEN resolver.prove ELSE This_.unproven
      BY <2>0
    <3>3. Dispatched(This_) = [c EXCEPT !.unproven = u]
      BY <3>0, <3>1, <3>2 DEF Dispatched
    <3>4. (This_.new < resolver.prove => u # 0) /\ (This_.unproven # 0 => u # 0)
      BY <2>0, <3>2
    <3> QED BY <3>0, <3>1, <3>3, <3>4 DEF Delivery, SameMove
  <2>2. Settle(d)
    BY <1>3, <2>1 DEF Settle
  <2>3. /\ Keeps /\ DOMAIN deliveries' = DOMAIN deliveries /\ RowsForward' /\ PollForward' /\ RemoteSound'
        /\ \A i \in DOMAIN deliveries : deliveries'[i] = IF i = It THEN d ELSE deliveries[i]
        /\ It \in DOMAIN deliveries /\ deliveries[It].new # 0
        /\ LaneSound'
        /\ resolver' \in [at : {"idle", "resolve", "fetch", "dispatch"},
                     batch : SUBSET DOMAIN deliveries', version : Nat, prove : Nat]
    BY <1>0, <2>1, <2>2, SettleStep
  <2>4. dispatched \in Seq(DOMAIN deliveries) /\ deliveries \in Seq(Delivery)
    BY DEF IntakeInv, IntakeTypes
  <2>5. PICK n \in Nat : n = Len(dispatched)
    BY <2>4
  <2>6. /\ dispatched' \in Seq(DOMAIN deliveries) /\ DOMAIN dispatched' = 1 .. n + 1
        /\ DOMAIN dispatched = 1 .. n /\ dispatched'[n + 1] = It
        /\ \A j \in 1 .. n : dispatched'[j] = dispatched[j]
    BY <1>1, <1>3, <2>4, <2>5
  <2>7. \A i \in DOMAIN deliveries : deliveries'[i].new = deliveries[i].new /\ deliveries[i].new \in Nat
    <3>1. \A i \in DOMAIN deliveries : deliveries[i] \in Delivery
      BY <2>4
    <3>2. \A i \in DOMAIN deliveries : deliveries[i].new \in Nat
      BY <3>1 DEF Delivery
    <3> QED BY <2>3, <3>2 DEF Keeps, SameMove
  <2>8. \A j \in 1 .. n : dispatched[j] \in DOMAIN deliveries
    BY <2>4, <2>6
  <2>9. n # 0 => Follows(d, deliveries[dispatched[n]])
    <3> SUFFICES ASSUME n # 0 PROVE Follows(d, deliveries[dispatched[n]])
      OBVIOUS
    <3>1. dispatched # <<>> /\ Newest = deliveries[dispatched[n]].new
      BY <2>4, <2>5 DEF Newest
    <3>2. d.new = This_.new /\ This_ = deliveries[It]
      BY <2>1 DEF SameMove, This_
    <3>3. CASE Ahead(It)
      BY <3>1, <3>2, <3>3 DEF Ahead, Follows
    <3>4. CASE Unproven(It)
      <4>1. This_.new < resolver.prove /\ Newest # This_.new
        BY <2>0, <3>1, <3>2, <3>4 DEF Unproven
      <4> QED BY <2>1, <3>1, <3>2, <4>1 DEF Follows
    <3> QED BY <1>0, <3>3, <3>4 DEF IntakeInv, LaneSound
  <2>10. \A i \in DOMAIN deliveries : deliveries[i].unproven # 0 => deliveries'[i].unproven # 0
    BY <2>3 DEF Keeps, SameMove
  <2>11. RunsSound'
    <3>1. ASSUME NEW i \in DOMAIN dispatched' PROVE deliveries'[dispatched'[i]].new # 0
      <4>1. CASE i = n + 1
        BY <2>3, <2>6, <2>7, <4>1
      <4>2. CASE i \in 1 .. n
        BY <2>6, <2>7, <2>8, <4>2 DEF IntakeInv, RunsSound
      <4> QED BY <2>6, <4>1, <4>2
    <3>2. ASSUME NEW i \in DOMAIN dispatched' \ {1}
          PROVE  Follows(deliveries'[dispatched'[i]], deliveries'[dispatched'[i - 1]])
      <4>0. i - 1 \in 1 .. n /\ dispatched'[i - 1] = dispatched[i - 1] /\ dispatched[i - 1] \in DOMAIN deliveries
        BY <2>6, <2>8
      <4>1. CASE i = n + 1
        <5>1. n # 0 /\ i - 1 = n /\ deliveries'[dispatched'[i]] = d
          BY <2>3, <2>6, <4>0, <4>1
        <5> QED BY <2>7, <2>9, <4>0, <5>1 DEF Follows
      <4>2. CASE i \in 1 .. n
        <5>1. Follows(deliveries[dispatched[i]], deliveries[dispatched[i - 1]])
          BY <2>6, <4>2 DEF IntakeInv, RunsSound, RunsMoveForward
        <5>2. dispatched'[i] = dispatched[i] /\ dispatched[i] \in DOMAIN deliveries
          BY <2>6, <2>8, <4>2
        <5> QED BY <2>7, <2>10, <4>0, <5>1, <5>2 DEF Follows
      <4> QED BY <2>6, <4>1, <4>2
    <3>3. RunsMoveForward'
      BY <3>2 DEF RunsMoveForward, Follows
    <3> QED BY <3>1, <3>3 DEF RunsSound
  <2>12. CoveredRan'
    <3> SUFFICES ASSUME NEW i \in DOMAIN deliveries', deliveries'[i].state = "covered"
                 PROVE  \E j \in DOMAIN dispatched' : deliveries'[i].new <= deliveries'[dispatched'[j]].new
      BY DEF CoveredRan
    <3>1. i \in DOMAIN deliveries /\ deliveries[i].state = "covered" /\ deliveries'[i].new = deliveries[i].new
      BY <2>1, <2>3, <2>7
    <3>2. PICK j \in DOMAIN dispatched : deliveries[i].new <= deliveries[dispatched[j]].new
      BY <3>1 DEF IntakeInv, CoveredRan
    <3>3. j \in DOMAIN dispatched' /\ dispatched'[j] = dispatched[j] /\ dispatched[j] \in DOMAIN deliveries
      BY <2>6, <2>8
    <3>4. deliveries'[dispatched[j]].new = deliveries[dispatched[j]].new
      BY <2>7, <3>3
    <3>5. deliveries'[i].new <= deliveries'[dispatched'[j]].new
      BY <3>1, <3>2, <3>3, <3>4
    <3> QED BY <3>3, <3>5
  <2>13. IntakeTypes'
    BY <1>0, <2>3, <2>6 DEF IntakeInv, IntakeTypes, Keeps
  <2> QED BY <2>3, <2>11, <2>12, <2>13 DEF IntakeInv
<1> QED BY <1>2, <1>3 DEF dispatch

\* The invariant of intake: types, moves that lead forward, runs in the order of the branch
\* where Git proves it, a lane that is past the order only with a commit ahead of the newest
\* run or not proven to precede it, a cursor that is never ahead of the remote (intake.rs,
\* resolve.rs, poll.rs).
THEOREM IntakeInvariant == IntakeSpec => []IntakeInv
<1>1. IntakeInit => IntakeInv
  <2> SUFFICES ASSUME IntakeInit PROVE IntakeInv
    OBVIOUS
  <2>0. /\ branch = [at |-> 0, top |-> 0, moves |-> 0] /\ wire = {} /\ deliveries = <<>> /\ dispatched = <<>>
        /\ resolver = [at |-> "idle", batch |-> {}, version |-> 0, prove |-> 0]
        /\ poll = [on |-> FALSE, baselined |-> FALSE, cursor |-> NoCursor, seen |-> FALSE, tip |-> 0]
        /\ binding.version = 1
    BY DEF IntakeInit, Resting, NotPolling
  <2>0a. deliveries \in Seq(Delivery) /\ dispatched \in Seq(DOMAIN deliveries)
    BY <2>0
  <2>0b. NoCursor \in Cursor
    BY DEF NoCursor, Cursor
  <2>0c. poll \in [on : Flag, baselined : Flag, cursor : Cursor, seen : Flag, tip : Nat]
    BY <2>0, <2>0b, Flags
  <2>0d. resolver \in [at : {"idle", "resolve", "fetch", "dispatch"},
                     batch : SUBSET DOMAIN deliveries, version : Nat, prove : Nat]
    BY <2>0
  <2>0e. branch \in [at : Nat, top : Nat, moves : Nat] /\ wire \subseteq [ext : Ext, old : Nat, new : Nat]
         /\ binding.version \in Nat
    BY <2>0
  <2>1. IntakeTypes
    BY <2>0a, <2>0c, <2>0d, <2>0e DEF IntakeTypes
  <2>2. RemoteSound /\ RowsForward /\ PollForward /\ RunsSound /\ LaneSound /\ CoveredRan
    BY DEF IntakeInit, RemoteSound, RowsForward, PollForward, RunsSound, RunsMoveForward, LaneSound, CoveredRan,
           Resting, NotPolling, NoCursor
  <2> QED BY <2>1, <2>2 DEF IntakeInv
<1>2. IntakeInv /\ [IntakeNext]_intakeVars => IntakeInv'
  <2> SUFFICES ASSUME IntakeInv, [IntakeNext]_intakeVars PROVE IntakeInv'
    OBVIOUS
  <2>1. CASE UNCHANGED intakeVars
    <3>1. Holds /\ UNCHANGED <<branch, wire, dispatched, resolver, poll>> /\ binding'.version \in Nat
      BY <2>1, RowsStay DEF intakeVars, IntakeInv, IntakeTypes
    <3> QED BY <3>1, StoreStep
  <2>2. CASE IntakeStep
    <3>1. CASE Push \/ DeleteRef
      BY <3>1, RemoteSteps
    <3>2. CASE \E m \in wire : HookDelivers(m) \/ HookGivesUp(m)
      BY <3>2, HookSteps
    <3>3. CASE purge_settled \/ \E i \in DOMAIN deliveries : TryAgain(i)
      BY <3>3, RowSteps
    <3>4. CASE revoke \/ bind \/ configure \/ disable
      BY <3>4, BindingSteps
    <3>5. CASE ls_remote
      BY <3>5, LookStep
    <3>6. CASE admit
      BY <3>6, AdmitStep
    <3>7. CASE IntakeRestarts
      BY <3>7, RestartStep
    <3>8. CASE resolve_due
      BY <3>8, ValidateStep
    <3>9. CASE ReadReady
      BY <3>9, ReadStep
    <3>10. CASE resolve
      BY <3>10, ResolveStep
    <3>11. CASE fetch
      BY <3>11, FetchStep
    <3>12. CASE dispatch
      BY <3>12, DispatchStep
    <3> QED BY <2>2, <3>1, <3>2, <3>3, <3>4, <3>5, <3>6, <3>7, <3>8, <3>9, <3>10, <3>11, <3>12
        DEF IntakeStep, ResolverStep
  <2> QED BY <2>1, <2>2 DEF IntakeNext
<1> QED BY <1>1, <1>2, PTL DEF IntakeSpec

\* However pushes and polls interleave, get lost, repeat or come late, and whatever Git can
\* prove: a run is for a newer commit than the run before it, or for another one that could
\* not be proven to precede it (resolve.rs order and resolve, is_ancestor).
THEOREM RunsAreInOrder == IntakeSpec => []RunsMoveForward
<1>1. IntakeInv => RunsMoveForward
  BY DEF IntakeInv, RunsSound, RunsMoveForward
<1> QED BY <1>1, IntakeInvariant, PTL

\* A push is dropped only for a run that covers it, and the cursor stands on nothing that
\* was not accepted (resolve.rs order and resolve, polling.rs admit).
THEOREM NoPushIsSkipped == IntakeSpec => []NothingSkipped
<1>1. IntakeInv => NothingSkipped
  BY DEF IntakeInv, CoveredRan, PollForward, NothingSkipped
<1> QED BY <1>1, IntakeInvariant, PTL

------------------------------------------------------------------------------
(***************************************************************************)
(* Access that follows the forge: the inductive invariant.                 *)
(***************************************************************************)
(* What the records consist of.  The schedule (refresh, ready) and what is *)
(* on its way (notes, page) do not matter: whatever they hold, the fences  *)
(* keep.                                                                   *)
ForgeShapes ==
    /\ hub = [inst |-> hub.inst, repo |-> hub.repo, member |-> hub.member,
              access |-> hub.access, moves |-> hub.moves]
    /\ since = [inst |-> since.inst, member |-> since.member, lost |-> since.lost]
    /\ inst = [state |-> inst.state, version |-> inst.version, by |-> inst.by]
    /\ bound = [live |-> bound.live, version |-> bound.version, by |-> bound.by]
    /\ pass = [at |-> pass.at, row |-> pass.row, seq |-> pass.seq, expected |-> pass.expected,
               version |-> pass.version, revoke |-> pass.revoke, answer |-> pass.answer]
    /\ member = [on |-> member.on, stale |-> member.stale]
    /\ check = [there |-> check.there, seq |-> check.seq, next |-> check.next, tries |-> check.tries]
    /\ walk = [at |-> walk.at, seq |-> walk.seq, tries |-> walk.tries, usable |-> walk.usable,
               listed |-> walk.listed, answer |-> walk.answer, sees |-> walk.sees]

(* What is so now has been so since. *)
NowIsSince ==
    /\ hub.inst = "active" => since.inst
    /\ hub.member => since.member
    /\ ~hub.repo => since.lost
    /\ hub.inst = "gone" => since.lost

(* A pass that found the installation active still knows it, unless the    *)
(* row's version has moved on.                                             *)
InstFence ==
    /\ inst.version \in Nat /\ pass.expected \in Nat /\ pass.expected <= inst.version
    /\ pass.at = "apply" /\ pass.answer = "active" /\ pass.expected = inst.version => since.inst
    /\ inst.state = "usable" /\ inst.by = "lane" => since.inst

(* A pass that misses the repository still misses it, unless the binding's *)
(* version has moved on.                                                   *)
BindFence ==
    /\ bound.version \in Nat /\ pass.version \in Nat /\ pass.version <= bound.version
    /\ pass.revoke => pass.at = "apply"
    /\ pass.at = "apply" /\ pass.revoke /\ pass.version = bound.version => since.lost
    /\ pass.at = "apply" /\ pass.answer = "gone" => hub.inst = "gone"
    /\ ~bound.live /\ bound.by = "lane" => since.lost

(* A walk that found a member still knows it, unless the row's number has  *)
(* moved on.  The row is always there, and due while a walk is under way:  *)
(* a sign-in that sweeps a parked row never hands a walk's number out      *)
(* again.                                                                  *)
MemberFence ==
    /\ check.there /\ check.seq \in Nat /\ walk.seq \in Nat /\ walk.seq <= check.seq
    /\ IF walk.at = "idle" THEN walk.seq = 0 ELSE check.next = "due"
    /\ walk.at = "apply" /\ walk.answer = "active" /\ walk.seq = check.seq => since.member
    /\ member.on => since.member

ForgeInv == ForgeShapes /\ NowIsSince /\ InstFence /\ BindFence /\ MemberFence

------------------------------------------------------------------------------
(***************************************************************************)
(* Access that follows the forge: the steps.                               *)
(***************************************************************************)
\* The forge moves: since only grows, and knows where the forge is now.
LEMMA HubStep ==
  ASSUME ForgeInv, NEW c \in Changes, HubMoves(c)
  PROVE  ForgeInv'
<1>0. UNCHANGED <<inst, bound, pass, member, check, walk>> /\ hub.inst # "gone"
  BY DEF HubMoves, reconcileVars, memberVars
<1>1. c.to = [inst |-> c.to.inst, repo |-> c.to.repo, member |-> c.to.member,
              access |-> c.to.access, moves |-> c.to.moves]
  BY DEF Changes, ForgeInv, ForgeShapes
<1>2. PICK h : h = c.to
  OBVIOUS
<1>3. hub' = [inst |-> h.inst, repo |-> h.repo, member |-> h.member,
              access |-> h.access, moves |-> h.moves + 1]
  BY <1>1, <1>2 DEF HubMoves
<1>4. since' = [since EXCEPT !.inst = @ \/ h.inst = "active", !.member = @ \/ h.member,
                             !.lost = @ \/ ~h.repo \/ h.inst = "gone"]
  BY <1>2 DEF HubMoves
<1>5. since' = [inst |-> since.inst \/ h.inst = "active", member |-> since.member \/ h.member,
                lost |-> since.lost \/ ~h.repo \/ h.inst = "gone"]
  BY <1>4 DEF ForgeInv, ForgeShapes
<1>6. ForgeShapes'
  BY <1>0, <1>3, <1>5 DEF ForgeInv, ForgeShapes
<1>7. NowIsSince'
  BY <1>3, <1>5 DEF NowIsSince
<1>8. (since.inst => since'.inst) /\ (since.member => since'.member) /\ (since.lost => since'.lost)
  BY <1>5
<1>9. InstFence'
  BY <1>0, <1>8 DEF ForgeInv, InstFence
<1>10. BindFence'
  BY <1>0, <1>8 DEF ForgeInv, BindFence
<1>11. MemberFence'
  BY <1>0, <1>8 DEF ForgeInv, MemberFence
<1> QED BY <1>6, <1>7, <1>9, <1>10, <1>11 DEF ForgeInv

\* Steps that touch nothing the invariant speaks of.
LEMMA ForgeStays ==
  ASSUME ForgeInv, UNCHANGED <<hub, since, inst, bound, pass, member, check, walk>>
  PROVE  ForgeInv'
<1>1. ForgeShapes' /\ NowIsSince'
  BY DEF ForgeInv, ForgeShapes, NowIsSince
<1>2. InstFence' /\ BindFence' /\ MemberFence'
  BY DEF ForgeInv, InstFence, BindFence, MemberFence
<1> QED BY <1>1, <1>2 DEF ForgeInv

\* A signed event that ends or may end the installation: its version moves on.
LEMMA InstallationEvent ==
  ASSUME ForgeInv, NEW n, accept(n), AcceptInstallation(n)
  PROVE  ForgeInv'
<1>0. UNCHANGED <<hub, bound, pass, member, check, walk>>
      /\ inst' = [state |-> "removed", version |-> inst.version + 1, by |-> inst.by]
  BY DEF accept, AcceptInstallation, memberVars, Disabled
<1>1. since' = [inst |-> hub.inst = "active", member |-> since.member, lost |-> since.lost]
  BY DEF AcceptInstallation, ForgeInv, ForgeShapes
<1>2. ForgeShapes'
  BY <1>0, <1>1 DEF ForgeInv, ForgeShapes
<1>3. NowIsSince'
  BY <1>0, <1>1 DEF ForgeInv, NowIsSince
<1>4. InstFence'
  BY <1>0 DEF ForgeInv, InstFence
<1>5. BindFence'
  BY <1>0, <1>1 DEF ForgeInv, BindFence
<1>6. MemberFence'
  BY <1>0, <1>1 DEF ForgeInv, MemberFence
<1> QED BY <1>2, <1>3, <1>4, <1>5, <1>6 DEF ForgeInv

\* What an event may do to a binding.
LEMMA RevokedBinding ==
  ASSUME ForgeInv, NEW who, NEW b, b = Revoked(bound, who)
  PROVE  /\ b = [live |-> b.live, version |-> b.version, by |-> b.by]
         /\ b.version \in Nat /\ bound.version <= b.version
         /\ b = bound \/ (b.by = who /\ b.version = bound.version + 1)
<1>0. bound.version \in Nat /\ bound = [live |-> bound.live, version |-> bound.version, by |-> bound.by]
  BY DEF ForgeInv, ForgeShapes, BindFence
<1>1. CASE bound.live
  <2>1. PICK v \in Nat : v = bound.version + 1
    BY <1>0
  <2>2. b = [live |-> FALSE, version |-> v, by |-> who]
    BY <1>1, <2>1 DEF Revoked
  <2> QED BY <1>0, <2>1, <2>2
<1>2. CASE ~bound.live
  <2>1. b = bound
    BY <1>2 DEF Revoked
  <2> QED BY <1>0, <2>1
<1> QED BY <1>1, <1>2

LEMMA RepositoryEvents ==
  ASSUME ForgeInv, NEW n, accept(n), AcceptRepositories(n) \/ AcceptRepository(n)
  PROVE  ForgeInv'
<1>0. UNCHANGED <<hub, since, pass, member, check, walk>>
  BY DEF accept, AcceptRepositories, AcceptRepository, memberVars
<1>1. inst' = inst \/ inst' = [inst EXCEPT !.version = @ + 1]
  BY DEF AcceptRepositories, AcceptRepository
<1>2. bound' = bound \/ bound' = Revoked(bound, "event")
  BY DEF AcceptRepositories, AcceptRepository
<1>3. inst' = [state |-> inst'.state, version |-> inst'.version, by |-> inst'.by]
      /\ inst'.state = inst.state /\ inst'.by = inst.by
      /\ (inst'.version = inst.version \/ inst'.version = inst.version + 1)
  BY <1>1 DEF ForgeInv, ForgeShapes
<1>4. /\ bound' = [live |-> bound'.live, version |-> bound'.version, by |-> bound'.by]
      /\ bound'.version \in Nat /\ bound.version <= bound'.version
      /\ bound' = bound \/ (bound'.by = "event" /\ bound'.version = bound.version + 1)
  <2>1. CASE bound' = bound
    BY <2>1 DEF ForgeInv, ForgeShapes, BindFence
  <2>2. CASE bound' = Revoked(bound, "event")
    BY <2>2, RevokedBinding
  <2> QED BY <1>2, <2>1, <2>2
<1>5. ForgeShapes'
  BY <1>0, <1>3, <1>4 DEF ForgeInv, ForgeShapes
<1>6. NowIsSince' /\ MemberFence'
  BY <1>0 DEF ForgeInv, NowIsSince, MemberFence
<1>7. InstFence'
  BY <1>0, <1>3 DEF ForgeInv, InstFence
<1>8. BindFence'
  BY <1>0, <1>4 DEF ForgeInv, BindFence
<1> QED BY <1>5, <1>6, <1>7, <1>8 DEF ForgeInv

\* The pair is queued again, under a new number.
LEMMA PairQueued ==
  ASSUME ForgeInv, NEW k, k = Pair(check)
  PROVE  /\ k = [there |-> TRUE, seq |-> check.seq + 1, next |-> "due", tries |-> check.tries]
         /\ check.seq + 1 \in Nat
<1>1. check.there /\ check.seq \in Nat
  BY DEF ForgeInv, MemberFence
<1>2. k = [check EXCEPT !.there = TRUE, !.seq = check.seq + 1, !.next = "due", !.tries = check.tries]
  BY <1>1 DEF Pair
<1>3. check = [there |-> check.there, seq |-> check.seq, next |-> check.next, tries |-> check.tries]
  BY DEF ForgeInv, ForgeShapes
<1>4. k = [there |-> TRUE, seq |-> check.seq + 1, next |-> "due", tries |-> check.tries]
  BY <1>2, <1>3
<1> QED BY <1>1, <1>4

LEMMA MemberEvent ==
  ASSUME ForgeInv, NEW n, accept(n), AcceptMembers(n)
  PROVE  ForgeInv'
<1>0. UNCHANGED <<hub, inst, bound, pass, walk>> /\ check' = Pair(check)
  BY DEF accept, AcceptMembers
<1>1. check' = [there |-> TRUE, seq |-> check.seq + 1, next |-> "due", tries |-> check.tries]
      /\ check.seq + 1 \in Nat
  BY <1>0, PairQueued
<1>2. /\ since' = [inst |-> since.inst, member |-> since'.member, lost |-> since.lost]
      /\ member' = [on |-> member'.on, stale |-> member'.stale]
      /\ hub.member => since'.member
      /\ member'.on => since'.member
  <2>1. CASE n.removed
    <3>1. member' = Absent /\ since' = [since EXCEPT !.member = hub.member]
      BY <2>1 DEF AcceptMembers
    <3>2. since' = [inst |-> since.inst, member |-> hub.member, lost |-> since.lost]
      BY <3>1 DEF ForgeInv, ForgeShapes
    <3> QED BY <3>1, <3>2 DEF Absent
  <2>2. CASE ~n.removed
    <3>1. UNCHANGED <<member, since>>
      BY <2>2 DEF AcceptMembers
    <3> QED BY <3>1 DEF ForgeInv, ForgeShapes, NowIsSince, MemberFence
  <2> QED BY <2>1, <2>2
<1>3. ForgeShapes'
  BY <1>0, <1>1, <1>2 DEF ForgeInv, ForgeShapes
<1>4. since'.inst = since.inst /\ since'.lost = since.lost
  BY <1>2
<1>5. NowIsSince'
  BY <1>0, <1>2, <1>4 DEF ForgeInv, NowIsSince
<1>6. InstFence' /\ BindFence'
  BY <1>0, <1>4 DEF ForgeInv, InstFence, BindFence
<1>7. MemberFence'
  BY <1>0, <1>1, <1>2 DEF ForgeInv, MemberFence
<1> QED BY <1>3, <1>5, <1>6, <1>7 DEF ForgeInv

\* The reconcile lane goes on without a write: it must know what it may answer for.
LEMMA PassStep ==
  ASSUME ForgeInv, UNCHANGED <<hub, since, inst, bound, member, check, walk>>,
         pass' = [at |-> pass'.at, row |-> pass'.row, seq |-> pass'.seq, expected |-> pass'.expected,
                  version |-> pass'.version, revoke |-> pass'.revoke, answer |-> pass'.answer],
         pass'.expected \in Nat, pass'.expected <= inst.version,
         pass'.version \in Nat, pass'.version <= bound.version,
         pass'.at = "apply" /\ pass'.answer = "active" => since.inst,
         pass'.revoke => pass'.at = "apply" /\ since.lost,
         pass'.at = "apply" /\ pass'.answer = "gone" => hub.inst = "gone"
  PROVE  ForgeInv'
<1>1. ForgeShapes' /\ NowIsSince'
  BY DEF ForgeInv, ForgeShapes, NowIsSince
<1>2. InstFence'
  BY DEF ForgeInv, InstFence
<1>3. BindFence'
  BY DEF ForgeInv, BindFence
<1>4. MemberFence'
  BY DEF ForgeInv, MemberFence
<1> QED BY <1>1, <1>2, <1>3, <1>4 DEF ForgeInv

LEMMA PassFacts ==
  ASSUME ForgeInv
  PROVE  /\ pass = [at |-> pass.at, row |-> pass.row, seq |-> pass.seq, expected |-> pass.expected,
                    version |-> pass.version, revoke |-> pass.revoke, answer |-> pass.answer]
         /\ pass.expected \in Nat /\ pass.expected <= inst.version /\ inst.version \in Nat
         /\ pass.version \in Nat /\ pass.version <= bound.version /\ bound.version \in Nat
         /\ (hub.inst = "active" => since.inst) /\ (~hub.repo => since.lost)
         /\ (pass.at # "apply" => ~pass.revoke)
  BY DEF ForgeInv, ForgeShapes, NowIsSince, InstFence, BindFence

\* The lane reads its row, the version of the installation and that of the binding.
LEMMA PassReads ==
  ASSUME ForgeInv, ReconcileReads
  PROVE  ForgeInv'
<1>0. UNCHANGED <<hub, since, inst, bound, member, check, walk>>
  BY DEF ReconcileReads, memberVars
<1>1. PICK r : r = Head(ready)
  OBVIOUS
<1>2. PICK a \in {"finish", "ask"} : a = IF r = "repo" /\ ~bound.live THEN "finish" ELSE "ask"
  OBVIOUS
<1>3. PICK q : q = refresh[r].seq
  OBVIOUS
<1>4. pass' = [NoPass EXCEPT !.at = a, !.row = r, !.seq = q,
                             !.expected = inst.version, !.version = bound.version]
  BY <1>1, <1>2, <1>3 DEF ReconcileReads
<1>5. pass' = [at |-> a, row |-> r, seq |-> q, expected |-> inst.version,
               version |-> bound.version, revoke |-> FALSE, answer |-> "none"]
  BY <1>4 DEF NoPass
<1>6. inst.version <= inst.version /\ bound.version <= bound.version
  BY PassFacts
<1> QED BY <1>0, <1>5, <1>6, PassFacts, PassStep

\* An answer that the lane may only retry, or that shows how the forge is now.
LEMMA PassAnswers ==
  ASSUME ForgeInv, NEW a, Answers(a), UNCHANGED <<hub, since, inst, bound, member, check, walk>>,
         ~pass.revoke, a # "active", a = "gone" => hub.inst = "gone"
  PROVE  ForgeInv'
<1>1. pass' = [at |-> "apply", row |-> pass.row, seq |-> pass.seq, expected |-> pass.expected,
               version |-> pass.version, revoke |-> pass.revoke, answer |-> a]
  BY PassFacts DEF Answers
<1> QED BY <1>1, PassFacts, PassStep

LEMMA PassAsks ==
  ASSUME ForgeInv, AskInstallation \/ ListRepositories \/ AskRepository
  PROVE  ForgeInv'
<1>0. UNCHANGED <<hub, since, inst, bound, member, check, walk>> /\ ~pass.revoke
  BY PassFacts DEF AskInstallation, ListRepositories, AskRepository, memberVars
<1>1. ASSUME NEW v \in Nat, v <= bound.version,
             pass' = [pass EXCEPT !.at = "list", !.version = v]
      PROVE  ForgeInv'
  <2>1. pass' = [at |-> "list", row |-> pass.row, seq |-> pass.seq, expected |-> pass.expected,
                 version |-> v, revoke |-> pass.revoke, answer |-> pass.answer]
    BY <1>1, PassFacts
  <2> QED BY <1>0, <1>1, <2>1, PassFacts, PassStep
<1>2. ASSUME NEW a \in {"active", "state"}, hub.inst = "active",
             pass' = [pass EXCEPT !.at = "apply", !.answer = a, !.revoke = ~hub.repo]
      PROVE  ForgeInv'
  <2>1. PICK lost : lost = ~hub.repo
    OBVIOUS
  <2>2. pass' = [at |-> "apply", row |-> pass.row, seq |-> pass.seq, expected |-> pass.expected,
                 version |-> pass.version, revoke |-> lost, answer |-> a]
    BY <1>2, <2>1, PassFacts
  <2>3. pass'.revoke => since.lost
    BY <2>1, <2>2, PassFacts
  <2> QED BY <1>0, <1>2, <2>2, <2>3, PassFacts, PassStep
<1>3. ASSUME NEW a, Answers(a), a # "active", a = "gone" => hub.inst = "gone"
      PROVE  ForgeInv'
  BY <1>0, <1>3, PassAnswers
<1>4. CASE AskInstallation
  <2>1. CASE Answers("retry")
    BY <1>3, <2>1
  <2>2. CASE hub.inst # "active" /\ Answers(hub.inst)
    BY <1>3, <2>2
  <2>3. CASE pass' = [pass EXCEPT !.at = "list", !.version = IF bound.live THEN bound.version ELSE 0]
    <3>1. PICK v \in Nat : v = IF bound.live THEN bound.version ELSE 0
      BY PassFacts
    <3>2. v <= bound.version
      BY <3>1, PassFacts
    <3> QED BY <1>1, <2>3, <3>1, <3>2
  <2> QED BY <1>4, <2>1, <2>2, <2>3 DEF AskInstallation
<1>5. CASE ListRepositories
  <2>1. CASE Answers("retry")
    BY <1>3, <2>1
  <2>2. CASE hub.inst = "active" /\ pass' = [pass EXCEPT !.at = "apply", !.answer = "active", !.revoke = ~hub.repo]
    BY <1>2, <2>2
  <2> QED BY <1>5, <2>1, <2>2 DEF ListRepositories
<1>6. CASE AskRepository
  <2>1. CASE Answers("retry")
    BY <1>3, <2>1
  <2>2. CASE hub.inst = "gone" /\ Answers("gone")
    BY <1>3, <2>2
  <2>3. CASE Answers("refused")
    BY <1>3, <2>3
  <2>4. CASE hub.inst = "active" /\ pass' = [pass EXCEPT !.at = "apply", !.answer = "state", !.revoke = ~hub.repo]
    BY <1>2, <2>4
  <2> QED BY <1>6, <2>1, <2>2, <2>3, <2>4 DEF AskRepository
<1> QED BY <1>4, <1>5, <1>6

\* The lane's pass is over: it finished its row, failed, or the process restarted.
LEMMA PassOver ==
  ASSUME ForgeInv, ReconcileFinishes \/ ReconcileLost
  PROVE  ForgeInv'
<1>1. UNCHANGED <<hub, since, inst, bound, member, check, walk>>
      /\ pass' = [at |-> "idle", row |-> "inst", seq |-> 0, expected |-> 0, version |-> 0,
                  revoke |-> FALSE, answer |-> "none"]
  BY DEF ReconcileFinishes, ReconcileLost, memberVars, NoPass
<1> QED BY <1>1, PassFacts, PassStep

\* The lane writes what it saw: under the version it asked under, or what the row says
\* already; a repository that is missed ends only the binding it was missed for.
LEMMA PassWrites ==
  ASSUME ForgeInv, ReconcileApplies
  PROVE  ForgeInv'
<1>0. UNCHANGED <<hub, since, member, check, walk>> /\ pass.at = "apply"
      /\ pass' = [at |-> "idle", row |-> "inst", seq |-> 0, expected |-> 0, version |-> 0,
                  revoke |-> FALSE, answer |-> "none"]
  BY DEF ReconcileApplies, memberVars, NoPass
<1>1. /\ inst' = [state |-> inst'.state, version |-> inst'.version, by |-> inst'.by]
      /\ inst'.version \in Nat
      /\ inst'.state = "usable" /\ inst'.by = "lane" => since.inst
  <2>0. inst = [state |-> inst.state, version |-> inst.version, by |-> inst.by]
        /\ inst.version \in Nat /\ (inst.state = "usable" /\ inst.by = "lane" => since.inst)
    BY DEF ForgeInv, ForgeShapes, InstFence
  <2>1. CASE inst' = inst
    BY <2>0, <2>1
  <2>2. CASE inst' = Disabled(inst)
    BY <2>0, <2>2 DEF Disabled
  <2>3. CASE inst' # inst /\ inst' = Refreshed(pass.answer, "lane") /\ Refreshes(pass.answer, pass.expected)
    <3>1. inst' = [state |-> Shows(pass.answer), version |-> inst.version + 1, by |-> "lane"]
          /\ inst.version = pass.expected
      BY <2>3 DEF Refreshed, Refreshes
    <3>2. Shows(pass.answer) = "usable" => pass.answer = "active"
      BY DEF Shows
    <3>3. pass.answer = "active" => since.inst
      BY <1>0, <3>1 DEF ForgeInv, InstFence
    <3> QED BY <2>0, <3>1, <3>2, <3>3
  <2>4. inst' = inst \/ inst' = Disabled(inst)
          \/ (inst' = Refreshed(pass.answer, "lane") /\ Refreshes(pass.answer, pass.expected))
    BY DEF ReconcileApplies, apply_installation, installation_gone, apply_repository, RefusedToken, RetryLater
  <2> QED BY <2>1, <2>2, <2>3, <2>4
<1>2. /\ bound' = [live |-> bound'.live, version |-> bound'.version, by |-> bound'.by]
      /\ bound'.version \in Nat
      /\ ~bound'.live /\ bound'.by = "lane" => since.lost
  <2>0. bound = [live |-> bound.live, version |-> bound.version, by |-> bound.by]
        /\ bound.version \in Nat /\ (~bound.live /\ bound.by = "lane" => since.lost)
    BY DEF ForgeInv, ForgeShapes, BindFence
  <2>1. CASE bound' = bound
    BY <2>0, <2>1
  <2>2. CASE bound' = Revoked(bound, "lane") /\ since.lost
    BY <2>2, RevokedBinding
  <2>3. bound' = bound \/ (pass.answer = "gone" /\ bound' = Revoked(bound, "lane"))
          \/ (pass.revoke /\ bound' = RevokedAt(bound, pass.version))
    BY DEF ReconcileApplies, apply_installation, installation_gone, apply_repository, RefusedToken, RetryLater
  <2>4. CASE pass.answer = "gone" /\ bound' = Revoked(bound, "lane")
    BY <1>0, <2>2, <2>4 DEF ForgeInv, BindFence, NowIsSince
  <2>5. CASE pass.revoke /\ bound' = RevokedAt(bound, pass.version) /\ bound' # bound
    <3>1. bound' = Revoked(bound, "lane") /\ bound.version = pass.version
      BY <2>5 DEF RevokedAt
    <3> QED BY <1>0, <2>2, <2>5, <3>1 DEF ForgeInv, BindFence
  <2> QED BY <2>1, <2>3, <2>4, <2>5
<1>3. ForgeShapes'
  BY <1>0, <1>1, <1>2 DEF ForgeInv, ForgeShapes
<1>4. NowIsSince' /\ MemberFence'
  BY <1>0 DEF ForgeInv, NowIsSince, MemberFence
<1>5. InstFence'
  BY <1>0, <1>1 DEF InstFence
<1>6. BindFence'
  BY <1>0, <1>2 DEF BindFence
<1> QED BY <1>3, <1>4, <1>5, <1>6 DEF ForgeInv

\* An operator binds the repository again: a new version, with what is missed now.
LEMMA RebindStep ==
  ASSUME ForgeInv, rebind
  PROVE  ForgeInv'
<1>0. UNCHANGED <<hub, inst, pass, member, check, walk>>
      /\ bound' = [live |-> TRUE, version |-> bound.version + 1, by |-> "none"]
  BY DEF rebind, reconcileVars, memberVars
<1>1. since' = [inst |-> since.inst, member |-> since.member, lost |-> ~hub.repo \/ hub.inst = "gone"]
  BY DEF rebind, ForgeInv, ForgeShapes
<1>2. ForgeShapes'
  BY <1>0, <1>1 DEF ForgeInv, ForgeShapes
<1>3. NowIsSince'
  BY <1>0, <1>1 DEF ForgeInv, NowIsSince
<1>4. InstFence' /\ MemberFence'
  BY <1>0, <1>1 DEF ForgeInv, InstFence, MemberFence
<1>5. BindFence'
  BY <1>0 DEF ForgeInv, BindFence
<1> QED BY <1>2, <1>3, <1>4, <1>5 DEF ForgeInv

\* The installation page records its snapshot under its own name.
LEMMA PageStep ==
  ASSUME ForgeInv, PageBinds
  PROVE  ForgeInv'
<1>0. UNCHANGED <<hub, since, bound, pass, member, check, walk>> /\ inst' = Refreshed(page, "page")
  BY DEF PageBinds, reconcileVars, memberVars
<1>1. CASE inst' = inst
  BY <1>0, <1>1, ForgeStays
<1>2. CASE inst' # inst
  <2>1. PICK st : inst' = [state |-> st, version |-> inst.version + 1, by |-> "page"]
    BY <1>0, <1>2 DEF Refreshed
  <2>2. ForgeShapes'
    BY <1>0, <2>1 DEF ForgeInv, ForgeShapes
  <2>3. NowIsSince' /\ BindFence' /\ MemberFence'
    BY <1>0 DEF ForgeInv, NowIsSince, BindFence, MemberFence
  <2>4. InstFence'
    BY <1>0, <2>1 DEF ForgeInv, InstFence
  <2> QED BY <2>2, <2>3, <2>4 DEF ForgeInv
<1> QED BY <1>1, <1>2

\* The members' side goes on: the rest is untouched.
LEMMA MemberStep ==
  ASSUME ForgeInv, UNCHANGED <<hub, since, inst, bound, pass>>, MemberFence',
         member' = [on |-> member'.on, stale |-> member'.stale],
         check' = [there |-> check'.there, seq |-> check'.seq, next |-> check'.next, tries |-> check'.tries],
         walk' = [at |-> walk'.at, seq |-> walk'.seq, tries |-> walk'.tries, usable |-> walk'.usable,
                  listed |-> walk'.listed, answer |-> walk'.answer, sees |-> walk'.sees]
  PROVE  ForgeInv'
<1>1. ForgeShapes' /\ NowIsSince'
  BY DEF ForgeInv, ForgeShapes, NowIsSince
<1>2. InstFence' /\ BindFence'
  BY DEF ForgeInv, InstFence, BindFence
<1> QED BY <1>1, <1>2 DEF ForgeInv

LEMMA MemberFacts ==
  ASSUME ForgeInv
  PROVE  /\ member = [on |-> member.on, stale |-> member.stale]
         /\ check = [there |-> check.there, seq |-> check.seq, next |-> check.next, tries |-> check.tries]
         /\ walk = [at |-> walk.at, seq |-> walk.seq, tries |-> walk.tries, usable |-> walk.usable,
                    listed |-> walk.listed, answer |-> walk.answer, sees |-> walk.sees]
  BY DEF ForgeInv, ForgeShapes

\* A sign-in queues the pair; a row that is parked is numbered anew, but then no walk is
\* under way.
LEMMA SignInStep ==
  ASSUME ForgeInv, SignIn
  PROVE  ForgeInv'
<1>0. UNCHANGED <<hub, since, inst, bound, pass, member, walk>>
  BY DEF SignIn, reconcileVars
<1>1. CASE check.next # "parked"
  <2>1. check' = Pair(check)
    BY <1>1 DEF SignIn
  <2>2. check' = [there |-> TRUE, seq |-> check.seq + 1, next |-> "due", tries |-> check.tries]
        /\ check.seq + 1 \in Nat
    BY <2>1, PairQueued
  <2>3. MemberFence'
    BY <1>0, <2>2 DEF ForgeInv, MemberFence
  <2> QED BY <1>0, <2>2, <2>3, MemberFacts, MemberStep
<1>2. CASE check.next = "parked"
  <2>1. PICK k : k = [check EXCEPT !.there = FALSE]
    OBVIOUS
  <2>2. k = [there |-> FALSE, seq |-> check.seq, next |-> check.next, tries |-> check.tries]
    BY <2>1, MemberFacts
  <2>3. check' = [k EXCEPT !.there = TRUE, !.seq = 1, !.next = "due", !.tries = 0]
    BY <1>2, <2>1, <2>2 DEF SignIn, Pair
  <2>4. check' = [there |-> TRUE, seq |-> 1, next |-> "due", tries |-> 0]
    BY <2>2, <2>3
  <2>5. walk.at = "idle"
    BY <1>2 DEF ForgeInv, MemberFence
  <2>6. walk.seq <= 1
    BY <2>5 DEF ForgeInv, MemberFence
  <2>7. MemberFence'
    BY <1>0, <2>4, <2>5, <2>6 DEF ForgeInv, MemberFence
  <2> QED BY <1>0, <2>4, <2>7, MemberFacts, MemberStep
<1> QED BY <1>1, <1>2

\* Time passes for the row, the membership and the grant.
LEMMA ClockSteps ==
  ASSUME ForgeInv, CheckDue \/ GracePasses
  PROVE  ForgeInv'
<1>0. UNCHANGED <<hub, since, inst, bound, pass, walk>>
  BY DEF CheckDue, GracePasses, reconcileVars
<1>1. CASE CheckDue
  <2>1. UNCHANGED member /\ check' = [check EXCEPT !.next = "due"]
    BY <1>1 DEF CheckDue
  <2>2. check' = [there |-> check.there, seq |-> check.seq, next |-> "due", tries |-> check.tries]
    BY <2>1, MemberFacts
  <2>3. MemberFence'
    BY <1>0, <2>1, <2>2 DEF ForgeInv, MemberFence
  <2> QED BY <1>0, <2>1, <2>2, <2>3, MemberFacts, MemberStep
<1>2. CASE GracePasses
  <2>1. UNCHANGED check /\ (member' = member \/ member' = [member EXCEPT !.stale = TRUE])
    BY <1>2 DEF GracePasses
  <2>2. member' = [on |-> member'.on, stale |-> member'.stale] /\ member'.on = member.on
    BY <2>1, MemberFacts
  <2>3. MemberFence'
    BY <1>0, <2>1, <2>2 DEF ForgeInv, MemberFence
  <2> QED BY <1>0, <2>1, <2>2, <2>3, MemberFacts, MemberStep
<1> QED BY <1>1, <1>2

\* The members lane reads its row, asks, and ends without a write.
LEMMA WalkSteps ==
  ASSUME ForgeInv, WalkReads \/ WalkAsks \/ WalkLost
  PROVE  ForgeInv'
<1>0. UNCHANGED <<hub, since, inst, bound, pass, member, check>>
  BY DEF WalkReads, WalkAsks, WalkLost, reconcileVars
<1>1. CASE WalkReads
  <2>1. PICK u, l : u = (inst.state = "usable") /\ l = bound.live
    OBVIOUS
  <2>2. walk' = [NoWalk EXCEPT !.at = "ask", !.seq = check.seq, !.tries = check.tries, !.usable = u, !.listed = l]
    BY <1>1, <2>1 DEF WalkReads
  <2>3. walk' = [at |-> "ask", seq |-> check.seq, tries |-> check.tries, usable |-> u, listed |-> l,
                 answer |-> "none", sees |-> "none"]
    BY <2>2 DEF NoWalk
  <2>4. check.next = "due"
    BY <1>1 DEF WalkReads
  <2>5. MemberFence'
    BY <1>0, <2>3, <2>4 DEF ForgeInv, MemberFence
  <2> QED BY <1>0, <2>3, <2>5, MemberFacts, MemberStep
<1>2. CASE WalkAsks
  <2>1. PICK a, s : Learns(a, s) /\ (a = "active" => hub.member) /\ walk.at = "ask"
    BY <1>2 DEF WalkAsks
  <2>2. walk' = [at |-> "apply", seq |-> walk.seq, tries |-> walk.tries, usable |-> walk.usable,
                 listed |-> walk.listed, answer |-> a, sees |-> s]
    BY <2>1, MemberFacts DEF Learns
  <2>3. MemberFence'
    BY <1>0, <2>1, <2>2 DEF ForgeInv, MemberFence, NowIsSince
  <2> QED BY <1>0, <2>2, <2>3, MemberFacts, MemberStep
<1>3. CASE WalkLost
  <2>1. walk' = [at |-> "idle", seq |-> 0, tries |-> 0, usable |-> FALSE, listed |-> FALSE,
                 answer |-> "none", sees |-> "none"]
    BY <1>3 DEF WalkLost, NoWalk
  <2>2. MemberFence'
    BY <1>0, <2>1 DEF ForgeInv, MemberFence
  <2> QED BY <1>0, <2>1, <2>2, MemberFacts, MemberStep
<1> QED BY <1>1, <1>2, <1>3

\* The members lane writes: only if its number is still the row's.
LEMMA WalkWrites ==
  ASSUME ForgeInv, WalkApplies
  PROVE  ForgeInv'
<1>0. UNCHANGED <<hub, since, inst, bound, pass>> /\ walk.at = "apply"
      /\ walk' = [at |-> "idle", seq |-> 0, tries |-> 0, usable |-> FALSE, listed |-> FALSE,
                  answer |-> "none", sees |-> "none"]
  BY DEF WalkApplies, NoWalk, reconcileVars
<1>1. check' = [there |-> check'.there, seq |-> check'.seq, next |-> check'.next, tries |-> check'.tries]
      /\ check'.there = check.there /\ check'.seq = check.seq
  <2>1. CASE check' = check
    BY <2>1, MemberFacts
  <2>2. ASSUME NEW n, NEW t, check' = [check EXCEPT !.next = n, !.tries = t]
        PROVE  check' = [there |-> check.there, seq |-> check.seq, next |-> n, tries |-> t]
    BY <2>2, MemberFacts
  <2>3. check' = check \/ check' = Parked \/ check' = Recheck \/ check' = Retry
    BY DEF WalkApplies, WalkActive, WalkUnknown, RemoveDerived
  <2>4. check' = check \/ \E n, t : check' = [check EXCEPT !.next = n, !.tries = t]
    <3>1. CASE check' = Parked \/ check' = Recheck
      BY <3>1 DEF Parked, Recheck
    <3>2. CASE check' = Retry
      <4>1. PICK t : t = IF walk.tries < MaxCandidate THEN walk.tries + 1 ELSE check.tries
        OBVIOUS
      <4>2. check' = [check EXCEPT !.next = "later", !.tries = t]
        BY <3>2, <4>1 DEF Retry
      <4> QED BY <4>2
    <3> QED BY <2>3, <3>1, <3>2
  <2> QED BY <2>1, <2>2, <2>4
<1>2. member' = [on |-> member'.on, stale |-> member'.stale] /\ (member'.on => since.member)
  <2>0. member.on => since.member
    BY DEF ForgeInv, MemberFence
  <2>1. CASE member' = member
    BY <2>0, <2>1, MemberFacts
  <2>2. CASE member' = Absent
    BY <2>2 DEF Absent
  <2>3. CASE ~superseded /\ walk.answer = "active" /\ member' = [on |-> TRUE, stale |-> FALSE]
    BY <1>0, <2>3 DEF superseded, ForgeInv, MemberFence
  <2> QED BY <2>1, <2>2, <2>3 DEF WalkApplies, WalkActive, WalkUnknown, RemoveDerived
<1>3. MemberFence'
  BY <1>0, <1>1, <1>2 DEF ForgeInv, MemberFence
<1> QED BY <1>0, <1>1, <1>2, <1>3, MemberStep

\* The invariant of access: what the forge says now counts since the last signed removal or
\* bind, and a pass may write only what it still knows (github/refresh, github/members).
THEOREM ForgeInvariant == ForgeSpec => []ForgeInv
<1>1. ForgeInit => ForgeInv
  <2> SUFFICES ASSUME ForgeInit PROVE ForgeInv
    OBVIOUS
  <2>1. ForgeShapes
    BY DEF ForgeInit, ForgeShapes, NoPass, NoWalk
  <2>2. NowIsSince /\ InstFence /\ BindFence /\ MemberFence
    BY DEF ForgeInit, NowIsSince, InstFence, BindFence, MemberFence, NoPass, NoWalk
  <2> QED BY <2>1, <2>2 DEF ForgeInv
<1>2. ForgeInv /\ [ForgeNext]_forgeVars => ForgeInv'
  <2> SUFFICES ASSUME ForgeInv, [ForgeNext]_forgeVars PROVE ForgeInv'
    OBVIOUS
  <2>1. CASE UNCHANGED forgeVars
    BY <2>1, ForgeStays DEF forgeVars
  <2>2. CASE ForgeStep
    <3>1. CASE \E c \in Changes : HubMoves(c)
      BY <3>1, HubStep
    <3>2. CASE \E n \in notes : NoteLost(n)
      BY <3>2, ForgeStays DEF NoteLost, reconcileVars, memberVars
    <3>3. CASE \E n \in notes : accept(n)
      <4>1. PICK n : accept(n)
        BY <3>3
      <4> QED BY <4>1, InstallationEvent, RepositoryEvents, MemberEvent DEF accept
    <3>4. CASE ReconcileReads
      BY <3>4, PassReads
    <3>5. CASE AskInstallation \/ ListRepositories \/ AskRepository
      BY <3>5, PassAsks
    <3>6. CASE ReconcileApplies
      BY <3>6, PassWrites
    <3>7. CASE ReconcileFinishes \/ ReconcileLost
      BY <3>7, PassOver
    <3>8. CASE \E r \in {"inst", "repo"} : RefreshDue(r)
      BY <3>8, ForgeStays DEF RefreshDue, memberVars
    <3>9. CASE rebind
      BY <3>9, RebindStep
    <3>10. CASE PageAsks
      BY <3>10, ForgeStays DEF PageAsks, reconcileVars, memberVars
    <3>11. CASE PageBinds
      BY <3>11, PageStep
    <3>12. CASE SignIn
      BY <3>12, SignInStep
    <3>13. CASE WalkReads \/ WalkAsks \/ WalkLost
      BY <3>13, WalkSteps
    <3>14. CASE WalkApplies
      BY <3>14, WalkWrites
    <3>15. CASE CheckDue \/ GracePasses
      BY <3>15, ClockSteps
    <3> QED BY <2>2, <3>1, <3>2, <3>3, <3>4, <3>5, <3>6, <3>7, <3>8, <3>9, <3>10, <3>11, <3>12,
               <3>13, <3>14, <3>15 DEF ForgeStep, ReconcileStep, WalkStep
  <2> QED BY <2>1, <2>2 DEF ForgeNext
<1> QED BY <1>1, <1>2, PTL DEF ForgeSpec

\* Whatever the lanes saw before: a signed removal of a person or of the installation is
\* undone only after the forge itself was the other way (superseded, lifecycle_version).
THEOREM RemovalsHold == ForgeSpec => []SignedRemovalHolds
<1>1. ForgeInv => SignedRemovalHolds
  BY DEF ForgeInv, InstFence, MemberFence, SignedRemovalHolds
<1> QED BY <1>1, ForgeInvariant, PTL

\* A lane ends a binding only if the repository was out of reach since it was made
\* (revoke_binding's version).
THEOREM BindingsEndForCause == ForgeSpec => []LaneEndsOnlyLost
<1>1. ForgeInv => LaneEndsOnlyLost
  BY DEF ForgeInv, BindFence, LaneEndsOnlyLost
<1> QED BY <1>1, ForgeInvariant, PTL
=============================================================================

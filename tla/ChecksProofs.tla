---------------------------- MODULE ChecksProofs ----------------------------
(***************************************************************************)
(* The proofs of Checks: for any outbox, any number of generations and any *)
(* troubles, no check run is created twice or left open behind a newer     *)
(* one, and a published verdict is what its check run shows.               *)
(*                                                                         *)
(* The lane works from snapshots.  A row with a snapshot in the batch      *)
(* stays pending until its outcome is written, so no generation can drop   *)
(* its handle meanwhile: what the snapshot says of handle and mark is      *)
(* still so, and the run it leads to is the newest one.                    *)
(***************************************************************************)
EXTENDS Checks, TLAPS, WellFoundedInduction, FiniteSetTheorems

\* Truth values, as a set the proofs do not look into.
Flag == BOOLEAN

RowOf == [seq : Nat, published : Nat, status : Shown, handle : Nat, createSeq : Nat,
          state : {"pending", "published", "refused"}, attempts : Nat, waits : Flag,
          exhausted : Flag]
RunOf == [ident : Nat, shows : Shown, gen : Nat]
SnapshotOf == [key : Checked, seq : Nat, status : Shown, handle : Nat, createSeq : Nat]
LaneOf == [at : {"idle", "publish", "create", "record", "close"}, todo : SUBSET SnapshotOf,
           limited : {"no", "yes", "passed"}, held : SUBSET (Checked \X Nat),
           answer : {"none", "ok", "retry", "throttled", "refused"}, run : Nat]

CheckTypes ==
    /\ outbox \in Outboxes
    /\ row \in [Checked -> RowOf]
    /\ forge \in [Checked -> Seq(RunOf)]
    /\ lane \in LaneOf

Ended(f) == \A i \in DOMAIN f : Completed(f[i].shows)
Before(f, n) == \A i \in DOMAIN f : f[i].ident < n

(* The check runs of a row: all but the newest are completed, and each was *)
(* created for a later generation than the one before.                     *)
Ordered(r) ==
    /\ row[r].seq # 0
    /\ \A i \in DOMAIN forge[r] : i # Len(forge[r]) => Completed(forge[r][i].shows)
    /\ \A i, j \in DOMAIN forge[r] : i < j => forge[r][i].ident < forge[r][j].ident
    /\ \A i \in DOMAIN forge[r] : forge[r][i].ident <= row[r].seq

(* What a row names: its handle is the newest run; without one, the mark   *)
(* of a create leads to the newest run, or nothing is open and the next    *)
(* create makes a new run.                                                 *)
Leads(r) ==
    LET last == Len(forge[r])
    IN  /\ row[r].handle # 0 => row[r].handle = last
        /\ row[r].createSeq <= row[r].seq
        /\ row[r].handle = 0 =>
              \/ row[r].createSeq # 0 /\ last # 0 /\ forge[r][last].ident = row[r].createSeq
              \/ Ended(forge[r]) /\ row[r].createSeq # 0 /\ Before(forge[r], row[r].createSeq)
              \/ Ended(forge[r]) /\ row[r].createSeq = 0 /\ Before(forge[r], row[r].seq)

(* A delivered verdict is what the newest run shows. *)
Honest(r) ==
    Delivered(row[r]) =>
        /\ row[r].handle = Len(forge[r]) /\ row[r].handle # 0
        /\ forge[r][row[r].handle].shows = row[r].status

(* The batch: a row in it is pending, and has the handle and the mark that *)
(* were read, or the mark the lane just wrote.                             *)
Marked(p) == lane.at \in {"create", "record"} /\ p = This /\ row[p.key].createSeq = p.seq

Current(p) ==
    /\ row[p.key].state = "pending" /\ row[p.key].handle = p.handle
    /\ p.seq # 0 /\ p.seq <= row[p.key].seq
    /\ row[p.key].seq = p.seq => row[p.key].status = p.status
    /\ row[p.key].createSeq = p.createSeq \/ Marked(p)

Batch ==
    /\ \A p, q \in lane.todo : p.key = q.key => p = q
    /\ \A p \in lane.todo : Current(p)
    /\ lane.at \in {"publish", "create", "record"} => lane.todo # {}

(* Between the mark and the answer. *)
Creating ==
    lane.at = "create" =>
        /\ row[Key].handle = 0 /\ row[Key].createSeq = This.seq
        /\ Ended(forge[Key]) /\ Before(forge[Key], This.seq)

Answered ==
    lane.at = "record" =>
        /\ lane.answer # "none"
        /\ lane.answer = "ok" =>
              /\ lane.run = Len(forge[Key]) /\ lane.run # 0
              /\ Completed(This.status) => forge[Key][lane.run].shows = This.status

RowsSound == \A r \in Checked : Ordered(r) /\ Leads(r) /\ Honest(r)
ChecksInv == CheckTypes /\ RowsSound /\ Batch /\ Creating /\ Answered

-----------------------------------------------------------------------------
(* Operators.                                                              *)

LEMMA Flags == /\ TRUE \in Flag /\ FALSE \in Flag
               /\ \A x \in Flag, y \in BOOLEAN : (x \/ y) \in Flag
BY DEF Flag

\* Every non-empty set of natural numbers has a least element.
LEMMA LeastNatural ==
  ASSUME NEW T \in SUBSET Nat, T # {}
  PROVE  \E m \in T : \A k \in T : m <= k
<1> DEFINE R == OpToRel(<, Nat)
<1>1. IsWellFoundedOn(R, Nat)
  BY NatLessThanWellFounded
<1>2. \A k \in Nat, m \in Nat : k < m => <<k, m>> \in R
  BY DEF OpToRel
<1> HIDE DEF R
<1>3. \E m \in T : \A k \in T : ~(<<k, m>> \in R)
  BY <1>1, WFMin
<1>4. \E m \in T : \A k \in T : ~(k < m)
  BY <1>2, <1>3
<1>5. \A k \in T, m \in T : ~(k < m) => m <= k
  OBVIOUS
<1> QED BY <1>4, <1>5

\* A row that is checked has its place in the outbox.
LEMMA Placed ==
  ASSUME outbox \in Outboxes, NEW r \in Checked
  PROVE  Place(r) \in Nat
<1>1. outbox.rows \in Seq(Checked)
  BY CheckBounds DEF Checked
<1>2. \E i \in DOMAIN outbox.rows : outbox.rows[i] = r
  BY DEF Checked, ToSet
<1>3. Place(r) \in DOMAIN outbox.rows
  BY <1>2 DEF Place
<1> QED BY <1>1, <1>3

\* The lane works on a row of its batch.
LEMMA ThisIsNext ==
  ASSUME CheckTypes, lane.todo # {}
  PROVE  This \in lane.todo /\ This \in SnapshotOf /\ Key \in Checked
<1>0. lane.todo \subseteq SnapshotOf /\ outbox \in Outboxes
  BY DEF CheckTypes, LaneOf
<1>k. \A p \in lane.todo : p.key \in Checked
  BY <1>0 DEF SnapshotOf
<1> DEFINE N == {Place(p.key) : p \in lane.todo}
<1>1. N \subseteq Nat /\ N # {}
  BY <1>0, <1>k, Placed
<1>2. PICK n \in N : \A m \in N : n <= m
  BY <1>1, LeastNatural
<1>3. PICK p \in lane.todo : Place(p.key) = n
  BY <1>2
<1>4. \A q \in lane.todo : Place(p.key) <= Place(q.key)
  BY <1>2, <1>3
<1>5. This \in lane.todo
  BY <1>4 DEF This
<1> QED BY <1>0, <1>k, <1>5 DEF Key

\* An answer is noted on the lane.
LEMMA AnswerLane ==
  ASSUME CheckTypes, NEW a \in {"ok", "retry", "throttled", "refused"}, NEW n \in Nat, Answer(a, n),
         UNCHANGED outbox
  PROVE  /\ lane' \in LaneOf /\ lane'.at = "record" /\ lane'.todo = lane.todo
         /\ lane'.answer = a /\ lane'.run = n /\ This' = This
<1>0. lane \in LaneOf
  BY DEF CheckTypes
<1>1. /\ lane' \in LaneOf /\ lane'.at = "record" /\ lane'.todo = lane.todo
      /\ lane'.answer = a /\ lane'.run = n
  BY <1>0 DEF Answer, LaneOf
<1> QED BY <1>1 DEF This, Place

LEMMA IdleLane ==
  ASSUME NEW l \in {"no", "yes", "passed"}
  PROVE  Idle(l) \in LaneOf /\ Idle(l).at = "idle" /\ Idle(l).todo = {}
BY DEF Idle, LaneOf

\* The lane goes on to the next row of its batch.
LEMMA AdvanceLane ==
  ASSUME CheckTypes, NEW h \in SUBSET (Checked \X Nat),
         lane' = Onward([Advanced EXCEPT !.held = h])
  PROVE  /\ lane' \in LaneOf /\ lane'.todo = lane.todo \ {This}
         /\ lane'.at \in {"publish", "close"}
         /\ lane'.at = "publish" => lane'.todo # {}
<1> DEFINE l == [Advanced EXCEPT !.held = h]
<1>0. lane \in LaneOf
  BY DEF CheckTypes
<1>1. /\ Advanced \in LaneOf /\ Advanced.todo = lane.todo \ {This} /\ Advanced.at = "publish"
      /\ Advanced.held = lane.held
  BY <1>0 DEF Advanced, LaneOf
<1>2. l \in LaneOf /\ l.todo = lane.todo \ {This} /\ l.at = "publish"
  BY <1>1 DEF LaneOf
<1>3. lane' = IF l.todo = {} THEN [l EXCEPT !.at = "close"] ELSE l
  BY DEF Onward
<1> HIDE DEF l
<1>4. /\ [l EXCEPT !.at = "close"] \in LaneOf /\ [l EXCEPT !.at = "close"].todo = l.todo
      /\ [l EXCEPT !.at = "close"].at = "close"
  BY <1>2 DEF LaneOf
<1> QED BY <1>2, <1>3, <1>4

-----------------------------------------------------------------------------
(* What a step has to keep.                                                *)

\* The columns that name a check run.
Core(p) == <<p.seq, p.status, p.handle, p.createSeq>>

\* A row whose naming columns stay, and that is not delivered by the step, stays sound.
LEMMA SoundRow ==
  ASSUME NEW r \in Checked, Ordered(r), Leads(r), Honest(r),
         Core(row'[r]) = Core(row[r]), forge'[r] = forge[r],
         Delivered(row'[r]) => Delivered(row[r])
  PROVE  (Ordered(r) /\ Leads(r) /\ Honest(r))'
<1>1. /\ row'[r].seq = row[r].seq /\ row'[r].status = row[r].status
      /\ row'[r].handle = row[r].handle /\ row'[r].createSeq = row[r].createSeq
  BY DEF Core
<1>2. Ordered(r)'
  BY <1>1 DEF Ordered
<1>3. Leads(r)'
  BY <1>1 DEF Leads, Ended, Before
<1>4. Honest(r)'
  BY <1>1 DEF Honest
<1> QED BY <1>2, <1>3, <1>4

LEMMA SoundRows ==
  ASSUME RowsSound, UNCHANGED <<outbox, forge>>,
         \A r \in Checked : /\ Core(row'[r]) = Core(row[r])
                            /\ Delivered(row'[r]) => Delivered(row[r])
  PROVE  RowsSound'
<1>1. Checked' = Checked
  BY DEF Checked
<1>2. ASSUME NEW r \in Checked PROVE (Ordered(r) /\ Leads(r) /\ Honest(r))'
  BY SoundRow DEF RowsSound
<1> QED BY <1>1, <1>2 DEF RowsSound

\* A lane without a batch owes nothing.
LEMMA NoBatch ==
  ASSUME lane'.todo = {}, lane'.at \in {"idle", "close"}
  PROVE  Batch' /\ Creating' /\ Answered'
BY DEF Batch, Creating, Answered

\* A row's snapshot stays current while the row's naming columns and its state do.
LEMMA StaysCurrent ==
  ASSUME NEW p \in lane.todo, Current(p), Core(row'[p.key]) = Core(row[p.key]),
         row'[p.key].state = row[p.key].state,
         ~Marked(p) \/ Marked(p)'
  PROVE  Current(p)'
<1>1. /\ row'[p.key].seq = row[p.key].seq /\ row'[p.key].status = row[p.key].status
      /\ row'[p.key].handle = row[p.key].handle /\ row'[p.key].createSeq = row[p.key].createSeq
  BY DEF Core
<1> QED BY <1>1 DEF Current

\* The lane leaves the row it worked on, whatever became of it.
LEMMA BatchAdvances ==
  ASSUME CheckTypes, Batch, This \in lane.todo,
         lane'.todo = lane.todo \ {This}, lane'.at \in {"publish", "close"},
         lane'.at = "publish" => lane'.todo # {},
         \A r \in Checked : r # Key => row'[r] = row[r]
  PROVE  Batch' /\ Creating' /\ Answered'
<1>1. ASSUME NEW p \in lane'.todo PROVE Current(p)'
  <2>1. p \in lane.todo /\ p # This /\ p.key # Key
    BY DEF Batch, Key
  <2>2. p.key \in Checked
    BY <2>1 DEF CheckTypes, LaneOf, SnapshotOf
  <2>3. row'[p.key] = row[p.key] /\ Current(p) /\ ~Marked(p)
    BY <2>1, <2>2 DEF Batch, Marked
  <2> QED BY <2>1, <2>3, StaysCurrent
<1>2. \A p, q \in lane'.todo : p.key = q.key => p = q
  BY DEF Batch
<1> QED BY <1>1, <1>2 DEF Batch, Creating, Answered

\* The batch stays, and so do the columns of its rows.
LEMMA BatchStays ==
  ASSUME CheckTypes, Batch, UNCHANGED outbox, lane'.todo = lane.todo,
         lane'.at \in {"publish", "create", "record"} => lane.todo # {},
         lane.at \in {"create", "record"} => lane'.at \in {"create", "record"},
         \A p \in lane.todo : /\ Core(row'[p.key]) = Core(row[p.key])
                              /\ row'[p.key].state = row[p.key].state
  PROVE  Batch' /\ This' = This /\ Key' = Key
<1>1. This' = This /\ Key' = Key
  BY DEF This, Place, Key
<1>2. ASSUME NEW p \in lane.todo PROVE Current(p)'
  <2>1. row'[p.key].createSeq = row[p.key].createSeq
    BY DEF Core
  <2>2. ~Marked(p) \/ Marked(p)'
    BY <1>1, <2>1 DEF Marked
  <2> QED BY <2>2, StaysCurrent DEF Batch
<1> QED BY <1>1, <1>2 DEF Batch

\* What stands between the mark and the answer stays when the lane does.
LEMMA WaitStays ==
  ASSUME Creating, Answered, Key' = Key, This' = This, UNCHANGED forge,
         lane'.at = lane.at, lane'.answer = lane.answer, lane'.run = lane.run,
         lane.at = "create" => Core(row'[Key]) = Core(row[Key])
  PROVE  Creating' /\ Answered'
<1>1. lane.at = "create" => row'[Key].handle = row[Key].handle /\ row'[Key].createSeq = row[Key].createSeq
  BY DEF Core
<1> QED BY <1>1 DEF Creating, Answered, Ended, Before

-----------------------------------------------------------------------------
(* The steps that write no outcome.                                        *)

\* The records of the rows, one column changed.
LEMMA RowColumns ==
  ASSUME NEW p \in RowOf
  PROVE  /\ \A x \in Flag : /\ [p EXCEPT !.waits = x] \in RowOf
                            /\ Core([p EXCEPT !.waits = x]) = Core(p)
                            /\ [p EXCEPT !.waits = x].state = p.state
                            /\ Delivered([p EXCEPT !.waits = x]) = Delivered(p)
         /\ \A x \in Nat : /\ [p EXCEPT !.createSeq = x] \in RowOf
                           /\ [p EXCEPT !.createSeq = x].createSeq = x
                           /\ [p EXCEPT !.createSeq = x].seq = p.seq
                           /\ [p EXCEPT !.createSeq = x].status = p.status
                           /\ [p EXCEPT !.createSeq = x].handle = p.handle
                           /\ [p EXCEPT !.createSeq = x].state = p.state
                           /\ Delivered([p EXCEPT !.createSeq = x]) = Delivered(p)
<1>1. ASSUME NEW x \in Flag
      PROVE  /\ [p EXCEPT !.waits = x] \in RowOf
             /\ Core([p EXCEPT !.waits = x]) = Core(p)
             /\ [p EXCEPT !.waits = x].state = p.state
             /\ [p EXCEPT !.waits = x].published = p.published
             /\ [p EXCEPT !.waits = x].status = p.status
             /\ [p EXCEPT !.waits = x].seq = p.seq
  BY DEF RowOf, Core
<1>2. ASSUME NEW x \in Nat
      PROVE  /\ [p EXCEPT !.createSeq = x] \in RowOf
             /\ [p EXCEPT !.createSeq = x].createSeq = x
             /\ [p EXCEPT !.createSeq = x].seq = p.seq
             /\ [p EXCEPT !.createSeq = x].status = p.status
             /\ [p EXCEPT !.createSeq = x].handle = p.handle
             /\ [p EXCEPT !.createSeq = x].state = p.state
             /\ [p EXCEPT !.createSeq = x].published = p.published
  BY DEF RowOf
<1>3. ASSUME NEW x \in Flag PROVE Delivered([p EXCEPT !.waits = x]) = Delivered(p)
  BY <1>1 DEF Delivered
<1>4. ASSUME NEW x \in Nat PROVE Delivered([p EXCEPT !.createSeq = x]) = Delivered(p)
  BY <1>2 DEF Delivered
<1> QED BY <1>1, <1>2, <1>3, <1>4

\* rearm_exhausted moves refused rows, which name the same run as before.
LEMMA RearmedRow ==
  ASSUME NEW p \in RowOf
  PROVE  /\ Rearmed(p) \in RowOf /\ Core(Rearmed(p)) = Core(p)
         /\ Delivered(Rearmed(p)) => Delivered(p)
         /\ p.state = "pending" => Rearmed(p).state = "pending"
<1> DEFINE q == [p EXCEPT !.state = "pending", !.attempts = 0, !.waits = FALSE, !.exhausted = FALSE]
<1>1. q \in RowOf /\ Core(q) = Core(p) /\ q.state = "pending"
  BY Flags DEF RowOf, Core
<1>2. Rearmed(p) = q \/ Rearmed(p) = p
  BY DEF Rearmed
<1> HIDE DEF q
<1> QED BY <1>1, <1>2 DEF Delivered

LEMMA QuietKeeps ==
  ASSUME ChecksInv, checkVars' = checkVars
  PROVE  ChecksInv'
<1>1. UNCHANGED <<outbox, row, forge, lane>>
  BY DEF checkVars
<1>2. CheckTypes'
  BY <1>1 DEF ChecksInv, CheckTypes, Checked, LaneOf, SnapshotOf
<1>3. RowsSound'
  BY <1>1, SoundRows DEF ChecksInv
<1>4. Batch' /\ This' = This /\ Key' = Key
  BY <1>1, BatchStays DEF ChecksInv, Batch
<1>5. Creating' /\ Answered'
  BY <1>1, <1>4, WaitStays DEF ChecksInv
<1> QED BY <1>2, <1>3, <1>4, <1>5 DEF ChecksInv

\* A time comes: a row waits no longer.
LEMMA ComesDueKeeps ==
  ASSUME ChecksInv, UNCHANGED outbox, NEW r \in Checked, ComesDue(r)
  PROVE  ChecksInv'
<1>1. row \in [Checked -> RowOf]
  BY DEF ChecksInv, CheckTypes
<1> DEFINE q == [row[r] EXCEPT !.waits = FALSE]
<1>2. row' = [row EXCEPT ![r] = q] /\ UNCHANGED <<forge, lane>>
  BY <1>1 DEF ComesDue
<1>q. /\ q \in RowOf /\ Core(q) = Core(row[r]) /\ q.state = row[r].state
      /\ Delivered(q) = Delivered(row[r])
  <2>1. row[r] \in RowOf /\ FALSE \in Flag
    BY <1>1, Flags
  <2> QED BY <2>1, RowColumns, Zenon
<1> HIDE DEF q
<1>3. /\ row' \in [Checked -> RowOf]
      /\ \A s \in Checked : /\ Core(row'[s]) = Core(row[s]) /\ row'[s].state = row[s].state
                            /\ Delivered(row'[s]) => Delivered(row[s])
  BY <1>1, <1>2, <1>q
<1>4. CheckTypes'
  BY <1>2, <1>3 DEF ChecksInv, CheckTypes, Checked, LaneOf, SnapshotOf
<1>5. RowsSound'
  BY <1>2, <1>3, SoundRows DEF ChecksInv
<1>k. \A p \in lane.todo : p.key \in Checked
  BY DEF ChecksInv, CheckTypes, LaneOf, SnapshotOf
<1>6. Batch' /\ This' = This /\ Key' = Key
  BY <1>2, <1>3, <1>k, BatchStays DEF ChecksInv, Batch
<1>7. lane.at = "create" => Core(row'[Key]) = Core(row[Key])
  BY <1>3, ThisIsNext DEF ChecksInv, Batch
<1>8. Creating' /\ Answered'
  BY <1>2, <1>6, <1>7, WaitStays DEF ChecksInv
<1> QED BY <1>4, <1>5, <1>6, <1>8 DEF ChecksInv

\* A rate limit ends.
LEMMA LimitKeeps ==
  ASSUME ChecksInv, UNCHANGED outbox, LimitPasses
  PROVE  ChecksInv'
<1>0. lane \in LaneOf
  BY DEF ChecksInv, CheckTypes
<1>1. /\ lane' = [lane EXCEPT !.limited = "passed"] /\ UNCHANGED <<row, forge>>
  BY DEF LimitPasses
<1>2. /\ lane' \in LaneOf /\ lane'.todo = lane.todo /\ lane'.at = lane.at
      /\ lane'.answer = lane.answer /\ lane'.run = lane.run
  BY <1>0, <1>1 DEF LaneOf
<1>3. CheckTypes'
  BY <1>1, <1>2 DEF ChecksInv, CheckTypes, Checked, LaneOf, SnapshotOf
<1>4. RowsSound'
  BY <1>1, SoundRows DEF ChecksInv
<1>5. Batch' /\ This' = This /\ Key' = Key
  BY <1>1, <1>2, BatchStays DEF ChecksInv, Batch
<1>6. Creating' /\ Answered'
  BY <1>1, <1>2, <1>5, WaitStays DEF ChecksInv
<1> QED BY <1>3, <1>4, <1>5, <1>6 DEF ChecksInv

\* A lane that drops its batch, while rows move between waiting, refused and pending.
LEMMA DropKeeps ==
  ASSUME ChecksInv, UNCHANGED <<outbox, forge>>, lane' \in LaneOf,
         lane'.todo = {}, lane'.at \in {"idle", "close"},
         row' \in [Checked -> RowOf],
         \A r \in Checked : /\ Core(row'[r]) = Core(row[r])
                            /\ Delivered(row'[r]) => Delivered(row[r])
  PROVE  ChecksInv'
<1>1. CheckTypes'
  BY DEF ChecksInv, CheckTypes, Checked, LaneOf, SnapshotOf
<1>2. RowsSound'
  BY SoundRows DEF ChecksInv
<1>3. Batch' /\ Creating' /\ Answered'
  BY NoBatch
<1> QED BY <1>1, <1>2, <1>3 DEF ChecksInv

LEMMA RestartKeeps ==
  ASSUME ChecksInv, UNCHANGED outbox, LaneRestarts
  PROVE  ChecksInv'
<1>1. row \in [Checked -> RowOf]
  BY DEF ChecksInv, CheckTypes
<1>2. /\ lane' = Idle("no") /\ row' = [r \in Checked |-> Rearmed(row[r])] /\ UNCHANGED forge
  BY DEF LaneRestarts
<1>3. /\ row' \in [Checked -> RowOf]
      /\ \A r \in Checked : /\ Core(row'[r]) = Core(row[r])
                            /\ Delivered(row'[r]) => Delivered(row[r])
  BY <1>1, <1>2, RearmedRow
<1> QED BY <1>2, <1>3, IdleLane, DropKeeps

LEMMA StoreDownKeeps ==
  ASSUME ChecksInv, UNCHANGED outbox, StoreDown
  PROVE  ChecksInv'
<1>1. row \in [Checked -> RowOf] /\ lane.limited \in {"no", "yes", "passed"}
  BY DEF ChecksInv, CheckTypes, LaneOf
<1>2. /\ lane' = Idle(lane.limited) /\ UNCHANGED <<row, forge>>
  BY DEF StoreDown
<1> QED BY <1>1, <1>2, IdleLane, DropKeeps

\* The rows set aside are deferred.
LEMMA DeferredRow ==
  ASSUME CheckTypes, NEW r \in Checked, NEW s
  PROVE  /\ defer(r, s) \in RowOf /\ Core(defer(r, s)) = Core(row[r])
         /\ defer(r, s).state = row[r].state
         /\ Delivered(defer(r, s)) => Delivered(row[r])
<1>1. row[r] \in RowOf
  BY DEF CheckTypes
<1>2. defer(r, s) = [row[r] EXCEPT !.waits = TRUE] \/ defer(r, s) = row[r]
  BY DEF defer
<1> DEFINE q == [row[r] EXCEPT !.waits = TRUE]
<1>q. /\ q \in RowOf /\ Core(q) = Core(row[r]) /\ q.state = row[r].state
      /\ Delivered(q) = Delivered(row[r])
  <2>1. TRUE \in Flag
    BY Flags
  <2> QED BY <1>1, <2>1, RowColumns, Zenon
<1> HIDE DEF q
<1> QED BY <1>1, <1>2, <1>q DEF q

LEMMA CloseKeeps ==
  ASSUME ChecksInv, UNCHANGED outbox, Close
  PROVE  ChecksInv'
<1>1. row \in [Checked -> RowOf] /\ lane.limited \in {"no", "yes", "passed"} /\ CheckTypes
  BY DEF ChecksInv, CheckTypes, LaneOf
<1>2. /\ lane' = Idle(lane.limited) /\ UNCHANGED forge
      /\ \/ row' = row
         \/ row' = [r \in Checked |->
                      IF \E h \in lane.held : h = <<r, row[r].seq>> THEN defer(r, row[r].seq)
                                                                     ELSE row[r]]
  BY DEF Close
<1>3. /\ row' \in [Checked -> RowOf]
      /\ \A r \in Checked : row'[r] = row[r] \/ row'[r] = defer(r, row[r].seq)
  <2>1. CASE row' = row
    BY <1>1, <2>1
  <2>2. CASE row' # row
    BY <1>1, <1>2, <2>2, DeferredRow
  <2> QED BY <2>1, <2>2
<1>4. \A r \in Checked : /\ Core(row'[r]) = Core(row[r])
                         /\ Delivered(row'[r]) => Delivered(row[r])
  BY <1>1, <1>3, DeferredRow
<1> QED BY <1>2, <1>1, <1>3, <1>4, IdleLane, DropKeeps

\* rearm_exhausted, between two batches: an idle lane has none.
LEMMA RearmKeeps ==
  ASSUME ChecksInv, UNCHANGED outbox, rearm_exhausted
  PROVE  ChecksInv'
<1>1. row \in [Checked -> RowOf]
  BY DEF ChecksInv, CheckTypes
<1>2. /\ lane.at = "idle" /\ row' = [r \in Checked |-> Rearmed(row[r])] /\ UNCHANGED <<forge, lane>>
  BY DEF rearm_exhausted
<1>3. /\ row' \in [Checked -> RowOf]
      /\ \A r \in Checked : /\ Core(row'[r]) = Core(row[r])
                            /\ Delivered(row'[r]) => Delivered(row[r])
                            /\ row[r].state = "pending" => row'[r].state = "pending"
  BY <1>1, <1>2, RearmedRow
<1>4. CheckTypes'
  BY <1>2, <1>3 DEF ChecksInv, CheckTypes, Checked, LaneOf, SnapshotOf
<1>5. RowsSound'
  BY <1>2, <1>3, SoundRows DEF ChecksInv
<1>k. \A p \in lane.todo : p.key \in Checked /\ row[p.key].state = "pending"
  BY DEF ChecksInv, CheckTypes, LaneOf, SnapshotOf, Batch, Current
<1>6. Batch' /\ This' = This /\ Key' = Key
  BY <1>2, <1>3, <1>k, BatchStays DEF ChecksInv, Batch
<1>7. Creating' /\ Answered'
  BY <1>2 DEF Creating, Answered
<1> QED BY <1>4, <1>5, <1>6, <1>7 DEF ChecksInv

\* The strikes and skips of rows are nothing to the runs.
LEMMA SkipKeeps ==
  ASSUME ChecksInv, UNCHANGED outbox, NEW r \in Checked, SkipLapses(r)
  PROVE  ChecksInv'
<1>1. UNCHANGED <<row, forge, lane>>
  BY DEF SkipLapses
<1>2. CheckTypes'
  BY <1>1 DEF ChecksInv, CheckTypes, Checked, LaneOf, SnapshotOf
<1>3. RowsSound'
  BY <1>1, SoundRows DEF ChecksInv
<1>4. Batch' /\ This' = This /\ Key' = Key
  BY <1>1, BatchStays DEF ChecksInv, Batch
<1>5. Creating' /\ Answered'
  BY <1>1, <1>4, WaitStays DEF ChecksInv
<1> QED BY <1>2, <1>3, <1>4, <1>5 DEF ChecksInv

\* A row that may not be asked for now is left to the end of the batch.
LEMMA HeldBackKeeps ==
  ASSUME ChecksInv, UNCHANGED outbox, HeldBack
  PROVE  ChecksInv'
<1>0. lane \in LaneOf /\ CheckTypes
  BY DEF ChecksInv, CheckTypes
<1>1. /\ lane.at = "publish" /\ UNCHANGED <<row, forge>>
      /\ lane' = Onward([Advanced EXCEPT !.held = @ \cup {<<Key, This.seq>>}])
  BY DEF HeldBack
<1>2. This \in lane.todo /\ This \in SnapshotOf /\ Key \in Checked
  BY <1>0, <1>1, ThisIsNext DEF ChecksInv, Batch
<1> DEFINE h == lane.held \cup {<<Key, This.seq>>}
<1>3. h \in SUBSET (Checked \X Nat)
  BY <1>0, <1>2 DEF LaneOf, SnapshotOf
<1>4. lane' = Onward([Advanced EXCEPT !.held = h])
  BY <1>0, <1>1 DEF Advanced, LaneOf
<1>5. /\ lane' \in LaneOf /\ lane'.todo = lane.todo \ {This}
      /\ lane'.at \in {"publish", "close"} /\ (lane'.at = "publish" => lane'.todo # {})
  BY <1>0, <1>3, <1>4, AdvanceLane
<1>6. CheckTypes'
  BY <1>1, <1>5 DEF ChecksInv, CheckTypes, Checked, LaneOf, SnapshotOf
<1>7. RowsSound'
  BY <1>1, SoundRows DEF ChecksInv
<1>8. Batch' /\ Creating' /\ Answered'
  BY <1>0, <1>1, <1>2, <1>5, BatchAdvances DEF ChecksInv
<1> QED BY <1>6, <1>7, <1>8 DEF ChecksInv

\* The lane goes on after an outcome that leaves the row sound.
LEMMA GoOnKeeps ==
  ASSUME ChecksInv, UNCHANGED <<outbox, forge>>, lane.at = "record", lane' = Onward(Advanced),
         row' \in [Checked -> RowOf], NEW k, k = Key,
         \A r \in Checked : r # k => row'[r] = row[r],
         (Ordered(k) /\ Leads(k) /\ Honest(k))'
  PROVE  ChecksInv'
<1>0. lane \in LaneOf /\ CheckTypes
  BY DEF ChecksInv, CheckTypes
<1>2. This \in lane.todo /\ k \in Checked
  BY <1>0, ThisIsNext DEF ChecksInv, Batch
<1>4. lane' = Onward([Advanced EXCEPT !.held = lane.held])
  <2>1. Advanced = [Advanced EXCEPT !.held = lane.held]
    BY <1>0 DEF Advanced, LaneOf
  <2> QED BY <2>1
<1>5. /\ lane' \in LaneOf /\ lane'.todo = lane.todo \ {This}
      /\ lane'.at \in {"publish", "close"} /\ (lane'.at = "publish" => lane'.todo # {})
  <2>1. lane.held \in SUBSET (Checked \X Nat)
    BY <1>0 DEF LaneOf
  <2> QED BY <1>0, <1>4, <2>1, AdvanceLane
<1>6. CheckTypes'
  BY <1>5 DEF ChecksInv, CheckTypes, Checked, LaneOf, SnapshotOf
<1>7. RowsSound'
  <2>1. ASSUME NEW r \in Checked, r # k PROVE (Ordered(r) /\ Leads(r) /\ Honest(r))'
    <3>1. row'[r] = row[r] /\ forge'[r] = forge[r] /\ Ordered(r) /\ Leads(r) /\ Honest(r)
      BY <2>1 DEF ChecksInv, RowsSound
    <3> QED BY <3>1, SoundRow
  <2>2. Checked' = Checked
    BY DEF Checked
  <2> QED BY <2>1, <2>2 DEF RowsSound
<1>8. Batch' /\ Creating' /\ Answered'
  BY <1>0, <1>2, <1>5, BatchAdvances DEF ChecksInv
<1> QED BY <1>6, <1>7, <1>8 DEF ChecksInv

\* A request without its answer.
LEMMA NoAnswerKeeps ==
  ASSUME ChecksInv, UNCHANGED <<outbox, row, forge>>, lane.at \in {"publish", "create"},
         NEW a \in {"retry", "throttled", "refused"}, Answer(a, 0)
  PROVE  ChecksInv'
<1>1. /\ lane' \in LaneOf /\ lane'.at = "record" /\ lane'.todo = lane.todo
      /\ lane'.answer = a /\ This' = This
  BY AnswerLane DEF ChecksInv
<1>2. CheckTypes'
  BY <1>1 DEF ChecksInv, CheckTypes, Checked, LaneOf, SnapshotOf
<1>3. RowsSound'
  BY SoundRows DEF ChecksInv
<1>4. Batch'
  BY <1>1, BatchStays DEF ChecksInv, Batch
<1>5. Creating' /\ Answered'
  BY <1>1 DEF Creating, Answered
<1> QED BY <1>2, <1>3, <1>4, <1>5 DEF ChecksInv

LEMMA LookupFailsKeeps ==
  ASSUME ChecksInv, UNCHANGED outbox, LookupFails
  PROVE  ChecksInv'
<1>1. /\ lane.at = "publish" /\ UNCHANGED <<row, forge>>
      /\ Answer("retry", 0) \/ Answer("throttled", 0) \/ Answer("refused", 0)
  BY DEF LookupFails, NoAnswer
<1> QED BY <1>1, NoAnswerKeeps

\* A row that cannot be written keeps what it says, or waits.
LEMMA StrikeKeeps ==
  ASSUME ChecksInv, UNCHANGED outbox, Strike
  PROVE  ChecksInv'
<1>0. /\ row \in [Checked -> RowOf] /\ lane.limited \in {"no", "yes", "passed"} /\ CheckTypes
  BY DEF ChecksInv, CheckTypes, LaneOf
<1>1. /\ lane.at = "record" /\ UNCHANGED forge
      /\ \/ lane' = Idle(lane.limited) /\ UNCHANGED row
         \/ lane' = Onward(Advanced) /\ UNCHANGED row
         \/ lane' = Onward(Advanced) /\ row' = [row EXCEPT ![Key] = defer(Key, This.seq)]
  BY DEF Strike
<1>k. Key \in Checked
  BY <1>0, <1>1, ThisIsNext DEF ChecksInv, Batch
<1>s. Ordered(Key) /\ Leads(Key) /\ Honest(Key)
  BY <1>k DEF ChecksInv, RowsSound
<1>2. CASE lane' = Idle(lane.limited) /\ UNCHANGED row
  BY <1>0, <1>1, <1>2, IdleLane, DropKeeps
<1>3. CASE lane' = Onward(Advanced) /\ (UNCHANGED row \/ row' = [row EXCEPT ![Key] = defer(Key, This.seq)])
  <2> DEFINE d == defer(Key, This.seq)
  <2>1. d \in RowOf /\ Core(d) = Core(row[Key]) /\ (Delivered(d) => Delivered(row[Key]))
    BY <1>0, <1>k, DeferredRow
  <2> HIDE DEF d
  <2>2. /\ row' \in [Checked -> RowOf] /\ \A r \in Checked : r # Key => row'[r] = row[r]
        /\ row'[Key] = row[Key] \/ row'[Key] = d
    BY <1>0, <1>3, <1>k, <2>1 DEF d
  <2>3. PICK k \in Checked : k = Key
    BY <1>k
  <2>4. (Ordered(k) /\ Leads(k) /\ Honest(k))'
    <3>1. Core(row'[k]) = Core(row[k]) /\ forge'[k] = forge[k] /\ (Delivered(row'[k]) => Delivered(row[k]))
      BY <1>1, <2>1, <2>2, <2>3
    <3> QED BY <1>s, <2>3, <3>1, SoundRow
  <2> QED BY <1>1, <1>3, <2>2, <2>3, <2>4, GoOnKeeps
<1> QED BY <1>1, <1>2, <1>3

\* A row after its outcome was recorded.
LEMMA OutcomeRow ==
  ASSUME ChecksInv, lane.at = "record", lane.answer \in {"ok", "retry", "refused", "throttled"},
         NEW k \in Checked, k = Key, ~Moved,
         row' = [row EXCEPT ![k] = Outcome], forge'[k] = forge[k]
  PROVE  row' \in [Checked -> RowOf] /\ (Ordered(k) /\ Leads(k) /\ Honest(k))'
<1>0. /\ row \in [Checked -> RowOf] /\ CheckTypes /\ lane.run \in Nat /\ row[k] \in RowOf
      /\ forge[k] \in Seq(RunOf)
  BY DEF ChecksInv, CheckTypes, LaneOf
<1>t. This \in lane.todo /\ This \in SnapshotOf /\ This.key = k
  BY <1>0, ThisIsNext DEF ChecksInv, Batch, Key
<1>s. Ordered(k) /\ Leads(k) /\ Honest(k)
  BY DEF ChecksInv, RowsSound
<1>c. Current(This)
  BY <1>t DEF ChecksInv, Batch
<1>1. CASE lane.answer = "ok"
  <2>1. Outcome = published(This, lane.run)
    BY <1>1 DEF Outcome
  <2>2. /\ lane.run = Len(forge[k]) /\ lane.run # 0
        /\ Completed(This.status) => forge[k][lane.run].shows = This.status
    BY <1>1 DEF ChecksInv, Answered
  <2>3. CASE row[k].seq = This.seq
    <3> DEFINE q == [row[k] EXCEPT !.handle = lane.run, !.published = This.seq, !.state = "published",
                                   !.waits = FALSE]
    <3>1. row'[k] = q /\ row' = [row EXCEPT ![k] = q]
      BY <1>0, <1>t, <2>1, <2>3 DEF published, Same
    <3>2. /\ q \in RowOf /\ q.handle = lane.run /\ q.seq = row[k].seq /\ q.status = row[k].status
          /\ q.createSeq = row[k].createSeq
      BY <1>0, <1>t, Flags DEF RowOf, SnapshotOf
    <3> HIDE DEF q
    <3>3. row' \in [Checked -> RowOf]
      BY <1>0, <3>1, <3>2
    <3>4. Ordered(k)'
      BY <1>s, <3>1, <3>2 DEF Ordered
    <3>5. Leads(k)'
      BY <1>s, <2>2, <3>1, <3>2 DEF Leads
    <3>6. Honest(k)'
      <4>1. q.status = This.status
        BY <1>c, <1>t, <2>3, <3>2 DEF Current
      <4>2. Delivered(q) => Completed(q.status)
        BY DEF Delivered
      <4> QED BY <2>2, <3>1, <3>2, <4>1, <4>2 DEF Honest
    <3> QED BY <3>3, <3>4, <3>5, <3>6
  <2>4. CASE row[k].seq # This.seq
    <3> DEFINE q == [row[k] EXCEPT !.handle = lane.run]
    <3>1. row'[k] = q /\ row' = [row EXCEPT ![k] = q]
      BY <1>0, <1>t, <2>1, <2>4 DEF published, Same
    <3>2. /\ q \in RowOf /\ q.handle = lane.run /\ q.seq = row[k].seq /\ q.status = row[k].status
          /\ q.createSeq = row[k].createSeq /\ q.state = row[k].state
      BY <1>0 DEF RowOf
    <3> HIDE DEF q
    <3>3. row' \in [Checked -> RowOf]
      BY <1>0, <3>1, <3>2
    <3>4. Ordered(k)'
      BY <1>s, <3>1, <3>2 DEF Ordered
    <3>5. Leads(k)'
      BY <1>s, <2>2, <3>1, <3>2 DEF Leads
    <3>6. Honest(k)'
      <4>1. ~Delivered(q)
        BY <1>c, <1>t, <3>2 DEF Delivered, Current
      <4> QED BY <3>1, <4>1 DEF Honest
    <3> QED BY <3>3, <3>4, <3>5, <3>6
  <2> QED BY <2>3, <2>4
<1>2. CASE lane.answer # "ok"
  <2> DEFINE q == Outcome
  <2>1. q \in RowOf /\ Core(q) = Core(row[k]) /\ (Delivered(q) => Delivered(row[k]))
    <3>1. ASSUME NEW e \in Flag
          PROVE  /\ refused(This, e) \in RowOf /\ Core(refused(This, e)) = Core(row[k])
                 /\ ~Delivered(refused(This, e))
      <4> DEFINE x == [row[k] EXCEPT !.state = "refused", !.exhausted = e, !.waits = FALSE]
      <4>1. x \in RowOf /\ Core(x) = Core(row[k]) /\ x.state = "refused"
        BY <1>0, Flags DEF RowOf, Core
      <4>2. refused(This, e) = x
        BY <1>t DEF refused
      <4> QED BY <4>1, <4>2 DEF Delivered
    <3>2. /\ retry(This) \in RowOf /\ Core(retry(This)) = Core(row[k])
          /\ Delivered(retry(This)) => Delivered(row[k])
      <4>0. PICK n \in Nat : n = row[k].attempts + 1
        BY <1>0 DEF RowOf
      <4>f. PICK w \in Flag : w = TRUE
        BY Flags
      <4> DEFINE x == [row[k] EXCEPT !.attempts = n, !.waits = w]
      <4>1. /\ x \in RowOf /\ Core(x) = Core(row[k]) /\ x.state = row[k].state
            /\ x.published = row[k].published /\ x.seq = row[k].seq /\ x.status = row[k].status
        BY <1>0 DEF RowOf, Core
      <4>2. retry(This) = x \/ retry(This) = refused(This, TRUE)
        <5>1. retry(This) = IF n >= Budget(row[k]) THEN refused(This, TRUE)
                            ELSE [row[k] EXCEPT !.attempts = n, !.waits = TRUE]
          BY <1>0, <1>t, <4>0 DEF retry, RowOf
        <5> QED BY <4>f, <5>1
      <4>3. Delivered(x) => Delivered(row[k])
        BY <4>1 DEF Delivered
      <4> HIDE DEF x
      <4>4. TRUE \in Flag
        BY Flags
      <4> QED BY <3>1, <4>1, <4>2, <4>3, <4>4
    <3>3. CASE lane.answer = "retry"
      BY <3>2, <3>3 DEF Outcome
    <3>4. CASE lane.answer = "refused"
      <4>1. FALSE \in Flag /\ Outcome = refused(This, FALSE)
        BY <3>4, Flags DEF Outcome
      <4> QED BY <3>1, <4>1
    <3>5. CASE lane.answer = "throttled"
      <4>1. Outcome = defer(k, This.seq)
        BY <3>5 DEF Outcome
      <4> QED BY <1>0, <4>1, DeferredRow
    <3> QED BY <1>2, <3>3, <3>4, <3>5
  <2> HIDE DEF q
  <2>2. row' = [row EXCEPT ![k] = q]
    BY DEF q
  <2>3. row' \in [Checked -> RowOf] /\ row'[k] = q
    BY <1>0, <2>1, <2>2
  <2> QED BY <1>s, <2>1, <2>3, SoundRow
<1> QED BY <1>1, <1>2

LEMMA RecordKeeps ==
  ASSUME ChecksInv, UNCHANGED outbox, Record
  PROVE  ChecksInv'
<1>0. /\ row \in [Checked -> RowOf] /\ CheckTypes
  BY DEF ChecksInv, CheckTypes
<1>1. /\ lane.at = "record" /\ UNCHANGED forge /\ lane' = Onward(Advanced)
      /\ row' = IF Moved THEN row ELSE [row EXCEPT ![Key] = Outcome]
  BY DEF Record
<1>2. PICK k \in Checked : k = Key
  BY <1>0, <1>1, ThisIsNext DEF ChecksInv, Batch
<1>3. CASE Moved
  <2>1. row' = row
    BY <1>1, <1>3
  <2>2. (Ordered(k) /\ Leads(k) /\ Honest(k))'
    BY <1>1, <2>1, SoundRow DEF ChecksInv, RowsSound
  <2> QED BY <1>0, <1>1, <1>2, <2>1, <2>2, GoOnKeeps
<1>4. CASE ~Moved
  <2>1. row' = [row EXCEPT ![k] = Outcome]
    BY <1>1, <1>2, <1>4
  <2>2. lane.answer \in {"ok", "retry", "refused", "throttled"}
    BY <1>1 DEF ChecksInv, Answered, CheckTypes, LaneOf
  <2>3. row' \in [Checked -> RowOf] /\ (Ordered(k) /\ Leads(k) /\ Honest(k))'
    BY <1>1, <1>2, <1>4, <2>1, <2>2, OutcomeRow
  <2>4. \A r \in Checked : r # k => row'[r] = row[r]
    BY <1>0, <2>1
  <2> QED BY <1>1, <1>2, <2>3, <2>4, GoOnKeeps
<1> QED BY <1>3, <1>4

\* A batch is read: every snapshot is of a pending row, as it is now.
LEMMA DueKeeps ==
  ASSUME ChecksInv, UNCHANGED outbox, due
  PROVE  ChecksInv'
<1> DEFINE all == {r \in Checked : Due(r) /\ r \notin poison.skipped}
           T == {Snapshot(r) : r \in all \ outbox.undecodable}
           lim == IF lane.limited = "passed" THEN "no" ELSE lane.limited
           w(r) == row[r].waits \/ r \in outbox.undecodable \cap all
<1>0. row \in [Checked -> RowOf] /\ lane \in LaneOf
  BY DEF ChecksInv, CheckTypes
<1>1. /\ lane.at = "idle" /\ UNCHANGED forge
      /\ lane' = Onward([Idle(lim) EXCEPT !.at = "publish", !.todo = T])
      /\ row' = [r \in Checked |-> [row[r] EXCEPT !.waits = w(r)]]
  BY DEF due
<1>2. \A r \in all : r \in Checked /\ row[r].state = "pending"
  BY DEF Due
<1>3. ASSUME NEW r \in Checked
      PROVE  /\ row'[r] \in RowOf /\ Core(row'[r]) = Core(row[r]) /\ row'[r].state = row[r].state
             /\ Delivered(row'[r]) = Delivered(row[r])
  <2>1. row[r] \in RowOf /\ row[r].waits \in Flag
    BY <1>0 DEF RowOf
  <2>2. (r \in outbox.undecodable \cap all) \in BOOLEAN
    OBVIOUS
  <2>3. w(r) \in Flag
    BY <2>1, <2>2, Flags, Zenon
  <2>4. row'[r] = [row[r] EXCEPT !.waits = w(r)]
    BY <1>1
  <2> HIDE DEF w
  <2> QED BY <2>1, <2>3, <2>4, RowColumns
<1> HIDE DEF w
<1>4. row' \in [Checked -> RowOf]
  BY <1>1, <1>3
<1>5. T \in SUBSET SnapshotOf
  <2>1. \A r \in Checked : Snapshot(r) \in SnapshotOf
    BY <1>0 DEF Snapshot, SnapshotOf, RowOf
  <2> QED BY <1>2, <2>1
<1>k. \A p \in T : \E r \in all : p = Snapshot(r)
  OBVIOUS
<1> HIDE DEF T, all
<1>6. /\ lane' \in LaneOf /\ lane'.todo = T /\ lane'.at \in {"publish", "close"}
      /\ lane'.at = "publish" => T # {}
  <2> DEFINE l == [Idle(lim) EXCEPT !.at = "publish", !.todo = T]
  <2>1. lim \in {"no", "yes", "passed"}
    BY <1>0 DEF LaneOf
  <2> HIDE DEF lim
  <2>2. Idle(lim) \in LaneOf
    BY <2>1, IdleLane
  <2>3. l \in LaneOf /\ l.todo = T /\ l.at = "publish"
    BY <1>5, <2>2 DEF LaneOf
  <2>4. lane' = IF l.todo = {} THEN [l EXCEPT !.at = "close"] ELSE l
    BY <1>1 DEF Onward
  <2> HIDE DEF l
  <2>5. /\ [l EXCEPT !.at = "close"] \in LaneOf /\ [l EXCEPT !.at = "close"].todo = l.todo
        /\ [l EXCEPT !.at = "close"].at = "close"
    BY <2>3 DEF LaneOf
  <2> QED BY <2>3, <2>4, <2>5
<1>7. CheckTypes'
  BY <1>1, <1>4, <1>6 DEF ChecksInv, CheckTypes, Checked, LaneOf, SnapshotOf
<1>8. RowsSound'
  BY <1>1, <1>3, SoundRows DEF ChecksInv
<1>9. Batch'
  <2>1. \A r : Snapshot(r).key = r
    BY DEF Snapshot
  <2>2. \A p, q \in T : p.key = q.key => p = q
    BY <1>k, <2>1
  <2>3. ASSUME NEW p \in T PROVE Current(p)'
    <3>1. PICK r \in all : p = Snapshot(r)
      BY <1>k
    <3>2. /\ p.key = r /\ p.seq = row[r].seq /\ p.status = row[r].status /\ p.handle = row[r].handle
          /\ p.createSeq = row[r].createSeq
      BY <3>1 DEF Snapshot
    <3>3. r \in Checked /\ row[r].state = "pending" /\ row[r].seq # 0 /\ row[r].seq \in Nat
      BY <1>0, <1>2 DEF ChecksInv, RowsSound, Ordered, RowOf
    <3>4. Core(row'[r]) = Core(row[r]) /\ row'[r].state = "pending"
      BY <1>3, <3>3
    <3> QED BY <3>2, <3>3, <3>4 DEF Current, Core
  <2> QED BY <1>6, <2>2, <2>3 DEF Batch
<1>10. Creating' /\ Answered'
  BY <1>6 DEF Creating, Answered
<1> QED BY <1>7, <1>8, <1>9, <1>10 DEF ChecksInv

\* What a new generation does to a row: only a delivered verdict lets go of its run.
LEMMA GenerationRow ==
  ASSUME NEW p \in RowOf, NEW s \in Shown
  PROVE  LET g == Generation(p, s)
         IN  /\ g \in RowOf /\ g.status = s /\ g.seq = p.seq + 1 /\ g.state = "pending"
             /\ Delivered(p) => g.handle = 0 /\ g.createSeq = 0
             /\ ~Delivered(p) => g.handle = p.handle /\ g.createSeq = p.createSeq
<1>1. PICK n \in Nat, h \in Nat, c \in Nat :
         /\ n = p.seq + 1
         /\ h = IF Delivered(p) THEN 0 ELSE p.handle
         /\ c = IF Delivered(p) THEN 0 ELSE p.createSeq
  BY DEF RowOf
<1>2. PICK f \in Flag : f = FALSE
  BY Flags
<1> DEFINE g == [p EXCEPT !.status = s, !.seq = n, !.state = "pending", !.attempts = 0,
                          !.waits = f, !.exhausted = f, !.handle = h, !.createSeq = c]
<1>3. /\ g \in RowOf /\ g.status = s /\ g.seq = n /\ g.state = "pending"
      /\ g.handle = h /\ g.createSeq = c
  BY DEF RowOf
<1>4. Generation(p, s) = g
  BY <1>1, <1>2 DEF Generation, RowOf
<1> HIDE DEF g
<1> QED BY <1>1, <1>3, <1>4

\* A job moves: its row gets a new generation (checks.rs upsert).
LEMMA UpsertKeeps ==
  ASSUME ChecksInv, UNCHANGED outbox, NEW k \in Checked, NEW s \in Shown, upsert(k, s)
  PROVE  ChecksInv'
<1> DEFINE g == Generation(row[k], s)
<1>0. /\ row \in [Checked -> RowOf] /\ row[k] \in RowOf /\ row[k].seq \in Nat /\ forge[k] \in Seq(RunOf)
      /\ row[k].createSeq \in Nat
  BY DEF ChecksInv, CheckTypes, RowOf
<1>1. row' = [row EXCEPT ![k] = g] /\ UNCHANGED <<forge, lane>>
  BY DEF upsert
<1>2. /\ g \in RowOf /\ g.status = s /\ g.seq = row[k].seq + 1 /\ g.state = "pending"
      /\ Delivered(row[k]) => g.handle = 0 /\ g.createSeq = 0
      /\ ~Delivered(row[k]) => g.handle = row[k].handle /\ g.createSeq = row[k].createSeq
  BY <1>0, GenerationRow
<1> HIDE DEF g
<1>3. row' \in [Checked -> RowOf] /\ row'[k] = g /\ \A r \in Checked : r # k => row'[r] = row[r]
  BY <1>0, <1>1, <1>2
<1>s. Ordered(k) /\ Leads(k) /\ Honest(k)
  BY DEF ChecksInv, RowsSound
<1>i. \A i \in DOMAIN forge[k] : forge[k][i].ident \in Nat /\ forge[k][i].ident < g.seq
  <2>0. \A i \in DOMAIN forge[k] : forge[k][i] \in RunOf
    BY <1>0
  <2>1. \A i \in DOMAIN forge[k] : forge[k][i].ident \in Nat
    BY <2>0 DEF RunOf
  <2> QED BY <1>0, <1>2, <1>s, <2>1 DEF Ordered
<1>4. CheckTypes'
  BY <1>1, <1>3 DEF ChecksInv, CheckTypes, Checked, LaneOf, SnapshotOf
<1>5. RowsSound'
  <2>1. ASSUME NEW r \in Checked, r # k PROVE (Ordered(r) /\ Leads(r) /\ Honest(r))'
    <3>1. row'[r] = row[r] /\ forge'[r] = forge[r] /\ Ordered(r) /\ Leads(r) /\ Honest(r)
      BY <1>1, <1>3, <2>1 DEF ChecksInv, RowsSound
    <3> QED BY <3>1, SoundRow
  <2>2. Ordered(k)'
    <3>1. g.seq # 0 /\ \A i \in DOMAIN forge[k] : forge[k][i].ident <= g.seq
      BY <1>0, <1>2, <1>i
    <3> QED BY <1>1, <1>3, <1>s, <3>1 DEF Ordered
  <2>3. Honest(k)'
    BY <1>2, <1>3 DEF Honest, Delivered
  <2>4. Leads(k)'
    <3>1. CASE Delivered(row[k])
      <4>1. Ended(forge[k])
        BY <1>s, <3>1 DEF Honest, Ordered, Ended, Delivered
      <4>2. Before(forge[k], g.seq)
        BY <1>i DEF Before
      <4>3. Ended(forge[k])' /\ Before(forge'[k], g.seq)
        BY <1>1, <4>1, <4>2 DEF Ended
      <4>4. g.createSeq <= g.seq
        BY <1>0, <1>2, <3>1
      <4> QED BY <1>2, <1>3, <3>1, <4>3, <4>4 DEF Leads
    <3>2. CASE ~Delivered(row[k])
      <4>1. g.createSeq <= g.seq
        BY <1>0, <1>2, <1>s, <3>2 DEF Leads
      <4>2. Ended(forge[k]) => Ended(forge'[k])
        BY <1>1
      <4>3. Before(forge'[k], g.seq)
        BY <1>1, <1>i DEF Before
      <4> QED BY <1>1, <1>2, <1>3, <1>s, <3>2, <4>1, <4>2, <4>3 DEF Leads
    <3> QED BY <3>1, <3>2
  <2>5. Checked' = Checked
    BY DEF Checked
  <2> QED BY <2>1, <2>2, <2>3, <2>4, <2>5 DEF RowsSound
<1>t. This' = This /\ Key' = Key
  BY <1>1 DEF This, Place, Key
<1>6. Batch'
  <2>1. ASSUME NEW p \in lane.todo PROVE Current(p)'
    <3>0. Current(p) /\ p \in SnapshotOf
      BY DEF ChecksInv, Batch, CheckTypes, LaneOf
    <3>1. CASE p.key = k
      <4>1. ~Delivered(row[k])
        BY <3>0, <3>1 DEF Current, Delivered
      <4>2. p.seq \in Nat /\ p.seq <= row[k].seq
        BY <3>0, <3>1 DEF Current, SnapshotOf
      <4>3. p.seq <= g.seq /\ p.seq # g.seq
        BY <1>0, <1>2, <4>2
      <4>4. g.handle = p.handle /\ g.state = "pending"
        BY <1>2, <3>0, <3>1, <4>1 DEF Current
      <4>5. g.createSeq = p.createSeq \/ Marked(p)'
        BY <1>1, <1>2, <1>3, <1>t, <3>0, <3>1, <4>1 DEF Current, Marked
      <4> QED BY <1>3, <3>0, <3>1, <4>3, <4>4, <4>5 DEF Current
    <3>2. CASE p.key # k
      <4>1. row'[p.key] = row[p.key]
        BY <1>3, <3>0, <3>2 DEF SnapshotOf
      <4>2. ~Marked(p) \/ Marked(p)'
        BY <1>1, <1>t, <4>1 DEF Marked
      <4> QED BY <3>0, <4>1, <4>2, StaysCurrent
    <3> QED BY <3>1, <3>2
  <2> QED BY <1>1, <2>1 DEF ChecksInv, Batch
<1>7. Creating' /\ Answered'
  <2>1. ASSUME lane.at = "create"
        PROVE  row'[Key].handle = row[Key].handle /\ row'[Key].createSeq = row[Key].createSeq
    <3>1. This \in lane.todo /\ Key \in Checked
      BY <2>1, ThisIsNext DEF ChecksInv, Batch
    <3>2. ~Delivered(row[Key])
      BY <3>1 DEF ChecksInv, Batch, Current, Delivered, Key
    <3> QED BY <1>2, <1>3, <3>1, <3>2
  <2> QED BY <1>1, <1>t, <2>1 DEF ChecksInv, Creating, Answered, Ended, Before
<1> QED BY <1>4, <1>5, <1>6, <1>7 DEF ChecksInv

-----------------------------------------------------------------------------
(* The requests.                                                           *)

\* Where a snapshot leads: to the newest run of its row, or to none, and then nothing is
\* open and every run is older than what the row would create (github.rs publish).
LEMMA ExistingRun ==
  ASSUME ChecksInv, lane.at = "publish", NEW k \in Checked, k = Key
  PROVE  /\ Existing(This) # 0 => /\ Existing(This) = Len(forge[k])
                                  /\ row[k].handle # 0 \/ row[k].createSeq # 0
         /\ Existing(This) = 0 => /\ row[k].handle = 0 /\ Ended(forge[k])
                                  /\ Before(forge[k], row[k].seq)
<1>0. forge[k] \in Seq(RunOf) /\ row[k] \in RowOf /\ CheckTypes
  BY DEF ChecksInv, CheckTypes
<1>n. row[k].createSeq \in Nat /\ row[k].seq \in Nat /\ row[k].handle \in Nat
  BY <1>0 DEF RowOf
<1>d. /\ \A i \in DOMAIN forge[k] : forge[k][i].ident \in Nat /\ i \in Nat
      /\ Len(forge[k]) \in Nat
      /\ Len(forge[k]) # 0 => Len(forge[k]) \in DOMAIN forge[k]
  <2>1. \A i \in DOMAIN forge[k] : forge[k][i] \in RunOf
    BY <1>0
  <2>2. \A i \in DOMAIN forge[k] : forge[k][i].ident \in Nat
    BY <2>1 DEF RunOf
  <2> QED BY <1>0, <2>2
<1>t. This \in lane.todo /\ This.key = k
  BY <1>0, ThisIsNext DEF ChecksInv, Batch, Key
<1>c. row[k].handle = This.handle /\ row[k].createSeq = This.createSeq
  <2>1. Current(This) /\ ~Marked(This)
    BY <1>t DEF ChecksInv, Batch, Marked
  <2> QED BY <1>t, <2>1 DEF Current
<1>s. Ordered(k) /\ Leads(k)
  BY DEF ChecksInv, RowsSound
<1>1. CASE row[k].handle # 0
  <2>1. Existing(This) = row[k].handle
    BY <1>1, <1>c DEF Existing
  <2> QED BY <1>1, <1>s, <2>1 DEF Leads
<1>2. CASE row[k].handle = 0 /\ row[k].createSeq = 0
  <2>1. Existing(This) = 0
    BY <1>2, <1>c DEF Existing
  <2> QED BY <1>2, <1>s, <2>1 DEF Leads
<1>3. CASE row[k].handle = 0 /\ row[k].createSeq # 0
  <2> DEFINE made == {i \in DOMAIN forge[k] : forge[k][i].ident = row[k].createSeq}
  <2>1. Existing(This) = IF made # {} THEN CHOOSE i \in made : TRUE ELSE 0
    BY <1>3, <1>c, <1>t DEF Existing, Made
  <2>2. CASE Len(forge[k]) # 0 /\ forge[k][Len(forge[k])].ident = row[k].createSeq
    <3>1. Len(forge[k]) \in made
      BY <1>d, <2>2
    <3>2. \A i \in made : i = Len(forge[k])
      <4> SUFFICES ASSUME NEW i \in made, i # Len(forge[k]) PROVE FALSE
        OBVIOUS
      <4>1. i < Len(forge[k])
        BY <1>0
      <4>2. forge[k][i].ident < forge[k][Len(forge[k])].ident
        BY <1>d, <1>s, <2>2, <4>1 DEF Ordered
      <4> QED BY <1>n, <2>2, <4>2
    <3>3. Existing(This) \in made
      BY <2>1, <3>1
    <3> QED BY <1>3, <2>2, <3>2, <3>3
  <2>3. CASE Ended(forge[k]) /\ Before(forge[k], row[k].createSeq)
    <3>1. made = {}
      BY <1>d, <1>n, <2>3 DEF Before
    <3>2. Existing(This) = 0
      BY <2>1, <3>1
    <3>3. Before(forge[k], row[k].seq)
      BY <1>d, <1>n, <1>s, <2>3 DEF Before, Leads
    <3> QED BY <1>3, <2>3, <3>2, <3>3
  <2> QED BY <1>3, <1>s, <2>2, <2>3 DEF Leads
<1> QED BY <1>1, <1>2, <1>3

\* The forge takes an update of the newest run.
LEMMA UpdatedRun ==
  ASSUME NEW p \in SnapshotOf, NEW x \in RunOf
  PROVE  /\ Updated(x, p) \in RunOf /\ Updated(x, p).ident = x.ident
         /\ Completed(x.shows) => Completed(Updated(x, p).shows)
         /\ Completed(p.status) => Updated(x, p).shows = p.status
<1> DEFINE y == [x EXCEPT !.shows = p.status, !.gen = p.seq]
<1>1. y \in RunOf /\ y.ident = x.ident /\ y.shows = p.status
  BY DEF RunOf, SnapshotOf
<1>2. Updated(x, p) = IF Completed(x.shows) /\ ~Completed(p.status) THEN x ELSE y
  BY DEF Updated
<1> HIDE DEF y
<1> QED BY <1>1, <1>2

\* A row stays sound when its newest run is updated.
LEMMA UpdateSound ==
  ASSUME ChecksInv, lane.at = "publish", NEW k \in Checked, k = Key, Existing(This) # 0,
         UNCHANGED row, forge' = [forge EXCEPT ![k][Existing(This)] = Updated(@, This)]
  PROVE  /\ forge' \in [Checked -> Seq(RunOf)] /\ \A r \in Checked : r # k => forge'[r] = forge[r]
         /\ Len(forge'[k]) = Len(forge[k]) /\ Existing(This) = Len(forge[k])
         /\ Completed(This.status) => forge'[k][Len(forge[k])].shows = This.status
         /\ (Ordered(k) /\ Leads(k) /\ Honest(k))'
<1>0. /\ forge[k] \in Seq(RunOf) /\ row[k] \in RowOf /\ CheckTypes /\ forge \in [Checked -> Seq(RunOf)]
  BY DEF ChecksInv, CheckTypes
<1>t. This \in lane.todo /\ This.key = k /\ This \in SnapshotOf
  BY <1>0, ThisIsNext DEF ChecksInv, Batch, Key
<1>e. Existing(This) = Len(forge[k]) /\ (row[k].handle # 0 \/ row[k].createSeq # 0)
  BY ExistingRun
<1>s. Ordered(k) /\ Leads(k) /\ Honest(k)
  BY DEF ChecksInv, RowsSound
<1> DEFINE n == Len(forge[k])
           new == [forge[k] EXCEPT ![n] = Updated(forge[k][n], This)]
<1>n. n \in DOMAIN forge[k] /\ forge[k][n] \in RunOf
  BY <1>0, <1>e
<1>1. forge' = [forge EXCEPT ![k] = new]
  BY <1>0, <1>e
<1>2. /\ new \in Seq(RunOf) /\ DOMAIN new = DOMAIN forge[k] /\ Len(new) = n
      /\ new[n] = Updated(forge[k][n], This)
      /\ \A i \in DOMAIN forge[k] : i # n => new[i] = forge[k][i]
  <2>1. Updated(forge[k][n], This) \in RunOf
    BY <1>n, <1>t, UpdatedRun
  <2> QED BY <1>0, <1>n, <2>1
<1>3. /\ new[n].ident = forge[k][n].ident
      /\ Completed(forge[k][n].shows) => Completed(new[n].shows)
      /\ Completed(This.status) => new[n].shows = This.status
  BY <1>2, <1>n, <1>t, UpdatedRun
<1> HIDE DEF new
<1>4. forge' \in [Checked -> Seq(RunOf)] /\ forge'[k] = new /\ \A r \in Checked : r # k => forge'[r] = forge[r]
  BY <1>0, <1>1, <1>2
<1>5. \A i \in DOMAIN forge[k] : /\ new[i].ident = forge[k][i].ident
                                 /\ Completed(forge[k][i].shows) => Completed(new[i].shows)
  BY <1>2, <1>3
<1>6. Ordered(k)'
  BY <1>2, <1>4, <1>5, <1>s DEF Ordered
<1>7. Leads(k)'
  <2>1. Ended(forge[k]) => Ended(new)
    BY <1>2, <1>5 DEF Ended
  <2>2. \A m : Before(forge[k], m) => Before(new, m)
    BY <1>2, <1>5 DEF Before
  <2> QED BY <1>2, <1>4, <1>5, <1>n, <1>s, <2>1, <2>2 DEF Leads
<1>8. Honest(k)'
  <2>1. row[k].state = "pending"
    BY <1>t DEF ChecksInv, Batch, Current
  <2> QED BY <2>1 DEF Honest, Delivered
<1> QED BY <1>2, <1>3, <1>4, <1>e, <1>6, <1>7, <1>8

LEMMA UpdateKeeps ==
  ASSUME ChecksInv, UNCHANGED outbox, Update
  PROVE  ChecksInv'
<1>0. CheckTypes
  BY DEF ChecksInv
<1>1. /\ lane.at = "publish" /\ Existing(This) # 0 /\ UNCHANGED row
      /\ \/ /\ forge' = [forge EXCEPT ![Key][Existing(This)] = Updated(@, This)]
            /\ Answer("ok", Existing(This)) \/ Answer("retry", 0)
         \/ UNCHANGED forge /\ (Answer("retry", 0) \/ Answer("throttled", 0) \/ Answer("refused", 0))
  BY DEF Update, NoAnswer
<1>2. CASE UNCHANGED forge /\ (Answer("retry", 0) \/ Answer("throttled", 0) \/ Answer("refused", 0))
  BY <1>1, <1>2, NoAnswerKeeps
<1>3. ASSUME forge' = [forge EXCEPT ![Key][Existing(This)] = Updated(@, This)],
             NEW a \in {"ok", "retry"}, NEW m \in {Existing(This), 0}, Answer(a, m),
             a = "ok" => m = Existing(This)
      PROVE  ChecksInv'
  <2>1. PICK k \in Checked : k = Key
    BY <1>0, <1>1, ThisIsNext DEF ChecksInv, Batch
  <2>2. /\ forge' \in [Checked -> Seq(RunOf)] /\ \A r \in Checked : r # k => forge'[r] = forge[r]
        /\ Len(forge'[k]) = Len(forge[k]) /\ Existing(This) = Len(forge[k])
        /\ Completed(This.status) => forge'[k][Len(forge[k])].shows = This.status
        /\ (Ordered(k) /\ Leads(k) /\ Honest(k))'
    BY <1>1, <1>3, <2>1, UpdateSound
  <2>3. m \in Nat
    <3>1. forge[k] \in Seq(RunOf)
      BY <1>0 DEF CheckTypes
    <3> QED BY <2>2, <3>1
  <2>4. /\ lane' \in LaneOf /\ lane'.at = "record" /\ lane'.todo = lane.todo
        /\ lane'.answer = a /\ lane'.run = m /\ This' = This
    BY <1>0, <1>3, <2>3, AnswerLane
  <2>5. CheckTypes'
    BY <1>0, <1>1, <2>2, <2>4 DEF CheckTypes, Checked, LaneOf, SnapshotOf
  <2>6. RowsSound'
    <3>1. ASSUME NEW r \in Checked, r # k PROVE (Ordered(r) /\ Leads(r) /\ Honest(r))'
      <4>1. row'[r] = row[r] /\ forge'[r] = forge[r] /\ Ordered(r) /\ Leads(r) /\ Honest(r)
        BY <1>1, <2>2, <3>1 DEF ChecksInv, RowsSound
      <4> QED BY <4>1, SoundRow
    <3>2. Checked' = Checked
      BY DEF Checked
    <3> QED BY <2>2, <3>1, <3>2 DEF RowsSound
  <2>7. Batch' /\ Key' = Key
    BY <1>0, <1>1, <2>4, BatchStays DEF ChecksInv, Batch
  <2>8. Creating'
    BY <2>4 DEF Creating
  <2>9. Answered'
    <3>1. a = "ok" => m = Len(forge'[k]) /\ m # 0
      BY <1>1, <1>3, <2>2
    <3> QED BY <2>1, <2>2, <2>4, <2>7, <3>1 DEF Answered
  <2> QED BY <2>5, <2>6, <2>7, <2>8, <2>9 DEF ChecksInv
<1> QED BY <1>1, <1>2, <1>3

\* The mark is written, for the generation that was read (checks.rs create_started).
LEMMA MarkKeeps ==
  ASSUME ChecksInv, UNCHANGED outbox, create_started
  PROVE  ChecksInv'
<1>0. CheckTypes /\ row \in [Checked -> RowOf] /\ lane \in LaneOf
  BY DEF ChecksInv, CheckTypes
<1>1. /\ lane.at = "publish" /\ Existing(This) = 0 /\ UNCHANGED forge
      /\ \/ /\ Same(Key, This.seq)
            /\ row' = [row EXCEPT ![Key].createSeq = This.seq]
            /\ lane' = [lane EXCEPT !.at = "create"]
         \/ Answer("retry", 0) /\ UNCHANGED row
  BY DEF create_started
<1>2. CASE Answer("retry", 0) /\ UNCHANGED row
  BY <1>1, <1>2, NoAnswerKeeps
<1>3. CASE /\ Same(Key, This.seq)
           /\ row' = [row EXCEPT ![Key].createSeq = This.seq]
           /\ lane' = [lane EXCEPT !.at = "create"]
  <2>1. PICK k \in Checked : k = Key
    BY <1>0, <1>1, ThisIsNext DEF ChecksInv, Batch
  <2>t. This \in lane.todo /\ This.key = k /\ This \in SnapshotOf
    BY <1>0, <1>1, <2>1, ThisIsNext DEF ChecksInv, Batch, Key
  <2>2. row[k].handle = 0 /\ Ended(forge[k]) /\ Before(forge[k], row[k].seq)
    BY <1>1, <2>1, ExistingRun
  <2>3. row[k].seq = This.seq /\ This.seq \in Nat /\ row[k] \in RowOf
    BY <1>0, <1>3, <2>1, <2>t DEF Same, SnapshotOf
  <2> DEFINE q == [row[k] EXCEPT !.createSeq = This.seq]
  <2>4. row' = [row EXCEPT ![k] = q]
    BY <1>0, <1>3, <2>1
  <2>5. /\ q \in RowOf /\ q.createSeq = This.seq /\ q.seq = row[k].seq /\ q.status = row[k].status
        /\ q.handle = row[k].handle /\ q.state = row[k].state /\ Delivered(q) = Delivered(row[k])
    BY <2>3, RowColumns
  <2> HIDE DEF q
  <2>6. row' \in [Checked -> RowOf] /\ row'[k] = q /\ \A r \in Checked : r # k => row'[r] = row[r]
    BY <1>0, <2>4, <2>5
  <2>7. /\ lane' \in LaneOf /\ lane'.todo = lane.todo /\ lane'.at = "create"
    BY <1>0, <1>3 DEF LaneOf
  <2>8. This' = This /\ Key' = Key
    BY <2>7 DEF This, Place, Key
  <2>9. CheckTypes'
    BY <1>0, <1>1, <2>6, <2>7 DEF CheckTypes, Checked, LaneOf, SnapshotOf
  <2>p. row[k].state = "pending" /\ This.seq # 0
    BY <2>t DEF ChecksInv, Batch, Current
  <2>10. RowsSound'
    <3>1. ASSUME NEW r \in Checked, r # k PROVE (Ordered(r) /\ Leads(r) /\ Honest(r))'
      <4>1. row'[r] = row[r] /\ forge'[r] = forge[r] /\ Ordered(r) /\ Leads(r) /\ Honest(r)
        BY <1>1, <2>6, <3>1 DEF ChecksInv, RowsSound
      <4> QED BY <4>1, SoundRow
    <3>2. Ordered(k)'
      BY <1>1, <2>5, <2>6 DEF ChecksInv, RowsSound, Ordered
    <3>3. Leads(k)'
      <4>1. Ended(forge'[k]) /\ Before(forge'[k], q.createSeq)
        BY <1>1, <2>2, <2>3, <2>5
      <4>2. q.createSeq <= q.seq /\ q.createSeq # 0 /\ q.handle = 0
        BY <2>2, <2>3, <2>5, <2>p
      <4> QED BY <2>6, <4>1, <4>2 DEF Leads
    <3>4. Honest(k)'
      BY <2>5, <2>6, <2>p DEF Honest, Delivered
    <3>5. Checked' = Checked
      BY DEF Checked
    <3> QED BY <3>1, <3>2, <3>3, <3>4, <3>5 DEF RowsSound
  <2>11. Batch'
    <3>1. ASSUME NEW p \in lane.todo PROVE Current(p)'
      <4>0. Current(p) /\ p \in SnapshotOf /\ ~Marked(p)
        BY <1>1 DEF ChecksInv, Batch, CheckTypes, LaneOf, Marked
      <4>1. CASE p = This
        <5>1. Marked(p)'
          BY <2>5, <2>6, <2>7, <2>8, <2>t, <4>1 DEF Marked
        <5> QED BY <2>5, <2>6, <2>t, <4>0, <4>1, <5>1 DEF Current
      <4>2. CASE p # This
        <5>1. p.key # k /\ p.key \in Checked
          BY <2>t, <4>0, <4>2 DEF ChecksInv, Batch, SnapshotOf
        <5>2. row'[p.key] = row[p.key]
          BY <2>6, <5>1
        <5> QED BY <4>0, <5>2, StaysCurrent
      <4> QED BY <4>1, <4>2
    <3> QED BY <2>7, <2>t, <3>1 DEF ChecksInv, Batch
  <2>12. Creating'
    BY <1>1, <2>1, <2>2, <2>3, <2>5, <2>6, <2>8 DEF Creating, Ended, Before
  <2>13. Answered'
    BY <2>7 DEF Answered
  <2> QED BY <2>9, <2>10, <2>11, <2>12, <2>13 DEF ChecksInv
<1> QED BY <1>1, <1>2, <1>3

\* A row stays sound when its marked run is created.
LEMMA CreateSound ==
  ASSUME ChecksInv, lane.at = "create", NEW k \in Checked, k = Key, UNCHANGED row,
         forge' = [forge EXCEPT ![k] = Append(@, [ident |-> This.seq, shows |-> This.status,
                                                   gen |-> This.seq])]
  PROVE  /\ forge' \in [Checked -> Seq(RunOf)] /\ \A r \in Checked : r # k => forge'[r] = forge[r]
         /\ Len(forge'[k]) = Len(forge[k]) + 1
         /\ forge'[k][Len(forge'[k])].shows = This.status
         /\ (Ordered(k) /\ Leads(k) /\ Honest(k))'
<1>0. /\ forge[k] \in Seq(RunOf) /\ row[k] \in RowOf /\ CheckTypes /\ forge \in [Checked -> Seq(RunOf)]
  BY DEF ChecksInv, CheckTypes
<1>t. This \in lane.todo /\ This.key = k /\ This \in SnapshotOf
  BY <1>0, ThisIsNext DEF ChecksInv, Batch, Key
<1>c. /\ row[k].handle = 0 /\ row[k].createSeq = This.seq
      /\ Ended(forge[k]) /\ Before(forge[k], This.seq)
  BY DEF ChecksInv, Creating
<1>s. Ordered(k) /\ Leads(k) /\ Honest(k)
  BY DEF ChecksInv, RowsSound
<1> DEFINE x == [ident |-> This.seq, shows |-> This.status, gen |-> This.seq]
           n == Len(forge[k]) + 1
<1>x. x \in RunOf /\ x.ident = This.seq /\ x.shows = This.status
  BY <1>t DEF RunOf, SnapshotOf
<1> HIDE DEF x
<1> DEFINE new == Append(forge[k], x)
<1>1. /\ new \in Seq(RunOf) /\ Len(new) = n /\ new[n] = x /\ n \in DOMAIN new /\ n # 0
      /\ \A i \in DOMAIN new : i = n \/ (i \in DOMAIN forge[k] /\ new[i] = forge[k][i] /\ i < n)
      /\ \A i \in DOMAIN new : i \in Nat /\ i <= n
  BY <1>0, <1>x
<1>2. forge' = [forge EXCEPT ![k] = new]
  BY <1>0 DEF x
<1> HIDE DEF new
<1>3. forge' \in [Checked -> Seq(RunOf)] /\ forge'[k] = new /\ \A r \in Checked : r # k => forge'[r] = forge[r]
  BY <1>0, <1>1, <1>2
<1>4. This.seq \in Nat /\ This.seq # 0 /\ This.seq <= row[k].seq /\ row[k].state = "pending"
  BY <1>t DEF ChecksInv, Batch, Current, SnapshotOf
<1>5. Ordered(k)'
  <2>1. \A i \in DOMAIN new : i # n => Completed(new[i].shows)
    BY <1>1, <1>c DEF Ended
  <2>2. ASSUME NEW i \in DOMAIN new, NEW j \in DOMAIN new, i < j
        PROVE  new[i].ident < new[j].ident
    <3>1. CASE j = n
      <4>1. i \in DOMAIN forge[k] /\ new[i] = forge[k][i]
        BY <1>1, <2>2, <3>1
      <4> QED BY <1>1, <1>c, <1>x, <3>1, <4>1 DEF Before
    <3>2. CASE j # n
      <4>1. i # n
        BY <1>1, <2>2, <3>2
      <4> QED BY <1>1, <1>s, <2>2, <3>2, <4>1 DEF Ordered
    <3> QED BY <3>1, <3>2
  <2>3. \A i \in DOMAIN new : new[i].ident <= row[k].seq
    BY <1>1, <1>4, <1>s, <1>x DEF Ordered
  <2> QED BY <1>1, <1>3, <1>s, <2>1, <2>2, <2>3 DEF Ordered
<1>6. Leads(k)'
  BY <1>1, <1>3, <1>4, <1>c, <1>s, <1>x DEF Leads
<1>7. Honest(k)'
  BY <1>4 DEF Honest, Delivered
<1> QED BY <1>1, <1>3, <1>5, <1>6, <1>7, <1>x

LEMMA CreateKeeps ==
  ASSUME ChecksInv, UNCHANGED outbox, create
  PROVE  ChecksInv'
<1>0. CheckTypes
  BY DEF ChecksInv
<1> DEFINE new == [forge EXCEPT ![Key] = Append(@, [ident |-> This.seq, shows |-> This.status,
                                                   gen |-> This.seq])]
<1>1. /\ lane.at = "create" /\ UNCHANGED row
      /\ \/ forge' = new /\ (Answer("ok", Len(new[Key])) \/ Answer("retry", 0))
         \/ UNCHANGED forge /\ (Answer("retry", 0) \/ Answer("throttled", 0) \/ Answer("refused", 0))
  BY DEF create, NoAnswer
<1>2. CASE UNCHANGED forge /\ (Answer("retry", 0) \/ Answer("throttled", 0) \/ Answer("refused", 0))
  BY <1>1, <1>2, NoAnswerKeeps
<1>3. ASSUME forge' = new, NEW a \in {"ok", "retry"}, NEW m \in {Len(new[Key]), 0}, Answer(a, m),
             a = "ok" => m = Len(new[Key])
      PROVE  ChecksInv'
  <2>1. PICK k \in Checked : k = Key
    BY <1>0, <1>1, ThisIsNext DEF ChecksInv, Batch
  <2>2. /\ forge' \in [Checked -> Seq(RunOf)] /\ \A r \in Checked : r # k => forge'[r] = forge[r]
        /\ Len(forge'[k]) = Len(forge[k]) + 1
        /\ forge'[k][Len(forge'[k])].shows = This.status
        /\ (Ordered(k) /\ Leads(k) /\ Honest(k))'
    BY <1>1, <1>3, <2>1, CreateSound
  <2>n. Len(new[Key]) = Len(forge'[k])
    BY <1>3, <2>1
  <2> HIDE DEF new
  <2>3. m \in Nat /\ Len(forge'[k]) # 0
    <3>1. Len(forge[k]) \in Nat
      BY <1>0 DEF CheckTypes
    <3> QED BY <1>3, <2>2, <2>n, <3>1
  <2>4. /\ lane' \in LaneOf /\ lane'.at = "record" /\ lane'.todo = lane.todo
        /\ lane'.answer = a /\ lane'.run = m /\ This' = This
    BY <1>0, <1>3, <2>3, AnswerLane
  <2>5. CheckTypes'
    BY <1>0, <1>1, <2>2, <2>4 DEF CheckTypes, Checked, LaneOf, SnapshotOf
  <2>6. RowsSound'
    <3>1. ASSUME NEW r \in Checked, r # k PROVE (Ordered(r) /\ Leads(r) /\ Honest(r))'
      <4>1. row'[r] = row[r] /\ forge'[r] = forge[r] /\ Ordered(r) /\ Leads(r) /\ Honest(r)
        BY <1>1, <2>2, <3>1 DEF ChecksInv, RowsSound
      <4> QED BY <4>1, SoundRow
    <3>2. Checked' = Checked
      BY DEF Checked
    <3> QED BY <2>2, <3>1, <3>2 DEF RowsSound
  <2>7. Batch' /\ Key' = Key
    BY <1>0, <1>1, <2>4, BatchStays DEF ChecksInv, Batch
  <2>8. Creating'
    BY <2>4 DEF Creating
  <2>9. Answered'
    BY <1>3, <2>1, <2>2, <2>3, <2>4, <2>7, <2>n DEF Answered
  <2> QED BY <2>5, <2>6, <2>7, <2>8, <2>9 DEF ChecksInv
<1> QED BY <1>1, <1>2, <1>3

-----------------------------------------------------------------------------
(* The theorems.                                                           *)

LEMMA ChecksStepKeeps ==
  ASSUME ChecksInv, [ChecksNext]_checkVars
  PROVE  ChecksInv'
<1>1. CASE checkVars' = checkVars
  BY <1>1, QuietKeeps
<1>2. CASE ChecksNext
  <2>1. ChecksStep /\ UNCHANGED outbox
    BY <1>2 DEF ChecksNext
  <2>2. CASE LaneStep
    BY <2>1, <2>2, DueKeeps, HeldBackKeeps, UpdateKeeps, LookupFailsKeeps, MarkKeeps, CreateKeeps,
       RecordKeeps, StrikeKeeps, CloseKeeps DEF LaneStep
  <2>3. CASE StoreDown \/ LaneRestarts \/ rearm_exhausted \/ LimitPasses
    BY <2>1, <2>3, StoreDownKeeps, RestartKeeps, RearmKeeps, LimitKeeps
  <2>4. CASE \E r \in Checked : ComesDue(r) \/ SkipLapses(r) \/ \E s \in Shown : upsert(r, s)
    BY <2>1, <2>4, ComesDueKeeps, SkipKeeps, UpsertKeeps
  <2> QED BY <2>1, <2>2, <2>3, <2>4 DEF ChecksStep
<1> QED BY <1>1, <1>2

\* The invariant holds of every behaviour of the outbox, its lane and the forge.
THEOREM ChecksInvariant == ChecksSpec => []ChecksInv
<1>1. ChecksInit => ChecksInv
  <2> SUFFICES ASSUME ChecksInit PROVE ChecksInv
    OBVIOUS
  <2> DEFINE p == [seq |-> 1, published |-> 0, status |-> "queued", handle |-> 0, createSeq |-> 0,
                   state |-> "pending", attempts |-> 0, waits |-> FALSE, exhausted |-> FALSE]
  <2>1. /\ outbox \in Outboxes /\ row = [r \in Checked |-> p] /\ forge = [r \in Checked |-> <<>>]
        /\ lane = Idle("no")
    BY DEF ChecksInit
  <2>2. p \in RowOf /\ p.seq = 1 /\ p.handle = 0 /\ p.createSeq = 0 /\ p.state = "pending"
    BY Flags DEF RowOf, Shown
  <2> HIDE DEF p
  <2>3. lane \in LaneOf /\ lane.at = "idle" /\ lane.todo = {}
    BY <2>1, IdleLane
  <2>4. CheckTypes
    <3>1. <<>> \in Seq(RunOf)
      OBVIOUS
    <3> QED BY <2>1, <2>2, <2>3, <3>1 DEF CheckTypes
  <2>5. RowsSound
    <3> SUFFICES ASSUME NEW r \in Checked PROVE Ordered(r) /\ Leads(r) /\ Honest(r)
      BY DEF RowsSound
    <3>1. row[r] = p /\ forge[r] = <<>> /\ DOMAIN forge[r] = {}
      BY <2>1
    <3>2. Ordered(r)
      BY <2>2, <3>1 DEF Ordered
    <3>3. Leads(r)
      BY <2>2, <3>1 DEF Leads, Ended, Before
    <3>4. Honest(r)
      BY <2>2, <3>1 DEF Honest, Delivered
    <3> QED BY <3>2, <3>3, <3>4
  <2>6. Batch /\ Creating /\ Answered
    BY <2>3 DEF Batch, Creating, Answered
  <2> QED BY <2>4, <2>5, <2>6 DEF ChecksInv
<1>2. ChecksInv /\ [ChecksNext]_checkVars => ChecksInv'
  BY ChecksStepKeeps
<1> QED BY <1>1, <1>2, PTL DEF ChecksSpec

\* For every outbox: a row that says its verdict is published names the newest check run,
\* and that run shows this verdict (checks.rs published, upsert; lane.rs).
THEOREM PublishedVerdictsAreShown == ChecksSpec => []VerdictShown
<1>1. ChecksInv => VerdictShown
  BY DEF ChecksInv, RowsSound, Honest, VerdictShown
<1> QED BY <1>1, ChecksInvariant, PTL

\* For every outbox: no create is carried out twice, and only the newest check run of a row
\* is unfinished (checks.rs create_started; github.rs publish).
THEOREM NoCheckRunIsLeftOpen == ChecksSpec => []OneOpenRun
<1>1. ChecksInv => OneOpenRun
  <2> SUFFICES ASSUME ChecksInv, NEW r \in Checked
               PROVE  /\ Cardinality(Unfinished(r)) <= 1
                      /\ \A i \in Unfinished(r) : i = Len(forge[r])
                      /\ \A i, j \in DOMAIN forge[r] : forge[r][i].ident = forge[r][j].ident => i = j
    BY DEF OneOpenRun
  <2>0. Ordered(r) /\ forge[r] \in Seq(RunOf)
    BY DEF ChecksInv, RowsSound, CheckTypes
  <2>1. \A i \in Unfinished(r) : i = Len(forge[r])
    BY <2>0 DEF Ordered, Unfinished
  <2>2. Cardinality(Unfinished(r)) <= 1
    <3>1. CASE Unfinished(r) = {}
      BY <3>1, FS_EmptySet
    <3>2. CASE Unfinished(r) # {}
      <4>1. Unfinished(r) = {Len(forge[r])}
        BY <2>1, <3>2
      <4>2. \A x : Cardinality({x}) = 1
        BY FS_Singleton
      <4>3. Cardinality(Unfinished(r)) = 1
        BY <4>1, <4>2, Zenon
      <4> QED BY <4>3
    <3> QED BY <3>1, <3>2
  <2>3. ASSUME NEW i \in DOMAIN forge[r], NEW j \in DOMAIN forge[r],
               forge[r][i].ident = forge[r][j].ident, i # j
        PROVE  FALSE
    <3>1. i \in Nat /\ j \in Nat /\ forge[r][i] \in RunOf /\ forge[r][j] \in RunOf
      BY <2>0
    <3>2. forge[r][i].ident \in Nat /\ forge[r][j].ident \in Nat
      BY <3>1 DEF RunOf
    <3>3. i < j \/ j < i
      BY <2>3, <3>1
    <3>4. forge[r][i].ident < forge[r][j].ident \/ forge[r][j].ident < forge[r][i].ident
      BY <2>0, <3>3 DEF Ordered
    <3> QED BY <2>3, <3>2, <3>4
  <2> QED BY <2>1, <2>2, <2>3
<1> QED BY <1>1, ChecksInvariant, PTL
=============================================================================

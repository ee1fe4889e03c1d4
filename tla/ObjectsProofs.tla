---------------------------- MODULE ObjectsProofs ----------------------------
(***************************************************************************)
(* The proofs of Objects.  What a row may rely on depends on where every   *)
(* thread stands: that a file is there on the pins, that a row stays on    *)
(* the maintenance lock, that the bucket's copy stays on the replicator    *)
(* being the only one who deletes it.  Locked, Rested and Accounted say    *)
(* this for each place a thread can be in; together with the types they    *)
(* are inductive.                                                          *)
(***************************************************************************)
EXTENDS Objects, TLAPS

Stage == {"none", "placing", "staged"}
Meta == [live : BOOLEAN, kept : BOOLEAN, remote : BOOLEAN, evicted : BOOLEAN,
         marked : BOOLEAN, deletes : Nat]
Draining == {"deletes", "deleting", "deleted"}
Evicting == {"evicting", "removing", "kept"}

ObjectTypes ==
    /\ meta \in Meta
    /\ disk \in {"none", "new", "old"}
    /\ bucket \in BOOLEAN /\ fetched \in BOOLEAN /\ spared \in BOOLEAN
    /\ stagers \in [DOMAIN stagers -> Stage]
    /\ reader \in {"none", "fetching", "moved", "opened", "pinned"}
    /\ copier \in [at : {"rest", "chosen", "opening", "sending", "sent", "evict"}
                          \cup Draining \cup Evicting, left : Nat]

(* The maintenance lock has one holder, and the holder is at work. *)
Locked ==
    /\ latch = "sweep" <=> sweep # "rest"
    /\ latch = "evict" <=> copier.at \in Evicting
    /\ latch = "backup" <=> backup # "none"

(* What a row and a stager rely on: a staged file is there, a recorded     *)
(* copy is in the bucket and belongs to a row, and nobody is deleting it;  *)
(* the row an eviction or a backup works on does not leave.                *)
Rested ==
    /\ RowHasBytes
    /\ \A s \in DOMAIN stagers : stagers[s] = "staged" => disk # "none"
    /\ meta.remote => meta.live /\ bucket /\ copier.at \notin {"deleting", "deleted"}
    /\ meta.evicted => meta.remote
    /\ copier.at \in Evicting => meta.live /\ meta.remote
    /\ backup = "to copy" => meta.live /\ disk # "none"

(* Who will see to the copy in the bucket: a queued delete, or the row     *)
(* that recorded or marked it.  The replicator counts only deletes that    *)
(* are queued, and what it is sending is marked or its delete is queued.   *)
Accounted ==
    /\ bucket => meta.deletes > 0 \/ spared \/ (meta.live /\ (meta.remote \/ meta.marked))
    /\ copier.at \in Draining => copier.left <= meta.deletes
    /\ copier.at \in {"deleting", "deleted"} => copier.left > 0
    /\ copier.at = "deleted" => ~bucket
    /\ copier.at \in {"opening", "sending", "sent"} => meta.marked \/ meta.deletes > 0
    /\ copier.at = "sending" => meta.live
    /\ copier.at = "sent" => bucket

ObjectsInv == ObjectTypes /\ Locked /\ Rested /\ Accounted

(* A stager only adds a file or a row, and removes a file nobody owns       *)
(* (objects.rs stage, commit, discard).                                    *)
LEMMA StagersKeep ==
  ASSUME ObjectsInv, StagerStep
  PROVE  ObjectsInv'
<1> USE DEF ObjectsInv, ObjectTypes, Meta, Stage, Draining, Evicting, Free
<1>1. ASSUME NEW s \in DOMAIN stagers, place(s) PROVE ObjectsInv'
  <2>1. ObjectTypes'
    BY <1>1 DEF place, Spend
  <2>2. Locked'
    BY <1>1 DEF Locked, place, Spend
  <2>3. Rested'
    BY <1>1 DEF Rested, RowHasBytes, place, Spend
  <2>4. Accounted'
    BY <1>1 DEF Accounted, place, Spend
  <2> QED BY <2>1, <2>2, <2>3, <2>4
<1>2. ASSUME NEW s \in DOMAIN stagers, Placed(s) PROVE ObjectsInv'
  <2>1. ObjectTypes'
    BY <1>2 DEF Placed
  <2>2. Locked'
    BY <1>2 DEF Locked, Placed
  <2>3. Rested'
    BY <1>2 DEF Rested, RowHasBytes, Placed
  <2>4. Accounted'
    BY <1>2 DEF Accounted, Placed
  <2> QED BY <2>1, <2>2, <2>3, <2>4
<1>3. ASSUME NEW s \in DOMAIN stagers, commit(s) PROVE ObjectsInv'
  <2>1. ObjectTypes'
    BY <1>3, ZenonT(60) DEF commit, Inserted
  <2>2. Locked'
    BY <1>3 DEF Locked, commit, Inserted
  <2>3. Rested'
    BY <1>3 DEF Rested, RowHasBytes, commit, Inserted
  <2>4. Accounted'
    BY <1>3 DEF Accounted, commit, Inserted
  <2> QED BY <2>1, <2>2, <2>3, <2>4
<1>4. ASSUME NEW s \in DOMAIN stagers, discard(s) PROVE ObjectsInv'
  <2>1. ObjectTypes'
    BY <1>4 DEF discard, Unowned, PinnedBesides
  <2>2. Locked'
    BY <1>4 DEF Locked, discard, Unowned, PinnedBesides
  <2>3. Rested'
    BY <1>4 DEF Rested, RowHasBytes, discard, Unowned, PinnedBesides
  <2>4. Accounted'
    BY <1>4 DEF Accounted, discard, Unowned, PinnedBesides
  <2> QED BY <2>1, <2>2, <2>3, <2>4
<1>5. ASSUME NEW s \in DOMAIN stagers, DropStaged(s) PROVE ObjectsInv'
  <2>1. ObjectTypes'
    BY <1>5 DEF DropStaged
  <2>2. Locked'
    BY <1>5 DEF Locked, DropStaged
  <2>3. Rested'
    BY <1>5 DEF Rested, RowHasBytes, DropStaged
  <2>4. Accounted'
    BY <1>5 DEF Accounted, DropStaged
  <2> QED BY <2>1, <2>2, <2>3, <2>4
<1>6. CASE Unreferenced
  <2>1. ObjectTypes'
    BY <1>6 DEF Unreferenced
  <2>2. Locked'
    BY <1>6 DEF Locked, Unreferenced
  <2>3. Rested'
    BY <1>6 DEF Rested, RowHasBytes, Unreferenced
  <2>4. Accounted'
    BY <1>6 DEF Accounted, Unreferenced
  <2> QED BY <2>1, <2>2, <2>3, <2>4
<1> QED BY <1>1, <1>2, <1>3, <1>4, <1>5, <1>6 DEF StagerStep

(* A read only moves a file in (open_read, open_local).                    *)
LEMMA ReaderKeeps ==
  ASSUME ObjectsInv, ReaderStep
  PROVE  ObjectsInv'
<1> USE DEF ObjectsInv, ObjectTypes, Draining, Evicting, readerVars
<1>1. CASE open_read
  <2>1. ObjectTypes'
    BY <1>1 DEF open_read, Spend
  <2>2. Locked'
    BY <1>1 DEF Locked, open_read, Spend
  <2>3. Rested'
    BY <1>1 DEF Rested, RowHasBytes, open_read, Spend
  <2>4. Accounted'
    BY <1>1 DEF Accounted, open_read, Spend
  <2> QED BY <2>1, <2>2, <2>3, <2>4
<1>2. CASE open_local
  <2>1. ObjectTypes'
    BY <1>2 DEF open_local, Free
  <2>2. Locked'
    BY <1>2 DEF Locked, open_local, Free
  <2>3. Rested'
    BY <1>2 DEF Rested, RowHasBytes, open_local, Free
  <2>4. Accounted'
    BY <1>2 DEF Accounted, open_local, Free
  <2> QED BY <2>1, <2>2, <2>3, <2>4
<1>3. CASE Rehydrated
  <2>1. ObjectTypes'
    BY <1>3 DEF Rehydrated, Free
  <2>2. Locked'
    BY <1>3 DEF Locked, Rehydrated, Free
  <2>3. Rested'
    BY <1>3 DEF Rested, RowHasBytes, Rehydrated, Free
  <2>4. Accounted'
    BY <1>3 DEF Accounted, Rehydrated, Free
  <2> QED BY <2>1, <2>2, <2>3, <2>4
<1>4. CASE Pin
  <2>1. ObjectTypes'
    BY <1>4 DEF Pin, Free
  <2>2. Locked'
    BY <1>4 DEF Locked, Pin, Free
  <2>3. Rested'
    BY <1>4 DEF Rested, RowHasBytes, Pin, Free
  <2>4. Accounted'
    BY <1>4 DEF Accounted, Pin, Free
  <2> QED BY <2>1, <2>2, <2>3, <2>4
<1>5. CASE CloseReader
  <2>1. ObjectTypes'
    BY <1>5 DEF CloseReader, Free
  <2>2. Locked'
    BY <1>5 DEF Locked, CloseReader, Free
  <2>3. Rested'
    BY <1>5 DEF Rested, RowHasBytes, CloseReader, Free
  <2>4. Accounted'
    BY <1>5 DEF Accounted, CloseReader, Free
  <2> QED BY <2>1, <2>2, <2>3, <2>4
<1> QED BY <1>1, <1>2, <1>3, <1>4, <1>5 DEF ReaderStep

(* The storage pass deletes rows under the lock, and files that are        *)
(* unowned when it asks again (reclaim, unlink, orphans).                  *)
LEMMA SweepKeeps ==
  ASSUME ObjectsInv, SweepStep
  PROVE  ObjectsInv'
<1> USE DEF ObjectsInv, ObjectTypes, Meta, Stage, Draining, Evicting, sweepVars, Free
<1>1. CASE StoragePass
  <2>1. ObjectTypes'
    BY <1>1 DEF StoragePass, Latched
  <2>2. Locked'
    BY <1>1 DEF Locked, StoragePass, Latched
  <2>3. Rested'
    BY <1>1 DEF Rested, RowHasBytes, StoragePass, Latched
  <2>4. Accounted'
    BY <1>1 DEF Accounted, StoragePass, Latched
  <2> QED BY <2>1, <2>2, <2>3, <2>4
<1>2. CASE reclaim
  <2>1. /\ UNCHANGED <<disk, latch, bucket, stagers, reader, fetched, copier, backup, spared>>
        /\ sweep = "rows" /\ sweep' # "rest"
    BY <1>2 DEF reclaim, Deleted, NoRow
  <2>2. CASE /\ meta.live /\ ~Pinned /\ (meta.remote \/ meta.marked)
               /\ meta' = [live |-> FALSE, kept |-> FALSE, remote |-> FALSE, evicted |-> FALSE,
                            marked |-> FALSE, deletes |-> meta.deletes + 1]
    <3>1. ObjectTypes'
      BY <2>1, <2>2 DEF ObjectTypes, NoRow
    <3>2. Locked'
      BY <2>1, <2>2 DEF Locked
    <3>3. Rested'
      BY <2>1, <2>2 DEF Rested, RowHasBytes, Locked, NoRow, Pinned, PinnedBesides
    <3>4. Accounted'
      BY <2>1, <2>2 DEF Accounted, NoRow, Pinned, PinnedBesides
    <3> QED BY <3>1, <3>2, <3>3, <3>4
  <2>3. CASE /\ meta.live /\ ~Pinned /\ ~meta.remote /\ ~meta.marked
               /\ meta' = [NoRow EXCEPT !.deletes = meta.deletes]
    <3>1. ObjectTypes'
      BY <2>1, <2>3 DEF ObjectTypes, NoRow
    <3>2. Locked'
      BY <2>1, <2>3 DEF Locked
    <3>3. Rested'
      BY <2>1, <2>3 DEF Rested, RowHasBytes, Locked, NoRow, Pinned, PinnedBesides
    <3>4. Accounted'
      BY <2>1, <2>3 DEF Accounted, NoRow, Pinned, PinnedBesides
    <3> QED BY <3>1, <3>2, <3>3, <3>4
  <2>4. CASE UNCHANGED meta
    <3>1. ObjectTypes'
      BY <2>1, <2>4 DEF ObjectTypes, NoRow
    <3>2. Locked'
      BY <2>1, <2>4 DEF Locked
    <3>3. Rested'
      BY <2>1, <2>4 DEF Rested, RowHasBytes, Locked, NoRow, Pinned, PinnedBesides
    <3>4. Accounted'
      BY <2>1, <2>4 DEF Accounted, NoRow, Pinned, PinnedBesides
    <3> QED BY <3>1, <3>2, <3>3, <3>4
  <2> QED BY <1>2, <2>2, <2>3, <2>4 DEF reclaim, Deleted, NoRow
<1>3. CASE unlink
  <2>1. ObjectTypes'
    BY <1>3 DEF unlink, Unowned, PinnedBesides
  <2>2. Locked'
    BY <1>3 DEF Locked, unlink, Unowned, PinnedBesides
  <2>3. Rested'
    BY <1>3 DEF Rested, RowHasBytes, unlink, Unowned, PinnedBesides, Locked
  <2>4. Accounted'
    BY <1>3 DEF Accounted, unlink, Unowned, PinnedBesides
  <2> QED BY <2>1, <2>2, <2>3, <2>4
<1>4. CASE orphans
  <2>1. ObjectTypes'
    BY <1>4 DEF orphans, Unowned, PinnedBesides
  <2>2. Locked'
    BY <1>4 DEF Locked, orphans, Unowned, PinnedBesides
  <2>3. Rested'
    BY <1>4 DEF Rested, RowHasBytes, orphans, Unowned, PinnedBesides
  <2>4. Accounted'
    BY <1>4 DEF Accounted, orphans, Unowned, PinnedBesides
  <2> QED BY <2>1, <2>2, <2>3, <2>4
<1>5. CASE sweep_orphan
  <2>1. ObjectTypes'
    BY <1>5 DEF sweep_orphan, Unowned, PinnedBesides
  <2>2. Locked'
    BY <1>5 DEF Locked, sweep_orphan, Unowned, PinnedBesides
  <2>3. Rested'
    BY <1>5 DEF Rested, RowHasBytes, sweep_orphan, Unowned, PinnedBesides, Locked
  <2>4. Accounted'
    BY <1>5 DEF Accounted, sweep_orphan, Unowned, PinnedBesides
  <2> QED BY <2>1, <2>2, <2>3, <2>4
<1>6. CASE FileAges
  <2>1. ObjectTypes'
    BY <1>6 DEF FileAges
  <2>2. Locked'
    BY <1>6 DEF Locked, FileAges
  <2>3. Rested'
    BY <1>6 DEF Rested, RowHasBytes, FileAges
  <2>4. Accounted'
    BY <1>6 DEF Accounted, FileAges
  <2> QED BY <2>1, <2>2, <2>3, <2>4
<1> QED BY <1>1, <1>2, <1>3, <1>4, <1>5, <1>6 DEF SweepStep

(* Every stage of the replicator's pass (replicate.rs, offload.rs).        *)
LEMMA CopierKeeps ==
  ASSUME ObjectsInv, CopierStep
  PROVE  ObjectsInv'
<1> USE DEF ObjectsInv, ObjectTypes, Meta, Stage, Draining, Evicting, At, copierVars, Free
<1>1. CASE PassStarts
  <2>1. PICK n \in 0 .. meta.deletes :
        /\ UNCHANGED <<disk, bucket, latch, spared, stagers, reader, sweep, backup>>
        /\ fetched' = FALSE /\ copier.at = "rest"
        /\ copier' = [at |-> "deletes", left |-> n]
        /\ n \in Nat
    BY <1>1 DEF PassStarts
  <2>2. CASE meta' = meta
    <3>1. ObjectTypes'
      BY <2>1, <2>2 DEF ObjectTypes
    <3>2. Locked'
      BY <2>1, <2>2 DEF Locked
    <3>3. Rested'
      BY <2>1, <2>2 DEF Rested, RowHasBytes
    <3>4. Accounted'
      BY <2>1, <2>2 DEF Accounted
    <3> QED BY <3>1, <3>2, <3>3, <3>4
  <2>3. CASE meta.evicted /\ meta' = [meta EXCEPT !.evicted = FALSE]
    <3>1. ObjectTypes'
      BY <2>1, <2>3 DEF ObjectTypes
    <3>2. Locked'
      BY <2>1, <2>3 DEF Locked
    <3>3. Rested'
      BY <2>1, <2>3 DEF Rested, RowHasBytes
    <3>4. Accounted'
      BY <2>1, <2>3 DEF Accounted
    <3> QED BY <3>1, <3>2, <3>3, <3>4
  <2> QED BY <1>1, <2>2, <2>3 DEF PassStarts
<1>2. CASE keep_if_live
  <2>1. /\ UNCHANGED <<disk, bucket, fetched, latch, stagers, reader, sweep, backup>>
        /\ copier.at = "deletes" /\ copier.left > 0
    BY <1>2 DEF keep_if_live, KeptIfLive
  <2>2. CASE /\ meta.live
               /\ meta' = [meta EXCEPT !.deletes = @ - 1]
               /\ spared' = (spared \/ (bucket /\ ~meta.remote /\ ~meta.marked))
               /\ copier' = [at |-> "deletes", left |-> copier.left - 1]
    <3>1. ObjectTypes'
      BY <2>1, <2>2 DEF ObjectTypes, Accounted
    <3>2. Locked'
      BY <2>1, <2>2 DEF Locked
    <3>3. Rested'
      BY <2>1, <2>2 DEF Rested, RowHasBytes
    <3>4. Accounted'
      BY <2>1, <2>2 DEF Accounted
    <3> QED BY <3>1, <3>2, <3>3, <3>4
  <2>3. CASE /\ ~meta.live
               /\ copier' = [at |-> "deleting", left |-> copier.left]
               /\ UNCHANGED <<meta, spared>>
    <3>1. ObjectTypes'
      BY <2>1, <2>3 DEF ObjectTypes, Accounted
    <3>2. Locked'
      BY <2>1, <2>3 DEF Locked
    <3>3. Rested'
      BY <2>1, <2>3 DEF Rested, RowHasBytes
    <3>4. Accounted'
      BY <2>1, <2>3 DEF Accounted
    <3> QED BY <3>1, <3>2, <3>3, <3>4
  <2> QED BY <1>2, <2>2, <2>3 DEF keep_if_live, KeptIfLive
<1>3. CASE delete
  <2>1. /\ UNCHANGED <<meta, disk, fetched, latch, stagers, reader, sweep, backup>>
        /\ copier.at = "deleting" /\ spared' = (spared /\ bucket')
    BY <1>3 DEF delete, Spend
  <2>2. CASE /\ copier' = [at |-> "deleted", left |-> copier.left]
               /\ bucket' = FALSE
    <3>1. ObjectTypes'
      BY <2>1, <2>2 DEF ObjectTypes, Accounted
    <3>2. Locked'
      BY <2>1, <2>2 DEF Locked
    <3>3. Rested'
      BY <2>1, <2>2 DEF Rested, RowHasBytes
    <3>4. Accounted'
      BY <2>1, <2>2 DEF Accounted
    <3> QED BY <3>1, <3>2, <3>3, <3>4
  <2>3. CASE /\ copier' = [at |-> "rest", left |-> 0]
               /\ bucket' = FALSE
    <3>1. ObjectTypes'
      BY <2>1, <2>3 DEF ObjectTypes, Accounted
    <3>2. Locked'
      BY <2>1, <2>3 DEF Locked
    <3>3. Rested'
      BY <2>1, <2>3 DEF Rested, RowHasBytes
    <3>4. Accounted'
      BY <2>1, <2>3 DEF Accounted
    <3> QED BY <3>1, <3>2, <3>3, <3>4
  <2>4. CASE /\ copier' = [at |-> "rest", left |-> 0]
               /\ bucket' = bucket
    <3>1. ObjectTypes'
      BY <2>1, <2>4 DEF ObjectTypes, Accounted
    <3>2. Locked'
      BY <2>1, <2>4 DEF Locked
    <3>3. Rested'
      BY <2>1, <2>4 DEF Rested, RowHasBytes
    <3>4. Accounted'
      BY <2>1, <2>4 DEF Accounted
    <3> QED BY <3>1, <3>2, <3>3, <3>4
  <2>5. CASE /\ copier' = [at |-> "deletes", left |-> copier.left - 1]
               /\ bucket' = bucket
    <3>1. ObjectTypes'
      BY <2>1, <2>5 DEF ObjectTypes, Accounted
    <3>2. Locked'
      BY <2>1, <2>5 DEF Locked
    <3>3. Rested'
      BY <2>1, <2>5 DEF Rested, RowHasBytes
    <3>4. Accounted'
      BY <2>1, <2>5 DEF Accounted
    <3> QED BY <3>1, <3>2, <3>3, <3>4
  <2> QED BY <1>3, <2>2, <2>3, <2>4, <2>5 DEF delete, Spend
<1>4. CASE delete_done
  <2>1. ObjectTypes'
    BY <1>4 DEF delete_done, Accounted
  <2>2. Locked'
    BY <1>4 DEF Locked, delete_done
  <2>3. Rested'
    BY <1>4 DEF Rested, RowHasBytes, delete_done
  <2>4. Accounted'
    BY <1>4 DEF Accounted, delete_done
  <2> QED BY <2>1, <2>2, <2>3, <2>4
<1>5. CASE unreplicated
  <2>1. /\ UNCHANGED <<meta, bucket, latch, spared, disk, fetched, stagers, reader, sweep, backup>>
        /\ copier.at = "deletes"
    BY <1>5 DEF unreplicated
  <2>2. CASE meta.live /\ copier' = [at |-> "chosen", left |-> 0]
    <3>1. ObjectTypes'
      BY <2>1, <2>2 DEF ObjectTypes
    <3>2. Locked'
      BY <2>1, <2>2 DEF Locked
    <3>3. Rested'
      BY <2>1, <2>2 DEF Rested, RowHasBytes
    <3>4. Accounted'
      BY <2>1, <2>2 DEF Accounted
    <3> QED BY <3>1, <3>2, <3>3, <3>4
  <2>3. CASE copier' = [at |-> "evict", left |-> 0]
    <3>1. ObjectTypes'
      BY <2>1, <2>3 DEF ObjectTypes
    <3>2. Locked'
      BY <2>1, <2>3 DEF Locked
    <3>3. Rested'
      BY <2>1, <2>3 DEF Rested, RowHasBytes
    <3>4. Accounted'
      BY <2>1, <2>3 DEF Accounted
    <3> QED BY <3>1, <3>2, <3>3, <3>4
  <2> QED BY <1>5, <2>2, <2>3 DEF unreplicated
<1>6. CASE mark_puts
  <2>1. ObjectTypes'
    BY <1>6 DEF mark_puts
  <2>2. Locked'
    BY <1>6 DEF Locked, mark_puts
  <2>3. Rested'
    BY <1>6 DEF Rested, RowHasBytes, mark_puts
  <2>4. Accounted'
    BY <1>6 DEF Accounted, mark_puts
  <2> QED BY <2>1, <2>2, <2>3, <2>4
<1>7. CASE OpenToSend
  <2>1. /\ UNCHANGED <<meta, bucket, latch, spared, disk, fetched, stagers, reader, sweep, backup>>
        /\ copier.at = "opening"
    BY <1>7 DEF OpenToSend
  <2>2. CASE meta.live /\ copier' = [at |-> "sending", left |-> 0]
    <3>1. ObjectTypes'
      BY <2>1, <2>2 DEF ObjectTypes
    <3>2. Locked'
      BY <2>1, <2>2 DEF Locked
    <3>3. Rested'
      BY <2>1, <2>2 DEF Rested, RowHasBytes
    <3>4. Accounted'
      BY <2>1, <2>2 DEF Accounted
    <3> QED BY <3>1, <3>2, <3>3, <3>4
  <2>3. CASE copier' = [at |-> "evict", left |-> 0]
    <3>1. ObjectTypes'
      BY <2>1, <2>3 DEF ObjectTypes
    <3>2. Locked'
      BY <2>1, <2>3 DEF Locked
    <3>3. Rested'
      BY <2>1, <2>3 DEF Rested, RowHasBytes
    <3>4. Accounted'
      BY <2>1, <2>3 DEF Accounted
    <3> QED BY <3>1, <3>2, <3>3, <3>4
  <2> QED BY <1>7, <2>2, <2>3 DEF OpenToSend
<1>8. CASE replicate
  <2>1. /\ UNCHANGED <<meta, latch, spared, disk, fetched, stagers, reader, sweep, backup>>
        /\ copier.at = "sending"
    BY <1>8 DEF replicate, Spend
  <2>2. CASE copier' = [at |-> "sent", left |-> 0] /\ bucket' = TRUE
    <3>1. ObjectTypes'
      BY <2>1, <2>2 DEF ObjectTypes
    <3>2. Locked'
      BY <2>1, <2>2 DEF Locked
    <3>3. Rested'
      BY <2>1, <2>2 DEF Rested, RowHasBytes, Accounted
    <3>4. Accounted'
      BY <2>1, <2>2 DEF Accounted
    <3> QED BY <3>1, <3>2, <3>3, <3>4
  <2>3. CASE copier' = [at |-> "rest", left |-> 0] /\ bucket' = TRUE
    <3>1. ObjectTypes'
      BY <2>1, <2>3 DEF ObjectTypes
    <3>2. Locked'
      BY <2>1, <2>3 DEF Locked
    <3>3. Rested'
      BY <2>1, <2>3 DEF Rested, RowHasBytes, Accounted
    <3>4. Accounted'
      BY <2>1, <2>3 DEF Accounted
    <3> QED BY <3>1, <3>2, <3>3, <3>4
  <2>4. CASE copier' = [at |-> "rest", left |-> 0] /\ bucket' = bucket
    <3>1. ObjectTypes'
      BY <2>1, <2>4 DEF ObjectTypes
    <3>2. Locked'
      BY <2>1, <2>4 DEF Locked
    <3>3. Rested'
      BY <2>1, <2>4 DEF Rested, RowHasBytes, Accounted
    <3>4. Accounted'
      BY <2>1, <2>4 DEF Accounted
    <3> QED BY <3>1, <3>2, <3>3, <3>4
  <2>5. CASE copier' = [at |-> "evict", left |-> 0] /\ bucket' = bucket
    <3>1. ObjectTypes'
      BY <2>1, <2>5 DEF ObjectTypes
    <3>2. Locked'
      BY <2>1, <2>5 DEF Locked
    <3>3. Rested'
      BY <2>1, <2>5 DEF Rested, RowHasBytes, Accounted
    <3>4. Accounted'
      BY <2>1, <2>5 DEF Accounted
    <3> QED BY <3>1, <3>2, <3>3, <3>4
  <2> QED BY <1>8, <2>2, <2>3, <2>4, <2>5 DEF replicate, Spend
<1>9. CASE replicated
  <2>1. /\ UNCHANGED <<disk, bucket, fetched, latch, stagers, reader, sweep, backup>>
        /\ copier.at = "sent" /\ copier' = [at |-> "evict", left |-> 0]
        /\ spared' = (spared /\ ~meta'.remote)
    BY <1>9 DEF replicated
  <2>2. CASE /\ meta.live /\ ~meta.remote
               /\ meta' = [meta EXCEPT !.remote = TRUE, !.marked = FALSE]
    <3>1. ObjectTypes'
      BY <2>1, <2>2 DEF ObjectTypes
    <3>2. Locked'
      BY <2>1, <2>2 DEF Locked
    <3>3. Rested'
      BY <2>1, <2>2 DEF Rested, RowHasBytes, Accounted
    <3>4. Accounted'
      BY <2>1, <2>2 DEF Accounted
    <3> QED BY <3>1, <3>2, <3>3, <3>4
  <2>3. CASE /\ ~(meta.live /\ ~meta.remote)
               /\ meta' = [meta EXCEPT !.deletes = @ + 1]
    <3>1. ObjectTypes'
      BY <2>1, <2>3 DEF ObjectTypes
    <3>2. Locked'
      BY <2>1, <2>3 DEF Locked
    <3>3. Rested'
      BY <2>1, <2>3 DEF Rested, RowHasBytes, Accounted
    <3>4. Accounted'
      BY <2>1, <2>3 DEF Accounted
    <3> QED BY <3>1, <3>2, <3>3, <3>4
  <2> QED BY <1>9, <2>2, <2>3 DEF replicated
<1>10. CASE evictable
  <2>1. /\ UNCHANGED <<meta, bucket, spared, disk, fetched, stagers, reader, sweep, backup>>
        /\ copier.at = "evict"
    BY <1>10 DEF evictable, Latched
  <2>2. CASE /\ latch = "free" /\ meta.live /\ meta.remote
               /\ latch' = "evict" /\ copier' = [at |-> "evicting", left |-> 0]
    <3>1. ObjectTypes'
      BY <2>1, <2>2 DEF ObjectTypes
    <3>2. Locked'
      BY <2>1, <2>2 DEF Locked
    <3>3. Rested'
      BY <2>1, <2>2 DEF Rested, RowHasBytes
    <3>4. Accounted'
      BY <2>1, <2>2 DEF Accounted
    <3> QED BY <3>1, <3>2, <3>3, <3>4
  <2>3. CASE copier' = [at |-> "rest", left |-> 0] /\ UNCHANGED latch
    <3>1. ObjectTypes'
      BY <2>1, <2>3 DEF ObjectTypes
    <3>2. Locked'
      BY <2>1, <2>3 DEF Locked
    <3>3. Rested'
      BY <2>1, <2>3 DEF Rested, RowHasBytes
    <3>4. Accounted'
      BY <2>1, <2>3 DEF Accounted
    <3> QED BY <3>1, <3>2, <3>3, <3>4
  <2> QED BY <1>10, <2>2, <2>3 DEF evictable, Latched
<1>11. CASE evicted
  <2>1. ObjectTypes'
    BY <1>11 DEF evicted
  <2>2. Locked'
    BY <1>11 DEF Locked, evicted
  <2>3. Rested'
    BY <1>11 DEF Rested, RowHasBytes, evicted
  <2>4. Accounted'
    BY <1>11 DEF Accounted, evicted
  <2> QED BY <2>1, <2>2, <2>3, <2>4
<1>12. CASE evict_files
  <2>1. ObjectTypes'
    BY <1>12 DEF evict_files, Pinned, PinnedBesides
  <2>2. Locked'
    BY <1>12 DEF Locked, evict_files, Pinned, PinnedBesides
  <2>3. Rested'
    BY <1>12 DEF Rested, RowHasBytes, evict_files, Pinned, PinnedBesides, Locked
  <2>4. Accounted'
    BY <1>12 DEF Accounted, evict_files, Pinned, PinnedBesides
  <2> QED BY <2>1, <2>2, <2>3, <2>4
<1>13. CASE local_again
  <2>1. ObjectTypes'
    BY <1>13 DEF local_again
  <2>2. Locked'
    BY <1>13 DEF Locked, local_again
  <2>3. Rested'
    BY <1>13 DEF Rested, RowHasBytes, local_again
  <2>4. Accounted'
    BY <1>13 DEF Accounted, local_again
  <2> QED BY <2>1, <2>2, <2>3, <2>4
<1> QED BY <1>1, <1>2, <1>3, <1>4, <1>5, <1>6, <1>7, <1>8, <1>9, <1>10, <1>11, <1>12, <1>13 DEF CopierStep

(* A backup takes the lock, and copies what its snapshot names (backup.rs  *)
(* create).                                                                *)
LEMMA BackupKeeps ==
  ASSUME ObjectsInv, BackupStep
  PROVE  ObjectsInv'
<1> USE DEF ObjectsInv, ObjectTypes, Draining, Evicting, backupVars
<1>1. CASE BackupStarts
  <2>1. ObjectTypes'
    BY <1>1 DEF BackupStarts, Latched, Spend
  <2>2. Locked'
    BY <1>1 DEF Locked, BackupStarts, Latched, Spend
  <2>3. Rested'
    BY <1>1 DEF Rested, RowHasBytes, BackupStarts, Latched, Spend
  <2>4. Accounted'
    BY <1>1 DEF Accounted, BackupStarts, Latched, Spend
  <2> QED BY <2>1, <2>2, <2>3, <2>4
<1>2. CASE snapshot_into
  <2>1. ObjectTypes'
    BY <1>2 DEF snapshot_into, Free
  <2>2. Locked'
    BY <1>2 DEF Locked, snapshot_into, Free
  <2>3. Rested'
    BY <1>2 DEF Rested, RowHasBytes, snapshot_into, Free
  <2>4. Accounted'
    BY <1>2 DEF Accounted, snapshot_into, Free
  <2> QED BY <2>1, <2>2, <2>3, <2>4
<1>3. CASE BackupEnds
  <2>1. ObjectTypes'
    BY <1>3 DEF BackupEnds, Free
  <2>2. Locked'
    BY <1>3 DEF Locked, BackupEnds, Free
  <2>3. Rested'
    BY <1>3 DEF Rested, RowHasBytes, BackupEnds, Free
  <2>4. Accounted'
    BY <1>3 DEF Accounted, BackupEnds, Free
  <2> QED BY <2>1, <2>2, <2>3, <2>4
<1> QED BY <1>1, <1>2, <1>3 DEF BackupStep

(* Every behaviour of the object store keeps the inductive invariant.      *)
THEOREM ObjectsInvariant == ObjectsSpec => []ObjectsInv
<1>1. ObjectsInit => ObjectsInv
  <2> SUFFICES ASSUME ObjectsInit PROVE ObjectsInv
    OBVIOUS
  <2> USE DEF ObjectsInit, NoRow, ObjectsInv, ObjectTypes, Meta, Stage, Draining, Evicting
  <2>1. ObjectTypes
    OBVIOUS
  <2>2. Locked
    BY DEF Locked
  <2>3. Rested
    BY DEF Rested, RowHasBytes
  <2>4. Accounted
    BY DEF Accounted
  <2> QED BY <2>1, <2>2, <2>3, <2>4
<1>2. ObjectsInv /\ [ObjectsNext]_objectVars => ObjectsInv'
  <2> SUFFICES ASSUME ObjectsInv, [ObjectsNext]_objectVars
               PROVE  ObjectsInv'
    OBVIOUS
  <2>1. CASE recover
    <3> USE <2>1 DEF recover, At, Spend, ObjectsInv, ObjectTypes, Meta, Stage, Draining, Evicting
    <3>1. ObjectTypes'
      OBVIOUS
    <3>2. Locked'
      BY DEF Locked
    <3>3. Rested'
      BY DEF Rested, RowHasBytes
    <3>4. Accounted'
      BY DEF Accounted
    <3> QED BY <3>1, <3>2, <3>3, <3>4
  <2>2. CASE UNCHANGED objectVars
    <3> USE <2>2 DEF objectVars
    <3>1. ObjectTypes'
      BY DEF ObjectsInv, ObjectTypes
    <3>2. Locked'
      BY DEF ObjectsInv, Locked
    <3>3. Rested'
      BY DEF ObjectsInv, Rested, RowHasBytes
    <3>4. Accounted'
      BY DEF ObjectsInv, Accounted
    <3> QED BY <3>1, <3>2, <3>3, <3>4 DEF ObjectsInv
  <2> QED
    BY <2>1, <2>2, StagersKeep, ReaderKeeps, SweepKeeps, CopierKeeps, BackupKeeps DEF ObjectsNext
<1> QED BY <1>1, <1>2, PTL DEF ObjectsSpec

(* No row loses its bytes, however many stagers, readers, passes, failed   *)
(* requests, backups and kills there are (docs/s3.md, "Nothing here ever   *)
(* deletes the only copy").                                                *)
THEOREM NothingDeletesTheOnlyCopy == ObjectsSpec => []RowHasBytes
<1>1. ObjectsInv => RowHasBytes
  BY DEF ObjectsInv, Rested
<1> QED BY <1>1, ObjectsInvariant, PTL

(* What a backup's snapshot names is there until it is copied (backup.rs   *)
(* create).                                                                *)
THEOREM BackupsAreWhole == ObjectsSpec => []BackupWhole
<1>1. ObjectsInv => BackupWhole
  BY DEF ObjectsInv, Rested, BackupWhole
<1> QED BY <1>1, ObjectsInvariant, PTL

(* Every copy in the bucket has a row, a queued delete, or the one         *)
(* exception the property names (offload.rs mark_puts, keep_if_live).      *)
THEOREM CopiesAreAccountedFor == ObjectsSpec => []CopyAccountedFor
<1>1. ObjectsInv => CopyAccountedFor
  BY DEF ObjectsInv, Accounted, CopyAccountedFor
<1> QED BY <1>1, ObjectsInvariant, PTL
==============================================================================

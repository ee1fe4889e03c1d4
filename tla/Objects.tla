------------------------------ MODULE Objects -------------------------------
(***************************************************************************)
(* The content-addressed object store, its reclamation, its copy in a      *)
(* bucket and its backup, for one digest of one tenant: files are named by *)
(* their content, so two digests meet only in the locks and in the order   *)
(* of a batch.                                                             *)
(*                                                                         *)
(* Four kinds of thread work on it: stagers (uploads, artifacts), a        *)
(* reader, the storage pass, and the replicator; a backup is taken beside  *)
(* them.  The database is written by one writer, a transaction at a time;  *)
(* the file is touched outside transactions, under the pins' lock or under *)
(* none.                                                                   *)
(*                                                                         *)
(* Left out: quotas and admission, chunks of an upload, multipart uploads, *)
(* the copies of logs, and power cuts (a kill loses memory, not files).    *)
(***************************************************************************)
EXTENDS Integers, FiniteSets

CONSTANTS
    Settings  \* the bounds to explore together: the threads that stage, how
              \* often anyone stages, reads by the reader, failed requests to
              \* the bucket, backups, and kills of the process

ASSUME ObjectBounds ==
    \A s \in Settings :
        /\ DOMAIN s = {"stagers", "stages", "reads", "fails", "backups", "kills"}
        /\ IsFiniteSet(s.stagers)
        /\ \A b \in DOMAIN s \ {"stagers"} : s[b] \in Nat

VARIABLES
    setting,  \* the bounds of this behaviour
    meta,     \* the database: the digest's row, its s3_puts mark and the
              \* number of its s3_deletes
    disk,     \* the file under the digest's name
    bucket,   \* whether the bucket holds the digest's key
    stagers,  \* per stager, its Staged
    reader,   \* a read of the object
    fetched,  \* Objects::rehydrated
    latch,    \* the holder of the maintenance lock
    sweep,    \* the storage pass
    copier,   \* the replicator
    backup,   \* what a backup's snapshot says of the row, while it copies
    spared,   \* whether a delete of the present copy was dropped for a row
              \* that has neither recorded nor marked it since
    used      \* the bounds used so far

objectVars == <<setting, meta, disk, bucket, stagers, reader, fetched, latch,
                sweep, copier, backup, spared, used>>

NoRow == [live |-> FALSE, kept |-> FALSE, remote |-> FALSE, evicted |-> FALSE,
          marked |-> FALSE, deletes |-> 0]

Spend(b) == used[b] < setting[b] /\ used' = [used EXCEPT ![b] = @ + 1]
Free == UNCHANGED <<setting, used>>

\* The counts of the pins map, as far as anyone asks: by a Staged until it is
\* dropped, by a Reader until it is closed.
PinnedBesides(own) ==
    \/ \E s \in DOMAIN stagers \ own : stagers[s] # "none"
    \/ reader = "pinned"
    \/ copier.at = "sending"
Pinned == PinnedBesides({})

\* The row is inserted once, and every commit protects it again: by its
\* manifest's references, or by a new grace.
Inserted(m) ==
    IF m.live THEN [m EXCEPT !.kept = TRUE]
    ELSE [m EXCEPT !.live = TRUE, !.kept = TRUE, !.remote = FALSE, !.evicted = FALSE]

\* The s3_delete_object trigger.
Deleted_unless_recorded(m) ==
    [NoRow EXCEPT !.deletes = m.deletes + (IF m.remote THEN 1 ELSE 0),
                  !.marked = m.marked]
Deleted(m) ==
    [NoRow EXCEPT !.deletes = m.deletes + (IF m.remote \/ m.marked THEN 1 ELSE 0)]

------------------------------------------------------------------------------
(***************************************************************************)
(* Staging.  The file is looked for and the pin taken in one step under    *)
(* the pins' lock; the bytes move in after it.                             *)
(***************************************************************************)
place(s) ==
    /\ stagers[s] = "none"
    /\ Spend("stages")
    /\ stagers' = [stagers EXCEPT ![s] = IF disk = "none" THEN "placing" ELSE "staged"]
    /\ UNCHANGED <<setting, meta, disk, bucket, reader, fetched, latch, sweep,
                   copier, backup, spared>>

Placed(s) ==
    /\ stagers[s] = "placing"
    /\ disk' = "new"
    /\ stagers' = [stagers EXCEPT ![s] = "staged"]
    /\ Free
    /\ UNCHANGED <<meta, bucket, reader, fetched, latch, sweep, copier, backup, spared>>

commit(s) ==
    /\ stagers[s] = "staged"
    /\ meta' = Inserted(meta)
    /\ stagers' = [stagers EXCEPT ![s] = "none"]
    /\ Free
    /\ UNCHANGED <<disk, bucket, reader, fetched, latch, sweep, copier, backup, spared>>

\* A file is removed only while no row and no pin names it.
Unowned(own) == ~meta.live /\ ~PinnedBesides(own)

discard(s) ==
    /\ stagers[s] = "staged"
    /\ stagers' = [stagers EXCEPT ![s] = "none"]
    /\ disk' = IF Unowned({s}) THEN "none" ELSE disk
    /\ Free
    /\ UNCHANGED <<meta, bucket, reader, fetched, latch, sweep, copier, backup, spared>>

\* The caller fails, or the move does: the Staged is dropped and nothing else.
DropStaged(s) ==
    /\ stagers[s] # "none"
    /\ stagers' = [stagers EXCEPT ![s] = "none"]
    /\ Free
    /\ UNCHANGED <<meta, disk, bucket, reader, fetched, latch, sweep, copier,
                   backup, spared>>

\* The last manifest or lease that protects the row goes, or its grace ends.
Unreferenced ==
    /\ meta.live /\ meta.kept
    /\ meta' = [meta EXCEPT !.kept = FALSE]
    /\ Free
    /\ UNCHANGED <<disk, bucket, stagers, reader, fetched, latch, sweep, copier,
                   backup, spared>>

------------------------------------------------------------------------------
(***************************************************************************)
(* Reading: the row, then the file, fetched back when it is not there, and *)
(* the pin only then.                                                      *)
(***************************************************************************)
readerVars == <<meta, bucket, stagers, latch, sweep, copier, backup, spared>>

open_read ==
    /\ reader = "none"
    /\ meta.live
    /\ Spend("reads")
    /\ reader' = IF disk = "none" THEN "fetching" ELSE "opened"
    /\ UNCHANGED <<setting, disk, fetched>>
    /\ UNCHANGED readerVars

open_local ==
    /\ reader = "fetching"
    /\ \/ /\ disk # "none"
          /\ reader' = "opened"
          /\ UNCHANGED disk
       \/ /\ disk = "none" /\ bucket
          /\ disk' = "new"
          /\ reader' = "moved"
       \/ reader' = "none" /\ UNCHANGED disk
    /\ Free
    /\ UNCHANGED fetched
    /\ UNCHANGED readerVars

Rehydrated ==
    /\ reader = "moved"
    /\ fetched' = TRUE
    /\ reader' = IF disk = "none" THEN "none" ELSE "opened"
    /\ Free
    /\ UNCHANGED disk
    /\ UNCHANGED readerVars

Pin ==
    /\ reader = "opened"
    /\ reader' = "pinned"
    /\ Free
    /\ UNCHANGED <<disk, fetched>>
    /\ UNCHANGED readerVars

CloseReader ==
    /\ reader = "pinned"
    /\ reader' = "none"
    /\ Free
    /\ UNCHANGED <<disk, fetched>>
    /\ UNCHANGED readerVars

------------------------------------------------------------------------------
(***************************************************************************)
(* The storage pass, under the maintenance lock.  It deletes rows in one   *)
(* transaction and files in a later one, which asks again.                 *)
(***************************************************************************)
Latched_always == TRUE
Latched == latch = "free"

sweepVars == <<bucket, stagers, reader, fetched, copier, backup, spared>>

StoragePass ==
    /\ sweep = "rest"
    /\ Latched
    /\ latch' = "sweep"
    /\ sweep' = "rows"
    /\ Free
    /\ UNCHANGED <<meta, disk>>
    /\ UNCHANGED sweepVars

reclaim ==
    /\ sweep = "rows"
    /\ IF meta.live /\ ~meta.kept /\ ~Pinned
       THEN meta' = Deleted(meta) /\ sweep' = "doomed"
       ELSE UNCHANGED meta /\ sweep' = "files"
    /\ Free
    /\ UNCHANGED <<disk, latch>>
    /\ UNCHANGED sweepVars

unlink ==
    /\ sweep = "doomed"
    /\ disk' = IF Unowned({}) THEN "none" ELSE disk
    /\ sweep' = "files"
    /\ Free
    /\ UNCHANGED <<meta, latch>>
    /\ UNCHANGED sweepVars

orphans ==
    /\ sweep = "files"
    /\ IF Unowned({}) /\ disk = "old"
       THEN sweep' = "orphan" /\ UNCHANGED latch
       ELSE sweep' = "rest" /\ latch' = "free"
    /\ Free
    /\ UNCHANGED <<meta, disk>>
    /\ UNCHANGED sweepVars

sweep_orphan ==
    /\ sweep = "orphan"
    /\ disk' = IF Unowned({}) /\ disk = "old" THEN "none" ELSE disk
    /\ sweep' = "rest"
    /\ latch' = "free"
    /\ Free
    /\ UNCHANGED meta
    /\ UNCHANGED sweepVars

\* older_than_grace becomes true.
FileAges ==
    /\ disk = "new"
    /\ disk' = "old"
    /\ Free
    /\ UNCHANGED <<meta, latch, sweep>>
    /\ UNCHANGED sweepVars

------------------------------------------------------------------------------
(***************************************************************************)
(* The replicator: one thread whose pass notes what was fetched back,      *)
(* drains the deletes, copies and evicts.  A transient failure of the      *)
(* bucket ends the pass, a refusal parks the item and the pass goes on; a  *)
(* request that failed may have been carried out.                          *)
(***************************************************************************)
copierVars == <<stagers, reader, sweep, backup>>

At(stage, left) == copier' = [at |-> stage, left |-> left]

\* A parked delete is held back for a while, so the pass has some of them.
PassStarts ==
    /\ copier.at = "rest"
    /\ meta' = [meta EXCEPT !.evicted = @ /\ ~fetched]
    /\ fetched' = FALSE
    /\ \E n \in 0 .. meta.deletes : At("deletes", n)
    /\ Free
    /\ UNCHANGED <<disk, bucket, latch, spared>>
    /\ UNCHANGED copierVars

KeptIfLive_never == FALSE
KeptIfLive == meta.live

keep_if_live ==
    /\ copier.at = "deletes" /\ copier.left > 0
    /\ IF KeptIfLive
       THEN /\ meta' = [meta EXCEPT !.deletes = @ - 1]
            /\ spared' = (spared \/ (bucket /\ ~meta.remote /\ ~meta.marked))
            /\ At("deletes", copier.left - 1)
       ELSE At("deleting", copier.left) /\ UNCHANGED <<meta, spared>>
    /\ Free
    /\ UNCHANGED <<disk, bucket, fetched, latch>>
    /\ UNCHANGED copierVars

delete ==
    /\ copier.at = "deleting"
    /\ \/ /\ At("deleted", copier.left)
          /\ bucket' = FALSE
          /\ Free
       \/ /\ Spend("fails")
          /\ \/ At("rest", 0) /\ bucket' \in {bucket, FALSE}
             \/ At("deletes", copier.left - 1) /\ UNCHANGED bucket
          /\ UNCHANGED setting
    /\ spared' = (spared /\ bucket')
    /\ UNCHANGED <<meta, disk, fetched, latch>>
    /\ UNCHANGED copierVars

delete_done ==
    /\ copier.at = "deleted"
    /\ meta' = [meta EXCEPT !.deletes = @ - 1]
    /\ At("deletes", copier.left - 1)
    /\ Free
    /\ UNCHANGED <<disk, bucket, fetched, latch, spared>>
    /\ UNCHANGED copierVars

\* The row may be parked, or behind a full window.
unreplicated ==
    /\ copier.at = "deletes" /\ copier.left = 0
    /\ \/ meta.live /\ ~meta.remote /\ At("chosen", 0)
       \/ At("evict", 0)
    /\ Free
    /\ UNCHANGED <<meta, disk, bucket, fetched, latch, spared>>
    /\ UNCHANGED copierVars

mark_puts ==
    /\ copier.at = "chosen"
    /\ meta' = [meta EXCEPT !.marked = TRUE]
    /\ spared' = (spared /\ ~meta.live)
    /\ At("opening", 0)
    /\ Free
    /\ UNCHANGED <<disk, bucket, fetched, latch>>
    /\ UNCHANGED copierVars

\* A row that is gone, or a file that is, is a local fault of the item.
OpenToSend ==
    /\ copier.at = "opening"
    /\ IF meta.live /\ disk # "none" THEN At("sending", 0) ELSE At("evict", 0)
    /\ Free
    /\ UNCHANGED <<meta, disk, bucket, fetched, latch, spared>>
    /\ UNCHANGED copierVars

\* PUT, then HEAD.
replicate ==
    /\ copier.at = "sending"
    /\ \/ At("sent", 0) /\ bucket' = TRUE /\ Free
       \/ /\ Spend("fails")
          /\ \/ At("rest", 0) /\ bucket' \in {bucket, TRUE}
             \/ At("evict", 0) /\ UNCHANGED bucket
          /\ UNCHANGED setting
    /\ UNCHANGED <<meta, disk, fetched, latch, spared>>
    /\ UNCHANGED copierVars

replicated ==
    /\ copier.at = "sent"
    /\ meta' = IF meta.live /\ ~meta.remote
               THEN [meta EXCEPT !.remote = TRUE, !.marked = FALSE]
               ELSE [meta EXCEPT !.deletes = @ + 1]
    /\ spared' = (spared /\ ~meta'.remote)
    /\ At("evict", 0)
    /\ Free
    /\ UNCHANGED <<disk, bucket, fetched, latch>>
    /\ UNCHANGED copierVars

\* The lock is held elsewhere, or the local copies are within their budget,
\* or the row is not evictable: nothing is evicted.
evictable ==
    /\ copier.at = "evict"
    /\ \/ /\ Latched
          /\ meta.live /\ meta.remote /\ ~meta.evicted /\ ~Pinned
          /\ latch' = "evict"
          /\ At("evicting", 0)
       \/ At("rest", 0) /\ UNCHANGED latch
    /\ Free
    /\ UNCHANGED <<meta, disk, bucket, fetched, spared>>
    /\ UNCHANGED copierVars

evicted ==
    /\ copier.at = "evicting"
    /\ meta' = [meta EXCEPT !.evicted = meta.live /\ (@ \/ meta.remote)]
    /\ At("removing", 0)
    /\ Free
    /\ UNCHANGED <<disk, bucket, fetched, latch, spared>>
    /\ UNCHANGED copierVars

\* What is pinned by now is kept, and marked local again.
evict_files ==
    /\ copier.at = "removing"
    /\ IF Pinned
       THEN At("kept", 0) /\ UNCHANGED <<disk, latch>>
       ELSE At("rest", 0) /\ disk' = "none" /\ latch' = "free"
    /\ Free
    /\ UNCHANGED <<meta, bucket, fetched, spared>>
    /\ UNCHANGED copierVars

local_again ==
    /\ copier.at = "kept"
    /\ meta' = [meta EXCEPT !.evicted = FALSE]
    /\ latch' = "free"
    /\ At("rest", 0)
    /\ Free
    /\ UNCHANGED <<disk, bucket, fetched, spared>>
    /\ UNCHANGED copierVars

------------------------------------------------------------------------------
(***************************************************************************)
(* A backup holds the maintenance lock from before its snapshot to its     *)
(* last copy.                                                              *)
(***************************************************************************)
backupVars == <<meta, disk, bucket, stagers, reader, fetched, sweep, copier, spared>>

BackupStarts ==
    /\ backup = "none"
    /\ Latched
    /\ Spend("backups")
    /\ latch' = "backup"
    /\ backup' = "starting"
    /\ UNCHANGED setting
    /\ UNCHANGED backupVars

snapshot_into ==
    /\ backup = "starting"
    /\ backup' = CASE ~meta.live -> "no row"
                   [] meta.live /\ meta.evicted -> "remote only"
                   [] meta.live /\ ~meta.evicted /\ disk = "none" -> "missing"
                   [] OTHER -> "to copy"
    /\ Free
    /\ UNCHANGED latch
    /\ UNCHANGED backupVars

BackupEnds ==
    /\ backup \notin {"none", "starting"}
    /\ backup' = "none"
    /\ latch' = "free"
    /\ Free
    /\ UNCHANGED backupVars

------------------------------------------------------------------------------
(***************************************************************************)
(* The process is killed and started again: files and transactions stay,   *)
(* threads, pins and lists do not, and recovery removes the file of a row  *)
(* that says it is evicted.                                                *)
(***************************************************************************)
recover ==
    /\ Spend("kills")
    /\ disk' = IF meta.live /\ meta.evicted THEN "none" ELSE disk
    /\ stagers' = [s \in DOMAIN stagers |-> "none"]
    /\ reader' = "none"
    /\ fetched' = FALSE
    /\ latch' = "free"
    /\ sweep' = "rest"
    /\ At("rest", 0)
    /\ backup' = "none"
    /\ UNCHANGED <<setting, meta, bucket, spared>>

------------------------------------------------------------------------------
ObjectsInit ==
    /\ setting \in Settings
    /\ meta = NoRow
    /\ disk = "none"
    /\ bucket = FALSE
    /\ stagers = [s \in setting.stagers |-> "none"]
    /\ reader = "none"
    /\ fetched = FALSE
    /\ latch = "free"
    /\ sweep = "rest"
    /\ copier = [at |-> "rest", left |-> 0]
    /\ backup = "none"
    /\ spared = FALSE
    /\ used = [b \in DOMAIN setting \ {"stagers"} |-> 0]

StagerStep ==
    \/ \E s \in DOMAIN stagers :
           place(s) \/ Placed(s) \/ commit(s) \/ discard(s) \/ DropStaged(s)
    \/ Unreferenced

ReaderStep == open_read \/ open_local \/ Rehydrated \/ Pin \/ CloseReader

SweepStep == StoragePass \/ reclaim \/ unlink \/ orphans \/ sweep_orphan \/ FileAges

CopierStep ==
    \/ PassStarts \/ keep_if_live \/ delete \/ delete_done
    \/ unreplicated \/ mark_puts \/ OpenToSend \/ replicate \/ replicated
    \/ evictable \/ evicted \/ evict_files \/ local_again

BackupStep == BackupStarts \/ snapshot_into \/ BackupEnds

ObjectsNext ==
    \/ StagerStep \/ ReaderStep \/ SweepStep \/ CopierStep \/ BackupStep
    \/ recover

ObjectsSpec == ObjectsInit /\ [][ObjectsNext]_objectVars

------------------------------------------------------------------------------
(***************************************************************************)
(* Nothing deletes the only copy: a committed row has its bytes on the     *)
(* disk, or has recorded a copy that the bucket holds, whatever stages,    *)
(* reads, reclaims, evicts, drains or is killed at the same time.          *)
(* (replicate.rs: "Never deletes the only copy"; docs/s3.md)               *)
(***************************************************************************)
RowHasBytes ==
    meta.live => disk # "none" \/ (meta.remote /\ bucket)

(***************************************************************************)
(* A file that was there when the backup took its snapshot, and whose row  *)
(* the snapshot does not call remote only, is there until the backup has   *)
(* copied it: reclamation and eviction wait for its end, and a discarded   *)
(* stage of the same content spares it.  (backup.rs create, docs/backup.md)*)
(***************************************************************************)
BackupWhole ==
    backup = "to copy" => disk # "none"

(***************************************************************************)
(* A copy in the bucket whose row is gone is in the queue of deletes, even *)
(* when the process was killed between the upload and its record; but not  *)
(* when the delete that named it was dropped for a row that has left since *)
(* without being marked.  (offload.rs mark_puts, the s3_delete_object      *)
(* trigger, keep_if_live)                                                  *)
(***************************************************************************)
CopyAccountedFor ==
    bucket /\ ~meta.live => meta.deletes > 0 \/ spared

==============================================================================

------------------------------ MODULE LogStream ------------------------------
(***************************************************************************)
(* The log of one attempt, from the worker's spool to the controller's log *)
(* store.                                                                  *)
(*                                                                         *)
(* On the worker a LogPipe numbers frames, writes them to a spool and      *)
(* sends what its window allows; an acknowledgement moves the window, and  *)
(* the spool is removed when the end record is acknowledged.  Frames       *)
(* travel on the control connection of a session or, while one is          *)
(* attached, on its bulk connection: two ordered streams that are not      *)
(* ordered with each other.  On the controller one thread serves each      *)
(* connection; all of them append to one writer per attempt, which leaves  *)
(* the sync of a frame to the flush that acknowledges it.  Either process  *)
(* may be killed, either host may lose power, and connections break.       *)
(*                                                                         *)
(* A frame is its sequence number: its bytes matter to no property here.   *)
(* Ranges of numbers (holes, gaps) are sets of numbers.                    *)
(***************************************************************************)
EXTENDS Integers, Sequences, FiniteSets, FiniteSetsExt, SequencesExt

CONSTANTS
    MaxSeq,      \* bound: frames the attempt's steps print
    Window,      \* MAX_UNACKED_LOG_FRAMES
    MaxGaps,     \* MAX_GAPS: ranges a LogEnd can carry
    SegFrames,   \* SEGMENT_BYTES, in frames
    MaxConns,    \* bound: connections opened, over all sessions
    Faults,      \* the kinds of FaultKinds that may happen
    MaxFaults,   \* bound: faults in all
    RouteMoves,  \* BOOLEAN: a route may change inside a call on the pipe
    Timeouts     \* the modes of a pipe in which LOG_FLUSH_TIMEOUT may pass

(* A frame the spool refuses, a frame the store refuses, a writer the      *)
(* store closes, a kill or power cut of the worker or of the controller,   *)
(* and a power cut inside a seal.                                          *)
FaultKinds == {"refused", "full", "closed", "worker", "store", "seal"}

ASSUME LogBounds ==
    /\ MaxSeq \in Nat \ {0} /\ Window \in Nat \ {0} /\ SegFrames \in Nat \ {0}
    /\ MaxGaps \in Nat \ {0, 1} /\ MaxConns \in Nat \ {0}
    /\ Faults \subseteq FaultKinds /\ MaxFaults \in Nat
    /\ RouteMoves \in BOOLEAN /\ Timeouts \subseteq {"live", "recovering"}

VARIABLES
    spool,   \* the worker's disk: the attempt's spool directory
    pipe,    \* the worker's memory: PipeState and the spool's cursors
    link,    \* the worker's memory: the session, its bulk slot and route
    conns,   \* every connection, both directions, and its serving thread
    disk,    \* the controller's disk: the attempt's log directory and row
    writer,  \* the controller's memory: the attempt's open writer
    used     \* history: faults so far, frames ever spooled, whether the
             \* recorded first hole outlived frames below it, and the frames
             \* a power cut took from under their seal

logVars == <<spool, pipe, link, conns, disk, writer, used>>

Conn  == 1 .. MaxConns
NotEnded == -1                  \* an empty log ends at 0
NoEnd == [last |-> NotEnded, gaps |-> {}]

(* Messages of the two directions. *)
Log(s)       == [type |-> "Log", seq |-> s, gaps |-> {}]
LogEnd(e)    == [type |-> "LogEnd", seq |-> e.last, gaps |-> e.gaps]
LogAck(s)    == [type |-> "LogAck", seq |-> s]
LogRefused   == [type |-> "LogRefused", seq |-> 0]
LogEndAck    == [type |-> "LogEndAck", seq |-> 0]

Top(S) == IF S = {} THEN 0 ELSE Max(S)
Ranges(S) == {s \in S : s - 1 \notin S}
Kept(s, n) == {SubSeq(s, 1, k) : k \in n .. Len(s)}

(* A fault is spent.  The last connection outlives the faults. *)
CanFail(kind) == kind \in Faults /\ used.faults < MaxFaults /\ link.next <= MaxConns

Spent == used' = [used EXCEPT !.faults = @ + 1]

------------------------------------------------------------------------------
(***************************************************************************)
(* The worker's spool.                                                     *)
(***************************************************************************)
LastStored(sp) == Top(ToSet(sp.frames))

(* The gap list stops one short of what LogEnd carries. *)
Sealed(gaps) == Cardinality(Ranges(gaps)) >= MaxGaps - 1

(* The declared file is replaced when a gap opens a new range, and         *)
(* otherwise only at a sync.                                               *)
DeclaredGap(sp, gaps, s) ==
    IF s - 1 \in gaps THEN sp ELSE [sp EXCEPT !.declared = s]

Synced(sp, gaps) ==
    [sp EXCEPT !.synced = Len(sp.frames), !.declared = Max({@, Top(gaps)})]

(* What a reopened spool knows: jumps between stored frames are gaps, and  *)
(* so is what was declared past everything stored or acknowledged; the     *)
(* next number follows them all.                                           *)
ReopenedGaps ==
    IF spool.end # NoEnd
    THEN spool.end.gaps
    ELSE ((1 .. LastStored(spool)) \ ToSet(spool.frames))
            \cup (Max({LastStored(spool), spool.cursor}) + 1 .. spool.declared)

ReopenedNext ==
    IF spool.end # NoEnd
    THEN spool.end.last + 1
    ELSE Max({LastStored(spool), spool.cursor, spool.declared}) + 1

------------------------------------------------------------------------------
(***************************************************************************)
(* Connections.  A message sent on a connection whose serving thread is    *)
(* gone is lost and the worker finds out later, or the call fails; without *)
(* a session it fails.                                                     *)
(***************************************************************************)
Here(l)  == IF l.bulk # 0 THEN l.bulk ELSE l.ctrl
Route(l) == [attached |-> l.attached, detached |-> l.detached]

Outcomes(cs, l) ==
    IF l.ctrl = 0 THEN {FALSE} ELSE IF cs[Here(l)].live THEN {TRUE} ELSE BOOLEAN

Send(cs, l, m) ==
    IF cs[Here(l)].live THEN [cs EXCEPT ![Here(l)].up = Append(@, m)] ELSE cs

Dead(conn) == [conn EXCEPT !.live = FALSE, !.up = <<>>, !.through = 0]

------------------------------------------------------------------------------
(***************************************************************************)
(* LogPipe.pump, called at the end of every call on the pipe, under its    *)
(* lock.  read is the frame the spool was read to (send_offset), sent the  *)
(* last one that was sent.                                                 *)
(***************************************************************************)
(* A detached bulk connection may have taken frames with it: everything    *)
(* past the acknowledgement is sent again.  A newly attached one waits     *)
(* until nothing is in flight on the old route.                            *)
RouteReady(p, l) ==
    \/ p.route.detached # l.detached
    \/ p.route = Route(l)
    \/ p.sent <= p.acked

Rewound(p) == [p EXCEPT !.sent = p.acked, !.read = p.acked]

OnRoute(p, l) ==
    [(IF p.route.detached # l.detached THEN Rewound(p) ELSE p) EXCEPT !.route = Route(l)]

Room(p) == Max({0, Window - Max({0, p.sent - p.acked})})

(* Frames are spooled in the order of their numbers. *)
Unsent(p, sp) ==
    LET passed == Cardinality({i \in DOMAIN sp.frames : sp.frames[i] <= p.read})
    IN  SubSeq(sp.frames, passed + 1, Len(sp.frames))

SendNext(p, sp) ==
    SubSeq(Unsent(p, sp), 1, Min({Room(p), Len(Unsent(p, sp))}))

(* The end is due once every stored frame is acknowledged.  A spool that   *)
(* was cut short declares one more number first.                           *)
EndDue(p, sp) == p.ended /\ ~p.endSent /\ p.acked >= LastStored(sp)

DeclareCut(p, sp) ==
    IF sp.end = NoEnd /\ p.cut
    THEN [p EXCEPT !.gaps = @ \cup {p.next}, !.next = @ + 1, !.cut = FALSE]
    ELSE p

PersistEnd(p, sp) ==
    IF sp.end # NoEnd
    THEN sp
    ELSE [Synced(sp, p.gaps) EXCEPT !.end = [last |-> p.next - 1, gaps |-> p.gaps]]

(* The rest of a pump whose frames are out.  A call that fails takes the   *)
(* reporter: the pipe sends nothing more until a session is attached.      *)
PumpEnd(p, sp, cs, l) ==
    LET c == DeclareCut(p, sp)
        e == PersistEnd(c, sp)
    IN  IF EndDue(p, sp)
        THEN /\ spool' = e
             /\ \E ok \in Outcomes(cs, l) :
                   /\ pipe' = [c EXCEPT !.endSent = ok, !.reporter = ok]
                   /\ conns' = IF ok THEN Send(cs, l, LogEnd(e.end)) ELSE cs
        ELSE pipe' = p /\ spool' = sp /\ conns' = cs

(* The pipe, the spool and the connections as the call leaves them: a      *)
(* batch that was read from the spool is sent under the lock.              *)
Pump(p, sp, cs, l) ==
    LET q   == OnRoute(p, l)
        out == SendNext(q, sp)
    IN  IF ~p.reporter \/ p.refused \/ ~RouteReady(p, l)
        THEN pipe' = p /\ spool' = sp /\ conns' = cs
        ELSE IF out = <<>>
        THEN PumpEnd(q, sp, cs, l)
        ELSE pipe' = [q EXCEPT !.batch = out, !.read = Last(out)] /\ spool' = sp /\ conns' = cs

(* The next frame of the batch goes where the route leads now.  Where that *)
(* is not where the batch was meant to go, or the call fails, the rest of  *)
(* the batch is dropped, read and not sent.                                *)
SendBatch ==
    /\ pipe.batch # <<>>
    /\ \E ok \in Outcomes(conns, link) :
          LET s  == Head(pipe.batch)
              p  == [pipe EXCEPT !.sent = s, !.batch = Tail(@)]
              cs == Send(conns, link, Log(s))
          IN  IF ~ok
              THEN /\ pipe' = [pipe EXCEPT !.batch = <<>>, !.reporter = FALSE]
                   /\ UNCHANGED <<spool, conns>>
              ELSE IF Route(link) # pipe.route \/ p.batch # <<>>
              THEN /\ pipe' = IF Route(link) # pipe.route THEN [p EXCEPT !.batch = <<>>] ELSE p
                   /\ conns' = cs /\ UNCHANGED spool
              ELSE PumpEnd(p, spool, cs, link)
    /\ UNCHANGED <<link, disk, writer, used>>

(* No call is inside the pipe's lock. *)
Idle     == pipe.sending = 0 /\ pipe.batch = <<>>
Unlocked == pipe.mode \in {"live", "recovering"} /\ Idle

------------------------------------------------------------------------------
(***************************************************************************)
(* The worker: output, finalization and recovery.                          *)
(***************************************************************************)
Keep(sp, s, sync) ==
    LET new == [sp EXCEPT !.frames = Append(@, s)]
    IN  IF sync THEN Synced(new, pipe.gaps) ELSE new

CanWrite == Unlocked /\ pipe.mode = "live" /\ ~pipe.ended /\ pipe.next <= MaxSeq

(* A chunk is sent as it is written when nothing waits to be sent and the  *)
(* window and the route allow it.  All of that is looked at before the     *)
(* chunk is stored.                                                        *)
Direct ==
    /\ pipe.reporter /\ ~pipe.refused
    /\ Unsent(pipe, spool) = <<>> /\ Room(pipe) > 0
    /\ RouteReady(pipe, link)

(* write, storing the chunk and leaving it to pump; every so many writes   *)
(* the spool is synced.                                                    *)
Write ==
    /\ CanWrite /\ ~Direct /\ ~Sealed(pipe.gaps)
    /\ \E sync \in BOOLEAN :
          Pump([pipe EXCEPT !.next = @ + 1], Keep(spool, pipe.next, sync), conns, link)
    /\ used' = [used EXCEPT !.spooled = @ \cup {pipe.next}]
    /\ UNCHANGED <<link, disk, writer>>

(* write, up to the call that sends the chunk: the pipe's lock is held. *)
WriteDirect ==
    /\ CanWrite /\ Direct /\ ~Sealed(pipe.gaps)
    /\ pipe' = [OnRoute(pipe, link) EXCEPT !.next = @ + 1, !.sending = pipe.next]
    /\ spool' = Keep(spool, pipe.next, FALSE)
    /\ used' = [used EXCEPT !.spooled = @ \cup {pipe.next}]
    /\ UNCHANGED <<link, conns, disk, writer>>

(* The rest of write: the frame goes where the route leads now. *)
SendDirect ==
    /\ pipe.sending # 0
    /\ \E ok \in Outcomes(conns, link) :
          IF ok
          THEN Pump([pipe EXCEPT !.sending = 0, !.sent = pipe.sending, !.read = pipe.sending],
                    spool, Send(conns, link, Log(pipe.sending)), link)
          ELSE /\ pipe' = [pipe EXCEPT !.sending = 0, !.reporter = FALSE]
               /\ UNCHANGED <<spool, conns>>
    /\ UNCHANGED <<link, disk, writer, used>>

(* write, refused by the spool (its cap, the quota, the reserve or a       *)
(* failed write; or the gap list is full): the number is spent on a gap.   *)
WriteRefused ==
    /\ CanWrite
    /\ Sealed(pipe.gaps) \/ CanFail("refused")
    /\ Pump([pipe EXCEPT !.next = @ + 1, !.gaps = @ \cup {pipe.next}],
            DeclaredGap(spool, pipe.gaps, pipe.next), conns, link)
    /\ IF Sealed(pipe.gaps) THEN UNCHANGED used ELSE Spent
    /\ UNCHANGED <<link, disk, writer>>

(* complete waits, and pumps whenever it wakes up. *)
Wake ==
    /\ Unlocked /\ pipe.ended
    /\ Pump(pipe, spool, conns, link)
    /\ UNCHANGED <<link, disk, writer, used>>

(* complete: the attempt's output is over.  Its end record is durable      *)
(* before anyone hears of it.                                              *)
Complete ==
    /\ Unlocked /\ pipe.mode = "live" /\ ~pipe.ended
    /\ Pump([pipe EXCEPT !.ended = TRUE], PersistEnd(pipe, spool), conns, link)
    /\ UNCHANGED <<link, disk, writer, used>>

(* Variant: the spool goes once the end was sent, as before protocol 5. *)
EndIsSafe_when_sent == pipe.endSent

EndIsSafe == pipe.endAcked

(* complete returns: the end was acknowledged and the spool is removed. *)
Delivered ==
    /\ Unlocked /\ pipe.ended /\ EndIsSafe
    /\ pipe' = [pipe EXCEPT !.mode = "delivered", !.reporter = FALSE]
    /\ spool' = [spool EXCEPT !.frames = <<>>, !.synced = 0, !.cursor = 0,
                              !.declared = 0, !.end = NoEnd]
    /\ UNCHANGED <<link, conns, disk, writer, used>>

(* complete returns without it: refused, or LOG_FLUSH_TIMEOUT passed. *)
GiveUp ==
    /\ Unlocked /\ pipe.ended /\ ~EndIsSafe
    /\ pipe.refused \/ pipe.mode \in Timeouts
    /\ pipe' = [pipe EXCEPT !.mode = "gaveup", !.reporter = FALSE]
    /\ UNCHANGED <<spool, link, conns, disk, writer, used>>

(* A recovered pipe whose session is gone waits in vain for as long; then  *)
(* the spool is left for the next session that is attached.                *)
GiveBack ==
    /\ pipe.mode = "orphaned"
    /\ pipe' = [pipe EXCEPT !.mode = "leftover"]
    /\ UNCHANGED <<spool, link, conns, disk, writer, used>>

(* abandon_leftovers: a restarted worker delivers what the spool holds on  *)
(* the session that was attached.                                          *)
Recover ==
    /\ pipe.mode = "due"
    /\ Pump([mode |-> "recovering", next |-> ReopenedNext, gaps |-> ReopenedGaps,
             acked |-> spool.cursor, sent |-> spool.cursor, read |-> spool.cursor,
             sending |-> 0, batch |-> <<>>,
             route |-> Route(link), reporter |-> TRUE, refused |-> FALSE,
             cut |-> spool.end = NoEnd, ended |-> TRUE,
             endSent |-> FALSE, endAcked |-> FALSE],
            [spool EXCEPT !.synced = Len(spool.frames)], conns, link)
    /\ UNCHANGED <<link, disk, writer, used>>

------------------------------------------------------------------------------
(***************************************************************************)
(* The worker's session.                                                   *)
(***************************************************************************)
Closed == [link EXCEPT !.ctrl = 0, !.bulk = 0, !.attached = 0, !.detached = 0,
                       !.told = TRUE]

(* Variant: an end that was sent on an earlier session is not sent again. *)
Reattached_end_sent(l) ==
    [Rewound(pipe) EXCEPT !.reporter = TRUE, !.refused = FALSE, !.route = Route(l)]

(* A live pipe sends again from its acknowledgement, and its end again. *)
Reattached(l) ==
    [Rewound(pipe) EXCEPT !.reporter = TRUE, !.refused = FALSE,
                          !.endSent = @ /\ pipe.endAcked, !.route = Route(l)]

(* A new session: it takes over what a dead process left. *)
Attach ==
    /\ link.ctrl = 0 /\ link.next <= MaxConns
    /\ Idle
    /\ link' = [Closed EXCEPT !.ctrl = link.next, !.next = @ + 1]
    /\ LET cs == [conns EXCEPT ![link.next].live = TRUE]
       IN  IF pipe.mode = "live"
           THEN Pump(Reattached(link'), spool, cs, link')
           ELSE /\ pipe' = [pipe EXCEPT !.mode = IF @ = "leftover" THEN "due" ELSE @]
                /\ conns' = cs /\ UNCHANGED spool
    /\ UNCHANGED <<disk, writer, used>>

(* The session ends: its connection broke, or the worker missed an answer. *)
(* A recovery is not told, and keeps its dead reporter.                    *)
Detach ==
    /\ link.ctrl # 0 /\ link.next <= MaxConns
    /\ link' = Closed
    /\ pipe' = IF pipe.mode \in {"due", "recovering"}
               THEN [pipe EXCEPT !.mode = "orphaned", !.reporter = FALSE, !.batch = <<>>]
               ELSE IF Idle THEN [pipe EXCEPT !.reporter = FALSE] ELSE pipe
    /\ UNCHANGED <<spool, conns, disk, writer, used>>

(* BulkDialer.open; one connection is kept for a later session. *)
AttachBulk ==
    /\ link.ctrl # 0 /\ link.bulk = 0 /\ link.told /\ link.next < MaxConns
    /\ RouteMoves \/ Idle
    /\ link' = [link EXCEPT !.bulk = link.next, !.next = @ + 1, !.attached = @ + 1]
    /\ conns' = [conns EXCEPT ![link.next].live = TRUE]
    /\ UNCHANGED <<spool, pipe, disk, writer, used>>

(* BulkLink.run ends: first the slot forgets the connection ... *)
DetachBulk ==
    /\ link.bulk # 0
    /\ RouteMoves \/ Idle
    /\ link' = [link EXCEPT !.bulk = 0, !.detached = @ + 1, !.told = FALSE]
    /\ UNCHANGED <<spool, pipe, conns, disk, writer, used>>

(* ... then the pipes are told. *)
BulkDetached ==
    /\ ~link.told
    /\ link' = [link EXCEPT !.told = TRUE]
    /\ IF pipe.mode = "live"
       THEN Unlocked /\ Pump(pipe, spool, conns, link')
       ELSE UNCHANGED <<spool, pipe, conns>>
    /\ UNCHANGED <<disk, writer, used>>

(* A message for the pipe, taken by the session's or the bulk connection's *)
(* thread.                                                                 *)
Acknowledged(s) ==
    IF s <= pipe.acked
    THEN [pipe |-> pipe, spool |-> spool]
    ELSE [pipe  |-> [pipe EXCEPT !.acked = s,
                                 !.next = IF spool.end = NoEnd THEN Max({@, s + 1})
                                                               ELSE @],
          spool |-> [spool EXCEPT !.cursor = s]]

Take(c, m) ==
    LET cs == [conns EXCEPT ![c].down = Tail(@)]
        a  == Acknowledged(m.seq)
    IN  \/ m.type = "LogAck" /\ Pump(a.pipe, a.spool, cs, link)
        \/ /\ m.type = "LogRefused"
           /\ pipe' = [pipe EXCEPT !.refused = TRUE]
           /\ conns' = cs /\ UNCHANGED spool
        \/ /\ m.type = "LogEndAck"
           /\ pipe' = [pipe EXCEPT !.endAcked = TRUE]
           /\ conns' = cs /\ UNCHANGED spool

Hear(c) ==
    /\ c \in {link.ctrl, link.bulk} /\ conns[c].down # <<>>
    /\ IF pipe.mode \in {"live", "recovering"}
       THEN Unlocked /\ Take(c, Head(conns[c].down))
       ELSE conns' = [conns EXCEPT ![c].down = Tail(@)] /\ UNCHANGED <<spool, pipe>>
    /\ UNCHANGED <<link, disk, writer, used>>

(* The worker process is killed; a power cut also takes what its spool did *)
(* not sync, the cursor file included.                                     *)
WorkerDies ==
    /\ pipe.mode \in {"live", "leftover", "due", "recovering", "orphaned"}
    /\ CanFail("worker")
    /\ pipe' = [pipe EXCEPT !.mode = "leftover", !.reporter = FALSE, !.sending = 0, !.batch = <<>>]
    /\ link' = Closed
    /\ \/ UNCHANGED spool
       \/ \E kept \in Kept(spool.frames, spool.synced), cur \in {0, spool.cursor} :
             spool' = [spool EXCEPT !.frames = kept, !.synced = Len(kept),
                                    !.cursor = cur]
    /\ Spent
    /\ UNCHANGED <<conns, disk, writer>>

------------------------------------------------------------------------------
(***************************************************************************)
(* The controller's log store.  Frames are appended to segments; a seal    *)
(* entry in the index covers a full segment, and reopening decodes only    *)
(* what no seal covers.                                                    *)
(***************************************************************************)
TopFrames(d) == SubSeq(d.data, d.sealedAt + 1, Len(d.data))

SyncDirty(d, w) == IF w.dirty THEN [d EXCEPT !.synced = Len(d.data)] ELSE d

PersistHoles(d, w) ==
    IF w.holesDirty THEN [SyncDirty(d, w) EXCEPT !.holes = w.holes] ELSE d

HolesKept(w) ==
    IF w.holesDirty THEN [w EXCEPT !.holesDirty = FALSE, !.dirty = FALSE] ELSE w

(* seal, after the holes are persisted. *)
Seal(d, w) ==
    [d EXCEPT !.sealedAt = Len(d.data), !.sealedSeq = w.last, !.synced = Len(d.data)]

(* The numbers that were missing when a frame of fs jumped over them. *)
Missing(start, fs) ==
    LET seen(i) == Max({start} \cup ToSet(SubSeq(fs, 1, i - 1)))
    IN  {seen(i) + 1 : i \in {k \in DOMAIN fs : fs[k] > seen(k) + 1}}

FirstHole(d) ==
    LET known == Missing(d.sealedSeq, TopFrames(d)) \cup Ranges(d.holes)
                   \cup ({d.jump} \ {0})
    IN  IF known = {} THEN 0 ELSE Min(known)

(* Variant: the marker lists what the worker declared, not the holes seen. *)
MergedGaps_declared(last, holes, endLast, gaps) == gaps \cup (last + 1 .. endLast)

MergedGaps(last, holes, endLast, gaps) == holes \cup gaps \cup (last + 1 .. endLast)

(* open_attempt: what the disk holds, folded into a writer.  An end record *)
(* without its marker is a finish that was interrupted.                    *)
Opened(d) ==
    LET top   == TopFrames(d)
        last  == Max({d.sealedSeq} \cup ToSet(top))
        holes == (d.holes \cup (d.sealedSeq + 1 .. last)) \ ToSet(top)
        found == [last |-> d.rec.last,
                  gaps |-> MergedGaps(last, holes, d.rec.last, d.rec.gaps)]
        mark  == IF d.mark = NoEnd /\ d.rec # NoEnd THEN found ELSE d.mark
    IN  [writer |-> [open |-> TRUE, last |-> last, holes |-> holes, dirty |-> FALSE,
                     holesDirty |-> holes # d.holes, ended |-> mark.last],
         disk   |-> [d EXCEPT !.synced = Len(d.data), !.mark = mark,
                              !.jump = FirstHole(d)]]

WithWriter == IF writer.open THEN [disk |-> disk, writer |-> writer] ELSE Opened(disk)

(* append_to, for a frame that is neither refused nor a duplicate: d and w *)
(* are the directory and the writer once pending holes are persisted.      *)
Full(d) == Len(TopFrames(d)) >= SegFrames

(* Variant: the jump is left for the next open to find. *)
Jumped_at_reopen(d, w, s) == d

Jumped(d, w, s) ==
    IF s > w.last + 1 /\ d.jump = 0 THEN [d EXCEPT !.jump = w.last + 1] ELSE d

FrameIn(d, s) == [d EXCEPT !.data = Append(@, s)]

HolesAfter(w, s) == (w.holes \cup (w.last + 1 .. s - 1)) \ {s}

Appended(d, w, s) ==
    LET d1 == Jumped(IF Full(d) THEN Seal(d, w) ELSE d, w, s)
        w1 == [w EXCEPT !.last = Max({@, s}), !.holes = HolesAfter(w, s),
                        !.holesDirty = HolesAfter(w, s) # w.holes, !.dirty = TRUE]
    IN  [disk |-> PersistHoles(FrameIn(d1, s), w1), writer |-> HolesKept(w1)]

(* Variant: only a repeat of the newest frame is recognised. *)
Duplicate_newest(w, s) == s = w.last

Duplicate(w, s) == s <= w.last /\ s \notin w.holes

------------------------------------------------------------------------------
(***************************************************************************)
(* The threads that serve the connections.                                 *)
(***************************************************************************)
(* flush_log_acks syncs the writer and acknowledges what its thread stored *)
(* since the last flush; a writer that is gone fails it.                   *)
Acks(conn) == IF conn.through = 0 THEN <<>> ELSE <<LogAck(conn.through)>>

Flushed(cs, c, more) ==
    [cs EXCEPT ![c].down = @ \o Acks(cs[c]) \o more, ![c].through = 0]

Flush(c) ==
    /\ conns[c].live /\ conns[c].through # 0
    /\ IF writer.open
       THEN /\ disk' = SyncDirty(disk, writer)
            /\ writer' = [writer EXCEPT !.dirty = FALSE]
            /\ conns' = Flushed(conns, c, <<>>)
       ELSE /\ conns' = [conns EXCEPT ![c] = Dead(@)]
            /\ UNCHANGED <<disk, writer>>
    /\ UNCHANGED <<spool, pipe, link, used>>

Popped(c) == [conns EXCEPT ![c].up = Tail(@)]

(* A frame that is stored is acknowledged at a later flush. *)
StoreFrame(c, s) ==
    LET o == WithWriter
        d == PersistHoles(o.disk, o.writer)
        w == HolesKept(o.writer)
        a == Appended(d, w, s)
    IN  /\ o.writer.ended = NotEnded /\ ~Duplicate(w, s)
        /\ disk' = a.disk /\ writer' = a.writer
        /\ conns' = [Popped(c) EXCEPT ![c].through = a.writer.last]
        /\ UNCHANGED used

(* Variant: it is acknowledged without the sync. *)
StoreDuplicate_unsynced(c, s) ==
    LET o == WithWriter
        d == PersistHoles(o.disk, o.writer)
        w == HolesKept(o.writer)
    IN  /\ o.writer.ended = NotEnded /\ Duplicate(w, s)
        /\ disk' = d /\ writer' = w
        /\ conns' = Flushed(Popped(c), c, <<LogAck(w.last)>>)
        /\ UNCHANGED used

(* A duplicate is acknowledged at once, once it is certainly synced. *)
StoreDuplicate(c, s) ==
    LET o == WithWriter
        d == PersistHoles(o.disk, o.writer)
        w == HolesKept(o.writer)
    IN  /\ o.writer.ended = NotEnded /\ Duplicate(w, s)
        /\ disk' = SyncDirty(d, w)
        /\ writer' = [w EXCEPT !.dirty = FALSE]
        /\ conns' = Flushed(Popped(c), c, <<LogAck(w.last)>>)
        /\ UNCHANGED used

(* Nothing is appended after the end, nor while the store has no room. *)
StoreRefuses(c, s) ==
    LET o == WithWriter
        d == PersistHoles(o.disk, o.writer)
        w == HolesKept(o.writer)
    IN  /\ \/ /\ o.writer.ended # NotEnded
              /\ disk' = SyncDirty(o.disk, o.writer)
              /\ writer' = [o.writer EXCEPT !.dirty = FALSE]
              /\ UNCHANGED used
           \/ /\ o.writer.ended = NotEnded /\ ~Duplicate(w, s) /\ CanFail("full")
              /\ disk' = SyncDirty(d, w)
              /\ writer' = [w EXCEPT !.dirty = FALSE]
              /\ Spent
        /\ conns' = Flushed(Popped(c), c, <<LogRefused>>)

(* finish and log_ended: the end record is synced, the segment sealed, the *)
(* marker renamed into place and the attempt's row set; the writer goes.   *)
Conflicts(o, e) ==
    \/ o.writer.ended # NotEnded /\ o.writer.ended # e.last
    \/ o.writer.ended = NotEnded /\ e.last < o.writer.last

EndRecord(o, e) == [PersistHoles(o.disk, o.writer) EXCEPT !.synced = Len(o.disk.data), !.rec = e]

EndMarked(o, e) ==
    IF o.writer.ended # NotEnded
    THEN o.disk
    ELSE [Seal(EndRecord(o, e), o.writer) EXCEPT
            !.mark = [last |-> e.last,
                      gaps |-> MergedGaps(o.writer.last, o.writer.holes, e.last, e.gaps)]]

NoWriter == [open |-> FALSE, last |-> 0, holes |-> {}, dirty |-> FALSE,
             holesDirty |-> FALSE, ended |-> NotEnded]

StoreEnd(c, e) ==
    LET o == WithWriter
    IN  /\ ~Conflicts(o, e)
        /\ disk' = [EndMarked(o, e) EXCEPT !.row = "complete"]
        /\ writer' = NoWriter
        /\ conns' = Flushed(Popped(c), c, <<LogEndAck>>)

RefuseEnd(c, e) ==
    LET o == WithWriter
    IN  /\ Conflicts(o, e)
        /\ disk' = SyncDirty(o.disk, o.writer)
        /\ writer' = [o.writer EXCEPT !.dirty = FALSE]
        /\ conns' = Flushed(Popped(c), c, <<LogRefused>>)

(* serve_connection; anything but a frame is preceded by a flush, which    *)
(* needs the writer.                                                       *)
Serve(c) ==
    /\ conns[c].live /\ conns[c].up # <<>>
    /\ conns[c].through # 0 => writer.open
    /\ LET m == Head(conns[c].up)
           e == [last |-> m.seq, gaps |-> m.gaps]
       IN  \/ /\ m.type = "Log"
              /\ \/ StoreFrame(c, m.seq)
                 \/ StoreDuplicate(c, m.seq)
                 \/ StoreRefuses(c, m.seq)
           \/ /\ m.type = "LogEnd"
              /\ StoreEnd(c, e) \/ RefuseEnd(c, e)
              /\ UNCHANGED used
    /\ UNCHANGED <<spool, pipe, link>>

(* The connection breaks, or its thread fails; the last one holds. *)
Break(c) ==
    /\ conns[c].live /\ c < MaxConns
    /\ conns' = [conns EXCEPT ![c] = Dead(@)]
    /\ UNCHANGED <<spool, pipe, link, disk, writer, used>>

(* close_idle, slot eviction, or forget when the attempt is released: the  *)
(* writer goes with its unsynced frames in the page cache.                 *)
CloseWriter ==
    /\ writer.open /\ CanFail("closed")
    /\ writer' = NoWriter
    /\ Spent
    /\ UNCHANGED <<spool, pipe, link, conns, disk>>

------------------------------------------------------------------------------
(***************************************************************************)
(* Crashes of the controller.                                              *)
(***************************************************************************)
(* What a kill leaves of directory d, and what a power cut may leave. *)
Survivors(d) ==
    {d} \cup {[d EXCEPT !.data = kept, !.synced = Len(kept)] : kept \in Kept(d.data, d.synced)}

(* The record of the first hole lies past all that is left. *)
JumpOutlives(d) == d.jump > Opened(d).writer.last + 1

(* What a seal entry covers and neither the frames nor the holes account   *)
(* for.                                                                    *)
Uncovered(d) == (1 .. d.sealedSeq) \ (ToSet(d.data) \cup d.holes)

Down(kind, left) ==
    /\ CanFail(kind)
    /\ \E d \in left :
          /\ disk' = d
          /\ used' = [used EXCEPT !.faults = @ + 1, !.stale = @ \/ JumpOutlives(d),
                                  !.torn = IF kind = "seal" THEN @ \cup Uncovered(d) ELSE @]
    /\ writer' = NoWriter
    /\ conns' = [c \in Conn |-> Dead(conns[c])]
    /\ UNCHANGED <<spool, pipe, link>>

StoreDies == Down("store", Survivors(disk))

(* The crash falls inside an append: the jump is recorded and the frame    *)
(* may be written, the holes are not.                                      *)
DiesInAppend(c) ==
    /\ conns[c].live /\ conns[c].up # <<>>
    /\ LET o == WithWriter
           d == PersistHoles(o.disk, o.writer)
           w == HolesKept(o.writer)
           m == Head(conns[c].up)
       IN  /\ m.type = "Log" /\ o.writer.ended = NotEnded /\ ~Duplicate(w, m.seq)
           /\ Down("store", Survivors(FrameIn(Jumped(IF Full(d) THEN Seal(d, w) ELSE d, w, m.seq), m.seq)))

(* The power fails inside seal: the index entry is synced, the segment it  *)
(* covers is not.                                                          *)
DiesInSeal(c) ==
    /\ conns[c].live /\ conns[c].up # <<>>
    /\ LET o == WithWriter
           d == PersistHoles(o.disk, o.writer)
           w == HolesKept(o.writer)
           m == Head(conns[c].up)
       IN  /\ m.type = "Log" /\ o.writer.ended = NotEnded /\ ~Duplicate(w, m.seq) /\ Full(d)
           /\ Down("seal", {[d EXCEPT !.sealedSeq = w.last, !.data = kept, !.synced = Len(kept),
                                      !.sealedAt = Len(kept)] : kept \in Kept(d.data, d.synced)})

(* The crash falls inside finish, before the marker, or before the row. *)
DiesInFinish(c) ==
    /\ conns[c].live /\ conns[c].up # <<>>
    /\ LET o == WithWriter
           m == Head(conns[c].up)
           e == [last |-> m.seq, gaps |-> m.gaps]
       IN  /\ m.type = "LogEnd" /\ ~Conflicts(o, e) /\ o.writer.ended = NotEnded
           /\ Down("store", {EndRecord(o, e), Seal(EndRecord(o, e), o.writer), EndMarked(o, e)})

------------------------------------------------------------------------------
LogInit ==
    /\ spool = [frames |-> <<>>, synced |-> 0, cursor |-> 0, declared |-> 0, end |-> NoEnd]
    /\ pipe = [mode |-> "live", next |-> 1, gaps |-> {}, acked |-> 0, sent |-> 0,
               read |-> 0, sending |-> 0, batch |-> <<>>, route |-> [attached |-> 0, detached |-> 0],
               reporter |-> FALSE, refused |-> FALSE, cut |-> FALSE, ended |-> FALSE,
               endSent |-> FALSE, endAcked |-> FALSE]
    /\ link = [ctrl |-> 0, bulk |-> 0, attached |-> 0, detached |-> 0, told |-> TRUE, next |-> 1]
    /\ conns = [c \in Conn |-> [live |-> FALSE, up |-> <<>>, down |-> <<>>, through |-> 0]]
    /\ disk = [data |-> <<>>, synced |-> 0, sealedAt |-> 0, sealedSeq |-> 0, holes |-> {},
               jump |-> 0, rec |-> NoEnd, mark |-> NoEnd, row |-> "pending"]
    /\ writer = NoWriter
    /\ used = [faults |-> 0, spooled |-> {}, stale |-> FALSE, torn |-> {}]

Worker ==
    Write \/ WriteDirect \/ SendDirect \/ SendBatch \/ WriteRefused \/ Complete \/ Wake
        \/ Delivered \/ GiveUp \/ GiveBack \/ Recover \/ Attach \/ Detach
        \/ AttachBulk \/ DetachBulk \/ BulkDetached \/ (\E c \in Conn : Hear(c)) \/ WorkerDies

Controller ==
    \/ \E c \in Conn :
          \/ Serve(c) \/ Flush(c) \/ Break(c)
          \/ DiesInAppend(c) \/ DiesInSeal(c) \/ DiesInFinish(c)
    \/ CloseWriter \/ StoreDies

LogNext == Worker \/ Controller

LogSpec == LogInit /\ [][LogNext]_logVars

------------------------------------------------------------------------------
(* What a power cut would leave of the log. *)
Durable == [disk EXCEPT !.data = SubSeq(@, 1, disk.synced)]

(* A frame the worker counts as acknowledged is on the controller's disk   *)
(* and synced (logs.rs: "A frame is acknowledged only after it is written  *)
(* and fdatasynced"): after this the worker never sends it again.          *)
AckedIsStored ==
    \A s \in used.spooled : s <= pipe.acked => s \in ToSet(Durable.data)

(* A frame the worker counts as acknowledged is durable, or the store      *)
(* would find after a power cut that it is missing, or a power cut inside  *)
(* a seal took it: apart from those frames none is lost in silence.        *)
(* Acknowledgements are cumulative and name the highest number stored, so  *)
(* one passes over the holes below; resends on a new connection, a writer  *)
(* closed between a write and its sync, and both ends' crashes must not    *)
(* turn that into an unknown loss (append_to, sync, open_attempt).  The    *)
(* exception is the code's: seal syncs the index entry before the segment  *)
(* it covers, and open_attempt does not read a covered segment.            *)
AckedOrHole ==
    \A s \in used.spooled : s <= pipe.acked =>
        s \in ToSet(Durable.data) \cup Opened(Durable).writer.holes \cup used.torn

(* No frame is stored twice, although sessions resend from the             *)
(* acknowledgement, two connections append to one log and the writer is    *)
(* rebuilt from disk (the duplicate test of append_to against the holes    *)
(* that open_attempt folds back).                                          *)
StoredOnce == IsInjective(disk.data)

(* A log that reads as complete names every number it lacks: what the      *)
(* worker refused, what was overtaken, and the tail a crash cut short      *)
(* (finish and the repair of open_attempt); except a frame that a power    *)
(* cut inside a seal took, whose resend passes for a duplicate.            *)
NoSilentGap ==
    disk.mark # NoEnd =>
       \A s \in 1 .. disk.mark.last :
          s \in ToSet(disk.data) \cup disk.mark.gaps \cup used.torn

(* Frames that landed behind a higher number are covered by the recorded   *)
(* first hole: readers take the log as sequential below it (logs.rs: the   *)
(* record is "conservative, never wrong").  A power cut inside an append   *)
(* keeps the record and loses frames below it; the next jump, which may    *)
(* fall lower, is then not recorded.                                       *)
JumpCovers ==
    \A i \in DOMAIN disk.data : \A j \in 1 .. i - 1 :
        disk.data[j] > disk.data[i] => disk.jump # 0 /\ disk.jump <= disk.data[i]

(* That apart, the record covers every frame that landed late, also when   *)
(* the process died between the record, the frame and the holes            *)
(* (write_first_hole in append_to, first_hole in open_attempt).            *)
JumpRecorded == ~used.stale => JumpCovers

(* The worker drops its copy only when the controller's marker and the     *)
(* attempt's row both say that the log is complete (log_end, log_ended).   *)
SpoolOutlivesLog == pipe.mode = "delivered" => disk.mark # NoEnd /\ disk.row = "complete"

(* Somebody has something left to do: the attempt's thread, the session or *)
(* bulk thread of the worker, or a serving thread of the controller.       *)
Busy ==
    \/ ~Idle \/ (pipe.mode = "live" /\ ~pipe.ended)
    \/ pipe.mode \in {"live", "recovering"} /\ (EndIsSafe \/ pipe.refused)
    \/ pipe.mode \in {"due", "orphaned"} \cup Timeouts
    \/ link.ctrl = 0 /\ link.next <= MaxConns
    \/ link.ctrl # 0 /\ ~conns[link.ctrl].live
    \/ link.bulk # 0 /\ ~conns[link.bulk].live
    \/ ~link.told
    \/ \E c \in Conn :
          \/ c \in {link.ctrl, link.bulk} /\ conns[c].down # <<>>
          \/ conns[c].live /\ (conns[c].up # <<>> \/ conns[c].through # 0)

(* What only LOG_FLUSH_TIMEOUT or another session ends: the session lost a *)
(* bulk connection after the end was sent, which is not sent again then; a *)
(* call failed on a bulk connection, and the pipe has no reporter although *)
(* the session lives; a bulk connection was attached under a batch, whose  *)
(* rest was read and not sent; a recovery gave up after the next session   *)
(* was attached.                                                           *)
EndAtRisk == pipe.endSent /\ link.detached # 0
Muted     == pipe.mode \in {"live", "recovering"} /\ ~pipe.reporter /\ link.ctrl # 0
Skipped   == pipe.read > Max({pipe.sent, pipe.acked})
Postponed == pipe.mode = "leftover"

(* Both ends come to rest only when the attempt's log is delivered or was  *)
(* refused, whatever broke on the way and without LOG_FLUSH_TIMEOUT having *)
(* to pass: nobody waits for an answer nobody will send (attached resends, *)
(* route_ready waits, complete waits), these four cases apart.             *)
LogRests ==
    Busy \/ pipe.mode \in {"delivered", "gaveup"}
         \/ EndAtRisk \/ Muted \/ Skipped \/ Postponed
=============================================================================

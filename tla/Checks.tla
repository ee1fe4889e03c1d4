------------------------------- MODULE Checks -------------------------------
(***************************************************************************)
(* The outbox of check publications and the lane that delivers it.         *)
(*                                                                         *)
(* A row holds what the forge ought to show for one job or run; every      *)
(* change of it is a new generation.  One thread reads a batch of due      *)
(* rows, asks the forge outside any transaction and writes the outcome     *)
(* back under the generation it read.  A create is marked before it is     *)
(* sent, so that a retry finds the run a lost answer left behind.          *)
(*                                                                         *)
(* The forge keeps a completed run completed: an update that would reopen  *)
(* it is answered and ignored.                                             *)
(***************************************************************************)
EXTENDS Integers, Sequences, FiniteSets, SequencesExt

CONSTANTS
    Outboxes,        \* the instances to explore together; an instance has
                     \*   rows         the publications, oldest first
                     \*   unwritable   rows whose every update the store rejects
                     \*   unparkable   those whose parking it rejects too
                     \*   undecodable  rows that cannot be read back
                     \*   gens         bound: generations of a row
                     \*   troubles     bound: outages, lost answers, rate limits,
                     \*                refusals, store faults and restarts together
    Attempts,        \* MAX_ATTEMPTS
    FinalAttempts,   \* MAX_TERMINAL_ATTEMPTS
    QuarantineAfter  \* QUARANTINE_AFTER

ASSUME CheckBounds ==
    /\ \A o \in Outboxes :
          /\ o.rows \in Seq(ToSet(o.rows)) /\ IsInjective(o.rows) /\ o.gens \in Nat \ {0} /\ o.troubles \in Nat
          /\ o.unparkable \subseteq o.unwritable
          /\ o.unwritable \cup o.undecodable \subseteq ToSet(o.rows)
    /\ {Attempts, FinalAttempts, QuarantineAfter} \subseteq Nat \ {0}

VARIABLES
    outbox,   \* the instance of this behaviour
    row,      \* check_publications
    forge,    \* per row, the check runs the forge holds for it, oldest first
    lane,     \* the lane's thread: its batch and where it is in it
    poison,   \* Poison: strikes, and rows left out for a while
    troubles  \* troubles so far

checkVars == <<outbox, row, forge, lane, poison, troubles>>

Checked == ToSet(outbox.rows)

(* A status, with its conclusion when it is completed. *)
Shown == {"queued", "in_progress", "success", "failure"}
Completed(s) == s \in {"success", "failure"}

Trouble == troubles < outbox.troubles /\ troubles' = troubles + 1
NoTrouble == UNCHANGED troubles

------------------------------------------------------------------------------
(***************************************************************************)
(* Recording what the forge ought to show.                                 *)
(***************************************************************************)
Delivered(p) == Completed(p.status) /\ p.state = "published" /\ p.published = p.seq

(* Variant: a completed generation drops the handle, delivered or not. *)
Generation_drops_undelivered(p, s) ==
    LET gone == Completed(p.status)
    IN  [p EXCEPT !.status = s, !.seq = @ + 1, !.state = "pending", !.attempts = 0,
                  !.waits = FALSE, !.exhausted = FALSE,
                  !.handle = IF gone THEN 0 ELSE @, !.createSeq = IF gone THEN 0 ELSE @]

(* The generation after a delivered completed one names a new run. *)
Generation(p, s) ==
    LET gone == Delivered(p)
    IN  [p EXCEPT !.status = s, !.seq = @ + 1, !.state = "pending", !.attempts = 0,
                  !.waits = FALSE, !.exhausted = FALSE,
                  !.handle = IF gone THEN 0 ELSE @, !.createSeq = IF gone THEN 0 ELSE @]

(* upsert, from the transaction that moves a job: the same content again   *)
(* changes nothing, unless the row was refused.                            *)
upsert(r, s) ==
    /\ row[r].seq < outbox.gens
    /\ row[r].state = "refused" \/ row[r].status # s
    /\ row' = [row EXCEPT ![r] = Generation(@, s)]
    /\ UNCHANGED <<forge, lane, poison, troubles>>

(* rearm_exhausted, at the lane's start and once an interval. *)
Rearmed(p) ==
    IF p.state = "refused" /\ p.exhausted /\ Completed(p.status)
    THEN [p EXCEPT !.state = "pending", !.attempts = 0, !.waits = FALSE, !.exhausted = FALSE]
    ELSE p

rearm_exhausted ==
    /\ lane.at = "idle"
    /\ row' = [r \in Checked |-> Rearmed(row[r])]
    /\ row' # row
    /\ UNCHANGED <<forge, lane, poison, troubles>>

(* The time of the next attempt comes. *)
ComesDue(r) ==
    /\ row[r].waits
    /\ row' = [row EXCEPT ![r].waits = FALSE]
    /\ UNCHANGED <<forge, lane, poison, troubles>>

(* So does the end of an installation's rate limit. *)
LimitPasses ==
    /\ lane.limited = "yes"
    /\ lane' = [lane EXCEPT !.limited = "passed"]
    /\ UNCHANGED <<row, forge, poison, troubles>>

(* SKIP_FOR passes. *)
SkipLapses(r) ==
    /\ r \in poison.skipped
    /\ poison' = [poison EXCEPT !.skipped = @ \ {r}]
    /\ UNCHANGED <<row, forge, lane, troubles>>

------------------------------------------------------------------------------
(***************************************************************************)
(* The lane.  A snapshot is what the lane uses of a row as it was read; a   *)
(* batch is worked off oldest row first.                                   *)
(***************************************************************************)
Due(r) == row[r].state = "pending" /\ row[r].published < row[r].seq /\ ~row[r].waits

(* The batch goes on with the next row, or ends with its held ones. *)
Onward(l) == IF l.todo = {} THEN [l EXCEPT !.at = "close"] ELSE l

Idle(limited) ==
    [at |-> "idle", todo |-> {}, limited |-> limited, held |-> {}, answer |-> "none", run |-> 0]

Snapshot(r) ==
    [key |-> r, seq |-> row[r].seq, status |-> row[r].status, handle |-> row[r].handle,
     createSeq |-> row[r].createSeq]

(* A batch is read: undecodable rows are parked by their raw key, and a    *)
(* limit that has passed is forgotten.                                     *)
due ==
    LET all == {r \in Checked : Due(r) /\ r \notin poison.skipped}
    IN  /\ lane.at = "idle" /\ all # {}
        /\ lane' = Onward([Idle(IF lane.limited = "passed" THEN "no" ELSE lane.limited) EXCEPT
                         !.at = "publish",
                         !.todo = {Snapshot(r) : r \in all \ outbox.undecodable}])
        /\ row' = [r \in Checked |-> [row[r] EXCEPT !.waits = @ \/ r \in outbox.undecodable \cap all]]
        /\ UNCHANGED <<forge, poison, troubles>>

Same(r, s) == row[r].seq = s

Limited == lane.limited # "no"

Place(r) == CHOOSE i \in DOMAIN outbox.rows : outbox.rows[i] = r
This == CHOOSE p \in lane.todo : \A q \in lane.todo : Place(p.key) <= Place(q.key)
Key  == This.key

Advanced == [lane EXCEPT !.at = "publish", !.todo = @ \ {This}, !.answer = "none", !.run = 0]

Answer(a, n) ==
    lane' = [lane EXCEPT !.at = "record", !.answer = a, !.run = n,
                         !.limited = IF a = "throttled" THEN "yes" ELSE @]

(* publish: the run a handle names, or the one an unrecorded create left.  *)
Made(fs, p) == {i \in DOMAIN fs : fs[i].ident = p.createSeq}

Existing(p) ==
    IF p.handle # 0 THEN p.handle
    ELSE IF p.createSeq # 0 /\ Made(forge[p.key], p) # {}
    THEN CHOOSE i \in Made(forge[p.key], p) : TRUE
    ELSE 0

(* The forge takes an update; a completed run stays completed. *)
Updated(run, p) ==
    IF Completed(run.shows) /\ ~Completed(p.status)
    THEN run
    ELSE [run EXCEPT !.shows = p.status, !.gen = p.seq]

(* A request that does not get its answer: unavailable or token refused,   *)
(* rate limited, or refused for good.                                      *)
NoAnswer == Answer("retry", 0) \/ Answer("throttled", 0) \/ Answer("refused", 0)

(* The rows of a limited installation are set aside. *)
HeldBack ==
    /\ lane.at = "publish" /\ Limited
    /\ lane' = Onward([Advanced EXCEPT !.held = @ \cup {<<Key, This.seq>>}])
    /\ UNCHANGED <<row, forge, poison, troubles>>

(* update; an answer that is lost may still have been carried out. *)
Update ==
    /\ lane.at = "publish" /\ ~Limited /\ Existing(This) # 0
    /\ LET new == [forge EXCEPT ![Key][Existing(This)] = Updated(@, This)]
       IN  \/ forge' = new /\ Answer("ok", Existing(This)) /\ NoTrouble
           \/ forge' = new /\ Answer("retry", 0) /\ Trouble
           \/ UNCHANGED forge /\ NoAnswer /\ Trouble
    /\ UNCHANGED <<row, poison>>

(* The lookup that a marked create owes fails. *)
LookupFails ==
    /\ lane.at = "publish" /\ ~Limited
    /\ This.handle = 0 /\ This.createSeq # 0
    /\ NoAnswer /\ Trouble
    /\ UNCHANGED <<row, forge, poison>>

(* create_started: the mark is written before the request, if the row is   *)
(* still the generation that was read.                                     *)
create_started ==
    /\ lane.at = "publish" /\ ~Limited /\ Existing(This) = 0
    /\ \/ /\ Same(Key, This.seq) /\ Key \notin outbox.unwritable
          /\ row' = [row EXCEPT ![Key].createSeq = This.seq]
          /\ lane' = [lane EXCEPT !.at = "create"]
          /\ NoTrouble
       \/ /\ IF Same(Key, This.seq) /\ Key \notin outbox.unwritable THEN Trouble ELSE NoTrouble
          /\ Answer("retry", 0) /\ UNCHANGED row
    /\ UNCHANGED <<forge, poison>>

create ==
    /\ lane.at = "create"
    /\ LET run == [ident |-> This.seq, shows |-> This.status, gen |-> This.seq]
           new == [forge EXCEPT ![Key] = Append(@, run)]
       IN  \/ forge' = new /\ Answer("ok", Len(new[Key])) /\ NoTrouble
           \/ forge' = new /\ Answer("retry", 0) /\ Trouble
           \/ UNCHANGED forge /\ NoAnswer /\ Trouble
    /\ UNCHANGED <<row, poison>>

------------------------------------------------------------------------------
(***************************************************************************)
(* The outcome is written back.                                            *)
(***************************************************************************)
(* Variant: the outcome is written whatever the generation is now. *)
published_unguarded(p, n) ==
    [row[p.key] EXCEPT !.handle = n, !.published = row[p.key].seq, !.state = "published",
                       !.waits = FALSE]

(* published: the handle is kept whatever the row is now. *)
published(p, n) ==
    IF Same(p.key, p.seq)
    THEN [row[p.key] EXCEPT !.handle = n, !.published = p.seq, !.state = "published",
                            !.waits = FALSE]
    ELSE [row[p.key] EXCEPT !.handle = n]

Budget(p) == IF Completed(p.status) THEN FinalAttempts ELSE Attempts

refused(p, exhausted) ==
    [row[p.key] EXCEPT !.state = "refused", !.exhausted = exhausted, !.waits = FALSE]

retry(p) ==
    IF row[p.key].attempts + 1 >= Budget(row[p.key])
    THEN refused(p, TRUE)
    ELSE [row[p.key] EXCEPT !.attempts = @ + 1, !.waits = TRUE]

defer(r, s) ==
    IF Same(r, s) /\ row[r].state = "pending" THEN [row[r] EXCEPT !.waits = TRUE] ELSE row[r]

(* retry and refused fail with a conflict when the generation moved. *)
Moved == lane.answer \in {"retry", "refused"} /\ ~Same(Key, This.seq)

Outcome ==
    CASE lane.answer = "ok" -> published(This, lane.run)
      [] lane.answer = "retry" -> retry(This)
      [] lane.answer = "refused" -> refused(This, FALSE)
      [] lane.answer = "throttled" -> defer(Key, This.seq)

Record ==
    /\ lane.at = "record" /\ Key \notin outbox.unwritable
    /\ row' = IF Moved THEN row ELSE [row EXCEPT ![Key] = Outcome]
    /\ lane' = Onward(Advanced)
    /\ poison' = IF Moved THEN poison ELSE [poison EXCEPT !.strikes[Key] = 0]
    /\ UNCHANGED <<forge, troubles>>

(* The store fails for everyone: the batch is given up. *)
StoreDown ==
    /\ lane.at \in {"record", "close"}
    /\ lane' = Idle(lane.limited)
    /\ Trouble
    /\ UNCHANGED <<row, forge, poison>>

(* Variant: a strike is forgotten. *)
Strikes_forgotten(r) == poison.strikes[r]

Strikes(r) == poison.strikes[r] + 1

(* store_fault on a row that cannot be written: the first strikes stop the *)
(* batch, then the row is parked, or left out when even that fails.        *)
Strike ==
    /\ lane.at = "record" /\ Key \in outbox.unwritable
    /\ IF Strikes(Key) < QuarantineAfter
       THEN /\ poison' = [poison EXCEPT !.strikes[Key] = Strikes(Key)]
            /\ lane' = Idle(lane.limited)
            /\ UNCHANGED row
       ELSE /\ lane' = Onward(Advanced)
            /\ IF Key \in outbox.unparkable
               THEN /\ poison' = [strikes |-> [poison.strikes EXCEPT ![Key] = QuarantineAfter - 1],
                                  skipped |-> poison.skipped \cup {Key}]
                    /\ UNCHANGED row
               ELSE /\ poison' = [poison EXCEPT !.strikes[Key] = 0]
                    /\ row' = [row EXCEPT ![Key] = defer(Key, This.seq)]
    /\ UNCHANGED <<forge, troubles>>

(* The end of a batch: the rows set aside wait for the limit to pass, in   *)
(* one transaction, which one of them can spoil.                           *)
Close ==
    /\ lane.at = "close"
    /\ row' = IF \E h \in lane.held : h[1] \in outbox.unparkable
              THEN row
              ELSE [r \in Checked |->
                      IF \E h \in lane.held : h = <<r, row[r].seq>> THEN defer(r, row[r].seq)
                                                                     ELSE row[r]]
    /\ lane' = Idle(lane.limited)
    /\ UNCHANGED <<forge, poison, troubles>>

(* The controller restarts; a request on the wire may have been carried    *)
(* out, which is a lost answer followed by this.                           *)
LaneRestarts ==
    /\ Trouble
    /\ lane' = Idle("no")
    /\ poison' = [strikes |-> [r \in Checked |-> 0], skipped |-> {}]
    /\ row' = [r \in Checked |-> Rearmed(row[r])]
    /\ UNCHANGED forge

------------------------------------------------------------------------------
ChecksInit ==
    /\ outbox \in Outboxes
    /\ row = [r \in Checked |->
                [seq |-> 1, published |-> 0, status |-> "queued", handle |-> 0, createSeq |-> 0,
                 state |-> "pending", attempts |-> 0, waits |-> FALSE, exhausted |-> FALSE]]
    /\ forge = [r \in Checked |-> <<>>]
    /\ lane = Idle("no")
    /\ poison = [strikes |-> [r \in Checked |-> 0], skipped |-> {}]
    /\ troubles = 0

LaneStep ==
    \/ due \/ HeldBack \/ Update \/ LookupFails \/ create_started \/ create \/ Record
    \/ Strike \/ Close

ChecksStep ==
    \/ LaneStep \/ StoreDown \/ LaneRestarts \/ rearm_exhausted \/ LimitPasses
    \/ \E r \in Checked : ComesDue(r) \/ SkipLapses(r) \/ \E s \in Shown : upsert(r, s)

ChecksNext == ChecksStep /\ UNCHANGED outbox

(* The lane's thread and the clock go on. *)
ChecksFair ==
    /\ WF_checkVars(LaneStep /\ UNCHANGED outbox)
    /\ WF_checkVars(LimitPasses /\ UNCHANGED outbox)
    /\ \A r \in UNION {ToSet(o.rows) : o \in Outboxes} :
          /\ WF_checkVars(r \in Checked /\ ComesDue(r) /\ UNCHANGED outbox)
          /\ WF_checkVars(r \in Checked /\ SkipLapses(r) /\ UNCHANGED outbox)

ChecksSpec == ChecksInit /\ [][ChecksNext]_checkVars /\ ChecksFair

------------------------------------------------------------------------------
Unfinished(r) == {i \in DOMAIN forge[r] : ~Completed(forge[r][i].shows)}

(* However answers are lost and generations move while a request is on the *)
(* wire, no create is carried out twice, and at most one check run of a    *)
(* row is unfinished, its newest: none is left spinning behind.            *)
OneOpenRun ==
    \A r \in Checked :
       /\ Cardinality(Unfinished(r)) <= 1
       /\ \A i \in Unfinished(r) : i = Len(forge[r])
       /\ \A i, j \in DOMAIN forge[r] : forge[r][i].ident = forge[r][j].ident => i = j

(* A row that says its verdict is published names the newest check run,    *)
(* and that run shows this verdict, not one of an earlier generation.      *)
VerdictShown ==
    \A r \in Checked : Delivered(row[r]) =>
        /\ row[r].handle = Len(forge[r])
        /\ forge[r][row[r].handle].shows = row[r].status

(* Once jobs stop moving, every row the store can read and write leaves    *)
(* the queue, published or refused: outages and limits spend bounded       *)
(* budgets, and a row that cannot be written, parked or read only holds    *)
(* the ones behind it up for a while (store_fault, QUARANTINE_AFTER).      *)
ChecksSettle ==
    \A r \in UNION {ToSet(o.rows) : o \in Outboxes} :
       <>[](r \in Checked \ (outbox.unwritable \cup outbox.undecodable) => row[r].state # "pending")
=============================================================================

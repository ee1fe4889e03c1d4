-------------------------------- MODULE Link --------------------------------
(***************************************************************************)
(* One worker's link to the controller and the attempts of one job on it:  *)
(* the controller's session threads, its deferred messages and its         *)
(* dispatch pass (crates/sentinel-link/src/controller.rs, session.rs), and *)
(* the worker's executor, reports and recovery markers                     *)
(* (crates/sentinel-worker/src/executor.rs, recovery.rs, attempt.rs).      *)
(*                                                                         *)
(* The store is Dispatch: every write of the controller is a transaction   *)
(* of that module. A connection keeps order and loses whatever is on it    *)
(* when it breaks; either end may notice first, and a session that was     *)
(* replaced may still work off what it had received. A write may fail      *)
(* although it committed (WriteAmbiguous).                                 *)
(***************************************************************************)
EXTENDS Dispatch, SequencesExt

CONSTANTS W, J,          \* the worker and the job of this link
          MaxSessions,   \* bound: connections
          MaxFaults,     \* bound: transient store errors
          MaxCrashes,    \* bound: restarts of either process
          MaxDeferred,   \* MAX_DEFERRED
          MaxInFlight,   \* bound: worker messages on a connection before a write blocks
          KeepElapses,   \* whether a verdict may wait longer than REPORT_KEEP
          LeasesPass,    \* whether a lease may pass before it is renewed
          LateArrivals   \* whether the worker may connect again before the thread
                         \* of its last session has registered it

ASSUME LinkAssumption == /\ W \in Workers /\ J \in Jobs
                         /\ MaxSessions \in Nat /\ MaxFaults \in Nat /\ MaxCrashes \in Nat
                         /\ MaxDeferred \in Nat /\ MaxInFlight \in Nat /\ KeepElapses \in BOOLEAN
                         /\ LeasesPass \in BOOLEAN /\ LateArrivals \in BOOLEAN
                         /\ "preparation" \in Classes

Sessions == 1 .. MaxSessions
Verdicts == {"passed"} \cup Classes

VARIABLES \* the connection
          opened,      \* sessions opened so far; the newest is the worker's
          attached,    \* the worker has a reporter (it has not noticed a loss)
          serving,     \* the sessions whose controller thread is running
          closed,      \* those of them that a later registration has closed
          peer,        \* the session in the controller's fleet, or 0
          inbox,       \* per session: worker messages the controller has not handled
          outbox,      \* controller messages the newest session has not handled
          \* the controller
          deferred,    \* the deferred queue
          beat,        \* per session: what its thread is in the middle of
          desk,        \* per attempt: the session that is owed its spec, or 0
          pass,        \* where the dispatch pass is
          shield,      \* what the pass has read for its next write
          \* the worker
          exec,        \* per attempt: where it is in the executor
          unconfirmed, \* per attempt: the verdict not yet confirmed, or NoVerdict
          pending,     \* reports that could not be sent
          resending,   \* reports attached() has taken over and is sending
          pinged,      \* a ping is out
          marker,      \* attempt markers on disk
          leftovers,   \* markers found by the last start, to hand back
          \* bounds
          faults, crashes

netVars    == <<opened, attached, serving, closed, peer, inbox, outbox>>
ctlVars    == <<deferred, beat, desk, pass, shield>>
execVars   == <<exec, unconfirmed, pending, resending, pinged, marker, leftovers>>
boundVars  == <<faults, crashes>>
linkVars   == <<vars, netVars, ctlVars, execVars, boundVars>>

NoVerdict == "none"
\* A session thread between messages; between the Welcome and its registration; between the
\* renewal of a ping and its answer; between a write that failed and the queue.
NoBeat    == [doing |-> "none", held |-> {}, stop |-> {}, late |-> <<>>]
Idle      == [phase |-> "none", next |-> "none", cancel |-> FALSE, lost |-> FALSE]

\* Worker messages. need_spec is not one: it travels on the bulk connection.
Ack(f)       == [kind |-> "ack", fence |-> f]
Report(f, e) == [kind |-> "report", fence |-> f, event |-> e]
Decline(f)   == [kind |-> "decline", fence |-> f]
Abandon(f)   == [kind |-> "abandon", fence |-> f]
Ping(hs)     == [kind |-> "ping", held |-> hs]

IsReport(m)  == m.kind = "report"
IsVerdict(m) == IsReport(m) /\ m.event \in Verdicts

LinkInit ==
  /\ Init
  /\ opened = 0 /\ attached = FALSE /\ serving = {} /\ closed = {} /\ peer = 0
  /\ inbox = [s \in Sessions |-> <<>>] /\ outbox = <<>>
  /\ deferred = <<>> /\ beat = [s \in Sessions |-> NoBeat] /\ desk = [f \in Fences |-> 0]
  /\ pass = "idle" /\ shield = {}
  /\ exec = [f \in Fences |-> Idle] /\ unconfirmed = [f \in Fences |-> NoVerdict]
  /\ pending = <<>> /\ resending = <<>> /\ pinged = FALSE
  /\ marker = {} /\ leftovers = {}
  /\ faults = MaxFaults /\ crashes = MaxCrashes

-----------------------------------------------------------------------------
(* The connection.                                                         *)

\* What the worker writes reaches the inbox while the controller's thread runs, and is
\* lost once it does not: the worker learns of that later.
Transmit(ms) ==
  IF opened \in serving
  THEN Len(inbox[opened] \o ms) <= MaxInFlight /\ inbox' = [inbox EXCEPT ![opened] = @ \o ms]
  ELSE UNCHANGED inbox

\* What a session thread writes reaches the worker if that session is still the worker's.
Reply(s, ms) == outbox' = IF attached /\ s = opened THEN outbox \o ms ELSE outbox

\* Variant: the entry is removed whichever session it belongs to.
unregister_any(s) == peer' = 0

unregister(s) == peer' = IF peer = s THEN 0 ELSE peer

Arriving(s) == beat[s].doing = "arrive"

\* A session is opened: the worker has its Welcome, the thread has yet to register it.
\* attached() takes over what could not be sent.
connect ==
  /\ ~attached /\ opened < MaxSessions
  /\ LateArrivals \/ \A s \in Sessions : ~Arriving(s)
  /\ opened' = opened + 1 /\ attached' = TRUE
  /\ serving' = serving \cup {opened + 1}
  /\ beat' = [beat EXCEPT ![opened + 1] = [NoBeat EXCEPT !.doing = "arrive"]]
  /\ outbox' = <<>> /\ pinged' = FALSE
  /\ resending' = pending /\ pending' = <<>>
  /\ UNCHANGED <<vars, closed, peer, inbox, deferred, desk, pass, shield, exec, unconfirmed, marker,
                 leftovers, boundVars>>

\* The session enters the fleet, whichever was opened last: the one it finds there is
\* closed, which that thread notices when it comes to it.
register(s) ==
  /\ s \in serving /\ Arriving(s)
  /\ beat' = [beat EXCEPT ![s] = NoBeat]
  /\ peer' = s /\ closed' = closed \cup ({peer} \ {0})
  /\ UNCHANGED <<vars, opened, attached, serving, inbox, outbox, deferred, desk, pass, shield,
                 execVars, boundVars>>

\* The connection breaks at the controller, or was closed: what the thread had not handled
\* is gone, but it registers and finishes the message it is at. The last session allowed by
\* the bound stays unless it was closed.
session_ends(s) ==
  /\ s \in serving /\ (s < opened \/ opened < MaxSessions \/ s \in closed)
  /\ beat[s].doing \notin {"arrive", "defer"}
  /\ serving' = serving \ {s} /\ closed' = closed \ {s}
  /\ inbox' = [inbox EXCEPT ![s] = <<>>] /\ beat' = [beat EXCEPT ![s] = NoBeat]
  /\ unregister(s)
  /\ UNCHANGED <<vars, opened, attached, outbox, deferred, desk, pass, shield, execVars, boundVars>>

\* Variant: what has a marker waits.
Unreached_marked == {marker}

\* abandon_leftovers when a write fails: the leftover it is at waits for the next session; those
\* it has not reached are forgotten until the next start, although their markers stay.
Unreached == IF leftovers = {} THEN {{}} ELSE {{f} : f \in leftovers}

\* The worker notices: no heartbeat answer, or a failed read. It keeps its attempts.
detached ==
  /\ attached /\ resending = <<>> /\ opened < MaxSessions
  /\ attached' = FALSE /\ outbox' = <<>> /\ pinged' = FALSE
  /\ leftovers' \in Unreached
  /\ UNCHANGED <<vars, opened, serving, closed, peer, inbox, ctlVars, exec, unconfirmed, pending,
                 resending, marker, boundVars>>

-----------------------------------------------------------------------------
(* The controller: messages of an attempt and the deferred queue.          *)

\* The event the store will try for a worker's report.
Recorded(e) == IF e = "canceled" /\ ~job[J].cancel THEN "runtime" ELSE e

Accepts(m) ==
  LET a == attempt[J][m.fence]
  IN  /\ a.worker = W /\ Live(W)
      /\ IF m.kind = "ack" THEN Held(a)
         ELSE a.status = "acked" /\ CanApply(job[J], "worker", Recorded(m.event), m.fence)

\* The store's answers: the message is taken (an acknowledgement again is no change), it
\* is refused, or the write fails for now, perhaps after it committed.
Takes(f, m) ==
  /\ Accepts(m)
  /\ \/ m = Ack(f) /\ acknowledge(W, J, f)
     \/ m = Ack(f) /\ attempt[J][f].status = "acked" /\ UNCHANGED vars
     \/ \E e \in Reports : m = Report(f, e) /\ report(W, J, f, e)

Refuses(m) == ~Accepts(m) /\ UNCHANGED vars

Fails(f, m) ==
  /\ faults > 0 /\ faults' = faults - 1
  /\ Takes(f, m) \/ UNCHANGED vars

holds(f)      == \E i \in DOMAIN deferred : deferred[i].fence = f
has_report(f) == \E i \in DOMAIN deferred : deferred[i].fence = f /\ IsReport(deferred[i])

\* Variant: the queue has no limit.
push_unbounded(m) == deferred' = Append(deferred, m)

push(m) == deferred' = IF Len(deferred) < MaxDeferred THEN Append(deferred, m) ELSE deferred

\* The thread of session s is free and its next message is m.
Turn(s, m) == /\ s \in serving /\ beat[s] = NoBeat
               /\ inbox[s] # <<>> /\ Head(inbox[s]) = m

Handled(s) == inbox' = [inbox EXCEPT ![s] = Tail(@)]

\* receive_with: behind an earlier message of the attempt the new one waits, unless the
\* queue has a report of it; otherwise it is applied, and kept if that failed for now. The
\* queue is not locked during the write.
receive(s, f, m) ==
  /\ Turn(s, m) /\ m.kind \in {"ack", "report"} /\ m.fence = f
  /\ Handled(s)
  /\ \/ /\ holds(f)
        /\ IF IsReport(m) /\ has_report(f) THEN UNCHANGED deferred ELSE push(m)
        /\ UNCHANGED <<vars, beat, faults>>
     \/ /\ ~holds(f)
        /\ Takes(f, m) \/ Refuses(m)
        /\ UNCHANGED <<deferred, beat, faults>>
     \/ /\ ~holds(f) /\ Fails(f, m)
        /\ beat' = [beat EXCEPT ![s] = [NoBeat EXCEPT !.doing = "defer", !.late = <<m>>]]
        /\ UNCHANGED deferred
  /\ UNCHANGED <<opened, attached, serving, closed, peer, outbox, desk, pass, shield, execVars, crashes>>

defer(s) ==
  /\ s \in serving /\ beat[s].doing = "defer"
  /\ push(Head(beat[s].late))
  /\ beat' = [beat EXCEPT ![s] = NoBeat]
  /\ UNCHANGED <<vars, netVars, desk, pass, shield, execVars, boundVars>>

\* declined and abandoned do not go through the queue, and an error of theirs is final: the
\* store refuses what is not held under that fence (or, declined, has started), or fails.
declined(s, f) ==
  /\ Turn(s, Decline(f)) /\ Handled(s)
  /\ \/ decline(W, J, f) /\ UNCHANGED faults
     \/ /\ ~(Held(attempt[J][f]) /\ job[J].fence = f /\ job[J].state = "leased")
        /\ UNCHANGED <<vars, faults>>
     \/ faults > 0 /\ faults' = faults - 1 /\ UNCHANGED vars
  /\ UNCHANGED <<opened, attached, serving, closed, peer, outbox, ctlVars, execVars, crashes>>

abandoned(s, f) ==
  /\ Turn(s, Abandon(f)) /\ Handled(s)
  /\ \/ abandon(W, J, f) /\ UNCHANGED faults
     \/ ~(Held(attempt[J][f]) /\ job[J].fence = f) /\ UNCHANGED <<vars, faults>>
     \/ faults > 0 /\ faults' = faults - 1 /\ UNCHANGED vars
  /\ UNCHANGED <<opened, attached, serving, closed, peer, outbox, ctlVars, execVars, crashes>>

-----------------------------------------------------------------------------
(* The controller: heartbeats and specs.                                   *)

Renewable(f) == attempt[J][f].status = "acked" /\ attempt[J][f].worker = W /\ attempt[J][f].left > 0

Waiters == {deferred[i].fence : i \in DOMAIN deferred}

\* The renewal commits first; the deferred attempts are read when the answer is written.
ping(s, hs) ==
  /\ Turn(s, Ping(hs))
  /\ Handled(s)
  /\ renew(W, IF job[J].fence \in hs THEN {J} ELSE {})
  /\ beat' = [beat EXCEPT ![s] = [NoBeat EXCEPT !.doing = "ping", !.held = hs,
                                                !.stop = {f \in hs : ~Renewable(f)}]]
  /\ UNCHANGED <<opened, attached, serving, closed, peer, outbox, deferred, desk, pass, shield, execVars,
                 boundVars>>

Pong(stop, cancels) == [kind |-> "pong", stop |-> stop, cancel |-> cancels]

CancelRequested(hs) == {f \in hs : Held(attempt[J][f]) /\ attempt[J][f].worker = W /\ job[J].cancel}

\* Variant: the answer does not repeat the pending cancels.
pong_no_cancels(s) ==
  /\ s \in serving /\ beat[s].doing = "ping"
  /\ Reply(s, <<Pong(beat[s].stop \ Waiters, {})>>)
  /\ beat' = [beat EXCEPT ![s] = NoBeat]
  /\ UNCHANGED <<vars, opened, attached, serving, closed, peer, inbox, deferred, desk, pass, shield,
                 execVars, boundVars>>

pong(s) ==
  /\ s \in serving /\ beat[s].doing = "ping"
  /\ Reply(s, <<Pong(beat[s].stop \ Waiters, CancelRequested(beat[s].held))>>)
  /\ beat' = [beat EXCEPT ![s] = NoBeat]
  /\ UNCHANGED <<vars, opened, attached, serving, closed, peer, inbox, deferred, desk, pass, shield,
                 execVars, boundVars>>

ToWorker(kind, f) == [kind |-> kind, fence |-> f]

\* Variant: a spec is served for an offer that is not acknowledged yet.
spec_gate_unacked(f) ==
  LET a == attempt[J][f]
  IN  IF ~(Held(a) /\ a.worker = W) THEN "not_held"
      ELSE IF job[J].cancel /\ job[J].state = "leased" THEN "canceled" ELSE "ready"

spec_gate(f) ==
  LET a == attempt[J][f]
  IN  IF ~(Held(a) /\ a.worker = W /\ Live(W)) THEN "not_held"
      ELSE IF a.status # "acked" THEN "unacknowledged"
      ELSE IF job[J].cancel /\ job[J].state = "leased" THEN "canceled" ELSE "ready"

\* A resolver answers, or leaves the request unanswered: the acknowledgement did not come in
\* time, the store or the forge failed. A cancel before the start is settled here.
resolve_spec(f) ==
  /\ desk[f] # 0
  /\ desk' = [desk EXCEPT ![f] = 0]
  /\ \/ spec_gate(f) = "not_held" /\ Reply(desk[f], <<ToWorker("no_spec", f)>>) /\ UNCHANGED vars
     \/ spec_gate(f) = "canceled" /\ decline(W, J, f) /\ Reply(desk[f], <<ToWorker("no_spec", f)>>)
     \/ /\ spec_gate(f) = "ready" /\ UNCHANGED vars
        /\ \E answer \in {"spec", "no_spec"} : Reply(desk[f], <<ToWorker(answer, f)>>)
     \/ UNCHANGED <<vars, outbox>>
  /\ UNCHANGED <<opened, attached, serving, closed, peer, inbox, deferred, beat, pass, shield, execVars,
                 boundVars>>

-----------------------------------------------------------------------------
(* The controller: the dispatch pass, which repeats: retry, expire, lapse, *)
(* place. With one job at most one of the last three has anything to do,   *)
(* so each is a pass of its own; its two steps are the read and the write. *)

\* Variant: a deferred acknowledgement is written without asking what became of the offer.
retry_deferred_blind(f, m) ==
  /\ pass = "idle" /\ deferred # <<>> /\ Head(deferred) = m /\ m = Ack(f)
  /\ attempt' = [attempt EXCEPT ![J][f].status = "acked"]
  /\ pass' = "settle"
  /\ UNCHANGED <<job, run, worker, netVars, deferred, beat, desk, shield, execVars, boundVars>>

\* retry_with: from the head, until the store fails again or the queue is empty. A message
\* the store could not take for DEFERRED_MAX_AGE is dropped. It leaves the queue after the
\* write.
retry_deferred(f, m) ==
  /\ pass = "idle" /\ deferred # <<>> /\ Head(deferred) = m /\ m.fence = f
  /\ \/ /\ Takes(f, m) \/ Refuses(m)
        /\ pass' = "settle" /\ UNCHANGED faults
     \/ /\ faults > 0 /\ faults' = faults - 1
        /\ pass' = "settle" /\ UNCHANGED vars
     \/ Fails(f, m) /\ UNCHANGED pass
  /\ UNCHANGED <<netVars, deferred, beat, desk, shield, execVars, crashes>>

settle_deferred ==
  /\ pass = "settle" /\ pass' = "idle"
  /\ deferred' = Tail(deferred)
  /\ UNCHANGED <<vars, netVars, beat, desk, shield, execVars, boundVars>>

\* The due leases are read without the attempts that have a deferred message: one the
\* retry left behind, or one that came after it.
expired_scoped ==
  /\ pass = "idle"
  /\ shield' = {f \in Fences : Due(attempt[J][f])} \ Waiters
  /\ shield' # {} /\ pass' = "expire"
  /\ UNCHANGED <<vars, netVars, deferred, beat, desk, execVars, boundVars>>

\* What is still due is expired.
expire_batch ==
  /\ pass = "expire" /\ pass' = "idle" /\ shield' = {}
  /\ LET due == {f \in Fences : f \in shield /\ Due(attempt[J][f])}
     IN  IF due = {} THEN UNCHANGED vars ELSE \E f \in due : expire(J, f)
  /\ UNCHANGED <<netVars, deferred, beat, desk, execVars, boundVars>>

\* Offers past OFFER_ACK_MS lapse, except those that had a deferred message when the sweep
\* asked for the writer.
deferred_attempts ==
  /\ pass = "idle" /\ \E f \in Fences : attempt[J][f].status = "offered"
  /\ pass' = "lapse" /\ shield' = Waiters
  /\ UNCHANGED <<vars, netVars, deferred, beat, desk, execVars, boundVars>>

lapse_due ==
  /\ pass = "lapse" /\ pass' = "idle" /\ shield' = {}
  /\ (\E f \in Fences \ shield : lapse(J, f)) \/ UNCHANGED vars
  /\ UNCHANGED <<netVars, deferred, beat, desk, execVars, boundVars>>

\* A placement is committed and then sent; an offer that cannot be sent lapses.
placement_pass ==
  /\ pass = "idle" /\ peer # 0
  /\ place(W, J) /\ pass' = "send" /\ shield' = {peer}
  /\ UNCHANGED <<netVars, deferred, beat, desk, execVars, boundVars>>

send_offer ==
  /\ pass = "send" /\ pass' = "idle" /\ shield' = {}
  /\ LET f == job[J].fence
     IN  \/ /\ \E s \in shield : Reply(s, <<ToWorker("offer", f)>>)
            /\ UNCHANGED vars
         \/ /\ IF f \in Fences /\ attempt[J][f].status = "offered" THEN lapse(J, f) ELSE UNCHANGED vars
            /\ UNCHANGED outbox
  /\ UNCHANGED <<opened, attached, serving, closed, peer, inbox, deferred, beat, desk, execVars, boundVars>>

\* A hinted cancel is pushed ahead of the heartbeat that would carry it. Bound: one push on
\* the connection.
cancel_push(f) ==
  /\ pass = "idle" /\ peer # 0
  /\ f \in CancelRequested(Fences)
  /\ ~Contains(outbox, ToWorker("cancel", f))
  /\ Reply(peer, <<ToWorker("cancel", f)>>)
  /\ UNCHANGED <<vars, opened, attached, serving, closed, peer, inbox, ctlVars, execVars, boundVars>>

\* The process restarts: queue, sessions and requests are gone, and the store is reconciled
\* before the listener is bound.
controller_restarts ==
  /\ crashes > 0 /\ crashes' = crashes - 1 /\ opened < MaxSessions
  /\ serving' = {} /\ closed' = {} /\ peer' = 0 /\ inbox' = [s \in Sessions |-> <<>>]
  /\ deferred' = <<>> /\ beat' = [s \in Sessions |-> NoBeat] /\ desk' = [f \in Fences |-> 0]
  /\ pass' = "idle" /\ shield' = {}
  /\ \/ reconcile_startup
     \/ (\A f \in Fences : ~Due(attempt[J][f])) /\ UNCHANGED vars
  /\ UNCHANGED <<opened, attached, outbox, execVars, faults>>

-----------------------------------------------------------------------------
(* The worker: sending.                                                    *)

\* The attempt loop's report: nothing from an attempt that lost its lease, a verdict is kept
\* until it is confirmed, and what could not be sent waits for the next session.
send(f, e) ==
  IF exec[f].lost THEN UNCHANGED <<inbox, pending, unconfirmed>>
  ELSE /\ unconfirmed' = IF e \in Verdicts THEN [unconfirmed EXCEPT ![f] = e] ELSE unconfirmed
       /\ \/ attached /\ Transmit(<<Report(f, e)>>) /\ UNCHANGED pending
          \/ /\ ~attached \/ opened \notin serving
             /\ pending' = Append(pending, Report(f, e)) /\ UNCHANGED inbox

need_spec(f) ==
  desk' = IF opened \in serving /\ desk[f] = 0 THEN [desk EXCEPT ![f] = opened] ELSE desk

\* The rest of attached(), outside the executor's lock: an attempt's own reports interleave.
resend_pending ==
  /\ attached /\ resending # <<>>
  /\ resending' = Tail(resending)
  /\ LET m == Head(resending)
     IN  \/ /\ Transmit(<<m>>)
            /\ marker' = IF IsVerdict(m) THEN marker \ {m.fence} ELSE marker
            /\ UNCHANGED pending
         \/ /\ opened \notin serving
            /\ pending' = Append(pending, m)
            /\ UNCHANGED <<inbox, marker>>
  /\ UNCHANGED <<vars, opened, attached, serving, closed, peer, outbox, ctlVars, exec, unconfirmed,
                 pinged, leftovers, boundVars>>

\* Variant: an attempt is named only while it runs.
held_running == {f \in Fences : exec[f].phase \in {"awaiting", "declining", "live"}}

held == {f \in Fences : exec[f].phase \in {"awaiting", "declining", "live"}
                          \/ unconfirmed[f] # NoVerdict}

\* A heartbeat that names no attempt changes nothing, so there is none.
heartbeat ==
  /\ attached /\ resending = <<>> /\ ~pinged /\ held # {}
  /\ Transmit(<<Ping(held)>>) /\ pinged' = TRUE
  /\ UNCHANGED <<vars, opened, attached, serving, closed, peer, outbox, ctlVars, exec, unconfirmed,
                 pending, resending, marker, leftovers, boundVars>>

-----------------------------------------------------------------------------
(* The worker: what the controller says.                                   *)

Message(m) == attached /\ resending = <<>> /\ outbox # <<>> /\ Head(outbox) = m /\ outbox' = Tail(outbox)

\* Taken (a reporter, room and disk), with the acknowledgement before the request for the
\* spec, or declined. The controller offers an attempt once, so a repeated offer is left out.
offered(f) ==
  /\ Message(ToWorker("offer", f))
  /\ \/ /\ exec' = [exec EXCEPT ![f] = [Idle EXCEPT !.phase = "awaiting"]]
        /\ Transmit(<<Ack(f)>>) /\ need_spec(f)
     \/ Transmit(<<Decline(f)>>) /\ UNCHANGED <<exec, desk>>
  /\ UNCHANGED <<vars, opened, attached, serving, closed, peer, deferred, beat, pass, shield, unconfirmed,
                 pending, resending, pinged, marker, leftovers, boundVars>>

accept_spec(f) ==
  /\ Message(ToWorker("spec", f))
  /\ exec' = IF exec[f].phase = "awaiting" THEN [exec EXCEPT ![f].phase = "starting"] ELSE exec
  /\ UNCHANGED <<vars, opened, attached, serving, closed, peer, inbox, ctlVars, unconfirmed, pending,
                 resending, pinged, marker, leftovers, boundVars>>

no_spec(f) ==
  /\ Message(ToWorker("no_spec", f))
  /\ IF exec[f].phase = "awaiting" THEN send(f, "preparation")
     ELSE UNCHANGED <<inbox, pending, unconfirmed>>
  /\ exec' = IF exec[f].phase \in {"awaiting", "declining"} THEN [exec EXCEPT ![f] = Idle] ELSE exec
  /\ UNCHANGED <<vars, opened, attached, serving, closed, peer, ctlVars, resending, pinged, marker,
                 leftovers, boundVars>>

\* A cancel reaches the attempt wherever it is, the moment between spec and start included.
Canceled(ex, fs) ==
  [f \in Fences |-> IF f \in fs /\ ex[f].phase \in {"awaiting", "starting", "live"}
                    THEN [ex[f] EXCEPT !.cancel = TRUE] ELSE ex[f]]

\* stop: the attempt is not the worker's any more. Awaiting is dropped, live is killed.
Stopped(ex, fs) ==
  [f \in Fences |-> IF f \notin fs THEN ex[f]
                    ELSE IF ex[f].phase \in {"awaiting", "declining"} THEN Idle
                    ELSE IF ex[f].phase = "live" THEN [ex[f] EXCEPT !.cancel = TRUE] ELSE ex[f]]

canceled(f) ==
  /\ Message(ToWorker("cancel", f))
  /\ exec' = Canceled(exec, {f})
  /\ UNCHANGED <<vars, opened, attached, serving, closed, peer, inbox, ctlVars, unconfirmed, pending,
                 resending, pinged, marker, leftovers, boundVars>>

\* The verdicts that may be sent again. Bound: one copy of each on the connection.
Unanswered == {f \in Fences : /\ unconfirmed[f] # NoVerdict
                              /\ \A s \in Sessions : ~Contains(inbox[s], Report(f, unconfirmed[f]))}

\* A heartbeat's answer: verdicts older than REPORT_KEEP are forgotten and the due ones sent
\* again, then the attempts the controller no longer counts are stopped, which confirms
\* their verdict, and the cancelled ones told.
renewed(due, stop, cancels) ==
  /\ Message(Pong(stop, cancels))
  /\ pinged' = FALSE
  /\ \E gone \in IF KeepElapses THEN SUBSET (Fences \ due) ELSE {{}} :
       unconfirmed' = [f \in Fences |-> IF f \in gone \cup stop THEN NoVerdict ELSE unconfirmed[f]]
  /\ Transmit(SetToSeq({Report(f, unconfirmed[f]) : f \in due}))
  /\ exec' = Canceled(Stopped(exec, stop), cancels)
  /\ UNCHANGED <<vars, opened, attached, serving, closed, peer, ctlVars, pending, resending, marker,
                 leftovers, boundVars>>

-----------------------------------------------------------------------------
(* The worker: attempts.                                                   *)

\* Watching the specs: asked for again, or handed back when SPEC_DEADLINE has passed.
\* Bound: an answer that is on the connection is waited for.
ask_again(f) ==
  /\ attached /\ exec[f].phase = "awaiting" /\ desk[f] = 0
  /\ ~Contains(outbox, ToWorker("spec", f)) /\ ~Contains(outbox, ToWorker("no_spec", f))
  /\ need_spec(f)
  /\ UNCHANGED <<vars, netVars, deferred, beat, pass, shield, execVars, boundVars>>

\* Variant: the attempt still waits for its spec after it was handed back.
hand_back_keeps(f) ==
  /\ attached /\ exec[f].phase \in {"awaiting", "declining"}
  /\ Transmit(<<Decline(f)>>)
  /\ UNCHANGED <<vars, opened, attached, serving, closed, peer, outbox, ctlVars, execVars, boundVars>>

hand_back(f) ==
  /\ attached /\ exec[f].phase \in {"awaiting", "declining"}
  /\ \/ Transmit(<<Decline(f)>>) /\ exec' = [exec EXCEPT ![f] = Idle]
     \/ opened \notin serving /\ exec' = [exec EXCEPT ![f].phase = "declining"] /\ UNCHANGED inbox
  /\ UNCHANGED <<vars, opened, attached, serving, closed, peer, outbox, ctlVars, unconfirmed, pending,
                 resending, pinged, marker, leftovers, boundVars>>

\* The marker is durable before the attempt runs; without it, or without a spool or a valid
\* spec, the attempt ends here.
spawn(f) ==
  /\ exec[f].phase = "starting"
  /\ \/ /\ exec' = [exec EXCEPT ![f].phase = "live", ![f].next = "preparation_started"]
        /\ marker' = marker \cup {f}
        /\ UNCHANGED <<inbox, pending, unconfirmed>>
     \/ /\ exec' = [exec EXCEPT ![f] = Idle]
        /\ \E e \in {"preparation", "publication", "runtime"} \cap Classes : send(f, e)
        /\ UNCHANGED marker
  /\ UNCHANGED <<vars, opened, attached, serving, closed, peer, outbox, ctlVars, resending, pinged,
                 leftovers, boundVars>>

\* attempt::run: what the attempt says next, and what follows it. A panic ends it anywhere.
Says(f, e, next) ==
  LET x == exec[f]
  IN  \/ x.next = "preparation_started" /\ e = x.next /\ next = "prepare"
      \/ x.next = "prepare" /\ e = "steps_started" /\ next = "execute"
      \/ x.next = "prepare" /\ e = (IF x.cancel THEN "canceled" ELSE "preparation") /\ next = "over"
      \/ x.next = "execute" /\ e = "finalization_started" /\ next = "finalize"
      \/ x.next = "finalize" /\ e \in Verdicts /\ (e = "canceled" => x.cancel) /\ next = "over"
      \/ x.next \in {"preparation_started", "prepare", "execute"} /\ e = "runtime" /\ next = "over"

run_attempt(f, e) ==
  /\ exec[f].phase = "live"
  /\ \E next \in {"prepare", "execute", "finalize", "over"} :
       Says(f, e, next) /\ exec' = [exec EXCEPT ![f].next = next]
  /\ send(f, e)
  /\ UNCHANGED <<vars, opened, attached, serving, closed, peer, outbox, ctlVars, resending, pinged,
                 marker, leftovers, boundVars>>

\* The thread leaves: the marker goes unless one of the attempt's reports is still unsent.
attempt_over(f) ==
  /\ exec[f].phase = "live" /\ exec[f].next = "over"
  /\ exec' = [exec EXCEPT ![f] = Idle]
  /\ marker' = IF \E i \in DOMAIN pending : pending[i].fence = f THEN marker ELSE marker \ {f}
  /\ UNCHANGED <<vars, netVars, ctlVars, unconfirmed, pending, resending, pinged, leftovers, boundVars>>

\* watch_lease: no renewal for the length of the lease. Every live attempt is ended, mute.
lease_lost ==
  /\ ~attached \/ pinged
  /\ \E f \in Fences : exec[f].phase = "live"
  /\ exec' = [f \in Fences |-> IF exec[f].phase = "live"
                               THEN [exec[f] EXCEPT !.cancel = TRUE, !.lost = TRUE] ELSE exec[f]]
  /\ UNCHANGED <<vars, netVars, ctlVars, unconfirmed, pending, resending, pinged, marker,
                 leftovers, boundVars>>

\* The worker process dies and starts again: memory is gone, the markers are found.
worker_restarts ==
  /\ crashes > 0 /\ crashes' = crashes - 1 /\ opened < MaxSessions
  /\ attached' = FALSE /\ outbox' = <<>> /\ pinged' = FALSE
  /\ exec' = [f \in Fences |-> Idle] /\ unconfirmed' = [f \in Fences |-> NoVerdict]
  /\ pending' = <<>> /\ resending' = <<>>
  /\ leftovers' = marker
  /\ UNCHANGED <<vars, opened, serving, closed, peer, inbox, ctlVars, marker, faults>>

\* The recovery thread of the session: the attempt is abandoned, then its marker goes.
abandon_leftover(f) ==
  /\ attached /\ f \in leftovers
  /\ Transmit(<<Abandon(f)>>)
  /\ leftovers' = leftovers \ {f} /\ marker' = marker \ {f}
  /\ UNCHANGED <<vars, opened, attached, serving, closed, peer, outbox, ctlVars, exec, unconfirmed,
                 pending, resending, pinged, boundVars>>

-----------------------------------------------------------------------------
Connection == connect \/ detached \/ \E s \in Sessions : session_ends(s)

SessionThread(s) ==
  \/ register(s) \/ pong(s) \/ defer(s)
  \/ \E hs \in SUBSET Fences : ping(s, hs)
  \/ \E f \in Fences : \/ receive(s, f, Ack(f))
                       \/ \E e \in Reports : receive(s, f, Report(f, e))
                       \/ declined(s, f)
                       \/ abandoned(s, f)

Retries == \E f \in Fences : \/ retry_deferred(f, Ack(f))
                             \/ \E e \in Reports : retry_deferred(f, Report(f, e))

Controller ==
  \/ \E s \in Sessions : SessionThread(s)
  \/ \E f \in Fences : resolve_spec(f) \/ cancel_push(f)
  \/ Retries \/ settle_deferred \/ expired_scoped \/ expire_batch \/ deferred_attempts \/ lapse_due
  \/ placement_pass \/ send_offer
  \/ controller_restarts

Executor ==
  \/ resend_pending \/ heartbeat \/ lease_lost \/ worker_restarts
  \/ \E due \in SUBSET Unanswered, stop, cancels \in SUBSET Fences : renewed(due, stop, cancels)
  \/ \E f \in Fences : \/ offered(f) \/ accept_spec(f) \/ no_spec(f) \/ canceled(f)
                       \/ ask_again(f) \/ hand_back(f) \/ spawn(f) \/ attempt_over(f)
                       \/ abandon_leftover(f)
                       \/ \E e \in Reports : run_attempt(f, e)

\* What reaches the store from elsewhere.
Others == /\ \/ create_run(RunOf[J])
             \/ "canceled" \in Classes /\ cancel(J)
             \/ LeasesPass /\ \E f \in Fences : LeaseAges(J, f)
          /\ UNCHANGED <<netVars, ctlVars, execVars, boundVars>>

LinkNext == Connection \/ Controller \/ Executor \/ Others

LinkSpec == LinkInit /\ [][LinkNext]_linkVars

-----------------------------------------------------------------------------
(* Correctness.                                                            *)

Messages == [kind : {"ack", "decline", "abandon"}, fence : Fences]
              \cup [kind : {"report"}, fence : Fences, event : Reports]

LinkTypeOK ==
  /\ opened \in 0 .. MaxSessions /\ attached \in BOOLEAN
  /\ serving \subseteq 1 .. opened /\ closed \subseteq serving /\ peer \in 0 .. opened
  /\ \A s \in Sessions : ToSet(inbox[s]) \subseteq Messages \cup {Ping(hs) : hs \in SUBSET Fences}
  /\ ToSet(deferred) \subseteq Messages /\ Len(deferred) <= MaxDeferred
  /\ ToSet(pending) \cup ToSet(resending) \subseteq Messages
  /\ unconfirmed \in [Fences -> Verdicts \cup {NoVerdict}]
  /\ leftovers \subseteq marker /\ marker \subseteq Fences
  /\ faults \in 0 .. MaxFaults /\ crashes \in 0 .. MaxCrashes

\* Every write the link makes is a transaction of Dispatch, so what is proved of Dispatch
\* holds of the composed system.
ImplementsDispatch == Spec

\* Work that started is not handed to anyone else: while an attempt runs, its job has not
\* gone back to the queue from under it (an acknowledgement that was lost or deferred lets
\* the offer lapse, but then no spec is served). A settled cancel may overtake the spec.
StartedIsNotRequeued ==
  \A f \in Fences : exec[f].phase \in {"starting", "live"} /\ attempt[J][f].status = "lapsed" =>
    job[J].cancel

\* A report never overtakes its acknowledgement, whichever session carried either and
\* whatever was deferred: no report exists for an offer that is still unanswered.
ReportsFollowAck ==
  \A f \in Fences : attempt[J][f].status = "offered" =>
    \A m \in (UNION {ToSet(inbox[s] \o beat[s].late) : s \in Sessions}) \cup ToSet(deferred)
               \cup ToSet(pending) \cup ToSet(resending) : IsReport(m) => m.fence # f

\* Only what a dead process left is handed back, whatever sessions break meanwhile: an attempt
\* that is a leftover, or whose abandonment is on its way, is neither run nor named in a
\* heartbeat, and no report of it waits to be sent.
AbandonedIsOver ==
  \A f \in Fences :
    f \in leftovers \/ (\E s \in Sessions : Contains(inbox[s], Abandon(f))) =>
      /\ exec[f].phase = "none" /\ f \notin held
      /\ \A m \in ToSet(pending) \cup ToSet(resending) : m.fence # f

\* The controller can reach every session it serves: once registered, a session has the
\* fleet's entry until another one registers and closes it, in whichever order the threads
\* of two sessions come to register and whenever the other one's thread ends.
ServedIsListed == \A s \in serving : Arriving(s) \/ s \in closed \/ peer = s

-----------------------------------------------------------------------------
(* A claim of the documentation that does not hold.                        *)

\* Only a stale fence, a foreign attempt or a settled one makes the store refuse a report:
\* a verdict that reaches the store while its attempt is held is taken.
HeldVerdictTaken ==
  \A s \in serving : inbox[s] # <<>> =>
    LET m == Head(inbox[s])
    IN  IsVerdict(m) /\ ~holds(m.fence) /\ attempt[J][m.fence].status = "acked" => Accepts(m)

-----------------------------------------------------------------------------
(* Progress: every thread runs. The worker's session thread reconnects,    *)
(* beats and notices a dead session within the heartbeat deadline; the     *)
(* dispatch thread passes; a session thread handles what it receives; the  *)
(* worker's reader handles what it is told, and a heartbeat's answer sends *)
(* again what is due, some time or other. Breaks, store errors and         *)
(* restarts stop after their bounds.                                       *)

LinkFairness ==
  /\ WF_linkVars(connect \/ resend_pending \/ heartbeat \/ (opened \notin serving /\ detached))
  /\ WF_linkVars(Retries \/ settle_deferred \/ expired_scoped \/ expire_batch \/ lapse_due \/ send_offer)
  /\ \A s \in Sessions : WF_linkVars(SessionThread(s))
  /\ WF_linkVars(\E f \in Fences : offered(f) \/ accept_spec(f) \/ no_spec(f) \/ canceled(f))
  /\ SF_linkVars(\E stop, cancels \in SUBSET Fences : renewed(Unanswered, stop, cancels))

LinkFairSpec == LinkSpec /\ LinkFairness

\* A failure the worker has decided reaches the controller through lost connections, a full
\* or ageing deferred queue and a failing store: while the worker keeps the verdict, the
\* attempt does not stay held.
FailureArrives ==
  \A f \in Fences : unconfirmed[f] \in Classes ~> (unconfirmed[f] = NoVerdict \/ ~Held(attempt[J][f]))

\* A cancel reaches the work: pushed or not, whatever is lost on the way, an attempt that
\* runs when its job is cancelled is told so or ends.
CancelArrives ==
  \A f \in Fences : (job[J].cancel /\ Held(attempt[J][f]) /\ exec[f].phase = "live")
    ~> (exec[f].cancel \/ exec[f].phase # "live")
=============================================================================

----------------------------- MODULE LinkProofs -----------------------------
(***************************************************************************)
(* The proofs of Link. Every step of the composed system is a transaction  *)
(* of Dispatch or leaves the store alone, whatever the network, the queue  *)
(* and the executor do, so the theorems of Dispatch hold of it.            *)
(***************************************************************************)
EXTENDS Link, RowProofs

\* The worker and the job of the link are among those of the store.
LEMMA OneJobFacts == J \in Jobs /\ W \in Workers /\ RunOf[J] \in Runs
BY LinkAssumption, JobsAssumption

\* A worker's call is a step of Dispatch, for the worker and the job of this link.
LEMMA CallSteps ==
  /\ place(W, J) => Next
  /\ \A hs \in SUBSET Jobs : renew(W, hs) => Next
  /\ \A f \in Fences : /\ acknowledge(W, J, f) => Next
                       /\ decline(W, J, f) => Next
                       /\ abandon(W, J, f) => Next
                       /\ \A e \in Reports : report(W, J, f, e) => Next
BY OneJobFacts DEF Next, WorkerCalls

\* So is a sweep, a request and the passing of time.
LEMMA SweepSteps ==
  /\ \A f \in Fences : (lapse(J, f) => Next) /\ (expire(J, f) => Next) /\ (LeaseAges(J, f) => Next)
  /\ reconcile_startup => Next
  /\ create_run(RunOf[J]) => Next
  /\ cancel(J) => Next
BY OneJobFacts DEF Next, Sweeps, Requests, Time

\* What the store answers to a message of an attempt (apply, controller.rs).
LEMMA AnswerSteps ==
  ASSUME NEW f \in Fences, NEW m
  PROVE  /\ Takes(f, m) => [Next]_vars
         /\ Refuses(m) => [Next]_vars
         /\ Fails(f, m) => [Next]_vars
BY CallSteps DEF Takes, Refuses, Fails

\* Everything a session thread does to the store.
LEMMA SessionSteps == \A s \in Sessions : SessionThread(s) => [Next]_vars
<1> SUFFICES ASSUME NEW s \in Sessions, SessionThread(s) PROVE [Next]_vars
  OBVIOUS
<1>1. CASE register(s) \/ pong(s) \/ defer(s)
  BY <1>1 DEF register, pong, defer
<1>2. ASSUME NEW hs \in SUBSET Fences, ping(s, hs) PROVE [Next]_vars
  BY <1>2, CallSteps, OneJobFacts DEF ping
<1>3. ASSUME NEW f \in Fences, NEW m, receive(s, f, m) PROVE [Next]_vars
  BY <1>3, AnswerSteps DEF receive
<1>4. ASSUME NEW f \in Fences, declined(s, f) \/ abandoned(s, f) PROVE [Next]_vars
  BY <1>4, CallSteps DEF declined, abandoned
<1> QED BY <1>1, <1>2, <1>3, <1>4 DEF SessionThread

\* Everything the dispatch thread, the resolvers and a restart do to the store.
LEMMA ControllerSteps == Controller => [Next]_vars
<1> SUFFICES ASSUME Controller PROVE [Next]_vars
  OBVIOUS
<1>1. ASSUME NEW f \in Fences, resolve_spec(f) PROVE [Next]_vars
  BY <1>1, CallSteps DEF resolve_spec
<1>2. ASSUME NEW f \in Fences, cancel_push(f) PROVE [Next]_vars
  BY <1>2 DEF cancel_push
<1>3. ASSUME NEW f \in Fences, NEW m, retry_deferred(f, m) PROVE [Next]_vars
  BY <1>3, AnswerSteps DEF retry_deferred
<1>4. CASE settle_deferred \/ expired_scoped \/ deferred_attempts
  BY <1>4 DEF settle_deferred, expired_scoped, deferred_attempts
<1>5. CASE expire_batch
  BY <1>5, SweepSteps DEF expire_batch
<1>6. CASE lapse_due
  BY <1>6, SweepSteps DEF lapse_due
<1>7. CASE placement_pass
  BY <1>7, CallSteps DEF placement_pass
<1>8. CASE send_offer
  BY <1>8, SweepSteps DEF send_offer
<1>9. CASE controller_restarts
  BY <1>9, SweepSteps DEF controller_restarts
<1> QED
  BY <1>1, <1>2, <1>3, <1>4, <1>5, <1>6, <1>7, <1>8, <1>9, SessionSteps DEF Controller, Retries

\* The worker writes nothing to the store: it has only messages.
LEMMA WorkerSteps == (Connection \/ Executor) => UNCHANGED vars
<1>1. Connection => UNCHANGED vars
  BY DEF Connection, connect, detached, session_ends
<1>2. ASSUME NEW due, NEW stop, NEW cancels, renewed(due, stop, cancels) PROVE UNCHANGED vars
  BY <1>2 DEF renewed
<1>3. ASSUME NEW f, NEW e,
             \/ offered(f) \/ accept_spec(f) \/ no_spec(f) \/ canceled(f)
             \/ ask_again(f) \/ hand_back(f) \/ spawn(f) \/ attempt_over(f)
             \/ abandon_leftover(f) \/ run_attempt(f, e)
      PROVE  UNCHANGED vars
  BY <1>3 DEF offered, accept_spec, no_spec, canceled, ask_again, hand_back, spawn, attempt_over,
              abandon_leftover, run_attempt
<1>4. resend_pending \/ heartbeat \/ lease_lost \/ worker_restarts => UNCHANGED vars
  BY DEF resend_pending, heartbeat, lease_lost, worker_restarts
<1> QED BY <1>1, <1>2, <1>3, <1>4 DEF Executor

\* The composed system makes only transactions of Dispatch: no interleaving of sessions,
\* deferred messages, sweeps and restarts writes anything the store would not.
THEOREM LinkImplementsDispatch == LinkSpec => ImplementsDispatch
<1>1. LinkInit => Init
  BY DEF LinkInit
<1>2. [LinkNext]_linkVars => [Next]_vars
  <2> SUFFICES ASSUME [LinkNext]_linkVars PROVE [Next]_vars
    OBVIOUS
  <2>1. CASE Connection \/ Executor
    BY <2>1, WorkerSteps
  <2>2. CASE Controller
    BY <2>2, ControllerSteps
  <2>3. CASE Others
    BY <2>3, SweepSteps DEF Others
  <2>4. CASE UNCHANGED linkVars
    BY <2>4 DEF linkVars
  <2> QED BY <2>1, <2>2, <2>3, <2>4 DEF LinkNext
<1> QED BY <1>1, <1>2, PTL DEF LinkSpec, ImplementsDispatch, Spec

\* So, with connections that break and a store that fails for now, the attempt is still the
\* reservation: a job on a worker has one unreleased attempt, under its fence.
THEOREM LinkKeepsReservations == LinkSpec => []HeldIffOwned
BY LinkImplementsDispatch, ReservationCorrect, PTL DEF ImplementsDispatch

\* Whatever the link loses, delivers late or says twice: every job has one owner at a time and
\* takes the steps of JobOwnership, the two refinements put together.
THEOREM LinkImplementsOwnership == LinkSpec => ImplementsOwnership
BY LinkImplementsDispatch, DispatchImplementsOwnership, PTL DEF ImplementsDispatch

\* Over the link too, work that may have begun is not placed again and no attempt's row goes
\* back: a resent report, a retried write or a reconciliation finds the row as it was left.
THEOREM LinkReplaysNothing == LinkSpec => NeverReplayed /\ AttemptsOnlyAdvance
BY LinkImplementsDispatch, WorkIsNeverReplayed, AttemptsNeverGoBack, PTL DEF ImplementsDispatch

-----------------------------------------------------------------------------
(* Sessions. The fleet's entry is that of a session whose thread runs, has *)
(* registered and was not closed since: so what a registration finds there *)
(* is what it closes, and the end of a session takes only its own entry.   *)

\* The sessions whose thread has yet to register them.
Awaited == {s \in Sessions : Arriving(s)}

sessionVars == <<opened, serving, closed, peer, Awaited>>

Listed ==
  /\ peer # 0 => peer \in serving /\ ~Arriving(peer) /\ peer \notin closed
  /\ \A s \in closed : ~Arriving(s)

SessionInv ==
  /\ opened \in 0 .. MaxSessions /\ serving \subseteq 1 .. opened /\ closed \subseteq serving
  /\ beat = [s \in Sessions |-> beat[s]]
  /\ Listed /\ ServedIsListed

\* A session thread that goes from one message to the next registers nothing.
LEMMA ThreadsStayRegistered ==
  ASSUME SessionInv, NEW s \in Sessions, NEW b, ~Arriving(s), b.doing # "arrive",
         beat' = [beat EXCEPT ![s] = b]
  PROVE  Awaited' = Awaited /\ beat' = [t \in Sessions |-> beat'[t]]
<1>1. beat = [t \in Sessions |-> beat[t]]
  BY DEF SessionInv
<1>2. \A t \in Sessions : beat'[t] = IF t = s THEN b ELSE beat[t]
  BY <1>1
<1>3. beat' = [t \in Sessions |-> beat'[t]]
  BY <1>1
<1> QED BY <1>2, <1>3 DEF Awaited, Arriving

\* Handling a message, in either direction, opens and closes no session (serve, handle).
LEMMA HandlersKeepSessions ==
  ASSUME NEW f, NEW m, NEW e, NEW due, NEW stop, NEW cancels,
         \/ resolve_spec(f) \/ cancel_push(f)
         \/ retry_deferred(f, m) \/ settle_deferred
         \/ expired_scoped \/ expire_batch \/ deferred_attempts \/ lapse_due
         \/ placement_pass \/ send_offer
         \/ resend_pending \/ heartbeat \/ lease_lost \/ worker_restarts
         \/ renewed(due, stop, cancels)
         \/ offered(f) \/ accept_spec(f) \/ no_spec(f) \/ canceled(f)
         \/ ask_again(f) \/ hand_back(f) \/ spawn(f) \/ attempt_over(f)
         \/ abandon_leftover(f) \/ run_attempt(f, e)
  PROVE  UNCHANGED <<opened, serving, closed, peer, beat>>
<1>2. CASE resolve_spec(f) \/ cancel_push(f) \/ send_offer
  BY <1>2 DEF resolve_spec, cancel_push, send_offer, netVars, ctlVars
<1>8. CASE retry_deferred(f, m) \/ settle_deferred
  BY <1>8 DEF retry_deferred, settle_deferred, netVars, ctlVars
<1>3. CASE expired_scoped \/ expire_batch \/ deferred_attempts \/ lapse_due \/ placement_pass
  BY <1>3 DEF expired_scoped, expire_batch, deferred_attempts, lapse_due, placement_pass,
              netVars, ctlVars
<1>4. CASE resend_pending \/ heartbeat \/ lease_lost \/ worker_restarts
  <2>1. CASE resend_pending \/ heartbeat \/ worker_restarts
    BY <2>1 DEF resend_pending, heartbeat, worker_restarts, ctlVars
  <2>2. CASE lease_lost
    BY <2>2 DEF lease_lost, netVars, ctlVars
  <2> QED BY <1>4, <2>1, <2>2
<1>5. CASE renewed(due, stop, cancels)
  BY <1>5 DEF renewed, ctlVars
<1>6. CASE offered(f) \/ accept_spec(f) \/ no_spec(f) \/ canceled(f) \/ hand_back(f)
  BY <1>6 DEF offered, accept_spec, no_spec, canceled, hand_back, ctlVars
<1>7. CASE ask_again(f) \/ spawn(f) \/ attempt_over(f) \/ abandon_leftover(f) \/ run_attempt(f, e)
  BY <1>7 DEF ask_again, spawn, attempt_over, abandon_leftover, run_attempt, netVars, ctlVars
<1> QED BY <1>2, <1>3, <1>4, <1>5, <1>6, <1>7, <1>8

\* A session thread registers its own session, which closes the one it finds in the fleet, and
\* otherwise touches neither the fleet nor another thread.
LEMMA ThreadsKeepSessions ==
  ASSUME SessionInv, NEW s \in Sessions, SessionThread(s), ~register(s)
  PROVE  UNCHANGED sessionVars /\ beat' = [t \in Sessions |-> beat'[t]]
<1>0. NoBeat.doing # "arrive" /\ beat = [t \in Sessions |-> beat[t]]
  BY DEF NoBeat, SessionInv
<1>1. CASE pong(s) \/ defer(s)
  <2>1. UNCHANGED <<opened, serving, closed, peer>> /\ beat' = [beat EXCEPT ![s] = NoBeat]
        /\ beat[s].doing \in {"ping", "defer"}
    BY <1>1 DEF pong, defer, netVars
  <2>2. ~Arriving(s)
    BY <2>1 DEF Arriving
  <2> QED BY <1>0, <2>1, <2>2, ThreadsStayRegistered DEF sessionVars
<1>2. ASSUME NEW hs, ping(s, hs) PROVE UNCHANGED sessionVars /\ beat' = [t \in Sessions |-> beat'[t]]
  <2> DEFINE b == [NoBeat EXCEPT !.doing = "ping", !.held = hs, !.stop = {f \in hs : ~Renewable(f)}]
  <2>1. UNCHANGED <<opened, serving, closed, peer>> /\ beat' = [beat EXCEPT ![s] = b] /\ beat[s] = NoBeat
    BY <1>2 DEF ping, Turn
  <2>2. b.doing # "arrive" /\ ~Arriving(s)
    BY <1>0, <2>1 DEF Arriving, NoBeat
  <2> HIDE DEF b
  <2> QED BY <2>1, <2>2, ThreadsStayRegistered DEF sessionVars
<1>3. ASSUME NEW f, NEW m, receive(s, f, m) PROVE UNCHANGED sessionVars /\ beat' = [t \in Sessions |-> beat'[t]]
  <2> DEFINE b == [NoBeat EXCEPT !.doing = "defer", !.late = <<m>>]
  <2>1. /\ UNCHANGED <<opened, serving, closed, peer>> /\ beat[s] = NoBeat
        /\ beat' = [beat EXCEPT ![s] = b] \/ beat' = beat
    BY <1>3 DEF receive, Turn
  <2>2. b.doing # "arrive" /\ ~Arriving(s)
    BY <1>0, <2>1 DEF Arriving, NoBeat
  <2> HIDE DEF b
  <2>3. CASE beat' = beat
    BY <1>0, <2>1, <2>3 DEF sessionVars, Awaited, Arriving
  <2> QED BY <2>1, <2>2, <2>3, ThreadsStayRegistered DEF sessionVars
<1>4. ASSUME NEW f, declined(s, f) \/ abandoned(s, f)
      PROVE  UNCHANGED sessionVars /\ beat' = [t \in Sessions |-> beat'[t]]
  <2>1. UNCHANGED <<opened, serving, closed, peer, beat>>
    BY <1>4 DEF declined, abandoned, ctlVars
  <2> QED BY <1>0, <2>1 DEF sessionVars, Awaited, Arriving
<1> QED BY <1>1, <1>2, <1>3, <1>4 DEF SessionThread

\* The account of the fleet, step by step.
LEMMA FleetSteps ==
  ASSUME SessionInv, [LinkNext]_linkVars
  PROVE  SessionInv'
<1>0. /\ opened \in 0 .. MaxSessions /\ MaxSessions \in Nat /\ serving \subseteq 1 .. opened
      /\ closed \subseteq serving /\ beat = [s \in Sessions |-> beat[s]]
      /\ Sessions = 1 .. MaxSessions
  BY LinkAssumption DEF SessionInv, Sessions
<1>a. Listed /\ ServedIsListed
  BY DEF SessionInv
<1>b. \A s \in serving : s \in Sessions
  BY <1>0
<1>1. CASE connect
  <2> DEFINE b == [NoBeat EXCEPT !.doing = "arrive"]
  <2>0. PICK n \in Nat : n = opened + 1
    BY <1>0
  <2>1. /\ opened < MaxSessions /\ opened' = n /\ serving' = serving \cup {n}
        /\ beat' = [beat EXCEPT ![n] = b] /\ UNCHANGED <<closed, peer>>
    BY <1>1, <2>0 DEF connect
  <2>2. n \in Sessions /\ n \notin serving /\ n \in 0 .. MaxSessions /\ 1 .. opened \subseteq 1 .. n
        /\ n \in 1 .. n
    BY <1>0, <2>0, <2>1
  <2>3. b.doing = "arrive"
    BY DEF NoBeat
  <2> HIDE DEF b
  <2>4. /\ beat' = [s \in Sessions |-> beat'[s]] /\ beat'[n].doing = "arrive"
        /\ \A s \in Sessions : s # n => beat'[s] = beat[s]
    BY <1>0, <2>1, <2>2, <2>3
  <2>5. opened' \in 0 .. MaxSessions /\ serving' \subseteq 1 .. opened' /\ closed' \subseteq serving'
    BY <1>0, <2>1, <2>2
  <2>6. \A s \in serving : Arriving(s)' = Arriving(s)
    BY <1>b, <2>2, <2>4 DEF Arriving
  <2>7. Listed'
    BY <1>0, <1>a, <2>1, <2>2, <2>6 DEF Listed
  <2>8. Arriving(n)'
    BY <2>4 DEF Arriving
  <2>9. ServedIsListed'
    BY <1>a, <2>1, <2>6, <2>8 DEF ServedIsListed
  <2> QED BY <2>4, <2>5, <2>7, <2>9 DEF SessionInv
<1>2. CASE detached
  <2>1. UNCHANGED <<opened, serving, closed, peer, beat>>
    BY <1>2 DEF detached, ctlVars
  <2> QED BY <2>1 DEF SessionInv, Listed, ServedIsListed, Awaited, Arriving
<1>3. ASSUME NEW s \in Sessions, session_ends(s) PROVE SessionInv'
  <2>1. /\ serving' = serving \ {s} /\ closed' = closed \ {s} /\ beat' = [beat EXCEPT ![s] = NoBeat]
        /\ peer' = (IF peer = s THEN 0 ELSE peer) /\ opened' = opened
    BY <1>3 DEF session_ends, unregister
  <2>2. beat' = [t \in Sessions |-> beat'[t]] /\ \A t \in Sessions : t # s => beat'[t] = beat[t]
    BY <1>0, <2>1
  <2>3. \A t \in serving' : Arriving(t)' = Arriving(t)
    BY <1>b, <2>1, <2>2 DEF Arriving
  <2>4. Listed'
    BY <1>0, <1>a, <2>1, <2>3 DEF Listed
  <2>5. ServedIsListed'
    BY <1>a, <2>1, <2>3 DEF ServedIsListed
  <2>6. serving' \subseteq 1 .. opened' /\ closed' \subseteq serving'
    BY <1>0, <2>1
  <2> QED BY <1>0, <2>1, <2>2, <2>4, <2>5, <2>6 DEF SessionInv
<1>4. ASSUME NEW s \in Sessions, register(s) PROVE SessionInv'
  <2>1. /\ s \in serving /\ Arriving(s) /\ beat' = [beat EXCEPT ![s] = NoBeat] /\ peer' = s
        /\ closed' = closed \cup ({peer} \ {0}) /\ UNCHANGED <<opened, serving>>
    BY <1>4 DEF register
  <2>2. /\ beat' = [t \in Sessions |-> beat'[t]] /\ \A t \in Sessions : t # s => beat'[t] = beat[t]
        /\ beat'[s] = NoBeat
    BY <1>0, <2>1
  <2>3. ~Arriving(s)' /\ \A t \in serving : t # s => Arriving(t)' = Arriving(t)
    BY <1>b, <2>2 DEF Arriving, NoBeat
  <2>4. peer # s /\ s # 0
    BY <1>0, <1>a, <2>1 DEF Listed
  <2>5. closed' \subseteq serving'
    BY <1>0, <1>a, <2>1 DEF Listed
  <2>6. s \notin closed
    BY <1>a, <2>1 DEF Listed
  <2>7. Listed'
    BY <1>0, <1>a, <2>1, <2>3, <2>4, <2>6 DEF Listed
  <2>8. ServedIsListed'
    BY <1>a, <1>0, <2>1, <2>3 DEF ServedIsListed, Listed
  <2> QED BY <1>0, <2>1, <2>2, <2>5, <2>7, <2>8 DEF SessionInv
<1>5. CASE controller_restarts
  <2>1. /\ serving' = {} /\ closed' = {} /\ peer' = 0 /\ beat' = [t \in Sessions |-> NoBeat] /\ opened' = opened
    BY <1>5 DEF controller_restarts
  <2> QED BY <1>0, <2>1 DEF SessionInv, Listed, ServedIsListed
<1>6. CASE Others \/ UNCHANGED linkVars
  <2>1. UNCHANGED <<opened, serving, closed, peer, beat>>
    BY <1>6 DEF Others, linkVars, netVars, ctlVars
  <2> QED BY <2>1 DEF SessionInv, Listed, ServedIsListed, Awaited, Arriving
<1>7. CASE UNCHANGED <<opened, serving, closed, peer, beat>>
  BY <1>7 DEF SessionInv, Listed, ServedIsListed, Awaited, Arriving
<1>8. CASE UNCHANGED sessionVars /\ beat' = [t \in Sessions |-> beat'[t]]
  <2>1. \A t \in serving : Arriving(t)' = Arriving(t)
    BY <1>b, <1>8 DEF sessionVars, Awaited, Arriving
  <2>2. UNCHANGED <<opened, serving, closed, peer>>
    BY <1>8 DEF sessionVars
  <2>3. Listed' /\ ServedIsListed'
    BY <1>0, <1>a, <2>1, <2>2 DEF Listed, ServedIsListed
  <2> QED BY <1>0, <1>8, <2>2, <2>3 DEF SessionInv
<1>9. ASSUME NEW s \in Sessions, SessionThread(s) PROVE SessionInv'
  BY <1>9, <1>4, <1>8, ThreadsKeepSessions
<1>10. CASE Controller
  BY <1>10, <1>5, <1>7, <1>9, HandlersKeepSessions DEF Controller, Retries
<1>11. CASE Executor
  BY <1>11, <1>7, HandlersKeepSessions DEF Executor
<1> QED BY <1>1, <1>2, <1>3, <1>6, <1>10, <1>11 DEF LinkNext, Connection

\* The account of the fleet holds throughout.
LEMMA FleetInvariant == LinkSpec => []SessionInv
<1>1. LinkInit => SessionInv
  BY LinkAssumption DEF LinkInit, SessionInv, Listed, ServedIsListed
<1> QED BY <1>1, FleetSteps, PTL DEF LinkSpec

\* In whichever order the threads of two sessions come to register, and whichever ends first,
\* a session that is served, has registered and was not closed by a later registration is the
\* one the fleet's entry names (register, unregister).
THEOREM ServedSessionsAreListed == LinkSpec => []ServedIsListed
<1>1. SessionInv => ServedIsListed
  BY DEF SessionInv
<1> QED BY <1>1, FleetInvariant, PTL

-----------------------------------------------------------------------------
(* What the link's transactions leave of the job's attempts. Only a        *)
(* placement writes a new row and moves the fence; nothing takes an        *)
(* acknowledged attempt back to the queue except a decline of that attempt.*)

Written(f) == attempt[J][f].status # "none"
Past(f)    == attempt[J][f].status \notin {"none", "offered"}

\* The store as a step leaves it that places nothing. fs: the attempts it may take back.
StoreKept(fs) ==
  /\ worker' = worker /\ job'[J].fence = job[J].fence
  /\ job[J].cancel => job'[J].cancel
  /\ \A f \in Fences :
       /\ attempt'[J][f].worker = attempt[J][f].worker
       /\ Written(f) <=> Written(f)'
       /\ Past(f) => Past(f)'
       /\ f \notin fs /\ Past(f) /\ attempt'[J][f].status = "lapsed" => attempt[J][f].status = "lapsed"

\* What the lemmas on rows say of the attempts of this job.
LEMMA KeptFromRows ==
  ASSUME IInv, NothingGranted, AttemptsAdvance, worker' = worker, NEW fs,
         job[J].cancel => job'[J].cancel,
         \A f \in Fences \ fs : Past(f) /\ attempt'[J][f].status = "lapsed"
                                  => attempt[J][f].status = "lapsed"
  PROVE  StoreKept(fs)
<1>1. job'[J].fence = job[J].fence /\ \A f \in Fences : attempt'[J][f].worker = attempt[J][f].worker
  BY OneJobFacts DEF NothingGranted, RowsKept, AttemptsKept
<1>2. ASSUME NEW f \in Fences PROVE (Written(f) <=> Written(f)') /\ (Past(f) => Past(f)')
  <2>1. Advance(attempt[J][f], attempt'[J][f])
    BY OneJobFacts DEF AttemptsAdvance
  <2> QED BY <2>1 DEF Advance, StatusRank, Written, Past
<1> QED BY <1>1, <1>2 DEF StoreKept

\* A step that leaves the store alone.
LEMMA KeptAtRest == UNCHANGED vars => StoreKept({})
BY DEF vars, StoreKept, Written, Past

\* Handing back: the attempt of the fence, and no other.
LEMMA GiveBackStore ==
  ASSUME IInv, NEW f \in Fences, give_back(J, f)
  PROVE  /\ StoreKept({f})
         /\ attempt'[J][f].status = "lapsed"
         /\ attempt[J][f].status = "offered" => StoreKept({})
<1>0. J \in Jobs /\ TypeOK /\ job[J] \in Job /\ job \in [Jobs -> Job] /\ attempt \in [Jobs -> [Fences -> Attempt]]
  BY OneJobFacts DEF IInv, TypeOK
<1>1. NothingGranted /\ AttemptsAdvance /\ worker' = worker
  BY <1>0, GiveBackKept, GiveBackAdvances DEF give_back
<1>2. job'[J].cancel = job[J].cancel
  <2> DEFINE row == Returned(job[J])
             jb  == [job EXCEPT ![J] = row]
  <2>1. row \in Job /\ row.cancel = job[J].cancel
    BY <1>0, ReturnedType
  <2>2. release_dependents(jb, run, {RunOf[J]}) \/ job' = jb
    BY <1>0 DEF give_back
  <2> HIDE DEF row
  <2>3. jb \in [Jobs -> Job] /\ jb[J].cancel = job[J].cancel
    BY <1>0, <2>1
  <2> HIDE DEF jb
  <2> QED BY <1>0, <2>2, <2>3, ReleaseEffect
<1>3. \A g \in Fences : g # f => attempt'[J][g] = attempt[J][g]
  BY <1>0 DEF give_back
<1>4. attempt'[J][f].status = "lapsed"
  BY <1>0, ClosedType DEF give_back
<1> QED BY <1>1, <1>2, <1>3, <1>4, KeptFromRows DEF Past

\* An event on a held attempt ends it as finished, or leaves its row alone.
LEMMA FinishStore ==
  ASSUME IInv, NEW f \in Fences, NEW actor, NEW event, event # "leased",
         NEW lost \in BOOLEAN, \E ended \in Ends(J) : finish(J, f, actor, event, ended, lost)
  PROVE  StoreKept({})
<1>1. PICK ended \in BOOLEAN : finish(J, f, actor, event, ended, lost)
  BY DEF Ends
<1>0. J \in Jobs /\ TypeOK /\ job[J] \in Job /\ job \in [Jobs -> Job] /\ attempt \in [Jobs -> [Fences -> Attempt]]
  BY OneJobFacts DEF IInv, TypeOK
<1>2. NothingGranted /\ AttemptsAdvance /\ worker' = worker
  BY <1>0, <1>1, FinishKept, FinishAdvances DEF finish
<1>3. job'[J].cancel = job[J].cancel
  <2> DEFINE e   == IF event = "passed" /\ lost THEN "publication" ELSE event
             row == Apply(job[J], e, f)
             jb  == [job EXCEPT ![J] = row]
  <2>0. f \in 0 .. MaxFence
    BY SizesAssumption DEF Fences
  <2>1. row \in Job /\ row.cancel = job[J].cancel
    BY <1>0, <2>0, ApplyType
  <2>2. release_dependents(jb, run, {RunOf[J]}) \/ job' = jb
    BY <1>0, <1>1 DEF finish
  <2> HIDE DEF row
  <2>3. jb \in [Jobs -> Job] /\ jb[J].cancel = job[J].cancel
    BY <1>0, <2>1
  <2> HIDE DEF jb
  <2> QED BY <1>0, <2>2, <2>3, ReleaseEffect
<1>4. ASSUME NEW g \in Fences
      PROVE  attempt'[J][g] = attempt[J][g] \/ attempt'[J][g].status = "finished"
  <2>1. \/ attempt' = [attempt EXCEPT ![J][f] = Closed(attempt[J][f], "finished", ended)]
        \/ attempt' = attempt
    BY <1>0, <1>1 DEF finish
  <2>2. Closed(attempt[J][f], "finished", ended).status = "finished"
    BY <1>0, ClosedType
  <2> QED BY <1>0, <2>1, <2>2
<1> QED BY <1>2, <1>3, <1>4, KeptFromRows

\* The startup sweep takes back only what was never acknowledged.
LEMMA StartupStore ==
  ASSUME IInv, reconcile_startup
  PROVE  StoreKept({})
<1>0. J \in Jobs /\ TypeOK /\ job[J] \in Job /\ job \in [Jobs -> Job] /\ attempt \in [Jobs -> [Fences -> Attempt]]
  BY OneJobFacts DEF IInv, TypeOK
<1>1. PICK D \in SUBSET Jobs : \E fate \in [D -> {"lease_expired", "reconciled", "offer_lapsed"}] :
             /\ \A j \in D : fate[j] = "offer_lapsed" =>
                  \E f \in Fences : attempt[j][f].status = "offered"
             /\ \E ended : settle(fate, ended)
  BY SettledSets
<1>2. PICK fate \in [D -> {"lease_expired", "reconciled", "offer_lapsed"}] :
             /\ \A j \in D : fate[j] = "offer_lapsed" =>
                  \E f \in Fences : attempt[j][f].status = "offered"
             /\ \E ended : settle(fate, ended)
  BY <1>1
<1>3. PICK ended : settle(fate, ended)
  BY <1>2
<1>4. NothingGranted /\ AttemptsAdvance /\ worker' = worker
  BY <1>0, <1>3, SettleKept, SettleAdvances DEF settle
<1>5. job'[J].cancel = job[J].cancel
  <2> DEFINE jb == [j \in Jobs |-> IF j \notin DOMAIN fate THEN job[j]
                                   ELSE IF fate[j] = "offer_lapsed" THEN Returned(job[j])
                                   ELSE Apply(job[j], fate[j], 0)]
             rs == {RunOf[j] : j \in {k \in DOMAIN fate : jb[k].state \in Terminal}}
  <2>1. release_dependents(jb, run, rs)
    BY <1>3 DEF settle
  <2>2. ASSUME NEW j \in Jobs PROVE jb[j] \in Job /\ jb[j].cancel = job[j].cancel
    BY <1>0, ReturnedType, ApplyType, SizesAssumption
  <2>3. jb \in [Jobs -> Job] /\ jb[J].cancel = job[J].cancel
    BY <1>0, <2>2
  <2> HIDE DEF jb, rs
  <2> QED BY <1>0, <2>1, <2>3, ReleaseEffect
<1>6. ASSUME NEW f \in Fences, Past(f), attempt'[J][f].status = "lapsed"
      PROVE  attempt[J][f].status = "lapsed"
  <2> DEFINE h == IF fate[J] = "offer_lapsed" THEN "lapsed" ELSE "finished"
             b == J \in ended
  <2>1. \/ J \in D /\ Held(attempt[J][f]) /\ attempt'[J][f] = Closed(attempt[J][f], h, b)
        \/ attempt'[J][f] = attempt[J][f]
    BY <1>0, <1>3 DEF settle
  <2>2. h \in {"lapsed", "finished"} /\ b \in BOOLEAN /\ attempt[J][f] \in Attempt
    BY <1>0
  <2>3. J \in D /\ h = "lapsed" => \E g \in Fences : attempt[J][g].status = "offered"
    BY <1>2
  <2> HIDE DEF h, b
  <2>4. CASE J \in D /\ Held(attempt[J][f]) /\ attempt'[J][f] = Closed(attempt[J][f], h, b)
    <3>1. h = "lapsed"
      BY <1>6, <2>2, <2>4, ClosedType
    <3>2. PICK g \in Fences : attempt[J][g].status = "offered"
      BY <2>3, <2>4, <3>1
    <3>3. g = f
      BY <1>0, <2>4, <3>2 DEF IInv, Sound, Reserves, Held
    <3> QED BY <1>6, <3>2, <3>3 DEF Past
  <2> QED BY <1>6, <2>1, <2>4
<1> QED BY <1>4, <1>5, <1>6, KeptFromRows

\* What the other calls and the passing of time leave.
LEMMA CallStore ==
  ASSUME IInv,
         \/ \E f \in Fences : acknowledge(W, J, f) \/ LeaseAges(J, f)
         \/ \E hs \in SUBSET Jobs : renew(W, hs)
         \/ create_run(RunOf[J]) \/ cancel(J)
  PROVE  StoreKept({})
<1>0. J \in Jobs /\ RunOf[J] \in Runs /\ attempt \in [Jobs -> [Fences -> Attempt]] /\ job[J] \in Job
  BY OneJobFacts DEF IInv, TypeOK
<1>1. ASSUME NEW f \in Fences, acknowledge(W, J, f) PROVE StoreKept({})
  <2>1. NothingGranted /\ AttemptsAdvance /\ worker' = worker /\ job' = job
    BY <1>0, <1>1, AttemptStepsKept, AttemptStepsAdvance DEF acknowledge
  <2>2. \A g \in Fences : attempt'[J][g].status \in {attempt[J][g].status, "acked"}
    BY <1>0, <1>1 DEF acknowledge, Attempt
  <2> QED BY <2>1, <2>2, KeptFromRows
<1>2. ASSUME NEW f \in Fences, LeaseAges(J, f) PROVE StoreKept({})
  <2>1. NothingGranted /\ AttemptsAdvance /\ worker' = worker /\ job' = job
    BY <1>0, <1>2, AttemptStepsKept, AttemptStepsAdvance DEF LeaseAges
  <2>2. \A g \in Fences : attempt'[J][g].status = attempt[J][g].status
    BY <1>0, <1>2 DEF LeaseAges, Attempt
  <2> QED BY <2>1, <2>2, KeptFromRows
<1>3. ASSUME NEW hs \in SUBSET Jobs, renew(W, hs) PROVE StoreKept({})
  <2>1. NothingGranted /\ AttemptsAdvance /\ worker' = worker /\ job' = job
    BY <1>0, <1>3, RenewKept, RenewAdvances DEF renew
  <2>2. ASSUME NEW g \in Fences PROVE attempt'[J][g].status = attempt[J][g].status
    <3>1. attempt[J][g] \in Attempt
      BY <1>0
    <3>2. attempt'[J][g] \in {attempt[J][g], [attempt[J][g] EXCEPT !.left = LeaseTicks]}
      BY <1>0, <1>3 DEF renew
    <3> QED BY <3>1, <3>2 DEF Attempt
  <2> QED BY <2>1, <2>2, KeptFromRows
<1>4. CASE create_run(RunOf[J])
  <2>1. NothingGranted /\ worker' = worker /\ attempt' = attempt
    BY <1>0, <1>4, CreateRunKept DEF IInv, create_run
  <2>2. ~job[J].cancel
    <3>1. run[RunOf[J]].created = 0
      BY <1>0, <1>4 DEF create_run, Exists, IInv, TypeOK, Run
    <3> QED BY <1>0, <3>1 DEF IInv, Sound, Waiting
  <2> QED BY <2>1, <2>2, AttemptsAtRest, KeptFromRows
<1>5. CASE cancel(J)
  <2>1. NothingGranted
    BY <1>0, <1>5, RequestsKept DEF Requests
  <2>2. worker' = worker /\ attempt' = attempt /\ ~job[J].cancel
    BY <1>5 DEF cancel
  <2> QED BY <2>1, <2>2, AttemptsAtRest, KeptFromRows
<1> QED BY <1>1, <1>2, <1>3, <1>4, <1>5

\* What the store answers to a message of an attempt, and its sweeps.
LEMMA AnswerStore ==
  ASSUME IInv, NEW f \in Fences, NEW m,
         \/ Takes(f, m) \/ Refuses(m) \/ Fails(f, m)
         \/ abandon(W, J, f) \/ lapse(J, f) \/ expire(J, f)
  PROVE  StoreKept({})
<1>1. CASE lapse(J, f)
  BY <1>1, GiveBackStore DEF lapse
<1>2. CASE expire(J, f)
  BY <1>2, FinishStore DEF expire
<1>3. CASE abandon(W, J, f)
  BY <1>1, <1>3, FinishStore DEF abandon
<1>4. ASSUME NEW e \in Reports, report(W, J, f, e) PROVE StoreKept({})
  <2> DEFINE ev == IF e = "canceled" /\ ~job[J].cancel THEN "runtime" ELSE e
  <2>1. PICK lost \in BOOLEAN : \E ended \in Ends(J) : finish(J, f, "worker", ev, ended, lost)
    BY <1>4 DEF report
  <2>2. ev # "leased"
    BY JobsAssumption DEF Reports, WorkerClass
  <2> HIDE DEF ev
  <2> QED BY <2>1, <2>2, FinishStore
<1>5. CASE Takes(f, m)
  BY <1>4, <1>5, CallStore, KeptAtRest DEF Takes
<1> QED BY <1>1, <1>2, <1>3, <1>5, KeptAtRest DEF Refuses, Fails

-----------------------------------------------------------------------------
(* Connections and queues, as sequences of messages.                       *)

Inbound    == Messages \cup {Ping(hs) : hs \in SUBSET Fences}
Outbound   == [kind : {"offer", "spec", "no_spec", "cancel"}, fence : Fences]
                \cup [kind : {"pong"}, stop : SUBSET Fences, cancel : SUBSET Fences]
ReportMsgs == [kind : {"report"}, fence : Fences, event : Reports]
Phases     == {"none", "awaiting", "declining", "starting", "live"}
Flag       == BOOLEAN
Beats      == [doing : {"none", "arrive", "ping", "defer"}, held : SUBSET Fences, stop : SUBSET Fences,
               late : Seq(Messages)]
Nexts      == {"none", "preparation_started", "prepare", "execute", "finalize", "over"}
Execs      == [phase : Phases, next : Nexts, cancel : Flag, lost : Flag]

\* What is in a sequence of messages after each of the operations on it.
LEMMA SeqFacts ==
  ASSUME NEW S, NEW q \in Seq(S)
  PROVE  /\ ToSet(q) \subseteq S
         /\ <<>> \in Seq(S) /\ ToSet(<<>>) = {}
         /\ \A r \in Seq(S) : q \o r \in Seq(S) /\ ToSet(q \o r) = ToSet(q) \cup ToSet(r)
         /\ \A m \in S : /\ <<m>> \in Seq(S) /\ ToSet(<<m>>) = {m}
                         /\ Append(q, m) \in Seq(S) /\ ToSet(Append(q, m)) = ToSet(q) \cup {m}
         /\ q # <<>> => /\ Tail(q) \in Seq(S) /\ ToSet(Tail(q)) \subseteq ToSet(q)
                        /\ Head(q) \in ToSet(q) /\ Head(q) \in S
<1>1. ToSet(q) \subseteq S
  BY DEF ToSet
<1>2. <<>> \in Seq(S) /\ ToSet(<<>>) = {}
  BY DEF ToSet
<1>3. ASSUME NEW r \in Seq(S) PROVE q \o r \in Seq(S) /\ ToSet(q \o r) = ToSet(q) \cup ToSet(r)
  <2>1. q \o r \in Seq(S) /\ Len(q \o r) = Len(q) + Len(r) /\ Len(q) \in Nat /\ Len(r) \in Nat
    OBVIOUS
  <2>2. ToSet(q \o r) \subseteq ToSet(q) \cup ToSet(r)
    BY <2>1 DEF ToSet
  <2>3. ToSet(q) \subseteq ToSet(q \o r)
    BY <2>1 DEF ToSet
  <2>4. ASSUME NEW i \in DOMAIN r PROVE r[i] \in ToSet(q \o r)
    <3>1. i + Len(q) \in DOMAIN (q \o r) /\ (q \o r)[i + Len(q)] = r[i]
      BY <2>1
    <3> QED BY <3>1 DEF ToSet
  <2> QED BY <2>1, <2>2, <2>3, <2>4 DEF ToSet
<1>4. ASSUME NEW m \in S
      PROVE  /\ <<m>> \in Seq(S) /\ ToSet(<<m>>) = {m}
             /\ Append(q, m) \in Seq(S) /\ ToSet(Append(q, m)) = ToSet(q) \cup {m}
  <2>1. <<m>> \in Seq(S) /\ ToSet(<<m>>) = {m}
    BY DEF ToSet
  <2>2. Append(q, m) = q \o <<m>>
    OBVIOUS
  <2> QED BY <1>3, <2>1, <2>2
<1>5. ASSUME q # <<>>
      PROVE  /\ Tail(q) \in Seq(S) /\ ToSet(Tail(q)) \subseteq ToSet(q)
             /\ Head(q) \in ToSet(q) /\ Head(q) \in S
  <2>1. Len(q) \in Nat /\ Len(q) >= 1 /\ DOMAIN q = 1 .. Len(q)
    BY <1>5
  <2>2. Head(q) = q[1] /\ 1 \in DOMAIN q
    BY <2>1
  <2>3. /\ Tail(q) \in Seq(S) /\ DOMAIN Tail(q) = 1 .. (Len(q) - 1)
        /\ \A i \in 1 .. (Len(q) - 1) : Tail(q)[i] = q[i + 1] /\ i + 1 \in DOMAIN q
    BY <1>5, <2>1
  <2> QED BY <2>2, <2>3 DEF ToSet
<1> QED BY <1>1, <1>2, <1>3, <1>4, <1>5

LinkShapes ==
  /\ opened \in 0 .. MaxSessions /\ attached \in BOOLEAN
  /\ serving \subseteq 1 .. opened /\ peer \in 0 .. opened
  /\ inbox \in [Sessions -> Seq(Inbound)] /\ outbox \in Seq(Outbound)
  /\ deferred \in Seq(Messages) /\ Len(deferred) <= MaxDeferred
  /\ pass = "settle" => deferred # <<>>
  /\ beat \in [Sessions -> Beats]
  /\ \A s \in Sessions : beat[s].doing = "defer" => beat[s].late # <<>>
  /\ DOMAIN desk = Fences
  /\ exec \in [Fences -> Execs]
  /\ unconfirmed \in [Fences -> Verdicts \cup {NoVerdict}]
  /\ pending \in Seq(ReportMsgs) /\ resending \in Seq(ReportMsgs)
  /\ marker \subseteq Fences
  /\ faults \in 0 .. MaxFaults /\ crashes \in 0 .. MaxCrashes

\* The messages arriving, the ones a session thread is about to queue, and all that may
\* hold a report.
Coming     == UNION {ToSet(inbox[s]) : s \in Sessions}
Handling     == UNION {ToSet(beat[s].late) : s \in Sessions}
Unsent       == ToSet(pending) \cup ToSet(resending)
Reporting    == Coming \cup Handling \cup ToSet(deferred) \cup Unsent
Told(k, f)   == ToWorker(k, f) \in ToSet(outbox)
ReportOf(f, ms) == \E m \in ms : IsReport(m) /\ m.fence = f

\* Every message has its kind, and the kinds tell messages apart.
LEMMA MessageFacts ==
  ASSUME NEW f \in Fences
  PROVE  /\ Ack(f) \in Messages /\ Decline(f) \in Messages /\ Abandon(f) \in Messages
         /\ \A e \in Reports : Report(f, e) \in ReportMsgs /\ Report(f, e) \in Messages
         /\ Messages \subseteq Inbound /\ ReportMsgs \subseteq Messages
         /\ \A hs \in SUBSET Fences : Ping(hs) \in Inbound
         /\ \A k \in {"offer", "spec", "no_spec", "cancel"} : ToWorker(k, f) \in Outbound
         /\ \A a, b \in SUBSET Fences : Pong(a, b) \in Outbound
         /\ \A m \in ReportMsgs : IsReport(m) /\ m.fence \in Fences
<1>1. Ack(f) \in Messages /\ Decline(f) \in Messages /\ Abandon(f) \in Messages
  BY DEF Ack, Decline, Abandon, Messages
<1>2. \A e \in Reports : Report(f, e) \in ReportMsgs /\ Report(f, e) \in Messages
  BY DEF Report, ReportMsgs, Messages
<1>3. Messages \subseteq Inbound /\ ReportMsgs \subseteq Messages
  BY DEF Inbound, ReportMsgs, Messages
<1>4. \A hs \in SUBSET Fences : Ping(hs) \in Inbound
  BY DEF Inbound
<1>5. \A k \in {"offer", "spec", "no_spec", "cancel"} : ToWorker(k, f) \in Outbound
  BY DEF ToWorker, Outbound
<1>6. \A a, b \in SUBSET Fences : Pong(a, b) \in Outbound
  BY DEF Pong, Outbound
<1>7. \A m \in ReportMsgs : IsReport(m) /\ m.fence \in Fences
  BY DEF ReportMsgs, IsReport
<1> QED BY <1>1, <1>2, <1>3, <1>4, <1>5, <1>6, <1>7

\* Of the messages an attempt sends, only a report is one.
LEMMA KindsDiffer ==
  ASSUME NEW f, NEW g, NEW e, NEW hs
  PROVE  /\ ~IsReport(Ack(f)) /\ ~IsReport(Decline(f)) /\ ~IsReport(Abandon(f)) /\ ~IsReport(Ping(hs))
         /\ IsReport(Report(f, e)) /\ Report(f, e).fence = f
         /\ Decline(f) # Ack(g) /\ Decline(f) # Abandon(g) /\ Decline(f) # Ping(hs)
         /\ Decline(f) # Report(g, e) /\ (Decline(f) = Decline(g) => f = g)
         /\ Abandon(f) # Ack(g) /\ Abandon(f) # Decline(g) /\ Abandon(f) # Ping(hs)
         /\ Abandon(f) # Report(g, e) /\ (Abandon(f) = Abandon(g) => f = g)
BY DEF IsReport, Ack, Decline, Abandon, Ping, Report

\* The same for what the controller says.
LEMMA WordsDiffer ==
  ASSUME NEW f, NEW g, NEW k, NEW l, NEW a, NEW b
  PROVE  /\ ToWorker(k, f) = ToWorker(l, g) => k = l /\ f = g
         /\ ToWorker(k, f) = Pong(a, b) => k = "pong"
BY DEF ToWorker, Pong

\* A finite set of messages put on a connection one after the other.
LEMMA SentInTurn ==
  ASSUME NEW S, IsFiniteSet(S)
  PROVE  SetToSeq(S) \in Seq(S) /\ ToSet(SetToSeq(S)) \subseteq S
<1> DEFINE n == Cardinality(S)
<1>1. n \in Nat /\ \E f \in [1 .. n -> S] : IsInjective(f)
  BY FS_CardinalityType DEF ExistsBijection, Bijection, Injection
<1> DEFINE q == SetToSeq(S)
<1>2. q \in [1 .. n -> S]
  BY <1>1 DEF SetToSeq
<1>3. q \in Seq(S)
  BY <1>1, <1>2
<1> HIDE DEF q
<1> QED BY <1>2, <1>3 DEF q, ToSet

\* What the worker writes is on its newest connection, or lost (the link's send).
LEMMA TransmitFacts ==
  ASSUME LinkShapes, NEW ms \in Seq(Inbound), Transmit(ms)
  PROVE  /\ inbox' \in [Sessions -> Seq(Inbound)]
         /\ Coming' \subseteq Coming \cup ToSet(ms)
<1>1. opened \in serving => opened \in Sessions
  BY LinkAssumption DEF LinkShapes, Sessions
<1>2. inbox \in [Sessions -> Seq(Inbound)]
  BY DEF LinkShapes
<1>3. \A s \in Sessions : inbox'[s] \in {inbox[s], inbox[s] \o ms}
  BY <1>1, <1>2 DEF Transmit
<1>4. inbox' = [s \in Sessions |-> inbox'[s]]
  BY <1>2 DEF Transmit
<1>5. ASSUME NEW s \in Sessions
      PROVE  inbox'[s] \in Seq(Inbound) /\ ToSet(inbox'[s]) \subseteq ToSet(inbox[s]) \cup ToSet(ms)
  <2>1. inbox[s] \in Seq(Inbound)
    BY <1>2
  <2>2. /\ inbox[s] \o ms \in Seq(Inbound)
        /\ ToSet(inbox[s] \o ms) = ToSet(inbox[s]) \cup ToSet(ms)
    BY <2>1, SeqFacts
  <2> QED BY <1>3, <2>1, <2>2
<1> QED BY <1>4, <1>5 DEF Coming

\* A session thread takes the next message off its connection.
LEMMA TurnFacts ==
  ASSUME LinkShapes, NEW s \in Sessions, NEW m, Turn(s, m), Handled(s)
  PROVE  /\ inbox' \in [Sessions -> Seq(Inbound)]
         /\ Coming' \subseteq Coming /\ m \in Coming /\ m \in Inbound
<1>1. inbox \in [Sessions -> Seq(Inbound)] /\ inbox[s] \in Seq(Inbound)
  BY DEF LinkShapes
<1>2. inbox[s] # <<>> /\ Head(inbox[s]) = m /\ inbox' = [inbox EXCEPT ![s] = Tail(@)]
  BY DEF Turn, Handled
<1>3. /\ Tail(inbox[s]) \in Seq(Inbound) /\ ToSet(Tail(inbox[s])) \subseteq ToSet(inbox[s])
      /\ m \in ToSet(inbox[s]) /\ m \in Inbound
  BY <1>1, <1>2, SeqFacts
<1>4. /\ inbox'[s] = Tail(inbox[s])
      /\ \A t \in Sessions : t # s => inbox'[t] = inbox[t]
      /\ inbox' \in [Sessions -> Seq(Inbound)]
  BY <1>1, <1>2, <1>3
<1>5. \A t \in Sessions : ToSet(inbox'[t]) \subseteq ToSet(inbox[t])
  BY <1>3, <1>4
<1> QED BY <1>3, <1>4, <1>5 DEF Coming

\* At most one offer of an attempt is on the connection.
OfferedOnce ==
  \A f \in Fences : \A i, k \in DOMAIN outbox :
    outbox[i] = ToWorker("offer", f) /\ outbox[k] = ToWorker("offer", f) => i = k

\* What a session thread writes comes after what is there.
LEMMA ReplyFacts ==
  ASSUME LinkShapes, OfferedOnce, NEW s, NEW m \in Outbound, Reply(s, <<m>>),
         \A f \in Fences : m = ToWorker("offer", f) => ~Told("offer", f)
  PROVE  /\ outbox' \in Seq(Outbound) /\ OfferedOnce'
         /\ ToSet(outbox') \subseteq ToSet(outbox) \cup {m}
<1>1. outbox \in Seq(Outbound) /\ outbox' \in {outbox, outbox \o <<m>>}
  BY DEF LinkShapes, Reply
<1>2. outbox' \in Seq(Outbound) /\ ToSet(outbox') \subseteq ToSet(outbox) \cup {m}
  <2>1. outbox \o <<m>> = Append(outbox, m)
    BY <1>1
  <2>2. Append(outbox, m) \in Seq(Outbound) /\ ToSet(Append(outbox, m)) = ToSet(outbox) \cup {m}
    BY <1>1, SeqFacts
  <2> QED BY <1>1, <2>1, <2>2
<1>3. OfferedOnce'
  <2> SUFFICES ASSUME NEW f \in Fences, NEW i \in DOMAIN outbox', NEW k \in DOMAIN outbox',
                      outbox'[i] = ToWorker("offer", f), outbox'[k] = ToWorker("offer", f)
               PROVE  i = k
    BY DEF OfferedOnce
  <2>1. CASE outbox' = outbox
    BY <2>1 DEF OfferedOnce
  <2>2. CASE outbox' = outbox \o <<m>>
    <3> DEFINE n == Len(outbox)
    <3>1. n \in Nat /\ DOMAIN outbox = 1 .. n /\ DOMAIN outbox' = 1 .. (n + 1)
      BY <1>1, <2>2
    <3>2. outbox'[n + 1] = m /\ \A l \in 1 .. n : outbox'[l] = outbox[l]
      BY <1>1, <2>2
    <3>3. \A l \in 1 .. n : outbox'[l] = ToWorker("offer", f) => Told("offer", f)
      BY <3>1, <3>2 DEF Told, ToSet
    <3>4. CASE i = n + 1 \/ k = n + 1
      <4>1. m = ToWorker("offer", f)
        BY <3>2, <3>4
      <4>2. i \notin 1 .. n /\ k \notin 1 .. n
        BY <3>3, <4>1
      <4> QED BY <3>1, <4>2
    <3>5. CASE i \in 1 .. n /\ k \in 1 .. n
      BY <3>1, <3>2, <3>5 DEF OfferedOnce
    <3> QED BY <3>1, <3>4, <3>5
  <2> QED BY <1>1, <2>1, <2>2
<1> QED BY <1>2, <1>3

\* The worker takes the next message off its connection; an offer is then gone from it.
LEMMA MessageTaken ==
  ASSUME LinkShapes, OfferedOnce, NEW m, Message(m)
  PROVE  /\ outbox' \in Seq(Outbound) /\ OfferedOnce'
         /\ ToSet(outbox') \subseteq ToSet(outbox) /\ m \in ToSet(outbox) /\ m \in Outbound
         /\ \A f \in Fences : m = ToWorker("offer", f) => m \notin ToSet(outbox')
<1>1. outbox \in Seq(Outbound) /\ outbox # <<>> /\ Head(outbox) = m /\ outbox' = Tail(outbox)
  BY DEF LinkShapes, Message
<1>2. /\ outbox' \in Seq(Outbound) /\ ToSet(outbox') \subseteq ToSet(outbox)
      /\ m \in ToSet(outbox) /\ m \in Outbound
  BY <1>1, SeqFacts
<1> DEFINE n == Len(outbox)
<1>3. n \in Nat /\ n >= 1 /\ DOMAIN outbox = 1 .. n /\ m = outbox[1]
  BY <1>1
<1>4. DOMAIN outbox' = 1 .. (n - 1) /\ \A i \in 1 .. (n - 1) : outbox'[i] = outbox[i + 1] /\ i + 1 \in 1 .. n
  BY <1>1, <1>3
<1> HIDE DEF n
<1>5. OfferedOnce'
  <2> SUFFICES ASSUME NEW f \in Fences, NEW i \in 1 .. (n - 1), NEW k \in 1 .. (n - 1),
                      outbox'[i] = ToWorker("offer", f), outbox'[k] = ToWorker("offer", f)
               PROVE  i = k
    BY <1>4 DEF OfferedOnce
  <2>1. i + 1 = k + 1
    BY <1>3, <1>4 DEF OfferedOnce
  <2> QED BY <2>1, <1>3
<1>6. ASSUME NEW f \in Fences, m = ToWorker("offer", f), m \in ToSet(outbox') PROVE FALSE
  <2>1. PICK i \in 1 .. (n - 1) : outbox'[i] = m
    BY <1>4, <1>6 DEF ToSet
  <2>2. /\ 1 \in DOMAIN outbox /\ outbox[1] = ToWorker("offer", f)
        /\ i + 1 \in DOMAIN outbox /\ outbox[i + 1] = ToWorker("offer", f)
    BY <1>3, <1>4, <1>6, <2>1
  <2>3. i + 1 = 1
    BY <2>2 DEF OfferedOnce
  <2> QED BY <1>3, <2>3
<1> QED BY <1>2, <1>5, <1>6

\* The deferred queue takes a message if it has room (Deferred::push).
LEMMA PushFacts ==
  ASSUME LinkShapes, NEW m \in Messages, push(m)
  PROVE  /\ deferred' \in Seq(Messages) /\ Len(deferred') <= MaxDeferred
         /\ deferred # <<>> => deferred' # <<>>
         /\ ToSet(deferred') \subseteq ToSet(deferred) \cup {m}
<1>1. deferred \in Seq(Messages) /\ Len(deferred) <= MaxDeferred /\ Len(deferred) \in Nat /\ MaxDeferred \in Nat
  BY LinkAssumption DEF LinkShapes
<1>2. \/ deferred' = deferred
      \/ Len(deferred) < MaxDeferred /\ deferred' = Append(deferred, m)
  BY DEF push
<1>3. CASE deferred' = deferred
  BY <1>1, <1>3
<1>4. CASE Len(deferred) < MaxDeferred /\ deferred' = Append(deferred, m)
  <2>1. deferred' \in Seq(Messages) /\ ToSet(deferred') \subseteq ToSet(deferred) \cup {m}
    BY <1>1, <1>4, SeqFacts
  <2>2. Len(deferred') = Len(deferred) + 1
    BY <1>1, <1>4
  <2>3. deferred' # <<>>
    BY <1>1, <2>1, <2>2
  <2> QED BY <1>1, <1>4, <2>1, <2>2, <2>3
<1> QED BY <1>2, <1>3, <1>4

\* The attempt loop's report: on the connection, waiting for the next one, or not sent.
LEMMA SendFacts ==
  ASSUME LinkShapes, NEW f \in Fences, NEW e \in Reports, send(f, e)
  PROVE  /\ inbox' \in [Sessions -> Seq(Inbound)] /\ pending' \in Seq(ReportMsgs)
         /\ unconfirmed' \in [Fences -> Verdicts \cup {NoVerdict}]
         /\ Coming' \subseteq Coming \cup {Report(f, e)}
         /\ ToSet(pending') \subseteq ToSet(pending) \cup {Report(f, e)}
         /\ \A g \in Fences : g # f => unconfirmed'[g] = unconfirmed[g]
<1>1. Report(f, e) \in ReportMsgs /\ Report(f, e) \in Inbound
  BY MessageFacts
<1>2. pending \in Seq(ReportMsgs) /\ unconfirmed \in [Fences -> Verdicts \cup {NoVerdict}]
        /\ inbox \in [Sessions -> Seq(Inbound)]
  BY DEF LinkShapes
<1> DEFINE m == Report(f, e)
<1>3. /\ <<m>> \in Seq(Inbound) /\ ToSet(<<m>>) = {m}
      /\ Append(pending, m) \in Seq(ReportMsgs) /\ ToSet(Append(pending, m)) = ToSet(pending) \cup {m}
  <2>1. <<>> \in Seq(Inbound)
    OBVIOUS
  <2>2. <<m>> \in Seq(Inbound) /\ ToSet(<<m>>) = {m}
    BY <1>1, <2>1, SeqFacts
  <2> QED BY <1>1, <1>2, <2>2, SeqFacts
<1>4. /\ unconfirmed' \in [Fences -> Verdicts \cup {NoVerdict}]
      /\ \A g \in Fences : g # f => unconfirmed'[g] = unconfirmed[g]
  BY <1>2 DEF send
<1>5. CASE inbox' = inbox
  <2>1. Coming' = Coming
    BY <1>5 DEF Coming
  <2>2. pending' \in {pending, Append(pending, m)}
    BY DEF send
  <2> QED BY <1>2, <1>3, <1>4, <1>5, <2>1, <2>2
<1>6. CASE Transmit(<<m>>) /\ pending' = pending
  <2>1. inbox' \in [Sessions -> Seq(Inbound)] /\ Coming' \subseteq Coming \cup {m}
    BY <1>3, <1>6, TransmitFacts
  <2> QED BY <1>2, <1>4, <1>6, <2>1
<1> QED BY <1>5, <1>6 DEF send

-----------------------------------------------------------------------------
(* The invariant of the link, one attempt at a time.                       *)

\* Someone has said that the attempt was served.
Served(f) == \/ Told("spec", f) \/ Told("no_spec", f)
             \/ exec[f].phase \in {"starting", "live"}
             \/ unconfirmed[f] # NoVerdict
             \/ ReportOf(f, Reporting)

\* The worker has not heard of the attempt yet, and so has done nothing about it.
Untold(f) == ~Written(f) \/ Told("offer", f) \/ (pass = "send" /\ job[J].fence = f)
Quiet(f)  == /\ exec[f].phase = "none" /\ f \notin marker /\ desk[f] = 0
             /\ Decline(f) \notin Coming /\ Abandon(f) \notin Coming /\ ~Told("spec", f)

\* The attempt runs, or its spec is on the way to a worker that waits for it.
Begun(f) == \/ exec[f].phase \in {"starting", "live"}
            \/ exec[f].phase # "none" /\ Told("spec", f)

\* The attempt is handed back for a process that died; this one has nothing to do with it.
HandedBack(f) == f \in leftovers \/ Abandon(f) \in Coming
Over(f)       == exec[f].phase = "none" /\ unconfirmed[f] = NoVerdict /\ ~ReportOf(f, Unsent)

LinkSound(f) ==
  /\ Written(f) => attempt[J][f].worker = W
  /\ Told("offer", f) => Written(f)
  /\ Served(f) => Past(f)
  /\ Untold(f) => Quiet(f)
  /\ Decline(f) \in Coming => exec[f].phase = "none"
  /\ f \in leftovers => f \in marker
  /\ HandedBack(f) => Over(f)
  /\ Begun(f) /\ attempt[J][f].status = "lapsed" => job[J].cancel

\* While an offer waits to be sent it is the job's newest, and not on the connection yet.
SendSound ==
  pass = "send" => /\ job[J].fence \in Fences /\ Written(job[J].fence)
                   /\ ~Told("offer", job[J].fence)

LinkInv ==
  /\ LinkShapes /\ OfferedOnce /\ SendSound
  /\ leftovers \subseteq Fences /\ Live(W)
  /\ \A f \in Fences : LinkSound(f)

\* What a step may do to an attempt that is neither placed nor offered by it. fs: the attempts
\* it may take back.
Steady(f, fs) ==
  /\ Told("offer", f)' => Told("offer", f)
  /\ Told("no_spec", f)' => Told("no_spec", f) \/ Past(f)
  /\ Told("spec", f)' =>
       \/ Told("spec", f)
       \/ desk[f] # 0 /\ attempt[J][f].status = "acked" /\ attempt'[J][f].status = "acked"
  /\ unconfirmed'[f] # NoVerdict => Served(f)
  /\ ReportOf(f, Reporting)' => Served(f)
  /\ exec'[f].phase # "none" => exec[f].phase # "none"
  /\ exec'[f].phase \in {"starting", "live"} => Begun(f)
  /\ Decline(f) \in Coming' =>
       \/ Decline(f) \in Coming
       \/ exec[f].phase # "none" /\ exec'[f].phase = "none"
  /\ f \in marker' => f \in marker \/ exec[f].phase # "none"
  /\ f \in leftovers' => f \in marker' /\ (f \in leftovers \/ Over(f)')
  /\ Abandon(f) \in Coming' => HandedBack(f)
  /\ ReportOf(f, Unsent)' => ReportOf(f, Unsent) \/ exec[f].phase # "none"
  /\ unconfirmed'[f] # NoVerdict => unconfirmed[f] # NoVerdict \/ exec[f].phase # "none"
  /\ desk'[f] # 0 => desk[f] # 0 \/ exec[f].phase # "none"
  /\ pass' = "send" => pass = "send"
  /\ f \in fs => exec[f].phase = "none" \/ job[J].cancel

\* Such a step keeps what is said of the attempt.
LEMMA SteadySound ==
  ASSUME LinkInv, NEW fs, StoreKept(fs), NEW f \in Fences, Steady(f, fs)
  PROVE  LinkSound(f)'
<1>0. LinkSound(f)
  BY DEF LinkInv
<1>9. Decline(f)' = Decline(f) /\ Abandon(f)' = Abandon(f)
  BY DEF Decline, Abandon
<1>1. Written(f)' => attempt'[J][f].worker = W
  BY <1>0 DEF LinkSound, StoreKept
<1>2. Told("offer", f)' => Written(f)'
  BY <1>0 DEF LinkSound, StoreKept, Steady
<1>3. Begun(f) => Served(f)
  BY DEF Begun, Served
<1>4. Served(f)' => Past(f)'
  <2>1. Served(f)' => Served(f) \/ Past(f)
    <3>1. Told("spec", f)' => Told("spec", f) \/ Past(f)
      BY DEF Steady, Past
    <3> QED BY <1>3, <3>1 DEF Steady, Served
  <2> QED BY <1>0, <2>1 DEF LinkSound, StoreKept
<1>5. Untold(f)' => Quiet(f)'
  <2>1. Untold(f)' => Untold(f)
    BY DEF Untold, Steady, StoreKept
  <2>2. Quiet(f) => Quiet(f)'
    BY <1>0, <1>9 DEF Quiet, Steady, HandedBack, LinkSound
  <2> QED BY <1>0, <2>1, <2>2 DEF LinkSound
<1>6. Decline(f) \in Coming' => exec'[f].phase = "none"
  BY <1>0 DEF LinkSound, Steady
<1>7. (f \in leftovers' => f \in marker') /\ (HandedBack(f)' => Over(f)')
  <2>1. HandedBack(f)' => HandedBack(f) \/ Over(f)'
    BY <1>9 DEF HandedBack, Steady
  <2>2. HandedBack(f) => Over(f)'
    BY <1>0 DEF LinkSound, Over, Steady
  <2> QED BY <2>1, <2>2 DEF Steady
<1>8. Begun(f)' /\ attempt'[J][f].status = "lapsed" => job'[J].cancel
  <2>1. Begun(f)' => Begun(f) \/ attempt'[J][f].status = "acked"
    BY DEF Begun, Steady
  <2>2. Begun(f) => Past(f) /\ exec[f].phase # "none"
    BY <1>0, <1>3 DEF LinkSound, Begun
  <2> QED BY <1>0, <2>1, <2>2 DEF LinkSound, StoreKept, Steady
<1> QED BY <1>1, <1>2, <1>4, <1>5, <1>6, <1>7, <1>8, <1>9 DEF LinkSound

\* What is on a connection or in a queue is what it was, where the step leaves it alone.
LEMMA SameSets ==
  /\ inbox' = inbox => Coming' = Coming
  /\ beat' = beat => Handling' = Handling
  /\ pending' = pending /\ resending' = resending => Unsent' = Unsent
  /\ outbox' = outbox => (OfferedOnce => OfferedOnce') /\ \A k, f : Told(k, f)' = Told(k, f)
BY DEF Coming, Handling, Unsent, OfferedOnce, Told, ToWorker

\* The invariant after a step that neither places nor offers.
LEMMA StepSound ==
  ASSUME LinkInv, NEW fs, StoreKept(fs), \A f \in Fences : Steady(f, fs),
         LinkShapes', OfferedOnce', leftovers' \subseteq Fences, pass' = "send" => pass = "send"
  PROVE  LinkInv'
<1>1. \A f \in Fences : LinkSound(f)'
  BY SteadySound
<1>2. Live(W)'
  BY DEF LinkInv, StoreKept, Live
<1>3. SendSound'
  <2> SUFFICES ASSUME pass' = "send"
               PROVE  job'[J].fence \in Fences /\ Written(job[J].fence)' /\ ~Told("offer", job[J].fence)'
    BY DEF SendSound
  <2> DEFINE g == job[J].fence
  <2>1. g \in Fences /\ Written(g) /\ ~Told("offer", g)
    BY DEF LinkInv, SendSound
  <2>2. job'[J].fence = g
    BY DEF StoreKept
  <2>3. Written(g)' /\ ~Told("offer", g)'
    BY <2>1 DEF StoreKept, Steady
  <2> QED BY <2>1, <2>2, <2>3 DEF Written, Told, ToWorker
<1> QED BY <1>1, <1>2, <1>3 DEF LinkInv

\* A step of the controller: it takes messages, it answers at most a request for a spec, and
\* the worker does not see it.
LEMMA ServeSteady ==
  ASSUME LinkInv, NEW f \in Fences, NEW fs,
         UNCHANGED <<exec, unconfirmed, pending, resending, marker, leftovers>>,
         Coming' \subseteq Coming, Reporting' \subseteq Reporting,
         Told("offer", f)' => Told("offer", f),
         Told("no_spec", f)' => Told("no_spec", f) \/ Past(f),
         Told("spec", f)' =>
           \/ Told("spec", f)
           \/ desk[f] # 0 /\ attempt[J][f].status = "acked" /\ attempt'[J][f].status = "acked",
         desk'[f] # 0 => desk[f] # 0, pass' = "send" => pass = "send",
         f \in fs => exec[f].phase = "none" \/ job[J].cancel
  PROVE  Steady(f, fs)
<1>1. ReportOf(f, Reporting)' => ReportOf(f, Reporting)
  BY DEF ReportOf, IsReport
<1>2. Unsent' = Unsent /\ (ReportOf(f, Unsent)' => ReportOf(f, Unsent))
  BY SameSets DEF ReportOf, IsReport
<1>3. f \in leftovers => f \in marker
  BY DEF LinkInv, LinkSound
<1>4. (Decline(f) \in Coming' => Decline(f) \in Coming) /\ (Abandon(f) \in Coming' => HandedBack(f))
  BY DEF HandedBack
<1> QED BY <1>1, <1>2, <1>3, <1>4 DEF Steady, Served, Begun

\* The same, where nothing is said of an offer or a spec.
LEMMA ControllerSteady ==
  ASSUME LinkInv, NEW f \in Fences, NEW fs,
         UNCHANGED <<exec, unconfirmed, pending, resending, marker, leftovers>>,
         Coming' \subseteq Coming, Reporting' \subseteq Reporting,
         \A k \in {"offer", "spec", "no_spec"} : Told(k, f)' => Told(k, f),
         desk'[f] # 0 => desk[f] # 0, pass' = "send" => pass = "send",
         f \in fs => exec[f].phase = "none" \/ job[J].cancel
  PROVE  Steady(f, fs)
BY ServeSteady

\* The invariant after a step of the controller that leaves the connection to the worker alone.
LEMMA StoreStep ==
  ASSUME LinkInv, NEW fs, StoreKept(fs),
         UNCHANGED <<opened, attached, serving, closed, peer, outbox, desk, execVars, crashes>>,
         inbox' \in [Sessions -> Seq(Inbound)], Coming' \subseteq Coming, Reporting' \subseteq Reporting,
         deferred' \in Seq(Messages), Len(deferred') <= MaxDeferred, pass' = "settle" => deferred' # <<>>,
         beat' \in [Sessions -> Beats], \A s \in Sessions : beat'[s].doing = "defer" => beat'[s].late # <<>>,
         faults' \in 0 .. MaxFaults, pass' = "send" => pass = "send",
         \A f \in fs : exec[f].phase = "none" \/ job[J].cancel
  PROVE  LinkInv'
<1>1. UNCHANGED <<exec, unconfirmed, pending, resending, marker, leftovers>>
  BY DEF execVars
<1>2. LinkShapes'
  BY <1>1 DEF LinkInv, LinkShapes
<1>3. OfferedOnce' /\ \A k, f : Told(k, f)' = Told(k, f)
  BY SameSets DEF LinkInv
<1>4. \A f \in Fences : Steady(f, fs)
  BY <1>1, <1>3, ControllerSteady
<1> QED BY <1>1, <1>2, <1>3, <1>4, StepSound DEF LinkInv

-----------------------------------------------------------------------------
(* The controller's steps.                                                 *)

\* What a session thread is in the middle of.
LEMMA BeatFacts ==
  ASSUME LinkShapes, NEW s \in Sessions, NEW b \in Beats, b.doing = "defer" => b.late # <<>>,
         beat' = [beat EXCEPT ![s] = b]
  PROVE  /\ beat' \in [Sessions -> Beats]
         /\ \A t \in Sessions : beat'[t].doing = "defer" => beat'[t].late # <<>>
         /\ Handling' \subseteq Handling \cup ToSet(b.late)
<1>1. beat \in [Sessions -> Beats] /\ \A t \in Sessions : beat[t].doing = "defer" => beat[t].late # <<>>
  BY DEF LinkShapes
<1>2. \A t \in Sessions : beat'[t] \in {beat[t], b}
  BY <1>1
<1>3. beat' \in [Sessions -> Beats]
  BY <1>1
<1>4. Handling' \subseteq Handling \cup ToSet(b.late)
  BY <1>2 DEF Handling
<1> QED BY <1>1, <1>2, <1>3, <1>4

LEMMA NoBeatFacts == NoBeat \in Beats /\ NoBeat.doing # "defer" /\ ToSet(NoBeat.late) = {}
<1>1. <<>> \in Seq(Messages) /\ ToSet(<<>>) = {}
  BY DEF ToSet
<1> QED BY <1>1 DEF NoBeat, Beats

\* What is left alone stays what it is, on the controller's side.
LEMMA QueueAtRest ==
  ASSUME LinkInv
  PROVE  /\ inbox \in [Sessions -> Seq(Inbound)]
         /\ deferred \in Seq(Messages) /\ Len(deferred) <= MaxDeferred /\ (pass = "settle" => deferred # <<>>)
         /\ beat \in [Sessions -> Beats]
         /\ \A s \in Sessions : beat[s].doing = "defer" => beat[s].late # <<>>
         /\ faults \in 0 .. MaxFaults /\ LinkShapes
BY DEF LinkInv, LinkShapes

\* A message of an attempt: applied, refused, or kept for later (receive_with).
LEMMA ReceiveSound ==
  ASSUME IInv, LinkInv, NEW s \in Sessions, NEW f \in Fences, NEW m, receive(s, f, m)
  PROVE  LinkInv'
<1>1. /\ Turn(s, m) /\ Handled(s) /\ m.kind \in {"ack", "report"} /\ m.fence = f
      /\ UNCHANGED <<opened, attached, serving, closed, peer, outbox, desk, pass, shield, execVars, crashes>>
  BY DEF receive
<1>2. /\ inbox' \in [Sessions -> Seq(Inbound)] /\ Coming' \subseteq Coming
      /\ m \in Coming /\ m \in Inbound
  BY <1>1, TurnFacts, QueueAtRest
<1>3. m \in Messages
  BY <1>1, <1>2 DEF Inbound, Ping
<1>4. UNCHANGED <<pending, resending>>
  BY <1>1 DEF execVars
<1>5. Unsent' = Unsent
  BY <1>4, SameSets
<1>6. CASE /\ IF IsReport(m) /\ has_report(f) THEN UNCHANGED deferred ELSE push(m)
           /\ UNCHANGED <<vars, beat, faults>>
  <2>1. StoreKept({})
    BY <1>6, KeptAtRest
  <2>2. /\ deferred' \in Seq(Messages) /\ Len(deferred') <= MaxDeferred
        /\ deferred # <<>> => deferred' # <<>>
        /\ ToSet(deferred') \subseteq ToSet(deferred) \cup {m}
    BY <1>3, <1>6, PushFacts, QueueAtRest
  <2>3. Handling' = Handling
    BY <1>6, SameSets
  <2>4. Reporting' \subseteq Reporting
    BY <1>2, <1>5, <2>2, <2>3 DEF Reporting
  <2>5. pass' = "settle" => deferred' # <<>>
    BY <1>1, <2>2, QueueAtRest
  <2> QED BY <1>1, <1>2, <1>6, <2>1, <2>2, <2>4, <2>5, StoreStep, QueueAtRest
<1>7. CASE (Takes(f, m) \/ Refuses(m)) /\ UNCHANGED <<deferred, beat, faults>>
  <2>1. StoreKept({})
    BY <1>7, AnswerStore
  <2>3. Handling' = Handling
    BY <1>7, SameSets
  <2>4. Reporting' \subseteq Reporting
    BY <1>2, <1>5, <1>7, <2>3 DEF Reporting
  <2> QED BY <1>1, <1>2, <1>7, <2>1, <2>4, StoreStep, QueueAtRest
<1>8. CASE /\ Fails(f, m)
           /\ beat' = [beat EXCEPT ![s] = [NoBeat EXCEPT !.doing = "defer", !.late = <<m>>]]
           /\ UNCHANGED deferred
  <2>1. StoreKept({})
    BY <1>8, AnswerStore
  <2>2. PICK b : b = [NoBeat EXCEPT !.doing = "defer", !.late = <<m>>]
    OBVIOUS
  <2>3. <<m>> \in Seq(Messages) /\ ToSet(<<m>>) = {m} /\ <<m>> # <<>>
    <3>1. <<>> \in Seq(Messages)
      OBVIOUS
    <3> QED BY <1>3, <3>1, SeqFacts
  <2>4. b \in Beats /\ b.late = <<m>>
    BY <2>2, <2>3 DEF NoBeat, Beats
  <2>5. /\ beat' \in [Sessions -> Beats]
        /\ \A t \in Sessions : beat'[t].doing = "defer" => beat'[t].late # <<>>
        /\ Handling' \subseteq Handling \cup {m}
    BY <1>8, <2>2, <2>3, <2>4, BeatFacts, QueueAtRest
  <2>6. Reporting' \subseteq Reporting
    BY <1>2, <1>5, <1>8, <2>5 DEF Reporting
  <2>7. faults' \in 0 .. MaxFaults
    BY <1>8, LinkAssumption, QueueAtRest DEF Fails
  <2> QED BY <1>1, <1>2, <1>8, <2>1, <2>5, <2>6, <2>7, StoreStep, QueueAtRest
<1> QED BY <1>6, <1>7, <1>8 DEF receive

\* A failed write's message goes to the queue.
LEMMA DeferSound ==
  ASSUME LinkInv, NEW s \in Sessions, defer(s)
  PROVE  LinkInv'
<1>1. /\ push(Head(beat[s].late)) /\ beat' = [beat EXCEPT ![s] = NoBeat] /\ beat[s].doing = "defer"
      /\ UNCHANGED <<vars, netVars, desk, pass, shield, execVars, boundVars>>
  BY DEF defer
<1>2. beat[s] \in Beats /\ beat[s].late # <<>> /\ beat[s].late \in Seq(Messages)
  BY <1>1, QueueAtRest DEF Beats
<1> DEFINE m == Head(beat[s].late)
<1>3. m \in Messages /\ m \in ToSet(beat[s].late)
  BY <1>2, SeqFacts
<1>4. m \in Handling
  BY <1>3 DEF Handling
<1> HIDE DEF m
<1>5. /\ deferred' \in Seq(Messages) /\ Len(deferred') <= MaxDeferred
      /\ deferred # <<>> => deferred' # <<>>
      /\ ToSet(deferred') \subseteq ToSet(deferred) \cup {m}
  BY <1>1, <1>3, PushFacts, QueueAtRest DEF m
<1>6. /\ beat' \in [Sessions -> Beats]
      /\ \A t \in Sessions : beat'[t].doing = "defer" => beat'[t].late # <<>>
      /\ Handling' \subseteq Handling
  BY <1>1, BeatFacts, NoBeatFacts, QueueAtRest
<1>7. /\ UNCHANGED <<opened, attached, serving, closed, peer, outbox, desk, execVars, crashes, pass, inbox, faults>>
      /\ UNCHANGED <<pending, resending>>
  BY <1>1 DEF netVars, boundVars, execVars
<1>8. Coming' = Coming /\ Unsent' = Unsent
  BY <1>7, SameSets
<1>9. Reporting' \subseteq Reporting
  BY <1>4, <1>5, <1>6, <1>8 DEF Reporting
<1>10. StoreKept({})
  BY <1>1, KeptAtRest
<1> QED BY <1>5, <1>6, <1>7, <1>8, <1>9, <1>10, StoreStep, QueueAtRest

\* An attempt handed back: the worker has let go of it before it says so.
LEMMA DeclinedSound ==
  ASSUME IInv, LinkInv, NEW s \in Sessions, NEW f \in Fences, declined(s, f) \/ abandoned(s, f)
  PROVE  LinkInv'
<1>1. /\ Handled(s)
      /\ UNCHANGED <<opened, attached, serving, closed, peer, outbox, ctlVars, execVars, crashes>>
  BY DEF declined, abandoned
<1>2. /\ UNCHANGED <<deferred, beat, desk, pass>> /\ UNCHANGED <<pending, resending>>
  BY <1>1 DEF ctlVars, execVars
<1>3. inbox' \in [Sessions -> Seq(Inbound)] /\ Coming' \subseteq Coming
  BY <1>1, TurnFacts, QueueAtRest DEF declined, abandoned
<1>4. Reporting' \subseteq Reporting
  BY <1>2, <1>3, SameSets DEF Reporting
<1>5. faults' \in 0 .. MaxFaults
  <2>1. faults' = faults \/ (faults > 0 /\ faults' = faults - 1)
    BY DEF declined, abandoned
  <2> QED BY <2>1, LinkAssumption, QueueAtRest
<1>6. CASE StoreKept({})
  BY <1>1, <1>2, <1>3, <1>4, <1>5, <1>6, StoreStep, QueueAtRest
<1>7. CASE decline(W, J, f) /\ declined(s, f)
  <2>1. StoreKept({f})
    BY <1>7, GiveBackStore DEF decline
  <2>2. Decline(f) \in Coming
    BY <1>7, TurnFacts, QueueAtRest DEF declined
  <2>3. exec[f].phase = "none"
    BY <2>2 DEF LinkInv, LinkSound
  <2> QED BY <1>1, <1>2, <1>3, <1>4, <1>5, <2>1, <2>3, StoreStep, QueueAtRest
<1>8. CASE abandon(W, J, f)
  BY <1>6, <1>8, AnswerStore
<1>9. CASE UNCHANGED vars
  BY <1>6, <1>9, KeptAtRest
<1> QED BY <1>7, <1>8, <1>9 DEF declined, abandoned

\* A heartbeat renews.
LEMMA PingSound ==
  ASSUME IInv, LinkInv, NEW s \in Sessions, NEW hs \in SUBSET Fences, ping(s, hs)
  PROVE  LinkInv'
<1>1. /\ Turn(s, Ping(hs)) /\ Handled(s)
      /\ UNCHANGED <<opened, attached, serving, closed, peer, outbox, deferred, desk, pass, shield, execVars, boundVars>>
  BY DEF ping
<1>2. UNCHANGED <<faults, crashes>> /\ UNCHANGED <<pending, resending>>
  BY <1>1 DEF boundVars, execVars
<1>3. inbox' \in [Sessions -> Seq(Inbound)] /\ Coming' \subseteq Coming
  BY <1>1, TurnFacts, QueueAtRest
<1>4. PICK late : late = {g \in hs : ~Renewable(g)}
  OBVIOUS
<1>5. PICK b : b = [NoBeat EXCEPT !.doing = "ping", !.held = hs, !.stop = late]
  OBVIOUS
<1>6. b \in Beats /\ b.doing # "defer" /\ ToSet(b.late) = {}
  <2>1. late \in SUBSET Fences
    BY <1>4
  <2>2. b.late = NoBeat.late /\ b.doing = "ping"
    BY <1>5 DEF NoBeat
  <2>3. b \in Beats
    BY <1>5, <2>1, NoBeatFacts DEF Beats, NoBeat
  <2> QED BY <2>2, <2>3, NoBeatFacts
<1>7. /\ beat' \in [Sessions -> Beats]
      /\ \A t \in Sessions : beat'[t].doing = "defer" => beat'[t].late # <<>>
      /\ Handling' \subseteq Handling
  <2>1. beat' = [beat EXCEPT ![s] = b]
    BY <1>4, <1>5 DEF ping
  <2> QED BY <1>6, <2>1, BeatFacts, QueueAtRest
<1>8. Reporting' \subseteq Reporting
  BY <1>1, <1>2, <1>3, <1>7, SameSets DEF Reporting
<1>9. StoreKept({})
  <2>1. \E js \in SUBSET Jobs : renew(W, js)
    BY OneJobFacts DEF ping
  <2> QED BY <2>1, CallStore
<1> QED BY <1>1, <1>2, <1>3, <1>7, <1>8, <1>9, StoreStep, QueueAtRest

\* A step of the controller that writes a message about no offer and no spec.
LEMMA TellSound ==
  ASSUME LinkInv, NEW s, NEW m \in Outbound, Reply(s, <<m>>),
         \A k \in {"offer", "spec", "no_spec"}, f \in Fences : m # ToWorker(k, f),
         UNCHANGED <<vars, opened, attached, serving, closed, peer, inbox, deferred, desk, pass, execVars, boundVars>>,
         beat' \in [Sessions -> Beats], \A t \in Sessions : beat'[t].doing = "defer" => beat'[t].late # <<>>,
         Handling' \subseteq Handling
  PROVE  LinkInv'
<1>1. UNCHANGED <<exec, unconfirmed, pending, resending, marker, leftovers, faults, crashes>>
  BY DEF execVars, boundVars
<1>2. outbox' \in Seq(Outbound) /\ OfferedOnce' /\ ToSet(outbox') \subseteq ToSet(outbox) \cup {m}
  BY ReplyFacts DEF LinkInv
<1>3. \A k \in {"offer", "spec", "no_spec"}, f \in Fences : Told(k, f)' => Told(k, f)
  BY <1>2 DEF Told, ToWorker
<1>4. Coming' = Coming /\ Reporting' \subseteq Reporting
  BY <1>1, SameSets DEF Reporting
<1>5. LinkShapes'
  BY <1>1, <1>2 DEF LinkInv, LinkShapes
<1>6. \A f \in Fences : Steady(f, {})
  BY <1>1, <1>3, <1>4, ControllerSteady
<1>7. StoreKept({})
  BY KeptAtRest
<1> QED BY <1>1, <1>2, <1>5, <1>6, <1>7, StepSound DEF LinkInv

\* A heartbeat's answer, and a pushed cancel.
LEMMA PongSound ==
  ASSUME LinkInv, NEW s \in Sessions, pong(s)
  PROVE  LinkInv'
<1>1. /\ beat' = [beat EXCEPT ![s] = NoBeat]
      /\ UNCHANGED <<vars, opened, attached, serving, closed, peer, inbox, deferred, desk, pass, shield, execVars,
                     boundVars>>
  BY DEF pong
<1>2. /\ beat' \in [Sessions -> Beats]
      /\ \A t \in Sessions : beat'[t].doing = "defer" => beat'[t].late # <<>>
      /\ Handling' \subseteq Handling
  BY <1>1, BeatFacts, NoBeatFacts, QueueAtRest
<1>3. PICK a, b : Reply(s, <<Pong(a, b)>>) /\ a = beat[s].stop \ Waiters /\ b = CancelRequested(beat[s].held)
  BY DEF pong
<1>4. a \in SUBSET Fences /\ b \in SUBSET Fences
  <2>1. beat[s].stop \in SUBSET Fences /\ beat[s].held \in SUBSET Fences
    BY QueueAtRest DEF Beats
  <2> QED BY <1>3, <2>1 DEF CancelRequested
<1>5. Pong(a, b) \in Outbound
  BY <1>4 DEF Pong, Outbound
<1>6. \A k \in {"offer", "spec", "no_spec"}, f \in Fences : Pong(a, b) # ToWorker(k, f)
  BY WordsDiffer
<1> QED BY <1>1, <1>2, <1>3, <1>5, <1>6, TellSound

LEMMA CancelPushSound ==
  ASSUME LinkInv, NEW f \in Fences, cancel_push(f)
  PROVE  LinkInv'
<1>1. /\ Reply(peer, <<ToWorker("cancel", f)>>)
      /\ UNCHANGED <<vars, opened, attached, serving, closed, peer, inbox, ctlVars, execVars, boundVars>>
  BY DEF cancel_push
<1>2. UNCHANGED <<deferred, desk, pass, beat>>
  BY <1>1 DEF ctlVars
<1>3. ToWorker("cancel", f) \in Outbound
  BY MessageFacts
<1>4. \A k \in {"offer", "spec", "no_spec"}, g \in Fences : ToWorker("cancel", f) # ToWorker(k, g)
  BY WordsDiffer
<1>5. Handling' = Handling
  BY <1>2, SameSets
<1> QED BY <1>1, <1>2, <1>3, <1>4, <1>5, TellSound, QueueAtRest

\* The dispatch pass up to the placement: the deferred messages and the sweeps.
LEMMA PassSound ==
  ASSUME IInv, LinkInv,
         \/ settle_deferred \/ expired_scoped \/ expire_batch \/ deferred_attempts \/ lapse_due
         \/ \E f \in Fences : \E m : retry_deferred(f, m)
  PROVE  LinkInv'
<1>1. /\ UNCHANGED <<opened, attached, serving, closed, peer, inbox, outbox, beat, desk, execVars, crashes>>
      /\ UNCHANGED <<pending, resending>>
  BY DEF settle_deferred, expired_scoped, expire_batch, deferred_attempts, lapse_due, retry_deferred,
         netVars, boundVars, execVars
<1>2. Coming' = Coming /\ Handling' = Handling /\ Unsent' = Unsent
  BY <1>1, SameSets
<1>3. /\ deferred' \in Seq(Messages) /\ Len(deferred') <= MaxDeferred
      /\ ToSet(deferred') \subseteq ToSet(deferred)
      /\ pass' = "settle" => deferred' # <<>>
  <2>1. CASE settle_deferred
    <3>1. deferred # <<>> /\ deferred' = Tail(deferred) /\ deferred \in Seq(Messages)
      BY <2>1, QueueAtRest DEF settle_deferred
    <3>2. Len(deferred) <= MaxDeferred /\ Len(deferred) \in Nat /\ MaxDeferred \in Nat
      BY <3>1, LinkAssumption, QueueAtRest
    <3>3. Len(deferred') = Len(deferred) - 1
      BY <3>1
    <3>4. deferred' \in Seq(Messages) /\ ToSet(deferred') \subseteq ToSet(deferred)
      BY <3>1, SeqFacts
    <3>5. Len(deferred') <= MaxDeferred
      BY <3>2, <3>3
    <3> QED BY <2>1, <3>4, <3>5 DEF settle_deferred
  <2>2. CASE UNCHANGED deferred
    BY <2>2, QueueAtRest
         DEF settle_deferred, expired_scoped, expire_batch, deferred_attempts, lapse_due, retry_deferred
  <2> QED BY <2>1, <2>2 DEF expired_scoped, expire_batch, deferred_attempts, lapse_due, retry_deferred
<1>4. Reporting' \subseteq Reporting
  BY <1>2, <1>3 DEF Reporting
<1>5. pass' = "send" => pass = "send"
  BY DEF settle_deferred, expired_scoped, expire_batch, deferred_attempts, lapse_due, retry_deferred
<1>6. faults' \in 0 .. MaxFaults
  <2>1. faults' = faults \/ (faults > 0 /\ faults' = faults - 1)
    BY DEF settle_deferred, expired_scoped, expire_batch, deferred_attempts, lapse_due, retry_deferred,
           boundVars, Fails
  <2> QED BY <2>1, LinkAssumption, QueueAtRest
<1>7. StoreKept({})
  <2>1. ASSUME NEW f \in Fences, NEW m, retry_deferred(f, m) PROVE StoreKept({})
    BY <2>1, AnswerStore, KeptAtRest DEF retry_deferred
  <2>2. CASE expire_batch
    BY <2>2, AnswerStore, KeptAtRest DEF expire_batch
  <2>3. CASE lapse_due
    BY <2>3, AnswerStore, KeptAtRest DEF lapse_due
  <2>4. CASE settle_deferred \/ expired_scoped \/ deferred_attempts
    BY <2>4, KeptAtRest DEF settle_deferred, expired_scoped, deferred_attempts
  <2> QED BY <2>1, <2>2, <2>3, <2>4
<1> QED BY <1>1, <1>2, <1>3, <1>4, <1>5, <1>6, <1>7, StoreStep, QueueAtRest

\* What reaches the store from elsewhere.
LEMMA OthersSound ==
  ASSUME IInv, LinkInv, Others
  PROVE  LinkInv'
<1>1. UNCHANGED <<netVars, ctlVars, execVars, boundVars>>
  BY DEF Others
<1>2. /\ UNCHANGED <<opened, attached, serving, closed, peer, inbox, outbox, deferred, beat, desk, pass, execVars,
                     faults, crashes>>
      /\ UNCHANGED <<pending, resending>>
  BY <1>1 DEF netVars, ctlVars, boundVars, execVars
<1>3. Coming' = Coming /\ Reporting' = Reporting
  BY <1>2, SameSets DEF Reporting
<1>4. StoreKept({})
  BY CallStore DEF Others
<1> QED BY <1>2, <1>3, <1>4, StoreStep, QueueAtRest

\* A session ends: what its thread had not handled is gone.
LEMMA SessionEndSound ==
  ASSUME LinkInv, NEW s \in Sessions, session_ends(s)
  PROVE  LinkInv'
<1>1. /\ inbox' = [inbox EXCEPT ![s] = <<>>] /\ beat' = [beat EXCEPT ![s] = NoBeat]
      /\ serving' = serving \ {s} /\ peer' \in {0, peer}
      /\ UNCHANGED <<vars, opened, attached, outbox, deferred, desk, pass, shield, execVars, boundVars>>
  BY DEF session_ends, unregister
<1>2. /\ UNCHANGED <<exec, unconfirmed, pending, resending, marker, leftovers>>
      /\ UNCHANGED <<faults, crashes>>
  BY <1>1 DEF execVars, boundVars
<1>3. /\ beat' \in [Sessions -> Beats]
      /\ \A t \in Sessions : beat'[t].doing = "defer" => beat'[t].late # <<>>
      /\ Handling' \subseteq Handling
  BY <1>1, BeatFacts, NoBeatFacts, QueueAtRest
<1>4. inbox' \in [Sessions -> Seq(Inbound)] /\ Coming' \subseteq Coming
  <2>1. \A t \in Sessions : inbox'[t] \in {inbox[t], <<>>}
    BY <1>1, QueueAtRest
  <2>2. <<>> \in Seq(Inbound) /\ ToSet(<<>>) = {}
    BY DEF ToSet
  <2>3. inbox' \in [Sessions -> Seq(Inbound)]
    BY <1>1, <2>2, QueueAtRest
  <2> QED BY <2>1, <2>2, <2>3 DEF Coming
<1>5. Reporting' \subseteq Reporting
  BY <1>1, <1>2, <1>3, <1>4, SameSets DEF Reporting
<1>6. peer' \in 0 .. opened /\ serving' \subseteq 1 .. opened
  BY <1>1, QueueAtRest DEF LinkShapes
<1>7. LinkShapes'
  BY <1>1, <1>2, <1>3, <1>4, <1>6 DEF LinkInv, LinkShapes
<1>8. OfferedOnce' /\ \A k, f : Told(k, f)' = Told(k, f)
  BY <1>1, SameSets DEF LinkInv
<1>9. \A f \in Fences : Steady(f, {})
  BY <1>1, <1>2, <1>4, <1>5, <1>8, ControllerSteady
<1>10. StoreKept({})
  BY <1>1, KeptAtRest
<1> QED BY <1>1, <1>2, <1>7, <1>8, <1>9, <1>10, StepSound DEF LinkInv

\* A session thread registers: the fleet's entry is its own.
LEMMA RegisterSound ==
  ASSUME LinkInv, NEW s \in Sessions, register(s)
  PROVE  LinkInv'
<1>1. /\ s \in serving /\ beat' = [beat EXCEPT ![s] = NoBeat] /\ peer' = s
      /\ UNCHANGED <<vars, opened, attached, serving, inbox, outbox, deferred, desk, pass, shield, execVars,
                     boundVars>>
  BY DEF register
<1>2. /\ UNCHANGED <<exec, unconfirmed, pending, resending, marker, leftovers>>
      /\ UNCHANGED <<faults, crashes>>
  BY <1>1 DEF execVars, boundVars
<1>3. /\ beat' \in [Sessions -> Beats]
      /\ \A t \in Sessions : beat'[t].doing = "defer" => beat'[t].late # <<>>
      /\ Handling' \subseteq Handling
  BY <1>1, BeatFacts, NoBeatFacts, QueueAtRest
<1>4. Coming' = Coming /\ Reporting' \subseteq Reporting
  BY <1>1, <1>2, <1>3, SameSets DEF Reporting
<1>5. peer' \in 0 .. opened
  BY <1>1, QueueAtRest DEF LinkShapes
<1>6. LinkShapes'
  BY <1>1, <1>2, <1>3, <1>5 DEF LinkInv, LinkShapes
<1>7. OfferedOnce' /\ \A k, f : Told(k, f)' = Told(k, f)
  BY <1>1, SameSets DEF LinkInv
<1>8. \A f \in Fences : Steady(f, {})
  BY <1>1, <1>2, <1>4, <1>7, ControllerSteady
<1>9. StoreKept({})
  BY <1>1, KeptAtRest
<1> QED BY <1>1, <1>2, <1>6, <1>7, <1>8, <1>9, StepSound DEF LinkInv

\* The controller restarts: its memory is gone, and the store is reconciled.
LEMMA ControllerRestartSound ==
  ASSUME IInv, LinkInv, controller_restarts
  PROVE  LinkInv'
<1>1. /\ crashes > 0 /\ crashes' = crashes - 1
      /\ serving' = {} /\ peer' = 0 /\ inbox' = [s \in Sessions |-> <<>>]
      /\ deferred' = <<>> /\ beat' = [s \in Sessions |-> NoBeat] /\ desk' = [f \in Fences |-> 0]
      /\ pass' = "idle"
      /\ UNCHANGED <<opened, attached, outbox, execVars, faults>>
  BY DEF controller_restarts
<1>2. UNCHANGED <<exec, unconfirmed, pending, resending, marker, leftovers>>
  BY <1>1 DEF execVars
<1>3. <<>> \in Seq(Inbound) /\ <<>> \in Seq(Messages) /\ ToSet(<<>>) = {} /\ Len(<<>>) = 0
  BY DEF ToSet
<1>4. Coming' = {} /\ Handling' = {} /\ ToSet(deferred') = {}
  BY <1>1, <1>3, NoBeatFacts DEF Coming, Handling
<1>5. Reporting' \subseteq Reporting
  BY <1>2, <1>4, SameSets DEF Reporting
<1>6. opened \in 0 .. MaxSessions /\ crashes \in 0 .. MaxCrashes /\ MaxDeferred \in Nat /\ MaxCrashes \in Nat
        /\ MaxSessions \in Nat
  BY LinkAssumption, QueueAtRest DEF LinkShapes
<1>7. /\ serving' \subseteq 1 .. opened /\ peer' \in 0 .. opened /\ crashes' \in 0 .. MaxCrashes
      /\ deferred' \in Seq(Messages) /\ Len(deferred') <= MaxDeferred
      /\ inbox' \in [Sessions -> Seq(Inbound)] /\ beat' \in [Sessions -> Beats]
      /\ \A s \in Sessions : beat'[s].doing # "defer"
      /\ DOMAIN desk' = Fences
  BY <1>1, <1>3, <1>6, NoBeatFacts
<1>8. LinkShapes'
  BY <1>1, <1>2, <1>7 DEF LinkInv, LinkShapes
<1>9. OfferedOnce' /\ \A k, f : Told(k, f)' = Told(k, f)
  BY <1>1, SameSets DEF LinkInv
<1>10. \A f \in Fences : Steady(f, {})
  BY <1>1, <1>2, <1>4, <1>5, <1>9, ControllerSteady
<1>11. StoreKept({})
  BY StartupStore, KeptAtRest DEF controller_restarts
<1> QED BY <1>1, <1>2, <1>8, <1>9, <1>10, <1>11, StepSound DEF LinkInv

\* A spec is served or refused for an attempt that was acknowledged (resolve_spec).
LEMMA ResolveSound ==
  ASSUME IInv, LinkInv, NEW f \in Fences, resolve_spec(f)
  PROVE  LinkInv'
<1>1. /\ desk[f] # 0 /\ desk' = [desk EXCEPT ![f] = 0]
      /\ UNCHANGED <<opened, attached, serving, closed, peer, inbox, deferred, beat, pass, shield, execVars, boundVars>>
  BY DEF resolve_spec
<1>2. /\ UNCHANGED <<exec, unconfirmed, pending, resending, marker, leftovers>>
      /\ UNCHANGED <<faults, crashes>>
  BY <1>1 DEF execVars, boundVars
<1>3. Written(f) /\ attempt[J][f].worker = W /\ Live(W)
  BY <1>1 DEF LinkInv, LinkSound, Untold, Quiet
<1>4. DOMAIN desk' = Fences /\ \A g \in Fences : desk'[g] # 0 => desk[g] # 0
  BY <1>1, QueueAtRest DEF LinkShapes
<1>5. Coming' \subseteq Coming /\ Reporting' \subseteq Reporting
  BY <1>1, <1>2, SameSets DEF Reporting
<1>6. attempt[J][f].status \in {"none", "offered", "acked", "lapsed", "finished"}
  BY OneJobFacts DEF IInv, TypeOK, Attempt
<1>7. CASE UNCHANGED <<vars, outbox>>
  <2>1. OfferedOnce' /\ \A k, g : Told(k, g)' = Told(k, g)
    BY <1>7, SameSets DEF LinkInv
  <2>2. LinkShapes'
    BY <1>1, <1>2, <1>4, <1>7 DEF LinkInv, LinkShapes
  <2>3. \A g \in Fences : Steady(g, {})
    BY <1>1, <1>2, <1>4, <1>5, <2>1, ControllerSteady
  <2>4. StoreKept({})
    BY <1>7, KeptAtRest
  <2> QED BY <1>1, <1>2, <2>1, <2>2, <2>3, <2>4, StepSound DEF LinkInv
<1>8. ASSUME NEW k \in {"spec", "no_spec"}, NEW fs, Reply(desk[f], <<ToWorker(k, f)>>), StoreKept(fs),
             Past(f), fs \subseteq {f}, fs # {} => job[J].cancel,
             k = "spec" => attempt[J][f].status = "acked" /\ attempt'[J][f].status = "acked"
      PROVE  LinkInv'
  <2>1. ToWorker(k, f) \in Outbound /\ \A g \in Fences : ToWorker(k, f) # ToWorker("offer", g)
    BY <1>8, MessageFacts, WordsDiffer
  <2>2. outbox' \in Seq(Outbound) /\ OfferedOnce' /\ ToSet(outbox') \subseteq ToSet(outbox) \cup {ToWorker(k, f)}
    BY <1>8, <2>1, ReplyFacts DEF LinkInv
  <2>3. LinkShapes'
    BY <1>1, <1>2, <1>4, <2>2 DEF LinkInv, LinkShapes
  <2>4. ASSUME NEW g \in Fences PROVE Steady(g, fs)
    <3>1. \A l \in {"offer", "spec", "no_spec"} : Told(l, g)' => Told(l, g) \/ (l = k /\ g = f)
      BY <2>2, WordsDiffer DEF Told, ToWorker
    <3>2. Told("offer", g)' => Told("offer", g)
      BY <3>1
    <3>3. Told("no_spec", g)' => Told("no_spec", g) \/ Past(g)
      BY <1>8, <3>1
    <3>4. Told("spec", g)' =>
            \/ Told("spec", g)
            \/ desk[g] # 0 /\ attempt[J][g].status = "acked" /\ attempt'[J][g].status = "acked"
      BY <1>1, <1>8, <3>1
    <3>5. g \in fs => exec[g].phase = "none" \/ job[J].cancel
      BY <1>8
    <3> QED BY <1>1, <1>2, <1>4, <1>5, <3>2, <3>3, <3>4, <3>5, ServeSteady
  <2> QED BY <1>1, <1>2, <1>8, <2>2, <2>3, <2>4, StepSound DEF LinkInv
<1>9. CASE spec_gate(f) = "not_held" /\ Reply(desk[f], <<ToWorker("no_spec", f)>>) /\ UNCHANGED vars
  <2>1. Past(f)
    BY <1>3, <1>9 DEF spec_gate, Held, Past, Written
  <2> QED BY <1>8, <1>9, <2>1, KeptAtRest
<1>10. CASE spec_gate(f) = "canceled" /\ decline(W, J, f) /\ Reply(desk[f], <<ToWorker("no_spec", f)>>)
  <2>1. attempt[J][f].status = "acked" /\ job[J].cancel
    BY <1>10 DEF spec_gate
  <2>2. StoreKept({f}) /\ Past(f)
    BY <1>10, <2>1, GiveBackStore DEF decline, Past
  <2> QED BY <1>8, <1>10, <2>1, <2>2
<1>11. ASSUME NEW k \in {"spec", "no_spec"}, spec_gate(f) = "ready", UNCHANGED vars,
              Reply(desk[f], <<ToWorker(k, f)>>)
       PROVE  LinkInv'
  <2>1. attempt[J][f].status = "acked" /\ attempt' = attempt
    BY <1>11 DEF spec_gate, vars
  <2>2. StoreKept({}) /\ Past(f)
    BY <1>11, <2>1, KeptAtRest DEF Past
  <2> QED BY <1>8, <1>11, <2>1, <2>2
<1> QED BY <1>7, <1>9, <1>10, <1>11 DEF resolve_spec

\* A placement writes the row of the next fence, of which nobody has heard.
LEMMA PlacementSound ==
  ASSUME IInv, Unwritten, LinkInv, placement_pass
  PROVE  LinkInv'
<1>1. /\ place(W, J) /\ pass = "idle" /\ pass' = "send"
      /\ UNCHANGED <<netVars, deferred, beat, desk, execVars, boundVars>>
  BY DEF placement_pass
<1>2. /\ UNCHANGED <<opened, attached, serving, closed, peer, inbox, outbox, deferred, beat, desk, faults, crashes>>
      /\ UNCHANGED <<exec, unconfirmed, pending, resending, marker, leftovers>>
  BY <1>1 DEF netVars, execVars, boundVars
<1>0. PICK n : n = job[J].fence + 1
  OBVIOUS
<1>3. n \in Fences /\ n \in 0 .. MaxFence /\ n > job[J].fence
  <2>1. job[J].fence \in Nat /\ job[J].fence < MaxFence
    BY <1>1, OneJobFacts, SizesAssumption DEF IInv, TypeOK, Job, place
  <2> QED BY <1>0, <2>1, SizesAssumption DEF Fences
<1>4. job[J] \in Job /\ job \in [Jobs -> Job] /\ attempt \in [Jobs -> [Fences -> Attempt]] /\ J \in Jobs
  BY OneJobFacts DEF IInv, TypeOK
<1>5. attempt[J][n].status = "none"
  BY <1>3, <1>4 DEF Unwritten
<1>6. /\ attempt'[J][n] = Offer(W) /\ \A g \in Fences : g # n => attempt'[J][g] = attempt[J][g]
      /\ worker' = worker
  BY <1>0, <1>1, <1>3, <1>4 DEF place
<1>7. job'[J].fence = n /\ job'[J].cancel = job[J].cancel
  <2>1. job'[J] = Apply(job[J], "leased", n)
    BY <1>0, <1>1, <1>4 DEF place
  <2> QED BY <1>3, <1>4, <2>1, ApplyType
<1>8. OfferedOnce' /\ \A k, g : Told(k, g)' = Told(k, g)
  BY <1>2, SameSets DEF LinkInv
<1>9. Coming' = Coming /\ Unsent' = Unsent /\ Reporting' = Reporting
  BY <1>2, SameSets DEF Reporting
<1>10. ASSUME NEW g \in Fences
       PROVE  /\ (ReportOf(g, Reporting)' <=> ReportOf(g, Reporting))
              /\ (ReportOf(g, Unsent)' <=> ReportOf(g, Unsent))
              /\ Decline(g)' = Decline(g) /\ Abandon(g)' = Abandon(g)
  BY <1>9 DEF ReportOf, IsReport, Decline, Abandon
<1>11. ASSUME NEW g \in Fences
       PROVE  /\ (Served(g)' <=> Served(g)) /\ (Quiet(g)' <=> Quiet(g)) /\ (Begun(g)' <=> Begun(g))
              /\ (HandedBack(g)' <=> HandedBack(g)) /\ (Over(g)' <=> Over(g))
  BY <1>2, <1>8, <1>9, <1>10 DEF Served, Quiet, Begun, HandedBack, Over
<1>12. ASSUME NEW g \in Fences, g # n PROVE LinkSound(g)'
  <2>1. LinkSound(g)
    BY DEF LinkInv
  <2>2. (Written(g)' <=> Written(g)) /\ (Past(g)' <=> Past(g))
    BY <1>6, <1>12 DEF Written, Past
  <2>3. Untold(g)' => Untold(g)
    BY <1>7, <1>8, <1>12, <2>2 DEF Untold
  <2>4. attempt'[J][g] = attempt[J][g]
    BY <1>6, <1>12
  <2> QED BY <1>2, <1>7, <1>8, <1>9, <1>10, <1>11, <2>1, <2>2, <2>3, <2>4 DEF LinkSound
<1>13. LinkSound(n)'
  <2>1. LinkSound(n)
    BY <1>3 DEF LinkInv
  <2>2. ~Written(n) /\ ~Past(n) /\ Untold(n)
    BY <1>5 DEF Written, Past, Untold
  <2>3. ~Served(n) /\ Quiet(n) /\ ~Told("offer", n)
    BY <2>1, <2>2 DEF LinkSound
  <2>4. attempt'[J][n].worker = W /\ attempt'[J][n].status = "offered"
    BY <1>6 DEF Offer
  <2> QED BY <1>2, <1>3, <1>8, <1>9, <1>10, <1>11, <2>1, <2>3, <2>4 DEF LinkSound
<1>14. SendSound'
  <2>1. Written(n)'
    BY <1>6 DEF Written, Offer
  <2>2. ~Told("offer", n)'
    BY <1>3, <1>5, <1>8 DEF LinkInv, LinkSound, Written
  <2> QED BY <1>3, <1>7, <2>1, <2>2 DEF SendSound, Written, Told, ToWorker
<1>15. LinkShapes'
  BY <1>1, <1>2 DEF LinkInv, LinkShapes
<1>16. Live(W)' /\ leftovers' \subseteq Fences
  BY <1>2, <1>6 DEF LinkInv, Live
<1> QED BY <1>8, <1>12, <1>13, <1>14, <1>15, <1>16 DEF LinkInv

\* The offer is sent once, or lapses.
LEMMA SendOfferSound ==
  ASSUME IInv, LinkInv, send_offer
  PROVE  LinkInv'
<1> DEFINE f == job[J].fence
<1>1. /\ pass = "send" /\ pass' = "idle"
      /\ UNCHANGED <<opened, attached, serving, closed, peer, inbox, deferred, beat, desk, execVars, boundVars>>
  BY DEF send_offer
<1>2. /\ UNCHANGED <<exec, unconfirmed, pending, resending, marker, leftovers>>
      /\ UNCHANGED <<faults, crashes>>
  BY <1>1 DEF execVars, boundVars
<1>3. f \in Fences /\ Written(f) /\ ~Told("offer", f)
  BY <1>1 DEF LinkInv, SendSound
<1>4. Coming' = Coming /\ Unsent' = Unsent /\ Reporting' = Reporting
  BY <1>1, <1>2, SameSets DEF Reporting
<1>5. CASE UNCHANGED outbox /\ StoreKept({})
  BY <1>1, <1>2, <1>4, <1>5, StoreStep, QueueAtRest
<1>6. ASSUME NEW s, Reply(s, <<ToWorker("offer", f)>>), UNCHANGED vars PROVE LinkInv'
  <2>1. ToWorker("offer", f) \in Outbound
    BY <1>3, MessageFacts
  <2>2. \A g \in Fences : ToWorker("offer", f) = ToWorker("offer", g) => ~Told("offer", g)
    BY <1>3, WordsDiffer
  <2>3. outbox' \in Seq(Outbound) /\ OfferedOnce' /\ ToSet(outbox') \subseteq ToSet(outbox) \cup {ToWorker("offer", f)}
    BY <1>6, <2>1, <2>2, ReplyFacts DEF LinkInv
  <2>4. LinkShapes'
    BY <1>1, <1>2, <2>3 DEF LinkInv, LinkShapes
  <2>5. UNCHANGED <<job, attempt, worker>>
    BY <1>6 DEF vars
  <2>6. ASSUME NEW g \in Fences PROVE LinkSound(g)'
    <3>1. LinkSound(g)
      BY DEF LinkInv
    <3>2. /\ Told("offer", g)' => Told("offer", g) \/ g = f
          /\ \A k \in {"spec", "no_spec"} : Told(k, g)' => Told(k, g)
      BY <2>3, WordsDiffer DEF Told, ToWorker
    <3>3. /\ (ReportOf(g, Reporting)' <=> ReportOf(g, Reporting))
          /\ (ReportOf(g, Unsent)' <=> ReportOf(g, Unsent))
          /\ Decline(g)' = Decline(g) /\ Abandon(g)' = Abandon(g)
      BY <1>4 DEF ReportOf, IsReport, Decline, Abandon
    <3>4. (Written(g)' <=> Written(g)) /\ (Past(g)' <=> Past(g))
      BY <2>5 DEF Written, Past
    <3>5. /\ (Served(g)' => Served(g)) /\ (Quiet(g) => Quiet(g)') /\ (Begun(g)' => Begun(g))
          /\ (HandedBack(g)' <=> HandedBack(g)) /\ (Over(g)' <=> Over(g))
      BY <1>1, <1>2, <1>4, <3>2, <3>3 DEF Served, Quiet, Begun, HandedBack, Over
    <3>6. Untold(g)' => Untold(g)
      BY <1>1, <3>2, <3>4 DEF Untold
    <3>7. Told("offer", g)' => Written(g)
      BY <1>3, <3>1, <3>2 DEF LinkSound
    <3> QED BY <1>2, <1>4, <2>5, <3>1, <3>3, <3>4, <3>5, <3>6, <3>7 DEF LinkSound
  <2>7. SendSound'
    BY <1>1 DEF SendSound
  <2>8. Live(W)' /\ leftovers' \subseteq Fences
    BY <1>2, <2>5 DEF LinkInv, Live
  <2> QED BY <2>3, <2>4, <2>6, <2>7, <2>8 DEF LinkInv
<1>7. CASE UNCHANGED outbox /\ (lapse(J, f) \/ UNCHANGED vars)
  BY <1>3, <1>5, <1>7, AnswerStore, KeptAtRest
<1> QED BY <1>6, <1>7 DEF send_offer

-----------------------------------------------------------------------------
(* The worker's steps.                                                     *)

\* What a step of the worker may do about an attempt it has heard of.
Works(f) ==
  /\ unconfirmed'[f] # NoVerdict => Served(f)
  /\ ReportOf(f, Coming)' => Served(f)
  /\ ReportOf(f, Unsent)' => Served(f)
  /\ exec'[f].phase # "none" => exec[f].phase # "none"
  /\ exec'[f].phase \in {"starting", "live"} => Begun(f)
  /\ Decline(f) \in Coming' =>
       \/ Decline(f) \in Coming
       \/ exec[f].phase # "none" /\ exec'[f].phase = "none"
  /\ f \in marker' => f \in marker \/ exec[f].phase # "none"
  /\ f \in leftovers' => f \in marker' /\ (f \in leftovers \/ Over(f)')
  /\ Abandon(f) \in Coming' => HandedBack(f)
  /\ ReportOf(f, Unsent)' => ReportOf(f, Unsent) \/ exec[f].phase # "none"
  /\ unconfirmed'[f] # NoVerdict => unconfirmed[f] # NoVerdict \/ exec[f].phase # "none"
  /\ desk'[f] # 0 => desk[f] # 0 \/ exec[f].phase # "none"

\* An attempt after a step of the worker.
LEMMA WorkSteady ==
  ASSUME LinkInv, UNCHANGED <<vars, deferred, pass>>, Handling' \subseteq Handling,
         ToSet(outbox') \subseteq ToSet(outbox), NEW f \in Fences, Works(f)
  PROVE  Steady(f, {})
<1>2. \A k : Told(k, f)' => Told(k, f)
  BY DEF Told, ToWorker
<1>3. Told("offer", f)' => Told("offer", f)
  BY <1>2
<1>4. Told("no_spec", f)' => Told("no_spec", f)
  BY <1>2
<1>5. Told("spec", f)' => Told("spec", f)
  BY <1>2
<1>6. ReportOf(f, Reporting)' => Served(f)
  <2> SUFFICES ASSUME NEW m \in Reporting', IsReport(m), m.fence = f PROVE Served(f)
    BY DEF ReportOf, IsReport
  <2>1. CASE m \in Coming' \/ m \in Unsent'
    BY <2>1 DEF Works, ReportOf, IsReport
  <2>2. CASE m \in Handling \/ m \in ToSet(deferred)
    BY <2>2 DEF Served, ReportOf, Reporting
  <2> QED BY <2>1, <2>2 DEF Reporting
<1> QED BY <1>3, <1>4, <1>5, <1>6 DEF Works, Steady

\* The invariant after a step of the worker that takes no offer.
LEMMA WorkSound ==
  ASSUME LinkInv, LinkShapes', OfferedOnce', leftovers' \subseteq Fences,
         UNCHANGED <<vars, deferred, pass>>, Handling' \subseteq Handling,
         ToSet(outbox') \subseteq ToSet(outbox), \A f \in Fences : Works(f)
  PROVE  LinkInv'
BY KeptAtRest, WorkSteady, StepSound

\* The same, with what the step leaves alone and what it writes.
LEMMA WorkStep ==
  ASSUME LinkInv, \A f \in Fences : Works(f),
         UNCHANGED <<vars, opened, serving, closed, peer, deferred, beat, pass, faults>>,
         attached' \in BOOLEAN, crashes' \in 0 .. MaxCrashes,
         inbox' \in [Sessions -> Seq(Inbound)],
         outbox' \in Seq(Outbound), OfferedOnce', ToSet(outbox') \subseteq ToSet(outbox),
         DOMAIN desk' = Fences, exec' \in [Fences -> Execs],
         unconfirmed' \in [Fences -> Verdicts \cup {NoVerdict}],
         pending' \in Seq(ReportMsgs), resending' \in Seq(ReportMsgs),
         marker' \subseteq Fences, leftovers' \subseteq Fences
  PROVE  LinkInv'
<1>1. LinkShapes'
  BY DEF LinkInv, LinkShapes
<1>2. Handling' = Handling
  BY SameSets
<1> QED BY <1>1, <1>2, WorkSound

\* An attempt the step has nothing to do with, or drops.
LEMMA Untouched ==
  ASSUME LinkInv, NEW g \in Fences, exec'[g].phase \in {"none", exec[g].phase},
         unconfirmed'[g] \in {NoVerdict, unconfirmed[g]},
         ReportOf(g, Coming)' => Served(g), ReportOf(g, Unsent)' => ReportOf(g, Unsent),
         Decline(g) \in Coming' => Decline(g) \in Coming,
         Abandon(g) \in Coming' => HandedBack(g),
         g \in marker' => g \in marker, g \in leftovers' => g \in leftovers /\ g \in marker',
         desk'[g] # 0 => desk[g] # 0
  PROVE  Works(g)
<1>1. ReportOf(g, Unsent) => Served(g)
  BY DEF Served, ReportOf, Reporting
<1>2. unconfirmed'[g] # NoVerdict => Served(g)
  BY DEF Served
<1> QED BY <1>1, <1>2 DEF Works, Begun

\* What is left alone stays what it is, on the worker's side.
LEMMA WorkerAtRest ==
  ASSUME LinkInv
  PROVE  /\ LinkShapes /\ OfferedOnce /\ attached \in BOOLEAN /\ crashes \in 0 .. MaxCrashes
         /\ inbox \in [Sessions -> Seq(Inbound)] /\ outbox \in Seq(Outbound)
         /\ DOMAIN desk = Fences /\ exec \in [Fences -> Execs]
         /\ unconfirmed \in [Fences -> Verdicts \cup {NoVerdict}]
         /\ pending \in Seq(ReportMsgs) /\ resending \in Seq(ReportMsgs)
         /\ marker \subseteq Fences /\ leftovers \subseteq Fences
         /\ \A f \in leftovers : f \in marker /\ exec[f].phase = "none" /\ ~ReportOf(f, Unsent)
         /\ \A f \in Fences : Abandon(f) \in Coming => HandedBack(f)
         /\ \A f \in Fences : ReportOf(f, Reporting) => Served(f)
         /\ \A f \in Fences : ReportOf(f, Coming) => Served(f)
<1>1. \A f \in Fences : LinkSound(f)
  BY DEF LinkInv
<1>2. leftovers \subseteq Fences /\ LinkShapes /\ OfferedOnce
  BY DEF LinkInv
<1>3. \A f \in leftovers : f \in marker /\ exec[f].phase = "none" /\ ~ReportOf(f, Unsent)
  BY <1>1, <1>2 DEF LinkSound, HandedBack, Over
<1>7. \A f \in Fences : Abandon(f) \in Coming => HandedBack(f)
  BY DEF HandedBack
<1>4. \A f \in Fences : ReportOf(f, Coming) => ReportOf(f, Reporting)
  BY DEF ReportOf, Reporting
<1>5. \A f \in Fences : ReportOf(f, Reporting) => Served(f)
  BY DEF Served
<1>6. LinkShapes
  BY <1>2
<1> QED BY <1>2, <1>3, <1>4, <1>5, <1>6, <1>7 DEF LinkShapes

\* The values an attempt in the executor takes.
LEMMA ExecFacts ==
  /\ TRUE \in Flag /\ FALSE \in Flag /\ Idle \in Execs /\ Idle.phase = "none"
  /\ [Idle EXCEPT !.phase = "awaiting"] \in Execs
  /\ \A x \in Execs : /\ [x EXCEPT !.cancel = TRUE] \in Execs
                      /\ [x EXCEPT !.cancel = TRUE].phase = x.phase
                      /\ [x EXCEPT !.cancel = TRUE, !.lost = TRUE] \in Execs
                      /\ [x EXCEPT !.cancel = TRUE, !.lost = TRUE].phase = x.phase
                      /\ \A p \in Phases : /\ [x EXCEPT !.phase = p] \in Execs
                                           /\ [x EXCEPT !.phase = p].phase = p
                      /\ \A n \in Nexts : /\ [x EXCEPT !.next = n] \in Execs
                                          /\ [x EXCEPT !.next = n].phase = x.phase
<1>1. TRUE \in Flag /\ FALSE \in Flag
  BY DEF Flag
<1>2. Idle \in Execs /\ Idle.phase = "none" /\ [Idle EXCEPT !.phase = "awaiting"] \in Execs
  BY <1>1 DEF Idle, Execs, Phases, Nexts
<1>3. ASSUME NEW x \in Execs
      PROVE  /\ [x EXCEPT !.cancel = TRUE] \in Execs
             /\ [x EXCEPT !.cancel = TRUE].phase = x.phase
             /\ [x EXCEPT !.cancel = TRUE, !.lost = TRUE] \in Execs
             /\ [x EXCEPT !.cancel = TRUE, !.lost = TRUE].phase = x.phase
             /\ \A p \in Phases : /\ [x EXCEPT !.phase = p] \in Execs
                                  /\ [x EXCEPT !.phase = p].phase = p
             /\ \A n \in Nexts : /\ [x EXCEPT !.next = n] \in Execs
                                 /\ [x EXCEPT !.next = n].phase = x.phase
  BY <1>1 DEF Execs
<1> QED BY <1>1, <1>2, <1>3

\* One message from the worker.
LEMMA TransmitOne ==
  ASSUME LinkShapes, NEW m \in Inbound, Transmit(<<m>>)
  PROVE  inbox' \in [Sessions -> Seq(Inbound)] /\ Coming' \subseteq Coming \cup {m}
<1>1. <<>> \in Seq(Inbound)
  OBVIOUS
<1>2. <<m>> \in Seq(Inbound) /\ ToSet(<<m>>) = {m}
  BY <1>1, SeqFacts
<1> QED BY <1>2, TransmitFacts

\* A new session opens, and takes over what could not be sent.
LEMMA ConnectSound ==
  ASSUME LinkInv, connect
  PROVE  LinkInv'
<1>1. /\ opened < MaxSessions /\ opened' = opened + 1 /\ attached' = TRUE
      /\ serving' = serving \cup {opened + 1} /\ outbox' = <<>>
      /\ beat' = [beat EXCEPT ![opened + 1] = [NoBeat EXCEPT !.doing = "arrive"]]
      /\ resending' = pending /\ pending' = <<>>
      /\ UNCHANGED <<vars, peer, inbox, deferred, desk, pass, exec, unconfirmed, marker, leftovers, boundVars>>
  BY DEF connect
<1>2. UNCHANGED <<deferred, desk, pass, faults, crashes>>
  BY <1>1 DEF boundVars
<1>3. opened \in 0 .. MaxSessions /\ serving \subseteq 1 .. opened /\ MaxSessions \in Nat
  BY LinkAssumption, QueueAtRest DEF LinkShapes
<1>a. /\ beat' \in [Sessions -> Beats] /\ Handling' \subseteq Handling
      /\ \A s \in Sessions : beat'[s].doing = "defer" => beat'[s].late # <<>>
  <2> DEFINE b == [NoBeat EXCEPT !.doing = "arrive"]
  <2>1. b \in Beats /\ b.doing # "defer" /\ ToSet(b.late) = {}
    BY NoBeatFacts DEF NoBeat, Beats
  <2>2. opened + 1 \in Sessions
    BY <1>1, <1>3 DEF Sessions
  <2>3. beat' = [beat EXCEPT ![opened + 1] = b]
    BY <1>1
  <2> HIDE DEF b
  <2> QED BY <2>1, <2>2, <2>3, BeatFacts, QueueAtRest
<1>4. opened' \in 0 .. MaxSessions /\ serving' \subseteq 1 .. opened' /\ peer' \in 0 .. opened'
  <2>1. 1 .. opened \subseteq 1 .. (opened + 1) /\ opened + 1 \in 1 .. (opened + 1)
    BY <1>3
  <2>2. peer \in 0 .. (opened + 1)
    BY <1>3, QueueAtRest DEF LinkShapes
  <2> QED BY <1>1, <1>3, <2>1, <2>2
<1>5. <<>> \in Seq(Outbound) /\ <<>> \in Seq(ReportMsgs) /\ ToSet(<<>>) = {} /\ DOMAIN <<>> = {}
  BY DEF ToSet
<1>6. LinkShapes'
  BY <1>1, <1>2, <1>a, <1>4, <1>5 DEF LinkInv, LinkShapes
<1>7. OfferedOnce' /\ ToSet(outbox') \subseteq ToSet(outbox)
  BY <1>1, <1>5 DEF OfferedOnce
<1>8. Coming' = Coming /\ Unsent' \subseteq Unsent
  BY <1>1, <1>5, SameSets DEF Unsent
<1>9. ASSUME NEW g \in Fences PROVE Works(g)
  <2>1. (ReportOf(g, Coming)' => ReportOf(g, Coming)) /\ (ReportOf(g, Unsent)' => ReportOf(g, Unsent))
    BY <1>8 DEF ReportOf, IsReport
  <2> QED BY <1>1, <1>2, <1>8, <2>1, Untouched, WorkerAtRest
<1> QED BY <1>1, <1>2, <1>a, <1>6, <1>7, <1>9, WorkSound, WorkerAtRest

\* The worker loses its session.
LEMMA DetachedSound ==
  ASSUME LinkInv, detached
  PROVE  LinkInv'
<1>1. /\ attached' = FALSE /\ outbox' = <<>>
      /\ UNCHANGED <<vars, opened, serving, closed, peer, inbox, ctlVars, exec, unconfirmed, pending, resending,
                     marker, boundVars>>
      /\ leftovers' \in Unreached
  BY DEF detached
<1>2. UNCHANGED <<deferred, beat, desk, pass, faults, crashes>>
  BY <1>1 DEF ctlVars, boundVars
<1>3. <<>> \in Seq(Outbound) /\ ToSet(<<>>) = {} /\ DOMAIN <<>> = {}
  BY DEF ToSet
<1>4. OfferedOnce' /\ ToSet(outbox') \subseteq ToSet(outbox) /\ outbox' \in Seq(Outbound) /\ attached' \in BOOLEAN
  BY <1>1, <1>3 DEF OfferedOnce
<1>5. Coming' = Coming /\ Unsent' = Unsent
  BY <1>1, SameSets
<1>7. leftovers' \subseteq leftovers
  BY <1>1 DEF Unreached
<1>6. ASSUME NEW g \in Fences PROVE Works(g)
  <2>1. (ReportOf(g, Coming)' => ReportOf(g, Coming)) /\ (ReportOf(g, Unsent)' => ReportOf(g, Unsent))
    BY <1>5 DEF ReportOf, IsReport
  <2>2. g \in leftovers' => g \in leftovers /\ g \in marker'
    BY <1>1, <1>7, WorkerAtRest
  <2> QED BY <1>1, <1>2, <1>5, <2>1, <2>2, Untouched, WorkerAtRest
<1>8. leftovers' \subseteq Fences
  BY <1>7, WorkerAtRest
<1> QED BY <1>1, <1>2, <1>4, <1>6, <1>8, WorkStep, WorkerAtRest

\* An unsent report goes out on the new session, or back.
LEMMA ResendSound ==
  ASSUME LinkInv, resend_pending
  PROVE  LinkInv'
<1>1. /\ resending # <<>> /\ resending' = Tail(resending)
      /\ UNCHANGED <<vars, opened, attached, serving, closed, peer, outbox, ctlVars, exec, unconfirmed, pinged,
                     leftovers, boundVars>>
  BY DEF resend_pending
<1>2. UNCHANGED <<deferred, beat, desk, pass, faults, crashes>>
  BY <1>1 DEF ctlVars, boundVars
<1>3. PICK m : m = Head(resending)
  OBVIOUS
<1>4. /\ m \in ReportMsgs /\ m \in ToSet(resending)
      /\ resending' \in Seq(ReportMsgs) /\ ToSet(resending') \subseteq ToSet(resending)
  BY <1>1, <1>3, SeqFacts, WorkerAtRest
<1>5. m \in Inbound /\ IsReport(m) /\ m.fence \in Fences /\ m \in Unsent
  BY <1>4 DEF ReportMsgs, Inbound, Messages, IsReport, Unsent
<1>6. m.fence \notin leftovers
  BY <1>5, WorkerAtRest DEF ReportOf
<1>7. ReportOf(m.fence, Unsent)
  BY <1>5 DEF ReportOf
<1>8. /\ inbox' \in [Sessions -> Seq(Inbound)] /\ Coming' \subseteq Coming \cup {m}
      /\ pending' \in Seq(ReportMsgs) /\ ToSet(pending') \subseteq ToSet(pending) \cup {m}
      /\ marker' \in {marker, marker \ {m.fence}}
  <2>1. CASE /\ Transmit(<<m>>)
             /\ marker' = IF IsVerdict(m) THEN marker \ {m.fence} ELSE marker
             /\ UNCHANGED pending
    BY <1>5, <2>1, TransmitOne, WorkerAtRest
  <2>2. CASE pending' = Append(pending, m) /\ UNCHANGED <<inbox, marker>>
    <3>0. pending \in Seq(ReportMsgs)
      BY WorkerAtRest
    <3>1. pending' \in Seq(ReportMsgs) /\ ToSet(pending') \subseteq ToSet(pending) \cup {m}
      BY <1>4, <2>2, <3>0, SeqFacts
    <3> QED BY <2>2, <3>1, SameSets, WorkerAtRest
  <2> QED BY <1>3, <2>1, <2>2 DEF resend_pending
<1>9. Unsent' \subseteq Unsent
  BY <1>4, <1>5, <1>8 DEF Unsent
<1>10. OfferedOnce'
  BY <1>1, SameSets, WorkerAtRest
<1>11. ASSUME NEW g \in Fences PROVE Works(g)
  <2>1. ReportOf(g, Coming)' => ReportOf(g, Reporting)
    BY <1>5, <1>8 DEF ReportOf, IsReport, Reporting
  <2>2. ReportOf(g, Unsent)' => ReportOf(g, Unsent)
    BY <1>9 DEF ReportOf, IsReport
  <2>3. (Decline(g) \in Coming' => Decline(g) \in Coming) /\ (Abandon(g) \in Coming' => Abandon(g) \in Coming)
    BY <1>5, <1>8, KindsDiffer
  <2>4. g \in leftovers' => g \in leftovers /\ g \in marker'
    BY <1>1, <1>6, <1>8, WorkerAtRest
  <2> QED BY <1>1, <1>2, <1>8, <2>1, <2>2, <2>3, <2>4, Untouched, WorkerAtRest
<1>12. marker' \subseteq Fences
  BY <1>8, WorkerAtRest
<1> QED BY <1>1, <1>2, <1>4, <1>8, <1>10, <1>11, <1>12, WorkStep, WorkerAtRest

\* A heartbeat goes out.
LEMMA HeartbeatSound ==
  ASSUME LinkInv, heartbeat
  PROVE  LinkInv'
<1>1. /\ Transmit(<<Ping(held)>>)
      /\ UNCHANGED <<vars, opened, attached, serving, closed, peer, outbox, ctlVars, exec, unconfirmed, pending,
                     resending, marker, leftovers, boundVars>>
  BY DEF heartbeat
<1>2. UNCHANGED <<deferred, beat, desk, pass, faults, crashes>>
  BY <1>1 DEF ctlVars, boundVars
<1>3. Ping(held) \in Inbound
  BY DEF held, Inbound
<1>4. inbox' \in [Sessions -> Seq(Inbound)] /\ Coming' \subseteq Coming \cup {Ping(held)}
  BY <1>1, <1>3, TransmitOne, WorkerAtRest
<1>5. OfferedOnce' /\ Unsent' = Unsent
  BY <1>1, SameSets, WorkerAtRest
<1>6. ASSUME NEW g \in Fences PROVE Works(g)
  <2>1. /\ ReportOf(g, Coming)' => ReportOf(g, Coming)
        /\ Decline(g) \in Coming' => Decline(g) \in Coming
        /\ Abandon(g) \in Coming' => Abandon(g) \in Coming
    <3>1. /\ ~IsReport(Ping(held))
          /\ Decline(g) # Ping(held) /\ Abandon(g) # Ping(held)
      BY KindsDiffer DEF IsReport
    <3> QED BY <1>4, <3>1 DEF ReportOf
  <2>2. ReportOf(g, Unsent)' => ReportOf(g, Unsent)
    BY <1>5 DEF ReportOf, IsReport
  <2> QED BY <1>1, <1>2, <2>1, <2>2, Untouched, WorkerAtRest
<1> QED BY <1>1, <1>2, <1>4, <1>5, <1>6, WorkStep, WorkerAtRest

\* What a message of the controller leaves alone when the worker takes it.
LEMMA MessageAtRest ==
  ASSUME LinkInv, NEW m, Message(m)
  PROVE  /\ outbox' \in Seq(Outbound) /\ OfferedOnce' /\ ToSet(outbox') \subseteq ToSet(outbox)
         /\ m \in ToSet(outbox)
BY MessageTaken, WorkerAtRest

\* The spec arrives: the attempt that waits for it starts.
LEMMA AcceptSpecSound ==
  ASSUME LinkInv, NEW f \in Fences, accept_spec(f)
  PROVE  LinkInv'
<1>1. /\ Message(ToWorker("spec", f))
      /\ UNCHANGED <<vars, opened, attached, serving, closed, peer, inbox, ctlVars, unconfirmed, pending,
                     resending, pinged, marker, leftovers, boundVars>>
      /\ exec' = IF exec[f].phase = "awaiting" THEN [exec EXCEPT ![f].phase = "starting"] ELSE exec
  BY DEF accept_spec
<1>2. UNCHANGED <<deferred, beat, desk, pass, faults, crashes>>
  BY <1>1 DEF ctlVars, boundVars
<1>3. /\ outbox' \in Seq(Outbound) /\ OfferedOnce' /\ ToSet(outbox') \subseteq ToSet(outbox)
      /\ Told("spec", f)
  BY <1>1, MessageAtRest DEF Told
<1>4. Coming' = Coming /\ Unsent' = Unsent
  BY <1>1, SameSets
<1>5. exec \in [Fences -> Execs] /\ exec[f] \in Execs /\ "starting" \in Phases
  BY WorkerAtRest DEF Phases
<1>6. [exec[f] EXCEPT !.phase = "starting"] \in Execs /\ [exec[f] EXCEPT !.phase = "starting"].phase = "starting"
  BY <1>5, ExecFacts
<1>7. /\ exec' \in [Fences -> Execs] /\ \A g \in Fences : g # f => exec'[g] = exec[g]
      /\ exec'[f].phase # exec[f].phase => exec[f].phase = "awaiting" /\ exec'[f].phase = "starting"
  BY <1>1, <1>5, <1>6
<1>8. ASSUME NEW g \in Fences
      PROVE  (ReportOf(g, Coming)' => ReportOf(g, Coming)) /\ (ReportOf(g, Unsent)' => ReportOf(g, Unsent))
  BY <1>4 DEF ReportOf, IsReport
<1>9. ASSUME NEW g \in Fences, g # f \/ exec'[g].phase = exec[g].phase PROVE Works(g)
  BY <1>1, <1>2, <1>4, <1>7, <1>8, <1>9, Untouched, WorkerAtRest
<1>10. ASSUME exec'[f].phase # exec[f].phase PROVE Works(f)
  <2>1. exec[f].phase = "awaiting" /\ exec'[f].phase = "starting"
    BY <1>7, <1>10
  <2>2. Begun(f) /\ Served(f)
    BY <1>3, <2>1 DEF Begun, Served
  <2> QED BY <1>1, <1>2, <1>4, <1>8, <2>1, <2>2, WorkerAtRest DEF Works
<1> QED BY <1>1, <1>2, <1>3, <1>7, <1>9, <1>10, WorkStep, WorkerAtRest

\* A step in which an attempt that was served ends, with or without a last report.
LEMMA EndSound ==
  ASSUME LinkInv, NEW f \in Fences, Served(f), exec[f].phase # "none",
         UNCHANGED <<vars, opened, attached, serving, closed, peer, ctlVars, resending, leftovers, boundVars>>,
         outbox' \in Seq(Outbound), OfferedOnce', ToSet(outbox') \subseteq ToSet(outbox),
         (\E e \in Reports : send(f, e)) \/ UNCHANGED <<inbox, pending, unconfirmed>>,
         marker' \subseteq marker \cup {f},
         marker \ {f} \subseteq marker',
         NEW x \in Execs, exec' = [exec EXCEPT ![f] = x],
         x.phase \in {"starting", "live"} => Begun(f)
  PROVE  LinkInv'
<1>1. UNCHANGED <<deferred, beat, desk, pass, faults, crashes>>
  BY DEF ctlVars, boundVars
<1>2. f \notin leftovers
  BY WorkerAtRest
<1>3. /\ inbox' \in [Sessions -> Seq(Inbound)] /\ pending' \in Seq(ReportMsgs)
      /\ unconfirmed' \in [Fences -> Verdicts \cup {NoVerdict}]
      /\ \A g \in Fences : g # f => unconfirmed'[g] = unconfirmed[g]
      /\ \A g \in Fences : g # f => (ReportOf(g, Coming)' => ReportOf(g, Coming))
      /\ \A g \in Fences : g # f => (ReportOf(g, Unsent)' => ReportOf(g, Unsent))
      /\ \A g \in Fences : Decline(g) \in Coming' => Decline(g) \in Coming
      /\ \A g \in Fences : Abandon(g) \in Coming' => Abandon(g) \in Coming
  <2>1. CASE UNCHANGED <<inbox, pending, unconfirmed>>
    <3>1. Coming' = Coming /\ Unsent' = Unsent
      BY <2>1, SameSets
    <3> QED BY <2>1, <3>1, WorkerAtRest DEF ReportOf, IsReport
  <2>2. ASSUME NEW e \in Reports, send(f, e) PROVE <1>3
    <3>1. /\ inbox' \in [Sessions -> Seq(Inbound)] /\ pending' \in Seq(ReportMsgs)
          /\ unconfirmed' \in [Fences -> Verdicts \cup {NoVerdict}]
          /\ Coming' \subseteq Coming \cup {Report(f, e)}
          /\ ToSet(pending') \subseteq ToSet(pending) \cup {Report(f, e)}
          /\ \A g \in Fences : g # f => unconfirmed'[g] = unconfirmed[g]
      BY <2>2, SendFacts, WorkerAtRest
    <3>2. Unsent' \subseteq Unsent \cup {Report(f, e)}
      BY <3>1 DEF Unsent
    <3>3. ASSUME NEW g \in Fences, g # f
          PROVE  (ReportOf(g, Coming)' => ReportOf(g, Coming)) /\ (ReportOf(g, Unsent)' => ReportOf(g, Unsent))
      <4>1. Report(f, e).fence # g
        BY <3>3 DEF Report
      <4> QED BY <3>1, <3>2, <4>1 DEF ReportOf, IsReport
    <3>4. ASSUME NEW g \in Fences
          PROVE  /\ Decline(g) \in Coming' => Decline(g) \in Coming
                 /\ Abandon(g) \in Coming' => Abandon(g) \in Coming
      <4>1. Decline(g) # Report(f, e) /\ Abandon(g) # Report(f, e)
        BY DEF Decline, Abandon, Report
      <4> QED BY <3>1, <4>1
    <3> QED BY <3>1, <3>3, <3>4
  <2> QED BY <2>1, <2>2
<1>4. exec' \in [Fences -> Execs] /\ exec'[f] = x /\ \A g \in Fences : g # f => exec'[g] = exec[g]
  BY WorkerAtRest
<1>5. ASSUME NEW g \in Fences, g # f PROVE Works(g)
  <2>1. g \in leftovers => g \in marker'
    BY <1>5, WorkerAtRest
  <2>2. g \in marker' => g \in marker
    BY <1>5
  <2> QED BY <1>1, <1>3, <1>4, <1>5, <2>1, <2>2, Untouched, WorkerAtRest
<1>6. Works(f)
  <2>1. Abandon(f) \in Coming' => HandedBack(f)
    BY <1>3, WorkerAtRest
  <2> QED BY <1>1, <1>2, <1>3, <1>4, <2>1 DEF Works
<1>7. marker' \subseteq Fences
  BY WorkerAtRest
<1> QED BY <1>1, <1>3, <1>4, <1>5, <1>6, <1>7, WorkStep, WorkerAtRest

\* A step that tells attempts something: none starts, none ends.
LEMMA TellWorkSound ==
  ASSUME LinkInv, outbox' \in Seq(Outbound), OfferedOnce', ToSet(outbox') \subseteq ToSet(outbox),
         UNCHANGED <<vars, opened, attached, serving, closed, peer, inbox, ctlVars, unconfirmed, pending,
                     resending, marker, leftovers, boundVars>>,
         exec' \in [Fences -> Execs], \A f \in Fences : exec'[f].phase = exec[f].phase
  PROVE  LinkInv'
<1>1. UNCHANGED <<deferred, beat, desk, pass, faults, crashes>>
  BY DEF ctlVars, boundVars
<1>2. Coming' = Coming /\ Unsent' = Unsent
  BY SameSets
<1>3. ASSUME NEW g \in Fences PROVE Works(g)
  <2>1. (ReportOf(g, Coming)' => ReportOf(g, Coming)) /\ (ReportOf(g, Unsent)' => ReportOf(g, Unsent))
    BY <1>2 DEF ReportOf, IsReport
  <2> QED BY <1>1, <1>2, <2>1, Untouched, WorkerAtRest
<1> QED BY <1>1, <1>3, WorkStep, WorkerAtRest

\* A cancel, wherever it reaches the attempts.
LEMMA CanceledFacts ==
  ASSUME NEW ex \in [Fences -> Execs], NEW fs
  PROVE  /\ Canceled(ex, fs) \in [Fences -> Execs]
         /\ \A f \in Fences : Canceled(ex, fs)[f].phase = ex[f].phase
<1>1. ASSUME NEW f \in Fences PROVE Canceled(ex, fs)[f] \in {ex[f], [ex[f] EXCEPT !.cancel = TRUE]}
  BY DEF Canceled
<1>2. ASSUME NEW f \in Fences PROVE Canceled(ex, fs)[f] \in Execs /\ Canceled(ex, fs)[f].phase = ex[f].phase
  <2>0. ex[f] \in Execs
    OBVIOUS
  <2>1. CASE Canceled(ex, fs)[f] = ex[f]
    BY <2>0, <2>1
  <2>2. CASE Canceled(ex, fs)[f] = [ex[f] EXCEPT !.cancel = TRUE]
    BY <2>0, <2>2, ExecFacts
  <2> QED BY <1>1, <2>1, <2>2
<1>3. Canceled(ex, fs) = [f \in Fences |-> Canceled(ex, fs)[f]]
  BY DEF Canceled
<1> QED BY <1>2, <1>3

\* A stop drops what waits and leaves the rest where it is.
LEMMA StoppedFacts ==
  ASSUME NEW ex \in [Fences -> Execs], NEW fs
  PROVE  /\ Stopped(ex, fs) \in [Fences -> Execs]
         /\ \A f \in Fences : Stopped(ex, fs)[f].phase \in {"none", ex[f].phase}
<1>1. ASSUME NEW f \in Fences PROVE Stopped(ex, fs)[f] \in {ex[f], Idle, [ex[f] EXCEPT !.cancel = TRUE]}
  BY DEF Stopped
<1>2. ASSUME NEW f \in Fences PROVE Stopped(ex, fs)[f] \in Execs /\ Stopped(ex, fs)[f].phase \in {"none", ex[f].phase}
  <2>0. ex[f] \in Execs
    OBVIOUS
  <2>1. CASE Stopped(ex, fs)[f] = ex[f]
    BY <2>0, <2>1
  <2>2. CASE Stopped(ex, fs)[f] = Idle
    BY <2>2, ExecFacts
  <2>3. CASE Stopped(ex, fs)[f] = [ex[f] EXCEPT !.cancel = TRUE]
    BY <2>0, <2>3, ExecFacts
  <2> QED BY <1>1, <2>1, <2>2, <2>3
<1>3. Stopped(ex, fs) = [f \in Fences |-> Stopped(ex, fs)[f]]
  BY DEF Stopped
<1> QED BY <1>2, <1>3

\* A cancel reaches the attempt; the lease is lost.
LEMMA ToldSound ==
  ASSUME LinkInv, lease_lost \/ \E f \in Fences : canceled(f)
  PROVE  LinkInv'
<1>1. ASSUME NEW f \in Fences, canceled(f) PROVE LinkInv'
  <2>1. Message(ToWorker("cancel", f)) /\ exec' = Canceled(exec, {f})
    BY <1>1 DEF canceled
  <2>2. exec' \in [Fences -> Execs] /\ \A g \in Fences : exec'[g].phase = exec[g].phase
    BY <2>1, CanceledFacts, WorkerAtRest
  <2>3. UNCHANGED <<vars, opened, attached, serving, closed, peer, inbox, ctlVars, unconfirmed, pending,
                     resending, marker, leftovers, boundVars>>
    BY <1>1 DEF canceled
  <2> QED BY <2>1, <2>2, <2>3, MessageAtRest, TellWorkSound
<1>2. CASE lease_lost
  <2>1. exec' = [f \in Fences |-> IF exec[f].phase = "live"
                                  THEN [exec[f] EXCEPT !.cancel = TRUE, !.lost = TRUE] ELSE exec[f]]
    BY <1>2 DEF lease_lost
  <2>2. ASSUME NEW f \in Fences PROVE exec'[f] \in Execs /\ exec'[f].phase = exec[f].phase
    <3>1. exec'[f] \in {exec[f], [exec[f] EXCEPT !.cancel = TRUE, !.lost = TRUE]} /\ exec[f] \in Execs
      BY <2>1, WorkerAtRest
    <3> QED BY <3>1, ExecFacts
  <2>3. exec' \in [Fences -> Execs]
    <3>1. exec' = [f \in Fences |-> exec'[f]]
      BY <2>1
    <3> QED BY <2>2, <3>1
  <2>4. UNCHANGED <<vars, netVars, ctlVars, unconfirmed, pending, resending, pinged, marker, leftovers,
                    boundVars>>
    BY <1>2 DEF lease_lost
  <2>5. UNCHANGED <<vars, opened, attached, serving, closed, peer, inbox, outbox, ctlVars, unconfirmed, pending,
                    resending, marker, leftovers, boundVars>>
    BY <2>4 DEF netVars
  <2>6. OfferedOnce' /\ outbox' \in Seq(Outbound) /\ ToSet(outbox') \subseteq ToSet(outbox)
    BY <2>5, SameSets, WorkerAtRest
  <2> QED BY <2>2, <2>3, <2>5, <2>6, TellWorkSound
<1> QED BY <1>1, <1>2

\* No spec: the attempt that waited for one is over.
LEMMA NoSpecSound ==
  ASSUME LinkInv, NEW f \in Fences, no_spec(f)
  PROVE  LinkInv'
<1>1. /\ Message(ToWorker("no_spec", f))
      /\ UNCHANGED <<vars, opened, attached, serving, closed, peer, ctlVars, resending, pinged, marker,
                     leftovers, boundVars>>
  BY DEF no_spec
<1>2. /\ outbox' \in Seq(Outbound) /\ OfferedOnce' /\ ToSet(outbox') \subseteq ToSet(outbox)
      /\ Served(f)
  BY <1>1, MessageAtRest DEF Told, Served
<1>3. CASE exec[f].phase \in {"awaiting", "declining"}
  <2>1. exec' = [exec EXCEPT ![f] = Idle] /\ Idle \in Execs /\ Idle.phase = "none"
    BY <1>3, ExecFacts DEF no_spec
  <2>2. (\E e \in Reports : send(f, e)) \/ UNCHANGED <<inbox, pending, unconfirmed>>
    <3>1. "preparation" \in Reports
      BY LinkAssumption DEF Reports
    <3> QED BY <3>1 DEF no_spec
  <2> QED BY <1>1, <1>2, <1>3, <2>1, <2>2, EndSound
<1>4. CASE exec[f].phase \notin {"awaiting", "declining"}
  <2>1. exec' = exec /\ UNCHANGED <<inbox, pending, unconfirmed>>
    BY <1>4 DEF no_spec
  <2> QED BY <1>1, <1>2, <2>1, TellWorkSound, WorkerAtRest
<1> QED BY <1>3, <1>4

\* The attempt starts, speaks and leaves.
LEMMA AttemptSound ==
  ASSUME LinkInv, NEW f \in Fences, spawn(f) \/ attempt_over(f) \/ \E e \in Reports : run_attempt(f, e)
  PROVE  LinkInv'
<1>0. exec \in [Fences -> Execs] /\ exec[f] \in Execs /\ OfferedOnce /\ outbox \in Seq(Outbound)
  BY WorkerAtRest
<1>1. exec[f].phase \in {"starting", "live"}
  BY DEF spawn, attempt_over, run_attempt
<1>2. Served(f) /\ Begun(f) /\ exec[f].phase # "none"
  BY <1>1 DEF Served, Begun
<1>3. UNCHANGED <<vars, opened, attached, serving, closed, peer, outbox, ctlVars, resending, leftovers, boundVars>>
  BY DEF spawn, attempt_over, run_attempt, netVars
<1>4. OfferedOnce' /\ outbox' \in Seq(Outbound) /\ ToSet(outbox') \subseteq ToSet(outbox)
  BY <1>0, <1>3, SameSets
<1>5. ASSUME NEW x \in Execs, exec' = [exec EXCEPT ![f] = x],
             (\E e \in Reports : send(f, e)) \/ UNCHANGED <<inbox, pending, unconfirmed>>,
             marker' \in {marker, marker \cup {f}, marker \ {f}}
      PROVE  LinkInv'
  BY <1>2, <1>3, <1>4, <1>5, EndSound
<1>6. CASE spawn(f)
  <2>1. CASE /\ exec' = [exec EXCEPT ![f].phase = "live", ![f].next = "preparation_started"]
             /\ marker' = marker \cup {f} /\ UNCHANGED <<inbox, pending, unconfirmed>>
    <3>1. PICK y : y = [exec[f] EXCEPT !.phase = "live"]
      OBVIOUS
    <3>2. PICK x : x = [y EXCEPT !.next = "preparation_started"]
      OBVIOUS
    <3>3. y \in Execs
      BY <1>0, <3>1, ExecFacts DEF Phases
    <3>4. x \in Execs
      BY <3>2, <3>3, ExecFacts DEF Nexts
    <3>5. exec' = [exec EXCEPT ![f] = x]
      BY <1>0, <2>1, <3>1, <3>2
    <3> QED BY <1>5, <2>1, <3>4, <3>5
  <2>2. CASE /\ exec' = [exec EXCEPT ![f] = Idle] /\ UNCHANGED marker
             /\ \E e \in {"preparation", "publication", "runtime"} \cap Classes : send(f, e)
    <3>1. \E e \in Reports : send(f, e)
      BY <2>2 DEF Reports
    <3> QED BY <1>5, <2>2, <3>1, ExecFacts
  <2> QED BY <1>6, <2>1, <2>2 DEF spawn
<1>7. CASE attempt_over(f)
  <2>1. /\ exec' = [exec EXCEPT ![f] = Idle] /\ marker' \in {marker, marker \ {f}}
        /\ UNCHANGED <<netVars, pending, unconfirmed>>
    BY <1>7 DEF attempt_over
  <2> QED BY <1>5, <2>1, ExecFacts DEF netVars
<1>8. ASSUME NEW e \in Reports, run_attempt(f, e) PROVE LinkInv'
  <2>1. PICK next \in {"prepare", "execute", "finalize", "over"} : exec' = [exec EXCEPT ![f].next = next]
    BY <1>8 DEF run_attempt
  <2>2. PICK x : x = [exec[f] EXCEPT !.next = next]
    OBVIOUS
  <2>3. x \in Execs
    BY <1>0, <2>2, ExecFacts DEF Nexts
  <2>4. exec' = [exec EXCEPT ![f] = x] /\ send(f, e) /\ marker' = marker
    BY <1>0, <1>8, <2>1, <2>2 DEF run_attempt
  <2> QED BY <1>5, <2>3, <2>4
<1> QED BY <1>6, <1>7, <1>8

\* The attempt is handed back: the worker lets go of it, or keeps it to say so later.
LEMMA HandBackSound ==
  ASSUME LinkInv, NEW f \in Fences, hand_back(f)
  PROVE  LinkInv'
<1>0. exec \in [Fences -> Execs] /\ exec[f] \in Execs
  BY WorkerAtRest
<1>1. /\ exec[f].phase \in {"awaiting", "declining"}
      /\ UNCHANGED <<vars, opened, attached, serving, closed, peer, outbox, ctlVars, unconfirmed, pending,
                     resending, pinged, marker, leftovers, boundVars>>
  BY DEF hand_back
<1>2. UNCHANGED <<deferred, beat, desk, pass, faults, crashes>>
  BY <1>1 DEF ctlVars, boundVars
<1>3. Decline(f) \in Inbound
  BY MessageFacts
<1>4. PICK x \in Execs :
        /\ exec' = [exec EXCEPT ![f] = x] /\ inbox' \in [Sessions -> Seq(Inbound)]
        /\ \/ Coming' \subseteq Coming \cup {Decline(f)} /\ x.phase = "none"
           \/ Coming' = Coming /\ x.phase = "declining"
  <2>1. CASE Transmit(<<Decline(f)>>) /\ exec' = [exec EXCEPT ![f] = Idle]
    BY <1>3, <2>1, TransmitOne, ExecFacts, WorkerAtRest
  <2>2. CASE exec' = [exec EXCEPT ![f].phase = "declining"] /\ UNCHANGED inbox
    <3>1. PICK x : x = [exec[f] EXCEPT !.phase = "declining"]
      OBVIOUS
    <3>2. x \in Execs /\ x.phase = "declining"
      BY <1>0, <3>1, ExecFacts DEF Phases
    <3>3. exec' = [exec EXCEPT ![f] = x]
      BY <1>0, <2>2, <3>1
    <3> QED BY <2>2, <3>2, <3>3, SameSets, WorkerAtRest
  <2> QED BY <2>1, <2>2 DEF hand_back
<1>5. exec' \in [Fences -> Execs] /\ exec'[f] = x /\ \A g \in Fences : g # f => exec'[g] = exec[g]
  BY <1>0, <1>4
<1>6. Unsent' = Unsent /\ OfferedOnce'
  BY <1>1, SameSets, WorkerAtRest
<1>7. ASSUME NEW g \in Fences
      PROVE  /\ (ReportOf(g, Coming)' => ReportOf(g, Coming)) /\ (ReportOf(g, Unsent)' => ReportOf(g, Unsent))
             /\ Decline(g) \in Coming' => Decline(g) \in Coming \/ g = f
             /\ Abandon(g) \in Coming' => Abandon(g) \in Coming
  <2>1. ~IsReport(Decline(f)) /\ (Decline(g) = Decline(f) => g = f) /\ Abandon(g) # Decline(f)
    BY DEF IsReport, Decline, Abandon
  <2> QED BY <1>4, <1>6, <2>1 DEF ReportOf, IsReport
<1>8. ASSUME NEW g \in Fences, g # f PROVE Works(g)
  BY <1>1, <1>2, <1>5, <1>7, <1>8, Untouched, WorkerAtRest
<1>9. Works(f)
  <2>1. f \notin leftovers
    BY <1>1, WorkerAtRest
  <2>2. ReportOf(f, Coming)' => Served(f)
    BY <1>7, WorkerAtRest
  <2>3. ReportOf(f, Unsent)' => Served(f)
    <3>1. ReportOf(f, Unsent) => ReportOf(f, Reporting)
      BY DEF ReportOf, Reporting
    <3> QED BY <1>7, <3>1, WorkerAtRest
  <2>4. unconfirmed'[f] # NoVerdict => Served(f)
    BY <1>1 DEF Served
  <2>5. Decline(f) \in Coming' => Decline(f) \in Coming \/ exec'[f].phase = "none"
    BY <1>4, <1>5
  <2>6. exec'[f].phase \in {"none", "declining"}
    BY <1>4, <1>5
  <2>7. Abandon(f) \in Coming' => HandedBack(f)
    BY <1>7, WorkerAtRest
  <2> QED BY <1>1, <1>2, <2>1, <2>2, <2>3, <2>4, <2>5, <2>6, <2>7 DEF Works
<1> QED BY <1>1, <1>2, <1>4, <1>5, <1>6, <1>8, <1>9, WorkStep, WorkerAtRest

\* The spec is asked for again.
LEMMA AskAgainSound ==
  ASSUME LinkInv, NEW f \in Fences, ask_again(f)
  PROVE  LinkInv'
<1>1. /\ exec[f].phase = "awaiting" /\ need_spec(f)
      /\ UNCHANGED <<vars, netVars, deferred, beat, pass, shield, execVars, boundVars>>
  BY DEF ask_again
<1>2. /\ UNCHANGED <<opened, attached, serving, closed, peer, inbox, outbox>> /\ UNCHANGED <<faults, crashes>>
      /\ UNCHANGED <<exec, unconfirmed, pending, resending, marker, leftovers>>
  BY <1>1 DEF netVars, execVars, boundVars
<1>3. DOMAIN desk' = Fences /\ \A g \in Fences : g # f => desk'[g] = desk[g]
  BY <1>1, WorkerAtRest DEF need_spec
<1>4. Coming' = Coming /\ Unsent' = Unsent /\ OfferedOnce'
  BY <1>2, SameSets, WorkerAtRest
<1>5. ASSUME NEW g \in Fences PROVE Works(g)
  <2>1. (ReportOf(g, Coming)' => ReportOf(g, Coming)) /\ (ReportOf(g, Unsent)' => ReportOf(g, Unsent))
    BY <1>4 DEF ReportOf, IsReport
  <2>2. desk'[g] # 0 => desk[g] # 0 \/ exec[g].phase # "none"
    BY <1>1, <1>3
  <2>3. ReportOf(g, Unsent) => Served(g)
    BY DEF Served, ReportOf, Reporting
  <2>4. unconfirmed'[g] # NoVerdict => Served(g)
    BY <1>2 DEF Served
  <2> QED BY <1>2, <1>4, <2>1, <2>2, <2>3, <2>4, WorkerAtRest DEF Works, Begun
<1> QED BY <1>1, <1>2, <1>3, <1>4, <1>5, WorkStep, WorkerAtRest

\* The due verdicts, one after the other.
LEMMA DueInTurn ==
  ASSUME LinkInv, NEW due \in SUBSET Unanswered
  PROVE  LET q == SetToSeq({Report(f, unconfirmed[f]) : f \in due})
         IN  /\ q \in Seq(Inbound)
             /\ \A m \in ToSet(q) : m \in ReportMsgs /\ m.fence \in due
<1> DEFINE D == {Report(f, unconfirmed[f]) : f \in due}
           g == [f \in due |-> Report(f, unconfirmed[f])]
<1>1. due \subseteq Fences /\ \A f \in due : unconfirmed[f] \in Reports
  <2>1. unconfirmed \in [Fences -> Verdicts \cup {NoVerdict}]
    BY WorkerAtRest
  <2> QED BY <2>1 DEF Unanswered, Verdicts, Reports
<1>2. IsFiniteSet(due)
  <2>1. IsFiniteSet(Fences)
    BY FS_Interval, SizesAssumption DEF Fences
  <2> QED BY <1>1, <2>1, FS_Subset
<1>3. IsFiniteSet(D)
  <2>1. g \in Surjection(due, D)
    BY DEF Surjection
  <2> QED BY <1>2, <2>1, FS_Surjection DEF ExistsSurjection
<1>4. \A m \in D : m \in ReportMsgs /\ m \in Inbound /\ m.fence \in due
  BY <1>1 DEF Report, ReportMsgs, Inbound, Messages
<1> HIDE DEF D
<1>5. SetToSeq(D) \in Seq(D) /\ ToSet(SetToSeq(D)) \subseteq D
  BY <1>3, SentInTurn
<1>6. PICK q : q = SetToSeq(D)
  OBVIOUS
<1>7. q \in Seq(Inbound)
  BY <1>4, <1>5, <1>6
<1> QED BY <1>4, <1>5, <1>6, <1>7 DEF D

\* A heartbeat's answer: verdicts are sent again or forgotten, attempts stopped and told.
LEMMA RenewedSound ==
  ASSUME LinkInv, NEW due \in SUBSET Unanswered, NEW stop, NEW cancels, renewed(due, stop, cancels)
  PROVE  LinkInv'
<1>1. /\ Message(Pong(stop, cancels)) /\ exec' = Canceled(Stopped(exec, stop), cancels)
      /\ UNCHANGED <<vars, opened, attached, serving, closed, peer, ctlVars, pending, resending, marker,
                     leftovers, boundVars>>
  BY DEF renewed
<1>2. UNCHANGED <<deferred, beat, desk, pass, faults, crashes>>
  BY <1>1 DEF ctlVars, boundVars
<1>3. outbox' \in Seq(Outbound) /\ OfferedOnce' /\ ToSet(outbox') \subseteq ToSet(outbox)
  BY <1>1, MessageAtRest
<1>4. exec' \in [Fences -> Execs] /\ \A f \in Fences : exec'[f].phase \in {"none", exec[f].phase}
  <2>0. exec \in [Fences -> Execs]
    BY WorkerAtRest
  <2>1. PICK ex : ex = Stopped(exec, stop)
    OBVIOUS
  <2>2. ex \in [Fences -> Execs] /\ \A f \in Fences : ex[f].phase \in {"none", exec[f].phase}
    BY <2>0, <2>1, StoppedFacts
  <2>3. exec' \in [Fences -> Execs] /\ \A f \in Fences : exec'[f].phase = ex[f].phase
    BY <1>1, <2>1, <2>2, CanceledFacts
  <2> QED BY <2>2, <2>3
<1>5. /\ unconfirmed' \in [Fences -> Verdicts \cup {NoVerdict}]
      /\ \A f \in Fences : unconfirmed'[f] \in {NoVerdict, unconfirmed[f]}
  <2>0. unconfirmed \in [Fences -> Verdicts \cup {NoVerdict}]
    BY WorkerAtRest
  <2>1. PICK gone : unconfirmed' = [f \in Fences |-> IF f \in gone \cup stop THEN NoVerdict ELSE unconfirmed[f]]
    BY DEF renewed
  <2> QED BY <2>0, <2>1
<1>6. PICK q : q = SetToSeq({Report(f, unconfirmed[f]) : f \in due})
  OBVIOUS
<1>7. q \in Seq(Inbound) /\ \A m \in ToSet(q) : m \in ReportMsgs /\ m.fence \in due
  BY <1>6, DueInTurn
<1>8. inbox' \in [Sessions -> Seq(Inbound)] /\ Coming' \subseteq Coming \cup ToSet(q)
  BY <1>6, <1>7, TransmitFacts, WorkerAtRest DEF renewed
<1>9. Unsent' = Unsent
  BY <1>1, SameSets
<1>10. ASSUME NEW g \in Fences PROVE Works(g)
  <2>1. ReportOf(g, Unsent)' => ReportOf(g, Unsent)
    BY <1>9 DEF ReportOf, IsReport
  <2>2. ReportOf(g, Coming)' => ReportOf(g, Coming) \/ g \in due
    BY <1>7, <1>8 DEF ReportOf, IsReport
  <2>3. g \in due => Served(g)
    BY DEF Unanswered, Served
  <2>4. (Decline(g) \in Coming' => Decline(g) \in Coming) /\ (Abandon(g) \in Coming' => Abandon(g) \in Coming)
    <3>1. Decline(g) \notin ReportMsgs /\ Abandon(g) \notin ReportMsgs
      BY DEF Decline, Abandon, ReportMsgs
    <3> QED BY <1>7, <1>8, <3>1
  <2> QED BY <1>1, <1>2, <1>4, <1>5, <2>1, <2>2, <2>3, <2>4, Untouched, WorkerAtRest
<1> QED BY <1>1, <1>2, <1>3, <1>4, <1>5, <1>8, <1>10, WorkStep, WorkerAtRest

\* The worker restarts: only its markers are left, and nothing of it is running.
LEMMA WorkerRestartSound ==
  ASSUME LinkInv, worker_restarts
  PROVE  LinkInv'
<1>1. /\ crashes > 0 /\ crashes' = crashes - 1 /\ attached' = FALSE /\ outbox' = <<>>
      /\ exec' = [f \in Fences |-> Idle] /\ unconfirmed' = [f \in Fences |-> NoVerdict]
      /\ pending' = <<>> /\ resending' = <<>> /\ leftovers' = marker
      /\ UNCHANGED <<vars, opened, serving, closed, peer, inbox, ctlVars, marker, faults>>
  BY DEF worker_restarts
<1>2. UNCHANGED <<deferred, beat, desk, pass>>
  BY <1>1 DEF ctlVars
<1>3. /\ <<>> \in Seq(Outbound) /\ <<>> \in Seq(ReportMsgs) /\ ToSet(<<>>) = {} /\ DOMAIN <<>> = {}
  BY DEF ToSet
<1>4. OfferedOnce' /\ ToSet(outbox') \subseteq ToSet(outbox) /\ outbox' \in Seq(Outbound)
  BY <1>1, <1>3 DEF OfferedOnce
<1>5. Coming' = Coming /\ Unsent' = {}
  BY <1>1, <1>3, SameSets DEF Unsent
<1>6. exec' \in [Fences -> Execs] /\ \A f \in Fences : exec'[f].phase = "none"
  BY <1>1, ExecFacts
<1>7. unconfirmed' \in [Fences -> Verdicts \cup {NoVerdict}] /\ \A f \in Fences : unconfirmed'[f] = NoVerdict
  BY <1>1
<1>8. ASSUME NEW g \in Fences PROVE Works(g)
  <2>1. ReportOf(g, Coming)' => ReportOf(g, Coming)
    BY <1>5 DEF ReportOf, IsReport
  <2>2. ~ReportOf(g, Unsent)'
    BY <1>5 DEF ReportOf
  <2>3. ReportOf(g, Coming)' => Served(g)
    BY <2>1, WorkerAtRest
  <2>4. Over(g)' /\ (Abandon(g) \in Coming' => HandedBack(g))
    BY <1>5, <1>6, <1>7, <2>2 DEF Over, HandedBack
  <2> QED BY <1>1, <1>2, <1>5, <1>6, <1>7, <2>2, <2>3, <2>4 DEF Works
<1>9. crashes' \in 0 .. MaxCrashes /\ attached' \in BOOLEAN
  <2>1. crashes \in 0 .. MaxCrashes /\ MaxCrashes \in Nat
    BY LinkAssumption, WorkerAtRest
  <2>2. crashes > 0 /\ crashes' = crashes - 1
    BY <1>1
  <2>3. crashes' \in 0 .. MaxCrashes
    BY <2>1, <2>2
  <2> QED BY <1>1, <2>3
<1>10. pending' \in Seq(ReportMsgs) /\ resending' \in Seq(ReportMsgs) /\ marker' \subseteq Fences /\ leftovers' \subseteq Fences
  BY <1>1, <1>3, WorkerAtRest
<1> QED BY <1>1, <1>2, <1>4, <1>6, <1>7, <1>8, <1>9, <1>10, WorkStep, WorkerAtRest

\* A marker found at the start is handed back.
LEMMA AbandonSound ==
  ASSUME LinkInv, NEW f \in Fences, abandon_leftover(f)
  PROVE  LinkInv'
<1>1. /\ Transmit(<<Abandon(f)>>) /\ leftovers' = leftovers \ {f} /\ marker' = marker \ {f}
      /\ UNCHANGED <<vars, opened, attached, serving, closed, peer, outbox, ctlVars, exec, unconfirmed, pending,
                     resending, pinged, boundVars>>
  BY DEF abandon_leftover
<1>2. UNCHANGED <<deferred, beat, desk, pass, faults, crashes>>
  BY <1>1 DEF ctlVars, boundVars
<1>3. Abandon(f) \in Inbound
  BY MessageFacts
<1>4. inbox' \in [Sessions -> Seq(Inbound)] /\ Coming' \subseteq Coming \cup {Abandon(f)}
  BY <1>1, <1>3, TransmitOne, WorkerAtRest
<1>5. OfferedOnce' /\ Unsent' = Unsent
  BY <1>1, SameSets, WorkerAtRest
<1>6. ASSUME NEW g \in Fences PROVE Works(g)
  <2>0. ~IsReport(Abandon(f)) /\ Decline(g) # Abandon(f) /\ (Abandon(g) = Abandon(f) => g = f) /\ f \in leftovers
    BY DEF IsReport, Abandon, Decline, abandon_leftover
  <2>1. /\ ReportOf(g, Coming)' => ReportOf(g, Coming)
        /\ Decline(g) \in Coming' => Decline(g) \in Coming
        /\ ReportOf(g, Unsent)' => ReportOf(g, Unsent)
    BY <1>4, <1>5, <2>0 DEF ReportOf, IsReport
  <2>2. g \in leftovers' => g \in leftovers /\ g \in marker'
    BY <1>1, WorkerAtRest
  <2>3. Abandon(g) \in Coming' => HandedBack(g)
    BY <1>4, <2>0 DEF HandedBack
  <2> QED BY <1>1, <1>2, <2>1, <2>2, <2>3, Untouched, WorkerAtRest
<1>7. marker' \subseteq Fences /\ leftovers' \subseteq Fences
  BY <1>1, WorkerAtRest
<1> QED BY <1>1, <1>2, <1>4, <1>5, <1>6, <1>7, WorkStep, WorkerAtRest

\* An offer is taken, with its acknowledgement, or declined. Nothing was known of it before.
LEMMA OfferedSound ==
  ASSUME LinkInv, NEW f \in Fences, offered(f)
  PROVE  LinkInv'
<1>0. exec \in [Fences -> Execs] /\ exec[f] \in Execs /\ LinkShapes
  BY WorkerAtRest
<1>1. /\ Message(ToWorker("offer", f))
      /\ UNCHANGED <<vars, opened, attached, serving, closed, peer, deferred, beat, pass, shield, unconfirmed,
                     pending, resending, pinged, marker, leftovers, boundVars>>
  BY DEF offered
<1>2. UNCHANGED <<faults, crashes, job, attempt, worker>>
  BY <1>1 DEF boundVars, vars
<1>3. /\ outbox' \in Seq(Outbound) /\ OfferedOnce' /\ ToSet(outbox') \subseteq ToSet(outbox)
      /\ Told("offer", f) /\ ~Told("offer", f)'
  <2>1. /\ outbox' \in Seq(Outbound) /\ OfferedOnce' /\ ToSet(outbox') \subseteq ToSet(outbox)
        /\ ToWorker("offer", f) \in ToSet(outbox) /\ ToWorker("offer", f) \notin ToSet(outbox')
    BY <1>1, MessageTaken, WorkerAtRest
  <2> QED BY <2>1 DEF Told, ToWorker
<1>4. /\ LinkSound(f) /\ Quiet(f) /\ Written(f) /\ ~(pass = "send" /\ job[J].fence = f)
  <2>1. LinkSound(f) /\ SendSound
    BY DEF LinkInv
  <2>2. Untold(f) /\ Written(f)
    BY <1>3, <2>1 DEF Untold, LinkSound
  <2>3. ~(pass = "send" /\ job[J].fence = f)
    BY <1>3, <2>1 DEF SendSound
  <2> QED BY <2>1, <2>2, <2>3 DEF LinkSound
<1>5. Ack(f) \in Inbound /\ Decline(f) \in Inbound
  BY MessageFacts
<1>6. PICK m \in {Ack(f), Decline(f)}, x \in Execs :
        /\ inbox' \in [Sessions -> Seq(Inbound)] /\ Coming' \subseteq Coming \cup {m}
        /\ exec' = [exec EXCEPT ![f] = x]
        /\ x.phase = IF m = Ack(f) THEN "awaiting" ELSE "none"
        /\ DOMAIN desk' = Fences /\ \A g \in Fences : g # f => desk'[g] = desk[g]
  <2>1. CASE /\ exec' = [exec EXCEPT ![f] = [Idle EXCEPT !.phase = "awaiting"]]
             /\ Transmit(<<Ack(f)>>) /\ need_spec(f)
    <3>1. PICK x : x = [Idle EXCEPT !.phase = "awaiting"]
      OBVIOUS
    <3>2. x \in Execs /\ x.phase = "awaiting"
      BY <3>1, ExecFacts DEF Phases
    <3>3. inbox' \in [Sessions -> Seq(Inbound)] /\ Coming' \subseteq Coming \cup {Ack(f)}
      BY <1>0, <1>5, <2>1, TransmitOne
    <3>4. DOMAIN desk' = Fences /\ \A g \in Fences : g # f => desk'[g] = desk[g]
      BY <2>1, WorkerAtRest DEF need_spec
    <3>5. exec' = [exec EXCEPT ![f] = x]
      BY <2>1, <3>1
    <3> QED BY <3>2, <3>3, <3>4, <3>5
  <2>2. CASE Transmit(<<Decline(f)>>) /\ UNCHANGED <<exec, desk>>
    <3>1. inbox' \in [Sessions -> Seq(Inbound)] /\ Coming' \subseteq Coming \cup {Decline(f)}
      BY <1>0, <1>5, <2>2, TransmitOne
    <3>2. exec[f].phase = "none" /\ Decline(f) # Ack(f)
      BY <1>4 DEF Quiet, Decline, Ack
    <3>3. exec' = [exec EXCEPT ![f] = exec[f]] /\ DOMAIN desk' = Fences /\ \A g \in Fences : desk'[g] = desk[g]
      BY <1>0, <2>2, WorkerAtRest
    <3> QED BY <1>0, <3>1, <3>2, <3>3
  <2> QED BY <2>1, <2>2 DEF offered
<1>7. exec' \in [Fences -> Execs] /\ exec'[f] = x /\ \A g \in Fences : g # f => exec'[g] = exec[g]
  BY <1>0, <1>6
<1>8. LinkShapes'
  BY <1>0, <1>1, <1>2, <1>3, <1>6, <1>7 DEF LinkShapes
<1>9. Unsent' = Unsent /\ Handling' = Handling /\ ~IsReport(m)
  BY <1>1, <1>6, SameSets DEF IsReport, Ack, Decline
<1>10. ASSUME NEW g \in Fences
       PROVE  /\ ReportOf(g, Coming)' => ReportOf(g, Coming)
              /\ ReportOf(g, Unsent)' => ReportOf(g, Unsent)
              /\ ReportOf(g, Reporting)' => ReportOf(g, Reporting)
  BY <1>1, <1>6, <1>9 DEF ReportOf, IsReport, Reporting
<1>11. ASSUME NEW g \in Fences, g # f PROVE LinkSound(g)'
  <2>1. (Decline(g) \in Coming' => Decline(g) \in Coming) /\ (Abandon(g) \in Coming' => Abandon(g) \in Coming)
    <3>1. Decline(g) # m /\ Abandon(g) # m
      BY <1>6, <1>11 DEF Ack, Decline, Abandon
    <3> QED BY <1>6, <3>1
  <2>2. Works(g)
    BY <1>1, <1>6, <1>7, <1>10, <1>11, <2>1, Untouched, WorkerAtRest
  <2>3. Steady(g, {})
    BY <1>1, <1>3, <2>2, SameSets, WorkSteady
  <2> QED BY <1>1, <2>3, KeptAtRest, SteadySound
<1>12. LinkSound(f)'
  <2>0. \A k : Told(k, f)' => Told(k, f)
    BY <1>3 DEF Told, ToWorker
  <2>1. Written(f)' /\ attempt'[J][f].worker = W
    BY <1>2, <1>4 DEF Written, LinkSound
  <2>2. Served(f)' => Past(f)'
    <3>1. x.phase \notin {"starting", "live"}
      BY <1>6
    <3>2. Served(f)' => Served(f)
      BY <1>1, <1>7, <1>10, <2>0, <3>1 DEF Served
    <3>3. Past(f) => Past(f)'
      BY <1>2 DEF Past
    <3> QED BY <1>4, <3>2, <3>3 DEF LinkSound
  <2>3. ~Untold(f)'
    BY <1>1, <1>2, <1>3, <1>4, <2>1 DEF Untold
  <2>4. Decline(f) \in Coming' => exec'[f].phase = "none"
    <3>1. Decline(f) # Ack(f)
      BY DEF Decline, Ack
    <3> QED BY <1>4, <1>6, <1>7, <3>1 DEF Quiet
  <2>5. ~HandedBack(f)'
    <3>1. f \notin leftovers' /\ Abandon(f) \notin Coming
      BY <1>1, <1>4 DEF Quiet, LinkSound
    <3>2. Abandon(f) # m
      BY <1>6 DEF Ack, Decline, Abandon
    <3> QED BY <1>6, <3>1, <3>2 DEF HandedBack, Abandon
  <2>6. ~Begun(f)'
    BY <1>4, <1>6, <1>7, <2>0 DEF Begun, Quiet
  <2>7. Decline(f)' = Decline(f)
    BY DEF Decline
  <2>8. f \notin leftovers'
    BY <2>5 DEF HandedBack
  <2> QED BY <1>3, <2>1, <2>2, <2>3, <2>4, <2>5, <2>6, <2>7, <2>8 DEF LinkSound
<1>13. SendSound'
  <2> SUFFICES ASSUME pass' = "send"
               PROVE  job'[J].fence \in Fences /\ Written(job[J].fence)' /\ ~Told("offer", job[J].fence)'
    BY DEF SendSound
  <2>1. job[J].fence \in Fences /\ Written(job[J].fence) /\ ~Told("offer", job[J].fence)
    BY <1>1 DEF LinkInv, SendSound
  <2> QED BY <1>2, <1>3, <2>1 DEF Written, Told, ToWorker
<1>14. Live(W)' /\ leftovers' \subseteq Fences
  BY <1>1, <1>2 DEF LinkInv, Live
<1> QED BY <1>3, <1>8, <1>11, <1>12, <1>13, <1>14 DEF LinkInv

-----------------------------------------------------------------------------
(* The theorems of the link.                                               *)

\* The link starts with nothing on it.
LEMMA LinkStarts ==
  ASSUME LinkInit
  PROVE  LinkInv
<1>1. /\ opened = 0 /\ attached = FALSE /\ serving = {} /\ peer = 0
      /\ inbox = [s \in Sessions |-> <<>>] /\ outbox = <<>>
      /\ deferred = <<>> /\ beat = [s \in Sessions |-> NoBeat] /\ desk = [f \in Fences |-> 0]
      /\ pass = "idle" /\ exec = [f \in Fences |-> Idle] /\ unconfirmed = [f \in Fences |-> NoVerdict]
      /\ pending = <<>> /\ resending = <<>> /\ marker = {} /\ leftovers = {}
      /\ faults = MaxFaults /\ crashes = MaxCrashes
  BY DEF LinkInit
<1>2. \A S : <<>> \in Seq(S)
  OBVIOUS
<1>3. ToSet(<<>>) = {} /\ Len(<<>>) = 0 /\ DOMAIN <<>> = {}
  BY DEF ToSet
<1>4. LinkShapes
  <2>1. opened \in 0 .. MaxSessions /\ serving \subseteq 1 .. opened /\ peer \in 0 .. opened
          /\ Len(deferred) <= MaxDeferred /\ faults \in 0 .. MaxFaults /\ crashes \in 0 .. MaxCrashes
    BY <1>1, <1>3, LinkAssumption
  <2>2. attached \in BOOLEAN
    BY <1>1
  <2>3. /\ inbox \in [Sessions -> Seq(Inbound)] /\ outbox \in Seq(Outbound)
        /\ deferred \in Seq(Messages) /\ pending \in Seq(ReportMsgs) /\ resending \in Seq(ReportMsgs)
    BY <1>1, <1>2
  <2>4. beat \in [Sessions -> Beats] /\ \A s \in Sessions : beat[s].doing # "defer"
    BY <1>1, NoBeatFacts
  <2>5. exec \in [Fences -> Execs]
    BY <1>1, ExecFacts
  <2> QED BY <1>1, <2>1, <2>2, <2>3, <2>4, <2>5 DEF LinkShapes
<1>5. OfferedOnce /\ SendSound /\ leftovers \subseteq Fences
  BY <1>1, <1>3 DEF OfferedOnce, SendSound
<1>6. Live(W)
  BY OneJobFacts DEF LinkInit, Init, Live
<1>7. Coming = {} /\ Handling = {} /\ Unsent = {} /\ Reporting = {} /\ \A k, f : ~Told(k, f)
  <2>1. Coming = {} /\ Handling = {} /\ Unsent = {}
    BY <1>1, <1>3, NoBeatFacts DEF Coming, Handling, Unsent
  <2> QED BY <1>1, <1>3, <2>1 DEF Reporting, Told
<1>8. ASSUME NEW f \in Fences PROVE LinkSound(f)
  <2>1. attempt[J][f].status = "none"
    BY OneJobFacts DEF LinkInit, Init, NoAttempt
  <2>2. exec[f].phase = "none" /\ unconfirmed[f] = NoVerdict /\ desk[f] = 0
    BY <1>1, ExecFacts
  <2>3. ~ReportOf(f, Reporting)
    BY <1>7 DEF ReportOf
  <2>4. ~Served(f) /\ Quiet(f) /\ ~Begun(f) /\ ~HandedBack(f)
    BY <1>1, <1>7, <2>2, <2>3 DEF Served, Quiet, Begun, HandedBack
  <2> QED BY <1>1, <1>7, <2>1, <2>4 DEF LinkSound, Written
<1> QED BY <1>4, <1>5, <1>6, <1>8 DEF LinkInv

\* Nothing moves.
LEMMA LinkAtRest ==
  ASSUME LinkInv, UNCHANGED linkVars
  PROVE  LinkInv'
<1>1. /\ UNCHANGED vars
      /\ UNCHANGED <<opened, attached, serving, closed, peer, inbox, outbox, deferred, beat, desk, pass, execVars,
                     faults, crashes>>
      /\ UNCHANGED <<pending, resending>>
  BY DEF linkVars, netVars, ctlVars, boundVars, execVars
<1>2. Coming' = Coming /\ Reporting' = Reporting
  BY <1>1, SameSets DEF Reporting
<1>3. StoreKept({})
  BY <1>1, KeptAtRest
<1> QED BY <1>1, <1>2, <1>3, StoreStep, QueueAtRest

\* Every step keeps the invariant, one lemma per action.
LEMMA LinkSteps ==
  ASSUME IInv, Unwritten, LinkInv, [LinkNext]_linkVars
  PROVE  LinkInv'
<1>1. ASSUME NEW s \in Sessions, SessionThread(s) PROVE LinkInv'
  BY <1>1, RegisterSound, PongSound, DeferSound, PingSound, ReceiveSound, DeclinedSound DEF SessionThread
<1>2. CASE Connection
  BY <1>2, ConnectSound, DetachedSound, SessionEndSound DEF Connection
<1>3. CASE Controller
  <2>1. Retries => LinkInv'
    BY PassSound DEF Retries
  <2> QED BY <1>1, <1>3, <2>1, ResolveSound, CancelPushSound, PassSound, PlacementSound, SendOfferSound,
             ControllerRestartSound DEF Controller
<1>4. CASE Executor
  BY <1>4, ResendSound, HeartbeatSound, ToldSound, WorkerRestartSound, RenewedSound, OfferedSound,
     AcceptSpecSound, NoSpecSound, AskAgainSound, HandBackSound, AttemptSound, AbandonSound DEF Executor
<1>5. CASE Others
  BY <1>5, OthersSound
<1>6. CASE UNCHANGED linkVars
  BY <1>6, LinkAtRest
<1> QED BY <1>2, <1>3, <1>4, <1>5, <1>6 DEF LinkNext

\* What the link knows of an attempt agrees with the store, whatever is lost, late or restarted:
\* an attempt is offered once, nothing of it is done before it is offered, and nothing of it is
\* served or reported before the store has its acknowledgement.
THEOREM LinkInvariant == LinkSpec => []LinkInv
<1>1. LinkInit => LinkInv
  BY LinkStarts
<1>2. IInv /\ Unwritten /\ LinkInv /\ [LinkNext]_linkVars => LinkInv'
  BY LinkSteps
<1>3. LinkSpec => []IInv /\ []Unwritten
  BY LinkImplementsDispatch, DispatchInvariant, LeasesWriteFreshRows, PTL DEF ImplementsDispatch
<1> QED BY <1>1, <1>2, <1>3, PTL DEF LinkSpec

\* Connections, queues and reports hold what they are meant to (the deferred queue at most
\* MAX_DEFERRED messages).
THEOREM LinkIsWellTyped == LinkSpec => []LinkTypeOK
<1>1. LinkInv /\ SessionInv => LinkTypeOK
  <2> SUFFICES ASSUME LinkInv, SessionInv PROVE LinkTypeOK
    OBVIOUS
  <2>0. LinkShapes
    BY DEF LinkInv
  <2>1. ASSUME NEW s \in Sessions PROVE ToSet(inbox[s]) \subseteq Messages \cup {Ping(hs) : hs \in SUBSET Fences}
    <3>1. inbox[s] \in Seq(Inbound)
      BY <2>0 DEF LinkShapes
    <3>2. ToSet(inbox[s]) \subseteq Inbound
      BY <3>1, SeqFacts
    <3> QED BY <3>2 DEF Inbound
  <2>2. ToSet(deferred) \subseteq Messages
    BY <2>0, SeqFacts DEF LinkShapes
  <2>3. ToSet(pending) \subseteq ReportMsgs /\ ToSet(resending) \subseteq ReportMsgs
    BY <2>0, SeqFacts DEF LinkShapes
  <2>4. ReportMsgs \subseteq Messages
    BY DEF ReportMsgs, Messages
  <2>5. leftovers \subseteq marker
    BY WorkerAtRest
  <2> QED BY <2>0, <2>1, <2>2, <2>3, <2>4, <2>5 DEF LinkTypeOK, LinkShapes, SessionInv
<1> QED BY <1>1, LinkInvariant, FleetInvariant, PTL

\* A report never reaches the controller before its acknowledgement was written: none is on
\* a connection, in the queue or on the worker for an offer that is still unanswered.
THEOREM ReportsComeAfterTheAck == LinkSpec => []ReportsFollowAck
<1>1. LinkInv => ReportsFollowAck
  <2> SUFFICES ASSUME LinkInv, NEW f \in Fences, attempt[J][f].status = "offered",
                      NEW m \in (UNION {ToSet(inbox[s] \o beat[s].late) : s \in Sessions}) \cup ToSet(deferred)
                                  \cup ToSet(pending) \cup ToSet(resending),
                      IsReport(m), m.fence = f
               PROVE  FALSE
    BY DEF ReportsFollowAck
  <2> DEFINE U == UNION {ToSet(inbox[s] \o beat[s].late) : s \in Sessions}
  <2>0. m \in U \cup ToSet(deferred) \cup ToSet(pending) \cup ToSet(resending)
    OBVIOUS
  <2> HIDE DEF U
  <2>1. m \in Reporting
    <3>1. CASE m \in ToSet(deferred) \cup ToSet(pending) \cup ToSet(resending)
      BY <3>1 DEF Reporting, Unsent
    <3>2. ASSUME NEW s \in Sessions, m \in ToSet(inbox[s] \o beat[s].late) PROVE m \in Reporting
      <4>1. inbox[s] \in Seq(Inbound) /\ beat[s].late \in Seq(Messages)
        BY QueueAtRest DEF Beats
      <4>2. beat[s].late \in Seq(Inbound)
        <5>1. Messages \subseteq Inbound
          BY DEF Inbound
        <5> QED BY <4>1, <5>1
      <4>3. ToSet(inbox[s] \o beat[s].late) = ToSet(inbox[s]) \cup ToSet(beat[s].late)
        BY <4>1, <4>2, SeqFacts
      <4>4. m \in ToSet(inbox[s]) \/ m \in ToSet(beat[s].late)
        BY <3>2, <4>3
      <4> QED BY <4>4 DEF Reporting, Coming, Handling
    <3>3. m \in U => \E s \in Sessions : m \in ToSet(inbox[s] \o beat[s].late)
      BY DEF U
    <3>4. m \in U \/ m \in ToSet(deferred) \cup ToSet(pending) \cup ToSet(resending)
      BY <2>0
    <3> QED BY <3>1, <3>2, <3>3, <3>4
  <2>2. Served(f)
    BY <2>1 DEF Served, ReportOf
  <2> QED BY <2>2 DEF LinkInv, LinkSound, Past
<1> QED BY <1>1, LinkInvariant, PTL

\* Work that started is not handed to anyone else: the offer of a running attempt has not
\* lapsed, unless a cancel was settled before the spec arrived (spec_gate).
THEOREM StartedWorkStays == LinkSpec => []StartedIsNotRequeued
<1>1. LinkInv => StartedIsNotRequeued
  BY DEF LinkInv, LinkSound, StartedIsNotRequeued, Begun
<1> QED BY <1>1, LinkInvariant, PTL

\* Only what a dead process left is handed back: an attempt with a leftover or an abandonment
\* on its way is not run, not named in a heartbeat and has no report to send (recover, attached,
\* abandon_leftovers).
THEOREM OnlyTheDeadAreAbandoned == LinkSpec => []AbandonedIsOver
<1>1. LinkInv => AbandonedIsOver
  <2> SUFFICES ASSUME LinkInv, NEW f \in Fences,
                      f \in leftovers \/ (\E s \in Sessions : Contains(inbox[s], Abandon(f)))
               PROVE  /\ exec[f].phase = "none" /\ f \notin held
                      /\ \A m \in ToSet(pending) \cup ToSet(resending) : m.fence # f
    BY DEF AbandonedIsOver
  <2>1. HandedBack(f)
    <3>1. ASSUME NEW s \in Sessions, Contains(inbox[s], Abandon(f)) PROVE Abandon(f) \in Coming
      <4>1. inbox[s] \in Seq(Inbound)
        BY WorkerAtRest
      <4>2. PICK i \in 1 .. Len(inbox[s]) : inbox[s][i] = Abandon(f)
        BY <3>1 DEF Contains
      <4>3. i \in DOMAIN inbox[s]
        BY <4>1
      <4>4. Abandon(f) \in ToSet(inbox[s])
        BY <4>2, <4>3 DEF ToSet
      <4> QED BY <4>4 DEF Coming
    <3> QED BY <3>1 DEF HandedBack
  <2>2. Over(f)
    BY <2>1 DEF LinkInv, LinkSound
  <2>3. f \notin held
    BY <2>2 DEF Over, held
  <2>4. ASSUME NEW m \in ToSet(pending) \cup ToSet(resending) PROVE m.fence # f
    <3>1. m \in Unsent
      BY DEF Unsent
    <3>2. ToSet(pending) \subseteq ReportMsgs /\ ToSet(resending) \subseteq ReportMsgs
      BY SeqFacts, WorkerAtRest
    <3>3. IsReport(m)
      BY <3>2 DEF ReportMsgs, IsReport
    <3> QED BY <2>2, <3>1, <3>3 DEF Over, ReportOf
  <2> QED BY <2>2, <2>3, <2>4 DEF Over
<1> QED BY <1>1, LinkInvariant, PTL
=============================================================================

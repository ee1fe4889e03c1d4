------------------------------- MODULE Lease --------------------------------
(***************************************************************************)
(* The two clocks of a lease.  The controller gives an attempt a lease of  *)
(* LEASE from its placement and again from the processing of every         *)
(* heartbeat that names it; the worker keeps ONE deadline for all it runs, *)
(* measured on its own clock from an offer's arrival or from the sending   *)
(* of the heartbeat that was answered, less LEASE_GUARD, and a watchdog    *)
(* that looks at it every WATCHDOG.                                        *)
(*                                                                         *)
(* Time passes by Tick, and every instant is kept as the time left to it   *)
(* or passed since it, as far as anyone compares it: nothing bounds how    *)
(* long a behaviour goes on.  Both clocks run at one rate, and the         *)
(* watchdog is on time.  Verdicts, cancellation and the hand-back of an    *)
(* attempt are in Link; here an attempt that ends is over on both sides.   *)
(***************************************************************************)
EXTENDS Integers, Sequences, SequencesExt, FiniteSetsExt

CONSTANTS
    Leased,       \* the names of attempts
    LEASE,        \* DEFAULT_LEASE_MS, on both sides
    LEASE_GUARD,
    WATCHDOG,     \* WATCHDOG_INTERVAL
    OFFER_ACK,    \* OFFER_ACK_MS
    HEARTBEAT,    \* HEARTBEAT_DEADLINE
    MailBound     \* messages in flight in one direction

ASSUME LeaseBounds ==
    /\ {LEASE, LEASE_GUARD, WATCHDOG, OFFER_ACK, HEARTBEAT, MailBound} \subseteq Nat \ {0}
    /\ WATCHDOG <= LEASE_GUARD /\ LEASE_GUARD < LEASE

VARIABLES
    leases,    \* the controller's attempts: state, time left of the lease, and
               \* whether a heartbeat renewed it
    deferred,  \* attempts whose Ack waits for the store
    asks,      \* attempts whose spec is asked for: a thread of its own answers
    hands,     \* the worker's attempts: awaiting their spec, or live; an awaiting
               \* one is missed after the watchdog has ended the others, and a
               \* live one late when it was missed or the deadline had passed
    deadline,  \* time left to State::lease_deadline
    up, down,  \* the session's two directions
    beating    \* whether a Ping is not answered

leaseVars == <<leases, deferred, asks, hands, deadline, up, down, beating>>

None == "none"
NoDeadline == LEASE
Released == [state |-> "released", left |-> -1, renewed |-> FALSE]
In(state) == {a \in Leased : leases[a].state = state}
Waits(a) == hands[a] \in {"awaiting", "missed"}
Runs(a) == hands[a] \in {"live", "late"}
Message(k, a) == [kind |-> k, attempt |-> a]
Uncrowded(queue) == Len(queue) < MailBound

------------------------------------------------------------------------------
place(a) ==
    /\ leases[a].state = None
    /\ Uncrowded(down)
    /\ leases' = [leases EXCEPT ![a] = [state |-> "offered", left |-> LEASE,
                                        renewed |-> FALSE]]
    /\ down' = Append(down, Message("offer", a))
    /\ UNCHANGED <<deferred, asks, hands, deadline, up, beating>>

\* The Ack, and the request for the spec that follows it at once.
offered ==
    /\ down # <<>> /\ Head(down).kind = "offer"
    /\ Uncrowded(up)
    /\ LET a == Head(down).attempt IN
         /\ hands' = [hands EXCEPT ![a] = "awaiting"]
         /\ up' = Append(up, Message("ack", a))
         /\ asks' = asks \cup {a}
    /\ deadline' = IF deadline = NoDeadline THEN LEASE - LEASE_GUARD ELSE deadline
    /\ down' = Tail(down)
    /\ UNCHANGED <<leases, deferred, beating>>

Acked(a) == [leases EXCEPT ![a].state = IF @ = "offered" THEN "acked" ELSE @]

\* A store that cannot take the acknowledgement now leaves it in the queue.
acknowledge ==
    /\ up # <<>> /\ Head(up).kind = "ack"
    /\ LET a == Head(up).attempt IN
         \/ leases' = Acked(a) /\ UNCHANGED deferred
         \/ deferred' = deferred \cup {a} /\ UNCHANGED leases
    /\ up' = Tail(up)
    /\ UNCHANGED <<asks, hands, deadline, down, beating>>

retry_deferred ==
    \E a \in deferred :
        /\ leases' = Acked(a)
        /\ deferred' = deferred \ {a}
        /\ UNCHANGED <<asks, hands, deadline, up, down, beating>>

\* The gate waits for the acknowledgement, for a while, and does not look at
\* the lease.
spec_gate(a) ==
    /\ a \in asks
    /\ asks' = asks \ {a}
    /\ \/ /\ leases[a].state = "acked"
          /\ Uncrowded(down)
          /\ down' = Append(down, Message("spec", a))
       \/ leases[a].state # "acked" /\ UNCHANGED down
    /\ UNCHANGED <<leases, deferred, hands, deadline, up, beating>>

accept_spec ==
    /\ down # <<>> /\ Head(down).kind = "spec"
    /\ LET a == Head(down).attempt IN
         hands' = [hands EXCEPT ![a] =
             CASE @ = "awaiting" /\ deadline > 0 -> "live"
               [] (@ = "awaiting" /\ deadline <= 0) \/ @ = "missed" -> "late"
               [] OTHER -> @]
    /\ down' = Tail(down)
    /\ UNCHANGED <<leases, deferred, asks, deadline, up, beating>>

\* watch_specs, after SPEC_RETRY.
AskAgain(a) ==
    /\ Waits(a) /\ a \notin asks
    /\ asks' = asks \cup {a}
    /\ UNCHANGED <<leases, deferred, hands, deadline, up, down, beating>>

------------------------------------------------------------------------------
(***************************************************************************)
(* The heartbeat.  `since' is how long ago the Ping was sent, and is kept  *)
(* by the worker: it does not travel.                                      *)
(***************************************************************************)
Ping ==
    /\ ~beating
    /\ Uncrowded(up)
    /\ up' = Append(up, [kind |-> "ping", since |-> 0,
                         held |-> {a \in Leased : hands[a] # None}])
    /\ beating' = TRUE
    /\ UNCHANGED <<leases, deferred, asks, hands, deadline, down>>

Renewable(a) == leases[a].state = "acked" /\ leases[a].left >= 0

\* What is not renewed is to be stopped, unless its Ack is only late.
renew ==
    /\ up # <<>> /\ Head(up).kind = "ping"
    /\ LET beat == Head(up) IN
         /\ leases' = [a \in Leased |->
                IF a \in beat.held /\ Renewable(a)
                THEN [leases[a] EXCEPT !.left = LEASE, !.renewed = TRUE]
                ELSE leases[a]]
         /\ down' = Append(down, [kind |-> "pong", since |-> beat.since,
                stop |-> {a \in beat.held : ~Renewable(a)} \ deferred])
    /\ up' = Tail(up)
    /\ UNCHANGED <<deferred, asks, hands, deadline, beating>>

Measured_on_arrival(since) == LEASE - LEASE_GUARD
Measured(since) == LEASE - LEASE_GUARD - since

renewed_at ==
    /\ down # <<>> /\ Head(down).kind = "pong"
    /\ deadline' = Measured(Head(down).since)
    /\ hands' = [a \in Leased |->
           CASE a \in Head(down).stop -> None
             [] hands[a] = "missed" /\ a \notin Head(down).stop -> "awaiting"
             [] hands[a] = "late" /\ a \notin Head(down).stop /\ deadline' > 0 -> "live"
             [] OTHER -> hands[a]]
    /\ beating' = FALSE
    /\ down' = Tail(down)
    /\ UNCHANGED <<leases, deferred, asks, up>>

\* What was in flight is lost; the next session's `attached' asks for every
\* spec that is missing, before the first heartbeat.
SessionLost ==
    /\ up' = <<>> /\ down' = <<>>
    /\ asks' = {}
    /\ beating' = FALSE
    /\ UNCHANGED <<leases, deferred, hands, deadline>>

------------------------------------------------------------------------------
watch_lease ==
    /\ deadline <= 0
    /\ \E a \in Leased : Runs(a)
    /\ deadline' = NoDeadline
    /\ hands' = [a \in Leased |-> IF Waits(a) THEN "missed" ELSE None]
    /\ UNCHANGED <<leases, deferred, asks, up, down, beating>>

expire(a) ==
    /\ leases[a].state = "acked" /\ leases[a].left < 0
    /\ leases' = [leases EXCEPT ![a].state = "expired"]
    /\ UNCHANGED <<deferred, asks, hands, deadline, up, down, beating>>

lapse(a) ==
    /\ leases[a].state = "offered" /\ leases[a].left <= LEASE - OFFER_ACK
    /\ a \notin deferred
    /\ leases' = [leases EXCEPT ![a] = Released]
    /\ UNCHANGED <<deferred, asks, hands, deadline, up, down, beating>>

AttemptEnds(a) ==
    /\ Runs(a)
    /\ hands' = [hands EXCEPT ![a] = None]
    /\ leases' = [leases EXCEPT ![a] = IF @.state = "acked" THEN Released ELSE @]
    /\ UNCHANGED <<deferred, asks, deadline, up, down, beating>>

\* SPEC_DEADLINE, a decline, a stop of the worker.
HandBack(a) ==
    /\ Waits(a)
    /\ hands' = [hands EXCEPT ![a] = None]
    /\ leases' = [leases EXCEPT ![a] = IF @.state \in {"offered", "acked"} THEN Released ELSE @]
    /\ UNCHANGED <<deferred, asks, deadline, up, down, beating>>

Aged(queue) ==
    [i \in DOMAIN queue |->
        IF queue[i].kind \in {"ping", "pong"}
        THEN [queue[i] EXCEPT !.since = @ + 1] ELSE queue[i]]

\* The watchdog looks in time, and a session whose answer is late is lost.
Tick ==
    /\ \A m \in ToSet(up) \cup ToSet(down) :
           m.kind \in {"ping", "pong"} => m.since < HEARTBEAT
    /\ ~(deadline <= -WATCHDOG /\ \E a \in Leased : Runs(a))
    /\ leases' = [a \in Leased |-> [leases[a] EXCEPT !.left = Max({@ - 1, -1})]]
    /\ deadline' = IF deadline = NoDeadline THEN NoDeadline ELSE Max({deadline - 1, -WATCHDOG})
    /\ up' = Aged(up)
    /\ down' = Aged(down)
    /\ UNCHANGED <<deferred, asks, hands, beating>>

------------------------------------------------------------------------------
LeaseInit ==
    /\ leases = [a \in Leased |-> [state |-> None, left |-> -1, renewed |-> FALSE]]
    /\ deferred = {} /\ asks = {}
    /\ hands = [a \in Leased |-> None]
    /\ deadline = NoDeadline
    /\ up = <<>> /\ down = <<>>
    /\ beating = FALSE

LeaseNext ==
    \/ offered \/ acknowledge \/ retry_deferred \/ accept_spec
    \/ Ping \/ renew \/ renewed_at \/ SessionLost \/ watch_lease \/ Tick
    \/ \E a \in Leased :
           \/ place(a) \/ spec_gate(a) \/ AskAgain(a) \/ expire(a) \/ lapse(a)
           \/ AttemptEnds(a) \/ HandBack(a)

LeaseSpec == LeaseInit /\ [][LeaseNext]_leaseVars

------------------------------------------------------------------------------
(***************************************************************************)
(* The worker ends its work before the controller could have expired it:   *)
(* once a heartbeat has renewed an attempt, the worker no longer runs it   *)
(* when its lease has expired, whatever heartbeats, answers and sessions   *)
(* were late or lost, and whatever other attempts share its deadline.      *)
(* Before its first renewal, and when its spec came after the deadline,    *)
(* the code does not promise it.  (executor.rs renewed_at and watch_lease, *)
(* dispatch.rs renew; docs/cancellation.md, "Lease expiry")                *)
(***************************************************************************)
WorkEndsFirst ==
    \A a \in In("expired") : leases[a].renewed => hands[a] # "live"

==============================================================================

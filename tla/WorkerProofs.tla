---------------------------- MODULE WorkerProofs -----------------------------
(***************************************************************************)
(* The proofs about the worker's two standing promises: Lease, that it     *)
(* stops in time, and LogStream, that its log is not lost in silence.      *)
(***************************************************************************)
EXTENDS Lease, LogStream, TLAPS, WellFoundedInduction, FiniteSetTheorems, SequenceTheorems

------------------------------------------------------------------------------
(***************************************************************************)
(* The lease.  For any number of attempts, any lease, heartbeat deadline   *)
(* and queue, a renewed attempt is no longer run when its lease has        *)
(* expired, as long as the watchdog's interval fits into the guard.        *)
(*                                                                         *)
(* The argument is about differences of times: the worker's deadline lies  *)
(* LEASE_GUARD before the end of every renewed lease it runs under, and an *)
(* answer on its way promises as much for the deadline it will set.  That  *)
(* an answer speaks for every renewed attempt rests on the handshake: an   *)
(* offer and its acknowledgement pass once, before the first renewal.      *)
(***************************************************************************)

LeaseStates == {None, "offered", "acked", "expired", "released"}
LeaseRow == [state : LeaseStates, left : Int, renewed : BOOLEAN]
Hand == {None, "awaiting", "missed", "live", "late"}
UpMail == [kind : {"ack"}, attempt : Leased]
            \cup [kind : {"ping"}, since : Nat, held : SUBSET Leased]
DownMail == [kind : {"offer", "spec"}, attempt : Leased]
            \cup [kind : {"pong"}, since : Nat, stop : SUBSET Leased]

LeaseTypes ==
    /\ leases \in [Leased -> LeaseRow]
    /\ deferred \in SUBSET Leased /\ asks \in SUBSET Leased
    /\ hands \in [Leased -> Hand]
    /\ deadline \in Int
    /\ up \in Seq(UpMail) /\ down \in Seq(DownMail)
    /\ beating \in BOOLEAN

Carries(queue, k, a) == \E i \in DOMAIN queue : queue[i].kind = k /\ queue[i].attempt = a
Once(queue, k) ==
    \A i, j \in DOMAIN queue :
       queue[i].kind = k /\ queue[j].kind = k /\ queue[i].attempt = queue[j].attempt => i = j

(* An attempt whose offer or acknowledgement is still on its way. *)
Fresh(a) == Carries(down, "offer", a) \/ Carries(up, "ack", a) \/ a \in deferred

(* The handshake: an attempt is offered once and acknowledged once, and    *)
(* until the store has the acknowledgement nothing renews it.              *)
Handshake ==
    /\ Once(down, "offer") /\ Once(up, "ack")
    /\ \A a \in Leased :
          /\ Carries(down, "offer", a) => ~Carries(up, "ack", a) /\ a \notin deferred
          /\ Carries(up, "ack", a) => a \notin deferred
          /\ Fresh(a) => leases[a].state \in {"offered", "released"}
          /\ leases[a].state \in {None, "offered"} \/ Fresh(a) => ~leases[a].renewed

Has(queue, k) == \E i \in DOMAIN queue : queue[i].kind = k
Sole(queue, k) == \A i, j \in DOMAIN queue : queue[i].kind = k /\ queue[j].kind = k => i = j

(* One heartbeat at a time, asked or answered. *)
Beats ==
    /\ Sole(up, "ping") /\ Sole(down, "pong")
    /\ ~(Has(up, "ping") /\ Has(down, "pong"))
    /\ Has(up, "ping") \/ Has(down, "pong") => beating

(* The times: an expired lease has passed; a deadline is a guard before    *)
(* the lease an offer has, at the latest; no lease has less than nothing.  *)
Times ==
    /\ deadline = NoDeadline \/ deadline <= LEASE - LEASE_GUARD
    /\ \A a \in Leased : leases[a].left >= -1 /\ (leases[a].state = "expired" => leases[a].left = -1)

Held(a) == hands[a] # None /\ leases[a].renewed

(* A Ping names every renewed attempt the worker has, and what a Pong does *)
(* not stop has the lease that was given after the Ping was sent.          *)
Answered ==
    /\ \A i \in DOMAIN up : up[i].kind = "ping" =>
          \A a \in Leased : Held(a) => a \in up[i].held
    /\ \A i \in DOMAIN down : down[i].kind = "pong" =>
          \A a \in Leased : Held(a) /\ a \notin down[i].stop =>
             leases[a].left >= LEASE - down[i].since

(* The deadline lies a guard before the end of every renewed lease the     *)
(* worker runs under, which has not passed; for an attempt that waits for  *)
(* its spec, until the deadline is further past than the watchdog lets it. *)
Guarded ==
    /\ \A a \in Leased : hands[a] \in {"live", "awaiting"} => deadline # NoDeadline
    /\ \A a \in Leased : hands[a] = "live" /\ leases[a].renewed =>
          leases[a].left >= 0 /\ leases[a].left >= deadline + LEASE_GUARD
    /\ \A a \in Leased : hands[a] = "awaiting" /\ leases[a].renewed /\ deadline > -WATCHDOG =>
          leases[a].left >= deadline + LEASE_GUARD

LeaseInv == LeaseTypes /\ Handshake /\ Beats /\ Times /\ Answered /\ Guarded

-----------------------------------------------------------------------------
(* Queues.                                                                 *)

\* What is left of a queue stands one place further on.
LEMMA TailMail ==
  ASSUME NEW S, NEW q \in Seq(S), q # <<>>
  PROVE  /\ Tail(q) \in Seq(S) /\ Head(q) \in S
         /\ 1 \in DOMAIN q /\ Head(q) = q[1]
         /\ \A i \in DOMAIN Tail(q) : i + 1 \in DOMAIN q /\ Tail(q)[i] = q[i + 1] /\ i + 1 # 1
         /\ DOMAIN Tail(q) \subseteq Int
OBVIOUS

\* A queue with one message more.
LEMMA AppendMail ==
  ASSUME NEW S, NEW q \in Seq(S), NEW m \in S
  PROVE  /\ Append(q, m) \in Seq(S)
         /\ \A i \in DOMAIN q : i \in DOMAIN Append(q, m) /\ Append(q, m)[i] = q[i]
         /\ Len(q) + 1 \in DOMAIN Append(q, m) /\ Append(q, m)[Len(q) + 1] = m
         /\ \A i \in DOMAIN Append(q, m) : i \in DOMAIN q \/ i = Len(q) + 1
OBVIOUS

\* What a queue carries after its head is taken; the head itself was its only one.
LEMMA TailCarries ==
  ASSUME NEW S, NEW q \in Seq(S), q # <<>>, NEW k, Once(q, k)
  PROVE  /\ Once(Tail(q), k)
         /\ \A a : Carries(Tail(q), k, a) => Carries(q, k, a)
         /\ Head(q).kind = k => /\ Carries(q, k, Head(q).attempt)
                                /\ ~Carries(Tail(q), k, Head(q).attempt)
<1>1. Once(Tail(q), k)
  <2> SUFFICES ASSUME NEW i \in DOMAIN Tail(q), NEW j \in DOMAIN Tail(q),
                      Tail(q)[i].kind = k, Tail(q)[j].kind = k,
                      Tail(q)[i].attempt = Tail(q)[j].attempt
               PROVE  i = j
    BY DEF Once
  <2>1. i + 1 = j + 1
    BY TailMail DEF Once
  <2> QED BY <2>1, TailMail
<1>2. ASSUME NEW a, Carries(Tail(q), k, a) PROVE Carries(q, k, a)
  BY <1>2, TailMail DEF Carries
<1>3. ASSUME Head(q).kind = k PROVE Carries(q, k, Head(q).attempt)
  BY <1>3, TailMail DEF Carries
<1>4. ASSUME Head(q).kind = k, Carries(Tail(q), k, Head(q).attempt) PROVE FALSE
  <2>1. PICK i \in DOMAIN Tail(q) : Tail(q)[i].kind = k /\ Tail(q)[i].attempt = Head(q).attempt
    BY <1>4 DEF Carries
  <2> QED BY <2>1, <1>4, TailMail DEF Once
<1> QED BY <1>1, <1>2, <1>3, <1>4

\* What a queue carries after a message was added.
LEMMA AppendCarries ==
  ASSUME NEW S, NEW q \in Seq(S), NEW m \in S, NEW k, Once(q, k)
  PROVE  /\ \A a : Carries(Append(q, m), k, a) => Carries(q, k, a) \/ (m.kind = k /\ m.attempt = a)
         /\ (m.kind = k => ~Carries(q, k, m.attempt)) => Once(Append(q, m), k)
<1>1. ASSUME NEW a, Carries(Append(q, m), k, a)
      PROVE  Carries(q, k, a) \/ (m.kind = k /\ m.attempt = a)
  <2>1. PICK i \in DOMAIN Append(q, m) : Append(q, m)[i].kind = k /\ Append(q, m)[i].attempt = a
    BY <1>1 DEF Carries
  <2> QED BY <2>1, AppendMail DEF Carries
<1>2. ASSUME m.kind = k => ~Carries(q, k, m.attempt) PROVE Once(Append(q, m), k)
  <2> SUFFICES ASSUME NEW i \in DOMAIN Append(q, m), NEW j \in DOMAIN Append(q, m),
                      Append(q, m)[i].kind = k, Append(q, m)[j].kind = k,
                      Append(q, m)[i].attempt = Append(q, m)[j].attempt
               PROVE  i = j
    BY DEF Once
  <2>1. CASE i \in DOMAIN q /\ j \in DOMAIN q
    BY <2>1, AppendMail DEF Once
  <2>2. CASE i = Len(q) + 1 /\ j \in DOMAIN q
    BY <2>2, <1>2, AppendMail DEF Carries
  <2>3. CASE i \in DOMAIN q /\ j = Len(q) + 1
    BY <2>3, <1>2, AppendMail DEF Carries
  <2> QED BY <2>1, <2>2, <2>3, AppendMail
<1> QED BY <1>1, <1>2

\* The heartbeats of a queue after its head is taken.
LEMMA TailBeats ==
  ASSUME NEW S, NEW q \in Seq(S), q # <<>>, NEW k, Sole(q, k)
  PROVE  /\ Sole(Tail(q), k)
         /\ Has(Tail(q), k) => Has(q, k)
         /\ Head(q).kind = k => Has(q, k) /\ ~Has(Tail(q), k)
<1>1. Sole(Tail(q), k)
  <2> SUFFICES ASSUME NEW i \in DOMAIN Tail(q), NEW j \in DOMAIN Tail(q),
                      Tail(q)[i].kind = k, Tail(q)[j].kind = k
               PROVE  i = j
    BY DEF Sole
  <2>1. i + 1 = j + 1
    BY TailMail DEF Sole
  <2> QED BY <2>1, TailMail
<1>2. Has(Tail(q), k) => Has(q, k)
  BY TailMail DEF Has
<1>3. ASSUME Head(q).kind = k PROVE Has(q, k) /\ ~Has(Tail(q), k)
  BY <1>3, TailMail DEF Has, Sole
<1> QED BY <1>1, <1>2, <1>3

\* The heartbeats of a queue after a message was added.
LEMMA AppendBeats ==
  ASSUME NEW S, NEW q \in Seq(S), NEW m \in S, NEW k, Sole(q, k)
  PROVE  /\ Has(Append(q, m), k) => Has(q, k) \/ m.kind = k
         /\ (m.kind = k => ~Has(q, k)) => Sole(Append(q, m), k)
<1>1. ASSUME Has(Append(q, m), k) PROVE Has(q, k) \/ m.kind = k
  BY <1>1, AppendMail DEF Has
<1>2. ASSUME m.kind = k => ~Has(q, k) PROVE Sole(Append(q, m), k)
  <2> SUFFICES ASSUME NEW i \in DOMAIN Append(q, m), NEW j \in DOMAIN Append(q, m),
                      Append(q, m)[i].kind = k, Append(q, m)[j].kind = k
               PROVE  i = j
    BY DEF Sole
  <2>1. CASE i \in DOMAIN q /\ j \in DOMAIN q
    BY <2>1, AppendMail DEF Sole
  <2>2. CASE i = Len(q) + 1 /\ j \in DOMAIN q
    BY <2>2, <1>2, AppendMail DEF Has
  <2>3. CASE i \in DOMAIN q /\ j = Len(q) + 1
    BY <2>3, <1>2, AppendMail DEF Has
  <2> QED BY <2>1, <2>2, <2>3, AppendMail
<1> QED BY <1>1, <1>2

\* A queue that ages keeps its messages; the time since a Ping grows by one.
LEMMA AgedUp ==
  ASSUME NEW q \in Seq(UpMail)
  PROVE  /\ Aged(q) \in Seq(UpMail)
         /\ DOMAIN Aged(q) = DOMAIN q
         /\ \A i \in DOMAIN q :
              /\ Aged(q)[i].kind = q[i].kind
              /\ q[i].kind # "ping" => Aged(q)[i] = q[i]
              /\ q[i].kind = "ping" => /\ Aged(q)[i].since = q[i].since + 1
                                       /\ Aged(q)[i].held = q[i].held
<1>1. /\ DOMAIN Aged(q) = DOMAIN q
      /\ \A i \in DOMAIN q : Aged(q)[i] = IF q[i].kind \in {"ping", "pong"}
                                THEN [q[i] EXCEPT !.since = @ + 1] ELSE q[i]
  BY DEF Aged
<1>2. ASSUME NEW m \in UpMail, m.kind = "ping"
      PROVE  /\ [m EXCEPT !.since = @ + 1] \in UpMail
             /\ [m EXCEPT !.since = @ + 1].kind = m.kind
             /\ [m EXCEPT !.since = @ + 1].held = m.held
             /\ [m EXCEPT !.since = @ + 1].since = m.since + 1
  BY <1>2 DEF UpMail
<1>3. \A m \in UpMail : m.kind \in {"ping", "pong"} => m.kind = "ping"
  BY DEF UpMail
<1>4. \A i \in DOMAIN q : q[i] \in UpMail
  OBVIOUS
<1>5. \A i \in DOMAIN q : Aged(q)[i] \in UpMail
  BY <1>1, <1>2, <1>3, <1>4
<1>6. Aged(q) \in Seq(UpMail)
  BY <1>5 DEF Aged
<1> QED
  <2> SUFFICES ASSUME NEW i \in DOMAIN q
               PROVE  /\ Aged(q)[i].kind = q[i].kind
                      /\ q[i].kind # "ping" => Aged(q)[i] = q[i]
                      /\ q[i].kind = "ping" => /\ Aged(q)[i].since = q[i].since + 1
                                               /\ Aged(q)[i].held = q[i].held
    BY <1>1, <1>6
  <2> QED BY <1>1, <1>2, <1>3, <1>4

LEMMA AgedDown ==
  ASSUME NEW q \in Seq(DownMail)
  PROVE  /\ Aged(q) \in Seq(DownMail)
         /\ DOMAIN Aged(q) = DOMAIN q
         /\ \A i \in DOMAIN q :
              /\ Aged(q)[i].kind = q[i].kind
              /\ q[i].kind # "pong" => Aged(q)[i] = q[i]
              /\ q[i].kind = "pong" => /\ Aged(q)[i].since = q[i].since + 1
                                       /\ Aged(q)[i].stop = q[i].stop
<1>1. /\ DOMAIN Aged(q) = DOMAIN q
      /\ \A i \in DOMAIN q : Aged(q)[i] = IF q[i].kind \in {"ping", "pong"}
                                THEN [q[i] EXCEPT !.since = @ + 1] ELSE q[i]
  BY DEF Aged
<1>2. ASSUME NEW m \in DownMail, m.kind = "pong"
      PROVE  /\ [m EXCEPT !.since = @ + 1] \in DownMail
             /\ [m EXCEPT !.since = @ + 1].kind = m.kind
             /\ [m EXCEPT !.since = @ + 1].stop = m.stop
             /\ [m EXCEPT !.since = @ + 1].since = m.since + 1
  BY <1>2 DEF DownMail
<1>3. \A m \in DownMail : m.kind \in {"ping", "pong"} => m.kind = "pong"
  BY DEF DownMail
<1>4. \A i \in DOMAIN q : q[i] \in DownMail
  OBVIOUS
<1>5. \A i \in DOMAIN q : Aged(q)[i] \in DownMail
  BY <1>1, <1>2, <1>3, <1>4
<1>6. Aged(q) \in Seq(DownMail)
  BY <1>5 DEF Aged
<1> QED
  <2> SUFFICES ASSUME NEW i \in DOMAIN q
               PROVE  /\ Aged(q)[i].kind = q[i].kind
                      /\ q[i].kind # "pong" => Aged(q)[i] = q[i]
                      /\ q[i].kind = "pong" => /\ Aged(q)[i].since = q[i].since + 1
                                               /\ Aged(q)[i].stop = q[i].stop
    BY <1>1, <1>6
  <2> QED BY <1>1, <1>2, <1>3, <1>4

-----------------------------------------------------------------------------
(* The steps.                                                              *)

\* Every step that leaves leases, hands, deadline and queues to themselves, or takes
\* messages away from a queue, keeps what it does not touch.
LEMMA QuietKeeps ==
  ASSUME LeaseInv, leaseVars' = leaseVars
  PROVE  LeaseInv'
BY DEF leaseVars, LeaseInv, LeaseTypes, Handshake, Beats, Times, Answered, Guarded, Fresh,
       Carries, Once, Has, Sole, Held

\* A new attempt is offered (controller.rs placement_pass).
LEMMA PlaceKeeps ==
  ASSUME LeaseInv, NEW a \in Leased, place(a)
  PROVE  LeaseInv'
<1> DEFINE new == [state |-> "offered", left |-> LEASE, renewed |-> FALSE]
           m == Message("offer", a)
<1>0. /\ leases' = [leases EXCEPT ![a] = new] /\ down' = Append(down, m)
      /\ leases[a].state = None
      /\ UNCHANGED <<deferred, asks, hands, deadline, up, beating>>
  BY DEF place
<1>m. m \in DownMail /\ m.kind = "offer" /\ m.attempt = a
  BY DEF Message, DownMail
<1>n. new \in LeaseRow
  BY LeaseBounds DEF LeaseRow, LeaseStates
<1>t. leases \in [Leased -> LeaseRow] /\ down \in Seq(DownMail)
  BY DEF LeaseInv, LeaseTypes
<1>l. \A b \in Leased : leases'[b] = IF b = a THEN new ELSE leases[b]
  BY <1>0, <1>t
<1>f. ~Fresh(a)
  BY <1>0 DEF LeaseInv, Handshake, None
<1> HIDE DEF m
<1>c. /\ Once(down', "offer")
      /\ \A b \in Leased : Carries(down', "offer", b) => Carries(down, "offer", b) \/ b = a
  BY <1>0, <1>m, <1>f, <1>t, AppendCarries DEF LeaseInv, Handshake, Fresh
<1>1. LeaseTypes'
  BY <1>0, <1>m, <1>n, <1>t, AppendMail DEF LeaseInv, LeaseTypes
<1>2. Handshake'
  <2>1. Once(up', "ack") /\ \A b \in Leased, k \in {"ack"} : Carries(up', k, b) <=> Carries(up, k, b)
    BY <1>0 DEF LeaseInv, Handshake, Once, Carries
  <2>2. \A b \in Leased : Fresh(b)' => Fresh(b) \/ b = a
    BY <1>0, <1>c, <2>1 DEF Fresh
  <2>3. \A b \in Leased : Carries(down', "offer", b) => ~Carries(up', "ack", b) /\ b \notin deferred'
    BY <1>0, <1>c, <1>f, <2>1 DEF LeaseInv, Handshake, Fresh
  <2> QED BY <1>0, <1>c, <1>l, <2>1, <2>2, <2>3 DEF LeaseInv, Handshake
<1>3. Times'
  BY <1>0, <1>l, LeaseBounds DEF LeaseInv, Times, None
<1>h. \A b \in Leased : Held(b)' => Held(b) /\ b # a
  BY <1>0, <1>l DEF Held
<1>4. Answered'
  <2>1. \A i \in DOMAIN down' : down'[i].kind = "pong" => i \in DOMAIN down /\ down'[i] = down[i]
    BY <1>0, <1>m, <1>t, AppendMail
  <2> QED BY <1>0, <1>l, <1>h, <2>1 DEF LeaseInv, Answered
<1>5. Guarded'
  BY <1>0, <1>l DEF LeaseInv, Guarded
<1>6. Beats'
  <2>1. Sole(down', "pong") /\ (Has(down', "pong") => Has(down, "pong"))
    BY <1>0, <1>m, <1>t, AppendBeats DEF LeaseInv, Beats
  <2> QED BY <1>0, <2>1 DEF LeaseInv, Beats
<1> QED BY <1>1, <1>2, <1>3, <1>4, <1>5, <1>6 DEF LeaseInv

\* An offer arrives: it was the only one, and starts a deadline if there is none.
LEMMA OfferedKeeps ==
  ASSUME LeaseInv, offered
  PROVE  LeaseInv'
<1> DEFINE a == Head(down).attempt
           m == Message("ack", a)
<1>0. /\ down # <<>> /\ Head(down).kind = "offer"
      /\ hands' = [hands EXCEPT ![a] = "awaiting"]
      /\ up' = Append(up, m) /\ asks' = asks \cup {a}
      /\ deadline' = IF deadline = NoDeadline THEN LEASE - LEASE_GUARD ELSE deadline
      /\ down' = Tail(down)
      /\ UNCHANGED <<leases, deferred, beating>>
  BY DEF offered
<1>t. /\ leases \in [Leased -> LeaseRow] /\ down \in Seq(DownMail) /\ up \in Seq(UpMail)
      /\ hands \in [Leased -> Hand] /\ deadline \in Int
  BY DEF LeaseInv, LeaseTypes
<1>a. a \in Leased
  BY <1>0, <1>t, TailMail DEF DownMail
<1>m. m \in UpMail /\ m.kind = "ack" /\ m.attempt = a
  BY <1>a DEF Message, UpMail
<1>d. /\ Once(down', "offer") /\ ~Carries(down', "offer", a) /\ Carries(down, "offer", a)
      /\ \A b : Carries(down', "offer", b) => Carries(down, "offer", b)
  BY <1>0, <1>t, TailCarries DEF LeaseInv, Handshake
<1> HIDE DEF a, m
<1>f. Fresh(a) /\ ~Carries(up, "ack", a) /\ a \notin deferred /\ ~leases[a].renewed
  BY <1>a, <1>d DEF LeaseInv, Handshake, Fresh
<1>u. /\ Once(up', "ack")
      /\ \A b : Carries(up', "ack", b) => Carries(up, "ack", b) \/ b = a
  BY <1>0, <1>m, <1>f, <1>t, AppendCarries DEF LeaseInv, Handshake
<1>h. \A b \in Leased : hands'[b] = IF b = a THEN "awaiting" ELSE hands[b]
  BY <1>0, <1>a, <1>t
<1>1. LeaseTypes'
  <2>1. up' \in Seq(UpMail) /\ down' \in Seq(DownMail)
    BY <1>0, <1>m, <1>t, AppendMail, TailMail
  <2>2. hands' \in [Leased -> Hand]
    BY <1>0, <1>t DEF Hand
  <2>3. deadline' \in Int
    BY <1>0, <1>t, LeaseBounds
  <2> QED BY <1>0, <1>a, <2>1, <2>2, <2>3 DEF LeaseInv, LeaseTypes
<1>2. Handshake'
  <2>1. \A b \in Leased : Fresh(b)' => Fresh(b)
    BY <1>0, <1>d, <1>u, <1>f DEF Fresh
  <2>2. \A b \in Leased : Carries(down', "offer", b) => ~Carries(up', "ack", b) /\ b \notin deferred'
    BY <1>0, <1>d, <1>u, <1>f DEF LeaseInv, Handshake
  <2>3. \A b \in Leased : Carries(up', "ack", b) => b \notin deferred'
    BY <1>0, <1>u, <1>f DEF LeaseInv, Handshake
  <2> QED BY <1>0, <1>d, <1>u, <2>1, <2>2, <2>3 DEF LeaseInv, Handshake
<1>3. Times'
  BY <1>0, <1>t, LeaseBounds DEF LeaseInv, Times, NoDeadline
<1>g. \A b \in Leased : Held(b)' => Held(b) /\ b # a
  BY <1>0, <1>h, <1>f DEF Held
<1>4. Answered'
  <2>1. \A i \in DOMAIN up' : up'[i].kind = "ping" => i \in DOMAIN up /\ up'[i] = up[i]
    BY <1>0, <1>m, <1>t, AppendMail
  <2>2. \A i \in DOMAIN down' : i + 1 \in DOMAIN down /\ down'[i] = down[i + 1]
    BY <1>0, <1>t, TailMail
  <2> QED BY <1>0, <1>g, <2>1, <2>2 DEF LeaseInv, Answered
<1>5. Guarded'
  <2>1. deadline' # NoDeadline
    BY <1>0, LeaseBounds DEF NoDeadline
  <2>2. \A b \in Leased : hands'[b] \in {"live", "awaiting"} /\ leases[b].renewed =>
           b # a /\ hands'[b] = hands[b] /\ deadline' = deadline
    BY <1>0, <1>h, <1>f DEF LeaseInv, Guarded
  <2> QED BY <1>0, <2>1, <2>2 DEF LeaseInv, Guarded
<1>6. Beats'
  <2>1. Sole(up', "ping") /\ (Has(up', "ping") => Has(up, "ping"))
    BY <1>0, <1>m, <1>t, AppendBeats DEF LeaseInv, Beats
  <2>2. Sole(down', "pong") /\ (Has(down', "pong") => Has(down, "pong"))
    BY <1>0, <1>t, TailBeats DEF LeaseInv, Beats
  <2> QED BY <1>0, <2>1, <2>2 DEF LeaseInv, Beats
<1> QED BY <1>1, <1>2, <1>3, <1>4, <1>5, <1>6 DEF LeaseInv

\* What Acked does to the rows: a state, for an attempt that was offered.
LEMMA AckedRows ==
  ASSUME LeaseTypes, NEW a \in Leased
  PROVE  /\ Acked(a) \in [Leased -> LeaseRow]
         /\ \A b \in Leased : /\ Acked(a)[b].left = leases[b].left
                              /\ Acked(a)[b].renewed = leases[b].renewed
                              /\ b # a => Acked(a)[b] = leases[b]
                              /\ \/ Acked(a)[b].state = leases[b].state
                                 \/ leases[b].state = "offered" /\ Acked(a)[b].state = "acked"
         /\ leases[a].state \in {"offered", "released"} => Acked(a)[a].state \in {"acked", "released"}
<1>1. leases[a] \in LeaseRow
  BY DEF LeaseTypes
<1> DEFINE r == [leases[a] EXCEPT
                   !.state = IF leases[a].state = "offered" THEN "acked" ELSE leases[a].state]
<1>2. Acked(a) = [leases EXCEPT ![a] = r]
  BY <1>1 DEF Acked, LeaseTypes
<1>3. /\ r \in LeaseRow /\ r.left = leases[a].left /\ r.renewed = leases[a].renewed
      /\ \/ r.state = leases[a].state
         \/ leases[a].state = "offered" /\ r.state = "acked"
      /\ leases[a].state \in {"offered", "released"} => r.state \in {"acked", "released"}
  BY <1>1 DEF LeaseRow, LeaseStates
<1> HIDE DEF r
<1>4. \A b \in Leased : Acked(a)[b] = IF b = a THEN r ELSE leases[b]
  BY <1>2 DEF LeaseTypes
<1>5. Acked(a) \in [Leased -> LeaseRow]
  BY <1>2, <1>3 DEF LeaseTypes
<1> QED BY <1>3, <1>4, <1>5

\* The store hears an acknowledgement, or it waits in the queue (controller.rs receive_with).
LEMMA AcknowledgeKeeps ==
  ASSUME LeaseInv, acknowledge
  PROVE  LeaseInv'
<1> DEFINE a == Head(up).attempt
<1>0. /\ up # <<>> /\ Head(up).kind = "ack"
      /\ \/ leases' = Acked(a) /\ UNCHANGED deferred
         \/ deferred' = deferred \cup {a} /\ UNCHANGED leases
      /\ up' = Tail(up)
      /\ UNCHANGED <<asks, hands, deadline, down, beating>>
  BY DEF acknowledge
<1>t. /\ leases \in [Leased -> LeaseRow] /\ down \in Seq(DownMail) /\ up \in Seq(UpMail)
  BY DEF LeaseInv, LeaseTypes
<1>a. a \in Leased
  BY <1>0, <1>t, TailMail DEF UpMail
<1>u. /\ Once(up', "ack") /\ ~Carries(up', "ack", a) /\ Carries(up, "ack", a)
      /\ \A b : Carries(up', "ack", b) => Carries(up, "ack", b)
  BY <1>0, <1>t, TailCarries DEF LeaseInv, Handshake
<1> HIDE DEF a
<1>f. /\ ~Carries(down, "offer", a) /\ a \notin deferred /\ ~leases[a].renewed
      /\ leases[a].state \in {"offered", "released"}
  BY <1>a, <1>u DEF LeaseInv, Handshake, Fresh
<1>l. /\ leases' \in [Leased -> LeaseRow]
      /\ \A b \in Leased : /\ leases'[b].left = leases[b].left
                           /\ leases'[b].renewed = leases[b].renewed
                           /\ b # a => leases'[b] = leases[b]
                           /\ \/ leases'[b].state = leases[b].state
                              \/ leases[b].state = "offered" /\ leases'[b].state = "acked"
  BY <1>0, <1>a, <1>t, AckedRows DEF LeaseInv
<1>1. LeaseTypes'
  BY <1>0, <1>a, <1>t, <1>l, TailMail DEF LeaseInv, LeaseTypes
<1>2. Handshake'
  <2>1. Once(down', "offer") /\ \A b : Carries(down', "offer", b) <=> Carries(down, "offer", b)
    BY <1>0 DEF LeaseInv, Handshake, Once, Carries
  <2>2. \A b \in Leased : Fresh(b)' => Fresh(b) /\ (b = a => leases' = leases)
    BY <1>0, <1>u, <1>f, <2>1 DEF Fresh
  <2>3. \A b \in Leased : Fresh(b)' => leases'[b].state \in {"offered", "released"}
    BY <1>l, <2>2 DEF LeaseInv, Handshake
  <2>4. \A b \in Leased : Carries(down', "offer", b) => ~Carries(up', "ack", b) /\ b \notin deferred'
    BY <1>0, <1>u, <1>f, <2>1 DEF LeaseInv, Handshake
  <2>5. \A b \in Leased : Carries(up', "ack", b) => b \notin deferred'
    BY <1>0, <1>u, <1>f DEF LeaseInv, Handshake
  <2>6. \A b \in Leased : leases'[b].state \in {None, "offered"} \/ Fresh(b)' => ~leases'[b].renewed
    BY <1>l, <2>2 DEF LeaseInv, Handshake, None
  <2> QED BY <1>u, <2>1, <2>3, <2>4, <2>5, <2>6 DEF Handshake
<1>3. Times'
  BY <1>0, <1>l DEF LeaseInv, Times
<1>4. Answered'
  <2>1. \A i \in DOMAIN up' : i + 1 \in DOMAIN up /\ up'[i] = up[i + 1]
    BY <1>0, <1>t, TailMail
  <2>2. \A b \in Leased : Held(b)' <=> Held(b)
    BY <1>0, <1>l DEF Held
  <2> QED BY <1>0, <1>l, <2>1, <2>2 DEF LeaseInv, Answered
<1>5. Guarded'
  BY <1>0, <1>l DEF LeaseInv, Guarded
<1>6. Beats'
  <2>1. Sole(up', "ping") /\ (Has(up', "ping") => Has(up, "ping"))
    BY <1>0, <1>t, TailBeats DEF LeaseInv, Beats
  <2> QED BY <1>0, <2>1 DEF LeaseInv, Beats
<1> QED BY <1>1, <1>2, <1>3, <1>4, <1>5, <1>6 DEF LeaseInv

\* A deferred acknowledgement is applied (controller.rs retry_deferred).
LEMMA RetryKeeps ==
  ASSUME LeaseInv, retry_deferred
  PROVE  LeaseInv'
<1>0. PICK a \in deferred : /\ leases' = Acked(a) /\ deferred' = deferred \ {a}
                            /\ UNCHANGED <<asks, hands, deadline, up, down, beating>>
  BY DEF retry_deferred
<1>a. a \in Leased
  BY DEF LeaseInv, LeaseTypes
<1>l. /\ leases' \in [Leased -> LeaseRow]
      /\ \A b \in Leased : /\ leases'[b].left = leases[b].left
                           /\ leases'[b].renewed = leases[b].renewed
                           /\ b # a => leases'[b] = leases[b]
                           /\ \/ leases'[b].state = leases[b].state
                              \/ leases[b].state = "offered" /\ leases'[b].state = "acked"
  BY <1>0, <1>a, AckedRows DEF LeaseInv
<1>1. LeaseTypes'
  BY <1>0, <1>l DEF LeaseInv, LeaseTypes
<1>q. /\ Once(down', "offer") /\ Once(up', "ack")
      /\ \A b : Carries(down', "offer", b) <=> Carries(down, "offer", b)
      /\ \A b : Carries(up', "ack", b) <=> Carries(up, "ack", b)
  BY <1>0 DEF LeaseInv, Handshake, Once, Carries
<1>2. Handshake'
  <2>1. \A b \in Leased : Fresh(b)' => Fresh(b) /\ b # a
    BY <1>0, <1>q DEF LeaseInv, Handshake, Fresh
  <2> QED BY <1>0, <1>l, <1>q, <2>1 DEF LeaseInv, Handshake, None
<1>3. Times'
  BY <1>0, <1>l DEF LeaseInv, Times
<1>4. Answered'
  <2>1. \A b \in Leased : Held(b)' <=> Held(b)
    BY <1>0, <1>l DEF Held
  <2> QED BY <1>0, <1>l, <2>1 DEF LeaseInv, Answered
<1>5. Guarded'
  BY <1>0, <1>l DEF LeaseInv, Guarded
<1>6. Beats'
  BY <1>0 DEF LeaseInv, Beats
<1> QED BY <1>1, <1>2, <1>3, <1>4, <1>5, <1>6 DEF LeaseInv

\* Changing two fields of a row keeps its type, whatever the type.
LEMMA RowChanged ==
  ASSUME NEW S, NEW I, NEW F, NEW r \in [state : S, left : I, renewed : F], NEW l \in I, NEW t \in F
  PROVE  [r EXCEPT !.left = l, !.renewed = t] \in [state : S, left : I, renewed : F]
OBVIOUS

\* The gate answers a request, or lets it go (controller.rs resolve_spec).
LEMMA SpecKeeps ==
  ASSUME LeaseInv, NEW a \in Leased, spec_gate(a)
  PROVE  LeaseInv'
<1> DEFINE m == Message("spec", a)
<1>0. /\ asks' = asks \ {a}
      /\ down' = Append(down, m) \/ down' = down
      /\ UNCHANGED <<leases, deferred, hands, deadline, up, beating>>
  BY DEF spec_gate
<1>m. m \in DownMail /\ m.kind = "spec"
  BY DEF Message, DownMail
<1>t. down \in Seq(DownMail)
  BY DEF LeaseInv, LeaseTypes
<1> HIDE DEF m
<1>d. /\ down' \in Seq(DownMail)
      /\ Once(down', "offer")
      /\ \A b : Carries(down', "offer", b) => Carries(down, "offer", b)
      /\ \A i \in DOMAIN down' : down'[i].kind = "pong" => i \in DOMAIN down /\ down'[i] = down[i]
  <2>1. CASE down' = down
    BY <1>t, <2>1 DEF LeaseInv, Handshake
  <2>2. CASE down' = Append(down, m)
    BY <1>m, <1>t, <2>2, AppendMail, AppendCarries DEF LeaseInv, Handshake
  <2> QED BY <1>0, <2>1, <2>2
<1>1. LeaseTypes'
  BY <1>0, <1>d DEF LeaseInv, LeaseTypes
<1>2. Handshake'
  <2>1. Once(up', "ack") /\ \A b : Carries(up', "ack", b) <=> Carries(up, "ack", b)
    BY <1>0 DEF LeaseInv, Handshake, Once, Carries
  <2>2. \A b \in Leased : Fresh(b)' => Fresh(b)
    BY <1>0, <1>d, <2>1 DEF Fresh
  <2> QED BY <1>0, <1>d, <2>1, <2>2 DEF LeaseInv, Handshake
<1>3. Times'
  BY <1>0 DEF LeaseInv, Times
<1>4. Answered'
  <2>1. \A b \in Leased : Held(b)' <=> Held(b)
    BY <1>0 DEF Held
  <2> QED BY <1>0, <1>d, <2>1 DEF LeaseInv, Answered
<1>5. Guarded'
  BY <1>0 DEF LeaseInv, Guarded
<1>6. Beats'
  <2>1. CASE down' = down
    BY <1>0, <2>1 DEF LeaseInv, Beats
  <2>2. CASE down' = Append(down, m)
    <3>1. Sole(down', "pong") /\ (Has(down', "pong") => Has(down, "pong"))
      BY <1>m, <1>t, <2>2, AppendBeats DEF LeaseInv, Beats
    <3> QED BY <1>0, <3>1 DEF LeaseInv, Beats
  <2> QED BY <1>0, <2>1, <2>2
<1> QED BY <1>1, <1>2, <1>3, <1>4, <1>5, <1>6 DEF LeaseInv

\* A spec starts an attempt that waited for it, under the deadline there is.
LEMMA AcceptKeeps ==
  ASSUME LeaseInv, accept_spec
  PROVE  LeaseInv'
<1> DEFINE a == Head(down).attempt
<1>0. /\ down # <<>> /\ Head(down).kind = "spec"
      /\ hands' = [hands EXCEPT ![a] =
             CASE hands[a] = "awaiting" /\ deadline > 0 -> "live"
               [] (hands[a] = "awaiting" /\ deadline <= 0) \/ hands[a] = "missed" -> "late"
               [] OTHER -> hands[a]]
      /\ down' = Tail(down)
      /\ UNCHANGED <<leases, deferred, asks, deadline, up, beating>>
  BY DEF accept_spec, LeaseInv, LeaseTypes
<1>t. /\ down \in Seq(DownMail) /\ hands \in [Leased -> Hand] /\ deadline \in Int
  BY DEF LeaseInv, LeaseTypes
<1>a. a \in Leased
  BY <1>0, <1>t, TailMail DEF DownMail
<1>d. /\ Once(down', "offer")
      /\ \A b : Carries(down', "offer", b) => Carries(down, "offer", b)
      /\ \A i \in DOMAIN down' : i + 1 \in DOMAIN down /\ down'[i] = down[i + 1]
      /\ down' \in Seq(DownMail)
  BY <1>0, <1>t, TailCarries, TailMail DEF LeaseInv, Handshake
<1> HIDE DEF a
<1>h. /\ \A b \in Leased : b # a => hands'[b] = hands[b]
      /\ \/ hands'[a] = hands[a]
         \/ hands[a] = "awaiting" /\ deadline > 0 /\ hands'[a] = "live"
         \/ hands[a] \in {"awaiting", "missed"} /\ hands'[a] = "late"
      /\ hands' \in [Leased -> Hand]
  <2>1. CASE hands[a] = "awaiting" /\ deadline > 0
    BY <1>0, <1>a, <1>t, <2>1 DEF Hand
  <2>2. CASE (hands[a] = "awaiting" /\ ~(deadline > 0)) \/ hands[a] = "missed"
    BY <1>0, <1>a, <1>t, <2>2 DEF Hand
  <2>3. CASE hands[a] \notin {"awaiting", "missed"}
    BY <1>0, <1>a, <1>t, <2>3 DEF Hand
  <2> QED BY <2>1, <2>2, <2>3
<1>1. LeaseTypes'
  BY <1>0, <1>d, <1>h DEF LeaseInv, LeaseTypes
<1>2. Handshake'
  <2>1. Once(up', "ack") /\ \A b : Carries(up', "ack", b) <=> Carries(up, "ack", b)
    BY <1>0 DEF LeaseInv, Handshake, Once, Carries
  <2>2. \A b \in Leased : Fresh(b)' => Fresh(b)
    BY <1>0, <1>d, <2>1 DEF Fresh
  <2> QED BY <1>0, <1>d, <2>1, <2>2 DEF LeaseInv, Handshake
<1>3. Times'
  BY <1>0 DEF LeaseInv, Times
<1>4. Answered'
  <2>1. \A b \in Leased : Held(b)' <=> Held(b)
    BY <1>0, <1>a, <1>h DEF Held, None
  <2> QED BY <1>0, <1>d, <2>1 DEF LeaseInv, Answered
<1>5. Guarded'
  <2>1. deadline > 0 => deadline > -WATCHDOG
    BY <1>t, LeaseBounds
  <2>2. \A b \in Leased : b # a => hands'[b] = hands[b]
    BY <1>h
  <2>3. hands'[a] = hands[a] \/ hands'[a] = "late" \/
        (hands[a] = "awaiting" /\ deadline > 0 /\ deadline > -WATCHDOG /\ hands'[a] = "live")
    BY <1>h, <2>1
  <2>4. deadline > 0 => \A x \in Int : x >= deadline + LEASE_GUARD => x >= 0
    BY <1>t, LeaseBounds
  <2>5. leases[a].left \in Int
    BY <1>a DEF LeaseInv, LeaseTypes, LeaseRow
  <2> QED BY <1>0, <1>a, <2>2, <2>3, <2>4, <2>5 DEF LeaseInv, Guarded
<1>6. Beats'
  <2>1. Sole(down', "pong") /\ (Has(down', "pong") => Has(down, "pong"))
    BY <1>0, <1>t, TailBeats DEF LeaseInv, Beats
  <2> QED BY <1>0, <2>1 DEF LeaseInv, Beats
<1> QED BY <1>1, <1>2, <1>3, <1>4, <1>5, <1>6 DEF LeaseInv

\* A Ping names what the worker has (session.rs heartbeat).
LEMMA PingKeeps ==
  ASSUME LeaseInv, Ping
  PROVE  LeaseInv'
<1> DEFINE m == [kind |-> "ping", since |-> 0, held |-> {a \in Leased : hands[a] # None}]
<1>0. /\ up' = Append(up, m) /\ beating' = TRUE /\ ~beating
      /\ UNCHANGED <<leases, deferred, asks, hands, deadline, down>>
  BY DEF Ping
<1>m. /\ m \in UpMail /\ m.kind = "ping"
      /\ \A a \in Leased : hands[a] # None => a \in m.held
  BY DEF UpMail
<1>t. up \in Seq(UpMail)
  BY DEF LeaseInv, LeaseTypes
<1> HIDE DEF m
<1>u. /\ up' \in Seq(UpMail)
      /\ Once(up', "ack")
      /\ \A b : Carries(up', "ack", b) => Carries(up, "ack", b)
      /\ \A i \in DOMAIN up' : (i \in DOMAIN up /\ up'[i] = up[i]) \/ up'[i] = m
  BY <1>0, <1>m, <1>t, AppendMail, AppendCarries DEF LeaseInv, Handshake
<1>1. LeaseTypes'
  BY <1>0, <1>u DEF LeaseInv, LeaseTypes
<1>2. Handshake'
  <2>1. Once(down', "offer") /\ \A b : Carries(down', "offer", b) <=> Carries(down, "offer", b)
    BY <1>0 DEF LeaseInv, Handshake, Once, Carries
  <2>2. \A b \in Leased : Fresh(b)' => Fresh(b)
    BY <1>0, <1>u, <2>1 DEF Fresh
  <2> QED BY <1>0, <1>u, <2>1, <2>2 DEF LeaseInv, Handshake
<1>3. Times'
  BY <1>0 DEF LeaseInv, Times
<1>4. Answered'
  <2>1. \A b \in Leased : Held(b)' <=> Held(b)
    BY <1>0 DEF Held
  <2>2. \A i \in DOMAIN up' : up'[i].kind = "ping" => \A b \in Leased : Held(b)' => b \in up'[i].held
    BY <1>m, <1>u, <2>1 DEF LeaseInv, Answered, Held
  <2> QED BY <1>0, <2>1, <2>2 DEF LeaseInv, Answered
<1>5. Guarded'
  BY <1>0 DEF LeaseInv, Guarded
<1>6. Beats'
  <2>1. ~Has(up, "ping") /\ ~Has(down, "pong")
    BY <1>0 DEF LeaseInv, Beats
  <2>2. Sole(up', "ping")
    BY <1>0, <1>m, <1>t, <2>1, AppendBeats DEF LeaseInv, Beats
  <2> QED BY <1>0, <2>1, <2>2 DEF LeaseInv, Beats
<1> QED BY <1>1, <1>2, <1>3, <1>4, <1>5, <1>6 DEF LeaseInv

\* The answer to a Ping: it names every renewed attempt of the worker, so what it does
\* not stop was renewed now (dispatch.rs renew, controller.rs pong).
LEMMA RenewKeeps ==
  ASSUME LeaseInv, renew
  PROVE  LeaseInv'
<1> DEFINE beat == Head(up)
           m == [kind |-> "pong", since |-> beat.since,
                 stop |-> {a \in beat.held : ~Renewable(a)} \ deferred]
<1>r. leases' = [a \in Leased |->
                IF a \in beat.held /\ Renewable(a)
                THEN [leases[a] EXCEPT !.left = LEASE, !.renewed = TRUE]
                ELSE leases[a]]
  BY DEF renew
<1>0. /\ up # <<>> /\ Head(up).kind = "ping"
      /\ down' = Append(down, m) /\ up' = Tail(up)
      /\ UNCHANGED <<deferred, asks, hands, deadline, beating>>
  BY DEF renew
<1>t. /\ down \in Seq(DownMail) /\ up \in Seq(UpMail) /\ leases \in [Leased -> LeaseRow]
      /\ deadline \in Int
  BY DEF LeaseInv, LeaseTypes
<1>b. /\ beat \in UpMail /\ beat.since \in Nat /\ beat.held \in SUBSET Leased
      /\ 1 \in DOMAIN up /\ up[1] = beat
  <2>1. /\ beat \in UpMail /\ 1 \in DOMAIN up /\ up[1] = beat
    BY <1>0, <1>t, TailMail
  <2>2. \A x \in UpMail : x.kind = "ping" => x.since \in Nat /\ x.held \in SUBSET Leased
    BY DEF UpMail
  <2> QED BY <1>0, <2>1, <2>2
<1>m. /\ m \in DownMail /\ m.kind = "pong" /\ m.since \in Nat
      /\ \A a \in beat.held : a \notin m.stop => Renewable(a) \/ a \in deferred
  BY <1>b DEF DownMail
<1> HIDE DEF m
<1>u. /\ Once(up', "ack")
      /\ \A b : Carries(up', "ack", b) => Carries(up, "ack", b)
      /\ up' \in Seq(UpMail)
  <2>1. Once(up, "ack")
    BY DEF LeaseInv, Handshake
  <2> QED BY <1>0, <1>t, <2>1, TailCarries, TailMail
<1>p. Has(up, "ping") /\ (\A i \in DOMAIN up' : up'[i].kind # "ping") /\ ~Has(down, "pong")
  <2>1. Sole(up, "ping") /\ ~(Has(up, "ping") /\ Has(down, "pong"))
    BY DEF LeaseInv, Beats
  <2>2. Has(up, "ping") /\ ~Has(Tail(up), "ping")
    BY <1>0, <1>t, <2>1, TailBeats
  <2> QED BY <1>0, <2>1, <2>2 DEF Has
<1> HIDE DEF beat
<1>d. /\ down' \in Seq(DownMail)
      /\ Once(down', "offer")
      /\ \A b : Carries(down', "offer", b) => Carries(down, "offer", b)
      /\ \A i \in DOMAIN down' : (i \in DOMAIN down /\ down'[i] = down[i]) \/ down'[i] = m
  <2>1. Once(down, "offer")
    BY DEF LeaseInv, Handshake
  <2>2. /\ down' \in Seq(DownMail)
        /\ \A i \in DOMAIN down' : (i \in DOMAIN down /\ down'[i] = down[i]) \/ down'[i] = m
    BY <1>0, <1>m, <1>t, AppendMail
  <2> QED BY <1>0, <1>m, <1>t, <2>1, <2>2, AppendCarries
<1>l. /\ leases' \in [Leased -> LeaseRow]
      /\ \A a \in Leased : a \in beat.held /\ Renewable(a) =>
           /\ leases'[a].state = "acked" /\ leases[a].state = "acked"
           /\ leases'[a].left = LEASE /\ leases'[a].renewed
      /\ \A a \in Leased : ~(a \in beat.held /\ Renewable(a)) => leases'[a] = leases[a]
  <2>1. LEASE \in Nat
    BY LeaseBounds
  <2>2. ASSUME NEW r \in LeaseRow
        PROVE  /\ [r EXCEPT !.left = LEASE, !.renewed = TRUE] \in LeaseRow
               /\ [r EXCEPT !.left = LEASE, !.renewed = TRUE].left = LEASE
               /\ [r EXCEPT !.left = LEASE, !.renewed = TRUE].renewed
               /\ [r EXCEPT !.left = LEASE, !.renewed = TRUE].state = r.state
    <3>1. LEASE \in Int /\ TRUE \in BOOLEAN
      BY <2>1
    <3>2. [r EXCEPT !.left = LEASE, !.renewed = TRUE] \in LeaseRow
      BY <3>1, RowChanged, Zenon DEF LeaseRow
    <3> QED BY <3>2 DEF LeaseRow
  <2>3. leases' \in [Leased -> LeaseRow]
    BY <1>r, <1>t, <2>2
  <2> QED BY <1>r, <1>t, <2>2, <2>3 DEF Renewable
<1>f. \A a \in Leased : Renewable(a) => ~Fresh(a)
  BY DEF LeaseInv, Handshake, Renewable
<1>1. LeaseTypes'
  BY <1>0, <1>d, <1>u, <1>l DEF LeaseInv, LeaseTypes
<1>2. Handshake'
  <2>1. \A b \in Leased : Fresh(b)' => Fresh(b)
    BY <1>0, <1>d, <1>u DEF Fresh
  <2>2. \A b \in Leased : leases'[b] = leases[b] \/ (~Fresh(b) /\ leases'[b].state = "acked")
    BY <1>l, <1>f
  <2> QED BY <1>0, <1>d, <1>u, <2>1, <2>2 DEF LeaseInv, Handshake, None
<1>3. Times'
  <2>1. \A b \in Leased : leases'[b] = leases[b] \/ (leases'[b].left = LEASE /\ leases'[b].state = "acked")
    BY <1>l
  <2>2. LEASE >= -1
    BY LeaseBounds
  <2> QED BY <1>0, <2>1, <2>2 DEF LeaseInv, Times
<1>h. \A b \in Leased : Held(b)' => /\ hands[b] # None
                                    /\ Held(b) \/ (b \in beat.held /\ Renewable(b))
  BY <1>0, <1>l DEF Held
<1>k. beat.kind = "ping"
  BY <1>0 DEF beat
<1>g. \A b \in Leased : Held(b)' => b \in beat.held
  BY <1>k, <1>b, <1>h DEF LeaseInv, Answered
<1>4. Answered'
  <2>1. \A i \in DOMAIN up' : up'[i].kind # "ping"
    BY <1>p
  <2>2. ASSUME NEW i \in DOMAIN down', down'[i].kind = "pong", NEW b \in Leased, Held(b)',
               b \notin down'[i].stop
        PROVE  leases'[b].left >= LEASE - down'[i].since
    <3>1. CASE down'[i] = m
      <4>1. Renewable(b)
        <5>1. b \in deferred => Fresh(b)
          BY DEF Fresh
        <5>2. Fresh(b) => ~Held(b) /\ ~Renewable(b)
          BY <1>f DEF LeaseInv, Handshake, Held
        <5> QED BY <1>m, <1>g, <1>h, <2>2, <3>1, <5>1, <5>2
      <4> QED BY <1>g, <1>l, <1>m, <2>2, <3>1, <4>1, LeaseBounds
    <3>2. CASE i \in DOMAIN down /\ down'[i] = down[i]
      <4>1. down[i].since \in Nat
        BY <1>t, <2>2, <3>2 DEF DownMail
      <4>2. CASE b \in beat.held /\ Renewable(b)
        BY <1>l, <3>2, <4>1, <4>2, LeaseBounds
      <4>3. CASE ~(b \in beat.held /\ Renewable(b))
        BY <1>h, <1>l, <2>2, <3>2, <4>3 DEF LeaseInv, Answered
      <4> QED BY <4>2, <4>3
    <3> QED BY <1>d, <3>1, <3>2
  <2> QED BY <2>1, <2>2 DEF Answered
<1>5. Guarded'
  <2>1. \A b \in Leased : \/ leases'[b] = leases[b]
                          \/ leases'[b].left = LEASE
    BY <1>l
  <2>2. LEASE >= 0 /\ (deadline # NoDeadline => LEASE >= deadline + LEASE_GUARD)
    BY <1>t, LeaseBounds DEF LeaseInv, Times
  <2> QED BY <1>0, <2>1, <2>2 DEF LeaseInv, Guarded
<1>6. Beats'
  <2>1. Sole(down', "pong")
    BY <1>0, <1>m, <1>p, <1>t, AppendBeats DEF LeaseInv, Beats
  <2> QED BY <1>0, <1>p, <2>1 DEF LeaseInv, Beats, Has, Sole
<1> QED BY <1>1, <1>2, <1>3, <1>4, <1>5, <1>6 DEF LeaseInv

\* A Pong is heard: the deadline it sets lies a guard before the end of every renewed
\* lease it does not stop (executor.rs renewed_at).
LEMMA RenewedKeeps ==
  ASSUME LeaseInv, renewed_at
  PROVE  LeaseInv'
<1> DEFINE beat == Head(down)
<1>r. hands' = [a \in Leased |->
           CASE a \in beat.stop -> None
             [] hands[a] = "missed" /\ a \notin beat.stop -> "awaiting"
             [] hands[a] = "late" /\ a \notin beat.stop /\ deadline' > 0 -> "live"
             [] OTHER -> hands[a]]
  BY DEF renewed_at
<1>0. /\ down # <<>> /\ Head(down).kind = "pong"
      /\ deadline' = LEASE - LEASE_GUARD - beat.since
      /\ beating' = FALSE /\ down' = Tail(down)
      /\ UNCHANGED <<leases, deferred, asks, up>>
  BY DEF renewed_at, Measured
<1>t. down \in Seq(DownMail) /\ hands \in [Leased -> Hand]
  BY DEF LeaseInv, LeaseTypes
<1>b. /\ beat \in DownMail /\ beat.since \in Nat /\ beat.stop \in SUBSET Leased
      /\ 1 \in DOMAIN down /\ down[1] = beat
  <2>1. /\ beat \in DownMail /\ 1 \in DOMAIN down /\ down[1] = beat
    BY <1>0, <1>t, TailMail
  <2>2. \A x \in DownMail : x.kind = "pong" => x.since \in Nat /\ x.stop \in SUBSET Leased
    BY DEF DownMail
  <2> QED BY <1>0, <2>1, <2>2
<1>d. /\ Once(down', "offer")
      /\ \A b : Carries(down', "offer", b) => Carries(down, "offer", b)
      /\ down' \in Seq(DownMail)
  <2>1. Once(down, "offer")
    BY DEF LeaseInv, Handshake
  <2> QED BY <1>0, <1>t, <2>1, TailCarries, TailMail
<1>p. ~Has(up, "ping") /\ ~Has(down', "pong")
  <2>1. Sole(down, "pong") /\ ~(Has(up, "ping") /\ Has(down, "pong"))
    BY DEF LeaseInv, Beats
  <2>2. Has(down, "pong") /\ ~Has(Tail(down), "pong")
    BY <1>0, <1>t, <2>1, TailBeats
  <2> QED BY <1>0, <2>1, <2>2 DEF Has
<1>k. beat.kind = "pong"
  BY <1>0
<1> HIDE DEF beat
<1>h. /\ hands' \in [Leased -> Hand]
      /\ \A a \in Leased : hands'[a] # None => hands[a] # None /\ a \notin beat.stop
  <2>1. ASSUME NEW a \in Leased
        PROVE  hands'[a] \in Hand /\ (hands'[a] # None => hands[a] # None /\ a \notin beat.stop)
    <3>1. CASE a \in beat.stop
      BY <1>r, <3>1 DEF Hand
    <3>2. CASE a \notin beat.stop /\ hands[a] = "missed"
      BY <1>r, <3>2 DEF Hand, None
    <3>3. CASE a \notin beat.stop /\ hands[a] = "late" /\ deadline' > 0
      BY <1>r, <3>3 DEF Hand, None
    <3>4. CASE a \notin beat.stop /\ hands[a] # "missed" /\ ~(hands[a] = "late" /\ deadline' > 0)
      BY <1>r, <1>t, <3>4 DEF Hand
    <3> QED BY <3>1, <3>2, <3>3, <3>4
  <2>2. hands' \in [Leased -> Hand]
    BY <1>r, <2>1
  <2> QED BY <2>1, <2>2
<1>l. \A a \in Leased : hands'[a] # None /\ leases[a].renewed =>
         leases[a].left >= LEASE - beat.since
  BY <1>b, <1>h, <1>k DEF LeaseInv, Answered, Held
<1>n. /\ deadline' \in Int /\ deadline' # NoDeadline /\ deadline' <= LEASE - LEASE_GUARD
      /\ deadline' + LEASE_GUARD = LEASE - beat.since
  <2>1. LEASE \in Nat /\ LEASE_GUARD \in Nat
    BY LeaseBounds
  <2>2. deadline' = LEASE - LEASE_GUARD - beat.since /\ beat.since \in Nat
    BY <1>0, <1>b
  <2>3. deadline' \in Int /\ deadline' <= LEASE - LEASE_GUARD /\ deadline' + LEASE_GUARD = LEASE - beat.since
    BY <2>1, <2>2
  <2>4. deadline' # NoDeadline
    <3>1. LEASE - LEASE_GUARD < LEASE
      BY <2>1, LeaseBounds
    <3> QED BY <2>1, <2>3, <3>1 DEF NoDeadline
  <2> QED BY <2>3, <2>4
<1>1. LeaseTypes'
  BY <1>0, <1>d, <1>h, <1>n DEF LeaseInv, LeaseTypes
<1>2. Handshake'
  <2>1. Once(up', "ack") /\ \A b : Carries(up', "ack", b) <=> Carries(up, "ack", b)
    BY <1>0 DEF LeaseInv, Handshake, Once, Carries
  <2>2. \A b \in Leased : Fresh(b)' => Fresh(b)
    BY <1>0, <1>d, <2>1 DEF Fresh
  <2> QED BY <1>0, <1>d, <2>1, <2>2 DEF LeaseInv, Handshake
<1>3. Times'
  BY <1>0, <1>n DEF LeaseInv, Times
<1>4. Answered'
  BY <1>0, <1>p DEF Answered, Has
<1>5. Guarded'
  <2>1. \A a \in Leased : hands'[a] = "live" => hands[a] = "live" \/ deadline' > 0
    <3> SUFFICES ASSUME NEW a \in Leased, hands'[a] = "live" PROVE hands[a] = "live" \/ deadline' > 0
      OBVIOUS
    <3>1. a \notin beat.stop /\ hands[a] # "missed"
      BY <1>r DEF None
    <3> QED BY <1>r, <3>1
  <2>2. deadline' > 0 => \A x \in Int : x >= deadline' + LEASE_GUARD => x >= 0
    BY <1>n, LeaseBounds
  <2>3. \A a \in Leased : leases[a].left \in Int
    BY DEF LeaseInv, LeaseTypes, LeaseRow
  <2>4. \A a \in Leased : hands'[a] \in {"live", "awaiting"} /\ leases[a].renewed =>
           leases[a].left >= deadline' + LEASE_GUARD
    BY <1>l, <1>n DEF None
  <2>5. \A a \in Leased : hands'[a] = "live" /\ leases[a].renewed => leases[a].left >= 0
    BY <2>1, <2>2, <2>3, <2>4 DEF LeaseInv, Guarded
  <2> QED BY <1>0, <1>n, <2>4, <2>5 DEF Guarded
<1>6. Beats'
  BY <1>0, <1>p DEF Beats, Has, Sole
<1> QED BY <1>1, <1>2, <1>3, <1>4, <1>5, <1>6 DEF LeaseInv

\* A lost session takes its messages with it.
LEMMA LostKeeps ==
  ASSUME LeaseInv, SessionLost
  PROVE  LeaseInv'
<1>0. /\ up' = <<>> /\ down' = <<>> /\ asks' = {} /\ beating' = FALSE
      /\ UNCHANGED <<leases, deferred, hands, deadline>>
  BY DEF SessionLost
<1>1. LeaseTypes'
  <2>1. <<>> \in Seq(UpMail) /\ <<>> \in Seq(DownMail)
    OBVIOUS
  <2>2. FALSE \in BOOLEAN /\ {} \in SUBSET Leased
    OBVIOUS
  <2> QED BY <1>0, <2>1, <2>2, Zenon DEF LeaseInv, LeaseTypes
<1>2. Handshake'
  <2>1. \A b \in Leased : Fresh(b)' => Fresh(b)
    BY <1>0 DEF Fresh, Carries
  <2> QED BY <1>0, <2>1 DEF LeaseInv, Handshake, Once, Carries
<1>3. Times'
  BY <1>0 DEF LeaseInv, Times
<1>4. Answered'
  BY <1>0 DEF Answered
<1>5. Guarded'
  BY <1>0 DEF LeaseInv, Guarded
<1>6. Beats'
  BY <1>0 DEF Beats, Has, Sole
<1> QED BY <1>1, <1>2, <1>3, <1>4, <1>5, <1>6 DEF LeaseInv

\* Steps that only take attempts from the worker or end their leases: the watchdog, the
\* sweeps of expired and lapsed leases, an attempt's end, a hand-back.
LEMMA EndsKeep ==
  ASSUME LeaseInv,
         UNCHANGED <<deferred, asks, up, down, beating>>,
         leases' \in [Leased -> LeaseRow], hands' \in [Leased -> Hand],
         deadline' = deadline \/ (deadline' = NoDeadline /\ \A a \in Leased : hands'[a] \in {None, "missed"}),
         \A a \in Leased :
            /\ hands'[a] \in {None, hands[a]} \/ (hands'[a] = "missed" /\ hands[a] # None)
            /\ \/ leases'[a] = leases[a]
               \/ leases'[a] = Released /\ leases[a].state \in {"offered", "acked"}
               \/ /\ leases[a].state = "acked" /\ leases[a].left < 0
                  /\ leases'[a] = [leases[a] EXCEPT !.state = "expired"]
  PROVE  LeaseInv'
<1>t. /\ leases \in [Leased -> LeaseRow] /\ deadline \in Int
  BY DEF LeaseInv, LeaseTypes
<1>e. \A r \in LeaseRow : /\ [r EXCEPT !.state = "expired"].left = r.left
                          /\ [r EXCEPT !.state = "expired"].renewed = r.renewed
                          /\ [r EXCEPT !.state = "expired"].state = "expired"
  BY DEF LeaseRow
<1>l. \A a \in Leased :
         \/ leases'[a] = leases[a]
         \/ /\ leases'[a].state = "released" /\ leases'[a].left = -1 /\ ~leases'[a].renewed
            /\ leases[a].state \in {"offered", "acked"}
         \/ /\ leases[a].state = "acked" /\ leases[a].left < 0 /\ leases'[a].state = "expired"
            /\ leases'[a].left = leases[a].left /\ leases'[a].renewed = leases[a].renewed
  <2> SUFFICES ASSUME NEW a \in Leased, leases'[a] # leases[a]
               PROVE  \/ /\ leases'[a].state = "released" /\ leases'[a].left = -1 /\ ~leases'[a].renewed
                         /\ leases[a].state \in {"offered", "acked"}
                      \/ /\ leases[a].state = "acked" /\ leases[a].left < 0 /\ leases'[a].state = "expired"
                         /\ leases'[a].left = leases[a].left /\ leases'[a].renewed = leases[a].renewed
    OBVIOUS
  <2>1. CASE leases'[a] = Released /\ leases[a].state \in {"offered", "acked"}
    BY <2>1 DEF Released
  <2>2. CASE /\ leases[a].state = "acked" /\ leases[a].left < 0
             /\ leases'[a] = [leases[a] EXCEPT !.state = "expired"]
    BY <1>t, <1>e, <2>2
  <2> QED BY <2>1, <2>2
<1>h. \A a \in Leased : /\ Held(a)' => Held(a) /\ leases'[a].left = leases[a].left
                        /\ leases'[a].renewed => leases[a].renewed /\ leases'[a].left = leases[a].left
  BY <1>l DEF Held
<1>1. LeaseTypes'
  BY <1>t, LeaseBounds DEF LeaseInv, LeaseTypes, NoDeadline
<1>2. Handshake'
  <2>1. /\ Once(down', "offer") /\ Once(up', "ack")
        /\ \A b : Carries(down', "offer", b) <=> Carries(down, "offer", b)
        /\ \A b : Carries(up', "ack", b) <=> Carries(up, "ack", b)
    BY DEF LeaseInv, Handshake, Once, Carries
  <2>2. \A b \in Leased : Fresh(b)' <=> Fresh(b)
    BY <2>1 DEF Fresh
  <2>3. \A b \in Leased : Fresh(b)' => leases'[b].state \in {"offered", "released"}
    BY <1>l, <2>2 DEF LeaseInv, Handshake
  <2>4. \A b \in Leased : leases'[b].state \in {None, "offered"} \/ Fresh(b)' => ~leases'[b].renewed
    BY <1>h, <1>l, <2>2 DEF LeaseInv, Handshake, None
  <2> QED BY <2>1, <2>3, <2>4 DEF LeaseInv, Handshake
<1>3. Times'
  <2>1. \A a \in Leased : leases'[a].left >= -1 /\ (leases'[a].state = "expired" => leases'[a].left = -1)
    <3> SUFFICES ASSUME NEW a \in Leased
                 PROVE  leases'[a].left >= -1 /\ (leases'[a].state = "expired" => leases'[a].left = -1)
      OBVIOUS
    <3>1. leases[a].left \in Int
      BY <1>t DEF LeaseRow
    <3>2. leases[a].left >= -1 /\ (leases[a].state = "expired" => leases[a].left = -1)
      BY DEF LeaseInv, Times
    <3> QED BY <1>l, <3>1, <3>2
  <2> QED BY <2>1 DEF LeaseInv, Times
<1>4. Answered'
  BY <1>h DEF LeaseInv, Answered
<1>5. Guarded'
  <2>1. \A a \in Leased : hands'[a] \in {"live", "awaiting"} => hands'[a] = hands[a] /\ deadline' = deadline
    BY DEF None
  <2> QED BY <1>h, <2>1 DEF LeaseInv, Guarded
<1>6. Beats'
  BY DEF LeaseInv, Beats
<1> QED BY <1>1, <1>2, <1>3, <1>4, <1>5, <1>6 DEF LeaseInv

\* The row a released attempt has.
LEMMA ReleasedRow == Released \in LeaseRow
BY DEF Released, LeaseRow, LeaseStates

LEMMA WatchKeeps ==
  ASSUME LeaseInv, watch_lease
  PROVE  LeaseInv'
<1>0. /\ deadline' = NoDeadline
      /\ hands' = [a \in Leased |-> IF Waits(a) THEN "missed" ELSE None]
      /\ UNCHANGED <<leases, deferred, asks, up, down, beating>>
  BY DEF watch_lease
<1>1. leases' \in [Leased -> LeaseRow]
  BY <1>0 DEF LeaseInv, LeaseTypes
<1>2. hands' \in [Leased -> Hand]
  BY <1>0 DEF Hand
<1>3. \A a \in Leased : hands'[a] \in {None, "missed"} /\ (hands'[a] = "missed" => hands[a] # None)
  BY <1>0 DEF Waits, None
<1> QED BY <1>0, <1>1, <1>2, <1>3, EndsKeep

LEMMA ExpireKeeps ==
  ASSUME LeaseInv, NEW a \in Leased, expire(a)
  PROVE  LeaseInv'
<1>t. leases \in [Leased -> LeaseRow] /\ hands \in [Leased -> Hand]
  BY DEF LeaseInv, LeaseTypes
<1> DEFINE r == [leases[a] EXCEPT !.state = "expired"]
<1>0. /\ leases[a].state = "acked" /\ leases[a].left < 0
      /\ leases' = [leases EXCEPT ![a] = r]
      /\ UNCHANGED <<deferred, asks, hands, deadline, up, down, beating>>
  BY <1>t DEF expire
<1>1. r \in LeaseRow /\ r.state = "expired"
  BY <1>t DEF LeaseRow, LeaseStates
<1>2. \A b \in Leased : leases'[b] = IF b = a THEN r ELSE leases[b]
  BY <1>0, <1>t
<1>3. leases' \in [Leased -> LeaseRow] /\ hands' \in [Leased -> Hand]
  BY <1>0, <1>1, <1>t
<1> HIDE DEF r
<1>4. \A b \in Leased : leases'[b] = leases[b] \/ (b = a /\ leases'[b] = r)
  BY <1>2
<1> QED BY <1>0, <1>3, <1>4, EndsKeep DEF r

\* One row is released, and one attempt taken from the worker or none.
LEMMA ReleaseKeeps ==
  ASSUME LeaseInv, NEW a \in Leased, NEW S \in SUBSET {"offered", "acked"},
         leases' = [leases EXCEPT ![a] = IF @.state \in S THEN Released ELSE @],
         hands' = hands \/ hands' = [hands EXCEPT ![a] = None],
         UNCHANGED <<deferred, asks, deadline, up, down, beating>>
  PROVE  LeaseInv'
<1>t. leases \in [Leased -> LeaseRow] /\ hands \in [Leased -> Hand]
  BY DEF LeaseInv, LeaseTypes
<1>1. \A b \in Leased : \/ leases'[b] = leases[b]
                        \/ leases'[b] = Released /\ leases[b].state \in {"offered", "acked"}
  BY <1>t
<1>2. leases' \in [Leased -> LeaseRow]
  BY <1>t, ReleasedRow
<1>3. hands' \in [Leased -> Hand] /\ \A b \in Leased : hands'[b] \in {None, hands[b]}
  BY <1>t DEF Hand
<1> QED BY <1>1, <1>2, <1>3, EndsKeep

LEMMA LapseKeeps ==
  ASSUME LeaseInv, NEW a \in Leased, lapse(a)
  PROVE  LeaseInv'
<1>1. leases \in [Leased -> LeaseRow]
  BY DEF LeaseInv, LeaseTypes
<1>2. /\ leases' = [leases EXCEPT ![a] = IF @.state \in {"offered"} THEN Released ELSE @]
      /\ UNCHANGED <<deferred, asks, hands, deadline, up, down, beating>>
  BY <1>1 DEF lapse
<1> QED BY <1>2, ReleaseKeeps

LEMMA AttemptEndsKeeps ==
  ASSUME LeaseInv, NEW a \in Leased, AttemptEnds(a) \/ HandBack(a)
  PROVE  LeaseInv'
<1>1. CASE AttemptEnds(a)
  <2>1. /\ leases' = [leases EXCEPT ![a] = IF @.state \in {"acked"} THEN Released ELSE @]
        /\ hands' = [hands EXCEPT ![a] = None]
        /\ UNCHANGED <<deferred, asks, deadline, up, down, beating>>
    BY <1>1 DEF AttemptEnds
  <2> QED BY <2>1, ReleaseKeeps
<1>2. CASE HandBack(a)
  <2>1. /\ leases' = [leases EXCEPT ![a] = IF @.state \in {"offered", "acked"} THEN Released ELSE @]
        /\ hands' = [hands EXCEPT ![a] = None]
        /\ UNCHANGED <<deferred, asks, deadline, up, down, beating>>
    BY <1>2 DEF HandBack
  <2> QED BY <2>1, ReleaseKeeps
<1> QED BY <1>1, <1>2

\* The larger of two integers.
LEMMA LargerOf ==
  ASSUME NEW x \in Int, NEW y \in Int
  PROVE  Max({x, y}) = IF x >= y THEN x ELSE y
<1> DEFINE z == IF x >= y THEN x ELSE y
<1>1. z \in {x, y} /\ \A u \in {x, y} : z >= u
  OBVIOUS
<1>2. Max({x, y}) \in {x, y} /\ \A u \in {x, y} : Max({x, y}) >= u
  BY <1>1 DEF Max
<1> QED BY <1>1, <1>2

\* An instant passes.  While the worker runs anything the watchdog has looked before the
\* deadline could be further past than the guard reaches.
LEMMA TickKeeps ==
  ASSUME LeaseInv, Tick
  PROVE  LeaseInv'
<1>t. /\ leases \in [Leased -> LeaseRow] /\ hands \in [Leased -> Hand] /\ deadline \in Int
      /\ up \in Seq(UpMail) /\ down \in Seq(DownMail)
  BY DEF LeaseInv, LeaseTypes
<1>b. WATCHDOG \in Nat /\ LEASE \in Nat /\ LEASE_GUARD \in Nat /\ WATCHDOG <= LEASE_GUARD
  BY LeaseBounds
<1>0. /\ ~(deadline <= -WATCHDOG /\ \E a \in Leased : Runs(a))
      /\ leases' = [a \in Leased |-> [leases[a] EXCEPT !.left = Max({leases[a].left - 1, -1})]]
      /\ deadline' = IF deadline = NoDeadline THEN NoDeadline ELSE Max({deadline - 1, -WATCHDOG})
      /\ up' = Aged(up) /\ down' = Aged(down)
      /\ UNCHANGED <<deferred, asks, hands, beating>>
  BY DEF Tick
<1>l. /\ leases' \in [Leased -> LeaseRow]
      /\ \A a \in Leased : /\ leases'[a].state = leases[a].state
                           /\ leases'[a].renewed = leases[a].renewed
                           /\ leases[a].left \in Int /\ leases'[a].left \in Int
                           /\ leases'[a].left >= leases[a].left - 1 /\ leases'[a].left >= -1
                           /\ leases[a].left <= -1 => leases'[a].left = -1
  <2>1. ASSUME NEW a \in Leased
        PROVE  /\ leases'[a] = [leases[a] EXCEPT !.left = Max({leases[a].left - 1, -1})]
               /\ leases[a].left \in Int
               /\ Max({leases[a].left - 1, -1}) = IF leases[a].left - 1 >= -1 THEN leases[a].left - 1 ELSE -1
    <3>1. leases[a].left \in Int
      BY <1>t DEF LeaseRow
    <3>2. leases'[a] = [leases[a] EXCEPT !.left = Max({leases[a].left - 1, -1})]
      BY <1>0
    <3>3. leases[a].left - 1 \in Int /\ -1 \in Int
      BY <3>1
    <3>4. Max({leases[a].left - 1, -1}) = IF leases[a].left - 1 >= -1 THEN leases[a].left - 1 ELSE -1
      BY <3>3, LargerOf
    <3> QED BY <3>1, <3>2, <3>4
  <2>2. ASSUME NEW r \in LeaseRow, NEW x \in Int
        PROVE  /\ [r EXCEPT !.left = x] \in LeaseRow
               /\ [r EXCEPT !.left = x].left = x
               /\ [r EXCEPT !.left = x].state = r.state
               /\ [r EXCEPT !.left = x].renewed = r.renewed
    BY DEF LeaseRow
  <2>3. ASSUME NEW a \in Leased PROVE leases'[a] \in LeaseRow
    <3> DEFINE x == Max({leases[a].left - 1, -1})
    <3>1. /\ x = IF leases[a].left - 1 >= -1 THEN leases[a].left - 1 ELSE -1
          /\ leases[a].left \in Int /\ leases'[a] = [leases[a] EXCEPT !.left = x]
      BY <2>1
    <3> HIDE DEF x
    <3>2. x \in Int
      BY <3>1
    <3>3. leases[a] \in LeaseRow
      BY <1>t
    <3>4. [leases[a] EXCEPT !.left = x] \in LeaseRow
      BY <2>2, <3>2, <3>3
    <3> QED BY <3>1, <3>4
  <2>4. leases' \in [Leased -> LeaseRow]
    BY <1>0, <2>3
  <2>5. ASSUME NEW a \in Leased
        PROVE  /\ leases'[a].state = leases[a].state
               /\ leases'[a].renewed = leases[a].renewed
               /\ leases'[a].left = IF leases[a].left - 1 >= -1 THEN leases[a].left - 1 ELSE -1
    <3> DEFINE x == Max({leases[a].left - 1, -1})
    <3>1. x \in Int /\ leases[a] \in LeaseRow
      <4>1. x = IF leases[a].left - 1 >= -1 THEN leases[a].left - 1 ELSE -1
        BY <2>1
      <4>2. leases[a].left \in Int
        BY <2>1
      <4> HIDE DEF x
      <4> QED BY <1>t, <4>1, <4>2
    <3>2. leases'[a] = [leases[a] EXCEPT !.left = x]
      BY <2>1
    <3>3. x = IF leases[a].left - 1 >= -1 THEN leases[a].left - 1 ELSE -1
      BY <2>1
    <3> HIDE DEF x
    <3> QED BY <2>2, <3>1, <3>2, <3>3
  <2>6. \A a \in Leased : leases[a].left \in Int
    BY <2>1
  <2> QED BY <2>4, <2>5, <2>6
<1>d. /\ deadline' \in Int
      /\ deadline = NoDeadline => deadline' = NoDeadline
      /\ deadline # NoDeadline =>
           deadline' = IF deadline - 1 >= -WATCHDOG THEN deadline - 1 ELSE -WATCHDOG
  <2>1. Max({deadline - 1, -WATCHDOG}) = IF deadline - 1 >= -WATCHDOG THEN deadline - 1 ELSE -WATCHDOG
    BY <1>t, <1>b, LargerOf
  <2> QED BY <1>0, <1>t, <1>b, <2>1 DEF NoDeadline
<1>q. /\ up' \in Seq(UpMail) /\ down' \in Seq(DownMail)
      /\ DOMAIN up' = DOMAIN up /\ DOMAIN down' = DOMAIN down
      /\ \A i \in DOMAIN up : up'[i].kind = up[i].kind
      /\ \A i \in DOMAIN up : up[i].kind = "ack" => up'[i] = up[i]
      /\ \A i \in DOMAIN up : up[i].kind = "ping" => up'[i].held = up[i].held
      /\ \A i \in DOMAIN down : down'[i].kind = down[i].kind
      /\ \A i \in DOMAIN down : down[i].kind = "offer" => down'[i] = down[i]
      /\ \A i \in DOMAIN down : down[i].kind = "pong" =>
            down'[i].stop = down[i].stop /\ down'[i].since = down[i].since + 1
  BY <1>0, <1>t, AgedUp, AgedDown
<1>1. LeaseTypes'
  BY <1>0, <1>l, <1>d, <1>q DEF LeaseInv, LeaseTypes
<1>2. Handshake'
  <2>1. Once(down', "offer") /\ \A b : Carries(down', "offer", b) <=> Carries(down, "offer", b)
    BY <1>q DEF LeaseInv, Handshake, Once, Carries
  <2>2. Once(up', "ack") /\ \A b : Carries(up', "ack", b) <=> Carries(up, "ack", b)
    BY <1>q DEF LeaseInv, Handshake, Once, Carries
  <2>3. \A b \in Leased : Fresh(b)' <=> Fresh(b)
    BY <1>0, <2>1, <2>2 DEF Fresh
  <2> QED BY <1>0, <1>l, <2>1, <2>2, <2>3 DEF LeaseInv, Handshake
<1>3. Times'
  <2>1. deadline' = NoDeadline \/ deadline' <= LEASE - LEASE_GUARD
    BY <1>t, <1>b, <1>d, LeaseBounds DEF LeaseInv, Times
  <2>3. \A a \in Leased : leases'[a].left >= -1 /\ (leases'[a].state = "expired" => leases'[a].left = -1)
    <3> SUFFICES ASSUME NEW a \in Leased
                 PROVE  leases'[a].left >= -1 /\ (leases'[a].state = "expired" => leases'[a].left = -1)
      OBVIOUS
    <3>1. leases[a].state = "expired" => leases[a].left = -1
      BY DEF LeaseInv, Times
    <3> QED BY <1>l, <3>1
  <2> QED BY <2>1, <2>3 DEF Times
<1>h. \A a \in Leased : Held(a)' <=> Held(a)
  BY <1>0, <1>l DEF Held
<1>4. Answered'
  <2>1. \A i \in DOMAIN up' : up'[i].kind = "ping" => \A a \in Leased : Held(a)' => a \in up'[i].held
    BY <1>h, <1>q DEF LeaseInv, Answered
  <2>2. ASSUME NEW i \in DOMAIN down', down'[i].kind = "pong", NEW a \in Leased, Held(a)',
               a \notin down'[i].stop
        PROVE  leases'[a].left >= LEASE - down'[i].since
    <3>1. leases[a].left >= LEASE - down[i].since
      BY <1>h, <1>q, <2>2 DEF LeaseInv, Answered
    <3>2. down[i].since \in Nat
      BY <1>q, <1>t, <2>2 DEF DownMail
    <3>3. down'[i].since = down[i].since + 1
      BY <1>q, <2>2
    <3> QED BY <1>b, <1>l, <3>1, <3>2, <3>3
  <2> QED BY <2>1, <2>2 DEF Answered
<1>5. Guarded'
  <2>1. \A a \in Leased : hands'[a] \in {"live", "awaiting"} => deadline' # NoDeadline
    BY <1>0, <1>t, <1>b, <1>d, LeaseBounds DEF LeaseInv, Guarded, Times, NoDeadline
  <2>2. ASSUME NEW a \in Leased, hands'[a] = "live", leases'[a].renewed
        PROVE  leases'[a].left >= 0 /\ leases'[a].left >= deadline' + LEASE_GUARD
    <3>1. hands[a] = "live" /\ leases[a].renewed /\ Runs(a)
      BY <1>0, <1>l, <2>2 DEF Runs
    <3>2. deadline # NoDeadline /\ leases[a].left >= deadline + LEASE_GUARD
      BY <3>1 DEF LeaseInv, Guarded
    <3>3. deadline > -WATCHDOG
      BY <1>0, <1>t, <1>b, <3>1
    <3> QED BY <1>b, <1>d, <1>l, <1>t, <3>2, <3>3
  <2>3. ASSUME NEW a \in Leased, hands'[a] = "awaiting", leases'[a].renewed, deadline' > -WATCHDOG
        PROVE  leases'[a].left >= deadline' + LEASE_GUARD
    <3>1. hands[a] = "awaiting" /\ leases[a].renewed
      BY <1>0, <1>l, <2>3
    <3>2. deadline # NoDeadline
      BY <3>1 DEF LeaseInv, Guarded
    <3>3. deadline > -WATCHDOG
      BY <1>b, <1>d, <1>t, <2>3, <3>2
    <3>4. leases[a].left >= deadline + LEASE_GUARD
      BY <3>1, <3>3 DEF LeaseInv, Guarded
    <3> QED BY <1>b, <1>d, <1>l, <1>t, <2>3, <3>2, <3>4
  <2> QED BY <2>1, <2>2, <2>3 DEF Guarded
<1>6. Beats'
  <2>1. /\ Sole(up', "ping") /\ Sole(down', "pong")
        /\ Has(up', "ping") <=> Has(up, "ping")
        /\ Has(down', "pong") <=> Has(down, "pong")
    BY <1>q DEF LeaseInv, Beats, Sole, Has
  <2> QED BY <1>0, <2>1 DEF LeaseInv, Beats
<1> QED BY <1>1, <1>2, <1>3, <1>4, <1>5, <1>6 DEF LeaseInv

LEMMA AskKeeps ==
  ASSUME LeaseInv, NEW a \in Leased, AskAgain(a)
  PROVE  LeaseInv'
<1>0. asks' = asks \cup {a} /\ UNCHANGED <<leases, deferred, hands, deadline, up, down, beating>>
  BY DEF AskAgain
<1> QED BY <1>0 DEF LeaseInv, LeaseTypes, Handshake, Beats, Times, Answered, Guarded, Fresh, Carries,
                    Once, Has, Sole, Held

-----------------------------------------------------------------------------
(* The theorems.                                                           *)

\* The invariant holds of every behaviour of the two clocks.
THEOREM LeaseInvariant == LeaseSpec => []LeaseInv
<1>1. LeaseInit => LeaseInv
  <2> SUFFICES ASSUME LeaseInit PROVE LeaseInv
    OBVIOUS
  <2>1. LeaseTypes
    <3>1. [state |-> None, left |-> -1, renewed |-> FALSE] \in LeaseRow
      BY DEF LeaseRow, LeaseStates
    <3>2. leases \in [Leased -> LeaseRow]
      BY <3>1 DEF LeaseInit
    <3>3. hands \in [Leased -> Hand] /\ deadline \in Int
      BY LeaseBounds DEF LeaseInit, Hand, NoDeadline
    <3>5. beating \in BOOLEAN
      BY DEF LeaseInit
    <3>4. up \in Seq(UpMail) /\ down \in Seq(DownMail) /\ deferred \in SUBSET Leased /\ asks \in SUBSET Leased
      BY DEF LeaseInit
    <3> QED BY <3>2, <3>3, <3>4, <3>5 DEF LeaseTypes
  <2>2. Handshake
    BY DEF LeaseInit, Handshake, Fresh, Carries, Once
  <2>3. Times
    BY LeaseBounds DEF LeaseInit, Times, NoDeadline, None
  <2>4. Answered /\ Guarded
    BY DEF LeaseInit, Answered, Guarded, None
  <2>5. Beats
    BY DEF LeaseInit, Beats, Has, Sole
  <2> QED BY <2>1, <2>2, <2>3, <2>4, <2>5 DEF LeaseInv
<1>2. LeaseInv /\ [LeaseNext]_leaseVars => LeaseInv'
  BY QuietKeeps, PlaceKeeps, OfferedKeeps, AcknowledgeKeeps, RetryKeeps, SpecKeeps, AcceptKeeps,
     PingKeeps, RenewKeeps, RenewedKeeps, LostKeeps, WatchKeeps, ExpireKeeps, LapseKeeps,
     AttemptEndsKeeps, TickKeeps, AskKeeps DEF LeaseNext
<1> QED BY <1>1, <1>2, PTL DEF LeaseSpec

\* For every lease, guard and watchdog that fits into the guard: a renewed attempt is not
\* run any more when the controller has expired it (executor.rs renewed_at, watch_lease;
\* dispatch.rs renew, expire).
THEOREM WorkersStopInTime == LeaseSpec => []WorkEndsFirst
<1>1. LeaseInv => WorkEndsFirst
  <2> SUFFICES ASSUME LeaseInv, NEW a \in In("expired"), leases[a].renewed, hands[a] = "live"
               PROVE  FALSE
    BY DEF WorkEndsFirst
  <2>1. a \in Leased /\ leases[a].state = "expired"
    BY DEF In
  <2>2. leases[a].left = -1 /\ leases[a].left >= 0
    BY <2>1 DEF LeaseInv, Times, Guarded
  <2> QED BY <2>2
<1> QED BY <1>1, LeaseInvariant, PTL

-------------------------------------------------------------------------------
(***************************************************************************)
(* The log.  For any number of frames, connections and faults: the         *)
(* inductive invariant speaks of three places.  The disk is sound whatever *)
(* a crash leaves of it, so that reopening finds exactly what is missing;  *)
(* an open writer knows as much; and nothing that was said, on its way or  *)
(* in the worker's counters, claims more than what is synced.  Steps of    *)
(* the store are shown to keep this one call at a time (sync, persist,     *)
(* seal, append, finish, reopen), steps of the worker by what the pump     *)
(* leaves alone.                                                           *)
(***************************************************************************)
Flag == BOOLEAN

Frames == 1 .. MaxSeq
Ends   == [last : Nat, gaps : SUBSET Nat] \cup {NoEnd}

UpLog   == [type : {"Log"}, seq : Frames, gaps : SUBSET Nat]
             \cup [type : {"LogEnd"}, seq : Nat, gaps : SUBSET Nat]
DownLog == [type : {"LogAck", "LogRefused", "LogEndAck"}, seq : Nat]

Spools  == [frames : Seq(Frames), synced : Nat, cursor : Nat, declared : Nat, end : Ends]
Routes  == [attached : Nat, detached : Nat]
Pipes   == [mode : {"live", "due", "recovering", "orphaned", "leftover", "delivered", "gaveup"},
            next : Nat, gaps : SUBSET Nat, acked : Nat, sent : Nat, read : Nat,
            sending : 0 .. MaxSeq, batch : Seq(Frames), route : Routes,
            reporter : Flag, refused : Flag, cut : Flag, ended : Flag, endSent : Flag, endAcked : Flag]
Links   == [ctrl : Nat, bulk : Nat, attached : Nat, detached : Nat, told : Flag, next : Nat]
Threads == [live : Flag, up : Seq(UpLog), down : Seq(DownLog), through : Nat]
Disks   == [data : Seq(Frames), synced : Nat, sealedAt : Nat, sealedSeq : Nat, holes : SUBSET Frames,
            jump : Nat, rec : Ends, mark : Ends, row : {"pending", "complete"}]
Writers == [open : Flag, last : Nat, holes : SUBSET Frames, dirty : Flag, holesDirty : Flag,
            ended : Nat \cup {NotEnded}]
Usage   == [faults : Nat, spooled : SUBSET Frames, stale : Flag, torn : SUBSET Nat]

(* The worker's numbers: the next one follows every gap, also in the end   *)
(* record.                                                                 *)
Numbered(p)  == p.next # 0 /\ \A g \in p.gaps : g < p.next
EndSound(sp) == sp.end # NoEnd => \A g \in sp.end.gaps : g <= sp.end.last

LogTypes ==
    /\ spool \in Spools /\ EndSound(spool) /\ pipe \in Pipes /\ Numbered(pipe) /\ link \in Links
    /\ conns \in [Conn -> Threads] /\ disk \in Disks /\ writer \in Writers
    /\ used \in Usage

(* What is on the controller's disk.  No frame twice; what a seal covers   *)
(* is synced, and its number is the highest frame it covers; the holes     *)
(* kept beside it name every number below that one that is not synced, and *)
(* none that is sealed; each hole lies below a synced frame.               *)
Sound(d) ==
    /\ IsInjective(d.data)
    /\ d.sealedAt <= d.synced /\ d.synced <= Len(d.data)
    /\ d.sealedSeq # 0 => \E i \in 1 .. d.sealedAt : d.data[i] = d.sealedSeq
    /\ \A i \in 1 .. d.sealedAt : d.data[i] <= d.sealedSeq /\ d.data[i] \notin d.holes
    /\ \A s \in 1 .. d.sealedSeq : s \in d.holes \/ \E i \in 1 .. d.synced : d.data[i] = s
    /\ \A h \in d.holes : \E i \in 1 .. d.synced : d.data[i] > h

(* n is the highest frame on the disk.                                     *)
IsTop(d, n) ==
    /\ n \in Nat /\ \A i \in 1 .. Len(d.data) : d.data[i] <= n
    /\ n # 0 => \E i \in 1 .. Len(d.data) : d.data[i] = n

(* An open writer knows what the disk lacks.                               *)
Knows(d, w) ==
    /\ IsTop(d, w.last) /\ w.holes = (1 .. w.last) \ ToSet(d.data)
    /\ ~w.dirty => d.synced = Len(d.data)
    /\ ~w.holesDirty => d.holes = w.holes
    /\ w.ended = d.mark.last /\ (d.mark = NoEnd => d.rec = NoEnd)

(* The first hole: frames that landed late and numbers that are missing    *)
(* below a frame are covered, and the record is not past what is there.    *)
Covered(d) ==
    /\ \A i \in DOMAIN d.data : \A j \in 1 .. i - 1 :
          d.data[j] > d.data[i] => d.jump # 0 /\ d.jump <= d.data[i]
    /\ \A s \in Frames : (\E i \in DOMAIN d.data : d.data[i] > s) /\ s \notin ToSet(d.data) =>
          d.jump # 0 /\ d.jump <= s
    /\ d.jump > 1 => \E i \in DOMAIN d.data : d.jump <= d.data[i] + 1

(* A log with its marker is synced and names what it lacks.                *)
Marked(d) ==
    d.mark # NoEnd =>
       /\ d.synced = Len(d.data)
       /\ \A s \in 1 .. d.mark.last : s \in ToSet(d.data) \cup d.mark.gaps

(* A synced frame, or a stored one, is at or past n.                       *)
Reached(d, n) == n = 0 \/ \E i \in 1 .. d.synced : n <= d.data[i]
Stored(d, n)  == n = 0 \/ \E i \in 1 .. Len(d.data) : n <= d.data[i]

Finished(d) == d.mark # NoEnd /\ d.row = "complete"

(* What the worker was told: acknowledgements reach no further than what   *)
(* is synced, and an acknowledged end is there.                            *)
Answer(d, m) ==
    /\ m.type = "LogAck" => Reached(d, m.seq)
    /\ m.type = "LogEndAck" => Finished(d)

TellsTruth(d, cs) ==
    \A c \in Conn : /\ Stored(d, cs[c].through)
                    /\ \A i \in DOMAIN cs[c].down : Answer(d, cs[c].down[i])

Believes(d, p, sp) ==
    /\ Reached(d, p.acked) /\ Reached(d, sp.cursor)
    /\ p.endAcked \/ p.mode = "delivered" => Finished(d)

LogInv ==
    /\ LogTypes /\ Sound(disk) /\ (writer.open => Knows(disk, writer))
    /\ (used.stale \/ Covered(disk)) /\ Marked(disk)
    /\ TellsTruth(disk, conns) /\ Believes(disk, pipe, spool)
------------------------------------------------------------------------------
(* Numbers and sequences.                                                  *)

LEMMA LeastNatural ==
  ASSUME NEW T \in SUBSET Nat, T # {}
  PROVE  \E m \in T : \A k \in T : m <= k
<1> DEFINE R == OpToRel(<, Nat)
<1>1. IsWellFoundedOn(R, Nat)
  BY NatLessThanWellFounded
<1>2. \A k \in Nat, m \in Nat : k < m => <<k, m>> \in R
  BY DEF OpToRel
<1> HIDE DEF R
<1>3. \E m \in T : \A k \in T : ~(<<k, m>> \in R)
  BY <1>1, WFMin
<1>4. \E m \in T : \A k \in T : ~(k < m)
  BY <1>2, <1>3
<1>5. \A k \in T, m \in T : ~(k < m) => m <= k
  OBVIOUS
<1> QED BY <1>4, <1>5

(* A set of numbers with a bound has a highest one.                        *)
LEMMA TopNatural ==
  ASSUME NEW N \in Nat, NEW T \in SUBSET (0 .. N), T # {}
  PROVE  Max(T) \in T /\ \A x \in T : x <= Max(T)
<1> DEFINE U == {n \in Nat : \A x \in T : x <= n}
<1>1. N \in U
  OBVIOUS
<1>2. PICK m \in U : \A k \in U : m <= k
  BY <1>1, LeastNatural
<1>3. m \in Nat /\ \A x \in T : x \in Nat /\ x <= m
  OBVIOUS
<1>4. m \in T
  <2> SUFFICES ASSUME m \notin T PROVE FALSE
    OBVIOUS
  <2>1. \A x \in T : x \in Nat /\ x < m
    BY <1>3
  <2>0. PICK y \in T : TRUE
    OBVIOUS
  <2>2. m # 0
    BY <2>0, <2>1, <1>3
  <2>3. m - 1 \in Nat /\ \A x \in T : x <= m - 1
    BY <2>1, <2>2, <1>3
  <2>4. m - 1 \in U
    BY <2>3
  <2> QED BY <2>4, <1>2, <1>3
<1>5. \E x \in T : \A y \in T : x >= y
  BY <1>3, <1>4
<1>6. Max(T) \in T /\ \A y \in T : Max(T) >= y
  BY <1>5 DEF Max
<1> QED BY <1>6

LEMMA HigherOf ==
  ASSUME NEW a \in Int, NEW b \in Int
  PROVE  Max({a, b}) \in {a, b} /\ a <= Max({a, b}) /\ b <= Max({a, b})
<1>1. \E x \in {a, b} : \A y \in {a, b} : x >= y
  OBVIOUS
<1>2. Max({a, b}) \in {a, b} /\ \A y \in {a, b} : Max({a, b}) >= y
  BY <1>1 DEF Max
<1>3. Max({a, b}) >= a /\ Max({a, b}) >= b
  BY <1>2
<1> QED BY <1>2, <1>3

LEMMA LowerOf ==
  ASSUME NEW a \in Int, NEW b \in Int
  PROVE  Min({a, b}) \in {a, b} /\ Min({a, b}) <= a /\ Min({a, b}) <= b
<1>1. \E x \in {a, b} : \A y \in {a, b} : x =< y
  OBVIOUS
<1>2. Min({a, b}) \in {a, b} /\ \A y \in {a, b} : Min({a, b}) =< y
  BY <1>1 DEF Min
<1>3. Min({a, b}) =< a /\ Min({a, b}) =< b
  BY <1>2
<1> QED BY <1>2, <1>3

(* What is left of a sequence that was cut.                                *)
LEMMA Prefix ==
  ASSUME NEW S, NEW s \in Seq(S), NEW k \in 0 .. Len(s)
  PROVE  /\ SubSeq(s, 1, k) \in Seq(S) /\ Len(SubSeq(s, 1, k)) = k
         /\ \A i \in 1 .. k : SubSeq(s, 1, k)[i] = s[i]
OBVIOUS

(* What follows the first k elements.                                      *)
LEMMA Suffix ==
  ASSUME NEW S, NEW s \in Seq(S), NEW k \in 0 .. Len(s)
  PROVE  /\ SubSeq(s, k + 1, Len(s)) \in Seq(S) /\ Len(SubSeq(s, k + 1, Len(s))) = Len(s) - k
         /\ ToSet(SubSeq(s, k + 1, Len(s))) = {s[i] : i \in k + 1 .. Len(s)}
<1> DEFINE t == SubSeq(s, k + 1, Len(s))
<1>1. t \in Seq(S) /\ Len(t) = Len(s) - k /\ \A i \in 1 .. Len(s) - k : t[i] = s[k + i]
  OBVIOUS
<1> HIDE DEF t
<1>2. ASSUME NEW x \in ToSet(t) PROVE x \in {s[i] : i \in k + 1 .. Len(s)}
  <2>1. PICK i \in DOMAIN t : x = t[i]
    BY DEF ToSet
  <2>2. i \in 1 .. Len(s) - k
    BY <1>1
  <2>3. x = s[k + i] /\ k + i \in k + 1 .. Len(s)
    BY <1>1, <2>1, <2>2
  <2> QED BY <2>3
<1>3. ASSUME NEW x \in {s[i] : i \in k + 1 .. Len(s)} PROVE x \in ToSet(t)
  <2>1. PICK i \in k + 1 .. Len(s) : x = s[i]
    OBVIOUS
  <2>2. i - k \in 1 .. Len(s) - k /\ k + (i - k) = i
    BY <2>1
  <2>3. i - k \in DOMAIN t /\ t[i - k] = x
    BY <1>1, <2>1, <2>2
  <2> QED BY <2>3 DEF ToSet
<1>4. ToSet(t) = {s[i] : i \in k + 1 .. Len(s)}
  BY <1>2, <1>3
<1> QED BY <1>1, <1>4 DEF t


------------------------------------------------------------------------------
(* What the disk says.                                                     *)

LEMMA DiskFacts ==
  ASSUME NEW d \in Disks
  PROVE  /\ d.data \in Seq(Frames) /\ Len(d.data) \in Nat /\ DOMAIN d.data = 1 .. Len(d.data)
         /\ \A i \in 1 .. Len(d.data) : d.data[i] \in Frames /\ d.data[i] \in Nat /\ d.data[i] # 0
                                       /\ d.data[i] <= MaxSeq
         /\ d.synced \in Nat /\ d.sealedAt \in Nat /\ d.sealedSeq \in Nat /\ d.jump \in Nat
         /\ d.holes \in SUBSET Frames /\ MaxSeq \in Nat
<1>1. MaxSeq \in Nat
  BY LogBounds
<1> QED BY <1>1 DEF Disks, Frames

(* There is a highest frame, and only one.                                 *)
LEMMA TopExists ==
  ASSUME NEW d \in Disks
  PROVE  \E n \in 0 .. MaxSeq : IsTop(d, n)
<1> DEFINE T == {0} \cup ToSet(d.data)
<1>1. T \in SUBSET (0 .. MaxSeq) /\ T # {}
  BY DiskFacts DEF ToSet
<1>2. Max(T) \in T /\ \A x \in T : x <= Max(T)
  BY <1>1, TopNatural, DiskFacts
<1>3. PICK n : n = Max(T)
  OBVIOUS
<1>4. n \in 0 .. MaxSeq /\ n \in Nat
  BY <1>1, <1>2, <1>3
<1>5. \A i \in 1 .. Len(d.data) : d.data[i] <= n
  <2> TAKE i \in 1 .. Len(d.data)
  <2>1. d.data[i] \in T
    BY DiskFacts DEF ToSet
  <2> QED BY <2>1, <1>2, <1>3
<1>6. n # 0 => \E i \in 1 .. Len(d.data) : d.data[i] = n
  BY <1>2, <1>3, DiskFacts DEF ToSet
<1> QED BY <1>4, <1>5, <1>6 DEF IsTop

LEMMA TopUnique ==
  ASSUME NEW d \in Disks, NEW m, NEW n, IsTop(d, m), IsTop(d, n)
  PROVE  m = n
<1>1. m <= n
  BY DiskFacts DEF IsTop
<1>2. n <= m
  BY DiskFacts DEF IsTop
<1> QED BY <1>1, <1>2 DEF IsTop

(* The number of a seal is not past the highest frame.                     *)
LEMMA SealBelowTop ==
  ASSUME NEW d \in Disks, Sound(d), NEW n, IsTop(d, n)
  PROVE  d.sealedSeq <= n /\ n \in 0 .. MaxSeq /\ n \in Nat
<1>1. n \in Nat /\ d.sealedSeq \in Nat /\ MaxSeq \in Nat
  BY DiskFacts DEF IsTop
<1>2. d.sealedSeq <= n
  <2>1. CASE d.sealedSeq = 0
    BY <1>1, <2>1
  <2>2. CASE d.sealedSeq # 0
    <3>1. PICK i \in 1 .. d.sealedAt : d.data[i] = d.sealedSeq
      BY <2>2 DEF Sound
    <3>2. i \in 1 .. Len(d.data)
      BY <3>1, DiskFacts DEF Sound
    <3> QED BY <3>1, <3>2 DEF IsTop
  <2> QED BY <2>1, <2>2
<1>3. n <= MaxSeq
  BY DiskFacts DEF IsTop
<1> QED BY <1>1, <1>2, <1>3

(* What the decoding of the unsealed frames starts from and finds.         *)
LEMMA TopFramesFacts ==
  ASSUME NEW d \in Disks, Sound(d)
  PROVE  /\ TopFrames(d) \in Seq(Frames)
         /\ ToSet(TopFrames(d)) = {d.data[i] : i \in d.sealedAt + 1 .. Len(d.data)}
<1>1. d.sealedAt \in 0 .. Len(d.data)
  BY DiskFacts DEF Sound
<1> QED BY <1>1, DiskFacts, Suffix DEF TopFrames

(* Reopening finds the highest frame and everything missing below it       *)
(* (open_attempt).                                                         *)
LEMMA OpenedExact ==
  ASSUME NEW d \in Disks, Sound(d), NEW n, IsTop(d, n)
  PROVE  Opened(d).writer.last = n /\ Opened(d).writer.holes = (1 .. n) \ ToSet(d.data)
<1> DEFINE top  == ToSet(TopFrames(d))
           last == Max({d.sealedSeq} \cup top)
<1>1. top = {d.data[i] : i \in d.sealedAt + 1 .. Len(d.data)}
  BY TopFramesFacts
<1>2. d.sealedSeq <= n /\ n \in 0 .. MaxSeq /\ n \in Nat
  BY SealBelowTop
<1>3. d.sealedAt \in Nat /\ Len(d.data) \in Nat /\ d.sealedAt <= Len(d.data) /\ d.sealedSeq \in Nat
      /\ MaxSeq \in Nat
  BY DiskFacts DEF Sound
<1>4. {d.sealedSeq} \cup top \in SUBSET (0 .. MaxSeq) /\ {d.sealedSeq} \cup top # {}
  <2> HIDE DEF top, last
  <2>1. d.sealedSeq \in 0 .. MaxSeq
    BY <1>2, <1>3
  <2>2. \A i \in d.sealedAt + 1 .. Len(d.data) : d.data[i] \in 0 .. MaxSeq
    <3> TAKE i \in d.sealedAt + 1 .. Len(d.data)
    <3>1. i \in 1 .. Len(d.data)
      BY <1>3
    <3> QED BY <3>1, <1>3, DiskFacts
  <2> QED BY <2>1, <2>2, <1>1
<1>5. last \in {d.sealedSeq} \cup top /\ \A x \in {d.sealedSeq} \cup top : x <= last
  BY <1>3, <1>4, TopNatural
<1>6. PICK m : m = last
  OBVIOUS
<1> HIDE DEF last, top
<1>7. m \in 0 .. MaxSeq /\ m \in {d.sealedSeq} \cup top /\ d.sealedSeq <= m /\ \A x \in top : x <= m
  BY <1>4, <1>5, <1>6
<1>8. IsTop(d, m)
  <2>1. ASSUME NEW i \in 1 .. Len(d.data) PROVE d.data[i] <= m
    <3>1. CASE i <= d.sealedAt
      <4>1. d.data[i] <= d.sealedSeq
        BY <1>3, <3>1 DEF Sound
      <4> QED BY <4>1, <1>3, <1>7, DiskFacts
    <3>2. CASE ~(i <= d.sealedAt)
      <4>1. i \in d.sealedAt + 1 .. Len(d.data)
        BY <1>3, <3>2
      <4> QED BY <4>1, <1>1, <1>7
    <3> QED BY <3>1, <3>2
  <2>2. m # 0 => \E i \in 1 .. Len(d.data) : d.data[i] = m
    <3>1. CASE m = d.sealedSeq
      BY <3>1, <1>3 DEF Sound
    <3>2. CASE m \in top
      BY <3>2, <1>1, <1>3
    <3> QED BY <3>1, <3>2, <1>7
  <2> QED BY <2>1, <2>2, <1>7 DEF IsTop
<1>9. m = n
  BY <1>8, TopUnique
<1>10. Opened(d).writer.last = n
  BY <1>6, <1>9 DEF Opened, last, top
<1>11. Opened(d).writer.holes = (d.holes \cup (d.sealedSeq + 1 .. n)) \ top
  BY <1>6, <1>9 DEF Opened, last, top
<1>12. ToSet(d.data) = {d.data[i] : i \in 1 .. Len(d.data)}
  BY DiskFacts DEF ToSet
<1>13. ASSUME NEW s \in (d.holes \cup (d.sealedSeq + 1 .. n)) \ top PROVE s \in (1 .. n) \ ToSet(d.data)
  <2>1. s \in Nat /\ s # 0 /\ s <= n
    <3>1. CASE s \in d.holes
      <4>1. s \in Nat /\ s # 0
        BY <3>1, DiskFacts DEF Frames
      <4>2. PICK i \in 1 .. d.synced : d.data[i] > s
        BY <3>1 DEF Sound
      <4>3. i \in 1 .. Len(d.data)
        BY <4>2, DiskFacts DEF Sound
      <4>4. d.data[i] <= n /\ d.data[i] \in Nat
        BY <4>3, DiskFacts DEF IsTop
      <4> QED BY <4>1, <4>2, <4>4, <1>2
    <3>2. CASE s \in d.sealedSeq + 1 .. n
      BY <3>2, <1>2, <1>3
    <3> QED BY <3>1, <3>2
  <2>2. ASSUME NEW i \in 1 .. Len(d.data), d.data[i] = s PROVE FALSE
    <3>1. i <= d.sealedAt
      BY <2>2, <1>1, <1>3
    <3>2. s <= d.sealedSeq /\ s \notin d.holes
      BY <3>1, <2>2, <1>3 DEF Sound
    <3>3. s \in d.sealedSeq + 1 .. n
      BY <3>2
    <3> QED BY <3>2, <3>3, <1>2, <1>3
  <2> QED BY <2>1, <2>2, <1>2, <1>12
<1>14. ASSUME NEW s \in (1 .. n) \ ToSet(d.data) PROVE s \in (d.holes \cup (d.sealedSeq + 1 .. n)) \ top
  <2>1. s \notin top
    BY <1>1, <1>3, <1>12
  <2>2. CASE s <= d.sealedSeq
    <3>1. s \in 1 .. d.sealedSeq
      BY <2>2, <1>2, <1>3
    <3>2. s \in d.holes \/ \E i \in 1 .. d.synced : d.data[i] = s
      BY <3>1 DEF Sound
    <3>3. \A i \in 1 .. d.synced : i \in 1 .. Len(d.data)
      BY DiskFacts DEF Sound
    <3> QED BY <2>1, <3>2, <3>3, <1>12
  <2>3. CASE ~(s <= d.sealedSeq)
    BY <2>1, <2>3, <1>2, <1>3
  <2> QED BY <2>2, <2>3
<1> QED BY <1>10, <1>11, <1>13, <1>14

------------------------------------------------------------------------------
(* Reopening.                                                              *)

(* What a power cut leaves is sound (Survivors).                           *)
Cut(d, k) == [d EXCEPT !.data = SubSeq(d.data, 1, k), !.synced = k]

LEMMA CutSound ==
  ASSUME NEW d \in Disks, Sound(d), NEW k \in d.synced .. Len(d.data), NEW e, e = Cut(d, k)
  PROVE  /\ e \in Disks /\ Sound(e) /\ Len(e.data) = k /\ e.synced = k
         /\ \A i \in 1 .. k : e.data[i] = d.data[i]
<1>0. k \in 0 .. Len(d.data) /\ k \in Nat /\ d.synced <= k
  BY DiskFacts
<1>1. PICK t : t = SubSeq(d.data, 1, k)
  OBVIOUS
<1>2. t \in Seq(Frames) /\ Len(t) = k /\ \A i \in 1 .. k : t[i] = d.data[i]
  BY <1>0, <1>1, DiskFacts, Prefix
<1>3. /\ e.data = t /\ e.synced = k /\ e.sealedAt = d.sealedAt /\ e.sealedSeq = d.sealedSeq
      /\ e.holes = d.holes /\ e \in Disks
  BY <1>0, <1>1, <1>2 DEF Disks, Cut
<1>4. d.sealedAt \in Nat /\ d.synced \in Nat /\ Len(d.data) \in Nat /\ k <= Len(d.data)
      /\ DOMAIN d.data = 1 .. Len(d.data) /\ DOMAIN t = 1 .. k
  BY <1>0, <1>2, DiskFacts
<1>5. IsInjective(e.data)
  <2>1. \A a, b \in 1 .. k : a \in DOMAIN d.data /\ b \in DOMAIN d.data
    BY <1>0, <1>4
  <2>2. \A a, b \in 1 .. k : t[a] = t[b] => a = b
    BY <2>1, <1>2 DEF Sound, IsInjective
  <2> QED BY <2>2, <1>3, <1>4 DEF IsInjective
<1>6. e.sealedAt <= e.synced /\ e.synced <= Len(e.data)
  BY <1>0, <1>2, <1>3, <1>4 DEF Sound
<1>7. \A i \in 1 .. d.synced : i \in 1 .. k
  BY <1>0, <1>4
<1>8. \A i \in 1 .. d.sealedAt : i \in 1 .. k
  BY <1>0, <1>4 DEF Sound
<1>9. e.sealedSeq # 0 => \E i \in 1 .. e.sealedAt : e.data[i] = e.sealedSeq
  BY <1>2, <1>3, <1>8 DEF Sound
<1>10. \A i \in 1 .. e.sealedAt : e.data[i] <= e.sealedSeq /\ e.data[i] \notin e.holes
  BY <1>2, <1>3, <1>8 DEF Sound
<1>11. \A s \in 1 .. e.sealedSeq : s \in e.holes \/ \E i \in 1 .. e.synced : e.data[i] = s
  BY <1>2, <1>3, <1>7 DEF Sound
<1>12. \A h \in e.holes : \E i \in 1 .. e.synced : e.data[i] > h
  BY <1>2, <1>3, <1>7 DEF Sound
<1> QED BY <1>2, <1>3, <1>5, <1>6, <1>9, <1>10, <1>11, <1>12 DEF Sound

(* The first hole that reopening finds lies below the highest frame, or is *)
(* the recorded one, and never past that (fold_frame, read_first_hole).    *)
LEMMA FirstHoleFacts ==
  ASSUME NEW d \in Disks, Sound(d), NEW n, IsTop(d, n)
  PROVE  /\ FirstHole(d) \in Nat
         /\ d.jump # 0 => FirstHole(d) # 0 /\ FirstHole(d) <= d.jump
         /\ FirstHole(d) = d.jump \/ FirstHole(d) <= n
<1> DEFINE fs == TopFrames(d)
           found == Missing(d.sealedSeq, fs)
           known == found \cup Ranges(d.holes) \cup ({d.jump} \ {0})
<1>0. n \in Nat /\ n <= MaxSeq /\ d.sealedSeq \in Nat /\ d.sealedSeq <= n /\ MaxSeq \in Nat /\ d.jump \in Nat
  BY SealBelowTop, DiskFacts
<1>1. fs \in Seq(Frames) /\ \A x \in ToSet(fs) : x \in Nat /\ x <= n
  <2>1. fs \in Seq(Frames) /\ ToSet(fs) = {d.data[i] : i \in d.sealedAt + 1 .. Len(d.data)}
    BY TopFramesFacts
  <2>2. \A i \in d.sealedAt + 1 .. Len(d.data) : i \in 1 .. Len(d.data)
    BY DiskFacts DEF Sound
  <2>3. \A i \in 1 .. Len(d.data) : d.data[i] \in Nat /\ d.data[i] <= n
    BY DiskFacts DEF IsTop
  <2> QED BY <2>1, <2>2, <2>3
<1> HIDE DEF fs
<1>2. ASSUME NEW x \in found PROVE x \in Nat /\ x # 0 /\ x <= n
  <2>1. PICK i \in DOMAIN fs : /\ x = Max({d.sealedSeq} \cup ToSet(SubSeq(fs, 1, i - 1))) + 1
                               /\ fs[i] > Max({d.sealedSeq} \cup ToSet(SubSeq(fs, 1, i - 1))) + 1
    BY DEF Missing
  <2>2. i \in 1 .. Len(fs) /\ i - 1 \in 0 .. Len(fs) /\ Len(fs) \in Nat
    BY <1>1
  <2>3. PICK g : g = SubSeq(fs, 1, i - 1)
    OBVIOUS
  <2>4. g \in Seq(Frames) /\ Len(g) = i - 1 /\ \A k \in 1 .. i - 1 : g[k] = fs[k]
    BY <1>1, <2>2, <2>3, Prefix
  <2>5. \A k \in DOMAIN g : g[k] \in ToSet(fs)
    <3>1. DOMAIN g = 1 .. i - 1 /\ DOMAIN fs = 1 .. Len(fs)
      BY <1>1, <2>2, <2>4
    <3>2. \A k \in 1 .. i - 1 : k \in DOMAIN fs
      BY <2>2, <3>1
    <3> QED BY <3>1, <3>2, <2>4 DEF ToSet
  <2>6. {d.sealedSeq} \cup ToSet(g) \in SUBSET (0 .. n) /\ {d.sealedSeq} \cup ToSet(g) # {}
    BY <1>0, <1>1, <2>5 DEF ToSet
  <2>7. Max({d.sealedSeq} \cup ToSet(g)) \in {d.sealedSeq} \cup ToSet(g)
    BY <1>0, <2>6, TopNatural
  <2>8. PICK m : m = Max({d.sealedSeq} \cup ToSet(g))
    OBVIOUS
  <2>9. m \in 0 .. n /\ x = m + 1 /\ fs[i] > m + 1
    BY <2>1, <2>3, <2>6, <2>7, <2>8
  <2>10. fs[i] \in Nat /\ fs[i] <= n
    BY <1>1, <2>1 DEF ToSet
  <2> QED BY <1>0, <2>9, <2>10
<1>3. ASSUME NEW x \in Ranges(d.holes) PROVE x \in Nat /\ x # 0 /\ x <= n
  <2>1. x \in d.holes
    BY DEF Ranges
  <2>2. PICK i \in 1 .. d.synced : d.data[i] > x
    BY <2>1 DEF Sound
  <2>3. i \in 1 .. Len(d.data)
    BY <2>2, DiskFacts DEF Sound
  <2>4. d.data[i] <= n /\ d.data[i] \in Nat
    BY <2>3, DiskFacts DEF IsTop
  <2>5. x \in Nat /\ x # 0
    BY <2>1, DiskFacts DEF Frames
  <2> QED BY <2>2, <2>4, <2>5, <1>0
<1> HIDE DEF found
<1>4. FirstHole(d) = IF known = {} THEN 0 ELSE Min(known)
  BY DEF FirstHole, known, found, fs
<1>5. \A x \in known : x \in Nat /\ x # 0 /\ (x <= n \/ x = d.jump)
  BY <1>0, <1>2, <1>3
<1>6. d.jump # 0 => d.jump \in known
  OBVIOUS
<1> HIDE DEF known
<1>7. CASE known = {}
  BY <1>4, <1>6, <1>7, <1>0
<1>8. CASE known # {}
  <2>1. \E m \in known : \A k \in known : m <= k
    BY <1>5, <1>8, LeastNatural
  <2>2. Min(known) \in known /\ \A k \in known : Min(known) <= k
    BY <2>1 DEF Min
  <2>3. FirstHole(d) = Min(known)
    BY <1>4, <1>8
  <2>4. FirstHole(d) \in known /\ \A k \in known : FirstHole(d) <= k
    BY <2>2, <2>3
  <2> QED BY <2>4, <1>5, <1>6
<1> QED BY <1>7, <1>8

LEMMA NoEndFacts == NoEnd \in Ends /\ NoEnd.last = NotEnded /\ NotEnded \notin Nat
                    /\ \A x \in Ends : x.last \in Nat \cup {NotEnded} /\ x.gaps \subseteq Nat
                                       /\ (x # NoEnd <=> x.last \in Nat) /\ (x # NoEnd <=> x.last # NotEnded)
<1>1. NoEnd.last = -1 /\ NoEnd.gaps = {} /\ NoEnd \in Ends
  BY DEF NoEnd, Ends, NotEnded
<1>2. \A x \in [last : Nat, gaps : SUBSET Nat] : x.last \in Nat /\ x.gaps \subseteq Nat /\ x.last # -1
  OBVIOUS
<1> QED BY <1>1, <1>2 DEF Ends, NotEnded

(* Soundness is about the frames, the seal and the holes; a sync does no   *)
(* harm.                                                                   *)
LEMMA SyncSound ==
  ASSUME NEW d \in Disks, NEW e \in Disks, Sound(d),
         e.data = d.data, e.sealedAt = d.sealedAt, e.sealedSeq = d.sealedSeq, e.holes = d.holes,
         e.synced = d.synced \/ e.synced = Len(d.data)
  PROVE  Sound(e)
<1>1. d.synced \in Nat /\ Len(d.data) \in Nat /\ d.synced <= Len(d.data) /\ d.synced <= e.synced
      /\ e.synced <= Len(d.data) /\ e.synced \in Nat /\ d.sealedAt <= d.synced /\ d.sealedAt \in Nat
  BY DiskFacts DEF Sound
<1>2. \A i \in 1 .. d.synced : i \in 1 .. e.synced
  BY <1>1
<1>3. d.sealedAt <= e.synced
  BY <1>1
<1>4. \A s \in 1 .. e.sealedSeq : s \in e.holes \/ \E i \in 1 .. e.synced : e.data[i] = s
  BY <1>2 DEF Sound
<1>5. \A h \in e.holes : \E i \in 1 .. e.synced : e.data[i] > h
  BY <1>2 DEF Sound
<1> QED BY <1>1, <1>3, <1>4, <1>5 DEF Sound

(* What a disk lacks below its highest frame n, and the marker it has or   *)
(* is given.                                                               *)
Lacks(d, n)  == (1 .. n) \ ToSet(d.data)
Mended(d, n) ==
    IF d.mark = NoEnd /\ d.rec # NoEnd
    THEN [last |-> d.rec.last, gaps |-> MergedGaps(n, Lacks(d, n), d.rec.last, d.rec.gaps)]
    ELSE d.mark

(* The writer and the directory that reopening makes (open_attempt).       *)
LEMMA OpenedIs ==
  ASSUME NEW d \in Disks, Sound(d), NEW n, IsTop(d, n)
  PROVE  /\ Opened(d).disk = [d EXCEPT !.synced = Len(d.data), !.mark = Mended(d, n), !.jump = FirstHole(d)]
         /\ Opened(d).writer = [open |-> TRUE, last |-> n, holes |-> Lacks(d, n), dirty |-> FALSE,
                                holesDirty |-> Lacks(d, n) # d.holes, ended |-> Mended(d, n).last]
<1> DEFINE last  == Max({d.sealedSeq} \cup ToSet(TopFrames(d)))
           holes == (d.holes \cup (d.sealedSeq + 1 .. last)) \ ToSet(TopFrames(d))
           H     == Lacks(d, n)
<1>1. last = n /\ holes = H
  BY OpenedExact DEF Opened, Lacks
<1>0. PICK mk : mk = Mended(d, n)
  OBVIOUS
<1> HIDE DEF last, holes, H
<1>2. mk = IF d.mark = NoEnd /\ d.rec # NoEnd
           THEN [last |-> d.rec.last, gaps |-> MergedGaps(last, holes, d.rec.last, d.rec.gaps)]
           ELSE d.mark
  BY <1>0, <1>1 DEF Mended, H
<1>3. Opened(d).disk = [d EXCEPT !.synced = Len(d.data), !.mark = mk, !.jump = FirstHole(d)]
  BY <1>2 DEF Opened, last, holes
<1>4. Opened(d).writer = [open |-> TRUE, last |-> last, holes |-> holes, dirty |-> FALSE,
                          holesDirty |-> holes # d.holes, ended |-> mk.last]
  BY <1>2 DEF Opened, last, holes
<1> QED BY <1>0, <1>1, <1>3, <1>4 DEF H

LEMMA WriterRecord ==
  ASSUME NEW o \in Flag, NEW n \in Nat, NEW H \in SUBSET Frames, NEW dt \in Flag, NEW hd \in Flag,
         NEW en \in Nat \cup {NotEnded}
  PROVE  [open |-> o, last |-> n, holes |-> H, dirty |-> dt, holesDirty |-> hd, ended |-> en] \in Writers
BY DEF Writers

LEMMA OpenedSound ==
  ASSUME NEW d \in Disks, Sound(d), Marked(d), NEW e, e = Opened(d).disk, NEW w, w = Opened(d).writer
  PROVE  /\ e \in Disks /\ Sound(e) /\ Marked(e) /\ w \in Writers /\ w.open /\ Knows(e, w)
         /\ e.data = d.data /\ e.synced = Len(d.data) /\ e.row = d.row /\ e.rec = d.rec
         /\ d.mark # NoEnd => e.mark = d.mark
         /\ Covered(d) => Covered(e)
<1>1. PICK n \in 0 .. MaxSeq : IsTop(d, n)
  BY TopExists
<1>17. PICK H : H = Lacks(d, n)
  OBVIOUS
<1>2. H = (1 .. n) \ ToSet(d.data)
  BY <1>17 DEF Lacks
<1>18. PICK mk : mk = Mended(d, n)
  OBVIOUS
<1>3. mk = IF d.mark = NoEnd /\ d.rec # NoEnd
           THEN [last |-> d.rec.last, gaps |-> MergedGaps(n, H, d.rec.last, d.rec.gaps)]
           ELSE d.mark
  BY <1>17, <1>18 DEF Mended
<1>4. PICK fh : fh = FirstHole(d)
  OBVIOUS
<1>5. /\ e = [d EXCEPT !.synced = Len(d.data), !.mark = mk, !.jump = fh]
      /\ w = [open |-> TRUE, last |-> n, holes |-> H, dirty |-> FALSE,
              holesDirty |-> H # d.holes, ended |-> mk.last]
  BY <1>1, <1>17, <1>18, <1>4, OpenedIs
<1>6. fh \in Nat /\ (d.jump # 0 => fh # 0 /\ fh <= d.jump) /\ (fh = d.jump \/ fh <= n)
  BY <1>1, <1>4, FirstHoleFacts
<1>7. d.rec \in Ends /\ d.mark \in Ends
  BY DEF Disks
<1>8. H \in SUBSET Frames /\ H \subseteq Nat
  BY <1>1, <1>2, LogBounds DEF Frames
<1>9. /\ mk \in Ends /\ (d.mark # NoEnd => mk = d.mark) /\ (mk = NoEnd => d.rec = NoEnd)
      /\ mk.last \in Nat \cup {NotEnded}
  <2>1. CASE d.mark = NoEnd /\ d.rec # NoEnd
    <3>1. d.rec.last \in Nat /\ d.rec.gaps \subseteq Nat
      BY <2>1, <1>7, NoEndFacts
    <3>2. MergedGaps(n, H, d.rec.last, d.rec.gaps) \in SUBSET Nat
      <4>1. n + 1 .. d.rec.last \subseteq Nat
        BY <3>1, <1>1, LogBounds
      <4> QED BY <3>1, <4>1, <1>8 DEF MergedGaps
    <3>3. mk \in [last : Nat, gaps : SUBSET Nat]
      BY <1>3, <2>1, <3>1, <3>2
    <3>4. mk \in Ends /\ mk.last \in Nat
      BY <3>3 DEF Ends
    <3> QED BY <3>4, <2>1, NoEndFacts
  <2>2. CASE ~(d.mark = NoEnd /\ d.rec # NoEnd)
    BY <1>3, <1>7, <2>2, NoEndFacts
  <2> QED BY <2>1, <2>2
<1>10. /\ e \in Disks /\ e.data = d.data /\ e.synced = Len(d.data) /\ e.row = d.row /\ e.rec = d.rec
       /\ e.sealedAt = d.sealedAt /\ e.sealedSeq = d.sealedSeq /\ e.holes = d.holes /\ e.mark = mk
       /\ e.jump = fh
  <2>1. PICK k \in Nat : k = Len(d.data)
    BY DiskFacts
  <2>2. e = [d EXCEPT !.synced = k, !.mark = mk, !.jump = fh] /\ mk \in Ends /\ fh \in Nat
    BY <1>5, <1>6, <1>9, <2>1
  <2>3. e \in Disks
    BY <2>2 DEF Disks
  <2>4. /\ e.data = d.data /\ e.synced = k /\ e.row = d.row /\ e.rec = d.rec /\ e.sealedAt = d.sealedAt
        /\ e.sealedSeq = d.sealedSeq /\ e.holes = d.holes /\ e.mark = mk /\ e.jump = fh
    BY <2>2 DEF Disks
  <2> QED BY <2>1, <2>3, <2>4
<1>11. Sound(e)
  BY <1>10, SyncSound
<1>12. /\ w.open = TRUE /\ w.last = n /\ w.holes = H /\ w.dirty = FALSE
       /\ w.holesDirty = (H # d.holes) /\ w.ended = mk.last
  BY <1>5
<1>13. w \in Writers
  <2>1. PICK hd : hd = (H # d.holes)
    OBVIOUS
  <2>2. PICK en : en = mk.last
    OBVIOUS
  <2>3. TRUE \in Flag /\ FALSE \in Flag /\ hd \in Flag
    BY <2>1 DEF Flag
  <2>4. n \in Nat /\ en \in Nat \cup {NotEnded}
    BY <1>1, <1>9, <2>2
  <2>5. [open |-> TRUE, last |-> n, holes |-> H, dirty |-> FALSE, holesDirty |-> hd, ended |-> en] \in Writers
    BY <2>3, <2>4, <1>8, WriterRecord
  <2> QED BY <2>1, <2>2, <2>5, <1>5
<1>14. Knows(e, w)
  <2>1. IsTop(e, w.last)
    BY <1>1, <1>10, <1>12 DEF IsTop
  <2>2. w.holes = (1 .. w.last) \ ToSet(e.data)
    BY <1>2, <1>10, <1>12
  <2>3. ~w.holesDirty => e.holes = w.holes
    BY <1>10, <1>12
  <2>4. w.ended = e.mark.last /\ (e.mark = NoEnd => e.rec = NoEnd)
    BY <1>9, <1>10, <1>12
  <2> QED BY <2>1, <2>2, <2>3, <2>4, <1>10 DEF Knows
<1>15. Marked(e)
  <2>1. CASE d.mark # NoEnd
    BY <2>1, <1>9, <1>10 DEF Marked
  <2>2. CASE d.mark = NoEnd /\ d.rec # NoEnd
    <3>1. mk.last = d.rec.last /\ mk.gaps = H \cup d.rec.gaps \cup (n + 1 .. d.rec.last)
      BY <2>2, <1>3 DEF MergedGaps
    <3>2. ASSUME NEW s \in 1 .. mk.last PROVE s \in ToSet(d.data) \cup mk.gaps
      <4>1. d.rec.last \in Nat
        BY <2>2, <1>7, NoEndFacts
      <4>2. s \in 1 .. n \/ s \in n + 1 .. d.rec.last
        BY <3>1, <4>1, <1>1
      <4> QED BY <4>2, <3>1, <1>2
    <3> QED BY <3>2, <1>10 DEF Marked
  <2>3. CASE d.mark = NoEnd /\ d.rec = NoEnd
    BY <2>3, <1>3, <1>10 DEF Marked
  <2> QED BY <2>1, <2>2, <2>3
<1>16. ASSUME Covered(d) PROVE Covered(e)
  <2>0. DOMAIN d.data = 1 .. Len(d.data) /\ d.jump \in Nat /\ (\A i \in DOMAIN d.data : d.data[i] \in Nat)
    BY DiskFacts
  <2>1. ASSUME NEW i \in DOMAIN e.data, NEW j \in 1 .. i - 1, e.data[j] > e.data[i]
        PROVE  e.jump # 0 /\ e.jump <= e.data[i]
    <3>1. d.jump # 0 /\ d.jump <= d.data[i] /\ d.data[i] \in Nat
      BY <2>0, <2>1, <1>10, <1>16 DEF Covered
    <3> QED BY <2>0, <3>1, <1>6, <1>10
  <2>2. ASSUME NEW s \in Frames, NEW i \in DOMAIN e.data, e.data[i] > s, s \notin ToSet(e.data)
        PROVE  e.jump # 0 /\ e.jump <= s
    <3>1. d.jump # 0 /\ d.jump <= s /\ s \in Nat
      BY <2>2, <1>10, <1>16, LogBounds DEF Covered, Frames
    <3> QED BY <2>0, <3>1, <1>6, <1>10
  <2>3. e.jump > 1 => \E i \in DOMAIN e.data : e.jump <= e.data[i] + 1
    <3>1. CASE fh = d.jump
      BY <3>1, <1>10, <1>16 DEF Covered
    <3>2. CASE fh # d.jump /\ fh > 1
      <4>1. fh <= n /\ n # 0 /\ n \in Nat
        BY <3>2, <1>1, <1>6
      <4>2. PICK i \in DOMAIN d.data : d.data[i] = n
        BY <4>1, <1>1, <2>0 DEF IsTop
      <4>3. fh <= d.data[i] + 1
        BY <4>1, <4>2, <1>6
      <4> QED BY <4>2, <4>3, <1>10
    <3> QED BY <3>1, <3>2, <1>10
  <2> QED BY <2>1, <2>2, <2>3 DEF Covered
<1> QED BY <1>9, <1>10, <1>11, <1>12, <1>13, <1>14, <1>15, <1>16

------------------------------------------------------------------------------
(* The directory and its writer, one call at a time.                       *)

Good(d, w) == d \in Disks /\ Sound(d) /\ Marked(d) /\ w \in Writers /\ (w.open => Knows(d, w))

(* What is synced stays, and so does a finished log; between crashes every *)
(* frame stays.                                                            *)
Keeps(d, e) == /\ \A i \in 1 .. d.synced : i \in 1 .. e.synced /\ e.data[i] = d.data[i]
               /\ Finished(d) => Finished(e)
Grows(d, e) == Keeps(d, e) /\ \A i \in 1 .. Len(d.data) : i \in 1 .. Len(e.data) /\ e.data[i] = d.data[i]
Leads(d, e) == Grows(d, e) /\ (Covered(d) => Covered(e))

LEMMA LeadsOn ==
  ASSUME NEW a, NEW b, NEW c, Leads(a, b), Leads(b, c)
  PROVE  Leads(a, c)
<1>1. \A i \in 1 .. a.synced : i \in 1 .. c.synced /\ c.data[i] = a.data[i]
  BY DEF Leads, Grows, Keeps
<1>2. \A i \in 1 .. Len(a.data) : i \in 1 .. Len(c.data) /\ c.data[i] = a.data[i]
  BY DEF Leads, Grows
<1> QED BY <1>1, <1>2 DEF Leads, Grows, Keeps

LEMMA KeepsReached ==
  ASSUME NEW d, NEW e, NEW n, Keeps(d, e), Reached(d, n)
  PROVE  Reached(e, n)
BY DEF Keeps, Reached

LEMMA GrowsStored ==
  ASSUME NEW d, NEW e, NEW n, Grows(d, e), Stored(d, n)
  PROVE  Stored(e, n) /\ (e.synced = Len(e.data) => Reached(e, n))
BY DEF Grows, Stored, Reached

LEMMA SameFrames ==
  ASSUME NEW d \in Disks, NEW e, Sound(d), e.data = d.data, e.jump = d.jump, e.synced = d.synced \/ e.synced = Len(d.data),
         Finished(d) => Finished(e)
  PROVE  Leads(d, e)
<1>1. \A i \in 1 .. d.synced : i \in 1 .. e.synced
  BY DiskFacts DEF Sound
<1>2. Keeps(d, e)
  BY <1>1 DEF Keeps
<1> QED BY <1>2 DEF Leads, Grows, Covered

(* A reopened log is the same log.                                         *)
LEMMA Reopens ==
  ASSUME NEW d, NEW w, Good(d, w), NEW o, o = IF w.open THEN [disk |-> d, writer |-> w] ELSE Opened(d)
  PROVE  Good(o.disk, o.writer) /\ o.writer.open /\ Leads(d, o.disk)
<1>1. CASE w.open
  <2>1. o.disk = d /\ o.writer = w
    BY <1>1
  <2>2. Leads(d, d)
    BY SameFrames DEF Good
  <2> QED BY <1>1, <2>1, <2>2
<1>2. CASE ~w.open
  <2>1. o = Opened(d)
    BY <1>2
  <2>2. d \in Disks /\ Sound(d) /\ Marked(d)
    BY DEF Good
  <2>3. PICK e : e = o.disk
    OBVIOUS
  <2>4. PICK v : v = o.writer
    OBVIOUS
  <2>5. /\ e \in Disks /\ Sound(e) /\ Marked(e) /\ v \in Writers /\ v.open /\ Knows(e, v)
        /\ e.data = d.data /\ e.synced = Len(d.data) /\ e.row = d.row
        /\ (d.mark # NoEnd => e.mark = d.mark) /\ (Covered(d) => Covered(e))
    BY <2>1, <2>2, <2>3, <2>4, OpenedSound
  <2>6. \A i \in 1 .. d.synced : i \in 1 .. Len(d.data)
    BY <2>2, DiskFacts DEF Sound
  <2>7. Leads(d, e)
    BY <2>5, <2>6 DEF Leads, Grows, Keeps, Finished
  <2> QED BY <2>3, <2>4, <2>5, <2>7 DEF Good
<1> QED BY <1>1, <1>2

LEMMA WriterFacts ==
  ASSUME NEW w \in Writers
  PROVE  w.open \in Flag /\ w.dirty \in Flag /\ w.holesDirty \in Flag /\ w.last \in Nat /\ w.holes \in SUBSET Frames
         /\ w.ended \in Nat \cup {NotEnded}
BY DEF Writers

(* What a writer knows, below its highest frame and about it.              *)
LEMMA KnownHoles ==
  ASSUME NEW d \in Disks, NEW w \in Writers, Sound(d), Knows(d, w)
  PROVE  /\ \A i \in 1 .. Len(d.data) : d.data[i] <= w.last /\ d.data[i] \notin w.holes
         /\ \A s \in 1 .. w.last : s \in w.holes \/ \E i \in 1 .. Len(d.data) : d.data[i] = s
         /\ \A h \in w.holes : h \in 1 .. w.last /\ \E i \in 1 .. Len(d.data) : d.data[i] > h
         /\ w.last \in Nat /\ d.sealedSeq <= w.last /\ d.sealedSeq \in Nat
<1>1. w.last \in Nat /\ w.holes = (1 .. w.last) \ ToSet(d.data) /\ IsTop(d, w.last)
  BY WriterFacts DEF Knows
<1>2. ToSet(d.data) = {d.data[i] : i \in 1 .. Len(d.data)}
  BY DiskFacts DEF ToSet
<1>3. d.sealedSeq <= w.last /\ d.sealedSeq \in Nat
  BY <1>1, SealBelowTop, DiskFacts
<1>4. ASSUME NEW h \in w.holes PROVE h \in 1 .. w.last /\ \E i \in 1 .. Len(d.data) : d.data[i] > h
  <2>1. h \in 1 .. w.last /\ h \notin ToSet(d.data) /\ w.last # 0
    BY <1>1
  <2>2. PICK i \in 1 .. Len(d.data) : d.data[i] = w.last
    BY <1>1, <2>1 DEF IsTop
  <2>3. h # w.last
    BY <1>2, <2>1, <2>2
  <2> QED BY <1>1, <2>1, <2>2, <2>3
<1>5. \A i \in 1 .. Len(d.data) : d.data[i] <= w.last
  BY <1>1 DEF IsTop
<1> QED BY <1>1, <1>2, <1>3, <1>4, <1>5

(* Holes that are written beside synced frames.                            *)
LEMMA HolesSound ==
  ASSUME NEW d \in Disks, NEW w \in Writers, Sound(d), Knows(d, w), NEW e \in Disks,
         e.data = d.data, e.synced = Len(d.data), e.holes = w.holes,
         \/ e.sealedAt = d.sealedAt /\ e.sealedSeq = d.sealedSeq
         \/ e.sealedAt = Len(d.data) /\ e.sealedSeq = w.last
  PROVE  Sound(e)
<1>0. /\ Len(d.data) \in Nat /\ d.sealedAt \in Nat /\ d.sealedAt <= Len(d.data) /\ e.sealedSeq \in Nat
      /\ e.sealedSeq <= w.last /\ e.sealedAt <= Len(d.data) /\ e.sealedAt \in Nat /\ w.last \in Nat
  BY KnownHoles, DiskFacts DEF Sound
<1>1. IsInjective(e.data) /\ e.sealedAt <= e.synced /\ e.synced <= Len(e.data)
  BY <1>0 DEF Sound
<1>2. e.sealedSeq # 0 => \E i \in 1 .. e.sealedAt : e.data[i] = e.sealedSeq
  BY DEF Sound, Knows, IsTop
<1>3. ASSUME NEW i \in 1 .. e.sealedAt PROVE e.data[i] <= e.sealedSeq /\ e.data[i] \notin e.holes
  <2>1. i \in 1 .. Len(d.data)
    BY <1>0
  <2>2. d.data[i] <= w.last /\ d.data[i] \notin w.holes
    BY <2>1, KnownHoles
  <2>3. CASE e.sealedAt = d.sealedAt /\ e.sealedSeq = d.sealedSeq
    BY <2>2, <2>3 DEF Sound
  <2>4. CASE e.sealedAt = Len(d.data) /\ e.sealedSeq = w.last
    BY <2>2, <2>4
  <2> QED BY <2>3, <2>4
<1>4. ASSUME NEW s \in 1 .. e.sealedSeq PROVE s \in e.holes \/ \E i \in 1 .. e.synced : e.data[i] = s
  <2>1. s \in 1 .. w.last
    BY <1>0
  <2> QED BY <2>1, KnownHoles
<1>5. \A h \in e.holes : \E i \in 1 .. e.synced : e.data[i] > h
  BY KnownHoles
<1> QED BY <1>1, <1>2, <1>3, <1>4, <1>5 DEF Sound

LEMMA SyncFacts ==
  ASSUME NEW d \in Disks, NEW w, Knows(d, w), NEW e, e = SyncDirty(d, w)
  PROVE  /\ e \in Disks /\ e.data = d.data /\ e.synced = Len(d.data) /\ e.holes = d.holes /\ e.mark = d.mark
         /\ e.rec = d.rec /\ e.row = d.row /\ e.jump = d.jump /\ e.sealedAt = d.sealedAt /\ e.sealedSeq = d.sealedSeq
<1>1. CASE w.dirty
  <2>1. e = [d EXCEPT !.synced = Len(d.data)]
    BY <1>1 DEF SyncDirty
  <2> QED BY <2>1, DiskFacts DEF Disks
<1>2. CASE ~w.dirty
  BY <1>2 DEF SyncDirty, Knows
<1> QED BY <1>1, <1>2

(* A sync of what is dirty (sync).                                         *)
LEMMA Syncs ==
  ASSUME NEW d, NEW w, Good(d, w), w.open, NEW e, e = SyncDirty(d, w),
         NEW v, v = [w EXCEPT !.dirty = FALSE]
  PROVE  /\ Good(e, v) /\ e.synced = Len(d.data) /\ e.data = d.data
         /\ e \in Disks /\ Leads(d, e) /\ v.open
         /\ e.holes = d.holes /\ e.mark = d.mark /\ e.rec = d.rec /\ e.row = d.row /\ e.jump = d.jump
         /\ e.sealedAt = d.sealedAt /\ e.sealedSeq = d.sealedSeq
<1>1. d \in Disks /\ Sound(d) /\ Marked(d) /\ w \in Writers /\ Knows(d, w)
  BY DEF Good
<1>2. Len(d.data) \in Nat
  BY <1>1, DiskFacts
<1>3. /\ e \in Disks /\ e.data = d.data /\ e.synced = Len(d.data) /\ e.holes = d.holes /\ e.mark = d.mark
      /\ e.rec = d.rec /\ e.row = d.row /\ e.jump = d.jump /\ e.sealedAt = d.sealedAt /\ e.sealedSeq = d.sealedSeq
  BY <1>1, SyncFacts
<1>4. Sound(e) /\ Marked(e) /\ Leads(d, e)
  BY <1>1, <1>3, SyncSound, SameFrames DEF Marked, Finished
<1>6. v.last = w.last /\ v.holes = w.holes /\ v.holesDirty = w.holesDirty /\ v.ended = w.ended /\ v.open = w.open
      /\ v.dirty = FALSE
  BY <1>1 DEF Writers
<1>7. v \in Writers
  <2>1. FALSE \in Flag
    BY DEF Flag
  <2> QED BY <2>1, <1>1 DEF Writers
<1>8. Knows(e, v)
  <2>1. IsTop(e, v.last)
    BY <1>1, <1>3, <1>6 DEF Knows, IsTop
  <2>2. v.holes = (1 .. v.last) \ ToSet(e.data)
    BY <1>1, <1>3, <1>6 DEF Knows
  <2>3. e.synced = Len(e.data)
    BY <1>3
  <2>4. ~v.holesDirty => e.holes = v.holes
    BY <1>1, <1>3, <1>6 DEF Knows
  <2>5. v.ended = e.mark.last /\ (e.mark = NoEnd => e.rec = NoEnd)
    BY <1>1, <1>3, <1>6 DEF Knows
  <2> QED BY <2>1, <2>2, <2>3, <2>4, <2>5 DEF Knows
<1> QED BY <1>3, <1>4, <1>6, <1>7, <1>8 DEF Good

(* Holes that are pending are written once the frames are synced           *)
(* (persist_holes).                                                        *)
LEMMA Persists ==
  ASSUME NEW d, NEW w, Good(d, w), w.open, NEW e, e = PersistHoles(d, w), NEW v, v = HolesKept(w)
  PROVE  /\ Good(e, v) /\ v.open /\ ~v.holesDirty /\ v.last = w.last /\ v.holes = w.holes /\ v.ended = w.ended
         /\ Leads(d, e) /\ e.holes = w.holes /\ e.data = d.data /\ e.mark = d.mark /\ e.rec = d.rec /\ e.row = d.row
         /\ e.jump = d.jump /\ e.sealedAt = d.sealedAt /\ e.sealedSeq = d.sealedSeq
<1>1. d \in Disks /\ Sound(d) /\ Marked(d) /\ w \in Writers /\ Knows(d, w)
  BY DEF Good
<1>2. CASE ~w.holesDirty
  <2>1. e = d /\ v = w
    BY <1>2 DEF PersistHoles, HolesKept
  <2>2. d.holes = w.holes
    BY <1>1, <1>2 DEF Knows
  <2>3. Leads(d, d)
    BY <1>1, SameFrames
  <2> QED BY <1>2, <2>1, <2>2, <2>3
<1>3. CASE w.holesDirty
  <2>1. PICK g : g = SyncDirty(d, w)
    OBVIOUS
  <2>2. /\ g \in Disks /\ g.data = d.data /\ g.synced = Len(d.data) /\ g.mark = d.mark /\ g.rec = d.rec
        /\ g.row = d.row /\ g.jump = d.jump /\ g.sealedAt = d.sealedAt /\ g.sealedSeq = d.sealedSeq
    BY <1>1, <2>1, SyncFacts
  <2>3. e = [g EXCEPT !.holes = w.holes]
    BY <1>3, <2>1 DEF PersistHoles
  <2>4. /\ e \in Disks /\ e.data = d.data /\ e.synced = Len(d.data) /\ e.mark = d.mark /\ e.rec = d.rec
        /\ e.row = d.row /\ e.jump = d.jump /\ e.sealedAt = d.sealedAt /\ e.sealedSeq = d.sealedSeq
        /\ e.holes = w.holes
    BY <1>1, <2>2, <2>3, WriterFacts DEF Disks
  <2>5. Sound(e)
    BY <1>1, <2>4, HolesSound
  <2>6. Marked(e) /\ Leads(d, e)
    BY <1>1, <2>4, SameFrames DEF Marked, Finished
  <2>7. v = [w EXCEPT !.holesDirty = FALSE, !.dirty = FALSE]
    BY <1>3 DEF HolesKept
  <2>8. v.last = w.last /\ v.holes = w.holes /\ v.holesDirty = FALSE /\ v.ended = w.ended /\ v.open = w.open
        /\ v.dirty = FALSE
    BY <1>1, <2>7 DEF Writers
  <2>9. v \in Writers
    <3>1. FALSE \in Flag
      BY DEF Flag
    <3> QED BY <3>1, <1>1, <2>7 DEF Writers
  <2>10. Knows(e, v)
    <3>1. IsTop(e, v.last)
      BY <1>1, <2>4, <2>8 DEF Knows, IsTop
    <3>2. v.holes = (1 .. v.last) \ ToSet(e.data)
      BY <1>1, <2>4, <2>8 DEF Knows
    <3>3. e.synced = Len(e.data)
      BY <2>4
    <3>4. ~v.holesDirty => e.holes = v.holes
      BY <1>1, <2>4, <2>8 DEF Knows
    <3>5. v.ended = e.mark.last /\ (e.mark = NoEnd => e.rec = NoEnd)
      BY <1>1, <2>4, <2>8 DEF Knows
    <3> QED BY <3>1, <3>2, <3>3, <3>4, <3>5 DEF Knows
  <2> QED BY <2>4, <2>5, <2>6, <2>8, <2>9, <2>10 DEF Good
<1> QED BY <1>2, <1>3

(* A full segment is sealed once the holes are written (seal).             *)
Rolled(d, w) == IF Full(d) THEN Seal(d, w) ELSE d

LEMMA Rolls ==
  ASSUME NEW d, NEW w, Good(d, w), w.open, ~w.holesDirty, NEW e, e = Rolled(d, w)
  PROVE  /\ Good(e, w) /\ Leads(d, e) /\ e.holes = w.holes /\ e.data = d.data /\ e.mark = d.mark
         /\ e.rec = d.rec /\ e.row = d.row /\ e.jump = d.jump
<1>1. d \in Disks /\ Sound(d) /\ Marked(d) /\ w \in Writers /\ Knows(d, w) /\ d.holes = w.holes
  BY DEF Good, Knows
<1>2. CASE ~Full(d)
  <2>1. e = d
    BY <1>2 DEF Rolled
  <2>2. Leads(d, d)
    BY <1>1, SameFrames
  <2> QED BY <1>1, <2>1, <2>2
<1>3. CASE Full(d)
  <2>1. e = [d EXCEPT !.sealedAt = Len(d.data), !.sealedSeq = w.last, !.synced = Len(d.data)]
    BY <1>3 DEF Rolled, Seal
  <2>2. Len(d.data) \in Nat /\ w.last \in Nat
    BY <1>1, DiskFacts, WriterFacts
  <2>3. /\ e \in Disks /\ e.data = d.data /\ e.synced = Len(d.data) /\ e.mark = d.mark /\ e.rec = d.rec
        /\ e.row = d.row /\ e.jump = d.jump /\ e.sealedAt = Len(d.data) /\ e.sealedSeq = w.last
        /\ e.holes = d.holes
    BY <1>1, <2>1, <2>2 DEF Disks
  <2>4. Sound(e)
    BY <1>1, <2>3, HolesSound
  <2>5. Marked(e) /\ Leads(d, e)
    BY <1>1, <2>3, SameFrames DEF Marked, Finished
  <2>6. Knows(e, w)
    BY <1>1, <2>3 DEF Knows, IsTop
  <2> QED BY <1>1, <2>3, <2>4, <2>5, <2>6 DEF Good
<1> QED BY <1>2, <1>3

(* A frame the writer does not take for a duplicate is not there.          *)
LEMMA NotThere ==
  ASSUME NEW d \in Disks, NEW w \in Writers, Sound(d), Knows(d, w), NEW s \in Frames, ~Duplicate(w, s)
  PROVE  /\ \A i \in 1 .. Len(d.data) : d.data[i] # s
         /\ s <= w.last => s \in w.holes
<1>1. s <= w.last => s \in w.holes
  BY DEF Duplicate
<1>2. s \in Nat /\ s # 0
  BY LogBounds DEF Frames
<1>3. ASSUME NEW i \in 1 .. Len(d.data), d.data[i] = s PROVE FALSE
  <2>1. s <= w.last /\ s \notin w.holes
    BY <1>3, KnownHoles
  <2> QED BY <1>1, <2>1
<1> QED BY <1>1, <1>3

Noted(w, s) == [w EXCEPT !.last = Max({@, s}), !.holes = HolesAfter(w, s),
                         !.holesDirty = HolesAfter(w, s) # w.holes, !.dirty = TRUE]

(* The frame is appended; the first hole is recorded before it             *)
(* (append_to).                                                            *)
LEMMA Lands ==
  ASSUME NEW d, NEW w, Good(d, w), w.open, w.ended = NotEnded, NEW s \in Frames, ~Duplicate(w, s),
         NEW e, e = FrameIn(Jumped(d, w, s), s)
  PROVE  /\ e \in Disks /\ Sound(e) /\ Marked(e) /\ Leads(d, e) /\ e.holes = d.holes
         /\ e.mark = d.mark /\ e.rec = d.rec
         /\ Len(e.data) = Len(d.data) + 1 /\ e.data[Len(e.data)] = s
         /\ \A i \in 1 .. Len(d.data) : e.data[i] = d.data[i]
<1>1. d \in Disks /\ Sound(d) /\ Marked(d) /\ w \in Writers /\ Knows(d, w) /\ w.last \in Nat
  BY WriterFacts DEF Good
<1>2. PICK jp : jp = IF s > w.last + 1 /\ d.jump = 0 THEN w.last + 1 ELSE d.jump
  OBVIOUS
<1>3. jp \in Nat /\ d.jump \in Nat
  BY <1>1, <1>2, DiskFacts
<1>4. PICK L : L = Len(d.data)
  OBVIOUS
<1>5. PICK t : t = Append(d.data, s)
  OBVIOUS
<1>6. /\ L \in Nat /\ t \in Seq(Frames) /\ Len(t) = L + 1 /\ t[L + 1] = s
      /\ \A i \in 1 .. L : t[i] = d.data[i]
  BY <1>1, <1>4, <1>5, DiskFacts
<1>7. e = [d EXCEPT !.data = t, !.jump = jp]
  <2>1. CASE s > w.last + 1 /\ d.jump = 0
    BY <1>1, <1>2, <1>5, <2>1 DEF Jumped, FrameIn, Disks
  <2>2. CASE ~(s > w.last + 1 /\ d.jump = 0)
    BY <1>1, <1>2, <1>5, <2>2 DEF Jumped, FrameIn, Disks
  <2> QED BY <2>1, <2>2
<1>8. /\ e \in Disks /\ e.data = t /\ e.jump = jp /\ e.synced = d.synced /\ e.sealedAt = d.sealedAt
      /\ e.sealedSeq = d.sealedSeq /\ e.holes = d.holes /\ e.mark = d.mark /\ e.rec = d.rec /\ e.row = d.row
  BY <1>1, <1>3, <1>6, <1>7 DEF Disks
<1>9. DOMAIN t = 1 .. L + 1 /\ DOMAIN d.data = 1 .. L
  BY <1>1, <1>4, <1>6, DiskFacts
<1>10. (\A i \in 1 .. L : d.data[i] # s) /\ (s <= w.last => s \in w.holes)
  BY <1>1, <1>4, NotThere
<1>11. d.synced \in Nat /\ d.synced <= L /\ d.sealedAt <= d.synced /\ d.sealedAt \in Nat
  BY <1>1, <1>4, DiskFacts DEF Sound
<1>12. (\A i \in 1 .. d.synced : i \in 1 .. L) /\ (\A i \in 1 .. d.sealedAt : i \in 1 .. L)
  BY <1>6, <1>11
<1>13. Sound(e)
  <2>1. IsInjective(t)
    <3>1. ASSUME NEW a \in 1 .. L + 1, NEW b \in 1 .. L + 1, t[a] = t[b] PROVE a = b
      <4>1. CASE a \in 1 .. L /\ b \in 1 .. L
        BY <1>1, <1>6, <1>9, <3>1, <4>1 DEF Sound, IsInjective
      <4>2. CASE a = L + 1 /\ b = L + 1
        BY <4>2
      <4>3. CASE a \in 1 .. L /\ b = L + 1
        BY <1>6, <1>10, <3>1, <4>3
      <4>4. CASE a = L + 1 /\ b \in 1 .. L
        BY <1>6, <1>10, <3>1, <4>4
      <4> QED BY <4>1, <4>2, <4>3, <4>4, <1>6
    <3> QED BY <3>1, <1>9 DEF IsInjective
  <2>2. e.sealedAt <= e.synced /\ e.synced <= Len(e.data)
    BY <1>6, <1>8, <1>11
  <2>3. e.sealedSeq # 0 => \E i \in 1 .. e.sealedAt : e.data[i] = e.sealedSeq
    BY <1>1, <1>6, <1>8, <1>12 DEF Sound
  <2>4. \A i \in 1 .. e.sealedAt : e.data[i] <= e.sealedSeq /\ e.data[i] \notin e.holes
    BY <1>1, <1>6, <1>8, <1>12 DEF Sound
  <2>5. \A x \in 1 .. e.sealedSeq : x \in e.holes \/ \E i \in 1 .. e.synced : e.data[i] = x
    BY <1>1, <1>6, <1>8, <1>12 DEF Sound
  <2>6. \A h \in e.holes : \E i \in 1 .. e.synced : e.data[i] > h
    BY <1>1, <1>6, <1>8, <1>12 DEF Sound
  <2> QED BY <2>1, <2>2, <2>3, <2>4, <2>5, <2>6, <1>8 DEF Sound
<1>14. d.mark = NoEnd
  <2>1. d.mark.last = NotEnded /\ d.mark \in Ends
    BY <1>1 DEF Knows, Disks
  <2> QED BY <2>1, NoEndFacts
<1>15. Marked(e)
  BY <1>8, <1>14 DEF Marked
<1>16. Grows(d, e)
  <2>1. \A i \in 1 .. Len(d.data) : i \in 1 .. Len(e.data) /\ e.data[i] = d.data[i]
    BY <1>4, <1>6, <1>8
  <2> QED BY <2>1, <1>4, <1>8, <1>12, <1>14 DEF Grows, Keeps, Finished
<1>17. s \in Nat /\ s # 0 /\ MaxSeq \in Nat /\ (\A i \in 1 .. L : d.data[i] \in Nat /\ d.data[i] <= w.last)
  BY <1>1, <1>4, LogBounds, DiskFacts DEF Frames, Knows, IsTop
<1>18. ASSUME Covered(d) PROVE Covered(e)
  <2>1. d.jump # 0 => jp = d.jump
    BY <1>2
  \* A number missing below a frame that was there.
  <2>2. ASSUME NEW x \in Frames, x \notin ToSet(d.data), NEW i \in 1 .. L, d.data[i] > x
        PROVE  jp # 0 /\ jp <= x
    <3>1. d.jump # 0 /\ d.jump <= x
      BY <1>9, <1>18, <2>2 DEF Covered
    <3> QED BY <2>1, <3>1
  <2>3. ToSet(d.data) = {d.data[i] : i \in 1 .. L} /\ ToSet(t) = ToSet(d.data) \cup {s}
    <3>1. ToSet(d.data) = {d.data[i] : i \in 1 .. L}
      BY <1>9 DEF ToSet
    <3>2. ToSet(t) = {t[i] : i \in 1 .. L + 1}
      BY <1>9 DEF ToSet
    <3>3. \A i \in 1 .. L + 1 : i = L + 1 \/ i \in 1 .. L
      BY <1>6
    <3>4. L + 1 \in 1 .. L + 1 /\ \A i \in 1 .. L : i \in 1 .. L + 1
      BY <1>6
    <3> QED BY <3>1, <3>2, <3>3, <3>4, <1>6
  <2>4. ASSUME NEW i \in DOMAIN e.data, NEW j \in 1 .. i - 1, e.data[j] > e.data[i]
        PROVE  e.jump # 0 /\ e.jump <= e.data[i]
    <3>1. i \in 1 .. L + 1 /\ j \in 1 .. L /\ t[j] = d.data[j]
      BY <1>6, <1>8, <1>9
    <3>2. CASE i \in 1 .. L
      <4>1. d.data[j] > d.data[i]
        BY <2>4, <3>1, <3>2, <1>6, <1>8
      <4>2. d.jump # 0 /\ d.jump <= d.data[i]
        BY <4>1, <3>2, <1>9, <1>18 DEF Covered
      <4> QED BY <2>1, <4>2, <3>2, <1>6, <1>8
    <3>3. CASE i = L + 1
      <4>1. e.data[i] = s /\ d.data[j] > s
        BY <2>4, <3>1, <3>3, <1>6, <1>8
      <4>2. s \notin ToSet(d.data)
        BY <2>3, <1>10
      <4>3. jp # 0 /\ jp <= s
        BY <4>1, <4>2, <2>2, <3>1
      <4> QED BY <4>1, <4>3, <1>8
    <3> QED BY <3>1, <3>2, <3>3, <1>6
  <2>5. ASSUME NEW x \in Frames, NEW i \in DOMAIN e.data, e.data[i] > x, x \notin ToSet(e.data)
        PROVE  e.jump # 0 /\ e.jump <= x
    <3>1. i \in 1 .. L + 1 /\ x \notin ToSet(d.data) /\ x # s /\ x \in Nat /\ x # 0
      BY <2>3, <2>5, <1>6, <1>8, <1>9, <1>17 DEF Frames
    <3>2. CASE \E k \in 1 .. L : d.data[k] > x
      BY <2>2, <3>1, <3>2, <1>8
    <3>3. CASE ~\E k \in 1 .. L : d.data[k] > x
      <4>1. i = L + 1 /\ s > x
        <5>1. i \notin 1 .. L
          BY <3>3, <2>5, <1>6, <1>8
        <5>2. i = L + 1
          BY <3>1, <5>1, <1>6
        <5> QED BY <5>2, <2>5, <1>6, <1>8
      <4>2. w.last < x
        <5>1. CASE w.last = 0
          BY <5>1, <3>1
        <5>2. CASE w.last # 0
          <6>1. PICK k \in 1 .. L : d.data[k] = w.last
            BY <5>2, <1>1, <1>4 DEF Knows, IsTop
          <6>2. d.data[k] # x /\ ~(d.data[k] > x)
            BY <3>1, <3>3, <2>3
          <6> QED BY <6>1, <6>2, <3>1, <1>1
        <5> QED BY <5>1, <5>2
      <4>3. CASE d.jump = 0
        BY <4>1, <4>2, <4>3, <3>1, <1>1, <1>2, <1>8, <1>17
      <4>4. CASE d.jump # 0
        <5>1. d.jump <= w.last + 1
          <6>1. CASE d.jump > 1
            <7>1. PICK k \in 1 .. L : d.jump <= d.data[k] + 1
              BY <6>1, <1>9, <1>18 DEF Covered
            <7> QED BY <7>1, <1>1, <1>3, <1>17
          <6>2. CASE ~(d.jump > 1)
            BY <6>2, <1>1, <1>3
          <6> QED BY <6>1, <6>2
        <5> QED BY <4>2, <4>4, <5>1, <2>1, <3>1, <1>1, <1>3, <1>8
      <4> QED BY <4>3, <4>4
    <3> QED BY <3>2, <3>3
  <2>6. ASSUME e.jump > 1 PROVE \E i \in DOMAIN e.data : e.jump <= e.data[i] + 1
    <3>1. CASE d.jump = jp
      <4>1. PICK k \in 1 .. L : d.jump <= d.data[k] + 1
        BY <2>6, <3>1, <1>8, <1>9, <1>18 DEF Covered
      <4>2. k \in DOMAIN e.data /\ e.data[k] = d.data[k]
        BY <1>6, <1>8, <1>9
      <4> QED BY <4>1, <4>2, <3>1, <1>8
    <3>2. CASE d.jump # jp
      <4>1. jp = w.last + 1 /\ w.last # 0
        BY <3>2, <2>6, <1>1, <1>2, <1>8
      <4>2. PICK k \in 1 .. L : d.data[k] = w.last
        BY <4>1, <1>1, <1>4 DEF Knows, IsTop
      <4>3. k \in DOMAIN e.data /\ e.data[k] = d.data[k]
        BY <1>6, <1>8, <1>9
      <4>4. e.jump <= e.data[k] + 1
        BY <4>1, <4>2, <4>3, <1>1, <1>8
      <4> QED BY <4>3, <4>4
    <3> QED BY <3>1, <3>2
  <2> QED BY <2>4, <2>5, <2>6 DEF Covered
<1>19. Len(e.data) = Len(d.data) + 1 /\ e.data[Len(e.data)] = s
       /\ \A i \in 1 .. Len(d.data) : e.data[i] = d.data[i]
  BY <1>4, <1>6, <1>8
<1> QED BY <1>8, <1>13, <1>15, <1>16, <1>18, <1>19 DEF Leads

(* The writer after a frame: the numbers it jumped over are holes, its own *)
(* is none.                                                                *)
LEMMA Notes ==
  ASSUME NEW d, NEW w, Good(d, w), w.open, ~w.holesDirty, w.ended = NotEnded, NEW s \in Frames, ~Duplicate(w, s),
         NEW e, e = FrameIn(Jumped(d, w, s), s), NEW v, v = Noted(w, s)
  PROVE  Good(e, v) /\ v.open /\ v.last \in Nat /\ v.last # 0 /\ v.ended = NotEnded
<1>1. d \in Disks /\ Sound(d) /\ w \in Writers /\ Knows(d, w) /\ w.last \in Nat /\ d.holes = w.holes
      /\ w.holes \in SUBSET Frames
  BY WriterFacts DEF Good, Knows
<1>2. /\ e \in Disks /\ Sound(e) /\ Marked(e) /\ e.holes = d.holes /\ e.mark = d.mark /\ e.rec = d.rec
      /\ Len(e.data) = Len(d.data) + 1 /\ e.data[Len(e.data)] = s
      /\ \A i \in 1 .. Len(d.data) : e.data[i] = d.data[i]
  BY Lands
<1>3. s \in Nat /\ s # 0 /\ s <= MaxSeq /\ MaxSeq \in Nat
  BY LogBounds DEF Frames
<1>4. PICK n : n = Max({w.last, s})
  OBVIOUS
<1>5. n \in {w.last, s} /\ w.last <= n /\ s <= n /\ n \in Nat /\ n # 0
  <2>1. w.last \in Int /\ s \in Int
    BY <1>1, <1>3
  <2>2. Max({w.last, s}) \in {w.last, s} /\ w.last <= Max({w.last, s}) /\ s <= Max({w.last, s})
    BY <2>1, HigherOf
  <2>3. n \in {w.last, s} /\ w.last <= n /\ s <= n
    BY <2>2, <1>4
  <2> QED BY <2>3, <1>1, <1>3
<1>6. PICK H : H = HolesAfter(w, s)
  OBVIOUS
<1>7. w.last <= MaxSeq
  <2>1. w.last \in 0 .. MaxSeq
    BY <1>1, SealBelowTop DEF Knows
  <2> QED BY <2>1
<1>8. H = (w.holes \cup (w.last + 1 .. s - 1)) \ {s} /\ H \in SUBSET Frames
  <2>1. H = (w.holes \cup (w.last + 1 .. s - 1)) \ {s}
    BY <1>6 DEF HolesAfter
  <2>2. w.last + 1 .. s - 1 \in SUBSET Frames
    BY <1>1, <1>3 DEF Frames
  <2> QED BY <2>1, <2>2, <1>1
<1>9. PICK hd : hd = (H # w.holes)
  OBVIOUS
<1>10. TRUE \in Flag /\ hd \in Flag
  BY <1>9 DEF Flag
<1>11. v = [w EXCEPT !.last = n, !.holes = H, !.holesDirty = hd, !.dirty = TRUE]
  BY <1>1, <1>4, <1>6, <1>9 DEF Noted
<1>12. v \in Writers
  BY <1>1, <1>5, <1>8, <1>10, <1>11 DEF Writers
<1>13. v.last = n /\ v.holes = H /\ v.open = w.open /\ v.ended = w.ended /\ v.dirty = TRUE
  BY <1>1, <1>11 DEF Writers
<1>14. ~v.holesDirty => H = w.holes
  BY <1>1, <1>9, <1>11 DEF Writers
<1>15. Len(d.data) \in Nat /\ Len(e.data) \in Nat
  BY <1>1, <1>2, DiskFacts
<1>16. PICK L : L = Len(d.data)
  OBVIOUS
<1>17. ToSet(d.data) = {d.data[i] : i \in 1 .. L} /\ ToSet(e.data) = ToSet(d.data) \cup {s}
  <2>1. ToSet(d.data) = {d.data[i] : i \in 1 .. L} /\ ToSet(e.data) = {e.data[i] : i \in 1 .. L + 1}
    BY <1>1, <1>2, <1>16, DiskFacts DEF ToSet
  <2>2. \A i \in 1 .. L + 1 : i = L + 1 \/ i \in 1 .. L
    BY <1>15, <1>16
  <2>3. L + 1 \in 1 .. L + 1 /\ \A i \in 1 .. L : i \in 1 .. L + 1
    BY <1>15, <1>16
  <2> QED BY <2>1, <2>2, <2>3, <1>2, <1>16
<1>18. IsTop(e, n)
  <2>1. ASSUME NEW i \in 1 .. Len(e.data) PROVE e.data[i] <= n
    <3>1. CASE i \in 1 .. L
      <4>1. d.data[i] <= w.last /\ d.data[i] \in Nat /\ e.data[i] = d.data[i]
        BY <3>1, <1>1, <1>2, <1>16, DiskFacts DEF Knows, IsTop
      <4> QED BY <4>1, <1>1, <1>5
    <3>2. CASE i = L + 1
      BY <3>2, <1>2, <1>5, <1>16
    <3> QED BY <3>1, <3>2, <1>2, <1>15, <1>16
  <2>2. \E i \in 1 .. Len(e.data) : e.data[i] = n
    <3>1. CASE n = s
      <4>1. L + 1 \in 1 .. Len(e.data) /\ e.data[L + 1] = n
        BY <3>1, <1>2, <1>15, <1>16
      <4> QED BY <4>1
    <3>2. CASE n = w.last
      <4>1. PICK i \in 1 .. L : d.data[i] = w.last
        BY <3>2, <1>1, <1>5, <1>16 DEF Knows, IsTop
      <4>2. i \in 1 .. Len(e.data) /\ e.data[i] = n
        BY <4>1, <3>2, <1>2, <1>15, <1>16
      <4> QED BY <4>2
    <3> QED BY <3>1, <3>2, <1>5
  <2> QED BY <2>1, <2>2, <1>5 DEF IsTop
<1>19. H = (1 .. n) \ ToSet(e.data)
  <2>1. w.holes = (1 .. w.last) \ ToSet(d.data)
    BY <1>1 DEF Knows
  <2>2. ASSUME NEW x \in H PROVE x \in (1 .. n) \ ToSet(e.data)
    <3>1. x \in Nat /\ x # s
      BY <1>3, <1>8 DEF Frames
    <3>2. CASE x \in w.holes
      <4>1. x \in 1 .. n
        BY <3>1, <3>2, <2>1, <1>1, <1>5
      <4> QED BY <4>1, <3>1, <3>2, <2>1, <1>17
    <3>3. CASE x \in w.last + 1 .. s - 1
      <4>1. x \in 1 .. n /\ x > w.last
        BY <3>3, <1>1, <1>3, <1>5
      <4>2. \A i \in 1 .. L : d.data[i] <= w.last /\ d.data[i] \in Nat
        BY <1>1, <1>16, DiskFacts DEF Knows, IsTop
      <4>3. x \notin ToSet(d.data)
        BY <4>1, <4>2, <3>1, <1>1, <1>17
      <4> QED BY <4>1, <4>3, <3>1, <1>17
    <3> QED BY <3>2, <3>3, <1>8
  <2>3. ASSUME NEW x \in (1 .. n) \ ToSet(e.data) PROVE x \in H
    <3>1. x \in Nat /\ x # 0 /\ x <= n /\ x # s /\ x \notin ToSet(d.data)
      BY <1>5, <1>17
    <3>2. CASE x <= w.last
      BY <3>1, <3>2, <2>1, <1>1, <1>8
    <3>3. CASE ~(x <= w.last)
      <4>1. x \in w.last + 1 .. s - 1
        BY <3>1, <3>3, <1>1, <1>3, <1>5
      <4> QED BY <4>1, <3>1, <1>8
    <3> QED BY <3>2, <3>3
  <2> QED BY <2>2, <2>3
<1>20. Knows(e, v)
  BY <1>1, <1>2, <1>13, <1>14, <1>18, <1>19 DEF Knows
<1> QED BY <1>2, <1>5, <1>12, <1>13, <1>20 DEF Good

(* A frame is stored, with everything append_to does.                      *)
LEMMA Appends ==
  ASSUME NEW d, NEW w, Good(d, w), w.open, ~w.holesDirty, w.ended = NotEnded, NEW s \in Frames, ~Duplicate(w, s),
         NEW a, a = Appended(d, w, s)
  PROVE  Good(a.disk, a.writer) /\ a.writer.open /\ Leads(d, a.disk) /\ Stored(a.disk, a.writer.last)
         /\ a.writer.last \in Nat
<1>1. PICK r : r = Rolled(d, w)
  OBVIOUS
<1>2. Good(r, w) /\ Leads(d, r)
  BY <1>1, Rolls
<1>3. PICK f : f = FrameIn(Jumped(r, w, s), s)
  OBVIOUS
<1>4. PICK v : v = Noted(w, s)
  OBVIOUS
<1>5. Good(f, v) /\ v.open /\ v.last \in Nat
  BY <1>2, <1>3, <1>4, Notes
<1>6. Leads(r, f)
  BY <1>2, <1>3, Lands
<1>7. PICK e : e = PersistHoles(f, v)
  OBVIOUS
<1>8. PICK u : u = HolesKept(v)
  OBVIOUS
<1>9. Good(e, u) /\ u.open /\ Leads(f, e) /\ u.last = v.last
  BY <1>5, <1>7, <1>8, Persists
<1>10. a.disk = e /\ a.writer = u
  BY <1>1, <1>3, <1>4, <1>7, <1>8 DEF Appended, Rolled, Noted
<1>11. Leads(d, e)
  BY <1>2, <1>6, <1>9, LeadsOn
<1>12. Stored(e, u.last)
  BY <1>9 DEF Good, Knows, IsTop, Stored
<1> QED BY <1>5, <1>9, <1>10, <1>11, <1>12

------------------------------------------------------------------------------
(* Crashes and the end.                                                    *)

(* What a crash leaves keeps what is synced; the first hole is covered,    *)
(* unless its record outlived the frames below it (Survivors).             *)
LEMMA Survives ==
  ASSUME NEW d \in Disks, Sound(d), Marked(d), NEW e \in Survivors(d)
  PROVE  /\ e \in Disks /\ Sound(e) /\ Marked(e) /\ Keeps(d, e)
         /\ Covered(d) => Covered(e) \/ JumpOutlives(e)
<1>1. CASE e = d
  <2>1. Leads(d, d)
    BY SameFrames
  <2> QED BY <1>1, <2>1 DEF Leads, Grows
<1>2. CASE e # d
  <2>0. Len(d.data) \in Nat /\ d.synced \in Nat /\ d.synced <= Len(d.data) /\ d.jump \in Nat
    BY DiskFacts DEF Sound
  <2>1. PICK kept \in Kept(d.data, d.synced) : e = [d EXCEPT !.data = kept, !.synced = Len(kept)]
    BY <1>2 DEF Survivors
  <2>2. PICK k \in d.synced .. Len(d.data) : kept = SubSeq(d.data, 1, k)
    BY DEF Kept
  <2>3. k \in 0 .. Len(d.data) /\ k \in Nat /\ d.synced <= k
    BY <2>0, <2>2
  <2>4. Len(kept) = k
    BY <2>2, <2>3, DiskFacts, Prefix
  <2>5. e = Cut(d, k)
    BY <2>1, <2>2, <2>4 DEF Cut
  <2>6. /\ e \in Disks /\ Sound(e) /\ Len(e.data) = k /\ e.synced = k
        /\ \A i \in 1 .. k : e.data[i] = d.data[i]
    BY <2>5, CutSound
  <2>7. e.mark = d.mark /\ e.row = d.row /\ e.jump = d.jump
    BY <2>5 DEF Disks, Cut
  <2>8. Keeps(d, e)
    BY <2>0, <2>3, <2>6, <2>7 DEF Keeps, Finished
  <2>9. Marked(e)
    <3>1. CASE d.mark = NoEnd
      BY <3>1, <2>7 DEF Marked
    <3>2. CASE d.mark # NoEnd
      <4>1. k = Len(d.data)
        BY <3>2, <2>0, <2>3 DEF Marked
      <4>2. ToSet(e.data) = ToSet(d.data)
        <5>1. DOMAIN e.data = 1 .. k /\ DOMAIN d.data = 1 .. k
          BY <4>1, <2>6, DiskFacts
        <5> QED BY <5>1, <2>6 DEF ToSet
      <4> QED BY <4>2, <2>6, <2>7 DEF Marked
    <3> QED BY <3>1, <3>2
  <2>10. ASSUME Covered(d), ~JumpOutlives(e) PROVE Covered(e)
    <3>1. DOMAIN e.data = 1 .. k /\ DOMAIN d.data = 1 .. Len(d.data) /\ k <= Len(d.data)
      BY <2>2, <2>3, <2>6, DiskFacts
    <3>2. ASSUME NEW i \in DOMAIN e.data, NEW j \in 1 .. i - 1, e.data[j] > e.data[i]
          PROVE  e.jump # 0 /\ e.jump <= e.data[i]
      <4>1. i \in 1 .. k /\ j \in 1 .. k /\ i \in DOMAIN d.data
        BY <3>1, <2>3
      <4>2. d.data[j] > d.data[i]
        BY <4>1, <3>2, <2>6
      <4>3. d.jump # 0 /\ d.jump <= d.data[i]
        BY <4>1, <4>2, <2>10 DEF Covered
      <4> QED BY <4>1, <4>3, <2>6, <2>7
    <3>3. ASSUME NEW x \in Frames, NEW i \in DOMAIN e.data, e.data[i] > x, x \notin ToSet(e.data)
          PROVE  e.jump # 0 /\ e.jump <= x
      <4>1. i \in 1 .. k /\ i \in DOMAIN d.data /\ d.data[i] > x
        BY <3>1, <3>3, <2>3, <2>6
      <4>2. CASE x \notin ToSet(d.data)
        BY <4>1, <4>2, <2>7, <2>10 DEF Covered
      <4>3. CASE x \in ToSet(d.data)
        <5>1. PICK j \in 1 .. Len(d.data) : d.data[j] = x
          BY <4>3, <3>1 DEF ToSet
        <5>2. j \notin 1 .. k
          BY <3>1, <3>3, <5>1, <2>6 DEF ToSet
        <5>3. i \in 1 .. j - 1 /\ j \in DOMAIN d.data
          BY <5>1, <5>2, <4>1, <3>1, <2>3
        <5>4. d.jump # 0 /\ d.jump <= x
          BY <5>1, <5>3, <4>1, <2>10 DEF Covered
        <5> QED BY <5>4, <2>7
      <4> QED BY <4>2, <4>3
    <3>4. ASSUME e.jump > 1 PROVE \E i \in DOMAIN e.data : e.jump <= e.data[i] + 1
      <4>1. PICK n \in 0 .. MaxSeq : IsTop(e, n)
        BY <2>6, TopExists
      <4>2. Opened(e).writer.last = n
        BY <4>1, <2>6, OpenedExact
      <4>3. ~(e.jump > n + 1)
        BY <4>2, <2>10 DEF JumpOutlives
      <4>4. n \in Nat /\ e.jump <= n + 1 /\ n # 0
        BY <4>1, <4>3, <3>4, <2>0, <2>7
      <4>5. PICK i \in 1 .. Len(e.data) : e.data[i] = n
        BY <4>1, <4>4 DEF IsTop
      <4> QED BY <4>4, <4>5, <3>1, <2>6
    <3> QED BY <3>2, <3>3, <3>4 DEF Covered
  <2> QED BY <2>6, <2>8, <2>9, <2>10
<1> QED BY <1>1, <1>2

GivenEnds == [last : Nat, gaps : SUBSET Nat]

(* The end record and the seal, before the marker (finish).                *)
LEMMA RecordsEnd ==
  ASSUME NEW o, Good(o.disk, o.writer), o.writer.open, o.writer.ended = NotEnded, NEW e \in GivenEnds,
         NEW r, r = EndRecord(o, e) \/ r = Seal(EndRecord(o, e), o.writer)
  PROVE  /\ r \in Disks /\ Sound(r) /\ Marked(r) /\ Leads(o.disk, r) /\ r.mark = NoEnd
         /\ r.data = o.disk.data /\ r.synced = Len(r.data)
<1>1. PICK d : d = o.disk
  OBVIOUS
<1>2. PICK w : w = o.writer
  OBVIOUS
<1>3. /\ Good(d, w) /\ w.open /\ w.ended = NotEnded /\ d \in Disks /\ Sound(d) /\ w \in Writers /\ Knows(d, w)
      /\ w.last \in Nat /\ Len(d.data) \in Nat
  BY <1>1, <1>2, WriterFacts, DiskFacts DEF Good
<1>4. PICK p : p = PersistHoles(d, w)
  OBVIOUS
<1>5. /\ p.holes = w.holes /\ p.data = d.data /\ p.mark = d.mark /\ p.row = d.row
      /\ p.jump = d.jump /\ p.sealedAt = d.sealedAt /\ p.sealedSeq = d.sealedSeq /\ p \in Disks
  BY <1>3, <1>4, Persists DEF Good
<1>6. PICK q : q = EndRecord(o, e)
  OBVIOUS
<1>7. q = [p EXCEPT !.synced = Len(d.data), !.rec = e]
  BY <1>1, <1>2, <1>4, <1>6 DEF EndRecord
<1>8. e \in Ends
  BY DEF Ends, GivenEnds
<1>9. /\ q \in Disks /\ q.synced = Len(d.data) /\ q.data = d.data /\ q.holes = w.holes /\ q.mark = d.mark
      /\ q.row = d.row /\ q.jump = d.jump /\ q.sealedAt = d.sealedAt /\ q.sealedSeq = d.sealedSeq
  BY <1>3, <1>5, <1>7, <1>8 DEF Disks
<1>10. d.mark = NoEnd
  <2>1. d.mark.last = NotEnded /\ d.mark \in Ends
    BY <1>3 DEF Knows, Disks
  <2> QED BY <2>1, NoEndFacts
<1>11. CASE r = q
  <2>1. Sound(r)
    BY <1>3, <1>9, <1>11, HolesSound
  <2>2. Leads(d, r)
    BY <1>3, <1>9, <1>10, <1>11, SameFrames DEF Finished
  <2> QED BY <2>1, <2>2, <1>1, <1>9, <1>10, <1>11 DEF Marked
<1>12. CASE r = Seal(q, w)
  <2>1. r = [q EXCEPT !.sealedAt = Len(q.data), !.sealedSeq = w.last, !.synced = Len(q.data)]
    BY <1>12 DEF Seal
  <2>2. /\ r \in Disks /\ r.synced = Len(d.data) /\ r.data = d.data /\ r.holes = w.holes /\ r.mark = d.mark
        /\ r.jump = d.jump /\ r.sealedAt = Len(d.data) /\ r.sealedSeq = w.last
    BY <1>3, <1>9, <2>1 DEF Disks
  <2>3. Sound(r)
    BY <1>3, <2>2, HolesSound
  <2>4. Leads(d, r)
    BY <1>3, <2>2, <1>10, SameFrames DEF Finished
  <2> QED BY <2>2, <2>3, <2>4, <1>1, <1>10 DEF Marked
<1> QED BY <1>2, <1>6, <1>11, <1>12

(* The marker lists the holes seen, the gaps declared and a tail that      *)
(* never came.                                                             *)
LEMMA MarksEnd ==
  ASSUME NEW o, Good(o.disk, o.writer), o.writer.open, NEW e \in GivenEnds, NEW r, r = EndMarked(o, e)
  PROVE  /\ r \in Disks /\ Sound(r) /\ Marked(r) /\ Leads(o.disk, r) /\ r.mark # NoEnd /\ r.synced = Len(r.data)
<1>1. PICK d : d = o.disk
  OBVIOUS
<1>2. PICK w : w = o.writer
  OBVIOUS
<1>3. /\ Good(d, w) /\ w.open /\ d \in Disks /\ Sound(d) /\ Marked(d) /\ w \in Writers /\ Knows(d, w)
      /\ w.last \in Nat /\ w.holes \in SUBSET Frames
  BY <1>1, <1>2, WriterFacts DEF Good
<1>4. CASE w.ended # NotEnded
  <2>1. r = d
    BY <1>1, <1>2, <1>4 DEF EndMarked
  <2>2. d.mark # NoEnd
    BY <1>3, <1>4, NoEndFacts DEF Knows
  <2>3. Leads(d, d)
    BY <1>3, SameFrames
  <2> QED BY <1>1, <1>3, <2>1, <2>2, <2>3 DEF Marked
<1>5. CASE w.ended = NotEnded
  <2>1. PICK q : q = Seal(EndRecord(o, e), w)
    OBVIOUS
  <2>2. /\ q \in Disks /\ Sound(q) /\ Leads(d, q) /\ q.mark = NoEnd /\ q.data = d.data /\ q.synced = Len(q.data)
    BY <1>1, <1>2, <1>3, <1>5, <2>1, RecordsEnd
  <2>3. PICK G : G = MergedGaps(w.last, w.holes, e.last, e.gaps)
    OBVIOUS
  <2>4. e.last \in Nat /\ e.gaps \in SUBSET Nat
    BY DEF GivenEnds
  <2>5. G = (w.holes \cup e.gaps \cup (w.last + 1 .. e.last)) /\ G \in SUBSET Nat
    <3>1. w.last + 1 .. e.last \in SUBSET Nat /\ w.holes \in SUBSET Nat
      BY <1>3, <2>4, LogBounds DEF Frames
    <3> QED BY <3>1, <2>3, <2>4 DEF MergedGaps
  <2>6. PICK mk : mk = [last |-> e.last, gaps |-> G]
    OBVIOUS
  <2>7. mk \in Ends /\ mk # NoEnd /\ mk.last = e.last /\ mk.gaps = G
    <3>1. mk \in Ends /\ mk.last = e.last /\ mk.gaps = G
      BY <2>4, <2>5, <2>6 DEF Ends
    <3> QED BY <3>1, <2>4, NoEndFacts
  <2>8. r = [q EXCEPT !.mark = mk]
    BY <1>2, <1>5, <2>1, <2>3, <2>6 DEF EndMarked
  <2>9. /\ r \in Disks /\ r.data = q.data /\ r.synced = q.synced /\ r.holes = q.holes /\ r.jump = q.jump
        /\ r.sealedAt = q.sealedAt /\ r.sealedSeq = q.sealedSeq /\ r.mark = mk /\ r.row = q.row
    BY <2>2, <2>7, <2>8 DEF Disks
  <2>10. Sound(r)
    BY <2>2, <2>9, SyncSound
  <2>11. Leads(q, r)
    BY <2>2, <2>7, <2>9, SameFrames DEF Finished
  <2>12. ASSUME NEW s \in 1 .. r.mark.last PROVE s \in ToSet(r.data) \cup r.mark.gaps
    <3>1. s \in 1 .. w.last \/ s \in w.last + 1 .. e.last
      BY <1>3, <2>4, <2>7, <2>9
    <3>2. w.holes = (1 .. w.last) \ ToSet(d.data)
      BY <1>3 DEF Knows
    <3> QED BY <3>1, <3>2, <2>2, <2>5, <2>7, <2>9
  <2>13. Marked(r)
    BY <2>2, <2>9, <2>12 DEF Marked
  <2>14. Leads(d, r)
    BY <2>2, <2>11, LeadsOn
  <2> QED BY <1>1, <2>2, <2>7, <2>9, <2>10, <2>13, <2>14
<1> QED BY <1>4, <1>5

(* The row says so too (log_ended).                                        *)
LEMMA Completes ==
  ASSUME NEW o, Good(o.disk, o.writer), o.writer.open, NEW e \in GivenEnds,
         NEW r, r = [EndMarked(o, e) EXCEPT !.row = "complete"]
  PROVE  /\ r \in Disks /\ Sound(r) /\ Marked(r) /\ Leads(o.disk, r) /\ Finished(r) /\ r.synced = Len(r.data)
<1>1. PICK q : q = EndMarked(o, e)
  OBVIOUS
<1>2. q \in Disks /\ Sound(q) /\ Marked(q) /\ Leads(o.disk, q) /\ q.mark # NoEnd /\ q.synced = Len(q.data)
  BY <1>1, MarksEnd
<1>3. r = [q EXCEPT !.row = "complete"]
  BY <1>1
<1>4. /\ r \in Disks /\ r.data = q.data /\ r.synced = q.synced /\ r.holes = q.holes /\ r.jump = q.jump
      /\ r.sealedAt = q.sealedAt /\ r.sealedSeq = q.sealedSeq /\ r.mark = q.mark /\ r.row = "complete"
  BY <1>2, <1>3 DEF Disks
<1>5. Sound(r)
  BY <1>2, <1>4, SyncSound
<1>6. Leads(q, r)
  BY <1>2, <1>4, SameFrames DEF Finished
<1>7. Leads(o.disk, r)
  BY <1>2, <1>6, LeadsOn
<1> QED BY <1>2, <1>4, <1>5, <1>7 DEF Marked, Finished

------------------------------------------------------------------------------
(* The threads that serve the connections.                                 *)

LEMMA ThreadFacts ==
  ASSUME NEW t \in Threads
  PROVE  t.live \in Flag /\ t.up \in Seq(UpLog) /\ t.down \in Seq(DownLog) /\ t.through \in Nat
BY DEF Threads

(* One thread changes.                                                     *)
LEMMA OneThread ==
  ASSUME NEW cs \in [Conn -> Threads], NEW c \in Conn, NEW t \in Threads, NEW d, NEW e, TellsTruth(d, cs), Grows(d, e),
         Stored(e, t.through), \A i \in DOMAIN t.down : Answer(e, t.down[i]),
         NEW ds, ds = [cs EXCEPT ![c] = t]
  PROVE  ds \in [Conn -> Threads] /\ TellsTruth(e, ds)
<1>1. ds \in [Conn -> Threads] /\ ds[c] = t /\ \A k \in Conn : k # c => ds[k] = cs[k]
  OBVIOUS
<1>2. ASSUME NEW k \in Conn PROVE Stored(e, ds[k].through) /\ \A i \in DOMAIN ds[k].down : Answer(e, ds[k].down[i])
  <2>1. CASE k = c
    BY <1>1, <2>1
  <2>2. CASE k # c
    <3>1. Stored(d, cs[k].through) /\ ds[k] = cs[k]
      BY <1>1, <2>2 DEF TellsTruth
    <3>2. Stored(e, cs[k].through)
      BY <3>1, GrowsStored
    <3>3. ASSUME NEW i \in DOMAIN cs[k].down PROVE Answer(e, cs[k].down[i])
      <4>1. Answer(d, cs[k].down[i])
        BY DEF TellsTruth
      <4> QED BY <4>1, KeepsReached DEF Answer, Grows, Keeps
    <3> QED BY <3>1, <3>2, <3>3
  <2> QED BY <2>1, <2>2
<1> QED BY <1>1, <1>2 DEF TellsTruth

(* A message of one's own is a true answer.                                *)
LEMMA AnswersHold ==
  ASSUME NEW d, NEW e, NEW cs, NEW c \in Conn, TellsTruth(d, cs), Grows(d, e)
  PROVE  Stored(e, cs[c].through) /\ \A i \in DOMAIN cs[c].down : Answer(e, cs[c].down[i])
<1>1. Stored(e, cs[c].through)
  BY GrowsStored DEF TellsTruth
<1>2. ASSUME NEW i \in DOMAIN cs[c].down PROVE Answer(e, cs[c].down[i])
  <2>1. Answer(d, cs[c].down[i])
    BY DEF TellsTruth
  <2> QED BY <2>1, KeepsReached DEF Answer, Grows, Keeps
<1> QED BY <1>1, <1>2

(* The head of a queue is taken.                                           *)
LEMMA Pops ==
  ASSUME NEW cs \in [Conn -> Threads], NEW c \in Conn, cs[c].up # <<>>, NEW d, NEW e, TellsTruth(d, cs), Grows(d, e),
         NEW ds, ds = [cs EXCEPT ![c].up = Tail(@)]
  PROVE  ds \in [Conn -> Threads] /\ TellsTruth(e, ds) /\ Head(cs[c].up) \in UpLog
<1>1. cs[c] \in Threads /\ cs[c].up \in Seq(UpLog)
  BY ThreadFacts
<1>2. PICK u : u = Tail(cs[c].up)
  OBVIOUS
<1>3. u \in Seq(UpLog) /\ Head(cs[c].up) \in UpLog
  BY <1>1, <1>2
<1>4. PICK t : t = [cs[c] EXCEPT !.up = u]
  OBVIOUS
<1>5. t \in Threads /\ t.through = cs[c].through /\ t.down = cs[c].down
  BY <1>1, <1>3, <1>4 DEF Threads
<1>6. ds = [cs EXCEPT ![c] = t]
  BY <1>2, <1>4
<1>7. Stored(e, t.through) /\ \A i \in DOMAIN t.down : Answer(e, t.down[i])
  BY <1>5, AnswersHold
<1> QED BY <1>3, <1>5, <1>6, <1>7, OneThread

(* A frame was stored: it is acknowledged later.                           *)
LEMMA Through ==
  ASSUME NEW cs \in [Conn -> Threads], NEW c \in Conn, NEW d, TellsTruth(d, cs), NEW n \in Nat, Stored(d, n),
         NEW ds, ds = [cs EXCEPT ![c].through = n]
  PROVE  ds \in [Conn -> Threads] /\ TellsTruth(d, ds)
<1>1. cs[c] \in Threads
  OBVIOUS
<1>2. PICK t : t = [cs[c] EXCEPT !.through = n]
  OBVIOUS
<1>3. t \in Threads /\ t.through = n /\ t.down = cs[c].down
  BY <1>1, <1>2 DEF Threads
<1>4. ds = [cs EXCEPT ![c] = t]
  BY <1>2
<1>5. Grows(d, d)
  BY DEF Grows, Keeps
<1>6. \A i \in DOMAIN t.down : Answer(d, t.down[i])
  BY <1>3 DEF TellsTruth
<1> QED BY <1>3, <1>4, <1>5, <1>6, OneThread

LEMMA AnswersJoin ==
  ASSUME NEW d, NEW s \in Seq(DownLog), NEW t \in Seq(DownLog), NEW r, r = s \o t,
         \A i \in DOMAIN s : Answer(d, s[i]), \A i \in DOMAIN t : Answer(d, t[i])
  PROVE  r \in Seq(DownLog) /\ \A i \in DOMAIN r : Answer(d, r[i])
<1>1. r \in Seq(DownLog) /\ Len(r) = Len(s) + Len(t)
  OBVIOUS
<1>2. \A i \in 1 .. Len(s) + Len(t) : r[i] = IF i <= Len(s) THEN s[i] ELSE t[i - Len(s)]
  OBVIOUS
<1>3. ASSUME NEW i \in DOMAIN r PROVE Answer(d, r[i])
  <2>1. i \in 1 .. Len(s) + Len(t)
    BY <1>1
  <2>2. CASE i <= Len(s)
    <3>1. i \in DOMAIN s /\ r[i] = s[i]
      BY <1>2, <2>1, <2>2
    <3> QED BY <3>1
  <2>3. CASE ~(i <= Len(s))
    <3>1. i - Len(s) \in DOMAIN t /\ r[i] = t[i - Len(s)]
      BY <1>2, <2>1, <2>3
    <3> QED BY <3>1
  <2> QED BY <2>2, <2>3
<1> QED BY <1>1, <1>3

(* A flush acknowledges what was stored, once it is synced, and answers.   *)
LEMMA Flushes ==
  ASSUME NEW cs \in [Conn -> Threads], NEW c \in Conn, NEW d, TellsTruth(d, cs), d.synced = Len(d.data),
         NEW more \in Seq(DownLog), \A i \in DOMAIN more : Answer(d, more[i]),
         NEW ds, ds = Flushed(cs, c, more)
  PROVE  ds \in [Conn -> Threads] /\ TellsTruth(d, ds)
<1>1. cs[c] \in Threads /\ cs[c].down \in Seq(DownLog) /\ cs[c].through \in Nat
  BY ThreadFacts
<1>2. Grows(d, d)
  BY DEF Grows, Keeps
<1>3. Stored(d, cs[c].through) /\ \A i \in DOMAIN cs[c].down : Answer(d, cs[c].down[i])
  BY DEF TellsTruth
<1>4. PICK q : q = Acks(cs[c])
  OBVIOUS
<1>5. q \in Seq(DownLog) /\ \A i \in DOMAIN q : Answer(d, q[i])
  <2>1. CASE cs[c].through = 0
    BY <1>4, <2>1 DEF Acks
  <2>2. CASE cs[c].through # 0
    <3>1. PICK m : m = LogAck(cs[c].through)
      OBVIOUS
    <3>2. m \in DownLog /\ m.type = "LogAck" /\ m.seq = cs[c].through
      BY <1>1, <3>1 DEF LogAck, DownLog
    <3>3. Reached(d, m.seq)
      BY <1>2, <1>3, <3>2, GrowsStored
    <3>4. Answer(d, m)
      BY <3>2, <3>3 DEF Answer
    <3>5. q = <<m>>
      BY <1>4, <2>2, <3>1 DEF Acks
    <3> QED BY <3>2, <3>4, <3>5
  <2> QED BY <2>1, <2>2
<1>6. PICK dn : dn = cs[c].down \o q \o more
  OBVIOUS
<1>7. dn \in Seq(DownLog) /\ \A i \in DOMAIN dn : Answer(d, dn[i])
  <2>1. PICK h : h = cs[c].down \o q
    OBVIOUS
  <2>2. h \in Seq(DownLog) /\ \A i \in DOMAIN h : Answer(d, h[i])
    BY <1>1, <1>3, <1>5, <2>1, AnswersJoin
  <2>3. dn = h \o more
    BY <1>6, <2>1
  <2> QED BY <2>2, <2>3, AnswersJoin
<1>8. PICK t : t = [cs[c] EXCEPT !.down = dn, !.through = 0]
  OBVIOUS
<1>9. t \in Threads /\ t.through = 0 /\ t.down = dn
  BY <1>1, <1>7, <1>8 DEF Threads
<1>10. ds = [cs EXCEPT ![c] = t]
  <2>1. ds = [cs EXCEPT ![c].down = dn, ![c].through = 0]
    BY <1>4, <1>6 DEF Flushed
  <2> QED BY <2>1, <1>8
<1>11. Stored(d, t.through)
  BY <1>9 DEF Stored
<1>12. \A i \in DOMAIN t.down : Answer(d, t.down[i])
  BY <1>7, <1>9
<1> QED BY <1>2, <1>9, <1>10, <1>11, <1>12, OneThread

LEMMA Alone ==
  ASSUME NEW d, NEW m \in DownLog, Answer(d, m)
  PROVE  <<m>> \in Seq(DownLog) /\ \A i \in DOMAIN <<m>> : Answer(d, <<m>>[i])
OBVIOUS

LEMMA DeadThread ==
  ASSUME NEW t \in Threads
  PROVE  Dead(t) \in Threads /\ Dead(t).through = 0 /\ Dead(t).down = t.down
<1>1. FALSE \in Flag
  BY DEF Flag
<1>2. PICK f : f = FALSE
  OBVIOUS
<1>3. PICK r : r = [t EXCEPT !.live = f, !.up = <<>>, !.through = 0]
  OBVIOUS
<1>4. <<>> \in Seq(UpLog)
  OBVIOUS
<1>5. f \in Flag
  BY <1>1, <1>2
<1>6. r \in Threads
  BY <1>3, <1>4, <1>5 DEF Threads
<1>7. Dead(t) = r
  BY <1>2, <1>3 DEF Dead
<1>8. r.through = 0 /\ r.down = t.down
  BY <1>3 DEF Threads
<1> QED BY <1>6, <1>7, <1>8

(* The threads of a controller that died, or of a connection that broke.   *)
LEMMA AllDead ==
  ASSUME NEW cs \in [Conn -> Threads], NEW d, NEW e, TellsTruth(d, cs), Keeps(d, e),
         NEW ds, ds = [c \in Conn |-> Dead(cs[c])]
  PROVE  ds \in [Conn -> Threads] /\ TellsTruth(e, ds)
<1>1. \A c \in Conn : ds[c] \in Threads /\ ds[c].through = 0 /\ ds[c].down = cs[c].down
  BY DeadThread
<1>2. ASSUME NEW c \in Conn, NEW i \in DOMAIN cs[c].down PROVE Answer(e, cs[c].down[i])
  <2>1. Answer(d, cs[c].down[i])
    BY DEF TellsTruth
  <2> QED BY <2>1, KeepsReached DEF Answer, Keeps
<1> QED BY <1>1, <1>2 DEF TellsTruth, Stored

LEMMA OneDead ==
  ASSUME NEW cs \in [Conn -> Threads], NEW d, TellsTruth(d, cs), NEW c \in Conn,
         NEW ds, ds = [cs EXCEPT ![c] = Dead(@)]
  PROVE  ds \in [Conn -> Threads] /\ TellsTruth(d, ds)
<1>1. PICK t : t = Dead(cs[c])
  OBVIOUS
<1>2. t \in Threads /\ t.through = 0 /\ t.down = cs[c].down
  BY <1>1, DeadThread
<1>3. ds = [cs EXCEPT ![c] = t] /\ Grows(d, d)
  BY <1>1 DEF Grows, Keeps
<1>4. Stored(d, t.through) /\ \A i \in DOMAIN t.down : Answer(d, t.down[i])
  BY <1>2 DEF TellsTruth, Stored
<1> QED BY <1>2, <1>3, <1>4, OneThread

------------------------------------------------------------------------------
(* The steps of the controller.                                            *)

LEMMA InvFacts ==
  ASSUME LogInv
  PROVE  /\ Good(disk, writer) /\ conns \in [Conn -> Threads] /\ TellsTruth(disk, conns) /\ used \in Usage
         /\ (used.stale \/ Covered(disk)) /\ disk \in Disks /\ Sound(disk) /\ Marked(disk)
BY DEF LogInv, LogTypes, Good

LEMMA StoreStep ==
  ASSUME LogInv, UNCHANGED <<spool, pipe, link>>, Good(disk', writer'), Keeps(disk, disk'),
         used' \in Usage, used'.stale \/ Covered(disk'), conns' \in [Conn -> Threads], TellsTruth(disk', conns')
  PROVE  LogInv'
<1>1. LogTypes'
  BY DEF LogInv, LogTypes, Good
<1>2. Sound(disk)' /\ (writer.open => Knows(disk, writer))' /\ Marked(disk)'
  BY DEF Good
<1>3. Believes(disk, pipe, spool)'
  <2>1. Reached(disk, pipe.acked) /\ Reached(disk, spool.cursor)
        /\ (pipe.endAcked \/ pipe.mode = "delivered" => Finished(disk))
    BY DEF LogInv, Believes
  <2>2. Reached(disk', pipe.acked) /\ Reached(disk', spool.cursor)
    BY <2>1, KeepsReached
  <2>3. Finished(disk) => Finished(disk')
    BY DEF Keeps
  <2> QED BY <2>1, <2>2, <2>3 DEF Believes
<1> QED BY <1>1, <1>2, <1>3 DEF LogInv

LEMMA SpentFacts ==
  ASSUME used \in Usage, Spent
  PROVE  used' \in Usage /\ used'.stale = used.stale
BY DEF Usage, Spent

(* The message at the head of a queue.                                     *)
LEMMA MessageFacts ==
  ASSUME NEW m \in UpLog
  PROVE  /\ m.type = "Log" => m.seq \in Frames
         /\ m.type = "LogEnd" => [last |-> m.seq, gaps |-> m.gaps] \in GivenEnds
BY DEF UpLog, GivenEnds

(* The writer at hand, with its holes persisted.                           *)
LEMMA AtHand ==
  ASSUME LogInv, NEW o, o = WithWriter, NEW d, d = PersistHoles(o.disk, o.writer), NEW w, w = HolesKept(o.writer)
  PROVE  /\ Good(o.disk, o.writer) /\ o.writer.open /\ Leads(disk, o.disk)
         /\ Good(d, w) /\ w.open /\ ~w.holesDirty /\ w.ended = o.writer.ended /\ Leads(disk, d)
<1>1. o = IF writer.open THEN [disk |-> disk, writer |-> writer] ELSE Opened(disk)
  BY DEF WithWriter
<1>2. Good(disk, writer)
  BY InvFacts
<1>3. Good(o.disk, o.writer) /\ o.writer.open /\ Leads(disk, o.disk)
  BY <1>1, <1>2, Reopens
<1>4. Good(d, w) /\ w.open /\ ~w.holesDirty /\ w.ended = o.writer.ended /\ Leads(o.disk, d)
  BY <1>3, Persists
<1> QED BY <1>3, <1>4, LeadsOn

(* An answer goes out after a sync, and the message it answers is gone.    *)
LEMMA Answers ==
  ASSUME LogInv, NEW c \in Conn, conns[c].up # <<>>, NEW e, Leads(disk, e), e.synced = Len(e.data),
         NEW m \in DownLog, Answer(e, m), NEW ds, ds = Flushed(Popped(c), c, <<m>>)
  PROVE  ds \in [Conn -> Threads] /\ TellsTruth(e, ds)
<1>1. PICK cs : cs = Popped(c)
  OBVIOUS
<1>2. cs = [conns EXCEPT ![c].up = Tail(@)]
  BY <1>1 DEF Popped
<1>3. conns \in [Conn -> Threads] /\ TellsTruth(disk, conns) /\ Grows(disk, e)
  BY InvFacts DEF Leads
<1>4. cs \in [Conn -> Threads] /\ TellsTruth(e, cs)
  BY <1>2, <1>3, Pops
<1>5. PICK q : q = <<m>>
  OBVIOUS
<1>6. q \in Seq(DownLog) /\ \A i \in DOMAIN q : Answer(e, q[i])
  BY <1>5, Alone
<1>7. ds = Flushed(cs, c, q)
  BY <1>1, <1>5
<1> HIDE <1>1, <1>5
<1> QED BY <1>4, <1>6, <1>7, Flushes

LEMMA StoreFrameKeeps ==
  ASSUME LogInv, NEW c \in Conn, conns[c].up # <<>>, NEW s \in Frames, StoreFrame(c, s),
         UNCHANGED <<spool, pipe, link>>
  PROVE  LogInv'
<1>1. PICK o : o = WithWriter
  OBVIOUS
<1>2. PICK d : d = PersistHoles(o.disk, o.writer)
  OBVIOUS
<1>3. PICK w : w = HolesKept(o.writer)
  OBVIOUS
<1>4. PICK a : a = Appended(d, w, s)
  OBVIOUS
<1>5. /\ o.writer.ended = NotEnded /\ ~Duplicate(w, s) /\ disk' = a.disk /\ writer' = a.writer
      /\ conns' = [Popped(c) EXCEPT ![c].through = a.writer.last] /\ UNCHANGED used
  BY <1>1, <1>2, <1>3, <1>4 DEF StoreFrame
<1>6. Good(d, w) /\ w.open /\ ~w.holesDirty /\ w.ended = NotEnded /\ Leads(disk, d)
  BY <1>1, <1>2, <1>3, <1>5, AtHand
<1>7. Good(a.disk, a.writer) /\ Leads(d, a.disk) /\ Stored(a.disk, a.writer.last) /\ a.writer.last \in Nat
  BY <1>4, <1>5, <1>6, Appends
<1>8. Leads(disk, disk')
  BY <1>5, <1>6, <1>7, LeadsOn
<1>9. PICK cs : cs = Popped(c)
  OBVIOUS
<1>10. cs = [conns EXCEPT ![c].up = Tail(@)] /\ conns \in [Conn -> Threads] /\ TellsTruth(disk, conns)
       /\ Grows(disk, disk')
  BY <1>8, <1>9, InvFacts DEF Popped, Leads
<1>11. cs \in [Conn -> Threads] /\ TellsTruth(disk', cs)
  BY <1>10, Pops
<1>12. PICK n \in Nat : n = a.writer.last
  BY <1>7
<1>13. Stored(disk', n) /\ conns' = [cs EXCEPT ![c].through = n]
  BY <1>5, <1>7, <1>9, <1>12
<1>14. conns' \in [Conn -> Threads] /\ TellsTruth(disk', conns')
  BY <1>11, <1>13, Through
<1>15. used' \in Usage /\ (used'.stale \/ Covered(disk')) /\ Good(disk', writer') /\ Keeps(disk, disk')
  BY <1>5, <1>7, <1>8, InvFacts DEF Leads, Grows
<1> QED BY <1>14, <1>15, StoreStep

(* A sync, and an answer.                                                  *)
LEMMA SyncAnswer ==
  ASSUME LogInv, NEW c \in Conn, conns[c].up # <<>>, NEW d, NEW w, Good(d, w), w.open, Leads(disk, d),
         disk' = SyncDirty(d, w), writer' = [w EXCEPT !.dirty = FALSE],
         NEW m \in DownLog, m.type = "LogAck" => Stored(d, m.seq), m.type # "LogEndAck",
         conns' = Flushed(Popped(c), c, <<m>>), UNCHANGED used \/ Spent, UNCHANGED <<spool, pipe, link>>
  PROVE  LogInv'
<1>1. /\ Good(disk', writer') /\ disk'.synced = Len(d.data) /\ disk'.data = d.data /\ Leads(d, disk')
  BY Syncs
<1>2. Leads(disk, disk')
  BY <1>1, LeadsOn
<1>3. disk'.synced = Len(disk'.data)
  BY <1>1
<1>4. Answer(disk', m)
  BY <1>1, <1>3, GrowsStored DEF Answer, Leads
<1>5. conns' \in [Conn -> Threads] /\ TellsTruth(disk', conns')
  BY <1>2, <1>3, <1>4, Answers
<1>6. used' \in Usage /\ used'.stale = used.stale
  BY SpentFacts, InvFacts
<1>7. used'.stale \/ Covered(disk')
  BY <1>2, <1>6, InvFacts DEF Leads
<1> QED BY <1>1, <1>2, <1>5, <1>6, <1>7, StoreStep DEF Leads, Grows

LEMMA StoreDuplicateKeeps ==
  ASSUME LogInv, NEW c \in Conn, conns[c].up # <<>>, NEW s \in Frames, StoreDuplicate(c, s),
         UNCHANGED <<spool, pipe, link>>
  PROVE  LogInv'
<1>1. PICK o : o = WithWriter
  OBVIOUS
<1>2. PICK d : d = PersistHoles(o.disk, o.writer)
  OBVIOUS
<1>3. PICK w : w = HolesKept(o.writer)
  OBVIOUS
<1>4. /\ disk' = SyncDirty(d, w) /\ writer' = [w EXCEPT !.dirty = FALSE]
      /\ conns' = Flushed(Popped(c), c, <<LogAck(w.last)>>) /\ UNCHANGED used
  BY <1>1, <1>2, <1>3 DEF StoreDuplicate
<1>5. Good(d, w) /\ w.open /\ Leads(disk, d)
  BY <1>1, <1>2, <1>3, AtHand
<1>6. PICK m : m = LogAck(w.last)
  OBVIOUS
<1>7. w.last \in Nat
  BY <1>5, WriterFacts DEF Good
<1>8. m \in DownLog /\ m.type = "LogAck" /\ m.seq = w.last
  BY <1>6, <1>7 DEF LogAck, DownLog
<1>9. Stored(d, m.seq)
  BY <1>5, <1>8 DEF Good, Knows, IsTop, Stored
<1>10. conns' = Flushed(Popped(c), c, <<m>>)
  BY <1>4, <1>6
<1> QED BY <1>4, <1>5, <1>8, <1>9, <1>10, SyncAnswer

LEMMA RefusalIs == LogRefused \in DownLog /\ LogRefused.type = "LogRefused"
BY DEF LogRefused, DownLog

LEMMA StoreRefusesKeeps ==
  ASSUME LogInv, NEW c \in Conn, conns[c].up # <<>>, NEW s \in Frames, StoreRefuses(c, s),
         UNCHANGED <<spool, pipe, link>>
  PROVE  LogInv'
<1>1. PICK o : o = WithWriter
  OBVIOUS
<1>2. PICK d : d = PersistHoles(o.disk, o.writer)
  OBVIOUS
<1>3. PICK w : w = HolesKept(o.writer)
  OBVIOUS
<1>4. PICK m : m = LogRefused
  OBVIOUS
<1>5. /\ \/ /\ disk' = SyncDirty(o.disk, o.writer) /\ writer' = [o.writer EXCEPT !.dirty = FALSE]
            /\ UNCHANGED used
         \/ /\ disk' = SyncDirty(d, w) /\ writer' = [w EXCEPT !.dirty = FALSE]
            /\ Spent
      /\ conns' = Flushed(Popped(c), c, <<m>>)
  BY <1>1, <1>2, <1>3, <1>4 DEF StoreRefuses
<1>6. Good(d, w) /\ w.open /\ Leads(disk, d) /\ Good(o.disk, o.writer) /\ o.writer.open /\ Leads(disk, o.disk)
  BY <1>1, <1>2, <1>3, AtHand
<1>7. m \in DownLog /\ m.type # "LogAck" /\ m.type # "LogEndAck"
  BY <1>4, RefusalIs
<1>8. CASE disk' = SyncDirty(o.disk, o.writer) /\ writer' = [o.writer EXCEPT !.dirty = FALSE] /\ UNCHANGED used
  BY <1>5, <1>6, <1>7, <1>8, SyncAnswer
<1>9. CASE disk' = SyncDirty(d, w) /\ writer' = [w EXCEPT !.dirty = FALSE] /\ Spent
  BY <1>5, <1>6, <1>7, <1>9, SyncAnswer
<1> QED BY <1>5, <1>8, <1>9

LEMMA RefuseEndKeeps ==
  ASSUME LogInv, NEW c \in Conn, conns[c].up # <<>>, NEW e, RefuseEnd(c, e), UNCHANGED used,
         UNCHANGED <<spool, pipe, link>>
  PROVE  LogInv'
<1>1. PICK o : o = WithWriter
  OBVIOUS
<1>2. PICK m : m = LogRefused
  OBVIOUS
<1>3. /\ disk' = SyncDirty(o.disk, o.writer) /\ writer' = [o.writer EXCEPT !.dirty = FALSE]
      /\ conns' = Flushed(Popped(c), c, <<m>>)
  BY <1>1, <1>2 DEF RefuseEnd
<1>4. Good(o.disk, o.writer) /\ o.writer.open /\ Leads(disk, o.disk)
  BY <1>1, AtHand
<1>5. m \in DownLog /\ m.type # "LogAck" /\ m.type # "LogEndAck"
  BY <1>2, RefusalIs
<1> QED BY <1>3, <1>4, <1>5, SyncAnswer

LEMMA NoWriterFacts == NoWriter \in Writers /\ ~NoWriter.open
<1>1. PICK f : f = FALSE
  OBVIOUS
<1>2. f \in Flag
  BY <1>1 DEF Flag
<1>3. PICK E : E = {}
  OBVIOUS
<1>4. E \in SUBSET Frames
  BY <1>3
<1>5. [open |-> f, last |-> 0, holes |-> E, dirty |-> f, holesDirty |-> f, ended |-> NotEnded] \in Writers
  <2>1. NotEnded \in Nat \cup {NotEnded} /\ 0 \in Nat
    OBVIOUS
  <2> QED BY <1>2, <1>4, <2>1, WriterRecord
<1> QED BY <1>1, <1>3, <1>5 DEF NoWriter

LEMMA StoreEndKeeps ==
  ASSUME LogInv, NEW c \in Conn, conns[c].up # <<>>, NEW e \in GivenEnds, StoreEnd(c, e), UNCHANGED used,
         UNCHANGED <<spool, pipe, link>>
  PROVE  LogInv'
<1>1. PICK o : o = WithWriter
  OBVIOUS
<1>2. PICK m : m = LogEndAck
  OBVIOUS
<1>3. /\ disk' = [EndMarked(o, e) EXCEPT !.row = "complete"] /\ writer' = NoWriter
      /\ conns' = Flushed(Popped(c), c, <<m>>)
  BY <1>1, <1>2 DEF StoreEnd
<1>4. Good(o.disk, o.writer) /\ o.writer.open /\ Leads(disk, o.disk)
  BY <1>1, AtHand
<1>5. m \in DownLog /\ m.type = "LogEndAck"
  BY <1>2 DEF LogEndAck, DownLog
<1>6. /\ disk' \in Disks /\ Sound(disk') /\ Marked(disk') /\ Leads(o.disk, disk') /\ Finished(disk')
      /\ disk'.synced = Len(disk'.data)
  BY <1>3, <1>4, Completes
<1>7. Leads(disk, disk')
  BY <1>4, <1>6, LeadsOn
<1>8. Answer(disk', m)
  BY <1>5, <1>6 DEF Answer
<1>9. conns' \in [Conn -> Threads] /\ TellsTruth(disk', conns')
  BY <1>3, <1>5, <1>6, <1>7, <1>8, Answers
<1>10. Good(disk', writer')
  BY <1>3, <1>6, NoWriterFacts DEF Good
<1>11. used' \in Usage /\ (used'.stale \/ Covered(disk')) /\ Keeps(disk, disk')
  BY <1>7, InvFacts DEF Leads, Grows
<1> QED BY <1>9, <1>10, <1>11, StoreStep

LEMMA ServeKeeps ==
  ASSUME LogInv, NEW c \in Conn, Serve(c)
  PROVE  LogInv'
<1>1. conns[c].up # <<>> /\ UNCHANGED <<spool, pipe, link>>
  BY DEF Serve
<1>2. PICK m : m = Head(conns[c].up)
  OBVIOUS
<1>3. m \in UpLog
  <2>1. conns[c].up \in Seq(UpLog)
    BY InvFacts, ThreadFacts
  <2> QED BY <1>1, <1>2, <2>1
<1>4. PICK e : e = [last |-> m.seq, gaps |-> m.gaps]
  OBVIOUS
<1>5. \/ m.type = "Log" /\ (StoreFrame(c, m.seq) \/ StoreDuplicate(c, m.seq) \/ StoreRefuses(c, m.seq))
      \/ m.type = "LogEnd" /\ (StoreEnd(c, e) \/ RefuseEnd(c, e)) /\ UNCHANGED used
  BY <1>2, <1>4 DEF Serve
<1>6. (m.type = "Log" => m.seq \in Frames) /\ (m.type = "LogEnd" => e \in GivenEnds)
  BY <1>3, <1>4, MessageFacts
<1>7. CASE m.type = "Log"
  BY <1>1, <1>5, <1>6, <1>7, StoreFrameKeeps, StoreDuplicateKeeps, StoreRefusesKeeps
<1>8. CASE m.type = "LogEnd" /\ (StoreEnd(c, e) \/ RefuseEnd(c, e)) /\ UNCHANGED used
  BY <1>1, <1>6, <1>8, StoreEndKeeps, RefuseEndKeeps
<1> QED BY <1>5, <1>7, <1>8

LEMMA FlushKeeps ==
  ASSUME LogInv, NEW c \in Conn, Flush(c)
  PROVE  LogInv'
<1>0. UNCHANGED <<spool, pipe, link, used>> /\ Good(disk, writer) /\ conns \in [Conn -> Threads] /\ TellsTruth(disk, conns)
      /\ used \in Usage /\ (used.stale \/ Covered(disk))
  BY InvFacts DEF Flush
<1>1. CASE writer.open
  <2>1. /\ disk' = SyncDirty(disk, writer) /\ writer' = [writer EXCEPT !.dirty = FALSE]
        /\ conns' = Flushed(conns, c, <<>>)
    BY <1>1 DEF Flush
  <2>2. /\ Good(disk', writer') /\ disk'.synced = Len(disk.data) /\ disk'.data = disk.data /\ Leads(disk, disk')
    BY <1>0, <1>1, <2>1, Syncs
  <2>3. TellsTruth(disk', conns)
    <3>1. \A k \in Conn : Stored(disk', conns[k].through) /\ \A i \in DOMAIN conns[k].down : Answer(disk', conns[k].down[i])
      BY <1>0, <2>2, AnswersHold DEF Leads
    <3> QED BY <3>1 DEF TellsTruth
  <2>4. PICK q : q = <<>>
    OBVIOUS
  <2>5. q \in Seq(DownLog) /\ \A i \in DOMAIN q : Answer(disk', q[i])
    BY <2>4
  <2>6. conns' = Flushed(conns, c, q) /\ disk'.synced = Len(disk'.data)
    BY <2>1, <2>2, <2>4
  <2>7. conns' \in [Conn -> Threads] /\ TellsTruth(disk', conns')
    BY <1>0, <2>3, <2>5, <2>6, Flushes
  <2> QED BY <1>0, <2>2, <2>7, StoreStep DEF Leads, Grows
<1>2. CASE ~writer.open
  <2>1. conns' = [conns EXCEPT ![c] = Dead(@)] /\ UNCHANGED <<disk, writer>>
    BY <1>2 DEF Flush
  <2>2. conns' \in [Conn -> Threads] /\ TellsTruth(disk, conns')
    BY <1>0, <2>1, OneDead
  <2>3. Keeps(disk, disk')
    BY <2>1 DEF Keeps
  <2> QED BY <1>0, <2>1, <2>2, <2>3, StoreStep
<1> QED BY <1>1, <1>2

LEMMA BreakKeeps ==
  ASSUME LogInv, NEW c \in Conn, Break(c)
  PROVE  LogInv'
<1>0. /\ UNCHANGED <<spool, pipe, link, disk, writer, used>> /\ conns' = [conns EXCEPT ![c] = Dead(@)]
      /\ Good(disk, writer) /\ conns \in [Conn -> Threads] /\ TellsTruth(disk, conns)
      /\ used \in Usage /\ (used.stale \/ Covered(disk))
  BY InvFacts DEF Break
<1>1. conns' \in [Conn -> Threads] /\ TellsTruth(disk, conns')
  BY <1>0, OneDead
<1>2. Keeps(disk, disk')
  BY <1>0 DEF Keeps
<1> QED BY <1>0, <1>1, <1>2, StoreStep

LEMMA CloseWriterKeeps ==
  ASSUME LogInv, CloseWriter
  PROVE  LogInv'
<1>0. /\ UNCHANGED <<spool, pipe, link, conns, disk>> /\ writer' = NoWriter /\ Spent
      /\ Good(disk, writer) /\ conns \in [Conn -> Threads] /\ TellsTruth(disk, conns)
      /\ used \in Usage /\ (used.stale \/ Covered(disk))
  BY InvFacts DEF CloseWriter
<1>1. used' \in Usage /\ used'.stale = used.stale
  BY <1>0, SpentFacts
<1>2. Keeps(disk, disk') /\ Good(disk', writer')
  BY <1>0, NoWriterFacts DEF Keeps, Good
<1>3. conns' \in [Conn -> Threads] /\ TellsTruth(disk', conns') /\ (used'.stale \/ Covered(disk'))
  BY <1>0, <1>1
<1> QED BY <1>0, <1>1, <1>2, <1>3, StoreStep

(* The controller dies, and what is left is sound.                         *)
LEMMA DownKeeps ==
  ASSUME LogInv, NEW kind, NEW left, Down(kind, left), kind # "seal" \/ used'.torn = {},
         \A d \in left : kind # "seal" \/ Uncovered(d) = {} =>
                            /\ d \in Disks /\ Sound(d) /\ Marked(d) /\ Keeps(disk, d)
                            /\ Covered(disk) => Covered(d) \/ JumpOutlives(d)
  PROVE  LogInv'
<1>0. PICK d \in left : /\ disk' = d
                        /\ used' = [used EXCEPT !.faults = @ + 1, !.stale = @ \/ JumpOutlives(d),
                                       !.torn = IF kind = "seal" THEN @ \cup Uncovered(d) ELSE @]
  BY DEF Down
<1>1. writer' = NoWriter /\ conns' = [c \in Conn |-> Dead(conns[c])] /\ UNCHANGED <<spool, pipe, link>>
  BY DEF Down
<1>2. used \in Usage
  BY InvFacts
<1>3. PICK T : T = IF kind = "seal" THEN used.torn \cup Uncovered(d) ELSE used.torn
  OBVIOUS
<1>4. PICK out : out = JumpOutlives(d)
  OBVIOUS
<1>5. PICK st : st = (used.stale \/ out)
  OBVIOUS
<1>6. st \in Flag
  BY <1>5 DEF Flag
<1>7. PICK n \in Nat : n = used.faults + 1
  <2>1. used.faults \in Nat
    BY <1>2 DEF Usage
  <2> QED BY <2>1
<1>8. used' = [used EXCEPT !.faults = n, !.stale = st, !.torn = T]
  BY <1>0, <1>3, <1>4, <1>5, <1>7
<1>9. used'.torn = T /\ used'.stale = st
  BY <1>2, <1>8 DEF Usage
<1>10. kind # "seal" \/ Uncovered(d) = {}
  BY <1>3, <1>9
<1>11. /\ d \in Disks /\ Sound(d) /\ Marked(d) /\ Keeps(disk, d)
       /\ Covered(disk) => Covered(d) \/ JumpOutlives(d)
  BY <1>10
<1>12. T \in SUBSET Nat
  BY <1>2, <1>3, <1>10 DEF Usage
<1>13. used' \in Usage
  BY <1>2, <1>6, <1>8, <1>12 DEF Usage
<1>14. Good(disk', writer') /\ Keeps(disk, disk')
  BY <1>0, <1>1, <1>11, NoWriterFacts DEF Good
<1>15. conns' \in [Conn -> Threads] /\ TellsTruth(disk', conns')
  BY <1>1, <1>14, InvFacts, AllDead
<1>16. used'.stale \/ Covered(disk')
  <2>1. used.stale \/ Covered(disk)
    BY InvFacts
  <2>2. Covered(disk) => Covered(disk') \/ out
    BY <1>0, <1>4, <1>11
  <2> QED BY <2>1, <2>2, <1>5, <1>9
<1> QED BY <1>1, <1>13, <1>14, <1>15, <1>16, StoreStep

LEMMA StoreDiesKeeps ==
  ASSUME LogInv, StoreDies
  PROVE  LogInv'
<1>1. \A d \in Survivors(disk) : /\ d \in Disks /\ Sound(d) /\ Marked(d) /\ Keeps(disk, d)
                                 /\ Covered(disk) => Covered(d) \/ JumpOutlives(d)
  BY Survives, InvFacts
<1> QED BY <1>1, DownKeeps DEF StoreDies

LEMMA KeepsOn ==
  ASSUME NEW a, NEW b, NEW c, Leads(a, b), Keeps(b, c)
  PROVE  Keeps(a, c)
BY DEF Leads, Grows, Keeps

LEMMA DiesInAppendKeeps ==
  ASSUME LogInv, NEW c \in Conn, DiesInAppend(c)
  PROVE  LogInv'
<1>1. PICK o : o = WithWriter
  OBVIOUS
<1>2. PICK d : d = PersistHoles(o.disk, o.writer)
  OBVIOUS
<1>3. PICK w : w = HolesKept(o.writer)
  OBVIOUS
<1>4. PICK m : m = Head(conns[c].up)
  OBVIOUS
<1>5. PICK f : f = FrameIn(Jumped(Rolled(d, w), w, m.seq), m.seq)
  OBVIOUS
<1>6. /\ conns[c].up # <<>> /\ m.type = "Log" /\ o.writer.ended = NotEnded /\ ~Duplicate(w, m.seq)
      /\ Down("store", Survivors(f))
  BY <1>1, <1>2, <1>3, <1>4, <1>5 DEF DiesInAppend, Rolled
<1>7. m \in UpLog
  <2>1. conns[c].up \in Seq(UpLog)
    BY InvFacts, ThreadFacts
  <2> QED BY <1>4, <1>6, <2>1
<1>8. PICK s \in Frames : s = m.seq
  BY <1>6, <1>7, MessageFacts
<1>9. Good(d, w) /\ w.open /\ ~w.holesDirty /\ w.ended = NotEnded /\ Leads(disk, d)
  BY <1>1, <1>2, <1>3, <1>6, AtHand
<1>10. PICK r : r = Rolled(d, w)
  OBVIOUS
<1>11. Good(r, w) /\ Leads(d, r)
  BY <1>9, <1>10, Rolls
<1>12. f = FrameIn(Jumped(r, w, s), s) /\ ~Duplicate(w, s)
  BY <1>5, <1>6, <1>8, <1>10
<1>13. f \in Disks /\ Sound(f) /\ Marked(f) /\ Leads(r, f)
  BY <1>9, <1>11, <1>12, Lands
<1>14. Leads(disk, f)
  BY <1>9, <1>11, <1>13, LeadsOn
<1>15. ASSUME NEW e \in Survivors(f)
       PROVE  /\ e \in Disks /\ Sound(e) /\ Marked(e) /\ Keeps(disk, e)
              /\ Covered(disk) => Covered(e) \/ JumpOutlives(e)
  <2>1. e \in Disks /\ Sound(e) /\ Marked(e) /\ Keeps(f, e) /\ (Covered(f) => Covered(e) \/ JumpOutlives(e))
    BY <1>13, Survives
  <2>2. Keeps(disk, e)
    BY <1>14, <2>1, KeepsOn
  <2> QED BY <2>1, <2>2, <1>14 DEF Leads
<1> QED BY <1>6, <1>15, DownKeeps

(* A power cut inside a seal that took no frame of the segment left it     *)
(* sealed; any other one leaves numbers that the seal covers and nothing   *)
(* accounts for.                                                           *)
LEMMA TornFacts ==
  ASSUME NEW d, NEW w, Good(d, w), w.open, ~w.holesDirty, NEW kept \in Kept(d.data, d.synced),
         NEW e, e = [d EXCEPT !.sealedSeq = w.last, !.data = kept, !.synced = Len(kept), !.sealedAt = Len(kept)],
         Uncovered(e) = {}
  PROVE  e = Seal(d, w)
<1>1. d \in Disks /\ Sound(d) /\ w \in Writers /\ Knows(d, w)
  BY DEF Good
<1>2. d.data \in Seq(Frames) /\ Len(d.data) \in Nat /\ DOMAIN d.data = 1 .. Len(d.data) /\ d.synced \in Nat
  BY <1>1, DiskFacts
<1>3. PICK k \in d.synced .. Len(d.data) : kept = SubSeq(d.data, 1, k)
  BY DEF Kept
<1>4. k \in 0 .. Len(d.data) /\ k \in Nat
  BY <1>2, <1>3
<1>5. kept \in Seq(Frames) /\ Len(kept) = k /\ \A i \in 1 .. k : kept[i] = d.data[i]
  BY <1>2, <1>3, <1>4, Prefix
<1>6. e.sealedSeq = w.last /\ e.data = kept /\ e.holes = w.holes
  BY <1>1 DEF Disks, Knows
<1>7. k = Len(d.data)
  <2> SUFFICES ASSUME k # Len(d.data) PROVE FALSE
    OBVIOUS
  <2>1. PICK j \in 1 .. Len(d.data) : j = k + 1
    BY <1>2, <1>4
  <2>2. d.data[j] \in Nat /\ d.data[j] # 0 /\ d.data[j] <= w.last /\ w.last \in Nat
    BY <1>1, DiskFacts DEF Knows, IsTop
  <2>3. d.data[j] \notin w.holes
    BY <1>1, <1>2 DEF Knows, ToSet
  <2>4. d.data[j] \notin ToSet(kept)
    <3>1. \A i \in 1 .. k : i \in DOMAIN d.data /\ i # j
      BY <1>2, <1>4, <2>1
    <3>2. \A i \in 1 .. k : d.data[i] # d.data[j]
      BY <1>1, <1>2, <3>1 DEF Sound, IsInjective
    <3>3. DOMAIN kept = 1 .. k
      BY <1>5
    <3> QED BY <1>5, <3>2, <3>3 DEF ToSet
  <2>5. d.data[j] \in Uncovered(e)
    BY <1>6, <2>2, <2>3, <2>4 DEF Uncovered
  <2> QED BY <2>5
<1>8. kept = d.data
  BY <1>2, <1>3, <1>7
<1> QED BY <1>1, <1>8 DEF Seal, Disks

LEMMA DiesInSealKeeps ==
  ASSUME LogInv, NEW c \in Conn, DiesInSeal(c), used'.torn = {}
  PROVE  LogInv'
<1>1. PICK o : o = WithWriter
  OBVIOUS
<1>2. PICK d : d = PersistHoles(o.disk, o.writer)
  OBVIOUS
<1>3. PICK w : w = HolesKept(o.writer)
  OBVIOUS
<1>4. PICK left : left = {[d EXCEPT !.sealedSeq = w.last, !.data = kept, !.synced = Len(kept),
                                    !.sealedAt = Len(kept)] : kept \in Kept(d.data, d.synced)}
  OBVIOUS
<1>5. o.writer.ended = NotEnded /\ Full(d) /\ Down("seal", left)
  BY <1>1, <1>2, <1>3, <1>4 DEF DiesInSeal
<1>6. Good(d, w) /\ w.open /\ ~w.holesDirty /\ w.ended = NotEnded /\ Leads(disk, d)
  BY <1>1, <1>2, <1>3, <1>5, AtHand
<1>7. PICK r : r = Rolled(d, w)
  OBVIOUS
<1>8. Good(r, w) /\ Leads(d, r) /\ r = Seal(d, w)
  BY <1>5, <1>6, <1>7, Rolls DEF Rolled
<1>9. Leads(disk, r)
  BY <1>6, <1>8, LeadsOn
<1>10. ASSUME NEW e \in left, Uncovered(e) = {}
       PROVE  /\ e \in Disks /\ Sound(e) /\ Marked(e) /\ Keeps(disk, e)
              /\ Covered(disk) => Covered(e) \/ JumpOutlives(e)
  <2>1. PICK kept \in Kept(d.data, d.synced) :
           e = [d EXCEPT !.sealedSeq = w.last, !.data = kept, !.synced = Len(kept), !.sealedAt = Len(kept)]
    BY <1>4
  <2>2. e = r
    BY <1>6, <1>8, <1>10, <2>1, TornFacts
  <2> QED BY <1>8, <1>9, <2>2 DEF Good, Leads, Grows
<1> QED BY <1>5, <1>10, DownKeeps

LEMMA DiesInFinishKeeps ==
  ASSUME LogInv, NEW c \in Conn, DiesInFinish(c)
  PROVE  LogInv'
<1>1. PICK o : o = WithWriter
  OBVIOUS
<1>2. PICK m : m = Head(conns[c].up)
  OBVIOUS
<1>3. PICK e : e = [last |-> m.seq, gaps |-> m.gaps]
  OBVIOUS
<1>4. /\ conns[c].up # <<>> /\ m.type = "LogEnd" /\ o.writer.ended = NotEnded
      /\ Down("store", {EndRecord(o, e), Seal(EndRecord(o, e), o.writer), EndMarked(o, e)})
  BY <1>1, <1>2, <1>3 DEF DiesInFinish
<1>5. m \in UpLog
  <2>1. conns[c].up \in Seq(UpLog)
    BY InvFacts, ThreadFacts
  <2> QED BY <1>2, <1>4, <2>1
<1>6. e \in GivenEnds
  BY <1>3, <1>4, <1>5, MessageFacts
<1>7. Good(o.disk, o.writer) /\ o.writer.open /\ Leads(disk, o.disk)
  BY <1>1, AtHand
<1>8. ASSUME NEW d \in {EndRecord(o, e), Seal(EndRecord(o, e), o.writer), EndMarked(o, e)}
      PROVE  /\ d \in Disks /\ Sound(d) /\ Marked(d) /\ Keeps(disk, d)
             /\ Covered(disk) => Covered(d) \/ JumpOutlives(d)
  <2>1. d \in Disks /\ Sound(d) /\ Marked(d) /\ Leads(o.disk, d)
    <3>1. CASE d = EndRecord(o, e) \/ d = Seal(EndRecord(o, e), o.writer)
      BY <1>4, <1>6, <1>7, <3>1, RecordsEnd
    <3>2. CASE d = EndMarked(o, e)
      BY <1>6, <1>7, <3>2, MarksEnd
    <3> QED BY <3>1, <3>2
  <2>2. Leads(disk, d)
    BY <1>7, <2>1, LeadsOn
  <2> QED BY <2>1, <2>2 DEF Leads, Grows
<1> QED BY <1>4, <1>8, DownKeeps

------------------------------------------------------------------------------
(* The worker's pipe.                                                      *)

LEMMA Flags == TRUE \in Flag /\ FALSE \in Flag
BY DEF Flag

LEMMA PipeFacts ==
  ASSUME NEW p \in Pipes
  PROVE  /\ p.next \in Nat /\ p.gaps \in SUBSET Nat /\ p.acked \in Nat /\ p.sent \in Nat /\ p.read \in Nat
         /\ p.sending \in 0 .. MaxSeq /\ p.batch \in Seq(Frames)
         /\ p.reporter \in Flag /\ p.refused \in Flag /\ p.cut \in Flag /\ p.ended \in Flag
         /\ p.endSent \in Flag /\ p.endAcked \in Flag
BY DEF Pipes

LEMMA SpoolFacts ==
  ASSUME NEW sp \in Spools
  PROVE  /\ sp.frames \in Seq(Frames) /\ sp.synced \in Nat /\ sp.cursor \in Nat /\ sp.declared \in Nat /\ sp.end \in Ends
         /\ DOMAIN sp.frames = 1 .. Len(sp.frames) /\ Len(sp.frames) \in Nat /\ MaxSeq \in Nat
<1>1. MaxSeq \in Nat
  BY LogBounds
<1> QED BY <1>1 DEF Spools

LEMMA LinkFacts ==
  ASSUME NEW l \in Links
  PROVE  /\ l.ctrl \in Nat /\ l.bulk \in Nat /\ l.attached \in Nat /\ l.detached \in Nat /\ l.told \in Flag /\ l.next \in Nat
         /\ Route(l) \in Routes
BY DEF Links, Route, Routes

(* The highest number of a set with a bound.                               *)
LEMMA TopBounded ==
  ASSUME NEW N \in Nat, NEW S \in SUBSET Nat, \A x \in S : x <= N
  PROVE  Top(S) \in Nat /\ Top(S) <= N /\ \A x \in S : x <= Top(S)
<1>1. CASE S = {}
  BY <1>1 DEF Top
<1>2. CASE S # {}
  <2>1. S \in SUBSET (0 .. N)
    OBVIOUS
  <2>2. Max(S) \in S /\ \A x \in S : x <= Max(S)
    BY <1>2, <2>1, TopNatural
  <2>3. Top(S) = Max(S)
    BY <1>2 DEF Top
  <2> QED BY <2>1, <2>2, <2>3
<1> QED BY <1>1, <1>2

LEMMA LastStoredFacts ==
  ASSUME NEW sp \in Spools
  PROVE  LastStored(sp) \in Nat
<1>1. ToSet(sp.frames) \in SUBSET Nat /\ \A x \in ToSet(sp.frames) : x <= MaxSeq
  BY SpoolFacts DEF ToSet, Frames
<1> QED BY <1>1, SpoolFacts, TopBounded DEF LastStored

(* What is sent next is frames of the spool.                               *)
LEMMA SendNextFacts ==
  ASSUME NEW p \in Pipes, NEW sp \in Spools
  PROVE  SendNext(p, sp) \in Seq(Frames)
<1>1. sp.frames \in Seq(Frames) /\ Len(sp.frames) \in Nat /\ DOMAIN sp.frames = 1 .. Len(sp.frames)
  BY SpoolFacts
<1>2. PICK n : n = Cardinality({i \in DOMAIN sp.frames : sp.frames[i] <= p.read})
  OBVIOUS
<1>3. n \in Nat
  <2>1. IsFiniteSet(1 .. Len(sp.frames))
    BY <1>1, FS_Interval
  <2>2. {i \in DOMAIN sp.frames : sp.frames[i] <= p.read} \subseteq 1 .. Len(sp.frames)
    BY <1>1
  <2>3. IsFiniteSet({i \in DOMAIN sp.frames : sp.frames[i] <= p.read})
    BY <2>1, <2>2, FS_Subset
  <2> QED BY <1>2, <2>3, FS_CardinalityType
<1>4. PICK u : u = SubSeq(sp.frames, n + 1, Len(sp.frames))
  OBVIOUS
<1>5. u \in Seq(Frames) /\ Len(u) \in Nat
  BY <1>1, <1>3, <1>4
<1>6. Unsent(p, sp) = u
  BY <1>2, <1>4 DEF Unsent
<1>7. Room(p) \in Nat
  <2>1. p.sent - p.acked \in Int
    BY PipeFacts
  <2>2. PICK x : x = p.sent - p.acked
    OBVIOUS
  <2>3. x \in Int /\ 0 \in Int
    BY <2>1, <2>2
  <2>4. Max({0, x}) \in {0, x}
    BY <2>3, HigherOf
  <2>5. PICK y : y = Window - Max({0, x})
    OBVIOUS
  <2>6. y \in Int
    BY <2>3, <2>4, <2>5, LogBounds
  <2>7. Max({0, y}) \in {0, y} /\ 0 <= Max({0, y})
    BY <2>3, <2>6, HigherOf
  <2>8. Room(p) = Max({0, y})
    BY <2>2, <2>5 DEF Room
  <2> QED BY <2>6, <2>7, <2>8
<1>8. PICK k : k = Min({Room(p), Len(u)})
  OBVIOUS
<1>9. k \in 0 .. Len(u)
  <2>1. Room(p) \in Int /\ Len(u) \in Int
    BY <1>5, <1>7
  <2>2. Min({Room(p), Len(u)}) \in {Room(p), Len(u)} /\ Min({Room(p), Len(u)}) <= Len(u)
    BY <2>1, LowerOf
  <2> QED BY <2>2, <1>5, <1>7, <1>8
<1>10. SubSeq(u, 1, k) \in Seq(Frames)
  BY <1>5, <1>9, Prefix
<1> QED BY <1>6, <1>8, <1>10 DEF SendNext

(* A message goes to a connection of the link, or nowhere.                 *)
LEMMA Sends ==
  ASSUME NEW cs \in [Conn -> Threads], NEW l, NEW m \in UpLog, NEW d, TellsTruth(d, cs),
         NEW ds, ds = Send(cs, l, m)
  PROVE  ds \in [Conn -> Threads] /\ TellsTruth(d, ds)
<1>1. PICK c : c = Here(l)
  OBVIOUS
<1>2. ds = IF cs[c].live THEN [cs EXCEPT ![c].up = Append(@, m)] ELSE cs
  BY <1>1 DEF Send
<1>3. CASE c \in Conn /\ cs[c].live
  <2>1. cs[c] \in Threads /\ cs[c].up \in Seq(UpLog)
    BY <1>3, ThreadFacts
  <2>2. PICK q : q = Append(cs[c].up, m)
    OBVIOUS
  <2>3. q \in Seq(UpLog)
    BY <2>1, <2>2
  <2>4. PICK t : t = [cs[c] EXCEPT !.up = q]
    OBVIOUS
  <2>5. t \in Threads /\ t.through = cs[c].through /\ t.down = cs[c].down
    BY <2>1, <2>3, <2>4 DEF Threads
  <2>6. ds = [cs EXCEPT ![c] = t] /\ Grows(d, d)
    BY <1>2, <1>3, <2>2, <2>4 DEF Grows, Keeps
  <2>7. Stored(d, t.through) /\ \A i \in DOMAIN t.down : Answer(d, t.down[i])
    BY <1>3, <2>5 DEF TellsTruth
  <2> QED BY <1>3, <2>5, <2>6, <2>7, OneThread
<1>4. CASE ~(c \in Conn /\ cs[c].live)
  <2>1. ds = cs
    BY <1>2, <1>4
  <2> QED BY <2>1
<1> QED BY <1>3, <1>4

(* What a call on the pipe keeps: how far it is acknowledged, and whether  *)
(* the end is.                                                             *)
SamePipe(p, q) == q.acked = p.acked /\ q.endAcked = p.endAcked /\ q.mode = p.mode
Piped(p)  == p \in Pipes /\ Numbered(p)
Spooled(sp) == sp \in Spools /\ EndSound(sp)

LEMMA SyncedFacts ==
  ASSUME NEW sp, Spooled(sp), NEW p, Piped(p), NEW r, r = Synced(sp, p.gaps)
  PROVE  Spooled(r) /\ r.cursor = sp.cursor /\ r.end = sp.end
<1>1. sp \in Spools /\ p \in Pipes /\ p.next \in Nat /\ p.gaps \in SUBSET Nat /\ \A x \in p.gaps : x <= p.next
  BY PipeFacts DEF Spooled, Piped, Numbered
<1>2. Top(p.gaps) \in Nat
  BY <1>1, TopBounded
<1>3. PICK n : n = Max({sp.declared, Top(p.gaps)})
  OBVIOUS
<1>4. n \in Nat
  <2>1. sp.declared \in Nat /\ sp.declared \in Int /\ Top(p.gaps) \in Int
    BY <1>1, <1>2, SpoolFacts
  <2>2. Max({sp.declared, Top(p.gaps)}) \in {sp.declared, Top(p.gaps)}
    BY <2>1, HigherOf
  <2> QED BY <1>2, <1>3, <2>1, <2>2
<1>5. PICK k : k = Len(sp.frames)
  OBVIOUS
<1>6. k \in Nat
  BY <1>1, <1>5, SpoolFacts
<1>7. r = [sp EXCEPT !.synced = k, !.declared = n]
  BY <1>1, <1>3, <1>5 DEF Synced
<1>8. r \in Spools /\ r.cursor = sp.cursor /\ r.end = sp.end
  BY <1>1, <1>4, <1>6, <1>7 DEF Spools
<1> QED BY <1>8 DEF Spooled, EndSound

(* The end record is durable before it is sent, and written once           *)
(* (persist_end).                                                          *)
LEMMA PersistEndFacts ==
  ASSUME NEW sp, Spooled(sp), NEW p, Piped(p), NEW r, r = PersistEnd(p, sp)
  PROVE  Spooled(r) /\ r.cursor = sp.cursor /\ r.end \in GivenEnds
<1>1. CASE sp.end # NoEnd
  <2>1. r = sp
    BY <1>1 DEF PersistEnd
  <2>2. sp.end \in Ends
    BY SpoolFacts DEF Spooled
  <2> QED BY <1>1, <2>1, <2>2 DEF Ends, GivenEnds
<1>2. CASE sp.end = NoEnd
  <2>1. PICK q : q = Synced(sp, p.gaps)
    OBVIOUS
  <2>2. Spooled(q) /\ q.cursor = sp.cursor
    BY <2>1, SyncedFacts
  <2>3. PICK e : e = [last |-> p.next - 1, gaps |-> p.gaps]
    OBVIOUS
  <2>4. p.next \in Nat /\ p.next # 0 /\ p.gaps \in SUBSET Nat /\ \A g \in p.gaps : g < p.next
    BY PipeFacts DEF Piped, Numbered
  <2>5. PICK n \in Nat : n = p.next - 1
    BY <2>4
  <2>6. e = [last |-> n, gaps |-> p.gaps]
    BY <2>3, <2>5
  <2>7. e \in GivenEnds /\ e.last = n /\ e.gaps = p.gaps
    BY <2>4, <2>6 DEF GivenEnds
  <2>8. e \in Ends
    BY <2>7 DEF Ends, GivenEnds
  <2>9. r = [q EXCEPT !.end = e]
    BY <1>2, <2>1, <2>3 DEF PersistEnd
  <2>10. r \in Spools /\ r.cursor = q.cursor /\ r.end = e
    BY <2>2, <2>8, <2>9 DEF Spools, Spooled
  <2>11. \A g \in e.gaps : g <= e.last
    <3> TAKE g \in e.gaps
    <3>1. g \in Nat /\ g < p.next
      BY <2>4, <2>7
    <3> QED BY <3>1, <2>4, <2>5, <2>7
  <2> QED BY <2>2, <2>7, <2>10, <2>11 DEF Spooled, EndSound
<1> QED BY <1>1, <1>2

LEMMA RewoundFacts ==
  ASSUME NEW p, Piped(p), NEW q, q = Rewound(p)
  PROVE  Piped(q) /\ SamePipe(p, q)
<1>1. p \in Pipes /\ p.acked \in Nat
  BY PipeFacts DEF Piped
<1>2. PICK n \in Nat : n = p.acked
  BY <1>1
<1>3. q = [p EXCEPT !.sent = n, !.read = n]
  BY <1>2 DEF Rewound
<1>4. q \in Pipes
  BY <1>1, <1>3 DEF Pipes
<1>5. q.next = p.next /\ q.gaps = p.gaps /\ SamePipe(p, q)
  BY <1>1, <1>3 DEF Pipes, SamePipe
<1> QED BY <1>4, <1>5 DEF Piped, Numbered

LEMMA OnRouteFacts ==
  ASSUME NEW p, Piped(p), NEW l \in Links, NEW q, q = OnRoute(p, l)
  PROVE  Piped(q) /\ SamePipe(p, q)
<1>1. PICK r : r = IF p.route.detached # l.detached THEN Rewound(p) ELSE p
  OBVIOUS
<1>2. Piped(r) /\ SamePipe(p, r) /\ r \in Pipes
  BY <1>1, RewoundFacts DEF Piped, SamePipe
<1>3. PICK rt \in Routes : rt = Route(l)
  BY LinkFacts
<1>4. q = [r EXCEPT !.route = rt]
  BY <1>1, <1>3 DEF OnRoute
<1>5. q \in Pipes
  BY <1>2, <1>4 DEF Pipes
<1>6. q.next = r.next /\ q.gaps = r.gaps /\ SamePipe(r, q)
  BY <1>2, <1>4 DEF Pipes, SamePipe
<1> QED BY <1>2, <1>5, <1>6 DEF Piped, Numbered, SamePipe

LEMMA ReadFacts ==
  ASSUME NEW p, Piped(p), NEW n \in Nat, NEW b \in Seq(Frames), NEW q, q = [p EXCEPT !.batch = b, !.read = n]
  PROVE  Piped(q) /\ SamePipe(p, q)
<1>1. p \in Pipes
  BY DEF Piped
<1>2. q \in Pipes
  BY <1>1 DEF Pipes
<1>3. q.next = p.next /\ q.gaps = p.gaps /\ SamePipe(p, q)
  BY <1>1 DEF Pipes, SamePipe
<1> QED BY <1>2, <1>3 DEF Piped, Numbered

LEMMA DeclareCutFacts ==
  ASSUME NEW p, Piped(p), NEW sp, NEW q, q = DeclareCut(p, sp)
  PROVE  Piped(q) /\ SamePipe(p, q)
<1>1. p \in Pipes /\ p.next \in Nat /\ p.next # 0 /\ p.gaps \in SUBSET Nat /\ \A g \in p.gaps : g < p.next
  BY PipeFacts DEF Piped, Numbered
<1>2. CASE ~(sp.end = NoEnd /\ p.cut)
  <2>1. q = p
    BY <1>2 DEF DeclareCut
  <2> QED BY <2>1 DEF SamePipe
<1>3. CASE sp.end = NoEnd /\ p.cut
  <2>1. PICK G : G = p.gaps \cup {p.next}
    OBVIOUS
  <2>2. PICK n : n = p.next + 1
    OBVIOUS
  <2>3. PICK f : f = FALSE
    OBVIOUS
  <2>4. f \in Flag
    BY <2>3, Flags
  <2>5. n \in Nat /\ n # 0 /\ G \in SUBSET Nat /\ \A g \in G : g < n
    BY <1>1, <2>1, <2>2
  <2>6. q = [p EXCEPT !.gaps = G, !.next = n, !.cut = f]
    BY <1>1, <1>3, <2>1, <2>2, <2>3 DEF DeclareCut
  <2>7. q \in Pipes
    BY <1>1, <2>4, <2>5, <2>6 DEF Pipes
  <2>8. q.next = n /\ q.gaps = G
    BY <1>1, <2>6 DEF Pipes
  <2>9. SamePipe(p, q)
    BY <1>1, <2>6 DEF Pipes, SamePipe
  <2> QED BY <2>5, <2>7, <2>8, <2>9 DEF Piped, Numbered
<1> QED BY <1>2, <1>3

LEMMA EndSentFacts ==
  ASSUME NEW p, Piped(p), NEW ok \in Flag, NEW q, q = [p EXCEPT !.endSent = ok, !.reporter = ok]
  PROVE  Piped(q) /\ SamePipe(p, q)
<1>1. p \in Pipes
  BY DEF Piped
<1>2. q \in Pipes
  BY <1>1 DEF Pipes
<1>3. q.next = p.next /\ q.gaps = p.gaps /\ SamePipe(p, q)
  BY <1>1 DEF Pipes, SamePipe
<1> QED BY <1>2, <1>3 DEF Piped, Numbered

LEMMA OutcomeFacts ==
  ASSUME NEW cs, NEW l, NEW ok \in Outcomes(cs, l)
  PROVE  ok \in Flag
BY DEF Outcomes, Flag

(* What a call leaves of the pipe, the spool and the connections.          *)
Leaves(p, sp, d) ==
    /\ Piped(pipe') /\ SamePipe(p, pipe') /\ Spooled(spool') /\ spool'.cursor = sp.cursor
    /\ conns' \in [Conn -> Threads] /\ TellsTruth(d, conns')

LEMMA PumpEnds ==
  ASSUME NEW p, Piped(p), NEW sp, Spooled(sp), NEW cs \in [Conn -> Threads], NEW l,
         NEW d, TellsTruth(d, cs), PumpEnd(p, sp, cs, l)
  PROVE  Leaves(p, sp, d)
<1>1. PICK c : c = DeclareCut(p, sp)
  OBVIOUS
<1>2. Piped(c) /\ SamePipe(p, c)
  BY <1>1, DeclareCutFacts
<1>3. PICK e : e = PersistEnd(c, sp)
  OBVIOUS
<1>4. Spooled(e) /\ e.cursor = sp.cursor /\ e.end \in GivenEnds
  BY <1>2, <1>3, PersistEndFacts
<1>5. PICK m : m = LogEnd(e.end)
  OBVIOUS
<1>6. m \in UpLog
  BY <1>4, <1>5 DEF LogEnd, UpLog, GivenEnds
<1>7. CASE EndDue(p, sp)
  <2>1. PICK ok \in Outcomes(cs, l) : /\ pipe' = [c EXCEPT !.endSent = ok, !.reporter = ok]
                                      /\ conns' = IF ok THEN Send(cs, l, m) ELSE cs
    BY <1>1, <1>3, <1>5, <1>7 DEF PumpEnd
  <2>2. spool' = e
    BY <1>1, <1>3, <1>7 DEF PumpEnd
  <2>3. ok \in Flag
    BY OutcomeFacts
  <2>4. Piped(pipe') /\ SamePipe(c, pipe')
    BY <1>2, <2>1, <2>3, EndSentFacts
  <2>5. conns' \in [Conn -> Threads] /\ TellsTruth(d, conns')
    <3>1. CASE conns' = cs
      BY <3>1
    <3>2. CASE conns' = Send(cs, l, m)
      BY <1>6, <3>2, Sends
    <3> QED BY <2>1, <3>1, <3>2
  <2> QED BY <1>2, <1>4, <2>2, <2>4, <2>5 DEF Leaves, SamePipe
<1>8. CASE ~EndDue(p, sp)
  <2>1. pipe' = p /\ spool' = sp /\ conns' = cs
    BY <1>8 DEF PumpEnd
  <2> QED BY <2>1 DEF Leaves, SamePipe
<1> QED BY <1>7, <1>8

(* Every call ends with the pump: it reads frames of the spool or sends    *)
(* the end, and keeps what the worker was told.                            *)
LEMMA Pumps ==
  ASSUME NEW p, Piped(p), NEW sp, Spooled(sp), NEW cs \in [Conn -> Threads], NEW l \in Links,
         NEW d, TellsTruth(d, cs), Pump(p, sp, cs, l)
  PROVE  Leaves(p, sp, d)
<1>1. PICK q : q = OnRoute(p, l)
  OBVIOUS
<1>2. Piped(q) /\ SamePipe(p, q)
  BY <1>1, OnRouteFacts
<1>3. PICK out : out = SendNext(q, sp)
  OBVIOUS
<1>4. out \in Seq(Frames)
  BY <1>2, <1>3, SendNextFacts DEF Piped, Spooled
<1>5. PICK n : n = Last(out)
  OBVIOUS
<1>6. \/ pipe' = p /\ spool' = sp /\ conns' = cs
      \/ PumpEnd(q, sp, cs, l)
      \/ out # <<>> /\ pipe' = [q EXCEPT !.batch = out, !.read = n] /\ spool' = sp /\ conns' = cs
  BY <1>1, <1>3, <1>5 DEF Pump
<1>7. CASE pipe' = p /\ spool' = sp /\ conns' = cs
  BY <1>7 DEF Leaves, SamePipe
<1>8. CASE PumpEnd(q, sp, cs, l)
  <2>1. Leaves(q, sp, d)
    BY <1>2, <1>8, PumpEnds
  <2> QED BY <1>2, <2>1 DEF Leaves, SamePipe
<1>9. CASE out # <<>> /\ pipe' = [q EXCEPT !.batch = out, !.read = n] /\ spool' = sp /\ conns' = cs
  <2>1. Len(out) \in Nat /\ Len(out) # 0 /\ Len(out) \in 1 .. Len(out)
    BY <1>4, <1>9
  <2>2. out[Len(out)] \in Frames
    BY <1>4, <2>1
  <2>3. n \in Nat
    BY <1>5, <2>2, LogBounds DEF Last, Frames
  <2>4. Piped(pipe') /\ SamePipe(q, pipe')
    BY <1>2, <1>4, <1>9, <2>3, ReadFacts
  <2> QED BY <1>2, <1>9, <2>4 DEF Leaves, SamePipe
<1> QED BY <1>6, <1>7, <1>8, <1>9


------------------------------------------------------------------------------
(* The steps of the worker.                                                *)

LEMMA WorkerFacts ==
  ASSUME LogInv
  PROVE  /\ Piped(pipe) /\ pipe \in Pipes /\ Spooled(spool) /\ spool \in Spools /\ link \in Links
         /\ conns \in [Conn -> Threads] /\ used \in Usage
         /\ TellsTruth(disk, conns) /\ Believes(disk, pipe, spool)
BY DEF LogInv, LogTypes, Piped, Spooled

LEMMA WorkerStep ==
  ASSUME LogInv, UNCHANGED <<disk, writer>>, Piped(pipe'), Spooled(spool'), link' \in Links,
         conns' \in [Conn -> Threads], TellsTruth(disk, conns'), Believes(disk, pipe', spool'),
         used' \in Usage, used'.stale = used.stale
  PROVE  LogInv'
<1>1. LogTypes'
  BY DEF LogInv, LogTypes, Piped, Spooled
<1>2. Sound(disk)' /\ (writer.open => Knows(disk, writer))' /\ Marked(disk)' /\ (used.stale \/ Covered(disk))'
  BY DEF LogInv
<1> QED BY <1>1, <1>2 DEF LogInv

LEMMA LeavesStep ==
  ASSUME LogInv, UNCHANGED <<disk, writer>>, NEW p, NEW sp, Leaves(p, sp, disk), Believes(disk, p, sp),
         link' \in Links, used' \in Usage, used'.stale = used.stale
  PROVE  LogInv'
<1>1. /\ Piped(pipe') /\ SamePipe(p, pipe') /\ Spooled(spool') /\ spool'.cursor = sp.cursor
      /\ conns' \in [Conn -> Threads] /\ TellsTruth(disk, conns')
  BY DEF Leaves
<1>2. Believes(disk, pipe', spool')
  BY <1>1 DEF Believes, SamePipe
<1> QED BY <1>1, <1>2, WorkerStep

LEMMA PumpStep ==
  ASSUME LogInv, UNCHANGED <<disk, writer>>, NEW p, Piped(p), NEW sp, Spooled(sp), NEW cs \in [Conn -> Threads],
         NEW l \in Links, TellsTruth(disk, cs), Pump(p, sp, cs, l), Believes(disk, p, sp), link' \in Links,
         used' \in Usage, used'.stale = used.stale
  PROVE  LogInv'
<1>1. Leaves(p, sp, disk)
  BY Pumps
<1> QED BY <1>1, LeavesStep

(* The spool with one more frame.                                          *)
LEMMA KeepFacts ==
  ASSUME LogInv, NEW s \in Frames, NEW sync \in BOOLEAN, NEW r, r = Keep(spool, s, sync)
  PROVE  Spooled(r) /\ r.cursor = spool.cursor
<1>1. Piped(pipe) /\ Spooled(spool) /\ spool \in Spools
  BY WorkerFacts
<1>2. PICK f : f = Append(spool.frames, s)
  OBVIOUS
<1>3. f \in Seq(Frames)
  BY <1>1, <1>2, SpoolFacts
<1>4. PICK n : n = [spool EXCEPT !.frames = f]
  OBVIOUS
<1>5. n \in Spools /\ n.cursor = spool.cursor /\ n.end = spool.end
  BY <1>1, <1>3, <1>4 DEF Spools
<1>6. Spooled(n)
  BY <1>1, <1>5 DEF Spooled, EndSound
<1>7. r = IF sync THEN Synced(n, pipe.gaps) ELSE n
  BY <1>2, <1>4 DEF Keep
<1>8. CASE sync
  BY <1>1, <1>5, <1>6, <1>7, <1>8, SyncedFacts
<1>9. CASE ~sync
  BY <1>5, <1>6, <1>7, <1>9
<1> QED BY <1>8, <1>9

LEMMA NextFrame ==
  ASSUME LogInv, CanWrite
  PROVE  pipe.next \in Frames /\ pipe.next \in Nat /\ pipe.next # 0
<1>1. pipe.next \in Nat /\ pipe.next # 0
  BY WorkerFacts, PipeFacts DEF Piped, Numbered
<1> QED BY <1>1, LogBounds DEF CanWrite, Frames

(* The number of a chunk is spent, on a frame or on a gap.                 *)
LEMMA NextSpent ==
  ASSUME NEW p, Piped(p), NEW G, G = p.gaps \/ G = p.gaps \cup {p.next}, NEW q, q = [p EXCEPT !.next = @ + 1, !.gaps = G]
  PROVE  Piped(q) /\ SamePipe(p, q)
<1>1. p \in Pipes /\ p.next \in Nat /\ p.next # 0 /\ p.gaps \in SUBSET Nat /\ \A g \in p.gaps : g < p.next
  BY PipeFacts DEF Piped, Numbered
<1>2. PICK n : n = p.next + 1
  OBVIOUS
<1>3. n \in Nat /\ n # 0 /\ G \in SUBSET Nat /\ \A g \in G : g < n
  BY <1>1, <1>2
<1>4. q = [p EXCEPT !.next = n, !.gaps = G]
  BY <1>2
<1>5. q \in Pipes
  BY <1>1, <1>3, <1>4 DEF Pipes
<1>6. q.next = n /\ q.gaps = G /\ SamePipe(p, q)
  BY <1>1, <1>4 DEF Pipes, SamePipe
<1> QED BY <1>3, <1>5, <1>6 DEF Piped, Numbered

LEMMA SpooledMore ==
  ASSUME used \in Usage, NEW s \in Frames, used' = [used EXCEPT !.spooled = @ \cup {s}]
  PROVE  used' \in Usage /\ used'.stale = used.stale
<1>1. used.spooled \cup {s} \in SUBSET Frames
  BY DEF Usage
<1>2. PICK S \in SUBSET Frames : S = used.spooled \cup {s}
  BY <1>1
<1>3. used' = [used EXCEPT !.spooled = S]
  BY <1>2
<1> QED BY <1>3 DEF Usage

LEMMA WriteKeeps ==
  ASSUME LogInv, Write
  PROVE  LogInv'
<1>1. /\ CanWrite /\ used' = [used EXCEPT !.spooled = @ \cup {pipe.next}] /\ UNCHANGED <<link, disk, writer>>
  BY DEF Write
<1>2. PICK sync \in BOOLEAN :
         Pump([pipe EXCEPT !.next = @ + 1], Keep(spool, pipe.next, sync), conns, link)
  BY DEF Write
<1>3. PICK p : p = [pipe EXCEPT !.next = @ + 1]
  OBVIOUS
<1>4. PICK sp : sp = Keep(spool, pipe.next, sync)
  OBVIOUS
<1>5. Pump(p, sp, conns, link)
  BY <1>2, <1>3, <1>4
<1>6. /\ Piped(pipe) /\ pipe \in Pipes /\ link \in Links /\ conns \in [Conn -> Threads] /\ used \in Usage
      /\ TellsTruth(disk, conns) /\ Believes(disk, pipe, spool)
  BY WorkerFacts
<1>7. pipe.next \in Frames
  BY <1>1, NextFrame
<1>8. p = [pipe EXCEPT !.next = @ + 1, !.gaps = pipe.gaps]
  BY <1>3, <1>6 DEF Pipes
<1>9. Piped(p) /\ SamePipe(pipe, p)
  BY <1>6, <1>8, NextSpent
<1>10. Spooled(sp) /\ sp.cursor = spool.cursor
  BY <1>4, <1>7, KeepFacts
<1>11. used' \in Usage /\ used'.stale = used.stale
  BY <1>1, <1>6, <1>7, SpooledMore
<1>12. Believes(disk, p, sp)
  BY <1>6, <1>9, <1>10 DEF Believes, SamePipe
<1>13. link' \in Links
  BY <1>1, <1>6
<1> QED BY <1>1, <1>5, <1>6, <1>9, <1>10, <1>11, <1>12, <1>13, PumpStep

LEMMA WriteDirectKeeps ==
  ASSUME LogInv, WriteDirect
  PROVE  LogInv'
<1>1. /\ CanWrite /\ used' = [used EXCEPT !.spooled = @ \cup {pipe.next}] /\ UNCHANGED <<link, conns, disk, writer>>
      /\ pipe' = [OnRoute(pipe, link) EXCEPT !.next = @ + 1, !.sending = pipe.next]
      /\ spool' = Keep(spool, pipe.next, FALSE)
  BY DEF WriteDirect
<1>2. /\ Piped(pipe) /\ pipe \in Pipes /\ link \in Links /\ conns \in [Conn -> Threads] /\ used \in Usage
      /\ TellsTruth(disk, conns) /\ Believes(disk, pipe, spool)
  BY WorkerFacts
<1>3. pipe.next \in Frames
  BY <1>1, NextFrame
<1>4. Spooled(spool') /\ spool'.cursor = spool.cursor
  BY <1>1, <1>3, KeepFacts
<1>5. PICK q : q = OnRoute(pipe, link)
  OBVIOUS
<1>6. Piped(q) /\ SamePipe(pipe, q)
  BY <1>2, <1>5, OnRouteFacts
<1>7. PICK r : r = [q EXCEPT !.next = @ + 1, !.gaps = q.gaps]
  OBVIOUS
<1>8. Piped(r) /\ SamePipe(q, r)
  BY <1>6, <1>7, NextSpent
<1>9. PICK s : s = pipe.next
  OBVIOUS
<1>10. pipe' = [r EXCEPT !.sending = s]
  <2>1. pipe' = [q EXCEPT !.next = @ + 1, !.sending = s]
    BY <1>1, <1>5, <1>9
  <2>2. q \in Pipes
    BY <1>6 DEF Piped
  <2> QED BY <2>1, <2>2, <1>7 DEF Pipes
<1>11. s \in 0 .. MaxSeq /\ r \in Pipes
  BY <1>3, <1>8, <1>9, LogBounds DEF Frames, Piped
<1>12. pipe' \in Pipes
  BY <1>10, <1>11 DEF Pipes
<1>13. pipe'.next = r.next /\ pipe'.gaps = r.gaps /\ SamePipe(r, pipe')
  BY <1>10, <1>11 DEF Pipes, SamePipe
<1>14. Piped(pipe')
  BY <1>8, <1>12, <1>13 DEF Piped, Numbered
<1>15. Believes(disk, pipe', spool')
  BY <1>2, <1>4, <1>6, <1>8, <1>13 DEF Believes, SamePipe
<1>16. used' \in Usage /\ used'.stale = used.stale
  BY <1>1, <1>2, <1>3, SpooledMore
<1>17. link' \in Links /\ conns' \in [Conn -> Threads] /\ TellsTruth(disk, conns')
  BY <1>1, <1>2
<1> QED BY <1>1, <1>4, <1>14, <1>15, <1>16, <1>17, WorkerStep

LEMMA WriteRefusedKeeps ==
  ASSUME LogInv, WriteRefused
  PROVE  LogInv'
<1>1. /\ CanWrite /\ UNCHANGED <<link, disk, writer>> /\ (UNCHANGED used \/ Spent)
  BY DEF WriteRefused
<1>2. /\ Piped(pipe) /\ pipe \in Pipes /\ link \in Links /\ conns \in [Conn -> Threads] /\ used \in Usage
      /\ TellsTruth(disk, conns) /\ Believes(disk, pipe, spool) /\ Spooled(spool) /\ spool \in Spools
  BY WorkerFacts
<1>3. PICK p : p = [pipe EXCEPT !.next = @ + 1, !.gaps = @ \cup {pipe.next}]
  OBVIOUS
<1>4. PICK G : G = pipe.gaps \cup {pipe.next}
  OBVIOUS
<1>5. p = [pipe EXCEPT !.next = @ + 1, !.gaps = G]
  BY <1>3, <1>4
<1>6. Piped(p) /\ SamePipe(pipe, p)
  BY <1>2, <1>4, <1>5, NextSpent
<1>7. PICK sp : sp = DeclaredGap(spool, pipe.gaps, pipe.next)
  OBVIOUS
<1>8. Pump(p, sp, conns, link)
  BY <1>3, <1>7 DEF WriteRefused
<1>9. Spooled(sp) /\ sp.cursor = spool.cursor
  <2>1. CASE sp = spool
    BY <1>2, <2>1
  <2>2. CASE sp # spool
    <3>1. PICK n \in Nat : n = pipe.next
      BY <1>2, PipeFacts
    <3>2. sp = [spool EXCEPT !.declared = n]
      BY <2>2, <1>7, <3>1 DEF DeclaredGap
    <3>3. sp \in Spools /\ sp.cursor = spool.cursor /\ sp.end = spool.end
      BY <1>2, <3>2 DEF Spools
    <3> QED BY <1>2, <3>3 DEF Spooled, EndSound
  <2> QED BY <2>1, <2>2
<1>10. used' \in Usage /\ used'.stale = used.stale
  BY <1>1, <1>2, SpentFacts
<1>11. Believes(disk, p, sp) /\ link' \in Links
  BY <1>1, <1>2, <1>6, <1>9 DEF Believes, SamePipe
<1> QED BY <1>1, <1>2, <1>6, <1>8, <1>9, <1>10, <1>11, PumpStep

LEMMA CompleteKeeps ==
  ASSUME LogInv, Complete
  PROVE  LogInv'
<1>1. UNCHANGED <<link, disk, writer, used>>
  BY DEF Complete
<1>2. /\ Piped(pipe) /\ pipe \in Pipes /\ link \in Links /\ conns \in [Conn -> Threads] /\ used \in Usage
      /\ TellsTruth(disk, conns) /\ Believes(disk, pipe, spool) /\ Spooled(spool)
  BY WorkerFacts
<1>3. PICK t : t = TRUE
  OBVIOUS
<1>4. PICK p : p = [pipe EXCEPT !.ended = t]
  OBVIOUS
<1>5. t \in Flag
  BY <1>3, Flags
<1>6. p \in Pipes
  BY <1>2, <1>4, <1>5 DEF Pipes
<1>7. p.next = pipe.next /\ p.gaps = pipe.gaps /\ SamePipe(pipe, p)
  BY <1>2, <1>4 DEF Pipes, SamePipe
<1>8. Piped(p)
  BY <1>2, <1>6, <1>7 DEF Piped, Numbered
<1>9. PICK sp : sp = PersistEnd(pipe, spool)
  OBVIOUS
<1>10. Spooled(sp) /\ sp.cursor = spool.cursor
  BY <1>2, <1>9, PersistEndFacts
<1>11. Pump(p, sp, conns, link)
  BY <1>3, <1>4, <1>9 DEF Complete
<1>12. Believes(disk, p, sp) /\ link' \in Links /\ used' \in Usage /\ used'.stale = used.stale
  BY <1>1, <1>2, <1>7, <1>10 DEF Believes, SamePipe
<1> QED BY <1>1, <1>2, <1>8, <1>10, <1>11, <1>12, PumpStep

LEMMA WakeKeeps ==
  ASSUME LogInv, Wake
  PROVE  LogInv'
<1>1. UNCHANGED <<link, disk, writer, used>> /\ Pump(pipe, spool, conns, link)
  BY DEF Wake
<1>2. /\ Piped(pipe) /\ link \in Links /\ conns \in [Conn -> Threads] /\ used \in Usage
      /\ TellsTruth(disk, conns) /\ Believes(disk, pipe, spool) /\ Spooled(spool)
  BY WorkerFacts
<1>3. link' \in Links /\ used' \in Usage /\ used'.stale = used.stale
  BY <1>1, <1>2
<1> QED BY <1>1, <1>2, <1>3, PumpStep

LEMMA NoFrames == \E nil \in Seq(Frames) : nil = <<>>
<1>1. PICK nil : nil = <<>>
  OBVIOUS
<1>2. nil \in Seq(Frames)
  BY <1>1
<1> QED BY <1>1, <1>2

LEMMA SameNumbers ==
  ASSUME NEW p, Piped(p), NEW q \in Pipes, q.next = p.next, q.gaps = p.gaps
  PROVE  Piped(q)
BY DEF Piped, Numbered

(* A frame is sent: the counters move, and the message is on its way.      *)
LEMMA FrameSent ==
  ASSUME LogInv, NEW s \in Frames, NEW b \in Seq(Frames), NEW n \in Nat, NEW p, NEW cs,
         p = [pipe EXCEPT !.sending = 0, !.sent = s, !.read = n, !.batch = b], cs = Send(conns, link, Log(s))
  PROVE  /\ Piped(p) /\ SamePipe(pipe, p) /\ Believes(disk, p, spool)
         /\ cs \in [Conn -> Threads] /\ TellsTruth(disk, cs)
<1>1. /\ Piped(pipe) /\ pipe \in Pipes /\ conns \in [Conn -> Threads]
      /\ TellsTruth(disk, conns) /\ Believes(disk, pipe, spool)
  BY WorkerFacts
<1>2. 0 \in 0 .. MaxSeq /\ s \in Nat
  BY LogBounds DEF Frames
<1>3. p \in Pipes
  BY <1>1, <1>2 DEF Pipes
<1>4. p.next = pipe.next /\ p.gaps = pipe.gaps /\ SamePipe(pipe, p)
  BY <1>1 DEF Pipes, SamePipe
<1>5. Piped(p)
  BY <1>1, <1>3, <1>4, SameNumbers
<1>6. PICK m : m = Log(s)
  OBVIOUS
<1>7. m \in UpLog
  BY <1>6 DEF Log, UpLog
<1>8. cs \in [Conn -> Threads] /\ TellsTruth(disk, cs)
  BY <1>1, <1>6, <1>7, Sends
<1> QED BY <1>1, <1>4, <1>5, <1>8 DEF Believes, SamePipe

(* A call fails: the pipe has no reporter.                                 *)
LEMMA CallFails ==
  ASSUME LogInv, UNCHANGED <<spool, link, conns, disk, writer, used>>,
         NEW b \in Seq(Frames), pipe' = [pipe EXCEPT !.sending = 0, !.batch = b, !.reporter = FALSE]
  PROVE  LogInv'
<1>1. /\ Piped(pipe) /\ pipe \in Pipes /\ link \in Links /\ conns \in [Conn -> Threads] /\ used \in Usage
      /\ TellsTruth(disk, conns) /\ Believes(disk, pipe, spool) /\ Spooled(spool)
  BY WorkerFacts
<1>2. PICK f \in Flag : f = FALSE
  BY Flags
<1>3. pipe' = [pipe EXCEPT !.sending = 0, !.batch = b, !.reporter = f] /\ 0 \in 0 .. MaxSeq
  <2>1. 0 \in 0 .. MaxSeq
    BY LogBounds
  <2> QED BY <1>2, <2>1
<1>4. pipe' \in Pipes
  BY <1>1, <1>3 DEF Pipes
<1>5. pipe'.next = pipe.next /\ pipe'.gaps = pipe.gaps /\ SamePipe(pipe, pipe')
  BY <1>1, <1>3 DEF Pipes, SamePipe
<1>6. Piped(pipe')
  BY <1>1, <1>4, <1>5, SameNumbers
<1>7. Believes(disk, pipe', spool')
  BY <1>1, <1>5 DEF Believes, SamePipe
<1> QED BY <1>1, <1>6, <1>7, WorkerStep

LEMMA SendDirectKeeps ==
  ASSUME LogInv, SendDirect
  PROVE  LogInv'
<1>1. UNCHANGED <<link, disk, writer, used>> /\ pipe.sending # 0
  BY DEF SendDirect
<1>2. pipe \in Pipes /\ link \in Links /\ used \in Usage /\ Spooled(spool) /\ pipe.batch \in Seq(Frames)
  BY WorkerFacts, PipeFacts
<1>3. link' \in Links /\ used' \in Usage /\ used'.stale = used.stale
  BY <1>1, <1>2
<1>4. PICK s : s = pipe.sending
  OBVIOUS
<1>5. s \in Frames /\ s \in Nat
  BY <1>1, <1>2, <1>4, PipeFacts, LogBounds DEF Frames
<1>6. PICK p : p = [pipe EXCEPT !.sending = 0, !.sent = s, !.read = s]
  OBVIOUS
<1>7. PICK cs : cs = Send(conns, link, Log(s))
  OBVIOUS
<1>8. \/ Pump(p, spool, cs, link)
      \/ pipe' = [pipe EXCEPT !.sending = 0, !.reporter = FALSE] /\ UNCHANGED <<spool, conns>>
  BY <1>4, <1>6, <1>7 DEF SendDirect
<1>9. PICK b \in Seq(Frames) : b = pipe.batch
  BY <1>2
<1>10. CASE Pump(p, spool, cs, link)
  <2>1. p = [pipe EXCEPT !.sending = 0, !.sent = s, !.read = s, !.batch = b]
    BY <1>2, <1>6, <1>9 DEF Pipes
  <2>2. Piped(p) /\ Believes(disk, p, spool) /\ cs \in [Conn -> Threads] /\ TellsTruth(disk, cs)
    BY <1>5, <1>7, <2>1, FrameSent
  <2> QED BY <1>1, <1>2, <1>3, <1>10, <2>2, PumpStep
<1>11. CASE pipe' = [pipe EXCEPT !.sending = 0, !.reporter = FALSE] /\ UNCHANGED <<spool, conns>>
  <2>1. pipe' = [pipe EXCEPT !.sending = 0, !.batch = b, !.reporter = FALSE]
    BY <1>2, <1>9, <1>11 DEF Pipes
  <2> QED BY <1>1, <1>11, <2>1, CallFails
<1> QED BY <1>8, <1>10, <1>11

(* The rest of a batch is frames too, and none is being sent while there   *)
(* is one.                                                                 *)
LEMMA SendBatchKeeps ==
  ASSUME LogInv, SendBatch
  PROVE  LogInv'
<1>1. UNCHANGED <<link, disk, writer, used>> /\ pipe.batch # <<>>
  BY DEF SendBatch
<1>2. /\ Piped(pipe) /\ pipe \in Pipes /\ link \in Links /\ used \in Usage /\ Spooled(spool)
      /\ conns \in [Conn -> Threads] /\ TellsTruth(disk, conns) /\ Believes(disk, pipe, spool)
      /\ pipe.batch \in Seq(Frames) /\ pipe.sending \in 0 .. MaxSeq /\ pipe.read \in Nat
  BY WorkerFacts, PipeFacts
<1>3. link' \in Links /\ used' \in Usage /\ used'.stale = used.stale
  BY <1>1, <1>2
<1>4. PICK s \in Frames : s = Head(pipe.batch)
  BY <1>1, <1>2
<1>5. PICK b \in Seq(Frames) : b = Tail(pipe.batch)
  <2>1. \A q \in Seq(Frames) : q # <<>> => Tail(q) \in Seq(Frames)
    OBVIOUS
  <2>2. Tail(pipe.batch) \in Seq(Frames)
    BY <1>1, <1>2, <2>1
  <2> QED BY <2>2
<1>6. PICK nil \in Seq(Frames) : nil = <<>>
  BY NoFrames
<1>7. PICK p : p = [pipe EXCEPT !.sent = s, !.batch = b]
  OBVIOUS
<1>8. PICK r : r = [p EXCEPT !.batch = nil]
  OBVIOUS
<1>9. PICK cs : cs = Send(conns, link, Log(s))
  OBVIOUS
<1>10. p \in Pipes /\ r \in Pipes
  <2>1. s \in Nat
    BY LogBounds DEF Frames
  <2>2. p \in Pipes
    BY <1>2, <1>7, <2>1 DEF Pipes
  <2>3. r \in Pipes
    BY <1>8, <2>2 DEF Pipes
  <2> QED BY <2>2, <2>3
<1>11. p.next = pipe.next /\ p.gaps = pipe.gaps /\ SamePipe(pipe, p)
  BY <1>2, <1>7 DEF Pipes, SamePipe
<1>12. r.next = pipe.next /\ r.gaps = pipe.gaps /\ SamePipe(pipe, r)
  BY <1>8, <1>10, <1>11 DEF Pipes, SamePipe
<1>13. Piped(p) /\ Piped(r) /\ Believes(disk, p, spool) /\ Believes(disk, r, spool)
  <2>1. Piped(p) /\ Piped(r)
    BY <1>2, <1>10, <1>11, <1>12, SameNumbers
  <2>2. Believes(disk, p, spool) /\ Believes(disk, r, spool)
    BY <1>2, <1>11, <1>12 DEF Believes, SamePipe
  <2> QED BY <2>1, <2>2
<1>14. cs \in [Conn -> Threads] /\ TellsTruth(disk, cs)
  <2>1. PICK m : m = Log(s)
    OBVIOUS
  <2>2. m \in UpLog
    BY <2>1 DEF Log, UpLog
  <2> QED BY <1>2, <1>9, <2>1, <2>2, Sends
<1>15. \/ pipe' = [pipe EXCEPT !.batch = nil, !.reporter = FALSE] /\ UNCHANGED <<spool, conns>>
       \/ (pipe' = p \/ pipe' = r) /\ conns' = cs /\ UNCHANGED spool
       \/ PumpEnd(p, spool, cs, link)
  BY <1>4, <1>5, <1>6, <1>7, <1>8, <1>9 DEF SendBatch
<1>16. CASE pipe' = [pipe EXCEPT !.batch = nil, !.reporter = FALSE] /\ UNCHANGED <<spool, conns>>
  <2>1. PICK f \in Flag : f = FALSE
    BY Flags
  <2>2. pipe' = [pipe EXCEPT !.batch = nil, !.reporter = f]
    BY <1>16, <2>1
  <2>3. pipe' \in Pipes
    BY <1>2, <2>2 DEF Pipes
  <2>4. pipe'.next = pipe.next /\ pipe'.gaps = pipe.gaps /\ SamePipe(pipe, pipe')
    BY <1>2, <2>2 DEF Pipes, SamePipe
  <2>5. Piped(pipe')
    BY <1>2, <2>3, <2>4, SameNumbers
  <2>6. Believes(disk, pipe', spool')
    BY <1>2, <1>16, <2>4 DEF Believes, SamePipe
  <2> QED BY <1>1, <1>2, <1>3, <1>16, <2>5, <2>6, WorkerStep
<1>17. CASE (pipe' = p \/ pipe' = r) /\ conns' = cs /\ UNCHANGED spool
  <2>1. Piped(pipe') /\ Believes(disk, pipe', spool')
    BY <1>13, <1>17
  <2> QED BY <1>1, <1>2, <1>3, <1>14, <1>17, <2>1, WorkerStep
<1>18. CASE PumpEnd(p, spool, cs, link)
  <2>1. Leaves(p, spool, disk)
    BY <1>2, <1>13, <1>14, <1>18, PumpEnds
  <2> QED BY <1>1, <1>3, <1>13, <2>1, LeavesStep
<1> QED BY <1>15, <1>16, <1>17, <1>18

(* The empty spool.                                                        *)
LEMMA DeliveredKeeps ==
  ASSUME LogInv, Delivered
  PROVE  LogInv'
<1>1. UNCHANGED <<link, conns, disk, writer, used>> /\ pipe.endAcked
  BY DEF Delivered, EndIsSafe
<1>2. /\ Piped(pipe) /\ pipe \in Pipes /\ link \in Links /\ conns \in [Conn -> Threads] /\ used \in Usage
      /\ TellsTruth(disk, conns) /\ Believes(disk, pipe, spool) /\ spool \in Spools
  BY WorkerFacts
<1>3. PICK f : f = FALSE
  OBVIOUS
<1>4. f \in Flag
  BY <1>3, Flags
<1>5. pipe' = [pipe EXCEPT !.mode = "delivered", !.reporter = f]
  BY <1>3 DEF Delivered
<1>6. pipe' \in Pipes
  BY <1>2, <1>4, <1>5 DEF Pipes
<1>7. pipe'.next = pipe.next /\ pipe'.gaps = pipe.gaps /\ pipe'.acked = pipe.acked
  BY <1>2, <1>5 DEF Pipes
<1>8. Piped(pipe')
  BY <1>2, <1>6, <1>7, SameNumbers
<1>9. PICK ne : ne = NoEnd
  OBVIOUS
<1>10. PICK es : es = <<>>
  OBVIOUS
<1>11. ne \in Ends /\ es \in Seq(Frames)
  BY <1>9, <1>10, NoEndFacts
<1>12. spool' = [spool EXCEPT !.frames = es, !.synced = 0, !.cursor = 0, !.declared = 0, !.end = ne]
  BY <1>9, <1>10 DEF Delivered
<1>13. spool' \in Spools /\ spool'.cursor = 0 /\ spool'.end = ne
  BY <1>2, <1>11, <1>12 DEF Spools
<1>14. Spooled(spool')
  BY <1>9, <1>13 DEF Spooled, EndSound
<1>15. Believes(disk, pipe', spool')
  BY <1>1, <1>2, <1>7, <1>13 DEF Believes, Reached
<1> QED BY <1>1, <1>2, <1>8, <1>14, <1>15, WorkerStep

LEMMA GiveUpKeeps ==
  ASSUME LogInv, GiveUp
  PROVE  LogInv'
<1>1. UNCHANGED <<spool, link, conns, disk, writer, used>>
  BY DEF GiveUp
<1>2. /\ Piped(pipe) /\ pipe \in Pipes /\ link \in Links /\ conns \in [Conn -> Threads] /\ used \in Usage
      /\ TellsTruth(disk, conns) /\ Believes(disk, pipe, spool) /\ Spooled(spool)
  BY WorkerFacts
<1>3. PICK f : f = FALSE
  OBVIOUS
<1>4. f \in Flag
  BY <1>3, Flags
<1>5. pipe' = [pipe EXCEPT !.mode = "gaveup", !.reporter = f]
  BY <1>3 DEF GiveUp
<1>6. pipe' \in Pipes
  BY <1>2, <1>4, <1>5 DEF Pipes
<1>7. pipe'.next = pipe.next /\ pipe'.gaps = pipe.gaps /\ pipe'.acked = pipe.acked /\ pipe'.endAcked = pipe.endAcked
      /\ pipe'.mode # "delivered"
  BY <1>2, <1>5 DEF Pipes
<1>8. Piped(pipe')
  BY <1>2, <1>6, <1>7, SameNumbers
<1>9. Believes(disk, pipe', spool')
  BY <1>1, <1>2, <1>7 DEF Believes
<1> QED BY <1>1, <1>2, <1>8, <1>9, WorkerStep

(* The pipe's mode moves to one that claims nothing.                       *)
LEMMA ModeMoves ==
  ASSUME LogInv, NEW md \in {"due", "orphaned", "leftover"}, NEW p, p = [pipe EXCEPT !.mode = md]
  PROVE  Piped(p) /\ Believes(disk, p, spool) /\ p.reporter = pipe.reporter /\ p.batch = pipe.batch
<1>1. Piped(pipe) /\ pipe \in Pipes /\ Believes(disk, pipe, spool)
  BY WorkerFacts
<1>2. p \in Pipes
  BY <1>1 DEF Pipes
<1>3. p.next = pipe.next /\ p.gaps = pipe.gaps /\ p.acked = pipe.acked /\ p.endAcked = pipe.endAcked
      /\ p.mode # "delivered" /\ p.reporter = pipe.reporter /\ p.batch = pipe.batch
  BY <1>1 DEF Pipes
<1>4. Piped(p)
  BY <1>1, <1>2, <1>3, SameNumbers
<1> QED BY <1>1, <1>3, <1>4 DEF Believes

LEMMA GiveBackKeeps ==
  ASSUME LogInv, GiveBack
  PROVE  LogInv'
<1>1. UNCHANGED <<spool, link, conns, disk, writer, used>> /\ pipe' = [pipe EXCEPT !.mode = "leftover"]
  BY DEF GiveBack
<1>2. /\ link \in Links /\ conns \in [Conn -> Threads] /\ used \in Usage
      /\ TellsTruth(disk, conns) /\ Spooled(spool)
  BY WorkerFacts
<1>3. Piped(pipe') /\ Believes(disk, pipe', spool)
  BY <1>1, ModeMoves
<1> QED BY <1>1, <1>2, <1>3, WorkerStep

(* Reopening the spool: the next number follows everything stored,         *)
(* acknowledged or declared.                                               *)
LEMMA ReopenedFacts ==
  ASSUME LogInv
  PROVE  /\ ReopenedNext \in Nat /\ ReopenedNext # 0 /\ ReopenedGaps \in SUBSET Nat
         /\ \A g \in ReopenedGaps : g < ReopenedNext
<1>1. spool \in Spools /\ EndSound(spool) /\ spool.cursor \in Nat /\ spool.declared \in Nat /\ spool.end \in Ends
  BY WorkerFacts, SpoolFacts DEF Spooled
<1>2. CASE spool.end # NoEnd
  <2>1. spool.end.last \in Nat /\ spool.end.gaps \subseteq Nat
    BY <1>1, <1>2, NoEndFacts
  <2>2. ReopenedNext = spool.end.last + 1 /\ ReopenedGaps = spool.end.gaps
    BY <1>2 DEF ReopenedNext, ReopenedGaps
  <2>3. \A g \in spool.end.gaps : g \in Nat /\ g <= spool.end.last
    BY <1>1, <1>2, <2>1 DEF EndSound
  <2> QED BY <2>1, <2>2, <2>3
<1>3. CASE spool.end = NoEnd
  <2>1. PICK a \in Nat : a = LastStored(spool)
    BY <1>1, LastStoredFacts
  <2>2. PICK b \in Nat : b = spool.cursor
    BY <1>1
  <2>3. PICK c \in Nat : c = spool.declared
    BY <1>1
  <2>4. Max({a, b}) \in {a, b} /\ a <= Max({a, b}) /\ b <= Max({a, b})
    BY HigherOf
  <2>5. PICK x \in Nat : x = Max({a, b})
    BY <2>4
  <2>6. {a, b, c} \in SUBSET (0 .. a + b + c) /\ {a, b, c} # {} /\ a + b + c \in Nat
    OBVIOUS
  <2>7. Max({a, b, c}) \in {a, b, c} /\ \A y \in {a, b, c} : y <= Max({a, b, c})
    BY <2>6, TopNatural
  <2>8. PICK n \in Nat : n = Max({a, b, c})
    BY <2>7
  <2>9. a <= n /\ b <= n /\ c <= n
    BY <2>7, <2>8
  <2>10. ReopenedNext = n + 1
    BY <1>3, <2>1, <2>2, <2>3, <2>8 DEF ReopenedNext
  <2>11. ReopenedGaps = ((1 .. a) \ ToSet(spool.frames)) \cup (x + 1 .. c)
    BY <1>3, <2>1, <2>2, <2>3, <2>5 DEF ReopenedGaps
  <2> QED BY <2>9, <2>10, <2>11
<1> QED BY <1>2, <1>3

(* The pipe of a recovered attempt, as it is pumped the first time.        *)
LEMMA Recovers ==
  ASSUME LogInv, Recover
  PROVE  \E p, sp : /\ Piped(p) /\ p.mode = "recovering" /\ Spooled(sp) /\ Believes(disk, p, sp)
                    /\ Pump(p, sp, conns, link)
<1>2. /\ link \in Links /\ conns \in [Conn -> Threads] /\ used \in Usage
      /\ TellsTruth(disk, conns) /\ Believes(disk, pipe, spool) /\ Spooled(spool) /\ spool \in Spools
  BY WorkerFacts
<1>3. PICK n : n = ReopenedNext
  OBVIOUS
<1>4. PICK G : G = ReopenedGaps
  OBVIOUS
<1>5. n \in Nat /\ n # 0 /\ G \in SUBSET Nat /\ \A g \in G : g < n
  BY <1>3, <1>4, ReopenedFacts
<1>6. PICK a \in Nat : a = spool.cursor
  BY <1>2, SpoolFacts
<1>7. PICK rt \in Routes : rt = Route(link)
  BY <1>2, LinkFacts
<1>8. PICK f : f = FALSE
  OBVIOUS
<1>9. PICK t : t = TRUE
  OBVIOUS
<1>10. PICK ct : ct = (spool.end = NoEnd)
  OBVIOUS
<1>11. f \in Flag /\ t \in Flag
  BY <1>8, <1>9, Flags
<1>12. ct \in Flag
  BY <1>10 DEF Flag
<1>0. PICK nil \in Seq(Frames) : nil = <<>>
  BY NoFrames
<1>13. PICK p : p = [mode |-> "recovering", next |-> n, gaps |-> G, acked |-> a, sent |-> a, read |-> a,
                     sending |-> 0, batch |-> nil, route |-> rt, reporter |-> t, refused |-> f, cut |-> ct, ended |-> t,
                     endSent |-> f, endAcked |-> f]
  OBVIOUS
<1>14. 0 \in 0 .. MaxSeq
  BY LogBounds
<1>15. p \in Pipes
  BY <1>5, <1>11, <1>12, <1>13, <1>14 DEF Pipes
<1>16. p.next = n /\ p.gaps = G /\ p.acked = a /\ p.endAcked = f /\ p.mode = "recovering"
  BY <1>13
<1>17. Piped(p)
  BY <1>5, <1>15, <1>16 DEF Piped, Numbered
<1>18. PICK k \in Nat : k = Len(spool.frames)
  BY <1>2, SpoolFacts
<1>19. PICK sp : sp = [spool EXCEPT !.synced = k]
  OBVIOUS
<1>20. sp \in Spools /\ sp.cursor = spool.cursor /\ sp.end = spool.end
  BY <1>2, <1>19 DEF Spools
<1>21. Spooled(sp)
  BY <1>2, <1>20 DEF Spooled, EndSound
<1>22. Pump(p, sp, conns, link)
  BY <1>0, <1>3, <1>4, <1>6, <1>7, <1>8, <1>9, <1>10, <1>13, <1>18, <1>19 DEF Recover
<1>23. Believes(disk, p, sp)
  BY <1>2, <1>6, <1>8, <1>16, <1>20 DEF Believes
<1> QED BY <1>16, <1>17, <1>21, <1>22, <1>23

LEMMA RecoverKeeps ==
  ASSUME LogInv, Recover
  PROVE  LogInv'
<1>1. UNCHANGED <<link, disk, writer, used>>
  BY DEF Recover
<1>2. link \in Links /\ conns \in [Conn -> Threads] /\ used \in Usage /\ TellsTruth(disk, conns)
  BY WorkerFacts
<1>3. PICK p, sp : Piped(p) /\ Spooled(sp) /\ Believes(disk, p, sp) /\ Pump(p, sp, conns, link)
  BY Recovers
<1>4. link' \in Links /\ used' \in Usage /\ used'.stale = used.stale
  BY <1>1, <1>2
<1> QED BY <1>1, <1>2, <1>3, <1>4, PumpStep

LEMMA ClosedFacts ==
  ASSUME link \in Links
  PROVE  Closed \in Links /\ Closed.next = link.next
<1>1. PICK t : t = TRUE
  OBVIOUS
<1>2. t \in Flag
  BY <1>1, Flags
<1>3. Closed = [link EXCEPT !.ctrl = 0, !.bulk = 0, !.attached = 0, !.detached = 0, !.told = t]
  BY <1>1 DEF Closed
<1>4. Closed \in Links
  BY <1>2, <1>3 DEF Links
<1>5. Closed.next = link.next
  BY <1>3 DEF Links
<1> QED BY <1>4, <1>5

(* A connection is opened.                                                 *)
LEMMA GoesLive ==
  ASSUME NEW cs \in [Conn -> Threads], NEW d, TellsTruth(d, cs), NEW c, NEW ds, ds = [cs EXCEPT ![c].live = TRUE]
  PROVE  ds \in [Conn -> Threads] /\ TellsTruth(d, ds)
<1>1. CASE c \in Conn
  <2>1. PICK f : f = TRUE
    OBVIOUS
  <2>2. f \in Flag
    BY <2>1, Flags
  <2>3. cs[c] \in Threads
    BY <1>1
  <2>4. PICK t : t = [cs[c] EXCEPT !.live = f]
    OBVIOUS
  <2>5. t \in Threads
    BY <2>2, <2>3, <2>4 DEF Threads
  <2>6. t.through = cs[c].through /\ t.down = cs[c].down
    BY <2>3, <2>4 DEF Threads
  <2>7. ds = [cs EXCEPT ![c] = t] /\ Grows(d, d)
    BY <2>1, <2>4 DEF Grows, Keeps
  <2>8. Stored(d, t.through) /\ \A i \in DOMAIN t.down : Answer(d, t.down[i])
    BY <1>1, <2>6 DEF TellsTruth
  <2> QED BY <1>1, <2>5, <2>7, <2>8, OneThread
<1>2. CASE c \notin Conn
  <2>1. ds = cs
    BY <1>2
  <2> QED BY <2>1
<1> QED BY <1>1, <1>2

LEMMA ReattachedFacts ==
  ASSUME LogInv, NEW l \in Links, NEW q, q = Reattached(l)
  PROVE  Piped(q) /\ SamePipe(pipe, q)
<1>1. Piped(pipe) /\ pipe \in Pipes
  BY WorkerFacts
<1>2. PICK f : f = FALSE
  OBVIOUS
<1>3. PICK t : t = TRUE
  OBVIOUS
<1>4. PICK es : es = (pipe.endSent /\ pipe.endAcked)
  OBVIOUS
<1>5. f \in Flag /\ t \in Flag /\ es \in Flag
  BY <1>2, <1>3, <1>4 DEF Flag
<1>6. PICK a \in Nat : a = pipe.acked
  BY <1>1, PipeFacts
<1>7. PICK rt \in Routes : rt = Route(l)
  BY LinkFacts
<1>8. q = [pipe EXCEPT !.reporter = t, !.refused = f, !.endSent = es, !.sent = a, !.read = a, !.route = rt]
  BY <1>1, <1>2, <1>3, <1>4, <1>6, <1>7 DEF Reattached, Rewound, Pipes
<1>9. q \in Pipes
  <2>1. PICK r : r = [pipe EXCEPT !.reporter = t, !.refused = f, !.endSent = es]
    OBVIOUS
  <2>2. r \in Pipes
    BY <1>1, <1>5, <2>1 DEF Pipes
  <2>3. q = [r EXCEPT !.sent = a, !.read = a, !.route = rt]
    BY <1>1, <1>8, <2>1 DEF Pipes
  <2> QED BY <2>2, <2>3 DEF Pipes
<1>10. q.next = pipe.next /\ q.gaps = pipe.gaps /\ SamePipe(pipe, q)
  BY <1>1, <1>8 DEF Pipes, SamePipe
<1> QED BY <1>1, <1>9, <1>10, SameNumbers

LEMMA AttachKeeps ==
  ASSUME LogInv, Attach
  PROVE  LogInv'
<1>1. UNCHANGED <<disk, writer, used>> /\ link' = [Closed EXCEPT !.ctrl = link.next, !.next = @ + 1]
  BY DEF Attach
<1>2. /\ Piped(pipe) /\ pipe \in Pipes /\ link \in Links /\ conns \in [Conn -> Threads] /\ used \in Usage
      /\ TellsTruth(disk, conns) /\ Believes(disk, pipe, spool) /\ Spooled(spool)
  BY WorkerFacts
<1>3. PICK n \in Nat : n = link.next
  BY <1>2, LinkFacts
<1>4. PICK k \in Nat : k = n + 1
  OBVIOUS
<1>5. link' \in Links
  <2>1. Closed \in Links /\ Closed.next = n
    BY <1>2, <1>3, ClosedFacts
  <2>2. link' = [Closed EXCEPT !.ctrl = n, !.next = k]
    BY <1>1, <1>3, <1>4, <2>1
  <2> QED BY <2>1, <2>2 DEF Links
<1>6. PICK cs : cs = [conns EXCEPT ![n].live = TRUE]
  OBVIOUS
<1>7. cs \in [Conn -> Threads] /\ TellsTruth(disk, cs)
  BY <1>2, <1>6, GoesLive
<1>8. used' \in Usage /\ used'.stale = used.stale
  BY <1>1, <1>2
<1>9. CASE pipe.mode = "live"
  <2>1. PICK q : q = Reattached(link')
    OBVIOUS
  <2>2. Pump(q, spool, cs, link')
    BY <1>3, <1>6, <1>9, <2>1 DEF Attach
  <2>3. Piped(q) /\ SamePipe(pipe, q)
    BY <1>5, <2>1, ReattachedFacts
  <2>4. Believes(disk, q, spool)
    BY <1>2, <2>3 DEF Believes, SamePipe
  <2> QED BY <1>1, <1>2, <1>5, <1>7, <1>8, <2>2, <2>3, <2>4, PumpStep
<1>10. CASE pipe.mode # "live"
  <2>1. /\ conns' = cs /\ UNCHANGED spool
        /\ pipe' = [pipe EXCEPT !.mode = IF @ = "leftover" THEN "due" ELSE @]
    BY <1>3, <1>6, <1>10 DEF Attach
  <2>2. Piped(pipe') /\ Believes(disk, pipe', spool)
    <3>1. CASE pipe.mode = "leftover"
      <4>1. pipe' = [pipe EXCEPT !.mode = "due"]
        BY <2>1, <3>1
      <4> QED BY <4>1, ModeMoves
    <3>2. CASE pipe.mode # "leftover"
      <4>1. pipe' = pipe
        BY <1>2, <2>1, <3>2 DEF Pipes
      <4> QED BY <1>2, <4>1
    <3> QED BY <3>1, <3>2
  <2> QED BY <1>1, <1>2, <1>5, <1>7, <1>8, <2>1, <2>2, WorkerStep
<1> QED BY <1>9, <1>10

LEMMA DetachKeeps ==
  ASSUME LogInv, Detach
  PROVE  LogInv'
<1>1. /\ UNCHANGED <<spool, conns, disk, writer, used>> /\ link' = Closed
      /\ pipe' = IF pipe.mode \in {"due", "recovering"}
                 THEN [pipe EXCEPT !.mode = "orphaned", !.reporter = FALSE, !.batch = <<>>]
                 ELSE IF Idle THEN [pipe EXCEPT !.reporter = FALSE] ELSE pipe
  BY DEF Detach
<1>2. /\ Piped(pipe) /\ pipe \in Pipes /\ link \in Links /\ conns \in [Conn -> Threads] /\ used \in Usage
      /\ TellsTruth(disk, conns) /\ Believes(disk, pipe, spool) /\ Spooled(spool)
  BY WorkerFacts
<1>3. link' \in Links
  BY <1>1, <1>2, ClosedFacts
<1>4. PICK f \in Flag : f = FALSE
  BY Flags
<1>5. PICK nil \in Seq(Frames) : nil = <<>>
  BY NoFrames
<1>6. Piped(pipe') /\ Believes(disk, pipe', spool)
  <2>1. CASE pipe' = [pipe EXCEPT !.mode = "orphaned", !.reporter = f, !.batch = nil]
    <3>1. pipe' \in Pipes
      BY <1>2, <2>1 DEF Pipes
    <3>2. pipe'.next = pipe.next /\ pipe'.gaps = pipe.gaps /\ pipe'.acked = pipe.acked
          /\ pipe'.endAcked = pipe.endAcked /\ pipe'.mode = "orphaned"
      BY <1>2, <2>1 DEF Pipes
    <3>3. Piped(pipe')
      BY <1>2, <3>1, <3>2, SameNumbers
    <3> QED BY <1>2, <3>2, <3>3 DEF Believes
  <2>2. CASE pipe' = [pipe EXCEPT !.reporter = f]
    <3>1. pipe' \in Pipes
      BY <1>2, <2>2 DEF Pipes
    <3>2. pipe'.next = pipe.next /\ pipe'.gaps = pipe.gaps /\ SamePipe(pipe, pipe')
      BY <1>2, <2>2 DEF Pipes, SamePipe
    <3>3. Piped(pipe')
      BY <1>2, <3>1, <3>2, SameNumbers
    <3> QED BY <1>2, <3>2, <3>3 DEF Believes, SamePipe
  <2>3. CASE pipe' = pipe
    BY <1>2, <2>3
  <2> QED BY <1>1, <1>4, <1>5, <2>1, <2>2, <2>3
<1> QED BY <1>1, <1>2, <1>3, <1>6, WorkerStep

LEMMA AttachBulkKeeps ==
  ASSUME LogInv, AttachBulk
  PROVE  LogInv'
<1>1. /\ UNCHANGED <<spool, pipe, disk, writer, used>> /\ conns' = [conns EXCEPT ![link.next].live = TRUE]
      /\ link' = [link EXCEPT !.bulk = link.next, !.next = @ + 1, !.attached = @ + 1]
  BY DEF AttachBulk
<1>2. /\ Piped(pipe) /\ link \in Links /\ conns \in [Conn -> Threads] /\ used \in Usage
      /\ TellsTruth(disk, conns) /\ Believes(disk, pipe, spool) /\ Spooled(spool)
  BY WorkerFacts
<1>3. link' \in Links
  <2>1. link.next \in Nat /\ link.attached \in Nat
    BY <1>2, LinkFacts
  <2>2. PICK a \in Nat : a = link.next
    BY <2>1
  <2>3. PICK b \in Nat : b = link.next + 1
    BY <2>1
  <2>4. PICK k \in Nat : k = link.attached + 1
    BY <2>1
  <2>5. link' = [link EXCEPT !.bulk = a, !.next = b, !.attached = k]
    BY <1>1, <2>2, <2>3, <2>4
  <2> QED BY <1>2, <2>5 DEF Links
<1>4. PICK n : n = link.next
  OBVIOUS
<1>5. conns' = [conns EXCEPT ![n].live = TRUE]
  BY <1>1, <1>4
<1>6. conns' \in [Conn -> Threads] /\ TellsTruth(disk, conns')
  BY <1>2, <1>5, GoesLive
<1> QED BY <1>1, <1>2, <1>3, <1>6, WorkerStep

LEMMA DetachBulkKeeps ==
  ASSUME LogInv, DetachBulk
  PROVE  LogInv'
<1>1. /\ UNCHANGED <<spool, pipe, conns, disk, writer, used>>
      /\ link' = [link EXCEPT !.bulk = 0, !.detached = @ + 1, !.told = FALSE]
  BY DEF DetachBulk
<1>2. /\ Piped(pipe) /\ link \in Links /\ conns \in [Conn -> Threads] /\ used \in Usage
      /\ TellsTruth(disk, conns) /\ Believes(disk, pipe, spool) /\ Spooled(spool)
  BY WorkerFacts
<1>3. PICK f \in Flag : f = FALSE
  BY Flags
<1>4. PICK n \in Nat : n = link.detached + 1
  BY <1>2, LinkFacts
<1>5. link' = [link EXCEPT !.bulk = 0, !.detached = n, !.told = f]
  BY <1>1, <1>3, <1>4
<1>6. link' \in Links
  BY <1>2, <1>5 DEF Links
<1> QED BY <1>1, <1>2, <1>6, WorkerStep

LEMMA BulkDetachedKeeps ==
  ASSUME LogInv, BulkDetached
  PROVE  LogInv'
<1>1. UNCHANGED <<disk, writer, used>> /\ link' = [link EXCEPT !.told = TRUE]
  BY DEF BulkDetached
<1>2. /\ Piped(pipe) /\ link \in Links /\ conns \in [Conn -> Threads] /\ used \in Usage
      /\ TellsTruth(disk, conns) /\ Believes(disk, pipe, spool) /\ Spooled(spool)
  BY WorkerFacts
<1>3. PICK t \in Flag : t = TRUE
  BY Flags
<1>4. link' = [link EXCEPT !.told = t]
  BY <1>1, <1>3
<1>5. link' \in Links
  BY <1>2, <1>4 DEF Links
<1>6. used' \in Usage /\ used'.stale = used.stale
  BY <1>1, <1>2
<1>7. CASE pipe.mode = "live"
  <2>1. Pump(pipe, spool, conns, link')
    BY <1>7 DEF BulkDetached
  <2> QED BY <1>1, <1>2, <1>5, <1>6, <2>1, PumpStep
<1>8. CASE pipe.mode # "live"
  <2>1. UNCHANGED <<spool, pipe, conns>>
    BY <1>8 DEF BulkDetached
  <2> QED BY <1>1, <1>2, <1>5, <1>6, <2>1, WorkerStep
<1> QED BY <1>7, <1>8

(* A message for the worker is taken.                                      *)
LEMMA Takes ==
  ASSUME NEW cs \in [Conn -> Threads], NEW c \in Conn, cs[c].down # <<>>, NEW d, TellsTruth(d, cs),
         NEW ds, ds = [cs EXCEPT ![c].down = Tail(@)]
  PROVE  /\ ds \in [Conn -> Threads] /\ TellsTruth(d, ds) /\ Head(cs[c].down) \in DownLog
         /\ Answer(d, Head(cs[c].down))
<1>1. cs[c] \in Threads /\ cs[c].down \in Seq(DownLog)
  BY ThreadFacts
<1>2. PICK q : q = cs[c].down
  OBVIOUS
<1>3. PICK u : u = Tail(q)
  OBVIOUS
<1>4. /\ q \in Seq(DownLog) /\ q # <<>> /\ u \in Seq(DownLog) /\ Len(q) \in Nat /\ Len(q) # 0 /\ Len(u) = Len(q) - 1
      /\ DOMAIN q = 1 .. Len(q) /\ DOMAIN u = 1 .. Len(u)
      /\ Head(q) = q[1] /\ (\A i \in 1 .. Len(u) : u[i] = q[i + 1])
  BY <1>1, <1>2, <1>3
<1>5. \A i \in DOMAIN q : Answer(d, q[i])
  BY <1>2 DEF TellsTruth
<1>6. \A i \in DOMAIN u : Answer(d, u[i])
  <2> TAKE i \in DOMAIN u
  <2>1. i + 1 \in DOMAIN q /\ u[i] = q[i + 1]
    BY <1>4
  <2> QED BY <1>5, <2>1
<1>7. 1 \in DOMAIN q /\ q[1] \in DownLog
  BY <1>4
<1>8. PICK t : t = [cs[c] EXCEPT !.down = u]
  OBVIOUS
<1>9. t \in Threads /\ t.through = cs[c].through /\ t.down = u
  BY <1>1, <1>4, <1>8 DEF Threads
<1>10. ds = [cs EXCEPT ![c] = t] /\ Grows(d, d)
  BY <1>2, <1>3, <1>8 DEF Grows, Keeps
<1>11. Stored(d, t.through)
  BY <1>9 DEF TellsTruth
<1>12. \A i \in DOMAIN t.down : Answer(d, t.down[i])
  BY <1>6, <1>9
<1>13. ds \in [Conn -> Threads] /\ TellsTruth(d, ds)
  BY <1>9, <1>10, <1>11, <1>12, OneThread
<1> QED BY <1>2, <1>4, <1>5, <1>7, <1>13

(* An acknowledgement moves the pipe and the cursor to a frame that is     *)
(* synced.                                                                 *)
LEMMA AcknowledgedFacts ==
  ASSUME LogInv, NEW s \in Nat, Reached(disk, s), NEW a, a = Acknowledged(s)
  PROVE  Piped(a.pipe) /\ Spooled(a.spool) /\ Believes(disk, a.pipe, a.spool)
<1>1. /\ Piped(pipe) /\ pipe \in Pipes /\ Believes(disk, pipe, spool) /\ Spooled(spool) /\ spool \in Spools
      /\ pipe.next \in Nat /\ pipe.next # 0
      /\ pipe.gaps \in SUBSET Nat /\ (\A g \in pipe.gaps : g < pipe.next)
  BY WorkerFacts, PipeFacts DEF Piped, Numbered
<1>2. CASE s <= pipe.acked
  BY <1>1, <1>2 DEF Acknowledged
<1>3. CASE ~(s <= pipe.acked)
  <2>1. PICK n : n = IF spool.end = NoEnd THEN Max({pipe.next, s + 1}) ELSE pipe.next
    OBVIOUS
  <2>2. pipe.next \in Int /\ s + 1 \in Int
    BY <1>1
  <2>3. PICK z : z = s + 1
    OBVIOUS
  <2>4. z \in Int /\ z \in Nat
    BY <2>3
  <2>5. Max({pipe.next, z}) \in {pipe.next, z} /\ pipe.next <= Max({pipe.next, z})
    BY <2>2, <2>4, HigherOf
  <2>6. n \in Nat /\ n # 0 /\ pipe.next <= n
    BY <1>1, <2>1, <2>3, <2>4, <2>5
  <2>7. PICK p : p = [pipe EXCEPT !.acked = s, !.next = n]
    OBVIOUS
  <2>8. PICK sp : sp = [spool EXCEPT !.cursor = s]
    OBVIOUS
  <2>9. a.pipe = p /\ a.spool = sp
    BY <1>3, <2>1, <2>7, <2>8 DEF Acknowledged
  <2>10. p \in Pipes
    BY <1>1, <2>6, <2>7 DEF Pipes
  <2>11. p.acked = s /\ p.next = n /\ p.gaps = pipe.gaps /\ p.endAcked = pipe.endAcked /\ p.mode = pipe.mode
    BY <1>1, <2>7 DEF Pipes
  <2>12. sp \in Spools /\ sp.cursor = s /\ sp.end = spool.end
    BY <1>1, <2>8 DEF Spools
  <2>13. \A g \in pipe.gaps : g < n
    BY <1>1, <2>6
  <2>14. Piped(p) /\ Spooled(sp)
    BY <1>1, <2>6, <2>10, <2>11, <2>12, <2>13 DEF Piped, Numbered, Spooled, EndSound
  <2>15. Believes(disk, p, sp)
    BY <1>1, <2>11, <2>12 DEF Believes
  <2> QED BY <2>9, <2>14, <2>15
<1> QED BY <1>2, <1>3

LEMMA HearKeeps ==
  ASSUME LogInv, NEW c \in Conn, Hear(c)
  PROVE  LogInv'
<1>1. conns[c].down # <<>> /\ UNCHANGED <<link, disk, writer, used>>
  BY DEF Hear
<1>2. /\ Piped(pipe) /\ pipe \in Pipes /\ link \in Links /\ conns \in [Conn -> Threads] /\ used \in Usage
      /\ TellsTruth(disk, conns) /\ Believes(disk, pipe, spool) /\ Spooled(spool)
  BY WorkerFacts
<1>3. PICK cs : cs = [conns EXCEPT ![c].down = Tail(@)]
  OBVIOUS
<1>4. PICK m : m = Head(conns[c].down)
  OBVIOUS
<1>5. cs \in [Conn -> Threads] /\ TellsTruth(disk, cs) /\ m \in DownLog /\ Answer(disk, m)
  BY <1>1, <1>2, <1>3, <1>4, Takes
<1>6. link' \in Links /\ used' \in Usage /\ used'.stale = used.stale
  BY <1>1, <1>2
<1>7. CASE pipe.mode \notin {"live", "recovering"}
  <2>1. conns' = cs /\ UNCHANGED <<spool, pipe>>
    BY <1>3, <1>7 DEF Hear
  <2> QED BY <1>1, <1>2, <1>5, <1>6, <2>1, WorkerStep
<1>8. CASE pipe.mode \in {"live", "recovering"}
  <2>1. Take(c, m)
    BY <1>4, <1>8 DEF Hear
  <2>2. PICK a : a = Acknowledged(m.seq)
    OBVIOUS
  <2>3. \/ m.type = "LogAck" /\ Pump(a.pipe, a.spool, cs, link)
        \/ m.type = "LogRefused" /\ pipe' = [pipe EXCEPT !.refused = TRUE] /\ conns' = cs /\ UNCHANGED spool
        \/ m.type = "LogEndAck" /\ pipe' = [pipe EXCEPT !.endAcked = TRUE] /\ conns' = cs /\ UNCHANGED spool
    BY <1>3, <2>1, <2>2 DEF Take
  <2>4. PICK t \in Flag : t = TRUE
    BY Flags
  <2>5. CASE m.type = "LogAck" /\ Pump(a.pipe, a.spool, cs, link)
    <3>1. PICK s \in Nat : s = m.seq
      BY <1>5 DEF DownLog
    <3>2. Reached(disk, s)
      BY <1>5, <2>5, <3>1 DEF Answer
    <3>3. Piped(a.pipe) /\ Spooled(a.spool) /\ Believes(disk, a.pipe, a.spool)
      BY <2>2, <3>1, <3>2, AcknowledgedFacts
    <3> QED BY <1>1, <1>2, <1>5, <1>6, <2>5, <3>3, PumpStep
  <2>6. CASE m.type = "LogRefused" /\ pipe' = [pipe EXCEPT !.refused = TRUE] /\ conns' = cs /\ UNCHANGED spool
    <3>1. pipe' = [pipe EXCEPT !.refused = t]
      BY <2>4, <2>6
    <3>2. pipe' \in Pipes
      BY <1>2, <3>1 DEF Pipes
    <3>3. pipe'.next = pipe.next /\ pipe'.gaps = pipe.gaps /\ SamePipe(pipe, pipe')
      BY <1>2, <3>1 DEF Pipes, SamePipe
    <3>4. Piped(pipe')
      BY <1>2, <3>2, <3>3, SameNumbers
    <3>5. Believes(disk, pipe', spool')
      BY <1>2, <2>6, <3>3 DEF Believes, SamePipe
    <3> QED BY <1>1, <1>2, <1>5, <1>6, <2>6, <3>4, <3>5, WorkerStep
  <2>7. CASE m.type = "LogEndAck" /\ pipe' = [pipe EXCEPT !.endAcked = TRUE] /\ conns' = cs /\ UNCHANGED spool
    <3>1. pipe' = [pipe EXCEPT !.endAcked = t]
      BY <2>4, <2>7
    <3>2. pipe' \in Pipes
      BY <1>2, <3>1 DEF Pipes
    <3>3. pipe'.next = pipe.next /\ pipe'.gaps = pipe.gaps /\ pipe'.acked = pipe.acked
      BY <1>2, <3>1 DEF Pipes
    <3>4. Piped(pipe')
      BY <1>2, <3>2, <3>3, SameNumbers
    <3>5. Finished(disk)
      BY <1>5, <2>7 DEF Answer
    <3>6. Believes(disk, pipe', spool')
      BY <1>2, <2>7, <3>3, <3>5 DEF Believes
    <3> QED BY <1>1, <1>2, <1>5, <1>6, <2>7, <3>4, <3>6, WorkerStep
  <2> QED BY <2>3, <2>5, <2>6, <2>7
<1> QED BY <1>7, <1>8

LEMMA WorkerDiesKeeps ==
  ASSUME LogInv, WorkerDies
  PROVE  LogInv'
<1>1. /\ UNCHANGED <<conns, disk, writer>> /\ Spent /\ link' = Closed
      /\ pipe' = [pipe EXCEPT !.mode = "leftover", !.reporter = FALSE, !.sending = 0, !.batch = <<>>]
  BY DEF WorkerDies
<1>2. /\ Piped(pipe) /\ pipe \in Pipes /\ link \in Links /\ conns \in [Conn -> Threads] /\ used \in Usage
      /\ TellsTruth(disk, conns) /\ Believes(disk, pipe, spool) /\ Spooled(spool) /\ spool \in Spools
  BY WorkerFacts
<1>3. link' \in Links
  BY <1>1, <1>2, ClosedFacts
<1>4. used' \in Usage /\ used'.stale = used.stale
  BY <1>1, <1>2, SpentFacts
<1>5. PICK f \in Flag : f = FALSE
  BY Flags
<1>0. PICK nil \in Seq(Frames) : nil = <<>>
  BY NoFrames
<1>6. pipe' = [pipe EXCEPT !.mode = "leftover", !.reporter = f, !.sending = 0, !.batch = nil] /\ 0 \in 0 .. MaxSeq
  <2>1. pipe' = [pipe EXCEPT !.mode = "leftover", !.reporter = f, !.sending = 0, !.batch = nil]
    BY <1>0, <1>1, <1>5
  <2>2. 0 \in 0 .. MaxSeq
    BY LogBounds
  <2> QED BY <2>1, <2>2
<1>7. pipe' \in Pipes
  BY <1>2, <1>6 DEF Pipes
<1>8. pipe'.next = pipe.next /\ pipe'.gaps = pipe.gaps /\ pipe'.acked = pipe.acked /\ pipe'.endAcked = pipe.endAcked
      /\ pipe'.mode = "leftover"
  BY <1>2, <1>6 DEF Pipes
<1>9. Piped(pipe')
  BY <1>2, <1>7, <1>8, SameNumbers
<1>10. Spooled(spool') /\ Reached(disk, spool'.cursor)
  <2>1. CASE UNCHANGED spool
    BY <1>2, <2>1 DEF Believes
  <2>2. CASE \E kept \in Kept(spool.frames, spool.synced), cur \in {0, spool.cursor} :
                spool' = [spool EXCEPT !.frames = kept, !.synced = Len(kept), !.cursor = cur]
    <3>1. PICK kept \in Kept(spool.frames, spool.synced), cur \in {0, spool.cursor} :
             spool' = [spool EXCEPT !.frames = kept, !.synced = Len(kept), !.cursor = cur]
      BY <2>2
    <3>2. PICK k \in spool.synced .. Len(spool.frames) : kept = SubSeq(spool.frames, 1, k)
      BY DEF Kept
    <3>3. k \in 0 .. Len(spool.frames) /\ k \in Nat
      BY <1>2, <3>2, SpoolFacts
    <3>4. kept \in Seq(Frames) /\ Len(kept) = k
      BY <1>2, <3>2, <3>3, SpoolFacts, Prefix
    <3>5. spool' = [spool EXCEPT !.frames = kept, !.synced = k, !.cursor = cur] /\ cur \in Nat
      BY <1>2, <3>1, <3>4, SpoolFacts
    <3>6. spool' \in Spools /\ spool'.cursor = cur /\ spool'.end = spool.end
      BY <1>2, <3>3, <3>4, <3>5 DEF Spools
    <3>7. Spooled(spool')
      BY <1>2, <3>6 DEF Spooled, EndSound
    <3>8. Reached(disk, cur)
      BY <1>2, <3>1 DEF Believes, Reached
    <3> QED BY <3>6, <3>7, <3>8
  <2> QED BY <2>1, <2>2 DEF WorkerDies
<1>11. Believes(disk, pipe', spool')
  BY <1>2, <1>8, <1>10 DEF Believes
<1> QED BY <1>1, <1>2, <1>3, <1>4, <1>9, <1>10, <1>11, WorkerStep

LEMMA LogQuiet ==
  ASSUME LogInv, UNCHANGED logVars
  PROVE  LogInv'
BY DEF logVars, LogInv, LogTypes, Believes, TellsTruth

LEMMA LogStarts ==
  ASSUME LogInit
  PROVE  LogInv
<1>1. PICK f \in Flag : f = FALSE
  BY Flags
<1>2. PICK t \in Flag : t = TRUE
  BY Flags
<1>3. PICK ne \in Ends : ne = NoEnd
  BY NoEndFacts
<1>4. 0 \in 0 .. MaxSeq /\ {} \in SUBSET Nat /\ {} \in SUBSET Frames
  BY LogBounds
<1>5. PICK Z : Z = {}
  OBVIOUS
<1>6. PICK nil : nil = <<>>
  OBVIOUS
<1>7. nil \in Seq(Frames) /\ nil \in Seq(UpLog) /\ nil \in Seq(DownLog) /\ Len(nil) = 0 /\ DOMAIN nil = {}
  BY <1>6
<1>8. Z \in SUBSET Nat /\ Z \in SUBSET Frames
  BY <1>4, <1>5
<1>9. spool \in Spools /\ spool.end = NoEnd /\ spool.cursor = 0
  <2>1. spool = [frames |-> nil, synced |-> 0, cursor |-> 0, declared |-> 0, end |-> ne]
    BY <1>3, <1>6 DEF LogInit
  <2> QED BY <1>3, <1>7, <2>1 DEF Spools
<1>10. PICK rt \in Routes : rt = [attached |-> 0, detached |-> 0]
  BY DEF Routes
<1>11. pipe \in Pipes
  <2>1. pipe = [mode |-> "live", next |-> 1, gaps |-> Z, acked |-> 0, sent |-> 0, read |-> 0, sending |-> 0,
                batch |-> nil, route |-> rt,
                reporter |-> f, refused |-> f, cut |-> f, ended |-> f, endSent |-> f, endAcked |-> f]
    BY <1>1, <1>5, <1>6, <1>10 DEF LogInit
  <2> QED BY <1>4, <1>7, <1>8, <2>1 DEF Pipes
<1>12. pipe.next = 1 /\ pipe.gaps = {} /\ pipe.acked = 0 /\ pipe.endAcked = FALSE /\ pipe.mode = "live"
  BY DEF LogInit
<1>13. link \in Links
  <2>1. link = [ctrl |-> 0, bulk |-> 0, attached |-> 0, detached |-> 0, told |-> t, next |-> 1]
    BY <1>2 DEF LogInit
  <2> QED BY <2>1 DEF Links
<1>14. conns \in [Conn -> Threads] /\ \A c \in Conn : conns[c].through = 0 /\ conns[c].down = nil
  <2>1. PICK th : th = [live |-> f, up |-> nil, down |-> nil, through |-> 0]
    OBVIOUS
  <2>2. th \in Threads /\ th.through = 0 /\ th.down = nil
    BY <1>7, <2>1 DEF Threads
  <2>3. conns = [c \in Conn |-> th]
    BY <1>1, <1>6, <2>1 DEF LogInit
  <2> QED BY <2>2, <2>3
<1>15. /\ disk \in Disks /\ disk.data = nil /\ disk.synced = 0 /\ disk.sealedAt = 0 /\ disk.sealedSeq = 0
       /\ disk.holes = {} /\ disk.jump = 0 /\ disk.mark = NoEnd
  <2>1. disk = [data |-> nil, synced |-> 0, sealedAt |-> 0, sealedSeq |-> 0, holes |-> Z,
                jump |-> 0, rec |-> ne, mark |-> ne, row |-> "pending"]
    BY <1>3, <1>5, <1>6 DEF LogInit
  <2>2. disk \in Disks
    BY <1>7, <1>8, <2>1 DEF Disks
  <2> QED BY <1>3, <1>5, <2>1, <2>2
<1>16. used \in Usage
  <2>1. used = [faults |-> 0, spooled |-> Z, stale |-> f, torn |-> Z]
    BY <1>1, <1>5 DEF LogInit
  <2> QED BY <1>8, <2>1 DEF Usage
<1>17. writer \in Writers /\ ~writer.open
  BY NoWriterFacts DEF LogInit
<1>18. LogTypes
  BY <1>9, <1>11, <1>12, <1>13, <1>14, <1>15, <1>16, <1>17 DEF LogTypes, EndSound, Numbered
<1>19. Sound(disk)
  BY <1>7, <1>15 DEF Sound, IsInjective
<1>20. Covered(disk)
  BY <1>7, <1>15 DEF Covered
<1>21. Marked(disk)
  BY <1>15 DEF Marked
<1>22. TellsTruth(disk, conns)
  BY <1>7, <1>14 DEF TellsTruth, Stored
<1>23. Believes(disk, pipe, spool)
  BY <1>9, <1>12 DEF Believes, Reached
<1> QED BY <1>17, <1>18, <1>19, <1>20, <1>21, <1>22, <1>23 DEF LogInv

(* Frames that a power cut took from under their seal stay on record.      *)
LEMMA TornStays ==
  ASSUME "torn" \in DOMAIN used, [LogNext]_logVars
  PROVE  "torn" \in DOMAIN used' /\ used.torn \subseteq used'.torn
<1>1. CASE UNCHANGED used
  BY <1>1
<1>2. CASE used' = [used EXCEPT !.spooled = @ \cup {pipe.next}]
  BY <1>2
<1>3. CASE Spent
  BY <1>3 DEF Spent
<1>4. CASE \E kind, left : Down(kind, left)
  <2>1. PICK kind, left : Down(kind, left)
    BY <1>4
  <2>2. PICK d : used' = [used EXCEPT !.faults = @ + 1, !.stale = @ \/ JumpOutlives(d),
                                      !.torn = IF kind = "seal" THEN @ \cup Uncovered(d) ELSE @]
    BY <2>1 DEF Down
  <2>3. used'.torn = (IF kind = "seal" THEN used.torn \cup Uncovered(d) ELSE used.torn) /\ "torn" \in DOMAIN used'
    BY <2>2
  <2> QED BY <2>3
<1>5. CASE Worker
  BY <1>1, <1>2, <1>3, <1>5 DEF Worker, Write, WriteDirect, SendDirect, SendBatch, WriteRefused, Complete, Wake,
     Delivered, GiveUp, GiveBack, Recover, Attach, Detach, AttachBulk, DetachBulk, BulkDetached, Hear, WorkerDies
<1>6. CASE Controller
  <2>1. ASSUME NEW c \in Conn, Serve(c) PROVE UNCHANGED used \/ Spent
    BY <2>1 DEF Serve, StoreFrame, StoreDuplicate, StoreRefuses
  <2>2. ASSUME NEW c \in Conn, Flush(c) \/ Break(c) PROVE UNCHANGED used
    BY <2>2 DEF Flush, Break
  <2>3. CloseWriter => Spent
    BY DEF CloseWriter
  <2>4. StoreDies => \E kind, left : Down(kind, left)
    BY DEF StoreDies
  <2>5. ASSUME NEW c \in Conn, DiesInAppend(c) PROVE \E kind, left : Down(kind, left)
    BY <2>5 DEF DiesInAppend
  <2>6. ASSUME NEW c \in Conn, DiesInSeal(c) PROVE \E kind, left : Down(kind, left)
    BY <2>6 DEF DiesInSeal
  <2>7. ASSUME NEW c \in Conn, DiesInFinish(c) PROVE \E kind, left : Down(kind, left)
    BY <2>7 DEF DiesInFinish
  <2> QED BY <1>1, <1>3, <1>4, <1>6, <2>1, <2>2, <2>3, <2>4, <2>5, <2>6, <2>7 DEF Controller
<1>7. CASE UNCHANGED logVars
  BY <1>1, <1>7 DEF logVars
<1> QED BY <1>5, <1>6, <1>7 DEF LogNext

(* No power cut inside a seal took a frame.                                *)
Intact == used.torn = {}

(* The invariant: whatever breaks, as long as no power cut inside a seal   *)
(* took a frame, what is on the controller's disk is sound, an open writer *)
(* knows what it lacks, and no message or counter claims more than is      *)
(* synced.                                                                 *)
THEOREM LogInvariant == LogSpec => [](Intact => LogInv)
<1> DEFINE Inv == "torn" \in DOMAIN used /\ (Intact => LogInv)
<1>1. LogInit => Inv
  <2>1. LogInit => "torn" \in DOMAIN used
    BY DEF LogInit
  <2> QED BY <2>1, LogStarts
<1>2. Inv /\ [LogNext]_logVars => Inv'
  <2> SUFFICES ASSUME Inv, [LogNext]_logVars PROVE Inv'
    OBVIOUS
  <2>1. "torn" \in DOMAIN used' /\ used.torn \subseteq used'.torn
    BY TornStays
  <2>2. ASSUME used'.torn = {} PROVE LogInv'
    <3>1. LogInv
      BY <2>1, <2>2 DEF Intact
    <3>2. CASE Worker
      BY <3>1, <3>2, WriteKeeps, WriteDirectKeeps, SendDirectKeeps, SendBatchKeeps, WriteRefusedKeeps,
         CompleteKeeps, WakeKeeps, DeliveredKeeps, GiveUpKeeps, GiveBackKeeps, RecoverKeeps, AttachKeeps,
         DetachKeeps, AttachBulkKeeps, DetachBulkKeeps, BulkDetachedKeeps, HearKeeps, WorkerDiesKeeps DEF Worker
    <3>3. CASE Controller
      BY <2>2, <3>1, <3>3, ServeKeeps, FlushKeeps, BreakKeeps, DiesInAppendKeeps, DiesInSealKeeps,
         DiesInFinishKeeps, CloseWriterKeeps, StoreDiesKeeps DEF Controller
    <3>4. CASE UNCHANGED logVars
      BY <3>1, <3>4, LogQuiet
    <3> QED BY <3>2, <3>3, <3>4 DEF LogNext
  <2> QED BY <2>1, <2>2 DEF Intact
<1>3. Inv => (Intact => LogInv)
  OBVIOUS
<1> QED BY <1>1, <1>2, <1>3, PTL DEF LogSpec

(* For any number of frames, connections and faults, as long as no power   *)
(* cut inside a seal took a frame: no frame is stored twice (the duplicate *)
(* test of append_to, against the holes open_attempt folds back).          *)
THEOREM FramesStoredOnce == LogSpec => [](Intact => StoredOnce)
<1>1. LogInv => StoredOnce
  BY DEF LogInv, Sound, StoredOnce
<1> QED BY <1>1, LogInvariant, PTL

(* As long as no power cut inside a seal took a frame, a log that reads as *)
(* complete names every number it lacks (finish, and the repair of an      *)
(* interrupted one in open_attempt).                                       *)
THEOREM NoGapIsSilent == LogSpec => [](Intact => NoSilentGap)
<1>1. LogInv => NoSilentGap
  BY DEF LogInv, Marked, NoSilentGap
<1> QED BY <1>1, LogInvariant, PTL

(* As long as no power cut inside a seal took a frame, the recorded first  *)
(* hole covers every frame that landed late, unless a power cut left the   *)
(* record past all that survived (write_first_hole, first_hole in          *)
(* open_attempt).                                                          *)
THEOREM FirstHoleIsRecorded == LogSpec => [](Intact => JumpRecorded)
<1>1. LogInv => JumpRecorded
  BY DEF LogInv, Covered, JumpRecorded, JumpCovers
<1> QED BY <1>1, LogInvariant, PTL

(* As long as no power cut inside a seal took a frame, the worker's copy   *)
(* outlives the log until the controller's marker and row say it is whole  *)
(* (log_end, log_ended, complete).                                         *)
THEOREM SpoolStaysUntilTheEnd == LogSpec => [](Intact => SpoolOutlivesLog)
<1>1. LogInv => SpoolOutlivesLog
  BY DEF LogInv, Believes, Finished, SpoolOutlivesLog
<1> QED BY <1>1, LogInvariant, PTL

(* As long as no power cut inside a seal took a frame, an acknowledged     *)
(* frame is durable, or a restarted store would know that it is missing    *)
(* (append_to, sync, flush_log_acks, open_attempt).                        *)
THEOREM NoSilentLoss == LogSpec => [](Intact => AckedOrHole)
<1>1. ASSUME LogInv PROVE AckedOrHole
  <2>1. /\ disk \in Disks /\ Sound(disk) /\ used \in Usage /\ pipe \in Pipes /\ pipe.acked \in Nat
        /\ Reached(disk, pipe.acked)
    BY <1>1, InvFacts, WorkerFacts, PipeFacts DEF Believes
  <2>2. PICK k : k = disk.synced
    OBVIOUS
  <2>3. k \in disk.synced .. Len(disk.data) /\ k \in Nat
    BY <2>1, <2>2, DiskFacts DEF Sound
  <2>4. PICK e : e = Durable
    OBVIOUS
  <2>5. e = Cut(disk, k)
    BY <2>1, <2>2, <2>4 DEF Durable, Cut, Disks
  <2>6. /\ e \in Disks /\ Sound(e) /\ Len(e.data) = k
        /\ \A i \in 1 .. k : e.data[i] = disk.data[i]
    BY <2>1, <2>3, <2>5, CutSound
  <2>7. PICK n \in 0 .. MaxSeq : IsTop(e, n)
    BY <2>6, TopExists
  <2>8. Opened(e).writer.holes = (1 .. n) \ ToSet(e.data)
    BY <2>6, <2>7, OpenedExact
  <2>9. ASSUME NEW s \in used.spooled, s <= pipe.acked PROVE s \in ToSet(e.data) \cup Opened(e).writer.holes
    <3>1. s \in Nat /\ s # 0
      BY <2>1, LogBounds DEF Usage, Frames
    <3>2. PICK i \in 1 .. k : pipe.acked <= e.data[i]
      BY <2>1, <2>2, <2>6, <2>9, <3>1 DEF Reached
    <3>3. e.data[i] <= n /\ e.data[i] \in Nat /\ n \in Nat
      BY <2>6, <2>7, <3>2, DiskFacts DEF IsTop
    <3>4. s \in 1 .. n
      BY <2>1, <2>9, <3>1, <3>2, <3>3
    <3> QED BY <2>8, <3>4
  <2> QED BY <2>4, <2>9 DEF AckedOrHole
<1> QED BY <1>1, LogInvariant, PTL
==============================================================================

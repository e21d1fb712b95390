------------------------------- MODULE Supply -------------------------------
(* What the anonymous sends of the outbox are made of: the purse of tickets, *)
(* the pool of prepared onion sockets and the timers that wake pump, in      *)
(* valanium-core/src/client.rs. Outbox leaves this supply open, and here the *)
(* letters are only waiting, flying or gone.                                 *)
(*                                                                           *)
(* pump sleeps until something happens. Whatever it handles ends in          *)
(* flush_anonymous (Refill), which uses what there is and asks for the rest; *)
(* next_anonymous_maintenance (Deadline, Retries) names the times it sleeps until.   *)
EXTENDS Integers, FiniteSets

CONSTANTS
    Note,      \* letters that only an anonymous socket may take
    Heading,   \* the device each is for
    Light,     \* the Ephemeral ones, which hold no other letter back
    Flights,   \* the 4 of flush_anonymous
    LowMark,   \* TICKET_LOW_WATERMARK
    Batch,     \* TICKET_BATCH_SIZE
    PurseMax,  \* the 32 of accept_anonymous_tickets
    PoolSize,  \* ANON_POOL_SIZE
    PoolMax    \* ANON_POOL_MAX

ASSUME SupplyAssumption ==
    /\ {Flights, LowMark, Batch, PurseMax, PoolSize, PoolMax} \subseteq Nat \ {0}
    /\ Flights < LowMark /\ LowMark <= PurseMax /\ PoolSize <= PoolMax
    /\ Light \subseteq Note /\ IsFiniteSet(Note)

VARIABLES
    linked,   \* pump runs on an authenticated connection
    need,     \* live.require_anonymous: a send uses a prepared socket
    box,      \* each letter: "none", "waiting" in the queue, or "flying"
    muted,    \* letters whose device is blocked
    retry,    \* live.anon_retries
    wanted,   \* live.anonymous_queued, as of the last flush
    purse,    \* live.tickets and ticket_request_until
    pool,     \* live.prepared, prewarming and prewarm_retry_at
    boosted,  \* prewarm_boost_until is in the future
    short     \* live.anon_waiting

supplyVars == <<linked, need, box, muted, retry, wanted, purse, pool, boosted, short>>

\* A deadline: not set, in the future, or in the past.
Clock == {"none", "armed", "due"}

NoPurse == [fresh |-> 0, stale |-> FALSE, until |-> "none", asked |-> 0]
NoPool == [good |-> 0, dead |-> 0, old |-> 0, warming |-> 0, aborted |-> 0, pause |-> "none"]

Less(a, b) == IF a < b THEN a ELSE b
AtLeast0(n) == IF n < 0 THEN 0 ELSE n

In(b, s) == {n \in Note : b[n] = s}
Prepared(q) == q.good + q.dead + q.old
Building(q) == q.warming + q.aborted
HasTickets(p) == p.fresh > 0 \/ p.stale

-----------------------------------------------------------------------------
(* Tickets and sockets                                                        *)

\* Expired tickets go. One request at a time, until an answer or its deadline.
Requested(p) ==
    LET ask == p.fresh < LowMark /\ p.until # "armed"
    IN  [p EXCEPT !.stale = FALSE,
                  !.until = IF ask THEN "armed" ELSE @,
                  !.asked = IF ask THEN Less(@ + 1, 2) ELSE @]

Target(boost, s) ==
    LET base == IF boost THEN PoolMax ELSE PoolSize
    IN  Less(IF base < s THEN s ELSE base, PoolMax)

\* Dead, old and cooling sockets go; after a failure nothing is built until
\* the pause is over.
Maintained(q, boost, s) ==
    LET swept == [q EXCEPT !.dead = 0, !.old = 0]
    IN  IF ~need THEN q
        ELSE IF q.pause = "armed" THEN swept
        ELSE [swept EXCEPT !.pause = "none",
                !.warming = @ + AtLeast0(Target(boost, s) - swept.good - Building(swept))]

-----------------------------------------------------------------------------
(* flush_anonymous                                                            *)

\* Letters no send may be started with now, and those that may stand for a device.
Busy(b, r) == In(b, "flying") \union muted' \union {n \in Note : r[n] = "armed"}

Standing(b, r) ==
    {n \in In(b, "waiting") \ Busy(b, r) :
        \A m \in Busy(b, r) : b[m] # "none" /\ Heading[m] = Heading[n] => m \in Light}

\* One letter of each device, as many as there are free slots.
Choices(b, r) ==
    LET free == AtLeast0(Flights - Cardinality(In(b, "flying")))
        S    == Standing(b, r)
    IN  {C \in SUBSET S :
            /\ Cardinality(C) = Less(free, Cardinality({Heading[n] : n \in S}))
            /\ \A n, m \in C : Heading[n] = Heading[m] => n = m}

\* How many of c letters the tickets p and the sockets q suffice for.
Affordable(c, p, q) == Less(Less(c, p.fresh), IF need THEN q.good ELSE c)

\* b, r, p and q: the queue, the retries, the purse and the pool after the
\* event that is being handled.
Refill(b, r, p, q) ==
    LET kept == [n \in Note |-> IF b[n] = "none" THEN "none" ELSE r[n]]
    IN  /\ retry' = kept
        /\ wanted' = (\E n \in Note : b[n] # "none")
        /\ IF ~wanted'
           THEN box' = b /\ purse' = p /\ pool' = q /\ UNCHANGED short
           ELSE LET held  == Requested(p)
                    first == Maintained(q, boosted', short)
                IN  \E C \in Choices(b, kept) :
                    LET n == Affordable(Cardinality(C), held, first)
                    IN  \E S \in SUBSET C :
                        /\ Cardinality(S) = n
                        /\ box' = [k \in Note |-> IF k \in S THEN "flying" ELSE b[k]]
                        /\ purse' = [held EXCEPT !.fresh = @ - n]
                        /\ short' = Cardinality(C) - n
                        /\ pool' = Maintained([first EXCEPT !.good = IF need THEN @ - n ELSE @],
                                              boosted', short')

-----------------------------------------------------------------------------
(* When pump wakes by itself                                                  *)

\* Retries are looked at only where a send could follow them: not those of
\* letters in flight, not without a ticket, a socket where one is needed, a slot.
Retries ==
    IF /\ wanted /\ HasTickets(purse) /\ (need => Prepared(pool) > 0)
       /\ Cardinality(In(box, "flying")) < Flights
    THEN {n \in Note : box[n] # "flying" /\ retry[n] # "none"} ELSE {}

SocketDeadline ==
    IF pool.old > 0 THEN "due" ELSE IF pool.good > 0 THEN "armed" ELSE "none"

\* Bug: the pause after a failed build is not among the deadlines.
Deadline_NoPause ==
    [request |-> IF wanted THEN purse.until ELSE "none", pause |-> "none", socket |-> SocketDeadline]

\* What pump sleeps until beside the retries, for as long as it is armed.
Deadline ==
    [request |-> IF wanted THEN purse.until ELSE "none", pause |-> pool.pause, socket |-> SocketDeadline]

Overdue == (\E k \in DOMAIN Deadline : Deadline[k] = "due") \/ \E n \in Retries : retry[n] = "due"

-----------------------------------------------------------------------------
(* The events pump handles                                                    *)

Same == UNCHANGED <<linked, need, muted, boosted>>

\* A letter is queued, also without a connection.
Enqueue(n) ==
    /\ box[n] = "none" /\ Same
    /\ LET b == [box EXCEPT ![n] = "waiting"]
       IN  IF linked THEN Refill(b, retry, purse, pool)
           ELSE box' = b /\ UNCHANGED <<retry, wanted, purse, pool, short>>

\* It is deleted or its lifetime ends; its task is aborted.
Leave(n) ==
    /\ box[n] # "none" /\ Same
    /\ LET b == [box EXCEPT ![n] = "none"]
       IN  IF linked THEN Refill(b, retry, purse, pool)
           ELSE box' = b /\ UNCHANGED <<retry, wanted, purse, pool, short>>

Mute(n) ==
    /\ linked /\ UNCHANGED <<linked, need, boosted>>
    /\ LET mine == {m \in Note : Heading[m] = Heading[n]}
       IN  muted' = IF n \in muted THEN muted \ mine ELSE muted \union mine
    /\ Refill(box, retry, purse, pool)

\* The person types: sockets and tickets are wanted now.
Typing ==
    /\ linked /\ need /\ boosted' = TRUE /\ UNCHANGED <<linked, need, muted>>
    /\ Refill(box, retry, Requested(purse), Maintained(pool, TRUE, short))

TakeGrant(g) ==
    /\ linked /\ purse.asked > 0 /\ g \in 0 .. Batch /\ Same
    /\ Refill(box, retry,
              [fresh |-> Less(purse.fresh + g, PurseMax), stale |-> FALSE,
               until |-> IF g > 0 THEN "none" ELSE purse.until, asked |-> purse.asked - 1],
              pool)

\* ticket_rate_limited, or no answer.
GrantDenied ==
    /\ linked /\ purse.asked > 0
    /\ purse' = [purse EXCEPT !.asked = @ - 1]
    /\ Same /\ UNCHANGED <<box, retry, wanted, pool, short>>

\* A build ended: a socket, or a pause before the next one.
Built(good) ==
    /\ linked /\ pool.warming > 0 /\ Same
    /\ LET q == [pool EXCEPT !.warming = @ - 1]
       IN  Refill(box, retry, purse,
                  IF good THEN [q EXCEPT !.good = @ + 1] ELSE [q EXCEPT !.pause = "armed"])

\* join_next also returns what invalidate_network aborted, as a failure.
JoinAborted ==
    /\ linked /\ pool.aborted > 0 /\ Same
    /\ Refill(box, retry, purse, [pool EXCEPT !.aborted = @ - 1, !.pause = "armed"])

Lands(n) ==
    /\ linked /\ box[n] = "flying" /\ Same
    /\ Refill([box EXCEPT ![n] = "none"], retry, purse, pool)

\* Its route cools down, and with it any of the prepared sockets.
Fails(n) ==
    /\ linked /\ box[n] = "flying" /\ Same
    /\ \E k \in 0 .. pool.good :
        Refill([box EXCEPT ![n] = "waiting"], [retry EXCEPT ![n] = "armed"], purse,
               [pool EXCEPT !.good = @ - k, !.dead = @ + k])

\* A deadline is over: of next_anonymous_maintenance, or the heartbeat's.
Maintenance == linked /\ Overdue /\ Same /\ Refill(box, retry, purse, pool)
Heartbeat == linked /\ Same /\ Refill(box, retry, purse, pool)

-----------------------------------------------------------------------------
(* Time, and the network                                                      *)

RetryFalls(n) ==
    /\ retry[n] = "armed" /\ retry' = [retry EXCEPT ![n] = "due"]
    /\ Same /\ UNCHANGED <<box, wanted, purse, pool, short>>

RequestFalls ==
    /\ purse.until = "armed" /\ purse' = [purse EXCEPT !.until = "due"]
    /\ Same /\ UNCHANGED <<box, retry, wanted, pool, short>>

TicketsExpire ==
    /\ purse.fresh > 0 /\ purse' = [purse EXCEPT !.fresh = 0, !.stale = TRUE]
    /\ Same /\ UNCHANGED <<box, retry, wanted, pool, short>>

PauseEnds ==
    /\ pool.pause = "armed" /\ pool' = [pool EXCEPT !.pause = "due"]
    /\ Same /\ UNCHANGED <<box, retry, wanted, purse, short>>

\* A prepared socket outlives ANON_READY_LIFETIME, or its connection ends.
SocketAges ==
    /\ pool.good > 0 /\ pool' = [pool EXCEPT !.good = @ - 1, !.old = @ + 1]
    /\ Same /\ UNCHANGED <<box, retry, wanted, purse, short>>

SocketDies ==
    /\ pool.good > 0 /\ pool' = [pool EXCEPT !.good = @ - 1, !.dead = @ + 1]
    /\ Same /\ UNCHANGED <<box, retry, wanted, purse, short>>

BoostEnds ==
    /\ boosted /\ boosted' = FALSE
    /\ UNCHANGED <<linked, need, box, muted, retry, wanted, purse, pool, short>>

\* invalidate_network: builds are aborted, and stay in the JoinSet.
LinkBreaks ==
    /\ linked /\ linked' = FALSE
    /\ box' = [n \in Note |-> IF box[n] = "flying" THEN "waiting" ELSE box[n]]
    /\ retry' = [n \in Note |-> "none"]
    /\ purse' = [purse EXCEPT !.until = "none", !.asked = 0]
    /\ pool' = [NoPool EXCEPT !.aborted = Building(pool)]
    /\ UNCHANGED <<need, muted, wanted, boosted, short>>

\* The session ends (Live is dropped) and another one begins, on a route that
\* is an onion one or not.
NewSession(onion) ==
    /\ ~linked /\ need' = onion /\ retry' = [n \in Note |-> "none"]
    /\ wanted' = FALSE /\ purse' = NoPurse /\ pool' = NoPool /\ boosted' = FALSE /\ short' = 0
    /\ UNCHANGED <<linked, box, muted>>

\* A connection is established: tickets are asked for before anything is sent.
LinkUp ==
    /\ ~linked /\ linked' = TRUE /\ UNCHANGED <<need, muted, boosted>>
    /\ Refill(box, retry, Requested([purse EXCEPT !.until = "none"]), pool)

-----------------------------------------------------------------------------
SupplyInit ==
    /\ linked = FALSE /\ need = TRUE
    /\ box = [n \in Note |-> "none"] /\ retry = [n \in Note |-> "none"]
    /\ muted = {} /\ wanted = FALSE /\ boosted = FALSE /\ short = 0
    /\ purse = NoPurse /\ pool = NoPool

Answers == GrantDenied \/ \E g \in 0 .. Batch : TakeGrant(g)
Builds == JoinAborted \/ \E good \in BOOLEAN : Built(good)
Letters == \E n \in Note : Enqueue(n) \/ Leave(n) \/ Mute(n) \/ Lands(n) \/ Fails(n)
TimePasses ==
    \/ RequestFalls \/ TicketsExpire \/ PauseEnds
    \/ SocketAges \/ SocketDies \/ BoostEnds \/ \E n \in Note : RetryFalls(n)

SupplyNext ==
    \/ Letters \/ Typing \/ Answers \/ Builds
    \/ Maintenance \/ Heartbeat \/ TimePasses
    \/ LinkBreaks \/ LinkUp \/ \E onion \in BOOLEAN : NewSession(onion)

Supplied == SupplyInit /\ [][SupplyNext]_supplyVars

-----------------------------------------------------------------------------
(* Properties                                                                 *)

\* What letter n waits for will wake pump: another letter's outcome, the
\* answer about tickets or its deadline, a socket being built or the pause
\* before it is, or the retry of a letter to the same device.
Woken(n) ==
    \/ In(box, "flying") # {}
    \/ ~HasTickets(purse) /\ Deadline.request # "none"
    \/ need /\ Prepared(pool) = 0 /\ (Building(pool) > 0 \/ Deadline.pause # "none")
    \/ \E m \in Retries : Heading[m] = Heading[n]

\* A letter that may be sent never waits for the heartbeat: the flush that
\* left it behind has left an event to come (next_anonymous_maintenance,
\* request_anonymous_tickets and maintain_anonymous_prewarm together).
NeverAsleep == linked => \A n \in In(box, "waiting") \ muted : Woken(n)

\* Deadlines wake pump, and do not keep it awake: while one is over, handling
\* it gets something done. Otherwise the loop wakes at once, again and again
\* ("their old retry deadline must not spin the select loop",
\* next_anonymous_retry).
NoSpin == linked /\ Overdue => ENABLED <<Maintenance>>_supplyVars
=============================================================================

------------------------------- MODULE Outbox -------------------------------
(***************************************************************************)
(* The client's durable outbox: valanium-core/src/anon_queue.rs and the    *)
(* part of valanium-core/src/client.rs that empties it (flush_anonymous,   *)
(* the select loop of pump, invalidate_network, session).                  *)
(*                                                                         *)
(* An envelope leaves through the authenticated socket ("direct") or, in a *)
(* task of its own, through an anonymous onion socket ("anon").  The       *)
(* network may lose, delay and reorder what was written, the relay may     *)
(* refuse it; the relay stores a repeated envelope once (module Relay), so *)
(* here it is the log of the first acceptances.  pump is one task: each    *)
(* event it handles, with the flush_anonymous that follows, is one step.   *)
(*                                                                         *)
(* The supply of tickets, prepared sockets and onion routes is left open:  *)
(* a flush starts any number of the anonymous sends it could start.        *)
(***************************************************************************)
EXTENDS Integers, FiniteSets, Sequences

CONSTANTS
  Device,      \* recipients
  Thread,      \* conversations: the recipient devices of each
  Class,       \* the classes of envelopes created
  Expiring,    \* the classes whose lifetime may end
  Policy,      \* the policies sessions are begun with
  Command,     \* the commands the user gives beside sending
  Limit,       \* the 4 of flush_anonymous
  MaxQueue,    \* MAX_ITEMS
  Blockable,   \* devices the user may block and unblock
  MaxRef       \* bound: envelopes ever created

Policies == {"onion", "relay"}
Commands == {"delete", "clear", "forget", "block", "maximize"}
Classes == {"essential", "text", "media", "ephemeral"}

ASSUME OutboxAssumption ==
  /\ Thread \subseteq SUBSET Device
  /\ Class \subseteq Classes /\ Expiring \subseteq Classes
  /\ Policy \subseteq Policies /\ Policy # {}
  /\ Command \subseteq Commands
  /\ IsFiniteSet(Device)
  /\ Limit \in Nat \ {0}
  /\ MaxQueue \in Nat /\ MaxRef \in Nat
  /\ Blockable \subseteq Device

VARIABLES
  \* on disk
  queue,     \* anonymous_outbox_v1
  stored,    \* delivery_policy_v1
  blocked,   \* devices blocked, or whose pinned key does not allow sending
  \* in memory, of one session
  required,  \* live.require_anonymous
  up,        \* pump runs on an authenticated connection
  direct,    \* live.direct_inflight
  anon,      \* live.anon_inflight
  backoff,   \* live.anon_retries whose deadline is in the future
  outcomes,  \* the channel of AnonOutcome
  \* time
  dead,      \* envelopes past expires_at
  aged,      \* envelopes queued for more than 30 s
  \* outside the client
  wire,      \* frames written and not yet read by the relay
  replies,   \* SEND_OK frames on their way to the client
  log,       \* envelopes in the order the relay first accepted them
  \* history
  nextRef,   \* envelopes are numbered as they are queued
  dropped    \* envelopes the user's own commands removed

clock == <<dead, aged>>
outside == <<replies, log>>
vars == <<queue, stored, blocked, required, up, direct, anon, backoff, outcomes,
          clock, wire, outside, nextRef, dropped>>

\* ref stands for client_ref and the place in the queue, msg for logical_id.
Item == [ref : 1 .. MaxRef, msg : 1 .. MaxRef, device : Device, thread : Thread,
         class : Class, authenticated : BOOLEAN]

-----------------------------------------------------------------------------
(* ready(): which envelopes may be sent next *)

Priority(r) ==
  CASE r.class = "essential" -> 0 [] r.class = "text" -> 1
    [] r.class = "media" -> 2     [] r.class = "ephemeral" -> 3

\* 30 s in the queue lift an envelope to the priority of text.
Score(r) == IF r \in aged /\ Priority(r) > 1 THEN 1 ELSE Priority(r)

Sooner(r, s) == Score(r) < Score(s) \/ (Score(r) = Score(s) /\ r.ref < s.ref)

Best(R, n) == {r \in R : Cardinality({s \in R : Sooner(s, r)}) < n}

Essential(r) == r.class = "essential"
Ephemeral(r) == r.class = "ephemeral"

\* Bug: text overtakes a waiting Welcome or commit.
Candidate_NoBarrier(q, busy, d) ==
  LET mine == {r \in q : r.device = d}
  IN  IF \E r \in mine \cap busy : ~Ephemeral(r) THEN {} ELSE Best(mine \ busy, 1)

\* The envelope that stands for device d.  A waiting Essential is a barrier:
\* what was queued before it goes first, what was queued after it waits, and
\* it waits itself for everything in flight to the device.
Candidate(q, busy, d) ==
  LET mine    == {r \in q : r.device = d}
      flying  == mine \cap busy
      waiting == mine \ busy
      ahead   == {r \in waiting : \A e \in waiting : Essential(e) => r.ref < e.ref}
      first   == {r \in waiting : \A s \in waiting : r.ref <= s.ref}
  IN  IF \E r \in flying : ~Ephemeral(r) THEN {}
      ELSE IF ahead # {} THEN Best(ahead, 1)
      ELSE IF flying = {} THEN first
      ELSE {}

Ready(q, busy, n) == Best(UNION {Candidate(q, busy, d) : d \in Device}, n)

-----------------------------------------------------------------------------
(* flush_anonymous *)

Slots(n) == IF n < Limit THEN Limit - n ELSE 0

Frames(R, via) == {[item |-> r, via |-> via] : r \in R}

\* Bug: in Auto any envelope may use the authenticated socket.
MayUseAuth_Any(r) == TRUE

MayUseAuth(r) == r.authenticated

\* The session is free to use the authenticated socket; m is require_anonymous.
Free(m) == ~m /\ stored = "relay"

Idle(q) == {r \in q : r.device \in blocked}

\* What the authenticated socket is given, with d and a in flight.
Written(q, d, a, m) ==
  {r \in Ready(q, d \cup a \cup Idle(q), Slots(Cardinality(d \cup a))) :
     Free(m) /\ MayUseAuth(r)}

\* The anonymous sends that may start then; a fresh failure, in b, waits.
Starts(q, d, a, b, m) ==
  LET ready == Ready(q, d \cup a \cup Idle(q) \cup b, Slots(Cardinality(a)))
      able  == {r \in ready : ~(Free(m) /\ r.authenticated)}
  IN  {Best(able, n) : n \in 0 .. Cardinality(able)}

\* Prunes the expired, writes what may go directly, starts anonymous sends.
\* q0, d0, a0 and b0 are queue, direct, anon and backoff after the event that
\* was handled.
Flush(q0, d0, a0, b0, m) ==
  \E q \in {q0 \ dead} :
  \E written \in {Written(q, d0, a0, m)} :
  \E started \in Starts(q, d0 \cup written, a0, b0, m) :
    /\ queue' = q
    /\ direct' = d0 \cup written
    /\ anon' = a0 \cup started
    /\ backoff' = b0 \cap q
    /\ wire' = wire \cup Frames(written, "direct") \cup Frames(started, "anon")

-----------------------------------------------------------------------------
(* Commands while connected; each arm ends in flush_anonymous *)

Fits(t) == /\ Cardinality(queue) + Cardinality(t) <= MaxQueue
           /\ nextRef + Cardinality(t) <= MaxRef + 1

\* One payload for every device of thread t, queued in some order of devices.
Batches(t, c) ==
  LET refs == nextRef .. nextRef + Cardinality(t) - 1
  IN  {{[ref |-> i, msg |-> nextRef, device |-> order[i], thread |-> t, class |-> c,
         authenticated |-> stored # "onion"] : i \in refs} :
       order \in {f \in [refs -> t] : \A i, j \in refs : f[i] = f[j] => i = j}}

\* enqueue_batch: all of the fan-out is queued, or none.
Send(t, c) ==
  /\ up /\ Fits(t)
  /\ \E new \in Batches(t, c) : Flush(queue \cup new, direct, anon, backoff, required)
  /\ nextRef' = nextRef + Cardinality(t)
  /\ UNCHANGED <<stored, blocked, required, up, outcomes, clock, outside, dropped>>

\* cancel_removed_anonymous forgets what is in flight and no longer queued,
\* and aborts its tasks.
Removed(R) == /\ dropped' = dropped \cup R
              /\ replies' = {f \in replies : f.item \notin R}
              /\ UNCHANGED <<stored, blocked, required, up, outcomes, clock, log, nextRef>>

\* DeleteMessage: the copies for every device it was sent to.
DeleteMessage(m) ==
  LET R == {r \in queue : r.msg = m /\ r.class \in {"text", "media"}}
  IN  /\ up /\ R # {}
      /\ Flush(queue \ R, direct \ R, anon \ R, backoff, required)
      /\ Removed(R)

GroupForget(t) ==
  LET R == {r \in queue : r.thread = t}
  IN  /\ up /\ R # {}
      /\ Flush(queue \ R, direct \ R, anon \ R, backoff, required)
      /\ Removed(R)

\* Local commands: answered on and off line, no flush follows.
RemoveLocally(R) ==
  /\ R # {}
  /\ queue' = queue \ R
  /\ direct' = direct \ R
  /\ anon' = anon \ R
  /\ Removed(R)
  /\ UNCHANGED <<backoff, wire>>

\* Clearing the history does not discard an undelivered Welcome or commit.
ClearConversation(t) == RemoveLocally({r \in queue : r.thread = t /\ ~Essential(r)})

DeleteConversation(t) == RemoveLocally({r \in queue : r.thread = t})

SetBlocked(d) ==
  /\ blocked' = IF d \in blocked THEN blocked \ {d} ELSE blocked \cup {d}
  /\ UNCHANGED <<queue, stored, required, up, direct, anon, backoff, outcomes,
                 clock, wire, outside, nextRef, dropped>>

-----------------------------------------------------------------------------
(* The connection *)

\* Bug: what is in flight outlives the connection it was written to.
Forget_Direct == /\ up' = FALSE
                 /\ direct' = direct
                 /\ anon' = {}
                 /\ backoff' = {}
                 /\ outcomes' = {}
                 /\ replies' = {}

\* pump returned: invalidate_network, or the end of the session or the process.
Forget == /\ up' = FALSE
          /\ direct' = {}
          /\ anon' = {}
          /\ backoff' = {}
          /\ outcomes' = {}
          /\ replies' = {}

Disconnect ==
  /\ up
  /\ Forget
  /\ UNCHANGED <<queue, stored, blocked, required, clock, wire, log, nextRef, dropped>>

\* 45 s without a SEND_OK for a direct envelope: pump returns an error.
DirectTimeout == direct # {} /\ Disconnect

\* PrivacyMaximize: the policy is onion from now on, signals are dropped and
\* the session is closed.
PrivacyMaximize ==
  LET R == {r \in queue : Ephemeral(r)}
  IN  /\ queue' = queue \ R
      /\ dropped' = dropped \cup R
      /\ stored' = "onion"
      /\ Forget
      /\ UNCHANGED <<blocked, required, clock, wire, log, nextRef>>

\* session(): the url of the entry decides the policy.
StartSession(p) ==
  /\ ~up
  /\ stored' = p
  /\ required' = (p = "onion")
  /\ UNCHANGED <<queue, blocked, up, direct, anon, backoff, outcomes, clock,
                 wire, outside, nextRef, dropped>>

\* A session can go on only under the policy it was begun with.
Connect ==
  /\ ~up
  /\ required = (stored = "onion")
  /\ up' = TRUE
  /\ Flush(queue, direct, anon, backoff, required)
  /\ UNCHANGED <<stored, blocked, required, outcomes, clock, outside, nextRef, dropped>>

\* queue_offline: only an onion session takes messages while it reconnects.
SendOffline(t, c) ==
  /\ ~up /\ stored = "onion" /\ Fits(t)
  /\ c \in {"text", "media"}
  /\ \E new \in Batches(t, c) : queue' = queue \cup new
  /\ nextRef' = nextRef + Cardinality(t)
  /\ UNCHANGED <<stored, blocked, required, up, direct, anon, backoff, outcomes,
                 clock, wire, outside, dropped>>

-----------------------------------------------------------------------------
(* Events of pump *)

\* The ticker, other frames, a prepared socket, a grant of tickets: a flush.
Wake ==
  /\ up
  /\ Flush(queue, direct, anon, backoff, required)
  /\ UNCHANGED <<stored, blocked, required, up, outcomes, clock, outside, nextRef, dropped>>

\* SEND_OK on the authenticated socket.
SendOk(r) ==
  /\ up /\ [item |-> r, via |-> "direct"] \in replies
  /\ replies' = replies \ {[item |-> r, via |-> "direct"]}
  /\ Flush(IF r \in direct THEN queue \ {r} ELSE queue, direct \ {r}, anon, backoff, required)
  /\ UNCHANGED <<stored, blocked, required, up, outcomes, clock, log, nextRef, dropped>>

\* The task of an anonymous send ends: with the SEND_OK, or for any other
\* reason (timeout, refusal, no connection) without.
TaskEnds(r, ok) ==
  /\ r \in anon
  /\ \A b \in BOOLEAN : [item |-> r, ok |-> b] \notin outcomes
  /\ ok => [item |-> r, via |-> "anon"] \in replies
  /\ outcomes' = outcomes \cup {[item |-> r, ok |-> ok]}
  /\ replies' = replies \ {[item |-> r, via |-> "anon"]}
  /\ UNCHANGED <<queue, stored, blocked, required, up, direct, anon, backoff,
                 clock, wire, log, nextRef, dropped>>

\* Bug: a failed attempt takes the envelope out of the queue too.
OnOutcome_Always(o) ==
  /\ up /\ o \in outcomes
  /\ outcomes' = outcomes \ {o}
  /\ Flush(queue \ {o.item}, direct, anon \ {o.item}, backoff, required)
  /\ UNCHANGED <<stored, blocked, required, up, clock, outside, nextRef, dropped>>

\* pump receives an outcome: acknowledged, or retried after a delay.
OnOutcome(o) ==
  /\ up /\ o \in outcomes
  /\ outcomes' = outcomes \ {o}
  /\ IF o.ok
     THEN Flush(queue \ {o.item}, direct, anon \ {o.item}, backoff \ {o.item}, required)
     ELSE Flush(queue, direct, anon \ {o.item}, backoff \cup {o.item}, required)
  /\ UNCHANGED <<stored, blocked, required, up, clock, outside, nextRef, dropped>>

\* Bug: the entry of a failed envelope goes on holding it back.
RetryDue_Kept(r) ==
  /\ up /\ r \in backoff
  /\ Flush(queue, direct, anon, backoff, required)
  /\ UNCHANGED <<stored, blocked, required, up, outcomes, clock, outside, nextRef, dropped>>

\* The delay of a failed envelope is over.
RetryDue(r) ==
  /\ up /\ r \in backoff
  /\ Flush(queue, direct, anon, backoff \ {r}, required)
  /\ UNCHANGED <<stored, blocked, required, up, outcomes, clock, outside, nextRef, dropped>>

-----------------------------------------------------------------------------
(* Time, the network and the relay *)

Expire(r) ==
  /\ r \in queue \ dead /\ r.class \in Expiring
  /\ dead' = dead \cup {r}
  /\ UNCHANGED <<queue, stored, blocked, required, up, direct, anon, backoff,
                 outcomes, aged, wire, outside, nextRef, dropped>>

Age(r) ==
  /\ r \in queue \ aged /\ Priority(r) > 1
  /\ aged' = aged \cup {r}
  /\ UNCHANGED <<queue, stored, blocked, required, up, direct, anon, backoff,
                 outcomes, dead, wire, outside, nextRef, dropped>>

Accepted == {log[i] : i \in DOMAIN log}

\* The relay answers on the connection the frame came by, if it is still there.
RelayAccepts(f) ==
  /\ f \in wire
  /\ wire' = wire \ {f}
  /\ log' = IF f.item \in Accepted THEN log ELSE Append(log, f.item)
  /\ replies' = IF f.item \in (IF f.via = "direct" THEN direct ELSE anon)
                THEN replies \cup {f} ELSE replies
  /\ UNCHANGED <<queue, stored, blocked, required, up, direct, anon, backoff,
                 outcomes, clock, nextRef, dropped>>

\* Lost on the way, or refused by the relay (an ERROR frame is only shown).
Lose(f) ==
  /\ f \in wire
  /\ wire' = wire \ {f}
  /\ UNCHANGED <<queue, stored, blocked, required, up, direct, anon, backoff,
                 outcomes, clock, outside, nextRef, dropped>>

-----------------------------------------------------------------------------
Init ==
  /\ queue = {} /\ blocked = {}
  /\ stored \in Policy /\ required = (stored = "onion") /\ up = FALSE
  /\ direct = {} /\ anon = {} /\ backoff = {} /\ outcomes = {}
  /\ dead = {} /\ aged = {}
  /\ wire = {} /\ replies = {} /\ log = <<>>
  /\ nextRef = 1 /\ dropped = {}

User ==
  \/ \E t \in Thread, c \in Class : Send(t, c) \/ SendOffline(t, c)
  \/ "delete" \in Command /\ \E r \in queue : DeleteMessage(r.msg)
  \/ "clear" \in Command /\ \E t \in Thread : ClearConversation(t)
  \/ "forget" \in Command /\ \E t \in Thread : DeleteConversation(t) \/ GroupForget(t)
  \/ "block" \in Command /\ \E d \in Blockable : SetBlocked(d)
  \/ "maximize" \in Command /\ PrivacyMaximize
  \/ \E p \in Policy : StartSession(p)

Event ==
  \/ Connect
  \/ Disconnect
  \/ DirectTimeout
  \/ Wake
  \/ \E f \in replies : SendOk(f.item)
  \/ \E r \in anon, ok \in BOOLEAN : TaskEnds(r, ok)
  \/ \E o \in outcomes : OnOutcome(o)
  \/ \E r \in backoff : RetryDue(r)

World ==
  \/ \E r \in queue : Expire(r) \/ Age(r)
  \/ \E f \in wire : RelayAccepts(f) \/ Lose(f)

Next == User \/ Event \/ World

Spec == Init /\ [][Next]_vars

\* What liveness needs: pump handles what it is told, an interrupted session
\* goes on, a route is found for some anonymous send, and of the attempts at
\* sending not every one fails.
Fairness ==
  /\ WF_vars(Connect) /\ WF_vars(DirectTimeout)
  /\ WF_vars(Wake /\ anon' # anon)
  /\ WF_vars(\E f \in replies : SendOk(f.item))
  /\ WF_vars(\E r \in backoff : RetryDue(r))
  /\ WF_vars(\E r \in anon : TaskEnds(r, FALSE))
  /\ WF_vars(\E o \in outcomes : OnOutcome(o))
  /\ SF_vars(\E r \in anon : TaskEnds(r, TRUE))
  /\ SF_vars(\E f \in wire : RelayAccepts(f) /\ replies' # replies)

FairSpec == Spec /\ Fairness

-----------------------------------------------------------------------------
(* Properties *)

Inflight == (direct \cup anon) \cap queue

\* Every variable has its type; what is in flight belongs to a connection.
TypeOK ==
  /\ queue \subseteq Item /\ dropped \subseteq Item
  /\ stored \in Policies /\ blocked \subseteq Device
  /\ {required, up} \subseteq BOOLEAN
  /\ direct \subseteq Item /\ anon \subseteq Item /\ backoff \subseteq Item
  /\ outcomes \subseteq [item : Item, ok : BOOLEAN]
  /\ dead \subseteq Item /\ aged \subseteq Item
  /\ {wire, replies} \subseteq SUBSET [item : Item, via : {"direct", "anon"}]
  /\ log \in Seq(Item)
  /\ nextRef \in 1 .. MaxRef + 1
  /\ ~up => direct = {} /\ anon = {} /\ backoff = {} /\ outcomes = {} /\ replies = {}

\* The relay never takes in a message before the Welcome or commit it depends
\* on, a commit before the messages of the older epoch, or a text before an
\* older text, whatever is lost, repeated, retried or delayed: the earlier
\* envelope has been accepted, or is no longer to be sent. So, signals aside, one
\* envelope at a time is in flight to a device, and beside a Welcome none.
InOrder ==
  /\ \A r \in queue, s \in Accepted :
        /\ r.device = s.device /\ r.ref < s.ref
        /\ Essential(r) \/ Essential(s) \/ (r.class = "text" /\ s.class = "text")
        => r \in Accepted
  /\ \A r, s \in Inflight :
        r # s /\ r.device = s.device
          => (Ephemeral(r) \/ Ephemeral(s)) /\ ~Essential(r) /\ ~Essential(s)

\* An envelope created under the onion policy is never written to the
\* authenticated socket, and nothing is while the policy is onion, whatever
\* policies, sessions and reconnections follow.
OnionStaysAnonymous ==
  /\ \A f \in wire : f.via = "direct" => f.item.authenticated
  /\ direct # {} => stored = "relay" /\ ~required

\* No envelope is lost: it waits, was accepted, expired, or was removed by a
\* command of the user.
NothingLost ==
  \A n \in 1 .. nextRef - 1 :
    \E r \in queue \cup Accepted \cup dead \cup dropped : r.ref = n

\* On a connection that stays up every envelope is in the end accepted, or
\* removed, unless its device is blocked: no class, barrier, retry delay or
\* policy left over from an older session starves it.
Delivered ==
  <>[]up => \A n \in 1 .. MaxRef :
    (\E r \in queue : r.ref = n)
      ~> (\A r \in queue : r.ref = n => r.device \in blocked)
=============================================================================

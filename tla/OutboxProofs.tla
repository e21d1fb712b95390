----------------------------- MODULE OutboxProofs -----------------------------
(***************************************************************************)
(* Proofs about the client's outbox (module Outbox), for every set of      *)
(* devices, threads, classes and commands: envelopes made for onion stay   *)
(* off the authenticated socket, no envelope is lost, and the relay takes  *)
(* them in in an order their recipient can read. And about what anonymous  *)
(* sends are made of (module Supply): pump does not sleep beside a letter. *)
(***************************************************************************)
EXTENDS Outbox, Supply, FiniteSetTheorems, TLAPS

(***************************************************************************)
(* Anonymity.  What is in flight on the authenticated socket ends with the *)
(* connection, and policies change only between connections.               *)
(***************************************************************************)
DirectNeedsConnection == ~up => direct = {}

Anonymity == OnionStaysAnonymous /\ DirectNeedsConnection

\* A flush adds to the authenticated socket only what may use it.
LEMMA FlushWrites ==
  ASSUME NEW q0, NEW d0, NEW a0, NEW b0, Flush(q0, d0, a0, b0, required)
  PROVE  /\ \A f \in wire' : f \in wire \/ (f.via = "direct" => f.item.authenticated)
         /\ direct' # d0 => stored = "relay" /\ ~required
<1>. DEFINE written == Written(q0 \ dead, d0, a0, required)
<1>1. PICK started \in Starts(q0 \ dead, d0 \cup written, a0, b0, required) :
        /\ direct' = d0 \cup written
        /\ wire' = wire \cup Frames(written, "direct") \cup Frames(started, "anon")
  BY DEF Flush
<1>2. \A r \in written : Free(required) /\ r.authenticated
  BY <1>1 DEF Written, MayUseAuth
<1>3. \A f \in Frames(written, "direct") : f.item.authenticated
  BY <1>2 DEF Frames
<1>4. \A f \in Frames(started, "anon") : f.via # "direct"
  BY DEF Frames
<1>5. direct' # d0 => written # {}
  BY <1>1
<1>6. written # {} => stored = "relay" /\ ~required
  BY <1>2 DEF Free
<1>. QED
  BY <1>1, <1>3, <1>4, <1>5, <1>6

\* A step that keeps the policy and what was written, and forgets at most some
\* of what is in flight, keeps the invariant.
LEMMA QuietStep ==
  ASSUME Anonymity, UNCHANGED <<stored, required>>,
         wire' \subseteq wire, direct' \subseteq direct, up' = up \/ direct' = {}
  PROVE  Anonymity'
BY DEF Anonymity, OnionStaysAnonymous, DirectNeedsConnection

\* A step that ends in a flush keeps it on a connection.
LEMMA FlushStep ==
  ASSUME Anonymity, UNCHANGED <<stored, required>>, up',
         NEW q0, NEW d0, d0 \subseteq direct, NEW a0, NEW b0,
         Flush(q0, d0, a0, b0, required)
  PROVE  Anonymity'
<1>1. \A f \in wire' : f.via = "direct" => f.item.authenticated
  BY FlushWrites DEF Anonymity, OnionStaysAnonymous
<1>2. direct' # {} => stored = "relay" /\ ~required
  BY FlushWrites DEF Anonymity, OnionStaysAnonymous
<1>. QED
  BY <1>1, <1>2 DEF Anonymity, OnionStaysAnonymous, DirectNeedsConnection

LEMMA UserKeepsAnonymity ==
  ASSUME Anonymity, User
  PROVE  Anonymity'
<1>1. ASSUME NEW t \in Thread, NEW c \in Class, Send(t, c)
      PROVE  Anonymity'
  <2>1. PICK new \in Batches(t, c) : Flush(queue \cup new, direct, anon, backoff, required)
    BY <1>1 DEF Send
  <2>. QED
    BY <1>1, <2>1, FlushStep DEF Send
<1>2. ASSUME NEW t \in Thread, NEW c \in Class, SendOffline(t, c)
      PROVE  Anonymity'
  BY <1>2, QuietStep DEF SendOffline
<1>3. ASSUME NEW m, DeleteMessage(m)
      PROVE  Anonymity'
  <2>. DEFINE R == {r \in queue : r.msg = m /\ r.class \in {"text", "media"}}
  <2>1. Flush(queue \ R, direct \ R, anon \ R, backoff, required)
    BY <1>3 DEF DeleteMessage
  <2>. QED
    BY <1>3, <2>1, FlushStep DEF DeleteMessage, Removed
<1>4. ASSUME NEW t, GroupForget(t)
      PROVE  Anonymity'
  <2>. DEFINE R == {r \in queue : r.thread = t}
  <2>1. Flush(queue \ R, direct \ R, anon \ R, backoff, required)
    BY <1>4 DEF GroupForget
  <2>. QED
    BY <1>4, <2>1, FlushStep DEF GroupForget, Removed
<1>5. ASSUME NEW R, RemoveLocally(R)
      PROVE  Anonymity'
  BY <1>5, QuietStep DEF RemoveLocally, Removed
<1>6. ASSUME NEW d, SetBlocked(d)
      PROVE  Anonymity'
  BY <1>6, QuietStep DEF SetBlocked
<1>7. ASSUME PrivacyMaximize
      PROVE  Anonymity'
  BY <1>7 DEF PrivacyMaximize, Forget, Anonymity, OnionStaysAnonymous, DirectNeedsConnection
<1>8. ASSUME NEW p, StartSession(p)
      PROVE  Anonymity'
  BY <1>8 DEF StartSession, Anonymity, OnionStaysAnonymous, DirectNeedsConnection
<1>. QED
  BY <1>1, <1>2, <1>3, <1>4, <1>5, <1>6, <1>7, <1>8
     DEF User, ClearConversation, DeleteConversation

LEMMA EventKeepsAnonymity ==
  ASSUME Anonymity, Event
  PROVE  Anonymity'
<1>1. CASE Connect
  BY <1>1, FlushStep DEF Connect
<1>2. CASE Disconnect \/ DirectTimeout
  BY <1>2, QuietStep DEF Disconnect, DirectTimeout, Forget
<1>3. CASE Wake
  BY <1>3, FlushStep DEF Wake
<1>4. ASSUME NEW r, SendOk(r)
      PROVE  Anonymity'
  <2>1. Flush(IF r \in direct THEN queue \ {r} ELSE queue, direct \ {r}, anon, backoff, required)
    BY <1>4 DEF SendOk
  <2>. QED
    BY <1>4, <2>1, FlushStep DEF SendOk
<1>5. ASSUME NEW r, NEW ok, TaskEnds(r, ok)
      PROVE  Anonymity'
  BY <1>5, QuietStep DEF TaskEnds
<1>6. ASSUME NEW o, OnOutcome(o)
      PROVE  Anonymity'
  BY <1>6, FlushStep DEF OnOutcome
<1>7. ASSUME NEW r, RetryDue(r)
      PROVE  Anonymity'
  BY <1>7, FlushStep DEF RetryDue
<1>. QED
  BY <1>1, <1>2, <1>3, <1>4, <1>5, <1>6, <1>7 DEF Event

LEMMA WorldKeepsAnonymity ==
  ASSUME Anonymity, World
  PROVE  Anonymity'
<1>1. ASSUME NEW r, Expire(r) \/ Age(r)
      PROVE  Anonymity'
  BY <1>1, QuietStep DEF Expire, Age
<1>2. ASSUME NEW f, RelayAccepts(f) \/ Lose(f)
      PROVE  Anonymity'
  BY <1>2, QuietStep DEF RelayAccepts, Lose
<1>. QED
  BY <1>1, <1>2 DEF World

\* An envelope made under the onion policy is never written to the
\* authenticated socket, and nothing is while the policy is onion.
THEOREM OnionNeverDirect == Spec => []OnionStaysAnonymous
<1>1. Init => Anonymity
  BY DEF Init, Anonymity, OnionStaysAnonymous, DirectNeedsConnection
<1>2. Anonymity /\ [Next]_vars => Anonymity'
  <2>1. CASE UNCHANGED vars
    BY <2>1 DEF vars, Anonymity, OnionStaysAnonymous, DirectNeedsConnection
  <2>. QED
    BY <2>1, UserKeepsAnonymity, EventKeepsAnonymity, WorldKeepsAnonymity DEF Next
<1>3. Anonymity => OnionStaysAnonymous
  BY DEF Anonymity
<1>. QED
  BY <1>1, <1>2, <1>3, PTL DEF Spec

-----------------------------------------------------------------------------
(* Types *)

Frame == [item : Item, via : {"direct", "anon"}]

\* What ready() offers comes from the queue it is given.
LEMMA ReadyFromQueue ==
  ASSUME NEW q, NEW busy, NEW n
  PROVE  Ready(q, busy, n) \subseteq q
<1>1. \A d : Candidate(q, busy, d) \subseteq q
  BY DEF Candidate, Best
<1>. QED
  BY <1>1 DEF Ready, Best

\* A flush keeps of the queue what is not expired, and sends only from it.
LEMMA FlushMoves ==
  ASSUME NEW q0, NEW d0, NEW a0, NEW b0, Flush(q0, d0, a0, b0, required)
  PROVE  /\ queue' = q0 \ dead
         /\ direct' \subseteq d0 \cup q0 /\ anon' \subseteq a0 \cup q0
         /\ backoff' \subseteq b0
         /\ \A f \in wire' : f \in wire \/ \E r \in q0, via \in {"direct", "anon"} :
                                              f = [item |-> r, via |-> via]
<1>. DEFINE q == q0 \ dead
            written == Written(q, d0, a0, required)
            ready == Ready(q, (d0 \cup written) \cup a0 \cup Idle(q) \cup b0, Slots(Cardinality(a0)))
<1>1. PICK started \in Starts(q, d0 \cup written, a0, b0, required) :
        /\ queue' = q
        /\ direct' = d0 \cup written
        /\ anon' = a0 \cup started
        /\ backoff' = b0 \cap q
        /\ wire' = wire \cup Frames(written, "direct") \cup Frames(started, "anon")
  BY DEF Flush
<1>2. written \subseteq q0
  BY ReadyFromQueue DEF Written
<1>3. started \subseteq ready
  BY <1>1 DEF Starts, Best
<1>4. started \subseteq q0
  BY <1>3, ReadyFromQueue
<1>. QED
  BY <1>1, <1>2, <1>4 DEF Frames

\* A flush on a connection keeps the types of what it writes.
LEMMA FlushType ==
  ASSUME TypeOK, up', NEW q0 \in SUBSET Item, NEW d0 \in SUBSET Item,
         NEW a0 \in SUBSET Item, NEW b0 \in SUBSET Item,
         Flush(q0, d0, a0, b0, required)
  PROVE  /\ queue' \subseteq Item /\ direct' \subseteq Item
         /\ anon' \subseteq Item /\ backoff' \subseteq Item
         /\ wire' \subseteq Frame
<1>1. queue' \subseteq Item /\ direct' \subseteq Item /\ anon' \subseteq Item /\ backoff' \subseteq Item
  BY FlushMoves
<1>2. wire \subseteq Frame
  BY DEF TypeOK, Frame
<1>3. \A r \in q0, via \in {"direct", "anon"} : [item |-> r, via |-> via] \in Frame
  BY DEF Frame
<1>4. \A f \in wire' : f \in Frame
  <2>. SUFFICES ASSUME NEW f \in wire'
                PROVE  f \in Frame
    OBVIOUS
  <2>1. f \in wire \/ \E r \in q0, via \in {"direct", "anon"} : f = [item |-> r, via |-> via]
    BY FlushMoves
  <2>. QED
    BY <1>2, <1>3, <2>1, Zenon
<1>. QED
  BY <1>1, <1>4

\* A fan-out that fits is typed, and takes the next numbers.
LEMMA BatchType ==
  ASSUME TypeOK, NEW t \in Thread, NEW c \in Class, Fits(t), NEW new \in Batches(t, c)
  PROVE  /\ new \subseteq Item
         /\ Cardinality(t) \in Nat
         /\ nextRef + Cardinality(t) \in 1 .. MaxRef + 1
         /\ \A n \in nextRef .. nextRef + Cardinality(t) - 1 : \E r \in new : r.ref = n
<1>1. Cardinality(t) \in Nat
  BY OutboxAssumption, FS_Subset, FS_CardinalityType
<1>2. nextRef \in Nat \ {0} /\ MaxRef \in Nat
  BY OutboxAssumption DEF TypeOK
<1>3. nextRef + Cardinality(t) <= MaxRef + 1
  BY DEF Fits
<1>. DEFINE refs == nextRef .. nextRef + Cardinality(t) - 1
            route == stored # "onion"
<1>4. route \in BOOLEAN
  OBVIOUS
<1>5. PICK order \in [refs -> t] :
        new = {[ref |-> i, msg |-> nextRef, device |-> order[i], thread |-> t,
                class |-> c, authenticated |-> route] : i \in refs}
  BY DEF Batches
<1>. HIDE DEF route
<1>6. \A i \in refs : i \in 1 .. MaxRef /\ nextRef \in 1 .. MaxRef /\ order[i] \in Device
  BY <1>1, <1>2, <1>3, OutboxAssumption
<1>7. c \in Classes
  BY OutboxAssumption
<1>8. \A i \in refs : [ref |-> i, msg |-> nextRef, device |-> order[i], thread |-> t,
                       class |-> c, authenticated |-> route] \in Item
  <2>. SUFFICES ASSUME NEW i \in refs
                PROVE  [ref |-> i, msg |-> nextRef, device |-> order[i], thread |-> t,
                        class |-> c, authenticated |-> route] \in Item
    OBVIOUS
  <2>1. i \in 1 .. MaxRef /\ nextRef \in 1 .. MaxRef /\ order[i] \in Device
    BY <1>6
  <2>. HIDE DEF refs
  <2>. QED
    BY <1>4, <2>1 DEF Item
<1>. HIDE DEF refs
<1>9. new \subseteq Item
  BY <1>5, <1>8, Zenon
<1>10. ASSUME NEW n \in refs
       PROVE  \E r \in new : r.ref = n
  <2>. DEFINE r == [ref |-> n, msg |-> nextRef, device |-> order[n], thread |-> t,
                    class |-> c, authenticated |-> route]
  <2>1. r \in new
    BY <1>5
  <2>2. r.ref = n
    OBVIOUS
  <2>. QED
    BY <2>1, <2>2
<1>. USE DEF refs
<1>. QED
  BY <1>1, <1>2, <1>3, <1>9, <1>10

LEMMA UserKeepsTypes ==
  ASSUME TypeOK, User
  PROVE  TypeOK'
<1>. USE DEF TypeOK
<1>1. ASSUME NEW t \in Thread, NEW c \in Class, Send(t, c)
      PROVE  TypeOK'
  <2>1. PICK new \in Batches(t, c) : Flush(queue \cup new, direct, anon, backoff, required)
    BY <1>1 DEF Send
  <2>2. new \subseteq Item /\ nextRef' \in 1 .. MaxRef + 1
    BY <1>1, BatchType DEF Send
  <2>3. queue \cup new \in SUBSET Item
    BY <2>2
  <2>. QED
    BY <1>1, <2>1, <2>2, <2>3, FlushType DEF Send, clock, outside, Frame
<1>2. ASSUME NEW t \in Thread, NEW c \in Class, SendOffline(t, c)
      PROVE  TypeOK'
  <2>1. PICK new \in Batches(t, c) : queue' = queue \cup new
    BY <1>2 DEF SendOffline
  <2>2. new \subseteq Item /\ nextRef' \in 1 .. MaxRef + 1
    BY <1>2, BatchType DEF SendOffline
  <2>. QED
    BY <1>2, <2>1, <2>2 DEF SendOffline, clock, outside
<1>3. ASSUME NEW R \in SUBSET queue, Removed(R), up,
             Flush(queue \ R, direct \ R, anon \ R, backoff, required)
      PROVE  TypeOK'
  <2>1. /\ queue \ R \in SUBSET Item /\ direct \ R \in SUBSET Item
        /\ anon \ R \in SUBSET Item
    OBVIOUS
  <2>. QED
    BY <1>3, <2>1, FlushType DEF Removed, clock, Frame
<1>4. ASSUME NEW m, DeleteMessage(m)
      PROVE  TypeOK'
  BY <1>3, <1>4 DEF DeleteMessage
<1>5. ASSUME NEW t, GroupForget(t)
      PROVE  TypeOK'
  BY <1>3, <1>5 DEF GroupForget
<1>6. ASSUME NEW R \in SUBSET queue, RemoveLocally(R)
      PROVE  TypeOK'
  BY <1>6 DEF RemoveLocally, Removed, clock
<1>7. ASSUME NEW d \in Blockable, SetBlocked(d)
      PROVE  TypeOK'
  BY <1>7, OutboxAssumption DEF SetBlocked, clock, outside
<1>8. ASSUME PrivacyMaximize
      PROVE  TypeOK'
  BY <1>8 DEF PrivacyMaximize, Forget, clock, Policies
<1>9. ASSUME NEW p \in Policy, StartSession(p)
      PROVE  TypeOK'
  BY <1>9, OutboxAssumption DEF StartSession, clock, outside
<1>. QED
  BY <1>1, <1>2, <1>4, <1>5, <1>6, <1>7, <1>8, <1>9
     DEF User, ClearConversation, DeleteConversation

LEMMA EventKeepsTypes ==
  ASSUME TypeOK, Event
  PROVE  TypeOK'
<1>. USE DEF TypeOK
<1>1. CASE Connect
  BY <1>1, FlushType DEF Connect, clock, outside, Frame
<1>2. CASE Disconnect \/ DirectTimeout
  BY <1>2 DEF Disconnect, DirectTimeout, Forget, clock
<1>3. CASE Wake
  BY <1>3, FlushType DEF Wake, clock, outside, Frame
<1>4. ASSUME NEW r, SendOk(r)
      PROVE  TypeOK'
  <2>. DEFINE q0 == IF r \in direct THEN queue \ {r} ELSE queue
  <2>1. q0 \in SUBSET Item /\ direct \ {r} \in SUBSET Item
    OBVIOUS
  <2>2. Flush(q0, direct \ {r}, anon, backoff, required) /\ up /\ up' = up
    BY <1>4 DEF SendOk
  <2>. HIDE DEF q0
  <2>3. /\ queue' \subseteq Item /\ direct' \subseteq Item
        /\ anon' \subseteq Item /\ backoff' \subseteq Item
        /\ wire' \subseteq Frame
    BY <2>1, <2>2, FlushType
  <2>4. /\ replies' \subseteq replies
        /\ UNCHANGED <<stored, blocked, required, up, outcomes, dead, aged, log, nextRef, dropped>>
    BY <1>4 DEF SendOk, clock
  <2>. QED
    BY <2>2, <2>3, <2>4 DEF Frame
<1>5. ASSUME NEW r \in anon, NEW ok \in BOOLEAN, TaskEnds(r, ok)
      PROVE  TypeOK'
  <2>1. r \in Item /\ up
    OBVIOUS
  <2>2. [item |-> r, ok |-> ok] \in [item : Item, ok : BOOLEAN]
    BY <2>1
  <2>3. /\ outcomes' = outcomes \cup {[item |-> r, ok |-> ok]}
        /\ replies' \subseteq replies
        /\ UNCHANGED <<queue, stored, blocked, required, up, direct, anon, backoff,
                       dead, aged, wire, log, nextRef, dropped>>
    BY <1>5 DEF TaskEnds, clock
  <2>4. outcomes' \subseteq [item : Item, ok : BOOLEAN]
    BY <2>2, <2>3, Zenon
  <2>. QED
    BY <2>1, <2>3, <2>4
<1>6. ASSUME NEW o \in outcomes, OnOutcome(o)
      PROVE  TypeOK'
  <2>1. /\ o.item \in Item
        /\ queue \ {o.item} \in SUBSET Item /\ anon \ {o.item} \in SUBSET Item
        /\ backoff \ {o.item} \in SUBSET Item /\ backoff \cup {o.item} \in SUBSET Item
    OBVIOUS
  <2>2. /\ queue' \subseteq Item /\ direct' \subseteq Item
        /\ anon' \subseteq Item /\ backoff' \subseteq Item
        /\ wire' \subseteq Frame
    BY <1>6, <2>1, FlushType DEF OnOutcome
  <2>. QED
    BY <1>6, <2>2 DEF OnOutcome, clock, outside, Frame
<1>7. ASSUME NEW r \in backoff, RetryDue(r)
      PROVE  TypeOK'
  <2>1. backoff \ {r} \in SUBSET Item
    OBVIOUS
  <2>. QED
    BY <1>7, <2>1, FlushType DEF RetryDue, clock, outside, Frame
<1>. QED
  BY <1>1, <1>2, <1>3, <1>4, <1>5, <1>6, <1>7 DEF Event

LEMMA WorldKeepsTypes ==
  ASSUME TypeOK, World
  PROVE  TypeOK'
<1>. USE DEF TypeOK
<1>1. ASSUME NEW r \in queue, Expire(r) \/ Age(r)
      PROVE  TypeOK'
  BY <1>1 DEF Expire, Age, outside
<1>2. ASSUME NEW f \in wire, RelayAccepts(f)
      PROVE  TypeOK'
  <2>1. f.item \in Item
    OBVIOUS
  <2>2. log' \in Seq(Item)
    BY <1>2, <2>1 DEF RelayAccepts
  <2>. QED
    BY <1>2, <2>2 DEF RelayAccepts, clock
<1>3. ASSUME NEW f \in wire, Lose(f)
      PROVE  TypeOK'
  BY <1>3 DEF Lose, clock, outside
<1>. QED
  BY <1>1, <1>2, <1>3 DEF World

\* Every variable has its type; what is in flight belongs to a connection.
THEOREM OutboxTypes == Spec => []TypeOK
<1>1. ASSUME Init
      PROVE  TypeOK
  <2>1. required \in BOOLEAN /\ up \in BOOLEAN
    BY <1>1, Zenon DEF Init
  <2>2. nextRef \in 1 .. MaxRef + 1
    BY <1>1, OutboxAssumption DEF Init
  <2>3. log \in Seq(Item)
    BY <1>1 DEF Init
  <2>4. stored \in Policies
    BY <1>1, OutboxAssumption DEF Init
  <2>. QED
    BY <1>1, <2>1, <2>2, <2>3, <2>4 DEF Init, TypeOK
<1>2. TypeOK /\ [Next]_vars => TypeOK'
  <2>1. CASE UNCHANGED vars
    BY <2>1 DEF vars, clock, outside, TypeOK
  <2>. QED
    BY <2>1, UserKeepsTypes, EventKeepsTypes, WorldKeepsTypes DEF Next
<1>. QED
  BY <1>1, <1>2, PTL DEF Spec

(***************************************************************************)
(* Nothing is lost.  What leaves the queue on a success must have been     *)
(* accepted, so every success under way speaks of an accepted envelope.    *)
(***************************************************************************)
SuccessIsTrue == /\ \A f \in replies : f.item \in Accepted
                 /\ \A o \in outcomes : o.ok => o.item \in Accepted

Safekeeping == TypeOK /\ NothingLost /\ SuccessIsTrue

\* A step that takes out of the queue only what is accepted, expired or
\* removed by the user, and announces no new success, keeps the invariant.
LEMMA CarefulStep ==
  ASSUME Safekeeping, TypeOK', nextRef' = nextRef,
         Accepted \subseteq Accepted', dead \subseteq dead', dropped \subseteq dropped',
         queue \subseteq queue' \cup Accepted' \cup dead' \cup dropped',
         \A f \in replies' : f.item \in Accepted',
         \A o \in outcomes' : o.ok => o.item \in Accepted'
  PROVE  Safekeeping'
BY DEF Safekeeping, NothingLost, SuccessIsTrue

\* Queueing a fan-out numbers the new envelopes on.
LEMMA NewBatch ==
  ASSUME Safekeeping, TypeOK', NEW t \in Thread, NEW c \in Class, Fits(t),
         NEW new \in Batches(t, c), nextRef' = nextRef + Cardinality(t),
         queue \cup new \subseteq queue' \cup dead',
         UNCHANGED <<log, dead, dropped, replies, outcomes>>
  PROVE  Safekeeping'
<1>. DEFINE kept == queue \cup Accepted \cup dead \cup dropped
            kept1 == queue' \cup Accepted' \cup dead' \cup dropped'
<1>1. kept \subseteq kept1 /\ new \subseteq kept1 /\ Accepted' = Accepted
  BY DEF Accepted
<1>2. Cardinality(t) \in Nat /\ nextRef \in Nat
  BY BatchType DEF Safekeeping, TypeOK
<1>3. ASSUME NEW n \in 1 .. nextRef' - 1
      PROVE  \E r \in kept1 : r.ref = n
  <2>1. CASE n \in 1 .. nextRef - 1
    <3>1. \E r \in kept : r.ref = n
      BY <2>1 DEF Safekeeping, NothingLost
    <3>. QED
      BY <1>1, <3>1
  <2>2. CASE n \in nextRef .. nextRef + Cardinality(t) - 1
    <3>1. \E r \in new : r.ref = n
      BY <2>2, BatchType DEF Safekeeping
    <3>. QED
      BY <1>1, <3>1
  <2>3. n \in 1 .. nextRef - 1 \/ n \in nextRef .. nextRef + Cardinality(t) - 1
    BY <1>2
  <2>. QED
    BY <2>1, <2>2, <2>3
<1>4. NothingLost'
  BY <1>3 DEF NothingLost
<1>5. SuccessIsTrue'
  BY <1>1 DEF Safekeeping, SuccessIsTrue
<1>. QED
  BY <1>4, <1>5 DEF Safekeeping

LEMMA UserLosesNothing ==
  ASSUME Safekeeping, User, TypeOK'
  PROVE  Safekeeping'
<1>1. ASSUME NEW t \in Thread, NEW c \in Class, Send(t, c)
      PROVE  Safekeeping'
  <2>1. PICK new \in Batches(t, c) : Flush(queue \cup new, direct, anon, backoff, required)
    BY <1>1 DEF Send
  <2>2. queue' = (queue \cup new) \ dead
    BY <2>1, FlushMoves
  <2>. QED
    BY <1>1, <2>2, NewBatch DEF Send, clock, outside
<1>2. ASSUME NEW t \in Thread, NEW c \in Class, SendOffline(t, c)
      PROVE  Safekeeping'
  <2>1. PICK new \in Batches(t, c) : queue' = queue \cup new
    BY <1>2 DEF SendOffline
  <2>. QED
    BY <1>2, <2>1, NewBatch DEF SendOffline, clock, outside
<1>3. ASSUME NEW R \in SUBSET queue, Removed(R), queue' = queue \ R \/ queue' = (queue \ R) \ dead
      PROVE  Safekeeping'
  BY <1>3, CarefulStep DEF Removed, clock, Accepted, Safekeeping, SuccessIsTrue
<1>4. ASSUME NEW m, DeleteMessage(m)
      PROVE  Safekeeping'
  BY <1>3, <1>4, FlushMoves DEF DeleteMessage
<1>5. ASSUME NEW t, GroupForget(t)
      PROVE  Safekeeping'
  BY <1>3, <1>5, FlushMoves DEF GroupForget
<1>6. ASSUME NEW R \in SUBSET queue, RemoveLocally(R)
      PROVE  Safekeeping'
  BY <1>3, <1>6 DEF RemoveLocally
<1>7. ASSUME NEW d, SetBlocked(d)
      PROVE  Safekeeping'
  BY <1>7, CarefulStep DEF SetBlocked, clock, outside, Accepted, Safekeeping, SuccessIsTrue
<1>8. ASSUME PrivacyMaximize
      PROVE  Safekeeping'
  BY <1>8, CarefulStep DEF PrivacyMaximize, Forget, clock, Accepted, Safekeeping, SuccessIsTrue
<1>9. ASSUME NEW p, StartSession(p)
      PROVE  Safekeeping'
  BY <1>9, CarefulStep DEF StartSession, clock, outside, Accepted, Safekeeping, SuccessIsTrue
<1>. QED
  BY <1>1, <1>2, <1>4, <1>5, <1>6, <1>7, <1>8, <1>9
     DEF User, ClearConversation, DeleteConversation

LEMMA EventLosesNothing ==
  ASSUME Safekeeping, Event, TypeOK'
  PROVE  Safekeeping'
<1>. USE DEF Safekeeping, SuccessIsTrue, clock, outside, Accepted
<1>1. CASE Connect
  BY <1>1, CarefulStep, FlushMoves DEF Connect
<1>2. CASE Disconnect \/ DirectTimeout
  BY <1>2, CarefulStep DEF Disconnect, DirectTimeout, Forget
<1>3. CASE Wake
  BY <1>3, CarefulStep, FlushMoves DEF Wake
<1>4. ASSUME NEW f \in replies, SendOk(f.item)
      PROVE  Safekeeping'
  <2>1. queue \ {f.item} \subseteq queue' \cup dead
    BY <1>4, FlushMoves DEF SendOk
  <2>2. f.item \in Accepted
    OBVIOUS
  <2>. QED
    BY <1>4, <2>1, <2>2, CarefulStep DEF SendOk
<1>5. ASSUME NEW r \in anon, NEW ok \in BOOLEAN, TaskEnds(r, ok)
      PROVE  Safekeeping'
  <2>1. ok => r \in Accepted
    BY <1>5 DEF TaskEnds
  <2>2. \A o \in outcomes' : o \in outcomes \/ (o.item = r /\ o.ok = ok)
    BY <1>5 DEF TaskEnds
  <2>. QED
    BY <1>5, <2>1, <2>2, CarefulStep DEF TaskEnds
<1>6. ASSUME NEW o \in outcomes, OnOutcome(o)
      PROVE  Safekeeping'
  <2>1. CASE o.ok
    <3>1. queue \ {o.item} \subseteq queue' \cup dead
      BY <1>6, <2>1, FlushMoves DEF OnOutcome
    <3>. QED
      BY <1>6, <2>1, <3>1, CarefulStep DEF OnOutcome
  <2>2. CASE ~o.ok
    <3>1. queue \subseteq queue' \cup dead
      BY <1>6, <2>2, FlushMoves DEF OnOutcome
    <3>. QED
      BY <1>6, <2>2, <3>1, CarefulStep DEF OnOutcome
  <2>. QED
    BY <2>1, <2>2
<1>7. ASSUME NEW r, RetryDue(r)
      PROVE  Safekeeping'
  BY <1>7, CarefulStep, FlushMoves DEF RetryDue
<1>. QED
  BY <1>1, <1>2, <1>3, <1>4, <1>5, <1>6, <1>7 DEF Event

LEMMA WorldLosesNothing ==
  ASSUME Safekeeping, World, TypeOK'
  PROVE  Safekeeping'
<1>. USE DEF Safekeeping, SuccessIsTrue, clock, outside
<1>1. ASSUME NEW r, Expire(r) \/ Age(r)
      PROVE  Safekeeping'
  BY <1>1, CarefulStep DEF Expire, Age, Accepted
<1>2. ASSUME NEW f \in wire, RelayAccepts(f)
      PROVE  Safekeeping'
  <2>1. Accepted' = Accepted \cup {f.item}
    <3>1. log \in Seq(Item)
      BY DEF TypeOK
    <3>. QED
      BY <1>2, <3>1 DEF RelayAccepts, Accepted
  <2>. QED
    BY <1>2, <2>1, CarefulStep DEF RelayAccepts
<1>3. ASSUME NEW f, Lose(f)
      PROVE  Safekeeping'
  BY <1>3, CarefulStep DEF Lose, Accepted
<1>. QED
  BY <1>1, <1>2, <1>3 DEF World

\* No envelope is lost, whatever the user, the network and the relay do.
THEOREM NoEnvelopeLost == Spec => []NothingLost
<1>1. ASSUME Init
      PROVE  NothingLost /\ SuccessIsTrue
  BY <1>1 DEF Init, NothingLost, SuccessIsTrue
<1>2. NothingLost /\ SuccessIsTrue /\ TypeOK /\ TypeOK' /\ [Next]_vars
      => (NothingLost /\ SuccessIsTrue)'
  <2>. SUFFICES ASSUME Safekeeping, TypeOK', [Next]_vars
                PROVE  Safekeeping'
    BY DEF Safekeeping
  <2>1. CASE UNCHANGED vars
    BY <2>1, CarefulStep
       DEF vars, clock, outside, Accepted, Safekeeping, SuccessIsTrue
  <2>. QED
    BY <2>1, UserLosesNothing, EventLosesNothing, WorldLosesNothing DEF Next
<1>. QED
  BY <1>1, <1>2, OutboxTypes, PTL DEF Spec


(***************************************************************************)
(* Order.  InOrder lets an older envelope of the queue be behind a newer   *)
(* one that was accepted, if the older one was accepted as well.  What     *)
(* ready() keeps is stronger, and inductive: nothing that is tied to an    *)
(* older envelope of the queue is even written, and it stays written while *)
(* the queue takes in only newer numbers.                                  *)
(***************************************************************************)
Sent == Accepted \cup {f.item : f \in wire}

\* Two envelopes to a device whose order matters.
Tied(r, s) == Essential(r) \/ Essential(s) \/ (r.class = "text" /\ s.class = "text")

Apart(r, s) == r # s /\ r.device = s.device
                 => (Ephemeral(r) \/ Ephemeral(s)) /\ ~Essential(r) /\ ~Essential(s)

OneEach(q) == \A r, s \in q : r.ref = s.ref => r = s
InTurn(q, S) == \A r \in q, s \in S : r.device = s.device /\ r.ref < s.ref => ~Tied(r, s)

OrderInv ==
  /\ OneEach(queue)
  /\ \A s \in queue \cup Sent \cup direct \cup anon : s.ref < nextRef
  /\ InTurn(queue, Sent)
  /\ \A r, s \in Inflight : Apart(r, s)

\* The best of a finite set is behind nothing of it.
LEMMA OneBest ==
  ASSUME NEW R, IsFiniteSet(R), NEW s \in Best(R, 1)
  PROVE  s \in R /\ \A r \in R : ~Sooner(r, s)
<1>. DEFINE S == {r \in R : Sooner(r, s)}
<1>1. s \in R /\ Cardinality(S) < 1
  BY DEF Best
<1>2. IsFiniteSet(S)
  BY FS_Subset
<1>3. Cardinality(S) = 0
  BY <1>1, <1>2, FS_CardinalityType
<1>4. S = {}
  BY <1>2, <1>3, FS_EmptySet
<1>. QED
  BY <1>1, <1>4

LEMMA ScoreType ==
  ASSUME NEW r \in Item
  PROVE  Score(r) \in Nat /\ (r.class = "text" => Score(r) = 1)
<1>1. r.class \in Classes
  BY OutboxAssumption DEF Item
<1>2. Priority(r) \in Nat /\ (r.class = "text" => Priority(r) = 1)
  BY <1>1 DEF Classes, Priority
<1>. QED
  BY <1>2 DEF Score

\* What stands for a device: nothing tied to it and older is in the queue, and of
\* what is in flight there are only signals beside it.
LEMMA CandidateInTurn ==
  ASSUME NEW q \in SUBSET Item, IsFiniteSet(q), OneEach(q), NEW busy, NEW d,
         NEW s \in Candidate(q, busy, d)
  PROVE  /\ s \in q /\ s \notin busy /\ s.device = d
         /\ \A r \in q : r.device = d /\ r.ref < s.ref => ~Tied(r, s)
         /\ \A r \in q \cap busy : r.device = d => Ephemeral(r) /\ ~Essential(s)
         /\ \A r \in Candidate(q, busy, d) : r = s
<1>. DEFINE mine    == {r \in q : r.device = d}
            flying  == mine \cap busy
            waiting == mine \ busy
            ahead   == {r \in waiting : \A e \in waiting : Essential(e) => r.ref < e.ref}
            first   == {r \in waiting : \A e \in waiting : r.ref <= e.ref}
<1>1. /\ \A r \in flying : Ephemeral(r)
      /\ Candidate(q, busy, d) = IF ahead # {} THEN Best(ahead, 1)
                                 ELSE IF flying = {} THEN first ELSE {}
  BY DEF Candidate
<1>2. \A r \in q : r.ref \in Nat
  BY DEF Item
<1>3. ASSUME ahead # {}
      PROVE  /\ s \in ahead
             /\ \A r \in ahead : ~Sooner(r, s)
             /\ \A r \in Candidate(q, busy, d) : r = s
  <2>1. IsFiniteSet(ahead)
    BY FS_Subset
  <2>2. s \in Best(ahead, 1)
    BY <1>1, <1>3
  <2>. HIDE DEF ahead
  <2>3. s \in ahead /\ \A r \in ahead : ~Sooner(r, s)
    BY <2>1, <2>2, OneBest
  <2>4. ASSUME NEW r \in Candidate(q, busy, d)
        PROVE  r = s
    <3>1. r \in Best(ahead, 1)
      BY <1>1, <1>3
    <3>2. r \in ahead /\ ~Sooner(s, r) /\ ~Sooner(r, s)
      BY <2>1, <2>3, <3>1, OneBest
    <3>3. r \in q /\ s \in q
      BY <2>3, <3>2 DEF ahead
    <3>4. Score(r) \in Nat /\ Score(s) \in Nat
      BY <3>3, ScoreType
    <3>5. r.ref = s.ref
      BY <1>2, <3>2, <3>3, <3>4 DEF Sooner
    <3>. QED
      BY <3>3, <3>5 DEF OneEach
  <2>. QED
    BY <2>3, <2>4
<1>4. ASSUME ahead = {}
      PROVE  s \in first /\ flying = {} /\ \A r \in Candidate(q, busy, d) : r = s
  <2>1. s \in first /\ flying = {} /\ Candidate(q, busy, d) = first
    BY <1>1, <1>4
  <2>2. ASSUME NEW r \in first
        PROVE  r = s
    <3>1. r.ref = s.ref
      BY <1>2, <2>1
    <3>. QED
      BY <2>1, <3>1 DEF OneEach
  <2>. QED
    BY <2>1, <2>2
<1>5. s \in waiting
  BY <1>3, <1>4
<1>6. ahead # {} => ~Essential(s)
  BY <1>2, <1>3
<1>7. ASSUME NEW r \in q, r.device = d, r.ref < s.ref
      PROVE  ~Tied(r, s)
  <2>1. CASE ahead # {}
    <3>1. CASE r \in busy
      <4>1. r.class = "ephemeral"
        BY <1>1, <1>7, <3>1 DEF Ephemeral
      <4>. QED
        BY <1>6, <2>1, <4>1 DEF Tied, Essential
    <3>2. CASE r \notin busy
      <4>1. r \in waiting /\ s.ref \in Nat /\ r.ref \in Nat
        BY <1>2, <1>5, <1>7, <3>2
      <4>2. ~Essential(r)
        BY <1>3, <2>1, <4>1, <1>7
      <4>3. \A e \in waiting : Essential(e) => e.ref \in Nat /\ s.ref < e.ref
        BY <1>2, <1>3, <2>1
      <4>4. r \in ahead
        BY <1>7, <4>1, <4>3
      <4>5. ~Sooner(r, s)
        BY <1>3, <2>1, <4>4
      <4>6. ~(r.class = "text" /\ s.class = "text")
        BY <1>5, <1>7, <4>5, ScoreType DEF Sooner
      <4>. QED
        BY <1>6, <2>1, <4>2, <4>6 DEF Tied
    <3>. QED
      BY <3>1, <3>2
  <2>2. CASE ahead = {}
    BY <1>2, <1>4, <1>7, <2>2
  <2>. QED
    BY <2>1, <2>2
<1>8. \A r \in q \cap busy : r.device = d => Ephemeral(r) /\ ~Essential(s)
  BY <1>1, <1>4, <1>6
<1>9. \A r \in Candidate(q, busy, d) : r = s
  BY <1>3, <1>4
<1>. QED
  BY <1>5, <1>7, <1>8, <1>9

\* What ready() offers stands for its device.
LEMMA ReadyIsCandidate ==
  ASSUME NEW q \in SUBSET Item, IsFiniteSet(q), OneEach(q), NEW busy, NEW n, NEW s \in Ready(q, busy, n)
  PROVE  s \in Candidate(q, busy, s.device)
<1>1. PICK d \in Device : s \in Candidate(q, busy, d)
  BY DEF Ready, Best
<1>2. s.device = d
  BY <1>1, CandidateInTurn
<1>. QED
  BY <1>1, <1>2

\* A flush keeps the order: n is the number of the next envelope.
LEMMA FlushInOrder ==
  ASSUME NEW q0 \in SUBSET Item, NEW d0, NEW a0, NEW b0, Flush(q0, d0, a0, b0, required),
         IsFiniteSet(q0), OneEach(q0), log' = log,
         \A s \in q0 \cup Sent \cup d0 \cup a0 : s.ref < nextRef',
         InTurn(q0, Sent), \A r, s \in (d0 \cup a0) \cap q0 : Apart(r, s)
  PROVE  OrderInv'
<1>q. PICK q : q = q0 \ dead
  OBVIOUS
<1>w. PICK written : written = Written(q, d0, a0, required)
  OBVIOUS
<1>1. PICK started \in Starts(q, d0 \cup written, a0, b0, required) :
        /\ queue' = q
        /\ direct' = d0 \cup written
        /\ anon' = a0 \cup started
        /\ wire' = wire \cup Frames(written, "direct") \cup Frames(started, "anon")
  BY <1>q, <1>w DEF Flush
<1>b. PICK busy1, busy2 : /\ busy1 = d0 \cup a0 \cup Idle(q)
                          /\ busy2 = (d0 \cup written) \cup a0 \cup Idle(q) \cup b0
  OBVIOUS
<1>2. q \in SUBSET Item /\ q \subseteq q0 /\ IsFiniteSet(q) /\ OneEach(q)
  BY <1>q, FS_Subset DEF OneEach
<1>3. \A s \in written : s \in Candidate(q, busy1, s.device)
  BY <1>2, <1>w, <1>b, ReadyIsCandidate DEF Written
<1>4. \A s \in started : s \in Candidate(q, busy2, s.device)
  BY <1>1, <1>2, <1>b, ReadyIsCandidate DEF Starts, Best
<1>5. \A s \in written : s \in q /\ \A r \in q : r.device = s.device /\ r.ref < s.ref => ~Tied(r, s)
  BY <1>2, <1>3, CandidateInTurn
<1>6. \A s \in started : s \in q /\ \A r \in q : r.device = s.device /\ r.ref < s.ref => ~Tied(r, s)
  BY <1>2, <1>4, CandidateInTurn
<1>7. Sent' \subseteq Sent \cup written \cup started
  <2>1. Accepted' = Accepted
    BY DEF Accepted
  <2>2. \A f \in Frames(written, "direct") : f.item \in written
    BY DEF Frames
  <2>3. \A f \in Frames(started, "anon") : f.item \in started
    BY DEF Frames
  <2>4. \A f \in wire' : f \in wire \/ f.item \in written \/ f.item \in started
    BY <1>1, <2>2, <2>3
  <2>. QED
    BY <2>1, <2>4 DEF Sent
<1>8. InTurn(queue, Sent)'
  <2>1. \A r \in q, s \in Sent' : r.device = s.device /\ r.ref < s.ref => ~Tied(r, s)
    BY <1>2, <1>5, <1>6, <1>7 DEF InTurn
  <2>. QED
    BY <1>1, <2>1 DEF InTurn
<1>9. \A r, s \in Inflight' : Apart(r, s)
  <2>1. \A s \in written : \A r \in (d0 \cup a0) \cap q : r.device = s.device
                            => Ephemeral(r) /\ ~Essential(s) /\ ~Essential(r)
    BY <1>2, <1>3, <1>b, CandidateInTurn DEF Ephemeral, Essential
  <2>2. \A s, r \in written : r.device = s.device => r = s
    BY <1>2, <1>3, CandidateInTurn
  <2>3. \A s \in started : \A r \in (d0 \cup a0 \cup written) \cap q : r.device = s.device
                            => Ephemeral(r) /\ ~Essential(s) /\ ~Essential(r)
    BY <1>2, <1>4, <1>b, CandidateInTurn DEF Ephemeral, Essential
  <2>4. \A s, r \in started : r.device = s.device => r = s
    BY <1>2, <1>4, CandidateInTurn
  <2>5. \A r, s \in (d0 \cup a0) \cap q : Apart(r, s)
    BY <1>2
  <2>6. Inflight' = (d0 \cup written \cup a0 \cup started) \cap q
    BY <1>1 DEF Inflight
  <2>. SUFFICES ASSUME NEW r \in Inflight', NEW s \in Inflight', r # s, r.device = s.device
                PROVE  (Ephemeral(r) \/ Ephemeral(s)) /\ ~Essential(r) /\ ~Essential(s)
    BY DEF Apart
  <2>7. CASE r \in started
    BY <2>3, <2>4, <2>6, <2>7
  <2>8. CASE s \in started
    BY <2>3, <2>4, <2>6, <2>8
  <2>9. CASE r \notin started /\ s \notin started
    <3>1. CASE r \in written
      BY <2>1, <2>2, <2>6, <2>9, <3>1
    <3>2. CASE s \in written
      BY <2>1, <2>2, <2>6, <2>9, <3>2
    <3>3. CASE r \notin written /\ s \notin written
      BY <2>5, <2>6, <2>9, <3>3 DEF Apart
    <3>. QED
      BY <3>1, <3>2, <3>3
  <2>. QED
    BY <2>7, <2>8, <2>9
<1>10. \A s \in queue' \cup Sent' \cup direct' \cup anon' : s.ref < nextRef'
  BY <1>1, <1>2, <1>5, <1>6, <1>7
<1>. QED
  BY <1>1, <1>2, <1>8, <1>9, <1>10 DEF OrderInv, Apart, Ephemeral, Essential

LEMMA SentType ==
  ASSUME TypeOK
  PROVE  Sent \subseteq Item /\ Accepted \subseteq Item
<1>1. Accepted \subseteq Item
  BY DEF TypeOK, Accepted
<1>2. {f.item : f \in wire} \subseteq Item
  BY DEF TypeOK
<1>. QED
  BY <1>1, <1>2 DEF Sent

\* Numbers tell the envelopes of a queue apart, so it is finite.
LEMMA QueueFinite ==
  ASSUME NEW q \in SUBSET Item, OneEach(q)
  PROVE  IsFiniteSet(q)
<1>. DEFINE number == [r \in q |-> r.ref]
<1>1. number \in Injection(q, 1 .. MaxRef)
  <2>1. \A r \in q : r.ref \in 1 .. MaxRef
    BY DEF Item
  <2>2. number \in [q -> 1 .. MaxRef]
    BY <2>1
  <2>3. \A r, s \in q : number[r] = number[s] => r = s
    BY DEF OneEach
  <2>. QED
    BY <2>2, <2>3 DEF Injection, IsInjective
<1>2. IsFiniteSet(1 .. MaxRef)
  BY OutboxAssumption, FS_Interval
<1>. QED
  BY <1>1, <1>2, FS_Injection

\* A step that at most forgets some of what is queued, sent or in flight.
LEMMA KeepsOrder ==
  ASSUME OrderInv, queue' \subseteq queue, Sent' \subseteq Sent,
         direct' \subseteq direct, anon' \subseteq anon, nextRef' = nextRef
  PROVE  OrderInv'
<1>1. OneEach(queue)'
  BY DEF OrderInv, OneEach
<1>2. \A s \in queue' \cup Sent' \cup direct' \cup anon' : s.ref < nextRef'
  BY DEF OrderInv
<1>3. InTurn(queue, Sent)'
  BY DEF OrderInv, InTurn, Tied, Essential
<1>4. Inflight' \subseteq Inflight
  BY DEF Inflight
<1>5. \A r, s \in Inflight' : Apart(r, s)'
  BY <1>4 DEF OrderInv, Apart, Ephemeral, Essential
<1>. QED
  BY <1>1, <1>2, <1>3, <1>5 DEF OrderInv

\* A flush of some of the queue, with some of what is in flight.
LEMMA FlushKeepsOrder ==
  ASSUME TypeOK, OrderInv, nextRef' = nextRef, log' = log,
         NEW q0 \in SUBSET queue, NEW d0 \in SUBSET direct, NEW a0 \in SUBSET anon, NEW b0,
         Flush(q0, d0, a0, b0, required)
  PROVE  OrderInv'
<1>1. q0 \in SUBSET Item
  BY DEF TypeOK
<1>2. OneEach(q0) /\ InTurn(q0, Sent)
  BY DEF OrderInv, OneEach, InTurn
<1>3. \A s \in q0 \cup Sent \cup d0 \cup a0 : s.ref < nextRef'
  BY DEF OrderInv
<1>4. \A r, s \in (d0 \cup a0) \cap q0 : Apart(r, s)
  BY DEF OrderInv, Inflight
<1>5. IsFiniteSet(q0)
  BY <1>1, <1>2, QueueFinite
<1>. QED
  BY <1>1, <1>2, <1>3, <1>4, <1>5, FlushInOrder

\* A fan-out takes numbers of its own, after those of all that went before.
LEMMA BatchInOrder ==
  ASSUME TypeOK, OrderInv, NEW t \in Thread, NEW c \in Class, Fits(t), NEW new \in Batches(t, c),
         nextRef' = nextRef + Cardinality(t)
  PROVE  /\ queue \cup new \in SUBSET Item /\ OneEach(queue \cup new)
         /\ \A s \in (queue \cup new) \cup Sent \cup direct \cup anon : s.ref < nextRef'
         /\ InTurn(queue \cup new, Sent)
         /\ (direct \cup anon) \cap (queue \cup new) \subseteq Inflight
<1>1. new \subseteq Item /\ Cardinality(t) \in Nat /\ nextRef \in Nat
  BY BatchType DEF TypeOK
<1>2. \A r \in new : r.ref \in nextRef .. nextRef + Cardinality(t) - 1
  BY DEF Batches
<1>3. \A r, s \in new : r.ref = s.ref => r = s
  BY DEF Batches
<1>4. \A s \in queue \cup Sent \cup direct \cup anon : s.ref \in Nat /\ s.ref < nextRef
  <2>1. queue \cup Sent \cup direct \cup anon \subseteq Item
    BY SentType DEF TypeOK
  <2>2. \A s \in Item : s.ref \in Nat
    BY DEF Item
  <2>. QED
    BY <2>1, <2>2 DEF OrderInv
<1>5. \A r \in new : r.ref \in Nat /\ nextRef <= r.ref /\ r.ref < nextRef'
  BY <1>1, <1>2
<1>6. OneEach(queue \cup new)
  BY <1>1, <1>3, <1>4, <1>5 DEF OneEach, OrderInv
<1>7. \A s \in (queue \cup new) \cup Sent \cup direct \cup anon : s.ref < nextRef'
  BY <1>1, <1>4, <1>5
<1>8. InTurn(queue \cup new, Sent)
  BY <1>1, <1>4, <1>5 DEF InTurn, OrderInv
<1>9. (direct \cup anon) \cap (queue \cup new) \subseteq Inflight
  BY <1>1, <1>4, <1>5 DEF Inflight
<1>. QED
  BY <1>1, <1>6, <1>7, <1>8, <1>9 DEF TypeOK

LEMMA UserKeepsOrder ==
  ASSUME TypeOK, OrderInv, User
  PROVE  OrderInv'
<1>. USE DEF outside, clock
<1>1. ASSUME NEW t \in Thread, NEW c \in Class, Send(t, c)
      PROVE  OrderInv'
  <2>1. PICK new \in Batches(t, c) : Flush(queue \cup new, direct, anon, backoff, required)
    BY <1>1 DEF Send
  <2>2. Fits(t) /\ nextRef' = nextRef + Cardinality(t) /\ log' = log
    BY <1>1 DEF Send
  <2>3. /\ queue \cup new \in SUBSET Item /\ OneEach(queue \cup new)
        /\ \A s \in (queue \cup new) \cup Sent \cup direct \cup anon : s.ref < nextRef'
        /\ InTurn(queue \cup new, Sent)
        /\ (direct \cup anon) \cap (queue \cup new) \subseteq Inflight
    BY <2>2, BatchInOrder
  <2>4. \A r, s \in (direct \cup anon) \cap (queue \cup new) : Apart(r, s)
    BY <2>3 DEF OrderInv
  <2>5. IsFiniteSet(queue \cup new)
    BY <2>3, QueueFinite
  <2>. QED
    BY <2>1, <2>2, <2>3, <2>4, <2>5, FlushInOrder
<1>2. ASSUME NEW t \in Thread, NEW c \in Class, SendOffline(t, c)
      PROVE  OrderInv'
  <2>1. PICK new \in Batches(t, c) : queue' = queue \cup new
    BY <1>2 DEF SendOffline
  <2>2. /\ Fits(t) /\ nextRef' = nextRef + Cardinality(t)
        /\ log' = log /\ wire' = wire /\ direct' = direct /\ anon' = anon
    BY <1>2 DEF SendOffline
  <2>3. /\ queue \cup new \in SUBSET Item /\ OneEach(queue \cup new)
        /\ \A s \in (queue \cup new) \cup Sent \cup direct \cup anon : s.ref < nextRef'
        /\ InTurn(queue \cup new, Sent)
        /\ (direct \cup anon) \cap (queue \cup new) \subseteq Inflight
    BY <2>2, BatchInOrder
  <2>4. Sent' = Sent
    BY <2>2 DEF Sent, Accepted
  <2>5. Inflight' \subseteq Inflight
    BY <2>1, <2>2, <2>3 DEF Inflight
  <2>6. \A r, s \in Inflight' : Apart(r, s)'
    BY <2>5 DEF OrderInv, Apart, Ephemeral, Essential
  <2>7. InTurn(queue, Sent)' /\ OneEach(queue)'
    BY <2>1, <2>3, <2>4 DEF InTurn, OneEach, Tied, Essential
  <2>8. \A s \in queue' \cup Sent' \cup direct' \cup anon' : s.ref < nextRef'
    BY <2>1, <2>2, <2>3, <2>4
  <2>. QED
    BY <2>6, <2>7, <2>8 DEF OrderInv
<1>3. ASSUME NEW m, DeleteMessage(m)
      PROVE  OrderInv'
  <2>. DEFINE R == {r \in queue : r.msg = m /\ r.class \in {"text", "media"}}
  <2>1. Flush(queue \ R, direct \ R, anon \ R, backoff, required) /\ nextRef' = nextRef /\ log' = log
    BY <1>3 DEF DeleteMessage, Removed
  <2>2. queue \ R \in SUBSET queue /\ direct \ R \in SUBSET direct /\ anon \ R \in SUBSET anon
    OBVIOUS
  <2>. HIDE DEF R
  <2>. QED
    BY <2>1, <2>2, FlushKeepsOrder
<1>4. ASSUME NEW t, GroupForget(t)
      PROVE  OrderInv'
  <2>. DEFINE R == {r \in queue : r.thread = t}
  <2>1. Flush(queue \ R, direct \ R, anon \ R, backoff, required) /\ nextRef' = nextRef /\ log' = log
    BY <1>4 DEF GroupForget, Removed
  <2>2. queue \ R \in SUBSET queue /\ direct \ R \in SUBSET direct /\ anon \ R \in SUBSET anon
    OBVIOUS
  <2>. HIDE DEF R
  <2>. QED
    BY <2>1, <2>2, FlushKeepsOrder
<1>5. ASSUME NEW R, RemoveLocally(R)
      PROVE  OrderInv'
  BY <1>5, KeepsOrder DEF RemoveLocally, Removed, Sent, Accepted
<1>6. ASSUME NEW d, SetBlocked(d)
      PROVE  OrderInv'
  BY <1>6, KeepsOrder DEF SetBlocked, Sent, Accepted
<1>7. ASSUME PrivacyMaximize
      PROVE  OrderInv'
  BY <1>7, KeepsOrder DEF PrivacyMaximize, Forget, Sent, Accepted
<1>8. ASSUME NEW p, StartSession(p)
      PROVE  OrderInv'
  BY <1>8, KeepsOrder DEF StartSession, Sent, Accepted
<1>. QED
  BY <1>1, <1>2, <1>3, <1>4, <1>5, <1>6, <1>7, <1>8
     DEF User, ClearConversation, DeleteConversation

LEMMA EventKeepsOrder ==
  ASSUME TypeOK, OrderInv, Event
  PROVE  OrderInv'
<1>. USE DEF outside, clock
<1>1. CASE Connect
  BY <1>1, FlushKeepsOrder DEF Connect
<1>2. CASE Disconnect \/ DirectTimeout
  BY <1>2, KeepsOrder DEF Disconnect, DirectTimeout, Forget, Sent, Accepted
<1>3. CASE Wake
  BY <1>3, FlushKeepsOrder DEF Wake
<1>4. ASSUME NEW r, SendOk(r)
      PROVE  OrderInv'
  <2>. DEFINE q0 == IF r \in direct THEN queue \ {r} ELSE queue
  <2>1. Flush(q0, direct \ {r}, anon, backoff, required) /\ nextRef' = nextRef /\ log' = log
    BY <1>4 DEF SendOk
  <2>2. q0 \in SUBSET queue /\ direct \ {r} \in SUBSET direct
    OBVIOUS
  <2>. HIDE DEF q0
  <2>. QED
    BY <2>1, <2>2, FlushKeepsOrder
<1>5. ASSUME NEW r, NEW ok, TaskEnds(r, ok)
      PROVE  OrderInv'
  BY <1>5, KeepsOrder DEF TaskEnds, Sent, Accepted
<1>6. ASSUME NEW o, OnOutcome(o)
      PROVE  OrderInv'
  <2>1. queue \ {o.item} \in SUBSET queue /\ anon \ {o.item} \in SUBSET anon
    OBVIOUS
  <2>. QED
    BY <1>6, <2>1, FlushKeepsOrder DEF OnOutcome
<1>7. ASSUME NEW r, RetryDue(r)
      PROVE  OrderInv'
  BY <1>7, FlushKeepsOrder DEF RetryDue
<1>. QED
  BY <1>1, <1>2, <1>3, <1>4, <1>5, <1>6, <1>7 DEF Event

LEMMA WorldKeepsOrder ==
  ASSUME TypeOK, OrderInv, World
  PROVE  OrderInv'
<1>. USE DEF outside, clock
<1>1. ASSUME NEW r, Expire(r) \/ Age(r)
      PROVE  OrderInv'
  BY <1>1, KeepsOrder DEF Expire, Age, Sent, Accepted
<1>2. ASSUME NEW f \in wire, RelayAccepts(f)
      PROVE  OrderInv'
  <2>1. Accepted' \subseteq Accepted \cup {f.item}
    <3>1. log \in Seq(Item)
      BY DEF TypeOK
    <3>. QED
      BY <1>2, <3>1 DEF RelayAccepts, Accepted
  <2>2. wire' \subseteq wire /\ f.item \in Sent
    BY <1>2 DEF RelayAccepts, Sent
  <2>3. Sent' \subseteq Sent
    BY <2>1, <2>2 DEF Sent
  <2>. QED
    BY <1>2, <2>3, KeepsOrder DEF RelayAccepts
<1>3. ASSUME NEW f, Lose(f)
      PROVE  OrderInv'
  BY <1>3, KeepsOrder DEF Lose, Sent, Accepted
<1>. QED
  BY <1>1, <1>2, <1>3 DEF World

\* What is tied to an older envelope of the queue was not accepted before it,
\* whatever is lost, repeated or delayed, and one envelope at a time is in flight to
\* a device, signals aside: the barriers of ready() are enough.
THEOREM InOrderHolds == Spec => []InOrder
<1>1. ASSUME Init
      PROVE  OrderInv
  <2>1. DOMAIN << >> = {}
    OBVIOUS
  <2>2. Accepted = {} /\ wire = {}
    BY <1>1, <2>1 DEF Init, Accepted
  <2>. QED
    BY <1>1, <2>2 DEF Init, OrderInv, OneEach, InTurn, Inflight, Sent
<1>2. TypeOK /\ OrderInv /\ [Next]_vars => OrderInv'
  <2>. SUFFICES ASSUME TypeOK, OrderInv, [Next]_vars
                PROVE  OrderInv'
    OBVIOUS
  <2>1. CASE UNCHANGED vars
    BY <2>1, KeepsOrder DEF vars, outside, Sent, Accepted
  <2>. QED
    BY <2>1, UserKeepsOrder, EventKeepsOrder, WorldKeepsOrder DEF Next
<1>3. OrderInv => InOrder
  BY DEF OrderInv, InOrder, InTurn, Tied, Apart, Sent
<1>. QED
  BY <1>1, <1>2, <1>3, OutboxTypes, PTL DEF Spec

-----------------------------------------------------------------------------
(***************************************************************************)
(* The supply of the anonymous sends (module Supply): what pump sleeps     *)
(* until, whatever the letters, the tickets and the sockets are.           *)
(***************************************************************************)
Boxes == [Note -> {"none", "waiting", "flying"}]
Purses == [fresh : Nat, stale : BOOLEAN, until : Clock, asked : Nat]
Pools == [good : Nat, dead : Nat, old : Nat, warming : Nat, aborted : Nat, pause : Clock]

SupplyTypes ==
  /\ linked \in BOOLEAN /\ need \in BOOLEAN /\ wanted \in BOOLEAN /\ boosted \in BOOLEAN
  /\ box \in Boxes /\ retry \in [Note -> Clock]
  /\ purse \in Purses /\ pool \in Pools
  /\ muted \subseteq Note /\ short \in Nat

\* Who is blocked is blocked with all that waits for him.
MutedByDevice == \A n \in muted, m \in Note : Heading[m] = Heading[n] => m \in muted

SupplyInv == SupplyTypes /\ MutedByDevice /\ NeverAsleep

\* The bounds are numbers above zero.
LEMMA BoundsAreNumbers ==
  /\ Flights \in Nat /\ Flights > 0 /\ LowMark \in Nat /\ LowMark > 0
  /\ PoolSize \in Nat /\ PoolSize > 0 /\ PoolMax \in Nat /\ PoolMax > 0
  /\ PurseMax \in Nat /\ Batch \in Nat
BY SupplyAssumption

\* A purse without a fresh ticket has asked for some.
LEMMA RequestedIs ==
  ASSUME NEW p \in Purses
  PROVE  /\ Requested(p) \in Purses
         /\ Requested(p).fresh = p.fresh /\ ~Requested(p).stale
         /\ p.fresh = 0 => Requested(p).until = "armed"
<1>1. /\ p.fresh \in Nat /\ p.until \in Clock /\ p.asked \in Nat
      /\ DOMAIN p = {"fresh", "stale", "until", "asked"}
  BY DEF Purses
<1>2. Less(p.asked + 1, 2) \in Nat
  BY <1>1 DEF Less
<1>3. p.fresh = 0 => p.fresh < LowMark
  BY BoundsAreNumbers
<1>. QED
  BY <1>1, <1>2, <1>3 DEF Requested, Purses, Clock

\* A pool that is looked after and has no socket is building one, or pauses.
LEMMA MaintainedIs ==
  ASSUME NEW q \in Pools, NEW boost \in BOOLEAN, NEW s \in Nat
  PROVE  /\ Maintained(q, boost, s) \in Pools
         /\ Maintained(q, boost, s).good = q.good
         /\ need /\ q.good = 0 =>
              /\ Prepared(Maintained(q, boost, s)) = 0
              /\ \/ Building(Maintained(q, boost, s)) > 0
                 \/ Maintained(q, boost, s).pause # "none"
<1>1. /\ q.good \in Nat /\ q.dead \in Nat /\ q.old \in Nat /\ q.warming \in Nat
      /\ q.aborted \in Nat /\ q.pause \in Clock
  BY DEF Pools
<1>2. Target(boost, s) \in Nat /\ Target(boost, s) > 0
  BY BoundsAreNumbers DEF Target, Less
<1>. DEFINE swept == [q EXCEPT !.dead = 0, !.old = 0]
<1>3. /\ swept \in Pools /\ swept.good = q.good /\ swept.dead = 0 /\ swept.old = 0
      /\ swept.warming = q.warming /\ swept.aborted = q.aborted /\ swept.pause = q.pause
  BY <1>1 DEF Pools
<1>4. CASE ~need
  BY <1>4 DEF Maintained
<1>5. CASE need /\ q.pause = "armed"
  <2>1. Maintained(q, boost, s) = swept
    BY <1>5 DEF Maintained
  <2>. HIDE DEF swept
  <2>. QED
    BY <1>3, <1>5, <2>1 DEF Prepared
<1>6. CASE need /\ q.pause # "armed"
  <2>. DEFINE w == AtLeast0(Target(boost, s) - swept.good - Building(swept))
  <2>1. w \in Nat /\ (q.good = 0 => w + q.warming + q.aborted > 0)
    BY <1>1, <1>2, <1>3 DEF AtLeast0, Building
  <2>2. Maintained(q, boost, s) = [swept EXCEPT !.pause = "none", !.warming = @ + w]
    BY <1>6 DEF Maintained
  <2>. HIDE DEF swept, w
  <2>. DEFINE M == [swept EXCEPT !.pause = "none", !.warming = @ + w]
  <2>3. /\ DOMAIN swept = {"good", "dead", "old", "warming", "aborted", "pause"}
        /\ q.warming + w \in Nat
    BY <1>1, <1>3, <2>1 DEF Pools
  <2>4. /\ M.good = q.good /\ M.dead = 0 /\ M.old = 0
        /\ M.warming = q.warming + w /\ M.aborted = q.aborted /\ M.pause = "none"
    BY <1>3, <2>3
  <2>5. M \in Pools
    BY <1>1, <1>3, <2>3 DEF Pools, Clock
  <2>. HIDE DEF M
  <2>. QED
    BY <1>1, <2>1, <2>2, <2>4, <2>5 DEF Prepared, Building, M
<1>. QED
  BY <1>4, <1>5, <1>6

\* The letters a flush may start with wait, and are some if any may stand for its
\* device while there is a free slot.
LEMMA ChoicesAre ==
  ASSUME NEW b \in Boxes, NEW r, NEW C \in Choices(b, r)
  PROVE  /\ C \subseteq In(b, "waiting")
         /\ IsFiniteSet(C) /\ Cardinality(C) \in Nat
         /\ C = {} /\ In(b, "flying") = {} => Standing(b, r) = {}
<1>. DEFINE S == Standing(b, r)
            H == {Heading[n] : n \in S}
            free == AtLeast0(Flights - Cardinality(In(b, "flying")))
<1>1. C \subseteq S /\ Cardinality(C) = Less(free, Cardinality(H))
  BY DEF Choices
<1>2. S \subseteq In(b, "waiting") /\ S \subseteq Note
  BY DEF Standing, In
<1>3. IsFiniteSet(S) /\ IsFiniteSet(C) /\ Cardinality(C) \in Nat
  BY <1>1, <1>2, SupplyAssumption, FS_Subset, FS_CardinalityType
<1>4. ASSUME C = {}, In(b, "flying") = {}, S # {} PROVE FALSE
  <2>1. Cardinality(C) = 0 /\ Cardinality(In(b, "flying")) = 0
    BY <1>4, FS_EmptySet
  <2>2. free = Flights
    BY <2>1, BoundsAreNumbers DEF AtLeast0
  <2>3. IsFiniteSet(H)
    <3>. DEFINE f == [n \in S |-> Heading[n]]
    <3>1. f \in Surjection(S, H)
      BY DEF Surjection
    <3>. QED
      BY <1>3, <3>1, FS_Surjection
  <2>4. Cardinality(H) \in Nat /\ Cardinality(H) # 0
    <3>1. H # {}
      BY <1>4
    <3>. HIDE DEF H
    <3>. QED
      BY <2>3, <3>1, FS_CardinalityType, FS_EmptySet
  <2>. QED
    BY <1>1, <2>1, <2>2, <2>4, BoundsAreNumbers DEF Less
<1>. QED
  BY <1>1, <1>2, <1>3, <1>4

\* Whatever is handled on a connection, the flush that ends it leaves every letter
\* it does not send something to wake up for.
LEMMA RefillWakes ==
  ASSUME linked' \in BOOLEAN, need \in BOOLEAN, need' = need, boosted' \in BOOLEAN,
         muted' \subseteq Note, MutedByDevice', short \in Nat,
         NEW b \in Boxes, NEW r \in [Note -> Clock], NEW p \in Purses, NEW q \in Pools,
         Refill(b, r, p, q)
  PROVE  SupplyInv'
<1>. DEFINE kept == [n \in Note |-> IF b[n] = "none" THEN "none" ELSE r[n]]
            held == Requested(p)
            first == Maintained(q, boosted', short)
<1>1. /\ retry' = kept /\ wanted' = (\E n \in Note : b[n] # "none")
      /\ kept \in [Note -> Clock]
  BY DEF Refill, Clock
<1>2. CASE ~wanted'
  <2>1. box' = b /\ purse' = p /\ pool' = q /\ short' = short
    BY <1>2 DEF Refill
  <2>2. SupplyTypes'
    BY <1>1, <2>1 DEF SupplyTypes
  <2>3. In(box', "waiting") = {}
    BY <1>1, <1>2, <2>1 DEF In
  <2>. QED
    BY <2>2, <2>3 DEF SupplyInv, NeverAsleep
<1>3. CASE wanted'
  <2>1. PICK C \in Choices(b, kept) : \E S \in SUBSET C :
          LET n == Affordable(Cardinality(C), held, first) IN
          /\ Cardinality(S) = n
          /\ box' = [k \in Note |-> IF k \in S THEN "flying" ELSE b[k]]
          /\ purse' = [held EXCEPT !.fresh = @ - n]
          /\ short' = Cardinality(C) - n
          /\ pool' = Maintained([first EXCEPT !.good = IF need THEN @ - n ELSE @], boosted', short')
    BY <1>3 DEF Refill
  <2>0. PICK S \in SUBSET C :
          LET n == Affordable(Cardinality(C), held, first) IN
          /\ Cardinality(S) = n
          /\ box' = [k \in Note |-> IF k \in S THEN "flying" ELSE b[k]]
          /\ purse' = [held EXCEPT !.fresh = @ - n]
          /\ short' = Cardinality(C) - n
          /\ pool' = Maintained([first EXCEPT !.good = IF need THEN @ - n ELSE @], boosted', short')
    BY <2>1
  <2>. DEFINE c == Cardinality(C)
              n == Affordable(c, held, first)
              left == [first EXCEPT !.good = IF need THEN @ - n ELSE @]
  <2>2. /\ C \subseteq In(b, "waiting") /\ IsFiniteSet(C) /\ c \in Nat
        /\ C = {} /\ In(b, "flying") = {} => Standing(b, kept) = {}
    BY ChoicesAre
  <2>3. /\ held \in Purses /\ held.fresh \in Nat /\ held.until \in Clock /\ ~held.stale
        /\ held.fresh = 0 => held.until = "armed"
    BY RequestedIs DEF Purses
  <2>4. first \in Pools /\ first.good = q.good /\ q.good \in Nat
    BY MaintainedIs DEF Pools
  <2>. HIDE DEF kept, held, first
  <2>5. /\ n \in Nat /\ n <= c /\ n <= held.fresh /\ (need => n <= first.good)
        /\ n = 0 /\ c > 0 => held.fresh = 0 \/ (need /\ first.good = 0)
    BY <2>2, <2>3, <2>4 DEF Affordable, Less
  <2>6. /\ box' = [k \in Note |-> IF k \in S THEN "flying" ELSE b[k]]
        /\ purse' = [held EXCEPT !.fresh = @ - n] /\ short' = c - n
        /\ pool' = Maintained(left, boosted', short') /\ Cardinality(S) = n
    BY <2>0
  <2>. HIDE DEF c, n
  <2>7. left \in Pools /\ left.good = (IF need THEN first.good - n ELSE first.good)
    <3>1. (IF need THEN first.good - n ELSE first.good) \in Nat
      BY <2>4, <2>5
    <3>. QED
      BY <2>4, <3>1 DEF Pools
  <2>8. short' \in Nat
    BY <2>2, <2>5, <2>6 DEF c
  <2>. HIDE DEF left
  <2>9. /\ pool' \in Pools /\ pool'.good = left.good
        /\ need /\ left.good = 0 =>
             Prepared(pool') = 0 /\ (Building(pool') > 0 \/ pool'.pause # "none")
    BY <2>6, <2>7, <2>8, MaintainedIs
  <2>10. /\ purse' \in Purses /\ purse'.fresh = held.fresh - n
         /\ purse'.until = held.until /\ ~purse'.stale
    <3>1. held.fresh - n \in Nat
      BY <2>3, <2>5
    <3>. QED
      BY <2>3, <2>6, <3>1 DEF Purses
  <2>11. SupplyTypes'
    <3>1. box' \in Boxes
      BY <2>6 DEF Boxes
    <3>. QED
      BY <1>1, <1>3, <2>8, <2>9, <2>10, <3>1 DEF SupplyTypes
  <2>12. ASSUME NEW k \in In(box', "waiting") \ muted' PROVE Woken(k)'
    <3>1. k \in Note /\ k \notin S /\ b[k] = "waiting" /\ k \in In(b, "waiting")
      BY <2>6, <2>12 DEF In
    <3>2. CASE In(box', "flying") # {}
      BY <3>2 DEF Woken
    <3>3. CASE In(box', "flying") = {}
      <4>1. S = {} /\ n = 0 /\ In(b, "flying") = {} /\ box' = b
        <5>1. S = {}
          <6>1. S \subseteq Note
            BY <2>2 DEF In
          <6>. QED
            BY <2>6, <3>3, <6>1 DEF In
        <5>2. n = 0
          BY <2>6, <5>1, FS_EmptySet
        <5>3. box' = b
          BY <2>6, <5>1 DEF Boxes
        <5>. QED
          BY <3>3, <5>1, <5>2, <5>3
      <4>2. CASE held.fresh = 0
        <5>1. ~HasTickets(purse')
          BY <2>3, <2>5, <2>10, <4>1, <4>2 DEF HasTickets
        <5>2. Deadline'.request # "none"
          BY <1>3, <2>3, <2>10, <4>2 DEF Deadline
        <5>. QED
          BY <5>1, <5>2 DEF Woken
      <4>3. CASE need /\ left.good = 0
        <5>1. Prepared(pool') = 0 /\ (Building(pool') > 0 \/ pool'.pause # "none")
          BY <2>9, <4>3
        <5>2. Deadline'.pause = pool'.pause
          BY DEF Deadline
        <5>. QED
          BY <4>3, <5>1, <5>2 DEF Woken
      <4>4. CASE held.fresh # 0 /\ ~(need /\ left.good = 0)
        <5>1. HasTickets(purse') /\ (need => Prepared(pool') > 0)
          <6>1. purse'.fresh > 0
            BY <2>3, <2>10, <4>1, <4>4
          <6>2. need => pool'.good > 0
            BY <2>4, <2>7, <2>9, <4>1, <4>4
          <6>3. pool'.good \in Nat /\ pool'.dead \in Nat /\ pool'.old \in Nat
            BY <2>9 DEF Pools
          <6>. QED
            BY <6>1, <6>2, <6>3 DEF HasTickets, Prepared
        <5>2. c = 0
          BY <2>2, <2>5, <2>7, <4>1, <4>4 DEF c
        <5>3. Standing(b, kept) = {}
          BY <2>2, <4>1, <5>2, FS_EmptySet DEF c
        <5>4. k \notin muted' /\ k \notin In(b, "flying")
          BY <2>12, <4>1
        <5>5. PICK m \in Note : Heading[m] = Heading[k] /\ b[m] # "none" /\ kept[m] = "armed"
          <6>1. CASE k \in Busy(b, kept)
            <7>1. kept[k] = "armed"
              BY <5>4, <6>1 DEF Busy
            <7>. QED
              BY <3>1, <7>1
          <6>2. CASE k \notin Busy(b, kept)
            <7>1. PICK m \in Busy(b, kept) : b[m] # "none" /\ Heading[m] = Heading[k]
              BY <3>1, <5>3, <6>2 DEF Standing
            <7>2. m \in Note
              BY <7>1 DEF Busy, In
            <7>3. m \notin muted'
              BY <3>1, <5>4, <7>1 DEF MutedByDevice
            <7>4. kept[m] = "armed"
              BY <4>1, <7>1, <7>3 DEF Busy
            <7>. QED
              BY <7>1, <7>2, <7>4
          <6>. QED
            BY <6>1, <6>2
        <5>6. m \in Retries'
          <6>1. Cardinality(In(box', "flying")) < Flights
            BY <3>3, FS_EmptySet, BoundsAreNumbers
          <6>2. box'[m] # "flying" /\ retry'[m] # "none"
            BY <1>1, <3>3, <5>5 DEF In
          <6>. QED
            BY <1>3, <5>1, <6>1, <6>2 DEF Retries
        <5>. QED
          BY <5>5, <5>6 DEF Woken
      <4>. QED
        BY <4>2, <4>3, <4>4
    <3>. QED
      BY <3>2, <3>3
  <2>. QED
    BY <2>11, <2>12 DEF SupplyInv, NeverAsleep
<1>. QED
  BY <1>1, <1>2, <1>3

\* Time, and what changes neither letters nor deadlines, puts none to sleep.
LEMMA WokenStays ==
  ASSUME NeverAsleep, linked' => linked, UNCHANGED <<box, muted, need, wanted>>,
         HasTickets(purse') = HasTickets(purse), purse'.until = "none" => purse.until = "none",
         Prepared(pool') = Prepared(pool), Building(pool') = Building(pool),
         pool'.pause = "none" => pool.pause = "none",
         \A n \in Note : retry[n] # "none" => retry'[n] # "none"
  PROVE  NeverAsleep'
<1>. SUFFICES ASSUME linked', NEW n \in In(box, "waiting") \ muted PROVE Woken(n)'
  BY DEF NeverAsleep
<1>1. Woken(n)
  BY DEF NeverAsleep
<1>2. Retries \subseteq Retries'
  BY DEF Retries
<1>3. /\ Deadline.request # "none" => Deadline'.request # "none"
      /\ Deadline.pause # "none" => Deadline'.pause # "none"
  BY DEF Deadline
<1>. QED
  BY <1>1, <1>2, <1>3 DEF Woken

\* One step.
LEMMA SupplyStepInv == SupplyInv /\ [SupplyNext]_supplyVars => SupplyInv'
<1>. SUFFICES ASSUME SupplyInv, [SupplyNext]_supplyVars PROVE SupplyInv'
  OBVIOUS
<1>. DEFINE Goal == SupplyInv'
<1>1. /\ linked \in BOOLEAN /\ need \in BOOLEAN /\ wanted \in BOOLEAN /\ boosted \in BOOLEAN
      /\ box \in Boxes /\ retry \in [Note -> Clock] /\ muted \subseteq Note /\ short \in Nat
  BY DEF SupplyInv, SupplyTypes
<1>2. /\ purse \in Purses /\ purse.fresh \in Nat /\ purse.stale \in BOOLEAN
      /\ purse.until \in Clock /\ purse.asked \in Nat
  BY DEF SupplyInv, SupplyTypes, Purses
<1>3. /\ pool \in Pools /\ pool.good \in Nat /\ pool.dead \in Nat /\ pool.old \in Nat
      /\ pool.warming \in Nat /\ pool.aborted \in Nat /\ pool.pause \in Clock
  BY DEF SupplyInv, SupplyTypes, Pools
<1>4. MutedByDevice /\ NeverAsleep
  BY DEF SupplyInv
<1>5. ASSUME linked' \in BOOLEAN, need' = need, boosted' \in BOOLEAN, muted' = muted,
             NEW b \in Boxes, NEW r \in [Note -> Clock], NEW p \in Purses, NEW q \in Pools,
             Refill(b, r, p, q)
      PROVE  Goal
  <2>1. MutedByDevice'
    BY <1>4, <1>5 DEF MutedByDevice
  <2>. QED
    BY <1>1, <1>5, <2>1, RefillWakes
<1>6. ASSUME UNCHANGED <<linked, need, box, muted, wanted>>, boosted' \in BOOLEAN, short' = short,
             purse' \in Purses, pool' \in Pools, retry' \in [Note -> Clock],
             HasTickets(purse') = HasTickets(purse), purse'.until = "none" => purse.until = "none",
             Prepared(pool') = Prepared(pool), Building(pool') = Building(pool),
             pool'.pause = "none" => pool.pause = "none",
             \A n \in Note : retry[n] # "none" => retry'[n] # "none"
      PROVE  Goal
  <2>1. SupplyTypes'
    BY <1>1, <1>6 DEF SupplyTypes
  <2>2. MutedByDevice'
    BY <1>4, <1>6 DEF MutedByDevice
  <2>3. NeverAsleep'
    BY <1>4, <1>6, WokenStays
  <2>. QED
    BY <2>1, <2>2, <2>3 DEF SupplyInv
<1>7. ASSUME ~linked', muted' = muted, SupplyTypes' PROVE Goal
  BY <1>4, <1>7 DEF SupplyInv, MutedByDevice, NeverAsleep
<1>. HIDE DEF Goal
<1>8. ASSUME NEW n \in Note, Enqueue(n) \/ Leave(n) PROVE Goal
  <2>1. PICK v \in {"none", "waiting"} :
          /\ UNCHANGED <<linked, need, muted, boosted>>
          /\ IF linked THEN Refill([box EXCEPT ![n] = v], retry, purse, pool)
             ELSE box' = [box EXCEPT ![n] = v] /\ UNCHANGED <<retry, wanted, purse, pool, short>>
    BY <1>8 DEF Enqueue, Leave, Same
  <2>2. [box EXCEPT ![n] = v] \in Boxes
    BY <1>1 DEF Boxes
  <2>3. CASE linked
    BY <1>1, <1>2, <1>3, <1>5, <2>1, <2>2, <2>3
  <2>4. CASE ~linked
    BY <1>1, <1>2, <1>3, <1>7, <2>1, <2>2, <2>4 DEF SupplyTypes
  <2>. QED
    BY <1>1, <2>3, <2>4
<1>9. ASSUME NEW n \in Note, Mute(n) PROVE Goal
  <2>1. /\ UNCHANGED <<linked, need, boosted>>
        /\ Refill(box, retry, purse, pool)
    BY <1>9 DEF Mute
  <2>2. muted' \subseteq Note /\ MutedByDevice'
    BY <1>1, <1>4, <1>9 DEF Mute, MutedByDevice
  <2>. QED
    BY <1>1, <1>2, <1>3, <2>1, <2>2, RefillWakes DEF Goal
<1>10. ASSUME Typing PROVE Goal
  <2>1. /\ boosted' = TRUE /\ UNCHANGED <<linked, need, muted>>
        /\ Refill(box, retry, Requested(purse), Maintained(pool, TRUE, short))
    BY <1>10 DEF Typing
  <2>2. Requested(purse) \in Purses /\ Maintained(pool, TRUE, short) \in Pools
    BY <1>1, <1>2, <1>3, RequestedIs, MaintainedIs
  <2>. QED
    BY <1>1, <1>5, <2>1, <2>2
<1>11. ASSUME NEW g \in 0 .. Batch, TakeGrant(g) PROVE Goal
  <2>. DEFINE p == [fresh |-> Less(purse.fresh + g, PurseMax), stale |-> FALSE,
                    until |-> IF g > 0 THEN "none" ELSE purse.until, asked |-> purse.asked - 1]
  <2>1. /\ UNCHANGED <<linked, need, muted, boosted>> /\ purse.asked > 0
        /\ Refill(box, retry, p, pool)
    BY <1>11 DEF TakeGrant, Same
  <2>2. Less(purse.fresh + g, PurseMax) \in Nat /\ purse.asked - 1 \in Nat
    BY <1>2, <2>1, BoundsAreNumbers DEF Less
  <2>3. p \in Purses
    BY <1>2, <2>2 DEF Purses, Clock
  <2>. HIDE DEF p
  <2>. QED
    BY <1>1, <1>3, <1>5, <2>1, <2>3
<1>12. ASSUME GrantDenied PROVE Goal
  <2>1. /\ purse' = [purse EXCEPT !.asked = @ - 1] /\ purse.asked > 0
        /\ UNCHANGED <<linked, need, muted, boosted, box, retry, wanted, pool, short>>
    BY <1>12 DEF GrantDenied, Same
  <2>2. purse' \in Purses
    BY <1>2, <2>1 DEF Purses
  <2>3. purse'.fresh = purse.fresh /\ purse'.stale = purse.stale /\ purse'.until = purse.until
    BY <1>2, <2>1 DEF Purses
  <2>. QED
    BY <1>1, <1>3, <1>6, <2>1, <2>2, <2>3 DEF HasTickets
<1>13. ASSUME NEW good \in BOOLEAN, Built(good) PROVE Goal
  <2>. DEFINE q0 == [pool EXCEPT !.warming = @ - 1]
              q == IF good THEN [q0 EXCEPT !.good = @ + 1] ELSE [q0 EXCEPT !.pause = "armed"]
  <2>1. /\ UNCHANGED <<linked, need, muted, boosted>> /\ pool.warming > 0
        /\ Refill(box, retry, purse, q)
    BY <1>13 DEF Built, Same
  <2>2. q0 \in Pools
    BY <1>3, <2>1 DEF Pools
  <2>. HIDE DEF q0
  <2>3. q \in Pools
    BY <2>2 DEF Pools, Clock
  <2>. HIDE DEF q
  <2>. QED
    BY <1>1, <1>2, <1>5, <2>1, <2>3
<1>14. ASSUME JoinAborted PROVE Goal
  <2>. DEFINE q == [pool EXCEPT !.aborted = @ - 1, !.pause = "armed"]
  <2>1. /\ UNCHANGED <<linked, need, muted, boosted>> /\ pool.aborted > 0
        /\ Refill(box, retry, purse, q)
    BY <1>14 DEF JoinAborted, Same
  <2>2. q \in Pools
    <3>1. pool.aborted - 1 \in Nat
      BY <1>3, <2>1
    <3>. QED
      BY <1>3, <3>1 DEF Pools, Clock
  <2>. HIDE DEF q
  <2>. QED
    BY <1>1, <1>2, <1>5, <2>1, <2>2
<1>15. ASSUME NEW n \in Note, Lands(n) PROVE Goal
  <2>1. [box EXCEPT ![n] = "none"] \in Boxes
    BY <1>1 DEF Boxes
  <2>. QED
    BY <1>1, <1>2, <1>3, <1>5, <1>15, <2>1 DEF Lands, Same
<1>16. ASSUME NEW n \in Note, Fails(n) PROVE Goal
  <2>1. PICK k \in 0 .. pool.good :
          Refill([box EXCEPT ![n] = "waiting"], [retry EXCEPT ![n] = "armed"], purse,
                 [pool EXCEPT !.good = @ - k, !.dead = @ + k])
    BY <1>16 DEF Fails
  <2>2. [box EXCEPT ![n] = "waiting"] \in Boxes /\ [retry EXCEPT ![n] = "armed"] \in [Note -> Clock]
    BY <1>1 DEF Boxes, Clock
  <2>. DEFINE q == [pool EXCEPT !.good = @ - k, !.dead = @ + k]
  <2>3. q \in Pools
    <3>1. pool.good - k \in Nat /\ pool.dead + k \in Nat
      BY <1>3
    <3>. QED
      BY <1>3, <3>1 DEF Pools
  <2>4. Refill([box EXCEPT ![n] = "waiting"], [retry EXCEPT ![n] = "armed"], purse, q)
    BY <2>1
  <2>. HIDE DEF q
  <2>. QED
    BY <1>1, <1>2, <1>5, <1>16, <2>2, <2>3, <2>4 DEF Fails, Same
<1>17. ASSUME Maintenance \/ Heartbeat PROVE Goal
  BY <1>1, <1>2, <1>3, <1>5, <1>17 DEF Maintenance, Heartbeat, Same
<1>18. ASSUME NEW n \in Note, RetryFalls(n) PROVE Goal
  <2>1. /\ retry' = [retry EXCEPT ![n] = "due"] /\ retry[n] = "armed"
        /\ UNCHANGED <<linked, need, muted, boosted, box, wanted, purse, pool, short>>
    BY <1>18 DEF RetryFalls, Same
  <2>2. retry' \in [Note -> Clock] /\ \A m \in Note : retry[m] # "none" => retry'[m] # "none"
    BY <1>1, <2>1 DEF Clock
  <2>. QED
    BY <1>1, <1>2, <1>3, <1>6, <2>1, <2>2
<1>19. ASSUME RequestFalls PROVE Goal
  <2>1. /\ purse' = [purse EXCEPT !.until = "due"]
        /\ UNCHANGED <<linked, need, muted, boosted, box, retry, wanted, pool, short>>
    BY <1>19 DEF RequestFalls, Same
  <2>2. purse' \in Purses
    BY <1>2, <2>1 DEF Purses, Clock
  <2>3. purse'.fresh = purse.fresh /\ purse'.stale = purse.stale /\ purse'.until = "due"
    BY <1>2, <2>1 DEF Purses
  <2>. QED
    BY <1>1, <1>3, <1>6, <2>1, <2>2, <2>3 DEF HasTickets
<1>20. ASSUME TicketsExpire PROVE Goal
  <2>1. /\ purse.fresh > 0 /\ purse' = [purse EXCEPT !.fresh = 0, !.stale = TRUE]
        /\ UNCHANGED <<linked, need, muted, boosted, box, retry, wanted, pool, short>>
    BY <1>20 DEF TicketsExpire, Same
  <2>2. purse' \in Purses
    BY <1>2, <2>1 DEF Purses
  <2>3. purse'.stale = TRUE /\ purse'.until = purse.until
    BY <1>2, <2>1 DEF Purses
  <2>4. HasTickets(purse') /\ HasTickets(purse)
    BY <2>1, <2>3 DEF HasTickets
  <2>5. HasTickets(purse') = HasTickets(purse)
    <3>1. HasTickets(purse') \in BOOLEAN /\ HasTickets(purse) \in BOOLEAN
      BY DEF HasTickets
    <3>. QED
      BY <2>4, <3>1
  <2>. QED
    BY <1>1, <1>3, <1>6, <2>1, <2>2, <2>3, <2>5
<1>21. ASSUME PauseEnds PROVE Goal
  <2>1. /\ pool' = [pool EXCEPT !.pause = "due"]
        /\ UNCHANGED <<linked, need, muted, boosted, box, retry, wanted, purse, short>>
    BY <1>21 DEF PauseEnds, Same
  <2>2. pool' \in Pools
    BY <1>3, <2>1 DEF Pools, Clock
  <2>3. /\ pool'.good = pool.good /\ pool'.dead = pool.dead /\ pool'.old = pool.old
        /\ pool'.warming = pool.warming /\ pool'.aborted = pool.aborted /\ pool'.pause = "due"
    BY <1>3, <2>1 DEF Pools
  <2>. QED
    BY <1>1, <1>2, <1>6, <2>1, <2>2, <2>3 DEF Prepared, Building
<1>22. ASSUME SocketAges \/ SocketDies PROVE Goal
  <2>1. /\ \/ pool' = [pool EXCEPT !.good = @ - 1, !.old = @ + 1]
           \/ pool' = [pool EXCEPT !.good = @ - 1, !.dead = @ + 1]
        /\ pool.good > 0
        /\ UNCHANGED <<linked, need, muted, boosted, box, retry, wanted, purse, short>>
    BY <1>22 DEF SocketAges, SocketDies, Same
  <2>2. pool' \in Pools
    <3>1. pool.good - 1 \in Nat /\ pool.old + 1 \in Nat /\ pool.dead + 1 \in Nat
      BY <1>3, <2>1
    <3>. QED
      BY <1>3, <2>1, <3>1 DEF Pools
  <2>3. /\ pool'.good = pool.good - 1
        /\ \/ pool'.dead = pool.dead /\ pool'.old = pool.old + 1
           \/ pool'.dead = pool.dead + 1 /\ pool'.old = pool.old
        /\ pool'.warming = pool.warming /\ pool'.aborted = pool.aborted /\ pool'.pause = pool.pause
    BY <1>3, <2>1 DEF Pools
  <2>4. Prepared(pool') = Prepared(pool) /\ Building(pool') = Building(pool)
    BY <1>3, <2>3 DEF Prepared, Building
  <2>. QED
    BY <1>1, <1>2, <1>6, <2>1, <2>2, <2>3, <2>4
<1>23. ASSUME BoostEnds PROVE Goal
  BY <1>1, <1>2, <1>3, <1>6, <1>23 DEF BoostEnds
<1>24. ASSUME LinkBreaks PROVE Goal
  <2>1. /\ linked' = FALSE /\ UNCHANGED <<need, muted, wanted, boosted, short>>
        /\ box' \in Boxes /\ retry' \in [Note -> Clock]
    BY <1>1, <1>24 DEF LinkBreaks, Boxes, Clock
  <2>2. purse' \in Purses
    BY <1>2, <1>24 DEF LinkBreaks, Purses, Clock
  <2>3. pool' \in Pools
    <3>1. Building(pool) \in Nat
      BY <1>3 DEF Building
    <3>2. \A a \in Nat : [NoPool EXCEPT !.aborted = a] \in Pools
      BY DEF NoPool, Pools, Clock
    <3>3. PICK a \in Nat : pool' = [NoPool EXCEPT !.aborted = a]
      BY <1>24, <3>1 DEF LinkBreaks
    <3>. QED
      BY <3>2, <3>3
  <2>. QED
    BY <1>1, <1>7, <2>1, <2>2, <2>3 DEF SupplyTypes
<1>25. ASSUME NEW onion \in BOOLEAN, NewSession(onion) PROVE Goal
  <2>1. purse' \in Purses /\ pool' \in Pools /\ retry' \in [Note -> Clock]
    BY <1>25 DEF NewSession, NoPurse, NoPool, Purses, Pools, Clock
  <2>. QED
    BY <1>1, <1>7, <1>25, <2>1 DEF NewSession, SupplyTypes
<1>26. ASSUME LinkUp PROVE Goal
  <2>. DEFINE p == [purse EXCEPT !.until = "none"]
  <2>1. p \in Purses
    BY <1>2 DEF Purses, Clock
  <2>2. linked' = TRUE /\ UNCHANGED <<need, muted, boosted>> /\ Refill(box, retry, Requested(p), pool)
    BY <1>26 DEF LinkUp
  <2>. HIDE DEF p
  <2>3. Requested(p) \in Purses
    BY <2>1, RequestedIs
  <2>. QED
    BY <1>1, <1>3, <1>5, <2>2, <2>3
<1>27. ASSUME UNCHANGED supplyVars PROVE Goal
  BY <1>1, <1>2, <1>3, <1>6, <1>27 DEF supplyVars
<1>28. ASSUME Letters PROVE Goal
  BY <1>8, <1>9, <1>15, <1>16, <1>28 DEF Letters
<1>29. ASSUME Answers \/ Builds \/ TimePasses PROVE Goal
  BY <1>11, <1>12, <1>13, <1>14, <1>18, <1>19, <1>20, <1>21, <1>22, <1>23, <1>29
  DEF Answers, Builds, TimePasses
<1>30. Goal
  BY <1>10, <1>17, <1>24, <1>25, <1>26, <1>27, <1>28, <1>29 DEF SupplyNext
<1>. QED
  BY <1>30 DEF Goal

\* Whatever the letters, the tickets and the sockets are: pump never sleeps beside
\* a letter that may be sent, without an event to come that wakes it.
THEOREM NeverAsleepHolds == Supplied => []NeverAsleep
<1>1. SupplyInit => SupplyInv
  <2>. SUFFICES ASSUME SupplyInit PROVE SupplyInv
    OBVIOUS
  <2>1. NoPurse \in Purses /\ NoPool \in Pools
    BY DEF NoPurse, NoPool, Purses, Pools, Clock
  <2>2. SupplyTypes
    BY <2>1 DEF SupplyInit, SupplyTypes, Boxes, Clock
  <2>3. MutedByDevice /\ NeverAsleep
    BY DEF SupplyInit, MutedByDevice, NeverAsleep
  <2>. QED
    BY <2>2, <2>3 DEF SupplyInv
<1>2. SupplyInv => NeverAsleep
  BY DEF SupplyInv
<1>. QED
  BY <1>1, <1>2, SupplyStepInv, PTL DEF Supplied
=============================================================================
